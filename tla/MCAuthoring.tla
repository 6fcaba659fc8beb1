---------------------------- MODULE MCAuthoring -----------------------------
(***************************************************************************)
(* Authoring with the limits of Limits::default(), inputs on both sides of *)
(* them, recipients of every kind, and one dossier of somebody else's that *)
(* has a document for every way of lying or failing the decoder answers.   *)
(***************************************************************************)
EXTENDS Authoring

KiB == 1024
MiB == 1024 * KiB

CipherTable ==
    [c \in {"aes128", "aes192", "aes256", "des3"} |->
        [key |-> CASE c = "aes128" -> 16 [] c = "aes256" -> 32 [] OTHER -> 24,
         block |-> IF c = "des3" THEN 8 ELSE 16, legacy |-> c = "des3"]]

Data(id, size, deflated) ==
    [is |-> "data", id |-> id, size |-> size, deflated |-> deflated]
Certificate(pair, names, ski, modulus) ==
    [is |-> "certificate", size |-> KiB, rsa |-> TRUE, pair |-> pair,
     names |-> names, ski |-> ski, modulus |-> modulus]

Anna  == Certificate("anna", "CA 1", "anna", 256)
Bela  == Certificate("bela", "CA 2", Absent, 256)
Twin  == Certificate("twin", "CA 1", "twin", 256)   \* Anna's issuer and serial
Short == Certificate("short", "CA 3", "short", 64)  \* 512 bits
Curve == [Certificate("curve", "CA 4", "curve", 32) EXCEPT !.rsa = FALSE]

-----------------------------------------------------------------------------
(* Somebody else's dossier.                                                *)

Base64(o) == [chars |-> CeilDiv(o.size, 3) * 4, canonical |-> TRUE, holds |-> o]
Theirs(transforms, sizes, text) ==
    [profiles |-> 1, refers |-> "o", sizes |-> sizes, transforms |-> transforms,
     objects |-> <<[id |-> "o", text |-> text]>>]
Of(n) == <<[value |-> n, unit |-> "B"]>>

Letter == Data("letter", 100, 90)
Member(declared, holds) ==
    [method |-> "supported", safe |-> TRUE, declared |-> declared,
     compressed |-> holds.deflated, intact |-> TRUE, holds |-> holds]
Zip(members) == [is |-> "zip", size |-> 2 * KiB, members |-> members]
Zipped(members) == Theirs(<<"zip", "base64">>, <<>>, Base64(Zip(members)))

ToAnna == [is |-> "ktri", rid |-> [by |-> "issuer and serial", value |-> "CA 1"],
           transport |-> [oid |-> "rsaEncryption"], pair |-> "anna", bytes |-> 32,
           carries |-> <<"key">>]
Oaep(hash, mask, labelled) ==
    [ToAnna EXCEPT !.transport = [oid |-> "oaep", readable |-> TRUE, params |->
        [hash |-> hash, mask |-> mask, labelled |-> labelled]]]
Message == [is |-> "cms", type |-> "envelopedData", size |-> 600, infos |-> <<ToAnna>>,
            cipher |-> "aes256", iv |-> 16,
            text |-> [size |-> 112, under |-> <<"key">>, holds |-> Letter]]
Sealed(message) == Theirs(<<"encrypt", "base64">>, <<>>, Base64(message))
SealedBy(info) == Sealed([Message EXCEPT !.infos = <<info>>])

LyingDossier ==
    <<[Theirs(<<"base64">>, <<>>, Base64(Letter)) EXCEPT !.profiles = 0],
      Theirs(<<"base64">>, Of(100), Base64(Letter)),
      Theirs(<<"base64">>, Of(99), Base64(Letter)),
      Theirs(<<"base64">>, <<>>, [Base64(Letter) EXCEPT !.canonical = FALSE]),
      Theirs(<<"encrypt", "zip", "base64">>, <<>>, Base64(Letter)),
      Theirs(<<"zip", "base64">>, <<>>, Base64(Letter)),
      Zipped(<<Member(100, Letter)>>),
      Zipped(<<Member(100, Letter), Member(100, Letter)>>),
      Zipped(<<[Member(100, Letter) EXCEPT !.safe = FALSE]>>),
      Zipped(<<[Member(100, Letter) EXCEPT !.method = "encrypted"]>>),
      Zipped(<<[Member(100, Letter) EXCEPT !.intact = FALSE]>>),
      Zipped(<<Member(65 * MiB, Letter)>>),
      Zipped(<<Member(100 * KiB, Data("zeros", 100 * KiB, 200))>>),
      Zipped(<<Member(100, Data("zeros", 300 * KiB, 200))>>),
      Zipped(<<Member(100, Data("zeros", 80 * MiB, 200))>>),
      Theirs(<<"encrypt", "base64">>, <<>>, Base64(Letter)),
      Sealed(Message),
      SealedBy([ToAnna EXCEPT !.rid = [by |-> "key identifier", value |-> "anna"]]),
      SealedBy([ToAnna EXCEPT !.is = "kari"]),
      SealedBy([ToAnna EXCEPT !.bytes = 16]),
      SealedBy([ToAnna EXCEPT !.pair = "bela"]),
      SealedBy([ToAnna EXCEPT !.transport = [oid |-> "dh"]]),
      SealedBy([ToAnna EXCEPT !.transport = [oid |-> "oaep", readable |-> FALSE]]),
      SealedBy(Oaep(Absent, Absent, FALSE)),
      SealedBy(Oaep("sha256", Absent, FALSE)),
      SealedBy(Oaep("sha256", "sha256", TRUE)),
      Sealed([Message EXCEPT !.cipher = "des3", !.iv = 8]),
      Sealed([Message EXCEPT !.cipher = "rc2"]),
      Sealed([Message EXCEPT !.iv = 8]),
      Sealed([Message EXCEPT !.text = None]),
      Sealed([Message EXCEPT !.text.size = 100]),
      Sealed([Message EXCEPT !.type = "authEnvelopedData"]),
      Sealed([Message EXCEPT !.type = "signedData"])>>

Dossier(docs) ==
    [is |-> "dossier", namespace |-> "es", xml |-> TRUE, size |-> 100 * KiB, documents |-> docs]
Plain == Theirs(<<"base64">>, Of(100), Base64(Letter))
Enclosed == Dossier(<<Plain>>)

-----------------------------------------------------------------------------
(* The command lines.                                                      *)

Title == [safe |-> TRUE, extension |-> "txt", declared |-> "none"]
In(file) == [kind |-> "document", file |-> file, title |-> Title]
To(file) == [kind |-> "recipient", file |-> file]
Embed(file) == [kind |-> "embed", file |-> file,
                title |-> [Title EXCEPT !.extension = "dosszie"]]
Request(in, embeds, to) ==
    [documents |-> in, embeds |-> embeds, recipients |-> to,
     zip |-> FALSE, transport |-> "oaep", dossierTitle |-> "plain"]
With(title) == Request(<<[In("note") EXCEPT !.title = title]>>, <<>>, <<>>)
Compressed(r) == [r EXCEPT !.zip = TRUE]
OldTransport(r) == [r EXCEPT !.transport = "rsaEncryption"]

MCRequests ==
    LET note == <<In("note")>> IN
    {Request(note, <<Embed("enclosed")>>, <<>>),
     Request(<<In("note"), In("scan")>>, <<>>, <<To("anna"), To("bela")>>),
     Compressed(Request(<<In("note"), In("scan")>>, <<Embed("enclosed")>>, <<To("bela")>>)),
     Compressed(Request(<<In("scan")>>, <<>>, <<>>)),
     Compressed(Request(<<In("zeros")>>, <<>>, <<>>)),
     Compressed(Request(<<In("edge")>>, <<>>, <<To("anna")>>)),
     Request(<<In("scan")>>, <<>>, <<>>),
     Request(<<In("edge"), In("edge"), In("edge"), In("edge"), In("note")>>, <<>>, <<>>),
     Request(note, <<>>, <<To("anna"), To("twin")>>),
     Request(note, <<>>, <<To("short")>>),
     OldTransport(Request(note, <<>>, <<To("short"), To("anna")>>)),
     Request(note, <<>>, <<To("curve")>>), Request(note, <<>>, <<To("note")>>),
     Request(<<>>, <<Embed("enclosed"), Embed("enclosed")>>, <<To("anna")>>),
     Request(<<>>, <<>>, <<>>), [Request(note, <<>>, <<>>) EXCEPT !.dossierTitle = "refused"],
     [Request(note, <<>>, <<To("anna")>>) EXCEPT !.dossierTitle = "noncharacter"],
     With([Title EXCEPT !.safe = FALSE]), With([Title EXCEPT !.extension = "odd"]),
     With([Title EXCEPT !.extension = "odd", !.declared = "given"]),
     With([Title EXCEPT !.declared = "malformed"])}

MCDisk ==
    [f \in {"note", "scan", "zeros", "edge", "enclosed", "anna", "bela", "twin", "short",
            "curve", "lying", "foreign", "broken", "out"} |->
        CASE f = "note"     -> Data("note", 22, 24)
          [] f = "scan"     -> Data("scan", 50 * MiB, 20 * MiB)
          [] f = "zeros"    -> Data("zeros", 100 * KiB, 200)
          [] f = "edge"     -> Data("edge", 64 * MiB, 64 * MiB + 20 * KiB)
          [] f = "enclosed" -> Enclosed
          [] f = "anna"     -> Anna
          [] f = "bela"     -> Bela
          [] f = "twin"     -> Twin
          [] f = "short"    -> Short
          [] f = "curve"    -> Curve
          [] f = "lying"    -> Dossier(LyingDossier)
          [] f = "foreign"  -> [Enclosed EXCEPT !.namespace = "other"]
          [] f = "broken"   -> Dossier(<<Plain, [Plain EXCEPT !.sizes = Of(65 * MiB)],
                                         [Plain EXCEPT !.profiles = 2],
                                         [Plain EXCEPT !.refers = "p"]>>)
          [] f = "out"      -> None]

MCChanges ==
    {[file |-> "note", holds |-> None],
     [file |-> "note", holds |-> Data("grown", 70 * MiB, 70 * MiB)],
     [file |-> "scan", holds |-> Data("edited", 30, 31)],
     [file |-> "enclosed", holds |-> Data("edited", 30, 31)],
     [file |-> "enclosed", holds |-> [Enclosed EXCEPT !.size = 70 * MiB]],
     [file |-> "anna", holds |-> Data("grown", 2 * MiB, MiB)],
     [file |-> "out", holds |-> Enclosed]}

Key(certificate) ==
    [form |-> "plain", passphrase |-> "none", pair |-> certificate.pair,
     given |-> certificate, bundled |-> None]
MCMaterials ==
    {None, Key(Anna), Key(Bela), Key(Twin), Key(Short),
     [Key(Bela) EXCEPT !.form = "encrypted", !.passphrase = "right",
                       !.given = None, !.bundled = Bela],
     [Key(Anna) EXCEPT !.form = "encrypted", !.passphrase = "wrong"],
     [Key(Anna) EXCEPT !.form = "unreadable"],
     [Key(Anna) EXCEPT !.given = None], [Key(Anna) EXCEPT !.given = Letter],
     [Key(Anna) EXCEPT !.given = Curve], [Key(Anna) EXCEPT !.given = Bela]}

MCNamespaces == {"es", "es compatible"}
MCRegistered == {"txt", "dosszie"}
=============================================================================
