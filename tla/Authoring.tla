------------------------------ MODULE Authoring -----------------------------
(***************************************************************************)
(* `openszigno create`, and what `extract` makes of the file it wrote.     *)
(*                                                                         *)
(* commands/create.rs reads every input in turn (documents, embedded       *)
(* dossiers, recipient certificates), openszigno-author builds the dossier *)
(* in memory, and one new file is written.  Each input is inspected and    *)
(* then opened, and other programs may change it in between or later.      *)
(* Extract reads one document of any file, with any key: the files of      *)
(* others may be anything the format allows, and lie about it.             *)
(*                                                                         *)
(* Data carry, besides their size, the size they deflate to.  A title      *)
(* carries what the title rules and the media type table say of it.        *)
(***************************************************************************)
EXTENDS Decoding

CONSTANTS
    Disk,            \* what the files hold at first
    Output,          \* the file --output names
    Changes,         \* what others may write, as [file, holds]
    MaxChanges,      \* bound: how often they do
    Requests,        \* the command lines
    Materials,       \* what --decrypt-key and its companions may be
    MaxTotalBytes,   \* max_total_decoded_bytes
    MaxRecipientCertBytes,
    Registered,      \* the extensions mime.rs has a media type for
    ZipOverhead, CmsOverhead, InfoBytes, FrameBytes, DocumentBytes,
                     \* external: what the formats add to what they hold
    ESzignoNamespace

VARIABLES
    disk,            \* the files
    changes,         \* how often others changed them
    request,
    stage,           \* "inspect", "read", "write", "done", "failed"
    next,            \* the input it is at
    documents,       \* DossierSpec.documents so far
    recipients,      \* Encryption.recipients so far
    built,           \* the dossier to write
    outcome,         \* what create says
    reading          \* what the last extract was asked, and its answer

runVars == <<request, stage, next, documents, recipients, built, outcome>>
vars == <<disk, changes, runVars, reading>>

Init ==
    /\ disk = Disk
    /\ changes = 0
    /\ request \in Requests
    /\ stage = "inspect"
    /\ next = 1
    /\ documents = <<>>
    /\ recipients = <<>>
    /\ built = None
    /\ outcome = "running"
    /\ reading = None

-----------------------------------------------------------------------------
(* create.rs: build_spec.                                                  *)

Sources == request.documents \o request.embeds \o request.recipients
Source  == Sources[next]

Cap == CASE Source.kind = "document"  -> MaxDecodedBytes
         [] Source.kind = "embed"     -> MaxInputBytes
         [] Source.kind = "recipient" -> MaxRecipientCertBytes
TooLarge == IF Source.kind = "recipient" THEN "invalid_recipient_certificate"
                                         ELSE "decoded_too_large"

Fail(code) ==
    /\ stage' = "failed"
    /\ outcome' = code
    /\ UNCHANGED <<disk, changes, request, next, documents, recipients, built, reading>>

\* read_bounded, up to the first look at the size.
Inspect ==
    /\ stage = "inspect" /\ next <= Len(Sources)
    /\ IF disk[Source.file].is = "none" THEN Fail("io_error")
       ELSE IF disk[Source.file].size > Cap THEN Fail(TooLarge)
       ELSE /\ stage' = "read"
            /\ UNCHANGED <<disk, changes, request, next, documents, recipients,
                           built, outcome, reading>>

\* document_spec and embed_spec: an embedded dossier has to parse, and is
\* neither compressed nor encrypted.
Document(bytes) ==
    [bytes |-> bytes, title |-> Source.title,
     compress |-> Source.kind = "document" /\ request.zip,
     encrypt |-> Source.kind = "document"]

\* Recipient::from_certificate.
RecipientFault(bytes) ==
    IF bytes.is # "certificate" THEN "invalid_recipient_certificate"
    ELSE IF ~bytes.rsa THEN "unsupported_recipient_key" ELSE "none"

AcceptedAs(bytes) ==
    CASE Source.kind = "document"  -> "none"
      [] Source.kind = "embed"     -> ParseFault(bytes)
      [] Source.kind = "recipient" -> RecipientFault(bytes)

\* The rest of read_bounded, which reads at most one byte past the cap, and
\* what is made of what it read.
Read ==
    /\ stage = "read"
    /\ LET bytes == disk[Source.file] IN
       IF bytes.is = "none" THEN Fail("io_error")
       ELSE IF bytes.size > Cap THEN Fail(TooLarge)
       ELSE IF AcceptedAs(bytes) # "none" THEN Fail(AcceptedAs(bytes))
       ELSE /\ IF Source.kind = "recipient"
               THEN recipients' = Append(recipients, bytes) /\ UNCHANGED documents
               ELSE documents' = Append(documents, Document(bytes)) /\ UNCHANGED recipients
            /\ next' = next + 1
            /\ stage' = "inspect"
            /\ UNCHANGED <<disk, changes, request, built, outcome, reading>>

-----------------------------------------------------------------------------
(* openszigno-author: the payload of one document.                         *)

\* mime_for.
MimeFault(title) ==
    IF title.declared = "malformed" THEN "invalid_mime_type"
    ELSE IF title.declared = "none" /\ title.extension \notin Registered
    THEN "unknown_mime_type" ELSE "none"

\* compress without check_ratio, which is what packing alone would do.
PackedAsIs(bytes) ==
    [is |-> "zip", size |-> bytes.deflated + ZipOverhead,
     members |-> <<[method |-> "supported", safe |-> TRUE, declared |-> bytes.size,
                    compressed |-> bytes.deflated, intact |-> TRUE, holds |-> bytes]>>]

\* compress.
Packed(bytes) ==
    IF ExceedsRatio(bytes.size, Least(bytes.deflated, bytes.deflated + ZipOverhead))
    THEN Error("zip_ratio_limit") ELSE PackedAsIs(bytes)

\* encrypt: CONTENT_KEY_BYTES and BLOCK_BYTES.
ContentKeyBytes == 32
BlockBytes == 16

\* wrap: how small a modulus the padding leaves room in.
Wraps(certificate, oid) ==
    certificate.modulus >= ContentKeyBytes + (IF oid = "oaep" THEN 66 ELSE 11)

Transport(oid) ==
    IF oid = "oaep"
    THEN [oid |-> oid, readable |-> TRUE, params |-> [hash |-> "sha256", mask |-> "sha256", labelled |-> FALSE]]
    ELSE [oid |-> oid]

\* envelope: a fresh content key per document; the recipients are a DER set,
\* so their order is not the one they were given in.
Enveloped(payload, fresh, order) ==
    IF \E r \in DOMAIN recipients : ~Wraps(recipients[r], request.transport)
    THEN Error("unsupported_recipient_key")
    ELSE
    LET info(r) == [is |-> "ktri", rid |-> [by |-> "issuer and serial", value |-> r.names],
                    transport |-> Transport(request.transport),
                    pair |-> r.pair, bytes |-> ContentKeyBytes, carries |-> fresh]
        padded  == (payload.size \div BlockBytes + 1) * BlockBytes
    IN  [is |-> "cms", type |-> "envelopedData",
         size |-> padded + CmsOverhead + Len(recipients) * InfoBytes,
         infos |-> [i \in DOMAIN recipients |-> info(recipients[order[i]])],
         cipher |-> "aes256", iv |-> BlockBytes,
         text |-> [size |-> padded, under |-> fresh, holds |-> payload]]

Encrypts(document) == document.encrypt /\ recipients # <<>>

\* encode: zip? -> encrypt? -> base64.
Transforms(document) ==
    (IF document.compress THEN <<"zip">> ELSE <<>>)
    \o (IF Encrypts(document) THEN <<"encrypt">> ELSE <<>>) \o <<"base64">>

Encoded(i, order) ==
    LET document == documents[i]
        zipped   == IF document.compress THEN Packed(document.bytes) ELSE document.bytes
        payload  == IF ~Failed(zipped) /\ Encrypts(document)
                    THEN Enveloped(zipped, <<"fresh", i>>, order) ELSE zipped
        chars    == CeilDiv(payload.size, 3) * 4
    IN  IF document.bytes.size > MaxDecodedBytes THEN Error("decoded_too_large")
        ELSE IF Failed(payload) THEN payload
        ELSE IF chars > MaxBase64Chars THEN Error("decoded_too_large")
        ELSE [is |-> "text", chars |-> chars, canonical |-> TRUE, holds |-> payload]

-----------------------------------------------------------------------------
(* openszigno-author: build, and render.rs.                                *)

SumTo(sizes, n) ==
    LET sum[i \in 0..n] == IF i = 0 THEN 0 ELSE sum[i - 1] + sizes[i] IN sum[n]

\* The checks on document i, in their order.
BuildFault(i, encoded) ==
    IF ~documents[i].title.safe THEN "unsafe_document_title"
    ELSE IF MimeFault(documents[i].title) # "none" THEN MimeFault(documents[i].title)
    ELSE IF SumTo([j \in 1..i |-> documents[j].bytes.size], i) > MaxTotalBytes
    THEN "total_size_limit"
    ELSE IF Failed(encoded[i]) THEN encoded[i].why ELSE "none"

SpecFault(encoded) ==
    IF request.dossierTitle = "refused" THEN "invalid_dossier_title"
    ELSE IF documents = <<>> THEN "no_documents"
    ELSE IF Len(documents) > MaxDocuments THEN "too_many_documents"
    ELSE LET bad == {i \in DOMAIN documents : BuildFault(i, encoded) # "none"}
         IN  IF bad = {} THEN "none" ELSE BuildFault(First(bad), encoded)

\* render.rs: dossier and document.  check_dossier_title looks for control
\* characters; U+FFFE and U+FFFF are none, and no characters of XML either.
Rendered(encoded) ==
    [is |-> "dossier", namespace |-> ESzignoNamespace,
     xml |-> request.dossierTitle # "noncharacter",
     size |-> FrameBytes
        + SumTo([i \in DOMAIN encoded |-> DocumentBytes + encoded[i].chars], Len(encoded)),
     documents |-> [i \in DOMAIN encoded |->
        [profiles |-> 1, refers |-> i,
         sizes |-> <<[value |-> documents[i].bytes.size, unit |-> "B"]>>,
         transforms |-> Transforms(documents[i]),
         objects |-> <<[id |-> i, text |-> encoded[i]]>>]]]

Orders == {o \in [DOMAIN recipients -> DOMAIN recipients] :
                \A a, b \in DOMAIN recipients : o[a] = o[b] => a = b}

Build ==
    /\ stage = "inspect" /\ next > Len(Sources)
    /\ \E order \in [DOMAIN documents -> Orders] :
        LET encoded == [i \in DOMAIN documents |-> Encoded(i, order[i])]
        IN  IF SpecFault(encoded) # "none" THEN Fail(SpecFault(encoded))
            ELSE /\ built' = Rendered(encoded)
                 /\ stage' = "write"
                 /\ UNCHANGED <<disk, changes, request, next, documents, recipients,
                                outcome, reading>>

\* write_new_file: a new file, whole, or none; or, where the write fails and the
\* removal too, the part that was written.
Write ==
    /\ stage = "write"
    /\ \/ /\ disk[Output].is # "none"
          /\ Fail("output_exists")
       \/ Fail("io_error")
       \/ /\ disk[Output].is = "none"
          /\ disk' = [disk EXCEPT ![Output] = [is |-> "part", size |-> built.size - 1]]
          /\ stage' = "failed" /\ outcome' = "io_error"
          /\ UNCHANGED <<changes, request, next, documents, recipients, built, reading>>
       \/ /\ disk[Output].is = "none"
          /\ disk' = [disk EXCEPT ![Output] = built]
          /\ stage' = "done"
          /\ outcome' = "created"
          /\ UNCHANGED <<changes, request, next, documents, recipients, built, reading>>

\* Others change the inputs, or take the output's name, while create runs.
Change ==
    /\ stage \notin {"done", "failed"} /\ changes < MaxChanges
    /\ \E c \in Changes : disk' = [disk EXCEPT ![c.file] = c.holds]
    /\ changes' = changes + 1
    /\ UNCHANGED <<runVars, reading>>

-----------------------------------------------------------------------------
(* extract of one document, by somebody with or without a key: the key is  *)
(* loaded before the dossier is touched.  It changes nothing, so one       *)
(* reading is enough for a behaviour.                                      *)

KeyOf(material) == IF material = None THEN NoKey ELSE LoadedKey(material)

Answers(file, key, i, legacy) ==
    IF Failed(key) THEN {key}
    ELSE IF ParseFault(file) # "none" THEN {Error(ParseFault(file))}
    ELSE Decoded(Documents(file)[i], key, legacy)

Extract ==
    /\ stage \in {"done", "failed"} /\ reading = None
    /\ \E f \in DOMAIN disk, material \in Materials, legacy \in BOOLEAN :
        /\ disk[f].is = "dossier"
        /\ \E i \in DOMAIN Documents(disk[f]) :
           \E answer \in Answers(disk[f], KeyOf(material), i, legacy) :
            reading' = [is |-> "reading", file |-> f, index |-> i,
                        key |-> KeyOf(material), answer |-> answer]
    /\ UNCHANGED <<disk, changes, runVars>>

Next == Inspect \/ Read \/ Build \/ Write \/ Change \/ Extract

Spec == Init /\ [][Next]_vars

-----------------------------------------------------------------------------
(* Properties.                                                             *)

TypeOK ==
    /\ stage \in {"inspect", "read", "write", "done", "failed"}
    /\ next \in 1..(Len(Sources) + 1)
    /\ changes \in 0..MaxChanges
    /\ (stage = "failed") = (outcome \notin {"running", "created"})
    /\ \A i \in DOMAIN documents : documents[i].encrypt \in BOOLEAN

Reading(f) == reading.is = "reading" /\ reading.file = f

Named(key) == {r \in DOMAIN recipients : recipients[r].names = key.names}

\* What was put into a dossier is what comes out of it, in its place, for
\* everyone it was written for and nobody else: a document in the clear for
\* all, an encrypted one for the key of a recipient no other recipient
\* shares issuer and serial with.  There are two exceptions, which `create`
\* writes without a word although lib.rs says "the returned bytes parse
\* under the same limits": a dossier larger than the reader opens, and one
\* whose title holds U+FFFE or U+FFFF (README, section 6).
ComesBackAsGiven ==
    (stage = "done" /\ Reading(Output) /\ ~Failed(reading.key)) =>
        LET given == documents[reading.index]
            key   == reading.key
        IN  IF disk[Output].size > MaxInputBytes
            THEN reading.answer = Error("input_too_large")
            ELSE IF request.dossierTitle = "noncharacter"
            THEN reading.answer = Error("invalid_xml")
            ELSE IF ~Encrypts(given) THEN reading.answer = given.bytes
            ELSE IF key = NoKey THEN reading.answer = Skip("encrypted")
            ELSE IF Named(key) = {} THEN reading.answer = Skip("no_matching_recipient")
            ELSE \A r \in Named(key) :
                    (Named(key) = {r} /\ recipients[r].pair = key.pair)
                        => reading.answer = given.bytes

\* No more is ever taken in or handed out than the limits say, whatever the
\* sizes declared, by a file that grows while it is read or an archive whose
\* headers lie: not of an input, not of a decoded document, and not beyond
\* the ratio to the text the document came in (create.rs read_bounded,
\* decode.rs decode_base64 and decode_zip).
WithinBounds ==
    /\ \A i \in DOMAIN documents :
        documents[i].bytes.size <=
            (IF documents[i].encrypt THEN MaxDecodedBytes ELSE MaxInputBytes)
    /\ (reading.is = "reading" /\ ~Failed(reading.answer)) =>
        LET document == Documents(disk[reading.file])[reading.index]
            size     == reading.answer.size
        IN  /\ size <= MaxDecodedBytes
            /\ ~ExceedsRatio(size, document.objects[1].text.chars)
            /\ \A i \in DOMAIN document.sizes : document.sizes[i].value = size

=============================================================================
