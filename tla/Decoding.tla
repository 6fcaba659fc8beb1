------------------------------ MODULE Decoding ------------------------------
(***************************************************************************)
(* How openszigno-core turns a dossier file back into the bytes of one     *)
(* document: parse.rs, decode.rs and decrypt/.                             *)
(*                                                                         *)
(* Octets are a record that says what they are and how many there are:     *)
(* "data", a "zip" archive, a "cms" message, a "dossier", a "certificate", *)
(* or "noise", which is what a wrong content key makes of a ciphertext.    *)
(* Every step returns octets, an Error or a Skip; a wrong key may give     *)
(* several, so the steps after it work on sets.                            *)
(***************************************************************************)
EXTENDS Naturals, Sequences

CONSTANTS
    MaxInputBytes, MaxDocuments, MaxBase64Chars, MaxDecodedBytes,
    MaxZipMembers, MaxExpandedBytes, MaxRatio,   \* Limits
    Namespaces,      \* ParseOptions.allowed_namespaces
    Ciphers          \* content_cipher: per name, key and block bytes, legacy

ASSUME DecodingAssumption ==
    /\ {MaxInputBytes, MaxDocuments, MaxBase64Chars, MaxDecodedBytes,
        MaxZipMembers, MaxExpandedBytes} \subseteq Nat
    /\ MaxRatio \in Nat \ {0}
    /\ \A c \in DOMAIN Ciphers : Ciphers[c].key \in Nat /\ Ciphers[c].block \in Nat \ {0}

Error(code) == [is |-> "error", why |-> code]
Skip(why)   == [is |-> "skip", why |-> why]
None        == [is |-> "none"]
Failed(o)   == o.is \in {"error", "skip"}

\* The ? operator: go on with Next(_) from what succeeded.
Then(outcomes, Continue(_)) ==
    UNION {IF Failed(o) THEN {o} ELSE Continue(o) : o \in outcomes}

First(S) == CHOOSE i \in S : \A j \in S : i <= j
Least(a, b) == IF a <= b THEN a ELSE b
CeilDiv(a, b) == (a + b - 1) \div b

-----------------------------------------------------------------------------
(* parse.rs.  Of a dossier: whether its text is XML, the namespace and the *)
(* documents; of a document: its DocumentProfiles, the declared sizes, the *)
(* transforms, the reference of the profile and the direct ds:Objects.     *)

HasProfile(document) == document.profiles > 0

\* Documents without a profile are skipped and have no index.
Documents(dossier) == SelectSeq(dossier.documents, HasProfile)

\* parse_source_size: absent is a warning, repeated, unreadable or outsized refused.
SizeFault(sizes) ==
    IF Len(sizes) = 0 THEN "none"
    ELSE IF Len(sizes) > 1 THEN "invalid_xml"
    ELSE IF sizes[1].unit = "unreadable" THEN "invalid_attribute"
    ELSE IF sizes[1].value > MaxDecodedBytes THEN "decoded_too_large"
    ELSE IF sizes[1].unit # "B" THEN "invalid_attribute"
    ELSE "none"

DocumentFault(document) ==
    IF document.profiles > 1 THEN "invalid_xml"
    ELSE IF SizeFault(document.sizes) # "none" THEN SizeFault(document.sizes)
    ELSE IF document.transforms = <<>> THEN "missing_element"
    ELSE IF Len(document.objects) # 1 THEN "invalid_xml"
    ELSE IF document.objects[1].id # document.refers THEN "unresolved_objref"
    ELSE IF document.objects[1].text.chars > MaxBase64Chars THEN "decoded_too_large"
    ELSE "none"

ParseFault(file) ==
    IF file.size > MaxInputBytes THEN "input_too_large"
    ELSE IF file.is # "dossier" \/ ~file.xml THEN "invalid_xml"
    ELSE IF file.namespace \notin Namespaces THEN "wrong_root"
    ELSE IF Len(file.documents) > MaxDocuments THEN "too_many_documents"
    ELSE LET docs == Documents(file)
             bad  == {i \in DOMAIN docs : DocumentFault(docs[i]) # "none"}
         IN IF bad = {} THEN "none" ELSE DocumentFault(docs[First(bad)])

-----------------------------------------------------------------------------
(* decode.rs: Base64 and ZIP.                                              *)

\* decode_base64.  The decoded size is first bounded by rounding up to whole
\* quanta, so a payload within two bytes of the limit may already be refused.
Base64Decoded(text) ==
    IF \/ text.chars > MaxBase64Chars
       \/ CeilDiv(text.chars, 4) * 3 > MaxDecodedBytes
    THEN Error("decoded_too_large")
    ELSE IF ~text.canonical THEN Error("invalid_base64")
    ELSE IF text.holds.size > MaxDecodedBytes THEN Error("decoded_too_large")
    ELSE text.holds

\* expanded > compressed * MaxRatio, without a product TLC cannot hold.
ExceedsRatio(expanded, compressed) ==
    expanded > 0 /\ CeilDiv(expanded, MaxRatio) > compressed

ExpandedLimit == Least(MaxExpandedBytes, MaxDecodedBytes)

\* What the headers of the archive already refuse.  "safe" is a regular
\* file's plain basename.
MemberFault(archive) ==
    LET member == archive.members[1] IN
    IF Len(archive.members) # 1 \/ Len(archive.members) > MaxZipMembers
    THEN "zip_member_limit"
    ELSE IF member.method # "supported" THEN "unsupported_zip_member"
    ELSE IF ~member.safe THEN "unsafe_zip_member"
    ELSE IF member.declared > ExpandedLimit THEN "zip_size_limit"
    ELSE IF ExceedsRatio(member.declared, Least(member.compressed, archive.size))
    THEN "zip_ratio_limit"
    ELSE "none"

\* What a reader that trusts the headers would do.
ExpandedOnTrust(archive) ==
    IF archive.is # "zip" THEN Error("invalid_zip")
    ELSE IF MemberFault(archive) # "none" THEN Error(MemberFault(archive))
    ELSE IF ~archive.members[1].intact THEN Error("invalid_zip")
    ELSE archive.members[1].holds

\* decode_zip: the headers may lie, so the limits are applied again to what
\* was read, at most one byte past the limit of it.
Expanded(archive) ==
    IF archive.is # "zip" THEN Error("invalid_zip")
    ELSE IF MemberFault(archive) # "none" THEN Error(MemberFault(archive))
    ELSE LET member == archive.members[1] IN
         IF member.holds.size > ExpandedLimit THEN Error("zip_size_limit")
         ELSE IF ~member.intact THEN Error("invalid_zip")
         ELSE IF ExceedsRatio(member.holds.size, Least(member.compressed, archive.size))
         THEN Error("zip_ratio_limit")
         ELSE member.holds

-----------------------------------------------------------------------------
(* decrypt/.  A key is its pair, its modulus in bytes, and the issuer and  *)
(* serial and the key identifier of its certificate.                       *)

Absent == "absent"

\* RecipientKey::matches.
Matches(key, rid) ==
    \/ rid.by = "issuer and serial" /\ rid.value = key.names
    \/ rid.by = "key identifier" /\ key.ski # Absent /\ rid.value = key.ski

\* oaep_padding: an absent hash or mask means SHA-1, the mask must be MGF1 of
\* the same hash, the label empty.
OaepHash(params) == IF params.hash = Absent THEN "sha1" ELSE params.hash
OaepMask(params) == IF params.mask = Absent THEN "sha1" ELSE params.mask
OaepSupported(params) ==
    /\ OaepMask(params) = OaepHash(params)
    /\ ~params.labelled
    /\ OaepHash(params) \in {"sha1", "sha256", "sha384", "sha512"}

TransportFault(transport) ==
    IF transport.oid = "rsaEncryption" THEN "none"
    ELSE IF transport.oid # "oaep" THEN "unsupported_cipher"
    ELSE IF ~transport.readable THEN "invalid_cms"
    ELSE IF OaepSupported(transport.params) THEN "none"
    ELSE "unsupported_cipher"

\* unwrap_pkcs1v15, unwrap_oaep, select and synthetic_key: a block that does
\* not carry a key of the cipher's length under this pair is answered with a
\* key nobody chose, never with an error.
OtherKey == <<"some other key">>
Unwrapped(info, key, bytes) ==
    IF /\ info.transport.oid = "rsaEncryption" => key.modulus >= bytes + 11
       /\ info.pair = key.pair
       /\ info.bytes = bytes
    THEN info.carries
    ELSE OtherKey

\* decrypt_content: a wrong key's padding is refused or, by chance, is one.
Deciphered(text, key, block) ==
    IF text.size = 0 \/ text.size % block # 0 THEN {Error("invalid_cms")}
    ELSE IF key = text.under
    THEN {text.holds}
    ELSE {Error("decrypt_failed")}
            \cup {[is |-> "noise", size |-> n] : n \in {text.size - block, text.size - 1}}

\* decrypt_cms: the first key-transport recipient the key's certificate is
\* named by decides.
Decrypted(message, key, allowLegacy) ==
    IF message.is # "cms" THEN {Error("invalid_cms")}
    ELSE IF message.type = "authEnvelopedData" THEN {Skip("unsupported_cipher")}
    ELSE IF message.type # "envelopedData" THEN {Error("invalid_cms")}
    ELSE
    LET mine == {i \in DOMAIN message.infos :
                    /\ message.infos[i].is = "ktri"
                    /\ Matches(key, message.infos[i].rid)}
        info   == message.infos[First(mine)]
        cipher == Ciphers[message.cipher]
        fault  == TransportFault(info.transport)
    IN  IF mine = {} THEN {Skip("no_matching_recipient")}
        ELSE IF message.cipher \notin DOMAIN Ciphers THEN {Skip("unsupported_cipher")}
        ELSE IF cipher.legacy /\ ~allowLegacy THEN {Skip("legacy_cipher")}
        ELSE IF fault = "unsupported_cipher" THEN {Skip(fault)}
        ELSE IF fault # "none" THEN {Error(fault)}
        ELSE IF message.iv # cipher.block \/ message.text = None
        THEN {Error("invalid_cms")}
        ELSE IF message.text.size > MaxDecodedBytes THEN {Error("decoded_too_large")}
        ELSE Deciphered(message.text, Unwrapped(info, key, cipher.key), cipher.block)

-----------------------------------------------------------------------------
(* The key of --decrypt-key, and the whole of one decoding.                *)

NoKey == [is |-> "key", pair |-> Absent]

\* RecipientKey::load and new: the private key first, then the certificate
\* given or else the one bundled with the key, which has to belong to it.
LoadedKey(material) ==
    LET certificate == IF material.given # None THEN material.given ELSE material.bundled
    IN  IF \/ material.form = "unreadable"
           \/ material.form = "encrypted" /\ material.passphrase # "right"
        THEN Error("invalid_decryption_key")
        ELSE IF certificate = None THEN Error("decryption_certificate_required")
        ELSE IF certificate.is # "certificate" \/ ~certificate.rsa
        THEN Error("invalid_decryption_certificate")
        ELSE IF certificate.pair # material.pair THEN Error("decryption_key_mismatch")
        ELSE [is |-> "key", pair |-> material.pair, modulus |-> certificate.modulus,
              names |-> certificate.names, ski |-> certificate.ski]

Chains == {<<"base64">>, <<"zip", "base64">>, <<"encrypt", "base64">>,
           <<"zip", "encrypt", "base64">>}
Uses(transforms, step) == \E i \in DOMAIN transforms : transforms[i] = step

\* decode_document_with_options: base64, then decryption, then expansion, and
\* the declared size, when there is one, against what came out.
Decoded(document, key, allowLegacy) ==
    LET chain == document.transforms
        Decrypt(o) == IF ~Uses(chain, "encrypt") THEN {o}
                      ELSE IF key = NoKey THEN {Skip("encrypted")}
                      ELSE Decrypted(o, key, allowLegacy)
        Expand(o)  == IF Uses(chain, "zip") THEN {Expanded(o)} ELSE {o}
        Sized(o)   == IF \A i \in DOMAIN document.sizes : document.sizes[i].value = o.size
                      THEN {o} ELSE {Error("source_size_mismatch")}
    IN  IF chain \notin Chains THEN {Skip("transform_chain")}
        ELSE Then(Then(Then({Base64Decoded(document.objects[1].text)},
                            Decrypt), Expand), Sized)

=============================================================================
