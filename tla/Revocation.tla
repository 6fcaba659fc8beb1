----------------------------- MODULE Revocation -----------------------------
(***************************************************************************)
(* check_path_at (openszigno-verify, revocation/): is a certificate of one *)
(* chain revoked at the instant the chain is judged at?                    *)
(*                                                                         *)
(* For every link of the path check_certificate reads six tiers of         *)
(* evidence, what the signer embedded, the operator's store and what was   *)
(* fetched, refuses what it may not believe, gathers the definite answers  *)
(* and weighs them once all have been read.  summarise then folds the      *)
(* entries of the path into the one check a verdict sees.                  *)
(*                                                                         *)
(* An artefact is a record.  An OCSP response says something about the     *)
(* certificates its CertIDs match; a CRL lists the serials its issuer      *)
(* revoked.  Decoding is its outcome: `readable` is FALSE for bytes that   *)
(* are no response or CRL, or an unsuccessful response, and `scope` leaves *)
(* out every certificate a delta CRL, an extension nobody implements or a  *)
(* distribution point excludes.                                            *)
(***************************************************************************)
EXTENDS Integers, Sequences, FiniteSets

CONSTANTS
    Certs,        \* every certificate that plays a part
    Name,         \* per certificate, its subject DN
    IssuerName,   \* per certificate, its issuer DN
    Key,          \* per certificate, its public key
    SignedWith,   \* per certificate, the key its signature verifies under
    OcspSigning,  \* certificates with id-kp-OCSPSigning
    CrlSigning,   \* certificates whose keyUsage is absent or asserts cRLSign
    Valid,        \* per certificate, the instants inside its validity
    Anchored,     \* per certificate, the instants its OCSP path validates at
    Candidates,   \* the certificates the run holds, in order
    None,         \* an absent nextUpdate or producedAt
    Artefacts,    \* every artefact that may be offered
    Evidence,     \* bodies of evidence: for each tier, a sequence of artefacts
    Paths,        \* the paths that may be asked about, leaf first, anchor last
    Times,        \* instants
    MaxItems,     \* max_revocation_items, 256 in the code
    MaxOffered    \* max_certificates, 64 in the code

Tiers == <<"embedded_ocsp", "embedded_crl", "store_ocsp", "store_crl",
           "online_ocsp", "online_crl">>
TierNames == {Tiers[i] : i \in DOMAIN Tiers}

ASSUME PathsAssumption == Paths \subseteq Seq(Certs) /\ Candidates \in Seq(Certs)

ASSUME BoundsAssumption == MaxItems \in Nat /\ MaxOffered \in Nat

\* Instants are integers: UnixTime is an i64 and no arithmetic is done on it.
ASSUME EvidenceAssumption ==
    /\ Evidence \subseteq [TierNames -> Seq(Artefacts)]
    /\ Times \subseteq Int
    /\ \A a \in Artefacts : \A c \in Certs :
          a.kind = "ocsp" /\ a.readable /\ c \in DOMAIN a.about
          => a.produced \in Int /\ a.about[c].this \in Int /\ a.about[c].when \in Int
    /\ \A a \in Artefacts : a.kind = "crl" /\ a.readable
          => a.this \in Int /\ \A c \in DOMAIN a.listed : a.listed[c] \in Int
    /\ \A a \in Artefacts : a.kind \in {"ocsp", "crl"}
                          /\ (a.kind = "ocsp" /\ a.readable => a.carries \in Seq(Certs))

VARIABLES
    checked,   \* FALSE under --no-revocation
    proven,    \* the validation time came from a verified timestamp
    time,      \* the validation time of the chain
    path,      \* the validated path, <<>> if there is none
    data,      \* RevocationData
    pc,        \* where the check is
    link,      \* the certificate being answered for, path[link]
    tier, pos, \* what is read next
    fallback,  \* why there is no answer, as far as reading has come
    refused,   \* the first tier something was refused in
    definite,  \* the definite answers gathered for this certificate
    entries,   \* per_certificate
    disputed,  \* links whose sources gave different answers
    check      \* the outcome

question == <<checked, proven, time, path, data>>
reading  == <<tier, pos, fallback, refused, definite>>
outcome  == <<entries, disputed, check>>
vars == <<question, pc, link, reading, outcome>>
-----------------------------------------------------------------------------
(* Who may speak.                                                          *)

IssuedBy(c, ca) == IssuerName[c] = Name[ca] /\ SignedWith[c] = Key[ca]

TakenOf(items, limit) == IF Len(items) < limit THEN Len(items) ELSE limit

\* The responder certificates a response carries, then the run's own.
Offered(a) == SubSeq(a.carries, 1, TakenOf(a.carries, MaxOffered)) \o Candidates

\* c, named by the ResponderID, holds the key that signed the response.
Signed(a, c) == c \in a.names /\ a.key = Key[c]

\* A slip: a delegate needs no id-kp-OCSPSigning.
DelegatedToAnyone(a, ca) ==
    \E i \in DOMAIN Offered(a) : LET c == Offered(a)[i] IN
        /\ a.produced \in Valid[c] /\ IssuedBy(c, ca)
        /\ Signed(a, c)

\* RFC 6960 4.2.2.2: the issuing CA issued the responder's certificate.
Delegated(a, ca) ==
    \E i \in DOMAIN Offered(a) : LET c == Offered(a)[i] IN
        /\ c \in OcspSigning
        /\ a.produced \in Valid[c] /\ IssuedBy(c, ca)
        /\ Signed(a, c)

\* RFC 6960 2.2: the caller's own trust vouches for the responder.  A path is
\* searched once per key, so only for the first certificate that bears it.
Trusted(a) ==
    LET bearers == {i \in DOMAIN Offered(a) :
                        Offered(a)[i] \in OcspSigning /\ Signed(a, Offered(a)[i])}
    IN  \E i \in bearers :
            /\ \A j \in bearers : i <= j
            /\ a.produced \in Anchored[Offered(a)[i]]

ResponderModel(a, ca) ==
    CASE Signed(a, ca) -> "issuer"
      [] ~Signed(a, ca) /\ Delegated(a, ca) -> "delegated"
      [] ~Signed(a, ca) /\ ~Delegated(a, ca) /\ Trusted(a) -> "trusted"
      [] OTHER -> "none"

\* A CRL is signed by the CA, or by a certificate that CA issued under the name
\* of the CRL's issuer; either must be entitled to sign CRLs.
CrlSigned(a, ca, t) ==
    \/ ca \in CrlSigning /\ a.key = Key[ca]
    \/ \E i \in DOMAIN Candidates : LET c == Candidates[i] IN
        /\ Name[c] = a.issuer
        /\ t \in Valid[c]
        /\ IssuedBy(c, ca)
        /\ c \in CrlSigning /\ a.key = Key[c]
-----------------------------------------------------------------------------
(* What one artefact says of a certificate.                                *)

\* cert_id_matches, or the scope of a CRL by its issuer.
AppliesTo(a, c) ==
    a.readable => IF a.kind = "ocsp" THEN c \in DOMAIN a.about
                                           ELSE a.issuer = IssuerName[c]

\* What may be believed about c, whatever it says: within the size limit,
\* decodable, of a scope that covers c, and signed by someone entitled.
Believed(a, c, ca, t) ==
    /\ ~a.oversized
    /\ a.readable
    /\ IF a.kind = "ocsp" THEN ResponderModel(a, ca) # "none"
                             ELSE c \in a.scope /\ CrlSigned(a, ca, t)

\* Where an OCSP response speaks about each certificate, a CRL speaks once.
Window(a, c) == IF a.kind = "ocsp" THEN a.about[c] ELSE a

\* covers: no grace period, and no promise beyond thisUpdate without nextUpdate.
Fresh(a, c, t) ==
    LET w == Window(a, c)
    IN  IF w.next = None THEN w.this >= t ELSE w.next > t

Says(a, c) ==
    CASE a.kind = "ocsp" -> a.about[c].says
      [] a.kind = "crl" /\ c \in a.garbled -> "garbled"
      [] a.kind = "crl" /\ c \notin a.garbled /\ c \in DOMAIN a.listed -> "revoked"
      [] OTHER -> "good"

RevokedAt(a, c) == IF a.kind = "ocsp" THEN a.about[c].when ELSE a.listed[c]

\* The instant a source speaks for: producedAt if later than thisUpdate.
StatedAt(a, c) ==
    LET this == Window(a, c).this
    IN  IF a.kind = "ocsp" /\ a.produced > this THEN a.produced ELSE this

Answer(a, c, ca, from) ==
    [revoked |-> Says(a, c) = "revoked",
     when    |-> IF Says(a, c) = "revoked" THEN RevokedAt(a, c) ELSE None,
     stated  |-> StatedAt(a, c),
     model   |-> IF a.kind = "ocsp" THEN ResponderModel(a, ca) ELSE "none",
     from    |-> from]
\* A definite answer, of a source that may be believed and has not lapsed.
Usable(a, c, ca, t) ==
    /\ ~a.oversized /\ AppliesTo(a, c)
    /\ Believed(a, c, ca, t) /\ Fresh(a, c, t)
    /\ Says(a, c) \in {"good", "revoked"}
-----------------------------------------------------------------------------
\* `told` is the refused tier the entry's detail names, if it names one.
Entry(status, code, model, told) ==
    [status |-> status, code |-> code, model |-> model, told |-> told]
Plain(status, code) == Entry(status, code, "none", "none")
AnchorEntry == Plain("trust_anchor", "revocation_not_checked")
Check(status, code) == [status |-> status, code |-> code]

subject == path[link]
issuer  == path[link + 1]
item    == data[Tiers[tier]][pos]

Init ==
    /\ checked \in BOOLEAN /\ proven \in BOOLEAN
    /\ time \in Times
    /\ path \in Paths
    /\ data \in Evidence
    /\ pc = "start" /\ link = 1
    /\ tier = 1 /\ pos = 1 /\ fallback = "none" /\ refused = "none" /\ definite = <<>>
    /\ entries = <<>> /\ disputed = {}
    /\ check = Check("none", "none")

\* The caller switched revocation off: nothing is read, and the check says so.
SwitchedOff ==
    /\ pc = "start" /\ ~checked
    /\ pc' = "done"
    /\ entries' = [i \in DOMAIN path |->
                    IF i = Len(path) THEN AnchorEntry
                    ELSE Plain("not_checked", "revocation_not_checked")]
    /\ check' = Check("skipped", "revocation_not_checked")
    /\ UNCHANGED <<question, link, reading, disputed>>

\* Without a path there is no issuer to check anything against.
NoPath ==
    /\ pc = "start" /\ checked /\ Len(path) < 2
    /\ pc' = "done"
    /\ entries' = [i \in DOMAIN path |->
                    Plain("unknown", "revocation_status_unknown")]
    /\ check' = Check("unknown", "revocation_status_unknown")
    /\ UNCHANGED <<question, link, reading, disputed>>

Start ==
    /\ pc = "start" /\ checked /\ Len(path) >= 2
    /\ pc' = "read"
    /\ UNCHANGED <<question, link, reading, outcome>>

AtItem ==
    /\ pc = "read" /\ tier <= Len(Tiers)
    /\ pos <= TakenOf(data[Tiers[tier]], MaxItems)

Advance == pos' = pos + 1 /\ UNCHANGED <<question, pc, link, tier, outcome>>

\* NotApplicable: about some other certificate, and no finding.
Ignore ==
    /\ AtItem /\ ~item.oversized /\ ~AppliesTo(item, subject)
    /\ Advance /\ UNCHANGED <<fallback, refused, definite>>

\* record_refusal: the first refusal is remembered, and is the reason given
\* unless there is another.
Refuse ==
    /\ AtItem
    /\ \/ item.oversized
       \/ /\ AppliesTo(item, subject)
          /\ Believed(item, subject, issuer, time)
             => Fresh(item, subject, time) /\ Says(item, subject) = "garbled"
    /\ refused' = IF refused = "none" THEN Tiers[tier] ELSE refused
    /\ fallback' = IF fallback = "none" THEN "revocation_data_invalid" ELSE fallback
    /\ Advance /\ UNCHANGED definite

\* A slip: a reason already noted is not replaced.
NoteOnce(code) ==
    /\ Advance /\ UNCHANGED <<refused, definite>>
    /\ fallback' = IF fallback = "none" THEN code ELSE fallback

Note(code) ==
    /\ Advance /\ UNCHANGED <<refused, definite>>
    /\ fallback' = code

Stale ==
    /\ AtItem /\ AppliesTo(item, subject) /\ Believed(item, subject, issuer, time)
    /\ ~Fresh(item, subject, time)
    /\ Note("revocation_data_stale")

UnknownToResponder ==
    /\ AtItem /\ AppliesTo(item, subject) /\ Believed(item, subject, issuer, time)
    /\ Fresh(item, subject, time) /\ Says(item, subject) = "unknown"
    /\ Note("revocation_status_unknown_by_responder")

Gather ==
    /\ AtItem /\ Usable(item, subject, issuer, time)
    /\ definite' = Append(definite, Answer(item, subject, issuer, Tiers[tier]))
    /\ Advance /\ UNCHANGED <<fallback, refused>>

NextTier ==
    /\ pc = "read" /\ tier <= Len(Tiers)
    /\ pos > TakenOf(data[Tiers[tier]], MaxItems)
    /\ tier' = tier + 1 /\ pos' = 1
    /\ UNCHANGED <<question, pc, link, fallback, refused, definite, outcome>>

\* A slip: the answer of the first source read is the answer.
ChosenFirst(i) == i = 1 /\ definite # <<>>

\* choose: a revocation beats good; then the later statement; then the order of
\* reading.
Chosen(i) ==
    LET revoked == \E j \in DOMAIN definite : definite[j].revoked
        rivals  == {j \in DOMAIN definite : definite[j].revoked = revoked}
    IN  /\ i \in rivals
        /\ \A j \in rivals :
            \/ definite[j].stated < definite[i].stated
            \/ definite[j].stated = definite[i].stated /\ j >= i

EntryFor(answer) ==
    CASE ~answer.revoked -> Entry("good", "revocation_ok", answer.model, refused)
      [] answer.revoked /\ answer.when <= time ->
            Entry("revoked", "cert_revoked", answer.model, refused)
      [] OTHER ->
            Entry("revoked_after", "cert_revoked_after_validation_time",
                  answer.model, refused)

NextLink ==
    /\ tier' = 1 /\ pos' = 1 /\ fallback' = "none" /\ refused' = "none" /\ definite' = <<>>
    /\ link' = link + 1
    /\ pc' = IF link + 1 = Len(path) THEN "summarise" ELSE "read"
    /\ UNCHANGED <<question, check>>

\* A slip: only the first and the last answer are compared.
DisputedAtTheEnds ==
    definite # <<>> /\ definite[1].revoked # definite[Len(definite)].revoked

\* disagreement: some source recorded a revocation and another said good.
Disputed == \E i, j \in DOMAIN definite : definite[i].revoked # definite[j].revoked

\* Every tier is read: the answers of this certificate are weighed.
Weigh ==
    /\ pc = "read" /\ tier > Len(Tiers)
    /\ \E i \in DOMAIN definite :
        /\ Chosen(i)
        /\ entries' = Append(entries, EntryFor(definite[i]))
    /\ disputed' = IF Disputed THEN disputed \cup {link} ELSE disputed
    /\ NextLink

\* Nothing definite was found: the reason noted last stands.
Unanswered ==
    /\ pc = "read" /\ tier > Len(Tiers)
    /\ definite = <<>>
    /\ entries' = Append(entries,
         IF fallback = "none" THEN Plain("unknown", "revocation_status_unknown")
         ELSE Entry("unknown", fallback, "none",
                    IF fallback = "revocation_data_invalid" THEN refused ELSE "none"))
    /\ UNCHANGED disputed
    /\ NextLink

\* The findings that block, worst first.
Blocking == <<"revocation_data_invalid", "revocation_data_stale",
              "revocation_status_unknown_by_responder", "revocation_status_unknown">>

Has(status) == \E i \in DOMAIN entries : entries[i].status = status
HasCode(code) == \E i \in DOMAIN entries : entries[i].code = code

\* A slip: a revocation after the validation time is looked at first.
SummaryDismissingFirst(c) ==
    \/ Has("revoked_after") /\ proven
         /\ c = Check("info", "cert_revoked_after_validation_time")
    \/ ~Has("revoked_after") /\ Has("revoked") /\ c = Check("failed", "cert_revoked")
    \/ ~Has("revoked_after") /\ ~Has("revoked") /\ c = Check("passed", "revocation_ok")
    \/ Has("revoked_after") /\ ~proven
         /\ c = Check("unknown", "cert_revoked_after_validation_time")

Summary(c) ==
    \/ Has("revoked") /\ c = Check("failed", "cert_revoked")
    \/ /\ ~Has("revoked")
       /\ \E k \in DOMAIN Blocking :
            /\ HasCode(Blocking[k])
            /\ \A j \in 1 .. (k - 1) : ~HasCode(Blocking[j])
            /\ c = Check("unknown", Blocking[k])
    \/ /\ ~Has("revoked") /\ \A k \in DOMAIN Blocking : ~HasCode(Blocking[k])
       /\ Has("revoked_after")
       /\ c = Check(IF proven THEN "info" ELSE "unknown",
                    "cert_revoked_after_validation_time")
    \/ /\ ~Has("revoked") /\ \A k \in DOMAIN Blocking : ~HasCode(Blocking[k])
       /\ ~Has("revoked_after")
       /\ c = Check("passed", "revocation_ok")

Summarise ==
    /\ pc = "summarise"
    /\ \E s \in {"passed", "failed", "unknown", "info"} :
       \E k \in {"revocation_ok", "cert_revoked", "cert_revoked_after_validation_time"}
                  \cup {Blocking[b] : b \in DOMAIN Blocking} :
         /\ Summary(Check(s, k))
         /\ check' = Check(s, k)
    /\ entries' = Append(entries, AnchorEntry)
    /\ pc' = "done"
    /\ UNCHANGED <<question, link, reading, disputed>>

\* The informational notes that stand beside the check.
Notes ==
    {n \in {"ocsp_responder_trusted", "revocation_sources_disagree"} :
        IF n = "ocsp_responder_trusted"
        THEN \E i \in DOMAIN entries : entries[i].model = "trusted"
        ELSE disputed # {}}

Done == pc = "done" /\ UNCHANGED vars

Next ==
    \/ SwitchedOff \/ NoPath \/ Start
    \/ Ignore \/ Refuse \/ Stale \/ UnknownToResponder \/ Gather \/ NextTier
    \/ Weigh \/ Unanswered \/ Summarise
    \/ Done

Spec == Init /\ [][Next]_vars
-----------------------------------------------------------------------------
(* Properties.                                                             *)

Statuses == {"good", "revoked", "revoked_after", "unknown", "not_checked", "trust_anchor"}
Reasons  == {Blocking[b] : b \in DOMAIN Blocking}
Codes    == Reasons \cup {"revocation_ok", "cert_revoked", "revocation_not_checked",
                          "cert_revoked_after_validation_time"}
Models   == {"issuer", "delegated", "trusted", "none"}
MaybeTier == TierNames \cup {"none"}

Answers == [revoked : BOOLEAN, when : Int \cup {None}, stated : Int,
            model : Models, from : TierNames]
Entries == [status : Statuses, code : Codes, model : Models, told : MaybeTier]

\* The state stays within its types: links and tiers within the path and the six
\* sources, one entry per certificate answered for.
TypeOK ==
    /\ checked \in BOOLEAN /\ proven \in BOOLEAN
    /\ time \in Times /\ path \in Paths /\ data \in [TierNames -> Seq(Artefacts)]
    /\ pc \in {"start", "read", "summarise", "done"}
    /\ link \in Nat \ {0} /\ (pc = "start" => link = 1)
    /\ pc \in {"read", "summarise"} => checked /\ link <= Len(path)
    /\ pc = "read" => link < Len(path)
    /\ tier \in 1 .. Len(Tiers) + 1 /\ pos \in Nat \ {0}
    /\ fallback \in Reasons \cup {"none"} /\ refused \in MaybeTier
    /\ definite \in Seq(Answers)
    /\ entries \in Seq(Entries)
    /\ pc \in {"start", "read", "summarise"} => Len(entries) = link - 1
    /\ disputed \subseteq 1 .. Len(path)

\* The artefacts consulted: as many of each tier as the limit allows.
Consulted ==
    {x \in (DOMAIN Tiers) \X (1 .. MaxItems) : x[2] \in DOMAIN data[Tiers[x[1]]]}
At(x) == data[Tiers[x[1]]][x[2]]

UsableFor(k, a) == Usable(a, path[k], path[k + 1], time)

\* What all the sources together say of the certificate at link k.
Heard(k) ==
    {Answer(At(x), path[k], path[k + 1], Tiers[x[1]]) :
        x \in {y \in Consulted : UsableFor(k, At(y))}}

\* The links whose reading has ended.
Closed == IF checked THEN 1 .. (link - 1) ELSE {}

Latest(answers) == {a \in answers : \A b \in answers : b.stated <= a.stated}

\* The entry of link k is what all its sources together come to.
WeighedRight(k) ==
    LET heard       == Heard(k)
        revocations == {a \in heard : a.revoked}
    IN  /\ heard = {} <=> entries[k].status = "unknown"
        /\ heard # {} /\ revocations = {} =>
             /\ entries[k].status = "good"
             /\ \E a \in Latest(heard) : entries[k].model = a.model
        /\ revocations # {} => \E a \in Latest(revocations) :
             /\ entries[k].status = IF a.when <= time THEN "revoked" ELSE "revoked_after"
             /\ entries[k].model = a.model

\* The order of reading never decides: whatever the tiers and the order within
\* them, a certificate is reported good only if no usable source records a
\* revocation, revoked if one does, on the word of the source that speaks for
\* the latest instant, and unknown only if no usable source speaks at all.
AnswerIsTheWeightiest == \A k \in Closed : WeighedRight(k)

\* Whoever made this statement may speak of what ca issued: the key is the CA's,
\* or that of a certificate the CA issued for the purpose and that was valid, or,
\* for OCSP, of one the caller's anchors vouched for when it was produced.
SpeaksFor(a, ca) ==
    \E c \in Certs :
        /\ a.key = Key[c]
        /\ \/ c = ca
           \/ /\ a.kind = "ocsp" /\ c \in OcspSigning
              /\ \/ IssuedBy(c, ca) /\ a.produced \in Valid[c]
                 \/ a.produced \in Anchored[c]
           \/ /\ a.kind = "crl" /\ c \in CrlSigning
              /\ IssuedBy(c, ca) /\ time \in Valid[c]

\* Someone entitled says something of the certificate at link k that has not
\* lapsed at the validation time.
AnsweredFor(k) ==
    \E x \in Consulted :
        /\ AppliesTo(At(x), path[k]) /\ At(x).readable
        /\ SpeaksFor(At(x), path[k + 1])
        /\ LET w == Window(At(x), path[k]) IN w.next # None => w.next > time

\* A check that does not block stands, for every certificate of the path but the
\* anchor, on a statement that had not lapsed at the validation time, made by
\* someone entitled to make it; and a revocation is dismissed as later only when
\* a verified timestamp proves that time.
NothingPassesUnanswered ==
    check.status \in {"passed", "info"} =>
        /\ checked /\ Len(path) >= 2
        /\ \A k \in 1 .. Len(path) - 1 : AnsweredFor(k)
        /\ \A k \in DOMAIN entries : entries[k].status \notin {"revoked", "unknown"}
        /\ (\E k \in DOMAIN entries : entries[k].status = "revoked_after")
             => check.status = "info" /\ proven

\* What an artefact can be for the certificate at link k: about it, or too large
\* to tell; believed but lapsed; believed and current, of a responder that does
\* not know the certificate.
IsAbout(k, a) == a.oversized \/ AppliesTo(a, path[k])
Credible(k, a) == AppliesTo(a, path[k]) /\ Believed(a, path[k], path[k + 1], time)
Lapsed(k, a) == Credible(k, a) /\ ~Fresh(a, path[k], time)
Unknowing(k, a) ==
    Credible(k, a) /\ Fresh(a, path[k], time) /\ Says(a, path[k]) = "unknown"

ReasonEarned(k) ==
    LET Some(P(_, _)) == \E x \in Consulted : P(k, At(x))
        code == entries[k].code
    IN  entries[k].status = "unknown" =>
          /\ code = "revocation_status_unknown" <=> ~Some(IsAbout)
          /\ code = "revocation_data_invalid" => ~Some(Lapsed) /\ ~Some(Unknowing)
          /\ code = "revocation_data_stale" => Some(Lapsed)
          /\ code = "revocation_status_unknown_by_responder" => Some(Unknowing)

\* An unanswered certificate is given the reason the evidence has: nothing about
\* it at all, evidence that lapsed, a responder that does not know it, or, only
\* where everything offered was refused, a refusal.
ReasonsAreEarned == \A k \in Closed : ReasonEarned(k)

\* Sources that contradict one another about a certificate are reported, and only
\* they are.
DisputesAreReported ==
    pc = "done" =>
        ("revocation_sources_disagree" \in Notes
         <=> \E k \in Closed : \E a, b \in Heard(k) : a.revoked /\ ~b.revoked)

\* What the report adds to the answers is what the evidence has.
ReportIsFaithful == ReasonsAreEarned /\ DisputesAreReported

=============================================================================
