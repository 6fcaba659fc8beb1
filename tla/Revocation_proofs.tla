------------------------- MODULE Revocation_proofs -------------------------
(***************************************************************************)
(* For every path, body of evidence, validation time and limit: what is    *)
(* reported of a certificate is what all the consulted sources together    *)
(* come to, whatever order they were read in, a check that does not block  *)
(* has an entitled, current statement for every certificate, and the       *)
(* reasons and disputes reported are those the evidence has.               *)
(***************************************************************************)
EXTENDS Revocation, TLAPS

LEMMA TierFacts ==
    /\ Len(Tiers) = 6 /\ DOMAIN Tiers = 1 .. 6
    /\ \A t \in 1 .. 6 : Tiers[t] \in TierNames /\ Tiers[t] \in MaybeTier
<1>1. Len(Tiers) = 6 /\ DOMAIN Tiers = 1 .. 6
    BY DEF Tiers
<1> QED
    BY <1>1 DEF TierNames, MaybeTier

LEMMA BlockingFacts ==
    /\ Reasons = {"revocation_data_invalid", "revocation_data_stale",
                  "revocation_status_unknown_by_responder", "revocation_status_unknown"}
    /\ DOMAIN Blocking = 1 .. 4
<1>1. DOMAIN Blocking = 1 .. 4
    BY DEF Blocking
<1>2. /\ Blocking[1] = "revocation_data_invalid"
      /\ Blocking[2] = "revocation_data_stale"
      /\ Blocking[3] = "revocation_status_unknown_by_responder"
      /\ Blocking[4] = "revocation_status_unknown"
    BY DEF Blocking
<1>3. 1 .. 4 = {1, 2, 3, 4}
    OBVIOUS
<1> QED
    BY <1>1, <1>2, <1>3 DEF Reasons

LEMMA TakenFacts ==
    ASSUME NEW S, NEW items \in Seq(S)
    PROVE  /\ TakenOf(items, MaxItems) \in 0 .. Len(items)
           /\ TakenOf(items, MaxItems) <= MaxItems
           /\ \A p \in Nat : p <= TakenOf(items, MaxItems)
                             <=> p <= Len(items) /\ p <= MaxItems
BY BoundsAssumption DEF TakenOf

LEMMA ModelTyped ==
    ASSUME NEW a, NEW ca
    PROVE  ResponderModel(a, ca) \in Models
BY DEF ResponderModel, Models

\* The artefact and the certificates a reading step is about.
LEMMA AtHand ==
    ASSUME TypeOK, AtItem
    PROVE  /\ subject \in Certs /\ issuer \in Certs
           /\ tier \in 1 .. 6 /\ pos \in DOMAIN data[Tiers[tier]] /\ pos <= MaxItems
           /\ item \in Artefacts
<1>1. tier \in 1 .. 6 /\ Tiers[tier] \in TierNames
    BY TierFacts DEF TypeOK, AtItem
<1>2. data[Tiers[tier]] \in Seq(Artefacts)
    BY <1>1 DEF TypeOK
<1>3. pos \in DOMAIN data[Tiers[tier]] /\ pos <= MaxItems
    BY <1>2, TakenFacts DEF TypeOK, AtItem
<1>4. path \in Seq(Certs) /\ link \in 1 .. Len(path) /\ link + 1 \in 1 .. Len(path)
    BY PathsAssumption DEF TypeOK, AtItem
<1> QED
    BY <1>1, <1>2, <1>3, <1>4 DEF subject, issuer, item

LEMMA AnswerTyped ==
    ASSUME NEW a \in Artefacts, NEW c \in Certs, NEW ca, NEW t, NEW from \in TierNames,
           Usable(a, c, ca, t)
    PROVE  Answer(a, c, ca, from) \in Answers
<1>1. a.readable /\ AppliesTo(a, c)
    BY DEF Usable, Believed
<1>2. CASE a.kind = "ocsp"
    <2>1. a.produced \in Int /\ a.about[c].this \in Int /\ a.about[c].when \in Int
        BY <1>1, <1>2, EvidenceAssumption DEF AppliesTo
    <2>2. StatedAt(a, c) \in Int /\ RevokedAt(a, c) \in Int
        BY <2>1, <1>2 DEF StatedAt, RevokedAt, Window
    <2> QED
        BY <2>2, ModelTyped DEF Answer, Answers, Models
<1>3. CASE a.kind = "crl"
    <2>1. a.this \in Int /\ \A d \in DOMAIN a.listed : a.listed[d] \in Int
        BY <1>1, <1>3, EvidenceAssumption
    <2>2. StatedAt(a, c) \in Int
        BY <2>1, <1>3 DEF StatedAt, Window
    <2>3. Says(a, c) = "revoked" => c \in DOMAIN a.listed
        BY <1>3 DEF Says
    <2>4. Says(a, c) = "revoked" => RevokedAt(a, c) \in Int
        BY <2>1, <2>3, <1>3 DEF RevokedAt
    <2> QED
        BY <2>2, <2>4, ModelTyped DEF Answer, Answers, Models
<1> QED
    BY <1>2, <1>3, EvidenceAssumption

LEMMA EntryTyped ==
    ASSUME TypeOK, NEW i \in DOMAIN definite
    PROVE  EntryFor(definite[i]) \in Entries
<1>1. definite[i] \in Answers
    BY DEF TypeOK
<1> QED
    BY <1>1 DEF TypeOK, EntryFor, Entry, Entries, Answers, Statuses, Codes, Models

LEMMA PlainTyped ==
    /\ AnchorEntry \in Entries
    /\ Plain("not_checked", "revocation_not_checked") \in Entries
    /\ Plain("unknown", "revocation_status_unknown") \in Entries
BY BlockingFacts DEF AnchorEntry, Plain, Entry, Entries, Statuses, Codes, Models, MaybeTier

\* The steps of the reading loop that gather nothing.
Reading == Ignore \/ Refuse \/ Stale \/ UnknownToResponder

LEMMA ReadingTyped ==
    ASSUME TypeOK, Reading
    PROVE  TypeOK'
<1> USE DEF question, outcome, Advance, Note
<1>1. /\ AtItem
      /\ UNCHANGED <<checked, proven, time, path, data, pc, link, tier, definite,
                     entries, disputed, check>>
      /\ pos' = pos + 1
    BY DEF Reading, Ignore, Refuse, Stale, UnknownToResponder
<1>2. Tiers[tier] \in MaybeTier
    BY <1>1, AtHand, TierFacts
<1>3. fallback' \in Reasons \cup {"none"} /\ refused' \in MaybeTier
    <2>1. CASE Ignore
        BY <2>1 DEF Ignore, TypeOK
    <2>2. CASE Refuse
        BY <2>2, <1>2, BlockingFacts DEF Refuse, TypeOK
    <2>3. CASE Stale
        BY <2>3, BlockingFacts DEF Stale, TypeOK
    <2>4. CASE UnknownToResponder
        BY <2>4, BlockingFacts DEF UnknownToResponder, TypeOK
    <2> QED
        BY <2>1, <2>2, <2>3, <2>4 DEF Reading
<1> QED
    BY <1>1, <1>3 DEF TypeOK

LEMMA NextLinkTyped ==
    ASSUME TypeOK, NextLink, pc = "read",
           NEW e \in Entries, entries' = Append(entries, e),
           disputed' \in {disputed, disputed \cup {link}}
    PROVE  TypeOK'
<1> USE DEF question
<1>1. path \in Seq(Certs) /\ Len(path) \in Nat
    BY PathsAssumption DEF TypeOK
<1>2. link \in 1 .. Len(path)
    BY <1>1 DEF TypeOK
<1>3. entries' \in Seq(Entries) /\ Len(entries') = Len(entries) + 1
    BY DEF TypeOK
<1>4. tier' \in 1 .. Len(Tiers) + 1
    BY TierFacts DEF NextLink
<1>5. definite' \in Seq(Answers)
    BY DEF NextLink
<1>6. refused' \in MaybeTier /\ fallback' \in Reasons \cup {"none"}
    BY DEF NextLink, MaybeTier
<1> QED
    BY <1>1, <1>2, <1>3, <1>4, <1>5, <1>6 DEF TypeOK, NextLink

LEMMA TypeStep ==
    ASSUME TypeOK, [Next]_vars
    PROVE  TypeOK'
<1> USE DEF question, reading, outcome
<1>0. path \in Seq(Certs)
    BY PathsAssumption DEF TypeOK
<1>1. CASE SwitchedOff
    <2>1. entries' \in Seq(Entries)
        BY <1>1, <1>0, PlainTyped DEF SwitchedOff
    <2> QED
        BY <1>1, <2>1 DEF SwitchedOff, TypeOK
<1>2. CASE NoPath
    <2>1. entries' \in Seq(Entries)
        BY <1>2, <1>0, PlainTyped DEF NoPath
    <2> QED
        BY <1>2, <2>1 DEF NoPath, TypeOK
<1>3. CASE Start
    BY <1>3, <1>0 DEF Start, TypeOK
<1>4. CASE Reading
    BY <1>4, ReadingTyped
<1>5. CASE Gather
    <2>1. Answer(item, subject, issuer, Tiers[tier]) \in Answers
        BY <1>5, AtHand, TierFacts, AnswerTyped DEF Gather
    <2> QED
        BY <1>5, <2>1 DEF Gather, Advance, TypeOK
<1>6. CASE NextTier
    BY <1>6, TierFacts DEF NextTier, TypeOK
<1>7. CASE Weigh
    <2>1. PICK i \in DOMAIN definite : entries' = Append(entries, EntryFor(definite[i]))
        BY <1>7 DEF Weigh
    <2> QED
        BY <1>7, <2>1, EntryTyped, NextLinkTyped DEF Weigh
<1>8. CASE Unanswered
    <2>1. PICK e \in Entries : entries' = Append(entries, e)
        <3>1. fallback # "none" => fallback \in Codes
            BY DEF TypeOK, Codes
        <3> QED
            BY <1>8, <3>1, PlainTyped
            DEF Unanswered, Entry, Entries, TypeOK, Statuses, Models, MaybeTier
    <2> QED
        BY <1>8, <2>1, NextLinkTyped DEF Unanswered
<1>9. CASE Summarise
    BY <1>9, PlainTyped DEF Summarise, TypeOK
<1>10. CASE UNCHANGED vars
    BY <1>10 DEF vars, TypeOK
<1> QED
    BY <1>1, <1>2, <1>3, <1>4, <1>5, <1>6, <1>7, <1>8, <1>9, <1>10
    DEF Next, Reading, Done

\* Every state of check_path_at is of its types: the links read are within the
\* path, and there is one entry for each certificate answered for.
THEOREM Typing == Spec => []TypeOK
<1>1. Init => TypeOK
    BY TierFacts, EvidenceAssumption DEF Init, TypeOK, MaybeTier
<1>2. TypeOK /\ [Next]_vars => TypeOK'
    BY TypeStep
<1> QED
    BY <1>1, <1>2, PTL DEF Spec
-----------------------------------------------------------------------------
(* The loop gathers exactly what the artefacts read so far say.            *)

ReadSoFar == {x \in Consulted : x[1] < tier \/ (x[1] = tier /\ x[2] < pos)}
HeardSoFar(k) ==
    {Answer(At(x), path[k], path[k + 1], Tiers[x[1]]) :
        x \in {y \in ReadSoFar : UsableFor(k, At(y))}}
Gathered == {definite[i] : i \in DOMAIN definite} = HeardSoFar(link)

StartsClean     == pc = "start" => tier = 1 /\ pos = 1 /\ definite = <<>>
GathersWhatIsHeard == pc = "read" => Gathered
EndsAtTheAnchor == pc = "summarise" => link = Len(path) /\ Len(path) >= 2
ReasonsAreNamed == \A k \in Closed : entries[k].status = "unknown" => entries[k].code \in Reasons
EntriesInOrder  == \A k \in Closed : k \in DOMAIN entries

IInv ==
    /\ TypeOK /\ StartsClean /\ GathersWhatIsHeard /\ EndsAtTheAnchor
    /\ ReasonsAreNamed /\ EntriesInOrder /\ AnswerIsTheWeightiest

LEMMA HeardFixed ==
    ASSUME UNCHANGED question, NEW k
    PROVE  Heard(k)' = Heard(k)
BY DEF question, Heard, Consulted, At, UsableFor

LEMMA NothingReadAtTheStart ==
    ASSUME tier = 1, pos = 1, NEW k
    PROVE  HeardSoFar(k) = {}
<1>1. ReadSoFar = {}
    BY TierFacts, BoundsAssumption DEF ReadSoFar, Consulted
<1> QED
    BY <1>1 DEF HeardSoFar

LEMMA AllReadAtTheEnd ==
    ASSUME TypeOK, tier > Len(Tiers), NEW k
    PROVE  HeardSoFar(k) = Heard(k)
<1>1. ReadSoFar = Consulted
    BY TierFacts DEF ReadSoFar, Consulted, TypeOK
<1> QED
    BY <1>1 DEF HeardSoFar, Heard

\* Reading one artefact adds it and nothing else.
LEMMA OneMoreRead ==
    ASSUME TypeOK, AtItem, Advance
    PROVE  /\ ReadSoFar' = ReadSoFar \cup {<<tier, pos>>}
           /\ At(<<tier, pos>>) = item
<1>1. Consulted' = Consulted /\ tier' = tier /\ pos' = pos + 1
    BY DEF Advance, question, Consulted
<1>2. <<tier, pos>> \in Consulted
    BY AtHand, TierFacts, BoundsAssumption DEF Consulted, TypeOK
<1>3. \A x \in Consulted : x[1] \in Nat /\ x[2] \in Nat /\ x = <<x[1], x[2]>>
    BY TierFacts, BoundsAssumption DEF Consulted
<1>4. \A x \in Consulted : (x[1] = tier /\ x[2] = pos) <=> x = <<tier, pos>>
    BY <1>3
<1>5. \A x \in Consulted :
        x[1] < tier' \/ (x[1] = tier' /\ x[2] < pos')
        <=> x[1] < tier \/ (x[1] = tier /\ x[2] < pos) \/ x = <<tier, pos>>
    <2>1. pos \in Nat /\ tier \in Nat
        BY DEF TypeOK
    <2> QED
        BY <1>1, <1>3, <1>4, <2>1
<1>6. ReadSoFar' = ReadSoFar \cup {<<tier, pos>>}
    BY <1>1, <1>2, <1>5 DEF ReadSoFar
<1> QED
    BY <1>6 DEF At, item

LEMMA GatheredByReading ==
    ASSUME TypeOK, Gathered, Reading
    PROVE  Gathered'
<1> USE DEF question, outcome
<1>1. AtItem /\ Advance /\ UNCHANGED <<checked, proven, time, path, data, link, definite>>
    BY DEF Reading, Ignore, Refuse, Stale, UnknownToResponder, Advance, Note
<1>2. ~Usable(item, subject, issuer, time)
    BY DEF Reading, Ignore, Refuse, Stale, UnknownToResponder, Usable
<1>3. ~UsableFor(link, At(<<tier, pos>>))
    BY <1>1, <1>2, OneMoreRead DEF UsableFor, subject, issuer
<1>4. {y \in ReadSoFar' : UsableFor(link, At(y))} = {y \in ReadSoFar : UsableFor(link, At(y))}
    BY <1>1, <1>3, OneMoreRead
<1>5. HeardSoFar(link)' = HeardSoFar(link)
    BY <1>1, <1>4 DEF HeardSoFar, UsableFor, At
<1> QED
    BY <1>1, <1>5 DEF Gathered

LEMMA GatheredByGather ==
    ASSUME TypeOK, Gathered, Gather
    PROVE  Gathered'
<1> USE DEF question, outcome
<1> DEFINE new == Answer(item, subject, issuer, Tiers[tier])
<1>1. /\ AtItem /\ Advance /\ UNCHANGED <<checked, proven, time, path, data, link>>
      /\ definite' = Append(definite, new)
    BY DEF Gather, Advance
<1>2. UsableFor(link, At(<<tier, pos>>))
    BY <1>1, OneMoreRead DEF Gather, UsableFor, subject, issuer
<1>3. {y \in ReadSoFar' : UsableFor(link, At(y))}
        = {y \in ReadSoFar : UsableFor(link, At(y))} \cup {<<tier, pos>>}
    BY <1>1, <1>2, OneMoreRead
<1>4. HeardSoFar(link)' = HeardSoFar(link) \cup {new}
    <2>1. HeardSoFar(link)' = {Answer(At(x), path[link], path[link + 1], Tiers[x[1]]) :
                                 x \in {y \in ReadSoFar' : UsableFor(link, At(y))}}
        BY <1>1 DEF HeardSoFar, UsableFor, At
    <2>2. Answer(At(<<tier, pos>>), path[link], path[link + 1], Tiers[<<tier, pos>>[1]]) = new
        BY <1>1, OneMoreRead DEF subject, issuer
    <2> QED
        BY <1>3, <2>1, <2>2 DEF HeardSoFar
<1>5. {definite'[i] : i \in DOMAIN definite'} = {definite[i] : i \in DOMAIN definite} \cup {new}
    <2>1. definite \in Seq(Answers)
        BY DEF TypeOK
    <2>2. /\ DOMAIN definite' = 1 .. (Len(definite) + 1)
          /\ \A i \in DOMAIN definite : definite'[i] = definite[i]
          /\ definite'[Len(definite) + 1] = new
        BY <1>1, <2>1
    <2>3. DOMAIN definite = 1 .. Len(definite) /\ Len(definite) \in Nat
        BY <2>1
    <2>4. DOMAIN definite' = DOMAIN definite \cup {Len(definite) + 1}
        BY <2>2, <2>3
    <2> QED
        BY <2>2, <2>4
<1> QED
    BY <1>4, <1>5, <1>1 DEF Gathered

\* Going on to the next tier reads nothing.
LEMMA SameReadAtNextTier ==
    ASSUME TypeOK, NextTier
    PROVE  ReadSoFar' = ReadSoFar
<1> USE DEF question, outcome
<1>1. UNCHANGED <<checked, proven, time, path, data, link, definite>>
    BY DEF NextTier
<1>2. tier \in 1 .. 6 /\ data[Tiers[tier]] \in Seq(Artefacts)
    BY TierFacts DEF NextTier, TypeOK
<1>3. \A p \in DOMAIN data[Tiers[tier]] : p <= MaxItems => p < pos
    BY <1>2, TakenFacts, BoundsAssumption DEF NextTier, TypeOK
<1>4. Consulted' = Consulted
    BY <1>1 DEF Consulted
<1>5. \A x \in Consulted : /\ x[1] \in Nat /\ x[2] \in Nat \ {0} /\ x[2] <= MaxItems
                          /\ x[2] \in DOMAIN data[Tiers[x[1]]]
    BY TierFacts, BoundsAssumption DEF Consulted
<1>6. tier' = tier + 1 /\ pos' = 1 /\ tier \in Nat /\ pos \in Nat
    BY DEF NextTier, TypeOK
<1>7. \A x \in Consulted :
        x[1] < tier' \/ (x[1] = tier' /\ x[2] < pos')
        <=> x[1] < tier \/ (x[1] = tier /\ x[2] < pos)
    <2> TAKE x \in Consulted
    <2>1. x[1] \in Nat /\ x[2] \in Nat \ {0}
        BY <1>5
    <2>2. x[1] = tier => x[2] < pos
        BY <1>3, <1>5
    <2> QED
        BY <1>6, <2>1, <2>2
<1> QED
    BY <1>4, <1>7 DEF ReadSoFar

LEMMA GatheredByNextTier ==
    ASSUME TypeOK, Gathered, NextTier
    PROVE  Gathered'
<1>1. UNCHANGED <<checked, proven, time, path, data, link, definite>>
    BY DEF NextTier, question
<1>2. HeardSoFar(link)' = HeardSoFar(link)
    BY <1>1, SameReadAtNextTier DEF HeardSoFar, UsableFor, At
<1> QED
    BY <1>1, <1>2 DEF Gathered
-----------------------------------------------------------------------------
(* What is concluded of one certificate.                                   *)

\* The answer chosen among those gathered is what they come to together.
LEMMA ChosenIsRight ==
    ASSUME TypeOK, NEW k, {definite[j] : j \in DOMAIN definite} = Heard(k),
           NEW i \in DOMAIN definite, Chosen(i),
           Heard(k)' = Heard(k), time' = time,
           entries'[k] = EntryFor(definite[i])
    PROVE  WeighedRight(k)' /\ entries'[k].status # "unknown"
<1> DEFINE heard == Heard(k)
           revocations == {a \in heard : a.revoked}
<1>1. \A j \in DOMAIN definite : /\ definite[j] \in heard /\ definite[j].revoked \in BOOLEAN
                                /\ definite[j].stated \in Int
    <2>1. \A j \in DOMAIN definite : definite[j] \in Answers
        BY DEF TypeOK
    <2> QED
        BY <2>1 DEF Answers
<1>2. \A j \in DOMAIN definite : definite[j].revoked = definite[i].revoked
                                => definite[j].stated <= definite[i].stated
    <2> DEFINE revoked == \E j \in DOMAIN definite : definite[j].revoked
               rivals  == {j \in DOMAIN definite : definite[j].revoked = revoked}
    <2>1. /\ i \in rivals
          /\ \A j \in rivals : \/ definite[j].stated < definite[i].stated
                               \/ definite[j].stated = definite[i].stated
        BY DEF Chosen
    <2>2. \A j \in DOMAIN definite : definite[j].revoked = definite[i].revoked => j \in rivals
        BY <2>1
    <2> HIDE DEF rivals
    <2> QED
        BY <1>1, <2>1, <2>2
<1>3. definite[i].revoked <=> \E j \in DOMAIN definite : definite[j].revoked
    BY <1>1 DEF Chosen
<1>4. definite[i] \in heard /\ heard # {}
    BY <1>1
<1>5. CASE ~definite[i].revoked
    <2>1. revocations = {}
        BY <1>3, <1>5
    <2>2. \A b \in heard : b.stated <= definite[i].stated
        <3> TAKE b \in heard
        <3>1. PICK j \in DOMAIN definite : b = definite[j]
            OBVIOUS
        <3>2. definite[j].revoked = definite[i].revoked
            BY <1>1, <1>3, <1>5
        <3> QED
            BY <1>2, <3>1, <3>2
    <2>3. definite[i] \in Latest(heard)
        BY <1>4, <2>2 DEF Latest
    <2>4. entries'[k].status = "good" /\ entries'[k].model = definite[i].model
        <3>1. EntryFor(definite[i]) = Entry("good", "revocation_ok", definite[i].model, refused)
            BY <1>5 DEF EntryFor
        <3> QED
            BY <3>1 DEF Entry
    <2> QED
        BY <1>4, <2>1, <2>3, <2>4 DEF WeighedRight
<1>6. CASE definite[i].revoked
    <2>1. \A b \in revocations : b.stated <= definite[i].stated
        <3> TAKE b \in revocations
        <3>1. PICK j \in DOMAIN definite : b = definite[j]
            OBVIOUS
        <3>2. definite[j].revoked = definite[i].revoked
            BY <1>1, <1>6, <3>1
        <3> QED
            BY <1>2, <3>1, <3>2
    <2>2. definite[i] \in Latest(revocations)
        BY <1>4, <1>6, <2>1 DEF Latest
    <2>3. /\ entries'[k].status = IF definite[i].when <= time THEN "revoked"
                                     ELSE "revoked_after"
          /\ entries'[k].model = definite[i].model
        <3>1. EntryFor(definite[i]) =
                Entry(IF definite[i].when <= time THEN "revoked" ELSE "revoked_after",
                      IF definite[i].when <= time THEN "cert_revoked"
                      ELSE "cert_revoked_after_validation_time",
                      definite[i].model, refused)
            BY <1>6 DEF EntryFor
        <3> QED
            BY <3>1 DEF Entry
    <2>4. entries'[k].status # "unknown" /\ revocations # {}
        BY <2>2, <2>3 DEF Latest
    <2> HIDE DEF heard, revocations
    <2>5. \E a \in Latest(revocations) :
            /\ entries'[k].status = IF a.when <= time THEN "revoked" ELSE "revoked_after"
            /\ entries'[k].model = a.model
        BY <2>2, <2>3
    <2>6. (heard = {} <=> entries'[k].status = "unknown")
            /\ (heard # {} /\ revocations = {} =>
                 /\ entries'[k].status = "good"
                 /\ \E a \in Latest(heard) : entries'[k].model = a.model)
        BY <1>4, <2>4
    <2> QED
        BY <2>4, <2>5, <2>6 DEF WeighedRight, heard, revocations
<1> QED
    BY <1>5, <1>6

LEMMA SilenceIsRight ==
    ASSUME NEW k, Heard(k)' = {}, entries'[k].status = "unknown"
    PROVE  WeighedRight(k)'
BY DEF WeighedRight, Latest

LEMMA EarlierStays ==
    ASSUME UNCHANGED question, NEW k \in Closed, AnswerIsTheWeightiest,
           entries'[k] = entries[k]
    PROVE  WeighedRight(k)'
BY HeardFixed DEF AnswerIsTheWeightiest, WeighedRight, question

\* The links closed so far keep their entries when one more is appended.
LEMMA OneMoreEntry ==
    ASSUME TypeOK, NEW e, entries' = Append(entries, e), EntriesInOrder, checked
    PROVE  /\ \A k \in Closed : entries'[k] = entries[k] /\ k \in DOMAIN entries'
           /\ pc = "read" => entries'[link] = e /\ link \in DOMAIN entries'
<1>1. entries \in Seq(Entries) /\ Len(entries) \in Nat
    BY DEF TypeOK
<1>2. DOMAIN entries' = 1 .. Len(entries) + 1
    BY <1>1
<1>3. \A k \in DOMAIN entries : entries'[k] = entries[k] /\ k \in DOMAIN entries'
    BY <1>1
<1>4. pc = "read" => link = Len(entries) + 1
    BY <1>1 DEF TypeOK
<1> QED
    BY <1>1, <1>2, <1>3, <1>4 DEF EntriesInOrder

LEMMA LinkClosed ==
    ASSUME IInv, TypeOK', NextLink, pc = "read", NEW e, entries' = Append(entries, e),
           NEW k, k = link, WeighedRight(k)', e.status = "unknown" => e.code \in Reasons
    PROVE  IInv'
<1> USE DEF question
<1>1. checked /\ checked' /\ UNCHANGED question /\ link' = link + 1
    BY DEF NextLink, IInv, TypeOK
<1>2. Closed' = Closed \cup {k}
    BY <1>1 DEF Closed, IInv, TypeOK
<1>3. /\ \A j \in Closed : entries'[j] = entries[j] /\ j \in DOMAIN entries'
      /\ entries'[k] = e /\ k \in DOMAIN entries'
    BY <1>1, OneMoreEntry DEF IInv
<1>4. AnswerIsTheWeightiest'
    <2>1. \A j \in Closed : WeighedRight(j)'
        BY <1>1, <1>3, EarlierStays DEF IInv
    <2> QED
        BY <1>2, <2>1 DEF AnswerIsTheWeightiest
<1>5. ReasonsAreNamed'
    BY <1>2, <1>3 DEF ReasonsAreNamed, IInv
<1>6. EntriesInOrder'
    BY <1>2, <1>3 DEF EntriesInOrder
<1>7. GathersWhatIsHeard'
    <2>1. tier' = 1 /\ pos' = 1 /\ definite' = <<>>
        BY DEF NextLink
    <2>2. HeardSoFar(link)' = {}
        <3>1. ReadSoFar' = {}
            BY <2>1, TierFacts, BoundsAssumption DEF ReadSoFar, Consulted
        <3> QED
            BY <3>1 DEF HeardSoFar
    <2> QED
        BY <2>1, <2>2 DEF GathersWhatIsHeard, Gathered
<1>8. StartsClean' /\ EndsAtTheAnchor'
    BY <1>1 DEF StartsClean, EndsAtTheAnchor, NextLink, IInv, TypeOK
<1> QED
    BY <1>4, <1>5, <1>6, <1>7, <1>8 DEF IInv

\* The steps that leave the links and their entries alone.
LEMMA LinksUntouched ==
    ASSUME IInv, TypeOK', UNCHANGED <<question, link, entries>>,
           GathersWhatIsHeard', StartsClean', EndsAtTheAnchor'
    PROVE  IInv'
<1>1. Closed' = Closed /\ UNCHANGED question
    BY DEF Closed, question
<1>2. AnswerIsTheWeightiest'
    <2>1. \A j \in Closed : WeighedRight(j)'
        BY <1>1, EarlierStays DEF IInv
    <2> QED
        BY <1>1, <2>1 DEF AnswerIsTheWeightiest
<1>3. ReasonsAreNamed'
    BY <1>1 DEF ReasonsAreNamed, IInv
<1>4. EntriesInOrder'
    BY <1>1 DEF EntriesInOrder, IInv, question
<1> QED
    BY <1>2, <1>3, <1>4 DEF IInv

LEMMA InvStep ==
    ASSUME IInv, [Next]_vars
    PROVE  IInv'
<1> USE DEF question, reading, outcome
<1>0. TypeOK /\ TypeOK'
    BY TypeStep DEF IInv
<1>1. CASE SwitchedOff
    <2>1. Closed' = {} /\ pc' = "done" /\ ~checked'
        BY <1>1 DEF SwitchedOff, Closed
    <2> QED
        BY <1>0, <2>1 DEF IInv, StartsClean, GathersWhatIsHeard, EndsAtTheAnchor,
           ReasonsAreNamed, EntriesInOrder, AnswerIsTheWeightiest
<1>2. CASE NoPath
    <2>1. Closed' = {} /\ pc' = "done"
        BY <1>0, <1>2 DEF NoPath, Closed, TypeOK
    <2> QED
        BY <1>0, <2>1 DEF IInv, StartsClean, GathersWhatIsHeard, EndsAtTheAnchor,
           ReasonsAreNamed, EntriesInOrder, AnswerIsTheWeightiest
<1>3. CASE Start
    <2>1. tier' = 1 /\ pos' = 1 /\ definite' = <<>> /\ pc' = "read"
        BY <1>3 DEF Start, IInv, StartsClean
    <2>2. HeardSoFar(link)' = {}
        <3>1. ReadSoFar' = {}
            BY <2>1, TierFacts, BoundsAssumption DEF ReadSoFar, Consulted
        <3> QED
            BY <3>1 DEF HeardSoFar
    <2>3. GathersWhatIsHeard' /\ StartsClean' /\ EndsAtTheAnchor'
        BY <2>1, <2>2 DEF GathersWhatIsHeard, Gathered, StartsClean, EndsAtTheAnchor
    <2> QED
        BY <1>0, <1>3, <2>1, <2>3, LinksUntouched DEF Start
<1>4. CASE Reading \/ Gather \/ NextTier
    <2>1. pc = "read" /\ pc' = "read" /\ UNCHANGED <<question, link, entries>>
        BY <1>4 DEF Reading, Ignore, Refuse, Stale, UnknownToResponder, Gather, NextTier,
           Advance, Note, AtItem
    <2>2. Gathered'
        BY <1>0, <1>4, <2>1, GatheredByReading, GatheredByGather, GatheredByNextTier
        DEF IInv, GathersWhatIsHeard
    <2>3. GathersWhatIsHeard' /\ StartsClean' /\ EndsAtTheAnchor'
        BY <2>1, <2>2 DEF GathersWhatIsHeard, StartsClean, EndsAtTheAnchor
    <2> QED
        BY <1>0, <2>1, <2>3, LinksUntouched
<1>5. ASSUME Weigh \/ Unanswered
      PROVE  {definite[j] : j \in DOMAIN definite} = Heard(link)
    BY <1>0, <1>5, AllReadAtTheEnd
    DEF Weigh, Unanswered, IInv, GathersWhatIsHeard, Gathered
<1>6. CASE Weigh
    <2>1. PICK i \in DOMAIN definite :
            Chosen(i) /\ entries' = Append(entries, EntryFor(definite[i]))
        BY <1>6 DEF Weigh
    <2>2. NextLink /\ pc = "read" /\ checked /\ UNCHANGED question
        BY <1>0, <1>6 DEF Weigh, NextLink, TypeOK
    <2>3. entries'[link] = EntryFor(definite[i])
        BY <1>0, <2>1, <2>2, OneMoreEntry DEF IInv
    <2>4. PICK k : k = link
        OBVIOUS
    <2>5. WeighedRight(k)' /\ entries'[k].status # "unknown"
        BY <1>0, <1>5, <1>6, <2>1, <2>2, <2>3, <2>4, HeardFixed, ChosenIsRight
    <2> QED
        BY <1>0, <2>1, <2>2, <2>3, <2>4, <2>5, LinkClosed
<1>7. CASE Unanswered
    <2> DEFINE e == IF fallback = "none" THEN Plain("unknown", "revocation_status_unknown")
                    ELSE Entry("unknown", fallback, "none",
                               IF fallback = "revocation_data_invalid" THEN refused ELSE "none")
    <2>1. entries' = Append(entries, e) /\ definite = <<>>
        BY <1>7 DEF Unanswered
    <2>2. NextLink /\ pc = "read" /\ checked /\ UNCHANGED question
        BY <1>0, <1>7 DEF Unanswered, NextLink, TypeOK
    <2>3. e.status = "unknown" /\ e.code \in Reasons
        BY <1>0, BlockingFacts DEF Plain, Entry, TypeOK
    <2> HIDE DEF e
    <2>4. entries'[link] = e
        BY <1>0, <2>1, <2>2, OneMoreEntry DEF IInv
    <2>5. PICK k : k = link
        OBVIOUS
    <2>6. Heard(k)' = {}
        BY <1>5, <1>7, <2>1, <2>2, <2>5, HeardFixed
    <2>7. WeighedRight(k)'
        BY <2>3, <2>4, <2>5, <2>6, SilenceIsRight
    <2> QED
        BY <1>0, <2>1, <2>2, <2>3, <2>5, <2>7, LinkClosed
<1>8. CASE Summarise
    <2>1. entries' = Append(entries, AnchorEntry) /\ pc = "summarise" /\ pc' = "done"
          /\ UNCHANGED <<question, link>>
        BY <1>8 DEF Summarise
    <2>2. Closed' = Closed /\ checked
        BY <1>0, <2>1 DEF Closed, TypeOK
    <2>3. \A k \in Closed : entries'[k] = entries[k] /\ k \in DOMAIN entries'
        BY <1>0, <2>1, <2>2, OneMoreEntry DEF IInv
    <2>4. \A k \in Closed : WeighedRight(k)'
        BY <2>1, <2>3, EarlierStays DEF IInv
    <2> QED
        BY <1>0, <2>1, <2>2, <2>3, <2>4 DEF IInv, StartsClean, GathersWhatIsHeard,
           EndsAtTheAnchor, ReasonsAreNamed, EntriesInOrder, AnswerIsTheWeightiest
<1>9. CASE UNCHANGED vars
    <2>1. /\ UNCHANGED <<question, pc, link, tier, pos, definite, entries>>
          /\ Closed' = Closed
        BY <1>9 DEF vars, Closed
    <2>2. ReadSoFar' = ReadSoFar
        BY <2>1 DEF ReadSoFar, Consulted
    <2>3. HeardSoFar(link)' = HeardSoFar(link)
        BY <2>1, <2>2 DEF HeardSoFar, UsableFor, At
    <2>4. GathersWhatIsHeard' /\ StartsClean' /\ EndsAtTheAnchor'
        BY <2>1, <2>3 DEF IInv, GathersWhatIsHeard, Gathered, StartsClean, EndsAtTheAnchor
    <2> QED
        BY <1>0, <2>1, <2>4, LinksUntouched
<1> QED
    BY <1>1, <1>2, <1>3, <1>4, <1>6, <1>7, <1>8, <1>9 DEF Next, Reading, Done

LEMMA InvStart == Init => IInv
<1> SUFFICES ASSUME Init PROVE IInv
    OBVIOUS
<1>1. TypeOK
    BY TierFacts, EvidenceAssumption DEF Init, TypeOK, MaybeTier
<1>2. Closed = {} /\ pc = "start" /\ tier = 1 /\ pos = 1 /\ definite = <<>>
    BY DEF Init, Closed
<1> QED
    BY <1>1, <1>2 DEF IInv, StartsClean, GathersWhatIsHeard, EndsAtTheAnchor,
       ReasonsAreNamed, EntriesInOrder, AnswerIsTheWeightiest

THEOREM Invariance == Spec => []IInv
<1>1. IInv /\ [Next]_vars => IInv'
    BY InvStep
<1> QED
    BY InvStart, <1>1, PTL DEF Spec

\* The order of reading never decides, however many sources there are, whatever
\* they say and wherever the limit cuts them off.
THEOREM OrderFree == Spec => []AnswerIsTheWeightiest
<1>1. IInv => AnswerIsTheWeightiest
    BY DEF IInv
<1> QED
    BY Invariance, <1>1, PTL
-----------------------------------------------------------------------------
(* What does not block stands on something.                                *)

\* An artefact somebody may be believed for was made by someone entitled.
LEMMA BelievedIsEntitled ==
    ASSUME NEW a \in Artefacts, NEW c, NEW ca \in Certs, Believed(a, c, ca, time)
    PROVE  SpeaksFor(a, ca)
<1>1. a.readable /\ a.kind \in {"ocsp", "crl"}
    BY EvidenceAssumption DEF Believed
<1>2. CASE a.kind = "ocsp"
    <2>1. ResponderModel(a, ca) # "none"
        BY <1>2 DEF Believed
    <2>2. Signed(a, ca) \/ Delegated(a, ca) \/ Trusted(a)
        BY <2>1 DEF ResponderModel
    <2>3. \A i \in DOMAIN Offered(a) : Offered(a)[i] \in Certs
        <3>1. a.carries \in Seq(Certs) /\ Candidates \in Seq(Certs)
            BY <1>1, <1>2, EvidenceAssumption, PathsAssumption
        <3> DEFINE n == TakenOf(a.carries, MaxOffered)
                   carried == SubSeq(a.carries, 1, n)
        <3>2. n \in 0 .. Len(a.carries)
            BY <3>1, BoundsAssumption DEF TakenOf
        <3> HIDE DEF n
        <3>3. carried \in Seq(Certs)
            BY <3>1, <3>2
        <3> HIDE DEF carried
        <3>4. carried \o Candidates \in Seq(Certs)
            BY <3>1, <3>3
        <3> QED
            BY <3>4 DEF Offered, carried, n
    <2>4. CASE Signed(a, ca)
        BY <2>4 DEF Signed, SpeaksFor
    <2>5. CASE Delegated(a, ca)
        BY <1>2, <2>3, <2>5 DEF Delegated, Signed, SpeaksFor
    <2>6. CASE Trusted(a)
        BY <1>2, <2>3, <2>6 DEF Trusted, Signed, SpeaksFor
    <2> QED
        BY <2>2, <2>4, <2>5, <2>6
<1>3. CASE a.kind = "crl"
    <2>1. CrlSigned(a, ca, time)
        BY <1>3 DEF Believed
    <2>2. \A i \in DOMAIN Candidates : Candidates[i] \in Certs
        BY PathsAssumption
    <2> QED
        BY <1>3, <2>1, <2>2 DEF CrlSigned, SpeaksFor
<1> QED
    BY <1>1, <1>2, <1>3

\* A certificate whose sources said anything has a source to show for it.
LEMMA HeardIsVouchedFor ==
    ASSUME TypeOK, NEW k \in 1 .. Len(path) - 1, Heard(k) # {}
    PROVE  AnsweredFor(k)
<1>1. PICK x \in Consulted : UsableFor(k, At(x))
    BY DEF Heard
<1>2. At(x) \in Artefacts
    <2>1. x[1] \in DOMAIN Tiers /\ x[2] \in DOMAIN data[Tiers[x[1]]]
        BY DEF Consulted
    <2>2. data[Tiers[x[1]]] \in Seq(Artefacts)
        BY <2>1, TierFacts DEF TypeOK
    <2> QED
        BY <2>1, <2>2 DEF At
<1>3. path[k + 1] \in Certs
    BY PathsAssumption DEF TypeOK
<1>4. /\ AppliesTo(At(x), path[k]) /\ Believed(At(x), path[k], path[k + 1], time)
      /\ Fresh(At(x), path[k], time)
    BY <1>1 DEF UsableFor, Usable
<1>5. At(x).readable /\ SpeaksFor(At(x), path[k + 1])
    BY <1>2, <1>3, <1>4, BelievedIsEntitled DEF Believed
<1>6. LET w == Window(At(x), path[k]) IN w.next # None => w.next > time
    BY <1>4 DEF Fresh
<1> QED
    BY <1>4, <1>5, <1>6 DEF AnsweredFor

LEMMA AnsweredFixed ==
    ASSUME UNCHANGED question, NEW k
    PROVE  AnsweredFor(k)' = AnsweredFor(k)
<1> USE DEF question
<1>1. Consulted' = Consulted /\ \A x : At(x)' = At(x)
    BY DEF Consulted, At
<1>2. \A a, ca : SpeaksFor(a, ca)' = SpeaksFor(a, ca)
    BY DEF SpeaksFor
<1> QED
    BY <1>1, <1>2 DEF AnsweredFor

\* The check is written once, when the path has been summarised.
Undecided == pc # "done" => check.status = "none"
JInv == IInv /\ Undecided /\ NothingPassesUnanswered

LEMMA SummaryPasses ==
    ASSUME JInv, Summarise, check'.status \in {"passed", "info"}
    PROVE  NothingPassesUnanswered'
<1> USE DEF question, reading
<1>0. /\ TypeOK /\ checked /\ link = Len(path) /\ Len(path) >= 2 /\ link \in Nat
      /\ Len(entries) = link - 1 /\ entries \in Seq(Entries)
      /\ UNCHANGED question /\ entries' = Append(entries, AnchorEntry)
    BY DEF JInv, IInv, EndsAtTheAnchor, TypeOK, Summarise
<1>1. PICK s, c : Summary(Check(s, c)) /\ check' = Check(s, c)
    BY DEF Summarise
<1>2. s \in {"passed", "info"}
    BY <1>1 DEF Check
<1>3. /\ ~Has("revoked") /\ \A b \in DOMAIN Blocking : ~HasCode(Blocking[b])
      /\ Has("revoked_after") => s = "info" /\ proven
    BY <1>1, <1>2 DEF Summary, Check
<1>4. \A k \in DOMAIN entries : /\ entries[k].status # "revoked"
                               /\ entries[k].code \notin Reasons
    BY <1>3 DEF Has, HasCode, Reasons
<1>5. Closed = 1 .. Len(path) - 1 /\ Closed = DOMAIN entries
    <2>1. Closed = 1 .. (link - 1)
        BY <1>0 DEF Closed
    <2>2. DOMAIN entries = 1 .. Len(entries)
        BY <1>0
    <2> QED
        BY <1>0, <2>1, <2>2
<1>6. \A k \in DOMAIN entries : entries[k].status # "unknown"
    BY <1>4, <1>5 DEF JInv, IInv, ReasonsAreNamed
<1>7. \A k \in 1 .. Len(path) - 1 : AnsweredFor(k)
    <2>1. \A k \in Closed : Heard(k) # {}
        BY <1>5, <1>6 DEF JInv, IInv, AnswerIsTheWeightiest, WeighedRight
    <2> QED
        BY <1>0, <1>5, <2>1, HeardIsVouchedFor
<1>8. \A k \in 1 .. Len(path') - 1 : AnsweredFor(k)'
    BY <1>0, <1>7, AnsweredFixed
<1>9. \A k \in DOMAIN entries' : \/ k \in DOMAIN entries /\ entries'[k] = entries[k]
                              \/ entries'[k].status = "trust_anchor"
    <2>1. \A k \in DOMAIN entries' : \/ k \in DOMAIN entries /\ entries'[k] = entries[k]
                                  \/ entries'[k] = AnchorEntry
        BY <1>0
    <2> QED
        BY <2>1 DEF AnchorEntry, Plain, Entry
<1>10. \A k \in DOMAIN entries' : entries'[k].status \notin {"revoked", "unknown"}
    BY <1>4, <1>6, <1>9
<1>11. (\E k \in DOMAIN entries' : entries'[k].status = "revoked_after")
         => check'.status = "info" /\ proven'
    <2>1. (\E k \in DOMAIN entries' : entries'[k].status = "revoked_after") => Has("revoked_after")
        BY <1>9 DEF Has
    <2> QED
        BY <1>0, <1>1, <1>3, <2>1 DEF Check
<1> QED
    BY <1>0, <1>8, <1>10, <1>11 DEF NothingPassesUnanswered

LEMMA PassingStep ==
    ASSUME JInv, [Next]_vars
    PROVE  JInv'
<1> USE DEF question, reading, outcome
<1>1. IInv'
    BY InvStep DEF JInv
<1>2. CASE Summarise
    <2>1. Undecided'
        BY <1>2 DEF Summarise, Undecided
    <2>2. NothingPassesUnanswered'
        <3>1. CASE check'.status \in {"passed", "info"}
            BY <1>2, <3>1, SummaryPasses
        <3> QED
            BY <3>1 DEF NothingPassesUnanswered
    <2> QED
        BY <1>1, <2>1, <2>2 DEF JInv
<1>3. CASE SwitchedOff \/ NoPath
    <2>1. pc' = "done" /\ check'.status \in {"skipped", "unknown"}
        BY <1>3 DEF SwitchedOff, NoPath, Check
    <2> QED
        BY <1>1, <2>1 DEF JInv, Undecided, NothingPassesUnanswered
<1>4. CASE Start \/ Reading \/ Gather \/ NextTier \/ Weigh \/ Unanswered
    <2>1. check' = check /\ pc # "done"
        BY <1>4 DEF Start, Reading, Ignore, Refuse, Stale, UnknownToResponder, Gather,
           NextTier, Weigh, Unanswered, Advance, Note, NextLink, AtItem
    <2>2. check'.status = "none"
        BY <2>1 DEF JInv, Undecided
    <2> QED
        BY <1>1, <2>2 DEF JInv, Undecided, NothingPassesUnanswered
<1>5. CASE UNCHANGED vars
    <2>1. Undecided'
        BY <1>5 DEF vars, JInv, Undecided
    <2>2. \A k : AnsweredFor(k)' = AnsweredFor(k)
        BY <1>5, AnsweredFixed DEF vars
    <2>3. NothingPassesUnanswered'
        BY <1>5, <2>2 DEF vars, JInv, NothingPassesUnanswered
    <2> QED
        BY <1>1, <2>1, <2>3 DEF JInv
<1> QED
    BY <1>2, <1>3, <1>4, <1>5 DEF Next, Reading, Done

\* A chain is not reported unrevoked unless each of its certificates was answered
\* for by someone entitled, with evidence that had not lapsed.
THEOREM Vouched == Spec => []NothingPassesUnanswered
<1>1. Init => JInv
    BY InvStart DEF Init, Check, JInv, Undecided, NothingPassesUnanswered
<1>2. JInv /\ [Next]_vars => JInv'
    BY PassingStep
<1>3. JInv => NothingPassesUnanswered
    BY DEF JInv
<1> QED
    BY <1>1, <1>2, <1>3, PTL DEF Spec

-----------------------------------------------------------------------------
(* What the report adds: why there is no answer, and that the sources        *)
(* contradict one another.                                                   *)

Noted == {"none", "revocation_data_invalid", "revocation_data_stale",
          "revocation_status_unknown_by_responder"}

\* `fallback` is the reason the artefacts read so far would leave.
ReasonSoFar ==
    /\ fallback \in Noted
    /\ fallback = "none" /\ definite = <<>> => \A x \in ReadSoFar : ~IsAbout(link, At(x))
    /\ fallback # "none" => \E x \in ReadSoFar : IsAbout(link, At(x))
    /\ fallback \in {"none", "revocation_data_invalid"} =>
         \A x \in ReadSoFar : ~Lapsed(link, At(x)) /\ ~Unknowing(link, At(x))
    /\ fallback = "revocation_data_stale" => \E x \in ReadSoFar : Lapsed(link, At(x))
    /\ fallback = "revocation_status_unknown_by_responder" =>
         \E x \in ReadSoFar : Unknowing(link, At(x))

Contradicted(k) == \E a, b \in Heard(k) : a.revoked /\ ~b.revoked

ReasonsFollow   == pc = "read" => ReasonSoFar
NothingNotedYet == pc = "start" => fallback = "none" /\ disputed = {}
DisputesKept    == disputed = {k \in Closed : Contradicted(k)}

ReportInv == IInv /\ ReasonsFollow /\ NothingNotedYet /\ ReasonsAreEarned /\ DisputesKept

LEMMA LapsedIsAbout ==
    ASSUME NEW k, NEW a, Lapsed(k, a) \/ Unknowing(k, a)
    PROVE  IsAbout(k, a)
BY DEF Lapsed, Unknowing, Credible, IsAbout

\* One more artefact of the loop, and what it can be.
LEMMA ReasonByItem ==
    ASSUME TypeOK, AtItem, Advance, ReasonSoFar,
           UNCHANGED definite \/ definite' # <<>>,
           \/ fallback' = fallback /\ ~IsAbout(link, item)
           \/ /\ fallback' = IF fallback = "none" THEN "revocation_data_invalid" ELSE fallback
              /\ IsAbout(link, item) /\ ~Lapsed(link, item) /\ ~Unknowing(link, item)
           \/ /\ fallback' = fallback /\ definite' # <<>>
              /\ ~Lapsed(link, item) /\ ~Unknowing(link, item)
           \/ fallback' = "revocation_data_stale" /\ Lapsed(link, item)
           \/ fallback' = "revocation_status_unknown_by_responder" /\ Unknowing(link, item)
    PROVE  ReasonSoFar'
<1>1. /\ ReadSoFar' = ReadSoFar \cup {<<tier, pos>>}
      /\ At(<<tier, pos>>) = item
    BY OneMoreRead
<1>2. UNCHANGED <<checked, proven, time, path, data, link>>
    BY DEF Advance, question
<1>3. \A x : /\ IsAbout(link, At(x))' <=> IsAbout(link, At(x))
             /\ Lapsed(link, At(x))' <=> Lapsed(link, At(x))
             /\ Unknowing(link, At(x))' <=> Unknowing(link, At(x))
    BY <1>2 DEF IsAbout, Lapsed, Unknowing, Credible, At
<1>4. Lapsed(link, item) \/ Unknowing(link, item) => IsAbout(link, item)
    BY LapsedIsAbout
<1>5. ReasonSoFar
    OBVIOUS
<1> QED
    BY <1>1, <1>3, <1>4, <1>5 DEF ReasonSoFar, Noted

LEMMA ReasonWhileReading ==
    ASSUME TypeOK, ReasonSoFar, Reading \/ Gather
    PROVE  ReasonSoFar'
<1> USE DEF question, outcome
<1>1. AtItem /\ Advance
    BY DEF Reading, Ignore, Refuse, Stale, UnknownToResponder, Gather, Note
<1>2. CASE Ignore
    BY <1>1, <1>2, ReasonByItem DEF Ignore, IsAbout, subject
<1>3. CASE Refuse
    <2>1. /\ fallback' = IF fallback = "none" THEN "revocation_data_invalid" ELSE fallback
          /\ definite' = definite
        BY <1>3 DEF Refuse
    <2>2. IsAbout(link, item)
        BY <1>3 DEF Refuse, IsAbout, subject
    <2>3. item.oversized => ~Believed(item, subject, issuer, time)
        BY DEF Believed
    <2>4. ~Lapsed(link, item) /\ ~Unknowing(link, item)
        BY <1>3, <2>3 DEF Refuse, Lapsed, Unknowing, Credible, subject, issuer
    <2> QED
        BY <1>1, <2>1, <2>2, <2>4, ReasonByItem
<1>4. CASE Stale
    <2>1. fallback' = "revocation_data_stale" /\ definite' = definite
        BY <1>4 DEF Stale, Note
    <2>2. Lapsed(link, item)
        BY <1>4 DEF Stale, Lapsed, Credible, subject, issuer
    <2> QED
        BY <1>1, <2>1, <2>2, ReasonByItem
<1>5. CASE UnknownToResponder
    <2>1. /\ fallback' = "revocation_status_unknown_by_responder"
          /\ definite' = definite
        BY <1>5 DEF UnknownToResponder, Note
    <2>2. Unknowing(link, item)
        BY <1>5 DEF UnknownToResponder, Unknowing, Credible, subject, issuer
    <2> QED
        BY <1>1, <2>1, <2>2, ReasonByItem
<1>6. CASE Gather
    <2>1. fallback' = fallback
        BY <1>6 DEF Gather
    <2>2. definite' # <<>>
        BY <1>6 DEF Gather, TypeOK
    <2>3. ~Lapsed(link, item) /\ ~Unknowing(link, item)
        BY <1>6 DEF Gather, Usable, Lapsed, Unknowing, Credible, subject, issuer
    <2> QED
        BY <1>1, <2>1, <2>2, <2>3, ReasonByItem
<1> QED
    BY <1>2, <1>3, <1>4, <1>5, <1>6 DEF Reading

LEMMA ReasonStays ==
    ASSUME ReasonSoFar, ReadSoFar' = ReadSoFar,
           UNCHANGED <<time, path, data, link, fallback, definite>>
    PROVE  ReasonSoFar'
<1>1. \A x : /\ IsAbout(link, At(x))' <=> IsAbout(link, At(x))
             /\ Lapsed(link, At(x))' <=> Lapsed(link, At(x))
             /\ Unknowing(link, At(x))' <=> Unknowing(link, At(x))
    BY DEF IsAbout, Lapsed, Unknowing, Credible, At
<1>2. ReasonSoFar
    OBVIOUS
<1> QED
    BY <1>1, <1>2 DEF ReasonSoFar

\* A reason once earned stays earned.
LEMMA ReasonKept ==
    ASSUME UNCHANGED question, NEW k, ReasonEarned(k), entries'[k] = entries[k]
    PROVE  ReasonEarned(k)'
<1> USE DEF question
<1>1. Consulted' = Consulted /\ \A x : At(x)' = At(x)
    BY DEF Consulted, At
<1>2. \A a : /\ IsAbout(k, a)' <=> IsAbout(k, a)
             /\ Lapsed(k, a)' <=> Lapsed(k, a)
             /\ Unknowing(k, a)' <=> Unknowing(k, a)
    BY DEF IsAbout, Lapsed, Unknowing, Credible
<1> QED
    BY <1>1, <1>2 DEF ReasonEarned

LEMMA ContradictedFixed ==
    ASSUME UNCHANGED question, NEW k
    PROVE  Contradicted(k)' <=> Contradicted(k)
BY HeardFixed DEF Contradicted

\* With every tier read and nothing definite, the reason noted last is earned.
LEMMA UnansweredEarned ==
    ASSUME TypeOK, ReasonSoFar, EntriesInOrder, Unanswered, NEW k, k = link
    PROVE  ReasonEarned(k)'
<1> USE DEF question
<1>1. ReadSoFar = Consulted
    BY TierFacts DEF Unanswered, ReadSoFar, Consulted, TypeOK
<1>2. UNCHANGED <<checked, proven, time, path, data>> /\ checked /\ pc = "read"
    BY DEF Unanswered, NextLink, TypeOK
<1>3. /\ entries'[k].status = "unknown"
      /\ entries'[k].code = IF fallback = "none" THEN "revocation_status_unknown"
                                                ELSE fallback
    <2>1. PICK e : /\ entries' = Append(entries, e) /\ e.status = "unknown"
                   /\ e.code = IF fallback = "none" THEN "revocation_status_unknown"
                                                   ELSE fallback
        BY DEF Unanswered, Plain, Entry
    <2>2. entries'[k] = e
        BY <1>2, <2>1, OneMoreEntry
    <2> QED
        BY <2>1, <2>2
<1>4. Consulted' = Consulted /\ \A x : At(x)' = At(x)
    BY <1>2 DEF Consulted, At
<1>5. \A a : /\ IsAbout(k, a)' <=> IsAbout(link, a)
             /\ Lapsed(k, a)' <=> Lapsed(link, a)
             /\ Unknowing(k, a)' <=> Unknowing(link, a)
    BY <1>2 DEF IsAbout, Lapsed, Unknowing, Credible
<1>6. definite = <<>>
    BY DEF Unanswered
<1>7. /\ fallback \in Noted
      /\ fallback = "none" <=> ~\E x \in Consulted : IsAbout(link, At(x))
      /\ fallback = "revocation_data_invalid" =>
           /\ ~\E x \in Consulted : Lapsed(link, At(x))
           /\ ~\E x \in Consulted : Unknowing(link, At(x))
      /\ fallback = "revocation_data_stale" => \E x \in Consulted : Lapsed(link, At(x))
      /\ fallback = "revocation_status_unknown_by_responder" =>
           \E x \in Consulted : Unknowing(link, At(x))
    BY <1>1, <1>6 DEF ReasonSoFar
<1> QED
    BY <1>3, <1>4, <1>5, <1>7 DEF ReasonEarned, Noted

\* The sources gathered for a link disagree when what is heard of it does.
LEMMA DisputedIsContradicted ==
    ASSUME TypeOK, {definite[j] : j \in DOMAIN definite} = Heard(link)
    PROVE  Disputed <=> Contradicted(link)
<1>1. \A j \in DOMAIN definite : definite[j].revoked \in BOOLEAN
    <2>1. \A j \in DOMAIN definite : definite[j] \in Answers
        BY DEF TypeOK
    <2> QED
        BY <2>1 DEF Answers
<1>2. ASSUME Disputed
      PROVE  Contradicted(link)
    <2>1. PICK i \in DOMAIN definite, j \in DOMAIN definite :
            definite[i].revoked # definite[j].revoked
        BY <1>2 DEF Disputed
    <2>2. definite[i] \in Heard(link) /\ definite[j] \in Heard(link)
        OBVIOUS
    <2>3. \/ definite[i].revoked /\ ~definite[j].revoked
          \/ definite[j].revoked /\ ~definite[i].revoked
        BY <1>1, <2>1
    <2> QED
        BY <2>2, <2>3 DEF Contradicted
<1>3. ASSUME Contradicted(link)
      PROVE  Disputed
    <2>1. PICK a \in Heard(link), b \in Heard(link) : a.revoked /\ ~b.revoked
        BY <1>3 DEF Contradicted
    <2>2. PICK i \in DOMAIN definite, j \in DOMAIN definite :
            a = definite[i] /\ b = definite[j]
        OBVIOUS
    <2> QED
        BY <2>1, <2>2 DEF Disputed
<1> QED
    BY <1>2, <1>3

\* One more link is closed.
LEMMA ReportByLink ==
    ASSUME ReportInv, Weigh \/ Unanswered
    PROVE  ReportInv'
<1> USE DEF question
<1>0. /\ TypeOK /\ TypeOK' /\ IInv' /\ NextLink /\ pc = "read" /\ checked
      /\ UNCHANGED question
    BY TypeStep, InvStep DEF ReportInv, IInv, Next, Weigh, Unanswered, NextLink, TypeOK
<1>1. Closed' = Closed \cup {link} /\ link \notin Closed
    BY <1>0 DEF Closed, TypeOK, NextLink
<1>2. PICK e : entries' = Append(entries, e) /\ (Weigh => e.status # "unknown")
    <2>1. CASE Weigh
        <3>1. PICK i : entries' = Append(entries, EntryFor(definite[i]))
            BY <2>1 DEF Weigh
        <3>2. EntryFor(definite[i]).status # "unknown"
            BY DEF EntryFor, Entry
        <3> QED
            BY <3>1, <3>2
    <2>2. CASE Unanswered /\ ~Weigh
        BY <2>2 DEF Unanswered
    <2> QED
        BY <2>1, <2>2
<1>3. \A k \in Closed : entries'[k] = entries[k]
    BY <1>0, <1>2, OneMoreEntry DEF ReportInv, IInv
<1>4. entries'[link] = e
    BY <1>0, <1>2, OneMoreEntry DEF ReportInv, IInv
<1>5. ReasonsAreEarned'
    <2>1. \A k \in Closed : ReasonEarned(k)'
        BY <1>0, <1>3, ReasonKept DEF ReportInv, ReasonsAreEarned
    <2>2. PICK k : k = link
        OBVIOUS
    <2>3. ReasonEarned(k)'
        <3>1. CASE Weigh
            BY <1>2, <1>4, <2>2, <3>1 DEF ReasonEarned
        <3>2. CASE Unanswered
            BY <1>0, <2>2, <3>2, UnansweredEarned
            DEF ReportInv, IInv, ReasonsFollow
        <3> QED
            BY <3>1, <3>2
    <2> QED
        BY <1>1, <2>1, <2>2, <2>3 DEF ReasonsAreEarned
<1>6. DisputesKept'
    <2>1. {definite[j] : j \in DOMAIN definite} = Heard(link)
        BY <1>0, AllReadAtTheEnd
        DEF Weigh, Unanswered, ReportInv, IInv, GathersWhatIsHeard, Gathered
    <2>2. disputed' = IF Contradicted(link) THEN disputed \cup {link} ELSE disputed
        <3>1. CASE Weigh
            BY <1>0, <2>1, <3>1, DisputedIsContradicted DEF Weigh
        <3>2. CASE Unanswered
            <4>1. Heard(link) = {} /\ disputed' = disputed
                BY <2>1, <3>2 DEF Unanswered
            <4> QED
                BY <4>1 DEF Contradicted
        <3> QED
            BY <3>1, <3>2
    <2>3. \A k : Contradicted(k)' <=> Contradicted(k)
        BY <1>0, ContradictedFixed
    <2>4. disputed = {k \in Closed : Contradicted(k)}
        BY DEF ReportInv, DisputesKept
    <2>5. disputed' = {k \in Closed \cup {link} : Contradicted(k)}
        BY <2>2, <2>4
    <2> QED
        BY <1>1, <2>3, <2>5 DEF DisputesKept
<1>7. ReasonsFollow' /\ NothingNotedYet'
    <2>1. /\ tier' = 1 /\ pos' = 1 /\ definite' = <<>> /\ fallback' = "none"
          /\ pc' # "start"
        BY <1>0 DEF NextLink
    <2>2. ReadSoFar' = {}
        BY <2>1, TierFacts, BoundsAssumption DEF ReadSoFar, Consulted
    <2>3. ReasonSoFar'
        BY <2>1, <2>2 DEF ReasonSoFar, Noted
    <2> QED
        BY <2>1, <2>3 DEF ReasonsFollow, NothingNotedYet
<1> QED
    BY <1>0, <1>5, <1>6, <1>7 DEF ReportInv

LEMMA ReportStep ==
    ASSUME ReportInv, [Next]_vars
    PROVE  ReportInv'
<1> USE DEF question, reading, outcome
<1>0. TypeOK /\ TypeOK' /\ IInv'
    BY TypeStep, InvStep DEF ReportInv, IInv
<1>1. CASE SwitchedOff \/ NoPath
    <2>1. /\ UNCHANGED <<checked, link, disputed>> /\ pc' = "done"
          /\ ~checked \/ link = 1
        BY <1>0, <1>1 DEF SwitchedOff, NoPath, TypeOK
    <2>2. Closed = {} /\ Closed' = {}
        BY <2>1 DEF Closed
    <2> QED
        BY <1>0, <2>1, <2>2 DEF ReportInv, ReasonsFollow, NothingNotedYet,
           ReasonsAreEarned, DisputesKept
<1>2. CASE Weigh \/ Unanswered
    BY <1>2, ReportByLink
<1>3. ASSUME UNCHANGED <<question, link, disputed>>,
             \A k \in Closed : entries'[k] = entries[k]
      PROVE  ReasonsAreEarned' /\ DisputesKept'
    <2>1. Closed' = Closed
        BY <1>3 DEF Closed
    <2>2. \A k \in Closed : ReasonEarned(k)'
        BY <1>3, ReasonKept DEF ReportInv, ReasonsAreEarned
    <2>3. \A k : Contradicted(k)' <=> Contradicted(k)
        BY <1>3, ContradictedFixed
    <2> QED
        BY <1>3, <2>1, <2>2, <2>3 DEF ReportInv, ReasonsAreEarned, DisputesKept
<1>4. CASE Start
    <2>1. UNCHANGED <<question, link, disputed, entries>> /\ pc' = "read"
        BY <1>4 DEF Start
    <2>2. tier' = 1 /\ pos' = 1 /\ definite' = <<>> /\ fallback' = "none"
        BY <1>4 DEF Start, ReportInv, IInv, StartsClean, NothingNotedYet
    <2>3. ReadSoFar' = {}
        BY <2>2, TierFacts, BoundsAssumption DEF ReadSoFar, Consulted
    <2>4. ReasonSoFar'
        BY <2>2, <2>3 DEF ReasonSoFar, Noted
    <2> QED
        BY <1>0, <1>3, <2>1, <2>4 DEF ReportInv, ReasonsFollow, NothingNotedYet
<1>5. CASE Reading \/ Gather
    <2>1. /\ UNCHANGED <<question, link, disputed, entries>> /\ pc = "read"
          /\ pc' = "read"
        BY <1>5 DEF Reading, Ignore, Refuse, Stale, UnknownToResponder, Gather,
           Advance, Note, AtItem
    <2>2. ReasonSoFar'
        BY <1>0, <1>5, <2>1, ReasonWhileReading DEF ReportInv, ReasonsFollow
    <2> QED
        BY <1>0, <1>3, <2>1, <2>2 DEF ReportInv, ReasonsFollow, NothingNotedYet
<1>6. CASE NextTier
    <2>1. /\ UNCHANGED <<question, link, disputed, entries, fallback, definite>>
          /\ pc = "read" /\ pc' = "read"
        BY <1>6 DEF NextTier
    <2>2. ReasonSoFar'
        BY <1>0, <1>6, <2>1, SameReadAtNextTier, ReasonStays
        DEF ReportInv, ReasonsFollow
    <2> QED
        BY <1>0, <1>3, <2>1, <2>2 DEF ReportInv, ReasonsFollow, NothingNotedYet
<1>7. CASE Summarise
    <2>1. /\ UNCHANGED <<question, link, disputed>> /\ pc' = "done"
          /\ entries' = Append(entries, AnchorEntry) /\ checked
        BY <1>0, <1>7 DEF Summarise, TypeOK
    <2>2. \A k \in Closed : entries'[k] = entries[k]
        BY <1>0, <2>1, OneMoreEntry DEF ReportInv, IInv
    <2> QED
        BY <1>0, <1>3, <2>1, <2>2 DEF ReportInv, ReasonsFollow, NothingNotedYet
<1>8. CASE UNCHANGED vars
    <2>1. /\ UNCHANGED <<question, link, disputed, entries, fallback, definite, pc>>
          /\ ReadSoFar' = ReadSoFar
        BY <1>8 DEF vars, ReadSoFar, Consulted
    <2>2. ReasonsFollow'
        BY <2>1, ReasonStays DEF ReportInv, ReasonsFollow
    <2> QED
        BY <1>0, <1>3, <2>1, <2>2 DEF ReportInv, NothingNotedYet
<1> QED
    BY <1>1, <1>2, <1>4, <1>5, <1>6, <1>7, <1>8 DEF Next, Reading, Done

\* What the report says beside the answers is true of the evidence: each missing
\* answer has the reason that the artefacts consulted leave, and a contradiction
\* between sources is reported exactly when there is one.
THEOREM Faithful == Spec => []ReportIsFaithful
<1>1. Init => ReportInv
    <2>1. SUFFICES ASSUME Init
                   PROVE  ReportInv
        OBVIOUS
    <2>2. Closed = {} /\ pc = "start" /\ fallback = "none" /\ disputed = {}
        BY <2>1 DEF Init, Closed
    <2> QED
        BY <2>1, <2>2, InvStart DEF ReportInv, ReasonsFollow, NothingNotedYet,
           ReasonsAreEarned, DisputesKept
<1>2. ReportInv /\ [Next]_vars => ReportInv'
    BY ReportStep
<1>3. ReportInv => ReportIsFaithful
    BY DEF ReportInv, DisputesKept, Contradicted, ReportIsFaithful,
       DisputesAreReported, Notes
<1> QED
    BY <1>1, <1>2, <1>3, PTL DEF Spec

=============================================================================
