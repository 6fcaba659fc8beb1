------------------------------- MODULE Signing -------------------------------
(***************************************************************************)
(* `sign` and `timestamp` (openszigno-cli commands/sign.rs and             *)
(* timestamp.rs over openszigno-author sign/): statements are written into *)
(* the text of a dossier as skeletons with placeholders, which three       *)
(* passes fill, each of them over a new parse of the text the last one     *)
(* left.  A run may take the dossier an earlier run wrote.                 *)
(*                                                                         *)
(* The readers' view of the result, at the end of the module, is that of   *)
(* the verifier: estimestamp.rs for container timestamps, the digests and  *)
(* the mandated scope for signatures.                                      *)
(***************************************************************************)
EXTENDS DossierText

CONSTANTS
    Dossiers,     \* the files a first run may be given
    Requests,     \* [command, scope, documents, tsa, material]
    Unusable,     \* the identifiers (or media types with them) names.rs refuses
    Answers,      \* of a timestamp authority: [bare, status, stamps]
    MaxShared,    \* MAX_SHARED_IDENTIFIERS, 64
    MaxRuns       \* how many runs follow each other

VARIABLES
    runs,
    pc,
    request,
    input,       \* the file this run was given
    text,        \* the working text
    plans,       \* the statements this run writes
    outcome

vars == <<runs, pc, request, input, text, plans, outcome>>
-----------------------------------------------------------------------------
\* The key and the certificate of a software signer.

Natural(key) == IF key = "p256" THEN "ecdsa-p256-sha256" ELSE "rsa-sha256"

Fits(algorithm, key) ==
    IF key = "p256" THEN algorithm = "ecdsa-p256-sha256" ELSE algorithm \in {"rsa-sha256", "rsa-pss-sha256"}

\* The certificate is resolved before the key; a wrong passphrase and no key
\* at all are answered alike.
Load(m) ==
    LET certificate == IF m.beside # "none" THEN m.beside ELSE m.inside
        algorithm   == IF m.requested = "natural" THEN Natural(m.key) ELSE m.requested
        refusal ==
            IF certificate = "none" THEN "signing_certificate_required"
            ELSE IF certificate = "unreadable" THEN "invalid_signing_certificate"
            ELSE IF m.key = "unreadable" \/ (m.sealed /\ ~m.passphrase) THEN "invalid_signing_key"
            ELSE IF certificate # m.key THEN "signing_key_mismatch"
            ELSE IF ~Fits(algorithm, m.key) THEN "invalid_signing_key"
            ELSE "none"
    IN  [refusal |-> refusal, key |-> m.key, certificate |-> certificate, algorithm |-> algorithm]
-----------------------------------------------------------------------------
\* What core's parser makes of the text.

Profile(t, document)   == First(Children(t, document, "DocumentProfile"))
DocumentsOf(t)         == First(Children(t, Root(t), "Documents"))
DossierProfile(t)      == First(Children(t, Root(t), "DossierProfile"))

\* The documents that have a profile, in source order.
Modelled(t) ==
    SetToSortSeq({d \in Children(t, DocumentsOf(t), "Document") : Profile(t, d) # 0}, <)

\* object_ref: the OBJREF of the profile, which names the payload object.
ObjectRef(t, document) == t[Profile(t, document)].ref

Parses(t) ==
    /\ Readable(t)
    /\ DossierProfile(t) # 0 /\ DocumentsOf(t) # 0
    /\ t[DossierProfile(t)].ref = t[DocumentsOf(t)].id
    /\ \A d \in ToSet(Modelled(t)) :
          /\ t[Profile(t, d)].id # NoId
          /\ {t[o].id : o \in Children(t, d, "Object")} = {ObjectRef(t, d)}
          /\ Cardinality(Children(t, d, "Object")) = 1
-----------------------------------------------------------------------------
\* What may be written, and where.

Signatures(t)          == {s \in Opens(t) : t[s].kind = "Signature"}
References(t, s)       == Within(t, s, "Reference")

WholeDocumentReference(t) == \E s \in Signatures(t) : \E r \in References(t, s) : t[r].ref = NoId

DossierLevelCover(t) ==
    Children(t, Root(t), "Signature") \union Children(t, Root(t), "TimeStamp") # {}

UnsafePlacement(t, scope) ==
    WholeDocumentReference(t) \/ (scope = "document" /\ DossierLevelCover(t))

\* A slip: only references to the element itself are looked at.
CoversSelf(t, element) ==
    \E s \in Signatures(t) : \E r \in References(t, s) : ById(t, t[r].ref) = element

\* A reference that cannot be resolved may name anything.
CoversAncestorOrSelf(t, element) ==
    \E s \in Signatures(t) : \E r \in References(t, s) :
        ById(t, t[r].ref) \in {0} \union AncestorsOrSelf(t, element)

\* resolve_selector
Selected(t, documents, selector) ==
    {n \in DOMAIN documents :
        IF selector.by = "index" THEN selector.index = n - 1
        ELSE selector.ref = ObjectRef(t, documents[n])}

\* The documents asked for, each once and in source order.
Targets(t, documents, selectors) ==
    IF selectors = <<>> THEN DOMAIN documents
    ELSE UNION {Selected(t, documents, selector) : selector \in ToSet(selectors)}

TargetsRefusal(t, documents, selectors) ==
    IF selectors = <<>> THEN (IF documents = <<>> THEN "document_not_signable" ELSE "none")
    ELSE IF \E selector \in ToSet(selectors) : Selected(t, documents, selector) = {}
         THEN "document_not_found"
         ELSE "none"

IdOf(t, i) == IF i # 0 /\ t[i].spelled = "Id" THEN t[i].id ELSE NoId

\* Where a statement of this document goes, or of the dossier (n = 0), and
\* the elements the format mandates that it cover.
PlaceAt(t, documents, n) ==
    IF n = 0
    THEN [n |-> 0, container |-> Root(t),
          covered |-> <<<<"dossier-profile", IdOf(t, DossierProfile(t))>>, <<"documents", IdOf(t, DocumentsOf(t))>>>>]
    ELSE LET object == ById(t, ObjectRef(t, documents[n]))
             container == IF object = 0 THEN 0 ELSE Parent(t, object)
         IN  [n |-> n, container |-> container,
              covered |-> <<<<"object", IF object = 0 THEN NoId ELSE t[object].id>>,
                            <<"document-profile", IF container = 0 THEN NoId ELSE IdOf(t, Profile(t, container))>>>>]

\* The identifiers a statement introduces.
Identifiers(command, id, covered) ==
    IF command = "timestamp" THEN {id}
    ELSE {Part(id, part) : part \in {"", "signed-props", "xades", "sigprof", "profile",
                                     "signature-profile", "signed-properties"}
                                    \union {c[1] : c \in ToSet(covered)}}

\* The first attempt none of whose identifiers is taken, 0 when all are.
Attempt(t, command, place) ==
    First({try \in 1..MaxShared :
              \A id \in Identifiers(command, Ident(command, place.n, try, ""), place.covered) : ById(t, id) = 0})

PlaceRefusal(t, command, place, attempt) ==
    LET missing == \E c \in ToSet(place.covered) : c[2] = NoId
    IN  IF missing /\ place.n = 0 THEN "sign_failed"
        ELSE IF missing \/ (\E c \in ToSet(place.covered) : c[2] \in Unusable) THEN "document_not_signable"
        ELSE IF command = "timestamp" /\ Children(t, place.container, "TimeStamp") # {} THEN "timestamp_exists"
        ELSE IF CoversAncestorOrSelf(t, place.container) THEN "document_already_signed"
        ELSE IF attempt # 0 THEN "none"
        ELSE IF command = "timestamp" THEN "timestamp_exists" ELSE "document_already_signed"

\* build_plan: its own identifiers, and what it references, in order.
PlanAt(t, command, place, attempt) ==
    LET id == Ident(command, place.n, attempt, "")
        covered == [c \in DOMAIN place.covered |->
                       [id |-> Part(id, place.covered[c][1]), to |-> place.covered[c][2]]]
    IN  [n |-> place.n, id |-> id, at |-> InsertOffset(t, place.container),
         references |->
            IF command = "timestamp"
            THEN (IF place.n = 0 THEN <<covered[1], covered[2]>> ELSE <<covered[2], covered[1]>>)
            ELSE <<covered[1], covered[2],
                   [id |-> Part(id, "signature-profile"), to |-> Part(id, "profile")],
                   [id |-> Part(id, "signed-properties"), to |-> Part(id, "signed-props")]>>]

\* plan_signatures and plan_timestamps: the first place that refuses ends it.
Planned(t, command, places) ==
    LET attempts == [k \in DOMAIN places |->
                        IF \E c \in ToSet(places[k].covered) : c[2] = NoId THEN 0
                        ELSE Attempt(t, command, places[k])]
        refusals == [k \in DOMAIN places |-> PlaceRefusal(t, command, places[k], attempts[k])]
        refused  == {k \in DOMAIN places : refusals[k] # "none"}
    IN  IF refused # {} THEN [refusal |-> refusals[Min(refused)], plans |-> <<>>]
        ELSE [refusal |-> "none",
              plans |-> [k \in DOMAIN places |-> PlanAt(t, command, places[k], attempts[k])]]

Resolve(t, asked) ==
    LET documents == Modelled(t)
        refusal   == TargetsRefusal(t, documents, asked.documents)
        numbers   == IF asked.scope = "dossier" THEN {0} ELSE Targets(t, documents, asked.documents)
    IN  IF UnsafePlacement(t, asked.scope)
        THEN [refusal |-> "document_already_signed", plans |-> <<>>]
        ELSE IF asked.scope = "document" /\ refusal # "none" THEN [refusal |-> refusal, plans |-> <<>>]
        ELSE Planned(t, asked.command, [k \in DOMAIN SetToSortSeq(numbers, <) |->
                                           PlaceAt(t, documents, SetToSortSeq(numbers, <)[k])])
-----------------------------------------------------------------------------
\* The elements, with a placeholder for each value.

SignatureElement(plan, signer, stamped) ==
    LET id == plan.id
    IN  Element("Signature", id, NoId,
            Element("SignedInfo", NoId, NoId,
                Word(Says("method", Ident(signer.algorithm, 0, 0, ""), <<>>))
                \o FlattenSeq([r \in DOMAIN plan.references |->
                       Element("Reference", plan.references[r].id, plan.references[r].to,
                               Word(Hole("digest hole", plan.references[r].id)))]))
            \o Element("SignatureValue", NoId, NoId, Word(Hole("value hole", id)))
            \o Element("KeyInfo", NoId, NoId, Word(Says("certificate", Ident(signer.certificate, 0, 0, ""), <<>>)))
            \o Element("Object", Part(id, "profile"), NoId,
                       Element("SignatureProfile", Part(id, "sigprof"), NoId, <<>>))
            \o Element("Object", Part(id, "xades"), NoId,
                   Element("SignedProperties", Part(id, "signed-props"), NoId,
                           Word(Says("certificate digest", Ident(signer.certificate, 0, 0, ""), <<>>)))
                   \o IF stamped
                      THEN Element("SignatureTimeStamp", NoId, NoId, Word(Hole("timestamp hole", id)))
                      ELSE <<>>))

TimeStampElement(plan) ==
    Element("TimeStamp", plan.id, NoId,
        FlattenSeq([r \in DOMAIN plan.references |->
                       Element("Include", NoId, plan.references[r].to, <<>>)])
        \o Element("EncapsulatedTimeStamp", NoId, NoId, Word(Hole("container hole", plan.id))))

ElementOf(plan, asked) ==
    IF asked.command = "timestamp" THEN TimeStampElement(plan)
    ELSE SignatureElement(plan, Load(asked.material), asked.tsa)

RECURSIVE InsertInOrder(_, _), FillInOrder(_, _)

InsertInOrder(t, pieces) ==
    IF pieces = <<>> THEN t
    ELSE InsertInOrder(InsertedAt(t, Head(pieces).at, Head(pieces).element), Tail(pieces))

FillInOrder(t, edits) ==
    IF edits = <<>> THEN t
    ELSE FillInOrder(FilledIn(t, Head(edits).first, Head(edits).last, Head(edits).values), Tail(edits))

\* A slip: the elements are inserted as they were planned.
InsertAllAsPlanned(t, pieces) == InsertInOrder(t, pieces)

\* insert_signatures and insert_elements: last offset first.
InsertAll(t, pieces) == InsertInOrder(t, SortSeq(pieces, LAMBDA a, b : a.at > b.at))

\* A slip: the placeholders are replaced wherever they are read.
FillInAnywhere(t, edits) ==
    FillInOrder(t, [e \in DOMAIN edits |->
                       [first |-> 1, last |-> IF e = 1 THEN Len(t) ELSE 1,
                        values |-> UNION {edits[k].values : k \in DOMAIN edits}]])

\* fill_in: each edit within its own element, last first.
FillIn(t, edits) == FillInOrder(t, SortSeq(edits, LAMBDA a, b : a.first > b.first))

\* The edit of one statement: the range of its element as the text stands.
Edit(t, plan, values) ==
    LET at == ById(t, plan.id) IN [first |-> at, last |-> EndOf(t, at), values |-> values]

Fill(hole, value) == [hole |-> hole, value |-> value]

Digested(t, planned) ==
    FillIn(t, [p \in DOMAIN planned |->
        Edit(t, planned[p],
             {Fill(Hole("digest hole", reference.id),
                   Says("digest", NoId, Subtree(t, ById(t, reference.to))))
                : reference \in ToSet(planned[p].references)})])

\* The named child of a signature.
ChildOf(t, id, kind) == Min(Children(t, ById(t, id), kind))

\* What the key makes of the octets, under the algorithm it signs with.
SignedBy(signer, octets) == Says("signature", Ident(signer.key, 0, 0, signer.algorithm), octets)

Valued(t, planned, signer) ==
    FillIn(t, [p \in DOMAIN planned |->
        Edit(t, planned[p],
             {Fill(Hole("value hole", planned[p].id),
                   SignedBy(signer, Subtree(t, ChildOf(t, planned[p].id, "SignedInfo"))))})])

\* The octets a token is asked for: the signature value, or the included
\* elements one after the other.
Imprint(t, command, plan) ==
    IF command = "sign" THEN Subtree(t, ChildOf(t, plan.id, "SignatureValue"))
    ELSE FlattenSeq([r \in DOMAIN plan.references |-> Subtree(t, ById(t, plan.references[r].to))])

\* A response is unwrapped only when it was granted; a bare token needs none.
Granted(answer) == answer.bare \/ answer.status \in 0..1

Stamps(answer, octets) == IF answer.stamps = "asked" THEN octets ELSE <<>>

TokenOf(answer, octets) ==
    Says("token", Ident(IF Granted(answer) THEN "authority" ELSE "nobody", 0, 0, ""), Stamps(answer, octets))

\* timestamp_token: a token, and one that stamps what was asked about.
Accepted(answer, octets) ==
    Granted(answer) /\ answer.stamps # "nothing" /\ Stamps(answer, octets) = octets

Stamped(t, command, planned, answers) ==
    FillIn(t, [p \in DOMAIN planned |->
        Edit(t, planned[p],
             {Fill(Hole(IF command = "sign" THEN "timestamp hole" ELSE "container hole", planned[p].id),
                   TokenOf(answers[p], Imprint(t, command, planned[p])))})])
-----------------------------------------------------------------------------
Init ==
    /\ runs = 0 /\ pc = "idle" /\ outcome = "none"
    /\ request = <<>> /\ plans = <<>> /\ text = <<>>
    /\ input \in Dossiers

Refuse(how) ==
    /\ pc' = "idle" /\ outcome' = how /\ plans' = <<>> /\ text' = <<>>

\* The file is parsed, and the signing material loaded.
Begin ==
    /\ pc = "idle" /\ runs < MaxRuns
    /\ runs' = runs + 1
    /\ request' \in Requests
    /\ input' = IF outcome = "written" THEN text ELSE input
    /\ IF ~Parses(input') THEN Refuse("invalid_dossier")
       ELSE IF request'.command = "sign" /\ Load(request'.material).refusal # "none"
       THEN Refuse(Load(request'.material).refusal)
       ELSE pc' = "plan" /\ outcome' = "none" /\ plans' = <<>> /\ text' = Normalised(input')

\* Every refusal of the placement comes first; then the skeletons go in.
Plan ==
    /\ pc = "plan"
    /\ LET resolved == Resolve(text, request)
       IN  IF resolved.refusal # "none" THEN Refuse(resolved.refusal)
           ELSE /\ plans' = resolved.plans
                /\ text' = InsertAll(text, [p \in DOMAIN resolved.plans |->
                              [at |-> resolved.plans[p].at, element |-> ElementOf(resolved.plans[p], request)]])
                /\ pc' = IF request.command = "sign" THEN "digests" ELSE "stamps"
                /\ UNCHANGED outcome
    /\ UNCHANGED <<runs, request, input>>

FillDigests ==
    /\ pc = "digests"
    /\ text' = Digested(text, plans) /\ pc' = "values"
    /\ UNCHANGED <<runs, request, input, plans, outcome>>

\* The signer is asked once per signature, and may fail.
FillSignatureValues ==
    /\ pc = "values"
    /\ \/ /\ text' = Valued(text, plans, Load(request.material))
          /\ pc' = IF request.tsa THEN "stamps" ELSE "write"
          /\ UNCHANGED <<plans, outcome>>
       \/ Refuse("sign_failed")
    /\ UNCHANGED <<runs, request, input>>

\* fill_timestamps and fill_tokens: one answer for each statement.
FillTimestamps ==
    /\ pc = "stamps"
    /\ \E answers \in [DOMAIN plans -> Answers] :
          IF \E p \in DOMAIN plans : ~Accepted(answers[p], Imprint(text, request.command, plans[p]))
          THEN Refuse("tsa_failed")
          ELSE /\ text' = Stamped(text, request.command, plans, answers)
               /\ pc' = "write" /\ UNCHANGED <<plans, outcome>>
    /\ UNCHANGED <<runs, request, input>>

\* The authority could not be asked at all.
Unreachable ==
    /\ pc = "stamps"
    /\ Refuse("tsa_failed")
    /\ UNCHANGED <<runs, request, input>>

\* Only now is it found whether the output can be created.
WriteOut ==
    /\ pc = "write"
    /\ \/ pc' = "idle" /\ outcome' = "written" /\ UNCHANGED <<plans, text>>
       \/ Refuse("output_exists")
    /\ UNCHANGED <<runs, request, input>>

Next == Begin \/ Plan \/ FillDigests \/ FillSignatureValues \/ FillTimestamps \/ Unreachable \/ WriteOut

Spec == Init /\ [][Next]_vars
-----------------------------------------------------------------------------
\* What a verifier reads in a text.

\* A reference whose digest is that of the element it names.
ReferenceHolds(t, r) ==
    LET target == ByAnyId(t, t[r].ref)
    IN  target # 0 /\ Content(t, r) = Encoded(Says("digest", NoId, Subtree(t, target)))

\* The value is that of the certificate's key, under the declared method.
ValueHolds(t, s) ==
    LET info == Min(Children(t, s, "SignedInfo"))
        key  == Content(t, Min(Children(t, s, "KeyInfo")))[1].word.id[1]
        method == t[info + 1].word.id[1]
    IN  Content(t, Min(Children(t, s, "SignatureValue")))
            = Encoded(SignedBy([key |-> key, algorithm |-> method], Subtree(t, info)))

TokenOver(octets) == Encoded(Says("token", Ident("authority", 0, 0, ""), octets))

SignatureStampHolds(t, s) ==
    \A ts \in Within(t, s, "SignatureTimeStamp") :
        Content(t, ts) = TokenOver(Subtree(t, Min(Children(t, s, "SignatureValue"))))

\* The elements a statement at this place has to cover.
Mandated(t, parent) ==
    IF parent = Root(t) THEN {DossierProfile(t), DocumentsOf(t)} \ {0}
    ELSE {Profile(t, parent), ByAnyId(t, ObjectRef(t, parent))}

Covers(t, targets, parent) ==
    \A m \in Mandated(t, parent) : \E target \in targets : target \in AncestorsOrSelf(t, m)

\* prepare: the included elements one after the other, and the one token.
ContainerStampHolds(t, ts) ==
    LET includes == SetToSortSeq(Children(t, ts, "Include"), <)
        targets  == [k \in DOMAIN includes |-> ByAnyId(t, t[includes[k]].ref)]
    IN  /\ includes # <<>> /\ 0 \notin ToSet(targets)
        /\ Covers(t, ToSet(targets), Parent(t, ts))
        /\ Content(t, Min(Children(t, ts, "EncapsulatedTimeStamp")))
              = TokenOver(FlattenSeq([k \in DOMAIN targets |-> Subtree(t, targets[k])]))

SignatureHolds(t, s) ==
    /\ \A r \in References(t, s) : ReferenceHolds(t, r)
    /\ ValueHolds(t, s) /\ SignatureStampHolds(t, s)

TimeStamps(t) ==
    {ts \in Opens(t) : t[ts].kind = "TimeStamp"
                       /\ Parent(t, ts) \in {Root(t)} \union ToSet(Modelled(t))}

\* The statements that verify, by their identifiers.
Verified(t) ==
    IF ~Readable(t) THEN {}
    ELSE {t[s].id : s \in {s \in Signatures(t) : SignatureHolds(t, s)}}
         \union {t[ts].id : ts \in {ts \in TimeStamps(t) : ContainerStampHolds(t, ts)}}
-----------------------------------------------------------------------------
Written == pc = "idle" /\ outcome = "written"

\* Type invariant.
TypeOK ==
    /\ runs \in 0..MaxRuns
    /\ pc \in {"idle", "plan", "digests", "values", "stamps", "write"}
    /\ pc # "idle" => request \in Requests
    /\ pc \in {"digests", "values", "stamps", "write"} => plans # <<>> /\ Readable(text)

\* The text without the statements of the run.
Others(t) ==
    LET ranges == {ById(t, plans[p].id)..EndOf(t, ById(t, plans[p].id)) : p \in DOMAIN plans}
    IN  FlattenSeq([k \in DOMAIN t |-> IF k \in UNION ranges THEN <<>> ELSE <<t[k]>>])

\* The timestamps that include an element the run wrote in, or one around it.
StampsOver(t) ==
    LET changed == UNION {AncestorsOrSelf(t, Parent(t, ById(t, plans[p].id))) : p \in DOMAIN plans}
    IN  {t[ts].id : ts \in {ts \in TimeStamps(t) :
            \E include \in Children(t, ts, "Include") : ByAnyId(t, t[include].ref) \in changed}}

(* What was there is kept, whatever a run wrote and wherever it put it:    *)
(* every statement that verified in the file it was given verifies in the  *)
(* one it wrote, and but for its own statements and the declared encoding  *)
(* that is the file it was given, a payload or a title that reads like a   *)
(* placeholder included (sign/mod.rs, sign/dsig.rs).  The code refuses by  *)
(* the references of signatures alone: a timestamp of one document that    *)
(* includes another breaks when that one is signed or stamped, and nothing *)
(* else does; the documents promise that nothing at all does (README,      *)
(* section 6).                                                             *)
EarlierKept ==
    Written => /\ Verified(input) \ Verified(text) = Verified(input) \intersect StampsOver(text)
               /\ Others(text) = Normalised(input)

\* The documents a request names, read off the request alone.
Asked(t) ==
    IF request.scope = "dossier" THEN {Root(t)}
    ELSE {d \in ToSet(Modelled(t)) :
            request.documents = <<>>
            \/ \E k \in DOMAIN request.documents :
                  LET s == request.documents[k]
                  IN  IF s.by = "index" THEN Modelled(t)[s.index + 1] = d ELSE s.ref = ObjectRef(t, d)}

(* Every statement a run wrote verifies: each is a child of the element it *)
(* is about, covers what the format mandates there with what belongs to    *)
(* itself, and each element asked for has got exactly one.                 *)
WrittenVerifies ==
    Written =>
        LET at == [p \in DOMAIN plans |-> ById(text, plans[p].id)]
        IN  /\ {plans[p].id : p \in DOMAIN plans} \subseteq Verified(text)
            /\ {Parent(text, at[p]) : p \in DOMAIN plans} = Asked(text)
            /\ Cardinality(Asked(text)) = Len(plans)
            /\ request.command = "sign" =>
                  \A p \in DOMAIN plans :
                      LET targets == {ByAnyId(text, text[r].ref) : r \in References(text, at[p])}
                      IN  /\ Covers(text, targets, Parent(text, at[p]))
                          /\ Within(text, at[p], "SignedProperties") \subseteq targets
                          /\ request.tsa => Within(text, at[p], "SignatureTimeStamp") # {}
==============================================================================
