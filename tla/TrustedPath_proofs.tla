-------------------------- MODULE TrustedPath_proofs --------------------------
(***************************************************************************)
(* For every command line, store, list, pool, order and bound.  First the  *)
(* search: one that was not cut short recorded every path and nothing      *)
(* else, an accepted path ends at configured trust with every rule kept,   *)
(* and nothing below its top could have ended it.  Then the trust: what    *)
(* was read of a store, who signed what a list contributes, what a list    *)
(* makes of a chain.  At last both: what is accepted rests on what the     *)
(* caller named.                                                           *)
(***************************************************************************)
EXTENDS TrustedPath, SequenceTheorems, FiniteSetTheorems, WellFoundedInduction, TLAPS

(***************************************************************************)
(* The least member of a set of numbers, which FirstOf chooses.            *)
(***************************************************************************)
Less == {p \in Nat \X Nat : p[1] < p[2]}

LEMMA Least ==
    ASSUME NEW S \in SUBSET Nat, S # {}
    PROVE  \E k \in S : \A j \in S : k <= j
<1>1. OpToRel(<, Nat) = Less
    BY DEF OpToRel, Less
<1>2. IsWellFoundedOn(Less, Nat)
    BY NatLessThanWellFounded, <1>1
<1>3. PICK k \in S : \A j \in S : ~(<<j, k>> \in Less)
    BY <1>2, WFMin, Zenon
<1>4. ASSUME NEW j \in S PROVE k <= j
    <2>1. <<j, k>> \notin Less /\ j \in Nat /\ k \in Nat
        BY <1>3
    <2>2. <<j, k>> \in Nat \X Nat /\ <<j, k>>[1] = j /\ <<j, k>>[2] = k
        BY <2>1
    <2>3. ~(j < k)
        BY <2>1, <2>2 DEF Less
    <2> QED
        BY <2>1, <2>3
<1> QED
    BY <1>4

LEMMA FirstOfFacts ==
    ASSUME NEW f, DOMAIN f \in SUBSET Nat
    PROVE  /\ FirstOf(f) = "none" <=> \A k \in DOMAIN f : f[k] = "none"
           /\ FirstOf(f) # "none" => \E k \in DOMAIN f : FirstOf(f) = f[k]
<1> DEFINE faulty == {k \in DOMAIN f : f[k] # "none"}
<1>1. CASE faulty = {}
    BY <1>1 DEF FirstOf
<1>2. CASE faulty # {}
    <2> DEFINE k == CHOOSE k \in faulty : \A j \in faulty : k <= j
    <2>1. faulty \in SUBSET Nat
        OBVIOUS
    <2>2. \E i \in faulty : \A j \in faulty : i <= j
        BY <1>2, <2>1, Least, Zenon
    <2>3. k \in faulty
        BY <2>2, Zenon
    <2>4. FirstOf(f) = f[k]
        BY <1>2, Zenon DEF FirstOf
    <2> HIDE DEF k
    <2> QED
        BY <2>3, <2>4
<1> QED
    BY <1>1, <1>2

FaultCodes == Codes \ {"none", "cert_path_unknown", "cert_path_search_exhausted",
                       "cert_path_untrusted", "cert_path_ok", "trust_list_service_not_granted"}

\* What a path without a fault is known to be, and what a fault may be called.
LEMMA FaultFacts ==
    ASSUME NEW path \in Seq(Certs)
    PROVE  /\ Fault(path) \in FaultCodes \union {"none"}
           /\ Fault(path) = "none" =>
                /\ \A k \in DOMAIN path : OwnFault(path[k]) = "none"
                /\ \A k \in 2 .. Len(path) : /\ IssuerFault(path, k) = "none"
                                             /\ SignedWith[path[k - 1]] = Key[path[k]]
<1> DEFINE owns == [k \in DOMAIN path |-> OwnFault(path[k])]
           issuings == [k \in 2 .. Len(path) |-> IssuerFault(path, k)]
<1>1. DOMAIN owns \in SUBSET Nat /\ DOMAIN issuings \in SUBSET Nat
    OBVIOUS
<1>2. /\ FirstOf(owns) = "none" <=> \A k \in DOMAIN path : OwnFault(path[k]) = "none"
      /\ FirstOf(owns) # "none" => \E k \in DOMAIN path : FirstOf(owns) = OwnFault(path[k])
    <2>1. DOMAIN owns = DOMAIN path /\ \A k \in DOMAIN path : owns[k] = OwnFault(path[k])
        OBVIOUS
    <2> HIDE DEF owns
    <2> QED
        BY <1>1, <2>1, FirstOfFacts
<1>3. /\ FirstOf(issuings) = "none" <=> \A k \in 2 .. Len(path) : IssuerFault(path, k) = "none"
      /\ FirstOf(issuings) # "none"
            => \E k \in 2 .. Len(path) : FirstOf(issuings) = IssuerFault(path, k)
    <2>1. DOMAIN issuings = 2 .. Len(path)
          /\ \A k \in 2 .. Len(path) : issuings[k] = IssuerFault(path, k)
        OBVIOUS
    <2> HIDE DEF issuings
    <2> QED
        BY <1>1, <2>1, FirstOfFacts
<1>4. FirstOf(owns) \in FaultCodes \union {"none"}
    BY <1>2 DEF OwnFault, FaultCodes, Codes
<1>5. FirstOf(issuings) \in FaultCodes \union {"none"}
    BY <1>3 DEF IssuerFault, FaultCodes, Codes
<1> HIDE DEF owns, issuings
<1>6. /\ Fault(path) \in {FirstOf(owns), FirstOf(issuings), "none", "cert_key_usage_invalid",
                          "cert_signature_invalid", "cert_name_constraint_violation"}
      /\ Fault(path) = "none" =>
            /\ FirstOf(owns) = "none" /\ FirstOf(issuings) = "none"
            /\ ~ \E k \in 2 .. Len(path) : SignedWith[path[k - 1]] # Key[path[k]]
    BY DEF Fault, owns, issuings
<1> QED
    BY <1>2, <1>3, <1>4, <1>5, <1>6 DEF FaultCodes, Codes
-----------------------------------------------------------------------------
(***************************************************************************)
(* The invariant: the types, what the pool may say, the climb in progress, *)
(* what has been recorded and what is still ahead.                         *)
(***************************************************************************)
Offering == pc \in {"offer_candidates", "offer_anchors"}

Beginning ==
    /\ request \in Requests
    /\ Offering => chain = <<>> /\ next = <<1>> /\ paths = <<>>
    /\ Offering \/ pc = "search" => judged = 0
    /\ pc = "offer_candidates" => Len(pool) <= offered
    /\ pc = "offer_anchors" => Len(pool) <= MaxCertificates + offered

\* Where a path may end is told by configured trust and nothing else.
PoolIsTold ==
    \A i \in DOMAIN pool :
        /\ pool[i].ends = "anchor" => pool[i].cert \in EntriesOf(request.anchors)
        /\ pool[i].ends = "listed" => Terminates(pool[i].cert)
        /\ pool[i].ends = "no" => ~Terminates(pool[i].cert)

ClimbsOnly == IsClimb(chain) /\ \A p \in EntriesOf(paths) : IsPath(p)

\* The search stands somewhere on the path, or below it, and has not yet tried
\* the entry by which the path goes on.
Ahead(path) ==
    \E k \in 0 .. Len(chain) :
        /\ k < Len(path)
        /\ \A j \in 1 .. k : path[j] = chain[j]
        /\ path[k + 1] >= next[k + 1]

NoneMissed ==
    pc = "search" => \A path \in PoolPaths : path \in EntriesOf(paths) \/ Ahead(path)

\* The places where the climb in progress could have ended are all recorded,
\* and so are those of every recorded path, before it.
NearerFirst ==
    /\ \A n \in DOMAIN chain : pool[chain[n]].ends # "no"
          => \E i \in DOMAIN paths : paths[i] = Prefix(chain, n)
    /\ \A m \in DOMAIN paths : \A n \in DOMAIN paths[m] :
          n < Len(paths[m]) /\ pool[paths[m][n]].ends # "no"
          => \E i \in DOMAIN paths : i < m /\ paths[i] = Prefix(paths[m], n)

Acceptable(path) ==
    Fault(Certificates(path)) = "none" /\ MayAnchor(Last(Certificates(path)))

Unacceptable ==
    /\ pc = "judge" => \A i \in 1 .. judged : ~Acceptable(paths[i])
    /\ notGranted.code # "cert_path_ok" /\ firstFailure.code # "cert_path_ok"

IInv ==
    /\ TypeOK /\ Beginning /\ PoolIsTold /\ ClimbsOnly /\ NoneMissed /\ NearerFirst
    /\ Unacceptable /\ SearchIsComplete /\ TrustBoundary /\ NearestIsPreferred
-----------------------------------------------------------------------------
(* Types.                                                                  *)

PoolEntries == [cert : Certs, ends : {"no", "listed", "anchor"}]

LEMMA FrontFacts ==
    ASSUME NEW S, NEW s \in Seq(S), NEW n \in 0 .. Len(s)
    PROVE  /\ SubSeq(s, 1, n) \in Seq(S) /\ Len(SubSeq(s, 1, n)) = n
           /\ \A i \in 1 .. n : SubSeq(s, 1, n)[i] = s[i]
<1>1. \A i \in 1 .. n : s[i] \in S
    BY ElementOfSeq
<1> QED
    BY <1>1, SubSeqProperties

LEMMA RequestFacts ==
    ASSUME request \in Requests
    PROVE  /\ request.leaf \in Certs /\ request.candidates \in Seq(Certs)
           /\ request.anchors \in Seq(Certs) /\ request.time \in Int
BY RequestsAssumption

\* The parts of TypeOK that the steps are about.
LEMMA PoolFacts ==
    ASSUME TypeOK
    PROVE  Len(pool) \in Nat /\ \A i \in 1 .. Len(pool) : pool[i].cert \in Certs
<1>1. pool \in Seq(PoolEntries)
    BY DEF TypeOK, PoolTypeOK, PoolEntries
<1>2. Len(pool) \in Nat /\ \A i \in 1 .. Len(pool) : pool[i] \in PoolEntries
    BY <1>1, ElementOfSeq
<1> QED
    BY <1>2 DEF PoolEntries

LEMMA BoundFacts ==
    /\ MaxChain \in Nat /\ MaxPaths \in Nat /\ MaxExpansions \in Nat /\ MaxCertificates \in Nat
    /\ TypeOK => expansions \in 0 .. MaxExpansions + 1
BY BoundsAssumption DEF TypeOK, SearchTypeOK

LEMMA ChainFacts ==
    ASSUME TypeOK
    PROVE  /\ chain \in Seq(1 .. Len(pool)) /\ Len(chain) \in Nat
           /\ chain = <<>> <=> Len(chain) = 0
<1>1. chain \in Seq(1 .. Len(pool))
    BY DEF TypeOK, SearchTypeOK
<1> QED
    BY <1>1, EmptySeq, LenProperties

LEMMA NextFacts ==
    ASSUME TypeOK
    PROVE  /\ next \in Seq(1 .. Len(pool) + 1) /\ Len(next) = Len(chain) + 1
           /\ Last(next) \in 1 .. Len(pool) + 1
<1>1. next \in Seq(1 .. Len(pool) + 1) /\ Len(next) = Len(chain) + 1
    BY DEF TypeOK, SearchTypeOK
<1>2. Len(next) \in DOMAIN next
    BY <1>1, ChainFacts, LenProperties
<1> QED
    BY <1>1, <1>2, ElementOfSeq, LenProperties DEF Last

LEMMA PathsFacts ==
    ASSUME TypeOK
    PROVE  paths \in Seq(Seq(1 .. Len(pool))) /\ Len(paths) \in Nat
<1>1. paths \in Seq(Seq(1 .. Len(pool)))
    BY DEF TypeOK, SearchTypeOK
<1> QED
    BY <1>1, LenProperties

LEMMA CertificatesFacts ==
    ASSUME TypeOK, request \in Requests, NEW p \in Seq(1 .. Len(pool))
    PROVE  /\ Certificates(p) \in Seq(Certs) /\ Len(Certificates(p)) = Len(p) + 1
           /\ Certificates(p)[1] = request.leaf
           /\ \A k \in DOMAIN p : Certificates(p)[k + 1] = pool[p[k]].cert
           /\ p # <<>> => Last(Certificates(p)) = pool[Last(p)].cert
<1> DEFINE certs == [k \in DOMAIN p |-> pool[p[k]].cert]
<1>1. certs \in Seq(Certs) /\ Len(certs) = Len(p) /\ <<request.leaf>> \in Seq(Certs)
    <2>1. Len(p) \in Nat /\ DOMAIN p = 1 .. Len(p) /\ \A k \in 1 .. Len(p) : p[k] \in 1 .. Len(pool)
        BY ElementOfSeq
    <2>2. certs \in [1 .. Len(p) -> Certs]
        BY <2>1, PoolFacts, ChainFacts
    <2> QED
        BY <2>1, <2>2, RequestFacts, SeqDef
<1>2. Certificates(p) = <<request.leaf>> \o certs
    BY DEF Certificates
<1>3. \A k \in DOMAIN p : certs[k] = pool[p[k]].cert
    OBVIOUS
<1> HIDE DEF certs
<1>4. Certificates(p) \in Seq(Certs) /\ Len(Certificates(p)) = Len(p) + 1
    BY <1>1, <1>2
<1>5. Certificates(p)[1] = request.leaf /\ \A k \in DOMAIN p : Certificates(p)[k + 1] = certs[k]
    BY <1>1, <1>2
<1>6. p # <<>> => Len(p) \in DOMAIN p
    OBVIOUS
<1> QED
    BY <1>3, <1>4, <1>5, <1>6 DEF Last

LEMMA OutcomeTyped ==
    ASSUME NEW code \in Codes, NEW certs \in Seq(Certs), NEW path \in Seq(Certs)
    PROVE  Outcome(code, certs, path) \in Outcomes
BY DEF Outcome, Outcomes

LEMMA FaultTyped ==
    ASSUME NEW path \in Seq(Certs)
    PROVE  Fault(path) \in Codes
BY FaultFacts DEF FaultCodes, Codes

LEMMA TypingInit == Init => TypeOK /\ Beginning
<1> SUFFICES ASSUME Init PROVE TypeOK /\ Beginning
    OBVIOUS
<1>1. <<>> \in Seq(Certs) /\ "none" \in Codes
    BY DEF Codes
<1>2. NoOutcome \in Outcomes
    BY <1>1, OutcomeTyped DEF NoOutcome
<1>3. PoolTypeOK /\ SearchTypeOK
    BY BoundsAssumption DEF Init, PoolTypeOK, SearchTypeOK
<1> QED
    BY <1>2, <1>3, BoundsAssumption DEF Init, TypeOK, Beginning, Offering

\* Filling the pool, before anything was climbed to.
LEMMA OfferTyped ==
    ASSUME TypeOK, Beginning, Offering, NEW e \in PoolEntries,
           pool' \in {pool, Append(pool, e)}, offered' = offered + 1, offered < MaxCertificates,
           UNCHANGED <<request, pc, search, verdict>>
    PROVE  TypeOK' /\ Beginning'
<1>1. pool' \in Seq(PoolEntries) /\ Len(pool') \in {Len(pool), Len(pool) + 1}
    <2>1. pool \in Seq(PoolEntries)
        BY DEF TypeOK, PoolTypeOK, PoolEntries
    <2> QED
        BY <2>1, AppendProperties
<1>2. Len(pool) \in Nat /\ offered \in Nat /\ MaxCertificates \in Nat
    BY PoolFacts, BoundFacts DEF TypeOK, PoolTypeOK
<1>3. PoolTypeOK'
    BY <1>1, <1>2 DEF PoolTypeOK, PoolEntries, Beginning, Offering
<1>4. SearchTypeOK'
    BY <1>1, <1>2, BoundsAssumption DEF TypeOK, SearchTypeOK, Beginning, search
<1> QED
    BY <1>1, <1>2, <1>3, <1>4 DEF TypeOK, Beginning, Offering, search, verdict

\* Judging, which leaves the pool and the search alone.
LEMMA JudgingTyped ==
    ASSUME TypeOK, Beginning, pc' \in {"judge", "done"},
           UNCHANGED <<request, offered, pool, search>>,
           judged' \in 0 .. Len(paths), {notGranted', firstFailure', answer'} \subseteq Outcomes
    PROVE  TypeOK' /\ Beginning'
<1>1. PoolTypeOK' /\ SearchTypeOK'
    BY DEF TypeOK, PoolTypeOK, SearchTypeOK, search
<1> QED
    BY <1>1 DEF TypeOK, Beginning, Offering, search

LEMMA TypingStep == TypeOK /\ Beginning /\ [Next]_vars => TypeOK' /\ Beginning'
<1> SUFFICES ASSUME TypeOK, Beginning, [Next]_vars PROVE TypeOK' /\ Beginning'
    OBVIOUS
<1>0. /\ <<request.leaf>> \in Seq(Certs) /\ <<>> \in Seq(Certs)
      /\ judged \in 0 .. Len(paths) /\ {notGranted, firstFailure, answer} \subseteq Outcomes
    BY RequestFacts DEF TypeOK, Beginning
<1>1. CASE NoTrust
    <2>1. answer' \in Outcomes
        BY <1>0, <1>1, OutcomeTyped DEF NoTrust, Answer, Codes
    <2> QED
        BY <1>0, <1>1, <2>1, JudgingTyped DEF NoTrust, Answer
<1>2. CASE OfferCandidate
    <2> DEFINE c == request.candidates[offered + 1]
               e == [cert |-> c, ends |-> Standing(c)]
    <2>1. c \in Certs
        BY <1>2, RequestFacts DEF OfferCandidate, TypeOK, PoolTypeOK, Beginning
    <2>2. e \in PoolEntries
        BY <2>1 DEF Standing, PoolEntries
    <2>3. pool' \in {pool, Append(pool, e)}
        BY <1>2 DEF OfferCandidate
    <2> HIDE DEF c, e
    <2> QED
        BY <1>2, <2>2, <2>3, OfferTyped DEF OfferCandidate, Offering
<1>3. CASE CandidatesOffered
    <2>1. PoolTypeOK' /\ SearchTypeOK'
        BY <1>3, BoundFacts
        DEF CandidatesOffered, TypeOK, PoolTypeOK, SearchTypeOK, search
    <2>2. Len(pool) <= MaxCertificates
        BY <1>3, PoolFacts, BoundFacts DEF CandidatesOffered, TypeOK, PoolTypeOK, Beginning
    <2> QED
        <3>1. /\ pc' = "offer_anchors" /\ offered' = 0 /\ MaxCertificates + 0 = MaxCertificates
              /\ UNCHANGED <<request, pool, chain, next, paths, verdict>>
            BY <1>3, BoundFacts DEF CandidatesOffered, search
        <3>2. Beginning'
            BY <1>3, <2>2, <3>1 DEF CandidatesOffered, Beginning, Offering, verdict
        <3> QED
            BY <1>0, <2>1, <3>1, <3>2 DEF TypeOK, verdict
<1>4. CASE OfferAnchor
    <2> DEFINE c == request.anchors[offered + 1]
               e == [cert |-> c, ends |-> "anchor"]
    <2>1. c \in Certs
        BY <1>4, RequestFacts DEF OfferAnchor, TypeOK, PoolTypeOK, Beginning
    <2>2. e \in PoolEntries /\ pool' = Append(pool, e)
        BY <1>4, <2>1 DEF OfferAnchor, PoolEntries
    <2> HIDE DEF c, e
    <2> QED
        BY <1>4, <2>2, OfferTyped DEF OfferAnchor, Offering
<1>5. CASE AnchorsOffered
    <2>1. PoolTypeOK' /\ SearchTypeOK'
        BY <1>5 DEF AnchorsOffered, TypeOK, PoolTypeOK, SearchTypeOK, search
    <2> QED
        BY <1>5, <2>1 DEF AnchorsOffered, TypeOK, Beginning, Offering, search, verdict
<1>6. CASE Expand
    <2>1. PICK i \in Untried :
            /\ expansions' = expansions + 1
            /\ chain' = Append(chain, i)
            /\ next' = Append([next EXCEPT ![Len(next)] = i + 1], 1)
            /\ paths' = IF pool[i].ends # "no" THEN Recorded(paths, Append(chain, i)) ELSE paths
        BY <1>6 DEF Expand
    <2>2. i \in 1 .. Len(pool)
        BY PoolFacts, NextFacts DEF Untried
    <2>3. chain' \in Seq(1 .. Len(pool)) /\ Len(chain') = Len(chain) + 1
        BY <2>1, <2>2, PoolFacts, ChainFacts, AppendProperties
    <2>4. next' \in Seq(1 .. Len(pool) + 1) /\ Len(next') = Len(next) + 1
        <3>1. /\ [next EXCEPT ![Len(next)] = i + 1] \in Seq(1 .. Len(pool) + 1)
              /\ Len([next EXCEPT ![Len(next)] = i + 1]) = Len(next)
            BY <2>2, PoolFacts, NextFacts, ChainFacts, ExceptSeq
        <3> QED
            BY <2>1, <3>1, PoolFacts, NextFacts, ChainFacts, AppendProperties
    <2>5. paths' \in Seq(Seq(1 .. Len(pool))) /\ Len(paths') \in {Len(paths), Len(paths) + 1}
        <3>1. Append(chain, i) \in Seq(1 .. Len(pool))
            BY <2>1, <2>3
        <3>2. /\ Append(paths, Append(chain, i)) \in Seq(Seq(1 .. Len(pool)))
              /\ Len(Append(paths, Append(chain, i))) = Len(paths) + 1
            BY <3>1, PoolFacts, ChainFacts, PathsFacts, AppendProperties
        <3>3. paths' \in {paths, Append(paths, Append(chain, i))}
            BY <2>1 DEF Recorded
        <3> QED
            BY <3>2, <3>3, PoolFacts, ChainFacts, PathsFacts
    <2>6. Len(chain) + 1 < MaxChain /\ Len(paths) < MaxPaths /\ expansions < MaxExpansions
        BY <1>6, ChainFacts, PathsFacts, BoundFacts DEF Expand, MayClimb, Full
    <2>7. PoolTypeOK' /\ SearchTypeOK'
        <3>0. UNCHANGED <<offered, pool>>
            BY <1>6 DEF Expand
        <3>1. Len(paths') <= MaxPaths /\ Len(chain') < MaxChain
            <4>1. Len(paths) \in Nat /\ Len(chain) \in Nat /\ MaxPaths \in Nat /\ MaxChain \in Nat
                BY ChainFacts, PathsFacts, BoundFacts, LenProperties
            <4>2. Len(paths') = Len(paths) \/ Len(paths') = Len(paths) + 1
                BY <2>5
            <4>3. Len(chain') = Len(chain) + 1
                BY <2>3
            <4> QED
                BY <2>6, <4>1, <4>2, <4>3
        <3>2. expansions' \in 0 .. MaxExpansions + 1
            BY <2>1, <2>6, BoundFacts
        <3> QED
            BY <2>3, <2>4, <2>5, <3>0, <3>1, <3>2, PoolFacts DEF TypeOK, PoolTypeOK, SearchTypeOK
    <2> QED
        BY <1>0, <1>6, <2>5, <2>7, BoundFacts DEF Expand, TypeOK, Beginning, Offering, verdict
<1>7. CASE Return
    <2>1. Len(chain) \in Nat \ {0}
        BY <1>7, ChainFacts, EmptySeq DEF Return
    <2>2. chain' \in Seq(1 .. Len(pool)) /\ Len(chain') = Len(chain) - 1
        <3>1. chain' = SubSeq(chain, 1, Len(chain) - 1) /\ Len(chain) - 1 \in 0 .. Len(chain)
            BY <1>7, <2>1 DEF Return
        <3> QED
            BY <3>1, PoolFacts, ChainFacts, FrontFacts
    <2>3. next' \in Seq(1 .. Len(pool) + 1) /\ Len(next') = Len(next) - 1
        <3>1. next' = SubSeq(next, 1, Len(next) - 1) /\ Len(next) - 1 \in 0 .. Len(next)
            BY <1>7, <2>1, NextFacts, ChainFacts DEF Return
        <3> QED
            BY <3>1, PoolFacts, NextFacts, ChainFacts, FrontFacts
    <2>4. PoolTypeOK' /\ SearchTypeOK'
        <3>1. chain # <<>> /\ UNCHANGED <<offered, pool, paths, expansions>>
            BY <1>7 DEF Return
        <3> QED
            BY <2>1, <2>2, <2>3, <3>1, PoolFacts, ChainFacts, PathsFacts, BoundFacts DEF TypeOK, PoolTypeOK, SearchTypeOK
    <2> QED
        BY <1>0, <1>7, <2>4 DEF Return, TypeOK, Beginning, Offering, verdict
<1>8. CASE Finish
    <2>1. expansions' \in 0 .. MaxExpansions + 1
        BY <1>8, BoundFacts DEF Finish
    <2>2. UNCHANGED <<offered, pool, chain, next, paths>>
        BY <1>8 DEF Finish
    <2>3. PoolTypeOK' /\ SearchTypeOK'
        BY <2>1, <2>2 DEF TypeOK, PoolTypeOK, SearchTypeOK
    <2> QED
        BY <1>0, <1>8, <2>3 DEF Finish, TypeOK, Beginning, Offering, verdict
<1>9. CASE NoPath
    <2>1. answer' \in Outcomes
        BY <1>0, <1>9, OutcomeTyped DEF NoPath, Answer, Codes
    <2> QED
        BY <1>0, <1>9, <2>1, JudgingTyped DEF NoPath, Answer
<1>10. CASE Judge
    <2> DEFINE certs == Certificates(paths[judged + 1])
    <2>0. judged + 1 \in 1 .. Len(paths)
        BY <1>0, <1>10, PathsFacts DEF Judge
    <2>1. paths[judged + 1] \in Seq(1 .. Len(pool))
        BY <2>0, PoolFacts, PathsFacts
    <2>2. certs \in Seq(Certs) /\ Fault(certs) \in Codes
        BY <2>1, CertificatesFacts, FaultTyped DEF Beginning
    <2>3. /\ Outcome("cert_path_ok", certs, certs) \in Outcomes
          /\ Outcome("trust_list_service_not_granted", certs, certs) \in Outcomes
          /\ Outcome(Fault(certs), certs, <<>>) \in Outcomes
        BY <1>0, <2>2, OutcomeTyped DEF Codes
    <2>4. {notGranted', firstFailure', answer'} \subseteq Outcomes /\ pc' \in {"judge", "done"}
        BY <1>0, <1>10, <2>3 DEF Judge, Kept, Answer
    <2> QED
        BY <1>10, <2>0, <2>4, JudgingTyped DEF Judge
<1>11. CASE Conclude
    BY <1>0, <1>11, JudgingTyped DEF Conclude, Answer
<1>12. CASE Done \/ UNCHANGED vars
    <2>1. UNCHANGED vars
        BY <1>12 DEF Done
    <2> QED
        BY <2>1 DEF vars, search, verdict, TypeOK, PoolTypeOK, SearchTypeOK, Beginning, Offering
<1> QED
    BY <1>1, <1>2, <1>3, <1>4, <1>5, <1>6, <1>7, <1>8, <1>9, <1>10, <1>11, <1>12 DEF Next
-----------------------------------------------------------------------------
(* The pool: a place where a path may end is an anchor or a listed one.    *)

LEMMA PoolIsToldStep ==
    ASSUME TypeOK, Beginning, PoolIsTold, [Next]_vars
    PROVE  PoolIsTold'
<1>1. CASE UNCHANGED <<request, pool>>
    BY <1>1 DEF PoolIsTold, Terminates, Services
<1>2. ASSUME UNCHANGED request, NEW e \in PoolEntries, pool' = Append(pool, e),
             /\ e.ends = "anchor" => e.cert \in EntriesOf(request.anchors)
             /\ e.ends = "listed" => Terminates(e.cert)
             /\ e.ends = "no" => ~Terminates(e.cert)
      PROVE  PoolIsTold'
    <2>1. pool \in Seq(PoolEntries)
        BY DEF TypeOK, PoolTypeOK, PoolEntries
    <2>2. /\ DOMAIN pool = 1 .. Len(pool) /\ DOMAIN pool' = 1 .. Len(pool) + 1
          /\ \A i \in 1 .. Len(pool) : pool'[i] = pool[i]
          /\ pool'[Len(pool) + 1] = e
        BY <1>2, <2>1
    <2>3. Len(pool) \in Nat
        BY PoolFacts
    <2>4. \A c : Terminates(c)' <=> Terminates(c)
        BY <1>2 DEF Terminates, Services
    <2>5. \A i \in DOMAIN pool' : i \in DOMAIN pool \/ i = Len(pool) + 1
        BY <2>2, <2>3
    <2> QED
        BY <1>2, <2>2, <2>4, <2>5 DEF PoolIsTold
<1>3. CASE OfferCandidate
    <2> DEFINE c == request.candidates[offered + 1]
               e == [cert |-> c, ends |-> Standing(c)]
    <2>1. e \in PoolEntries
        BY <1>3, RequestFacts
        DEF OfferCandidate, TypeOK, PoolTypeOK, Beginning, Standing, PoolEntries
    <2>2. /\ e.ends # "anchor"
          /\ e.ends = "listed" => Terminates(e.cert)
          /\ e.ends = "no" => ~Terminates(e.cert)
        BY DEF Standing
    <2>3. UNCHANGED request /\ pool' \in {pool, Append(pool, e)}
        BY <1>3 DEF OfferCandidate
    <2> HIDE DEF c, e
    <2>4. CASE pool' = pool
        BY <1>1, <2>3, <2>4
    <2>5. CASE pool' = Append(pool, e)
        BY <1>2, <2>1, <2>2, <2>3, <2>5
    <2> QED
        BY <2>3, <2>4, <2>5
<1>4. CASE OfferAnchor
    <2> DEFINE c == request.anchors[offered + 1]
               e == [cert |-> c, ends |-> "anchor"]
    <2>1. c \in Certs /\ c \in EntriesOf(request.anchors)
        BY <1>4, RequestFacts DEF OfferAnchor, TypeOK, PoolTypeOK, Beginning, EntriesOf
    <2>2. e \in PoolEntries /\ e.ends = "anchor" /\ e.cert \in EntriesOf(request.anchors)
        BY <2>1 DEF PoolEntries
    <2>3. UNCHANGED request /\ pool' = Append(pool, e)
        BY <1>4 DEF OfferAnchor
    <2> HIDE DEF c, e
    <2> QED
        BY <1>2, <2>2, <2>3
<1>5. CASE NoTrust \/ CandidatesOffered \/ AnchorsOffered \/ Expand \/ Return \/ Finish
    BY <1>1, <1>5 DEF NoTrust, CandidatesOffered, AnchorsOffered, Expand, Return, Finish
<1>6. CASE NoPath \/ Judge \/ Conclude \/ Done \/ UNCHANGED vars
    BY <1>1, <1>6 DEF NoPath, Judge, Conclude, Done, vars
<1> QED
    BY <1>3, <1>4, <1>5, <1>6 DEF Next
-----------------------------------------------------------------------------
(* What the search records are paths, and all of them.                     *)

LEMMA PathFacts ==
    ASSUME TypeOK, NEW path \in PoolPaths
    PROVE  /\ path \in Seq(1 .. Len(pool)) /\ IsPath(path)
           /\ Len(path) \in Nat \ {0} /\ Len(path) < MaxChain
<1>1. PICK n \in 1 .. MaxChain - 1 : path \in [1 .. n -> 1 .. Len(pool)]
    BY DEF PoolPaths
<1>2. n \in Nat \ {0} /\ n < MaxChain
    BY BoundFacts
<1>3. path \in Seq(1 .. Len(pool)) /\ Len(path) = n
    BY <1>1, <1>2, SeqDef
<1> QED
    BY <1>2, <1>3 DEF PoolPaths

LEMMA PathsAreInThePool ==
    ASSUME TypeOK, NEW path \in Seq(1 .. Len(pool)), IsPath(path)
    PROVE  path \in PoolPaths
<1>1. Len(path) \in Nat \ {0} /\ Len(path) < MaxChain
    BY EmptySeq DEF IsPath, IsClimb
<1>2. path \in [1 .. Len(path) -> 1 .. Len(pool)]
    BY LenProperties
<1>3. Len(path) \in 1 .. MaxChain - 1
    BY <1>1, BoundFacts
<1> QED
    BY <1>2, <1>3 DEF PoolPaths

LEMMA ClimbGrows ==
    ASSUME TypeOK, IsClimb(chain), MayClimb, NEW i \in Untried
    PROVE  IsClimb(Append(chain, i))
<1> DEFINE c == Append(chain, i)
<1>1. i \in 1 .. Len(pool) /\ chain \in Seq(1 .. Len(pool)) /\ Len(chain) \in Nat
    BY PoolFacts, ChainFacts, NextFacts DEF Untried
<1>2. /\ Len(c) = Len(chain) + 1 /\ DOMAIN c = 1 .. Len(chain) + 1
      /\ DOMAIN chain = 1 .. Len(chain)
      /\ \A k \in 1 .. Len(chain) : c[k] = chain[k]
      /\ c[Len(chain) + 1] = i
    BY <1>1, AppendProperties
<1>3. \A k \in DOMAIN c : k \in DOMAIN chain \/ k = Len(chain) + 1
    BY <1>1, <1>2
<1>4. i \notin EntriesOf(chain) /\ Subject[pool[i].cert] = Issuer[Top]
    BY DEF Untried
<1>5. chain # <<>> => Len(chain) \in DOMAIN chain
    BY <1>1, <1>2, EmptySeq
<1> HIDE DEF c
<1>6. Len(c) < MaxChain
    BY <1>1, <1>2, BoundFacts DEF MayClimb
<1>7. \A j, k \in DOMAIN c : c[j] = c[k] => j = k
    BY <1>2, <1>3, <1>4 DEF IsClimb, EntriesOf
<1>8. ASSUME NEW k \in DOMAIN c
      PROVE  Subject[pool[c[k]].cert] = Issuer[IF k = 1 THEN request.leaf ELSE pool[c[k - 1]].cert]
    <2>1. CASE k \in DOMAIN chain
        <3>1. k = 1 \/ k - 1 \in DOMAIN chain
            BY <1>1, <1>2, <2>1
        <3> QED
            BY <1>2, <2>1, <3>1 DEF IsClimb
    <2>2. CASE k = Len(chain) + 1 /\ chain # <<>>
        <3>1. k # 1 /\ k - 1 = Len(chain) /\ c[k - 1] = Last(chain)
            BY <1>1, <1>2, <1>5, <2>2 DEF Last
        <3> QED
            BY <1>2, <1>4, <2>2, <3>1 DEF Top
    <2>3. CASE k = Len(chain) + 1 /\ chain = <<>>
        BY <1>2, <1>4, <2>3 DEF Top
    <2> QED
        BY <1>3, <2>1, <2>2, <2>3
<1>9. \A k \in DOMAIN c : k < Len(c) => pool[c[k]].ends # "anchor"
    <2>1. \A k \in DOMAIN c : k < Len(c) => k \in DOMAIN chain
        BY <1>1, <1>2
    <2>2. \A k \in DOMAIN chain : k < Len(chain) \/ (k = Len(chain) /\ chain # <<>>)
        BY <1>1, <1>2
    <2> QED
        BY <1>2, <2>1, <2>2 DEF IsClimb, MayClimb, Last
<1> QED
    BY <1>6, <1>7, <1>8, <1>9 DEF IsClimb, c

LEMMA PrefixClimbs ==
    ASSUME TypeOK, IsClimb(chain), NEW n \in 0 .. Len(chain)
    PROVE  IsClimb(SubSeq(chain, 1, n))
<1> DEFINE c == SubSeq(chain, 1, n)
<1>1. chain \in Seq(1 .. Len(pool)) /\ DOMAIN chain = 1 .. Len(chain) /\ Len(chain) \in Nat
    BY PoolFacts, ChainFacts, LenProperties
<1>2. Len(c) = n /\ DOMAIN c = 1 .. n /\ \A k \in 1 .. n : c[k] = chain[k]
    BY <1>1, FrontFacts, LenProperties
<1>3. \A k \in 1 .. n : k \in DOMAIN chain /\ (k = 1 \/ k - 1 \in 1 .. n)
    BY <1>1
<1> HIDE DEF c
<1>4. c # <<>> => Len(c) < MaxChain
    <2>1. chain # <<>> => Len(chain) < MaxChain
        BY DEF IsClimb
    <2>2. n # 0 => chain # <<>>
        BY <1>1
    <2>3. c \in Seq(1 .. Len(pool))
        BY <1>1, FrontFacts DEF c
    <2>4. c # <<>> => n # 0
        BY <1>2, <2>3, EmptySeq
    <2> QED
        BY <1>1, <1>2, <2>1, <2>2, <2>4, ChainFacts, BoundFacts
<1>5. \A j, k \in DOMAIN c : c[j] = c[k] => j = k
    BY <1>2, <1>3 DEF IsClimb
<1>6. ASSUME NEW k \in DOMAIN c
      PROVE  Subject[pool[c[k]].cert] = Issuer[IF k = 1 THEN request.leaf ELSE pool[c[k - 1]].cert]
    BY <1>2, <1>3 DEF IsClimb
<1>7. \A k \in DOMAIN c : k < Len(c) => pool[c[k]].ends # "anchor"
    <2>1. \A k \in 1 .. n : k < n => k \in DOMAIN chain /\ k < Len(chain)
        BY <1>1
    <2> QED
        BY <1>2, <2>1 DEF IsClimb
<1> QED
    BY <1>4, <1>5, <1>6, <1>7 DEF IsClimb, c

LEMMA ClimbsOnlyStep ==
    ASSUME TypeOK, TypeOK', Beginning, Beginning', ClimbsOnly, [Next]_vars
    PROVE  ClimbsOnly'
<1> USE DEF EntriesOf
<1>1. CASE UNCHANGED <<request, pool, chain, paths>>
    BY <1>1 DEF ClimbsOnly, IsClimb, IsPath
<1>2. CASE Offering'
    <2>1. chain' = <<>> /\ paths' = <<>>
        BY <1>2 DEF Beginning
    <2> QED
        BY <2>1 DEF ClimbsOnly, IsClimb
<1>3. CASE Expand
    <2>1. PICK i \in Untried :
            /\ chain' = Append(chain, i)
            /\ paths' = IF pool[i].ends # "no" THEN Recorded(paths, Append(chain, i)) ELSE paths
        BY <1>3 DEF Expand
    <2>2. MayClimb /\ UNCHANGED <<request, pool>>
        BY <1>3 DEF Expand
    <2>3. IsClimb(chain')
        BY <2>1, <2>2, ClimbGrows DEF ClimbsOnly
    <2>4. chain' # <<>> /\ Last(chain') = i
        BY <2>1, ChainFacts DEF Last
    <2>5. \A p \in EntriesOf(paths') : IsPath(p)
        <3>1. CASE paths' = paths
            BY <3>1 DEF ClimbsOnly
        <3>2. CASE pool[i].ends # "no" /\ paths' = Append(paths, chain')
            <4>1. \A p \in EntriesOf(paths') : p \in EntriesOf(paths) \/ p = chain'
                BY <3>2, ChainFacts, PathsFacts
            <4> QED
                BY <2>3, <2>4, <3>2, <4>1 DEF ClimbsOnly, IsPath
        <3> QED
            BY <2>1, <3>1, <3>2 DEF Recorded
    <2> HIDE DEF EntriesOf
    <2>6. IsClimb(chain)' /\ \A p \in EntriesOf(paths)' : IsPath(p)'
        BY <2>2, <2>3, <2>5 DEF IsClimb, IsPath, EntriesOf
    <2> QED
        BY <2>6 DEF ClimbsOnly
<1>4. CASE Return
    <2>1. UNCHANGED <<request, pool, paths>> /\ chain' = SubSeq(chain, 1, Len(chain) - 1)
        BY <1>4 DEF Return
    <2>2. Len(chain) - 1 \in 0 .. Len(chain)
        BY <1>4, ChainFacts, EmptySeq DEF Return
    <2>3. IsClimb(chain')
        BY <2>1, <2>2, PrefixClimbs DEF ClimbsOnly
    <2>4. IsClimb(chain)'
        BY <2>1, <2>3 DEF IsClimb
    <2> HIDE DEF EntriesOf
    <2>5. \A p \in EntriesOf(paths)' : IsPath(p)'
        BY <2>1 DEF ClimbsOnly, IsPath, IsClimb, EntriesOf
    <2> QED
        BY <2>4, <2>5 DEF ClimbsOnly
<1>5. CASE OfferCandidate \/ CandidatesOffered \/ OfferAnchor
    BY <1>2, <1>5 DEF OfferCandidate, CandidatesOffered, OfferAnchor, Offering
<1>6. CASE NoTrust \/ AnchorsOffered \/ Finish
    BY <1>1, <1>6 DEF NoTrust, AnchorsOffered, Finish, search
<1>7. CASE NoPath \/ Judge \/ Conclude \/ Done \/ UNCHANGED vars
    BY <1>1, <1>7 DEF NoPath, Judge, Conclude, Done, vars, search
<1> QED
    BY <1>3, <1>4, <1>5, <1>6, <1>7 DEF Next

\* A path the search is on, which goes on by an entry not tried yet, goes on by
\* one the search would climb to.
LEMMA GoesOn ==
    ASSUME TypeOK, NEW path \in PoolPaths,
           Len(chain) < Len(path), \A j \in 1 .. Len(chain) : path[j] = chain[j],
           path[Len(chain) + 1] >= next[Len(chain) + 1]
    PROVE  MayClimb /\ path[Len(chain) + 1] \in Untried
<1> DEFINE n == Len(chain)
<1>1. /\ n \in Nat /\ DOMAIN chain = 1 .. n /\ Len(next) = n + 1
      /\ DOMAIN path = 1 .. Len(path) /\ Len(path) \in Nat /\ Len(path) < MaxChain
      /\ n + 1 \in DOMAIN path /\ IsClimb(path)
    BY ChainFacts, NextFacts, BoundFacts, PathFacts, LenProperties DEF IsPath
<1>2. chain # <<>> => n \in 1 .. n /\ n \in DOMAIN path /\ n < Len(path) /\ path[n] = Last(chain)
    BY <1>1, ChainFacts, EmptySeq DEF Last
<1>3. MayClimb
    BY <1>1, <1>2, ChainFacts, BoundFacts DEF MayClimb, IsClimb
<1>4. path[n + 1] \in Last(next) .. Len(pool)
    <2>1. path[n + 1] \in 1 .. Len(pool)
        BY <1>1, PathFacts, ElementOfSeq
    <2> QED
        BY <1>1, <2>1, PoolFacts, NextFacts, ChainFacts DEF Last
<1>5. path[n + 1] \notin EntriesOf(chain)
    <2>1. ASSUME NEW j \in DOMAIN chain PROVE path[n + 1] # chain[j]
        <3>1. j \in DOMAIN path /\ j # n + 1 /\ path[j] = chain[j]
            BY <1>1
        <3> QED
            BY <1>1, <3>1 DEF IsClimb
    <2> QED
        BY <2>1 DEF EntriesOf
<1>6. Subject[pool[path[n + 1]].cert] = Issuer[Top]
    <2>1. CASE chain = <<>>
        BY <1>1, <2>1 DEF IsClimb, Top
    <2>2. CASE chain # <<>>
        BY <1>1, <1>2, <2>2 DEF IsClimb, Top
    <2> QED
        BY <2>1, <2>2
<1> QED
    BY <1>3, <1>4, <1>5, <1>6 DEF Untried

LEMMA NoneMissedStep ==
    ASSUME TypeOK, TypeOK', Beginning, Beginning', ClimbsOnly, NoneMissed, [Next]_vars
    PROVE  NoneMissed'
<1> SUFFICES ASSUME pc' = "search", NEW path \in PoolPaths'
             PROVE  (path \in EntriesOf(paths))' \/ Ahead(path)'
    BY DEF NoneMissed
<1>1. CASE AnchorsOffered
    <2>1. Len(path) \in Nat \ {0} /\ path[1] \in Nat /\ path[1] >= 1
        <3>1. path \in PoolPaths /\ Len(pool) \in Nat
            BY <1>1, PoolFacts DEF AnchorsOffered, PoolPaths, IsPath, IsClimb
        <3>2. Len(path) \in Nat \ {0} /\ path[1] \in 1 .. Len(pool)
            BY <3>1, PathFacts, ElementOfSeq
        <3> QED
            BY <3>1, <3>2
    <2>2. chain' = <<>> /\ next' = <<1>>
        BY <1>1 DEF AnchorsOffered, Beginning, Offering, search
    <2> QED
        BY <2>1, <2>2 DEF Ahead
<1>2. CASE Expand
    <2>1. PICK i \in Untried :
            /\ \A j \in Untried : i <= j
            /\ chain' = Append(chain, i)
            /\ next' = Append([next EXCEPT ![Len(next)] = i + 1], 1)
            /\ paths' = IF pool[i].ends # "no" THEN Recorded(paths, Append(chain, i)) ELSE paths
        BY <1>2 DEF Expand
    <2> DEFINE n == Len(chain)
    <2>2. path \in PoolPaths /\ pc = "search"
        BY <1>2 DEF Expand, PoolPaths, IsPath, IsClimb
    <2>3. path \in EntriesOf(paths) \/ Ahead(path)
        BY <2>2 DEF NoneMissed
    <2>4. i \in 1 .. Len(pool) /\ n \in Nat /\ Len(next) = n + 1
        BY PoolFacts, NextFacts, ChainFacts, LenProperties DEF Untried
    <2>5. Len(chain') = n + 1 /\ chain'[n + 1] = i /\ \A j \in 1 .. n : chain'[j] = chain[j]
        BY <2>1, <2>4, ChainFacts, AppendProperties
    <2>6. next'[n + 2] = 1 /\ next'[n + 1] = i + 1 /\ \A j \in 1 .. n : next'[j] = next[j]
        <3>1. /\ [next EXCEPT ![n + 1] = i + 1] \in Seq(1 .. Len(pool) + 1)
              /\ Len([next EXCEPT ![n + 1] = i + 1]) = n + 1
              /\ \A j \in 1 .. n + 1 : [next EXCEPT ![n + 1] = i + 1][j]
                                         = IF j = n + 1 THEN i + 1 ELSE next[j]
            BY <2>4, PoolFacts, NextFacts, ChainFacts, ExceptSeq
        <3> QED
            BY <2>1, <2>4, <3>1, PoolFacts, NextFacts, ChainFacts, AppendProperties
    <2>7. Len(path) \in Nat \ {0} /\ path \in Seq(1 .. Len(pool))
        BY <2>2, PathFacts
    <2> HIDE DEF n
    <2>8. CASE path \in EntriesOf(paths)
        <3>1. EntriesOf(paths) \subseteq EntriesOf(paths')
            <4>1. Append(chain, i) \in Seq(1 .. Len(pool))
                BY <2>4, PoolFacts, ChainFacts, AppendProperties
            <4>2. CASE paths' = Append(paths, Append(chain, i))
                <5>1. /\ DOMAIN paths = 1 .. Len(paths) /\ DOMAIN paths' = 1 .. Len(paths) + 1
                      /\ Len(paths) \in Nat /\ \A j \in 1 .. Len(paths) : paths'[j] = paths[j]
                    BY <4>1, <4>2, PathsFacts, AppendProperties, LenProperties
                <5>2. \A j \in DOMAIN paths : j \in DOMAIN paths' /\ paths'[j] = paths[j]
                    BY <5>1
                <5> QED
                    BY <5>2 DEF EntriesOf
            <4> QED
                BY <2>1, <4>2 DEF Recorded
        <3> QED
            BY <2>8, <3>1 DEF EntriesOf
    <2>9. ASSUME NEW k \in 0 .. n, k < Len(path), \A j \in 1 .. k : path[j] = chain[j],
                 path[k + 1] >= next[k + 1]
          PROVE  (path \in EntriesOf(paths))' \/ Ahead(path)'
        <3>1. CASE k < n
            <4>1. /\ k \in 0 .. Len(chain') /\ \A j \in 1 .. k : path[j] = chain'[j]
                  /\ path[k + 1] >= next'[k + 1]
                BY <2>4, <2>5, <2>6, <2>9, <3>1
            <4> QED
                BY <2>9, <4>1 DEF Ahead
        <3>2. CASE k = n
            <4>1. path[n + 1] \in Untried /\ path[n + 1] >= i /\ path[n + 1] \in Nat
                <5>1. path[n + 1] \in Untried
                    BY <2>2, <2>9, <3>2, GoesOn DEF n
                <5>2. path[n + 1] \in 1 .. Len(pool)
                    BY <2>7, <2>9, <3>2, <2>4, ElementOfSeq
                <5> QED
                    BY <2>1, <2>4, <5>1, <5>2
            <4>2. CASE path[n + 1] > i
                <5>1. n \in 0 .. Len(chain') /\ \A j \in 1 .. n : path[j] = chain'[j]
                    BY <2>4, <2>5, <2>9, <3>2
                <5>2. path[n + 1] >= next'[n + 1]
                    BY <2>4, <2>6, <4>1, <4>2
                <5> QED
                    BY <2>9, <3>2, <5>1, <5>2 DEF Ahead
            <4>3. CASE path[n + 1] = i /\ Len(path) > n + 1
                <5>1. n + 1 \in 0 .. Len(chain') /\ \A j \in 1 .. n + 1 : path[j] = chain'[j]
                    BY <2>4, <2>5, <2>9, <3>2, <4>3
                <5>2. n + 2 \in 1 .. Len(path)
                    BY <2>4, <2>7, <4>3
                <5>3. path[n + 1 + 1] >= next'[n + 1 + 1]
                    <6>1. path[n + 2] \in 1 .. Len(pool) /\ n + 1 + 1 = n + 2
                        BY <2>4, <2>7, <5>2, ElementOfSeq
                    <6> QED
                        BY <2>6, <6>1
                <5> QED
                    BY <4>3, <5>1, <5>3 DEF Ahead
            <4>4. CASE path[n + 1] = i /\ Len(path) = n + 1
                <5>1. path = chain'
                    <6>1. chain' \in Seq(1 .. Len(pool))
                        BY <2>1, <2>4, PoolFacts, ChainFacts, AppendProperties
                    <6>2. \A j \in 1 .. n + 1 : path[j] = chain'[j]
                        BY <2>4, <2>5, <2>9, <3>2, <4>4
                    <6> QED
                        BY <2>5, <2>7, <4>4, <6>1, <6>2, SeqEqual
                <5>2. pool[i].ends # "no"
                    BY <2>2, <4>4, PathFacts DEF IsPath, Last
                <5>3. paths' = Append(paths, path)
                    BY <2>1, <5>1, <5>2 DEF Recorded
                <5>4. path \in EntriesOf(paths')
                    <6>1. Len(paths) \in Nat
                        BY PathsFacts, LenProperties
                    <6>2. /\ Len(paths') = Len(paths) + 1 /\ DOMAIN paths' = 1 .. Len(paths) + 1
                          /\ paths'[Len(paths) + 1] = path
                        BY <2>7, <5>3, PathsFacts, AppendProperties, LenProperties
                    <6>3. Len(paths) + 1 \in DOMAIN paths'
                        BY <6>1, <6>2
                    <6> QED
                        BY <6>2, <6>3 DEF EntriesOf
                <5> QED
                    BY <5>4 DEF EntriesOf
            <4> QED
                BY <2>4, <2>7, <2>9, <3>2, <4>1, <4>2, <4>3, <4>4
        <3> QED
            BY <2>4, <2>9, <3>1, <3>2
    <2> QED
        BY <2>3, <2>8, <2>9 DEF Ahead, n
<1>3. CASE Return
    <2> DEFINE n == Len(chain)
    <2>1. path \in PoolPaths /\ pc = "search" /\ UNCHANGED paths
        BY <1>3 DEF Return, PoolPaths, IsPath, IsClimb
    <2>2. path \in EntriesOf(paths) \/ Ahead(path)
        BY <2>1 DEF NoneMissed
    <2>3. n \in Nat \ {0} /\ Len(next) = n + 1
        BY <1>3, NextFacts, ChainFacts, EmptySeq DEF Return
    <2>4. Len(chain') = n - 1 /\ \A j \in 1 .. n - 1 : chain'[j] = chain[j]
        <3>1. chain' = SubSeq(chain, 1, n - 1) /\ n - 1 \in 0 .. Len(chain)
            BY <1>3, <2>3 DEF Return
        <3> QED
            BY <3>1, ChainFacts, FrontFacts
    <2>5. \A j \in 1 .. n : next'[j] = next[j]
        <3>1. next' = SubSeq(next, 1, n) /\ n \in 0 .. Len(next)
            BY <1>3, <2>3 DEF Return
        <3> QED
            BY <3>1, NextFacts, ChainFacts, FrontFacts
    <2> HIDE DEF n
    <2>6. CASE path \in EntriesOf(paths)
        BY <2>1, <2>6 DEF EntriesOf
    <2>7. ASSUME NEW k \in 0 .. n, k < Len(path), \A j \in 1 .. k : path[j] = chain[j],
                 path[k + 1] >= next[k + 1]
          PROVE  Ahead(path)'
        <3>1. k # n
            <4>1. ~MayClimb \/ Untried = {}
                BY <1>3 DEF Return
            <4> QED
                BY <2>1, <2>7, <4>1, GoesOn DEF n
        <3>2. /\ k \in 0 .. Len(chain') /\ \A j \in 1 .. k : path[j] = chain'[j]
              /\ path[k + 1] >= next'[k + 1]
            BY <2>3, <2>4, <2>5, <2>7, <3>1
        <3> QED
            BY <2>7, <3>2 DEF Ahead
    <2> QED
        BY <2>2, <2>6, <2>7 DEF Ahead, n
<1>4. CASE Done \/ UNCHANGED vars
    <2>1. UNCHANGED vars
        BY <1>4 DEF Done
    <2>2. path \in PoolPaths /\ pc = "search"
        BY <2>1 DEF vars, search, PoolPaths, IsPath, IsClimb
    <2>3. path \in EntriesOf(paths) \/ Ahead(path)
        BY <2>2 DEF NoneMissed
    <2> QED
        BY <2>1, <2>3 DEF vars, search, EntriesOf, Ahead
<1>5. CASE NoTrust \/ OfferCandidate \/ CandidatesOffered \/ OfferAnchor
    BY <1>5 DEF NoTrust, OfferCandidate, CandidatesOffered, OfferAnchor, Answer
<1>6. CASE Finish \/ NoPath \/ Judge \/ Conclude
    BY <1>6 DEF Finish, NoPath, Judge, Conclude, Answer
<1> QED
    BY <1>1, <1>2, <1>3, <1>4, <1>5, <1>6 DEF Next

LEMMA SearchIsCompleteStep ==
    ASSUME TypeOK, Beginning, ClimbsOnly, NoneMissed, SearchIsComplete, [Next]_vars
    PROVE  SearchIsComplete'
<1> SUFFICES ASSUME pc' \in {"judge", "done"}, Trusts', ~Exhausted', ~Full'
             PROVE  EntriesOf(paths)' = PoolPaths'
    BY DEF SearchIsComplete
<1>1. CASE Finish
    <2>1. EntriesOf(paths) \subseteq PoolPaths
        <3>1. \A i \in DOMAIN paths : paths[i] \in Seq(1 .. Len(pool))
            BY PoolFacts, PathsFacts, LenProperties, ElementOfSeq
        <3>2. \A p \in EntriesOf(paths) : p \in Seq(1 .. Len(pool)) /\ IsPath(p)
            BY <3>1 DEF ClimbsOnly, EntriesOf
        <3> QED
            BY <3>2, PathsAreInThePool
    <2>2. chain = <<>> /\ (~MayClimb \/ Untried = {})
        BY <1>1, BoundFacts DEF Finish, Exhausted, Full
    <2>3. ASSUME NEW path \in PoolPaths PROVE path \in EntriesOf(paths)
        <3>1. SUFFICES ASSUME Ahead(path) PROVE FALSE
            BY <1>1 DEF Finish, NoneMissed
        <3>2. PICK k \in 0 .. Len(chain) : k < Len(path) /\ path[k + 1] >= next[k + 1]
            BY <3>1 DEF Ahead
        <3>3. k = 0 /\ Len(chain) = 0
            BY <2>2
        <3> QED
            BY <2>2, <3>2, <3>3, GoesOn
    <2>4. EntriesOf(paths) = PoolPaths
        BY <2>1, <2>3
    <2> QED
        BY <1>1, <2>4 DEF Finish, EntriesOf, PoolPaths, IsPath, IsClimb
<1>2. ASSUME pc \in {"judge", "done"}, UNCHANGED <<request, pool, search>>
      PROVE  EntriesOf(paths)' = PoolPaths'
    <2>1. Trusts /\ ~Exhausted /\ ~Full
        BY <1>2 DEF Trusts, HasListed, Exhausted, Full, search
    <2>2. EntriesOf(paths) = PoolPaths
        BY <1>2, <2>1 DEF SearchIsComplete
    <2>3. UNCHANGED <<request, pool, paths>>
        BY <1>2 DEF search
    <2> QED
        BY <2>2, <2>3 DEF EntriesOf, PoolPaths, IsPath, IsClimb
<1>3. CASE NoPath \/ Judge \/ Conclude \/ Done \/ UNCHANGED vars
    <2>1. CASE NoPath \/ Judge \/ Conclude
        BY <1>2, <2>1 DEF NoPath, Judge, Conclude
    <2>2. CASE Done \/ UNCHANGED vars
        BY <1>2, <2>2 DEF Done, vars
    <2> QED
        BY <1>3, <2>1, <2>2
<1>4. CASE NoTrust
    BY <1>4 DEF NoTrust, Trusts, HasListed
<1>5. CASE OfferCandidate \/ CandidatesOffered \/ OfferAnchor \/ AnchorsOffered
    BY <1>5 DEF OfferCandidate, CandidatesOffered, OfferAnchor, AnchorsOffered
<1>6. CASE Expand \/ Return
    BY <1>6 DEF Expand, Return
<1> QED
    BY <1>1, <1>3, <1>4, <1>5, <1>6 DEF Next
-----------------------------------------------------------------------------
(* Where a climb could have ended is recorded before where it does end.    *)

LEMMA PrefixOfPrefix ==
    ASSUME NEW S, NEW s \in Seq(S), NEW m \in 0 .. Len(s), NEW n \in 0 .. m
    PROVE  Prefix(SubSeq(s, 1, m), n) = Prefix(s, n)
<1>1. /\ SubSeq(s, 1, m) \in Seq(S) /\ Len(SubSeq(s, 1, m)) = m
      /\ \A i \in 1 .. m : SubSeq(s, 1, m)[i] = s[i]
    BY FrontFacts
<1>2. n \in 0 .. Len(SubSeq(s, 1, m)) /\ n \in 0 .. Len(s) /\ \A i \in 1 .. n : i \in 1 .. m
    BY <1>1, LenProperties
<1> DEFINE t == SubSeq(s, 1, m)
<1>3. /\ SubSeq(t, 1, n) \in Seq(S) /\ Len(SubSeq(t, 1, n)) = n
      /\ \A i \in 1 .. n : SubSeq(t, 1, n)[i] = t[i]
    BY <1>1, <1>2, FrontFacts
<1>4. /\ SubSeq(s, 1, n) \in Seq(S) /\ Len(SubSeq(s, 1, n)) = n
      /\ \A i \in 1 .. n : SubSeq(s, 1, n)[i] = s[i]
    BY <1>2, FrontFacts
<1>5. SubSeq(t, 1, n) = SubSeq(s, 1, n)
    <2>1. \A i \in 1 .. n : SubSeq(t, 1, n)[i] = SubSeq(s, 1, n)[i]
        BY <1>1, <1>2, <1>3, <1>4
    <2> HIDE DEF t
    <2> QED
        BY <1>3, <1>4, <2>1, SeqEqual
<1> QED
    BY <1>5 DEF Prefix

LEMMA PrefixOfAppend ==
    ASSUME NEW S, NEW s \in Seq(S), NEW e \in S
    PROVE  /\ \A n \in 0 .. Len(s) : Prefix(Append(s, e), n) = Prefix(s, n)
           /\ Prefix(Append(s, e), Len(s) + 1) = Append(s, e)
<1> DEFINE t == Append(s, e)
<1>1. /\ t \in Seq(S) /\ Len(t) = Len(s) + 1 /\ Len(s) \in Nat
      /\ \A i \in 1 .. Len(s) : t[i] = s[i]
    BY AppendProperties, LenProperties
<1> HIDE DEF t
<1>2. ASSUME NEW n \in 0 .. Len(s) PROVE SubSeq(t, 1, n) = SubSeq(s, 1, n)
    <2>1. n \in 0 .. Len(t) /\ \A i \in 1 .. n : i \in 1 .. Len(s)
        BY <1>1
    <2>2. /\ SubSeq(t, 1, n) \in Seq(S) /\ Len(SubSeq(t, 1, n)) = n
          /\ \A i \in 1 .. n : SubSeq(t, 1, n)[i] = t[i]
        BY <1>1, <2>1, FrontFacts
    <2>3. /\ SubSeq(s, 1, n) \in Seq(S) /\ Len(SubSeq(s, 1, n)) = n
          /\ \A i \in 1 .. n : SubSeq(s, 1, n)[i] = s[i]
        BY FrontFacts
    <2>4. \A i \in 1 .. n : SubSeq(t, 1, n)[i] = SubSeq(s, 1, n)[i]
        BY <1>1, <2>1, <2>2, <2>3
    <2> QED
        BY <2>2, <2>3, <2>4, SeqEqual
<1>3. SubSeq(t, 1, Len(s) + 1) = t
    BY <1>1, SubSeqFull
<1> QED
    BY <1>2, <1>3 DEF Prefix, t

LEMMA NearerFirstStep ==
    ASSUME TypeOK, Beginning, Beginning', NearerFirst, [Next]_vars
    PROVE  NearerFirst'
<1>1. CASE UNCHANGED <<pool, chain, paths>>
    BY <1>1 DEF NearerFirst
<1>2. CASE Offering'
    <2>1. chain' = <<>> /\ paths' = <<>>
        BY <1>2 DEF Beginning
    <2> QED
        BY <2>1 DEF NearerFirst
<1>3. CASE Expand
    <2>1. PICK i \in Untried :
            /\ chain' = Append(chain, i)
            /\ paths' = IF pool[i].ends # "no" THEN Recorded(paths, Append(chain, i)) ELSE paths
        BY <1>3 DEF Expand
    <2> DEFINE n == Len(chain)
               m == Len(paths)
    <2>2. /\ UNCHANGED pool /\ i \in 1 .. Len(pool) /\ n \in Nat /\ m \in Nat
          /\ DOMAIN chain = 1 .. n /\ DOMAIN paths = 1 .. m
        BY <1>3, PoolFacts, ChainFacts, NextFacts, PathsFacts, LenProperties DEF Expand, Untried
    <2>3. /\ chain' \in Seq(1 .. Len(pool)) /\ DOMAIN chain' = 1 .. n + 1 /\ chain'[n + 1] = i
          /\ Len(chain') = n + 1 /\ \A j \in 1 .. n : chain'[j] = chain[j]
        BY <2>1, <2>2, PoolFacts, ChainFacts, AppendProperties, LenProperties
    <2>4. (\A j \in 0 .. n : Prefix(chain', j) = Prefix(chain, j)) /\ Prefix(chain', n + 1) = chain'
        BY <2>1, <2>2, ChainFacts, PrefixOfAppend
    <2>5. \/ paths' = paths /\ pool[i].ends = "no"
          \/ /\ DOMAIN paths' = 1 .. m + 1 /\ paths'[m + 1] = chain'
             /\ \A j \in 1 .. m : paths'[j] = paths[j]
        <3>1. CASE paths' = Append(paths, chain')
            BY <2>3, <3>1, ChainFacts, PathsFacts, AppendProperties, LenProperties
        <3> QED
            BY <2>1, <3>1 DEF Recorded
    <2> HIDE DEF n, m
    <2>6. \A j \in DOMAIN paths : j \in DOMAIN paths' /\ paths'[j] = paths[j]
        BY <2>2, <2>5
    <2>7. ASSUME NEW k \in DOMAIN chain', pool[chain'[k]].ends # "no"
          PROVE  \E j \in DOMAIN paths' : paths'[j] = Prefix(chain', k)
        <3>1. CASE k \in DOMAIN chain
            <4>1. PICK j \in DOMAIN paths : paths[j] = Prefix(chain, k)
                BY <2>2, <2>3, <2>7, <3>1 DEF NearerFirst
            <4> QED
                BY <2>2, <2>4, <2>6, <3>1, <4>1
        <3>2. CASE k = n + 1
            BY <2>2, <2>3, <2>4, <2>5, <2>7, <3>2
        <3> QED
            BY <2>2, <2>3, <3>1, <3>2
    <2>8. ASSUME NEW l \in DOMAIN paths', NEW k \in DOMAIN paths'[l],
                 k < Len(paths'[l]), pool[paths'[l][k]].ends # "no"
          PROVE  \E j \in DOMAIN paths' : j < l /\ paths'[j] = Prefix(paths'[l], k)
        <3>1. CASE l \in DOMAIN paths
            <4>1. PICK j \in DOMAIN paths : j < l /\ paths[j] = Prefix(paths[l], k)
                BY <2>6, <2>8, <3>1 DEF NearerFirst
            <4> QED
                BY <2>6, <3>1, <4>1
        <3>2. CASE l = m + 1 /\ paths'[l] = chain'
            <4>1. k \in DOMAIN chain /\ chain'[k] = chain[k]
                BY <2>2, <2>3, <2>8, <3>2
            <4>2. PICK j \in DOMAIN paths : paths[j] = Prefix(chain, k)
                BY <2>8, <3>2, <4>1 DEF NearerFirst
            <4>3. j < l /\ Prefix(chain', k) = Prefix(chain, k)
                BY <2>2, <2>4, <3>2, <4>1
            <4> QED
                BY <2>6, <3>2, <4>2, <4>3
        <3> QED
            BY <2>2, <2>5, <3>1, <3>2
    <2> QED
        BY <2>2, <2>7, <2>8 DEF NearerFirst
<1>4. CASE Return
    <2> DEFINE n == Len(chain) - 1
    <2>1. UNCHANGED <<pool, paths>> /\ chain' = SubSeq(chain, 1, n)
        BY <1>4 DEF Return
    <2>2. n \in 0 .. Len(chain) /\ DOMAIN chain = 1 .. Len(chain) /\ Len(chain) \in Nat
        BY <1>4, ChainFacts, EmptySeq, LenProperties DEF Return
    <2> HIDE DEF n
    <2>3. /\ chain' \in Seq(1 .. Len(pool)) /\ DOMAIN chain' = 1 .. n
          /\ \A j \in 1 .. n : chain'[j] = chain[j]
        <3>1. /\ chain' \in Seq(1 .. Len(pool)) /\ Len(chain') = n
              /\ \A j \in 1 .. n : chain'[j] = chain[j]
            BY <2>1, <2>2, PoolFacts, ChainFacts, FrontFacts
        <3> QED
            BY <3>1, LenProperties
    <2>4. ASSUME NEW k \in DOMAIN chain', pool[chain'[k]].ends # "no"
          PROVE  \E j \in DOMAIN paths : paths[j] = Prefix(chain', k)
        <3>1. k \in DOMAIN chain /\ chain'[k] = chain[k] /\ k \in 0 .. n
            BY <2>2, <2>3
        <3>2. Prefix(chain', k) = Prefix(chain, k)
            BY <2>1, <2>2, <3>1, ChainFacts, PrefixOfPrefix
        <3> QED
            BY <2>4, <3>1, <3>2 DEF NearerFirst
    <2> QED
        BY <2>1, <2>4 DEF NearerFirst
<1>5. CASE OfferCandidate \/ CandidatesOffered \/ OfferAnchor
    BY <1>2, <1>5 DEF OfferCandidate, CandidatesOffered, OfferAnchor, Offering
<1>6. CASE NoTrust \/ AnchorsOffered \/ Finish
    BY <1>1, <1>6 DEF NoTrust, AnchorsOffered, Finish, search
<1>7. CASE NoPath \/ Judge \/ Conclude \/ Done \/ UNCHANGED vars
    BY <1>1, <1>7 DEF NoPath, Judge, Conclude, Done, vars, search
<1> QED
    BY <1>3, <1>4, <1>5, <1>6, <1>7 DEF Next
-----------------------------------------------------------------------------
(* What is accepted.                                                       *)

\* The rules read nothing but the request, and the pool's certificates.
LEMMA RulesFrame ==
    ASSUME UNCHANGED request
    PROVE  /\ \A c : Terminates(c)' = Terminates(c)
           /\ \A c : MayAnchor(c)' = MayAnchor(c)
           /\ \A p : Fault(p)' = Fault(p)
<1>1. \A c : Services(c)' = Services(c)
    BY DEF Services
<1>2. \A c : Terminates(c)' = Terminates(c)
    BY <1>1 DEF Terminates
<1>3. \A s, kind : Granted(s, kind)' = Granted(s, kind)
    BY DEF Granted
<1>5. Wanted' = Wanted
    BY DEF Wanted
<1>6. \A c : MayAnchor(c)' = MayAnchor(c)
    BY <1>1, <1>3, <1>5 DEF MayAnchor
<1>7. \A c : OwnFault(c)' = OwnFault(c)
    BY DEF OwnFault
<1>8. ASSUME NEW p PROVE Fault(p)' = Fault(p)
    BY <1>7 DEF Fault
<1> QED
    BY <1>2, <1>6, <1>8

\* What the two properties say of an accepted chain.
Grounded(path) ==
    /\ Len(path) > 1 /\ path[1] = request.leaf
    /\ Last(path) \in EntriesOf(request.anchors) \/ Terminates(Last(path))
    /\ MayAnchor(Last(path))
    /\ \A k \in 2 .. Len(path) : /\ Subject[path[k]] = Issuer[path[k - 1]]
                                 /\ SignedWith[path[k - 1]] = Key[path[k]]
                                 /\ path[k] \in Authorities
    /\ \A k \in DOMAIN path : request.time \in NotBefore[path[k]] .. NotAfter[path[k]]

Nearest(path) ==
    \A n \in 2 .. Len(path) - 1 :
        LET r == Prefix(path, n) IN
        ~(Terminates(Last(r)) /\ MayAnchor(Last(r)) /\ Fault(r) = "none")

LEMMA RecordedFacts ==
    ASSUME TypeOK, ClimbsOnly, NEW m \in DOMAIN paths
    PROVE  /\ paths[m] \in Seq(1 .. Len(pool)) /\ IsPath(paths[m])
           /\ Len(paths[m]) \in Nat \ {0} /\ DOMAIN paths[m] = 1 .. Len(paths[m])
           /\ \A k \in 1 .. Len(paths[m]) : paths[m][k] \in 1 .. Len(pool)
<1>1. paths[m] \in Seq(1 .. Len(pool))
    BY PoolFacts, PathsFacts, LenProperties, ElementOfSeq
<1>2. IsPath(paths[m])
    BY DEF ClimbsOnly, EntriesOf
<1>3. Len(paths[m]) \in Nat \ {0}
    BY <1>1, <1>2, EmptySeq DEF IsPath
<1> QED
    BY <1>1, <1>2, <1>3, LenProperties, ElementOfSeq

LEMMA AcceptedIsGrounded ==
    ASSUME TypeOK, Beginning, PoolIsTold, ClimbsOnly,
           NEW m \in DOMAIN paths, Acceptable(paths[m])
    PROVE  Grounded(Certificates(paths[m]))
<1> DEFINE p == paths[m]
           certs == Certificates(p)
<1>1. /\ p \in Seq(1 .. Len(pool)) /\ IsPath(p) /\ Len(p) \in Nat \ {0}
      /\ DOMAIN p = 1 .. Len(p) /\ \A k \in 1 .. Len(p) : p[k] \in 1 .. Len(pool)
    BY RecordedFacts
<1>2. /\ certs \in Seq(Certs) /\ Len(certs) = Len(p) + 1 /\ certs[1] = request.leaf
      /\ \A k \in 1 .. Len(p) : certs[k + 1] = pool[p[k]].cert
      /\ Last(certs) = pool[Last(p)].cert
    BY <1>1, CertificatesFacts DEF Beginning, IsPath
<1>3. Fault(certs) = "none" /\ MayAnchor(Last(certs))
    BY DEF Acceptable
<1> HIDE DEF p, certs
<1>4. /\ DOMAIN certs = 1 .. Len(p) + 1
      /\ \A k \in DOMAIN certs : certs[k] \in Certs
    BY <1>1, <1>2, LenProperties, ElementOfSeq
<1>5. Last(certs) \in EntriesOf(request.anchors) \/ Terminates(Last(certs))
    <2>1. Last(p) \in 1 .. Len(pool)
        BY <1>1 DEF Last
    <2>2. pool[Last(p)].ends \in {"listed", "anchor"}
        <3>1. pool \in Seq(PoolEntries)
            BY DEF TypeOK, PoolTypeOK, PoolEntries
        <3>2. pool[Last(p)] \in PoolEntries
            BY <2>1, <3>1, ElementOfSeq
        <3> QED
            BY <1>1, <3>2 DEF IsPath, PoolEntries
    <2>3. Last(p) \in DOMAIN pool
        BY <2>1, LenProperties DEF TypeOK, PoolTypeOK
    <2> QED
        BY <1>2, <2>2, <2>3 DEF PoolIsTold
<1>6. ASSUME NEW k \in 2 .. Len(certs)
      PROVE  /\ Subject[certs[k]] = Issuer[certs[k - 1]]
             /\ SignedWith[certs[k - 1]] = Key[certs[k]]
             /\ certs[k] \in Authorities
    <2>1. /\ k - 1 \in DOMAIN p /\ certs[k] = pool[p[k - 1]].cert
          /\ k - 1 # 1 => k - 2 \in 1 .. Len(p) /\ certs[k - 1] = pool[p[k - 2]].cert
          /\ k - 1 - 1 = k - 2
        <3> DEFINE j == k - 1
        <3>1. j \in 1 .. Len(p) /\ j + 1 = k /\ j \in Nat
            BY <1>1, <1>2
        <3>2. certs[j + 1] = pool[p[j]].cert
            BY <1>2, <3>1
        <3>3. ASSUME j # 1 PROVE j - 1 \in 1 .. Len(p) /\ certs[j] = pool[p[j - 1]].cert
            <4>1. j - 1 \in 1 .. Len(p) /\ j - 1 + 1 = j
                BY <1>1, <3>1, <3>3
            <4> QED
                BY <1>2, <4>1
        <3>4. k - 1 = j /\ k - 2 = j - 1 /\ DOMAIN p = 1 .. Len(p)
            BY <1>1, <3>1
        <3> HIDE DEF j
        <3> QED
            BY <3>1, <3>2, <3>3, <3>4
    <2>2. Subject[certs[k]] = Issuer[certs[k - 1]]
        <3>1. Subject[pool[p[k - 1]].cert]
                = Issuer[IF k - 1 = 1 THEN request.leaf ELSE pool[p[k - 2]].cert]
            <4>1. \A j \in DOMAIN p : Subject[pool[p[j]].cert]
                    = Issuer[IF j = 1 THEN request.leaf ELSE pool[p[j - 1]].cert]
                BY <1>1 DEF IsPath, IsClimb
            <4> QED
                BY <2>1, <4>1
        <3>2. CASE k - 1 = 1
            BY <1>2, <2>1, <3>1, <3>2
        <3>3. CASE k - 1 # 1
            BY <2>1, <3>1, <3>3
        <3> QED
            BY <3>2, <3>3
    <2>3. IssuerFault(certs, k) = "none" /\ SignedWith[certs[k - 1]] = Key[certs[k]]
        BY <1>2, <1>3, FaultFacts
    <2> QED
        BY <2>2, <2>3 DEF IssuerFault
<1>7. ASSUME NEW k \in DOMAIN certs
      PROVE  request.time \in NotBefore[certs[k]] .. NotAfter[certs[k]]
    <2>1. OwnFault(certs[k]) = "none"
        BY <1>2, <1>3, FaultFacts
    <2>2. certs[k] \in Certs /\ request.time \in Int
        BY <1>4, RequestFacts DEF Beginning
    <2>3. NotBefore[certs[k]] \in Int /\ NotAfter[certs[k]] \in Int
        BY <2>2, CertificatesAssumption
    <2>4. ~(request.time < NotBefore[certs[k]]) /\ ~(request.time > NotAfter[certs[k]])
        BY <2>1 DEF OwnFault
    <2> QED
        BY <2>2, <2>3, <2>4
<1> QED
    BY <1>1, <1>2, <1>3, <1>5, <1>6, <1>7 DEF Grounded, p, certs

LEMMA CertificatesOfPrefix ==
    ASSUME TypeOK, Beginning, NEW p \in Seq(1 .. Len(pool)), NEW k \in 0 .. Len(p)
    PROVE  Certificates(Prefix(p, k)) = Prefix(Certificates(p), k + 1)
<1> DEFINE q == Prefix(p, k)
           whole == Certificates(p)
           part == Certificates(q)
<1>1. q \in Seq(1 .. Len(pool)) /\ Len(q) = k /\ DOMAIN q = 1 .. k /\ \A i \in 1 .. k : q[i] = p[i]
    BY FrontFacts, LenProperties DEF Prefix
<1>2. /\ Len(p) \in Nat /\ DOMAIN p = 1 .. Len(p)
      /\ \A i \in 1 .. k : i \in DOMAIN p /\ i \in DOMAIN q
    BY <1>1, LenProperties
<1>3. /\ whole \in Seq(Certs) /\ Len(whole) = Len(p) + 1 /\ whole[1] = request.leaf
      /\ \A i \in DOMAIN p : whole[i + 1] = pool[p[i]].cert
    BY CertificatesFacts DEF Beginning
<1>4. /\ part \in Seq(Certs) /\ Len(part) = k + 1 /\ part[1] = request.leaf
      /\ \A i \in DOMAIN q : part[i + 1] = pool[q[i]].cert
    BY <1>1, CertificatesFacts DEF Beginning
<1> HIDE DEF q, whole, part
<1>5. /\ Prefix(whole, k + 1) \in Seq(Certs) /\ Len(Prefix(whole, k + 1)) = k + 1
      /\ \A i \in 1 .. k + 1 : Prefix(whole, k + 1)[i] = whole[i]
    BY <1>2, <1>3, FrontFacts DEF Prefix
<1>6. ASSUME NEW i \in 1 .. k + 1 PROVE part[i] = whole[i]
    <2>1. CASE i = 1
        BY <1>3, <1>4, <2>1
    <2>2. CASE i # 1
        <3> DEFINE j == i - 1
        <3>1. j \in 1 .. k /\ j + 1 = i
            BY <2>2
        <3> HIDE DEF j
        <3>2. q[j] = p[j] /\ part[j + 1] = pool[q[j]].cert /\ whole[j + 1] = pool[p[j]].cert
            BY <1>1, <1>2, <1>3, <1>4, <3>1
        <3> QED
            BY <3>1, <3>2
    <2> QED
        BY <2>1, <2>2
<1>7. part = Prefix(whole, k + 1)
    BY <1>4, <1>5, <1>6, SeqEqual
<1> QED
    BY <1>7 DEF q, whole, part

LEMMA AcceptedIsNearest ==
    ASSUME TypeOK, Beginning, PoolIsTold, ClimbsOnly, NearerFirst,
           NEW m \in DOMAIN paths, \A i \in 1 .. m - 1 : ~Acceptable(paths[i])
    PROVE  Nearest(Certificates(paths[m]))
<1> DEFINE p == paths[m]
           certs == Certificates(p)
<1>1. /\ p \in Seq(1 .. Len(pool)) /\ Len(p) \in Nat \ {0} /\ DOMAIN p = 1 .. Len(p)
      /\ \A k \in 1 .. Len(p) : p[k] \in 1 .. Len(pool)
    BY RecordedFacts
<1>2. /\ certs \in Seq(Certs) /\ Len(certs) = Len(p) + 1
      /\ \A k \in 1 .. Len(p) : certs[k + 1] = pool[p[k]].cert
    BY <1>1, CertificatesFacts DEF Beginning
<1> HIDE DEF p, certs
<1> SUFFICES ASSUME NEW n \in 2 .. Len(certs) - 1,
                    Terminates(Last(Prefix(certs, n))), MayAnchor(Last(Prefix(certs, n))),
                    Fault(Prefix(certs, n)) = "none"
             PROVE  FALSE
    BY DEF Nearest, p, certs
<1> DEFINE k == n - 1
<1>3. k \in 1 .. Len(p) /\ k < Len(p) /\ k + 1 = n /\ n \in 0 .. Len(certs) /\ n \in 1 .. n
    BY <1>1, <1>2
<1>4. Last(Prefix(certs, n)) = pool[p[k]].cert
    <2>1. Len(Prefix(certs, n)) = n /\ Prefix(certs, n)[n] = certs[n]
        BY <1>2, <1>3, FrontFacts DEF Prefix
    <2> QED
        BY <1>2, <1>3, <2>1 DEF Last
<1>5. pool[p[k]].ends # "no"
    <2>1. p[k] \in DOMAIN pool
        BY <1>1, <1>3, LenProperties DEF TypeOK, PoolTypeOK
    <2> QED
        BY <1>4, <2>1 DEF PoolIsTold
<1>6. PICK i \in DOMAIN paths : i < m /\ paths[i] = Prefix(p, k)
    BY <1>1, <1>3, <1>5 DEF NearerFirst, p
<1>7. Certificates(paths[i]) = Prefix(certs, n)
    BY <1>1, <1>3, <1>6, CertificatesOfPrefix DEF certs
<1>8. i \in 1 .. m - 1
    <2>1. DOMAIN paths = 1 .. Len(paths) /\ Len(paths) \in Nat
        BY PathsFacts, LenProperties
    <2> QED
        BY <1>6, <2>1
<1> QED
    BY <1>7, <1>8 DEF Acceptable

LEMMA JudgeAnswer ==
    ASSUME TypeOK, Beginning, PoolIsTold, ClimbsOnly, NearerFirst, Unacceptable, Judge
    PROVE  /\ Unacceptable'
           /\ \/ UNCHANGED answer
              \/ answer'.code = "cert_path_ok" /\ Grounded(answer'.path) /\ Nearest(answer'.path)
<1> DEFINE m == judged + 1
           certs == Certificates(paths[m])
<1>1. m \in DOMAIN paths /\ m \in Nat /\ judged \in Nat /\ m - 1 = judged
    BY PathsFacts, LenProperties DEF Judge, TypeOK
<1>2. certs \in Seq(Certs)
    BY <1>1, RecordedFacts, CertificatesFacts DEF Beginning
<1>3. Fault(certs) \in FaultCodes \union {"none"}
    BY <1>2, FaultFacts
<1>4. \A i \in 1 .. judged : ~Acceptable(paths[i])
    BY DEF Unacceptable, Judge
<1>5. UNCHANGED <<request, pool, paths>> /\ judged' = m /\ pc = "judge"
    BY DEF Judge, search
<1>6. \A i \in DOMAIN paths : Acceptable(paths[i])' = Acceptable(paths[i])
    <2>1. \A p : Certificates(p)' = Certificates(p)
        BY <1>5 DEF Certificates
    <2> QED
        BY <1>5, <2>1, RulesFrame DEF Acceptable
<1>7. CASE Fault(certs) = "none" /\ MayAnchor(Last(certs))
    <2>1. /\ pc' = "done" /\ answer' = Outcome("cert_path_ok", certs, certs)
          /\ UNCHANGED <<notGranted, firstFailure>>
        BY <1>7 DEF Judge, Answer
    <2>2. Acceptable(paths[m])
        BY <1>7 DEF Acceptable
    <2>3. Grounded(certs) /\ Nearest(certs)
        BY <1>1, <1>4, <2>2, AcceptedIsGrounded, AcceptedIsNearest
    <2> QED
        BY <2>1, <2>3 DEF Outcome, Unacceptable
<1>8. CASE ~(Fault(certs) = "none" /\ MayAnchor(Last(certs)))
    <2>1. ~Acceptable(paths[m])
        BY <1>8 DEF Acceptable
    <2>2. \A i \in 1 .. judged' : i \in DOMAIN paths /\ (i \in 1 .. judged \/ i = m)
        <3>1. DOMAIN paths = 1 .. Len(paths) /\ Len(paths) \in Nat
            BY PathsFacts, LenProperties
        <3> QED
            BY <1>1, <1>5, <3>1
    <2>3. \A i \in 1 .. judged' : ~Acceptable(paths[i])'
        BY <1>4, <1>6, <2>1, <2>2
    <2>4. notGranted'.code # "cert_path_ok" /\ firstFailure'.code # "cert_path_ok"
        <3>1. /\ notGranted' \in {notGranted,
                                  Outcome("trust_list_service_not_granted", certs, certs)}
              /\ firstFailure' \in {firstFailure, Outcome(Fault(certs), certs, <<>>)}
            BY <1>8 DEF Judge, Kept
        <3>2. Outcome("trust_list_service_not_granted", certs, certs).code # "cert_path_ok"
            BY DEF Outcome
        <3>3. Fault(certs) # "cert_path_ok"
            BY <1>3 DEF FaultCodes
        <3>4. Outcome(Fault(certs), certs, <<>>).code # "cert_path_ok"
            BY <3>3 DEF Outcome
        <3> QED
            BY <3>1, <3>2, <3>4 DEF Unacceptable
    <2>5. UNCHANGED answer
        BY <1>8 DEF Judge
    <2> QED
        BY <2>3, <2>4, <2>5 DEF Unacceptable
<1> QED
    BY <1>7, <1>8

LEMMA AnswersFrame ==
    ASSUME UNCHANGED request, NEW p
    PROVE  Grounded(p)' = Grounded(p) /\ Nearest(p)' = Nearest(p)
<1>1. (\A n \in 2 .. Len(p) - 1 : LET r == Prefix(p, n) IN
          ~(Terminates(Last(r)) /\ MayAnchor(Last(r)) /\ Fault(r) = "none"))'
      = \A n \in 2 .. Len(p) - 1 : LET r == Prefix(p, n) IN
          ~(Terminates(Last(r)) /\ MayAnchor(Last(r)) /\ Fault(r) = "none")
    BY RulesFrame
<1>2. Nearest(p)' = Nearest(p)
    BY <1>1 DEF Nearest
<1>3. Grounded(p)' = Grounded(p)
    BY RulesFrame DEF Grounded
<1> QED
    BY <1>2, <1>3

\* Every answer but a judged path's is a refusal.
LEMMA AnswerStep ==
    ASSUME IInv, TypeOK', Beginning', [Next]_vars
    PROVE  Unacceptable' /\ TrustBoundary' /\ NearestIsPreferred'
<1>0. /\ TypeOK /\ Beginning /\ PoolIsTold /\ ClimbsOnly /\ NearerFirst /\ Unacceptable
      /\ TrustBoundary /\ NearestIsPreferred
    BY DEF IInv
<1>1. ASSUME UNCHANGED <<request, answer>> PROVE TrustBoundary' /\ NearestIsPreferred'
    <2>1. answer.code = "cert_path_ok" => Grounded(answer.path) /\ Nearest(answer.path)
        BY <1>0 DEF TrustBoundary, NearestIsPreferred, Grounded, Nearest
    <2>2. /\ Grounded(answer.path)' = Grounded(answer.path)
          /\ Nearest(answer.path)' = Nearest(answer.path)
        <3>1. \A p : UNCHANGED request => Grounded(p)' = Grounded(p) /\ Nearest(p)' = Nearest(p)
            BY AnswersFrame
        <3> QED
            BY <1>1, <3>1 DEF Grounded, Nearest
    <2> QED
        BY <1>1, <2>1, <2>2 DEF TrustBoundary, NearestIsPreferred, Grounded, Nearest
<1>2. ASSUME answer'.code # "cert_path_ok" PROVE TrustBoundary' /\ NearestIsPreferred'
    BY <1>2 DEF TrustBoundary, NearestIsPreferred
<1>3. ASSUME pc' # "judge", UNCHANGED <<notGranted, firstFailure>> PROVE Unacceptable'
    BY <1>0, <1>3 DEF Unacceptable
<1>4. CASE NoTrust \/ NoPath
    <2>1. pc' = "done" /\ answer'.code # "cert_path_ok"
          /\ UNCHANGED <<notGranted, firstFailure>>
        BY <1>4 DEF NoTrust, NoPath, Answer, Outcome
    <2> QED
        BY <1>2, <1>3, <2>1
<1>5. CASE OfferCandidate \/ CandidatesOffered \/ OfferAnchor \/ AnchorsOffered
           \/ Expand \/ Return
    <2>1. pc' # "judge" /\ UNCHANGED <<request, verdict>>
        BY <1>5 DEF OfferCandidate, CandidatesOffered, OfferAnchor, AnchorsOffered, Expand, Return
    <2> QED
        BY <1>1, <1>3, <2>1 DEF verdict
<1>6. CASE Finish
    <2>1. judged' = 0 /\ UNCHANGED <<request, verdict>>
        BY <1>0, <1>6 DEF Finish, Beginning, verdict
    <2>2. 1 .. judged' = {}
        BY <2>1
    <2> QED
        BY <1>0, <1>1, <2>1, <2>2 DEF verdict, Unacceptable
<1>7. CASE Judge
    <2>1. /\ Unacceptable'
          /\ \/ UNCHANGED answer
             \/ /\ answer'.code = "cert_path_ok"
                /\ Grounded(answer'.path) /\ Nearest(answer'.path)
        BY <1>0, <1>7, JudgeAnswer
    <2>2. UNCHANGED request
        BY <1>7 DEF Judge
    <2>3. CASE UNCHANGED answer
        BY <1>1, <2>1, <2>2, <2>3
    <2>4. CASE Grounded(answer'.path) /\ Nearest(answer'.path)
        <3>1. TrustBoundary'
            BY <2>2, <2>4, RulesFrame DEF TrustBoundary, Grounded
        <3>2. NearestIsPreferred'
            BY <2>2, <2>4, RulesFrame DEF NearestIsPreferred, Nearest
        <3> QED
            BY <2>1, <3>1, <3>2
    <2> QED
        BY <2>1, <2>3, <2>4
<1>8. CASE Conclude
    <2>1. /\ pc' = "done" /\ UNCHANGED <<notGranted, firstFailure>>
          /\ answer' \in {notGranted, firstFailure}
        BY <1>8 DEF Conclude, Answer
    <2>2. answer'.code # "cert_path_ok"
        BY <1>0, <2>1 DEF Unacceptable
    <2> QED
        BY <1>2, <1>3, <2>1, <2>2
<1>9. CASE UNCHANGED vars
    <2>1. UNCHANGED <<request, pc, pool, paths, judged, notGranted, firstFailure, answer>>
        BY <1>9 DEF vars, search, verdict
    <2>2. \A p : Acceptable(p)' = Acceptable(p)
        <3>1. \A p : Certificates(p)' = Certificates(p)
            BY <2>1 DEF Certificates
        <3> QED
            BY <2>1, <3>1, RulesFrame DEF Acceptable
    <2>3. Unacceptable'
        BY <1>0, <2>1, <2>2 DEF Unacceptable
    <2> QED
        BY <1>1, <2>1, <2>3
<1> QED
    BY <1>4, <1>5, <1>6, <1>7, <1>8, <1>9 DEF Next, Done
-----------------------------------------------------------------------------
(* The invariant, and what it was for.                                     *)

LEMMA InvStart == Init => IInv
<1> SUFFICES ASSUME Init PROVE IInv
    OBVIOUS
<1>1. TypeOK /\ Beginning
    BY TypingInit
<1>2. PoolIsTold
    BY DEF Init, PoolIsTold
<1>3. ClimbsOnly
    BY DEF Init, ClimbsOnly, IsClimb, EntriesOf
<1>4. NoneMissed /\ SearchIsComplete
    BY DEF Init, NoneMissed, SearchIsComplete
<1>5. NearerFirst
    BY DEF Init, NearerFirst
<1>6. Unacceptable /\ TrustBoundary /\ NearestIsPreferred
    BY DEF Init, Unacceptable, TrustBoundary, NearestIsPreferred, NoOutcome, Outcome
<1> QED
    BY <1>1, <1>2, <1>3, <1>4, <1>5, <1>6 DEF IInv

LEMMA InvStep == IInv /\ [Next]_vars => IInv'
<1> SUFFICES ASSUME IInv, [Next]_vars PROVE IInv'
    OBVIOUS
<1>0. TypeOK /\ Beginning /\ PoolIsTold /\ ClimbsOnly /\ NoneMissed /\ NearerFirst
      /\ SearchIsComplete
    BY DEF IInv
<1>1. TypeOK' /\ Beginning'
    BY <1>0, TypingStep
<1>2. PoolIsTold'
    BY <1>0, PoolIsToldStep
<1>3. ClimbsOnly'
    BY <1>0, <1>1, ClimbsOnlyStep
<1>4. NoneMissed'
    BY <1>0, <1>1, NoneMissedStep
<1>5. SearchIsComplete'
    BY <1>0, SearchIsCompleteStep
<1>6. NearerFirst'
    BY <1>0, <1>1, NearerFirstStep
<1>7. Unacceptable' /\ TrustBoundary' /\ NearestIsPreferred'
    BY <1>1, AnswerStep
<1> QED
    BY <1>1, <1>2, <1>3, <1>4, <1>5, <1>6, <1>7 DEF IInv

LEMMA Invariance == Spec => []IInv
<1> QED
    BY InvStart, InvStep, PTL DEF Spec

\* However the candidates name one another, the search stays within the work,
\* the length and the number of paths it was allowed (build_paths).
THEOREM Bounded == Spec => []TypeOK
<1>1. IInv => TypeOK
    BY DEF IInv
<1> QED
    BY Invariance, <1>1, PTL

\* A search that stopped for none of its bounds recorded every path the pool
\* has to an anchor or a listed certificate, and nothing else (build_paths).
THEOREM Completeness == Spec => []SearchIsComplete
<1>1. IInv => SearchIsComplete
    BY DEF IInv
<1> QED
    BY Invariance, <1>1, PTL

\* Nothing a dossier carries makes a path good that does not end at configured
\* trust, in force at the instant asked about, by valid certificates each
\* signed by the next (validate_path_at).
THEOREM Trust == Spec => []TrustBoundary
<1>1. IInv => TrustBoundary
    BY DEF IInv
<1> QED
    BY Invariance, <1>1, PTL

\* The path accepted is the one to the nearest listed certificate that would do
\* (build_paths records a path before it climbs on).
THEOREM Preference == Spec => []NearestIsPreferred
<1>1. IInv => NearestIsPreferred
    BY DEF IInv
<1> QED
    BY Invariance, <1>1, PTL

-----------------------------------------------------------------------------
(* The pool of a request that was not cut short holds every certificate the  *)
(* request may build with, once, and knows its anchors.                      *)

Uncut ==
    /\ Len(request.candidates) <= MaxCertificates
    /\ Len(request.anchors) <= MaxCertificates

PoolCerts == {pool[i].cert : i \in DOMAIN pool}
Front(s, n) == {s[k] : k \in 1 .. n}

PoolKnows ==
    /\ \A i, j \in DOMAIN pool : pool[i].cert = pool[j].cert => i = j
    /\ \A i \in DOMAIN pool : pool[i].ends = "anchor" <=> pool[i].cert \in Anchors

PoolHolds ==
    /\ pc = "offer_candidates" =>
         /\ offered <= Len(request.candidates)
         /\ PoolCerts = Front(request.candidates, offered) \ ({request.leaf} \union Anchors)
    /\ pc = "offer_anchors" =>
         /\ offered <= Len(request.anchors)
         /\ PoolCerts = (EntriesOf(request.candidates) \ ({request.leaf} \union Anchors))
                          \union Front(request.anchors, offered)
    /\ ~Offering => PoolCerts = Links

WholePool == Uncut /\ Trusts => PoolKnows /\ PoolHolds

\* Whatever list the request gives, it names nothing twice.
LEMMA NoneTwice ==
    ASSUME request \in Requests
    PROVE  /\ \A j, k \in DOMAIN request.candidates :
                request.candidates[j] = request.candidates[k] => j = k
           /\ \A j, k \in DOMAIN request.anchors :
                request.anchors[j] = request.anchors[k] => j = k
BY DedupAssumption

LEMMA FrontGrows ==
    ASSUME NEW S, NEW s \in Seq(S), NEW n \in Nat, n < Len(s),
           \A j, k \in DOMAIN s : s[j] = s[k] => j = k
    PROVE  /\ Front(s, n + 1) = Front(s, n) \union {s[n + 1]}
           /\ s[n + 1] \notin Front(s, n) /\ s[n + 1] \in EntriesOf(s)
<1>1. 1 .. n + 1 = (1 .. n) \union {n + 1} /\ n + 1 \in DOMAIN s /\ 1 .. n \subseteq DOMAIN s
    OBVIOUS
<1>2. \A k \in 1 .. n : k # n + 1
    OBVIOUS
<1> QED
    BY <1>1, <1>2 DEF Front, EntriesOf

LEMMA FrontEnds ==
    ASSUME NEW S, NEW s \in Seq(S)
    PROVE  Front(s, Len(s)) = EntriesOf(s) /\ Front(s, 0) = {}
<1>1. DOMAIN s = 1 .. Len(s)
    OBVIOUS
<1> QED
    BY <1>1 DEF Front, EntriesOf

\* One more entry, new to the pool.
LEMMA PoolTakes ==
    ASSUME TypeOK, PoolKnows, NEW e \in PoolEntries, pool' = Append(pool, e),
           UNCHANGED request, e.cert \notin PoolCerts,
           e.ends = "anchor" <=> e.cert \in Anchors
    PROVE  PoolKnows' /\ PoolCerts' = PoolCerts \union {e.cert}
<1>1. pool \in Seq(PoolEntries)
    BY DEF TypeOK, PoolTypeOK, PoolEntries
<1>2. /\ DOMAIN pool' = DOMAIN pool \union {Len(pool) + 1}
      /\ \A i \in DOMAIN pool : pool'[i] = pool[i]
      /\ pool'[Len(pool) + 1] = e
    BY <1>1
<1>3. PoolCerts' = PoolCerts \union {e.cert}
    BY <1>2 DEF PoolCerts
<1>4. \A i \in DOMAIN pool : pool[i].cert # e.cert
    BY DEF PoolCerts
<1>5. PoolKnows'
    BY <1>2, <1>4 DEF PoolKnows, Anchors
<1> QED
    BY <1>3, <1>5

LEMMA WholePoolStep ==
    ASSUME TypeOK, Beginning, WholePool, [Next]_vars
    PROVE  WholePool'
<1>1. UNCHANGED request
    BY DEF Next, NoTrust, OfferCandidate, CandidatesOffered, OfferAnchor, AnchorsOffered,
       Expand, Return, Finish, NoPath, Judge, Conclude, Done, vars
<1>2. /\ Uncut' = Uncut /\ Trusts' = Trusts /\ Anchors' = Anchors /\ Links' = Links
    BY <1>1 DEF Uncut, Trusts, HasListed, Anchors, Links
<1>3. SUFFICES ASSUME Uncut, Trusts, PoolKnows, PoolHolds
               PROVE  PoolKnows' /\ PoolHolds'
    BY <1>2 DEF WholePool
<1>4. /\ request \in Requests /\ request.candidates \in Seq(Certs)
      /\ request.anchors \in Seq(Certs) /\ offered \in Nat /\ MaxCertificates \in Nat
    BY RequestFacts, BoundFacts DEF Beginning, TypeOK, PoolTypeOK
<1>5. Len(request.candidates) \in Nat /\ Len(request.anchors) \in Nat
    BY <1>4
<1>6. CASE OfferCandidate
    <2> DEFINE c == request.candidates[offered + 1]
               e == [cert |-> c, ends |-> Standing(c)]
    <2>1. /\ pc = "offer_candidates" /\ pc' = "offer_candidates" /\ offered' = offered + 1
          /\ offered < Len(request.candidates)
          /\ pool' = IF c = request.leaf \/ c \in Anchors THEN pool ELSE Append(pool, e)
        BY <1>6 DEF OfferCandidate, Anchors
    <2>2. /\ Front(request.candidates, offered + 1)
                = Front(request.candidates, offered) \union {c}
          /\ c \notin Front(request.candidates, offered)
          /\ c \in EntriesOf(request.candidates)
        BY <1>4, <2>1, NoneTwice, FrontGrows
    <2>3. PoolCerts = Front(request.candidates, offered) \ ({request.leaf} \union Anchors)
        BY <1>3, <2>1 DEF PoolHolds
    <2>4. c \in Certs /\ e \in PoolEntries /\ e.cert = c /\ e.ends # "anchor"
        <3>1. c \in Certs
            BY <1>4, <1>5, <2>1
        <3> QED
            BY <3>1 DEF PoolEntries, Standing
    <2> HIDE DEF e
    <2>5. CASE c = request.leaf \/ c \in Anchors
        <3>1. pool' = pool
            BY <2>1, <2>5
        <3>2. PoolKnows' /\ PoolCerts' = PoolCerts
            BY <1>2, <1>3, <3>1 DEF PoolKnows, PoolCerts
        <3> QED
            BY <1>1, <1>2, <1>4, <1>5, <2>1, <2>2, <2>3, <2>5, <3>2 DEF PoolHolds, Offering
    <2>6. CASE ~(c = request.leaf \/ c \in Anchors)
        <3>1. pool' = Append(pool, e)
            BY <2>1, <2>6
        <3>2. PoolKnows' /\ PoolCerts' = PoolCerts \union {c}
            BY <1>1, <1>3, <2>2, <2>3, <2>4, <2>6, <3>1, PoolTakes
        <3> QED
            BY <1>1, <1>2, <1>4, <1>5, <2>1, <2>2, <2>3, <2>6, <3>2 DEF PoolHolds, Offering
    <2> QED
        BY <2>5, <2>6
<1>7. CASE CandidatesOffered
    <2>1. /\ pc = "offer_candidates" /\ pc' = "offer_anchors" /\ offered' = 0
          /\ pool' = pool /\ (offered >= Len(request.candidates) \/ offered >= MaxCertificates)
        BY <1>7 DEF CandidatesOffered
    <2>2. offered = Len(request.candidates)
        BY <1>3, <1>4, <1>5, <2>1 DEF PoolHolds, Uncut
    <2>3. PoolCerts = EntriesOf(request.candidates) \ ({request.leaf} \union Anchors)
        BY <1>3, <1>4, <2>1, <2>2, FrontEnds DEF PoolHolds
    <2>4. Front(request.anchors, 0) = {}
        BY <1>4, FrontEnds
    <2>5. PoolKnows' /\ PoolCerts' = PoolCerts
        BY <1>2, <1>3, <2>1 DEF PoolKnows, PoolCerts
    <2> QED
        BY <1>1, <1>2, <1>5, <2>1, <2>3, <2>4, <2>5 DEF PoolHolds, Offering
<1>8. CASE OfferAnchor
    <2> DEFINE c == request.anchors[offered + 1]
               e == [cert |-> c, ends |-> "anchor"]
    <2>1. /\ pc = "offer_anchors" /\ pc' = "offer_anchors" /\ offered' = offered + 1
          /\ offered < Len(request.anchors)
          /\ pool' = Append(pool, e)
        BY <1>8 DEF OfferAnchor
    <2>2. /\ Front(request.anchors, offered + 1) = Front(request.anchors, offered) \union {c}
          /\ c \notin Front(request.anchors, offered) /\ c \in Anchors
        BY <1>4, <2>1, NoneTwice, FrontGrows DEF Anchors
    <2>3. PoolCerts = (EntriesOf(request.candidates) \ ({request.leaf} \union Anchors))
                          \union Front(request.anchors, offered)
        BY <1>3, <2>1 DEF PoolHolds
    <2>4. e \in PoolEntries /\ e.cert = c /\ e.ends = "anchor"
        <3>1. c \in Certs
            BY <1>4, <1>5, <2>1
        <3> QED
            BY <3>1 DEF PoolEntries
    <2> HIDE DEF e
    <2>5. PoolKnows' /\ PoolCerts' = PoolCerts \union {c}
        BY <1>1, <1>3, <2>1, <2>2, <2>3, <2>4, PoolTakes
    <2> QED
        BY <1>1, <1>2, <1>4, <1>5, <2>1, <2>2, <2>3, <2>5 DEF PoolHolds, Offering
<1>9. CASE AnchorsOffered
    <2>1. /\ pc = "offer_anchors" /\ pc' = "search"
          /\ pool' = pool /\ (offered >= Len(request.anchors) \/ offered >= MaxCertificates)
        BY <1>9 DEF AnchorsOffered
    <2>2. offered = Len(request.anchors)
        BY <1>3, <1>4, <1>5, <2>1 DEF PoolHolds, Uncut
    <2>3. Front(request.anchors, offered) = Anchors
        BY <1>4, <2>2, FrontEnds DEF Anchors
    <2>4. PoolCerts = Links
        BY <1>3, <2>1, <2>3 DEF PoolHolds, Links
    <2>5. PoolKnows' /\ PoolCerts' = PoolCerts
        BY <1>2, <1>3, <2>1 DEF PoolKnows, PoolCerts
    <2> QED
        BY <1>2, <2>1, <2>4, <2>5 DEF PoolHolds, Offering
<1>10. CASE UNCHANGED <<pool, pc, offered>> \/ (~Offering /\ ~Offering' /\ UNCHANGED pool)
    <2>1. PoolKnows' /\ PoolCerts' = PoolCerts
        BY <1>2, <1>3, <1>10 DEF PoolKnows, PoolCerts
    <2> QED
        BY <1>1, <1>2, <1>3, <1>10, <2>1 DEF PoolHolds, Offering
<1>11. CASE NoTrust
    BY <1>3, <1>11 DEF NoTrust, Trusts
<1> QED
    BY <1>6, <1>7, <1>8, <1>9, <1>10, <1>11
    DEF Next, Expand, Return, Finish, NoPath, Judge, Conclude, Done, Answer, vars, Offering

-----------------------------------------------------------------------------
(* The climbs through such a pool are the chains the request admits.        *)

KnownPool == TypeOK /\ Beginning /\ PoolIsTold /\ PoolKnows /\ PoolCerts = Links

LEMMA EntryFacts ==
    ASSUME KnownPool
    PROVE  /\ DOMAIN pool = 1 .. Len(pool) /\ Len(pool) \in Nat
           /\ \A i \in 1 .. Len(pool) : /\ pool[i].cert \in Links
                                        /\ pool[i].ends \in {"no", "listed", "anchor"}
                                        /\ pool[i].ends = "anchor" <=> pool[i].cert \in Anchors
                                        /\ pool[i].ends = "listed" => Terminates(pool[i].cert)
                                        /\ pool[i].ends = "no" => ~Terminates(pool[i].cert)
<1>1. pool \in Seq(PoolEntries)
    BY DEF KnownPool, TypeOK, PoolTypeOK, PoolEntries
<1>2. /\ DOMAIN pool = 1 .. Len(pool) /\ Len(pool) \in Nat
      /\ \A i \in 1 .. Len(pool) : pool[i] \in PoolEntries
    BY <1>1, ElementOfSeq, LenProperties
<1> QED
    BY <1>2 DEF KnownPool, PoolEntries, PoolKnows, PoolIsTold, PoolCerts

LEMMA PathIsARoute ==
    ASSUME KnownPool, NEW p \in PoolPaths
    PROVE  Certificates(p) \in Routes
<1> DEFINE n == Len(p)
           s == [k \in 1 .. n |-> pool[p[k]].cert]
<1>1. /\ p \in Seq(1 .. Len(pool)) /\ n \in Nat \ {0} /\ n < MaxChain /\ IsPath(p)
      /\ DOMAIN p = 1 .. n /\ \A k \in 1 .. n : p[k] \in 1 .. Len(pool)
    BY PathFacts, LenProperties, ElementOfSeq DEF KnownPool
<1>2. Certificates(p) = <<request.leaf>> \o s
    BY <1>1 DEF Certificates
<1>3. n \in 1 .. MaxChain - 1 /\ s \in [1 .. n -> Links] /\ DOMAIN s = 1 .. n /\ Len(s) = n
      /\ \A k \in 1 .. n : s[k] = pool[p[k]].cert
    <2>1. n \in 1 .. MaxChain - 1
        BY <1>1, BoundFacts
    <2>2. s \in [1 .. n -> Links]
        BY <1>1, EntryFacts
    <2>3. s \in Seq(Links) /\ Len(s) = n
        BY <1>1, <2>2, SeqDef
    <2> QED
        BY <2>1, <2>2, <2>3
<1> HIDE DEF s, n
<1>4. IsClimb(p) /\ pool[Last(p)].ends # "no" /\ Last(p) = p[n] /\ Last(s) = s[n] /\ n \in 1 .. n
    BY <1>1, <1>3 DEF IsPath, Last, n
<1>5. \A j, k \in DOMAIN s : s[j] = s[k] => j = k
    <2>1. SUFFICES ASSUME NEW j \in 1 .. n, NEW k \in 1 .. n, s[j] = s[k] PROVE j = k
        BY <1>3
    <2>2. p[j] \in DOMAIN pool /\ p[k] \in DOMAIN pool /\ pool[p[j]].cert = pool[p[k]].cert
        BY <1>1, <1>3, <2>1, EntryFacts
    <2>3. p[j] = p[k]
        BY <2>2 DEF KnownPool, PoolKnows
    <2> QED
        BY <1>1, <1>4, <2>3 DEF IsClimb
<1>6. \A k \in DOMAIN s : Subject[s[k]] = Issuer[IF k = 1 THEN request.leaf ELSE s[k - 1]]
    <2>1. SUFFICES ASSUME NEW k \in 1 .. n
                   PROVE  Subject[s[k]] = Issuer[IF k = 1 THEN request.leaf ELSE s[k - 1]]
        BY <1>3
    <2>2. Subject[s[k]] = Issuer[IF k = 1 THEN request.leaf ELSE pool[p[k - 1]].cert]
        BY <1>1, <1>3, <1>4 DEF IsClimb
    <2>3. k # 1 => k - 1 \in 1 .. n
        BY <1>1
    <2> QED
        BY <1>3, <2>2, <2>3
<1>7. \A k \in 1 .. Len(s) - 1 : s[k] \notin Anchors
    <2>1. SUFFICES ASSUME NEW k \in 1 .. n, k < n PROVE s[k] \notin Anchors
        BY <1>1, <1>3
    <2>2. pool[p[k]].ends # "anchor" /\ p[k] \in 1 .. Len(pool)
        BY <1>1, <1>4, <2>1 DEF IsClimb, n
    <2> QED
        BY <1>3, <2>2, EntryFacts
<1>8. Last(s) \in Anchors \/ Terminates(Last(s))
    BY <1>1, <1>3, <1>4, EntryFacts
<1>9. Connects(s)
    BY <1>5, <1>6, <1>7, <1>8 DEF Connects
<1> QED
    BY <1>2, <1>3, <1>9 DEF Routes

LEMMA RouteIsAPath ==
    ASSUME KnownPool, NEW r \in Routes
    PROVE  \E p \in PoolPaths : Certificates(p) = r
<1>1. PICK n \in 1 .. MaxChain - 1 : \E s \in [1 .. n -> Links] :
            Connects(s) /\ r = <<request.leaf>> \o s
    BY DEF Routes
<1>2. PICK s \in [1 .. n -> Links] : Connects(s) /\ r = <<request.leaf>> \o s
    BY <1>1
<1>3. /\ n \in Nat \ {0} /\ n < MaxChain /\ n \in 1 .. n
      /\ s \in Seq(Links) /\ Len(s) = n /\ DOMAIN s = 1 .. n /\ Last(s) = s[n]
    <2>1. n \in Nat \ {0} /\ n < MaxChain /\ n \in 1 .. n
        BY BoundFacts
    <2>2. s \in Seq(Links) /\ Len(s) = n
        BY <2>1, SeqDef
    <2> QED
        BY <2>1, <2>2 DEF Last
<1> DEFINE Offered(c) == CHOOSE i \in DOMAIN pool : pool[i].cert = c
           p == [k \in 1 .. n |-> Offered(s[k])]
<1>4. \A c \in Links : Offered(c) \in 1 .. Len(pool) /\ pool[Offered(c)].cert = c
    <2>1. \A c \in Links : \E i \in DOMAIN pool : pool[i].cert = c
        BY DEF KnownPool, PoolCerts
    <2> QED
        BY <2>1, EntryFacts
<1> HIDE DEF Offered
<1>5. /\ p \in [1 .. n -> 1 .. Len(pool)] /\ DOMAIN p = 1 .. n
      /\ \A k \in 1 .. n : p[k] \in 1 .. Len(pool) /\ pool[p[k]].cert = s[k]
    BY <1>4
<1> HIDE DEF p
<1>6. /\ p \in Seq(1 .. Len(pool)) /\ Len(p) = n /\ p # <<>> /\ Last(p) = p[n]
    <2>1. p \in Seq(1 .. Len(pool)) /\ Len(p) = n
        BY <1>3, <1>5, SeqDef
    <2> QED
        BY <1>3, <2>1 DEF Last
<1>7. \A j, k \in DOMAIN p : p[j] = p[k] => j = k
    <2>1. SUFFICES ASSUME NEW j \in 1 .. n, NEW k \in 1 .. n, p[j] = p[k] PROVE j = k
        BY <1>5
    <2>2. \A i, h \in 1 .. n : s[i] = s[h] => i = h
        BY <1>2, <1>3 DEF Connects
    <2>3. pool[p[j]].cert = s[j] /\ pool[p[k]].cert = s[k]
        BY <1>5
    <2>4. s[j] = s[k]
        BY <2>1, <2>3
    <2> QED
        BY <2>2, <2>4
<1>8. \A k \in DOMAIN p :
         Subject[pool[p[k]].cert] = Issuer[IF k = 1 THEN request.leaf ELSE pool[p[k - 1]].cert]
    <2>1. SUFFICES ASSUME NEW k \in 1 .. n
                   PROVE  Subject[pool[p[k]].cert]
                            = Issuer[IF k = 1 THEN request.leaf ELSE pool[p[k - 1]].cert]
        BY <1>5
    <2>2. Subject[s[k]] = Issuer[IF k = 1 THEN request.leaf ELSE s[k - 1]]
        BY <1>2, <1>3 DEF Connects
    <2>3. k # 1 => k - 1 \in 1 .. n
        BY <1>3
    <2> QED
        BY <1>5, <2>2, <2>3
<1>9. \A k \in DOMAIN p : k < Len(p) => pool[p[k]].ends # "anchor"
    <2>1. SUFFICES ASSUME NEW k \in 1 .. n, k < n PROVE pool[p[k]].ends # "anchor"
        BY <1>5, <1>6
    <2>2. k \in 1 .. Len(s) - 1
        BY <1>3, <2>1
    <2>3. s[k] \notin Anchors
        BY <1>2, <2>2 DEF Connects
    <2> QED
        BY <1>5, <2>3, EntryFacts
<1>10. pool[Last(p)].ends # "no"
    <2>1. s[n] \in Anchors \/ Terminates(s[n])
        BY <1>2, <1>3 DEF Connects
    <2>2. p[n] \in 1 .. Len(pool) /\ pool[p[n]].cert = s[n]
        BY <1>3, <1>5
    <2>3. PICK i \in 1 .. Len(pool) : i = p[n]
        BY <2>2
    <2> QED
        BY <1>6, <2>1, <2>2, <2>3, EntryFacts
<1>11. IsPath(p)
    BY <1>3, <1>6, <1>7, <1>8, <1>9, <1>10 DEF IsPath, IsClimb
<1>12. p \in PoolPaths
    BY <1>6, <1>11, PathsAreInThePool DEF KnownPool
<1>13. Certificates(p) = r
    <2>1. [k \in DOMAIN p |-> pool[p[k]].cert] = s
        BY <1>5
    <2> QED
        BY <1>2, <2>1 DEF Certificates
<1> QED
    BY <1>12, <1>13

-----------------------------------------------------------------------------
(* The judging keeps account of the chains it has looked at, and answers as  *)
(* all of those that were found deserve.                                     *)

Found == {Certificates(paths[i]) : i \in DOMAIN paths}
Seen  == {Certificates(paths[i]) : i \in 1 .. judged}

Accounted(chains) ==
    /\ \/ notGranted = NoOutcome /\ \A r \in chains : Fault(r) # "none"
       \/ /\ notGranted.code = "trust_list_service_not_granted"
          /\ \E r \in chains : Fault(r) = "none"
    /\ \/ firstFailure = NoOutcome /\ \A r \in chains : Fault(r) = "none"
       \/ \E r \in chains : Fault(r) # "none" /\ firstFailure.code = Fault(r)

\* The answer that chains deserve, all of them together.
RightFor(chains) ==
    LET sound == {r \in chains : Fault(r) = "none"} IN
    answer.code \in
        IF \E r \in sound : MayAnchor(Last(r)) THEN {"cert_path_ok"}
        ELSE IF sound # {} THEN {"trust_list_service_not_granted"}
        ELSE IF chains # {} THEN {Fault(r) : r \in chains}
        ELSE {"cert_path_untrusted"}

Ledger ==
    /\ Offering \/ pc = "search" => notGranted = NoOutcome /\ firstFailure = NoOutcome
    /\ pc = "judge" => Accounted(Seen)
    /\ pc = "done" /\ Trusts /\ ~Exhausted => RightFor(Found)

\* Of one more chain that is not accepted, what Judge writes down.
LEMMA OneMoreSeen ==
    ASSUME UNCHANGED request, NEW chains, NEW c, Accounted(chains),
           Fault(c) \in FaultCodes \union {"none"},
           IF Fault(c) = "none"
              THEN /\ notGranted' = Kept(notGranted,
                                         Outcome("trust_list_service_not_granted", c, c))
                   /\ UNCHANGED firstFailure
              ELSE /\ firstFailure' = Kept(firstFailure, Outcome(Fault(c), c, <<>>))
                   /\ UNCHANGED notGranted
    PROVE  /\ \/ notGranted' = NoOutcome /\ \A r \in chains \union {c} : Fault(r) # "none"
              \/ /\ notGranted'.code = "trust_list_service_not_granted"
                 /\ \E r \in chains \union {c} : Fault(r) = "none"
           /\ \/ firstFailure' = NoOutcome /\ \A r \in chains \union {c} : Fault(r) = "none"
              \/ \E r \in chains \union {c} : Fault(r) # "none" /\ firstFailure'.code = Fault(r)
<1>1. /\ Outcome("trust_list_service_not_granted", c, c).code = "trust_list_service_not_granted"
      /\ Outcome(Fault(c), c, <<>>).code = Fault(c)
    BY DEF Outcome
<1>2. CASE Fault(c) = "none"
    BY <1>1, <1>2 DEF Accounted, Kept
<1>3. CASE Fault(c) # "none"
    BY <1>1, <1>3 DEF Accounted, Kept
<1> QED
    BY <1>2, <1>3

LEMMA LedgerStep ==
    ASSUME IInv, Ledger, [Next]_vars
    PROVE  Ledger'
<1>0. TypeOK /\ Beginning /\ PoolIsTold /\ ClimbsOnly /\ Unacceptable
    BY DEF IInv
<1>1. CASE OfferCandidate \/ CandidatesOffered \/ OfferAnchor \/ AnchorsOffered \/ Expand \/ Return
    <2>1. /\ Offering \/ pc = "search"
          /\ pc' \in {"offer_candidates", "offer_anchors", "search"}
          /\ UNCHANGED <<notGranted, firstFailure>>
        BY <1>1 DEF OfferCandidate, CandidatesOffered, OfferAnchor, AnchorsOffered, Expand,
           Return, Offering, verdict
    <2>2. notGranted' = NoOutcome /\ firstFailure' = NoOutcome
        BY <2>1 DEF Ledger
    <2>3. NoOutcome' = NoOutcome
        BY DEF NoOutcome, Outcome
    <2>4. pc' # "judge" /\ pc' # "done"
        BY <2>1
    <2> QED
        BY <2>2, <2>3, <2>4 DEF Ledger
<1>2. CASE Finish
    <2>1. pc' = "judge" /\ judged' = 0 /\ notGranted' = NoOutcome /\ firstFailure' = NoOutcome
        BY <1>0, <1>2 DEF Finish, Beginning, Ledger, verdict
    <2>2. 1 .. judged' = {}
        BY <2>1
    <2>3. Seen' = {}
        BY <2>2 DEF Seen
    <2>4. NoOutcome' = NoOutcome
        BY DEF NoOutcome, Outcome
    <2>5. Accounted(Seen)'
        BY <2>1, <2>3, <2>4 DEF Accounted
    <2> QED
        BY <2>1, <2>5 DEF Ledger, Offering
<1>3. CASE Judge
    <2> DEFINE m == judged + 1
               certs == Certificates(paths[m])
    <2>1. m \in DOMAIN paths /\ judged \in Nat /\ 1 .. m = (1 .. judged) \union {m}
        BY <1>0, <1>3, PathsFacts, LenProperties DEF Judge, TypeOK
    <2>2. certs \in Seq(Certs)
        BY <1>0, <2>1, RecordedFacts, CertificatesFacts DEF Beginning
    <2>3. Fault(certs) \in FaultCodes \union {"none"}
        BY <2>2, FaultFacts
    <2>4. pc = "judge" /\ judged' = m /\ UNCHANGED <<request, pool, paths>>
        BY <1>3 DEF Judge, search
    <2>5. \A p : Certificates(p)' = Certificates(p)
        BY <2>4 DEF Certificates
    <2>6. /\ \A r : Fault(r)' = Fault(r)
          /\ \A c : MayAnchor(c)' = MayAnchor(c)
        BY <2>4, RulesFrame
    <2>7. Found' = Found /\ Seen' = Seen \union {certs} /\ certs \in Found
        BY <2>1, <2>4, <2>5 DEF Found, Seen
    <2> HIDE DEF certs
    <2>8. CASE Fault(certs) = "none" /\ MayAnchor(Last(certs))
        <3>1. pc' = "done" /\ answer'.code = "cert_path_ok"
            BY <1>3, <2>8 DEF Judge, Answer, Outcome, certs
        <3>2. RightFor(Found)'
            BY <2>6, <2>7, <2>8, <3>1 DEF RightFor
        <3> QED
            BY <3>1, <3>2 DEF Ledger, Offering
    <2>9. CASE ~(Fault(certs) = "none" /\ MayAnchor(Last(certs)))
        <3>1. /\ pc' = "judge"
              /\ IF Fault(certs) = "none"
                    THEN /\ notGranted' = Kept(notGranted,
                                        Outcome("trust_list_service_not_granted", certs, certs))
                         /\ UNCHANGED firstFailure
                    ELSE /\ firstFailure' = Kept(firstFailure, Outcome(Fault(certs), certs, <<>>))
                         /\ UNCHANGED notGranted
            BY <1>3, <2>4, <2>9 DEF Judge, certs
        <3>2. Accounted(Seen)
            BY <2>4 DEF Ledger
        <3> DEFINE all == Seen \union {certs}
        <3>3. /\ \/ notGranted' = NoOutcome /\ \A r \in all : Fault(r) # "none"
                 \/ /\ notGranted'.code = "trust_list_service_not_granted"
                    /\ \E r \in all : Fault(r) = "none"
              /\ \/ firstFailure' = NoOutcome /\ \A r \in all : Fault(r) = "none"
                 \/ \E r \in all : Fault(r) # "none" /\ firstFailure'.code = Fault(r)
            BY <2>3, <2>4, <3>1, <3>2, OneMoreSeen
        <3>4. NoOutcome' = NoOutcome /\ Seen' = all
            BY <2>7 DEF NoOutcome, Outcome
        <3> HIDE DEF all
        <3>5. Accounted(Seen)'
            BY <2>6, <3>3, <3>4 DEF Accounted
        <3> QED
            BY <3>1, <3>5 DEF Ledger, Offering
    <2> QED
        BY <2>8, <2>9
<1>4. ASSUME UNCHANGED <<request, pool, paths, judged, notGranted, firstFailure, expansions>>
      PROVE  /\ Found' = Found /\ Seen' = Seen /\ Exhausted' = Exhausted /\ Trusts' = Trusts
             /\ Accounted(Seen)' = Accounted(Seen)
             /\ UNCHANGED answer => RightFor(Found)' = RightFor(Found)
             /\ \A r : Fault(r)' = Fault(r)
             /\ \A c : MayAnchor(c)' = MayAnchor(c)
    <2>1. \A p : Certificates(p)' = Certificates(p)
        BY <1>4 DEF Certificates
    <2>2. Found' = Found /\ Seen' = Seen
        BY <1>4, <2>1 DEF Found, Seen
    <2>3. /\ \A r : Fault(r)' = Fault(r)
          /\ \A c : MayAnchor(c)' = MayAnchor(c)
        BY <1>4, RulesFrame
    <2>4. NoOutcome' = NoOutcome
        BY DEF NoOutcome, Outcome
    <2>5. Accounted(Seen)' = Accounted(Seen)
        BY <1>4, <2>2, <2>3, <2>4 DEF Accounted
    <2>6. UNCHANGED answer => RightFor(Found)' = RightFor(Found)
        BY <2>2, <2>3 DEF RightFor
    <2> QED
        BY <1>4, <2>2, <2>3, <2>5, <2>6 DEF Exhausted, Trusts, HasListed
<1>5. CASE NoTrust
    BY <1>4, <1>5 DEF NoTrust, Answer, Trusts, Ledger, search, Offering
<1>6. CASE NoPath
    <2>1. /\ pc' = "done" /\ paths = <<>> /\ DOMAIN paths = {}
          /\ UNCHANGED <<request, pool, paths, judged, notGranted, firstFailure, expansions>>
          /\ ~Exhausted => answer'.code = "cert_path_untrusted"
        BY <1>6 DEF NoPath, Answer, Outcome, search
    <2>2. Found' = {}
        BY <2>1 DEF Found
    <2>3. Exhausted' = Exhausted
        BY <2>1 DEF Exhausted
    <2>4. ~Exhausted => RightFor(Found)'
        BY <2>1, <2>2 DEF RightFor
    <2> QED
        BY <2>1, <2>3, <2>4 DEF Ledger, Offering
<1>7. CASE Conclude
    <2>1. /\ pc = "judge" /\ pc' = "done" /\ paths # <<>> /\ judged = Len(paths)
          /\ UNCHANGED <<request, pool, paths, judged, notGranted, firstFailure, expansions>>
          /\ answer' = IF notGranted # NoOutcome THEN notGranted ELSE firstFailure
        BY <1>7 DEF Conclude, Answer, search
    <2>2. DOMAIN paths = 1 .. judged /\ 1 \in DOMAIN paths
        BY <1>0, <2>1, PathsFacts, LenProperties, EmptySeq
    <2>3. Seen = Found /\ Found # {} /\ Accounted(Found)
        BY <2>1, <2>2 DEF Seen, Found, Ledger
    <2>4. ~ \E r \in Found : Fault(r) = "none" /\ MayAnchor(Last(r))
        BY <1>0, <2>1, <2>2 DEF Unacceptable, Acceptable, Found
    <2>5. /\ Found' = Found /\ \A r : Fault(r)' = Fault(r)
          /\ \A c : MayAnchor(c)' = MayAnchor(c)
        BY <1>4, <2>1
    <2>6. CASE notGranted # NoOutcome
        <3>1. answer'.code = "trust_list_service_not_granted" /\ \E r \in Found : Fault(r) = "none"
            BY <2>1, <2>3, <2>6 DEF Accounted
        <3> QED
            BY <2>1, <2>4, <2>5, <3>1 DEF RightFor, Ledger, Offering
    <2>7. CASE notGranted = NoOutcome
        <3>1. notGranted.code = "none"
            BY <2>7 DEF NoOutcome, Outcome
        <3>2. \A r \in Found : Fault(r) # "none"
            BY <2>3, <3>1 DEF Accounted
        <3>3. \E r \in Found : answer'.code = Fault(r)
            BY <2>1, <2>3, <2>7, <3>2 DEF Accounted
        <3>4. RightFor(Found)'
            BY <2>3, <2>5, <3>2, <3>3 DEF RightFor
        <3> QED
            BY <2>1, <3>4 DEF Ledger, Offering
    <2> QED
        BY <2>6, <2>7
<1>8. CASE UNCHANGED vars
    <2>1. UNCHANGED <<request, pc, pool, paths, judged, notGranted, firstFailure, expansions, answer>>
        BY <1>8 DEF vars, search, verdict
    <2>2. NoOutcome' = NoOutcome
        BY DEF NoOutcome, Outcome
    <2> QED
        BY <1>4, <2>1, <2>2 DEF Ledger, Offering
<1> QED
    BY <1>1, <1>2, <1>3, <1>5, <1>6, <1>7, <1>8 DEF Next, Done
-----------------------------------------------------------------------------
VerdictInv == IInv /\ WholePool /\ Ledger

LEMMA VerdictStart == Init => VerdictInv
<1> SUFFICES ASSUME Init PROVE VerdictInv
    OBVIOUS
<1>1. IInv
    BY InvStart
<1>2. Ledger
    BY DEF Init, Ledger, Offering
<1>3. request \in Requests /\ request.candidates \in Seq(Certs)
    BY RequestFacts DEF Init
<1>4. Front(request.candidates, 0) = {} /\ Len(request.candidates) >= 0
    BY <1>3, FrontEnds
<1>5. PoolKnows /\ PoolCerts = {}
    BY DEF Init, PoolKnows, PoolCerts
<1>6. WholePool
    BY <1>4, <1>5 DEF Init, WholePool, PoolHolds, Offering
<1> QED
    BY <1>1, <1>2, <1>6 DEF VerdictInv

LEMMA VerdictStep == VerdictInv /\ [Next]_vars => VerdictInv'
<1> SUFFICES ASSUME VerdictInv, [Next]_vars PROVE VerdictInv'
    OBVIOUS
<1>1. IInv'
    BY InvStep DEF VerdictInv
<1>2. WholePool'
    BY WholePoolStep DEF VerdictInv, IInv
<1>3. Ledger'
    BY LedgerStep DEF VerdictInv
<1> QED
    BY <1>1, <1>2, <1>3 DEF VerdictInv

\* The chains found are those the request admits.
LEMMA VerdictOfAllChains == VerdictInv => AnswerIsTheVerdict
<1> SUFFICES ASSUME VerdictInv, pc = "done", Trusts, Untruncated
             PROVE  RightFor(Routes)
    BY DEF AnswerIsTheVerdict, RightFor
<1>1. KnownPool /\ EntriesOf(paths) = PoolPaths /\ RightFor(Found)
    <2>1. Uncut /\ ~Exhausted /\ ~Full /\ ~Offering
        BY DEF Untruncated, Uncut, Offering
    <2> QED
        BY <2>1 DEF VerdictInv, IInv, WholePool, PoolHolds, KnownPool, SearchIsComplete, Ledger
<1>2. Found = {Certificates(p) : p \in PoolPaths}
    BY <1>1 DEF Found, EntriesOf
<1>3. Found = Routes
    BY <1>1, <1>2, PathIsARoute, RouteIsAPath
<1> QED
    BY <1>1, <1>3

\* Whatever order the certificates came in, the answer is that of every chain
\* the request admits: accepted if any is good, unknown if the sound ones all
\* end at a service not granted then, condemned with a fault one of them really
\* has only if every one has a fault (validate_path_at).
THEOREM VerdictOfAll == Spec => []AnswerIsTheVerdict
<1> QED
    BY VerdictStart, VerdictStep, VerdictOfAllChains, PTL DEF Spec

-----------------------------------------------------------------------------
(***************************************************************************)
(* The trust configuration: what holds between any two of its steps.       *)
(***************************************************************************)
Phases == {"start", "layout", "directory", "entries", "parse", "signer", "lotl", "lists",
           "gather", "verify", "done", "refused"}

FileRecords == [place : Folders, size : Nat, certs : Seq(Certs \union {Garbage})]

TrustTypeOK ==
    /\ command \in Commands /\ phase \in Phases
    /\ disk \in [Name -> Entry] /\ changed \subseteq Name /\ unlisted \subseteq Name
    /\ folder \in [Folders -> Enterable \union {"other", "none"}] /\ linked \subseteq Folders
    /\ directory \in Folders
    /\ todo \in Seq(Name) /\ held \in Name \union {Nobody}
    /\ held # Nobody => todo # <<>> /\ held = Head(todo)
    /\ phase \in {"start", "layout", "directory"} => held = Nobody /\ todo = <<>>
    /\ remaining \in Nat /\ files \in Seq(FileRecords)
    /\ \A a \in anchors : a.origin \in {"trust_store", "trust_list"} 
    /\ signers \in Seq(Certs)
    /\ loaded \in Seq([list : Lists, flag : {"lotl", "trust_list"}])

\* A file that stood in a place has been read.
Got(n) == \E f \in EntriesOf(files) : f.certs = disk[n].certs /\ f.place = Place[n]

\* An entry has been read, or will be: its directory or itself has still its turn.
Reached(n) ==
    \/ Got(n)
    \/ phase \in {"start", "layout"}
    \/ phase = "directory" /\ Place[n] = directory
    \/ phase \in {"directory", "entries"} /\ directory = "anchors" /\ Place[n] = "intermediates"
    \/ phase = "entries" /\ n \in EntriesOf(todo)

Early == {"start", "layout", "directory", "entries", "parse"}

\* Below what is no directory there is nothing; a link to one is known for one; and
\* whoever exchanges anchors/ touches every entry.
FolderInv ==
    /\ \A n \in Name : folder[Place[n]] \notin Enterable => disk[n].kind = "gone"
    /\ \A f \in Folders : folder[f] = "link" => f \in linked
    /\ folder["anchors"] # command.folders["anchors"] => Name \subseteq changed

StoreReadInv ==
    /\ \A n \in EntriesOf(todo) : Place[n] = directory
    /\ phase \in Early =>
        \A n \in Sought \ (changed \union unlisted) :
            disk[n].kind = "file" => Reached(n)

BudgetInv ==
    /\ IsFiniteSet(Octets)
    /\ Cardinality(Octets) + remaining = MaxStoreBytes
    /\ InFiles(disk, folder) \subseteq regular
    /\ \A f \in EntriesOf(files) :
        f.place \in linked \/ EntriesOf(f.certs) \ {Garbage} \subseteq regular

TakenInv ==
    /\ Taken \subseteq regular \union Followed
    /\ command.store /\ phase \in {"signer", "lotl", "lists", "gather", "verify", "done"} =>
        \A n \in Sought \ (changed \union unlisted) :
            disk[n].kind = "file" => EntriesOf(disk[n].certs) \subseteq Taken

EarlyInv ==
    /\ phase \in Early \union {"signer"} => signers = <<>> /\ loaded = <<>>
    /\ phase = "lotl" => loaded = <<>> /\ Len(signers) = IF command.signer THEN 1 ELSE 0

LoadedInv ==
    /\ services = UNION {ServicesOf(l) : l \in GivenAs("trust_list")}
    /\ \A a \in anchors : a.origin = "trust_list" => \E l \in GivenAs("trust_list") : a \in AnchorsOf(l)
    /\ Supported => /\ EntriesOf(signers) \subseteq Accountable
                    /\ \A l \in GivenAs("trust_list") : SignedBy(l, Accountable)

TrustInv == TrustTypeOK /\ FolderInv /\ StoreReadInv /\ BudgetInv /\ TakenInv /\ EarlyInv /\ LoadedInv

(***************************************************************************)
(* How many members of a set of numbers come no later than one of them.    *)
(***************************************************************************)
Rank(S, k) == Cardinality({j \in S : j <= k})

\* The place of a member in the order of a finite set of numbers is one of its
\* places, no two members have the same, and so every place is taken.
LEMMA RankFacts ==
    ASSUME NEW S \in SUBSET Nat, IsFiniteSet(S)
    PROVE  /\ Cardinality(S) \in Nat
           /\ \A k \in S : Rank(S, k) \in 1 .. Cardinality(S)
           /\ \A j, k \in S : j < k => Rank(S, j) < Rank(S, k)
<1>1. Cardinality(S) \in Nat
    BY FS_CardinalityType
<1> DEFINE upto(k) == {j \in S : j <= k}
<1>2. \A k \in S : /\ IsFiniteSet(upto(k)) /\ Cardinality(upto(k)) \in Nat
                   /\ Cardinality(upto(k)) <= Cardinality(S)
    BY FS_Subset, FS_CardinalityType
<1>3. ASSUME NEW k \in S PROVE Cardinality(upto(k)) # 0
    <2>1. k \in upto(k)
        OBVIOUS
    <2> HIDE DEF upto
    <2> QED
        BY <1>2, <2>1, FS_EmptySet
<1>4. ASSUME NEW j \in S, NEW k \in S, j < k
      PROVE  Cardinality(upto(j)) < Cardinality(upto(k))
    <2>1. \A i \in S : i \in Nat
        OBVIOUS
    <2>2. k \in upto(k) /\ k \notin upto(j)
        BY <1>4, <2>1
    <2>3. \A i \in upto(j) : i \in upto(k)
        BY <1>4, <2>1
    <2>4. upto(j) \in SUBSET upto(k)
        BY <2>3
    <2>5. IsFiniteSet(upto(k)) /\ Cardinality(upto(j)) \in Nat /\ Cardinality(upto(k)) \in Nat
        BY <1>2
    <2> HIDE DEF upto
    <2>6. Cardinality(upto(j)) <= Cardinality(upto(k))
          /\ Cardinality(upto(j)) # Cardinality(upto(k))
        BY <2>2, <2>4, <2>5, FS_Subset
    <2> QED
        BY <2>5, <2>6
<1>5. \A k \in S : Rank(S, k) = Cardinality(upto(k))
    BY DEF Rank
<1> HIDE DEF upto
<1> QED
    BY <1>1, <1>2, <1>3, <1>4, <1>5

LEMMA RankOnto ==
    ASSUME NEW S \in SUBSET Nat, IsFiniteSet(S), NEW n \in 1 .. Cardinality(S)
    PROVE  \E k \in S : Rank(S, k) = n
<1> DEFINE T == 1 .. Cardinality(S)
           f == [k \in S |-> Rank(S, k)]
<1>1. Cardinality(S) \in Nat /\ f \in [S -> T]
    BY RankFacts
<1>2. \A j, k \in S : f[j] = f[k] => j = k
    BY RankFacts
<1>3. IsFiniteSet(T) /\ Cardinality(T) = Cardinality(S)
    BY <1>1, FS_Interval
<1> HIDE DEF T, f
<1>4. f \in Injection(S, T)
    BY <1>1, <1>2 DEF Injection, IsInjective
<1>5. f \in Surjection(S, T)
    BY <1>3, <1>4, FS_Injection
<1>6. \E k \in S : f[k] = n
    BY <1>5 DEF Surjection, T
<1> QED
    BY <1>6 DEF f

\* In order a finite set of numbers is a sequence of its members, and of all.
LEMMA InOrderFacts ==
    ASSUME NEW S \in SUBSET Nat, IsFiniteSet(S)
    PROVE  /\ InOrder(S) \in Seq(S) /\ Len(InOrder(S)) = Cardinality(S)
           /\ EntriesOf(InOrder(S)) = S
<1> DEFINE N == 1 .. Cardinality(S)
           Of(n) == CHOOSE k \in S : Rank(S, k) = n
<1>1. \A n \in N : Of(n) \in S /\ Rank(S, Of(n)) = n
    BY RankOnto
<1>2. InOrder(S) = [n \in N |-> Of(n)]
    BY DEF InOrder, Rank
<1>3. ASSUME NEW k \in S PROVE \E n \in N : Of(n) = k
    <2>1. Rank(S, k) \in N
        BY RankFacts
    <2>2. Of(Rank(S, k)) \in S /\ Rank(S, Of(Rank(S, k))) = Rank(S, k)
        BY <1>1, <2>1
    <2> HIDE DEF Of
    <2>3. Of(Rank(S, k)) = k
        <3> DEFINE o == Of(Rank(S, k))
        <3>1. o \in Nat /\ k \in Nat /\ o \in S /\ Rank(S, o) = Rank(S, k)
            BY <2>2
        <3>2. \A j \in S : Rank(S, j) \in Nat
            BY RankFacts
        <3> HIDE DEF o
        <3>3. ~(o < k) /\ ~(k < o)
            BY <3>1, <3>2, RankFacts
        <3>4. o = k
            BY <3>1, <3>3
        <3> QED
            BY <3>4 DEF o
    <2> QED
        BY <2>1, <2>3
<1>4. Cardinality(S) \in Nat
    BY FS_CardinalityType
<1> HIDE DEF Of
<1>5. InOrder(S) \in Seq(S) /\ Len(InOrder(S)) = Cardinality(S)
    BY <1>1, <1>2, <1>4
<1>6. EntriesOf(InOrder(S)) = S
    <2>1. EntriesOf(InOrder(S)) = {Of(n) : n \in N}
        BY <1>2 DEF EntriesOf
    <2> QED
        BY <1>1, <1>3, <2>1
<1> QED
    BY <1>5, <1>6

\* At some of its places a sequence has its entries there.
LEMMA AtFacts ==
    ASSUME NEW s, IsSequence(s), NEW K \in SUBSET DOMAIN s
    PROVE  /\ At(s, K) \in Seq(EntriesOf(s))
           /\ EntriesOf(At(s, K)) = {s[k] : k \in K}
           /\ Len(At(s, K)) = Cardinality(K)
<1>1. DOMAIN s = 1 .. Len(s) /\ Len(s) \in Nat
    BY DEF IsSequence
<1>2. IsFiniteSet(1 .. Len(s))
    BY <1>1, FS_Interval
<1>3. K \in SUBSET Nat /\ IsFiniteSet(K)
    BY <1>1, <1>2, FS_Subset
<1>4. Cardinality(K) \in Nat /\ InOrder(K) \in Seq(K) /\ Len(InOrder(K)) = Cardinality(K)
      /\ EntriesOf(InOrder(K)) = K
    BY <1>3, InOrderFacts, FS_CardinalityType
<1>5. \A n \in 1 .. Cardinality(K) : InOrder(K)[n] \in K
    BY <1>4
<1>6. At(s, K) = [n \in 1 .. Cardinality(K) |-> s[InOrder(K)[n]]]
    BY DEF At
<1>7. At(s, K) \in Seq(EntriesOf(s)) /\ Len(At(s, K)) = Cardinality(K)
    BY <1>4, <1>5, <1>6 DEF EntriesOf
<1>8. EntriesOf(At(s, K)) = {s[InOrder(K)[n]] : n \in 1 .. Cardinality(K)}
    BY <1>6 DEF EntriesOf
<1>9. K = {InOrder(K)[n] : n \in 1 .. Cardinality(K)}
    BY <1>4 DEF EntriesOf
<1> QED
    BY <1>7, <1>8, <1>9

\* What a list points at is certificates it gives as pointers.
LEMMA PointersFacts ==
    ASSUME NEW list \in Lists
    PROVE  /\ Pointers(list) \in Seq(Certs)
           /\ EntriesOf(Pointers(list)) \subseteq EntriesOf(list.content.pointers) \intersect Certs
<1> DEFINE given == list.content.pointers
           first == {k \in DOMAIN given :
               given[k] \in Certs /\ \A j \in 1 .. k - 1 : given[j] # given[k]}
           taken == {k \in first : Cardinality({j \in first : j <= k}) <= MaxPointers}
<1>1. IsSequence(given)
    BY ListsAssumption
<1>2. taken \in SUBSET DOMAIN given /\ \A k \in taken : given[k] \in Certs
    OBVIOUS
<1>3. Pointers(list) = At(given, taken)
    BY DEF Pointers
<1> HIDE DEF given, taken
<1>4. /\ At(given, taken) \in Seq(EntriesOf(given))
      /\ EntriesOf(At(given, taken)) = {given[k] : k \in taken}
    BY <1>1, <1>2, AtFacts
<1>5. EntriesOf(At(given, taken)) \subseteq EntriesOf(given) \intersect Certs
    BY <1>2, <1>4 DEF EntriesOf
<1>6. At(given, taken) \in Seq(Certs)
    <2> DEFINE s == At(given, taken)
    <2>1. Len(s) \in Nat /\ s = [k \in 1 .. Len(s) |-> s[k]] /\ DOMAIN s = 1 .. Len(s)
        BY <1>4
    <2>2. \A k \in 1 .. Len(s) : s[k] \in Certs
        BY <1>5, <2>1 DEF EntriesOf
    <2> HIDE DEF s
    <2>3. s \in [1 .. Len(s) -> Certs]
        BY <2>1, <2>2
    <2>4. s \in Seq(Certs)
        BY <2>1, <2>3
    <2> QED
        BY <2>4 DEF s
<1> QED
    BY <1>3, <1>5, <1>6 DEF given

\* What a list states of a service.
Stated(list) == EntriesOf(list.content.services)

LEMMA StatedFacts ==
    ASSUME NEW list \in Lists, NEW sv \in Stated(list)
    PROVE  /\ IsSequence(sv) /\ DOMAIN sv \in SUBSET Nat
           /\ \A k \in DOMAIN sv : sv[k].since \in Int /\ \A id \in sv[k].ids : IdentityOK(id)
<1>1. /\ IsSequence(sv)
      /\ \A instance \in EntriesOf(sv) :
            instance.since \in Int /\ \A id \in instance.ids : IdentityOK(id)
    BY ListsAssumption DEF Stated
<1>2. DOMAIN sv = 1 .. Len(sv) /\ Len(sv) \in Nat
    BY <1>1 DEF IsSequence
<1> QED
    BY <1>1, <1>2 DEF EntriesOf

\* The timeline of a service is its lines of the kinds that are known, and its
\* identities are those of these lines.
LEMMA TimelineFacts ==
    ASSUME NEW sv, IsSequence(sv)
    PROVE  /\ EntriesOf(Timeline(sv)) = {sv[k] : k \in {m \in DOMAIN sv : sv[m].kind \in Kinds}}
           /\ DOMAIN Timeline(sv) \in SUBSET Nat
<1> DEFINE K == {k \in DOMAIN sv : sv[k].kind \in Kinds}
<1>1. Timeline(sv) = At(sv, K)
    BY DEF Timeline
<1>2. K \in SUBSET DOMAIN sv
    OBVIOUS
<1> HIDE DEF K
<1>3. At(sv, K) \in Seq(EntriesOf(sv)) /\ EntriesOf(At(sv, K)) = {sv[k] : k \in K}
    BY <1>2, AtFacts
<1>4. DOMAIN At(sv, K) \in SUBSET Nat
    BY <1>3
<1> QED
    BY <1>1, <1>3, <1>4 DEF K

LEMMA IdentitiesFacts ==
    ASSUME NEW sv, IsSequence(sv)
    PROVE  \A id : id \in Identities(sv) <=>
               /\ id.of # Garbage
               /\ \E k \in DOMAIN sv : sv[k].kind \in Kinds /\ id \in sv[k].ids
<1>1. EntriesOf(Timeline(sv)) = {sv[k] : k \in {m \in DOMAIN sv : sv[m].kind \in Kinds}}
    BY TimelineFacts
<1> QED
    BY <1>1 DEF Identities

\* A list that nothing found stands against was signed as it stands, by somebody
\* with a key of the pool.
LEMMA SignatureFacts ==
    ASSUME NEW list \in Lists, NEW own \in Seq(Certs),
           \A c \in ListSignatureChecks(list, own) : c.status \in {"passed", "info"}
    PROVE  own # <<>> /\ SignedBy(list, EntriesOf(own))
<1>1. own # <<>>
    <2>1. CASE own = <<>>
        <3>1. Check("trust_list_unverified", "unknown") \in ListSignatureChecks(list, own)
            BY <2>1 DEF ListSignatureChecks
        <3> QED
            BY <3>1 DEF Check
    <2> QED
        BY <2>1
<1>2. SignatureHolds(list, own)
    <2>1. CASE ~SignatureHolds(list, own)
        <3>1. Check("trust_list_signature_invalid", "failed") \in ListSignatureChecks(list, own)
            BY <1>1, <2>1 DEF ListSignatureChecks
        <3> QED
            BY <3>1 DEF Check
    <2> QED
        BY <2>1
<1> DEFINE sig == list.signatures[1]
<1>3. sig \in EntriesOf(list.signatures)
    <2>1. IsSequence(list.signatures) /\ Len(list.signatures) = 1
        BY <1>2, ListsAssumption DEF SignatureHolds
    <2>2. DOMAIN list.signatures = 1 .. 1
        BY <2>1 DEF IsSequence
    <2> QED
        BY <2>2 DEF EntriesOf
<1>4. Covered(list, sig) /\ Signatories(sig, own) # {}
    BY <1>2 DEF SignatureHolds
<1> HIDE DEF sig
<1>5. sig.intact /\ \E c \in EntriesOf(own) : Key[c] = sig.by
    BY <1>4 DEF Signatories, EntriesOf
<1>6. \E ref \in EntriesOf(sig.references) : Whole(ref) /\ ref.recorded = list.content
    <2>1. PICK ref \in EntriesOf(sig.references) : Whole(ref)
        BY <1>4 DEF Covered
    <2>2. ReferenceHolds(list, sig, ref)
        BY <1>4, <2>1 DEF Covered
    <2>3. Digested(list, sig, ref) = list.content
        BY <2>1 DEF Digested, Whole
    <2> QED
        BY <2>1, <2>2, <2>3 DEF ReferenceHolds
<1> QED
    BY <1>1, <1>3, <1>5, <1>6 DEF SignedBy

\* What a list contributes is some of what it states, and nothing only if it
\* states nothing.
LEMMA ContributedFacts ==
    ASSUME NEW list \in Lists
    PROVE  /\ \A s \in ServicesOf(list) : \E sv \in Stated(list) :
                s.id \in Identities(sv) /\ s.timeline = Timeline(sv)
           /\ \A a \in AnchorsOf(list) : \E sv \in Stated(list) :
                /\ a.origin = "trust_list"
                /\ \E id \in Identities(sv) : id.form = "certificate" /\ id.of = a.cert
<1>1. ReadServices(list) \subseteq Stated(list)
    BY DEF ReadServices, Stated, EntriesOf
<1>2. ASSUME NEW s \in ServicesOf(list)
      PROVE  \E sv \in Stated(list) : s.id \in Identities(sv) /\ s.timeline = Timeline(sv)
    BY <1>1 DEF ServicesOf
<1>3. ASSUME NEW a \in AnchorsOf(list)
      PROVE  \E sv \in Stated(list) :
                /\ a.origin = "trust_list"
                /\ \E id \in Identities(sv) : id.form = "certificate" /\ id.of = a.cert
    BY <1>1 DEF AnchorsOf, CertificateIds
<1> QED
    BY <1>2, <1>3

LEMMA NothingStated ==
    ASSUME NEW list \in Lists, ServicesOf(list) = {}
    PROVE  \A sv \in Stated(list) : Identities(sv) = {}
<1> DEFINE all == list.content.services
           bad == {m \in DOMAIN all : Identities(all[m]) # {}}
<1>1. SUFFICES ASSUME bad # {} PROVE FALSE
    BY <1>1 DEF Stated, EntriesOf
<1>2. IsSequence(all)
    BY ListsAssumption
<1>3. DOMAIN all = 1 .. Len(all) /\ Len(all) \in Nat
    BY <1>2 DEF IsSequence
<1>4. bad \in SUBSET Nat
    BY <1>3
<1>5. PICK k \in bad : \A j \in bad : k <= j
    BY <1>1, <1>4, Least
<1>6. k \in DOMAIN all /\ Identities(all[k]) # {} /\ k \in Nat
    BY <1>4
<1>7. ASSUME NEW j \in 1 .. k - 1 PROVE Identities(all[j]) = {} /\ CertificateIds(all[j]) = {}
    <2>1. j \in DOMAIN all /\ ~(k <= j)
        BY <1>3, <1>6
    <2>2. Identities(all[j]) = {}
        BY <1>5, <2>1
    <2> QED
        BY <2>2 DEF CertificateIds
<1>8. /\ UNION {{j} \X CertificateIds(all[j]) : j \in 1 .. k - 1} = {}
      /\ UNION {{j} \X Identities(all[j]) : j \in 1 .. k - 1} = {}
    BY <1>7
<1>9. Cardinality({}) < MaxAnchors
    BY FS_EmptySet, LimitsAssumption
<1>10. all[k] \in ReadServices(list)
    BY <1>6, <1>8, <1>9 DEF ReadServices
<1>11. PICK id : id \in Identities(all[k])
    BY <1>6
<1>12. [id |-> id, timeline |-> Timeline(all[k])] \in ServicesOf(list)
    BY <1>10, <1>11 DEF ServicesOf
<1> QED
    BY <1>12

\* The line in force is the newest of those dated by then.
LEMMA NewestGrants ==
    ASSUME NEW list \in Lists, NEW sv \in Stated(list), NEW kind, NEW time,
           GrantedAt(Timeline(sv), kind, time)
    PROVE  \E m \in Dated(sv, time) :
                /\ \A j \in Dated(sv, time) : sv[j].since <= sv[m].since
                /\ sv[m].kind = kind
                /\ \/ sv[m].status = "granted"
                   \/ sv[m].status = "accredited" /\ time < EidasDate
<1> DEFINE t == Timeline(sv)
<1>1. IsSequence(sv) /\ \A k \in DOMAIN sv : sv[k].since \in Int
    BY StatedFacts
<1>2. EntriesOf(t) = {sv[k] : k \in {m \in DOMAIN sv : sv[m].kind \in Kinds}}
    BY <1>1, TimelineFacts
<1>3. PICK k \in InForce(t, time) :
        /\ t[k].kind = kind
        /\ t[k].status = "granted" \/ (t[k].status = "accredited" /\ time < EidasDate)
    BY DEF GrantedAt
<1> HIDE DEF t
<1>4. /\ k \in DOMAIN t /\ t[k].since <= time
      /\ \A j \in DOMAIN t : t[j].since <= time
            => \/ t[j].since < t[k].since
               \/ t[j].since = t[k].since /\ j <= k
    BY DEF InForce
<1>5. PICK m \in DOMAIN sv : sv[m].kind \in Kinds /\ sv[m] = t[k]
    <2>1. t[k] \in EntriesOf(t)
        BY <1>4 DEF EntriesOf
    <2> QED
        BY <1>2, <2>1
<1>6. ASSUME NEW j \in Dated(sv, time) PROVE sv[j].since <= sv[m].since
    <2>1. j \in DOMAIN sv /\ sv[j].kind \in Kinds /\ sv[j].since <= time
        BY DEF Dated
    <2>2. PICK i \in DOMAIN t : t[i] = sv[j]
        BY <1>2, <2>1 DEF EntriesOf
    <2>3. t[i].since < t[k].since \/ t[i].since = t[k].since
        BY <1>4, <2>1, <2>2
    <2>4. sv[j].since \in Int /\ sv[m].since \in Int
        BY <1>1, <2>1
    <2> QED
        BY <1>5, <2>2, <2>3, <2>4
<1>7. m \in Dated(sv, time)
    BY <1>4, <1>5 DEF Dated
<1> QED
    BY <1>3, <1>5, <1>6, <1>7

LEMMA GrantIsTheNewest ==
    ASSUME NEW list \in Lists, NEW sv \in Stated(list), NEW time, Grants(Timeline(sv), time)
    PROVE  IssuesQualified(sv, time)
<1> QED
    BY NewestGrants DEF Grants, IssuesQualified

\* An identity covers a path by a certificate of it that the service is, issued
\* or names.
LEMMA CoveringNames ==
    ASSUME NEW list \in Lists, NEW sv \in Stated(list), NEW path,
           NEW id \in Identities(sv), IdentityCovers(id, path)
    PROVE  \E c \in EntriesOf(path) : Names(sv, c)
<1>1. PICK k \in DOMAIN sv : id \in sv[k].ids
    BY StatedFacts, IdentitiesFacts
<1>2. IdentityOK(id) /\ id.of # Garbage
    BY <1>1, StatedFacts, IdentitiesFacts
<1>3. PICK c \in EntriesOf(path) :
        CASE id.form = "certificate" ->
                \/ c = id.of
                \/ Issuer[c] = Subject[id.of] /\ Issued(id.of, c)
          [] id.form = "ski" -> Ski[c] = id.of
          [] id.form = "name" -> Subject[c] = id.of
    BY DEF IdentityCovers
<1>4. CASE id.form = "certificate"
    <2>1. id.of \in Certs
        BY <1>2, <1>4 DEF IdentityOK
    <2>2. c = id.of \/ SignedWith[c] = Key[id.of]
        BY <1>3, <1>4 DEF Issued
    <2> QED
        BY <1>1, <1>4, <2>1, <2>2 DEF Names
<1>5. CASE id.form = "ski"
    BY <1>1, <1>3, <1>5 DEF Names
<1>6. CASE id.form = "name"
    BY <1>1, <1>3, <1>6 DEF Names
<1> QED
    BY <1>2, <1>4, <1>5, <1>6 DEF IdentityOK

\* What an entry is, and what the sequences of the run are made of.
LEMMA StoreEntryFacts ==
    ASSUME NEW entry \in Entry
    PROVE  /\ entry.kind \in {"file", "other", "link", "gone"}
           /\ entry.size \in Nat /\ entry.certs \in Seq(Certs \union {Garbage})
<1> QED
    BY EntriesAssumption

LEMMA TypeInit == TrustInit => TrustTypeOK
<1> SUFFICES ASSUME TrustInit PROVE TrustTypeOK
    OBVIOUS
<1>1. command \in Commands /\ disk = command.disk /\ folder = command.folders
    BY DEF TrustInit
<1>2. /\ disk \in [Name -> Entry]
      /\ folder \in [Folders -> Enterable \union {"other", "none"}]
    BY <1>1, CommandsAssumption
<1>3. MaxStoreBytes \in Nat
    BY LimitsAssumption
<1> QED
    BY <1>1, <1>2, <1>3 DEF TrustInit, TrustTypeOK, Phases, Folders, Nobody

LEMMA TypeRefuse == TrustTypeOK /\ Refuse => TrustTypeOK'
<1> QED
    BY DEF TrustTypeOK, Refuse, reading, material, Phases

Relinked ==
    \E place \in Folders \ {"top"}, kind \in Enterable \union {"other", "none"}, tree \in Trees :
        Relink(place, kind, tree)

\* The reading of the store keeps to its types.
LEMMA TypeOfReading ==
    ASSUME TrustTypeOK,
           \/ StartStore
           \/ \E n \in Name, entry \in Entry : Change(n, entry)
           \/ Relinked
           \/ ChooseLayout \/ ListDirectory \/ Inspect \/ ReadEntry \/ NextDirectory \/ ParseStore
    PROVE  TrustTypeOK'
<1> USE TypeRefuse
<1>1. CASE StartStore
    <2>1. Refuse \/ (phase' \in {"layout", "signer", "gather"} /\ phase = "start"
                     /\ UNCHANGED <<command, reading, material>>)
        BY <1>1 DEF StartStore
    <2> QED
        BY <2>1 DEF TrustTypeOK, reading, material, Phases
<1>2. ASSUME NEW n \in Name, NEW entry \in Entry, Change(n, entry) PROVE TrustTypeOK'
    <2>1. /\ disk' = [disk EXCEPT ![n] = entry] /\ changed' = changed \union {n}
          /\ UNCHANGED <<command, phase, folder, linked, unlisted, directory, todo, held, remaining,
                         files, material>>
        BY <1>2 DEF Change
    <2> QED
        BY <2>1 DEF TrustTypeOK, material
<1>3. CASE ListDirectory
    <2> DEFINE there == {n \in Name : Place[n] = directory /\ disk[n].kind # "gone"}
    <2>1. CASE ~Refuse
        <3>1. PICK given \in SUBSET there :
                /\ phase' = "entries" /\ todo' = InOrder(given)
                /\ unlisted' = unlisted \union (there \ given)
                /\ UNCHANGED <<command, disk, folder, linked, changed, regular, directory, held,
                               remaining, files, material, used>>
            BY <1>3, <2>1 DEF ListDirectory
        <3>2. given \in SUBSET Nat /\ IsFiniteSet(given) /\ given \in SUBSET Name
            BY NameAssumption, FS_Subset
        <3>3. todo' \in Seq(given)
            BY <3>1, <3>2, InOrderFacts
        <3>4. todo' \in Seq(Name)
            BY <3>2, <3>3
        <3>5. unlisted' \subseteq Name
            BY <3>1 DEF TrustTypeOK
        <3>6. held = Nobody
            BY <1>3 DEF ListDirectory, TrustTypeOK
        <3> QED
            BY <3>1, <3>4, <3>5, <3>6 DEF TrustTypeOK, material, Phases
    <2> QED
        BY <2>1
<1>4. CASE Inspect
    <2>1. todo # <<>> /\ todo \in Seq(Name) /\ held = Nobody /\ phase = "entries"
        BY <1>4 DEF Inspect, TrustTypeOK
    <2>2. Head(todo) \in Name /\ Tail(todo) \in Seq(Name)
        BY <2>1
    <2>3. \/ Refuse
          \/ /\ held' = Head(todo)
             /\ UNCHANGED <<command, phase, disk, folder, linked, changed, unlisted, directory, todo, remaining,
                            files, material>>
          \/ /\ todo' = Tail(todo)
             /\ UNCHANGED <<command, phase, disk, folder, linked, changed, unlisted, directory, held, remaining,
                            files, material>>
        BY <1>4, Zenon DEF Inspect
    <2> QED
        BY <2>1, <2>2, <2>3 DEF TrustTypeOK, material
<1>5. CASE ReadEntry
    <2>1. held \in Name /\ disk[held] \in Entry
        BY <1>5 DEF ReadEntry, TrustTypeOK
    <2>2. disk[held].size \in Nat /\ disk[held].certs \in Seq(Certs \union {Garbage})
        BY <2>1, StoreEntryFacts
    <2> DEFINE file == [place |-> directory, size |-> disk[held].size, certs |-> disk[held].certs]
    <2>3. \/ Refuse
          \/ /\ todo' = Tail(todo) /\ held' = Nobody
             /\ UNCHANGED <<command, phase, disk, folder, linked, changed, unlisted, directory, remaining, files,
                            material>>
          \/ /\ ~(disk[held].size > remaining)
             /\ todo' = Tail(todo) /\ held' = Nobody
             /\ remaining' = remaining - disk[held].size
             /\ files' = Append(files, file)
             /\ UNCHANGED <<command, phase, disk, folder, linked, changed, unlisted, directory, material>>
        BY <1>5, Zenon DEF ReadEntry
    <2>4. Tail(todo) \in Seq(Name) /\ phase = "entries"
        <3>1. phase = "entries" /\ held # Nobody
            BY <1>5 DEF ReadEntry
        <3>2. todo \in Seq(Name) /\ todo # <<>>
            BY <3>1 DEF TrustTypeOK
        <3> QED
            BY <3>1, <3>2
    <2>5. file \in FileRecords
        BY <2>2 DEF FileRecords, TrustTypeOK
    <2> HIDE DEF file
    <2>6. CASE /\ todo' = Tail(todo) /\ held' = Nobody
               /\ UNCHANGED <<command, phase, disk, folder, linked, changed, unlisted, directory, remaining,
                              files, material>>
        BY <2>4, <2>6 DEF TrustTypeOK, material
    <2>7. CASE /\ ~(disk[held].size > remaining)
               /\ todo' = Tail(todo) /\ held' = Nobody
               /\ remaining' = remaining - disk[held].size
               /\ files' = Append(files, file)
               /\ UNCHANGED <<command, phase, disk, folder, linked, changed, unlisted, directory, material>>
        <3>1. remaining' \in Nat
            BY <2>2, <2>7 DEF TrustTypeOK
        <3>2. files' \in Seq(FileRecords)
            BY <2>5, <2>7 DEF TrustTypeOK
        <3> QED
            BY <2>4, <2>7, <3>1, <3>2 DEF TrustTypeOK, material
    <2> QED
        BY <2>3, <2>6, <2>7
<1>6. CASE NextDirectory
    <2>1. /\ phase = "entries" /\ todo = <<>> /\ held = Nobody
          /\ phase' \in {"directory", "parse"} /\ directory' \in {directory, "intermediates"}
          /\ unlisted' \subseteq unlisted \union Name
          /\ UNCHANGED <<command, disk, folder, linked, changed, todo, held, remaining, files, material>>
        BY <1>6 DEF NextDirectory
    <2> QED
        BY <2>1 DEF TrustTypeOK, material, Phases, Folders
<1>7. CASE ParseStore
    <2>1. \/ Refuse
          \/ /\ phase' = "signer" /\ UNCHANGED <<command, reading, services, checks, signers, loaded>>
             /\ anchors' = {[cert |-> c, origin |-> "trust_store"] :
                            c \in From({"anchors", "top"})}
        BY <1>7, Zenon DEF ParseStore
    <2> QED
        BY <2>1 DEF TrustTypeOK, reading, Phases
<1>8. CASE Relinked
    <2>1. PICK place \in Folders \ {"top"}, kind \in Enterable \union {"other", "none"}, tree \in Trees :
            Relink(place, kind, tree)
        BY <1>8 DEF Relinked
    <2>2. tree \in [Name -> Entry]
        BY CommandsAssumption
    <2>3. /\ folder' = [folder EXCEPT ![place] = kind] /\ linked' \subseteq linked \union {place}
          /\ disk' = [n \in Name |-> IF Place[n] = place THEN tree[n] ELSE disk[n]]
          /\ changed' = changed \union {n \in Name : place = "anchors" \/ Place[n] = place}
          /\ UNCHANGED <<command, phase, unlisted, directory, todo, held, remaining, files, material>>
        BY <2>1 DEF Relink
    <2>4. disk' \in [Name -> Entry] /\ folder' \in [Folders -> Enterable \union {"other", "none"}]
        BY <2>2, <2>3 DEF TrustTypeOK
    <2>5. changed' \subseteq Name /\ linked' \subseteq Folders
        BY <2>3 DEF TrustTypeOK
    <2> QED
        BY <2>3, <2>4, <2>5 DEF TrustTypeOK, material
<1>9. CASE ChooseLayout
    <2>1. /\ phase = "layout" /\ phase' = "directory" /\ directory' \in Folders
          /\ unlisted' \subseteq unlisted \union Name
          /\ UNCHANGED <<command, disk, folder, linked, changed, todo, held, remaining, files, material>>
        BY <1>9 DEF ChooseLayout, Folders
    <2> QED
        BY <2>1 DEF TrustTypeOK, material, Phases
<1> QED
    BY <1>1, <1>2, <1>3, <1>4, <1>5, <1>6, <1>7, <1>8, <1>9

\* A sequence all of whose entries are of a set is a sequence over it.
LEMMA Retyped ==
    ASSUME NEW S, NEW T, NEW s \in Seq(S), \A k \in 1 .. Len(s) : s[k] \in T
    PROVE  s \in Seq(T)
<1>1. Len(s) \in Nat /\ s \in [1 .. Len(s) -> T]
    OBVIOUS
<1> QED
    BY <1>1

\* The configuration keeps to its types.
LEMMA TypeOfMaterial ==
    ASSUME TrustTypeOK,
           LoadSigner \/ LoadLotl \/ LoadList \/ ListsLoaded \/ Gather \/ Verify
    PROVE  TrustTypeOK'
<1> USE TypeRefuse
<1>1. CASE LoadSigner
    <2>1. \/ Refuse
          \/ phase' = "lotl" /\ UNCHANGED <<command, reading, anchors, loaded, signers>>
          \/ \E file \in SignerFiles :
                /\ ~(Len(file) # 1 \/ file[1] = Garbage)
                /\ signers' = file /\ phase' = "lotl"
                /\ UNCHANGED <<command, reading, anchors, loaded>>
        BY <1>1, Zenon DEF LoadSigner, material
    <2>2. ASSUME NEW file \in SignerFiles, ~(Len(file) # 1 \/ file[1] = Garbage)
          PROVE  file \in Seq(Certs)
        <3>1. file \in Seq(Certs \union {Garbage}) /\ Len(file) = 1
            BY <2>2, SignerFilesAssumption
        <3>2. DOMAIN file = 1 .. 1 /\ file[1] \in Certs
            BY <2>2, <3>1
        <3>3. \A k \in 1 .. Len(file) : file[k] \in Certs
            BY <3>1, <3>2
        <3> QED
            BY <3>1, <3>3, Retyped
    <2> QED
        BY <2>1, <2>2 DEF TrustTypeOK, reading, Phases
<1>2. CASE LoadLotl
    <2>1. \/ Refuse
          \/ phase' = "lists" /\ UNCHANGED <<command, reading, anchors, signers, loaded>>
          \/ \E list \in Lists :
                /\ phase' = "lists" /\ signers' = signers \o Pointers(list)
                /\ loaded' = Append(loaded, [list |-> list, flag |-> "lotl"])
                /\ UNCHANGED <<command, reading, anchors>>
        BY <1>2, Zenon DEF LoadLotl, material
    <2>2. ASSUME NEW list \in Lists
          PROVE  /\ signers \o Pointers(list) \in Seq(Certs)
                 /\ Append(loaded, [list |-> list, flag |-> "lotl"])
                        \in Seq([list : Lists, flag : {"lotl", "trust_list"}])
        <3>1. Pointers(list) \in Seq(Certs)
            BY PointersFacts
        <3> QED
            BY <3>1 DEF TrustTypeOK
    <2> QED
        BY <2>1, <2>2 DEF TrustTypeOK, reading, Phases
<1>3. CASE LoadList
    <2>1. \/ Refuse
          \/ \E list \in Lists :
                /\ anchors' = anchors \union AnchorsOf(list)
                /\ loaded' = Append(loaded, [list |-> list, flag |-> "trust_list"])
                /\ UNCHANGED <<command, phase, reading, signers>>
        BY <1>3, Zenon DEF LoadList
    <2>2. ASSUME NEW list \in Lists
          PROVE  /\ Append(loaded, [list |-> list, flag |-> "trust_list"])
                        \in Seq([list : Lists, flag : {"lotl", "trust_list"}])
                 /\ \A a \in AnchorsOf(list) : a.origin = "trust_list"
        BY ContributedFacts DEF TrustTypeOK
    <2> QED
        BY <2>1, <2>2 DEF TrustTypeOK, reading, Phases
<1>4. CASE ListsLoaded \/ Gather \/ Verify
    <2>1. /\ phase' \in {"gather", "verify", "done"}
          /\ UNCHANGED <<command, reading, anchors, signers, loaded>>
        BY <1>4, Zenon DEF ListsLoaded, Gather, Verify, material
    <2> QED
        BY <2>1 DEF TrustTypeOK, reading, Phases
<1> QED
    BY <1>1, <1>2, <1>3, <1>4

LEMMA TrustTypeStep ==
    ASSUME TrustTypeOK, [TrustNext]_trustVars
    PROVE  TrustTypeOK'
<1>1. CASE TrustNext
    BY <1>1, TypeOfReading, TypeOfMaterial DEF TrustNext, Relinked
<1>2. CASE UNCHANGED trustVars
    BY <1>2 DEF trustVars, TrustTypeOK, reading, material
<1> QED
    BY <1>1, <1>2

(***************************************************************************)
(* The directories of the store.                                           *)
(***************************************************************************)
LEMMA FolderInit == TrustInit => FolderInv
<1> SUFFICES ASSUME TrustInit PROVE FolderInv
    OBVIOUS
<1>1. /\ command \in Commands /\ disk = command.disk /\ folder = command.folders
      /\ linked = {f \in Folders : folder[f] = "link"}
    BY DEF TrustInit
<1> QED
    BY <1>1, CommandsAssumption DEF FolderInv

LEMMA FolderStep ==
    ASSUME TrustTypeOK, FolderInv, [TrustNext]_trustVars
    PROVE  FolderInv'
<1>1. ASSUME UNCHANGED <<command, disk, folder, linked, changed>> PROVE FolderInv'
    BY <1>1 DEF FolderInv
<1>2. ASSUME NEW n \in Name, NEW entry \in Entry, Change(n, entry) PROVE FolderInv'
    <2>1. /\ folder[Place[n]] \in Enterable /\ disk' = [disk EXCEPT ![n] = entry]
          /\ changed' = changed \union {n} /\ UNCHANGED <<command, folder, linked>>
        BY <1>2 DEF Change
    <2>2. \A m \in Name \ {n} : disk'[m] = disk[m]
        BY <2>1 DEF TrustTypeOK
    <2> QED
        BY <2>1, <2>2 DEF FolderInv
<1>3. CASE Relinked
    <2>1. PICK place \in Folders \ {"top"}, kind \in Enterable \union {"other", "none"}, tree \in Trees :
            Relink(place, kind, tree)
        BY <1>3 DEF Relinked
    <2>2. /\ kind \notin Enterable => \A n \in Name : Place[n] = place => tree[n].kind = "gone"
          /\ folder' = [folder EXCEPT ![place] = kind]
          /\ linked' = (IF kind = "link" THEN linked \union {place} ELSE linked)
          /\ disk' = [n \in Name |-> IF Place[n] = place THEN tree[n] ELSE disk[n]]
          /\ changed' = changed \union {n \in Name : place = "anchors" \/ Place[n] = place}
          /\ command' = command
        BY <2>1 DEF Relink
    <2>3. folder'[place] = kind /\ \A f \in Folders \ {place} : folder'[f] = folder[f]
        BY <2>2 DEF TrustTypeOK
    <2>4. ASSUME NEW n \in Name, folder'[Place[n]] \notin Enterable PROVE disk'[n].kind = "gone"
        <3>1. Place[n] \in Folders
            BY NameAssumption DEF Folders
        <3>2. CASE Place[n] = place
            BY <2>2, <2>3, <2>4, <3>2
        <3>3. CASE Place[n] # place
            BY <2>2, <2>3, <2>4, <3>1, <3>3 DEF FolderInv
        <3> QED
            BY <3>2, <3>3
    <2>5. \A f \in Folders : folder'[f] = "link" => f \in linked'
        BY <2>2, <2>3 DEF FolderInv
    <2>6. folder'["anchors"] # command'.folders["anchors"] => Name \subseteq changed'
        <3>1. CASE place = "anchors"
            BY <2>2, <3>1
        <3>2. CASE place # "anchors"
            BY <2>2, <2>3, <3>2 DEF FolderInv, Folders
        <3> QED
            BY <3>1, <3>2
    <2> QED
        BY <2>4, <2>5, <2>6 DEF FolderInv
<1>4. CASE StartStore \/ ChooseLayout \/ ListDirectory \/ Inspect \/ ReadEntry \/ NextDirectory
    <2>1. UNCHANGED <<command, disk, folder, linked, changed>>
        BY <1>4, Zenon DEF StartStore, ChooseLayout, ListDirectory, Inspect, ReadEntry, NextDirectory,
           Refuse, reading
    <2> QED
        BY <1>1, <2>1
<1>5. CASE ParseStore \/ LoadSigner \/ LoadLotl \/ LoadList \/ ListsLoaded \/ Gather \/ Verify
    <2>1. UNCHANGED <<command, reading>>
        BY <1>5, Zenon DEF ParseStore, LoadSigner, LoadLotl, LoadList, ListsLoaded, Gather, Verify, Refuse
    <2> QED
        BY <1>1, <2>1 DEF reading
<1>6. CASE UNCHANGED trustVars
    BY <1>1, <1>6 DEF trustVars, reading
<1> QED
    BY <1>2, <1>3, <1>4, <1>5, <1>6 DEF TrustNext, Relinked

(***************************************************************************)
(* The budget of the store.                                                *)
(***************************************************************************)
OctetsOf(s) == UNION {{k} \X (1 .. s[k].size) : k \in DOMAIN s}

\* One file more is so many octets more.
LEMMA OctetsOfOne ==
    ASSUME NEW n, NEW m \in Nat
    PROVE  IsFiniteSet({n} \X (1 .. m)) /\ Cardinality({n} \X (1 .. m)) = m
<1>1. IsFiniteSet({n}) /\ Cardinality({n}) = 1
    BY FS_Singleton
<1>2. IsFiniteSet(1 .. m) /\ Cardinality(1 .. m) = m
    BY FS_Interval
<1>3. IsFiniteSet({n} \X (1 .. m)) /\ Cardinality({n} \X (1 .. m)) = Cardinality({n}) * Cardinality(1 .. m)
    BY <1>1, <1>2, FS_Product, Zenon
<1> QED
    BY <1>1, <1>2, <1>3

LEMMA DisjointUnion ==
    ASSUME NEW S, NEW T, IsFiniteSet(S), IsFiniteSet(T), S \intersect T = {}
    PROVE  /\ IsFiniteSet(S \union T)
           /\ Cardinality(S \union T) = Cardinality(S) + Cardinality(T)
<1> DEFINE both == S \intersect T
<1>1. Cardinality(S) \in Nat /\ Cardinality(T) \in Nat
    BY FS_CardinalityType
<1>3. Cardinality(both) = 0
    <2>1. both = {} /\ IsFiniteSet({})
        BY FS_EmptySet
    <2> HIDE DEF both
    <2> QED
        BY <2>1, FS_EmptySet
<1>2. /\ IsFiniteSet(S \union T)
      /\ Cardinality(S \union T) = Cardinality(S) + Cardinality(T) - Cardinality(both)
    BY FS_Union, Zenon
<1> HIDE DEF both
<1> QED
    BY <1>1, <1>2, <1>3

LEMMA OctetsOfAppend ==
    ASSUME NEW s \in Seq(FileRecords), NEW f \in FileRecords, IsFiniteSet(OctetsOf(s))
    PROVE  /\ IsFiniteSet(OctetsOf(Append(s, f)))
           /\ Cardinality(OctetsOf(Append(s, f))) = Cardinality(OctetsOf(s)) + f.size
<1> DEFINE n == Len(s) + 1
           t == Append(s, f)
           more == {n} \X (1 .. f.size)
<1>1. f.size \in Nat
    BY DEF FileRecords
<1>2. IsFiniteSet(more) /\ Cardinality(more) = f.size
    BY <1>1, OctetsOfOne
<1>3. DOMAIN t = (DOMAIN s) \union {n} /\ t[n] = f /\ \A k \in DOMAIN s : t[k] = s[k]
    OBVIOUS
<1>4. n \notin DOMAIN s
    OBVIOUS
<1>5. \A o : o \in OctetsOf(s) <=> \E k \in DOMAIN s : o \in {k} \X (1 .. s[k].size)
    BY DEF OctetsOf
<1>6. \A o : o \in OctetsOf(t) <=> \E k \in DOMAIN t : o \in {k} \X (1 .. t[k].size)
    BY DEF OctetsOf
<1> HIDE DEF t, n
<1>7. OctetsOf(t) = OctetsOf(s) \union more
    BY <1>3, <1>5, <1>6
<1>8. OctetsOf(s) \intersect more = {}
    <2>1. \A k \in DOMAIN s : k # n
        BY <1>4
    <2> QED
        BY <1>5, <2>1
<1> HIDE DEF more
<1>9. /\ IsFiniteSet(OctetsOf(s) \union more)
      /\ Cardinality(OctetsOf(s) \union more) = Cardinality(OctetsOf(s)) + Cardinality(more)
    BY <1>2, <1>8, DisjointUnion
<1> QED
    BY <1>2, <1>7, <1>9 DEF t

LEMMA BudgetInit == TrustInit => BudgetInv
<1> SUFFICES ASSUME TrustInit PROVE BudgetInv
    OBVIOUS
<1>1. files = <<>> /\ remaining = MaxStoreBytes /\ regular = InFiles(disk, folder)
    BY DEF TrustInit
<1>2. Octets = {}
    BY <1>1 DEF Octets
<1>3. IsFiniteSet({}) /\ Cardinality({}) = 0 /\ MaxStoreBytes \in Nat
    BY FS_EmptySet, LimitsAssumption
<1>4. EntriesOf(files) = {}
    BY <1>1 DEF EntriesOf
<1> QED
    BY <1>1, <1>2, <1>3, <1>4 DEF BudgetInv

\* The first entry of a sequence, and the others.
LEMMA FirstAndOthers ==
    ASSUME NEW S, NEW s \in Seq(S), s # <<>>
    PROVE  EntriesOf(s) = {Head(s)} \union EntriesOf(Tail(s))
<1>1. Len(s) \in Nat /\ Len(s) > 0 /\ DOMAIN s = 1 .. Len(s) /\ Head(s) = s[1]
    OBVIOUS
<1>2. DOMAIN Tail(s) = 1 .. Len(s) - 1 /\ \A k \in 1 .. Len(s) - 1 : Tail(s)[k] = s[k + 1]
    BY <1>1
<1>3. ASSUME NEW k \in DOMAIN s PROVE s[k] \in {Head(s)} \union EntriesOf(Tail(s))
    <2>1. CASE k = 1
        BY <1>1, <2>1
    <2>2. CASE k # 1
        <3>1. k - 1 \in DOMAIN Tail(s) /\ Tail(s)[k - 1] = s[k]
            BY <1>1, <1>2, <2>2
        <3> QED
            BY <3>1 DEF EntriesOf
    <2> QED
        BY <2>1, <2>2
<1>4. ASSUME NEW k \in DOMAIN Tail(s) PROVE Tail(s)[k] \in EntriesOf(s)
    <2>1. k + 1 \in DOMAIN s /\ Tail(s)[k] = s[k + 1]
        BY <1>1, <1>2
    <2> QED
        BY <2>1 DEF EntriesOf
<1>5. Head(s) \in EntriesOf(s)
    BY <1>1 DEF EntriesOf
<1> QED
    BY <1>3, <1>4, <1>5 DEF EntriesOf

\* Only what is read of a regular file counts, and its certificates stood in one.
LEMMA BudgetStep ==
    ASSUME TrustTypeOK, FolderInv, StoreReadInv, BudgetInv, [TrustNext]_trustVars
    PROVE  BudgetInv'
<1>1. ASSUME UNCHANGED <<disk, folder, linked, regular, remaining, files>> PROVE BudgetInv'
    <2>1. /\ Octets' = Octets /\ InFiles(disk, folder)' = InFiles(disk, folder)
          /\ EntriesOf(files)' = EntriesOf(files)
        BY <1>1 DEF Octets, InFiles
    <2> QED
        BY <1>1, <2>1 DEF BudgetInv
<1>2. ASSUME UNCHANGED <<remaining, files>>, linked \subseteq linked',
             regular' = regular \union InFiles(disk', folder')
      PROVE  BudgetInv'
    <2>1. Octets' = Octets /\ EntriesOf(files)' = EntriesOf(files)
        BY <1>2 DEF Octets
    <2>2. InFiles(disk, folder)' = InFiles(disk', folder')
        BY DEF InFiles
    <2> QED
        BY <1>2, <2>1, <2>2 DEF BudgetInv
<1>7. ASSUME NEW n \in Name, NEW entry \in Entry, Change(n, entry) PROVE BudgetInv'
    <2>1. /\ UNCHANGED <<remaining, files, folder, linked>>
          /\ regular' = regular \union InFiles(disk', folder)
        BY <1>7 DEF Change
    <2> QED
        BY <1>2, <2>1
<1>8. CASE Relinked
    <2>1. /\ UNCHANGED <<remaining, files>> /\ linked \subseteq linked'
          /\ regular' = regular \union InFiles(disk', folder')
        BY <1>8 DEF Relinked, Relink
    <2> QED
        BY <1>2, <2>1
<1>3. CASE ReadEntry
    <2> DEFINE entry == disk[held]
               file == [place |-> directory, size |-> entry.size, certs |-> entry.certs]
    <2>1. held \in Name /\ entry \in Entry
        BY <1>3 DEF ReadEntry, TrustTypeOK
    <2>2. CASE UNCHANGED <<disk, folder, linked, regular, remaining, files>>
        BY <1>1, <2>2
    <2>3. CASE ~UNCHANGED <<disk, folder, linked, regular, remaining, files>>
        <3>1. /\ Opened(held) \notin {"inspect", "too_large", "not_regular"}
              /\ ~(entry.size > remaining)
              /\ remaining' = remaining - entry.size
              /\ files' = Append(files, file)
              /\ UNCHANGED <<disk, folder, linked, regular>>
            BY <1>3, <2>3, Zenon DEF ReadEntry, Refuse, reading
        <3>2. entry.kind = "file" /\ entry.size \in Nat /\ entry.certs \in Seq(Certs \union {Garbage})
            BY <2>1, <3>1, StoreEntryFacts DEF Opened, Opens
        <3>3. file \in FileRecords /\ files \in Seq(FileRecords) /\ remaining \in Nat
            BY <3>2 DEF FileRecords, TrustTypeOK
        <3>4. directory \in linked \/ EntriesOf(entry.certs) \ {Garbage} \subseteq regular
            <4> DEFINE regulars == {m \in Name : disk[m].kind = "file" /\ folder[Place[m]] = "dir"}
                       each == {EntriesOf(disk[n].certs) : n \in regulars}
            <4>1. CASE folder[directory] = "link"
                BY <4>1 DEF FolderInv, TrustTypeOK
            <4>2. CASE folder[directory] # "link"
                <5>1. Place[held] = directory
                    BY <1>3, <2>1, FirstAndOthers DEF ReadEntry, StoreReadInv, TrustTypeOK
                <5>2. folder[directory] \in Enterable
                    BY <2>1, <3>2, <5>1 DEF FolderInv
                <5>3. held \in regulars
                    BY <2>1, <3>2, <4>2, <5>1, <5>2 DEF Enterable
                <5>4. EntriesOf(disk[held].certs) \in each
                    BY <5>3, Zenon
                <5>5. InFiles(disk, folder) = (UNION each) \ {Garbage}
                    BY Zenon DEF InFiles
                <5> HIDE DEF each, regulars
                <5>6. EntriesOf(disk[held].certs) \subseteq UNION each
                    BY <5>4, Zenon
                <5> QED
                    BY <5>5, <5>6 DEF BudgetInv
            <4> QED
                BY <4>1, <4>2
        <3>5. Octets = OctetsOf(files) /\ Octets' = OctetsOf(files')
            BY DEF Octets, OctetsOf
        <3>6. EntriesOf(files') = EntriesOf(files) \union {file}
            BY <3>1, <3>3 DEF EntriesOf
        <3>7. file.certs = entry.certs /\ file.size = entry.size /\ file.place = directory
            OBVIOUS
        <3> HIDE DEF file, entry
        <3>8. /\ IsFiniteSet(OctetsOf(files'))
              /\ Cardinality(OctetsOf(files')) = Cardinality(OctetsOf(files)) + entry.size
            BY <3>1, <3>3, <3>5, <3>7, OctetsOfAppend DEF BudgetInv
        <3>9. Cardinality(OctetsOf(files)) \in Nat
            BY <3>5, FS_CardinalityType DEF BudgetInv
        <3>10. InFiles(disk, folder)' = InFiles(disk, folder)
            BY <3>1 DEF InFiles
        <3>11. /\ IsFiniteSet(Octets') /\ Cardinality(Octets') + remaining' = MaxStoreBytes
            BY <3>1, <3>2, <3>3, <3>5, <3>8, <3>9, LimitsAssumption DEF BudgetInv
        <3>12. \A f \in EntriesOf(files') :
                f.place \in linked' \/ EntriesOf(f.certs) \ {Garbage} \subseteq regular'
            BY <3>1, <3>4, <3>6, <3>7 DEF BudgetInv
        <3> QED
            BY <3>1, <3>10, <3>11, <3>12 DEF BudgetInv
    <2> QED
        BY <2>2, <2>3
<1>4. CASE StartStore \/ ChooseLayout \/ ListDirectory \/ Inspect \/ NextDirectory \/ ParseStore
    <2>1. UNCHANGED <<disk, folder, linked, regular, remaining, files>>
        BY <1>4, Zenon DEF StartStore, ChooseLayout, ListDirectory, Inspect, NextDirectory, ParseStore, Refuse, reading
    <2> QED
        BY <1>1, <2>1
<1>5. CASE LoadSigner \/ LoadLotl \/ LoadList \/ ListsLoaded \/ Gather \/ Verify
    <2>1. UNCHANGED reading
        BY <1>5, Zenon DEF LoadSigner, LoadLotl, LoadList, ListsLoaded, Gather, Verify, Refuse
    <2> QED
        BY <1>1, <2>1 DEF reading
<1>6. CASE UNCHANGED trustVars
    BY <1>1, <1>6 DEF trustVars, reading
<1> QED
    BY <1>3, <1>4, <1>5, <1>6, <1>7, <1>8 DEF TrustNext, Relinked

(***************************************************************************)
(* The reading of the store.                                               *)
(***************************************************************************)

LEMMA OneMore ==
    ASSUME NEW S, NEW s \in Seq(S), NEW x
    PROVE  EntriesOf(Append(s, x)) = EntriesOf(s) \union {x}
<1> DEFINE t == Append(s, x)
<1>1. /\ DOMAIN t = (DOMAIN s) \union {Len(s) + 1}
      /\ t[Len(s) + 1] = x /\ \A k \in DOMAIN s : t[k] = s[k]
    OBVIOUS
<1> HIDE DEF t
<1>2. EntriesOf(t) = EntriesOf(s) \union {x}
    BY <1>1 DEF EntriesOf
<1> QED
    BY <1>2 DEF t

LEMMA StoreReadInit == TrustInit => StoreReadInv
<1> SUFFICES ASSUME TrustInit PROVE StoreReadInv
    OBVIOUS
<1>1. phase = "start" /\ EntriesOf(todo) = {}
    BY DEF TrustInit, EntriesOf
<1> QED
    BY <1>1 DEF StoreReadInv, Reached

\* Nothing is asked of the reading once the store is read.
LEMMA StoreReadOver ==
    ASSUME StoreReadInv, UNCHANGED <<command, directory, todo>>,
           phase' \notin Early
    PROVE  StoreReadInv'
<1> QED
    BY DEF StoreReadInv

LEMMA StoreReadStep ==
    ASSUME TrustTypeOK, FolderInv, StoreReadInv, [TrustNext]_trustVars
    PROVE  StoreReadInv'
<1>2. ASSUME Refuse PROVE StoreReadInv'
    BY <1>2, StoreReadOver DEF Refuse, reading, Early
<1>3. CASE StartStore
    <2>1. \/ Refuse
          \/ phase' = "layout" /\ UNCHANGED <<command, reading>>
          \/ phase' \notin Early /\ UNCHANGED <<command, reading>>
        BY <1>3 DEF StartStore, Early
    <2>2. CASE phase' = "layout" /\ UNCHANGED <<command, reading>>
        BY <2>2 DEF StoreReadInv, Reached, reading
    <2> QED
        BY <1>2, <2>1, <2>2, StoreReadOver DEF reading
<1>1. CASE ChooseLayout
    <2>1. PICK there \in IsDir("anchors") :
            /\ phase' = "directory" /\ directory' = IF there THEN "anchors" ELSE "top"
            /\ unlisted' = IF there \/ folder["anchors"] \notin Enterable THEN unlisted
                           ELSE unlisted \union {n \in Name : Place[n] # "top"}
            /\ UNCHANGED <<command, disk, changed, todo>>
        BY <1>1 DEF ChooseLayout
    <2>2. EntriesOf(todo) = {}
        BY <1>1 DEF ChooseLayout, TrustTypeOK, EntriesOf
    <2>3. ASSUME NEW n \in Sought' \ (changed \union unlisted') PROVE Reached(n)'
        <3>1. n \in Name /\ Place[n] \in Folders
            BY <2>3, NameAssumption DEF Sought, Folders
        <3>2. folder["anchors"] = command.folders["anchors"]
            BY <2>3, <3>1 DEF FolderInv
        <3>3. IF command.folders["anchors"] \in Enterable THEN Place[n] # "top" ELSE Place[n] = "top"
            BY <2>1, <2>3 DEF Sought
        <3>4. CASE there
            BY <2>1, <3>1, <3>2, <3>3, <3>4 DEF Reached, IsDir, Folders
        <3>5. CASE ~there
            BY <2>1, <2>3, <3>1, <3>2, <3>3, <3>5 DEF Reached
        <3> QED
            BY <3>4, <3>5
    <2> QED
        BY <2>1, <2>2, <2>3 DEF StoreReadInv
<1>4. ASSUME NEW n \in Name, NEW entry \in Entry, Change(n, entry) PROVE StoreReadInv'
    <2>1. /\ phase \in {"layout", "directory", "entries"} /\ changed' = changed \union {n}
          /\ disk' = [disk EXCEPT ![n] = entry]
          /\ UNCHANGED <<command, phase, unlisted, directory, todo, files>>
        BY <1>4 DEF Change, Changing
    <2>2. \A m \in Name \ {n} : disk'[m] = disk[m]
        BY <2>1 DEF TrustTypeOK
    <2>3. Sought' = Sought /\ Sought \subseteq Name
        BY <2>1 DEF Sought
    <2>4. \A m \in Name \ {n} : Reached(m)' <=> Reached(m)
        BY <2>1, <2>2 DEF Reached, Got
    <2> QED
        BY <2>1, <2>2, <2>3, <2>4 DEF StoreReadInv, Early
<1>12. CASE Relinked
    <2>1. PICK place \in Folders \ {"top"}, kind \in Enterable \union {"other", "none"}, tree \in Trees :
            Relink(place, kind, tree)
        BY <1>12 DEF Relinked
    <2>2. /\ phase \in {"layout", "directory", "entries"}
          /\ changed' = changed \union {n \in Name : place = "anchors" \/ Place[n] = place}
          /\ disk' = [n \in Name |-> IF Place[n] = place THEN tree[n] ELSE disk[n]]
          /\ UNCHANGED <<command, phase, unlisted, directory, todo, files>>
        BY <2>1 DEF Relink, Changing
    <2>3. Sought' = Sought /\ Sought \subseteq Name
        BY <2>2 DEF Sought
    <2>4. \A m \in Name \ changed' : m \notin changed /\ disk'[m] = disk[m]
        BY <2>2
    <2>5. \A m \in Name \ changed' : Reached(m)' <=> Reached(m)
        BY <2>2, <2>4 DEF Reached, Got
    <2> QED
        BY <2>2, <2>3, <2>4, <2>5 DEF StoreReadInv, Early
<1>5. CASE ListDirectory
    <2> DEFINE there == {n \in Name : Place[n] = directory /\ disk[n].kind # "gone"}
    <2>1. ASSUME ~Refuse PROVE StoreReadInv'
        <3>1. PICK given \in SUBSET there :
                /\ phase' = "entries" /\ todo' = InOrder(given)
                /\ unlisted' = unlisted \union (there \ given)
                /\ UNCHANGED <<command, disk, changed, directory, files>>
            BY <1>5, <2>1 DEF ListDirectory
        <3>2. given \in SUBSET Nat /\ IsFiniteSet(given)
            BY NameAssumption, FS_Subset
        <3>3. EntriesOf(todo') = given
            BY <3>1, <3>2, InOrderFacts
        <3>4. phase = "directory"
            BY <1>5 DEF ListDirectory
        <3>5. EntriesOf(todo) = {}
            BY <3>4 DEF TrustTypeOK, EntriesOf
        <3>6. Sought' = Sought /\ Sought \subseteq Name
            BY <3>1 DEF Sought
        <3>7. ASSUME NEW n \in Sought \ (changed' \union unlisted'), disk[n].kind = "file"
              PROVE  Reached(n)'
            <4>1. Got(n) \/ Place[n] = directory \/ (directory = "anchors" /\ Place[n] = "intermediates")
                BY <3>1, <3>4, <3>5, <3>7 DEF StoreReadInv, Reached, Early
            <4>2. CASE Got(n)
                BY <3>1, <4>2 DEF Got, Reached
            <4>3. CASE directory = "anchors" /\ Place[n] = "intermediates"
                BY <3>1, <4>3 DEF Reached
            <4>4. CASE Place[n] = directory
                BY <3>1, <3>3, <3>6, <3>7, <4>4 DEF Reached
            <4> QED
                BY <4>1, <4>2, <4>3, <4>4
        <3> QED
            BY <3>1, <3>3, <3>6, <3>7 DEF StoreReadInv
    <2> QED
        BY <1>2, <2>1
<1>6. CASE Inspect
    <2>1. todo # <<>> /\ todo \in Seq(Name) /\ phase = "entries"
        BY <1>6 DEF Inspect, TrustTypeOK
    <2>2. \/ Refuse
          \/ UNCHANGED <<command, phase, disk, changed, unlisted, directory, todo, files>>
          \/ /\ disk[Head(todo)].kind # "file" /\ todo' = Tail(todo)
             /\ UNCHANGED <<command, phase, disk, changed, unlisted, directory, files>>
        BY <1>6, Zenon DEF Inspect
    <2>3. CASE UNCHANGED <<command, phase, disk, changed, unlisted, directory, todo, files>>
        <3>1. Sought' = Sought /\ \A n : Reached(n)' <=> Reached(n)
            BY <2>3 DEF Sought, Reached, Got
        <3> QED
            BY <2>3, <3>1 DEF StoreReadInv
    <2>4. CASE /\ disk[Head(todo)].kind # "file" /\ todo' = Tail(todo)
               /\ UNCHANGED <<command, phase, disk, changed, unlisted, directory, files>>
        <3>1. EntriesOf(todo) = {Head(todo)} \union EntriesOf(todo')
            BY <2>1, <2>4, FirstAndOthers
        <3>2. Sought' = Sought
            BY <2>4 DEF Sought
        <3>3. \A n : disk[n].kind = "file" /\ Reached(n) => Reached(n)'
            BY <2>1, <2>4, <3>1 DEF Reached, Got
        <3> QED
            BY <2>1, <2>4, <3>1, <3>2, <3>3 DEF StoreReadInv
    <2> QED
        BY <1>2, <2>2, <2>3, <2>4
<1>7. CASE ReadEntry
    <2> DEFINE entry == disk[held]
               file == [place |-> directory, size |-> entry.size, certs |-> entry.certs]
    <2>1. held # Nobody /\ phase = "entries"
        BY <1>7 DEF ReadEntry
    <2>2. todo \in Seq(Name) /\ todo # <<>> /\ held = Head(todo) /\ held \in Name
        BY <2>1 DEF TrustTypeOK
    <2>3. EntriesOf(todo) = {held} \union EntriesOf(Tail(todo))
        BY <2>2, FirstAndOthers
    <2>4. \/ Refuse
          \/ /\ Opened(held) = "not_regular" /\ todo' = Tail(todo)
             /\ UNCHANGED <<command, phase, disk, changed, unlisted, directory, files>>
          \/ /\ todo' = Tail(todo) /\ files' = Append(files, file)
             /\ UNCHANGED <<command, phase, disk, changed, unlisted, directory>>
        BY <1>7, Zenon DEF ReadEntry
    <2>5. ASSUME Opened(held) = "not_regular" PROVE entry.kind # "file"
        BY <2>5 DEF Opened, Opens
    <2>6. CASE /\ Opened(held) = "not_regular" /\ todo' = Tail(todo)
               /\ UNCHANGED <<command, phase, disk, changed, unlisted, directory, files>>
        <3>1. Sought' = Sought
            BY <2>6 DEF Sought
        <3>2. \A n : disk[n].kind = "file" /\ Reached(n) => Reached(n)'
            BY <2>1, <2>3, <2>5, <2>6 DEF Reached, Got
        <3> QED
            BY <2>1, <2>3, <2>6, <3>1, <3>2 DEF StoreReadInv
    <2>7. CASE /\ todo' = Tail(todo) /\ files' = Append(files, file)
               /\ UNCHANGED <<command, phase, disk, changed, unlisted, directory>>
        <3>1. Sought' = Sought
            BY <2>7 DEF Sought
        <3>2. EntriesOf(files') = EntriesOf(files) \union {file}
            <4>1. files \in Seq(FileRecords)
                BY DEF TrustTypeOK
            <4> HIDE DEF file
            <4> QED
                BY <2>7, <4>1, OneMore
        <3>3. Place[held] = directory
            BY <2>3 DEF StoreReadInv
        <3>4. file.certs = disk[held].certs /\ file.place = Place[held]
            BY <3>3
        <3> HIDE DEF file, entry
        <3>5. \A n : n = held \/ Got(n) => Got(n)'
            <4>1. \A n : Got(n) => Got(n)'
                BY <2>7, <3>2 DEF Got
            <4>2. ASSUME NEW n, n = held PROVE Got(n)'
                BY <2>7, <3>2, <3>4, <4>2 DEF Got
            <4> QED
                BY <4>1, <4>2
        <3>6. \A n : Reached(n) => Reached(n)'
            BY <2>1, <2>3, <2>7, <3>5 DEF Reached
        <3> QED
            BY <2>1, <2>3, <2>7, <3>1, <3>6 DEF StoreReadInv
    <2> QED
        BY <1>2, <2>4, <2>6, <2>7
<1>8. CASE NextDirectory
    <2>1. /\ phase = "entries" /\ EntriesOf(todo) = {}
          /\ UNCHANGED <<command, disk, changed, todo, files>> /\ unlisted \subseteq unlisted'
        BY <1>8 DEF NextDirectory, EntriesOf
    <2>2. Sought' = Sought /\ Sought \subseteq Name
        BY <2>1 DEF Sought
    <2>3. \A n : Got(n)' <=> Got(n)
        BY <2>1 DEF Got
    <2>4. ASSUME NEW n \in Sought \ (changed \union unlisted), disk[n].kind = "file"
          PROVE  Got(n) \/ (directory = "anchors" /\ Place[n] = "intermediates")
        BY <2>1, <2>4 DEF StoreReadInv, Reached, Early
    <2>5. CASE directory' = "intermediates" /\ phase' = "directory"
        <3>1. \A n \in Sought \ (changed \union unlisted') : disk[n].kind = "file" => Reached(n)'
            BY <2>1, <2>3, <2>4, <2>5 DEF Reached
        <3> QED
            BY <2>1, <2>2, <2>5, <3>1 DEF StoreReadInv
    <2>6. CASE /\ directory' = directory /\ phase' = "parse"
               /\ directory = "anchors" => \/ folder["intermediates"] \notin Enterable
                                           \/ {n \in Name : Place[n] = "intermediates"} \subseteq unlisted'
        <3>1. ASSUME NEW n \in Sought \ (changed \union unlisted'), disk[n].kind = "file"
              PROVE  Got(n)
            <4>1. folder[Place[n]] \in Enterable
                BY <2>2, <3>1 DEF FolderInv
            <4> QED
                BY <2>1, <2>2, <2>4, <2>6, <3>1, <4>1
        <3>2. \A n \in Sought \ (changed \union unlisted') : disk[n].kind = "file" => Reached(n)'
            BY <2>3, <3>1 DEF Reached
        <3> QED
            BY <2>1, <2>2, <2>6, <3>2 DEF StoreReadInv
    <2>7. \/ directory' = "intermediates" /\ phase' = "directory"
          \/ /\ directory' = directory /\ phase' = "parse"
             /\ directory = "anchors" => \/ folder["intermediates"] \notin Enterable
                                         \/ {n \in Name : Place[n] = "intermediates"} \subseteq unlisted'
        BY <1>8 DEF NextDirectory
    <2> QED
        BY <2>5, <2>6, <2>7
<1>9. CASE ParseStore
    <2>1. Refuse \/ (phase' = "signer" /\ UNCHANGED <<command, reading>>)
        BY <1>9, Zenon DEF ParseStore
    <2> QED
        BY <1>2, <2>1, StoreReadOver DEF reading, Early
<1>10. CASE LoadSigner \/ LoadLotl \/ LoadList \/ ListsLoaded \/ Gather \/ Verify
    <2>1. \/ Refuse
          \/ phase' \in {"lotl", "lists", "gather", "verify", "done"} /\ UNCHANGED <<command, reading>>
        BY <1>10, Zenon DEF LoadSigner, LoadLotl, LoadList, ListsLoaded, Gather, Verify
    <2> QED
        BY <1>2, <2>1, StoreReadOver DEF reading, Early
<1>11. CASE UNCHANGED trustVars
    <2>1. UNCHANGED <<command, phase, disk, changed, unlisted, directory, todo, files>>
        BY <1>11 DEF trustVars, reading
    <2>2. Sought' = Sought /\ \A n : Reached(n)' <=> Reached(n)
        BY <2>1 DEF Sought, Reached, Got
    <2> QED
        BY <2>1, <2>2 DEF StoreReadInv
<1> QED
    BY <1>3, <1>4, <1>5, <1>6, <1>7, <1>1, <1>8, <1>9, <1>10, <1>11, <1>12 DEF TrustNext, Relinked

(***************************************************************************)
(* What is taken of the store.                                             *)
(***************************************************************************)

\* Past its reading the store and what was taken of it stay.
LEMMA TakenStays ==
    ASSUME TrustTypeOK, LoadSigner \/ LoadLotl \/ LoadList \/ ListsLoaded \/ Gather \/ Verify
    PROVE  /\ UNCHANGED <<command, reading>> /\ Taken' = Taken /\ Sought' = Sought
           /\ phase \in {"signer", "lotl", "lists", "gather", "verify"}
<1>1. CASE LoadList
    <2>1. \/ UNCHANGED <<command, anchors, intermediates, reading>>
          \/ \E list \in Lists : /\ anchors' = anchors \union AnchorsOf(list)
                                 /\ UNCHANGED <<command, reading, intermediates>>
        BY <1>1, Zenon DEF LoadList, Refuse, material
    <2>2. \A list \in Lists : \A a \in AnchorsOf(list) : a.origin = "trust_list"
        BY ContributedFacts
    <2>3. UNCHANGED <<command, intermediates, reading>>
          /\ \A a : a.origin = "trust_store" => (a \in anchors' <=> a \in anchors)
        BY <2>1, <2>2
    <2> QED
        BY <1>1, <2>3 DEF LoadList, Taken, Sought
<1>2. CASE LoadSigner \/ LoadLotl \/ ListsLoaded \/ Gather \/ Verify
    <2>1. UNCHANGED <<command, reading, anchors, intermediates>>
          /\ phase \in {"signer", "lotl", "lists", "gather", "verify"}
        BY <1>2, Zenon DEF LoadSigner, LoadLotl, ListsLoaded, Gather, Verify, Refuse, material
    <2> QED
        BY <2>1 DEF Taken, Sought
<1> QED
    BY <1>1, <1>2

\* What was reached through a link stays so.
LEMMA FollowedStays ==
    ASSUME EntriesOf(files) \subseteq EntriesOf(files'), linked \subseteq linked'
    PROVE  Followed \subseteq Followed'
<1> DEFINE S == {g \in EntriesOf(files) : g.place \in linked}
           T == {g \in EntriesOf(files') : g.place \in linked'}
<1>1. Followed = UNION {EntriesOf(f.certs) : f \in S} /\ Followed' = UNION {EntriesOf(f.certs) : f \in T}
    BY Zenon DEF Followed
<1>2. S \subseteq T
    OBVIOUS
<1> HIDE DEF S, T
<1> QED
    BY <1>1, <1>2, Zenon

\* All of what was read is taken, and nothing else.
LEMMA TakenIsRead ==
    ASSUME TrustTypeOK, ParseStore, ~Refuse
    PROVE  Taken' = UNION {EntriesOf(f.certs) : f \in EntriesOf(files)}
           /\ \A f \in EntriesOf(files) : Garbage \notin EntriesOf(f.certs)
<1>1. /\ ~\E f \in EntriesOf(files) : Unusable(f)
      /\ anchors' = {[cert |-> c, origin |-> "trust_store"] : c \in From({"anchors", "top"})}
      /\ intermediates' = From({"intermediates"})
    BY Zenon DEF ParseStore
<1>2. \A f \in EntriesOf(files) :
        Garbage \notin EntriesOf(f.certs) /\ Parsed(f) = EntriesOf(f.certs)
    BY <1>1 DEF Unusable, Parsed
<1>3. \A f \in EntriesOf(files) : f.place \in Folders
    <2>1. \A k \in DOMAIN files : files[k] \in FileRecords
        BY DEF TrustTypeOK
    <2> QED
        BY <2>1 DEF EntriesOf, FileRecords
<1>4. ASSUME NEW P
      PROVE  From(P) = UNION {EntriesOf(f.certs) : f \in {g \in EntriesOf(files) : g.place \in P}}
    <2> DEFINE S == {g \in EntriesOf(files) : g.place \in P}
    <2>1. From(P) = UNION {Parsed(f) : f \in S}
        BY Zenon DEF From
    <2>2. \A f \in S : Parsed(f) = EntriesOf(f.certs)
        BY <1>2
    <2> HIDE DEF S
    <2>3. From(P) = UNION {EntriesOf(f.certs) : f \in S}
        BY <2>1, <2>2, Zenon
    <2> QED
        BY <2>3 DEF S
<1>5. Taken' = From({"anchors", "top"}) \union From({"intermediates"})
    <2> DEFINE rooted == From({"anchors", "top"})
    <2>1. /\ anchors' = {[cert |-> c, origin |-> "trust_store"] : c \in rooted}
          /\ intermediates' = From({"intermediates"})
        BY <1>1
    <2> HIDE DEF rooted
    <2>2. {a.cert : a \in {b \in anchors' : b.origin = "trust_store"}} = rooted
        <3>1. ASSUME NEW c \in rooted
              PROVE  c \in {a.cert : a \in {b \in anchors' : b.origin = "trust_store"}}
            <4> DEFINE anchor == [cert |-> c, origin |-> "trust_store"]
            <4>1. anchor \in anchors' /\ anchor.origin = "trust_store" /\ anchor.cert = c
                BY <2>1
            <4> QED
                BY <4>1
        <3>2. \A a \in anchors' : a.cert \in rooted
            BY <2>1
        <3> QED
            BY <3>1, <3>2
    <2> QED
        BY <2>1, <2>2 DEF Taken, rooted
<1>6. ASSUME NEW c
      PROVE  c \in Taken' <=> \E f \in EntriesOf(files) : c \in EntriesOf(f.certs)
    <2>1. /\ c \in From({"anchors", "top"}) <=>
                \E f \in EntriesOf(files) : f.place \in {"anchors", "top"} /\ c \in EntriesOf(f.certs)
          /\ c \in From({"intermediates"}) <=>
                \E f \in EntriesOf(files) : f.place \in {"intermediates"} /\ c \in EntriesOf(f.certs)
        BY <1>4
    <2> QED
        BY <1>3, <1>5, <2>1 DEF Folders
<1>7. Taken' = UNION {EntriesOf(f.certs) : f \in EntriesOf(files)}
    BY <1>6
<1> QED
    BY <1>2, <1>7

LEMMA TakenInit == TrustInit => TakenInv
<1> QED
    BY DEF TrustInit, TakenInv, Taken

LEMMA TakenStep ==
    ASSUME TrustTypeOK, StoreReadInv, BudgetInv, TakenInv, [TrustNext]_trustVars
    PROVE  TakenInv'
<1> DEFINE Late == {"signer", "lotl", "lists", "gather", "verify", "done"}
<1>1. ASSUME phase' \notin Late \/ ~command'.store, UNCHANGED <<anchors, intermediates>>,
             regular \subseteq regular', EntriesOf(files) \subseteq EntriesOf(files'),
             linked \subseteq linked'
      PROVE  TakenInv'
    <2>1. Taken' = Taken
        BY <1>1 DEF Taken
    <2>2. Followed \subseteq Followed'
        BY <1>1, FollowedStays
    <2> QED
        BY <1>1, <2>1, <2>2 DEF TakenInv
<1>2. ASSUME Refuse PROVE TakenInv'
    BY <1>1, <1>2 DEF Refuse, reading, material
<1>3. CASE StartStore
    <2>1. \/ Refuse
          \/ /\ phase' = "layout" \/ ~command.store
             /\ UNCHANGED <<command, reading, material>>
        BY <1>3, Zenon DEF StartStore
    <2> QED
        BY <1>1, <1>2, <2>1 DEF reading, material
<1>4. ASSUME NEW n \in Name, NEW entry \in Entry, Change(n, entry) PROVE TakenInv'
    <2>1. phase' \notin Late /\ UNCHANGED <<anchors, intermediates>>
          /\ regular' = regular \union InFiles(disk', folder) /\ UNCHANGED <<files, linked>>
        BY <1>4 DEF Change, Changing, material
    <2> QED
        BY <1>1, <2>1
<1>9. CASE Relinked
    <2>1. phase' \notin Late /\ UNCHANGED <<files, anchors, intermediates>>
          /\ regular' = regular \union InFiles(disk', folder') /\ linked \subseteq linked'
        BY <1>9 DEF Relinked, Relink, Changing, material
    <2> QED
        BY <1>1, <2>1
<1>10. CASE ChooseLayout
    <2>1. phase' = "directory" /\ UNCHANGED <<regular, files, linked, anchors, intermediates>>
        BY <1>10 DEF ChooseLayout, material
    <2> QED
        BY <1>1, <2>1
<1>5. CASE ListDirectory \/ Inspect \/ ReadEntry \/ NextDirectory
    <2>1. CASE ListDirectory
        <3>1. \/ Refuse
              \/ phase' = "entries" /\ UNCHANGED <<regular, files, linked, anchors, intermediates>>
            BY <2>1, Zenon DEF ListDirectory, material
        <3> QED
            BY <1>1, <1>2, <3>1
    <2>2. CASE Inspect
        <3>1. \/ Refuse
              \/ phase = "entries" /\ UNCHANGED <<phase, regular, files, linked, anchors, intermediates>>
            BY <2>2, Zenon DEF Inspect, material
        <3> QED
            BY <1>1, <1>2, <3>1
    <2>3. CASE ReadEntry
        <3>1. \/ Refuse
              \/ /\ phase = "entries" /\ UNCHANGED <<phase, regular, linked, anchors, intermediates>>
                 /\ files' = files \/ \E file : files' = Append(files, file)
            BY <2>3, Zenon DEF ReadEntry, material
        <3>2. \A file : EntriesOf(Append(files, file)) = EntriesOf(files) \union {file}
            BY OneMore DEF TrustTypeOK
        <3>3. CASE Refuse
            BY <1>2, <3>3
        <3>4. CASE ~Refuse
            <4>1. EntriesOf(files) \subseteq EntriesOf(files')
                BY <3>1, <3>2, <3>4
            <4> QED
                BY <1>1, <3>1, <3>4, <4>1
        <3> QED
            BY <3>3, <3>4
    <2>4. CASE NextDirectory
        <3>1. phase' \in {"directory", "parse"} /\ UNCHANGED <<regular, files, linked, anchors, intermediates>>
            BY <2>4, Zenon DEF NextDirectory, material
        <3> QED
            BY <1>1, <3>1
    <2> QED
        BY <1>5, <2>1, <2>2, <2>3, <2>4
<1>6. CASE ParseStore
    <2>1. ASSUME ~Refuse PROVE TakenInv'
        <3>1. /\ Taken' = UNION {EntriesOf(f.certs) : f \in EntriesOf(files)}
              /\ \A f \in EntriesOf(files) : Garbage \notin EntriesOf(f.certs)
            BY <1>6, <2>1, TakenIsRead
        <3>2. UNCHANGED <<command, disk, linked, changed, unlisted, regular, files>> /\ phase = "parse"
            BY <1>6, <2>1, Zenon DEF ParseStore, reading
        <3>3. Sought' = Sought
            BY <3>2 DEF Sought
        <3>4. ASSUME NEW n \in Sought \ (changed \union unlisted), disk[n].kind = "file"
              PROVE  EntriesOf(disk[n].certs) \subseteq Taken'
            <4>1. Got(n)
                BY <3>2, <3>4 DEF StoreReadInv, Reached, Early
            <4> QED
                BY <3>1, <4>1 DEF Got
        <3>5. ASSUME NEW c \in Taken' PROVE c \in regular \union Followed
            <4>1. PICK f \in EntriesOf(files) : c \in EntriesOf(f.certs)
                BY <3>1, <3>5
            <4>2. CASE f.place \in linked
                BY <4>1, <4>2 DEF Followed
            <4>3. CASE f.place \notin linked
                BY <3>1, <4>1, <4>3 DEF BudgetInv
            <4> QED
                BY <4>2, <4>3
        <3>6. Followed' = Followed
            BY <3>2 DEF Followed
        <3> QED
            BY <3>2, <3>3, <3>4, <3>5, <3>6 DEF TakenInv
    <2> QED
        BY <1>2, <2>1
<1>7. CASE LoadSigner \/ LoadLotl \/ LoadList \/ ListsLoaded \/ Gather \/ Verify
    <2>1. /\ UNCHANGED <<command, disk, changed, unlisted, regular>>
          /\ Taken' = Taken /\ Sought' = Sought /\ phase \in Late /\ Followed' = Followed
        BY <1>7, TakenStays DEF reading, Followed
    <2> QED
        BY <2>1 DEF TakenInv
<1>8. CASE UNCHANGED trustVars
    <2>1. UNCHANGED <<command, phase, disk, changed, unlisted, regular>>
          /\ Taken' = Taken /\ Sought' = Sought /\ Followed' = Followed
        BY <1>8 DEF trustVars, reading, material, Taken, Sought, Followed
    <2> QED
        BY <2>1 DEF TakenInv
<1> QED
    BY <1>3, <1>4, <1>5, <1>6, <1>7, <1>8, <1>9, <1>10 DEF TrustNext, Relinked

(***************************************************************************)
(* The lists and who signed them.                                          *)
(***************************************************************************)
LEMMA EarlyInit == TrustInit => EarlyInv
<1> QED
    BY DEF TrustInit, EarlyInv

LEMMA EarlyStep ==
    ASSUME TrustTypeOK, EarlyInv, [TrustNext]_trustVars
    PROVE  EarlyInv'
<1> DEFINE Soon == Early \union {"signer"}
<1>1. ASSUME phase' \notin Soon \union {"lotl"} PROVE EarlyInv'
    BY <1>1 DEF EarlyInv
<1>2. ASSUME phase \in Soon, phase' \notin {"lotl"}, UNCHANGED <<signers, loaded>> PROVE EarlyInv'
    BY <1>2 DEF EarlyInv, Early
<1>3. ASSUME Refuse PROVE EarlyInv'
    BY <1>1, <1>3 DEF Refuse, Early
<1>4. CASE \/ StartStore \/ ListDirectory \/ Inspect \/ ReadEntry \/ NextDirectory
           \/ ParseStore \/ ChooseLayout \/ Relinked
           \/ \E n \in Name, entry \in Entry : Change(n, entry)
    <2>1. \/ Refuse
          \/ phase \in Soon /\ phase' # "lotl" /\ UNCHANGED <<signers, loaded>>
        <3>1. CASE StartStore \/ NextDirectory \/ ChooseLayout
            BY <3>1 DEF StartStore, NextDirectory, ChooseLayout, material, Early
        <3>2. CASE Inspect
            <4>1. phase = "entries" /\ (Refuse \/ UNCHANGED <<phase, material>>)
                BY <3>2, Zenon DEF Inspect
            <4> QED
                BY <4>1 DEF material, Early
        <3>3. CASE ReadEntry
            <4>1. phase = "entries" /\ (Refuse \/ UNCHANGED <<phase, material>>)
                BY <3>3, Zenon DEF ReadEntry
            <4> QED
                BY <4>1 DEF material, Early
        <3>4. CASE ListDirectory
            <4>1. phase = "directory" /\ (Refuse \/ (phase' = "entries" /\ UNCHANGED material))
                BY <3>4, Zenon DEF ListDirectory
            <4> QED
                BY <4>1 DEF material, Early
        <3>5. CASE ParseStore
            <4>1. phase = "parse" /\ (Refuse \/ (phase' = "signer" /\ UNCHANGED <<signers, loaded>>))
                BY <3>5, Zenon DEF ParseStore
            <4> QED
                BY <4>1 DEF Early
        <3>6. ASSUME NEW n \in Name, NEW entry \in Entry, Change(n, entry)
              PROVE  phase \in Soon /\ phase' # "lotl" /\ UNCHANGED <<signers, loaded>>
            BY <3>6 DEF Change, Changing, material, Early
        <3>7. CASE Relinked
            BY <3>7 DEF Relinked, Relink, Changing, material, Early
        <3> QED
            BY <1>4, <3>1, <3>2, <3>3, <3>4, <3>5, <3>6, <3>7 DEF Early
    <2> QED
        BY <1>2, <1>3, <2>1
<1>5. CASE LoadSigner
    <2>1. ASSUME ~Refuse PROVE EarlyInv'
        <3>1. phase' = "lotl" /\ loaded' = loaded /\ command' = command
              /\ (\/ command.signer /\ \E file \in SignerFiles : Len(file) = 1 /\ signers' = file
                  \/ ~command.signer /\ signers' = signers)
            BY <1>5, <2>1, Zenon DEF LoadSigner, material
        <3>2. loaded = <<>> /\ signers = <<>>
            BY <1>5 DEF LoadSigner, EarlyInv
        <3> QED
            BY <3>1, <3>2 DEF EarlyInv, Early
    <2> QED
        BY <1>3, <2>1
<1>6. CASE LoadLotl \/ LoadList \/ ListsLoaded \/ Gather \/ Verify
    <2>1. phase' \in {"lists", "gather", "verify", "done", "refused"}
        BY <1>6, Zenon DEF LoadLotl, LoadList, ListsLoaded, Gather, Verify, Refuse
    <2> QED
        BY <1>1, <2>1 DEF Early
<1>7. CASE UNCHANGED trustVars
    BY <1>7 DEF trustVars, material, EarlyInv
<1> QED
    BY <1>4, <1>5, <1>6, <1>7 DEF TrustNext, Relinked

\* One list more.
LEMMA GivenMore ==
    ASSUME TrustTypeOK, NEW list, NEW flag,
           loaded' = Append(loaded, [list |-> list, flag |-> flag])
    PROVE  /\ flag = "lotl" => /\ GivenAs("lotl")' = GivenAs("lotl") \union {list}
                              /\ GivenAs("trust_list")' = GivenAs("trust_list")
           /\ flag = "trust_list" => /\ GivenAs("lotl")' = GivenAs("lotl")
                                    /\ GivenAs("trust_list")' = GivenAs("trust_list") \union {list}
<1> DEFINE l == [list |-> list, flag |-> flag]
<1>1. EntriesOf(loaded') = EntriesOf(loaded) \union {l}
    <2>1. loaded \in Seq([list : Lists, flag : {"lotl", "trust_list"}]) /\ loaded' = Append(loaded, l)
        BY DEF TrustTypeOK
    <2> HIDE DEF l
    <2> QED
        BY <2>1, OneMore
<1>2. l.list = list /\ l.flag = flag
    OBVIOUS
<1> HIDE DEF l
<1>3. ASSUME NEW asked
      PROVE  /\ \A x : x \in GivenAs(asked)' <=>
                    \E k \in EntriesOf(loaded) \union {l} : k.flag = asked /\ k.list = x
             /\ \A x : x \in GivenAs(asked) <=>
                    \E k \in EntriesOf(loaded) : k.flag = asked /\ k.list = x
    <2>1. GivenAs(asked)' = {k.list : k \in {m \in EntriesOf(loaded') : m.flag = asked}}
        BY Zenon DEF GivenAs
    <2>2. GivenAs(asked) = {k.list : k \in {m \in EntriesOf(loaded) : m.flag = asked}}
        BY Zenon DEF GivenAs
    <2> QED
        BY <1>1, <2>1, <2>2
<1>4. /\ \A x : x \in GivenAs("lotl")' <=>
                \E k \in EntriesOf(loaded) \union {l} : k.flag = "lotl" /\ k.list = x
      /\ \A x : x \in GivenAs("lotl") <=>
                \E k \in EntriesOf(loaded) : k.flag = "lotl" /\ k.list = x
    BY <1>3
<1>5. /\ \A x : x \in GivenAs("trust_list")' <=>
                \E k \in EntriesOf(loaded) \union {l} : k.flag = "trust_list" /\ k.list = x
      /\ \A x : x \in GivenAs("trust_list") <=>
                \E k \in EntriesOf(loaded) : k.flag = "trust_list" /\ k.list = x
    BY <1>3
<1>6. ASSUME flag = "lotl"
      PROVE  /\ GivenAs("lotl")' = GivenAs("lotl") \union {list}
             /\ GivenAs("trust_list")' = GivenAs("trust_list")
    <2>1. l.list = list /\ l.flag = "lotl"
        BY <1>2, <1>6
    <2>2. GivenAs("lotl")' = GivenAs("lotl") \union {list}
        BY <1>4, <2>1
    <2>3. GivenAs("trust_list")' = GivenAs("trust_list")
        BY <1>5, <2>1
    <2> QED
        BY <2>2, <2>3
<1>7. ASSUME flag = "trust_list"
      PROVE  /\ GivenAs("lotl")' = GivenAs("lotl")
             /\ GivenAs("trust_list")' = GivenAs("trust_list") \union {list}
    <2>1. l.list = list /\ l.flag = "trust_list"
        BY <1>2, <1>7
    <2>2. GivenAs("lotl")' = GivenAs("lotl")
        BY <1>4, <2>1
    <2>3. GivenAs("trust_list")' = GivenAs("trust_list") \union {list}
        BY <1>5, <2>1
    <2> QED
        BY <2>2, <2>3
<1> QED
    BY <1>6, <1>7

\* Who signed for some certificates signed for more of them.
LEMMA SignedByMore ==
    ASSUME NEW list, NEW C, NEW D, C \subseteq D, SignedBy(list, C)
    PROVE  SignedBy(list, D)
<1> QED
    BY DEF SignedBy

LEMMA LoadedInit == TrustInit => LoadedInv
<1> SUFFICES ASSUME TrustInit PROVE LoadedInv
    OBVIOUS
<1>1. services = {} /\ anchors = {} /\ EntriesOf(signers) = {} /\ EntriesOf(loaded) = {}
    BY DEF TrustInit, EntriesOf
<1>2. GivenAs("trust_list") = {}
    BY <1>1 DEF GivenAs
<1> QED
    BY <1>1, <1>2 DEF LoadedInv

\* Nothing changes of the lists where none is loaded.
LEMMA LoadedStays ==
    ASSUME LoadedInv, UNCHANGED <<command, services, checks, signers, loaded>>,
           \A a \in anchors' : a.origin = "trust_list" => a \in anchors
    PROVE  LoadedInv'
<1>1. \A flag : GivenAs(flag)' = GivenAs(flag)
    BY DEF GivenAs
<1>2. Accountable' = Accountable
    BY <1>1 DEF Accountable, Own
<1>3. Supported' = Supported
    BY DEF Supported
<1> QED
    BY <1>1, <1>2, <1>3 DEF LoadedInv

\* Before the lists are loaded there is only the caller's certificate.
LEMMA LoadedBySigner ==
    ASSUME TrustTypeOK, EarlyInv, LoadedInv, LoadSigner
    PROVE  LoadedInv'
<1>1. loaded = <<>> /\ signers = <<>> /\ phase = "signer"
    BY DEF LoadSigner, EarlyInv
<1>2. \/ UNCHANGED <<command, anchors, services, checks, signers, loaded>>
      \/ /\ command.signer /\ \E file \in SignerFiles : Len(file) = 1 /\ signers' = file
         /\ UNCHANGED <<command, anchors, services, checks, loaded>>
    BY Zenon DEF LoadSigner, Refuse, material
<1>3. CASE UNCHANGED <<command, anchors, services, checks, signers, loaded>>
    BY <1>3, LoadedStays
<1>4. CASE /\ command.signer /\ \E file \in SignerFiles : Len(file) = 1 /\ signers' = file
           /\ UNCHANGED <<command, anchors, services, checks, loaded>>
    <2>1. \A flag : GivenAs(flag)' = {} /\ GivenAs(flag) = {}
        BY <1>1, <1>4 DEF GivenAs, EntriesOf
    <2>2. signers' \in Seq(Certs \union {Garbage}) /\ Len(signers') = 1
        BY <1>4, SignerFilesAssumption
    <2>3. EntriesOf(signers') = {signers'[1]} /\ signers' # <<>>
        BY <2>2 DEF EntriesOf
    <2>4. Own' = {signers'[1]}
        BY <1>4, <2>3 DEF Own
    <2>5. EntriesOf(signers') \subseteq Accountable'
        BY <2>3, <2>4 DEF Accountable
    <2> QED
        BY <1>4, <2>1, <2>5 DEF LoadedInv
<1> QED
    BY <1>2, <1>3, <1>4

LEMMA Joined ==
    ASSUME NEW S, NEW s \in Seq(S), NEW t \in Seq(S)
    PROVE  /\ EntriesOf(s \o t) \subseteq EntriesOf(s) \union EntriesOf(t)
           /\ s # <<>> => s \o t # <<>> /\ (s \o t)[1] = s[1]
<1> DEFINE u == s \o t
<1>1. DOMAIN s = 1 .. Len(s) /\ DOMAIN t = 1 .. Len(t) /\ DOMAIN u = 1 .. Len(s) + Len(t)
      /\ Len(s) \in Nat /\ Len(t) \in Nat
    OBVIOUS
<1>2. /\ \A k \in 1 .. Len(s) : u[k] = s[k]
      /\ \A k \in 1 .. Len(t) : u[Len(s) + k] = t[k]
    OBVIOUS
<1> HIDE DEF u
<1>3. ASSUME NEW k \in DOMAIN u PROVE u[k] \in EntriesOf(s) \union EntriesOf(t)
    <2>1. CASE k <= Len(s)
        BY <1>1, <1>2, <2>1 DEF EntriesOf
    <2>2. CASE ~(k <= Len(s))
        <3>1. k - Len(s) \in 1 .. Len(t) /\ u[k] = t[k - Len(s)]
            BY <1>1, <1>2, <2>2
        <3> QED
            BY <1>1, <3>1 DEF EntriesOf
    <2> QED
        BY <2>1, <2>2
<1>4. EntriesOf(u) \subseteq EntriesOf(s) \union EntriesOf(t)
    BY <1>3 DEF EntriesOf
<1>5. ASSUME s # <<>> PROVE u # <<>> /\ u[1] = s[1]
    <2>1. 1 \in 1 .. Len(s) /\ 1 \in DOMAIN u
        BY <1>1, <1>5
    <2>2. DOMAIN <<>> = {}
        OBVIOUS
    <2> QED
        BY <1>2, <2>1, <2>2
<1> QED
    BY <1>4, <1>5 DEF u

\* The list of lists is held against the caller's certificate alone.
LEMMA LoadedByLotl ==
    ASSUME TrustTypeOK, EarlyInv, LoadedInv, LoadLotl
    PROVE  LoadedInv'
<1>1. loaded = <<>> /\ Len(signers) = IF command.signer THEN 1 ELSE 0
    BY DEF LoadLotl, EarlyInv
<1>2. \/ UNCHANGED <<command, anchors, services, checks, signers, loaded>>
      \/ \E list \in Lists :
            /\ checks' = checks \union ListSignatureChecks(list, signers)
            /\ signers' = signers \o Pointers(list)
            /\ loaded' = Append(loaded, [list |-> list, flag |-> "lotl"])
            /\ UNCHANGED <<command, anchors, services>>
    BY Zenon DEF LoadLotl, Refuse, material
<1>3. CASE UNCHANGED <<command, anchors, services, checks, signers, loaded>>
    BY <1>3, LoadedStays
<1>4. ASSUME NEW list \in Lists,
             checks' = checks \union ListSignatureChecks(list, signers),
             signers' = signers \o Pointers(list),
             loaded' = Append(loaded, [list |-> list, flag |-> "lotl"]),
             UNCHANGED <<command, anchors, services>>
      PROVE  LoadedInv'
    <2>1. loaded \in Seq([list : Lists, flag : {"lotl", "trust_list"}])
          /\ signers \in Seq(Certs)
        BY DEF TrustTypeOK
    <2>2. GivenAs("trust_list")' = GivenAs("trust_list") /\ GivenAs("lotl")' = GivenAs("lotl") \union {list}
        BY <1>4, GivenMore
    <2>3. GivenAs("trust_list") = {}
        BY <1>1 DEF GivenAs, EntriesOf
    <2>4. Pointers(list) \in Seq(Certs)
          /\ EntriesOf(Pointers(list)) \subseteq EntriesOf(list.content.pointers) \intersect Certs
        BY PointersFacts
    <2>5. ASSUME Supported' PROVE EntriesOf(signers') \subseteq Accountable'
        <3>1. \A c \in ListSignatureChecks(list, signers) : c.status \in {"passed", "info"}
            BY <1>4, <2>5 DEF Supported
        <3>2. signers # <<>> /\ SignedBy(list, EntriesOf(signers))
            BY <2>1, <3>1, SignatureFacts
        <3>3. command.signer /\ Len(signers) = 1
            BY <1>1, <2>1, <3>2
        <3>4. EntriesOf(signers) = {signers[1]}
            BY <2>1, <3>3 DEF EntriesOf
        <3>5. signers' # <<>> /\ signers'[1] = signers[1]
            BY <1>4, <2>1, <2>4, <3>2, Joined
        <3>6. Own' = {signers[1]}
            BY <1>4, <3>3, <3>5 DEF Own
        <3>7. EntriesOf(list.content.pointers) \intersect Certs \subseteq Accountable'
            BY <2>2, <3>2, <3>4, <3>6 DEF Accountable
        <3>8. EntriesOf(signers') \subseteq EntriesOf(signers) \union EntriesOf(Pointers(list))
            BY <1>4, <2>1, <2>4, Joined
        <3> QED
            BY <2>4, <3>4, <3>6, <3>7, <3>8 DEF Accountable
    <2> QED
        BY <1>4, <2>2, <2>3, <2>5 DEF LoadedInv
<1> QED
    BY <1>2, <1>3, <1>4

\* A list is held against the pool as it then is.
LEMMA LoadedByList ==
    ASSUME TrustTypeOK, LoadedInv, LoadList
    PROVE  LoadedInv'
<1>1. \/ Refuse
      \/ \E list \in Lists :
            /\ checks' = checks \union ListSignatureChecks(list, signers)
            /\ anchors' = anchors \union AnchorsOf(list)
            /\ services' = services \union ServicesOf(list)
            /\ loaded' = Append(loaded, [list |-> list, flag |-> "trust_list"])
            /\ UNCHANGED <<command, signers>>
    BY Zenon DEF LoadList
<1>2. CASE Refuse
    BY <1>2, LoadedStays DEF Refuse, material
<1>3. ASSUME NEW list \in Lists,
             checks' = checks \union ListSignatureChecks(list, signers),
             anchors' = anchors \union AnchorsOf(list),
             services' = services \union ServicesOf(list),
             loaded' = Append(loaded, [list |-> list, flag |-> "trust_list"]),
             UNCHANGED <<command, signers>>
      PROVE  LoadedInv'
    <2>1. loaded \in Seq([list : Lists, flag : {"lotl", "trust_list"}])
          /\ signers \in Seq(Certs)
        BY DEF TrustTypeOK
    <2>2. GivenAs("trust_list")' = GivenAs("trust_list") \union {list} /\ GivenAs("lotl")' = GivenAs("lotl")
        BY <1>3, GivenMore
    <2>3. Own' = Own
        BY <1>3 DEF Own
    <2>4. Accountable' = Accountable
        BY <2>2, <2>3 DEF Accountable
    <2>5. services' = UNION {ServicesOf(l) : l \in GivenAs("trust_list")'}
        <3> HIDE DEF LoadedInv
        <3>1. services = UNION {ServicesOf(l) : l \in GivenAs("trust_list")}
            BY DEF LoadedInv
        <3> QED
            BY <1>3, <2>2, <3>1
    <2>6. ASSUME NEW a \in anchors', a.origin = "trust_list"
          PROVE  \E l \in GivenAs("trust_list")' : a \in AnchorsOf(l)
        BY <1>3, <2>2, <2>6 DEF LoadedInv
    <2>7. ASSUME Supported'
          PROVE  /\ EntriesOf(signers') \subseteq Accountable'
                 /\ \A l \in GivenAs("trust_list")' : SignedBy(l, Accountable')
        <3>1. \A c \in ListSignatureChecks(list, signers) : c.status \in {"passed", "info"}
            BY <1>3, <2>7 DEF Supported
        <3>2. SignedBy(list, EntriesOf(signers))
            BY <2>1, <3>1, SignatureFacts
        <3>3. Supported
            BY <1>3, <2>7 DEF Supported
        <3>4. EntriesOf(signers) \subseteq Accountable
              /\ \A l \in GivenAs("trust_list") : SignedBy(l, Accountable)
            BY <3>3 DEF LoadedInv
        <3>5. SignedBy(list, Accountable)
            BY <3>2, <3>4, SignedByMore
        <3> QED
            BY <1>3, <2>2, <2>4, <3>4, <3>5
    <2> QED
        BY <2>2, <2>5, <2>6, <2>7 DEF LoadedInv
<1> QED
    BY <1>1, <1>2, <1>3

LEMMA LoadedStep ==
    ASSUME TrustTypeOK, EarlyInv, LoadedInv, [TrustNext]_trustVars
    PROVE  LoadedInv'
<1>1. CASE \/ StartStore \/ ChooseLayout \/ ListDirectory \/ Inspect \/ ReadEntry \/ NextDirectory
           \/ ListsLoaded \/ Gather \/ Verify
    <2>1. UNCHANGED <<command, material>>
        BY <1>1, Zenon DEF StartStore, ChooseLayout, ListDirectory, Inspect, ReadEntry,
                    NextDirectory, ListsLoaded, Gather, Verify, Refuse
    <2> QED
        BY <2>1, LoadedStays DEF material
<1>2. ASSUME NEW n \in Name, NEW entry \in Entry, Change(n, entry) PROVE LoadedInv'
    BY <1>2, LoadedStays DEF Change, material
<1>5. CASE Relinked
    BY <1>5, LoadedStays DEF Relinked, Relink, material
<1>3. CASE ParseStore
    <2>1. /\ UNCHANGED <<command, services, checks, signers, loaded>>
          /\ \/ anchors' = anchors
             \/ anchors' = {[cert |-> c, origin |-> "trust_store"] : c \in From({"anchors", "top"})}
        BY <1>3, Zenon DEF ParseStore, Refuse, material
    <2>2. \A a \in anchors' : a.origin = "trust_list" => a \in anchors
        BY <2>1
    <2> QED
        BY <2>1, <2>2, LoadedStays
<1>4. CASE UNCHANGED trustVars
    BY <1>4, LoadedStays DEF trustVars, material
<1> QED
    BY <1>1, <1>2, <1>3, <1>4, <1>5, LoadedBySigner, LoadedByLotl, LoadedByList
    DEF TrustNext, Relinked

(***************************************************************************)
(* What the lists make of a chain.                                         *)
(***************************************************************************)

\* What was given is lists.
LEMMA GivenIsList ==
    ASSUME TrustTypeOK, NEW flag, NEW l \in GivenAs(flag)
    PROVE  l \in Lists
<1> DEFINE Loaded == [list : Lists, flag : {"lotl", "trust_list"}]
<1>1. \A k \in DOMAIN loaded : loaded[k] \in Loaded
    <2>1. loaded \in Seq(Loaded)
        BY DEF TrustTypeOK
    <2> HIDE DEF Loaded
    <2> QED
        BY <2>1
<1>2. \A k \in DOMAIN loaded : loaded[k].list \in Lists
    BY <1>1
<1>3. \A k \in EntriesOf(loaded) : k.list \in Lists
    BY <1>2 DEF EntriesOf
<1> QED
    BY <1>3 DEF GivenAs

\* A chain that a service covers is covered by what a list given says of it.
LEMMA CoveredByList ==
    ASSUME TrustTypeOK, LoadedInv, NEW path, NEW time, Covering(path, time) # {}
    PROVE  \E l \in GivenAs("trust_list") : \E sv \in EntriesOf(l.content.services) :
                /\ IssuesQualified(sv, time)
                /\ \E c \in EntriesOf(path) : Names(sv, c)
<1>1. PICK s \in services : Grants(s.timeline, time) /\ IdentityCovers(s.id, path)
    BY DEF Covering
<1>2. PICK l \in GivenAs("trust_list") : s \in ServicesOf(l)
    BY DEF LoadedInv
<1>3. l \in Lists
    BY GivenIsList
<1>4. PICK sv \in Stated(l) : s.id \in Identities(sv) /\ s.timeline = Timeline(sv)
    BY <1>2, <1>3, ContributedFacts
<1>5. IssuesQualified(sv, time)
    BY <1>1, <1>3, <1>4, GrantIsTheNewest
<1>6. \E c \in EntriesOf(path) : Names(sv, c)
    BY <1>1, <1>3, <1>4, CoveringNames
<1> QED
    BY <1>5, <1>6 DEF Stated

\* Without a service no list given says anything.
LEMMA NoService ==
    ASSUME TrustTypeOK, LoadedInv, services = {}
    PROVE  \A l \in GivenAs("trust_list") : \A sv \in EntriesOf(l.content.services) :
                \A k \in DOMAIN sv : sv[k].kind \in Kinds =>
                    \A id \in sv[k].ids : id.of = Garbage
<1>1. SUFFICES ASSUME NEW l \in GivenAs("trust_list"), NEW sv \in Stated(l),
                      NEW k \in DOMAIN sv, sv[k].kind \in Kinds, NEW id \in sv[k].ids
               PROVE  id.of = Garbage
    BY DEF Stated
<1>2. l \in Lists
    BY GivenIsList
<1>3. ServicesOf(l) = {}
    BY DEF LoadedInv
<1>4. Identities(sv) = {}
    BY <1>2, <1>3, NothingStated
<1>5. IsSequence(sv)
    BY <1>2, StatedFacts
<1> QED
    BY <1>1, <1>4, <1>5, IdentitiesFacts

LEMMA QualifiedInit == TrustInit => QualifiedIsEarned
<1> QED
    BY DEF TrustInit, QualifiedIsEarned

LEMMA QualifiedStep ==
    ASSUME TrustTypeOK, LoadedInv, QualifiedIsEarned, [TrustNext]_trustVars
    PROVE  QualifiedIsEarned'
<1>1. ASSUME phase' # "done" PROVE QualifiedIsEarned'
    BY <1>1 DEF QualifiedIsEarned
<1>2. CASE \/ StartStore \/ ChooseLayout \/ ListDirectory \/ Inspect \/ ReadEntry \/ NextDirectory \/ ParseStore
           \/ LoadSigner \/ LoadLotl \/ LoadList \/ ListsLoaded \/ Gather
    <2>1. phase' # "done"
        <3>1. CASE \/ StartStore \/ ChooseLayout \/ ListDirectory \/ NextDirectory \/ ParseStore
                   \/ ListsLoaded \/ Gather
            BY <3>1, Zenon DEF StartStore, ChooseLayout, ListDirectory, NextDirectory, ParseStore, ListsLoaded,
                        Gather, Refuse
        <3>2. CASE Inspect \/ ReadEntry
            BY <3>2, Zenon DEF Inspect, ReadEntry, Refuse
        <3>3. CASE LoadSigner \/ LoadLotl \/ LoadList
            BY <3>3, Zenon DEF LoadSigner, LoadLotl, LoadList, Refuse
        <3> QED
            BY <1>2, <3>1, <3>2, <3>3
    <2> QED
        BY <1>1, <2>1
<1>3. ASSUME NEW n \in Name, NEW entry \in Entry, Change(n, entry) PROVE QualifiedIsEarned'
    BY <1>1, <1>3 DEF Change, Changing
<1>6. CASE Relinked
    BY <1>1, <1>6 DEF Relinked, Relink, Changing
<1>4. CASE Verify
    <2>1. PICK path \in Paths, time \in Times :
            outcome' = [path |-> path, time |-> time, qualified |-> Qualified(path, time),
                        device |-> IF Covering(path, time) = {} THEN "unknown"
                                   ELSE Device(path[1]),
                        origin |-> IF path[Len(path)] \in Listed THEN "trust_list"
                                   ELSE "trust_store"]
        BY <1>4 DEF Verify
    <2>2. loaded' = loaded
        BY <1>4 DEF Verify, material
    <2>3. GivenAs("trust_list")' = GivenAs("trust_list")
        BY <2>2 DEF GivenAs
    <2>4. outcome'.path = path /\ outcome'.time = time /\ outcome'.qualified = Qualified(path, time)
        BY <2>1
    <2>5. ASSUME outcome'.qualified = "yes"
          PROVE  /\ ~Denies(path[1])
                 /\ \E l \in GivenAs("trust_list") : \E sv \in EntriesOf(l.content.services) :
                        /\ IssuesQualified(sv, time)
                        /\ \E c \in EntriesOf(path) : Names(sv, c)
        <3>1. Covering(path, time) # {} /\ ~Denies(path[1])
            BY <2>4, <2>5 DEF Qualified
        <3> QED
            BY <3>1, CoveredByList
    <2>6. ASSUME outcome'.qualified = "unknown"
          PROVE  \A l \in GivenAs("trust_list") : \A sv \in EntriesOf(l.content.services) :
                    \A k \in DOMAIN sv : sv[k].kind \in Kinds =>
                        \A id \in sv[k].ids : id.of = Garbage
        <3>1. services = {}
            BY <2>4, <2>6 DEF Qualified
        <3> QED
            BY <3>1, NoService
    <2> QED
        BY <2>3, <2>4, <2>5, <2>6 DEF QualifiedIsEarned
<1>5. CASE UNCHANGED trustVars
    <2>1. phase' = phase /\ outcome' = outcome /\ GivenAs("trust_list")' = GivenAs("trust_list")
        BY <1>5 DEF trustVars, used, material, GivenAs
    <2> QED
        BY <2>1 DEF QualifiedIsEarned
<1> QED
    BY <1>2, <1>3, <1>4, <1>5, <1>6 DEF TrustNext, Relinked

(***************************************************************************)
(* The inductive invariant, and what it comes to.                          *)
(***************************************************************************)

\* Between any two steps the run is of its types, no file of the store that
\* nobody touched is lost, no more was read than the budget, and what was loaded
\* is what the lists say, with the signers they are held against.
THEOREM TrustInvariant == TrustSpec => []TrustInv
<1>1. TrustInit => TrustInv
    BY TypeInit, FolderInit, StoreReadInit, BudgetInit, TakenInit, EarlyInit, LoadedInit DEF TrustInv
<1>2. TrustInv /\ [TrustNext]_trustVars => TrustInv'
    BY TrustTypeStep, FolderStep, StoreReadStep, BudgetStep, TakenStep, EarlyStep, LoadedStep DEF TrustInv
<1> QED
    BY <1>1, <1>2, PTL DEF TrustSpec

\* The store taken is the whole store: every file nobody touched and no failing
\* directory call withheld, nothing through an entry that is a link, and all
\* within the budget (trust.rs, input.rs), of whatever entries and sizes it is
\* and whichever of its directories are, or become, links.
THEOREM TrustStoreIsWhole == TrustSpec => []StoreIsWhole
<1>1. TrustInv => StoreIsWhole
    <2> SUFFICES ASSUME TrustInv, command.store, phase \in {"verify", "done"}
                 PROVE  /\ \A n \in Sought \ (changed \union unlisted) :
                            disk[n].kind = "file" => EntriesOf(disk[n].certs) \subseteq Taken
                        /\ Taken \subseteq regular \union Followed
                        /\ Cardinality(Octets) <= MaxStoreBytes
        BY DEF StoreIsWhole
    <2>1. Cardinality(Octets) \in Nat
        BY FS_CardinalityType DEF TrustInv, BudgetInv
    <2>2. Cardinality(Octets) <= MaxStoreBytes
        BY <2>1, LimitsAssumption DEF TrustInv, TrustTypeOK, BudgetInv
    <2> QED
        BY <2>2 DEF TrustInv, TakenInv
<1> QED
    BY <1>1, TrustInvariant, PTL

\* Unless the verdict is held back, every anchor and service taken from a list
\* stands in one whose whole content was signed by the caller's certificate or by
\* one a list of lists under that certificate names (trustlist/mod.rs,
\* commands/verify.rs), whatever lists are given and however they are signed.
THEOREM TrustOnlySigned == TrustSpec => []TrustIsSigned
<1>1. TrustInv => TrustIsSigned
    <2> DEFINE signed == {l \in GivenAs("trust_list") : SignedBy(l, Accountable)}
               stated == UNION {EntriesOf(l.content.services) : l \in signed}
    <2> SUFFICES ASSUME TrustInv, Supported
                 PROVE  /\ \A a \in anchors : a.origin = "trust_list" =>
                            \E sv \in stated : \E instance \in EntriesOf(sv) :
                                [form |-> "certificate", of |-> a.cert] \in instance.ids
                        /\ \A s \in services :
                            \E sv \in stated : s.id \in Identities(sv) /\ s.timeline = Timeline(sv)
        BY DEF TrustIsSigned
    <2>1. \A l \in GivenAs("trust_list") : l \in Lists /\ l \in signed
        BY GivenIsList DEF TrustInv, LoadedInv
    <2>2. \A l \in GivenAs("trust_list") : Stated(l) \subseteq stated
        BY <2>1 DEF Stated
    <2> HIDE DEF signed, stated
    <2>3. ASSUME NEW a \in anchors, a.origin = "trust_list"
          PROVE  \E sv \in stated : \E instance \in EntriesOf(sv) :
                    [form |-> "certificate", of |-> a.cert] \in instance.ids
        <3>1. PICK l \in GivenAs("trust_list") : a \in AnchorsOf(l)
            BY <2>3 DEF TrustInv, LoadedInv
        <3>2. PICK sv \in Stated(l) :
                \E id \in Identities(sv) : id.form = "certificate" /\ id.of = a.cert
            BY <2>1, <3>1, ContributedFacts
        <3>3. PICK id \in Identities(sv) : id.form = "certificate" /\ id.of = a.cert
            BY <3>2
        <3>4. IsSequence(sv) /\ \A k \in DOMAIN sv : \A i \in sv[k].ids : IdentityOK(i)
            BY <2>1, StatedFacts
        <3>5. PICK k \in DOMAIN sv : id \in sv[k].ids
            BY <3>3, <3>4, IdentitiesFacts
        <3>6. id = [form |-> "certificate", of |-> a.cert]
            BY <3>3, <3>4, <3>5 DEF IdentityOK
        <3>7. sv[k] \in EntriesOf(sv) /\ sv \in stated
            BY <2>2 DEF EntriesOf
        <3> QED
            BY <3>5, <3>6, <3>7
    <2>4. ASSUME NEW s \in services
          PROVE  \E sv \in stated : s.id \in Identities(sv) /\ s.timeline = Timeline(sv)
        <3>1. PICK l \in GivenAs("trust_list") : s \in ServicesOf(l)
            BY DEF TrustInv, LoadedInv
        <3> QED
            BY <2>1, <2>2, <3>1, ContributedFacts
    <2> QED
        BY <2>3, <2>4
<1> QED
    BY <1>1, TrustInvariant, PTL

\* A chain is called qualified only where some list given says it at the newest
\* of its dated statements about a service that is or issued part of the chain,
\* and is left open only where no list says anything (trustlist/qualified.rs,
\* trustlist/services.rs), for any history of any service.
THEOREM TrustQualifiedIsEarned == TrustSpec => []QualifiedIsEarned
<1>1. TrustInv /\ QualifiedIsEarned /\ [TrustNext]_trustVars => QualifiedIsEarned'
    BY QualifiedStep DEF TrustInv
<1> QED
    BY <1>1, QualifiedInit, TrustInvariant, PTL DEF TrustSpec

(***************************************************************************)
(* The search on the trust that was loaded.                                *)
(***************************************************************************)

\* The run of the composition is one of each part.
LEMMA ComposedSteps ==
    ASSUME [TrustedNext]_<<vars, trustVars>>
    PROVE  [Next]_vars /\ [TrustNext]_trustVars
<1>1. CASE Configure
    BY <1>1 DEF Configure
<1>2. CASE Validate
    BY <1>2 DEF Validate
<1>3. CASE Qualify
    BY <1>3 DEF Qualify, TrustNext
<1> QED
    BY <1>1, <1>2, <1>3 DEF TrustedNext

THEOREM ComposedRuns == TrustedSpec => Spec /\ TrustSpec
<1>1. TrustedInit => Init /\ TrustInit
    BY DEF TrustedInit
<1> QED
    BY <1>1, ComposedSteps, PTL DEF TrustedSpec, Spec, TrustSpec

\* The anchors of the verification are those given that sign themselves.
SortedInv ==
    phase \in {"verify", "done"} =>
        roots = {c \in {a.cert : a \in anchors} : SelfSigned(c)}

\* Whatever was answered was asked with the trust that is there, and what the
\* lists were asked of is what was answered.
HandedInv ==
    /\ answer # NoOutcome => phase \in {"verify", "done"} /\ HandedOver
    /\ outcome.qualified = "yes" =>
        /\ phase = "done"
        /\ outcome.path = answer.path /\ outcome.time = request.time

LEMMA TrustEnds == TrustNext => phase # "done"
<1> QED
    BY DEF TrustNext, StartStore, Change, Relink, Changing, ChooseLayout, ListDirectory, Inspect, ReadEntry, NextDirectory,
       ParseStore, LoadSigner, LoadLotl, LoadList, ListsLoaded, Gather, Verify

\* Up to the verification nothing is said of a chain, and what comes to it is
\* sorted.
LEMMA BeforeSorting ==
    ASSUME TrustNext, phase # "verify"
    PROVE  outcome' = outcome /\ (phase' \in {"verify", "done"} => Gather)
<1>1. CASE \/ StartStore \/ \E n \in Name, entry \in Entry : Change(n, entry)
           \/ Relinked \/ ChooseLayout \/ NextDirectory \/ ParseStore \/ ListsLoaded
    BY <1>1, Zenon DEF StartStore, Change, Changing, Relinked, Relink, ChooseLayout,
       NextDirectory, ParseStore, ListsLoaded, Refuse, used
<1>2. CASE ListDirectory
    <2>1. UNCHANGED used /\ (phase' = "refused" \/ phase' = "entries")
        BY <1>2, Zenon DEF ListDirectory, Refuse
    <2> QED
        BY <2>1 DEF used
<1>3. CASE Inspect \/ ReadEntry
    <2>1. UNCHANGED used /\ (phase' = "refused" \/ (phase = "entries" /\ phase' = phase))
        BY <1>3, Zenon DEF Inspect, ReadEntry, Refuse
    <2> QED
        BY <2>1 DEF used
<1>4. CASE LoadSigner \/ LoadLotl \/ LoadList
    <2>1. UNCHANGED used /\ phase' \in {"refused", "lotl", "lists"}
        BY <1>4, Zenon DEF LoadSigner, LoadLotl, LoadList, Refuse
    <2> QED
        BY <2>1 DEF used
<1>5. CASE Gather
    BY <1>5 DEF Gather
<1>6. CASE Verify
    BY <1>6 DEF Verify
<1> QED
    BY <1>1, <1>2, <1>3, <1>4, <1>5, <1>6 DEF TrustNext, Relinked

LEMMA SortedInit == TrustInit => SortedInv
<1> QED
    BY DEF TrustInit, SortedInv

LEMMA SortedStep == SortedInv /\ [TrustNext]_trustVars => SortedInv'
<1> SUFFICES ASSUME SortedInv, [TrustNext]_trustVars, phase' \in {"verify", "done"}
             PROVE  roots' = {c \in {a.cert : a \in anchors'} : SelfSigned(c)}
    BY DEF SortedInv
<1>1. CASE Gather
    <2>1. anchors' = anchors /\ roots' = {c \in {a.cert : a \in anchors} : SelfSigned(c)}
        BY <1>1 DEF Gather, material
    <2> QED
        BY <2>1
<1>2. CASE Verify
    BY <1>2 DEF Verify, material, SortedInv
<1>3. CASE TrustNext /\ phase # "verify"
    BY <1>1, <1>3, BeforeSorting
<1>4. CASE TrustNext /\ phase = "verify"
    <2>1. Verify
        BY <1>4, Zenon DEF TrustNext, StartStore, Change, Relink, Changing, ChooseLayout, ListDirectory,
           Inspect, ReadEntry,
           NextDirectory, ParseStore, LoadSigner, LoadLotl, LoadList, ListsLoaded, Gather
    <2> QED
        BY <1>2, <2>1
<1>5. CASE UNCHANGED trustVars
    BY <1>5 DEF trustVars, material, used, SortedInv
<1> QED
    BY <1>3, <1>4, <1>5

\* What is handed over stands while neither the request nor the trust changes.
LEMMA HandedOverStays ==
    ASSUME UNCHANGED <<request, anchors, services, roots, extras>>
    PROVE  HandedOver' = HandedOver
<1> QED
    BY DEF HandedOver, ByCertificate

LEMMA HandedInit == TrustedInit => HandedInv
<1> QED
    BY DEF TrustedInit, Init, TrustInit, HandedInv, Nothing

LEMMA HandedStep == HandedInv /\ [TrustedNext]_<<vars, trustVars>> => HandedInv'
<1> SUFFICES ASSUME HandedInv, [TrustedNext]_<<vars, trustVars>> PROVE HandedInv'
    OBVIOUS
<1>1. CASE Configure
    <2>1. phase # "verify" /\ phase # "done" /\ TrustNext
        BY <1>1, TrustEnds DEF Configure
    <2>2. answer = NoOutcome /\ answer' = answer /\ outcome.qualified # "yes"
        BY <1>1, <2>1 DEF Configure, vars, verdict, HandedInv
    <2>3. outcome' = outcome
        BY <2>1, BeforeSorting
    <2>4. NoOutcome' = NoOutcome
        BY DEF NoOutcome, Outcome
    <2> QED
        BY <2>2, <2>3, <2>4 DEF HandedInv
<1>2. CASE Validate
    <2>1. /\ phase = "verify" /\ HandedOver /\ phase' = phase /\ outcome' = outcome
          /\ UNCHANGED <<anchors, services, roots, extras>>
        BY <1>2 DEF Validate, trustVars, material, used
    <2>2. request' = request
        BY <1>2, Zenon DEF Validate, Next, NoTrust, OfferCandidate, CandidatesOffered, OfferAnchor,
           AnchorsOffered, Expand, Return, Finish, NoPath, Judge, Conclude, Done, vars
    <2>3. HandedOver'
        BY <2>1, <2>2, HandedOverStays
    <2> QED
        BY <2>1, <2>3 DEF HandedInv
<1>3. CASE Qualify
    <2>1. /\ phase = "verify" /\ phase' = "done" /\ outcome'.path = answer.path
          /\ outcome'.time = request.time
          /\ UNCHANGED <<anchors, services, roots, extras, request, answer>>
        BY <1>3 DEF Qualify, Verify, material, vars, verdict
    <2>2. answer' # NoOutcome' => HandedOver'
        BY <2>1, HandedOverStays DEF HandedInv, NoOutcome, Outcome
    <2> QED
        BY <2>1, <2>2 DEF HandedInv
<1>4. CASE UNCHANGED <<vars, trustVars>>
    <2>1. UNCHANGED <<anchors, services, roots, extras, request, answer, phase, outcome>>
        BY <1>4 DEF vars, verdict, trustVars, material, used
    <2>2. HandedOver' = HandedOver
        BY <2>1, HandedOverStays
    <2> QED
        BY <2>1, <2>2 DEF HandedInv, NoOutcome, Outcome
<1> QED
    BY <1>1, <1>2, <1>3, <1>4 DEF TrustedNext

\* What a list says of a service, when the search is told that it is granted.
LEMMA SaysGranted ==
    ASSUME NEW list \in Lists, NEW sv \in Stated(list), NEW s, NEW kind,
           s.entries = [k \in DOMAIN Timeline(sv) |-> Line(Timeline(sv)[k])],
           Granted(s, kind)
    PROVE  \E k \in Dated(sv, request.time) :
                /\ \A j \in Dated(sv, request.time) : sv[j].since <= sv[k].since
                /\ sv[k].kind = kind
                /\ \/ sv[k].status = "granted"
                   \/ sv[k].status = "accredited" /\ request.time < EidasDate
<1> DEFINE t == Timeline(sv)
<1> HIDE DEF t
<1>1. s.entries = [k \in DOMAIN t |-> Line(t[k])]
    BY DEF t
<1>2. DOMAIN s.entries = DOMAIN t
    BY <1>1
<1>3. \A k \in DOMAIN t : /\ s.entries[k].kind = t[k].kind /\ s.entries[k].since = t[k].since
                          /\ s.entries[k].status = t[k].status
    BY <1>1 DEF Line
<1>4. InForce(s.entries, request.time) = InForce(t, request.time)
    BY <1>2, <1>3 DEF InForce
<1>5. \A k \in InForce(t, request.time) : k \in DOMAIN t
    BY DEF InForce
<1>6. GrantedAt(t, kind, request.time)
    BY <1>3, <1>4, <1>5 DEF Granted, GrantedAt
<1> QED
    BY <1>6, NewestGrants DEF t

\* What a list says nothing of, the search is told nothing of.
LEMMA SaysNothingOf ==
    ASSUME NEW list \in Lists, NEW sv \in Stated(list), NEW s,
           s.entries = [k \in DOMAIN Timeline(sv) |-> Line(Timeline(sv)[k])],
           \A k \in DOMAIN s.entries : s.entries[k].kind # Wanted
    PROVE  \A j \in DOMAIN sv : sv[j].kind # Wanted
<1> DEFINE t == Timeline(sv)
<1>1. EntriesOf(t) = {sv[k] : k \in {m \in DOMAIN sv : sv[m].kind \in Kinds}}
    BY StatedFacts, TimelineFacts
<1>2. \A k \in DOMAIN t : t[k].kind # Wanted
    BY DEF Line
<1> HIDE DEF t
<1>3. SUFFICES ASSUME NEW j \in DOMAIN sv, sv[j].kind = Wanted PROVE FALSE
    OBVIOUS
<1>4. sv[j].kind \in Kinds
    BY <1>3 DEF Wanted, Kinds
<1>5. PICK i \in DOMAIN t : t[i] = sv[j]
    BY <1>1, <1>4 DEF EntriesOf
<1> QED
    BY <1>2, <1>3, <1>5

\* A service the search is told of is one of a list given.
LEMMA ToldByList ==
    ASSUME TrustTypeOK, LoadedInv, HandedOver, NEW c, NEW s \in Services(c)
    PROVE  \E l \in GivenAs("trust_list") : \E sv \in Stated(l) :
            /\ l \in Lists
            /\ s.entries = [k \in DOMAIN Timeline(sv) |-> Line(Timeline(sv)[k])]
            /\ \E k \in DOMAIN sv : [form |-> "certificate", of |-> c] \in sv[k].ids
<1>1. PICK w \in services : w.id.form = "certificate" /\ s = AsListed(w) /\ s.cert = c
    BY DEF HandedOver, Services, ByCertificate
<1>2. PICK l \in GivenAs("trust_list") : w \in ServicesOf(l)
    BY DEF LoadedInv
<1>3. l \in Lists
    BY GivenIsList
<1>4. PICK sv \in Stated(l) : w.id \in Identities(sv) /\ w.timeline = Timeline(sv)
    BY <1>2, <1>3, ContributedFacts
<1>5. PICK k \in DOMAIN sv : w.id \in sv[k].ids
    BY <1>3, <1>4, StatedFacts, IdentitiesFacts
<1>6. w.id = [form |-> w.id.form, of |-> w.id.of]
    BY <1>3, <1>5, StatedFacts DEF IdentityOK
<1>7. w.id.of = c
    BY <1>1 DEF AsListed
<1>8. s.entries = [j \in DOMAIN Timeline(sv) |-> Line(Timeline(sv)[j])]
    BY <1>1, <1>4 DEF AsListed
<1> QED
    BY <1>1, <1>3, <1>5, <1>6, <1>7, <1>8

\* An anchor no service is named by was in the store.
LEMMA UnlistedIsOfTheStore ==
    ASSUME TrustTypeOK, TakenInv, LoadedInv, HandedOver, SortedInv, phase \in {"verify", "done"},
           NEW c \in EntriesOf(request.anchors), Services(c) = {}
    PROVE  c \in regular \union Followed
<1>1. PICK a \in anchors : a.cert = c
    BY DEF HandedOver, SortedInv
<1>2. CASE a.origin = "trust_store"
    BY <1>1, <1>2 DEF Taken, TakenInv
<1>3. CASE a.origin = "trust_list"
    <2>1. PICK l \in GivenAs("trust_list") : a \in AnchorsOf(l)
        BY <1>3 DEF LoadedInv
    <2>2. PICK sv \in ReadServices(l) : \E i \in CertificateIds(sv) : i.of = c
        BY <1>1, <2>1 DEF AnchorsOf
    <2>3. PICK id \in CertificateIds(sv) : id.of = c
        BY <2>2
    <2>4. id \in Identities(sv) /\ id.form = "certificate"
        BY DEF CertificateIds
    <2> DEFINE s == [id |-> id, timeline |-> Timeline(sv)]
    <2>5. s \in ServicesOf(l)
        BY <2>2, <2>4 DEF ServicesOf
    <2>6. s \in services
        BY <2>5 DEF LoadedInv
    <2>7. s.id.form = "certificate" /\ s.id.of = c
        BY <2>3, <2>4
    <2> HIDE DEF s
    <2>8. AsListed(s) \in request.services /\ AsListed(s).cert = c
        BY <2>6, <2>7 DEF HandedOver, ByCertificate, AsListed
    <2> QED
        BY <2>8 DEF Services
<1> QED
    BY <1>1, <1>2, <1>3 DEF TrustTypeOK

\* What may be relied on was read of the store, or a list grants it.
LEMMA ReliedOn ==
    ASSUME TrustTypeOK, TakenInv, LoadedInv, HandedOver, SortedInv, phase \in {"verify", "done"},
           NEW c, c \in EntriesOf(request.anchors) \/ Terminates(c), MayAnchor(c)
    PROVE  \/ c \in regular \union Followed
           \/ \E l \in GivenAs("trust_list") : \E sv \in Stated(l) :
                /\ \E k \in DOMAIN sv : [form |-> "certificate", of |-> c] \in sv[k].ids
                /\ GrantedThen(sv)
<1>1. CASE c \in request.vouched
    BY <1>1 DEF HandedOver, Taken, TakenInv
<1>2. CASE Services(c) = {}
    BY <1>2, UnlistedIsOfTheStore DEF Terminates
<1>3. CASE \E s \in Services(c) : Granted(s, Wanted)
    <2>1. PICK s \in Services(c) : Granted(s, Wanted)
        BY <1>3
    <2>2. PICK l \in GivenAs("trust_list") : \E sv \in Stated(l) :
            /\ l \in Lists
            /\ s.entries = [k \in DOMAIN Timeline(sv) |-> Line(Timeline(sv)[k])]
            /\ \E k \in DOMAIN sv : [form |-> "certificate", of |-> c] \in sv[k].ids
        BY ToldByList
    <2>3. PICK sv \in Stated(l) :
            /\ l \in Lists
            /\ s.entries = [k \in DOMAIN Timeline(sv) |-> Line(Timeline(sv)[k])]
            /\ \E k \in DOMAIN sv : [form |-> "certificate", of |-> c] \in sv[k].ids
        BY <2>2
    <2>4. GrantedThen(sv)
        BY <2>1, <2>3, SaysGranted DEF GrantedThen
    <2> QED
        BY <2>3, <2>4
<1>4. CASE /\ \A s \in Services(c) : \A k \in DOMAIN s.entries : s.entries[k].kind # Wanted
           /\ \E s \in Services(c), kind \in Kinds : Granted(s, kind)
    <2>1. PICK s \in Services(c), kind \in Kinds : Granted(s, kind)
        BY <1>4
    <2>2. PICK l \in GivenAs("trust_list") : \E sv \in Stated(l) :
            /\ l \in Lists
            /\ s.entries = [k \in DOMAIN Timeline(sv) |-> Line(Timeline(sv)[k])]
            /\ \E k \in DOMAIN sv : [form |-> "certificate", of |-> c] \in sv[k].ids
        BY ToldByList
    <2>3. PICK sv \in Stated(l) :
            /\ l \in Lists
            /\ s.entries = [k \in DOMAIN Timeline(sv) |-> Line(Timeline(sv)[k])]
            /\ \E k \in DOMAIN sv : [form |-> "certificate", of |-> c] \in sv[k].ids
        BY <2>2
    <2>4. \A j \in DOMAIN sv : sv[j].kind # Wanted
        BY <1>4, <2>3, SaysNothingOf
    <2>5. PICK k \in Dated(sv, request.time) :
                /\ \A j \in Dated(sv, request.time) : sv[j].since <= sv[k].since
                /\ \/ sv[k].status = "granted"
                   \/ sv[k].status = "accredited" /\ request.time < EidasDate
        BY <2>1, <2>3, SaysGranted
    <2>6. GrantedThen(sv)
        BY <2>4, <2>5 DEF GrantedThen
    <2> QED
        BY <2>3, <2>6
<1> QED
    BY <1>1, <1>2, <1>3, <1>4 DEF MayAnchor

\* What is accepted rests on what the caller named (verify_command,
\* verify_dossier, verify_signer_path): unless the verdict is held back, an
\* accepted chain ends at a certificate that was read of a file of the store
\* (TrustStoreIsWhole says which those are), or at one a list signed by somebody accountable grants then, and what
\* is called qualified is so by the word of such a list; for every command line,
\* store, set of lists, and request the trust comes to.
THEOREM WhatIsAccepted == TrustedSpec => []AcceptedRestsOnTrust
<1> DEFINE Composed == SortedInv /\ HandedInv
<1>1. TrustInv /\ QualifiedIsEarned /\ TrustBoundary /\ Composed => AcceptedRestsOnTrust
    <2> SUFFICES ASSUME TrustInv, QualifiedIsEarned, TrustBoundary, SortedInv, HandedInv, Supported
                 PROVE  /\ answer.code = "cert_path_ok" =>
                            \/ Last(answer.path) \in regular \union Followed
                            \/ \E l \in Signed : \E sv \in EntriesOf(l.content.services) :
                                /\ \E k \in DOMAIN sv :
                                    [form |-> "certificate", of |-> Last(answer.path)] \in sv[k].ids
                                /\ GrantedThen(sv)
                        /\ outcome.qualified = "yes" =>
                            \E l \in Signed : \E sv \in EntriesOf(l.content.services) :
                                /\ IssuesQualified(sv, request.time)
                                /\ \E c \in EntriesOf(answer.path) : Names(sv, c)
        BY DEF AcceptedRestsOnTrust
    <2>1. GivenAs("trust_list") \subseteq Signed
        BY DEF Signed, TrustInv, LoadedInv
    <2>2. ASSUME answer.code = "cert_path_ok"
          PROVE  \/ Last(answer.path) \in regular \union Followed
                 \/ \E l \in Signed : \E sv \in EntriesOf(l.content.services) :
                     /\ \E k \in DOMAIN sv :
                         [form |-> "certificate", of |-> Last(answer.path)] \in sv[k].ids
                     /\ GrantedThen(sv)
        <3> DEFINE c == Last(answer.path)
        <3>1. phase \in {"verify", "done"} /\ HandedOver
            BY <2>2 DEF HandedInv, NoOutcome, Outcome
        <3>2. (c \in EntriesOf(request.anchors) \/ Terminates(c)) /\ MayAnchor(c)
            BY <2>2 DEF TrustBoundary
        <3> HIDE DEF c
        <3>3. \/ c \in regular \union Followed
              \/ \E l \in GivenAs("trust_list") : \E sv \in Stated(l) :
                    /\ \E k \in DOMAIN sv : [form |-> "certificate", of |-> c] \in sv[k].ids
                    /\ GrantedThen(sv)
            BY <3>1, <3>2, ReliedOn DEF TrustInv
        <3> QED
            BY <2>1, <3>3 DEF Stated, c
    <2>3. ASSUME outcome.qualified = "yes"
          PROVE  \E l \in Signed : \E sv \in EntriesOf(l.content.services) :
                    /\ IssuesQualified(sv, request.time)
                    /\ \E c \in EntriesOf(answer.path) : Names(sv, c)
        <3>1. phase = "done" /\ outcome.path = answer.path /\ outcome.time = request.time
            BY <2>3 DEF HandedInv
        <3> QED
            BY <2>1, <2>3, <3>1 DEF QualifiedIsEarned
    <2> QED
        BY <2>2, <2>3
<1>2. TrustedInit => Composed
    BY SortedInit, HandedInit DEF TrustedInit
<1>3. Composed /\ [TrustedNext]_<<vars, trustVars>> => Composed'
    BY SortedStep, HandedStep, ComposedSteps
<1>4. TrustedSpec => []Composed
    BY <1>2, <1>3, PTL DEF TrustedSpec
<1> QED
    BY <1>1, <1>4, ComposedRuns, Trust, TrustInvariant, TrustQualifiedIsEarned, PTL

=============================================================================
