------------------------ MODULE OnlineRounds_proofs ------------------------
(***************************************************************************)
(* For every dossier, pool, clock and bound: the rounds keep to their      *)
(* types and budget, every request stands on a validated path that was     *)
(* charged for, no question is put twice in a round, no certificate is     *)
(* fetched for twice at one instant, the traffic of all rounds together is *)
(* bounded, what stays unanswered has a reason, and the whole implements   *)
(* GapQuestions.                                                           *)
(***************************************************************************)
EXTENDS OnlineRounds, FiniteSetTheorems, TLAPS

\* While fill_gaps works on a certificate, the certificate is one of the pool.
LEMMA CertInPool ==
    ASSUME TypeOK, pc \in Tiers \cup {"recheck"} \/ AtCertificate
    PROVE  idx \in DOMAIN Order /\ cert \in Certs
<1>1. idx \in 1 .. Len(Order)
    BY DEF TypeOK, AtCertificate, Tiers
<1> QED
    BY <1>1, PoolAssumption DEF cert

\* A request names a URL the certificate publishes.
LEMMA UrlAtHand ==
    ASSUME TypeOK, AtUrl
    PROVE  cert \in Certs /\ CurrentUrl \in Urls
<1>1. cert \in Certs /\ pc \in Tiers
    BY CertInPool DEF AtUrl
<1>2. TierUrls(pc, cert) \in Seq(Urls)
    BY <1>1, PoolAssumption DEF TierUrls
<1>3. nurl \in 1 .. Len(TierUrls(pc, cert))
    BY <1>2, BoundsAssumption DEF AtUrl, UrlCount, TypeOK
<1> QED
    BY <1>1, <1>2, <1>3 DEF CurrentUrl

LEMMA FreshPairs ==
    ASSUME TypeOK, NEW c
    PROVE  {c} \X FreshTimes(c) \subseteq fresh
BY DEF FreshTimes

\* The fetching steps of fill_gaps leave types intact.
LEMMA SendTyped ==
    ASSUME TypeOK, Send
    PROVE  sent' \in Seq(Requests)
<1>1. cert \in Certs /\ CurrentUrl \in Urls /\ pc \in Tiers
    BY UrlAtHand DEF Send, AtUrl
<1>2. [round |-> rounds, tier |-> pc, url |-> CurrentUrl, cert |-> cert,
       times |-> FreshTimes(cert)] \in Requests
    BY <1>1, BoundsAssumption DEF Requests, TypeOK, FreshTimes
<1> QED
    BY <1>2 DEF Send, TypeOK

LEMMA LeaveTierTyped ==
    ASSUME TypeOK, pc \in Tiers, LeaveTier
    PROVE  /\ pc' \in Pcs /\ idx' \in Nat \ {0} /\ nurl' \in Nat \ {0}
           /\ pc' \in Tiers \cup {"recheck"} => idx' <= Len(Order)
<1>1. Len(Order) \in Nat
    BY PoolAssumption
<1> QED
    BY <1>1 DEF TypeOK, LeaveTier, Tiers, Pcs

LEMMA TypeStep ==
    ASSUME TypeOK, [Next]_vars
    PROVE  TypeOK'
<1> USE DEF passVars, purseVars, evidenceVars
<1>0. Len(Order) \in Nat
    BY PoolAssumption
<1>1. CASE Tick
    BY <1>1 DEF Tick, TypeOK
<1>2. CASE PassFindsFresh
    <2>1. Eligible \subseteq Certs \X Times
        BY DEF Eligible, PairsOf
    <2> QED
        BY <1>2, <2>1, BoundsAssumption DEF PassFindsFresh, TypeOK, Pcs, Tiers
<1>3. CASE PassFindsNothing
    BY <1>3 DEF PassFindsNothing, TypeOK, Pcs, Tiers
<1>4. CASE BoundReached
    BY <1>4 DEF BoundReached, TypeOK, Pcs, Tiers
<1>5. CASE PassOver
    BY <1>5 DEF PassOver, AtCertificate, TypeOK, Tiers
<1>6. CASE Charge
    <2>1. {cert} \X FreshTimes(cert) \subseteq seen
        BY FreshPairs DEF TypeOK
    <2>2. idx <= Len(Order) /\ spent < budget
        BY <1>6 DEF Charge, AtCertificate
    <2> QED
        BY <1>6, <2>1, <2>2, BoundsAssumption DEF Charge, TypeOK, Pcs, Tiers
<1>7. CASE SkipTried
    BY <1>7 DEF SkipTried, AtUrl, TypeOK
<1>8. CASE FetchAnswered
    <2>1. pc \in Tiers /\ cert \in Certs
        BY <1>8, UrlAtHand DEF FetchAnswered, Send, AtUrl
    <2>2. got' \subseteq Facts
        BY <1>8, <2>1, RepliesAssumption DEF FetchAnswered, TypeOK
    <2>3. sent' \in Seq(Requests)
        BY <1>8, SendTyped DEF FetchAnswered
    <2> QED
        BY <1>8, <2>1, <2>2, <2>3, LeaveTierTyped DEF FetchAnswered, TypeOK
<1>9. CASE FetchFailed
    <2>1. sent' \in Seq(Requests)
        BY <1>9, SendTyped DEF FetchFailed
    <2> QED
        BY <1>9, <2>1 DEF FetchFailed, TypeOK
<1>10. CASE UrlsExhausted
    BY <1>10, LeaveTierTyped DEF UrlsExhausted, TypeOK
<1>11. CASE Recheck
    BY <1>11, <1>0 DEF Recheck, TypeOK, Pcs, Tiers
<1>12. CASE EndRound
    <2>1. budget - spent \in 0 .. MaxCertificates
        BY BoundsAssumption DEF TypeOK
    <2>2. prior \cup got \subseteq Facts
        BY DEF TypeOK
    <2> QED
        BY <1>12, <2>1, <2>2 DEF EndRound, TypeOK, Pcs, Tiers
<1>13. CASE FinalPass
    BY <1>13 DEF FinalPass, TypeOK, Pcs, Tiers
<1>14. CASE UNCHANGED vars
    BY <1>14 DEF vars, TypeOK
<1> QED
    BY <1>1, <1>2, <1>3, <1>4, <1>5, <1>6, <1>7, <1>8, <1>9, <1>10, <1>11,
       <1>12, <1>13, <1>14 DEF Next, Run, Finished

LEMMA TypeInit ==
    ASSUME Init
    PROVE  TypeOK
BY BoundsAssumption DEF Init, TypeOK, Pcs, Tiers, Requests

\* The state keeps its shape, the budget never goes below zero, and a charge is
\* only ever made for a pair some pass validated, for every value of the
\* constants.
THEOREM Typing == Spec => []TypeOK
<1>1. Init => TypeOK
    BY TypeInit
<1>2. TypeOK /\ [Next]_vars => TypeOK'
    BY TypeStep
<1> QED
    BY <1>1, <1>2, PTL DEF Spec
-----------------------------------------------------------------------------
(* Safety.  Each invariant is the property, plus what the running round owes *)
(* it: the certificate at hand is a charged gap, the questions of this round *)
(* are all recorded as tried, and the round's pairs are new to every earlier *)
(* request.                                                                  *)

Working == pc \in Tiers \cup {"recheck"}

\* The pairs a request is about.
About(r) == {r.cert} \X r.times

WorkingOnAGap ==
    Working => /\ cert \notin SelfSigned
               /\ FreshTimes(cert) # {}
               /\ {cert} \X FreshTimes(cert) \subseteq charged

\* No request is of a round still to come, and the pairs of this round are none
\* of those an earlier round's requests were about.
EarlierRoundsAreOver ==
    \A i \in DOMAIN sent :
        /\ sent[i].round <= rounds
        /\ sent[i].round < rounds => About(sent[i]) \cap fresh = {}

\* This round's questions are recorded.
Recorded ==
    \A i \in DOMAIN sent :
        sent[i].round = rounds
        => Question(sent[i].tier, sent[i].url, sent[i].cert) \in tried

SafetyInv ==
    /\ TypeOK
    /\ WorkingOnAGap
    /\ GatedByAValidatedPath
    /\ EarlierRoundsAreOver
    /\ Recorded
    /\ OneRequestPerQuestion
    /\ NeverAskedAgainAtATime

Request == [round |-> rounds, tier |-> pc, url |-> CurrentUrl, cert |-> cert,
            times |-> FreshTimes(cert)]

LEMMA SentTyped ==
    ASSUME TypeOK, NEW i \in DOMAIN sent
    PROVE  sent[i] \in Requests /\ sent[i].round \in Nat
<1>1. sent[i] \in Requests
    <2>1. sent \in Seq(Requests)
        BY DEF TypeOK
    <2> QED
        BY <2>1
<1> QED
    BY <1>1 DEF Requests

LEMMA SentGrows ==
    ASSUME TypeOK, Send
    PROVE  /\ DOMAIN sent' = DOMAIN sent \cup {Len(sent) + 1}
           /\ \A i \in DOMAIN sent : sent'[i] = sent[i] /\ i < Len(sent) + 1
           /\ sent'[Len(sent) + 1] = Request
<1>1. sent \in Seq(Requests) /\ Request \in Requests
    <2>1. cert \in Certs /\ CurrentUrl \in Urls /\ pc \in Tiers
        BY UrlAtHand DEF Send, AtUrl
    <2> QED
        BY <2>1, BoundsAssumption DEF Requests, Request, TypeOK, FreshTimes
<1>2. sent' = Append(sent, Request)
    BY DEF Send, Request
<1> QED
    BY <1>1, <1>2

\* What a step may do to the history: nothing is forgotten, a request is only
\* ever added by Send, and a new round starts only from a pass.
LEMMA StepKinds ==
    ASSUME TypeOK, [Next]_vars
    PROVE  /\ seen \subseteq seen' /\ charged \subseteq charged'
           /\ \/ PassFindsFresh
              \/ /\ rounds' = rounds /\ fresh' = fresh
                 /\ \/ Send
                    \/ sent' = sent /\ tried' = tried
<1> USE DEF passVars, purseVars, evidenceVars
<1> QED
    BY DEF Next, Run, Finished, vars, Tick, PassFindsFresh, PassFindsNothing,
       BoundReached, PassOver, Charge, SkipTried, FetchAnswered, FetchFailed,
       UrlsExhausted, Recheck, EndRound, FinalPass, Send

LEMMA GapStep ==
    ASSUME TypeOK, WorkingOnAGap, [Next]_vars
    PROVE  WorkingOnAGap'
<1> USE DEF passVars, purseVars, evidenceVars
<1>1. CASE Charge
    BY <1>1 DEF Charge, IsGap, WorkingOnAGap, cert, FreshTimes
<1>2. CASE UNCHANGED <<fresh, charged, idx>> /\ (Working' => Working)
    BY <1>2 DEF WorkingOnAGap, cert, FreshTimes
<1>3. CASE ~Working'
    BY <1>3 DEF WorkingOnAGap
<1> QED
    BY <1>1, <1>2, <1>3 DEF Next, Run, Finished, vars, Tick, PassFindsFresh,
       PassFindsNothing, BoundReached, PassOver, AtCertificate, SkipTried,
       FetchAnswered, FetchFailed, UrlsExhausted, Recheck, EndRound, FinalPass,
       Send, AtUrl, LeaveTier, Working, Tiers

\* The trust gate is kept by every step.
LEMMA GateStep ==
    ASSUME TypeOK, WorkingOnAGap, GatedByAValidatedPath, [Next]_vars
    PROVE  GatedByAValidatedPath'
<1>1. CASE sent' = sent
    BY <1>1, StepKinds DEF GatedByAValidatedPath
<1>2. CASE Send
    <2>1. /\ cert \notin SelfSigned /\ FreshTimes(cert) # {}
          /\ {cert} \X FreshTimes(cert) \subseteq seen \cap charged
        BY <1>2, FreshPairs DEF WorkingOnAGap, Working, Send, AtUrl, TypeOK
    <2> QED
        BY <1>2, <2>1, SentGrows, StepKinds
        DEF GatedByAValidatedPath, Request
<1> QED
    BY <1>1, <1>2, StepKinds DEF PassFindsFresh

\* Rounds stay apart: a new round's pairs are outside `seen`, which holds every
\* pair an earlier request was about.
LEMMA RoundsStep ==
    ASSUME TypeOK, GatedByAValidatedPath, EarlierRoundsAreOver, [Next]_vars
    PROVE  EarlierRoundsAreOver'
<1> USE DEF EarlierRoundsAreOver
<1>1. CASE PassFindsFresh
    <2>1. sent' = sent /\ rounds' = rounds + 1 /\ fresh' \cap seen = {}
        BY <1>1 DEF PassFindsFresh
    <2>2. ASSUME NEW i \in DOMAIN sent
          PROVE  sent[i].round \in Nat /\ About(sent[i]) \subseteq seen
        BY SentTyped DEF GatedByAValidatedPath, About
    <2> QED
        BY <2>1, <2>2, BoundsAssumption DEF TypeOK
<1>2. CASE /\ rounds' = rounds /\ fresh' = fresh /\ Send
    BY <1>2, SentGrows, BoundsAssumption DEF Request, TypeOK
<1>3. CASE /\ rounds' = rounds /\ fresh' = fresh /\ sent' = sent
    BY <1>3
<1> QED
    BY <1>1, <1>2, <1>3, StepKinds

LEMMA RecordedStep ==
    ASSUME TypeOK, EarlierRoundsAreOver, Recorded, [Next]_vars
    PROVE  Recorded'
<1>1. CASE PassFindsFresh
    <2>1. sent' = sent /\ rounds' = rounds + 1 /\ rounds \in Nat
        BY <1>1, BoundsAssumption DEF PassFindsFresh, TypeOK
    <2>2. \A i \in DOMAIN sent : sent[i].round \in Nat
        BY SentTyped
    <2> QED
        BY <2>1, <2>2 DEF EarlierRoundsAreOver, Recorded
<1>2. CASE rounds' = rounds /\ Send
    <2>1. tried' = tried \cup {Question(pc, CurrentUrl, cert)}
        BY <1>2 DEF Send
    <2> QED
        BY <1>2, <2>1, SentGrows DEF Recorded, Request
<1>3. CASE rounds' = rounds /\ sent' = sent /\ tried' = tried
    BY <1>3 DEF Recorded
<1> QED
    BY <1>1, <1>2, <1>3, StepKinds

LEMMA QuestionStep ==
    ASSUME TypeOK, Recorded, OneRequestPerQuestion, [Next]_vars
    PROVE  OneRequestPerQuestion'
<1>1. CASE Send
    <2>1. Question(pc, CurrentUrl, cert) \notin tried
        BY <1>1 DEF Send
    <2>2. SUFFICES ASSUME NEW i \in DOMAIN sent', NEW j \in DOMAIN sent',
                          i < j, sent'[i].round = sent'[j].round
                   PROVE  Question(sent'[i].tier, sent'[i].url, sent'[i].cert)
                            # Question(sent'[j].tier, sent'[j].url, sent'[j].cert)
        BY DEF OneRequestPerQuestion, Question
    <2>3. i \in DOMAIN sent /\ sent'[i] = sent[i]
        BY <1>1, <2>2, SentGrows DEF TypeOK
    <2>4. CASE j \in DOMAIN sent
        BY <1>1, <2>2, <2>3, <2>4, SentGrows DEF OneRequestPerQuestion
    <2>5. CASE j = Len(sent) + 1
        BY <1>1, <2>1, <2>2, <2>3, <2>5, SentGrows DEF Recorded, Request
    <2> QED
        BY <1>1, <2>4, <2>5, SentGrows
<1>2. CASE sent' = sent
    BY <1>2 DEF OneRequestPerQuestion, Question
<1> QED
    BY <1>1, <1>2, StepKinds DEF PassFindsFresh

LEMMA AgainStep ==
    ASSUME TypeOK, EarlierRoundsAreOver, NeverAskedAgainAtATime, [Next]_vars
    PROVE  NeverAskedAgainAtATime'
<1>1. CASE Send
    <2>1. SUFFICES ASSUME NEW i \in DOMAIN sent', NEW j \in DOMAIN sent',
                          sent'[i].round < sent'[j].round,
                          sent'[i].cert = sent'[j].cert
                   PROVE  sent'[i].times \cap sent'[j].times = {}
        BY DEF NeverAskedAgainAtATime
    <2>2. CASE i \in DOMAIN sent /\ j \in DOMAIN sent
        BY <1>1, <2>1, <2>2, SentGrows DEF NeverAskedAgainAtATime
    <2>3. CASE i \in DOMAIN sent /\ j = Len(sent) + 1
        <3>1. sent'[i] = sent[i] /\ sent'[j] = Request
            BY <1>1, <2>3, SentGrows
        <3>2. sent[i].round < rounds /\ sent[i].cert = cert
            BY <2>1, <3>1 DEF Request
        <3>3. About(sent[i]) \cap fresh = {}
            BY <2>3, <3>2 DEF EarlierRoundsAreOver
        <3>4. ASSUME NEW t, t \in sent[i].times, t \in FreshTimes(cert)
              PROVE  FALSE
            <4>1. <<cert, t>> \in fresh
                BY <3>4 DEF FreshTimes
            <4>2. <<cert, t>> \in About(sent[i])
                BY <3>2, <3>4 DEF About
            <4> QED
                BY <3>3, <4>1, <4>2
        <3>5. sent'[j].times = FreshTimes(cert)
            BY <3>1 DEF Request
        <3> QED
            BY <3>1, <3>4, <3>5
    <2>4. CASE i = Len(sent) + 1
        <3>1. sent'[i].round = rounds
            BY <1>1, <2>4, SentGrows DEF Request
        <3>2. sent'[j].round <= rounds
            BY <1>1, SentGrows, BoundsAssumption
            DEF Request, EarlierRoundsAreOver, TypeOK
        <3>3. sent'[j].round \in Nat /\ rounds \in Nat
            BY <1>1, SentTyped, SentGrows, BoundsAssumption DEF Request, TypeOK
        <3> QED
            BY <2>1, <3>1, <3>2, <3>3
    <2> QED
        BY <1>1, <2>2, <2>3, <2>4, SentGrows
<1>2. CASE sent' = sent
    BY <1>2 DEF NeverAskedAgainAtATime
<1> QED
    BY <1>1, <1>2, StepKinds DEF PassFindsFresh

LEMMA SafetyHolds == Spec => []SafetyInv
<1>1. Init => SafetyInv
    BY TypeInit DEF Init, SafetyInv, WorkingOnAGap, Working, Tiers,
       GatedByAValidatedPath, EarlierRoundsAreOver, Recorded,
       OneRequestPerQuestion, NeverAskedAgainAtATime
<1>2. SafetyInv /\ [Next]_vars => SafetyInv'
    BY TypeStep, GapStep, GateStep, RoundsStep, RecordedStep, QuestionStep,
       AgainStep DEF SafetyInv
<1> QED
    BY <1>1, <1>2, PTL DEF Spec

\* No connection is opened but for a certificate that some pass put on a
\* validated path at the instants in question, and that was paid for.
THEOREM TrustGate == Spec => []GatedByAValidatedPath
<1>1. SafetyInv => GatedByAValidatedPath
    BY DEF SafetyInv
<1> QED
    BY <1>1, SafetyHolds, PTL

\* Within a round no question is put twice, whatever the certificates share, and
\* across rounds no certificate is fetched for twice at one instant.
THEOREM AskedOnce == Spec => []NothingIsAskedTwice
<1>1. SafetyInv => NothingIsAskedTwice
    BY DEF SafetyInv, NothingIsAskedTwice
<1> QED
    BY <1>1, SafetyHolds, PTL
-----------------------------------------------------------------------------
(* Refinement.  Only Charge asks, and what it asks about is new: fill_gaps   *)
(* walks the pool once, and the pairs of the certificates still ahead of it  *)
(* have not been charged for.                                                *)

Ahead == IF Working THEN idx + 1 ELSE idx

AheadIsUncharged ==
    pc \in Tiers \cup {"fill", "recheck"} =>
        \A j \in DOMAIN Order :
            j >= Ahead => \A t \in FreshTimes(Order[j]) : <<Order[j], t>> \notin charged

RefinementInv == TypeOK /\ WorkingOnAGap /\ AheadIsUncharged

LEMMA AheadStep ==
    ASSUME TypeOK, AheadIsUncharged, [Next]_vars
    PROVE  AheadIsUncharged'
<1> USE DEF passVars, purseVars, evidenceVars
<1>1. CASE PassFindsFresh
    <2>1. charged' = charged /\ charged \subseteq seen /\ fresh' \cap seen = {}
        BY <1>1 DEF PassFindsFresh, TypeOK
    <2> QED
        BY <2>1 DEF AheadIsUncharged, FreshTimes
<1>2. CASE Charge
    <2>1. /\ idx' = idx /\ fresh' = fresh /\ Ahead = idx /\ Ahead' = idx + 1
          /\ charged' = charged \cup ({cert} \X FreshTimes(cert))
          /\ pc = "fill" /\ idx \in DOMAIN Order
        BY <1>2, CertInPool DEF Charge, AtCertificate, Ahead, Working, Tiers
    <2>2. ASSUME NEW j \in DOMAIN Order, j >= idx + 1,
                 NEW t \in FreshTimes(Order[j])
          PROVE  <<Order[j], t>> \notin charged'
        <3>1. Order[j] # cert
            BY <2>1, <2>2, PoolAssumption DEF cert, TypeOK
        <3>2. j >= Ahead
            BY <2>1, <2>2, PoolAssumption DEF TypeOK
        <3>3. \A u \in FreshTimes(Order[j]) : <<Order[j], u>> \notin charged
            BY <2>1, <3>2 DEF AheadIsUncharged
        <3>4. <<Order[j], t>> \notin charged
            BY <2>2, <3>3
        <3> QED
            BY <2>1, <3>1, <3>4
    <2> QED
        BY <2>1, <2>2 DEF AheadIsUncharged, FreshTimes
<1>3. CASE /\ UNCHANGED <<fresh, charged>>
           /\ pc \in Tiers \cup {"fill", "recheck"} /\ Ahead' >= Ahead
           /\ Ahead \in Nat /\ Ahead' \in Nat
    <2>1. \A j \in DOMAIN Order : j \in Nat
        BY PoolAssumption
    <2> QED
        BY <1>3, <2>1 DEF AheadIsUncharged, FreshTimes
<1>4. CASE pc' \notin Tiers \cup {"fill", "recheck"}
    BY <1>4 DEF AheadIsUncharged
<1>5. CASE UNCHANGED <<pc, fresh, charged, idx>>
    BY <1>5 DEF AheadIsUncharged, FreshTimes, Ahead, Working
<1>6. CASE PassOver
    BY <1>3, <1>6 DEF PassOver, AtCertificate, Ahead, Working, Tiers, TypeOK
<1>7. CASE FetchAnswered \/ UrlsExhausted
    <2>1. /\ UNCHANGED <<fresh, charged>> /\ pc \in Tiers /\ LeaveTier
          /\ idx \in Nat
        BY <1>7 DEF FetchAnswered, UrlsExhausted, Send, AtUrl, TypeOK
    <2> QED
        BY <1>3, <2>1 DEF LeaveTier, Ahead, Working, Tiers
<1>8. CASE Recheck
    BY <1>3, <1>8 DEF Recheck, Ahead, Working, Tiers, TypeOK
<1> QED
    BY <1>1, <1>2, <1>4, <1>5, <1>6, <1>7, <1>8
    DEF Next, Run, Finished, vars, Tick, PassFindsNothing, BoundReached,
        SkipTried, FetchFailed, EndRound, FinalPass, Tiers

LEMMA PairsApart ==
    ASSUME NEW c, NEW T, NEW S, T # {}, \A t \in T : <<c, t>> \notin S
    PROVE  ({c} \X T) \cap S = {} /\ {c} \X T # {}
<1>1. ASSUME NEW p, p \in {c} \X T, p \in S
      PROVE  FALSE
    <2>1. p[1] = c /\ p[2] \in T /\ p = <<p[1], p[2]>>
        BY <1>1
    <2> QED
        BY <1>1, <2>1
<1>2. PICK t \in T : TRUE
    OBVIOUS
<1>3. <<c, t>> \in {c} \X T
    BY <1>2
<1> QED
    BY <1>1, <1>3

\* Every step is a question, a gain of evidence, or invisible.
LEMMA RefinementStep ==
    ASSUME RefinementInv, [Next]_vars
    PROVE  [Questions!Next]_<<budget - spent, charged, prior \cup got>>
<1> USE DEF passVars, purseVars, evidenceVars
<1>1. CASE Charge
    <2> DEFINE new == {cert} \X FreshTimes(cert)
    <2>1. /\ spent < budget /\ spent' = spent + 1 /\ budget' = budget
          /\ charged' = charged \cup new
          /\ prior' = prior /\ got' = got
          /\ FreshTimes(cert) # {} /\ pc = "fill" /\ idx \in DOMAIN Order
        BY <1>1, CertInPool DEF Charge, AtCertificate, IsGap, RefinementInv
    <2>2. new \cap charged = {} /\ new # {}
        <3>1. idx >= Ahead
            <4>1. ~Working /\ idx \in Nat
                BY <2>1 DEF Working, Tiers, RefinementInv, TypeOK
            <4> QED
                BY <4>1 DEF Ahead
        <3>2. \A t \in FreshTimes(cert) : <<cert, t>> \notin charged
            BY <2>1, <3>1 DEF RefinementInv, AheadIsUncharged, cert
        <3> QED
            BY <2>1, <3>2, PairsApart
    <2>3. charged' \in SUBSET (Certs \X Times)
        BY TypeStep DEF RefinementInv, TypeOK
    <2>4. budget - spent > 0 /\ budget' - spent' = (budget - spent) - 1
        BY <2>1, BoundsAssumption DEF RefinementInv, TypeOK
    <2>5. \A p, q \in charged' \ charged : p[1] = q[1]
        BY <2>1
    <2>6. charged \subseteq charged' /\ charged' # charged
        BY <2>1, <2>2
    <2>7. Questions!Ask
        BY <2>1, <2>3, <2>4, <2>5, <2>6 DEF Questions!Ask
    <2> QED
        BY <2>7 DEF Questions!Next
<1>2. CASE FetchAnswered
    BY <1>2 DEF FetchAnswered, Questions!Next, Questions!Learn
<1>3. CASE EndRound
    <2>1. spent' = 0 /\ charged' = charged /\ prior' = prior \cup got /\ got' = {}
          /\ budget' = budget - spent /\ budget - spent \in Nat
        BY <1>3, BoundsAssumption DEF EndRound, RefinementInv, TypeOK
    <2> QED
        BY <2>1
<1>4. CASE UNCHANGED <<budget, spent, charged, prior, got>>
    BY <1>4
<1> QED
    BY <1>1, <1>2, <1>3, <1>4
    DEF Next, Run, Finished, vars, Tick, PassFindsFresh, PassFindsNothing,
        BoundReached, PassOver, SkipTried, FetchFailed, UrlsExhausted, Recheck,
        FinalPass

\* The rounds, for every dossier, clock and bound, never charge twice for a
\* pair, never charge beyond the one budget of the run, and never forget what
\* an earlier round fetched.
THEOREM Refinement == Spec => FillsGaps
<1>1. Init => RefinementInv /\ Questions!Init
    BY TypeInit, BoundsAssumption
    DEF Init, RefinementInv, WorkingOnAGap, Working, Tiers, AheadIsUncharged,
        Questions!Init
<1>2. RefinementInv /\ [Next]_vars => RefinementInv'
    BY TypeStep, GapStep, AheadStep DEF RefinementInv
<1>3. RefinementInv /\ [Next]_vars
        => [Questions!Next]_<<budget - spent, charged, prior \cup got>>
    BY RefinementStep
<1> QED
    BY <1>1, <1>2, <1>3, PTL DEF Spec, FillsGaps, Questions!Spec

-----------------------------------------------------------------------------
(* Traffic.  What the budget was charged for in a round is asked about in    *)
(* that round and nowhere else, and the position in a URL list bounds the    *)
(* requests made from it.                                                    *)

Filling == pc \in Tiers \cup {"fill", "recheck"}

RequestsOf(r, c) == {i \in DOMAIN sent : sent[i].round = r /\ sent[i].cert = c}

\* The certificates of each round that requests went out for, with the one at
\* hand.
Asked == {<<sent[i].round, sent[i].cert>> : i \in DOMAIN sent}
Paid  == Asked \cup (IF Working THEN {<<rounds, cert>>} ELSE {})

Metered ==
    /\ IsFiniteSet(Paid)
    /\ Cardinality(Paid) <= (MaxCertificates - budget) + spent

\* This round's requests are for certificates fill_gaps has reached.
Walked ==
    Filling =>
        \A i \in DOMAIN sent :
            sent[i].round = rounds
            => \E j \in DOMAIN Order : j < Ahead /\ Order[j] = sent[i].cert

\* At the n-th URL of the responders at most n - 1 requests were made for the
\* certificate, at the n-th distribution point MaxUrls more.
NumberedHere(state, url, count) ==
    /\ state = "ocsp" => url <= MaxUrls + 1 /\ count < url
    /\ state = "recheck" => url = 1 /\ count <= MaxUrls
    /\ state = "crl" => url <= MaxUrls + 1 /\ count < MaxUrls + url

Numbered ==
    /\ Working => NumberedHere(pc, nurl, Cardinality(RequestsOf(rounds, cert)))
    /\ \A r \in 0 .. MaxRounds, c \in Certs :
          Cardinality(RequestsOf(r, c)) <= 2 * MaxUrls

TrafficInv == SafetyInv /\ Metered /\ Walked /\ Numbered

\* Within a round fill_gaps only ever moves forward.
LEMMA AheadGrows ==
    ASSUME TypeOK, [Next]_vars, Filling, Filling'
    PROVE  /\ Ahead \in Nat /\ Ahead' \in Nat /\ Ahead <= Ahead'
           /\ fresh' = fresh /\ rounds' = rounds
<1> USE DEF passVars, purseVars, evidenceVars
<1>1. Ahead \in Nat /\ idx \in Nat
    BY DEF Ahead, TypeOK
<1>2. CASE UNCHANGED <<pc, fresh, rounds, idx>>
    BY <1>1, <1>2 DEF Ahead, Working
<1>3. CASE PassOver
    BY <1>1, <1>3 DEF PassOver, AtCertificate, Ahead, Working, Tiers
<1>4. CASE Charge
    BY <1>1, <1>4 DEF Charge, AtCertificate, Ahead, Working, Tiers
<1>5. CASE FetchAnswered \/ UrlsExhausted
    BY <1>1, <1>5 DEF FetchAnswered, UrlsExhausted, Send, AtUrl, LeaveTier, Ahead,
       Working, Tiers
<1>6. CASE Recheck
    BY <1>1, <1>6 DEF Recheck, Ahead, Working, Tiers
<1>7. CASE PassFindsFresh \/ EndRound
    BY <1>7 DEF PassFindsFresh, EndRound, Filling, Tiers
<1> QED
    BY <1>2, <1>3, <1>4, <1>5, <1>6, <1>7
    DEF Next, Run, Finished, vars, Tick, PassFindsNothing, BoundReached,
        SkipTried, FetchFailed, FinalPass, Filling, Tiers

LEMMA WalkedStep ==
    ASSUME TypeOK, EarlierRoundsAreOver, Walked, [Next]_vars
    PROVE  Walked'
<1> USE DEF passVars, purseVars, evidenceVars
<1>1. CASE ~Filling'
    BY <1>1 DEF Walked
<1>2. CASE PassFindsFresh
    <2>1. sent' = sent /\ rounds' = rounds + 1 /\ rounds \in Nat
        BY <1>2, BoundsAssumption DEF PassFindsFresh, TypeOK
    <2>2. \A i \in DOMAIN sent : sent[i].round \in Nat /\ sent[i].round <= rounds
        BY SentTyped DEF EarlierRoundsAreOver
    <2>3. \A i \in DOMAIN sent : sent[i].round # rounds + 1
        BY <2>1, <2>2
    <2> QED
        BY <2>1, <2>3 DEF Walked
<1>3. CASE Filling /\ Filling'
    <2>1. /\ Ahead \in Nat /\ Ahead' \in Nat /\ Ahead <= Ahead'
          /\ rounds' = rounds
        BY <1>3, AheadGrows
    <2>2. \A j \in DOMAIN Order : j \in Nat
        BY PoolAssumption
    <2>3. \A i \in DOMAIN sent : sent[i].round = rounds
            => \E j \in DOMAIN Order : j < Ahead' /\ Order[j] = sent[i].cert
        BY <1>3, <2>1, <2>2 DEF Walked
    <2>4. CASE sent' = sent
        BY <2>1, <2>3, <2>4 DEF Walked
    <2>5. CASE Send
        <3>1. idx \in DOMAIN Order /\ idx \in Nat /\ Ahead = idx + 1
            BY <2>5, CertInPool DEF Send, AtUrl, Ahead, Working, TypeOK
        <3>2. idx < Ahead' /\ Order[idx] = cert
            BY <2>1, <3>1 DEF cert
        <3>3. ASSUME NEW i \in DOMAIN sent', sent'[i].round = rounds
              PROVE  \E j \in DOMAIN Order : j < Ahead' /\ Order[j] = sent'[i].cert
            <4>1. CASE i \in DOMAIN sent
                BY <2>3, <2>5, <3>3, <4>1, SentGrows
            <4>2. CASE i = Len(sent) + 1
                BY <2>5, <3>1, <3>2, <4>2, SentGrows DEF Request
            <4> QED
                BY <2>5, <4>1, <4>2, SentGrows
        <3> QED
            BY <2>1, <3>3 DEF Walked
    <2> QED
        BY <2>4, <2>5, StepKinds DEF PassFindsFresh
<1>4. CASE ~Filling /\ Filling' /\ ~PassFindsFresh
    BY <1>4 DEF Next, Run, Finished, vars, Tick, PassFindsNothing, BoundReached,
        PassOver, AtCertificate, Charge, SkipTried, FetchAnswered, FetchFailed,
        Send, AtUrl, UrlsExhausted, Recheck, EndRound, FinalPass, Filling, Tiers
<1> QED
    BY <1>1, <1>2, <1>3, <1>4

\* Only a charge pays for a certificate; a request is for the one at hand.
LEMMA PaidStep ==
    ASSUME TypeOK, [Next]_vars, ~Charge
    PROVE  Paid' \subseteq Paid
<1> USE DEF passVars, purseVars, evidenceVars
<1>1. CASE Send
    <2>1. Working /\ rounds' = rounds /\ (Working' => idx' = idx)
        BY <1>1 DEF Next, Run, Finished, vars, Tick, PassFindsFresh,
           PassFindsNothing, BoundReached, PassOver, AtCertificate, SkipTried,
           FetchAnswered, FetchFailed, UrlsExhausted, Recheck, EndRound,
           FinalPass, Send, AtUrl, LeaveTier, Working, Tiers
    <2>2. \A i \in DOMAIN sent' :
              <<sent'[i].round, sent'[i].cert>> \in Asked \cup {<<rounds, cert>>}
        BY <1>1, SentGrows DEF Asked, Request
    <2>3. Working' => cert' = cert
        BY <2>1 DEF cert
    <2> QED
        BY <2>1, <2>2, <2>3 DEF Paid, Asked
<1>2. CASE sent' = sent
    <2>1. Working' => Working /\ idx' = idx /\ rounds' = rounds
        BY <1>2 DEF Next, Run, Finished, vars, Tick, PassFindsFresh,
           PassFindsNothing, BoundReached, PassOver, AtCertificate, SkipTried,
           FetchAnswered, FetchFailed, UrlsExhausted, Recheck, EndRound,
           FinalPass, Send, AtUrl, LeaveTier, Working, Tiers
    <2>2. Working' => cert' = cert
        BY <2>1 DEF cert
    <2> QED
        BY <1>2, <2>1, <2>2 DEF Paid, Asked
<1> QED
    BY <1>1, <1>2, StepKinds DEF PassFindsFresh

LEMMA OneMore ==
    ASSUME NEW S, IsFiniteSet(S), NEW x, NEW T, T \subseteq S \cup {x}
    PROVE  /\ IsFiniteSet(T) /\ Cardinality(T) \in Nat /\ Cardinality(S) \in Nat
           /\ Cardinality(T) <= Cardinality(S) + 1
<1>1. IsFiniteSet(S \cup {x}) /\ Cardinality(S) \in Nat
    BY FS_AddElement, FS_CardinalityType
<1>2. Cardinality(S \cup {x}) <= Cardinality(S) + 1
    <2>1. Cardinality(S \cup {x}) = Cardinality(S)
            \/ Cardinality(S \cup {x}) = Cardinality(S) + 1
        BY FS_AddElement
    <2> QED
        BY <1>1, <2>1
<1>3. /\ IsFiniteSet(T) /\ Cardinality(T) <= Cardinality(S \cup {x})
      /\ Cardinality(T) \in Nat /\ Cardinality(S \cup {x}) \in Nat
    BY <1>1, FS_Subset, FS_CardinalityType
<1> QED
    BY <1>1, <1>2, <1>3

LEMMA MeteredStep ==
    ASSUME TypeOK, Metered, [Next]_vars
    PROVE  Metered'
<1> USE DEF passVars, purseVars, evidenceVars
<1>1. /\ budget \in Nat /\ spent \in Nat /\ MaxCertificates \in Nat
      /\ spent <= budget /\ budget <= MaxCertificates
    BY BoundsAssumption DEF TypeOK
<1>2. CASE Charge
    <2>1. /\ sent' = sent /\ idx' = idx /\ rounds' = rounds
          /\ spent' = spent + 1 /\ budget' = budget /\ ~Working
        BY <1>2 DEF Charge, AtCertificate, Working, Tiers
    <2>2. Paid' = Paid \cup (IF Working' THEN {<<rounds, cert>>} ELSE {})
        BY <2>1 DEF Paid, Asked, cert
    <2>3. Paid' \subseteq Paid \cup {<<rounds, cert>>}
        BY <2>2
    <2>4. /\ IsFiniteSet(Paid') /\ Cardinality(Paid') \in Nat
          /\ Cardinality(Paid) \in Nat
          /\ Cardinality(Paid') <= Cardinality(Paid) + 1
        BY <2>3, OneMore DEF Metered
    <2> QED
        BY <1>1, <2>1, <2>4 DEF Metered
<1>3. CASE ~Charge
    <2>1. /\ IsFiniteSet(Paid') /\ Cardinality(Paid') \in Nat
          /\ Cardinality(Paid') <= Cardinality(Paid)
          /\ Cardinality(Paid) \in Nat
        BY <1>3, PaidStep, FS_Subset, FS_CardinalityType DEF Metered
    <2>2. \/ budget' = budget /\ spent' = spent
          \/ budget' = budget - spent /\ spent' = 0
        BY <1>1, <1>3 DEF Next, Run, Finished, vars, Tick, PassFindsFresh,
           PassFindsNothing, BoundReached, PassOver, SkipTried, FetchAnswered,
           FetchFailed, UrlsExhausted, Recheck, EndRound, FinalPass
    <2> QED
        BY <1>1, <2>1, <2>2 DEF Metered
<1> QED
    BY <1>2, <1>3

\* A request counts for its own round and certificate and for no other.
LEMMA Counted ==
    ASSUME TypeOK, NEW r, NEW c
    PROVE  /\ IsFiniteSet(RequestsOf(r, c)) /\ Cardinality(RequestsOf(r, c)) \in Nat
           /\ sent' = sent => RequestsOf(r, c)' = RequestsOf(r, c)
           /\ Send /\ (r # rounds \/ c # cert)
                => RequestsOf(r, c)' = RequestsOf(r, c)
           /\ Send /\ r = rounds /\ c = cert
                => Cardinality(RequestsOf(r, c)') = Cardinality(RequestsOf(r, c)) + 1
<1>1. /\ IsFiniteSet(RequestsOf(r, c)) /\ Cardinality(RequestsOf(r, c)) \in Nat
    <2>1. sent \in Seq(Requests)
        BY DEF TypeOK
    <2>2. DOMAIN sent = 1 .. Len(sent) /\ Len(sent) \in Nat
        BY <2>1
    <2>3. IsFiniteSet(1 .. Len(sent))
        BY <2>2, FS_Interval
    <2>4. RequestsOf(r, c) \subseteq 1 .. Len(sent)
        BY <2>2 DEF RequestsOf
    <2> QED
        BY <2>3, <2>4, FS_Subset, FS_CardinalityType
<1>2. sent' = sent => RequestsOf(r, c)' = RequestsOf(r, c)
    BY DEF RequestsOf
<1>3. Send /\ (r # rounds \/ c # cert) => RequestsOf(r, c)' = RequestsOf(r, c)
    <2>1. SUFFICES ASSUME Send, r # rounds \/ c # cert
                   PROVE  RequestsOf(r, c)' = RequestsOf(r, c)
        OBVIOUS
    <2> QED
        BY <2>1, SentGrows DEF RequestsOf, Request
<1>4. Send /\ r = rounds /\ c = cert
        => Cardinality(RequestsOf(r, c)') = Cardinality(RequestsOf(r, c)) + 1
    <2>1. SUFFICES ASSUME Send, r = rounds, c = cert
                   PROVE  Cardinality(RequestsOf(r, c)')
                            = Cardinality(RequestsOf(r, c)) + 1
        OBVIOUS
    <2>2. RequestsOf(r, c)' = RequestsOf(r, c) \cup {Len(sent) + 1}
        BY <2>1, SentGrows DEF RequestsOf, Request
    <2>3. Len(sent) + 1 \notin RequestsOf(r, c)
        BY <2>1, SentGrows DEF RequestsOf
    <2> QED
        BY <1>1, <2>2, <2>3, FS_AddElement
<1> QED
    BY <1>1, <1>2, <1>3, <1>4

LEMMA UrlsAreBounded ==
    ASSUME NEW tier \in Tiers, NEW c \in Certs
    PROVE  UrlCount(tier, c) \in Nat /\ UrlCount(tier, c) <= MaxUrls
<1>1. TierUrls(tier, c) \in Seq(Urls)
    BY PoolAssumption DEF TierUrls
<1>2. Len(TierUrls(tier, c)) \in Nat
    BY <1>1
<1> QED
    BY <1>2, BoundsAssumption DEF UrlCount

\* A certificate just charged for was not yet asked about in this round.
LEMMA UnaskedAtCharge ==
    ASSUME TypeOK, Walked, Charge
    PROVE  RequestsOf(rounds, cert) = {}
<1>1. ~Working /\ Filling
    BY DEF Charge, AtCertificate, Working, Filling, Tiers
<1>2. idx \in DOMAIN Order /\ idx \in Nat /\ Ahead = idx
    BY <1>1, CertInPool DEF Charge, Ahead, TypeOK
<1>3. ASSUME NEW i \in DOMAIN sent, sent[i].round = rounds, sent[i].cert = cert
      PROVE  FALSE
    <2>1. PICK j \in DOMAIN Order : j < idx /\ Order[j] = cert
        BY <1>1, <1>2, <1>3 DEF Walked
    <2>2. j = idx
        BY <1>2, <2>1, PoolAssumption DEF cert
    <2> QED
        BY <1>2, <2>1, <2>2
<1> QED
    BY <1>3 DEF RequestsOf

LEMMA NumberedAtHand ==
    ASSUME TypeOK, Walked, Numbered, [Next]_vars, Working',
           NEW r, NEW c, r = rounds', c = cert'
    PROVE  NumberedHere(pc', nurl', Cardinality(RequestsOf(r, c)'))
<1> USE DEF passVars, purseVars, evidenceVars
<1> DEFINE n == Cardinality(RequestsOf(r, c))
           m == Cardinality(RequestsOf(r, c)')
<1>1. MaxUrls \in Nat /\ nurl \in Nat /\ n \in Nat
    BY Counted, BoundsAssumption DEF TypeOK
<1>2. CASE Charge
    <2>1. /\ pc' = "ocsp" /\ nurl' = 1 /\ sent' = sent /\ r = rounds /\ c = cert
        BY <1>2 DEF Charge, cert
    <2>2. RequestsOf(r, c) = {}
        BY <1>2, <2>1, UnaskedAtCharge
    <2>3. m = 0
        BY <2>1, <2>2, Counted, FS_EmptySet
    <2> QED
        BY <1>1, <2>1, <2>3 DEF NumberedHere
<1>3. ASSUME Working, r = rounds, c = cert
      PROVE  NumberedHere(pc, nurl, n)
    BY <1>3 DEF Numbered
<1>4. Working => UrlCount(pc, cert) \in Nat
                 /\ (pc \in Tiers => UrlCount(pc, cert) <= MaxUrls)
    <2>1. CASE pc \in Tiers
        BY <2>1, CertInPool, UrlsAreBounded
    <2>2. CASE pc = "recheck"
        <3>1. cert \in Certs
            BY <2>2, CertInPool
        <3>2. CrlUrls[cert] \in Seq(Urls)
            BY <3>1, PoolAssumption
        <3> QED
            BY <2>2, <3>2, BoundsAssumption DEF UrlCount, TierUrls, Tiers
    <2> QED
        BY <2>1, <2>2 DEF Working
<1>5. CASE SkipTried
    <2>1. /\ nurl' = nurl + 1 /\ pc' = pc /\ sent' = sent /\ r = rounds /\ c = cert
          /\ pc \in Tiers /\ nurl <= UrlCount(pc, cert) /\ m = n
        BY <1>5, Counted DEF SkipTried, AtUrl, cert
    <2> QED
        BY <1>1, <1>3, <1>4, <2>1 DEF NumberedHere, Working, Tiers
<1>6. CASE FetchFailed
    <2>1. /\ nurl' = nurl + 1 /\ pc' = pc /\ r = rounds /\ c = cert /\ Send
          /\ pc \in Tiers /\ nurl <= UrlCount(pc, cert)
        BY <1>6 DEF FetchFailed, Send, AtUrl, cert
    <2>2. m = n + 1
        BY <2>1, Counted
    <2> QED
        BY <1>1, <1>3, <1>4, <2>1, <2>2 DEF NumberedHere, Working, Tiers
<1>7. CASE FetchAnswered
    <2>1. /\ nurl' = 1 /\ pc = "ocsp" /\ pc' = "recheck" /\ r = rounds /\ c = cert
          /\ Send /\ nurl <= UrlCount(pc, cert)
        BY <1>7 DEF FetchAnswered, Send, AtUrl, LeaveTier, cert, Working, Tiers
    <2>2. m = n + 1
        BY <2>1, Counted
    <2> QED
        BY <1>1, <1>3, <1>4, <2>1, <2>2 DEF NumberedHere, Working, Tiers
<1>8. CASE UrlsExhausted
    <2>1. /\ nurl' = 1 /\ pc = "ocsp" /\ pc' = "recheck" /\ r = rounds /\ c = cert
          /\ sent' = sent
        BY <1>8 DEF UrlsExhausted, LeaveTier, cert, Working, Tiers
    <2>2. m = n
        BY <2>1, Counted
    <2> QED
        BY <1>1, <1>3, <2>1, <2>2 DEF NumberedHere, Working, Tiers
<1>9. CASE Recheck
    <2>1. /\ nurl' = nurl /\ pc = "recheck" /\ pc' = "crl" /\ r = rounds
          /\ c = cert /\ sent' = sent
        BY <1>9 DEF Recheck, cert, Working, Tiers
    <2>2. m = n
        BY <2>1, Counted
    <2> QED
        BY <1>1, <1>3, <2>1, <2>2 DEF NumberedHere, Working, Tiers
<1>10. CASE UNCHANGED <<pc, nurl, rounds, idx, sent>>
    <2>1. Working /\ r = rounds /\ c = cert /\ m = n
        BY <1>10, Counted DEF Working, cert
    <2> QED
        BY <1>3, <1>10, <2>1
<1> QED
    BY <1>2, <1>5, <1>6, <1>7, <1>8, <1>9, <1>10
    DEF Next, Run, Finished, vars, Tick, PassFindsFresh, PassFindsNothing,
        BoundReached, PassOver, AtCertificate, EndRound, FinalPass, Working, Tiers

LEMMA NumberedStep ==
    ASSUME TypeOK, Walked, Numbered, [Next]_vars
    PROVE  Numbered'
<1>1. ASSUME Working'
      PROVE  NumberedHere(pc', nurl', Cardinality(RequestsOf(rounds, cert)'))
    <2>1. PICK r, c : r = rounds' /\ c = cert'
        OBVIOUS
    <2>2. NumberedHere(pc', nurl', Cardinality(RequestsOf(r, c)'))
        BY <1>1, <2>1, NumberedAtHand
    <2> QED
        BY <2>1, <2>2 DEF RequestsOf
<1>2. ASSUME NEW r \in 0 .. MaxRounds, NEW c \in Certs
      PROVE  Cardinality(RequestsOf(r, c)') <= 2 * MaxUrls
    <2>1. /\ Cardinality(RequestsOf(r, c)) <= 2 * MaxUrls
          /\ Cardinality(RequestsOf(r, c)) \in Nat
        BY Counted DEF Numbered
    <2>2. CASE RequestsOf(r, c)' = RequestsOf(r, c)
        BY <2>1, <2>2
    <2>3. CASE Send /\ r = rounds /\ c = cert
        <3>1. /\ pc \in Tiers /\ nurl <= UrlCount(pc, cert)
              /\ UrlCount(pc, cert) <= MaxUrls /\ UrlCount(pc, cert) \in Nat
            BY <2>3, CertInPool, UrlsAreBounded DEF Send, AtUrl
        <3>2. Cardinality(RequestsOf(r, c)) < MaxUrls + nurl
            BY <2>1, <2>3, <3>1, BoundsAssumption
            DEF Numbered, NumberedHere, Working, Tiers, TypeOK
        <3>3. Cardinality(RequestsOf(r, c)') = Cardinality(RequestsOf(r, c)) + 1
            BY <2>3, Counted
        <3> QED
            BY <2>1, <3>1, <3>2, <3>3, BoundsAssumption DEF TypeOK
    <2> QED
        BY <2>2, <2>3, Counted, StepKinds DEF PassFindsFresh
<1> QED
    BY <1>1, <1>2 DEF Numbered

LEMMA TrafficHolds == Spec => []TrafficInv
<1>1. Init => TrafficInv
    <2>1. SUFFICES ASSUME Init
                   PROVE  Metered /\ Walked /\ Numbered /\ SafetyInv
        BY DEF TrafficInv
    <2>2. /\ sent = <<>> /\ DOMAIN sent = {} /\ ~Working /\ ~Filling
          /\ budget = MaxCertificates /\ spent = 0
        BY <2>1 DEF Init, Working, Filling, Tiers
    <2>3. Paid = {} /\ \A r, c : RequestsOf(r, c) = {}
        BY <2>2 DEF Paid, Asked, RequestsOf
    <2>4. Metered /\ Walked /\ Numbered
        <3>1. IsFiniteSet(Paid) /\ Cardinality(Paid) = 0
            BY <2>3, FS_EmptySet
        <3>2. \A r, c : Cardinality(RequestsOf(r, c)) = 0
            BY <2>3, FS_EmptySet
        <3>3. Metered
            BY <2>2, <3>1, BoundsAssumption DEF Metered
        <3>4. Numbered
            BY <2>2, <3>2, BoundsAssumption DEF Numbered
        <3> QED
            BY <2>2, <3>3, <3>4 DEF Walked
    <2>5. SafetyInv
        BY <2>1, TypeInit DEF Init, SafetyInv, WorkingOnAGap, Working, Tiers,
           GatedByAValidatedPath, EarlierRoundsAreOver, Recorded,
           OneRequestPerQuestion, NeverAskedAgainAtATime
    <2> QED
        BY <2>4, <2>5
<1>2. TrafficInv /\ [Next]_vars => TrafficInv'
    BY TypeStep, GapStep, GateStep, RoundsStep, RecordedStep, QuestionStep,
       AgainStep, MeteredStep, WalkedStep, NumberedStep DEF TrafficInv, SafetyInv
<1> QED
    BY <1>1, <1>2, PTL DEF Spec

\* Opening one dossier, whatever it says and whatever the peers answer, makes the
\* process fetch for at most MAX_CERTIFICATES certificates over all rounds, and
\* for each at most MAX_URLS_PER_CERTIFICATE responders and as many CRLs.
THEOREM Traffic == Spec => []TrafficBounded
<1>1. TrafficInv => TrafficBounded
    <2>1. SUFFICES ASSUME TrafficInv
                   PROVE  TrafficBounded
        OBVIOUS
    <2>2. TypeOK /\ Metered /\ EarlierRoundsAreOver
        BY <2>1 DEF TrafficInv, SafetyInv
    <2>3. Cardinality(Asked) <= MaxCertificates
        <3>1. Asked \subseteq Paid /\ IsFiniteSet(Paid)
            BY <2>2 DEF Paid, Metered
        <3>2. /\ Cardinality(Asked) <= Cardinality(Paid)
              /\ Cardinality(Asked) \in Nat /\ Cardinality(Paid) \in Nat
            BY <3>1, FS_Subset, FS_CardinalityType
        <3>3. (MaxCertificates - budget) + spent <= MaxCertificates
            BY <2>2, BoundsAssumption DEF TypeOK
        <3> QED
            BY <2>2, <3>2, <3>3, BoundsAssumption DEF Metered, TypeOK
    <2>4. ASSUME NEW i \in DOMAIN sent
          PROVE  Cardinality(RequestsOf(sent[i].round, sent[i].cert)) <= 2 * MaxUrls
        <3>1. sent[i].round \in Nat /\ sent[i].cert \in Certs
            BY <2>2, SentTyped DEF Requests
        <3>2. sent[i].round \in 0 .. MaxRounds
            BY <2>2, <3>1, BoundsAssumption DEF EarlierRoundsAreOver, TypeOK
        <3> QED
            BY <2>1, <3>1, <3>2 DEF TrafficInv, Numbered
    <2> QED
        BY <2>3, <2>4 DEF TrafficBounded, Asked, RequestsOf
<1> QED
    BY <1>1, TrafficHolds, PTL

-----------------------------------------------------------------------------
(* What the final report leaves unanswered.  fill_gaps passes over a        *)
(* certificate only for a reason, and no reason is ever taken back: charges  *)
(* stand, an empty budget stays empty, evidence only grows.                  *)

\* Why a pair that was handed to fill_gaps was not asked about.
Reasoned(p) ==
    \/ p \in charged
    \/ p[1] \in SelfSigned \/ p[1] \notin HasIssuer
    \/ \A i \in DOMAIN Order : Order[i] # p[1]
    \/ budget = 0
    \/ <<p[1], p[2], "later">> \in Data
    \/ Covered(p[1], p[2], Data)

\* The running round still has it before it.
Due(p) == Filling /\ p \in fresh /\ \E j \in DOMAIN Order : j >= idx /\ Order[j] = p[1]

SeenIsAccounted == \A p \in seen : Reasoned(p) \/ Due(p)

\* A run that stopped because a pass found nothing new has seen every pair it
\* would see again at the same clock reading.
NothingUnseen ==
    /\ read <= now
    /\ pc \in {"final", "done"} /\ rounds # MaxRounds /\ now = read
         => Eligible \subseteq seen

AccountInv == SafetyInv /\ SeenIsAccounted /\ NothingUnseen

LEMMA DataGrows ==
    ASSUME TypeOK, [Next]_vars
    PROVE  Data \subseteq Data' /\ prior \subseteq prior'
<1> USE DEF passVars, purseVars, evidenceVars
<1>1. prior \subseteq prior'
    BY DEF Next, Run, Finished, vars, Tick, PassFindsFresh, PassFindsNothing,
       BoundReached, PassOver, Charge, SkipTried, FetchAnswered, FetchFailed,
       UrlsExhausted, Recheck, EndRound, FinalPass
<1> QED
    BY <1>1 DEF Data, Own

LEMMA ReasonsStand ==
    ASSUME TypeOK, [Next]_vars, NEW p, Reasoned(p)
    PROVE  Reasoned(p)'
<1> USE DEF passVars, purseVars, evidenceVars
<1>1. charged \subseteq charged' /\ Data \subseteq Data'
    BY DataGrows, StepKinds
<1>2. budget = 0 => budget' = 0
    BY BoundsAssumption
    DEF Next, Run, Finished, vars, Tick, PassFindsFresh, PassFindsNothing,
       BoundReached, PassOver, Charge, SkipTried, FetchAnswered, FetchFailed,
       UrlsExhausted, Recheck, EndRound, FinalPass, TypeOK
<1>3. CASE <<p[1], p[2], "later">> \in Data'
    BY <1>3 DEF Reasoned
<1>4. CASE Covered(p[1], p[2], Data) /\ <<p[1], p[2], "later">> \notin Data'
    <2>1. Covered(p[1], p[2], Data')
        BY <1>1, <1>4 DEF Covered
    <2> QED
        BY <2>1 DEF Reasoned, Covered
<1> QED
    BY <1>1, <1>2, <1>3, <1>4 DEF Reasoned

\* fill_gaps goes past a certificate only with a reason for each of its pairs.
LEMMA PassedWithReason ==
    ASSUME TypeOK, WorkingOnAGap, [Next]_vars, NEW p, p \in seen, p \in fresh, Filling,
           Order[idx] = p[1],
           \/ PassOver
           \/ Working /\ idx' = idx + 1
    PROVE  Reasoned(p)
<1>1. p \in Certs \X Times /\ p = <<p[1], p[2]>> /\ p[2] \in FreshTimes(p[1])
    BY DEF TypeOK, FreshTimes
<1>2. cert = p[1]
    BY DEF cert
<1>3. CASE PassOver
    BY <1>1, <1>2, <1>3 DEF PassOver, IsGap, CoveredAtEveryTime, Reasoned
<1>4. CASE Working
    <2>1. <<p[1], p[2]>> \in charged
        BY <1>1, <1>2, <1>4 DEF WorkingOnAGap
    <2> QED
        BY <1>1, <2>1 DEF Reasoned
<1> QED
    BY <1>3, <1>4

LEMMA SeenStep ==
    ASSUME TypeOK, WorkingOnAGap, SeenIsAccounted, [Next]_vars
    PROVE  SeenIsAccounted'
<1> USE DEF passVars, purseVars, evidenceVars
<1>0. idx \in Nat /\ Len(Order) \in Nat /\ \A j \in DOMAIN Order : j \in 1 .. Len(Order)
    BY PoolAssumption DEF TypeOK
<1>1. CASE PassFindsFresh
    <2>1. /\ ~Filling /\ Filling' /\ idx' = 1 /\ seen' = seen \cup Eligible
          /\ fresh' = Eligible \ seen
        BY <1>1 DEF PassFindsFresh, Filling, Tiers
    <2>2. ASSUME NEW p \in seen'
          PROVE  Reasoned(p)' \/ Due(p)'
        <3>1. CASE p \in seen
            BY <2>1, <3>1, ReasonsStand DEF SeenIsAccounted, Due
        <3>2. CASE p \in fresh'
            BY <1>0, <2>1, <3>2 DEF Due, Reasoned
        <3> QED
            BY <2>1, <3>1, <3>2
    <2> QED
        BY <2>2 DEF SeenIsAccounted
<1>2. CASE EndRound
    <2>1. seen' = seen /\ (idx > Len(Order) \/ budget' = 0)
        BY <1>2, BoundsAssumption DEF EndRound, TypeOK
    <2>2. ASSUME NEW p \in seen
          PROVE  Reasoned(p)'
        <3>1. CASE Reasoned(p)
            BY <3>1, ReasonsStand
        <3>2. CASE Due(p)
            BY <1>0, <2>1, <3>2 DEF Due, Reasoned
        <3> QED
            BY <3>1, <3>2 DEF SeenIsAccounted
    <2> QED
        BY <2>1, <2>2 DEF SeenIsAccounted
<1>3. CASE UNCHANGED <<seen, fresh>> /\ (Filling <=> Filling') /\ idx' = idx
    <2>1. \A p : Due(p)' = Due(p)
        BY <1>3 DEF Due
    <2> QED
        BY <1>3, <2>1, ReasonsStand DEF SeenIsAccounted
<1>4. CASE /\ UNCHANGED <<seen, fresh>> /\ Filling /\ Filling' /\ idx' = idx + 1
           /\ (PassOver \/ Working)
    <2>1. ASSUME NEW p \in seen
          PROVE  Reasoned(p)' \/ Due(p)'
        <3>1. CASE Reasoned(p)
            BY <3>1, ReasonsStand
        <3>2. CASE Due(p) /\ Order[idx] = p[1]
            <4>1. Reasoned(p)
                BY <1>4, <3>2, PassedWithReason DEF Due
            <4> QED
                BY <4>1, ReasonsStand
        <3>3. CASE Due(p) /\ Order[idx] # p[1]
            <4>1. PICK j \in DOMAIN Order : j >= idx /\ Order[j] = p[1]
                BY <3>3 DEF Due
            <4>2. j >= idx + 1
                BY <1>0, <3>3, <4>1
            <4> QED
                BY <1>4, <3>3, <4>1, <4>2 DEF Due
        <3> QED
            BY <3>1, <3>2, <3>3 DEF SeenIsAccounted
    <2> QED
        BY <1>4, <2>1 DEF SeenIsAccounted
<1> QED
    BY <1>1, <1>2, <1>3, <1>4
    DEF Next, Run, Finished, vars, Tick, PassFindsNothing, BoundReached, PassOver,
        AtCertificate, Charge, SkipTried, FetchAnswered, FetchFailed, UrlsExhausted,
        Recheck, FinalPass, Send, AtUrl, LeaveTier, Filling, Working, Tiers

\* What a pass hands out is a function of the clock and of what the finished
\* rounds fetched.
LEMMA SamePass ==
    ASSUME now' = now, prior' = prior
    PROVE  Eligible' = Eligible
<1>1. \A h : Judged(h)' = Judged(h)
    BY DEF Judged
<1>2. \A k : StampVerified(k)' = StampVerified(k)
    BY <1>1 DEF StampVerified
<1>3. \A s : VerifiedGenTimes(s)' = VerifiedGenTimes(s)
    BY <1>2 DEF VerifiedGenTimes
<1>4. \A t, s : IsValidationTime(t, s)' = IsValidationTime(t, s)
    BY <1>3 DEF IsValidationTime
<1>5. \A h : PairsOf(h)' = PairsOf(h)
    BY <1>4 DEF PairsOf
<1> QED
    BY <1>5 DEF Eligible

LEMMA NothingUnseenStep ==
    ASSUME TypeOK, NothingUnseen, [Next]_vars
    PROVE  NothingUnseen'
<1> USE DEF passVars, purseVars, evidenceVars
<1>1. now \in Nat /\ read \in Nat /\ rounds \in Nat
    BY PoolAssumption, BoundsAssumption DEF TypeOK
<1>2. CASE Tick
    <2>1. now' > now /\ now' \in Nat /\ read' = read
        BY <1>2, PoolAssumption DEF Tick
    <2> QED
        BY <1>1, <2>1 DEF NothingUnseen
<1>3. CASE PassFindsNothing
    BY <1>1, <1>3, SamePass DEF PassFindsNothing, NothingUnseen
<1>4. CASE PassFindsFresh
    BY <1>1, <1>4 DEF PassFindsFresh, NothingUnseen
<1>5. CASE BoundReached
    BY <1>1, <1>5 DEF BoundReached, NothingUnseen
<1>6. CASE FinalPass
    BY <1>1, <1>6, SamePass DEF FinalPass, NothingUnseen
<1>7. CASE UNCHANGED vars
    BY <1>7, SamePass DEF vars, NothingUnseen
<1>8. CASE /\ UNCHANGED <<now, read>> /\ pc' \notin {"final", "done"}
    BY <1>8 DEF NothingUnseen
<1> QED
    BY <1>2, <1>3, <1>4, <1>5, <1>6, <1>7, <1>8
    DEF Next, Run, Finished, PassOver, AtCertificate, Charge, SkipTried, AtUrl,
        FetchAnswered, FetchFailed, Send, UrlsExhausted, LeaveTier, Recheck,
        EndRound, Tiers

LEMMA AccountHolds == Spec => []AccountInv
<1>1. Init => AccountInv
    <2>1. SUFFICES ASSUME Init
                   PROVE  SafetyInv /\ SeenIsAccounted /\ NothingUnseen
        BY DEF AccountInv
    <2>2. SafetyInv
        BY <2>1, TypeInit DEF Init, SafetyInv, WorkingOnAGap, Working, Tiers,
           GatedByAValidatedPath, EarlierRoundsAreOver, Recorded,
           OneRequestPerQuestion, NeverAskedAgainAtATime
    <2>3. SeenIsAccounted
        BY <2>1 DEF Init, SeenIsAccounted
    <2>4. NothingUnseen
        <3>1. now \in Nat
            BY <2>1, PoolAssumption DEF Init
        <3> QED
            BY <2>1, <3>1 DEF Init, NothingUnseen
    <2> QED
        BY <2>2, <2>3, <2>4
<1>2. AccountInv /\ [Next]_vars => AccountInv'
    BY TypeStep, GapStep, GateStep, RoundsStep, RecordedStep, QuestionStep,
       AgainStep, SeenStep, NothingUnseenStep DEF AccountInv, SafetyInv
<1> QED
    BY <1>1, <1>2, PTL DEF Spec

\* A gap the final report shows was asked about, or the run can name what kept
\* it from asking; no gap is left out by the way the rounds interleave with the
\* clock, the budget and the evidence they bring in.
THEOREM Accounts == Spec => []UnansweredIsAccounted
<1>1. AccountInv => UnansweredIsAccounted
    <2>1. SUFFICES ASSUME AccountInv, pc = "done", NEW h \in Holders,
                          NEW p \in PairsOf(h), p \notin seen => rounds # MaxRounds,
                          p \notin seen => now = read
                   PROVE  Reasoned(p)
        BY DEF UnansweredIsAccounted, Reasoned
    <2>2. p \in Eligible
        BY <2>1 DEF Eligible
    <2>3. p \in seen
        BY <2>1, <2>2 DEF AccountInv, NothingUnseen
    <2>4. ~Filling
        BY <2>1 DEF Filling, Tiers
    <2> QED
        BY <2>1, <2>3, <2>4 DEF AccountInv, SeenIsAccounted, Due
<1> QED
    BY <1>1, AccountHolds, PTL

=============================================================================
