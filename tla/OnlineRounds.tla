---------------------------- MODULE OnlineRounds ----------------------------
(***************************************************************************)
(* `openszigno verify --online`: the bounded verification/fetch rounds.    *)
(*                                                                         *)
(* fetch_rounds (commands/verify.rs) alternates an offline verification    *)
(* pass, whose only product is the set of (certificate, validation time)   *)
(* pairs it validated a path for, with fill_gaps (online/gaps.rs), which   *)
(* fetches OCSP responses and CRLs for those pairs the evidence at hand    *)
(* does not answer.  What a round fetched feeds the next pass: a timestamp *)
(* whose authority turns out to be revoked stops proving a signing time,   *)
(* and the signer is then judged at another instant.                       *)
(*                                                                         *)
(* Evidence is a set of facts <<certificate, time, status>>: what all the  *)
(* CRLs and OCSP responses to hand say of a certificate at an instant.     *)
(* Parsing, signatures and freshness are inside the fact: an artefact that *)
(* is stale, unauthorised or about something else contributes none.        *)
(***************************************************************************)
EXTENDS Naturals, Sequences, FiniteSets

CONSTANTS
    Certs,          \* every certificate the run holds, anchors included
    SelfSigned,     \* those that are roots; never asked about
    HasIssuer,      \* those whose issuer is in the pool
    Order,          \* the pool as fill_gaps walks it: dedup keeps first places
    Urls,           \* every URL a certificate publishes
    OcspUrls,       \* per certificate, its AIA responders in order
    CrlUrls,        \* per certificate, its CRL distribution points in order
    CertId,         \* per certificate, the OCSP CertID that names it
    Replies,        \* what a well-formed answer to a question may establish
    Times,          \* the instants the model tells apart
    Store,          \* facts from the caller's revocation store
    Sigs,           \* signatures of the dossier
    Embedded,       \* per signature, facts from its own RevocationValues
    SigPath,        \* per signature and time, its validated chain, {} if none
    Container,      \* the dossier itself, which may carry es:TimeStamps
    Stamps,         \* every timestamp
    StampOf,        \* the signature, or the Container, a timestamp is on
    GenTime,        \* the time a timestamp asserts
    TsaPath,        \* per timestamp, its validated chain, {} if none
    Requested,      \* TRUE under --at, when the clock is fixed
    MaxRounds,      \* MAX_ONLINE_ROUNDS, 3 in the code
    MaxCertificates,\* MAX_CERTIFICATES, 32 in the code
    MaxUrls         \* MAX_URLS_PER_CERTIFICATE, 4 in the code

\* What a piece of evidence says of a certificate at a time.  Sources that know
\* of a revocation agree on its date, so "revoked" and "later" are never said of
\* the same certificate and time.
Status == {"good", "revoked", "later"}
Facts  == Certs \X Times \X Status
Tiers  == {"ocsp", "crl"}

ASSUME PoolAssumption ==
    /\ SelfSigned \subseteq Certs
    /\ HasIssuer \subseteq Certs
    /\ Order \in Seq(Certs)
    /\ \A i, j \in DOMAIN Order : Order[i] = Order[j] => i = j
    /\ OcspUrls \in [Certs -> Seq(Urls)]
    /\ CrlUrls \in [Certs -> Seq(Urls)]
    /\ Times \subseteq Nat
    /\ Store \subseteq Facts

ASSUME RepliesAssumption == Replies \in [Tiers \X Certs -> SUBSET SUBSET Facts]

ASSUME DossierAssumption ==
    /\ Embedded \in [Sigs -> SUBSET Facts]
    /\ SigPath \in [Sigs -> [Times -> SUBSET Certs]]
    /\ Container \notin Sigs
    /\ StampOf \in [Stamps -> Sigs \cup {Container}]
    /\ GenTime \in [Stamps -> Times]
    /\ TsaPath \in [Stamps -> SUBSET Certs]

ASSUME BoundsAssumption ==
    /\ Requested \in BOOLEAN
    /\ MaxRounds \in Nat
    /\ MaxCertificates \in Nat
    /\ MaxUrls \in Nat

VARIABLES
    now,      \* the wall clock, or the --at instant
    read,     \* the clock reading of the latest pass
    pc,       \* where the run is
    rounds,   \* rounds that have fetched
    seen,     \* pairs some pass has already handed to fill_gaps
    fresh,    \* the pairs this round was given
    idx,      \* position of fill_gaps in Order
    nurl,     \* position in the current tier's URL list
    budget,   \* OnlineState.budget: certificates the run may still fetch for
    spent,    \* Fetched.spent of the running round
    prior,    \* facts absorbed from the finished rounds
    got,      \* facts fetched by the running round
    tried,    \* ocsp_tried and crls_tried of the running round
    charged,  \* history: the pairs the budget was charged for
    sent      \* history: every request that left the process, in order

passVars     == <<read, rounds, seen, fresh>>
purseVars    == <<budget, spent, charged>>
evidenceVars == <<prior, got>>
vars == <<now, pc, passVars, idx, nurl, purseVars, evidenceVars, tried, sent>>
-----------------------------------------------------------------------------
(* What the verifier makes of a body of evidence.                          *)

\* is_covered: a `good` or a `revoked` answer.  A revocation beats `good`, so
\* one dated after the instant ("later") takes a `good` away and answers nothing.
Covered(c, t, evidence) ==
    \/ <<c, t, "revoked">> \in evidence
    \/ <<c, t, "good">> \in evidence /\ <<c, t, "later">> \notin evidence

CoveredAtEveryTime(c, ts, evidence) == \A t \in ts : Covered(c, t, evidence)

\* embedded_revocation_values: what every signature embeds, pooled.
Pooled == UNION {Embedded[s] : s \in Sigs}

\* What the chains of one signature are judged by: its own embedded values, the
\* store, and everything fetched so far.  The container's timestamps are judged
\* by what every signature embeds.
Judged(h) == (IF h = Container THEN Pooled ELSE Embedded[h]) \cup Store \cup prior

\* verify_token_at with token_verified: a validated TSA path and no revoked
\* certificate on it.  An answer the run could not obtain does not count against.
StampVerified(k) ==
    /\ TsaPath[k] # {}
    /\ \A c \in TsaPath[k] : <<c, GenTime[k], "revoked">> \notin Judged(StampOf[k])

VerifiedGenTimes(s) ==
    {GenTime[k] : k \in {k \in Stamps : StampOf[k] = s /\ StampVerified(k)}}

\* The validation time: --at, else the earliest verified genTime, else the clock.
IsValidationTime(t, s) ==
    LET gens == VerifiedGenTimes(s)
    IN  IF Requested \/ gens = {} THEN t = now
                                  ELSE t \in gens /\ \A g \in gens : t <= g

\* The pairs a pass validates for one signature or the container: the signer's
\* chain at the validation time, each timestamp authority's at its genTime.
\* Building a path reads no revocation data.
PairsOf(h) ==
    {p \in Certs \X Times :
        \/ h \in Sigs /\ IsValidationTime(p[2], h) /\ p[1] \in SigPath[h][p[2]]
        \/ \E k \in Stamps : /\ StampOf[k] = h /\ p[2] = GenTime[k]
                             /\ p[1] \in TsaPath[k]}

Holders == Sigs \cup {Container}

\* validated_path_certificates_at
Eligible == UNION {PairsOf(h) : h \in Holders}
-----------------------------------------------------------------------------
(* The certificate fill_gaps is working on and the questions it may put.   *)

cert == Order[idx]

\* A slip: any instant this round was given, for whichever certificate.
FreshTimesOfAnyone(c) == {t \in Times : \E d \in Certs : <<d, t>> \in fresh}

FreshTimes(c) == {t \in Times : <<c, t>> \in fresh}

\* The caller's material as fill_gaps sees it.
Own == Store \cup Pooled

\* data: the caller's material and what the finished rounds fetched.
Data == Own \cup prior

\* probe: the caller's material with the online tier replaced by this round's.
Probe == Own \cup got

TierUrls(tier, c) == IF tier = "ocsp" THEN OcspUrls[c] ELSE CrlUrls[c]

\* .take(MAX_URLS_PER_CERTIFICATE)
UrlCount(tier, c) ==
    IF Len(TierUrls(tier, c)) < MaxUrls THEN Len(TierUrls(tier, c)) ELSE MaxUrls

\* An OCSP question is a responder and a CertID, a CRL question is a URL.
Question(tier, url, c) ==
    IF tier = "ocsp" THEN <<tier, url, CertId[c]>> ELSE <<tier, url>>

\* The gate: a non-root on a path this pass validated, with an issuer to check
\* answers against, that Data leaves unanswered at some instant it is needed at.
IsGap(c) ==
    /\ c \notin SelfSigned
    /\ FreshTimes(c) # {}
    /\ c \in HasIssuer
    /\ ~CoveredAtEveryTime(c, FreshTimes(c), Data)
-----------------------------------------------------------------------------
Init ==
    /\ now \in Times /\ read = now
    /\ pc = "pass"
    /\ rounds = 0 /\ seen = {} /\ fresh = {}
    /\ idx = 1 /\ nurl = 1
    /\ budget = MaxCertificates /\ spent = 0 /\ charged = {}
    /\ prior = {} /\ got = {}
    /\ tried = {} /\ sent = <<>>

\* The clock moves on while the run works: every pass reads SystemClock again.
Tick ==
    /\ ~Requested /\ pc # "done"
    /\ \E t \in Times : t > now /\ now' = t
    /\ UNCHANGED <<pc, passVars, idx, nurl, purseVars, evidenceVars, tried, sent>>

\* A slip: the pairs handed out are not remembered.
PassForgets ==
    /\ pc = "pass" /\ rounds < MaxRounds
    /\ Eligible \ seen # {}
    /\ fresh' = Eligible \ seen
    /\ read' = now
    /\ rounds' = rounds + 1
    /\ pc' = "fill" /\ idx' = 1 /\ tried' = {}
    /\ UNCHANGED <<now, seen, nurl, purseVars, evidenceVars, sent>>

\* One pass of fetch_rounds that turned up something new.
PassFindsFresh ==
    /\ pc = "pass" /\ rounds < MaxRounds
    /\ Eligible \ seen # {}
    /\ fresh' = Eligible \ seen
    /\ seen' = seen \cup Eligible
    /\ read' = now
    /\ rounds' = rounds + 1
    /\ pc' = "fill" /\ idx' = 1 /\ tried' = {}
    /\ UNCHANGED <<now, nurl, purseVars, evidenceVars, sent>>

\* A pass that turned up nothing new ends the rounds.
PassFindsNothing ==
    /\ pc = "pass" /\ rounds < MaxRounds
    /\ Eligible \subseteq seen
    /\ read' = now
    /\ pc' = "final"
    /\ UNCHANGED <<now, rounds, seen, fresh, idx, nurl, purseVars, evidenceVars,
                   tried, sent>>

\* So does the bound, without another pass.
BoundReached ==
    /\ pc = "pass" /\ rounds = MaxRounds
    /\ pc' = "final"
    /\ UNCHANGED <<now, passVars, idx, nurl, purseVars, evidenceVars, tried, sent>>

AtCertificate == pc = "fill" /\ idx <= Len(Order) /\ spent < budget

\* fill_gaps passes over a certificate it has no gap to fill for.
PassOver ==
    /\ AtCertificate /\ ~IsGap(cert)
    /\ idx' = idx + 1
    /\ UNCHANGED <<now, pc, passVars, nurl, purseVars, evidenceVars, tried, sent>>

\* fill_gaps charges the budget and turns to the certificate's responders.
Charge ==
    /\ AtCertificate /\ IsGap(cert)
    /\ spent' = spent + 1
    /\ charged' = charged \cup ({cert} \X FreshTimes(cert))
    /\ pc' = "ocsp" /\ nurl' = 1
    /\ UNCHANGED <<now, passVars, idx, budget, evidenceVars, tried, sent>>

\* Leaving a tier: after OCSP coverage is asked again, after the CRLs it is the
\* next certificate's turn.
LeaveTier ==
    /\ nurl' = 1
    /\ IF pc = "ocsp" THEN pc' = "recheck" /\ idx' = idx
                      ELSE pc' = "fill" /\ idx' = idx + 1

AtUrl == pc \in Tiers /\ nurl <= UrlCount(pc, cert)

CurrentUrl == TierUrls(pc, cert)[nurl]

\* A slip: a question already put leaves the loop where it was.
SkipTriedStays ==
    /\ AtUrl
    /\ Question(pc, CurrentUrl, cert) \in tried
    /\ UNCHANGED vars

\* A question this round already put is not put again.
SkipTried ==
    /\ AtUrl
    /\ Question(pc, CurrentUrl, cert) \in tried
    /\ nurl' = nurl + 1
    /\ UNCHANGED <<now, pc, passVars, idx, purseVars, evidenceVars, tried, sent>>

\* A slip: the question is not recorded as put.
SendUnrecorded ==
    /\ AtUrl
    /\ UNCHANGED tried
    /\ sent' = Append(sent, [round |-> rounds, tier |-> pc, url |-> CurrentUrl,
                             cert |-> cert, times |-> FreshTimes(cert)])

Send ==
    /\ AtUrl
    /\ Question(pc, CurrentUrl, cert) \notin tried
    /\ tried' = tried \cup {Question(pc, CurrentUrl, cert)}
    /\ sent' = Append(sent, [round |-> rounds, tier |-> pc, url |-> CurrentUrl,
                             cert |-> cert, times |-> FreshTimes(cert)])

\* The peer sent an artefact of the right kind: it is kept, useful or not, and
\* the tier is left.
FetchAnswered ==
    /\ Send
    /\ \E reply \in Replies[<<pc, cert>>] : got' = got \cup reply
    /\ LeaveTier
    /\ UNCHANGED <<now, passVars, purseVars, prior>>

\* The fetch failed, or what came back is not of this tier: the next URL.
FetchFailed ==
    /\ Send
    /\ nurl' = nurl + 1
    /\ UNCHANGED <<now, pc, passVars, idx, purseVars, evidenceVars>>

UrlsExhausted ==
    /\ pc \in Tiers /\ nurl > UrlCount(pc, cert)
    /\ LeaveTier
    /\ UNCHANGED <<now, passVars, purseVars, evidenceVars, tried, sent>>

\* Being replied to is not being answered: coverage is asked again, of Probe.
Recheck ==
    /\ pc = "recheck"
    /\ IF CoveredAtEveryTime(cert, FreshTimes(cert), Probe)
       THEN pc' = "fill" /\ idx' = idx + 1
       ELSE pc' = "crl" /\ idx' = idx
    /\ UNCHANGED <<now, passVars, nurl, purseVars, evidenceVars, tried, sent>>

\* Slips: the budget is per round, the evidence of earlier rounds is dropped,
\* or there is only one round.
RoundOver(next, remaining, kept) ==
    /\ pc = "fill" /\ (idx > Len(Order) \/ spent >= budget)
    /\ pc' = next /\ budget' = remaining /\ prior' = kept
    /\ spent' = 0 /\ got' = {}
    /\ UNCHANGED <<now, passVars, idx, nurl, charged, tried, sent>>
EndRoundRefilled == RoundOver("pass", MaxCertificates, prior \cup got)
EndRoundDropping == RoundOver("pass", budget - spent, got)
EndRoundOnce     == RoundOver("final", budget - spent, prior \cup got)

\* The round ends: saturating_sub of what it spent, and Fetched::absorb.
EndRound ==
    /\ pc = "fill" /\ (idx > Len(Order) \/ spent >= budget)
    /\ pc' = "pass"
    /\ budget' = IF spent <= budget THEN budget - spent ELSE 0
    /\ spent' = 0
    /\ prior' = prior \cup got
    /\ got' = {}
    /\ UNCHANGED <<now, passVars, idx, nurl, charged, tried, sent>>

\* The pass whose report the caller is given, over everything fetched.
FinalPass ==
    /\ pc = "final"
    /\ pc' = "done"
    /\ UNCHANGED <<now, passVars, idx, nurl, purseVars, evidenceVars, tried, sent>>

Run ==
    \/ PassFindsFresh \/ PassFindsNothing \/ BoundReached
    \/ PassOver \/ Charge \/ EndRound
    \/ SkipTried \/ FetchAnswered \/ FetchFailed \/ UrlsExhausted \/ Recheck
    \/ FinalPass

Finished == pc = "done" /\ UNCHANGED vars

Next == Run \/ Tick \/ Finished

\* Every fetch is bounded by timeouts, so the run itself always moves on.
Spec == Init /\ [][Next]_vars /\ WF_vars(Run)
-----------------------------------------------------------------------------
(* What the rounds promise.                                                *)

Pcs == Tiers \cup {"pass", "fill", "recheck", "final", "done"}

Requests == [round : Nat, tier : Tiers, url : Urls, cert : Certs,
             times : SUBSET Times]

\* The shape of the run's state.
TypeOK ==
    /\ now \in Times /\ read \in Times
    /\ pc \in Pcs
    /\ rounds \in 0 .. MaxRounds
    /\ seen \subseteq Certs \X Times /\ fresh \subseteq seen
    /\ idx \in Nat \ {0} /\ nurl \in Nat \ {0}
    /\ (pc \in Tiers \cup {"recheck"} => idx <= Len(Order))
    /\ budget \in 0 .. MaxCertificates /\ spent \in 0 .. budget
    /\ charged \subseteq seen
    /\ prior \subseteq Facts /\ got \subseteq Facts
    /\ sent \in Seq(Requests)

\* Opening one dossier generates a bounded amount of traffic over all its rounds
\* together: MAX_CERTIFICATES certificates are fetched for, each at the first
\* MAX_URLS_PER_CERTIFICATE responders and as many distribution points.
TrafficBounded ==
    LET RequestsFor(r, c) == {i \in DOMAIN sent : sent[i].round = r /\ sent[i].cert = c}
    IN  /\ Cardinality({<<sent[i].round, sent[i].cert>> : i \in DOMAIN sent})
             <= MaxCertificates
        /\ \A i \in DOMAIN sent :
             Cardinality(RequestsFor(sent[i].round, sent[i].cert)) <= 2 * MaxUrls

\* Two certificates behind one CRL URL cost one request within a round, two
\* behind one responder cost two (crls_tried, ocsp_tried).
OneRequestPerQuestion ==
    \A i, j \in DOMAIN sent :
        /\ i < j
        /\ sent[i].round = sent[j].round
        => Question(sent[i].tier, sent[i].url, sent[i].cert)
             # Question(sent[j].tier, sent[j].url, sent[j].cert)

\* Across rounds it is the certificate and the instant (`seen` of fetch_rounds).
NeverAskedAgainAtATime ==
    \A i, j \in DOMAIN sent :
        /\ sent[i].round < sent[j].round
        /\ sent[i].cert = sent[j].cert
        => sent[i].times \cap sent[j].times = {}

\* Nothing is asked twice: within a round no question, across rounds nothing of
\* a certificate at an instant it was already fetched for at.
NothingIsAskedTwice == OneRequestPerQuestion /\ NeverAskedAgainAtATime

\* The trust gate across rounds: every request is for a certificate some pass
\* put on a validated path at each instant named, never for one that is merely
\* carried by the dossier, and the budget was charged for it.
GatedByAValidatedPath ==
    \A i \in DOMAIN sent : LET r == sent[i] IN
        /\ r.times # {}
        /\ r.cert \notin SelfSigned
        /\ {r.cert} \X r.times \subseteq seen \cap charged

\* Whatever the final report lacks an answer for was asked about, or the run can
\* say why not: there was nobody to ask, the certificate is one of more than the
\* pool takes from a dossier (MAX_EMBEDDED_CERTIFICATES), the budget or the
\* rounds ran out, the clock moved after the last pass, a later artefact dated a
\* revocation after the instant, or another signature's embedded material stood
\* in the way.
UnansweredIsAccounted ==
    pc = "done" =>
        \A h \in Holders : \A p \in PairsOf(h) :
            \/ Covered(p[1], p[2], Judged(h))
            \/ p \in charged
            \/ p[1] \in SelfSigned \/ p[1] \notin HasIssuer
            \/ \A i \in DOMAIN Order : Order[i] # p[1]
            \/ budget = 0
            \/ p \notin seen /\ (rounds = MaxRounds \/ now # read)
            \/ <<p[1], p[2], "later">> \in Data
            \/ Covered(p[1], p[2], Data)

\* Every run ends: rounds, budget and URL lists are all finite.
Terminates == <>(pc = "done")

\* The rounds implement bounded gap filling.
Questions == INSTANCE GapQuestions
    WITH Pairs <- Certs \X Times, Max <- MaxCertificates,
         left <- budget - spent, asked <- charged, evidence <- prior \cup got
FillsGaps == Questions!Spec
=============================================================================
