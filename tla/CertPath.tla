------------------------------- MODULE CertPath -------------------------------
(***************************************************************************)
(* validate_path_at (openszigno-verify, certs/path.rs): is there a path    *)
(* from a certificate to something the caller trusts, at one instant and   *)
(* for one purpose?                                                        *)
(*                                                                         *)
(* Untrusted candidates and configured anchors are put into a pool, a      *)
(* depth-first search bounded in length, paths and work climbs from issuer *)
(* name to subject name, and the paths it records are judged in order: the *)
(* first that validates and ends where the trust may be relied on is the   *)
(* answer.                                                                 *)
(*                                                                         *)
(* The recursion of build_paths is its stack: `chain`, the pool entries    *)
(* above the leaf, and for every certificate of the chain, the leaf        *)
(* included, the first entry its loop has not looked at yet (`next`).      *)
(***************************************************************************)
EXTENDS Pki

CONSTANTS
    NotBefore,       \* per certificate, the first instant of its validity
    NotAfter,        \* per certificate, the last
    Unimplemented,   \* certificates with a critical extension nobody implements
    EndUses,         \* per certificate, what it may be the end entity for
    CaUses,          \* per certificate, what it may issue for
    Authorities,     \* certificates marked as a CA
    CertSigning,     \* certificates whose keyUsage is absent or has keyCertSign
    Signing,         \* certificates whose keyUsage is absent or permits signing
    PathLen,         \* per certificate, how many intermediates may follow it
    Excludes,        \* per certificate, those its name constraints rule out
    Requests,        \* what may be asked, see RequestsAssumption
    MaxCertificates, \* max_certificates, 64 in the code
    MaxChain,        \* max_chain_length, 8 in the code
    MaxPaths,        \* max_paths, 32 in the code
    MaxExpansions    \* MAX_PATH_EXPANSIONS, 256

Purposes == {"signing", "timestamping", "ocsp_signing"}

\* A line of a service's timeline.  One without a usable date is one whose
\* `since` no request comes to.
Entries == [kind : Kinds, since : Int, status : {"granted", "accredited", "withdrawn"}]

\* `vouched` are the certificates of the trust store, `services` the trusted
\* lists' services that are named by a certificate.
ASSUME RequestsAssumption ==
    Requests \subseteq [leaf : Certs, candidates : Seq(Certs), anchors : Seq(Certs),
                        vouched : SUBSET Certs,
                        services : SUBSET [cert : Certs, entries : Seq(Entries)],
                        time : Int, purpose : Purposes]

\* verify_signer_path, check_tsa_certificate, the OCSP responder's check and the
\* trust store's anchors: every list handed over has been through dedup.
ASSUME DedupAssumption ==
    \A r \in Requests : \A list \in {r.candidates, r.anchors} :
        \A j, k \in DOMAIN list : list[j] = list[k] => j = k

ASSUME CertificatesAssumption ==
    NotBefore \in [Certs -> Int] /\ NotAfter \in [Certs -> Int] /\ PathLen \in [Certs -> Nat]

ASSUME BoundsAssumption ==
    {MaxCertificates, MaxChain, MaxPaths, MaxExpansions} \subseteq Nat

VARIABLES
    request,     \* the arguments
    pc,          \* where the search is
    offered,     \* how many candidates, or anchors, the pool was offered
    pool,        \* the certificates considered, and whether a path may end there
    chain, next, \* the stack of build_paths
    paths,       \* the completed paths, in the order they were found
    expansions,  \* pool entries climbed to
    judged,      \* how many of the paths have been judged
    notGranted, firstFailure,  \* what is answered if no path is good
    answer       \* the outcome

search == <<chain, next, paths, expansions>>
verdict == <<judged, notGranted, firstFailure, answer>>
vars == <<request, pc, offered, pool, search, verdict>>

Last(s) == s[Len(s)]
-----------------------------------------------------------------------------
(* What a trusted list says.                                               *)

Services(c) == {s \in request.services : s.cert = c}

Terminates(c) == Services(c) # {}

HasListed == request.services # {}

Granted(s, kind) == GrantedAt(s.entries, kind, request.time)

Wanted == IF request.purpose = "timestamping" THEN "tsa_qtst" ELSE "ca_qc"

\* A list that never speaks of this use still vouches for a certificate it has
\* granted another; the trust store vouches for what it holds.
MayAnchor(c) ==
    \/ c \in request.vouched
    \/ Services(c) = {}
    \/ \E s \in Services(c) : Granted(s, Wanted)
    \/ /\ \A s \in Services(c) : \A k \in DOMAIN s.entries : s.entries[k].kind # Wanted
       /\ \E s \in Services(c), kind \in Kinds : Granted(s, kind)
-----------------------------------------------------------------------------
(* What one path is worth: the RFC 5280 rules, in the order check_path      *)
(* applies them.  The answer is the first rule broken, or "none".           *)

OwnFault(c) ==
    IF c \in Unimplemented THEN "cert_unsupported_critical_extension"
    ELSE IF request.time < NotBefore[c] THEN "cert_not_yet_valid"
    ELSE IF request.time > NotAfter[c] THEN "cert_expired"
    ELSE "none"

\* The certificate in place k, the leaf being in place 1, as an issuer.
IssuerFault(path, k) ==
    IF path[k] \notin Authorities THEN "cert_basic_constraints_invalid"
    ELSE IF path[k] \notin CertSigning THEN "cert_key_usage_invalid"
    ELSE IF PathLen[path[k]] < k - 2 THEN "cert_path_length_exceeded"
    ELSE "none"

\* The first of the faults found place by place.
FirstOf(faults) ==
    LET faulty == {k \in DOMAIN faults : faults[k] # "none"}
    IN  IF faulty = {} THEN "none"
        ELSE faults[CHOOSE k \in faulty : \A j \in faulty : k <= j]

Fault(path) ==
    LET issuers == 2 .. Len(path)
        own == FirstOf([k \in DOMAIN path |-> OwnFault(path[k])])
        issuing == FirstOf([k \in issuers |-> IssuerFault(path, k)])
    IN  IF own # "none" THEN own
        ELSE IF \/ request.purpose \notin EndUses[path[1]]
                \/ \E k \in issuers : request.purpose \notin CaUses[path[k]]
             THEN "cert_key_usage_invalid"
        ELSE IF \E k \in issuers : SignedWith[path[k - 1]] # Key[path[k]]
             THEN "cert_signature_invalid"
        ELSE IF issuing # "none" THEN issuing
        ELSE IF path[1] \notin Signing THEN "cert_key_usage_invalid"
        ELSE IF \E k \in issuers : \E j \in 1 .. k - 1 : path[j] \in Excludes[path[k]]
             THEN "cert_name_constraint_violation"
        ELSE "none"
-----------------------------------------------------------------------------
Outcome(code, certs, path) == [code |-> code, chain |-> certs, path |-> path]

NoOutcome == Outcome("none", <<>>, <<>>)

Init ==
    /\ request \in Requests
    /\ pc = "offer_candidates"
    /\ offered = 0
    /\ pool = <<>>
    /\ chain = <<>>
    /\ next = <<1>>
    /\ paths = <<>>
    /\ expansions = 0
    /\ judged = 0
    /\ notGranted = NoOutcome
    /\ firstFailure = NoOutcome
    /\ answer = NoOutcome

\* The one way out.
Answer(outcome) == pc' = "done" /\ answer' = outcome

\* Nothing whatever is trusted, so nothing can be known.
NoTrust ==
    /\ pc = "offer_candidates" /\ offered = 0
    /\ request.anchors = <<>> /\ ~HasListed
    /\ Answer(Outcome("cert_path_unknown", <<request.leaf>>, <<>>))
    /\ UNCHANGED <<request, offered, pool, search, judged, notGranted, firstFailure>>

Trusts == request.anchors # <<>> \/ HasListed

\* A slip: whatever names itself as its own issuer ends a path.
SelfMade(c) == IF Subject[c] = Issuer[c] THEN "anchor" ELSE "no"

\* Where a path that reached a candidate stands.
Standing(c) == IF Terminates(c) THEN "listed" ELSE "no"

\* A candidate that is the leaf, or that is an anchor, is passed over.
OfferCandidate ==
    /\ pc = "offer_candidates" /\ Trusts
    /\ offered < Len(request.candidates) /\ offered < MaxCertificates
    /\ offered' = offered + 1
    /\ LET c == request.candidates[offered + 1] IN
       pool' = IF c = request.leaf \/ c \in EntriesOf(request.anchors) THEN pool
               ELSE Append(pool, [cert |-> c, ends |-> Standing(c)])
    /\ UNCHANGED <<request, pc, search, verdict>>

CandidatesOffered ==
    /\ pc = "offer_candidates" /\ Trusts
    /\ offered >= Len(request.candidates) \/ offered >= MaxCertificates
    /\ pc' = "offer_anchors"
    /\ offered' = 0
    /\ UNCHANGED <<request, pool, search, verdict>>

OfferAnchor ==
    /\ pc = "offer_anchors"
    /\ offered < Len(request.anchors) /\ offered < MaxCertificates
    /\ offered' = offered + 1
    /\ pool' = Append(pool, [cert |-> request.anchors[offered + 1], ends |-> "anchor"])
    /\ UNCHANGED <<request, pc, search, verdict>>

AnchorsOffered ==
    /\ pc = "offer_anchors"
    /\ offered >= Len(request.anchors) \/ offered >= MaxCertificates
    /\ pc' = "search"
    /\ UNCHANGED <<request, offered, pool, search, verdict>>
-----------------------------------------------------------------------------
(* build_paths.                                                            *)

Top == IF chain = <<>> THEN request.leaf ELSE pool[Last(chain)].cert

\* A slip: a listed certificate is the top of a path too.
MayClimbUnlisted ==
    /\ chain # <<>> => pool[Last(chain)].ends = "no"
    /\ Len(chain) + 1 < MaxChain

\* An anchor is the top of a path; a listed certificate is a link as well.
\* The leaf counts towards the length of a chain.
MayClimb ==
    /\ chain # <<>> => pool[Last(chain)].ends # "anchor"
    /\ Len(chain) + 1 < MaxChain

\* What the loop of the topmost call has still to climb to.
Untried ==
    {i \in Last(next) .. Len(pool) :
        i \notin EntriesOf(chain) /\ Subject[pool[i].cert] = Issuer[Top]}

Full == Len(paths) >= MaxPaths

\* A slip: the path with more certificates is put first.
RecordedFirst(ps, path) == <<path>> \o ps

\* A completed path is recorded before the search climbs any further.
Recorded(ps, path) == Append(ps, path)

Expand ==
    /\ pc = "search" /\ ~Full /\ MayClimb
    /\ expansions < MaxExpansions
    /\ \E i \in Untried :
        /\ \A j \in Untried : i <= j
        /\ expansions' = expansions + 1
        /\ chain' = Append(chain, i)
        /\ next' = Append([next EXCEPT ![Len(next)] = i + 1], 1)
        /\ paths' = IF pool[i].ends # "no" THEN Recorded(paths, Append(chain, i)) ELSE paths
    /\ UNCHANGED <<request, pc, offered, pool, verdict>>

\* The call has nothing to climb to and returns to the one below it.
Return ==
    /\ pc = "search" /\ ~Full /\ chain # <<>>
    /\ ~MayClimb \/ Untried = {}
    /\ chain' = SubSeq(chain, 1, Len(chain) - 1)
    /\ next' = SubSeq(next, 1, Len(next) - 1)
    /\ UNCHANGED <<request, pc, offered, pool, paths, expansions, verdict>>

\* The outermost call returns, or all of them do: with as many paths as are
\* wanted, or with no work left to spend.
Finish ==
    /\ pc = "search"
    /\ \/ Full /\ UNCHANGED expansions
       \/ ~Full /\ chain = <<>> /\ (~MayClimb \/ Untried = {}) /\ UNCHANGED expansions
       \/ /\ ~Full /\ MayClimb /\ Untried # {}
          /\ expansions = MaxExpansions
          /\ expansions' = expansions + 1
    /\ pc' = "judge"
    /\ UNCHANGED <<request, offered, pool, chain, next, paths, verdict>>

Exhausted == expansions > MaxExpansions
-----------------------------------------------------------------------------
Certificates(path) == <<request.leaf>> \o [k \in DOMAIN path |-> pool[path[k]].cert]

NoPath ==
    /\ pc = "judge" /\ paths = <<>>
    /\ Answer(Outcome(IF Exhausted THEN "cert_path_search_exhausted"
                                   ELSE "cert_path_untrusted", <<request.leaf>>, <<>>))
    /\ UNCHANGED <<request, offered, pool, search, judged, notGranted, firstFailure>>

Kept(held, outcome) == IF held = NoOutcome THEN outcome ELSE held

Judge ==
    /\ pc = "judge" /\ judged < Len(paths)
    /\ judged' = judged + 1
    /\ LET certs == Certificates(paths[judged + 1])
           fault == Fault(certs)
       IN  \/ /\ fault = "none" /\ MayAnchor(Last(certs))
              /\ Answer(Outcome("cert_path_ok", certs, certs))
              /\ UNCHANGED <<notGranted, firstFailure>>
           \/ /\ fault = "none" /\ ~MayAnchor(Last(certs))
              /\ notGranted' = Kept(notGranted,
                                    Outcome("trust_list_service_not_granted", certs, certs))
              /\ UNCHANGED <<pc, firstFailure, answer>>
           \/ /\ fault # "none"
              /\ firstFailure' = Kept(firstFailure, Outcome(fault, certs, <<>>))
              /\ UNCHANGED <<pc, notGranted, answer>>
    /\ UNCHANGED <<request, offered, pool, search>>

\* A slip: what is wrong with some path outweighs the path that validated.
ConcludeWithFailure ==
    /\ pc = "judge" /\ paths # <<>> /\ judged = Len(paths)
    /\ Answer(IF firstFailure # NoOutcome THEN firstFailure ELSE notGranted)
    /\ UNCHANGED <<request, offered, pool, search, judged, notGranted, firstFailure>>

\* A path that validated says more than one that did not.
Conclude ==
    /\ pc = "judge" /\ paths # <<>> /\ judged = Len(paths)
    /\ Answer(IF notGranted # NoOutcome THEN notGranted ELSE firstFailure)
    /\ UNCHANGED <<request, offered, pool, search, judged, notGranted, firstFailure>>

\* The status of the check a verdict sees, for a signer and for an authority.
Status(code) ==
    CASE code = "cert_path_ok" -> "passed"
      [] code \in {"cert_path_unknown", "cert_path_search_exhausted",
                   "trust_list_service_not_granted"} -> "unknown"
      [] OTHER -> "failed"

Done == pc = "done" /\ UNCHANGED vars

Next ==
    \/ NoTrust \/ OfferCandidate \/ CandidatesOffered \/ OfferAnchor \/ AnchorsOffered
    \/ Expand \/ Return \/ Finish
    \/ NoPath \/ Judge \/ Conclude
    \/ Done

Spec == Init /\ [][Next]_vars
-----------------------------------------------------------------------------
(* Properties.                                                             *)

Codes == {"none", "cert_path_unknown", "cert_path_search_exhausted", "cert_path_untrusted",
          "cert_path_ok", "trust_list_service_not_granted",
          "cert_unsupported_critical_extension", "cert_not_yet_valid", "cert_expired",
          "cert_key_usage_invalid", "cert_signature_invalid",
          "cert_basic_constraints_invalid", "cert_path_length_exceeded",
          "cert_name_constraint_violation"}

Outcomes == [code : Codes, chain : Seq(Certs), path : Seq(Certs)]

PoolTypeOK ==
    /\ offered \in 0 .. MaxCertificates
    /\ pool \in Seq([cert : Certs, ends : {"no", "listed", "anchor"}])
    /\ Len(pool) <= 2 * MaxCertificates

SearchTypeOK ==
    /\ chain \in Seq(1 .. Len(pool))
    /\ chain # <<>> => Len(chain) < MaxChain
    /\ next \in Seq(1 .. Len(pool) + 1) /\ Len(next) = Len(chain) + 1
    /\ paths \in Seq(Seq(1 .. Len(pool))) /\ Len(paths) <= MaxPaths
    /\ expansions \in 0 .. MaxExpansions + 1

\* The search stays within its bounds (lib.rs, policy.rs): the work of a bag of
\* certificates that all name one another, the chain, the paths and the pool.
TypeOK ==
    /\ pc \in {"offer_candidates", "offer_anchors", "search", "judge", "done"}
    /\ PoolTypeOK /\ SearchTypeOK
    /\ judged \in 0 .. Len(paths)
    /\ {notGranted, firstFailure, answer} \subseteq Outcomes

\* A climb through the pool, whatever the search did: no entry twice, each the
\* issuer by name of the one before it, of no more than MaxChain certificates
\* and no anchor but at the top.
IsClimb(c) ==
    /\ c # <<>> => Len(c) < MaxChain
    /\ \A j, k \in DOMAIN c : c[j] = c[k] => j = k
    /\ \A k \in DOMAIN c :
          Subject[pool[c[k]].cert] = Issuer[IF k = 1 THEN request.leaf ELSE pool[c[k - 1]].cert]
    /\ \A k \in DOMAIN c : k < Len(c) => pool[c[k]].ends # "anchor"

\* One that ends where a path may end.
IsPath(c) == c # <<>> /\ IsClimb(c) /\ pool[Last(c)].ends # "no"

PoolPaths ==
    {path \in UNION {[1 .. n -> 1 .. Len(pool)] : n \in 1 .. MaxChain - 1} : IsPath(path)}

\* A search that did not stop for its bounds found every path there is and
\* nothing else (build_paths): certificates that share names, a cross
\* certificate, a loop of issuers, and a listed certificate with an anchor
\* above it hide none.
SearchIsComplete ==
    pc \in {"judge", "done"} /\ Trusts /\ ~Exhausted /\ ~Full
    => EntriesOf(paths) = PoolPaths

Prefix(r, n) == SubSeq(r, 1, n)

\* Only configured trust ends a path (validate_path_at): whatever a dossier
\* carries and in whatever order, an accepted path ends at an anchor or listed
\* certificate that may be relied on then, every link is signed by the one
\* above it and all of them were valid.
TrustBoundary ==
    answer.code = "cert_path_ok" =>
        LET path == answer.path IN
        /\ Len(path) > 1 /\ path[1] = request.leaf
        /\ Last(path) \in EntriesOf(request.anchors) \/ Terminates(Last(path))
        /\ MayAnchor(Last(path))
        /\ \A k \in 2 .. Len(path) : /\ Subject[path[k]] = Issuer[path[k - 1]]
                                     /\ SignedWith[path[k - 1]] = Key[path[k]]
                                     /\ path[k] \in Authorities
        /\ \A k \in DOMAIN path : request.time \in NotBefore[path[k]] .. NotAfter[path[k]]

\* Every chain of certificates the request itself admits: what it may be made of,
\* and what makes it one above the leaf.
Anchors == EntriesOf(request.anchors)
Links   == (EntriesOf(request.candidates) \ {request.leaf}) \union Anchors

Connects(r) ==
    /\ \A j, k \in DOMAIN r : r[j] = r[k] => j = k
    /\ \A k \in DOMAIN r : Subject[r[k]] = Issuer[IF k = 1 THEN request.leaf ELSE r[k - 1]]
    /\ \A k \in 1 .. Len(r) - 1 : r[k] \notin Anchors
    /\ Last(r) \in Anchors \/ Terminates(Last(r))

Routes ==
    {<<request.leaf>> \o r :
        r \in {s \in UNION {[1 .. n -> Links] : n \in 1 .. MaxChain - 1} : Connects(s)}}

Untruncated ==
    /\ Len(request.candidates) <= MaxCertificates /\ Len(request.anchors) <= MaxCertificates
    /\ ~Exhausted /\ ~Full

\* The answer is that of all the chains the request admits, not of the order
\* they were offered or found in (validate_path_at): accepted if any of them
\* is, unknown if the best ends at a service not granted then, and condemned
\* only if every one of them breaks a rule.
AnswerIsTheVerdict ==
    pc = "done" /\ Trusts /\ Untruncated =>
        LET sound == {r \in Routes : Fault(r) = "none"} IN
        answer.code \in
            IF \E r \in sound : MayAnchor(Last(r)) THEN {"cert_path_ok"}
            ELSE IF sound # {} THEN {"trust_list_service_not_granted"}
            ELSE IF Routes # {} THEN {Fault(r) : r \in Routes}
            ELSE {"cert_path_untrusted"}

\* The nearest place a chain may end is preferred (build_paths): no certificate
\* below the top of an accepted path could have ended it.  A root listed for
\* something else cannot override what the list grants the CA below it.
NearestIsPreferred ==
    answer.code = "cert_path_ok" =>
        \A n \in 2 .. Len(answer.path) - 1 :
            LET r == Prefix(answer.path, n) IN
            ~(Terminates(Last(r)) /\ MayAnchor(Last(r)) /\ Fault(r) = "none")

=============================================================================
