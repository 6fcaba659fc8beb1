------------------------------- MODULE Verdict -------------------------------
(***************************************************************************)
(* verify (openszigno-verify, lib.rs): what is said of a dossier.          *)
(*                                                                         *)
(* Signers sign, timestamps are added and other programs rewrite the file, *)
(* in any order; then one run reads it.  Each signature is examined by     *)
(* itself: its place and what it has to cover there, its digests and its   *)
(* value, the certificate it names, its timestamps, which decide the       *)
(* instant, and the certificate at that instant.  Then come the documents  *)
(* nobody signed, and the worst of all that was found.                     *)
(*                                                                         *)
(* Paths and revocation are taken by their outcome (modules CertPath and   *)
(* Revocation), a signature value verifies under the key that made it over *)
(* what it was made for, and a token's imprint is of one text of one       *)
(* element.                                                                *)
(***************************************************************************)
EXTENDS DossierTree

CONSTANTS
    Cert, Nobody,      \* certificates, and no certificate
    Key,               \* per certificate, its public key
    Authorities,       \* certificates marked as a CA
    Names,             \* per SignedProperties, the certificate it names or Nobody
    Claimed,           \* per SignedProperties, the signing time it claims
    Declares,          \* per SignatureProfile, the type it declares
    Authority,         \* timestamp authorities
    AuthorityPath,     \* per authority and instant, the status of its path, or
                       \* "not_granted": a sound one the trusted list refuses
    AuthorityRevoked,  \* per authority and instant, that of its revocation check
    PathOutcome,       \* per certificate and instant
    RevocationOutcome, \* per certificate and instant, and whether that is proven
    Now, AtFlags,      \* the clock, and what --at may be (Nobody without it)
    AllowLegacy,       \* --allow-legacy-algorithms
    TrustChecks,       \* what loading the trust configuration found
    MaxSignatures,     \* max_signatures, 64 in the code
    MaxTimestamps,     \* max_timestamps_per_signature, 8 in the code
    Empty,             \* the file before anyone signs
    Plans,             \* per signature, the ways it may be made
    Stamps,            \* per signature, the tokens it may be given
    Touchable, Moves, Droppable, Insertions, Redigestable, KeyInfos, Grafts,
                       \* what other programs may rewrite
    MaxStamps, MaxEdits

\* Elements that come into a file together are numbered in document order.
InOrder(nodes) ==
    DOMAIN nodes \subseteq Node /\ \A n \in DOMAIN nodes : nodes[n] \in DOMAIN nodes => nodes[n] < n

ASSUME VerdictAssumption ==
    /\ InOrder(Empty) /\ \A n \in DOMAIN Empty : Empty[n] \in DOMAIN Empty \union {Root}
    /\ \A s \in DsSignature :
        /\ \A plan \in Plans[s] : InOrder(plan.nodes) /\ plan.keyInfo \in Seq(Cert)
        /\ KeyInfos[s] \subseteq Seq(Cert)
    /\ \A nodes \in Insertions : InOrder(nodes)
    /\ Grafts \subseteq UnsignedProperties \X UnsignedProperties
    /\ MaxSignatures \in Nat /\ MaxTimestamps \in Nat

\* What a path of an authority can come to.
PathStatuses == {"passed", "failed", "unknown", "not_granted"}

ASSUME StampsAssumption ==
    \A s \in DsSignature : \A kind \in Stamps[s] :
        kind.time \in Nat /\ AuthorityPath[kind.authority, kind.time] \in PathStatuses

VARIABLES
    file,       \* the dossier
    was,        \* history: per signature, the file as it was signed
    edits,      \* history: what other programs did to it
    stamped,    \* history: tokens made
    pc,         \* "file" until the run begins
    at,         \* its --at
    reports,    \* per signature examined, what is reported
    checks,     \* the checks of the dossier
    coverage,   \* per modelled document, whether it is covered
    verdict

history == <<was, edits, stamped>>
vars == <<file, history, pc, at, reports, checks, coverage, verdict>>

Check(code, status) == <<code, status>>
StatusesOf(cs) == {c[2] : c \in cs}
Says(cs, code, status) == Check(code, status) \in cs

\* The worst of the checks, and of verdicts.
VerdictOf(cs) ==
    IF "failed" \in StatusesOf(cs) THEN "invalid"
    ELSE IF StatusesOf(cs) \intersect {"unknown", "skipped"} # {} THEN "indeterminate"
    ELSE "valid"

WorstOf(vs) == IF "invalid" \in vs THEN "invalid"
               ELSE IF "indeterminate" \in vs THEN "indeterminate" ELSE "valid"
-----------------------------------------------------------------------------
(* Where a signature stands.                                               *)

Countersigned(f, s) ==
    LET frame == f.parent[s]
        properties == f.parent[frame]
    IN  /\ frame \in CounterSignature
        /\ Cardinality(Children(f, frame, DsSignature)) = 1
        /\ properties \in Present(f)
        /\ properties \in UnsignedProperties
        /\ Owner(f, properties) = Enclosing(f, s)

Place(f, s) ==
    IF Enclosing(f, s) # Nowhere
    THEN IF Countersigned(f, s) THEN "countersignature" ELSE "unknown"
    ELSE IF f.parent[s] \in EsDocument THEN "document"
    ELSE IF f.parent[s] \in EsDossier THEN "dossier"
    ELSE "unknown"

Value(f, s) == Child(f, s, DsSignatureValue)
OwnObjects(f, s) == Children(f, s, DsObject)

\* The profile a ds:Object of the signature holds, one of a countersignature
\* further down not counted.
ProfileIn(f, s, o) ==
    First({p \in Those(f, EsSignatureProfile) : o \in f.up[p] /\ Owner(f, p) = s})

WithProfile(f, s) == {o \in OwnObjects(f, s) : ProfileIn(f, s, o) # Nowhere}

OwnProfile(f, s) == IF WithProfile(f, s) = {} THEN Nowhere
                    ELSE ProfileIn(f, s, First(WithProfile(f, s)))

ProfileNodes(f, s) ==
    IF WithProfile(f, s) = {} THEN {First(OwnObjects(f, s))} \ {Nowhere}
    ELSE WithProfile(f, s) \union {ProfileIn(f, s, o) : o \in WithProfile(f, s)}

SignedPropertiesOf(f, s) ==
    {p \in Those(f, SignedProperties) : Owner(f, p) = s}
-----------------------------------------------------------------------------
(* The properties a signature is evaluated against: those a reference of   *)
(* its own covers.                                                         *)

Qualifying(f, s) == {q \in Those(f, QualifyingProperties) : Owner(f, q) = s}

CoveredIn(f, s, q) == {p \in Children(f, q, SignedProperties) : Covered(f, s, p)}

\* A slip: the first properties in the signature are those of the signature.
FirstProperties(f, s) ==
    LET q == First(Qualifying(f, s))
    IN  [qualifying |-> q, signed |-> IF q = Nowhere THEN Nowhere
                                      ELSE Child(f, q, SignedProperties)]

Properties(f, s) ==
    LET covered == {q \in Qualifying(f, s) : CoveredIn(f, s, q) # {}}
    IN  IF covered = {} THEN [qualifying |-> First(Qualifying(f, s)), signed |-> Nowhere]
        ELSE [qualifying |-> First(covered), signed |-> First(CoveredIn(f, s, First(covered)))]
-----------------------------------------------------------------------------
(* Stage A: what a signature is, and whether it covers what it has to.     *)

Option(n) == {n} \ {Nowhere}

\* What has to be covered at a place: of each set of elements, one.
Mandated(f, s, place) ==
    LET profiled == place # "countersignature" \/ OwnProfile(f, s) # Nowhere
        there == CASE place = "document" ->
                          {Option(Profile(f, f.parent[s])), Option(Payload(f, f.parent[s]))}
                   [] place = "dossier" -> {Option(DossierProfile(f)), Option(Documents(f))}
                   [] place = "countersignature" -> {Option(Value(f, Enclosing(f, s)))}
    IN  there
        \union (IF profiled THEN {ProfileNodes(f, s)} ELSE {})
        \union (IF Qualifying(f, s) # {} THEN {SignedPropertiesOf(f, s)} ELSE {})

\* A signature on a document without a profile, or of one without a value, has
\* nothing to be measured against.
Measurable(f, s, place) ==
    /\ place # "unknown"
    /\ place = "document" => Profile(f, f.parent[s]) # Nowhere
    /\ place = "countersignature" => Value(f, Enclosing(f, s)) # Nowhere

ScopeCheck(f, s, place) ==
    IF ~Measurable(f, s, place) THEN Check("reference_scope", "unknown")
    ELSE IF \A ns \in Mandated(f, s, place) : \E n \in ns : Covered(f, s, n)
         THEN Check("reference_scope", "passed")
         ELSE Check("reference_scope", "failed")

\* The values of other signatures that a reference is to and digests.
Attested(f, s) ==
    {v \in Those(f, DsSignatureValue) :
        /\ Owner(f, v) \notin {s, Nowhere}
        /\ \E i \in DOMAIN f.sig[s].refs :
             LET r == f.sig[s].refs[i]
             IN  Resolved(f, r) = v /\ CoversIn(f, EffectiveNodeSet(f, s, r), v)}

DeclaredCounter(f, s) ==
    OwnProfile(f, s) # Nowhere /\ Declares[OwnProfile(f, s)] = "countersignature"

Role(f, s, place) ==
    IF \/ place = "countersignature"
       \/ place \in {"document", "dossier"} /\ DeclaredCounter(f, s)
    THEN "countersignature" ELSE "signature"

Binding(f, s, place) ==
    IF Role(f, s, place) = "signature" THEN {}
    ELSE LET bound == IF place = "countersignature"
                      THEN Value(f, Enclosing(f, s)) \in Attested(f, s)
                      ELSE Attested(f, s) # {}
         IN  {Check("countersignature_binding", IF bound THEN "passed" ELSE "failed")}

Structured(f, s) == Value(f, s) # Nowhere /\ f.sig[s].refs # <<>>

\* "strong", "legacy" or outside the list.
AlgorithmStatus(a) ==
    CASE a = "strong" -> "passed"
      [] a = "legacy" -> IF AllowLegacy THEN "unknown" ELSE "failed"
      [] OTHER -> "failed"

Policy(f, s) ==
    LET refs == EntriesOf(f.sig[s].refs)
        used == UNION {EntriesOf(r.transforms) : r \in refs}
        external == \E r \in refs : r.target = External
        If(good, code) == Check(code, IF good THEN "passed" ELSE "failed")
    IN  {Check("algorithm", AlgorithmStatus(f.sig[s].method)),
         If("other_c14n" \notin used, "c14n"),
         If("other" \notin used, "transforms"),
         If(~external, "reference_external"),
         If(external \/ \A r \in refs : Resolved(f, r) # Nowhere, "references_resolve")}

StageA(f, s, place) ==
    {Check("structure", "passed"),
     Check("placement", IF place = "unknown" THEN "failed" ELSE "passed"),
     ScopeCheck(f, s, place)} \union Policy(f, s) \union Binding(f, s, place)
-----------------------------------------------------------------------------
(* Stages B and C: the digests, the value, and the certificate.            *)

\* A slip: a digest that matches is enough.
SomeDigestMatches(f, s) ==
    \E i \in DOMAIN f.sig[s].refs : Digested(f, s, f.sig[s].refs[i]) = f.sig[s].digests[i]

DigestsMatch(f, s) ==
    \A i \in DOMAIN f.sig[s].refs :
        LET octets == Digested(f, s, f.sig[s].refs[i])
        IN  octets # Unreadable /\ octets = f.sig[s].digests[i]

\* The value is of the references and digests it was made over.
ValueHolds(f, s) ==
    /\ f.text[Value(f, s)] = 0
    /\ f.sig[s].sealed = <<f.sig[s].refs, f.sig[s].digests>>

\* Of the certificates in ds:KeyInfo one whose key verifies the value, an end
\* entity before an authority; the first of them if there is none.
Selected(f, s) ==
    LET offered == f.sig[s].keyInfo
        fits == {i \in DOMAIN offered : ValueHolds(f, s) /\ Key[offered[i]] = f.sig[s].key}
        ends == {i \in fits : offered[i] \notin Authorities}
        Least(is) == CHOOSE i \in is : \A j \in is : i <= j
    IN  IF offered = <<>> THEN [signer |-> Nobody, verified |-> FALSE]
        ELSE IF fits = {} THEN [signer |-> offered[1], verified |-> FALSE]
        ELSE [signer |-> offered[Least(IF ends # {} THEN ends ELSE fits)], verified |-> TRUE]

StageB(f, s, keyed) ==
    LET Of(good) == IF good THEN "passed" ELSE "failed"
    IN  {Check("reference_digest", Of(DigestsMatch(f, s))),
         Check("signing_certificate", Of(keyed.signer # Nobody))}
        \union (IF keyed.signer = Nobody THEN {}
                ELSE {Check("signature_value", Of(keyed.verified))})

Presence(f, s, xades) ==
    {IF xades.qualifying # Nowhere THEN Check("xades", "passed")
                                              ELSE Check("xades", "skipped")}
    \union (IF Cardinality(Qualifying(f, s)) > 1 THEN {Check("xades_extra", "info")} ELSE {})

Named(xades) == IF xades.signed = Nowhere THEN Nobody ELSE Names[xades.signed]

Offered(f, s, c) == c \in EntriesOf(f.sig[s].keyInfo)

\* A slip: a certificate for the key of the one named is as good.
KeyDecides(f, s, named, keyed) ==
    IF named = Nobody THEN Check("xades_signing_certificate", "unknown")
    ELSE Check("xades_signing_certificate",
               IF keyed.verified /\ Key[named] = Key[keyed.signer]
               THEN "passed" ELSE "failed")

\* The certificate the signed properties name has to be offered, and to be the
\* one whose key verified the value.
Bound(f, s, named, keyed) ==
    IF named = Nobody THEN Check("xades_signing_certificate", "unknown")
    ELSE Check("xades_signing_certificate",
               IF Offered(f, s, named) /\ (keyed.verified => named = keyed.signer)
               THEN "passed" ELSE "failed")

\* What is named overrides what the keys say.
Signer(f, s, named, keyed) ==
    IF named # Nobody /\ Offered(f, s, named) THEN named ELSE keyed.signer
-----------------------------------------------------------------------------
(* Stages F, D and E: the timestamps, the instant they prove, and the      *)
(* certificate at that instant.                                            *)

\* The tokens, of the unsigned properties beside the signed ones that count.
Tokens(f, xades) ==
    LET unsigned == Child(f, xades.qualifying, UnsignedProperties)
        all == IF unsigned = Nowhere THEN <<>> ELSE f.stamps[unsigned]
    IN  SubSeq(all, 1, IF Len(all) < MaxTimestamps THEN Len(all) ELSE MaxTimestamps)

\* A slip: the token is asked who made it, not what it was made for.
AnyImprint(f, s, t) == TRUE

Imprinted(f, s, t) == t.value = Value(f, s) /\ t.text = f.text[t.value]

TokenChecks(f, s, xades, t) ==
    LET path == AuthorityPath[t.authority, t.time]
    IN  {Check("imprint", IF Imprinted(f, s, t) THEN "passed" ELSE "failed"),
         Check("tsa_path", IF path = "not_granted" THEN "unknown" ELSE path)}
        \union (IF path \in {"passed", "not_granted"}
                THEN {Check("revocation", AuthorityRevoked[t.authority, t.time])} ELSE {})
        \union (IF xades.signed # Nowhere /\ t.time < Claimed[xades.signed]
                THEN {Check("before_signing_time", "unknown")} ELSE {})

\* May the token move the instant?  That nobody can say whether its authority
\* was revoked does not keep it from it.
TokenVerified(cs) ==
    \A c \in cs : \/ c[2] \in {"passed", "info"}
                  \/ c[1] = "revocation" /\ c[2] \in {"unknown", "skipped"}

\* What the signature is told of a token: never that it failed, except that its
\* authority was revoked.
TokenSummary(cs) ==
    LET own == {c \in cs : c[1] # "revocation"}
    IN  {Check("timestamp_verified",
               IF StatusesOf(own) \subseteq {"passed", "info"} THEN "passed" ELSE "unknown")}
        \union {c \in cs : c[1] = "revocation"}

StageF(f, s, xades) ==
    LET tokens == Tokens(f, xades) IN
    IF tokens = <<>> THEN {Check("signature_timestamp", "unknown")}
    ELSE {Check("signature_timestamp", "info")} \union
         UNION {IF tokens[i].supported THEN TokenSummary(TokenChecks(f, s, xades, tokens[i]))
                ELSE {Check("timestamp_not_checked", "skipped")} : i \in DOMAIN tokens}

ProvenTimes(f, s, xades) ==
    LET tokens == Tokens(f, xades) IN
    {tokens[i].time : i \in {j \in DOMAIN tokens :
        tokens[j].supported /\ TokenVerified(TokenChecks(f, s, xades, tokens[j]))}}

\* --at, or else the earliest time proven, or else the clock.
ValidationTime(a, times) ==
    IF a # Nobody THEN [time |-> a, source |-> "at_flag"]
    ELSE IF times # {} THEN [time |-> CHOOSE t \in times : \A u \in times : t <= u,
                             source |-> "timestamp"]
    ELSE [time |-> Now, source |-> "current_time"]

SignerChecks(signer, when) ==
    IF signer = Nobody THEN {Check("revocation", "unknown")}
    ELSE {Check("path", PathOutcome[signer, when.time]),
          Check("revocation",
                RevocationOutcome[signer, when.time, when.source = "timestamp"])}
-----------------------------------------------------------------------------
(* One signature, from its place to its verdict.                           *)

Summed(place, role, signer, when, found) ==
    LET all == found \union SignerChecks(signer, when)
    IN  [place |-> place, role |-> role, signer |-> signer, time |-> when.time,
         source |-> when.source, checks |-> all, verdict |-> VerdictOf(all)]

\* A signature that failed before anything of it was computed.
Unjudged(a, place, role, found) ==
    Summed(place, role, Nobody, ValidationTime(a, {}),
           found \union {Check("signature_timestamp", "unknown")})

Judged(f, a, s, place, xades, keyed, found) ==
    Summed(place, Role(f, s, place), Signer(f, s, Named(xades), keyed),
           ValidationTime(a, ProvenTimes(f, s, xades)),
           found \union StageB(f, s, keyed) \union {Bound(f, s, Named(xades), keyed)}
                 \union StageF(f, s, xades))

AfterStageA(f, a, s, place, xades, early) ==
    IF "failed" \in StatusesOf(early)
    THEN Unjudged(a, place, Role(f, s, place), early \union Presence(f, s, xades))
    ELSE Judged(f, a, s, place, xades, Selected(f, s), early \union Presence(f, s, xades))

VerifySignature(f, a, s, place, xades) ==
    IF Structured(f, s) THEN AfterStageA(f, a, s, place, xades, StageA(f, s, place))
    ELSE Unjudged(a, place, "signature", {Check("structure", "failed")} \union Presence(f, s, xades))

Report(f, a, s) == VerifySignature(f, a, s, Place(f, s), Properties(f, s))

\* A signature nobody can judge for where it stands, and for nothing else.
UnsupportedOnly(r) ==
    /\ r.place = "unknown"
    /\ \A c \in r.checks : c[2] = "failed" => c[1] = "placement"
-----------------------------------------------------------------------------
(* Stage H: which documents the signatures cover.                          *)

\* Why what a signature covers cannot be told.
Undetermined(r) ==
    \/ \E code \in {"structure", "placement", "reference_external", "references_resolve",
                    "transforms", "c14n"} : Says(r.checks, code, "failed")
    \/ Says(r.checks, "reference_scope", "unknown")

\* A slip: a signature that covers the document it is in covers them all.
CoversAny(f, rs, s, d) ==
    /\ ~Undetermined(rs[s]) /\ Says(rs[s].checks, "reference_scope", "passed")
    /\ rs[s].place \in {"document", "dossier"}

CoversDocument(f, rs, s, d) ==
    /\ ~Undetermined(rs[s]) /\ Says(rs[s].checks, "reference_scope", "passed")
    /\ \/ /\ rs[s].place = "document" /\ f.parent[s] = d
          /\ Covered(f, s, Profile(f, d)) /\ Covered(f, s, ObjRef[Profile(f, d)])
       \/ rs[s].place = "dossier" /\ Covered(f, s, d)

\* One that was not examined, or cannot be told about, clouds the document it
\* is in, or all of them if it is in none.
Clouds(f, rs, s, d) ==
    /\ s \in DOMAIN rs => Undetermined(rs[s])
    /\ LET within == f.up[s] \intersect Those(f, EsDocument)
       IN  within = {} \/ Nearest(f, within) = d

Coverage(f, rs, d) ==
    LET covering == {s \in DOMAIN rs : CoversDocument(f, rs, s, d)}
    IN  IF covering # {}
        THEN IF \E s \in covering : rs[s].verdict = "valid" THEN "covered"
             ELSE "covered_unverified"
        ELSE IF \E s \in Signatures(f) : Clouds(f, rs, s, d) THEN "undetermined"
        ELSE "uncovered"

CoverageChecks(cov) ==
    LET found == {cov[d] : d \in DOMAIN cov}
    IN  (IF found \intersect {"uncovered", "undetermined"} = {}
         THEN {Check("documents_all_covered",
                     IF "covered_unverified" \in found THEN "info" ELSE "passed")}
         ELSE {})
        \union {Check("documents", "unknown") : c \in found \intersect {"uncovered", "undetermined"}}
-----------------------------------------------------------------------------
(* The file before the run: whoever signs, stamps or rewrites it.          *)

\* What is known of a signature nobody made.
Unmade == [refs |-> <<>>, digests |-> <<>>, sealed |-> <<>>, method |-> "strong",
           key |-> Nobody, keyInfo |-> <<>>]

Never == [parent |-> <<>>, up |-> <<>>, text |-> <<>>]

CanStand(f, nodes) ==
    /\ DOMAIN nodes \intersect Present(f) = {}
    /\ \A n \in DOMAIN nodes : nodes[n] \in Present(f) \union DOMAIN nodes

At(f, parent) ==
    LET standing == Standing(parent)
    IN  [f EXCEPT !.parent = standing.parent, !.up = standing.up]

With(f, nodes) ==
    At(f, [n \in Present(f) \union DOMAIN nodes |->
              IF n \in DOMAIN nodes THEN nodes[n] ELSE f.parent[n]])

Without(f, x) ==
    LET kept == Present(f) \ Below(f, x)
    IN  [f EXCEPT !.parent = [n \in kept |-> f.parent[n]],
                  !.up = [n \in kept \union {Root} |-> f.up[n]]]

Rewritten(f, n) == [f EXCEPT !.text[n] = @ + 1]

DigestsOf(f, s, refs) == [i \in DOMAIN refs |-> Digested(f, s, refs[i])]

Sign(s) ==
    /\ pc = "file" /\ Present(was[s]) = {}
    /\ \E plan \in Plans[s] :
        /\ CanStand(file, plan.nodes)
        /\ LET placed == With(file, plan.nodes)
               digests == DigestsOf(placed, s, plan.refs)
           IN  file' = [placed EXCEPT !.sig[s] =
                           [refs |-> plan.refs, digests |-> digests,
                            sealed |-> <<plan.refs, digests>>, method |-> plan.method,
                            key |-> plan.key, keyInfo |-> plan.keyInfo]]
    /\ was' = [was EXCEPT ![s] = [parent |-> file'.parent, up |-> file'.up,
                                    text |-> file'.text]]
    /\ UNCHANGED <<edits, stamped, pc, at, reports, checks, coverage, verdict>>

UnsignedOf(f, s) == {u \in Those(f, UnsignedProperties) : Owner(f, u) = s}

\* A timestamp authority makes a token over the value as it stands.
Stamp(s) ==
    /\ pc = "file" /\ s \in Signatures(file) /\ Cardinality(stamped) < MaxStamps
    /\ Value(file, s) # Nowhere
    /\ \E kind \in Stamps[s], u \in UnsignedOf(file, s) :
        LET token == [value |-> Value(file, s), text |-> file.text[Value(file, s)],
                      authority |-> kind.authority, time |-> kind.time,
                      supported |-> kind.supported]
        IN  /\ token \notin stamped
            /\ file' = [Rewritten(file, u) EXCEPT !.stamps[u] = Append(@, token)]
            /\ stamped' = stamped \union {token}
    /\ UNCHANGED <<was, edits, pc, at, reports, checks, coverage, verdict>>

Edit(f) ==
    /\ pc = "file" /\ edits < MaxEdits
    /\ file' = f
    /\ edits' = edits + 1
    /\ UNCHANGED <<was, stamped, pc, at, reports, checks, coverage, verdict>>

Touch(n) == n \in Present(file) /\ Edit(Rewritten(file, n))

Move(n, p) ==
    /\ {n, p} \subseteq Present(file) /\ p \notin Below(file, n)
    /\ Edit(At(file, [file.parent EXCEPT ![n] = p]))

Drop(n) == n \in Present(file) /\ Edit(Without(file, n))

Insert(nodes) == CanStand(file, nodes) /\ Edit(With(file, nodes))

\* Digests that fit what is there, under the value of the ones before.
Redigest(s) ==
    /\ s \in Signatures(file)
    /\ Edit([Rewritten(file, s) EXCEPT
                 !.sig[s].digests = DigestsOf(file, s, file.sig[s].refs)])

Rekey(s) ==
    /\ s \in Signatures(file)
    /\ \E keyInfo \in KeyInfos[s] : Edit([Rewritten(file, s) EXCEPT !.sig[s].keyInfo = keyInfo])

\* A token from the properties u goes into the properties v as well.
Graft(u, v) ==
    /\ {u, v} \subseteq Present(file)
    /\ \E t \in EntriesOf(file.stamps[u]) :
        Edit([Rewritten(file, v) EXCEPT !.stamps[v] = Append(@, t)])

Rewrite ==
    \/ \E n \in Touchable : Touch(n)
    \/ \E m \in Moves : Move(m[1], m[2])
    \/ \E n \in Droppable : Drop(n)
    \/ \E nodes \in Insertions : Insert(nodes)
    \/ \E s \in Redigestable : Redigest(s)
    \/ \E s \in DOMAIN was : Rekey(s)
    \/ \E g \in Grafts : Graft(g[1], g[2])
-----------------------------------------------------------------------------
(* The run.                                                                *)

\* What is not the format aborts the run; for the rest the checks of the
\* dossier begin with the count and the trust that was loaded.
Parse ==
    /\ pc = "file"
    /\ \E a \in AtFlags : at' = a
    /\ IF Conforming(file)
       THEN /\ pc' = "signatures"
            /\ checks' = {Check("signature_count",
                                IF Cardinality(Signatures(file)) > MaxSignatures
                                THEN "failed" ELSE "passed"),
                          Check("revocation_policy", "info")} \union TrustChecks
       ELSE pc' = "rejected" /\ UNCHANGED checks
    /\ UNCHANGED <<file, history, reports, coverage, verdict>>

\* The signatures within the limit that have no report yet.
Waiting ==
    LET ordered == Signatures(file)
        Rank(s) == Cardinality({r \in ordered : r < s})
    IN  {s \in ordered : Rank(s) < MaxSignatures} \ DOMAIN reports

Examine ==
    /\ pc = "signatures" /\ Waiting # {}
    /\ LET s == First(Waiting)
       IN  reports' = [r \in DOMAIN reports \union {s} |->
                          IF r = s THEN Report(file, at, s) ELSE reports[r]]
    /\ UNCHANGED <<file, history, pc, at, checks, coverage, verdict>>

\* A signature inside another, where none belongs, is mentioned to that one.
Told(f, rs, s) ==
    IF \E n \in DOMAIN rs : rs[n].place = "unknown" /\ Enclosing(f, n) = s
    THEN [rs[s] EXCEPT !.checks = @ \union {Check("nested_unsupported", "info")}]
    ELSE rs[s]

DossierChecks(rs, cov) ==
    CoverageChecks(cov)
    \union (IF rs = <<>> THEN {Check("no_signatures", "unknown")} ELSE {})
    \union (IF \E s \in DOMAIN rs : UnsupportedOnly(rs[s])
            THEN {Check("signatures_unsupported", "unknown")} ELSE {})

DossierVerdict(cs, rs) ==
    WorstOf({VerdictOf(cs)} \union
            {rs[s].verdict : s \in {r \in DOMAIN rs : ~UnsupportedOnly(rs[r])}})

Conclude ==
    /\ pc = "signatures" /\ Waiting = {}
    /\ LET told == [s \in DOMAIN reports |-> Told(file, reports, s)]
           cov == [d \in Modelled(file) |-> Coverage(file, told, d)]
       IN  /\ reports' = told
           /\ coverage' = cov
           /\ checks' = checks \union DossierChecks(told, cov)
           /\ verdict' = DossierVerdict(checks', told)
    /\ pc' = "done"
    /\ UNCHANGED <<file, history, at>>

Init ==
    /\ file = [parent |-> Empty, up |-> Standing(Empty).up, text |-> [n \in Node |-> 0],
               sig |-> [s \in DsSignature |-> Unmade],
               stamps |-> [u \in UnsignedProperties |-> <<>>]]
    /\ was = [s \in DsSignature |-> Never]
    /\ edits = 0 /\ stamped = {}
    /\ pc = "file" /\ at = Nobody
    /\ reports = <<>> /\ checks = {} /\ coverage = <<>>
    /\ verdict = "none"

Next ==
    \/ \E s \in DOMAIN was : Sign(s) \/ Stamp(s)
    \/ Rewrite
    \/ Parse
    \/ Examine
    \/ Conclude

Spec == Init /\ [][Next]_vars
-----------------------------------------------------------------------------
(* Properties.                                                             *)

Verdicts == {"valid", "indeterminate", "invalid"}
Statuses == {"passed", "failed", "unknown", "skipped", "info"}

\* The file, the reports and the verdict keep the shapes the verifier (lib.rs,
\* report.rs) gives them, and there is a verdict when the run is over.
TypeOK ==
    /\ Present(file) \subseteq Node
    /\ \A n \in Present(file) : file.parent[n] \in Present(file) \union {Root}
    /\ file.text \in [Node -> Nat]
    /\ edits \in 0 .. MaxEdits /\ Cardinality(stamped) <= MaxStamps
    /\ pc \in {"file", "signatures", "done", "rejected"}
    /\ at \in AtFlags \union {Nobody}
    /\ DOMAIN reports \subseteq Signatures(file)
    /\ \A s \in DOMAIN reports :
        /\ reports[s].verdict \in Verdicts
        /\ StatusesOf(reports[s].checks) \subseteq Statuses
        /\ reports[s].signer \in Cert \union {Nobody}
        /\ reports[s].source \in {"at_flag", "timestamp", "current_time"}
    /\ StatusesOf(checks) \subseteq Statuses
    /\ DOMAIN coverage \subseteq Present(file)
    /\ verdict \in Verdicts \union {"none"}
    /\ pc = "done" <=> verdict # "none"

\* The signatures reported on, when the run returns its report.
Reported == IF pc = "done" THEN DOMAIN reports ELSE {}

Valid(s) == s \in Reported /\ reports[s].verdict = "valid"

\* All there is in an element, a signature in it excepted.
Content(f, n, s) ==
    Octets(f, IF n \in Below(f, s) THEN Below(f, n) ELSE Below(f, n) \ Below(f, s), n)

\* The element is in the file and reads as it did when s was made.
AsSigned(s, n) ==
    /\ n \in Present(file) \intersect Present(was[s])
    /\ Content(file, n, s) = Content(was[s], n, s)

\* A signature reported valid has, for everything the format makes it cover at
\* the place where it stands now, an element that reads to the last child as it
\* did for the signer (the signature itself, where it stands inside, apart): no
\* move, insertion, removal or fitting of digests since goes unseen (scope.rs,
\* references.rs, signature/mod.rs).
ValidMeansUnaltered ==
    \A s \in {r \in Reported : Valid(r)} :
        /\ Measurable(file, s, Place(file, s))
        /\ \A ns \in Mandated(file, s, Place(file, s)) :
            \E n \in ns : AsSigned(s, n)

\* A dossier reported valid has no signature that was left unexamined or is not
\* valid itself, has at least one, and each of its documents reads as it did for
\* one of the signers (lib.rs, coverage.rs).
ValidDossierIsSigned ==
    verdict = "valid" =>
        /\ Signatures(file) # {} /\ Signatures(file) = DOMAIN reports
        /\ \A s \in Signatures(file) : Valid(s)
        /\ \A d \in Modelled(file) : \E s \in Signatures(file) :
            \/ AsSigned(s, d)
            \/ file.parent[s] = d /\ AsSigned(s, Profile(file, d)) /\ AsSigned(s, Payload(file, d))

\* What is reported valid, a signature or the dossier, is what its signers saw.
ValidMeansSigned == ValidMeansUnaltered /\ ValidDossierIsSigned

\* The certificate a valid signature is attributed to is one that properties
\* written by the signer name, and the value was made with its key: a
\* certificate offered since, even one for the same key, does not become the
\* signer's (xades/mod.rs, signature/mod.rs).
SignerIsTheOneNamed ==
    \A s \in {r \in Reported : Valid(r)} :
        LET signer == reports[s].signer IN
        /\ signer # Nobody /\ Key[signer] = file.sig[s].key
        /\ \E p \in SignedPropertiesOf(was[s], s) : AsSigned(s, p) /\ Names[p] = signer

\* The instant a signature is judged at comes from a timestamp only if an
\* authority made one for its very value as it reads, at that instant, and had
\* a path then; whatever was put beside the signature otherwise, the instant is
\* --at or the clock (tsa/mod.rs, lib.rs).
TimeIsProven ==
    \A s \in Reported :
        LET r == reports[s] IN
        /\ at # Nobody => r.time = at
        /\ r.source = "current_time" => r.time = Now
        /\ r.source = "timestamp" =>
            \E t \in stamped : /\ t.value = Value(file, s) /\ t.text = file.text[t.value]
                               /\ t.time = r.time
                               /\ AuthorityPath[t.authority, t.time] = "passed"

\* Who signed, and when, is never taken from what was put beside a signature.
SignerAndTimeAreProven == SignerIsTheOneNamed /\ TimeIsProven

\* What a reference of the signature names, or digests whatever its transforms
\* leave of it.
Reached(f, s, n) ==
    \E r \in EntriesOf(f.sig[s].refs) :
        \/ Resolved(f, r) = n
        \/ /\ Resolved(f, r) \in f.up[n]
           /\ "enveloped" \in EntriesOf(r.transforms) => s \notin f.up[n]

\* Content of a signature that none of its references reaches: an object of its
\* own or a countersignature of it, without a profile.
Open(f, s) ==
    {o \in OwnObjects(f, s) \union {c \in Those(f, CounterSignature) : Owner(f, c) = s} :
        ProfileIn(f, s, o) = Nowhere /\ \A n \in Below(f, o) : ~Reached(f, s, n)}

\* What stands in the open content of a signature does not decide what is said
\* of it: with it taken out the signature has the same verdict, signer and
\* instant, if properties it covers speak for it and it has its profile
\* (scope.rs 181-194, xades/mod.rs 150-175).
OpenContentDecidesNothing ==
    \A s \in Reported :
        WithProfile(file, s) # {} /\ Properties(file, s).signed # Nowhere =>
            \A r \in {Report(Without(file, o), at, s) : o \in Open(file, s)} :
                <<r.verdict, r.signer, r.time, r.source>> =
                <<reports[s].verdict, reports[s].signer, reports[s].time, reports[s].source>>

=============================================================================
