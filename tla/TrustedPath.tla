------------------------------ MODULE TrustedPath ------------------------------
(***************************************************************************)
(* One chain validated on the trust the command line gave: verify_command  *)
(* loads the trust (TrustMaterial), verify_dossier sorts it and hands it   *)
(* over, verify_signer_path has validate_path_at search a path on it       *)
(* (CertPath) and asks the lists what they make of the path it gets.       *)
(*                                                                         *)
(* The request of the search is one of those CertPath may be asked; it is  *)
(* asked once the trust is sorted, and only if it is what the trust comes  *)
(* to.                                                                     *)
(***************************************************************************)
EXTENDS CertPath, TrustMaterial

\* A service as the search sees it: named by certificate, with the lines that
\* decide.
Line(instance) ==
    [kind |-> instance.kind, since |-> instance.since, status |-> instance.status]

AsListed(s) ==
    [cert |-> s.id.of, entries |-> [k \in DOMAIN s.timeline |-> Line(s.timeline[k])]]

ByCertificate == {s \in services : s.id.form = "certificate"}

\* A slip: whatever its origin, an anchor is vouched for by the store.
HandedOverVouching ==
    /\ EntriesOf(request.anchors) = roots
    /\ extras \subseteq EntriesOf(request.candidates)
    /\ request.vouched = roots
    /\ request.services = {AsListed(s) : s \in ByCertificate}

\* The anchors with their origin, the services, and among the candidates what
\* the trust offers below the anchors.
HandedOver ==
    /\ EntriesOf(request.anchors) = roots
    /\ extras \subseteq EntriesOf(request.candidates)
    /\ request.vouched = {c \in roots : [cert |-> c, origin |-> "trust_store"] \in anchors}
    /\ request.services = {AsListed(s) : s \in ByCertificate}

\* The trust is loaded and sorted before the first chain is looked at.
Configure == phase # "verify" /\ TrustNext /\ UNCHANGED vars

Validate == phase = "verify" /\ HandedOver /\ Next /\ UNCHANGED trustVars

\* The lists are asked of the path of a signer that validated, whether or not it
\* was accepted, and at the instant it was validated at.
Qualify ==
    /\ phase = "verify" /\ pc = "done" /\ answer.path # <<>>
    /\ request.purpose = "signing"
    /\ Verify
    /\ outcome'.path = answer.path /\ outcome'.time = request.time
    /\ UNCHANGED vars

TrustedInit == Init /\ TrustInit

TrustedNext == Configure \/ Validate \/ Qualify

TrustedSpec == TrustedInit /\ [][TrustedNext]_<<vars, trustVars>>
-----------------------------------------------------------------------------
(* Properties.                                                             *)

\* The lists that somebody accountable signed as they stand.
Signed == {l \in GivenAs("trust_list") : SignedBy(l, Accountable)}

\* The newest of a service's dated lines by then grants it: the use wanted, or
\* another where its list never speaks of that one.
GrantedThen(sv) ==
    \E k \in Dated(sv, request.time) :
        /\ \A j \in Dated(sv, request.time) : sv[j].since <= sv[k].since
        /\ sv[k].kind = Wanted \/ \A j \in DOMAIN sv : sv[j].kind # Wanted
        /\ \/ sv[k].status = "granted"
           \/ sv[k].status = "accredited" /\ request.time < EidasDate

\* What is accepted rests on what the caller named: unless the verdict is held
\* back, an accepted chain ends at a certificate that was read of a file of the
\* store (StoreIsWhole says which those are), or at one that a list signed by
\* somebody accountable names and grants at that instant; and what is called
\* qualified is so by the word of such a list about a certificate of that very
\* chain.  Neither an altered list, nor a pointer out of an unverified one, nor
\* what a dossier carries gets between (verify_command, verify_dossier,
\* verify_signer_path).
AcceptedRestsOnTrust ==
    Supported =>
        /\ answer.code = "cert_path_ok" =>
            \/ Last(answer.path) \in regular \union Followed
            \/ \E l \in Signed : \E sv \in EntriesOf(l.content.services) :
                /\ \E k \in DOMAIN sv :
                    [form |-> "certificate", of |-> Last(answer.path)] \in sv[k].ids
                /\ GrantedThen(sv)
        /\ outcome.qualified = "yes" =>
            \E l \in Signed : \E sv \in EntriesOf(l.content.services) :
                /\ IssuesQualified(sv, request.time)
                /\ \E c \in EntriesOf(answer.path) : Names(sv, c)
================================================================================
