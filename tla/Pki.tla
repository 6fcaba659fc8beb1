---------------------------------- MODULE Pki ----------------------------------
(***************************************************************************)
(* What the search for a certificate path and the trust configuration have *)
(* in common: certificates (openszigno-verify, certs/mod.rs), and the      *)
(* timeline a trusted list gives of a service (trustlist/services.rs).     *)
(* Certificates are compared by their DER, so a certificate is its DER.    *)
(***************************************************************************)
EXTENDS Integers, Sequences, FiniteSets

CONSTANTS
    Certs,           \* every certificate that plays a part
    Subject,         \* per certificate, its subject DN
    Issuer,          \* per certificate, its issuer DN
    Key,             \* per certificate, its public key
    SignedWith,      \* per certificate, the key its signature verifies under
    EidasDate        \* EIDAS_APPLICATION_DATE

EntriesOf(s) == {s[i] : i \in DOMAIN s}

SelfSigned(c) == Subject[c] = Issuer[c]

Issued(issuer, c) == SignedWith[c] = Key[issuer]

Kinds == {"ca_qc", "tsa_qtst"}

\* The latest line that had begun, the later of two that began together.
InForce(timeline, time) ==
    {k \in DOMAIN timeline :
        /\ timeline[k].since <= time
        /\ \A j \in DOMAIN timeline : timeline[j].since <= time
              => \/ timeline[j].since < timeline[k].since
                 \/ timeline[j].since = timeline[k].since /\ j <= k}

\* A status of before eIDAS counts only before it applied.
GrantedAt(timeline, kind, time) ==
    \E k \in InForce(timeline, time) :
        /\ timeline[k].kind = kind
        /\ \/ timeline[k].status = "granted"
           \/ timeline[k].status = "accredited" /\ time < EidasDate
================================================================================
