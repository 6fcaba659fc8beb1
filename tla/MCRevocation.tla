---------------------------- MODULE MCRevocation ----------------------------
(***************************************************************************)
(* An instance of Revocation: a leaf under a CA under a root, a responder  *)
(* the CA delegated to, a certificate of the CA without id-kp-OCSPSigning, *)
(* a CRL signer under the CA's name, and a central responder of the root   *)
(* re-issued over one key, of which only the second certificate reached an *)
(* anchor.  Evidence about the leaf comes embedded, fetched and from the   *)
(* store; the store may also hold a CRL of the root.                       *)
(***************************************************************************)
EXTENDS Revocation

CONSTANTS leaf, ca, root, delegate, clerk, lister, central, reissued,  \* certificates
          centralKey, nobody                                          \* keys

MCCerts  == {leaf, ca, root, delegate, clerk, lister, central, reissued}
MCName   == [c \in MCCerts |-> CASE c = lister -> ca
                                 [] c = reissued -> central
                                 [] OTHER -> c]
MCIssuer == [c \in MCCerts |-> IF c \in {leaf, delegate, clerk, lister} THEN ca ELSE root]
MCKey    == [c \in MCCerts |-> IF c \in {central, reissued} THEN centralKey ELSE c]
MCOcspSigning == {delegate, central, reissued}
MCCrlSigning  == {ca, root, lister}
MCValid    == [c \in MCCerts |-> IF c = central THEN 1 .. 2 ELSE 1 .. 6]
MCAnchored == [c \in MCCerts |-> CASE c = central -> 1 .. 2
                                   [] c = reissued -> 1 .. 6
                                   [] OTHER -> {}]
MCCandidates == <<leaf, ca, root, delegate, clerk, lister>>

Single(this, next, says, when) == [this |-> this, next |-> next, says |-> says, when |-> when]
Ocsp(about, names, carries, key, produced) ==
    [kind |-> "ocsp", oversized |-> FALSE, readable |-> TRUE, about |-> about,
     names |-> names, carries |-> carries, key |-> key, produced |-> produced]
Crl(by, scope, key, this, next, listed, garbled) ==
    [kind |-> "crl", oversized |-> FALSE, readable |-> TRUE, issuer |-> by, scope |-> scope,
     key |-> key, this |-> this, next |-> next, listed |-> listed, garbled |-> garbled]

OfLeaf(single) == [c \in {leaf} |-> single]
Nothing == [c \in {} |-> 0]

GoodByCa      == Ocsp(OfLeaf(Single(1, 4, "good", 0)), {ca}, <<>>, ca, 1)
RevokedBy     == Ocsp(OfLeaf(Single(1, 6, "revoked", 3)), {delegate}, <<>>, delegate, 2)
RevokedLater  == Ocsp(OfLeaf(Single(2, None, "revoked", 5)), {central, reissued},
                      <<central, reissued>>, centralKey, 2)
GoodByCentral == Ocsp(OfLeaf(Single(3, 6, "good", 0)), {central, reissued},
                      <<central, reissued>>, centralKey, 3)
Unknown       == Ocsp(OfLeaf(Single(2, 6, "unknown", 0)), {ca}, <<>>, ca, 2)
GoodByClerk   == Ocsp(OfLeaf(Single(1, 6, "good", 0)), {clerk}, <<>>, clerk, 1)
Forged        == Ocsp(OfLeaf(Single(1, 6, "good", 0)), {ca}, <<>>, nobody, 1)
GoodOfCa      == Ocsp([c \in {ca} |-> Single(1, 6, "good", 0)], {root}, <<>>, root, 1)
Noise         == [GoodByCa EXCEPT !.readable = FALSE]

Clean    == Crl(ca, {leaf}, ca, 2, 6, Nothing, {})
Listed   == Crl(ca, {leaf}, lister, 3, 6, [c \in {leaf} |-> 2], {})
Garbled  == Crl(ca, {leaf}, ca, 1, 6, Nothing, {leaf})
Delta    == Crl(ca, {}, ca, 1, 6, Nothing, {})
Huge     == [Clean EXCEPT !.oversized = TRUE]
OfRoot   == Crl(root, {ca}, root, 1, 6, Nothing, {})
CaListed == Crl(root, {ca}, root, 1, 6, [c \in {ca} |-> 4], {})

Responses == {GoodByCa, RevokedBy, RevokedLater, GoodByCentral, Unknown, GoodByClerk,
              Forged, Noise}
Lists     == {Clean, Listed, Garbled, Delta, Huge}
MCArtefacts == Responses \cup Lists \cup {GoodOfCa, OfRoot, CaListed}

AtMost(n, items) == UNION {[1 .. k -> items] : k \in 0 .. n}

MCEvidence ==
    { [t \in TierNames |->
        CASE t = "embedded_ocsp" -> e
          [] t = "store_crl"     -> s
          [] t = "online_ocsp"   -> o
          [] t = "online_crl"    -> l
          [] OTHER               -> <<>>] :
        e \in AtMost(2, Responses) \cup {<<Unknown, GoodByCa, RevokedBy>>},
        s \in {<<>>, <<OfRoot>>, <<CaListed>>},
        o \in {<<>>, <<GoodOfCa>>},
        l \in AtMost(1, Lists) }

MCPaths == {<<>>, <<leaf>>, <<leaf, ca, root>>}
MCTimes == {2, 4}
=============================================================================
