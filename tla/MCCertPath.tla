------------------------------ MODULE MCCertPath ------------------------------
(***************************************************************************)
(* An instance of CertPath: a leaf issued by a CA that two certificates    *)
(* bear, `sub` under the root and `cross`, of the same key, under an old   *)
(* root that lapses.  Two more cross certificates, `bridge` and `narrow`,  *)
(* put the root under the old root, the second with too short a path       *)
(* length.  A decoy of the CA's name names itself as issuer, and a forged  *)
(* root has the root's name and another key.  A dossier offers any of them *)
(* in any order, a copy of the root among them.                            *)
(***************************************************************************)
EXTENDS CertPath

CONSTANTS leaf, sub, cross, bridge, narrow, decoy, forged, root, old,  \* certificates
          leafName, caName, rootName, oldName,          \* names
          caKey, rootKey, otherKey                      \* keys

MCCerts   == {leaf, sub, cross, bridge, narrow, decoy, forged, root, old}
MCSubject == [c \in MCCerts |-> CASE c = leaf -> leafName
                                  [] c \in {sub, cross, decoy} -> caName
                                  [] c \in {root, bridge, narrow, forged} -> rootName
                                  [] c = old -> oldName]
MCIssuer  == [c \in MCCerts |-> CASE c \in {leaf, decoy} -> caName
                                  [] c \in {sub, root, forged} -> rootName
                                  [] c \in {cross, bridge, narrow, old} -> oldName]
MCKey     == [c \in MCCerts |-> CASE c \in {sub, cross} -> caKey
                                  [] c \in {root, bridge, narrow} -> rootKey
                                  [] c \in {decoy, forged} -> otherKey
                                  [] OTHER -> c]
MCSignedWith == [c \in MCCerts |-> CASE c = leaf -> caKey
                                     [] c \in {sub, root} -> rootKey
                                     [] c \in {cross, bridge, narrow, old} -> old
                                     [] OTHER -> otherKey]
MCNotBefore == [c \in MCCerts |-> IF c = sub THEN 2 ELSE 1]
MCNotAfter  == [c \in MCCerts |-> IF c = old THEN 2 ELSE 4]
MCPathLen   == [c \in MCCerts |-> CASE c = old -> 2 [] c = narrow -> 0 [] OTHER -> 9]
MCEndUses   == [c \in MCCerts |-> {"signing", "timestamping"}]
MCCaUses    == [c \in MCCerts |-> Purposes]
MCAuthorities == MCCerts \ {leaf}
MCExcludes  == [c \in MCCerts |-> {}]

Line(kind, since, status) == [kind |-> kind, since |-> since, status |-> status]
Service(c, entries) == [cert |-> c, entries |-> entries]

GrantedCa    == <<Line("ca_qc", 2, "granted")>>
WithdrawnCa  == <<Line("ca_qc", 1, "accredited"), Line("ca_qc", 3, "withdrawn")>>
StampingRoot == <<Line("tsa_qtst", 1, "granted")>>

MCServices ==
    {{}, {Service(sub, GrantedCa)}, {Service(sub, WithdrawnCa)},
     {Service(sub, WithdrawnCa), Service(root, StampingRoot)},
     {Service(cross, GrantedCa), Service(sub, StampingRoot)},
     {Service(decoy, StampingRoot), Service(root, WithdrawnCa)}}

\* The candidates come in any order, none twice (dedup).
Orders(certs, n) == {s \in [1 .. n -> certs] : \A j, k \in 1 .. n : s[j] = s[k] => j = k}

MCCandidates == (UNION {Orders({sub, cross, bridge, decoy, forged, root}, n) : n \in 0 .. 3})
                \union Orders({decoy, sub, bridge, narrow}, 4) \union Orders({sub, narrow}, 2)

MCRequests ==
    {[leaf |-> leaf, candidates |-> cs, anchors |-> as, vouched |-> {old},
      services |-> ss, time |-> t, purpose |-> p] :
        cs \in MCCandidates, as \in {<<>>, <<root>>, <<old, root>>}, ss \in MCServices,
        t \in 1 .. 3, p \in {"signing"}}
    \union
    {[leaf |-> leaf, candidates |-> <<decoy, sub, cross, root>>, anchors |-> <<old>>,
      vouched |-> {}, services |-> ss, time |-> t, purpose |-> p] :
        ss \in MCServices, t \in 1 .. 3, p \in {"signing", "timestamping", "ocsp_signing"}}
===============================================================================
