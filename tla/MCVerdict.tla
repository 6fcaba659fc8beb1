------------------------------ MODULE MCVerdict ------------------------------
(***************************************************************************)
(* An instance of Verdict: a dossier of two documents.  Alice may sign the *)
(* first, Bob may countersign her signature and sign the dossier.  Alice's *)
(* certificate has lapsed by the time of the run and was renewed over the  *)
(* same key.  Objects may be put into a signature in front of its own.     *)
(***************************************************************************)
EXTENDS Verdict, TLC

\* The elements, in document order.
dossier == 1
dossierProfile == 2
documents == 3
docA == 4
profA == 5
objA == 6
sigA == 7
valA == 8
oX == 9
qX == 10
spX == 11
oY == 12
sprY == 13
opA == 14
sprA == 15
oxA == 16
qA == 17
spA == 18
upA == 19
csA == 20
sigC == 21
valC == 22
oxC == 23
qC == 24
spC == 25
upC == 26
docB == 27
profB == 28
objB == 29
docD == 30
profD == 31
objD == 32
sigF == 33
valF == 34
opF == 35
sprF == 36
sprG == 37
oxF == 38
qF == 39
spF == 40
upF == 41

MCNode == 1 .. 41
MCEsDossier == {dossier}
MCEsDossierProfile == {dossierProfile}
MCEsDocuments == {documents}
MCEsDocument == {docA, docB, docD}
MCEsDocumentProfile == {profA, profB, profD}
MCEsSignatureProfile == {sprA, sprF, sprG, sprY}
MCDsObject == {objA, objB, objD, oX, oY, opA, oxA, oxC, opF, oxF}
MCDsSignature == {sigA, sigC, sigF}
MCDsSignatureValue == {valA, valC, valF}
MCQualifyingProperties == {qA, qC, qF, qX}
MCSignedProperties == {spA, spC, spF, spX}
MCUnsignedProperties == {upA, upC, upF}
MCCounterSignature == {csA}

MCObjRef == dossierProfile :> documents @@ profA :> objA @@ profB :> objB
            @@ profD :> objD

MCEmpty == dossier :> Root @@ dossierProfile :> dossier @@ documents :> dossier
           @@ docA :> documents @@ profA :> docA @@ objA :> docA
           @@ docB :> documents @@ profB :> docB @@ objB :> docB
-----------------------------------------------------------------------------
Ref(target) == [target |-> target, transforms |-> <<"c14n">>]
Via(target, transforms) == [target |-> target, transforms |-> transforms]
Refs(targets) == [i \in DOMAIN targets |-> Ref(targets[i])]

Plan(nodes, refs, method, key, keyInfo) ==
    [nodes |-> nodes, refs |-> refs, method |-> method, key |-> key, keyInfo |-> keyInfo]

OnDocument ==
    sigA :> docA @@ valA :> sigA @@ opA :> sigA @@ sprA :> opA
    @@ oxA :> sigA @@ qA :> oxA @@ spA :> qA @@ upA :> qA

\* Bob's signature inside Alice's, in the element for it.
Inside(above) ==
    sigC :> above @@ valC :> sigC @@ oxC :> sigC @@ qC :> oxC @@ spC :> qC
    @@ upC :> qC
Enveloped == csA :> upA @@ Inside(csA)

OnDossier(profile) ==
    sigF :> dossier @@ valF :> sigF @@ opF :> sigF @@ profile :> opF
    @@ oxF :> sigF @@ qF :> oxF @@ spF :> qF @@ upF :> qF

Alice(refs) == Plan(OnDocument, refs, "strong", "keyA", <<"ca", "alice">>)
Bob(nodes, refs, method) == Plan(nodes, refs, method, "keyB", <<"bob">>)

Whole == Via(Root, <<"enveloped", "c14n">>)
Frame == <<dossierProfile, documents, opF, spF>>

MCPlans ==
    [s \in {sigA, sigC, sigF} |->
        CASE s = sigA -> {Alice(<<Whole, Ref(sprA), Ref(spA)>>),
                            Alice(<<Ref(profA), Via(objA, <<"base64">>), Ref(opA), Ref(spA)>>)}
          [] s = sigC -> {Bob(Enveloped, Refs(<<valA, spC>>), "strong")}
          [] s = sigF -> {Bob(OnDossier(sprF), Refs(Frame), "strong"),
                            Bob(OnDossier(sprG), Refs(Frame \o <<valA>>), "legacy")}]

Token(authority, time, supported) ==
    [authority |-> authority, time |-> time, supported |-> supported]
MCStamps ==
    [s \in {sigA, sigC, sigF} |->
        {Token("tsa", 3, TRUE)} \union (IF s = sigC THEN {Token("lapsed", 2, TRUE)} ELSE {})]

MCTouchable  == {objA, valA}
MCMoves      == {<<sigA, dossier>>, <<csA, upF>>, <<sigC, upA>>}
MCDroppable  == {docB, objB, spA}
MCInsertions == {oX :> sigA @@ qX :> oX @@ spX :> qX,
                 oY :> sigF @@ sprY :> oY,
                 docD :> documents @@ profD :> docD @@ objD :> docD}
MCRedigestable == {sigA}
MCKeyInfos   == [s \in {sigA, sigC, sigF} |->
                    IF s = sigA THEN {<<"alice2">>} ELSE {}]
MCGrafts     == {<<upC, upA>>}
-----------------------------------------------------------------------------
MCCert == {"alice", "alice2", "bob", "ca"}
MCKey  == [c \in MCCert |-> CASE c \in {"alice", "alice2"} -> "keyA"
                              [] c = "bob" -> "keyB" [] OTHER -> "keyCa"]
MCNames == [p \in MCNode |-> CASE p = spA -> "alice" [] p = spX -> "alice2"
                               [] p \in {spC, spF} -> "bob" [] OTHER -> Nobody]
MCClaimed  == [p \in MCNode |-> IF p = spX THEN 3 ELSE 2]
MCDeclares == [p \in MCNode |-> IF p \in {sprG, sprY} THEN "countersignature" ELSE "signature"]

Times == 2 .. 4
MCAtFlags == {Nobody, 3}
MCTrustChecks == {Check("trust_store_loaded", "passed")}

\* The trusted list no longer vouches for the lapsed authority, and nobody can
\* say whether it was revoked.
MCAuthority == {"tsa", "lapsed"}
MCAuthorityPath ==
    [a \in MCAuthority, t \in Times |-> IF a = "lapsed" THEN "not_granted" ELSE "passed"]
MCAuthorityRevoked ==
    [a \in MCAuthority, t \in Times |-> IF a = "lapsed" THEN "unknown" ELSE "passed"]
MCPathOutcome == [c \in MCCert, t \in Times |-> IF c = "alice" /\ t = 4 THEN "failed" ELSE "passed"]
MCRevocationOutcome ==
    [c \in MCCert, t \in Times, proven \in BOOLEAN |->
        IF c = "bob" /\ ~proven /\ t = 4 THEN "unknown" ELSE "passed"]
=============================================================================
