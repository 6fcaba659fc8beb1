----------------------------- MODULE DossierTree -----------------------------
(***************************************************************************)
(* What the verifier sees of a dossier: a tree of elements, its identifier *)
(* space, and what a ds:Reference selects of it and digests                *)
(* (openszigno-core parse.rs and xml.rs, openszigno-verify references.rs   *)
(* and dsig.rs).                                                           *)
(*                                                                         *)
(* An element is its identifier, a number that grows in document order.  A *)
(* file says where the elements it has stand (`parent`, and with all that  *)
(* is above `up`) and what is written in each beside its child elements    *)
(* (`text`, a number that every rewriting changes); `sig` holds what the   *)
(* verifier reads of a signature and `stamps` the tokens of its unsigned   *)
(* properties.  Those are part of the text of the element that bears them: *)
(* who rewrites them changes its number too.                               *)
(***************************************************************************)
EXTENDS Integers, Sequences, FiniteSets

CONSTANTS
    Node,        \* every element that may come to be in a file
    EsDossier, EsDossierProfile, EsDocuments, EsDocument, EsDocumentProfile,
    EsSignatureProfile, DsObject, DsSignature, DsSignatureValue, QualifyingProperties,
    SignedProperties, UnsignedProperties, CounterSignature,  \* those of each name
    Root,        \* the document, above the root element
    Nowhere,     \* what stands for no element
    External,    \* a URI that is not a same-document reference
    Unreadable,  \* the digest of what no transform chain leads to
    ObjRef       \* per profile, the element its OBJREF names

ASSUME NodeAssumption == Node \subseteq Nat /\ IsFiniteSet(Node)

ASSUME OutsideAssumption == {Root, Nowhere, External} \intersect Node = {} /\ Root # Nowhere

\* An element has one name.
ASSUME NameAssumption ==
    LET names == <<EsDossier, EsDossierProfile, EsDocuments, EsDocument, EsDocumentProfile,
                   EsSignatureProfile, DsObject, DsSignature, DsSignatureValue,
                   QualifyingProperties, SignedProperties, UnsignedProperties, CounterSignature>>
    IN  \A i, j \in DOMAIN names :
            names[i] \subseteq Node /\ (i # j => names[i] \intersect names[j] = {})

EntriesOf(s) == {s[i] : i \in DOMAIN s}

Present(f) == DOMAIN f.parent

\* Where elements stand, and per element itself and everything above it.
Standing(parent) ==
    LET up[n \in DOMAIN parent \union {Root}] ==
            IF n = Root THEN {Root} ELSE {n} \union up[parent[n]]
    IN  [parent |-> parent, up |-> up]

Below(f, n) == {m \in Present(f) : n \in f.up[m]}

\* The first of some elements in document order.
First(ns) == IF ns = {} THEN Nowhere
             ELSE CHOOSE n \in ns : \A m \in ns : n <= m

\* The last of some elements one above the other.
Nearest(f, ns) == IF ns = {} THEN Nowhere
                  ELSE CHOOSE n \in ns : ns \subseteq f.up[n]

Those(f, name) == name \intersect Present(f)
Children(f, n, name) == {m \in Those(f, name) : f.parent[m] = n}
Child(f, n, name) == First(Children(f, n, name))

Signatures(f) == Those(f, DsSignature)
Dossier(f) == Child(f, Root, EsDossier)
DossierProfile(f) == Child(f, Dossier(f), EsDossierProfile)
Documents(f) == Child(f, Dossier(f), EsDocuments)

\* The signature an element belongs to, and the one around a signature.
Owner(f, n) == Nearest(f, DsSignature \intersect f.up[n])
Enclosing(f, s) == Nearest(f, (DsSignature \intersect f.up[s]) \ {s})
-----------------------------------------------------------------------------
(* What the structural parser accepts.                                     *)

\* The documents it models, which are those with a profile.
Modelled(f) ==
    {d \in Children(f, Documents(f), EsDocument) : Children(f, d, EsDocumentProfile) # {}}

Profile(f, d) == Child(f, d, EsDocumentProfile)
Payload(f, d) == Child(f, d, DsObject)

Conforming(f) ==
    /\ Cardinality(Children(f, Root, EsDossier)) = 1
    /\ Cardinality(Children(f, Dossier(f), EsDossierProfile)) = 1
    /\ Cardinality(Children(f, Dossier(f), EsDocuments)) = 1
    /\ ObjRef[DossierProfile(f)] = Documents(f)
    /\ \A p \in Those(f, EsDocumentProfile) : ObjRef[p] \in Present(f)
    /\ \A d \in Modelled(f) :
        /\ Cardinality(Children(f, d, EsDocumentProfile)) = 1
        /\ Children(f, d, DsObject) = {ObjRef[Profile(f, d)]}
-----------------------------------------------------------------------------
(* What a reference covers.  One is a record of the element its URI names  *)
(* and of its transforms, in order.                                        *)

Allowed == {"enveloped", "c14n", "base64"}

\* The transforms outside the list are a canonicalization nobody implements
\* here and everything else.
Transforms == Allowed \union {"other_c14n", "other"}

Resolved(f, r) == IF r.target \in Present(f) \union {Root} THEN r.target ELSE Nowhere

Scope(apex, excluded, octets) == [apex |-> apex, excluded |-> excluded, octets |-> octets]

NoScope == Scope(Nowhere, {}, FALSE)

\* The enveloped transform takes away the signature the reference is in, and
\* Base64 leaves the text of one element.
EffectiveNodeSet(f, s, r) ==
    IF Resolved(f, r) = Nowhere \/ ~(EntriesOf(r.transforms) \subseteq Allowed) THEN NoScope
    ELSE Scope(Resolved(f, r),
               IF "enveloped" \in EntriesOf(r.transforms) THEN {s} ELSE {},
               "base64" \in EntriesOf(r.transforms))

CoversIn(f, scope, n) ==
    LET up == f.up[n] IN
    /\ scope.apex \in up
    /\ scope.excluded \intersect up = {}
    /\ scope.octets => n = scope.apex

\* Is the element in the node set of some reference of the signature?
Covered(f, s, n) ==
    \E i \in DOMAIN f.sig[s].refs : CoversIn(f, EffectiveNodeSet(f, s, f.sig[s].refs[i]), n)
-----------------------------------------------------------------------------
(* What a reference digests.                                               *)

\* The octets of some elements: what is written in each and where it stands
\* under the topmost.
Octets(f, ns, apex) ==
    [n \in ns |-> [under |-> IF n = apex THEN Nowhere ELSE f.parent[n], text |-> f.text[n]]]

\* What is written in payload objects is Base64, and nothing else is.
Decodable(f, n) == n \in Present(f) /\ Below(f, n) \subseteq DsObject

\* After octets came out of a transform there is no node set for another to
\* take, and neither canonical XML nor a payload is Base64.  Decoding takes all
\* that is written in the apex, whatever elements it stands in.
Digested(f, s, r) ==
    LET apex == Resolved(f, r)
        chain == r.transforms
        enveloped == "enveloped" \in EntriesOf(chain)
        kept == {n \in Present(f) : apex \in f.up[n] /\ (enveloped => s \notin f.up[n])}
    IN  IF \/ apex = Nowhere
           \/ ~(EntriesOf(chain) \subseteq Allowed)
           \/ \E i, j \in DOMAIN chain : i < j /\ chain[i] # "enveloped"
           \/ enveloped /\ s \in f.up[apex]
           \/ "base64" \in EntriesOf(chain) /\ ~Decodable(f, apex)
        THEN Unreadable
        ELSE IF "base64" \in EntriesOf(chain) THEN [n \in kept |-> f.text[n]]
        ELSE Octets(f, kept, apex)
=============================================================================
