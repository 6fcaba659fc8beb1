--------------------------- MODULE Verdict_proofs ---------------------------
(***************************************************************************)
(* For every dossier, however it was signed, stamped and rewritten: what   *)
(* is reported valid is what its signers saw, attributed to a certificate  *)
(* they named, at an instant that was proven, and nothing else decides.    *)
(***************************************************************************)
EXTENDS Verdict, FiniteSetTheorems, WellFoundedInduction, TLAPS

Ranks(f) == [Present(f) \union {Root} -> Nat]

\* No element is below itself: every one is deeper than the one it stands in.
Deeper(f, rank) ==
    /\ rank \in Ranks(f)
    /\ \A n \in Present(f) : rank[f.parent[n]] < rank[n]

\* The elements of a file form a tree under the document, and `up` is what its
\* name says.
Tree(f) ==
    /\ Present(f) \subseteq Node
    /\ \A n \in Present(f) : f.parent[n] \in Present(f) \union {Root}
    /\ DOMAIN f.up = Present(f) \union {Root}
    /\ f.up[Root] = {Root}
    /\ \A n \in Present(f) : f.up[n] = {n} \union f.up[f.parent[n]]
    /\ \E rank \in Ranks(f) : Deeper(f, rank)

-----------------------------------------------------------------------------
(* Trees.                                                                  *)

Less == {ij \in Nat \X Nat : ij[1] < ij[2]}

\* The least of some numbers.
LEMMA Least ==
    ASSUME NEW S \in SUBSET Nat, S # {}
    PROVE  \E k \in S : \A j \in S : k <= j
<1>1. OpToRel(<, Nat) = Less
    BY DEF OpToRel, Less
<1>2. IsWellFoundedOn(Less, Nat)
    BY NatLessThanWellFounded, <1>1
<1>3. PICK k \in S : \A j \in S : ~(<<j, k>> \in Less)
    BY <1>2, WFMin, Zenon
<1>4. ASSUME NEW j \in S PROVE k <= j
    <2>1. <<j, k>> \notin Less /\ j \in Nat /\ k \in Nat
        BY <1>3
    <2>2. <<j, k>> \in Nat \X Nat /\ <<j, k>>[1] = j /\ <<j, k>>[2] = k
        BY <2>1
    <2>3. ~(j < k)
        BY <2>1, <2>2 DEF Less
    <2> QED
        BY <2>1, <2>3
<1> QED
    BY <1>4

\* Root and Nowhere are no elements.
LEMMA Outside == Root \notin Node /\ Nowhere \notin Node /\ Root # Nowhere
BY OutsideAssumption

\* The first of some elements is one of them.
LEMMA FirstIsOne ==
    ASSUME NEW ns \in SUBSET Node
    PROVE  /\ ns = {} => First(ns) = Nowhere
           /\ ns # {} => First(ns) \in ns /\ \A m \in ns : First(ns) <= m
<1>1. CASE ns = {}
    BY <1>1 DEF First
<1>2. CASE ns # {}
    <2>1. ns \in SUBSET Nat
        BY NodeAssumption
    <2>2. \E n \in ns : \A m \in ns : n <= m
        BY <1>2, <2>1, Least
    <2> QED
        BY <1>2, <2>2 DEF First
<1> QED
    BY <1>1, <1>2

\* What holds of the document, and of an element when of the one it stands in,
\* holds of all.
LEMMA TreeInduction ==
    ASSUME NEW f, Tree(f), NEW Q, Root \in Q,
           \A n \in Present(f) : f.parent[n] \in Q => n \in Q
    PROVE  Present(f) \union {Root} \subseteq Q
<1>1. PICK rank \in Ranks(f) : Deeper(f, rank)
    BY DEF Tree
<1> DEFINE Bad == {n \in Present(f) : n \notin Q}
           S == {rank[n] : n \in Bad}
<1>2. rank \in [Present(f) \union {Root} -> Nat]
    BY <1>1 DEF Ranks
<1>3. S \in SUBSET Nat
    BY <1>2
<1>4. SUFFICES ASSUME Bad # {} PROVE FALSE
    OBVIOUS
<1>5. S # {}
    BY <1>4
<1>6. PICK k \in S : \A j \in S : k <= j
    BY <1>3, <1>5, Least
<1>7. PICK n \in Bad : k = rank[n]
    BY <1>6
<1>8. f.parent[n] \in Present(f) \union {Root} /\ rank[f.parent[n]] < rank[n]
    BY <1>1, <1>7 DEF Tree, Deeper
<1>9. f.parent[n] \in Q
    <2>1. CASE f.parent[n] \in Bad
        <3>1. rank[f.parent[n]] \in S
            BY <2>1
        <3>2. k <= rank[f.parent[n]] /\ k \in Nat /\ rank[f.parent[n]] \in Nat
            BY <1>3, <1>6, <3>1
        <3> QED
            BY <1>7, <1>8, <3>2
    <2>2. CASE f.parent[n] \notin Bad
        BY <1>8, <2>2
    <2> QED
        BY <2>1, <2>2
<1> QED
    BY <1>7, <1>9

\* What is above an element is in the tree, and it is itself among it.
LEMMA UpStays ==
    ASSUME NEW f, Tree(f), NEW n \in Present(f) \union {Root}
    PROVE  /\ f.up[n] \subseteq Present(f) \union {Root}
           /\ n \in f.up[n] /\ Root \in f.up[n]
<1> DEFINE Q == {m \in Present(f) \union {Root} :
                    f.up[m] \subseteq Present(f) \union {Root} /\ m \in f.up[m] /\ Root \in f.up[m]}
<1>1. Root \in Q
    BY DEF Tree
<1>2. ASSUME NEW m \in Present(f), f.parent[m] \in Q PROVE m \in Q
    <2>1. f.up[m] = {m} \union f.up[f.parent[m]]
        BY DEF Tree
    <2> QED
        BY <1>2, <2>1
<1>3. Present(f) \union {Root} \subseteq Q
    <2> HIDE DEF Q
    <2> QED
        BY <1>1, <1>2, TreeInduction
<1> QED
    BY <1>3

\* Above what is above is above.
LEMMA UpIsTransitive ==
    ASSUME NEW f, Tree(f), NEW n \in Present(f) \union {Root}, NEW m \in f.up[n]
    PROVE  f.up[m] \subseteq f.up[n]
<1> DEFINE Q == {k \in Present(f) \union {Root} : \A j \in f.up[k] : f.up[j] \subseteq f.up[k]}
<1>1. Root \in Q
    BY DEF Tree
<1>2. ASSUME NEW k \in Present(f), f.parent[k] \in Q PROVE k \in Q
    <2>1. f.up[k] = {k} \union f.up[f.parent[k]]
        BY DEF Tree
    <2> QED
        BY <1>2, <2>1
<1>3. Present(f) \union {Root} \subseteq Q
    <2> HIDE DEF Q
    <2> QED
        BY <1>1, <1>2, TreeInduction
<1> QED
    BY <1>3

\* No two elements are above each other.
LEMMA UpIsAntisymmetric ==
    ASSUME NEW f, Tree(f), NEW n \in Present(f) \union {Root}, NEW m \in f.up[n], n \in f.up[m]
    PROVE  m = n
<1>1. PICK rank \in Ranks(f) : Deeper(f, rank)
    BY DEF Tree
<1> DEFINE Q == {k \in Present(f) \union {Root} : \A j \in f.up[k] : j = k \/ rank[j] < rank[k]}
<1>2. rank \in [Present(f) \union {Root} -> Nat]
    BY <1>1 DEF Ranks
<1>3. Root \in Q
    BY DEF Tree
<1>4. ASSUME NEW k \in Present(f), f.parent[k] \in Q PROVE k \in Q
    <2>1. f.up[k] = {k} \union f.up[f.parent[k]] /\ rank[f.parent[k]] < rank[k]
        BY <1>1 DEF Tree, Deeper
    <2>2. ASSUME NEW j \in f.up[k], j # k PROVE rank[j] < rank[k]
        <3>1. j \in f.up[f.parent[k]]
            BY <2>1, <2>2
        <3>2. j = f.parent[k] \/ rank[j] < rank[f.parent[k]]
            BY <1>4, <3>1
        <3>3. j \in Present(f) \union {Root}
            BY UpStays
        <3>4. rank[j] \in Nat /\ rank[k] \in Nat /\ rank[f.parent[k]] \in Nat
            BY <1>2, <1>4, <3>3
        <3> QED
            BY <2>1, <3>2, <3>4
    <2> QED
        BY <2>2
<1>5. Present(f) \union {Root} \subseteq Q
    <2> HIDE DEF Q
    <2> QED
        BY <1>3, <1>4, TreeInduction
<1>6. m \in Present(f) \union {Root}
    BY UpStays
<1>7. m = n \/ (rank[m] < rank[n] /\ rank[n] < rank[m])
    BY <1>5, <1>6
<1> QED
    BY <1>2, <1>6, <1>7

\* Of two elements above one, one is above the other.
LEMMA UpIsAChain ==
    ASSUME NEW f, Tree(f), NEW n \in Present(f) \union {Root}, NEW a \in f.up[n], NEW b \in f.up[n]
    PROVE  a \in f.up[b] \/ b \in f.up[a]
<1> DEFINE Q == {k \in Present(f) \union {Root} :
                    \A i, j \in f.up[k] : i \in f.up[j] \/ j \in f.up[i]}
<1>1. Root \in Q
    BY DEF Tree
<1>2. ASSUME NEW k \in Present(f), f.parent[k] \in Q PROVE k \in Q
    <2>1. f.up[k] = {k} \union f.up[f.parent[k]]
        BY DEF Tree
    <2>2. ASSUME NEW i \in f.up[k], NEW j \in f.up[k] PROVE i \in f.up[j] \/ j \in f.up[i]
        <3>1. CASE i = k \/ j = k
            BY <3>1
        <3>2. CASE i # k /\ j # k
            BY <1>2, <2>1, <3>2
        <3> QED
            BY <3>1, <3>2
    <2> QED
        BY <2>2
<1>3. Present(f) \union {Root} \subseteq Q
    <2> HIDE DEF Q
    <2> QED
        BY <1>1, <1>2, TreeInduction
<1> QED
    BY <1>3

\* Of some elements above one, the nearest is one of them and below the rest.
LEMMA NearestIsOne ==
    ASSUME NEW f, Tree(f), NEW n \in Present(f) \union {Root}, NEW ns \in SUBSET f.up[n]
    PROVE  /\ ns = {} => Nearest(f, ns) = Nowhere
           /\ ns # {} => Nearest(f, ns) \in ns /\ ns \subseteq f.up[Nearest(f, ns)]
<1> DEFINE Q == {k \in Present(f) \union {Root} :
                    \A s \in SUBSET f.up[k] : s # {} => \E x \in s : s \subseteq f.up[x]}
<1>1. Root \in Q
    <2>1. f.up[Root] = {Root}
        BY DEF Tree
    <2> QED
        BY <2>1
<1>2. ASSUME NEW k \in Present(f), f.parent[k] \in Q PROVE k \in Q
    <2>1. f.up[k] = {k} \union f.up[f.parent[k]]
        BY DEF Tree
    <2>2. ASSUME NEW s \in SUBSET f.up[k], s # {} PROVE \E x \in s : s \subseteq f.up[x]
        <3>1. CASE k \in s
            BY <2>2, <3>1
        <3>2. CASE k \notin s
            <4>1. s \in SUBSET f.up[f.parent[k]]
                BY <2>1, <3>2
            <4> QED
                BY <1>2, <2>2, <4>1
        <3> QED
            BY <3>1, <3>2
    <2> QED
        BY <2>2
<1>3. Present(f) \union {Root} \subseteq Q
    <2> HIDE DEF Q
    <2> QED
        BY <1>1, <1>2, TreeInduction
<1>4. ns # {} => \E x \in ns : ns \subseteq f.up[x]
    BY <1>3
<1> QED
    BY <1>4 DEF Nearest

\* Where the elements stand, and how deep.
Ranked(parent, rank) ==
    /\ \A n \in DOMAIN parent : parent[n] \in DOMAIN parent \union {Root}
    /\ rank \in [DOMAIN parent \union {Root} -> Nat]
    /\ \A n \in DOMAIN parent : rank[parent[n]] < rank[n]

\* What `Standing` computes is there: what is above an element is whatever every
\* set has that it is in and that has with an element the one it stands in.
LEMMA StandingIsThere ==
    ASSUME NEW parent, Root \notin DOMAIN parent,
           \A n \in DOMAIN parent : parent[n] \in DOMAIN parent \union {Root}
    PROVE  LET up == Standing(parent).up IN
           /\ DOMAIN up = DOMAIN parent \union {Root}
           /\ up[Root] = {Root}
           /\ \A n \in DOMAIN parent : up[n] = {n} \union up[parent[n]]
<1> DEFINE S == DOMAIN parent \union {Root}
           Closed == {C \in SUBSET S : \A x \in C \ {Root} : parent[x] \in C}
           U == [n \in S |-> {m \in S : \A C \in Closed : n \in C => m \in C}]
           P(up) == up = [n \in S |-> IF n = Root THEN {Root} ELSE {n} \union up[parent[n]]]
<1>1. U[Root] = {Root}
    <2>1. {Root} \in Closed /\ Root \in S
        OBVIOUS
    <2> QED
        BY <2>1
<1>2. ASSUME NEW n \in DOMAIN parent PROVE U[n] = {n} \union U[parent[n]]
    <2>1. n \in S /\ n # Root /\ parent[n] \in S
        OBVIOUS
    <2>2. U[n] = {m \in S : \A C \in Closed : n \in C => m \in C}
        BY <2>1
    <2>3. U[parent[n]] = {m \in S : \A C \in Closed : parent[n] \in C => m \in C}
        BY <2>1
    <2> DEFINE D == {n} \union U[parent[n]]
    <2>4. D \in Closed
        <3>1. D \subseteq S
            BY <2>1, <2>3
        <3>2. ASSUME NEW x \in D \ {Root} PROVE parent[x] \in D
            <4>1. CASE x = n
                BY <2>1, <2>3, <4>1
            <4>2. CASE x # n
                <5>1. x \in U[parent[n]] /\ x \in DOMAIN parent
                    BY <2>3, <3>2, <4>2
                <5>2. \A C \in Closed : parent[n] \in C => parent[x] \in C
                    BY <2>3, <3>2, <5>1
                <5> QED
                    BY <2>3, <5>1, <5>2
            <4> QED
                BY <4>1, <4>2
        <3> QED
            BY <3>1, <3>2
    <2>5. U[n] \subseteq D
        BY <2>2, <2>4
    <2>6. D \subseteq U[n]
        <3>1. \A C \in Closed : n \in C => parent[n] \in C
            BY <2>1
        <3> QED
            BY <2>1, <2>2, <2>3, <3>1
    <2> QED
        BY <2>5, <2>6
<1>3. P(U)
    <2>1. DOMAIN U = S
        OBVIOUS
    <2>2. U = [n \in S |-> U[n]]
        OBVIOUS
    <2>3. \A n \in S : U[n] = IF n = Root THEN {Root} ELSE {n} \union U[parent[n]]
        BY <1>1, <1>2
    <2> HIDE DEF U, S
    <2> QED
        BY <2>1, <2>2, <2>3
<1>4. Standing(parent).up = CHOOSE up : P(up)
    BY DEF Standing
<1> DEFINE up == CHOOSE g : P(g)
<1>5. P(up)
    <2> HIDE DEF P, U
    <2>1. \E g : P(g)
        BY <1>3
    <2> QED
        BY <2>1
<1> HIDE DEF up
<1>6. DOMAIN up = S /\ up[Root] = {Root} /\ \A n \in DOMAIN parent : up[n] = {n} \union up[parent[n]]
    BY <1>5
<1>7. Standing(parent).up = up
    BY <1>4 DEF up
<1> QED
    BY <1>6, <1>7

\* Elements that stand ever deeper form a tree once `up` has been worked out.
LEMMA StandingIsATree ==
    ASSUME NEW f, NEW parent, NEW rank, DOMAIN parent \subseteq Node, Ranked(parent, rank),
           f.parent = parent, f.up = Standing(parent).up
    PROVE  Tree(f)
<1>1. Root \notin DOMAIN parent
    BY Outside
<1>2. /\ DOMAIN f.up = DOMAIN parent \union {Root}
      /\ f.up[Root] = {Root}
      /\ \A n \in DOMAIN parent : f.up[n] = {n} \union f.up[parent[n]]
    BY <1>1, StandingIsThere DEF Ranked
<1>3. Present(f) = DOMAIN parent
    BY DEF Present
<1>4. rank \in Ranks(f) /\ Deeper(f, rank)
    BY <1>3 DEF Ranks, Deeper, Ranked
<1> QED
    BY <1>2, <1>3, <1>4 DEF Tree, Ranked

\* What a file is otherwise does not matter to its tree.
LEMMA TreeIsOfPlaces ==
    ASSUME NEW f, NEW g, Tree(f), g.parent = f.parent, g.up = f.up
    PROVE  Tree(g)
<1>1. Present(g) = Present(f) /\ Ranks(g) = Ranks(f)
    BY DEF Present, Ranks
<1>2. \A rank : Deeper(f, rank) <=> Deeper(g, rank)
    BY <1>1 DEF Deeper
<1> QED
    BY <1>1, <1>2 DEF Tree

\* The depths in a file are bounded.
LEMMA RanksAreBounded ==
    ASSUME NEW f, Tree(f), NEW rank \in Ranks(f)
    PROVE  \E b \in Nat : \A n \in Present(f) \union {Root} : rank[n] < b
<1> DEFINE S == Present(f) \union {Root}
           Bounded(T) == \E b \in Nat : \A n \in T : rank[n] < b
           Bad == {T \in SUBSET S : ~Bounded(T)}
           Sizes == {Cardinality(T) : T \in Bad}
<1>1. IsFiniteSet(S)
    <2>1. IsFiniteSet(Present(f))
        BY NodeAssumption, FS_Subset DEF Tree
    <2> QED
        BY <2>1, FS_AddElement
<1>2. rank \in [S -> Nat]
    BY DEF Ranks
<1>3. SUFFICES ASSUME ~Bounded(S) PROVE FALSE
    OBVIOUS
<1>4. \A T \in Bad : IsFiniteSet(T) /\ Cardinality(T) \in Nat
    BY <1>1, FS_Subset, FS_CardinalityType
<1>5. Sizes \in SUBSET Nat /\ Sizes # {}
    BY <1>3, <1>4
<1>6. PICK c \in Sizes : \A d \in Sizes : c <= d
    <2> HIDE DEF Sizes
    <2> QED
        BY <1>5, Least
<1>7. PICK T \in Bad : Cardinality(T) = c
    BY <1>6
<1>8. PICK x \in T : TRUE
    <2>1. 0 \in Nat /\ (T = {} => Bounded(T))
        OBVIOUS
    <2> QED
        BY <1>7, <2>1
<1>9. Cardinality(T \ {x}) = c - 1 /\ IsFiniteSet(T \ {x}) /\ c \in Nat
    BY <1>4, <1>7, <1>8, FS_RemoveElement
<1>10. Bounded(T \ {x})
    <2>1. SUFFICES ASSUME T \ {x} \in Bad PROVE FALSE
        BY <1>7
    <2>2. c - 1 \in Sizes
        BY <1>9, <2>1
    <2> QED
        BY <1>6, <1>9, <2>2
<1>11. PICK b \in Nat : \A n \in T \ {x} : rank[n] < b
    BY <1>10
<1>12. \A n \in T : rank[n] \in Nat
    BY <1>2, <1>7
<1>13. \A n \in T : rank[n] < b + rank[x] + 1
    BY <1>8, <1>11, <1>12
<1>14. b + rank[x] + 1 \in Nat
    BY <1>8, <1>12
<1>15. Bounded(T)
    BY <1>13, <1>14
<1> QED
    BY <1>7, <1>15

\* A file without an element, and all below it, is a tree.
LEMMA WithoutIsATree ==
    ASSUME NEW f, Tree(f), NEW x \in Present(f),
           f = [parent |-> f.parent, up |-> f.up, text |-> f.text, sig |-> f.sig, stamps |-> f.stamps]
    PROVE  Tree(Without(f, x))
<1> DEFINE g == Without(f, x)
           kept == Present(f) \ Below(f, x)
<1>1. g.parent = [n \in kept |-> f.parent[n]] /\ g.up = [n \in kept \union {Root} |-> f.up[n]]
    BY DEF Without
<1>2. Present(g) = kept
    BY <1>1 DEF Present
<1>3. ASSUME NEW n \in kept PROVE f.parent[n] \in kept \union {Root}
    <2>1. f.parent[n] \in Present(f) \union {Root} /\ f.up[n] = {n} \union f.up[f.parent[n]]
        BY DEF Tree
    <2>2. x \notin f.up[n]
        BY DEF Below
    <2> QED
        BY <2>1, <2>2 DEF Below
<1>4. PICK rank \in Ranks(f) : Deeper(f, rank)
    BY DEF Tree
<1> DEFINE low == [n \in kept \union {Root} |-> rank[n]]
<1>5. low \in Ranks(g) /\ Deeper(g, low)
    <2>1. low \in Ranks(g)
        BY <1>2, <1>4 DEF Ranks
    <2>2. ASSUME NEW n \in kept PROVE low[g.parent[n]] < low[n]
        BY <1>1, <1>3, <1>4 DEF Deeper
    <2> QED
        BY <1>2, <2>1, <2>2 DEF Deeper
<1>6. Root \notin kept
    BY Outside DEF Tree
<1>7. \A n \in kept : g.parent[n] = f.parent[n] /\ g.up[n] = f.up[n]
    BY <1>1
<1>8. g.up[Root] = {Root} /\ DOMAIN g.up = kept \union {Root}
    BY <1>1 DEF Tree
<1>9. \A n \in kept : g.up[n] = {n} \union g.up[g.parent[n]]
    <2> SUFFICES ASSUME NEW n \in kept PROVE g.up[n] = {n} \union g.up[g.parent[n]]
        OBVIOUS
    <2>1. g.up[f.parent[n]] = f.up[f.parent[n]]
        BY <1>1, <1>3
    <2> QED
        BY <1>7, <2>1 DEF Tree
<1>10. kept \subseteq Node
    BY DEF Tree
<1> HIDE DEF g, low, kept
<1> QED
    BY <1>2, <1>3, <1>5, <1>7, <1>8, <1>9, <1>10 DEF Tree, g

\* Elements added below ones that are there, in document order, make a tree.
LEMMA WithIsATree ==
    ASSUME NEW f, Tree(f), NEW nodes, InOrder(nodes), CanStand(f, nodes),
           f = [parent |-> f.parent, up |-> f.up, text |-> f.text, sig |-> f.sig, stamps |-> f.stamps]
    PROVE  Tree(With(f, nodes))
<1> DEFINE P == Present(f)
           D == DOMAIN nodes
           parent == [n \in P \union D |-> IF n \in D THEN nodes[n] ELSE f.parent[n]]
<1>1. PICK rank \in Ranks(f) : Deeper(f, rank)
    BY DEF Tree
<1>2. PICK b \in Nat : \A n \in P \union {Root} : rank[n] < b
    BY <1>1, RanksAreBounded
<1> DEFINE low == [n \in P \union D \union {Root} |-> IF n \in D THEN b + n ELSE rank[n]]
<1>3. D \subseteq Node /\ D \intersect P = {} /\ P \subseteq Node /\ Root \notin P \union D
    BY Outside DEF InOrder, CanStand, Tree
<1>4. Node \subseteq Nat
    BY NodeAssumption
<1>5. rank \in [P \union {Root} -> Nat]
    BY <1>1 DEF Ranks
<1>6. DOMAIN parent = P \union D /\ DOMAIN parent \subseteq Node
    BY <1>3
<1>7. ASSUME NEW n \in P \union D
      PROVE  parent[n] \in P \union D \union {Root} /\ low[parent[n]] < low[n]
    <2>1. CASE n \in D
        <3>1. parent[n] = nodes[n] /\ nodes[n] \in P \union D
            BY <2>1 DEF CanStand
        <3>2. CASE nodes[n] \in D
            BY <1>3, <1>4, <2>1, <3>1, <3>2 DEF InOrder
        <3>3. CASE nodes[n] \in P
            BY <1>2, <1>3, <1>4, <1>5, <2>1, <3>1, <3>3
        <3> QED
            BY <3>1, <3>2, <3>3
    <2>2. CASE n \in P
        <3>1. f.parent[n] \in P \union {Root} /\ rank[f.parent[n]] < rank[n]
            BY <1>1, <2>2 DEF Tree, Deeper
        <3> QED
            BY <1>3, <2>2, <3>1
    <2> QED
        BY <2>1, <2>2
<1>8. low \in [DOMAIN parent \union {Root} -> Nat]
    BY <1>2, <1>3, <1>4, <1>5, <1>6
<1>9. Ranked(parent, low)
    <2> HIDE DEF parent, low
    <2> QED
        BY <1>6, <1>7, <1>8 DEF Ranked
<1>10. With(f, nodes).parent = parent /\ With(f, nodes).up = Standing(parent).up
    BY DEF With, At, Standing
<1> HIDE DEF parent, low
<1> QED
    BY <1>6, <1>9, <1>10, StandingIsATree

\* An element moved to where it is not above makes a tree.
LEMMA MovedIsATree ==
    ASSUME NEW f, Tree(f), NEW n \in Present(f), NEW p \in Present(f), p \notin Below(f, n),
           f = [parent |-> f.parent, up |-> f.up, text |-> f.text, sig |-> f.sig, stamps |-> f.stamps]
    PROVE  Tree(At(f, [f.parent EXCEPT ![n] = p]))
<1> DEFINE P == Present(f)
           parent == [f.parent EXCEPT ![n] = p]
           g == At(f, parent)
<1>1. PICK rank \in Ranks(f) : Deeper(f, rank)
    BY DEF Tree
<1> DEFINE low == [m \in P \union {Root} |->
                      IF m \in Below(f, n) THEN rank[m] + rank[p] + 1 ELSE rank[m]]
<1>2. rank \in [P \union {Root} -> Nat]
    BY <1>1 DEF Ranks
<1>3. DOMAIN parent = P /\ P \subseteq Node
    BY DEF Present, Tree
<1>4. n \in Below(f, n)
    BY UpStays DEF Below
<1>5. Root \notin Below(f, n)
    BY Outside DEF Below, Tree
<1>6. ASSUME NEW m \in P PROVE parent[m] \in P \union {Root} /\ low[parent[m]] < low[m]
    <2>1. CASE m = n
        <3>1. parent[m] = p
            BY <1>3, <2>1 DEF Present
        <3> QED
            BY <1>2, <1>4, <2>1, <3>1
    <2>2. CASE m # n
        <3>1. parent[m] = f.parent[m] /\ f.parent[m] \in P \union {Root} /\ rank[f.parent[m]] < rank[m]
            BY <1>1, <2>2 DEF Deeper, Tree, Present
        <3>2. f.up[m] = {m} \union f.up[f.parent[m]]
            BY DEF Tree
        <3>3. m \in Below(f, n) => f.parent[m] \in Below(f, n)
            <4>1. ASSUME n \in f.up[m] PROVE n \in f.up[f.parent[m]] /\ f.parent[m] # Root
                <5>1. n \in f.up[f.parent[m]]
                    BY <2>2, <3>2, <4>1
                <5>2. f.up[Root] = {Root} /\ n # Root
                    BY Outside DEF Tree
                <5> QED
                    BY <5>1, <5>2
            <4> QED
                BY <3>1, <4>1 DEF Below
        <3>4. f.parent[m] \in Below(f, n) => m \in Below(f, n)
            BY <3>2 DEF Below
        <3> QED
            BY <1>2, <3>1, <3>3, <3>4
    <2> QED
        BY <2>1, <2>2
<1>7. low \in [DOMAIN parent \union {Root} -> Nat]
    BY <1>2, <1>3
<1>8. Ranked(parent, low)
    <2> HIDE DEF parent, low
    <2> QED
        BY <1>3, <1>6, <1>7 DEF Ranked
<1>9. g.parent = parent /\ g.up = Standing(parent).up
    BY DEF At, Standing
<1> HIDE DEF parent, low, g
<1>10. Tree(g)
    BY <1>3, <1>8, <1>9, StandingIsATree
<1> QED
    BY <1>10 DEF g, parent

-----------------------------------------------------------------------------
(* What a digest shows.                                                    *)

\* What a reference to an element keeps of it.
Within(f, s, apex, enveloped) ==
    {n \in Present(f) : apex \in f.up[n] /\ (enveloped => s \notin f.up[n])}

\* Two files agree below an element.
Agree(f, g, s, a, env) == Octets(f, Within(f, s, a, env), a) = Octets(g, Within(g, s, a, env), a)

\* They have the same elements there, with the same text, in the same places.
LEMMA AgreeMeans ==
    ASSUME NEW f, NEW g, NEW s, NEW a, NEW env, Agree(f, g, s, a, env)
    PROVE  /\ Within(f, s, a, env) = Within(g, s, a, env)
           /\ \A n \in Within(f, s, a, env) :
                /\ f.text[n] = g.text[n]
                /\ n # a => f.parent[n] = g.parent[n]
<1> DEFINE K == Within(f, s, a, env)
           L == Within(g, s, a, env)
           E(h, n) == [under |-> IF n = a THEN Nowhere ELSE h.parent[n], text |-> h.text[n]]
<1>1. [n \in K |-> E(f, n)] = [n \in L |-> E(g, n)]
    BY DEF Agree, Octets
<1>2. K = L
    <2> HIDE DEF K, L, E
    <2> QED
        BY <1>1
<1>3. ASSUME NEW n \in K PROVE E(f, n) = E(g, n)
    <2> HIDE DEF K, L, E
    <2> QED
        BY <1>1, <1>2, <1>3
<1>4. ASSUME NEW n \in K
      PROVE  f.text[n] = g.text[n] /\ (n # a => f.parent[n] = g.parent[n])
    <2>1. E(f, n) = E(g, n)
        BY <1>3
    <2>2. E(f, n).text = E(g, n).text /\ E(f, n).under = E(g, n).under
        BY <2>1
    <2> QED
        BY <2>2
<1> QED
    BY <1>2, <1>4

\* And so the same elements above one another there.
LEMMA AgreeOnUp ==
    ASSUME NEW f, NEW g, Tree(f), Tree(g), NEW s, NEW a, NEW env, Agree(f, g, s, a, env),
           NEW m \in Within(f, s, a, env), NEW x \in Within(f, s, a, env)
    PROVE  x \in f.up[m] <=> x \in g.up[m]
<1> DEFINE K == Within(f, s, a, env)
           Q == {n \in Present(f) \union {Root} : n \in K => \A y \in K : y \in f.up[n] <=> y \in g.up[n]}
<1>1. K = Within(g, s, a, env) /\ \A n \in K : n # a => f.parent[n] = g.parent[n]
    BY AgreeMeans
<1>2. K \subseteq Present(f) /\ K \subseteq Present(g) /\ Root \notin K
    BY <1>1, Outside DEF Within, Tree
<1>3. \A n \in K : a \in f.up[n] /\ a \in g.up[n]
    BY <1>1 DEF Within
<1>4. Root \in Q
    BY <1>2
<1>5. ASSUME NEW n \in Present(f), f.parent[n] \in Q PROVE n \in Q
    <2>1. SUFFICES ASSUME n \in K, NEW y \in K PROVE y \in f.up[n] <=> y \in g.up[n]
        BY <1>5
    <2>2. CASE n = a
        <3>1. y \in f.up[n] => y = n
            BY <1>2, <1>3, <2>1, <2>2, UpIsAntisymmetric
        <3>2. y \in g.up[n] => y = n
            BY <1>2, <1>3, <2>1, <2>2, UpIsAntisymmetric
        <3>3. n \in f.up[n] /\ n \in g.up[n]
            BY <1>2, <2>1, UpStays
        <3> QED
            BY <3>1, <3>2, <3>3
    <2>3. CASE n # a
        <3> DEFINE p == f.parent[n]
        <3>1. g.parent[n] = p
            BY <1>1, <2>1, <2>3
        <3>2. f.up[n] = {n} \union f.up[p] /\ g.up[n] = {n} \union g.up[p] /\ p \in Present(f) \union {Root}
            BY <1>2, <2>1, <3>1 DEF Tree
        <3>3. CASE p = Root
            <4>1. f.up[p] = {Root} /\ g.up[p] = {Root}
                BY <3>3 DEF Tree
            <4> QED
                BY <1>2, <2>1, <3>2, <4>1
        <3>4. CASE p # Root
            <4>1. p \in K
                BY <1>3, <2>1, <2>3, <3>2, <3>4 DEF Within
            <4>2. y \in f.up[p] <=> y \in g.up[p]
                BY <1>5, <2>1, <4>1
            <4> QED
                BY <3>2, <4>2
        <3> QED
            BY <3>3, <3>4
    <2> QED
        BY <2>2, <2>3
<1>6. Present(f) \union {Root} \subseteq Q
    <2> HIDE DEF Q
    <2> QED
        BY <1>4, <1>5, TreeInduction
<1> QED
    BY <1>2, <1>6

\* Everything in an element there, a signature in it excepted.
Inner(f, n, s) == IF n \in Below(f, s) THEN Below(f, n) ELSE Below(f, n) \ Below(f, s)

\* What is in an element there is there too.
LEMMA InnerIsWithin ==
    ASSUME NEW f, NEW g, Tree(f), Tree(g), NEW s \in Node, NEW a, NEW env, Agree(f, g, s, a, env),
           NEW n \in Within(f, s, a, env)
    PROVE  /\ Inner(f, n, s) \subseteq Within(f, s, a, env)
           /\ Inner(f, n, s) = Inner(g, n, s)
<1> DEFINE K == Within(f, s, a, env)
<1>1. K = Within(g, s, a, env)
    BY AgreeMeans
<1>2. K \subseteq Present(f) /\ K \subseteq Present(g) /\ Root \notin K /\ s # Root
    BY <1>1, Outside DEF Within, Tree
<1>3. \A m \in K : a \in f.up[m] /\ a \in g.up[m]
    BY <1>1 DEF Within
<1>4. \A m, x \in K : x \in f.up[m] <=> x \in g.up[m]
    BY AgreeOnUp
<1>5. ASSUME NEW m \in Below(f, n) PROVE a \in f.up[m]
    BY <1>2, <1>3, <1>5, UpIsTransitive DEF Below
<1>6. ASSUME NEW m \in Below(g, n) PROVE a \in g.up[m]
    BY <1>2, <1>3, <1>6, UpIsTransitive DEF Below
<1>7. CASE env
    <2>1. s \notin f.up[n] /\ s \notin g.up[n]
        BY <1>1, <1>7 DEF Within
    <2>2. Inner(f, n, s) = {m \in Present(f) : n \in f.up[m] /\ s \notin f.up[m]}
        BY <2>1 DEF Inner, Below
    <2>3. Inner(g, n, s) = {m \in Present(g) : n \in g.up[m] /\ s \notin g.up[m]}
        BY <2>1 DEF Inner, Below
    <2>4. Inner(f, n, s) \subseteq K
        BY <1>5, <1>7, <2>2 DEF Within, Below
    <2>5. Inner(g, n, s) \subseteq K
        BY <1>1, <1>6, <1>7, <2>3 DEF Within, Below
    <2>6. \A m \in K : s \notin f.up[m] /\ s \notin g.up[m]
        BY <1>1, <1>7 DEF Within
    <2> QED
        BY <1>2, <1>4, <2>2, <2>3, <2>4, <2>5, <2>6
<1>8. CASE ~env
    <2>1. Below(f, n) \subseteq K /\ Below(g, n) \subseteq K
        BY <1>1, <1>5, <1>6, <1>8 DEF Within, Below
    <2>2. Below(f, n) = Below(g, n)
        BY <1>2, <1>4, <2>1 DEF Below
    <2>3. CASE s \in K
        <3>1. \A m \in K : m \in Below(f, s) <=> m \in Below(g, s)
            BY <1>2, <1>4, <2>3 DEF Below
        <3> QED
            BY <2>1, <2>2, <3>1 DEF Inner
    <2>4. CASE s \notin K
        <3>1. ASSUME NEW m \in Below(f, n) PROVE m \in Below(f, s) => n \in Below(f, s)
            <4>1. SUFFICES ASSUME s \in f.up[m] PROVE s \in f.up[n]
                BY <1>2 DEF Below
            <4>2. m \in Present(f) /\ n \in f.up[m]
                BY DEF Below
            <4>3. s \in Present(f)
                BY <1>2, <4>1, <4>2, UpStays
            <4>4. n \notin f.up[s]
                BY <2>1, <2>4, <4>3 DEF Below
            <4> QED
                BY <4>1, <4>2, <4>4, UpIsAChain
        <3>2. ASSUME NEW m \in Below(g, n) PROVE m \in Below(g, s) => n \in Below(g, s)
            <4>1. SUFFICES ASSUME s \in g.up[m] PROVE s \in g.up[n]
                BY <1>2 DEF Below
            <4>2. m \in Present(g) /\ n \in g.up[m]
                BY DEF Below
            <4>3. s \in Present(g)
                BY <1>2, <4>1, <4>2, UpStays
            <4>4. n \notin g.up[s]
                BY <2>1, <2>4, <4>3 DEF Below
            <4> QED
                BY <4>1, <4>2, <4>4, UpIsAChain
        <3>3. Inner(f, n, s) = Below(f, n) /\ Inner(g, n, s) = Below(g, n)
            BY <3>1, <3>2 DEF Inner
        <3> QED
            BY <2>1, <2>2, <3>3
    <2> QED
        BY <2>3, <2>4
<1> QED
    BY <1>7, <1>8

\* And so reads the same.
LEMMA AgreeOnContent ==
    ASSUME NEW f, NEW g, Tree(f), Tree(g), NEW s \in Node, NEW a, NEW env, Agree(f, g, s, a, env),
           NEW n \in Within(f, s, a, env)
    PROVE  n \in Present(f) \intersect Present(g) /\ Content(f, n, s) = Content(g, n, s)
<1> DEFINE K == Within(f, s, a, env)
           I == Inner(f, n, s)
           E(h, m) == [under |-> IF m = n THEN Nowhere ELSE h.parent[m], text |-> h.text[m]]
<1>1. K = Within(g, s, a, env) /\ \A m \in K : f.text[m] = g.text[m] /\ (m # a => f.parent[m] = g.parent[m])
    BY AgreeMeans
<1>2. I \subseteq K /\ Inner(g, n, s) = I
    BY InnerIsWithin
<1>3. n \in Present(f) /\ n \in Present(g) /\ a \in f.up[n]
    BY <1>1 DEF Within
<1>4. ASSUME NEW m \in I PROVE E(f, m) = E(g, m)
    <2>1. CASE m = n
        BY <1>1, <1>2, <2>1
    <2>2. CASE m # n
        <3>1. n \in f.up[m] /\ m \in Present(f)
            BY DEF Inner, Below
        <3>2. m # a
            BY <1>3, <2>2, <3>1, UpIsAntisymmetric
        <3> QED
            BY <1>1, <1>2, <3>2
    <2> QED
        BY <2>1, <2>2
<1>5. Content(f, n, s) = [m \in I |-> E(f, m)]
    BY DEF Content, Inner, Octets
<1>6. Content(g, n, s) = [m \in I |-> E(g, m)]
    BY <1>2 DEF Content, Inner, Octets
<1>7. [m \in I |-> E(f, m)] = [m \in I |-> E(g, m)]
    <2> HIDE DEF E, I
    <2> QED
        BY <1>4
<1> QED
    BY <1>3, <1>5, <1>6, <1>7

\* The payload objects of a file hold text and no elements of their kind.
TextOnly(f) == \A n \in Those(f, DsObject) : f.parent[n] \notin DsObject

\* What a reference digests, when it can be.
Readable(f, s, r) ==
    /\ Resolved(f, r) = r.target /\ r.target # Nowhere
    /\ r.target \in Present(f) \union {Root}
    /\ EntriesOf(r.transforms) \subseteq Allowed
    /\ "base64" \in EntriesOf(r.transforms) => Decodable(f, r.target)

LEMMA DigestedMeans ==
    ASSUME NEW f, NEW s, NEW r, Digested(f, s, r) # Unreadable
    PROVE  /\ Readable(f, s, r)
           /\ LET env == "enveloped" \in EntriesOf(r.transforms)
                  K == Within(f, s, r.target, env)
              IN  Digested(f, s, r) = IF "base64" \in EntriesOf(r.transforms)
                                      THEN [n \in K |-> f.text[n]] ELSE Octets(f, K, r.target)
<1>1. Resolved(f, r) # Nowhere
    BY DEF Digested
<1>2. Resolved(f, r) = r.target /\ r.target \in Present(f) \union {Root}
    BY <1>1 DEF Resolved
<1>3. EntriesOf(r.transforms) \subseteq Allowed
    BY DEF Digested
<1>4. "base64" \in EntriesOf(r.transforms) => Decodable(f, r.target)
    BY <1>2 DEF Digested
<1> QED
    BY <1>1, <1>2, <1>3, <1>4 DEF Readable, Digested, Within

\* A payload that decodes is one element.
LEMMA DecodableIsFlat ==
    ASSUME NEW f, Tree(f), TextOnly(f), NEW a, Decodable(f, a)
    PROVE  a \in Present(f) /\ Below(f, a) = {a}
<1>1. a \in Present(f) /\ Below(f, a) \subseteq DsObject
    BY DEF Decodable
<1>2. a \in Below(f, a)
    BY <1>1, UpStays DEF Below
<1>3. ASSUME NEW m \in Below(f, a), m # a PROVE FALSE
    <2>1. m \in Present(f) /\ a \in f.up[m] /\ f.up[m] = {m} \union f.up[f.parent[m]]
        BY DEF Below, Tree
    <2>2. a \in f.up[f.parent[m]] /\ f.parent[m] \in Present(f) \union {Root}
        BY <1>3, <2>1 DEF Tree
    <2>3. f.parent[m] # Root
        BY <1>1, <2>2, Outside DEF Tree
    <2>4. f.parent[m] \in Below(f, a)
        BY <2>2, <2>3 DEF Below
    <2>5. m \in Those(f, DsObject) /\ f.parent[m] \in DsObject
        BY <1>1, <2>1, <2>4 DEF Those
    <2> QED
        BY <2>5 DEF TextOnly
<1> QED
    BY <1>1, <1>2, <1>3

\* An element that a reference covers reads as it did in the other file when the
\* reference digests the same in both.
LEMMA ReadsTheSame ==
    ASSUME NEW f, NEW g, Tree(f), Tree(g), NEW s \in Node, NEW r,
           "base64" \in EntriesOf(r.transforms) => TextOnly(f) /\ TextOnly(g),
           Digested(f, s, r) # Unreadable, Digested(f, s, r) = Digested(g, s, r),
           NEW n \in Present(f), CoversIn(f, EffectiveNodeSet(f, s, r), n)
    PROVE  n \in Present(f) \intersect Present(g) /\ Content(f, n, s) = Content(g, n, s)
<1> DEFINE a == r.target
           env == "enveloped" \in EntriesOf(r.transforms)
           K == Within(f, s, a, env)
           L == Within(g, s, a, env)
<1>1. Readable(f, s, r) /\ Readable(g, s, r)
    BY DigestedMeans
<1>2. EffectiveNodeSet(f, s, r) = Scope(a, IF env THEN {s} ELSE {}, "base64" \in EntriesOf(r.transforms))
    BY <1>1 DEF Readable, EffectiveNodeSet
<1>3. a \in f.up[n] /\ (env => s \notin f.up[n]) /\ ("base64" \in EntriesOf(r.transforms) => n = a)
    <2> DEFINE scope == EffectiveNodeSet(f, s, r)
    <2>1. /\ scope.apex = a /\ scope.excluded = IF env THEN {s} ELSE {}
          /\ scope.octets = ("base64" \in EntriesOf(r.transforms))
        BY <1>2 DEF Scope
    <2>2. scope.apex \in f.up[n] /\ scope.excluded \intersect f.up[n] = {} /\ (scope.octets => n = scope.apex)
        BY DEF CoversIn
    <2> HIDE DEF scope
    <2> QED
        BY <2>1, <2>2
<1>4. n \in K
    BY <1>3 DEF Within
<1>5. CASE "base64" \in EntriesOf(r.transforms)
    <2>1. Below(f, a) = {a} /\ Below(g, a) = {a} /\ a \in Present(f) /\ a \in Present(g)
        BY <1>1, <1>5, DecodableIsFlat DEF Readable
    <2>2. [m \in K |-> f.text[m]] = [m \in L |-> g.text[m]]
        BY <1>5, DigestedMeans
    <2>3. K = L /\ f.text[a] = g.text[a] /\ n = a
        <3>1. K = L /\ \A m \in K : f.text[m] = g.text[m]
            <4> HIDE DEF K, L
            <4>1. DOMAIN [m \in K |-> f.text[m]] = K /\ DOMAIN [m \in L |-> g.text[m]] = L
                OBVIOUS
            <4>2. ASSUME NEW m \in K PROVE f.text[m] = g.text[m]
                <5>1. [j \in K |-> f.text[j]][m] = [j \in L |-> g.text[j]][m]
                    BY <2>2
                <5> QED
                    BY <2>2, <4>1, <5>1
            <4> QED
                BY <2>2, <4>1, <4>2
        <3> QED
            BY <1>3, <1>4, <1>5, <3>1
    <2>4. Inner(f, a, s) = {a} /\ Inner(g, a, s) = {a}
        BY <2>1 DEF Inner
    <2>5. Content(f, a, s) = Octets(f, {a}, a) /\ Content(g, a, s) = Octets(g, {a}, a)
        BY <2>4 DEF Content, Inner
    <2>6. Octets(f, {a}, a) = Octets(g, {a}, a)
        BY <2>3 DEF Octets
    <2> QED
        BY <2>1, <2>3, <2>5, <2>6
<1>6. CASE "base64" \notin EntriesOf(r.transforms)
    <2>1. Agree(f, g, s, a, env)
        BY <1>6, DigestedMeans DEF Agree
    <2> QED
        BY <1>4, <2>1, AgreeOnContent
<1> QED
    BY <1>5, <1>6

-----------------------------------------------------------------------------
(* What a valid report says.                                               *)

\* None of the checks keeps a verdict from being valid.
Clean(cs) == \A c \in cs : c[2] \notin {"failed", "unknown", "skipped"}

LEMMA ValidIsClean ==
    ASSUME NEW cs
    PROVE  VerdictOf(cs) = "valid" <=> Clean(cs)
<1>1. \A st : st \in StatusesOf(cs) <=> \E c \in cs : c[2] = st
    BY DEF StatusesOf
<1>2. CASE "failed" \in StatusesOf(cs)
    BY <1>1, <1>2 DEF VerdictOf, Clean
<1>3. CASE "failed" \notin StatusesOf(cs)
    BY <1>1, <1>3 DEF VerdictOf, Clean
<1> QED
    BY <1>2, <1>3

\* A clean set of checks has no check that is not.
LEMMA CleanHas ==
    ASSUME NEW cs, Clean(cs), NEW code, NEW st, Check(code, st) \in cs
    PROVE  st \notin {"failed", "unknown", "skipped"}
<1>1. Check(code, st)[2] = st
    BY DEF Check
<1> QED
    BY <1>1 DEF Clean

\* What was summed up as valid, was.
LEMMA SummedValid ==
    ASSUME NEW place, NEW role, NEW signer, NEW when, NEW found,
           Summed(place, role, signer, when, found).verdict = "valid"
    PROVE  Clean(found) /\ Clean(SignerChecks(signer, when))
<1> DEFINE all == found \union SignerChecks(signer, when)
<1>1. VerdictOf(all) = "valid"
    BY DEF Summed
<1>2. Clean(all)
    BY <1>1, ValidIsClean
<1> QED
    BY <1>2 DEF Clean

\* A signature that was not judged is not valid.
LEMMA UnjudgedIsNotValid ==
    ASSUME NEW a, NEW place, NEW role, NEW found
    PROVE  Unjudged(a, place, role, found).verdict # "valid"
<1> DEFINE all == found \union {Check("signature_timestamp", "unknown")}
<1>1. SUFFICES ASSUME Unjudged(a, place, role, found).verdict = "valid" PROVE FALSE
    OBVIOUS
<1>2. Summed(place, role, Nobody, ValidationTime(a, {}), all).verdict = "valid"
    BY <1>1 DEF Unjudged
<1>3. Clean(all)
    <2> HIDE DEF all
    <2> QED
        BY <1>2, SummedValid
<1>4. Check("signature_timestamp", "unknown") \in all
    OBVIOUS
<1> QED
    BY <1>3, <1>4, CleanHas

\* The report of a valid signature comes of all the stages, none of which found
\* anything against it.
LEMMA ValidIsJudged ==
    ASSUME NEW f, NEW a, NEW s, Report(f, a, s).verdict = "valid"
    PROVE  LET place == Place(f, s)
               xades == Properties(f, s)
               keyed == Selected(f, s)
               named == Named(xades)
           IN  /\ Structured(f, s)
               /\ Clean(StageA(f, s, place)) /\ Clean(Presence(f, s, xades))
               /\ Clean(StageB(f, s, keyed)) /\ Clean({Bound(f, s, named, keyed)})
               /\ Clean(StageF(f, s, xades))
               /\ Report(f, a, s).signer = Signer(f, s, named, keyed)
<1> DEFINE place == Place(f, s)
           xades == Properties(f, s)
           keyed == Selected(f, s)
           named == Named(xades)
           early == StageA(f, s, place)
           found == early \union Presence(f, s, xades)
           all == found \union StageB(f, s, keyed) \union {Bound(f, s, named, keyed)}
                        \union StageF(f, s, xades)
           when == ValidationTime(a, ProvenTimes(f, s, xades))
<1>1. Report(f, a, s) = VerifySignature(f, a, s, place, xades)
    BY DEF Report
<1>2. Structured(f, s)
    BY <1>1, UnjudgedIsNotValid DEF VerifySignature
<1>3. Report(f, a, s) = AfterStageA(f, a, s, place, xades, early)
    BY <1>1, <1>2 DEF VerifySignature
<1>4. "failed" \notin StatusesOf(early)
    BY <1>3, UnjudgedIsNotValid DEF AfterStageA
<1>5. Report(f, a, s) = Judged(f, a, s, place, xades, keyed, found)
    BY <1>3, <1>4 DEF AfterStageA
<1>6. Report(f, a, s) = Summed(place, Role(f, s, place), Signer(f, s, named, keyed), when, all)
    BY <1>5 DEF Judged
<1>7. Clean(all)
    <2> HIDE DEF all, when, keyed, named, xades, place
    <2> QED
        BY <1>6, SummedValid
<1>8. Report(f, a, s).signer = Signer(f, s, named, keyed)
    BY <1>6 DEF Summed
<1>9. /\ Clean(early) /\ Clean(Presence(f, s, xades)) /\ Clean(StageB(f, s, keyed))
      /\ Clean({Bound(f, s, named, keyed)}) /\ Clean(StageF(f, s, xades))
    <2> HIDE DEF early, keyed, named, xades, place
    <2> QED
        BY <1>7 DEF Clean
<1> QED
    BY <1>2, <1>8, <1>9

\* Of a valid signature, where it stands, everything it has to cover is covered,
\* its digests are those of the file, and its value is over them.
LEMMA ValidCovers ==
    ASSUME NEW f, NEW a, NEW s, Report(f, a, s).verdict = "valid"
    PROVE  /\ Measurable(f, s, Place(f, s))
           /\ \A ns \in Mandated(f, s, Place(f, s)) : \E n \in ns : Covered(f, s, n)
           /\ DigestsMatch(f, s)
<1> DEFINE place == Place(f, s)
           keyed == Selected(f, s)
<1>1. Clean(StageA(f, s, place)) /\ Clean(StageB(f, s, keyed))
    BY ValidIsJudged
<1>2. ScopeCheck(f, s, place) \in StageA(f, s, place)
    BY DEF StageA
<1>3. ScopeCheck(f, s, place)[2] \notin {"failed", "unknown", "skipped"}
    BY <1>1, <1>2 DEF Clean
<1>4. Measurable(f, s, place)
    BY <1>3 DEF ScopeCheck, Check
<1>5. \A ns \in Mandated(f, s, place) : \E n \in ns : Covered(f, s, n)
    BY <1>3, <1>4 DEF ScopeCheck, Check
<1>6. Check("reference_digest", IF DigestsMatch(f, s) THEN "passed" ELSE "failed") \in StageB(f, s, keyed)
    BY DEF StageB
<1>7. DigestsMatch(f, s)
    BY <1>1, <1>6, CleanHas
<1> QED
    BY <1>4, <1>5, <1>7

\* The certificate named is the one whose key verified the value.
LEMMA ValidIsSigned ==
    ASSUME NEW f, NEW a, NEW s, Report(f, a, s).verdict = "valid"
    PROVE  LET keyed == Selected(f, s)
               named == Named(Properties(f, s))
           IN  /\ keyed.verified /\ named # Nobody /\ named = keyed.signer
               /\ Report(f, a, s).signer = named
<1> DEFINE keyed == Selected(f, s)
           named == Named(Properties(f, s))
<1>1. Clean(StageB(f, s, keyed)) /\ Clean({Bound(f, s, named, keyed)})
      /\ Report(f, a, s).signer = Signer(f, s, named, keyed)
    BY ValidIsJudged
<1> HIDE DEF keyed, named
<1>2. Check("signing_certificate", IF keyed.signer # Nobody THEN "passed" ELSE "failed") \in StageB(f, s, keyed)
    BY DEF StageB
<1>3. keyed.signer # Nobody
    BY <1>1, <1>2, CleanHas
<1>4. Check("signature_value", IF keyed.verified THEN "passed" ELSE "failed") \in StageB(f, s, keyed)
    BY <1>3 DEF StageB
<1>5. keyed.verified
    BY <1>1, <1>4, CleanHas
<1>6. Bound(f, s, named, keyed)[2] \notin {"failed", "unknown", "skipped"}
    BY <1>1 DEF Clean
<1>7. named # Nobody
    BY <1>6 DEF Bound, Check
<1>8. Offered(f, s, named) /\ (keyed.verified => named = keyed.signer)
    BY <1>6, <1>7 DEF Bound, Check
<1>9. Signer(f, s, named, keyed) = named
    BY <1>7, <1>8 DEF Signer
<1> QED
    BY <1>1, <1>5, <1>7, <1>8, <1>9 DEF keyed, named

\* A value verifies under the key it was made with, over the references and
\* digests it was made over.
LEMMA VerifiedMeans ==
    ASSUME NEW f, NEW s, f.sig[s].keyInfo \in Seq(Cert), Selected(f, s).verified
    PROVE  ValueHolds(f, s) /\ Key[Selected(f, s).signer] = f.sig[s].key
<1> DEFINE offered == f.sig[s].keyInfo
           fits == {i \in DOMAIN offered : ValueHolds(f, s) /\ Key[offered[i]] = f.sig[s].key}
           ends == {i \in fits : offered[i] \notin Authorities}
           LeastOf(is) == CHOOSE i \in is : \A j \in is : i <= j
           some == IF ends # {} THEN ends ELSE fits
<1>1. offered # <<>> /\ fits # {}
    BY DEF Selected
<1>2. Selected(f, s).signer = offered[LeastOf(some)]
    BY <1>1 DEF Selected
<1>3. some \in SUBSET Nat /\ some # {} /\ some \subseteq fits
    BY <1>1
<1>4. \E i \in some : \A j \in some : i <= j
    <2> HIDE DEF some
    <2> QED
        BY <1>3, Least
<1>5. LeastOf(some) \in some
    <2> HIDE DEF some
    <2> QED
        BY <1>4
<1>6. LeastOf(some) \in fits
    <2> HIDE DEF some, fits, LeastOf
    <2> QED
        BY <1>3, <1>5
<1> HIDE DEF some, LeastOf
<1> QED
    BY <1>2, <1>6

-----------------------------------------------------------------------------
(* The invariant.                                                          *)

AFile(f) ==
    /\ f = [parent |-> f.parent, up |-> f.up, text |-> f.text, sig |-> f.sig, stamps |-> f.stamps]
    /\ Tree(f)
    /\ DOMAIN f.sig = DsSignature /\ DOMAIN f.stamps = UnsignedProperties

\* What is known of a signature: its value is over what the references of its
\* signer digested when it was made.
SigInv(s) ==
    /\ file.sig[s].keyInfo \in Seq(Cert)
    /\ LET sealed == file.sig[s].sealed IN
       \/ sealed = <<>>
       \/ Tree(was[s]) /\ sealed = <<sealed[1], DigestsOf(was[s], s, sealed[1])>>

\* Every token in the file was made by an authority.
StampInv ==
    /\ \A u \in UnsignedProperties : file.stamps[u] \in Seq(stamped)
    /\ \A t \in stamped :
        t.time \in Nat /\ AuthorityPath[t.authority, t.time] \in PathStatuses

FileInv ==
    /\ AFile(file)
    /\ DOMAIN was = DsSignature
    /\ \A s \in DsSignature : SigInv(s)
    /\ StampInv

\* The reports so far.
Examined(rs) == DOMAIN rs \subseteq Signatures(file) /\ \A s \in DOMAIN rs : rs[s] = Report(file, at, s)

Counted(cs) ==
    Check("signature_count",
          IF Cardinality(Signatures(file)) > MaxSignatures THEN "failed" ELSE "passed") \in cs

\* What the run has come to in the end.
Concluded ==
    /\ \E rs : Examined(rs) /\ reports = [s \in DOMAIN rs |-> Told(file, rs, s)]
    /\ coverage = [d \in Modelled(file) |-> Coverage(file, reports, d)]
    /\ Waiting = {}
    /\ DossierChecks(reports, coverage) \subseteq checks
    /\ verdict = DossierVerdict(checks, reports)

RunInv ==
    /\ pc \in {"file", "signatures", "done", "rejected"}
    /\ pc = "file" => reports = <<>>
    /\ pc \in {"signatures", "done"} => Conforming(file) /\ Counted(checks)
    /\ pc = "signatures" => Examined(reports)
    /\ pc = "done" => Concluded
    /\ pc # "done" => verdict = "none"

IInv == FileInv /\ RunInv

\* What becomes of a file in each kind of change.
LEMMA ChangedFile ==
    ASSUME NEW f, AFile(f)
    PROVE  /\ \A parent : At(f, parent) = [parent |-> Standing(parent).parent, up |-> Standing(parent).up,
                                          text |-> f.text, sig |-> f.sig, stamps |-> f.stamps]
           /\ \A n : Rewritten(f, n) = [parent |-> f.parent, up |-> f.up, text |-> [f.text EXCEPT ![n] = @ + 1],
                                        sig |-> f.sig, stamps |-> f.stamps]
           /\ \A x : Without(f, x) = [parent |-> Without(f, x).parent, up |-> Without(f, x).up,
                                      text |-> f.text, sig |-> f.sig, stamps |-> f.stamps]
<1> DEFINE p == f.parent
           u == f.up
           t == f.text
           g == f.sig
           k == f.stamps
<1>1. f = [parent |-> p, up |-> u, text |-> t, sig |-> g, stamps |-> k]
    BY DEF AFile
<1> HIDE DEF p, u, t, g, k
<1>2. ASSUME NEW x, NEW y
      PROVE  [f EXCEPT !.parent = x, !.up = y] = [parent |-> x, up |-> y, text |-> t, sig |-> g, stamps |-> k]
    <2> DEFINE h == [f EXCEPT !.parent = x, !.up = y]
               w == [parent |-> x, up |-> y, text |-> t, sig |-> g, stamps |-> k]
               names == {"parent", "up", "text", "sig", "stamps"}
    <2>1. h = [i \in names |-> h[i]] /\ w = [i \in names |-> w[i]]
        BY <1>1
    <2>2. h.parent = x /\ h.up = y
        BY <1>1
    <2>3. h.text = t /\ h.sig = g /\ h.stamps = k
        BY <1>1
    <2>4. w.parent = x /\ w.up = y /\ w.text = t /\ w.sig = g /\ w.stamps = k
        OBVIOUS
    <2>5. \A i \in names : h[i] = w[i]
        <3> HIDE DEF h, w
        <3> QED
            BY <2>2, <2>3, <2>4
    <2> HIDE DEF h, w, names
    <2>6. h = w
        BY <2>1, <2>5
    <2> QED
        BY <2>6 DEF h, w
<1>3. \A x : [f EXCEPT !.text = x] = [parent |-> p, up |-> u, text |-> x, sig |-> g, stamps |-> k]
    BY <1>1
<1>4. ASSUME NEW parent
      PROVE  At(f, parent) = [parent |-> Standing(parent).parent, up |-> Standing(parent).up,
                              text |-> t, sig |-> g, stamps |-> k]
    <2> DEFINE x == Standing(parent).parent
               y == Standing(parent).up
    <2>1. At(f, parent) = [f EXCEPT !.parent = x, !.up = y]
        BY DEF At
    <2> HIDE DEF x, y
    <2> QED
        BY <1>2, <2>1 DEF x, y
<1>5. ASSUME NEW n
      PROVE  Rewritten(f, n) = [parent |-> p, up |-> u, text |-> [t EXCEPT ![n] = @ + 1], sig |-> g, stamps |-> k]
    <2> DEFINE x == [f.text EXCEPT ![n] = @ + 1]
    <2>1. Rewritten(f, n) = [f EXCEPT !.text = x]
        BY DEF Rewritten
    <2>2. x = [t EXCEPT ![n] = @ + 1]
        BY DEF t
    <2> HIDE DEF x
    <2>3. [f EXCEPT !.text = x] = [parent |-> p, up |-> u, text |-> x, sig |-> g, stamps |-> k]
        BY <1>3
    <2> QED
        BY <2>1, <2>2, <2>3
<1>6. ASSUME NEW x
      PROVE  Without(f, x) = [parent |-> Without(f, x).parent, up |-> Without(f, x).up,
                              text |-> t, sig |-> g, stamps |-> k]
    <2> DEFINE a == [n \in Present(f) \ Below(f, x) |-> f.parent[n]]
               b == [n \in (Present(f) \ Below(f, x)) \union {Root} |-> f.up[n]]
    <2>1. Without(f, x) = [f EXCEPT !.parent = a, !.up = b]
        BY DEF Without
    <2> HIDE DEF a, b
    <2>2. Without(f, x) = [parent |-> a, up |-> b, text |-> t, sig |-> g, stamps |-> k]
        BY <1>2, <2>1
    <2> QED
        BY <2>2
<1> QED
    BY <1>4, <1>5, <1>6 DEF p, u, t, g, k

-----------------------------------------------------------------------------
(* It holds at the beginning, and every step keeps it.                     *)

LEMMA InitInv == Init => IInv
<1> SUFFICES ASSUME Init PROVE IInv
    OBVIOUS
<1> DEFINE rank == [n \in DOMAIN Empty \union {Root} |-> IF n = Root THEN 0 ELSE n + 1]
<1>1. DOMAIN Empty \subseteq Node /\ Root \notin DOMAIN Empty /\ DOMAIN Empty \subseteq Nat
    BY VerdictAssumption, NodeAssumption, Outside DEF InOrder
<1>2. rank \in [DOMAIN Empty \union {Root} -> Nat]
    BY <1>1
<1>3. \A n \in DOMAIN Empty : rank[Empty[n]] < rank[n] /\ Empty[n] \in DOMAIN Empty \union {Root}
    BY <1>1, VerdictAssumption DEF InOrder
<1>4. Ranked(Empty, rank)
    BY <1>2, <1>3 DEF Ranked
<1>5. file.parent = Empty /\ file.up = Standing(Empty).up
    BY DEF Init
<1>6. Tree(file)
    <2> HIDE DEF rank
    <2> QED
        BY <1>1, <1>4, <1>5, StandingIsATree
<1>7. AFile(file)
    <2> DEFINE p == Empty
               u == Standing(Empty).up
               t == [n \in Node |-> 0]
               g == [s \in DsSignature |-> Unmade]
               k == [v \in UnsignedProperties |-> <<>>]
    <2>1. file = [parent |-> p, up |-> u, text |-> t, sig |-> g, stamps |-> k]
        BY DEF Init
    <2> HIDE DEF p, u, t, g, k
    <2>2. file = [parent |-> file.parent, up |-> file.up, text |-> file.text, sig |-> file.sig,
                  stamps |-> file.stamps]
        BY <2>1
    <2>3. file.sig = g /\ file.stamps = k
        BY <2>1
    <2>4. DOMAIN g = DsSignature /\ DOMAIN k = UnsignedProperties
        BY DEF g, k
    <2> QED
        BY <1>6, <2>2, <2>3, <2>4 DEF AFile
<1>8. ASSUME NEW s \in DsSignature PROVE SigInv(s)
    <2> DEFINE g == [r \in DsSignature |-> Unmade]
    <2>1. file.sig = g
        BY DEF Init
    <2>2. g[s] = Unmade
        OBVIOUS
    <2> HIDE DEF g
    <2>3. file.sig[s].keyInfo = <<>> /\ file.sig[s].sealed = <<>>
        BY <2>1, <2>2 DEF Unmade
    <2> QED
        BY <2>3 DEF SigInv
<1>9. StampInv
    BY DEF StampInv, Init
<1>10. DOMAIN was = DsSignature
    BY DEF Init
<1>11. RunInv
    BY DEF RunInv, Init
<1> QED
    BY <1>7, <1>8, <1>9, <1>10, <1>11 DEF IInv, FileInv

\* What a reference digests depends on the places and the text.
LEMMA DigestsAreOfPlaces ==
    ASSUME NEW f, NEW g, f.parent = g.parent, f.up = g.up, f.text = g.text, NEW s, NEW refs
    PROVE  DigestsOf(f, s, refs) = DigestsOf(g, s, refs)
<1>1. ASSUME NEW r PROVE Digested(f, s, r) = Digested(g, s, r)
    BY DEF Digested, Resolved, Present, Octets, Decodable, Below
<1> QED
    BY <1>1 DEF DigestsOf

\* While nobody reads it, what is done to the file is no matter of the run.
LEMMA NotYetRead ==
    ASSUME RunInv, pc = "file", pc' = pc, reports' = reports, verdict' = verdict
    PROVE  RunInv'
BY DEF RunInv

LEMMA SignKeeps ==
    ASSUME IInv, NEW s \in DOMAIN was, Sign(s)
    PROVE  IInv'
<1>1. DOMAIN was = DsSignature /\ s \in DsSignature /\ AFile(file)
    BY DEF IInv, FileInv
<1>2. PICK plan \in Plans[s] :
        /\ CanStand(file, plan.nodes)
        /\ LET placed == With(file, plan.nodes)
               digests == DigestsOf(placed, s, plan.refs)
           IN  file' = [placed EXCEPT !.sig[s] =
                           [refs |-> plan.refs, digests |-> digests,
                            sealed |-> <<plan.refs, digests>>, method |-> plan.method,
                            key |-> plan.key, keyInfo |-> plan.keyInfo]]
    BY DEF Sign
<1>3. was' = [was EXCEPT ![s] = [parent |-> file'.parent, up |-> file'.up, text |-> file'.text]]
      /\ stamped' = stamped /\ pc = "file" /\ pc' = pc /\ reports' = reports /\ verdict' = verdict
    BY DEF Sign
<1> DEFINE placed == With(file, plan.nodes)
           digests == DigestsOf(placed, s, plan.refs)
<1>4. InOrder(plan.nodes) /\ plan.keyInfo \in Seq(Cert)
    BY <1>1, VerdictAssumption
<1>5. Tree(placed)
    BY <1>1, <1>2, <1>4, WithIsATree DEF AFile
<1>6. placed = [parent |-> placed.parent, up |-> placed.up, text |-> file.text, sig |-> file.sig, stamps |-> file.stamps]
    BY <1>1, ChangedFile DEF With
<1> HIDE DEF placed
<1>7. /\ file' = [parent |-> placed.parent, up |-> placed.up, text |-> file.text, sig |-> file'.sig,
                  stamps |-> file.stamps]
      /\ file'.sig = [file.sig EXCEPT ![s] =
                           [refs |-> plan.refs, digests |-> digests,
                            sealed |-> <<plan.refs, digests>>, method |-> plan.method,
                            key |-> plan.key, keyInfo |-> plan.keyInfo]]
    <2> DEFINE entry == [refs |-> plan.refs, digests |-> digests,
                         sealed |-> <<plan.refs, digests>>, method |-> plan.method,
                         key |-> plan.key, keyInfo |-> plan.keyInfo]
    <2>1. file' = [placed EXCEPT !.sig = [placed.sig EXCEPT ![s] = entry]]
        BY <1>2 DEF placed
    <2> HIDE DEF entry
    <2>2. placed.sig = file.sig
        BY <1>6
    <2>3. file' = [parent |-> placed.parent, up |-> placed.up, text |-> file.text,
                   sig |-> [file.sig EXCEPT ![s] = entry], stamps |-> file.stamps]
        BY <1>6, <2>1, <2>2
    <2> QED
        BY <2>3 DEF entry
<1>8. file'.parent = placed.parent /\ file'.up = placed.up /\ file'.text = placed.text /\ file'.stamps = file.stamps
    BY <1>6, <1>7
<1>9. AFile(file)'
    <2>1. Tree(file')
        BY <1>5, <1>8, TreeIsOfPlaces
    <2> QED
        BY <1>1, <1>7, <2>1 DEF AFile
<1>10. DOMAIN was' = DsSignature
    BY <1>1, <1>3
<1>11. ASSUME NEW r \in DsSignature PROVE SigInv(r)'
    <2>1. CASE r = s
        <3>1. was'[r] = [parent |-> placed.parent, up |-> placed.up, text |-> placed.text]
            BY <1>1, <1>3, <1>8, <2>1
        <3>2. Tree(was'[r])
            BY <1>5, <3>1, TreeIsOfPlaces
        <3>3. DigestsOf(was'[r], s, plan.refs) = digests
            BY <3>1, DigestsAreOfPlaces
        <3>4. file'.sig[r].sealed = <<plan.refs, digests>> /\ file'.sig[r].keyInfo = plan.keyInfo
            BY <1>1, <1>7, <2>1 DEF AFile
        <3> QED
            BY <1>4, <2>1, <3>2, <3>3, <3>4 DEF SigInv
    <2>2. CASE r # s
        <3>1. file'.sig[r] = file.sig[r] /\ was'[r] = was[r]
            BY <1>1, <1>3, <1>7, <2>2 DEF AFile
        <3>2. SigInv(r)
            BY DEF IInv, FileInv
        <3> QED
            BY <3>1, <3>2 DEF SigInv
    <2> QED
        BY <2>1, <2>2
<1>12. StampInv'
    <2>1. StampInv
        BY DEF IInv, FileInv
    <2> QED
        BY <1>3, <1>8, <2>1 DEF StampInv
<1>13. RunInv'
    BY <1>3, NotYetRead DEF IInv
<1> QED
    BY <1>9, <1>10, <1>11, <1>12, <1>13 DEF IInv, FileInv

\* What anyone may do to a file: its value is left to the signer, and its tokens
\* to the authorities.
LEMMA RewritingKeeps ==
    ASSUME IInv, AFile(file)', pc = "file", pc' = pc, reports' = reports, verdict' = verdict,
           was' = was,
           \A s \in DsSignature : /\ file'.sig[s].sealed = file.sig[s].sealed
                                  /\ file'.sig[s].keyInfo \in Seq(Cert),
           StampInv'
    PROVE  IInv'
<1>1. RunInv'
    BY NotYetRead DEF IInv
<1>2. ASSUME NEW s \in DsSignature PROVE SigInv(s)'
    <2>1. SigInv(s)
        BY DEF IInv, FileInv
    <2> QED
        BY <2>1 DEF SigInv
<1> QED
    BY <1>1, <1>2 DEF IInv, FileInv

\* A file with the elements where they were.
LEMMA SamePlaces ==
    ASSUME NEW f, NEW g, AFile(f), g.parent = f.parent, g.up = f.up,
           g = [parent |-> g.parent, up |-> g.up, text |-> g.text, sig |-> g.sig, stamps |-> g.stamps],
           DOMAIN g.sig = DsSignature, DOMAIN g.stamps = UnsignedProperties
    PROVE  AFile(g)
BY TreeIsOfPlaces DEF AFile

LEMMA StampKeeps ==
    ASSUME IInv, NEW s \in DOMAIN was, Stamp(s)
    PROVE  IInv'
<1>1. DOMAIN was = DsSignature /\ s \in DsSignature /\ AFile(file) /\ StampInv
      /\ \A r \in DsSignature : SigInv(r)
    BY DEF IInv, FileInv
<1>2. PICK kind \in Stamps[s], u \in UnsignedOf(file, s) :
        LET token == [value |-> Value(file, s), text |-> file.text[Value(file, s)],
                      authority |-> kind.authority, time |-> kind.time,
                      supported |-> kind.supported]
        IN  /\ token \notin stamped
            /\ file' = [Rewritten(file, u) EXCEPT !.stamps[u] = Append(@, token)]
            /\ stamped' = stamped \union {token}
    BY DEF Stamp
<1>3. was' = was /\ pc = "file" /\ pc' = pc /\ reports' = reports /\ verdict' = verdict
    BY DEF Stamp
<1> DEFINE token == [value |-> Value(file, s), text |-> file.text[Value(file, s)],
                     authority |-> kind.authority, time |-> kind.time,
                     supported |-> kind.supported]
           stamps == [file.stamps EXCEPT ![u] = Append(@, token)]
           text == [file.text EXCEPT ![u] = @ + 1]
<1>4. u \in UnsignedProperties
    BY DEF UnsignedOf, Those
<1>5. file' = [parent |-> file.parent, up |-> file.up, text |-> text, sig |-> file.sig, stamps |-> stamps]
    <2>1. Rewritten(file, u) = [parent |-> file.parent, up |-> file.up, text |-> text, sig |-> file.sig,
                                stamps |-> file.stamps]
        BY <1>1, ChangedFile
    <2> HIDE DEF token, text
    <2> DEFINE r == Rewritten(file, u)
    <2>2. file' = [r EXCEPT !.stamps = [r.stamps EXCEPT ![u] = Append(@, token)]]
        BY <1>2 DEF token
    <2>3. r.stamps = file.stamps
        BY <2>1
    <2>4. file' = [r EXCEPT !.stamps = stamps]
        BY <2>2, <2>3
    <2> HIDE DEF stamps
    <2> QED
        BY <2>1, <2>4
<1>6. stamped' = stamped \union {token}
    BY <1>2
<1>7. token.time \in Nat /\ AuthorityPath[token.authority, token.time] \in PathStatuses
    BY <1>1, StampsAssumption
<1> HIDE DEF token, text
<1>8. DOMAIN stamps = UnsignedProperties
    BY <1>1 DEF AFile
<1>9. AFile(file)'
    <2>1. DOMAIN file.sig = DsSignature
        BY <1>1 DEF AFile
    <2> HIDE DEF stamps
    <2> QED
        BY <1>1, <1>5, <1>8, <2>1, SamePlaces
<1>10. StampInv'
    <2>1. ASSUME NEW v \in UnsignedProperties PROVE file'.stamps[v] \in Seq(stamped')
        <3>1. file.stamps[v] \in Seq(stamped)
            BY <1>1 DEF StampInv
        <3>2. file.stamps[v] \in Seq(stamped')
            BY <1>6, <3>1
        <3>3. CASE v = u
            <4>1. file'.stamps[v] = Append(file.stamps[v], token)
                BY <1>5, <1>8, <3>3
            <4> QED
                BY <1>6, <3>2, <4>1
        <3>4. CASE v # u
            BY <1>5, <1>8, <3>2, <3>4
        <3> QED
            BY <3>3, <3>4
    <2>2. \A t \in stamped' :
            t.time \in Nat /\ AuthorityPath[t.authority, t.time] \in PathStatuses
        BY <1>1, <1>6, <1>7 DEF StampInv
    <2> QED
        BY <2>1, <2>2 DEF StampInv
<1>11. file'.sig = file.sig
    BY <1>5
<1> QED
    BY <1>1, <1>3, <1>9, <1>10, <1>11, RewritingKeeps DEF SigInv

\* A rewriting whose outcome is a file with values and tokens as they were.
LEMMA EditKeeps ==
    ASSUME IInv, NEW f, Edit(f), AFile(f),
           \A s \in DsSignature : f.sig[s].sealed = file.sig[s].sealed /\ f.sig[s].keyInfo \in Seq(Cert),
           \A u \in UnsignedProperties : f.stamps[u] \in Seq(stamped)
    PROVE  IInv'
<1>1. file' = f /\ was' = was /\ stamped' = stamped /\ pc = "file" /\ pc' = pc /\ reports' = reports
      /\ verdict' = verdict
    BY DEF Edit
<1>2. StampInv'
    BY <1>1 DEF StampInv, IInv, FileInv
<1>3. AFile(file)'
    BY <1>1
<1> QED
    BY <1>1, <1>2, <1>3, RewritingKeeps

\* Where only elements come, go or are touched, signatures and tokens stay.
LEMMA PlacingKeeps ==
    ASSUME IInv, NEW f, Edit(f), AFile(f), f.sig = file.sig, f.stamps = file.stamps
    PROVE  IInv'
<1>1. (\A s \in DsSignature : SigInv(s)) /\ StampInv
    BY DEF IInv, FileInv
<1> QED
    BY <1>1, EditKeeps DEF SigInv, StampInv

\* A file over other places is one if these are a tree.
LEMMA OtherPlaces ==
    ASSUME NEW f, NEW g, AFile(f), Tree(g),
           g = [parent |-> g.parent, up |-> g.up, text |-> f.text, sig |-> f.sig, stamps |-> f.stamps]
    PROVE  AFile(g) /\ g.sig = f.sig /\ g.stamps = f.stamps
<1> DEFINE p == g.parent
           u == g.up
<1>1. g = [parent |-> p, up |-> u, text |-> f.text, sig |-> f.sig, stamps |-> f.stamps]
    OBVIOUS
<1> HIDE DEF p, u
<1>2. g.text = f.text /\ g.sig = f.sig /\ g.stamps = f.stamps
    BY <1>1
<1> QED
    BY <1>2 DEF AFile

LEMMA RewriteKeeps ==
    ASSUME IInv, Rewrite
    PROVE  IInv'
<1>1. AFile(file) /\ StampInv /\ \A s \in DsSignature : SigInv(s)
    BY DEF IInv, FileInv
<1>2. file = [parent |-> file.parent, up |-> file.up, text |-> file.text, sig |-> file.sig, stamps |-> file.stamps]
      /\ Tree(file) /\ DOMAIN file.sig = DsSignature /\ DOMAIN file.stamps = UnsignedProperties
    BY <1>1 DEF AFile
<1>3. ASSUME NEW n \in Touchable, Touch(n) PROVE IInv'
    <2> DEFINE g == Rewritten(file, n)
    <2>1. g = [parent |-> file.parent, up |-> file.up, text |-> [file.text EXCEPT ![n] = @ + 1],
               sig |-> file.sig, stamps |-> file.stamps]
        BY <1>1, ChangedFile
    <2>2. AFile(g) /\ g.sig = file.sig /\ g.stamps = file.stamps
        <3> HIDE DEF g
        <3> QED
            BY <1>1, <1>2, <2>1, SamePlaces
    <2> QED
        BY <1>3, <2>2, PlacingKeeps DEF Touch
<1>4. ASSUME NEW m \in Moves, Move(m[1], m[2]) PROVE IInv'
    <2> DEFINE g == At(file, [file.parent EXCEPT ![m[1]] = m[2]])
    <2>1. m[1] \in Present(file) /\ m[2] \in Present(file) /\ m[2] \notin Below(file, m[1]) /\ Edit(g)
        BY <1>4 DEF Move
    <2>2. Tree(g)
        BY <1>2, <2>1, MovedIsATree
    <2>3. g = [parent |-> g.parent, up |-> g.up, text |-> file.text, sig |-> file.sig, stamps |-> file.stamps]
        BY <1>1, ChangedFile
    <2> HIDE DEF g
    <2> QED
        BY <1>1, <2>1, <2>2, <2>3, OtherPlaces, PlacingKeeps
<1>5. ASSUME NEW n \in Droppable, Drop(n) PROVE IInv'
    <2> DEFINE g == Without(file, n)
    <2>1. n \in Present(file) /\ Edit(g)
        BY <1>5 DEF Drop
    <2>2. Tree(g)
        BY <1>2, <2>1, WithoutIsATree
    <2>3. g = [parent |-> g.parent, up |-> g.up, text |-> file.text, sig |-> file.sig, stamps |-> file.stamps]
        BY <1>1, ChangedFile
    <2> HIDE DEF g
    <2> QED
        BY <1>1, <2>1, <2>2, <2>3, OtherPlaces, PlacingKeeps
<1>6. ASSUME NEW nodes \in Insertions, Insert(nodes) PROVE IInv'
    <2> DEFINE g == With(file, nodes)
    <2>1. CanStand(file, nodes) /\ Edit(g) /\ InOrder(nodes)
        BY <1>6, VerdictAssumption DEF Insert
    <2>2. Tree(g)
        BY <1>2, <2>1, WithIsATree
    <2>3. g = [parent |-> g.parent, up |-> g.up, text |-> file.text, sig |-> file.sig, stamps |-> file.stamps]
        BY <1>1, ChangedFile DEF With
    <2> HIDE DEF g
    <2> QED
        BY <1>1, <2>1, <2>2, <2>3, OtherPlaces, PlacingKeeps
<1>7. ASSUME NEW s \in Redigestable, Redigest(s) PROVE IInv'
    <2>1. s \in DsSignature
        BY <1>7 DEF Redigest, Signatures, Those
    <2> DEFINE r == Rewritten(file, s)
               digests == DigestsOf(file, s, file.sig[s].refs)
               g == [r EXCEPT !.sig[s].digests = digests]
               sig == [file.sig EXCEPT ![s].digests = digests]
               text == [file.text EXCEPT ![s] = @ + 1]
    <2>2. r = [parent |-> file.parent, up |-> file.up, text |-> text, sig |-> file.sig, stamps |-> file.stamps]
        BY <1>1, ChangedFile
    <2>3. Edit(g)
        BY <1>7 DEF Redigest
    <2> HIDE DEF digests, text
    <2>4. g = [r EXCEPT !.sig = sig]
        <3>1. r.sig = file.sig
            BY <2>2
        <3> QED
            BY <3>1
    <2>5. DOMAIN sig = DsSignature
        BY <1>2
    <2>6. ASSUME NEW q \in DsSignature
          PROVE  sig[q].sealed = file.sig[q].sealed /\ sig[q].keyInfo = file.sig[q].keyInfo
        BY <1>2
    <2> HIDE DEF sig
    <2>7. g = [parent |-> file.parent, up |-> file.up, text |-> text, sig |-> sig, stamps |-> file.stamps]
        BY <2>2, <2>4
    <2> HIDE DEF g, r
    <2>8. AFile(g)
        BY <1>1, <1>2, <2>5, <2>7, SamePlaces
    <2> QED
        BY <1>1, <2>3, <2>6, <2>7, <2>8, EditKeeps DEF SigInv, StampInv
<1>8. ASSUME NEW s \in DOMAIN was, Rekey(s) PROVE IInv'
    <2>1. s \in DsSignature
        BY <1>8 DEF Rekey, Signatures, Those
    <2>2. PICK keyInfo \in KeyInfos[s] : Edit([Rewritten(file, s) EXCEPT !.sig[s].keyInfo = keyInfo])
        BY <1>8 DEF Rekey
    <2>3. keyInfo \in Seq(Cert)
        BY <2>1, VerdictAssumption
    <2> DEFINE r == Rewritten(file, s)
               g == [r EXCEPT !.sig[s].keyInfo = keyInfo]
               sig == [file.sig EXCEPT ![s].keyInfo = keyInfo]
               text == [file.text EXCEPT ![s] = @ + 1]
    <2>4. r = [parent |-> file.parent, up |-> file.up, text |-> text, sig |-> file.sig, stamps |-> file.stamps]
        BY <1>1, ChangedFile
    <2> HIDE DEF text
    <2>5. g = [r EXCEPT !.sig = sig]
        <3>1. r.sig = file.sig
            BY <2>4
        <3> QED
            BY <3>1
    <2>6. DOMAIN sig = DsSignature
        BY <1>2
    <2>7. ASSUME NEW q \in DsSignature
          PROVE  sig[q].sealed = file.sig[q].sealed /\ sig[q].keyInfo \in Seq(Cert)
        <3>1. file.sig[q].keyInfo \in Seq(Cert)
            BY <1>1 DEF SigInv
        <3>2. CASE q = s
            <4>1. sig[q].sealed = file.sig[q].sealed
                BY <1>2, <3>2
            <4>2. sig[q].keyInfo = keyInfo \/ sig[q].keyInfo = file.sig[q].keyInfo
                BY <1>2, <3>2
            <4> QED
                BY <2>3, <3>1, <4>1, <4>2
        <3>3. CASE q # s
            BY <1>2, <3>1, <3>3
        <3> QED
            BY <3>2, <3>3
    <2> HIDE DEF sig
    <2>8. g = [parent |-> file.parent, up |-> file.up, text |-> text, sig |-> sig, stamps |-> file.stamps]
        BY <2>4, <2>5
    <2>9. Edit(g)
        BY <2>2
    <2> HIDE DEF g, r
    <2>10. AFile(g)
        BY <1>1, <1>2, <2>6, <2>8, SamePlaces
    <2> QED
        BY <1>1, <2>7, <2>8, <2>9, <2>10, EditKeeps DEF StampInv
<1>9. ASSUME NEW e \in Grafts, Graft(e[1], e[2]) PROVE IInv'
    <2> DEFINE u == e[1]
               v == e[2]
    <2>1. u \in UnsignedProperties /\ v \in UnsignedProperties
        BY VerdictAssumption
    <2>2. PICK t \in EntriesOf(file.stamps[u]) :
            Edit([Rewritten(file, v) EXCEPT !.stamps[v] = Append(@, t)])
        BY <1>9 DEF Graft
    <2>3. t \in stamped
        <3>1. file.stamps[u] \in Seq(stamped)
            BY <1>1, <2>1 DEF StampInv
        <3> QED
            BY <2>2, <3>1 DEF EntriesOf
    <2> HIDE DEF v
    <2> DEFINE r == Rewritten(file, v)
               g == [r EXCEPT !.stamps[v] = Append(@, t)]
               stamps == [file.stamps EXCEPT ![v] = Append(@, t)]
               text == [file.text EXCEPT ![v] = @ + 1]
    <2>4. r = [parent |-> file.parent, up |-> file.up, text |-> text, sig |-> file.sig, stamps |-> file.stamps]
        BY <1>1, ChangedFile
    <2> HIDE DEF text
    <2>5. g = [r EXCEPT !.stamps = stamps]
        <3>1. r.stamps = file.stamps
            BY <2>4
        <3> QED
            BY <3>1
    <2>6. DOMAIN stamps = UnsignedProperties
        BY <1>2
    <2>7. ASSUME NEW w \in UnsignedProperties PROVE stamps[w] \in Seq(stamped)
        <3>1. file.stamps[w] \in Seq(stamped)
            BY <1>1 DEF StampInv
        <3>2. stamps[w] = file.stamps[w] \/ stamps[w] = Append(file.stamps[w], t)
            BY <1>2
        <3> QED
            BY <2>3, <3>1, <3>2
    <2> HIDE DEF stamps
    <2>8. g = [parent |-> file.parent, up |-> file.up, text |-> text, sig |-> file.sig, stamps |-> stamps]
        BY <2>4, <2>5
    <2>9. Edit(g)
        BY <2>2
    <2> HIDE DEF g, r
    <2>10. AFile(g)
        BY <1>1, <1>2, <2>6, <2>8, SamePlaces
    <2> QED
        BY <1>1, <2>7, <2>8, <2>9, <2>10, EditKeeps DEF SigInv
<1> QED
    BY <1>3, <1>4, <1>5, <1>6, <1>7, <1>8, <1>9 DEF Rewrite

\* The run reads the file and leaves it alone.
LEMMA ReadingKeeps ==
    ASSUME FileInv, UNCHANGED <<file, history>>
    PROVE  FileInv'
<1>1. file' = file /\ was' = was /\ stamped' = stamped
    BY DEF history
<1>2. AFile(file)' /\ DOMAIN was' = DsSignature
    BY <1>1 DEF FileInv
<1>3. ASSUME NEW s \in DsSignature PROVE SigInv(s)'
    <2>1. SigInv(s)
        BY DEF FileInv
    <2> QED
        BY <1>1, <2>1 DEF SigInv
<1>4. StampInv'
    BY <1>1 DEF FileInv, StampInv
<1> QED
    BY <1>2, <1>3, <1>4 DEF FileInv

LEMMA ParseKeeps ==
    ASSUME IInv, Parse
    PROVE  IInv'
<1>1. FileInv' /\ file' = file
    BY ReadingKeeps DEF IInv, Parse
<1>2. reports' = reports /\ verdict' = verdict /\ pc = "file" /\ reports = <<>> /\ verdict = "none"
    BY DEF Parse, IInv, RunInv
<1>3. CASE Conforming(file)
    <2> DEFINE count == Check("signature_count",
                              IF Cardinality(Signatures(file)) > MaxSignatures
                              THEN "failed" ELSE "passed")
    <2>1. pc' = "signatures" /\ checks' = {count, Check("revocation_policy", "info")} \union TrustChecks
        BY <1>3 DEF Parse
    <2>2. Counted(checks)'
        BY <1>1, <2>1 DEF Counted
    <2>3. Examined(reports)'
        BY <1>2 DEF Examined
    <2> QED
        BY <1>1, <1>2, <1>3, <2>1, <2>2, <2>3 DEF IInv, RunInv
<1>4. CASE ~Conforming(file)
    <2>1. pc' = "rejected"
        BY <1>4 DEF Parse
    <2> QED
        BY <1>1, <1>2, <2>1 DEF IInv, RunInv
<1> QED
    BY <1>3, <1>4

LEMMA ExamineKeeps ==
    ASSUME IInv, Examine
    PROVE  IInv'
<1>1. FileInv' /\ file' = file /\ at' = at /\ checks' = checks /\ verdict' = verdict /\ pc' = pc
      /\ pc = "signatures"
    BY ReadingKeeps DEF IInv, Examine
<1>2. Examined(reports) /\ Conforming(file) /\ Counted(checks) /\ verdict = "none"
    BY <1>1 DEF IInv, RunInv
<1> DEFINE s == First(Waiting)
<1>3. reports' = [r \in DOMAIN reports \union {s} |-> IF r = s THEN Report(file, at, s) ELSE reports[r]]
      /\ Waiting # {}
    BY DEF Examine
<1>4. Waiting \subseteq Signatures(file) /\ Signatures(file) \subseteq Node
    BY DEF Waiting, Signatures, Those, IInv, FileInv, AFile, Tree
<1>5. s \in Signatures(file)
    BY <1>3, <1>4, FirstIsOne
<1> HIDE DEF s
<1>6. Examined(reports)'
    BY <1>1, <1>2, <1>3, <1>5 DEF Examined
<1> QED
    BY <1>1, <1>2, <1>6 DEF IInv, RunInv, Counted

LEMMA ConcludeKeeps ==
    ASSUME IInv, Conclude
    PROVE  IInv'
<1>1. FileInv' /\ file' = file /\ at' = at /\ pc' = "done" /\ pc = "signatures" /\ Waiting = {}
    BY ReadingKeeps DEF IInv, Conclude
<1>2. Examined(reports) /\ Conforming(file) /\ Counted(checks)
    BY <1>1 DEF IInv, RunInv
<1> DEFINE told == [s \in DOMAIN reports |-> Told(file, reports, s)]
           cov == [d \in Modelled(file) |-> Coverage(file, told, d)]
<1>3. /\ reports' = told /\ coverage' = cov
      /\ checks' = checks \union DossierChecks(told, cov)
      /\ verdict' = DossierVerdict(checks', told)
    BY DEF Conclude
<1>4. DOMAIN reports' = DOMAIN reports
    BY <1>3
<1>5. Waiting' = {}
    BY <1>1, <1>4 DEF Waiting
<1>6. \E rs : (DOMAIN rs \subseteq Signatures(file') /\ \A s \in DOMAIN rs : rs[s] = Report(file', at', s))
              /\ reports' = [s \in DOMAIN rs |-> Told(file', rs, s)]
    <2>1. DOMAIN reports \subseteq Signatures(file') /\ \A s \in DOMAIN reports : reports[s] = Report(file', at', s)
        BY <1>1, <1>2 DEF Examined
    <2>2. reports' = [s \in DOMAIN reports |-> Told(file', reports, s)]
        BY <1>1, <1>3
    <2> QED
        BY <2>1, <2>2
<1>7. coverage' = [d \in Modelled(file') |-> Coverage(file', reports', d)]
    BY <1>1, <1>3
<1>8. DossierChecks(reports', coverage') \subseteq checks' /\ verdict' = DossierVerdict(checks', reports')
    BY <1>3
<1> HIDE DEF told, cov
<1>9. Concluded'
    BY <1>5, <1>6, <1>7, <1>8 DEF Concluded, Examined
<1>10. Counted(checks)' /\ Conforming(file)'
    BY <1>1, <1>2, <1>3 DEF Counted
<1> QED
    BY <1>1, <1>9, <1>10 DEF IInv, RunInv

THEOREM Inductive == Spec => []IInv
<1>1. Init => IInv
    BY InitInv
<1>2. IInv /\ [Next]_vars => IInv'
    <2> SUFFICES ASSUME IInv, [Next]_vars PROVE IInv'
        OBVIOUS
    <2>1. ASSUME NEW s \in DOMAIN was, Sign(s) PROVE IInv'
        BY <2>1, SignKeeps
    <2>2. ASSUME NEW s \in DOMAIN was, Stamp(s) PROVE IInv'
        BY <2>2, StampKeeps
    <2>3. CASE Rewrite
        BY <2>3, RewriteKeeps
    <2>4. CASE Parse
        BY <2>4, ParseKeeps
    <2>5. CASE Examine
        BY <2>5, ExamineKeeps
    <2>6. CASE Conclude
        BY <2>6, ConcludeKeeps
    <2>7. CASE UNCHANGED vars
        <3>1. FileInv'
            BY <2>7, ReadingKeeps DEF IInv, vars
        <3>2. RunInv'
            BY <2>7 DEF IInv, RunInv, Concluded, Counted, Examined, Waiting, vars, history
        <3> QED
            BY <3>1, <3>2 DEF IInv
    <2> QED
        BY <2>1, <2>2, <2>3, <2>4, <2>5, <2>6, <2>7 DEF Next
<1> QED
    BY <1>1, <1>2, PTL DEF Spec

-----------------------------------------------------------------------------
(* What the report says.                                                   *)

\* A report is a record.
LEMMA ReportIsARecord ==
    ASSUME NEW f, NEW a, NEW s
    PROVE  \E place, role, signer, when, found :
              /\ Report(f, a, s) = Summed(place, role, signer, when, found)
              /\ when = ValidationTime(a, {}) \/ when = ValidationTime(a, ProvenTimes(f, s, Properties(f, s)))
<1> DEFINE place == Place(f, s)
           xades == Properties(f, s)
           early == StageA(f, s, place)
           Goal(r) == \E pl, role, signer, when, found :
              /\ r = Summed(pl, role, signer, when, found)
              /\ when = ValidationTime(a, {}) \/ when = ValidationTime(a, ProvenTimes(f, s, xades))
<1>1. ASSUME NEW pl, NEW role, NEW found PROVE Goal(Unjudged(a, pl, role, found))
    BY DEF Unjudged
<1>2. ASSUME NEW keyed, NEW found PROVE Goal(Judged(f, a, s, place, xades, keyed, found))
    BY DEF Judged
<1> HIDE DEF Goal
<1>3. Goal(AfterStageA(f, a, s, place, xades, early))
    BY <1>1, <1>2 DEF AfterStageA
<1>4. Goal(VerifySignature(f, a, s, place, xades))
    BY <1>1, <1>3 DEF VerifySignature
<1>5. Goal(Report(f, a, s))
    BY <1>4 DEF Report
<1> QED
    BY <1>5 DEF Goal

\* What is told to a signature afterwards adds to its checks and changes nothing
\* else of its report.
LEMMA TellingKeeps ==
    ASSUME NEW f, NEW rs, NEW s, NEW a, rs[s] = Report(f, a, s)
    PROVE  /\ Told(f, rs, s).verdict = Report(f, a, s).verdict
           /\ Told(f, rs, s).signer = Report(f, a, s).signer
           /\ Told(f, rs, s).time = Report(f, a, s).time
           /\ Told(f, rs, s).source = Report(f, a, s).source
           /\ Told(f, rs, s).place = Report(f, a, s).place
<1>1. PICK place, role, signer, when, found : Report(f, a, s) = Summed(place, role, signer, when, found)
    BY ReportIsARecord
<1> DEFINE r == Report(f, a, s)
           more == r.checks \union {Check("nested_unsupported", "info")}
<1>2. Told(f, rs, s) = r \/ Told(f, rs, s) = [r EXCEPT !.checks = more]
    BY DEF Told
<1> HIDE DEF more
<1> QED
    BY <1>1, <1>2 DEF Summed

\* The reports there are in the end.
LEMMA ReportedMeans ==
    ASSUME IInv, NEW s \in Reported
    PROVE  /\ pc = "done" /\ s \in Signatures(file) /\ s \in DOMAIN reports
           /\ reports[s].verdict = Report(file, at, s).verdict
           /\ reports[s].signer = Report(file, at, s).signer
           /\ reports[s].time = Report(file, at, s).time
           /\ reports[s].source = Report(file, at, s).source
           /\ reports[s].place = Report(file, at, s).place
<1>1. pc = "done" /\ s \in DOMAIN reports
    BY DEF Reported
<1>2. PICK rs : Examined(rs) /\ reports = [r \in DOMAIN rs |-> Told(file, rs, r)]
    BY <1>1 DEF IInv, RunInv, Concluded
<1>3. s \in DOMAIN rs /\ rs[s] = Report(file, at, s) /\ s \in Signatures(file)
    BY <1>1, <1>2 DEF Examined
<1>4. reports[s] = Told(file, rs, s)
    BY <1>2, <1>3
<1> QED
    BY <1>1, <1>3, <1>4, TellingKeeps

-----------------------------------------------------------------------------
(* What is covered is as it was.                                           *)

\* What is written in payload objects is text, in the file and as the signers
\* saw it.
PayloadsAreText == TextOnly(file) /\ \A s \in DsSignature : TextOnly(was[s])

\* The value of a valid signature is over what the references in the file digest
\* to now and digested to when it was made.
LEMMA ValidDigests ==
    ASSUME FileInv, NEW s \in DsSignature, NEW a, Report(file, a, s).verdict = "valid"
    PROVE  /\ Tree(was[s])
           /\ file.sig[s].sealed = <<file.sig[s].refs, file.sig[s].digests>>
           /\ \A i \in DOMAIN file.sig[s].refs :
                /\ Digested(file, s, file.sig[s].refs[i]) # Unreadable
                /\ Digested(file, s, file.sig[s].refs[i]) = Digested(was[s], s, file.sig[s].refs[i])
<1> DEFINE refs == file.sig[s].refs
           digests == file.sig[s].digests
           sealed == file.sig[s].sealed
<1>1. SigInv(s)
    BY DEF FileInv
<1>2. Selected(file, s).verified
    BY ValidIsSigned
<1>3. ValueHolds(file, s)
    BY <1>1, <1>2, VerifiedMeans DEF SigInv
<1>4. sealed = <<refs, digests>>
    BY <1>3 DEF ValueHolds
<1>5. Tree(was[s]) /\ digests = DigestsOf(was[s], s, refs)
    BY <1>1, <1>4 DEF SigInv
<1>6. DigestsMatch(file, s)
    BY ValidCovers
<1>7. ASSUME NEW i \in DOMAIN refs
      PROVE  Digested(file, s, refs[i]) # Unreadable /\ Digested(file, s, refs[i]) = Digested(was[s], s, refs[i])
    <2>1. Digested(file, s, refs[i]) # Unreadable /\ Digested(file, s, refs[i]) = digests[i]
        BY <1>6 DEF DigestsMatch
    <2>2. digests[i] = Digested(was[s], s, refs[i])
        BY <1>5 DEF DigestsOf
    <2> QED
        BY <2>1, <2>2
<1> QED
    BY <1>4, <1>5, <1>7

\* An element that a valid signature covers reads as it did for its signer.
LEMMA CoveredIsAsSigned ==
    ASSUME FileInv, NEW s \in DsSignature, NEW a, Report(file, a, s).verdict = "valid",
           NEW n \in Present(file), Covered(file, s, n),
           PayloadsAreText \/ Below(file, n) \ DsObject # {}
    PROVE  AsSigned(s, n)
<1>1. PICK i \in DOMAIN file.sig[s].refs :
        CoversIn(file, EffectiveNodeSet(file, s, file.sig[s].refs[i]), n)
    BY DEF Covered
<1> DEFINE r == file.sig[s].refs[i]
           g == was[s]
<1>2. /\ Tree(file) /\ Tree(g) /\ Digested(file, s, r) # Unreadable /\ Digested(file, s, r) = Digested(g, s, r)
      /\ s \in Node
    BY ValidDigests, NameAssumption DEF FileInv, AFile
<1>3. ASSUME "base64" \in EntriesOf(r.transforms) PROVE TextOnly(file) /\ TextOnly(g)
    <2>1. Readable(file, s, r)
        BY <1>2, DigestedMeans
    <2>2. EffectiveNodeSet(file, s, r) =
            Scope(r.target, IF "enveloped" \in EntriesOf(r.transforms) THEN {s} ELSE {}, TRUE)
        BY <1>3, <2>1 DEF Readable, EffectiveNodeSet
    <2>3. n = r.target
        BY <1>1, <2>2 DEF CoversIn, Scope
    <2>4. Below(file, n) \subseteq DsObject
        BY <1>3, <2>1, <2>3 DEF Readable, Decodable
    <2> QED
        BY <2>4 DEF PayloadsAreText
<1> HIDE DEF r, g
<1>4. CoversIn(file, EffectiveNodeSet(file, s, r), n)
    BY <1>1 DEF r
<1>5. n \in Present(file) \intersect Present(g) /\ Content(file, n, s) = Content(g, n, s)
    BY <1>2, <1>3, <1>4, ReadsTheSame
<1> QED
    BY <1>5 DEF AsSigned, g

\* The child of a name is one of the children of the name.
LEMMA ChildIsOne ==
    ASSUME NEW f, Tree(f), NEW n, NEW name
    PROVE  /\ Children(f, n, name) \subseteq Present(f)
           /\ Children(f, n, name) # {} => Child(f, n, name) \in Children(f, n, name)
           /\ Child(f, n, name) = Nowhere \/ Child(f, n, name) \in Children(f, n, name)
           /\ Child(f, n, name) = Nowhere \/ Child(f, n, name) \in Present(f)
<1>1. Children(f, n, name) \subseteq Present(f) /\ Children(f, n, name) \in SUBSET Node
    BY DEF Children, Those, Tree
<1> DEFINE kids == Children(f, n, name)
<1> HIDE DEF kids
<1>2. (kids = {} => First(kids) = Nowhere) /\ (kids # {} => First(kids) \in kids)
    BY <1>1, FirstIsOne DEF kids
<1> QED
    BY <1>1, <1>2 DEF Child, kids

\* The profile in an object is an element of the file.
LEMMA ProfileIsOne ==
    ASSUME NEW f, Tree(f), NEW s, NEW o
    PROVE  ProfileIn(f, s, o) = Nowhere \/ ProfileIn(f, s, o) \in Present(f)
<1> DEFINE ps == {p \in Those(f, EsSignatureProfile) : o \in f.up[p] /\ Owner(f, p) = s}
<1>1. ps \subseteq Present(f) /\ ps \in SUBSET Node
    BY DEF Those, Tree
<1> HIDE DEF ps
<1>2. First(ps) = Nowhere \/ First(ps) \in ps
    BY <1>1, FirstIsOne
<1> QED
    BY <1>1, <1>2 DEF ProfileIn, ps

\* What has to be covered is in the file.
LEMMA MandatedIsPresent ==
    ASSUME NEW f, Tree(f), NEW s, NEW place, Measurable(f, s, place),
           place \in {"document", "dossier", "countersignature", "unknown"},
           NEW ns \in Mandated(f, s, place)
    PROVE  ns \subseteq Present(f)
<1>1. ASSUME NEW n, NEW name PROVE Option(Child(f, n, name)) \subseteq Present(f)
    BY ChildIsOne DEF Option
<1>2. ProfileNodes(f, s) \subseteq Present(f)
    <2>1. OwnObjects(f, s) \subseteq Present(f) /\ OwnObjects(f, s) \in SUBSET Node
        BY DEF OwnObjects, Children, Those, Tree
    <2>2. First(OwnObjects(f, s)) = Nowhere \/ First(OwnObjects(f, s)) \in OwnObjects(f, s)
        BY <2>1, FirstIsOne
    <2>3. WithProfile(f, s) \subseteq OwnObjects(f, s)
        BY DEF WithProfile
    <2>4. \A o \in WithProfile(f, s) : ProfileIn(f, s, o) \in Present(f)
        BY ProfileIsOne DEF WithProfile
    <2> QED
        BY <2>1, <2>2, <2>3, <2>4 DEF ProfileNodes
<1>3. SignedPropertiesOf(f, s) \subseteq Present(f)
    BY DEF SignedPropertiesOf, Those
<1>4. CASE ns = ProfileNodes(f, s) \/ ns = SignedPropertiesOf(f, s)
    BY <1>2, <1>3, <1>4
<1>5. CASE ns # ProfileNodes(f, s) /\ ns # SignedPropertiesOf(f, s)
    <2>1. place # "unknown"
        BY DEF Measurable
    <2>2. CASE place = "document"
        <3>1. ns = Option(Profile(f, f.parent[s])) \/ ns = Option(Payload(f, f.parent[s]))
            BY <1>5, <2>2 DEF Mandated
        <3> QED
            BY <1>1, <3>1 DEF Profile, Payload
    <2>3. CASE place = "dossier"
        <3>1. ns = Option(DossierProfile(f)) \/ ns = Option(Documents(f))
            BY <1>5, <2>3 DEF Mandated
        <3> QED
            BY <1>1, <3>1 DEF DossierProfile, Documents
    <2>4. CASE place = "countersignature"
        <3>1. ns = Option(Value(f, Enclosing(f, s)))
            BY <1>5, <2>4 DEF Mandated
        <3> QED
            BY <1>1, <3>1 DEF Value
    <2> QED
        BY <2>1, <2>2, <2>3, <2>4
<1> QED
    BY <1>4, <1>5

LEMMA PlacesThereAre ==
    ASSUME NEW f, NEW s
    PROVE  Place(f, s) \in {"document", "dossier", "countersignature", "unknown"}
BY DEF Place

\* A signature found valid has everything it has to cover as its signer saw it.
LEMMA UnalteredHolds ==
    ASSUME IInv, PayloadsAreText
    PROVE  ValidMeansUnaltered
<1>1. FileInv /\ Tree(file)
    BY DEF IInv, FileInv, AFile
<1>2. ASSUME NEW s \in Reported, Valid(s)
      PROVE  /\ Measurable(file, s, Place(file, s))
             /\ \A ns \in Mandated(file, s, Place(file, s)) : \E n \in ns : AsSigned(s, n)
    <2>1. Report(file, at, s).verdict = "valid" /\ s \in DsSignature
        BY <1>2, ReportedMeans DEF Valid, Signatures, Those
    <2>2. /\ Measurable(file, s, Place(file, s))
          /\ \A ns \in Mandated(file, s, Place(file, s)) : \E n \in ns : Covered(file, s, n)
        BY <2>1, ValidCovers
    <2>3. ASSUME NEW ns \in Mandated(file, s, Place(file, s)) PROVE \E n \in ns : AsSigned(s, n)
        <3>1. PICK n \in ns : Covered(file, s, n)
            BY <2>2
        <3>2. n \in Present(file)
            BY <1>1, <2>2, <3>1, MandatedIsPresent, PlacesThereAre
        <3>3. AsSigned(s, n)
            BY <1>1, <2>1, <3>1, <3>2, CoveredIsAsSigned
        <3> QED
            BY <3>3
    <2> QED
        BY <2>2, <2>3
<1> QED
    BY <1>2 DEF ValidMeansUnaltered

\* A document counted as covered reads as it did for a signer whose signature is
\* on it or on the dossier.
LEMMA CoveringMeans ==
    ASSUME IInv, PayloadsAreText, Conforming(file), NEW d \in Modelled(file),
           NEW s \in Reported, Valid(s), CoversDocument(file, reports, s, d)
    PROVE  \/ AsSigned(s, d)
           \/ file.parent[s] = d /\ AsSigned(s, Profile(file, d)) /\ AsSigned(s, Payload(file, d))
<1>1. FileInv /\ Tree(file)
    BY DEF IInv, FileInv, AFile
<1>2. Report(file, at, s).verdict = "valid" /\ s \in DsSignature
    BY ReportedMeans DEF Valid, Signatures, Those
<1>3. ASSUME NEW n \in Present(file), Covered(file, s, n) PROVE AsSigned(s, n)
    BY <1>1, <1>2, <1>3, CoveredIsAsSigned
<1>4. CASE Covered(file, s, d)
    <2>1. d \in Present(file)
        BY DEF Modelled, Children, Those
    <2> QED
        BY <1>3, <1>4, <2>1
<1>5. CASE /\ file.parent[s] = d
           /\ Covered(file, s, Profile(file, d)) /\ Covered(file, s, ObjRef[Profile(file, d)])
    <2>1. Children(file, d, EsDocumentProfile) # {} /\ Children(file, d, DsObject) = {ObjRef[Profile(file, d)]}
        BY DEF Modelled, Conforming
    <2>2. Profile(file, d) \in Present(file)
        BY <1>1, <2>1, ChildIsOne DEF Profile
    <2>3. Payload(file, d) = ObjRef[Profile(file, d)] /\ Payload(file, d) \in Present(file)
        <3>1. Payload(file, d) \in Children(file, d, DsObject) /\ Children(file, d, DsObject) \subseteq Present(file)
            BY <1>1, <2>1, ChildIsOne DEF Payload
        <3> QED
            BY <2>1, <3>1
    <2>4. AsSigned(s, Profile(file, d)) /\ AsSigned(s, Payload(file, d))
        BY <1>3, <1>5, <2>2, <2>3
    <2> QED
        BY <1>5, <2>4
<1> QED
    BY <1>4, <1>5 DEF CoversDocument

LEMMA VerdictsThereAre ==
    /\ \A cs : VerdictOf(cs) \in Verdicts
    /\ \A f, a, s : Report(f, a, s).verdict \in Verdicts
<1>1. ASSUME NEW cs PROVE VerdictOf(cs) \in Verdicts
    BY DEF VerdictOf, Verdicts
<1>2. ASSUME NEW f, NEW a, NEW s PROVE Report(f, a, s).verdict \in Verdicts
    <2>1. PICK place, role, signer, when, found : Report(f, a, s) = Summed(place, role, signer, when, found)
        BY ReportIsARecord
    <2> QED
        BY <1>1, <2>1 DEF Summed
<1> QED
    BY <1>1, <1>2

\* Where the limit was kept, no signature is left without a report.
LEMMA AllReported ==
    ASSUME IInv, pc = "done", Cardinality(Signatures(file)) <= MaxSignatures
    PROVE  Signatures(file) = DOMAIN reports
<1> DEFINE all == Signatures(file)
           Before(s) == {r \in all : r < s}
<1>1. all \subseteq Node /\ IsFiniteSet(Node) /\ Node \subseteq Nat
    BY NodeAssumption DEF Signatures, Those, IInv, FileInv, AFile, Tree
<1>2. IsFiniteSet(all) /\ Cardinality(all) \in Nat
    BY <1>1, FS_Subset, FS_CardinalityType
<1>3. Waiting = {}
    BY DEF IInv, RunInv, Concluded
<1>4. ASSUME NEW s \in all PROVE Cardinality(Before(s)) < MaxSignatures
    <2>1. Before(s) \subseteq all /\ Before(s) # all
        <3>1. s \in Nat
            BY <1>1
        <3>2. ~(s < s)
            BY <3>1
        <3>3. s \notin Before(s) /\ Before(s) \subseteq all
            BY <3>2
        <3> HIDE DEF all, Before
        <3> QED
            BY <3>3
    <2>2. /\ IsFiniteSet(Before(s)) /\ Cardinality(Before(s)) <= Cardinality(all)
          /\ Cardinality(Before(s)) # Cardinality(all)
        <3> HIDE DEF all, Before
        <3> QED
            BY <1>2, <2>1, FS_Subset
    <2>3. Cardinality(Before(s)) \in Nat
        BY <2>2, FS_CardinalityType
    <2>4. MaxSignatures \in Nat /\ Cardinality(all) <= MaxSignatures
        BY VerdictAssumption
    <2> HIDE DEF all, Before
    <2> QED
        BY <1>2, <2>2, <2>3, <2>4
<1>5. all \subseteq DOMAIN reports
    BY <1>3, <1>4 DEF Waiting
<1>6. DOMAIN reports \subseteq all
    BY ReportedMeans DEF Reported
<1> QED
    BY <1>5, <1>6

\* A dossier found valid has every signature valid and every document signed.
LEMMA SignedHolds ==
    ASSUME IInv, PayloadsAreText
    PROVE  ValidDossierIsSigned
<1> SUFFICES ASSUME verdict = "valid"
             PROVE  /\ Signatures(file) # {} /\ Signatures(file) = DOMAIN reports
                    /\ \A s \in Signatures(file) : Valid(s)
                    /\ \A d \in Modelled(file) : \E s \in Signatures(file) :
                        \/ AsSigned(s, d)
                        \/ /\ file.parent[s] = d
                           /\ AsSigned(s, Profile(file, d)) /\ AsSigned(s, Payload(file, d))
    BY DEF ValidDossierIsSigned
<1>1. pc = "done"
    BY DEF IInv, RunInv
<1>2. /\ Conforming(file) /\ Counted(checks)
      /\ coverage = [d \in Modelled(file) |-> Coverage(file, reports, d)]
      /\ DossierChecks(reports, coverage) \subseteq checks
      /\ verdict = DossierVerdict(checks, reports)
      /\ Reported = DOMAIN reports
    BY <1>1 DEF IInv, RunInv, Concluded, Reported
<1> DEFINE judged == {r \in DOMAIN reports : ~UnsupportedOnly(reports[r])}
           vs == {VerdictOf(checks)} \union {reports[s].verdict : s \in judged}
<1>3. "invalid" \notin vs /\ "indeterminate" \notin vs
    <2>1. WorstOf(vs) = "valid"
        BY <1>2 DEF DossierVerdict
    <2> HIDE DEF vs
    <2> QED
        BY <2>1 DEF WorstOf
<1>4. Clean(checks)
    <2>1. VerdictOf(checks) \in vs /\ VerdictOf(checks) \in Verdicts
        BY VerdictsThereAre
    <2>2. VerdictOf(checks) = "valid"
        BY <1>3, <2>1 DEF Verdicts
    <2> QED
        BY <2>2, ValidIsClean
<1>5. \A code, st : Check(code, st) \in DossierChecks(reports, coverage) => st # "unknown"
    BY <1>2, <1>4, CleanHas
<1>6. \A s \in DOMAIN reports : ~UnsupportedOnly(reports[s])
    <2> SUFFICES ASSUME NEW s \in DOMAIN reports, UnsupportedOnly(reports[s]) PROVE FALSE
        OBVIOUS
    <2>1. Check("signatures_unsupported", "unknown") \in DossierChecks(reports, coverage)
        BY DEF DossierChecks
    <2> QED
        BY <1>5, <2>1
<1>7. \A s \in DOMAIN reports : Valid(s)
    <2> SUFFICES ASSUME NEW s \in DOMAIN reports PROVE reports[s].verdict = "valid"
        BY <1>2 DEF Valid
    <2>1. reports[s].verdict \in vs
        BY <1>6
    <2>2. reports[s].verdict \in Verdicts
        BY <1>2, ReportedMeans, VerdictsThereAre
    <2> QED
        BY <1>3, <2>1, <2>2 DEF Verdicts
<1>8. Signatures(file) = DOMAIN reports
    <2> DEFINE over == Cardinality(Signatures(file)) > MaxSignatures
    <2>1. Check("signature_count", IF over THEN "failed" ELSE "passed") \in checks
        BY <1>2 DEF Counted
    <2>2. ~over
        <3> HIDE DEF over
        <3> QED
            BY <1>4, <2>1, CleanHas
    <2>3. IsFiniteSet(Signatures(file))
        BY NodeAssumption, FS_Subset DEF Signatures, Those, IInv, FileInv, AFile, Tree
    <2>4. Cardinality(Signatures(file)) \in Nat
        BY <2>3, FS_CardinalityType
    <2>5. Cardinality(Signatures(file)) <= MaxSignatures
        BY <2>2, <2>4, VerdictAssumption
    <2> QED
        BY <1>1, <2>5, AllReported
<1>9. Signatures(file) # {}
    <2> SUFFICES ASSUME DOMAIN reports = {} PROVE FALSE
        BY <1>8
    <2>1. reports = <<>>
        <3>1. PICK rs : reports = [s \in DOMAIN rs |-> Told(file, rs, s)]
            BY <1>1 DEF IInv, RunInv, Concluded
        <3>2. DOMAIN rs = {}
            BY <3>1
        <3>3. <<>> = [s \in {} |-> Told(file, rs, s)]
            OBVIOUS
        <3> QED
            BY <3>1, <3>2, <3>3
    <2>2. Check("no_signatures", "unknown") \in DossierChecks(reports, coverage)
        BY <2>1 DEF DossierChecks
    <2> QED
        BY <1>5, <2>2
<1>10. ASSUME NEW d \in Modelled(file)
       PROVE  \E s \in Signatures(file) :
                \/ AsSigned(s, d)
                \/ file.parent[s] = d /\ AsSigned(s, Profile(file, d)) /\ AsSigned(s, Payload(file, d))
    <2>1. CoverageChecks(coverage) \subseteq DossierChecks(reports, coverage)
        BY DEF DossierChecks
    <2>2. coverage[d] \notin {"uncovered", "undetermined"}
        <3> SUFFICES ASSUME coverage[d] \in {"uncovered", "undetermined"} PROVE FALSE
            OBVIOUS
        <3>1. d \in DOMAIN coverage
            BY <1>2
        <3>2. Check("documents", "unknown") \in CoverageChecks(coverage)
            BY <3>1 DEF CoverageChecks
        <3> QED
            BY <1>5, <2>1, <3>2
    <2>3. Coverage(file, reports, d) \notin {"uncovered", "undetermined"}
        BY <1>2, <2>2
    <2>4. PICK s \in DOMAIN reports : CoversDocument(file, reports, s, d)
        BY <2>3 DEF Coverage
    <2>5. s \in Reported /\ Valid(s) /\ s \in Signatures(file)
        BY <1>2, <1>7, <1>8
    <2> QED
        BY <1>2, <2>4, <2>5, CoveringMeans
<1> QED
    BY <1>7, <1>8, <1>9, <1>10

\* Whatever was done to a dossier: a signature reported valid covers all that the
\* format makes it cover, and that reads as it did for its signer; in a dossier
\* reported valid every signature is valid, and every document reads as it did
\* for one of the signers (lib.rs, scope.rs, coverage.rs, references.rs).
THEOREM ValidIsAsSigned == Spec => [](PayloadsAreText => ValidMeansSigned)
<1>1. IInv => (PayloadsAreText => ValidMeansSigned)
    BY UnalteredHolds, SignedHolds DEF ValidMeansSigned
<1> QED
    BY <1>1, Inductive, PTL

-----------------------------------------------------------------------------
(* Who signed, and when.                                                   *)

\* Tokens counted were made by an authority.
LEMMA TokensAreMade ==
    ASSUME FileInv, NEW xades
    PROVE  LET tokens == Tokens(file, xades) IN \A i \in DOMAIN tokens : tokens[i] \in stamped
<1> DEFINE unsigned == Child(file, xades.qualifying, UnsignedProperties)
           all == IF unsigned = Nowhere THEN <<>> ELSE file.stamps[unsigned]
           n == IF Len(all) < MaxTimestamps THEN Len(all) ELSE MaxTimestamps
<1>1. Tree(file) /\ StampInv
    BY DEF FileInv, AFile
<1>2. unsigned = Nowhere \/ unsigned \in UnsignedProperties
    BY <1>1, ChildIsOne DEF Children, Those
<1>3. all \in Seq(stamped)
    <2>1. CASE unsigned = Nowhere
        <3>1. all = <<>>
            BY <2>1
        <3>2. <<>> \in Seq(stamped)
            OBVIOUS
        <3> HIDE DEF all
        <3> QED
            BY <3>1, <3>2
    <2>2. CASE unsigned # Nowhere
        <3>1. all = file.stamps[unsigned] /\ unsigned \in UnsignedProperties
            BY <1>2, <2>2
        <3> HIDE DEF all, unsigned
        <3> QED
            BY <1>1, <3>1 DEF StampInv
    <2> QED
        BY <2>1, <2>2
<1>4. n \in Nat /\ n <= Len(all)
    <2> HIDE DEF all
    <2> QED
        BY <1>3, VerdictAssumption
<1>5. ASSUME NEW i \in DOMAIN SubSeq(all, 1, n) PROVE SubSeq(all, 1, n)[i] \in stamped
    <2> HIDE DEF all, n
    <2>1. i \in 1 .. n /\ SubSeq(all, 1, n)[i] = all[i]
        BY <1>3, <1>4, <1>5
    <2>2. i \in DOMAIN all
        BY <1>3, <1>4, <2>1
    <2>3. all[i] \in stamped
        BY <1>3, <2>2
    <2> QED
        BY <2>1, <2>3
<1> QED
    BY <1>5 DEF Tokens

\* A token that is verified was made for the value as it reads, by an authority
\* that had a path then.
LEMMA VerifiedToken ==
    ASSUME NEW s, NEW xades, NEW t, TokenVerified(TokenChecks(file, s, xades, t)),
           AuthorityPath[t.authority, t.time] \in PathStatuses
    PROVE  Imprinted(file, s, t) /\ AuthorityPath[t.authority, t.time] = "passed"
<1> DEFINE path == AuthorityPath[t.authority, t.time]
           found == TokenChecks(file, s, xades, t)
<1>1. ASSUME NEW code, NEW st, Check(code, st) \in found, code # "revocation" PROVE st \in {"passed", "info"}
    <2>1. Check(code, st)[1] = code /\ Check(code, st)[2] = st
        BY DEF Check
    <2> QED
        BY <1>1, <2>1 DEF TokenVerified
<1>2. Check("imprint", IF Imprinted(file, s, t) THEN "passed" ELSE "failed") \in found
    BY DEF TokenChecks
<1>3. Check("tsa_path", IF path = "not_granted" THEN "unknown" ELSE path) \in found
    BY DEF TokenChecks
<1> HIDE DEF found
<1>4. Imprinted(file, s, t)
    <2>1. (IF Imprinted(file, s, t) THEN "passed" ELSE "failed") \in {"passed", "info"}
        BY <1>1, <1>2, "imprint" # "revocation"
    <2> QED
        BY <2>1
<1>5. (IF path = "not_granted" THEN "unknown" ELSE path) \in {"passed", "info"}
    <2> HIDE DEF path
    <2> QED
        BY <1>1, <1>3
<1> QED
    BY <1>4, <1>5 DEF PathStatuses

\* The instant of a report is the flag's, or the earliest proven, or the clock's.
LEMMA TimeHolds ==
    ASSUME IInv
    PROVE  TimeIsProven
<1> SUFFICES ASSUME NEW s \in Reported
             PROVE  LET r == reports[s] IN
                    /\ at # Nobody => r.time = at
                    /\ r.source = "current_time" => r.time = Now
                    /\ r.source = "timestamp" =>
                        \E t \in stamped : /\ t.value = Value(file, s) /\ t.text = file.text[t.value]
                                           /\ t.time = r.time
                                           /\ AuthorityPath[t.authority, t.time] = "passed"
    BY DEF TimeIsProven
<1>1. reports[s].time = Report(file, at, s).time /\ reports[s].source = Report(file, at, s).source
    BY ReportedMeans
<1> DEFINE xades == Properties(file, s)
           times == ProvenTimes(file, s, xades)
           tokens == Tokens(file, xades)
<1>2. PICK when : /\ reports[s].time = when.time /\ reports[s].source = when.source
                  /\ when = ValidationTime(at, {}) \/ when = ValidationTime(at, times)
    <2>1. PICK place, role, signer, when, found :
              /\ Report(file, at, s) = Summed(place, role, signer, when, found)
              /\ when = ValidationTime(at, {}) \/ when = ValidationTime(at, times)
        BY ReportIsARecord
    <2> QED
        BY <1>1, <2>1 DEF Summed
<1>3. FileInv /\ StampInv
    BY DEF IInv, FileInv
<1>4. \A i \in DOMAIN tokens : tokens[i] \in stamped
    BY <1>3, TokensAreMade
<1>5. times \in SUBSET Nat
    BY <1>3, <1>4 DEF ProvenTimes, StampInv
<1>6. ASSUME when.source = "timestamp" PROVE when.time \in times
    <2>1. at = Nobody /\ times # {} /\ when.time = CHOOSE t \in times : \A u \in times : t <= u
        <3> HIDE DEF times
        <3> QED
            BY <1>2, <1>6 DEF ValidationTime
    <2>2. \E t \in times : \A u \in times : t <= u
        <3> HIDE DEF times
        <3> QED
            BY <1>5, <2>1, Least
    <2> HIDE DEF times
    <2> QED
        BY <2>1, <2>2
<1>7. ASSUME when.source = "timestamp"
      PROVE  \E t \in stamped : /\ t.value = Value(file, s) /\ t.text = file.text[t.value]
                                /\ t.time = when.time
                                /\ AuthorityPath[t.authority, t.time] = "passed"
    <2>1. PICK i \in DOMAIN tokens :
            when.time = tokens[i].time /\ TokenVerified(TokenChecks(file, s, xades, tokens[i]))
        BY <1>6, <1>7 DEF ProvenTimes
    <2>2. tokens[i] \in stamped /\ AuthorityPath[tokens[i].authority, tokens[i].time] \in PathStatuses
        BY <1>3, <1>4 DEF StampInv
    <2>3. Imprinted(file, s, tokens[i]) /\ AuthorityPath[tokens[i].authority, tokens[i].time] = "passed"
        BY <2>1, <2>2, VerifiedToken
    <2> QED
        BY <2>1, <2>2, <2>3 DEF Imprinted
<1>8. (at # Nobody => when.time = at) /\ (when.source = "current_time" => when.time = Now)
    <2> HIDE DEF times
    <2> QED
        BY <1>2 DEF ValidationTime
<1> QED
    BY <1>2, <1>7, <1>8

\* The signatures an element is in and the nearest of them.
LEMMA OwnerMeans ==
    ASSUME NEW f, Tree(f), NEW n \in Present(f)
    PROVE  /\ DsSignature \intersect f.up[n] # {} =>
                /\ Owner(f, n) \in DsSignature \intersect f.up[n]
                /\ DsSignature \intersect f.up[n] \subseteq f.up[Owner(f, n)]
           /\ DsSignature \intersect f.up[n] = {} => Owner(f, n) = Nowhere
           /\ Owner(f, n) # Nowhere => DsSignature \intersect f.up[n] # {}
BY NearestIsOne DEF Owner

\* A signer's references cover no signed properties but those of signatures that
\* are covered with them, or are the signer's own.
OwnPropertiesOnly ==
    \A s \in DsSignature : file.sig[s].sealed # <<>> =>
        \A i \in DOMAIN file.sig[s].sealed[1] :
            LET t == file.sig[s].sealed[1][i].target IN
            \A p \in Those(was[s], SignedProperties) :
                t \in was[s].up[p] => \/ Owner(was[s], p) = s
                                      \/ Owner(was[s], p) \in Below(was[s], t)

\* Properties are neither signatures nor objects.
LEMMA PropertiesApart ==
    /\ SignedProperties \intersect DsSignature = {}
    /\ SignedProperties \intersect DsObject = {}
<1> DEFINE names == <<EsDossier, EsDossierProfile, EsDocuments, EsDocument, EsDocumentProfile,
                      EsSignatureProfile, DsObject, DsSignature, DsSignatureValue,
                      QualifyingProperties, SignedProperties, UnsignedProperties, CounterSignature>>
<1>1. \A i, j \in DOMAIN names : i # j => names[i] \intersect names[j] = {}
    BY NameAssumption
<1>2. names[7] = DsObject /\ names[8] = DsSignature /\ names[11] = SignedProperties
      /\ 7 \in DOMAIN names /\ 8 \in DOMAIN names /\ 11 \in DOMAIN names
    OBVIOUS
<1> HIDE DEF names
<1>3. names[11] \intersect names[8] = {} /\ names[11] \intersect names[7] = {}
    BY <1>1, <1>2
<1> QED
    BY <1>2, <1>3

\* An element under one that reads the same in both files is of the signature it
\* was of, when it was of that or of one that is there too.
LEMMA OwnerStays ==
    ASSUME NEW f, NEW g, Tree(f), Tree(g), NEW s \in DsSignature, NEW t,
           NEW env, ~env, Agree(f, g, s, t, env),
           NEW p \in Present(f), t \in f.up[p], Owner(f, p) = s,
           Owner(g, p) = s \/ Owner(g, p) \in Below(g, t)
    PROVE  Owner(g, p) = s
<1> DEFINE K == Within(f, s, t, env)
<1>1. K = Within(g, s, t, env) /\ K = {n \in Present(f) : t \in f.up[n]} /\ K = {n \in Present(g) : t \in g.up[n]}
    <2>1. K = Within(g, s, t, env)
        BY AgreeMeans
    <2> QED
        BY <2>1 DEF Within
<1>2. p \in K /\ p \in Present(g) /\ t \in g.up[p]
    BY <1>1
<1>3. \A m, x \in K : x \in f.up[m] <=> x \in g.up[m]
    BY AgreeOnUp
<1>4. s \in f.up[p] /\ DsSignature \intersect f.up[p] \subseteq f.up[s] /\ s \in Present(f)
    <2>1. s \in Node /\ s # Nowhere /\ s # Root
        BY Outside, NameAssumption
    <2>2. Owner(f, p) \in DsSignature \intersect f.up[p] /\ DsSignature \intersect f.up[p] \subseteq f.up[Owner(f, p)]
        BY <2>1, OwnerMeans
    <2>3. f.up[p] \subseteq Present(f) \union {Root}
        BY UpStays
    <2> QED
        BY <2>1, <2>2, <2>3
<1> DEFINE o == Owner(g, p)
<1>5. SUFFICES ASSUME o \in Below(g, t), o # s PROVE FALSE
    OBVIOUS
<1>6. o \in K /\ o # Nowhere
    BY <1>1, <1>5, Outside DEF Below, Tree
<1>7. o \in DsSignature /\ o \in g.up[p] /\ DsSignature \intersect g.up[p] \subseteq g.up[o]
    BY <1>2, <1>6, OwnerMeans
<1> HIDE DEF o, K
<1>8. o \in f.up[p] /\ o \in f.up[s]
    BY <1>2, <1>3, <1>4, <1>6, <1>7
<1>9. t \in f.up[o] /\ f.up[o] \subseteq f.up[s]
    BY <1>1, <1>4, <1>6, <1>8, UpIsTransitive
<1>10. s \in K
    BY <1>1, <1>4, <1>9
<1>11. s \in g.up[p] /\ s \in g.up[o]
    BY <1>2, <1>3, <1>4, <1>7, <1>10
<1>12. s \in f.up[o]
    BY <1>3, <1>6, <1>10, <1>11
<1> QED
    BY <1>4, <1>5, <1>8, <1>12, UpIsAntisymmetric

\* A digest of everything under an element shows all of it.
LEMMA DigestsAgree ==
    ASSUME NEW f, NEW g, NEW s, NEW r,
           Digested(f, s, r) # Unreadable, Digested(f, s, r) = Digested(g, s, r),
           "base64" \notin EntriesOf(r.transforms)
    PROVE  Agree(f, g, s, r.target, "enveloped" \in EntriesOf(r.transforms))
BY DigestedMeans DEF Agree

\* The properties a signature is evaluated against are its own and covered.
LEMMA PropertiesMean ==
    ASSUME NEW f, Tree(f), NEW s \in DsSignature, Properties(f, s).signed # Nowhere
    PROVE  LET p == Properties(f, s).signed IN
           /\ p \in Those(f, SignedProperties) /\ p \in Present(f)
           /\ Covered(f, s, p) /\ Owner(f, p) = s
<1> DEFINE covered == {q \in Qualifying(f, s) : CoveredIn(f, s, q) # {}}
           q == First(covered)
           p == First(CoveredIn(f, s, q))
<1>1. covered # {} /\ Properties(f, s).signed = p
    BY DEF Properties
<1>2. covered \in SUBSET Node /\ covered \subseteq Present(f)
    BY DEF Qualifying, Those, Tree
<1>3. q \in covered
    <2> HIDE DEF covered
    <2> QED
        BY <1>1, <1>2, FirstIsOne
<1>4. CoveredIn(f, s, q) # {} /\ Owner(f, q) = s /\ q \in Present(f)
    <2>1. \A x \in covered : CoveredIn(f, s, x) # {} /\ Owner(f, x) = s /\ x \in Present(f)
        BY DEF Qualifying, Those
    <2> HIDE DEF covered, q
    <2> QED
        BY <1>3, <2>1
<1> HIDE DEF q
<1>5. CoveredIn(f, s, q) \in SUBSET Node
    BY DEF CoveredIn, Children, Those, Tree
<1>6. p \in CoveredIn(f, s, q)
    BY <1>4, <1>5, FirstIsOne
<1>7. p \in Those(f, SignedProperties) /\ p \in Present(f) /\ f.parent[p] = q /\ Covered(f, s, p)
    <2> HIDE DEF p
    <2> QED
        BY <1>6 DEF CoveredIn, Children, Those
<1>8. Owner(f, p) = Owner(f, q)
    <2> HIDE DEF p
    <2>1. f.up[p] = {p} \union f.up[q]
        BY <1>7 DEF Tree
    <2>2. p \notin DsSignature
        BY <1>7, PropertiesApart DEF Those
    <2>3. DsSignature \intersect f.up[p] = DsSignature \intersect f.up[q]
        BY <2>1, <2>2
    <2> QED
        BY <2>3 DEF Owner
<1> QED
    BY <1>1, <1>4, <1>7, <1>8

\* A valid signature is attributed to the certificate that its signer's own
\* properties name, and its value was made with the key of that.
LEMMA SignerHolds ==
    ASSUME IInv, OwnPropertiesOnly
    PROVE  SignerIsTheOneNamed
<1>1. FileInv /\ Tree(file)
    BY DEF IInv, FileInv, AFile
<1>2. ASSUME NEW s \in Reported, Valid(s)
      PROVE  LET signer == reports[s].signer IN
             /\ signer # Nobody /\ Key[signer] = file.sig[s].key
             /\ \E p \in SignedPropertiesOf(was[s], s) : AsSigned(s, p) /\ Names[p] = signer
    <2>1. Report(file, at, s).verdict = "valid" /\ s \in DsSignature
          /\ reports[s].signer = Report(file, at, s).signer
        BY <1>2, ReportedMeans DEF Valid, Signatures, Those
    <2> DEFINE keyed == Selected(file, s)
               p == Properties(file, s).signed
               named == Named(Properties(file, s))
               signer == reports[s].signer
    <2>2. keyed.verified /\ named # Nobody /\ named = keyed.signer /\ signer = named
        BY <2>1, ValidIsSigned
    <2>3. Key[signer] = file.sig[s].key
        BY <1>1, <2>1, <2>2, VerifiedMeans DEF FileInv, SigInv
    <2>4. p # Nowhere /\ Names[p] = signer
        BY <2>2 DEF Named
    <2>5. p \in Those(file, SignedProperties) /\ p \in Present(file) /\ Covered(file, s, p) /\ Owner(file, p) = s
        BY <1>1, <2>1, <2>4, PropertiesMean
    <2> HIDE DEF p, keyed, named, signer
    <2>6. p \in SignedProperties /\ p \notin DsObject /\ p \in Below(file, p)
        BY <1>1, <2>5, PropertiesApart, UpStays DEF Those, Below
    <2>7. AsSigned(s, p)
        BY <1>1, <2>1, <2>5, <2>6, CoveredIsAsSigned
    <2>8. Owner(was[s], p) = s
        <3>1. PICK i \in DOMAIN file.sig[s].refs :
                CoversIn(file, EffectiveNodeSet(file, s, file.sig[s].refs[i]), p)
            BY <2>5 DEF Covered
        <3> DEFINE r == file.sig[s].refs[i]
                   t == r.target
                   g == was[s]
                   env == "enveloped" \in EntriesOf(r.transforms)
        <3>2. /\ Tree(g) /\ Digested(file, s, r) # Unreadable /\ Digested(file, s, r) = Digested(g, s, r)
              /\ file.sig[s].sealed = <<file.sig[s].refs, file.sig[s].digests>>
            BY <1>1, <2>1, ValidDigests
        <3>3. Readable(file, s, r)
            BY <3>2, DigestedMeans
        <3> DEFINE scope == EffectiveNodeSet(file, s, r)
                   kinds == EntriesOf(r.transforms)
        <3>4. /\ scope.apex = t /\ scope.octets = ("base64" \in kinds)
              /\ "enveloped" \in kinds => s \in scope.excluded
            BY <3>3 DEF Readable, EffectiveNodeSet, Scope
        <3>5. t \in file.up[p] /\ (scope.octets => p = t) /\ scope.excluded \intersect file.up[p] = {}
            <4> HIDE DEF r
            <4> QED
                BY <3>1, <3>4 DEF CoversIn, r
        <3>6. s \in file.up[p]
            BY <1>1, <2>1, <2>5, OwnerMeans, NameAssumption, Outside
        <3>7. "enveloped" \notin kinds
            BY <3>4, <3>5, <3>6
        <3>8. "base64" \notin kinds
            BY <2>6, <3>3, <3>4, <3>5 DEF Readable, Decodable
        <3>9. Agree(file, g, s, t, env) /\ ~env
            BY <3>2, <3>7, <3>8, DigestsAgree
        <3>10. p \in Those(g, SignedProperties) /\ t \in g.up[p]
            <4>1. p \in Within(file, s, t, env)
                BY <2>5, <3>5, <3>9 DEF Within
            <4> HIDE DEF g, t, env
            <4>2. p \in Within(g, s, t, env)
                BY <3>9, <4>1, AgreeMeans
            <4> QED
                BY <2>6, <4>2 DEF Within, Those
        <3>11. Owner(g, p) = s \/ Owner(g, p) \in Below(g, t)
            <4>1. file.sig[s].sealed # <<>> /\ file.sig[s].sealed[1] = file.sig[s].refs
                BY <3>2
            <4> QED
                BY <2>1, <3>10, <4>1 DEF OwnPropertiesOnly
        <3>12. Tree(file) /\ Tree(g) /\ s \in DsSignature /\ p \in Present(file) /\ t \in file.up[p]
               /\ Owner(file, p) = s
            BY <1>1, <2>1, <2>5, <3>2, <3>5
        <3> HIDE DEF g, t, env
        <3>13. Owner(g, p) = s
            BY <3>9, <3>11, <3>12, OwnerStays
        <3> QED
            BY <3>13 DEF g
    <2>9. p \in SignedPropertiesOf(was[s], s)
        BY <2>6, <2>7, <2>8 DEF SignedPropertiesOf, AsSigned, Those
    <2>10. signer # Nobody
        BY <2>2
    <2> QED
        BY <2>3, <2>4, <2>7, <2>9, <2>10 DEF signer
<1> QED
    BY <1>2 DEF SignerIsTheOneNamed

\* Where signers cover no signed properties of others without their signature:
\* a valid signature is attributed to the certificate that properties written by
\* its signer name, its value was made with the key of that, and the instant it is
\* judged at comes from a timestamp only when an authority with a path made that
\* one over the value as it reads (xades/mod.rs, signature/mod.rs, tsa/mod.rs).
THEOREM SignerAndTimeAreTheTrueOnes == Spec => [](OwnPropertiesOnly => SignerAndTimeAreProven)
<1>1. IInv => (OwnPropertiesOnly => SignerAndTimeAreProven)
    BY SignerHolds, TimeHolds DEF SignerAndTimeAreProven
<1> QED
    BY <1>1, Inductive, PTL

\* And the instant needs nothing of the signers.
THEOREM InstantIsProven == Spec => []TimeIsProven
<1>1. IInv => TimeIsProven
    BY TimeHolds
<1> QED
    BY <1>1, Inductive, PTL

-----------------------------------------------------------------------------
(* What no reference reaches.                                              *)

\* Those names an open element may have, and no other.
OpenNames == DsObject \union CounterSignature

LEMMA OpenNamesApart ==
    /\ OpenNames \subseteq Node
    /\ \A name \in {EsDossier, EsDossierProfile, EsDocuments, EsDocument, EsDocumentProfile,
                    EsSignatureProfile, DsSignature, DsSignatureValue, QualifyingProperties,
                    SignedProperties, UnsignedProperties} :
          name \subseteq Node /\ name \intersect OpenNames = {}
    /\ DsObject \subseteq Node /\ CounterSignature \subseteq Node
    /\ DsObject \intersect CounterSignature = {}
<1> DEFINE names == <<EsDossier, EsDossierProfile, EsDocuments, EsDocument, EsDocumentProfile,
                      EsSignatureProfile, DsObject, DsSignature, DsSignatureValue,
                      QualifyingProperties, SignedProperties, UnsignedProperties, CounterSignature>>
<1>1. \A i, j \in DOMAIN names : names[i] \subseteq Node /\ (i # j => names[i] \intersect names[j] = {})
    BY NameAssumption
<1>2. DOMAIN names = 1 .. 13
    OBVIOUS
<1>3. /\ names[1] = EsDossier /\ names[2] = EsDossierProfile /\ names[3] = EsDocuments
      /\ names[4] = EsDocument /\ names[5] = EsDocumentProfile /\ names[6] = EsSignatureProfile
      /\ names[7] = DsObject /\ names[8] = DsSignature /\ names[9] = DsSignatureValue
      /\ names[10] = QualifyingProperties /\ names[11] = SignedProperties
      /\ names[12] = UnsignedProperties /\ names[13] = CounterSignature
    OBVIOUS
<1> HIDE DEF names
<1>4. \A i \in 1 .. 13 : names[i] \subseteq Node
    BY <1>1, <1>2
<1>5. names[7] \intersect names[13] = {}
    BY <1>1, <1>2
<1>6. \A i \in 1 .. 13 : i # 7 /\ i # 13 => names[i] \intersect (names[7] \union names[13]) = {}
    BY <1>1, <1>2
<1>7. OpenNames = names[7] \union names[13]
    BY <1>3 DEF OpenNames
<1> QED
    BY <1>3, <1>4, <1>5, <1>6, <1>7

\* g is f without o, which the signature s holds and none of its references reaches.
Lesser(f, g, s, o) ==
    /\ AFile(f) /\ Tree(g)
    /\ g.text = f.text /\ g.sig = f.sig /\ g.stamps = f.stamps
    /\ s \in DsSignature \intersect Present(g)
    /\ o \in Present(f) \intersect OpenNames /\ s \in f.up[o] /\ o # s
    /\ o \in DsObject => f.parent[o] = s
    /\ Present(g) = Present(f) \ Below(f, o)
    /\ \A n \in Present(g) : g.parent[n] = f.parent[n]
    /\ \A n \in Present(g) \union {Root} :
          g.up[n] = f.up[n] /\ f.up[n] \subseteq Present(g) \union {Root}
    /\ \A n \in Below(f, o) : ~Reached(f, s, n)
    /\ ProfileIn(f, s, o) = Nowhere

LEMMA OpenIsLesser ==
    ASSUME NEW f, AFile(f), NEW s \in Signatures(f), NEW o \in Open(f, s)
    PROVE  Lesser(f, Without(f, o), s, o)
<1> DEFINE g == Without(f, o)
           kept == Present(f) \ Below(f, o)
<1>1. Tree(f) /\ f = [parent |-> f.parent, up |-> f.up, text |-> f.text, sig |-> f.sig, stamps |-> f.stamps]
    BY DEF AFile
<1>2. s \in DsSignature /\ s \in Present(f)
    BY DEF Signatures, Those
<1>3. /\ o \in OwnObjects(f, s) \union {c \in Those(f, CounterSignature) : Owner(f, c) = s}
      /\ ProfileIn(f, s, o) = Nowhere /\ \A n \in Below(f, o) : ~Reached(f, s, n)
    BY DEF Open
<1>4. o \in Present(f) \intersect OpenNames
    BY <1>3 DEF OwnObjects, Children, Those, OpenNames
<1>5. s \notin OpenNames
    BY <1>2, OpenNamesApart
<1>6. o \in DsObject => f.parent[o] = s
    BY <1>3, OpenNamesApart DEF OwnObjects, Children, Those
<1>7. s \in f.up[o]
    <2>1. CASE o \in OwnObjects(f, s)
        <3>1. f.parent[o] = s
            BY <2>1 DEF OwnObjects, Children
        <3>2. f.up[o] = {o} \union f.up[s]
            BY <1>1, <1>4, <3>1 DEF Tree
        <3> QED
            BY <1>1, <1>2, <3>2, UpStays
    <2>2. CASE Owner(f, o) = s
        <3>1. s # Nowhere
            BY <1>1, <1>2, Outside DEF Tree
        <3> QED
            BY <1>1, <1>4, <2>2, <3>1, OwnerMeans
    <2> QED
        BY <1>3, <2>1, <2>2
<1>8. Tree(g)
    BY <1>1, <1>4, WithoutIsATree
<1>9. /\ g.parent = [n \in kept |-> f.parent[n]] /\ g.up = [n \in kept \union {Root} |-> f.up[n]]
      /\ g.text = f.text /\ g.sig = f.sig /\ g.stamps = f.stamps
    <2> DEFINE a == [n \in kept |-> f.parent[n]]
               b == [n \in kept \union {Root} |-> f.up[n]]
    <2>1. g = [f EXCEPT !.parent = a, !.up = b]
        BY DEF Without
    <2> HIDE DEF a, b, g
    <2>2. g = [parent |-> a, up |-> b, text |-> f.text, sig |-> f.sig, stamps |-> f.stamps]
        BY <1>1, <2>1
    <2>3. /\ g.parent = a /\ g.up = b
          /\ g.text = f.text /\ g.sig = f.sig /\ g.stamps = f.stamps
        BY <2>2
    <2> QED
        BY <2>3 DEF a, b
<1>10. Present(g) = kept
    BY <1>9 DEF Present
<1>11. s \in kept
    <2>1. o \notin f.up[s]
        BY <1>1, <1>2, <1>4, <1>5, <1>7, UpIsAntisymmetric
    <2> QED
        BY <1>2, <2>1 DEF Below
<1>12. ASSUME NEW n \in kept \union {Root} PROVE f.up[n] \subseteq kept \union {Root}
    <2>1. n \in Present(f) \union {Root}
        OBVIOUS
    <2>2. o \notin f.up[n]
        BY <1>1, <1>4, Outside DEF Below, Tree
    <2>3. ASSUME NEW m \in f.up[n], m # Root PROVE m \in kept
        <3>1. m \in Present(f)
            BY <1>1, <2>1, <2>3, UpStays
        <3>2. f.up[m] \subseteq f.up[n]
            BY <1>1, <2>1, UpIsTransitive
        <3> QED
            BY <2>2, <3>1, <3>2 DEF Below
    <2> QED
        BY <2>3
<1>13. \A n \in kept : g.parent[n] = f.parent[n]
    BY <1>9
<1>14. \A n \in kept \union {Root} : g.up[n] = f.up[n]
    BY <1>9
<1> HIDE DEF g, kept
<1>15. Present(g) = Present(f) \ Below(f, o)
    BY <1>10 DEF kept
<1>16. Lesser(f, g, s, o)
    BY <1>2, <1>3, <1>4, <1>5, <1>6, <1>7, <1>8, <1>9, <1>10, <1>11, <1>12, <1>13, <1>14, <1>15
       DEF Lesser
<1> QED
    BY <1>16 DEF g

\* Which of some elements that stay is the nearest does not change.
LEMMA NearestStays ==
    ASSUME NEW f, NEW g, NEW s, NEW o, Lesser(f, g, s, o), NEW ns \in SUBSET (Present(g) \union {Root})
    PROVE  Nearest(g, ns) = Nearest(f, ns)
<1>1. \A n \in ns : g.up[n] = f.up[n]
    BY DEF Lesser
<1>2. \A n \in ns : ns \subseteq g.up[n] <=> ns \subseteq f.up[n]
    BY <1>1
<1> DEFINE there == CHOOSE n \in ns : ns \subseteq g.up[n]
           here  == CHOOSE n \in ns : ns \subseteq f.up[n]
<1>3. there = here
    BY <1>2
<1>4. /\ Nearest(g, ns) = IF ns = {} THEN Nowhere ELSE there
      /\ Nearest(f, ns) = IF ns = {} THEN Nowhere ELSE here
    BY DEF Nearest
<1> HIDE DEF there, here
<1> QED
    BY <1>3, <1>4

LEMMA OwnerUntouched ==
    ASSUME NEW f, NEW g, NEW s, NEW o, Lesser(f, g, s, o), NEW n \in Present(g)
    PROVE  Owner(g, n) = Owner(f, n) /\ Enclosing(g, n) = Enclosing(f, n)
<1>1. g.up[n] = f.up[n] /\ f.up[n] \subseteq Present(g) \union {Root}
    BY DEF Lesser
<1> DEFINE ns == DsSignature \intersect f.up[n]
<1>2. ns \in SUBSET (Present(g) \union {Root}) /\ ns \ {n} \in SUBSET (Present(g) \union {Root})
    BY <1>1
<1>3. Nearest(g, ns) = Nearest(f, ns) /\ Nearest(g, ns \ {n}) = Nearest(f, ns \ {n})
    BY <1>2, NearestStays
<1> QED
    BY <1>1, <1>3 DEF Owner, Enclosing

\* What stands in an element that stays stands in it still, but for what is taken out.
LEMMA ChildrenStay ==
    ASSUME NEW f, NEW g, NEW s, NEW o, Lesser(f, g, s, o), NEW p, p \notin Below(f, o),
           NEW name
    PROVE  /\ Children(g, p, name) = Children(f, p, name) \ {o}
           /\ o \notin Children(f, p, name) =>
                 Children(g, p, name) = Children(f, p, name) /\ Child(g, p, name) = Child(f, p, name)
<1>1. Tree(f) /\ o \in Present(f) /\ Present(g) = Present(f) \ Below(f, o)
    BY DEF Lesser, AFile
<1>2. o \in Below(f, o)
    BY <1>1, UpStays DEF Below
<1>3. ASSUME NEW m \in Present(f), f.parent[m] = p, m # o PROVE m \in Present(g)
    <2>1. f.up[m] = {m} \union f.up[p] /\ p \in Present(f) \union {Root}
        BY <1>1, <1>3 DEF Tree
    <2>2. o \notin f.up[p]
        <3>1. CASE p = Root
            BY <1>1, <3>1, Outside DEF Tree
        <3>2. CASE p \in Present(f)
            BY <3>2 DEF Below
        <3> QED
            BY <2>1, <3>1, <3>2
    <2> QED
        BY <1>1, <1>3, <2>1, <2>2 DEF Below
<1>4. \A m \in Present(g) : g.parent[m] = f.parent[m] /\ m # o
    BY <1>1, <1>2 DEF Lesser
<1>5. Children(g, p, name) = Children(f, p, name) \ {o}
    BY <1>1, <1>3, <1>4 DEF Children, Those
<1> QED
    BY <1>5 DEF Child

\* References lead where they led, and cover what they covered.
LEMMA ResolvedStays ==
    ASSUME NEW f, NEW g, NEW s, NEW o, Lesser(f, g, s, o), NEW r \in EntriesOf(f.sig[s].refs)
    PROVE  /\ Resolved(g, r) = Resolved(f, r)
           /\ Resolved(g, r) \in Present(g) \union {Root, Nowhere}
<1>1. Tree(f) /\ Present(g) = Present(f) \ Below(f, o)
    BY DEF Lesser, AFile
<1>2. Resolved(f, r) \notin Below(f, o)
    BY DEF Lesser, Reached
<1>3. r.target \in Present(f) \union {Root} => r.target \in Present(g) \union {Root}
    BY <1>1, <1>2 DEF Resolved
<1> QED
    BY <1>1, <1>3 DEF Resolved

LEMMA CoverageStays ==
    ASSUME NEW f, NEW g, NEW s, NEW o, Lesser(f, g, s, o)
    PROVE  /\ \A n \in Present(g) : Covered(g, s, n) <=> Covered(f, s, n)
           /\ \A n \in Below(f, o) : ~Covered(f, s, n)
<1> DEFINE refs == f.sig[s].refs
<1>1. g.sig[s].refs = refs
    BY DEF Lesser
<1>2. ASSUME NEW i \in DOMAIN refs
      PROVE  EffectiveNodeSet(g, s, refs[i]) = EffectiveNodeSet(f, s, refs[i])
    <2>1. refs[i] \in EntriesOf(refs)
        BY DEF EntriesOf
    <2>2. Resolved(g, refs[i]) = Resolved(f, refs[i])
        BY <2>1, ResolvedStays
    <2> QED
        BY <2>2 DEF EffectiveNodeSet
<1>3. ASSUME NEW n \in Present(g) PROVE Covered(g, s, n) <=> Covered(f, s, n)
    <2>1. g.up[n] = f.up[n]
        BY DEF Lesser
    <2> QED
        BY <1>1, <1>2, <2>1 DEF Covered, CoversIn
<1>4. ASSUME NEW n \in Below(f, o), Covered(f, s, n) PROVE FALSE
    <2>1. PICK i \in DOMAIN refs : CoversIn(f, EffectiveNodeSet(f, s, refs[i]), n)
        BY <1>4 DEF Covered
    <2>2. refs[i] \in EntriesOf(refs) /\ ~Reached(f, s, n)
        BY DEF EntriesOf, Lesser
    <2>3. Tree(f) /\ n \in Present(f) /\ f.up[n] \subseteq Present(f) \union {Root}
        BY UpStays DEF Below, Lesser, AFile
    <2>4. Nowhere \notin f.up[n]
        BY <2>3, Outside DEF Tree
    <2>5. EffectiveNodeSet(f, s, refs[i]) # NoScope
        BY <2>1, <2>4 DEF CoversIn, NoScope, Scope
    <2>6. EffectiveNodeSet(f, s, refs[i]) =
              Scope(Resolved(f, refs[i]),
                    IF "enveloped" \in EntriesOf(refs[i].transforms) THEN {s} ELSE {},
                    "base64" \in EntriesOf(refs[i].transforms))
        BY <2>5 DEF EffectiveNodeSet
    <2>7. /\ Resolved(f, refs[i]) \in f.up[n]
          /\ "enveloped" \in EntriesOf(refs[i].transforms) => s \notin f.up[n]
        BY <2>1, <2>6 DEF CoversIn, Scope
    <2> QED
        BY <2>2, <2>7 DEF Reached
<1> QED
    BY <1>3, <1>4

\* Of every other name an element that stays has the children it had.
LEMMA NamedStay ==
    ASSUME NEW f, NEW g, NEW s, NEW o, Lesser(f, g, s, o), NEW p, p \notin Below(f, o),
           NEW name \in {EsDossier, EsDossierProfile, EsDocuments, EsDocument, EsDocumentProfile,
                         EsSignatureProfile, DsSignature, DsSignatureValue, QualifyingProperties,
                         SignedProperties, UnsignedProperties}
    PROVE  /\ Children(g, p, name) = Children(f, p, name)
           /\ Child(g, p, name) = Child(f, p, name)
           /\ Child(g, p, name) \in (Present(g) \intersect name) \union {Nowhere}
           /\ Child(g, p, name) \notin Below(f, o)
<1>1. o \notin name /\ name \subseteq Node
    BY OpenNamesApart DEF Lesser
<1>2. o \notin Children(f, p, name)
    BY <1>1 DEF Children, Those
<1>3. Children(g, p, name) = Children(f, p, name) /\ Child(g, p, name) = Child(f, p, name)
    BY <1>2, ChildrenStay
<1>4. Children(g, p, name) \subseteq Present(g) \intersect name
    BY DEF Children, Those
<1>5. Child(g, p, name) \in (Present(g) \intersect name) \union {Nowhere}
    BY <1>1, <1>4, FirstIsOne DEF Child
<1>6. Nowhere \notin Below(f, o) /\ Present(g) \intersect Below(f, o) = {}
    BY Outside DEF Below, Lesser, AFile, Tree
<1> QED
    BY <1>3, <1>5, <1>6

\* Elements that stay, and the document, are not below what is taken out.
LEMMA StaysOut ==
    ASSUME NEW f, NEW g, NEW s, NEW o, Lesser(f, g, s, o)
    PROVE  /\ \A n \in Present(g) \union {Root, Nowhere} : n \notin Below(f, o)
           /\ \A n \in Present(g) : g.parent[n] = f.parent[n] /\ f.parent[n] \in Present(g) \union {Root}
           /\ Root \notin Node /\ Nowhere \notin Node /\ Present(f) \subseteq Node /\ Present(g) \subseteq Node
           /\ Enclosing(f, s) \in Present(g) \union {Root, Nowhere}
<1>1. Tree(f) /\ Tree(g) /\ s \in Present(g) /\ Present(g) = Present(f) \ Below(f, o)
    BY DEF Lesser, AFile
<1>2. Root \notin Present(f) /\ Nowhere \notin Present(f) /\ Present(f) \subseteq Node /\ Present(g) \subseteq Node
    BY <1>1, Outside DEF Tree
<1>3. \A n \in Present(g) \union {Root, Nowhere} : n \notin Below(f, o)
    BY <1>1, <1>2 DEF Below
<1>4. \A n \in Present(g) : g.parent[n] = f.parent[n] /\ f.parent[n] \in Present(g) \union {Root}
    BY <1>1 DEF Lesser, Tree
<1>5. Enclosing(f, s) \in Present(g) \union {Root, Nowhere}
    <2>1. f.up[s] \subseteq Present(g) \union {Root}
        BY <1>1 DEF Lesser
    <2>2. Enclosing(f, s) \in f.up[s] \union {Nowhere}
        BY <1>1, NearestIsOne DEF Enclosing
    <2> QED
        BY <2>1, <2>2
<1> QED
    BY <1>2, <1>3, <1>4, <1>5, Outside

LEMMA PlaceStays ==
    ASSUME NEW f, NEW g, NEW s, NEW o, Lesser(f, g, s, o)
    PROVE  Place(g, s) = Place(f, s)
<1> DEFINE frame == f.parent[s]
           properties == f.parent[frame]
<1>1. s \in Present(g) /\ g.parent[s] = frame /\ frame \in Present(g) \union {Root}
    BY StaysOut DEF Lesser
<1>2. Enclosing(g, s) = Enclosing(f, s)
    BY <1>1, OwnerUntouched
<1>3. Countersigned(g, s) <=> Countersigned(f, s)
    <2>1. CASE frame \notin CounterSignature
        BY <1>1, <2>1 DEF Countersigned
    <2>2. CASE frame \in CounterSignature
        <3>1. frame \in Present(g) /\ frame \notin Below(f, o)
            BY <1>1, <2>2, OpenNamesApart, StaysOut
        <3>2. g.parent[frame] = properties /\ properties \in Present(g) \union {Root}
            BY <3>1, StaysOut
        <3>3. Children(g, frame, DsSignature) = Children(f, frame, DsSignature)
            BY <3>1, NamedStay
        <3>4. properties \in Present(g) <=> properties \in Present(f)
            BY <3>2, StaysOut DEF Lesser
        <3>5. properties \in Present(g) => Owner(g, properties) = Owner(f, properties)
            BY OwnerUntouched
        <3> HIDE DEF frame, properties
        <3>6. /\ Countersigned(g, s) <=>
                    /\ frame \in CounterSignature
                    /\ Cardinality(Children(g, frame, DsSignature)) = 1
                    /\ properties \in Present(g) /\ properties \in UnsignedProperties
                    /\ Owner(g, properties) = Enclosing(g, s)
            BY <1>1, <3>2 DEF Countersigned
        <3>7. /\ Countersigned(f, s) <=>
                    /\ frame \in CounterSignature
                    /\ Cardinality(Children(f, frame, DsSignature)) = 1
                    /\ properties \in Present(f) /\ properties \in UnsignedProperties
                    /\ Owner(f, properties) = Enclosing(f, s)
            BY DEF Countersigned, frame, properties
        <3> QED
            BY <1>2, <3>3, <3>4, <3>5, <3>6, <3>7
    <2> QED
        BY <2>1, <2>2
<1> HIDE DEF frame, properties
<1>4. f.parent[s] = frame
    BY DEF frame
<1> QED
    BY <1>1, <1>2, <1>3, <1>4 DEF Place

\* The profiles of the signature are elsewhere.
LEMMA ProfilesStay ==
    ASSUME NEW f, NEW g, NEW s, NEW o, Lesser(f, g, s, o)
    PROVE  /\ WithProfile(g, s) = WithProfile(f, s) /\ WithProfile(g, s) \subseteq Present(g)
           /\ OwnProfile(g, s) = OwnProfile(f, s)
           /\ WithProfile(f, s) # {} =>
                 ProfileNodes(g, s) = ProfileNodes(f, s) /\ ProfileNodes(g, s) \subseteq Present(g)
<1> DEFINE In(h, x) == {p \in Those(h, EsSignatureProfile) : x \in h.up[p] /\ Owner(h, p) = s}
<1>1. /\ s \in Present(g) /\ s \notin Below(f, o) /\ Present(g) = Present(f) \ Below(f, o)
      /\ \A n \in Present(g) : g.up[n] = f.up[n]
    BY StaysOut DEF Lesser
<1>2. EsSignatureProfile \subseteq Node
    BY OpenNamesApart
<1>3. \A p \in Below(f, o) \intersect EsSignatureProfile : Owner(f, p) # s
    <2>1. In(f, o) \in SUBSET Node
        BY <1>2 DEF Those
    <2>2. First(In(f, o)) = Nowhere
        BY DEF Lesser, ProfileIn
    <2>3. In(f, o) = {}
        BY <2>1, <2>2, FirstIsOne, Outside
    <2> QED
        BY <2>3 DEF Below, Those
<1>4. ASSUME NEW x PROVE In(g, x) = In(f, x)
    <2>1. \A p \in Present(g) : Owner(g, p) = Owner(f, p)
        BY OwnerUntouched
    <2> QED
        BY <1>1, <1>3, <2>1 DEF Those
<1>5. ASSUME NEW x
      PROVE  /\ ProfileIn(g, s, x) = ProfileIn(f, s, x)
             /\ ProfileIn(g, s, x) \in Present(g) \union {Nowhere}
    <2>1. ProfileIn(g, s, x) = First(In(g, x)) /\ ProfileIn(f, s, x) = First(In(f, x))
        BY DEF ProfileIn
    <2>2. In(g, x) \subseteq Present(g) /\ In(g, x) \in SUBSET Node
        BY <1>2 DEF Those
    <2> HIDE DEF In
    <2> QED
        BY <1>4, <2>1, <2>2, FirstIsOne
<1>6. OwnObjects(g, s) = OwnObjects(f, s) \ {o} /\ OwnObjects(g, s) \subseteq Present(g)
    <2>1. Children(g, s, DsObject) = Children(f, s, DsObject) \ {o}
        BY <1>1, ChildrenStay
    <2> QED
        BY <2>1 DEF OwnObjects, Children, Those
<1>7. ProfileIn(f, s, o) = Nowhere
    BY DEF Lesser
<1>8. WithProfile(g, s) = WithProfile(f, s) /\ WithProfile(g, s) \subseteq Present(g)
    BY <1>5, <1>6, <1>7 DEF WithProfile
<1>9. OwnProfile(g, s) = OwnProfile(f, s)
    BY <1>5, <1>8 DEF OwnProfile
<1>10. ASSUME WithProfile(f, s) # {}
       PROVE  ProfileNodes(g, s) = ProfileNodes(f, s) /\ ProfileNodes(g, s) \subseteq Present(g)
    <2>1. ProfileNodes(g, s) = WithProfile(g, s) \union {ProfileIn(g, s, x) : x \in WithProfile(g, s)}
        BY <1>8, <1>10 DEF ProfileNodes
    <2>2. ProfileNodes(f, s) = WithProfile(f, s) \union {ProfileIn(f, s, x) : x \in WithProfile(f, s)}
        BY <1>10 DEF ProfileNodes
    <2>3. \A x \in WithProfile(f, s) : ProfileIn(f, s, x) # Nowhere
        BY DEF WithProfile
    <2> QED
        BY <1>5, <1>8, <2>1, <2>2, <2>3
<1> QED
    BY <1>8, <1>9, <1>10

\* And so are the properties that speak for it.
LEMMA PropertiesStay ==
    ASSUME NEW f, NEW g, NEW s, NEW o, Lesser(f, g, s, o), Properties(f, s).signed # Nowhere
    PROVE  /\ Properties(g, s) = Properties(f, s)
           /\ Properties(f, s).qualifying \in Present(g)
           /\ Qualifying(f, s) # {} /\ Qualifying(g, s) # {}
<1> DEFINE Speaking(h) == {q \in Qualifying(h, s) : CoveredIn(h, s, q) # {}}
<1>1. Tree(f) /\ Present(g) = Present(f) \ Below(f, o) /\ o \in Present(f)
    BY DEF Lesser, AFile
<1>2. Qualifying(g, s) = Qualifying(f, s) \intersect Present(g)
    <2>1. \A q \in Present(g) : Owner(g, q) = Owner(f, q)
        BY OwnerUntouched
    <2> QED
        BY <1>1, <2>1 DEF Qualifying, Those
<1>3. ASSUME NEW q \in Present(g) PROVE CoveredIn(g, s, q) = CoveredIn(f, s, q)
    <2>1. Children(g, q, SignedProperties) = Children(f, q, SignedProperties)
        BY StaysOut, NamedStay
    <2>2. Children(g, q, SignedProperties) \subseteq Present(g)
        BY DEF Children, Those
    <2> QED
        BY <2>1, <2>2, CoverageStays DEF CoveredIn
<1>4. ASSUME NEW q \in Qualifying(f, s), CoveredIn(f, s, q) # {} PROVE q \in Present(g)
    <2>1. PICK p \in Present(f) : f.parent[p] = q /\ Covered(f, s, p)
        BY <1>4 DEF CoveredIn, Children, Those
    <2>2. p \notin Below(f, o)
        BY <2>1, CoverageStays
    <2>3. f.up[p] = {p} \union f.up[q]
        BY <1>1, <2>1 DEF Tree
    <2>4. q \in Present(f)
        BY DEF Qualifying, Those
    <2> QED
        BY <1>1, <2>2, <2>3, <2>4 DEF Below
<1>5. Speaking(g) = Speaking(f)
    BY <1>2, <1>3, <1>4
<1>6. Speaking(f) # {}
    BY DEF Properties
<1>7. First(Speaking(f)) \in Speaking(f)
    <2>1. Speaking(f) \in SUBSET Node
        BY <1>1 DEF Qualifying, Those, Tree
    <2> QED
        BY <1>6, <2>1, FirstIsOne
<1>8. First(Speaking(f)) \in Present(g)
    BY <1>4, <1>7
<1> DEFINE SpokenFor(h) == [qualifying |-> First(Speaking(h)), signed |-> First(CoveredIn(h, s, First(Speaking(h))))]
<1>9. Properties(f, s) = SpokenFor(f) /\ Properties(g, s) = SpokenFor(g)
    BY <1>5, <1>6 DEF Properties
<1>10. Qualifying(f, s) # {} /\ Qualifying(g, s) # {}
    BY <1>5, <1>6
<1>11. CoveredIn(g, s, First(Speaking(f))) = CoveredIn(f, s, First(Speaking(f)))
    BY <1>3, <1>8
<1> HIDE DEF Speaking
<1> QED
    BY <1>5, <1>8, <1>9, <1>10, <1>11

\* What a reference digests is all there still.
LEMMA DigestsStay ==
    ASSUME NEW f, NEW g, NEW s, NEW o, Lesser(f, g, s, o)
    PROVE  DigestsMatch(g, s) <=> DigestsMatch(f, s)
<1> DEFINE refs == f.sig[s].refs
<1>1. g.sig = f.sig /\ g.text = f.text
    BY DEF Lesser
<1>2. ASSUME NEW r \in EntriesOf(refs) PROVE Digested(g, s, r) = Digested(f, s, r)
    <2> DEFINE apex == Resolved(f, r)
               enveloped == "enveloped" \in EntriesOf(r.transforms)
               Kept(h) == {n \in Present(h) : apex \in h.up[n] /\ (enveloped => s \notin h.up[n])}
    <2>1. Resolved(g, r) = apex /\ apex \in Present(g) \union {Root, Nowhere}
        BY ResolvedStays
    <2>2. \A n \in Below(f, o) : ~(apex \in f.up[n] /\ (enveloped => s \notin f.up[n]))
        BY DEF Lesser, Reached
    <2>3. /\ Present(g) = Present(f) \ Below(f, o) /\ Tree(f) /\ s \in DsSignature \intersect Present(g)
          /\ \A n \in Present(g) \union {Root} : g.up[n] = f.up[n]
          /\ \A n \in Present(g) : g.parent[n] = f.parent[n]
        BY DEF Lesser, AFile
    <2>4. Kept(g) = Kept(f) /\ Kept(g) \subseteq Present(g)
        BY <2>2, <2>3
    <2>5. apex # Nowhere => (s \in g.up[apex] <=> s \in f.up[apex])
        BY <2>1, <2>3
    <2>6. Octets(g, Kept(g), apex) = Octets(f, Kept(f), apex)
        BY <1>1, <2>3, <2>4 DEF Octets
    <2>7. ASSUME apex # Nowhere, ~(enveloped /\ s \in f.up[apex])
          PROVE  Decodable(g, apex) <=> Decodable(f, apex)
        <3>1. CASE apex \notin Present(g)
            <4>1. apex \notin Present(f)
                BY <2>1, <2>7, <3>1, StaysOut
            <4> QED
                BY <3>1, <4>1 DEF Decodable
        <3>2. CASE apex \in Present(g) /\ apex \in f.up[s]
            <4>1. s \in Below(g, apex) /\ s \in Below(f, apex) /\ s \notin DsObject
                BY <2>3, <3>2, OpenNamesApart DEF Below, OpenNames
            <4> QED
                BY <4>1 DEF Decodable
        <3>3. CASE apex \in Present(g) /\ apex \notin f.up[s]
            <4>1. \A n \in Below(f, o) : apex \notin f.up[n]
                <5>1. SUFFICES ASSUME NEW n \in Below(f, o), apex \in f.up[n] PROVE FALSE
                    OBVIOUS
                <5>2. n \in Present(f) /\ o \in f.up[n] /\ s \in f.up[o]
                    BY <5>1 DEF Below, Lesser
                <5>3. s \in f.up[n]
                    BY <2>3, <5>2, UpIsTransitive
                <5>4. apex \in f.up[s] \/ s \in f.up[apex]
                    BY <2>3, <5>1, <5>2, <5>3, UpIsAChain
                <5>5. ~enveloped
                    BY <2>7, <3>3, <5>4
                <5> QED
                    BY <2>2, <5>1, <5>5
            <4>2. Below(g, apex) = Below(f, apex)
                BY <2>3, <4>1 DEF Below
            <4> QED
                BY <2>3, <3>3, <4>2 DEF Decodable
        <3> QED
            BY <3>1, <3>2, <3>3
    <2> DEFINE Blocked(h) ==
                   \/ apex = Nowhere
                   \/ ~(EntriesOf(r.transforms) \subseteq Allowed)
                   \/ \E i, j \in DOMAIN r.transforms : i < j /\ r.transforms[i] # "enveloped"
                   \/ enveloped /\ s \in h.up[apex]
                   \/ "base64" \in EntriesOf(r.transforms) /\ ~Decodable(h, apex)
    <2>8. Blocked(g) <=> Blocked(f)
        BY <2>5, <2>7
    <2>9. [n \in Kept(g) |-> g.text[n]] = [n \in Kept(f) |-> f.text[n]]
        BY <1>1, <2>4
    <2>10. Digested(f, s, r) = IF Blocked(f) THEN Unreadable
                               ELSE IF "base64" \in EntriesOf(r.transforms) THEN [n \in Kept(f) |-> f.text[n]]
                               ELSE Octets(f, Kept(f), apex)
        BY DEF Digested
    <2>11. Digested(g, s, r) = IF Blocked(g) THEN Unreadable
                               ELSE IF "base64" \in EntriesOf(r.transforms) THEN [n \in Kept(g) |-> g.text[n]]
                               ELSE Octets(g, Kept(g), apex)
        BY <2>1 DEF Digested
    <2> HIDE DEF Blocked, Kept, apex
    <2> QED
        BY <2>6, <2>8, <2>9, <2>10, <2>11
<1>3. \A i \in DOMAIN refs : Digested(g, s, refs[i]) = Digested(f, s, refs[i])
    BY <1>2 DEF EntriesOf
<1> QED
    BY <1>1, <1>3 DEF DigestsMatch

\* What has to be covered is, or is not, as before.
LEMMA ScopeStays ==
    ASSUME NEW f, NEW g, NEW s, NEW o, Lesser(f, g, s, o),
           WithProfile(f, s) # {}, Properties(f, s).signed # Nowhere,
           NEW place \in {"document", "dossier", "countersignature", "unknown"}
    PROVE  ScopeCheck(g, s, place) = ScopeCheck(f, s, place)
<1> DEFINE profiled(h) == place # "countersignature" \/ OwnProfile(h, s) # Nowhere
           there(h) == CASE place = "document" ->
                          {Option(Profile(h, h.parent[s])), Option(Payload(h, h.parent[s]))}
                         [] place = "dossier" -> {Option(DossierProfile(h)), Option(Documents(h))}
                         [] place = "countersignature" -> {Option(Value(h, Enclosing(h, s)))}
           profiles(h) == IF profiled(h) THEN {ProfileNodes(h, s)} ELSE {}
           speaks(ns) == \E n \in ns : Covered(f, s, n)
<1>1. s \in Present(g) /\ g.parent[s] = f.parent[s] /\ f.parent[s] \in Present(g) \union {Root}
    BY StaysOut DEF Lesser
<1>2. /\ Profile(g, f.parent[s]) = Profile(f, f.parent[s])
      /\ Profile(g, f.parent[s]) \in Present(g) \union {Nowhere}
    BY <1>1, StaysOut, NamedStay DEF Profile
<1>3. /\ Payload(g, f.parent[s]) = Payload(f, f.parent[s])
      /\ Payload(g, f.parent[s]) \in Present(g) \union {Nowhere}
    <2>1. o \notin Children(f, f.parent[s], DsObject)
        <3>1. SUFFICES ASSUME o \in DsObject, f.parent[o] = f.parent[s] PROVE FALSE
            BY DEF Children, Those
        <3>2. f.parent[s] = s
            BY <3>1 DEF Lesser
        <3>3. PICK rank \in Ranks(f) : Deeper(f, rank)
            BY DEF Lesser, AFile, Tree
        <3>4. s \in Present(f)
            BY <1>1 DEF Lesser
        <3>5. rank[s] < rank[s] /\ rank[s] \in Nat
            BY <3>2, <3>3, <3>4 DEF Deeper, Ranks
        <3> QED
            BY <3>5
    <2>2. Payload(g, f.parent[s]) = Payload(f, f.parent[s])
        BY <1>1, <2>1, StaysOut, ChildrenStay DEF Payload
    <2>3. Children(g, f.parent[s], DsObject) \in SUBSET Node
          /\ Children(g, f.parent[s], DsObject) \subseteq Present(g)
        BY OpenNamesApart DEF Children, Those
    <2> QED
        BY <2>2, <2>3, FirstIsOne DEF Payload, Child
<1>4. /\ DossierProfile(g) = DossierProfile(f) /\ DossierProfile(g) \in Present(g) \union {Nowhere}
      /\ Documents(g) = Documents(f) /\ Documents(g) \in Present(g) \union {Nowhere}
    <2>1. Dossier(g) = Dossier(f) /\ Dossier(f) \notin Below(f, o)
        BY StaysOut, NamedStay DEF Dossier
    <2> QED
        BY <2>1, NamedStay DEF DossierProfile, Documents
<1>5. /\ Value(g, Enclosing(g, s)) = Value(f, Enclosing(f, s))
      /\ Value(g, Enclosing(g, s)) \in Present(g) \union {Nowhere}
    <2>1. Enclosing(g, s) = Enclosing(f, s) /\ Enclosing(f, s) \notin Below(f, o)
        BY <1>1, OwnerUntouched, StaysOut
    <2> QED
        BY <2>1, NamedStay DEF Value
<1>6. Measurable(g, s, place) <=> Measurable(f, s, place)
    BY <1>1, <1>2, <1>5 DEF Measurable
<1>7. ASSUME place # "unknown"
      PROVE  there(g) = there(f) /\ \A ns \in there(g) : ns \subseteq Present(g)
    <2>1. CASE place = "document"
        BY <1>1, <1>2, <1>3, <2>1 DEF Option
    <2>2. CASE place = "dossier"
        BY <1>4, <2>2 DEF Option
    <2>3. CASE place = "countersignature"
        BY <1>5, <2>3 DEF Option
    <2> QED
        BY <1>7, <2>1, <2>2, <2>3
<1>8. profiles(g) = profiles(f) /\ \A ns \in profiles(g) : ns \subseteq Present(g)
    BY ProfilesStay
<1>9. speaks(SignedPropertiesOf(g, s)) <=> speaks(SignedPropertiesOf(f, s))
    <2>1. \A p \in Present(g) : Owner(g, p) = Owner(f, p)
        BY OwnerUntouched
    <2>2. Present(g) = Present(f) \ Below(f, o)
        BY DEF Lesser
    <2>3. SignedPropertiesOf(g, s) = SignedPropertiesOf(f, s) \ Below(f, o)
        BY <2>1, <2>2 DEF SignedPropertiesOf, Those
    <2> QED
        BY <2>3, CoverageStays
<1>10. SignedPropertiesOf(g, s) \subseteq Present(g)
    BY DEF SignedPropertiesOf, Those
<1>11. /\ Mandated(f, s, place) = there(f) \union profiles(f) \union {SignedPropertiesOf(f, s)}
       /\ Mandated(g, s, place) = there(g) \union profiles(g) \union {SignedPropertiesOf(g, s)}
    <2>1. Qualifying(f, s) # {} /\ Qualifying(g, s) # {}
        BY PropertiesStay
    <2> QED
        BY <2>1 DEF Mandated
<1> HIDE DEF there, profiles
<1>12. ASSUME place # "unknown"
       PROVE  (\A ns \in Mandated(g, s, place) : \E n \in ns : Covered(g, s, n))
                 <=> (\A ns \in Mandated(f, s, place) : speaks(ns))
    <2>1. \A ns \in SUBSET Present(g) : (\E n \in ns : Covered(g, s, n)) <=> speaks(ns)
        BY CoverageStays
    <2>2. \A ns \in Mandated(g, s, place) : ns \in SUBSET Present(g)
        BY <1>7, <1>8, <1>10, <1>11, <1>12
    <2>3. (\A ns \in Mandated(g, s, place) : \E n \in ns : Covered(g, s, n))
              <=> (\A ns \in Mandated(g, s, place) : speaks(ns))
        BY <2>1, <2>2
    <2> HIDE DEF speaks
    <2>4. (\A ns \in Mandated(g, s, place) : speaks(ns)) <=> (\A ns \in Mandated(f, s, place) : speaks(ns))
        BY <1>7, <1>8, <1>9, <1>11, <1>12
    <2> QED
        BY <2>3, <2>4
<1> QED
    BY <1>6, <1>12 DEF ScopeCheck, Measurable

\* What the signature is for its place and its references.
LEMMA StageAStays ==
    ASSUME NEW f, NEW g, NEW s, NEW o, Lesser(f, g, s, o),
           WithProfile(f, s) # {}, Properties(f, s).signed # Nowhere,
           NEW place \in {"document", "dossier", "countersignature", "unknown"}
    PROVE  /\ StageA(g, s, place) = StageA(f, s, place)
           /\ Role(g, s, place) = Role(f, s, place)
<1> DEFINE refs == f.sig[s].refs
<1>1. g.sig = f.sig /\ s \in Present(g) /\ Present(g) = Present(f) \ Below(f, o)
    BY DEF Lesser
<1>2. \A r \in EntriesOf(refs) :
          /\ Resolved(g, r) = Resolved(f, r)
          /\ EffectiveNodeSet(g, s, r) = EffectiveNodeSet(f, s, r)
    BY ResolvedStays DEF EffectiveNodeSet
<1>3. Attested(g, s) = Attested(f, s)
    <2> DEFINE To(h, v) == /\ Owner(h, v) \notin {s, Nowhere}
                           /\ \E i \in DOMAIN refs :
                                 /\ Resolved(h, refs[i]) = v
                                 /\ CoversIn(h, EffectiveNodeSet(h, s, refs[i]), v)
    <2>1. Attested(f, s) = {v \in Those(f, DsSignatureValue) : To(f, v)}
        BY DEF Attested
    <2>2. Attested(g, s) = {v \in Those(g, DsSignatureValue) : To(g, v)}
        BY <1>1 DEF Attested
    <2>3. ASSUME NEW v \in Present(g) PROVE To(g, v) <=> To(f, v)
        <3>1. Owner(g, v) = Owner(f, v)
            BY OwnerUntouched
        <3>2. g.up[v] = f.up[v]
            BY DEF Lesser
        <3>3. \A i \in DOMAIN refs : /\ Resolved(g, refs[i]) = Resolved(f, refs[i])
                                     /\ EffectiveNodeSet(g, s, refs[i]) = EffectiveNodeSet(f, s, refs[i])
            BY <1>2 DEF EntriesOf
        <3> QED
            BY <3>1, <3>2, <3>3 DEF CoversIn
    <2>4. \A v \in Below(f, o) : ~To(f, v)
        BY DEF Lesser, Reached, EntriesOf
    <2> HIDE DEF To
    <2> QED
        BY <1>1, <2>1, <2>2, <2>3, <2>4 DEF Those
<1>4. Role(g, s, place) = Role(f, s, place)
    BY ProfilesStay DEF Role, DeclaredCounter
<1>5. Value(g, Enclosing(g, s)) = Value(f, Enclosing(f, s))
    <2>1. Enclosing(g, s) = Enclosing(f, s) /\ Enclosing(f, s) \notin Below(f, o)
        BY <1>1, OwnerUntouched, StaysOut
    <2> QED
        BY <2>1, NamedStay DEF Value
<1>6. Binding(g, s, place) = Binding(f, s, place)
    BY <1>3, <1>4, <1>5 DEF Binding
<1>7. Policy(g, s) = Policy(f, s)
    BY <1>1, <1>2 DEF Policy
<1>8. ScopeCheck(g, s, place) = ScopeCheck(f, s, place)
    BY ScopeStays
<1> QED
    BY <1>4, <1>6, <1>7, <1>8 DEF StageA

\* The value, and what the keys offered say of it.
LEMMA ValueStays ==
    ASSUME NEW f, NEW g, NEW s, NEW o, Lesser(f, g, s, o)
    PROVE  /\ Value(g, s) = Value(f, s) /\ (Structured(g, s) <=> Structured(f, s))
           /\ Selected(g, s) = Selected(f, s)
           /\ \A keyed : StageB(g, s, keyed) = StageB(f, s, keyed)
           /\ \A named, keyed : /\ Bound(g, s, named, keyed) = Bound(f, s, named, keyed)
                                /\ Signer(g, s, named, keyed) = Signer(f, s, named, keyed)
<1>1. g.sig = f.sig /\ g.text = f.text
    BY DEF Lesser
<1>2. Value(g, s) = Value(f, s)
    BY StaysOut, NamedStay DEF Value, Lesser
<1>3. Structured(g, s) <=> Structured(f, s)
    BY <1>1, <1>2 DEF Structured
<1>4. ValueHolds(g, s) <=> ValueHolds(f, s)
    BY <1>1, <1>2 DEF ValueHolds
<1>5. Selected(g, s) = Selected(f, s)
    BY <1>1, <1>4 DEF Selected
<1>6. ASSUME NEW keyed PROVE StageB(g, s, keyed) = StageB(f, s, keyed)
    BY DigestsStay DEF StageB
<1>7. ASSUME NEW named, NEW keyed
      PROVE  /\ Bound(g, s, named, keyed) = Bound(f, s, named, keyed)
             /\ Signer(g, s, named, keyed) = Signer(f, s, named, keyed)
    BY <1>1 DEF Bound, Signer, Offered
<1> QED
    BY <1>2, <1>3, <1>5, <1>6, <1>7

\* The tokens beside the properties that speak for it.
LEMMA TokensStay ==
    ASSUME NEW f, NEW g, NEW s, NEW o, Lesser(f, g, s, o),
           NEW xades, xades.qualifying \in Present(g)
    PROVE  /\ StageF(g, s, xades) = StageF(f, s, xades)
           /\ ProvenTimes(g, s, xades) = ProvenTimes(f, s, xades)
<1>1. Tokens(g, xades) = Tokens(f, xades)
    <2>1. Child(g, xades.qualifying, UnsignedProperties) = Child(f, xades.qualifying, UnsignedProperties)
        BY StaysOut, NamedStay
    <2>2. g.stamps = f.stamps
        BY DEF Lesser
    <2> QED
        BY <2>1, <2>2 DEF Tokens
<1>2. ASSUME NEW t PROVE TokenChecks(g, s, xades, t) = TokenChecks(f, s, xades, t)
    <2>1. Imprinted(g, s, t) <=> Imprinted(f, s, t)
        BY ValueStays DEF Imprinted, Lesser
    <2> QED
        BY <2>1 DEF TokenChecks
<1> DEFINE tokens == Tokens(f, xades)
<1>3. \A i \in DOMAIN tokens : TokenChecks(g, s, xades, tokens[i]) = TokenChecks(f, s, xades, tokens[i])
    BY <1>2
<1>4. StageF(g, s, xades) = StageF(f, s, xades)
    BY <1>1, <1>3 DEF StageF
<1>5. ProvenTimes(g, s, xades) = ProvenTimes(f, s, xades)
    BY <1>1, <1>3 DEF ProvenTimes
<1> QED
    BY <1>4, <1>5

\* Checks that say nothing against a signature do not move its verdict.
Harmless(cs) == StatusesOf(cs) \subseteq {"passed", "info"}

\* Do two reports say the same of the verdict, the signer and the instant?
Alike(r, q) ==
    /\ r.verdict = q.verdict /\ r.signer = q.signer
    /\ r.time = q.time /\ r.source = q.source

LEMMA HarmlessAdds ==
    ASSUME NEW more, NEW others, Harmless(more), Harmless(others), NEW found,
           NEW place, NEW role, NEW signer, NEW when
    PROVE  Alike(Summed(place, role, signer, when, found \union more),
                 Summed(place, role, signer, when, found \union others))
<1> DEFINE last == SignerChecks(signer, when)
<1>1. \A cs \in {more, others} :
          /\ "failed" \in StatusesOf(found \union cs \union last)
                <=> "failed" \in StatusesOf(found \union last)
          /\ StatusesOf(found \union cs \union last) \intersect {"unknown", "skipped"} # {}
                <=> StatusesOf(found \union last) \intersect {"unknown", "skipped"} # {}
    <2> SUFFICES ASSUME NEW cs \in {more, others}
                 PROVE  \A word \in {"failed", "unknown", "skipped"} :
                           word \in StatusesOf(found \union cs \union last)
                              <=> word \in StatusesOf(found \union last)
        OBVIOUS
    <2>1. \A c \in cs : c[2] \in {"passed", "info"}
        BY DEF Harmless, StatusesOf
    <2> HIDE DEF last
    <2> QED
        BY <2>1 DEF StatusesOf
<1>2. VerdictOf(found \union more \union last) = VerdictOf(found \union others \union last)
    BY <1>1 DEF VerdictOf
<1> HIDE DEF last
<1>3. \A cs : /\ Summed(place, role, signer, when, found \union cs).verdict
                     = VerdictOf(found \union cs \union last)
              /\ Summed(place, role, signer, when, found \union cs).signer = signer
              /\ Summed(place, role, signer, when, found \union cs).time = when.time
              /\ Summed(place, role, signer, when, found \union cs).source = when.source
    BY DEF Summed, last
<1> QED
    BY <1>2, <1>3 DEF Alike

\* The same of a signature nothing was computed of.
LEMMA HarmlessUnjudged ==
    ASSUME NEW more, NEW others, Harmless(more), Harmless(others), NEW found,
           NEW a, NEW place, NEW role
    PROVE  Alike(Unjudged(a, place, role, found \union more),
                 Unjudged(a, place, role, found \union others))
<1> DEFINE told == found \union {Check("signature_timestamp", "unknown")}
           when == ValidationTime(a, {})
<1>1. /\ found \union more \union {Check("signature_timestamp", "unknown")} = told \union more
      /\ found \union others \union {Check("signature_timestamp", "unknown")} = told \union others
    OBVIOUS
<1> HIDE DEF told
<1>2. /\ Unjudged(a, place, role, found \union more) = Summed(place, role, Nobody, when, told \union more)
      /\ Unjudged(a, place, role, found \union others)
            = Summed(place, role, Nobody, when, told \union others)
    BY <1>1 DEF Unjudged
<1> HIDE DEF when
<1>3. Alike(Summed(place, role, Nobody, when, told \union more),
            Summed(place, role, Nobody, when, told \union others))
    BY HarmlessAdds, Zenon
<1> QED
    BY <1>2, <1>3

\* And of one that everything was computed of.
LEMMA HarmlessSummed ==
    ASSUME NEW more, NEW others, Harmless(more), Harmless(others), NEW early, NEW tried,
           NEW place, NEW role, NEW signer, NEW when
    PROVE  Alike(Summed(place, role, signer, when, early \union more \union tried),
                 Summed(place, role, signer, when, early \union others \union tried))
<1> DEFINE found == early \union tried
<1>1. /\ early \union more \union tried = found \union more
      /\ early \union others \union tried = found \union others
    OBVIOUS
<1> HIDE DEF found
<1>2. Alike(Summed(place, role, signer, when, found \union more),
            Summed(place, role, signer, when, found \union others))
    BY HarmlessAdds, Zenon
<1> QED
    BY <1>1, <1>2

\* Without what no reference reaches, the same is said.
LEMMA OpenSaysNothing ==
    ASSUME NEW f, NEW g, NEW s, NEW o, Lesser(f, g, s, o), NEW a,
           WithProfile(f, s) # {}, Properties(f, s).signed # Nowhere
    PROVE  Alike(Report(g, a, s), Report(f, a, s))
<1> DEFINE place == Place(f, s)
           xades == Properties(f, s)
           early == StageA(f, s, place)
           keyed == Selected(f, s)
           tried == StageB(f, s, keyed) \union {Bound(f, s, Named(xades), keyed)}
                        \union StageF(f, s, xades)
<1>1. /\ Place(g, s) = place /\ Properties(g, s) = xades /\ xades.qualifying \in Present(g)
      /\ Structured(g, s) <=> Structured(f, s)
    BY PlaceStays, PropertiesStay, ValueStays
<1>2. StageA(g, s, place) = early /\ Role(g, s, place) = Role(f, s, place)
    BY PlacesThereAre, StageAStays
<1>3. /\ Selected(g, s) = keyed
      /\ StageB(g, s, keyed) \union {Bound(g, s, Named(xades), keyed)} \union StageF(g, s, xades) = tried
      /\ Signer(g, s, Named(xades), keyed) = Signer(f, s, Named(xades), keyed)
      /\ ProvenTimes(g, s, xades) = ProvenTimes(f, s, xades)
    BY <1>1, ValueStays, TokensStay
<1>4. Harmless(Presence(f, s, xades)) /\ Harmless(Presence(g, s, xades))
    <2>1. xades.qualifying # Nowhere
        BY <1>1, StaysOut
    <2>2. ASSUME NEW h PROVE \A c \in Presence(h, s, xades) : c[2] \in {"passed", "info"}
        BY <2>1 DEF Presence, Check
    <2> QED
        BY <2>2 DEF Harmless, StatusesOf
<1> HIDE DEF place, xades, early, keyed, tried
<1>5. Report(f, a, s) = VerifySignature(f, a, s, place, xades)
      /\ Report(g, a, s) = VerifySignature(g, a, s, place, xades)
    BY <1>1 DEF Report, place, xades
<1>6. ASSUME NEW role, NEW found
      PROVE  Alike(Unjudged(a, place, role, found \union Presence(g, s, xades)),
                   Unjudged(a, place, role, found \union Presence(f, s, xades)))
    BY <1>4, HarmlessUnjudged, Zenon
<1>7. CASE ~Structured(f, s)
    <2> DEFINE found == {Check("structure", "failed")}
    <2>1. /\ Report(f, a, s) = Unjudged(a, place, "signature", found \union Presence(f, s, xades))
          /\ Report(g, a, s) = Unjudged(a, place, "signature", found \union Presence(g, s, xades))
        BY <1>1, <1>5, <1>7 DEF VerifySignature
    <2> HIDE DEF found
    <2> QED
        BY <1>6, <2>1
<1>8. CASE Structured(f, s) /\ "failed" \in StatusesOf(early)
    <2>1. /\ Report(f, a, s) = AfterStageA(f, a, s, place, xades, early)
          /\ Report(g, a, s) = AfterStageA(g, a, s, place, xades, early)
        BY <1>1, <1>2, <1>5, <1>8 DEF VerifySignature, early
    <2> QED
        BY <1>2, <1>6, <1>8, <2>1 DEF AfterStageA
<1>9. CASE Structured(f, s) /\ "failed" \notin StatusesOf(early)
    <2>1. /\ Report(f, a, s) = AfterStageA(f, a, s, place, xades, early)
          /\ Report(g, a, s) = AfterStageA(g, a, s, place, xades, early)
        BY <1>1, <1>2, <1>5, <1>9 DEF VerifySignature, early
    <2>2. /\ Report(f, a, s) = Judged(f, a, s, place, xades, keyed, early \union Presence(f, s, xades))
          /\ Report(g, a, s) = Judged(g, a, s, place, xades, keyed, early \union Presence(g, s, xades))
        BY <1>3, <1>9, <2>1 DEF AfterStageA, keyed
    <2> DEFINE role == Role(f, s, place)
               signer == Signer(f, s, Named(xades), keyed)
               when == ValidationTime(a, ProvenTimes(f, s, xades))
    <2>3. ASSUME NEW p
          PROVE  /\ p \union StageB(f, s, keyed) \union {Bound(f, s, Named(xades), keyed)}
                        \union StageF(f, s, xades) = p \union tried
                 /\ p \union StageB(g, s, keyed) \union {Bound(g, s, Named(xades), keyed)}
                        \union StageF(g, s, xades) = p \union tried
        BY <1>3 DEF tried
    <2>4. Report(f, a, s) = Summed(place, role, signer, when, early \union Presence(f, s, xades) \union tried)
        BY <2>2, <2>3 DEF Judged
    <2>5. Report(g, a, s) = Summed(place, role, signer, when, early \union Presence(g, s, xades) \union tried)
        BY <1>2, <1>3, <2>2, <2>3 DEF Judged
    <2> HIDE DEF role, signer, when
    <2>6. Alike(Summed(place, role, signer, when, early \union Presence(g, s, xades) \union tried),
                Summed(place, role, signer, when, early \union Presence(f, s, xades) \union tried))
        BY <1>4, HarmlessSummed, Zenon
    <2> QED
        BY <2>4, <2>5, <2>6
<1> QED
    BY <1>7, <1>8, <1>9

\* What stands in a signature, and no reference of it reaches, decides neither
\* its verdict nor its signer nor its instant: whoever adds or removes it, the
\* same is reported (scope.rs 181-194, xades/mod.rs 150-175).
THEOREM OpenContentIsNothing == Spec => []OpenContentDecidesNothing
<1>1. IInv => OpenContentDecidesNothing
    <2> SUFFICES ASSUME IInv, NEW s \in Reported, WithProfile(file, s) # {},
                        Properties(file, s).signed # Nowhere, NEW o \in Open(file, s)
                 PROVE  <<Report(Without(file, o), at, s).verdict, Report(Without(file, o), at, s).signer,
                          Report(Without(file, o), at, s).time, Report(Without(file, o), at, s).source>> =
                        <<reports[s].verdict, reports[s].signer, reports[s].time, reports[s].source>>
        BY DEF OpenContentDecidesNothing
    <2>1. AFile(file) /\ s \in Signatures(file)
        BY ReportedMeans DEF IInv, FileInv
    <2>2. Lesser(file, Without(file, o), s, o)
        BY <2>1, OpenIsLesser
    <2>3. Alike(Report(Without(file, o), at, s), Report(file, at, s))
        BY <2>2, OpenSaysNothing
    <2> QED
        BY <2>3, ReportedMeans DEF Alike
<1> QED
    BY <1>1, Inductive, PTL

=============================================================================
