------------------------- MODULE Extraction_proofs -------------------------
(***************************************************************************)
(* For any number of runs and other programs over one tree, every dossier, *)
(* limit and fault: no run makes anything on the other side of a link,     *)
(* nobody's file is changed by anybody else, a run that fails leaves       *)
(* nothing it did not try to remove, no run meets its own file, and one    *)
(* that ends well has written or reported every document asked for.        *)
(***************************************************************************)
EXTENDS Extraction, SequenceTheorems, FiniteSetTheorems, WellFoundedInduction, TLAPS

Before   == {"select", "stream", "plan"}
Walking  == {"open", "stat", "make", "reopen"}
Writing  == {"opened", "create", "write", "enter", "unmake", "undo"}
Labels   == Before \cup {"look"} \cup Walking \cup Writing \cup Ended

Creations == [kind : {"file", "dir"}, dir : Nat \ {0}, name : OutputNames, path : Seq(Nat)]

FoldedNames == {NameKey(n) : n \in OutputNames}
Frames == [dossier : DOMAIN Content, path : Seq(Nat), dir : Nat \ {0}, next : Nat \ {0},
           taken : SUBSET FoldedNames]

\* The subdirectories among the first n creations of a plan.
DirsAmong(plan, n) == Cardinality({i \in 1 .. n : plan[i].kind = "dir"})

-----------------------------------------------------------------------------
(* The invariant.                                                          *)

\* What is in the tree.
DiskInv ==
    /\ used \subseteq Dirs /\ Cwd \in used /\ Elsewhere \in used
    /\ meddled \in Nat
    /\ DOMAIN entry = Places
    /\ \A p \in Places :
        /\ p[1] \notin used => entry[p] = Absent
        /\ entry[p].kind \in {"absent", "link", "file", "dir"}
        /\ entry[p].kind = "absent" => entry[p] = Absent
        /\ entry[p].kind = "dir" => entry[p].dir \in used \ {Cwd, Elsewhere}

\* The plan of a run: a creation goes into the output directory or into a
\* subdirectory planned before it, and no two in one directory fold together.
GoodPlan(plan) ==
    /\ plan \in Seq(Creations)
    /\ \A i \in DOMAIN plan : plan[i].dir <= 1 + DirsAmong(plan, i - 1)
    /\ \A i, j \in DOMAIN plan :
        i # j /\ plan[i].dir = plan[j].dir => NameKey(plan[i].name) # NameKey(plan[j].name)

PlanInv(r) == GoodPlan(planned[r])

\* The plan_dossier calls in progress: each fills a directory of its own, and
\* knows the names taken in it.
GoodStack(frames, plan) ==
    /\ frames \in Seq(Frames)
    /\ frames # <<>>
    /\ \A k \in DOMAIN frames :
        /\ frames[k].dir <= 1 + DirsAmong(plan, Len(plan))
        /\ \A j \in DOMAIN frames : j # k => frames[j].dir # frames[k].dir
        /\ \A i \in DOMAIN plan :
            plan[i].dir = frames[k].dir => NameKey(plan[i].name) \in frames[k].taken

FrameInv(r) == at[r] = "plan" => GoodStack(stack[r], planned[r])

\* How far a run has come, and what it holds.
ControlInv(r) ==
    /\ at[r] \in Labels
    /\ step[r] \in 1 .. Len(Path)
    /\ dirs[r] \in Seq(used \ {Elsewhere})
    /\ at[r] \in Before => planned[r] = <<>> \/ at[r] = "plan"
    /\ at[r] \in Before \cup {"look"} => dirs[r] = <<>>
    /\ at[r] \in Walking => Len(dirs[r]) = 1
    /\ at[r] \in Before \cup {"look"} \cup Walking => written[r] = 0 /\ created[r] = <<>>
    /\ at[r] \notin {"undo"} \cup Ended => stuck[r] = {}
    /\ at[r] \in Writing =>
        /\ written[r] \in 0 .. Len(planned[r])
        /\ Len(dirs[r]) = 1 + DirsAmong(planned[r], written[r])
        /\ at[r] \in {"write", "enter", "unmake"} => written[r] < Len(planned[r])
        /\ at[r] = "write" => planned[r][written[r] + 1].kind = "file"
        /\ at[r] \in {"enter", "unmake"} => planned[r][written[r] + 1].kind = "dir"
        /\ at[r] \in {"opened", "create", "enter", "unmake"} => Len(created[r]) = written[r]
        /\ at[r] = "write" => Len(created[r]) = written[r] + 1
        /\ at[r] = "opened" => written[r] = 0
    /\ Len(created[r]) <= Len(planned[r])
    /\ created[r] \in Seq(Creations)
    /\ \A i \in DOMAIN created[r] : created[r][i] = planned[r][i] /\ created[r][i].dir <= Len(dirs[r])
    /\ stuck[r] \subseteq {planned[r][i] : i \in DOMAIN planned[r]}
    /\ \A c \in stuck[r] : c.dir \in DOMAIN dirs[r]
    /\ \A i, j \in DOMAIN dirs[r] : i # j => dirs[r][i] # dirs[r][j]
    /\ at[r] = "failed" => created[r] = <<>>

\* What a run has created is still there, or a link where a directory was.
Holds(e, kind, r) ==
    IF kind = "file" THEN e.kind = "file" /\ e.by = r
    ELSE e = Link \/ (e.kind = "dir" /\ e.by = r)

Own(r, c) == Holds(entry[Place(r, c)], c.kind, r)

OwnInv(r) ==
    /\ \A i \in DOMAIN created[r] : Own(r, created[r][i])
    /\ at[r] \in {"enter", "unmake"} => Own(r, Current(r))
    /\ at[r] = "enter" /\ entry[Place(r, Current(r))].kind = "dir" =>
        \A i \in DOMAIN dirs[r] : dirs[r][i] # entry[Place(r, Current(r))].dir

\* The places a run answers for.
Mine(r, p) ==
    \/ \E i \in DOMAIN created[r] : p = Place(r, created[r][i])
    \/ \E c \in stuck[r] : p = Place(r, c)
    \/ at[r] \in {"enter", "unmake"} /\ p = Place(r, Current(r))
    \/ at[r] = "reopen" /\ p = Component(r)
    \/ at[r] = "crashed"

\* Whatever else a run made is above the directories it holds, on its path.
AboveInv(rank, r) ==
    \A p \in Places : MadeBy(entry[p], r) =>
        \/ Mine(r, p)
        \/ \A i \in DOMAIN dirs[r] : rank[p[1]] < rank[dirs[r][i]]

\* Nothing is made before the walk, and nothing ever beyond a link.
InsideInv(r) ==
    \A p \in Places : MadeBy(entry[p], r) =>
        /\ p[1] # Elsewhere
        /\ at[r] \notin Before \cup {"look"}

\* Directories are in no cycle: each is deeper than the one it is in.
Deeper(rank) ==
    /\ rank \in [Dirs -> Nat]
    /\ \A p \in Places : entry[p].kind = "dir" => rank[p[1]] < rank[entry[p].dir]

DepthInv == \E rank \in [Dirs -> Nat] : Deeper(rank) /\ \A r \in Runs : AboveInv(rank, r)

Shape ==
    /\ request \in Scenarios
    /\ DOMAIN at = Runs /\ DOMAIN step = Runs /\ DOMAIN dirs = Runs /\ DOMAIN failure = Runs
    /\ DOMAIN chosen = Runs /\ DOMAIN stack = Runs /\ DOMAIN total = Runs /\ DOMAIN notes = Runs
    /\ DOMAIN planned = Runs /\ DOMAIN looked = Runs /\ DOMAIN written = Runs
    /\ DOMAIN created = Runs /\ DOMAIN stuck = Runs

RunInv(r) == PlanInv(r) /\ FrameInv(r) /\ ControlInv(r) /\ OwnInv(r) /\ InsideInv(r)

IInv == Shape /\ DiskInv /\ (\A r \in Runs : RunInv(r)) /\ DepthInv

-----------------------------------------------------------------------------
(* Counting and choosing.                                                  *)

LEMMA Counting ==
    ASSUME NEW plan, NEW n \in Nat
    PROVE  /\ DirsAmong(plan, n) \in Nat
           /\ DirsAmong(plan, 0) = 0
           /\ DirsAmong(plan, n + 1) =
                DirsAmong(plan, n) + (IF plan[n + 1].kind = "dir" THEN 1 ELSE 0)
<1> DEFINE D(k) == {i \in 1 .. k : plan[i].kind = "dir"}
<1>1. ASSUME NEW k \in Nat
      PROVE  IsFiniteSet(D(k)) /\ Cardinality(D(k)) \in Nat /\ DirsAmong(plan, k) = Cardinality(D(k))
    <2>1. IsFiniteSet(1 .. k) /\ D(k) \in SUBSET (1 .. k)
        BY FS_Interval
    <2>2. IsFiniteSet(D(k))
        BY <2>1, FS_Subset
    <2> QED
        BY <2>2, FS_CardinalityType DEF DirsAmong
<1>2. D(0) = {}
    OBVIOUS
<1>3. n + 1 \notin D(n) /\ D(n + 1) = IF plan[n + 1].kind = "dir" THEN D(n) \cup {n + 1} ELSE D(n)
    OBVIOUS
<1> HIDE DEF D
<1>4. DirsAmong(plan, 0) = 0
    BY <1>1, <1>2, FS_EmptySet
<1>5. CASE plan[n + 1].kind = "dir"
    <2>1. Cardinality(D(n + 1)) = Cardinality(D(n)) + 1
        BY <1>1, <1>3, <1>5, FS_AddElement
    <2> QED
        BY <1>1, <1>4, <1>5, <2>1
<1>6. CASE plan[n + 1].kind # "dir"
    BY <1>1, <1>3, <1>4, <1>6
<1> QED
    BY <1>5, <1>6

LEMMA CountingGrows ==
    ASSUME NEW plan, NEW m \in Nat, NEW n \in Nat, m <= n
    PROVE  DirsAmong(plan, m) <= DirsAmong(plan, n)
<1> DEFINE D(k) == {i \in 1 .. k : plan[i].kind = "dir"}
<1>1. IsFiniteSet(1 .. n) /\ D(n) \in SUBSET (1 .. n) /\ D(m) \in SUBSET D(n)
    BY FS_Interval
<1>2. IsFiniteSet(D(n))
    BY <1>1, FS_Subset
<1>3. Cardinality(D(m)) <= Cardinality(D(n))
    BY <1>1, <1>2, FS_Subset
<1> QED
    BY <1>3 DEF DirsAmong

\* The first creations of a longer plan are counted as before.
LEMMA CountingPrefix ==
    ASSUME NEW plan, NEW longer, NEW n \in Nat, \A i \in 1 .. n : longer[i] = plan[i]
    PROVE  DirsAmong(longer, n) = DirsAmong(plan, n)
<1>1. {i \in 1 .. n : longer[i].kind = "dir"} = {i \in 1 .. n : plan[i].kind = "dir"}
    OBVIOUS
<1> QED
    BY <1>1 DEF DirsAmong

LEMMA Shortened ==
    ASSUME NEW S, NEW s \in Seq(S), NEW n \in 0 .. Len(s)
    PROVE  /\ SubSeq(s, 1, n) \in Seq(S) /\ Len(SubSeq(s, 1, n)) = n
           /\ DOMAIN SubSeq(s, 1, n) = 1 .. n
           /\ \A i \in 1 .. n : SubSeq(s, 1, n)[i] = s[i]
OBVIOUS

Less == {p \in Nat \X Nat : p[1] < p[2]}

LEMMA Least ==
    ASSUME NEW S \in SUBSET Nat, S # {}
    PROVE  \E k \in S : \A j \in S : k <= j
<1>1. OpToRel(<, Nat) = Less
    BY DEF OpToRel, Less
<1>2. IsWellFoundedOn(Less, Nat)
    BY NatLessThanWellFounded, <1>1
<1>3. PICK k \in S : \A j \in S : ~(<<j, k>> \in Less)
    BY <1>2, WFMin, Zenon
<1>4. ASSUME NEW j \in S PROVE k <= j
    <2>1. <<j, k>> \notin Less /\ j \in Nat /\ k \in Nat
        BY <1>3
    <2>2. <<j, k>> \in Nat \X Nat /\ <<j, k>>[1] = j /\ <<j, k>>[2] = k
        BY <2>1
    <2>3. ~(j < k)
        BY <2>1, <2>2 DEF Less
    <2> QED
        BY <2>1, <2>3
<1> QED
    BY <1>4

\* What Plan::claim gives is free, and one of the names it may give.
LEMMA ClaimIsFree ==
    ASSUME NEW taken, NEW name, NEW index, Claim(taken, name, index) # NoName
    PROVE  /\ NameKey(Claim(taken, name, index)) \notin taken
           /\ Claim(taken, name, index) \in Renamings(name, index)
           /\ Claim(taken, name, index) = name \/ ~TooLong(Claim(taken, name, index))
<1> DEFINE candidate(i) == Renamed(name, index, i)
           stops == {i \in 1 .. MaxAttempts :
                        TooLong(candidate(i)) \/ NameKey(candidate(i)) \notin taken}
           first == CHOOSE i \in stops : \A j \in stops : i <= j
<1>1. CASE NameKey(name) \notin taken
    BY <1>1 DEF Claim, Renamings
<1>2. CASE NameKey(name) \in taken /\ stops = {}
    BY <1>2 DEF Claim
<1>3. CASE NameKey(name) \in taken /\ stops # {}
    <2>1. stops \subseteq Nat
        OBVIOUS
    <2>2. first \in stops
        BY <1>3, <2>1, Least, Zenon
    <2> HIDE DEF first
    <2>3. CASE TooLong(candidate(first))
        BY <1>3, <2>3 DEF Claim, first
    <2>4. CASE ~TooLong(candidate(first))
        <3>1. Claim(taken, name, index) = candidate(first)
            BY <1>3, <2>4 DEF Claim, first
        <3> QED
            BY <2>2, <2>4, <3>1 DEF Renamings
    <2> QED
        BY <2>3, <2>4
<1> QED
    BY <1>1, <1>2, <1>3

-----------------------------------------------------------------------------
(* The tree.                                                               *)

\* What one step of a run, or of another program, may do at a place of it.
Changes(by, p) ==
    /\ p[1] \in used
    /\ \/ /\ entry[p] = Absent
          /\ \E d \in Dirs \ used : Put(p, Dir(by, d)) /\ used' = used \cup {d}
       \/ /\ entry[p] = Absent \/ (entry[p].kind = "file" /\ entry[p].by = by)
          /\ \E of, part : Put(p, File(by, of, part))
          /\ used' = used
       \/ /\ MadeBy(entry[p], by)
          /\ Put(p, Absent) /\ used' = used
       \/ /\ by = Other
          /\ entry[p] = Absent \/ entry[p].kind = "dir"
          /\ Put(p, Link) /\ used' = used

TreeStep(by) == UNCHANGED <<entry, used>> \/ \E p \in Places : Changes(by, p)

LEMMA Kinds ==
    /\ Absent.kind = "absent" /\ Link.kind = "link" /\ Absent # Link
    /\ \A by, of, part : File(by, of, part).kind = "file" /\ File(by, of, part).by = by
    /\ \A by, d : Dir(by, d).kind = "dir" /\ Dir(by, d).by = by /\ Dir(by, d).dir = d
BY DEF Absent, Link, File, Dir

LEMMA DiskKept ==
    ASSUME DiskInv, NEW by, TreeStep(by), meddled' \in Nat
    PROVE  DiskInv' /\ used \subseteq used'
<1>1. CASE UNCHANGED <<entry, used>>
    BY <1>1 DEF DiskInv
<1>2. ASSUME NEW p \in Places, Changes(by, p) PROVE DiskInv' /\ used \subseteq used'
    <2>1. used \subseteq used' /\ used' \subseteq Dirs
        BY <1>2 DEF Changes, DiskInv
    <2>2. PICK e : /\ entry' = [entry EXCEPT ![p] = e]
                   /\ e.kind \in {"absent", "link", "file", "dir"}
                   /\ e.kind = "absent" => e = Absent
                   /\ e.kind = "dir" => e.dir \in used' \ {Cwd, Elsewhere}
        <3>1. CASE \E d \in Dirs \ used : Put(p, Dir(by, d)) /\ used' = used \cup {d}
            <4>1. PICK d \in Dirs \ used : Put(p, Dir(by, d)) /\ used' = used \cup {d}
                BY <3>1
            <4>2. d \in used' \ {Cwd, Elsewhere}
                BY <4>1 DEF DiskInv
            <4> DEFINE e == Dir(by, d)
            <4>3. entry' = [entry EXCEPT ![p] = e] /\ e.kind = "dir" /\ e.dir = d
                BY <4>1, Kinds DEF Put
            <4> HIDE DEF e
            <4> QED
                BY <4>2, <4>3
        <3>2. CASE \E of, part : Put(p, File(by, of, part))
            <4>1. PICK of, part : Put(p, File(by, of, part))
                BY <3>2
            <4> DEFINE e == File(by, of, part)
            <4>2. entry' = [entry EXCEPT ![p] = e] /\ e.kind = "file"
                BY <4>1, Kinds DEF Put
            <4> HIDE DEF e
            <4> QED
                BY <4>2
        <3>3. CASE Put(p, Absent)
            BY <3>3, Kinds DEF Put
        <3>4. CASE Put(p, Link)
            BY <3>4, Kinds DEF Put
        <3> QED
            BY <1>2, <3>1, <3>2, <3>3, <3>4 DEF Changes
    <2>3. \A q \in Places : entry'[q] = IF q = p THEN e ELSE entry[q]
        BY <2>2 DEF DiskInv
    <2>4. DOMAIN entry' = Places
        BY <2>2 DEF DiskInv
    <2>5. p[1] \in used
        BY <1>2 DEF Changes
    <2> QED
        BY <2>1, <2>2, <2>3, <2>4, <2>5 DEF DiskInv
<1> QED
    BY <1>1, <1>2 DEF TreeStep

\* Another run's entries stay, but for a directory that becomes a link.
LEMMA OthersKept ==
    ASSUME DiskInv, NEW by, TreeStep(by), NEW q, q # by, NEW p \in Places
    PROVE  /\ MadeBy(entry'[p], q) => entry'[p] = entry[p]
           /\ MadeBy(entry[p], q) =>
                entry'[p] = entry[p] \/ (entry[p].kind = "dir" /\ entry'[p] = Link)
           /\ entry[p] = Link => entry'[p] = Link
<1>1. CASE UNCHANGED <<entry, used>>
    BY <1>1
<1>2. ASSUME NEW s \in Places, Changes(by, s)
      PROVE  /\ MadeBy(entry'[p], q) => entry'[p] = entry[p]
             /\ MadeBy(entry[p], q) =>
                  entry'[p] = entry[p] \/ (entry[p].kind = "dir" /\ entry'[p] = Link)
             /\ entry[p] = Link => entry'[p] = Link
    <2>1. CASE s # p
        BY <1>2, <2>1 DEF Changes, Put, DiskInv
    <2>2. CASE s = p
        <3>1. \A e : Put(p, e) => entry'[p] = e
            BY DEF Put, DiskInv
        <3> QED
            BY <1>2, <2>2, <3>1, Kinds DEF Changes, MadeBy
    <2> QED
        BY <2>1, <2>2
<1> QED
    BY <1>1, <1>2 DEF TreeStep

\* A new directory is deeper than the one it is made in, and nothing is in it.
LEMMA DeeperStep ==
    ASSUME DiskInv, NEW by, TreeStep(by), NEW rank, Deeper(rank)
    PROVE  \E deep \in [Dirs -> Nat] : Deeper(deep)' /\ \A d \in used : deep[d] = rank[d]
<1>0. rank \in [Dirs -> Nat] /\ Places = Dirs \X Keys
    BY DEF Deeper, Places
<1>1. CASE UNCHANGED <<entry, used>>
    BY <1>0, <1>1 DEF Deeper
<1>2. ASSUME NEW p \in Places, Changes(by, p), NEW e, Put(p, e), e.kind # "dir"
      PROVE  Deeper(rank)'
    BY <1>2, <1>0 DEF Put, Deeper, DiskInv
<1>3. ASSUME NEW p \in Places, p[1] \in used, NEW d \in Dirs \ used, Put(p, Dir(by, d))
      PROVE  Deeper([rank EXCEPT ![d] = rank[p[1]] + 1])'
    <2> DEFINE deep == [rank EXCEPT ![d] = rank[p[1]] + 1]
    <2>1. deep \in [Dirs -> Nat] /\ \A x \in Dirs : x # d => deep[x] = rank[x]
        BY <1>0, DiskInv DEF DiskInv
    <2>2. deep[d] = rank[p[1]] + 1 /\ deep[p[1]] = rank[p[1]]
        BY <1>0, <1>3
    <2> HIDE DEF deep
    <2>3. ASSUME NEW q \in Places, entry'[q].kind = "dir"
          PROVE  deep[q[1]] < deep[entry'[q].dir]
        <3>0. q[1] \in Dirs /\ p[1] \in Dirs
            BY <1>0
        <3>1. CASE q = p
            <4>1. entry'[q].dir = d
                BY <1>3, <3>1, Kinds DEF Put, DiskInv
            <4> QED
                BY <4>1, <2>2, <3>1, <3>0, <1>0
        <3>2. CASE q # p
            <4>1. entry'[q] = entry[q]
                BY <1>3, <3>2 DEF Put, DiskInv
            <4>2. q[1] \in used /\ entry[q].dir \in used
                BY <2>3, <4>1, Kinds DEF DiskInv
            <4>3. q[1] # d /\ entry[q].dir # d /\ entry[q].dir \in Dirs
                BY <4>2 DEF DiskInv
            <4> QED
                BY <4>1, <4>3, <2>1, <2>3, <3>0 DEF Deeper
        <3> QED
            BY <3>1, <3>2
    <2> QED
        BY <2>1, <2>3 DEF Deeper, deep
<1>4. ASSUME NEW p \in Places, Changes(by, p)
      PROVE  \E deep \in [Dirs -> Nat] : Deeper(deep)' /\ \A d \in used : deep[d] = rank[d]
    <2>1. CASE \E d \in Dirs \ used : Put(p, Dir(by, d)) /\ used' = used \cup {d}
        <3>1. PICK d \in Dirs \ used : Put(p, Dir(by, d))
            BY <2>1
        <3>2. p[1] \in used
            BY <1>4 DEF Changes
        <3>3. Deeper([rank EXCEPT ![d] = rank[p[1]] + 1])'
            BY <1>3, <3>1, <3>2
        <3>4. [rank EXCEPT ![d] = rank[p[1]] + 1] \in [Dirs -> Nat]
            BY <3>3 DEF Deeper
        <3>5. \A x \in used : [rank EXCEPT ![d] = rank[p[1]] + 1][x] = rank[x]
            BY <1>0 DEF DiskInv
        <3> QED
            BY <3>3, <3>4, <3>5
    <2>2. CASE \E e : Put(p, e) /\ e.kind # "dir"
        BY <1>0, <1>2, <1>4, <2>2
    <2> QED
        BY <1>4, <2>1, <2>2, Kinds DEF Changes
<1> QED
    BY <1>1, <1>4 DEF TreeStep

-----------------------------------------------------------------------------
(* A run a step is not of.                                                 *)

Still(q) ==
    /\ at'[q] = at[q] /\ step'[q] = step[q] /\ dirs'[q] = dirs[q]
    /\ planned'[q] = planned[q] /\ stack'[q] = stack[q] /\ written'[q] = written[q]
    /\ created'[q] = created[q] /\ stuck'[q] = stuck[q]
    /\ chosen'[q] = chosen[q] /\ notes'[q] = notes[q]

\* Where what a run recorded is: in a directory it holds.
LEMMA PlacesHeld ==
    ASSUME DiskInv, NEW q \in Runs, PlanInv(q), ControlInv(q)
    PROVE  /\ \A i \in DOMAIN dirs[q] : dirs[q][i] \in used \ {Elsewhere}
           /\ \A i \in DOMAIN planned[q] :
                planned[q][i].dir \in DOMAIN dirs[q] => Place(q, planned[q][i]) \in Places
           /\ \A i \in DOMAIN created[q] :
                i \in DOMAIN planned[q] /\ created[q][i].dir \in DOMAIN dirs[q]
           /\ \A i \in DOMAIN created[q] : Place(q, created[q][i]) \in Places
<1>1. /\ dirs[q] \in Seq(used \ {Elsewhere}) /\ used \subseteq Dirs
      /\ planned[q] \in Seq(Creations) /\ created[q] \in Seq(Creations)
    BY DEF ControlInv, PlanInv, GoodPlan, DiskInv
<1>2. \A i \in DOMAIN dirs[q] : dirs[q][i] \in used \ {Elsewhere}
    BY <1>1
<1>3. ASSUME NEW c \in Creations, c.dir \in DOMAIN dirs[q]
      PROVE  Place(q, c) \in Places
    <2>1. FileKey(c.name) \in Keys
        BY NamesAssumption DEF Creations
    <2>2. dirs[q][c.dir] \in Dirs
        BY <1>1, <1>2, <1>3
    <2> QED
        BY <2>1, <2>2 DEF Place, Places
<1>4. ASSUME NEW i \in DOMAIN created[q]
      PROVE  i \in DOMAIN planned[q] /\ created[q][i].dir \in DOMAIN dirs[q]
    <2>1. i \in 1 .. Len(created[q]) /\ Len(created[q]) <= Len(planned[q]) /\ created[q][i] \in Creations
        BY <1>1, <1>4 DEF ControlInv
    <2>2. created[q][i].dir <= Len(dirs[q]) /\ created[q][i].dir \in Nat \ {0}
        BY <1>4, <2>1 DEF ControlInv, Creations
    <2> QED
        BY <1>1, <2>1, <2>2
<1> QED
    BY <1>1, <1>2, <1>3, <1>4

\* What the run is about to create, or has created and not recorded.
LEMMA CurrentPlanned ==
    ASSUME NEW q \in Runs, PlanInv(q), ControlInv(q),
           at[q] \in {"opened", "create", "write", "enter", "unmake"}, written[q] < Len(planned[q])
    PROVE  /\ written[q] + 1 \in DOMAIN planned[q]
           /\ Current(q) = planned[q][written[q] + 1] /\ Current(q) \in Creations
           /\ Current(q).dir \in DOMAIN dirs[q]
<1>1. planned[q] \in Seq(Creations) /\ written[q] \in Nat /\ at[q] \in Writing
    BY DEF PlanInv, GoodPlan, ControlInv, Writing
<1>2. written[q] + 1 \in DOMAIN planned[q]
    BY <1>1
<1>3. /\ Current(q) = planned[q][written[q] + 1] /\ Current(q) \in Creations
    BY <1>1, <1>2 DEF Current
<1>4. Current(q).dir <= 1 + DirsAmong(planned[q], written[q])
    <2>1. planned[q][written[q] + 1].dir <= 1 + DirsAmong(planned[q], (written[q] + 1) - 1)
        BY <1>2 DEF PlanInv, GoodPlan
    <2>2. (written[q] + 1) - 1 = written[q]
        BY <1>1
    <2> QED
        BY <1>3, <2>1, <2>2
<1>5. Len(dirs[q]) = 1 + DirsAmong(planned[q], written[q]) /\ dirs[q] \in Seq(used \ {Elsewhere})
    BY <1>1 DEF ControlInv
<1>6. Current(q).dir \in Nat \ {0}
    BY <1>3 DEF Creations
<1> QED
    BY <1>2, <1>3, <1>4, <1>5, <1>6

LEMMA OthersStep ==
    ASSUME DiskInv, NEW q \in Runs, RunInv(q), Still(q), NEW by, by # q, TreeStep(by)
    PROVE  RunInv(q)'
<1>1. used \subseteq used'
    BY DEF TreeStep, Changes
<1>2. PlanInv(q)' /\ FrameInv(q)'
    BY DEF RunInv, PlanInv, FrameInv, Still
<1>3. ControlInv(q)'
    <2>1. dirs[q] \in Seq(used' \ {Elsewhere})
        BY <1>1, SeqMonotonic DEF RunInv, ControlInv
    <2> QED
        BY <2>1 DEF RunInv, ControlInv, Still
<1>4. \A p \in Places : /\ MadeBy(entry'[p], q) => entry'[p] = entry[p]
                        /\ MadeBy(entry[p], q) =>
                             entry'[p] = entry[p] \/ (entry[p].kind = "dir" /\ entry'[p] = Link)
                        /\ entry[p] = Link => entry'[p] = Link
    BY OthersKept
<1>5. OwnInv(q)'
    <2>1. ASSUME NEW c, Place(q, c) \in Places, Own(q, c)
          PROVE  Own(q, c)'
        <3>1. Place(q, c)' = Place(q, c)
            BY DEF Place, Still
        <3> QED
            BY <1>4, <2>1, <3>1 DEF Own, Holds, MadeBy
    <2>2. \A i \in DOMAIN created[q] : Place(q, created[q][i]) \in Places
        BY PlacesHeld DEF RunInv
    <2>3. Current(q)' = Current(q)
        BY DEF Current, Still
    <2>4. at[q] \in {"enter", "unmake"} => Place(q, Current(q)) \in Places
        <3>1. at[q] \in {"enter", "unmake"} => written[q] < Len(planned[q])
            BY DEF RunInv, ControlInv, Writing
        <3> QED
            BY <3>1, CurrentPlanned, PlacesHeld DEF RunInv
    <2>5. ASSUME at[q] = "enter", entry'[Place(q, Current(q))].kind = "dir"
          PROVE  entry'[Place(q, Current(q))] = entry[Place(q, Current(q))]
        BY <1>4, <2>4, <2>5, Kinds DEF RunInv, OwnInv, Own, Holds, MadeBy
    <2>6. Place(q, Current(q))' = Place(q, Current(q))
        BY <2>3 DEF Place, Still
    <2> QED
        BY <2>1, <2>2, <2>3, <2>4, <2>5, <2>6 DEF RunInv, OwnInv, Still
<1>6. InsideInv(q)'
    BY <1>4 DEF RunInv, InsideInv, Still
<1> QED
    BY <1>2, <1>3, <1>5, <1>6 DEF RunInv

LEMMA OthersAbove ==
    ASSUME DiskInv, NEW q \in Runs, RunInv(q), Still(q), NEW by, by # q, TreeStep(by),
           NEW rank, AboveInv(rank, q), NEW deep, \A d \in used : deep[d] = rank[d]
    PROVE  AboveInv(deep, q)'
<1>1. \A c : Place(q, c)' = Place(q, c)
    BY DEF Place, Still
<1>2. Current(q)' = Current(q) /\ Component(q)' = Component(q)
    BY DEF Current, Component, Here, Still
<1>3. \A p : Mine(q, p)' <=> Mine(q, p)
    BY <1>1, <1>2 DEF Mine, Still
<1>4. ASSUME NEW p \in Places, MadeBy(entry'[p], q)
      PROVE  Mine(q, p)' \/ \A i \in DOMAIN dirs[q] : deep[p[1]] < deep[dirs[q][i]]
    <2>1. MadeBy(entry[p], q)
        BY <1>4, OthersKept
    <2>2. p[1] \in used
        BY <2>1, Kinds DEF DiskInv, MadeBy
    <2>3. \A i \in DOMAIN dirs[q] : dirs[q][i] \in used
        BY PlacesHeld DEF RunInv
    <2> QED
        BY <1>3, <2>1, <2>2, <2>3 DEF AboveInv
<1> QED
    BY <1>4 DEF AboveInv, Still

-----------------------------------------------------------------------------
(* Planning.                                                               *)

LEMMA TopFrame ==
    ASSUME NEW r \in Runs, FrameInv(r), Planning(r)
    PROVE  /\ Len(stack[r]) \in DOMAIN stack[r] /\ Len(stack[r]) \in Nat \ {0}
           /\ Top(r) = stack[r][Len(stack[r])] /\ Top(r) \in Frames
           /\ Top(r).next \in DOMAIN Content[Top(r).dossier]
           /\ PathOf(r) \in Seq(Nat)
<1>1. stack[r] \in Seq(Frames) /\ stack[r] # <<>>
    BY DEF FrameInv, GoodStack, Planning
<1>2. Len(stack[r]) \in DOMAIN stack[r] /\ Len(stack[r]) \in Nat \ {0}
    BY <1>1
<1>3. Top(r) = stack[r][Len(stack[r])] /\ Top(r) \in Frames
    BY <1>1, <1>2 DEF Top
<1>4. Content[Top(r).dossier] \in Seq({Content[Top(r).dossier][i] : i \in DOMAIN Content[Top(r).dossier]})
    BY <1>3, ContentAssumption DEF Frames
<1>5. Top(r).next \in Nat \ {0} /\ Top(r).next <= Len(Content[Top(r).dossier]) /\ Top(r).path \in Seq(Nat)
    BY <1>3 DEF Planning, Frames
<1>6. Top(r).next \in DOMAIN Content[Top(r).dossier]
    BY <1>4, <1>5
<1>7. PathOf(r) \in Seq(Nat)
    BY <1>5 DEF PathOf
<1> QED
    BY <1>2, <1>3, <1>6, <1>7

LEMMA FileNamed ==
    ASSUME NEW r \in Runs, FrameInv(r), Planning(r), FileName(r) # NoName
    PROVE  /\ FileName(r) \in FileNames(Top(r).dossier, Top(r).next)
           /\ FileName(r) \in OutputNames
           /\ NameKey(FileName(r)) \notin Top(r).taken
<1> DEFINE title == Doc(r).title
<1>1. title # Unsafe /\ ~TooLong(title) /\ FileName(r) = Claim(Top(r).taken, title, Top(r).next)
    BY DEF FileName
<1>2. /\ NameKey(FileName(r)) \notin Top(r).taken
      /\ FileName(r) \in Renamings(title, Top(r).next)
      /\ FileName(r) = title \/ ~TooLong(FileName(r))
    BY <1>1, ClaimIsFree
<1>3. FileName(r) \in FileNames(Top(r).dossier, Top(r).next)
    BY <1>1, <1>2 DEF FileNames, Doc
<1>4. Top(r).dossier \in DOMAIN Content /\ Top(r).next \in DOMAIN Content[Top(r).dossier]
    BY TopFrame DEF Frames
<1> QED
    BY <1>2, <1>3, <1>4 DEF OutputNames

LEMMA DirNamed ==
    ASSUME NEW r \in Runs, FrameInv(r), Planning(r), FileName(r) # NoName, Expands(r), DirName(r) # NoName
    PROVE  /\ DirName(r) \in OutputNames
           /\ NameKey(DirName(r)) \notin TakenWithFile(r)
           /\ Doc(r).inside \in DOMAIN Content
<1> DEFINE name == Subdirectory(FileName(r))
<1>1. ~TooLong(name) /\ DirName(r) = Claim(TakenWithFile(r), name, Top(r).next)
    BY DEF DirName
<1>2. /\ NameKey(DirName(r)) \notin TakenWithFile(r)
      /\ DirName(r) \in Renamings(name, Top(r).next)
    BY <1>1, ClaimIsFree
<1>3. Top(r).dossier \in DOMAIN Content /\ Top(r).next \in DOMAIN Content[Top(r).dossier]
    BY TopFrame DEF Frames
<1>4. Doc(r).inside \in DOMAIN Content
    BY <1>3, ContentAssumption DEF Expands, LooksNested, Doc
<1>5. FileName(r) \in {n \in FileNames(Top(r).dossier, Top(r).next) : ~TooLong(Subdirectory(n))}
    BY <1>1, FileNamed
<1>6. DirName(r) \in DirNames(Top(r).dossier, Top(r).next)
    BY <1>2, <1>4, <1>5 DEF DirNames, Doc
<1> QED
    BY <1>2, <1>3, <1>4, <1>6 DEF OutputNames

LEMMA FrameMoves ==
    ASSUME NEW frame \in Frames, NEW taken \in SUBSET FoldedNames
    PROVE  /\ [frame EXCEPT !.next = @ + 1, !.taken = taken] \in Frames
           /\ [frame EXCEPT !.next = @ + 1, !.taken = taken].dir = frame.dir
           /\ [frame EXCEPT !.next = @ + 1, !.taken = taken].taken = taken
           /\ [frame EXCEPT !.next = @ + 1, !.taken = taken].path = frame.path
           /\ [frame EXCEPT !.next = @ + 1, !.taken = taken].dossier = frame.dossier
           /\ [frame EXCEPT !.next = @ + 1, !.taken = taken].next = frame.next + 1
<1>1. frame.next + 1 \in Nat \ {0}
    BY DEF Frames
<1>2. [frame EXCEPT !.next = frame.next + 1] \in Frames
    BY <1>1 DEF Frames
<1>3. [[frame EXCEPT !.next = frame.next + 1] EXCEPT !.taken = taken] \in Frames
    BY <1>2 DEF Frames
<1>4. [frame EXCEPT !.next = @ + 1, !.taken = taken]
        = [[frame EXCEPT !.next = frame.next + 1] EXCEPT !.taken = taken]
    OBVIOUS
<1>5. /\ [frame EXCEPT !.next = @ + 1, !.taken = taken].dir = frame.dir
      /\ [frame EXCEPT !.next = @ + 1, !.taken = taken].taken = taken
      /\ [frame EXCEPT !.next = @ + 1, !.taken = taken].path = frame.path
      /\ [frame EXCEPT !.next = @ + 1, !.taken = taken].dossier = frame.dossier
      /\ [frame EXCEPT !.next = @ + 1, !.taken = taken].next = frame.next + 1
    BY DEF Frames
<1> QED
    BY <1>3, <1>4, <1>5

LEMMA Proceeding ==
    ASSUME NEW r \in Runs, FrameInv(r), Planning(r), NEW taken \in SUBSET FoldedNames
    PROVE  /\ Proceed(r, taken) \in Seq(Frames) /\ Len(Proceed(r, taken)) = Len(stack[r])
           /\ DOMAIN Proceed(r, taken) = DOMAIN stack[r]
           /\ \A k \in DOMAIN stack[r] :
                /\ k # Len(stack[r]) => Proceed(r, taken)[k] = stack[r][k]
                /\ Proceed(r, taken)[k].dir = stack[r][k].dir
                /\ Proceed(r, taken)[k].path = stack[r][k].path
                /\ Proceed(r, taken)[k].dossier = stack[r][k].dossier
           /\ Proceed(r, taken)[Len(stack[r])].taken = taken
           /\ Proceed(r, taken)[Len(stack[r])].next = Top(r).next + 1
<1> DEFINE n == Len(stack[r])
           frame == [Top(r) EXCEPT !.next = @ + 1, !.taken = taken]
<1>1. stack[r] \in Seq(Frames) /\ n \in 1 .. Len(stack[r]) /\ Top(r) = stack[r][n] /\ Top(r) \in Frames
    BY TopFrame DEF FrameInv, GoodStack, Planning
<1>2. /\ frame \in Frames /\ frame.dir = Top(r).dir /\ frame.taken = taken
      /\ frame.path = Top(r).path /\ frame.dossier = Top(r).dossier /\ frame.next = Top(r).next + 1
    BY <1>1, FrameMoves
<1>3. Proceed(r, taken) = [stack[r] EXCEPT ![n] = frame]
    BY <1>1, Zenon DEF Proceed, Top
<1> HIDE DEF frame
<1>4. /\ Proceed(r, taken) \in Seq(Frames) /\ Len(Proceed(r, taken)) = Len(stack[r])
      /\ \A k \in 1 .. Len(stack[r]) : Proceed(r, taken)[k] = IF k = n THEN frame ELSE stack[r][k]
    BY <1>1, <1>2, <1>3
<1>5. DOMAIN stack[r] = 1 .. Len(stack[r]) /\ DOMAIN Proceed(r, taken) = 1 .. Len(stack[r])
    BY <1>1, <1>4
<1> QED
    BY <1>1, <1>2, <1>4, <1>5

\* One more creation, in the directory being filled.
LEMMA PlanGrows ==
    ASSUME NEW plan, GoodPlan(plan), NEW c \in Creations,
           c.dir <= 1 + DirsAmong(plan, Len(plan)),
           \A i \in DOMAIN plan : plan[i].dir = c.dir => NameKey(plan[i].name) # NameKey(c.name)
    PROVE  /\ GoodPlan(Append(plan, c))
           /\ DirsAmong(plan, Len(plan)) \in Nat
           /\ DirsAmong(Append(plan, c), Len(Append(plan, c)))
                = DirsAmong(plan, Len(plan)) + (IF c.kind = "dir" THEN 1 ELSE 0)
<1> DEFINE more == Append(plan, c)
           n == Len(plan)
<1>1. plan \in Seq(Creations) /\ n \in Nat /\ DOMAIN plan = 1 .. n
    BY DEF GoodPlan
<1>2. /\ more \in Seq(Creations) /\ Len(more) = n + 1 /\ DOMAIN more = 1 .. n + 1
      /\ more[n + 1] = c /\ \A i \in 1 .. n : more[i] = plan[i]
    BY <1>1
<1> HIDE DEF more
<1>3. \A k \in 0 .. n : DirsAmong(more, k) = DirsAmong(plan, k)
    BY <1>1, <1>2, CountingPrefix
<1>4. /\ DirsAmong(plan, n) \in Nat
      /\ DirsAmong(more, n + 1) = DirsAmong(plan, n) + (IF c.kind = "dir" THEN 1 ELSE 0)
    <2>1. DirsAmong(plan, n) \in Nat /\ DirsAmong(more, n) = DirsAmong(plan, n)
        BY <1>1, <1>3, Counting
    <2>2. DirsAmong(more, n + 1) = DirsAmong(more, n) + (IF more[n + 1].kind = "dir" THEN 1 ELSE 0)
        BY <1>1, Counting
    <2> QED
        BY <1>2, <2>1, <2>2
<1>5. ASSUME NEW i \in DOMAIN more
      PROVE  more[i].dir <= 1 + DirsAmong(more, i - 1)
    <2>1. CASE i = n + 1
        <3>1. i - 1 = n
            BY <1>1, <2>1
        <3> QED
            BY <1>1, <1>2, <1>3, <2>1, <3>1
    <2>2. CASE i \in 1 .. n
        <3>1. i - 1 \in 0 .. n
            BY <1>1, <2>2
        <3> QED
            BY <1>1, <1>2, <1>3, <2>2, <3>1 DEF GoodPlan
    <2> QED
        BY <1>1, <1>2, <1>5, <2>1, <2>2
<1>6. ASSUME NEW i \in DOMAIN more, NEW j \in DOMAIN more, i # j, more[i].dir = more[j].dir
      PROVE  NameKey(more[i].name) # NameKey(more[j].name)
    <2>1. i \in 1 .. n \/ i = n + 1
        BY <1>1, <1>2
    <2>2. j \in 1 .. n \/ j = n + 1
        BY <1>1, <1>2
    <2> QED
        BY <1>1, <1>2, <1>6, <2>1, <2>2 DEF GoodPlan
<1> QED
    BY <1>2, <1>4, <1>5, <1>6 DEF GoodPlan, more

LEMMA StackGrows ==
    ASSUME NEW plan, GoodPlan(plan), NEW frames, GoodStack(frames, plan), NEW c \in Creations,
           c.dir = frames[Len(frames)].dir,
           NEW fresh \in Seq(Frames), Len(fresh) = Len(frames),
           \A k \in DOMAIN frames : /\ fresh[k].dir = frames[k].dir
                                    /\ frames[k].taken \subseteq fresh[k].taken,
           NameKey(c.name) \in fresh[Len(fresh)].taken
    PROVE  GoodStack(fresh, Append(plan, c))
<1> DEFINE more == Append(plan, c)
           n == Len(plan)
           m == Len(frames)
<1>1. /\ plan \in Seq(Creations) /\ n \in Nat /\ DOMAIN plan = 1 .. n
      /\ frames \in Seq(Frames) /\ frames # <<>>
    BY DEF GoodPlan, GoodStack
<1>2. /\ Len(more) = n + 1 /\ DOMAIN more = 1 .. n + 1
      /\ more[n + 1] = c /\ \A i \in 1 .. n : more[i] = plan[i]
    BY <1>1
<1> HIDE DEF more
<1>3. m \in Nat \ {0} /\ DOMAIN frames = 1 .. m /\ DOMAIN fresh = 1 .. m /\ fresh # <<>>
    BY <1>1
<1>4. /\ DirsAmong(plan, n) \in Nat /\ DirsAmong(more, Len(more)) \in Nat
      /\ DirsAmong(plan, n) <= DirsAmong(more, Len(more))
    <2>1. DirsAmong(more, n) = DirsAmong(plan, n)
        BY <1>1, <1>2, CountingPrefix
    <2> QED
        BY <1>1, <1>2, <2>1, Counting, CountingGrows
<1>5. ASSUME NEW k \in DOMAIN fresh
      PROVE  /\ fresh[k].dir <= 1 + DirsAmong(more, Len(more))
             /\ \A j \in DOMAIN fresh : j # k => fresh[j].dir # fresh[k].dir
             /\ \A i \in DOMAIN more :
                  more[i].dir = fresh[k].dir => NameKey(more[i].name) \in fresh[k].taken
    <2>1. fresh[k].dir = frames[k].dir /\ frames[k].taken \subseteq fresh[k].taken /\ k \in DOMAIN frames
        BY <1>3
    <2>2. fresh[k].dir \in Nat
        <3>1. fresh[k] \in Frames
            BY <1>3, <1>5
        <3> QED
            BY <3>1 DEF Frames
    <2>3. fresh[k].dir <= 1 + DirsAmong(more, Len(more))
        BY <1>4, <2>1, <2>2 DEF GoodStack
    <2>4. \A j \in DOMAIN fresh : j # k => fresh[j].dir # fresh[k].dir
        BY <1>3, <2>1 DEF GoodStack
    <2>5. ASSUME NEW i \in DOMAIN more, more[i].dir = fresh[k].dir
          PROVE  NameKey(more[i].name) \in fresh[k].taken
        <3>1. CASE i = n + 1
            <4>1. frames[k].dir = frames[m].dir /\ m \in DOMAIN frames
                BY <1>2, <1>3, <2>1, <2>5, <3>1
            <4>2. k = m
                BY <2>1, <4>1 DEF GoodStack
            <4> QED
                BY <1>2, <3>1, <4>2
        <3>2. CASE i \in 1 .. n
            BY <1>1, <1>2, <2>1, <2>5, <3>2 DEF GoodStack
        <3> QED
            BY <1>1, <1>2, <2>5, <3>1, <3>2
    <2> QED
        BY <2>3, <2>4, <2>5
<1> QED
    BY <1>3, <1>5 DEF GoodStack, more

\* A call into an embedded dossier, and the return from one.
LEMMA StackPushed ==
    ASSUME NEW plan, NEW frames, GoodStack(frames, plan), NEW frame \in Frames,
           frame.dir <= 1 + DirsAmong(plan, Len(plan)),
           \A k \in DOMAIN frames : frames[k].dir # frame.dir,
           \A i \in DOMAIN plan : plan[i].dir # frame.dir
    PROVE  GoodStack(Append(frames, frame), plan)
<1> DEFINE more == Append(frames, frame)
           m == Len(frames)
<1>1. frames \in Seq(Frames) /\ m \in Nat /\ DOMAIN frames = 1 .. m
    BY DEF GoodStack
<1>2. /\ more \in Seq(Frames) /\ more # <<>> /\ DOMAIN more = 1 .. m + 1
      /\ more[m + 1] = frame /\ \A k \in 1 .. m : more[k] = frames[k]
    BY <1>1
<1> HIDE DEF more
<1>3. ASSUME NEW k \in DOMAIN more
      PROVE  /\ more[k].dir <= 1 + DirsAmong(plan, Len(plan))
             /\ \A j \in DOMAIN more : j # k => more[j].dir # more[k].dir
             /\ \A i \in DOMAIN plan :
                  plan[i].dir = more[k].dir => NameKey(plan[i].name) \in more[k].taken
    <2>1. \A j \in DOMAIN more : j \in 1 .. m \/ j = m + 1
        BY <1>1, <1>2
    <2>2. CASE k = m + 1
        BY <1>1, <1>2, <2>1, <2>2
    <2>3. CASE k \in 1 .. m
        BY <1>1, <1>2, <2>1, <2>3 DEF GoodStack
    <2> QED
        BY <1>3, <2>1, <2>2, <2>3
<1> QED
    BY <1>2, <1>3 DEF GoodStack, more

LEMMA StackPopped ==
    ASSUME NEW plan, NEW frames, GoodStack(frames, plan), Len(frames) > 1
    PROVE  GoodStack(SubSeq(frames, 1, Len(frames) - 1), plan)
<1> DEFINE less == SubSeq(frames, 1, Len(frames) - 1)
<1>1. frames \in Seq(Frames)
    BY DEF GoodStack
<1>2. /\ less \in Seq(Frames) /\ less # <<>> /\ DOMAIN less \subseteq DOMAIN frames
      /\ \A k \in DOMAIN less : less[k] = frames[k]
    <2>1. Len(frames) - 1 \in 0 .. Len(frames) /\ Len(frames) - 1 > 0
        BY <1>1
    <2>2. /\ less \in Seq(Frames) /\ Len(less) = Len(frames) - 1
          /\ DOMAIN less = 1 .. Len(frames) - 1
          /\ \A k \in 1 .. Len(frames) - 1 : less[k] = frames[k]
        BY <1>1, <2>1, Shortened, Zenon
    <2> HIDE DEF less
    <2> QED
        BY <1>1, <2>1, <2>2
<1> HIDE DEF less
<1> QED
    BY <1>2 DEF GoodStack, less

-----------------------------------------------------------------------------
(* The steps of one run.                                                   *)

LEMMA OnlyItself ==
    ASSUME Shape, NEW r \in Runs, Step(r) \/ Kill(r)
    PROVE  /\ Shape' /\ meddled' = meddled /\ request' = request
           /\ \A q \in Runs \ {r} : Still(q)
<1> DEFINE Goal == /\ Shape' /\ meddled' = meddled /\ request' = request
                   /\ \A q \in Runs \ {r} : Still(q)
<1> USE DEF Shape, Still, Goto, GiveUp, WalkFails, Refuse, PlanUnchanged, WriteUnchanged,
            diskVars, planVars, writeVars, walkVars
<1>1. ASSUME Plan(r) PROVE Goal
    <2>1. CASE Select(r) BY <2>1 DEF Select
    <2>2. CASE Unresolved(r) BY <2>2 DEF Unresolved
    <2>3. CASE PlanOneFile(r) BY <2>3 DEF PlanOneFile
    <2>4. CASE Stream(r)
        <3>1. \/ \E why : GiveUp(r, "failed", why)
              \/ Goto(r, "done") /\ UNCHANGED failure
            BY <2>4 DEF Stream
        <3>2. UNCHANGED <<diskVars, step, dirs, planVars, writeVars>>
            BY <2>4 DEF Stream
        <3> QED
            BY <3>1, <3>2
    <2>5. CASE PassOver(r) BY <2>5 DEF PassOver
    <2>6. CASE SkipUnsupported(r) BY <2>6 DEF SkipUnsupported
    <2>7. CASE PlanFails(r) BY <2>7 DEF PlanFails
    <2>8. CASE PlanFile(r) BY <2>8 DEF PlanFile
    <2>9. CASE PlanNested(r) BY <2>9 DEF PlanNested
    <2>10. CASE Planned(r) BY <2>10 DEF Planned
    <2> QED
        BY <1>1, <2>1, <2>2, <2>3, <2>4, <2>5, <2>6, <2>7, <2>8, <2>9, <2>10 DEF Plan
<1>2. ASSUME Walk(r), UNCHANGED <<planVars, writeVars>> PROVE Goal
    <2>1. CASE Look(r) BY <1>2, <2>1 DEF Look
    <2>2. CASE Open(r) BY <1>2, <2>2 DEF Open, Descend
    <2>3. CASE Stat(r) BY <1>2, <2>3 DEF Stat
    <2>4. CASE MakeComponent(r) BY <1>2, <2>4 DEF MakeComponent
    <2>5. CASE Reopen(r) BY <1>2, <2>5 DEF Reopen, Descend
    <2> QED
        BY <1>2, <2>1, <2>2, <2>3, <2>4, <2>5 DEF Walk
<1>3. ASSUME Write(r) PROVE Goal
    <2>1. CASE NameFree(r) BY <2>1 DEF NameFree
    <2>2. CASE NameTaken(r) BY <2>2 DEF NameTaken
    <2>3. CASE AllFree(r) BY <2>3 DEF AllFree
    <2>4. CASE CreateFile(r) BY <2>4 DEF CreateFile
    <2>5. CASE CannotCreate(r) BY <2>5 DEF CannotCreate
    <2>6. CASE WriteFile(r) BY <2>6 DEF WriteFile
    <2>7. CASE CreateDir(r) BY <2>7 DEF CreateDir
    <2>8. CASE EnterDir(r) BY <2>8 DEF EnterDir
    <2>9. CASE CannotEnter(r) BY <2>9 DEF CannotEnter
    <2>10. CASE Unmake(r) BY <2>10 DEF Unmake, Removed, NotRemoved
    <2>11. CASE Finish(r) BY <2>11 DEF Finish
    <2> QED
        BY <1>3, <2>1, <2>2, <2>3, <2>4, <2>5, <2>6, <2>7, <2>8, <2>9, <2>10, <2>11 DEF Write
<1>4. ASSUME Undo(r) \/ Undone(r) \/ Kill(r) PROVE Goal
    <2>1. CASE Undo(r) BY <2>1 DEF Undo, Removed, NotRemoved
    <2>2. CASE Undone(r) BY <2>2 DEF Undone
    <2>3. CASE Kill(r) BY <2>3 DEF Kill, Killed
    <2> QED
        BY <1>4, <2>1, <2>2, <2>3
<1> QED
    BY <1>1, <1>2, <1>3, <1>4 DEF Step

\* A planning step touches nothing outside the plan, and a run that plans has
\* made nothing, so only the plan and the label are to be looked at.
LEMMA PlanningKeeps ==
    ASSUME DiskInv, NEW r \in Runs, RunInv(r), at[r] \in Before,
           UNCHANGED <<diskVars, step, dirs, writeVars>>,
           at'[r] \in Before \cup {"look", "done", "failed"},
           at'[r] \in Before => planned'[r] = <<>> \/ at'[r] = "plan",
           GoodPlan(planned'[r]),
           at'[r] = "plan" => GoodStack(stack'[r], planned'[r])
    PROVE  /\ RunInv(r)' /\ TreeStep(r)
           /\ \A p \in Places : ~MadeBy(entry'[p], r)
<1>1. \A p \in Places : ~MadeBy(entry[p], r)
    BY DEF RunInv, InsideInv
<1>2. UNCHANGED <<entry, used, step, dirs, looked, written, created, stuck>>
    BY DEF diskVars, writeVars
<1>3. created[r] = <<>> /\ written[r] = 0 /\ stuck[r] = {} /\ dirs[r] = <<>>
    BY DEF RunInv, ControlInv, Before, Ended
<1>4. ControlInv(r)'
    <2>1. planned'[r] \in Seq(Creations) /\ Len(planned'[r]) \in Nat
        BY DEF GoodPlan
    <2> QED
        BY <1>2, <1>3, <2>1 DEF RunInv, ControlInv, Labels, Before, Walking, Writing, Ended
<1>5. OwnInv(r)'
    BY <1>2, <1>3 DEF OwnInv, Before
<1>6. InsideInv(r)'
    BY <1>1, <1>2 DEF InsideInv
<1>7. PlanInv(r)' /\ FrameInv(r)'
    BY DEF PlanInv, FrameInv
<1> QED
    BY <1>1, <1>2, <1>4, <1>5, <1>6, <1>7 DEF RunInv, TreeStep

LEMMA EmptyPlan == GoodPlan(<<>>)
BY DEF GoodPlan

LEMMA SelectKeeps ==
    ASSUME Shape, DiskInv, NEW r \in Runs, RunInv(r), Select(r)
    PROVE  /\ RunInv(r)' /\ TreeStep(r)
           /\ \A p \in Places : ~MadeBy(entry'[p], r)
<1>1. at[r] = "select" /\ planned[r] = <<>> /\ UNCHANGED planned
    BY DEF Select, RunInv, ControlInv, Before
<1>2. at'[r] \in {"stream", "plan"} /\ UNCHANGED <<diskVars, step, dirs, writeVars>>
    BY DEF Select, Goto, Shape
<1>3. stack'[r] = <<Frame(request[r].dossier, <<>>, 1)>>
    BY DEF Select, Shape
<1>4. request[r].dossier \in DOMAIN Content
    BY ExtractionAssumption DEF Shape
<1>5. Frame(request[r].dossier, <<>>, 1) \in Frames
    BY <1>4 DEF Frame, Frames
<1>6. DirsAmong(<<>>, Len(<<>>)) \in Nat
    BY Counting
<1>7. GoodStack(<<Frame(request[r].dossier, <<>>, 1)>>, <<>>)
    <2> DEFINE frame == Frame(request[r].dossier, <<>>, 1)
    <2>1. frame.dir = 1
        BY DEF Frame
    <2> HIDE DEF frame
    <2>2. <<frame>> \in Seq(Frames) /\ <<frame>> # <<>> /\ DOMAIN <<frame>> = {1} /\ <<frame>>[1] = frame
        BY <1>5 DEF frame
    <2> QED
        BY <1>6, <2>1, <2>2 DEF GoodStack, frame
<1> QED
    BY <1>1, <1>2, <1>3, <1>7, EmptyPlan, PlanningKeeps DEF Before

LEMMA PlanOneFileKeeps ==
    ASSUME Shape, DiskInv, NEW r \in Runs, RunInv(r), PlanOneFile(r)
    PROVE  /\ RunInv(r)' /\ TreeStep(r)
           /\ \A p \in Places : ~MadeBy(entry'[p], r)
<1> DEFINE c == Creation("file", 1, request[r].name, <<>>)
<1>1. at[r] = "select" /\ planned[r] = <<>> /\ at'[r] = "look"
    BY DEF PlanOneFile, Goto, Shape, RunInv, ControlInv, Before
<1>2. planned'[r] = <<c>> /\ UNCHANGED <<diskVars, step, dirs, writeVars>>
    BY DEF PlanOneFile, Shape
<1>3. request[r].name \in OutputNames
    BY DEF OutputNames, Shape
<1>4. c \in Creations /\ c.dir = 1
    BY <1>3 DEF Creation, Creations
<1> HIDE DEF c
<1>5. Append(<<>>, c) = <<c>>
    OBVIOUS
<1>6. c.dir <= 1 + DirsAmong(<<>>, Len(<<>>))
    BY <1>4, Counting
<1>7. GoodPlan(<<c>>)
    <2> DEFINE none == <<>>
    <2>1. \A i \in DOMAIN none : none[i].dir = c.dir => NameKey(none[i].name) # NameKey(c.name)
        OBVIOUS
    <2>2. GoodPlan(none) /\ c.dir <= 1 + DirsAmong(none, Len(none)) /\ Append(none, c) = <<c>>
        BY <1>5, <1>6, EmptyPlan
    <2> HIDE DEF none
    <2> QED
        BY <1>4, <2>1, <2>2, PlanGrows
<1> QED
    BY <1>1, <1>2, <1>7, PlanningKeeps DEF Before

\* The frames before the top one keep what they have, and the top one gains.
LEMMA ProceedingKeeps ==
    ASSUME NEW r \in Runs, FrameInv(r), Planning(r),
           NEW taken \in SUBSET FoldedNames, Top(r).taken \subseteq taken
    PROVE  GoodStack(Proceed(r, taken), planned[r])
<1>1. GoodStack(stack[r], planned[r]) /\ stack[r] \in Seq(Frames)
    BY DEF FrameInv, Planning, GoodStack
<1>2. /\ Proceed(r, taken) \in Seq(Frames) /\ Proceed(r, taken) # <<>>
      /\ DOMAIN Proceed(r, taken) = DOMAIN stack[r]
      /\ \A k \in DOMAIN stack[r] :
            /\ Proceed(r, taken)[k].dir = stack[r][k].dir
            /\ stack[r][k].taken \subseteq Proceed(r, taken)[k].taken
    BY Proceeding, TopFrame
<1> QED
    BY <1>1, <1>2 DEF GoodStack

LEMMA PassedOverKeeps ==
    ASSUME Shape, DiskInv, NEW r \in Runs, RunInv(r), PassOver(r) \/ SkipUnsupported(r)
    PROVE  /\ RunInv(r)' /\ TreeStep(r)
           /\ \A p \in Places : ~MadeBy(entry'[p], r)
<1>1. Planning(r) /\ at[r] = "plan" /\ UNCHANGED <<at, planned>>
    BY DEF PassOver, SkipUnsupported, Planning
<1>2. stack'[r] = Proceed(r, Top(r).taken)
    BY DEF PassOver, SkipUnsupported, Shape
<1>3. Top(r).taken \in SUBSET FoldedNames
    BY <1>1, TopFrame DEF RunInv, Frames
<1>4. GoodStack(stack'[r], planned[r])
    BY <1>1, <1>2, <1>3, ProceedingKeeps DEF RunInv
<1>5. UNCHANGED <<diskVars, step, dirs, writeVars>>
    BY DEF PassOver, SkipUnsupported, PlanUnchanged
<1> QED
    BY <1>1, <1>4, <1>5, PlanningKeeps DEF RunInv, PlanInv, Before

LEMMA PlanEndsKeeps ==
    ASSUME Shape, DiskInv, NEW r \in Runs, RunInv(r),
           Unresolved(r) \/ Stream(r) \/ PlanFails(r)
    PROVE  /\ RunInv(r)' /\ TreeStep(r)
           /\ \A p \in Places : ~MadeBy(entry'[p], r)
<1>1. at[r] \in Before /\ UNCHANGED <<diskVars, step, dirs, writeVars, planned>>
    BY DEF Unresolved, Stream, PlanFails, Planning, Decoded, Refuse, planVars, Before
<1>2. at'[r] \in {"failed", "done"}
    <2>1. CASE Unresolved(r) \/ PlanFails(r)
        BY <2>1 DEF Unresolved, PlanFails, Refuse, GiveUp, Goto, Shape
    <2>2. CASE Stream(r)
        <3>1. (\E why : GiveUp(r, "failed", why)) \/ Goto(r, "done")
            BY <2>2 DEF Stream
        <3> QED
            BY <3>1 DEF GiveUp, Goto, Shape
    <2> QED
        BY <2>1, <2>2
<1> QED
    BY <1>1, <1>2, PlanningKeeps DEF RunInv, PlanInv, Before

\* The document planned as a file: a new name in the directory being filled.
LEMMA FilePlanned ==
    ASSUME Shape, NEW r \in Runs, PlanInv(r), FrameInv(r), Planning(r), FileName(r) # NoName,
           NEW taken \in SUBSET FoldedNames, TakenWithFile(r) \subseteq taken
    PROVE  LET c == Creation("file", Top(r).dir, FileName(r), PathOf(r)) IN
           /\ c \in Creations
           /\ GoodPlan(Append(planned[r], c))
           /\ GoodStack(Proceed(r, taken), Append(planned[r], c))
           /\ DirsAmong(Append(planned[r], c), Len(Append(planned[r], c)))
                = DirsAmong(planned[r], Len(planned[r]))
<1> DEFINE c == Creation("file", Top(r).dir, FileName(r), PathOf(r))
           m == Len(stack[r])
<1>1. GoodStack(stack[r], planned[r]) /\ GoodPlan(planned[r])
    BY DEF PlanInv, FrameInv, Planning
<1>2. m \in DOMAIN stack[r] /\ Top(r) = stack[r][m] /\ Top(r) \in Frames
    BY TopFrame
<1>3. c \in Creations /\ c.kind = "file" /\ c.dir = Top(r).dir /\ c.name = FileName(r)
    BY <1>2, TopFrame, FileNamed DEF Creation, Creations, Frames
<1> HIDE DEF c
<1>4. c.dir <= 1 + DirsAmong(planned[r], Len(planned[r]))
    BY <1>1, <1>2, <1>3 DEF GoodStack
<1>5. \A i \in DOMAIN planned[r] :
        planned[r][i].dir = c.dir => NameKey(planned[r][i].name) # NameKey(c.name)
    BY <1>1, <1>2, <1>3, FileNamed DEF GoodStack
<1>6. /\ GoodPlan(Append(planned[r], c))
      /\ DirsAmong(Append(planned[r], c), Len(Append(planned[r], c)))
            = DirsAmong(planned[r], Len(planned[r]))
    BY <1>1, <1>3, <1>4, <1>5, PlanGrows
<1>7. /\ Proceed(r, taken) \in Seq(Frames) /\ Len(Proceed(r, taken)) = Len(stack[r])
      /\ \A k \in DOMAIN stack[r] :
            /\ Proceed(r, taken)[k].dir = stack[r][k].dir
            /\ stack[r][k].taken \subseteq Proceed(r, taken)[k].taken
      /\ NameKey(c.name) \in Proceed(r, taken)[Len(Proceed(r, taken))].taken
    BY <1>2, <1>3, Proceeding DEF TakenWithFile
<1>8. GoodStack(Proceed(r, taken), Append(planned[r], c))
    BY <1>1, <1>2, <1>3, <1>7, StackGrows
<1> QED
    BY <1>3, <1>6, <1>8 DEF c

LEMMA FoldedTaken ==
    ASSUME NEW r \in Runs, FrameInv(r), Planning(r), FileName(r) # NoName
    PROVE  /\ TakenWithFile(r) \in SUBSET FoldedNames
           /\ Expands(r) /\ DirName(r) # NoName =>
                TakenWithFile(r) \cup {NameKey(DirName(r))} \in SUBSET FoldedNames
<1>1. Top(r).taken \in SUBSET FoldedNames
    BY TopFrame DEF Frames
<1>2. TakenWithFile(r) \in SUBSET FoldedNames
    BY <1>1, FileNamed DEF TakenWithFile, FoldedNames
<1> QED
    BY <1>2, DirNamed DEF FoldedNames

LEMMA PlanFileKeeps ==
    ASSUME Shape, DiskInv, NEW r \in Runs, RunInv(r), PlanFile(r)
    PROVE  /\ RunInv(r)' /\ TreeStep(r)
           /\ \A p \in Places : ~MadeBy(entry'[p], r)
<1>1. Planning(r) /\ FileName(r) # NoName /\ at[r] = "plan" /\ UNCHANGED at
    BY DEF PlanFile, Decoded, Planning
<1>2. /\ planned'[r] = Append(planned[r], Creation("file", Top(r).dir, FileName(r), PathOf(r)))
      /\ stack'[r] = Proceed(r, TakenWithFile(r))
      /\ UNCHANGED <<diskVars, step, dirs, writeVars>>
    BY DEF PlanFile, PlanUnchanged, Shape
<1>3. GoodPlan(planned'[r]) /\ GoodStack(stack'[r], planned'[r])
    BY <1>1, <1>2, FilePlanned, FoldedTaken DEF RunInv
<1> QED
    BY <1>1, <1>2, <1>3, PlanningKeeps DEF Before

LEMMA PlanNestedKeeps ==
    ASSUME Shape, DiskInv, NEW r \in Runs, RunInv(r), PlanNested(r)
    PROVE  /\ RunInv(r)' /\ TreeStep(r)
           /\ \A p \in Places : ~MadeBy(entry'[p], r)
<1> DEFINE c == Creation("file", Top(r).dir, FileName(r), PathOf(r))
           d == Creation("dir", Top(r).dir, DirName(r), PathOf(r))
           n == Len(planned[r])
           filed == TakenWithFile(r)
           both == TakenWithFile(r) \cup {NameKey(DirName(r))}
           child == 2 + DirsAmong(planned[r], n)
           plan1 == Append(planned[r], c)
           plan2 == Append(plan1, d)
           frame == Frame(Doc(r).inside, PathOf(r), child)
<1>1. /\ Planning(r) /\ FileName(r) # NoName /\ Expands(r) /\ DirName(r) # NoName
      /\ at[r] = "plan" /\ UNCHANGED at /\ FrameInv(r) /\ PlanInv(r)
    BY DEF PlanNested, Decoded, Planning, RunInv
<1>2. planned[r] \in Seq(Creations) /\ DOMAIN planned[r] = 1 .. n
    BY <1>1 DEF PlanInv, GoodPlan
<1>3. planned'[r] = plan2
    <2>1. planned'[r] = planned[r] \o <<c, d>>
        BY DEF PlanNested, Shape
    <2> QED
        BY <1>2, <2>1
<1>4. stack'[r] = Append(Proceed(r, both), frame)
    <2>1. child = 2 + Cardinality({i \in DOMAIN planned[r] : planned[r][i].kind = "dir"})
        BY <1>2 DEF DirsAmong
    <2> QED
        BY <2>1 DEF PlanNested, Shape
<1>5. UNCHANGED <<diskVars, step, dirs, writeVars>>
    BY DEF PlanNested, PlanUnchanged
<1>6. /\ c \in Creations /\ GoodPlan(plan1) /\ GoodStack(Proceed(r, filed), plan1)
      /\ DirsAmong(plan1, Len(plan1)) = DirsAmong(planned[r], n)
    BY <1>1, FilePlanned, FoldedTaken
<1>7. both \in SUBSET FoldedNames /\ filed \in SUBSET FoldedNames
    BY <1>1, FoldedTaken
<1>8. /\ Len(stack[r]) \in DOMAIN stack[r] /\ Top(r) = stack[r][Len(stack[r])] /\ Top(r) \in Frames
      /\ PathOf(r) \in Seq(Nat)
    BY <1>1, TopFrame
<1>9. d \in Creations /\ d.kind = "dir" /\ d.dir = Top(r).dir /\ d.name = DirName(r)
    BY <1>1, <1>8, DirNamed DEF Creation, Creations, Frames
<1>10. DirsAmong(planned[r], n) \in Nat
    BY <1>2, Counting
<1>11. frame \in Frames /\ frame.dir = child
    <2>1. Doc(r).inside \in DOMAIN Content
        BY <1>1, DirNamed
    <2>2. child \in Nat \ {0}
        BY <1>10
    <2> HIDE DEF child
    <2> QED
        BY <1>8, <2>1, <2>2 DEF Frame, Frames
<1> HIDE DEF c, d, plan1, plan2, frame, child
<1>12. /\ Proceed(r, filed) \in Seq(Frames) /\ Len(Proceed(r, filed)) = Len(stack[r])
       /\ Proceed(r, both) \in Seq(Frames) /\ Len(Proceed(r, both)) = Len(stack[r])
       /\ DOMAIN Proceed(r, filed) = DOMAIN stack[r] /\ DOMAIN Proceed(r, both) = DOMAIN stack[r]
       /\ Proceed(r, filed)[Len(stack[r])].taken = filed
       /\ Proceed(r, both)[Len(stack[r])].taken = both
       /\ \A k \in DOMAIN stack[r] :
            /\ Proceed(r, filed)[k].dir = stack[r][k].dir
            /\ Proceed(r, both)[k].dir = stack[r][k].dir
            /\ k # Len(stack[r]) => Proceed(r, filed)[k] = Proceed(r, both)[k]
    BY <1>1, <1>7, Proceeding
<1>13. \A k \in DOMAIN stack[r] : Proceed(r, filed)[k].taken \subseteq Proceed(r, both)[k].taken
    BY <1>12
<1>14. d.dir <= 1 + DirsAmong(plan1, Len(plan1)) /\ d.dir = Proceed(r, filed)[Len(stack[r])].dir
    BY <1>6, <1>8, <1>9, <1>12 DEF GoodStack
<1>15. \A i \in DOMAIN plan1 : plan1[i].dir = d.dir => NameKey(plan1[i].name) # NameKey(d.name)
    <2>1. NameKey(d.name) \notin filed
        BY <1>1, <1>9, DirNamed
    <2>2. Len(stack[r]) \in DOMAIN Proceed(r, filed)
        BY <1>8, <1>12
    <2> QED
        BY <1>6, <1>12, <1>14, <2>1, <2>2 DEF GoodStack
<1>16. /\ GoodPlan(plan2)
       /\ DirsAmong(plan2, Len(plan2)) = DirsAmong(planned[r], n) + 1
    BY <1>6, <1>9, <1>14, <1>15, PlanGrows DEF plan2
<1>17. GoodStack(Proceed(r, both), plan2)
    <2>1. NameKey(d.name) \in Proceed(r, both)[Len(Proceed(r, both))].taken
        BY <1>9, <1>12
    <2>2. d.dir = Proceed(r, filed)[Len(Proceed(r, filed))].dir
        BY <1>12, <1>14
    <2> QED
        BY <1>6, <1>9, <1>12, <1>13, <2>1, <2>2, StackGrows DEF plan2
<1>18. frame.dir = 1 + DirsAmong(plan2, Len(plan2))
    BY <1>10, <1>11, <1>16 DEF child
<1>19. ASSUME NEW k \in DOMAIN Proceed(r, both)
       PROVE  Proceed(r, both)[k].dir # frame.dir
    <2>1. /\ Proceed(r, both)[k].dir <= 1 + DirsAmong(plan1, Len(plan1))
          /\ Proceed(r, both)[k].dir \in Nat
        <3>1. Proceed(r, both)[k].dir = Proceed(r, filed)[k].dir /\ k \in DOMAIN Proceed(r, filed)
            BY <1>12, <1>19
        <3>2. Proceed(r, both)[k] \in Frames
            BY <1>12, <1>19
        <3> QED
            BY <1>6, <3>1, <3>2 DEF GoodStack, Frames
    <2> QED
        BY <1>6, <1>10, <1>16, <1>18, <2>1
<1>20. ASSUME NEW i \in DOMAIN plan2
       PROVE  plan2[i].dir # frame.dir
    <2>1. plan2[i].dir <= 1 + DirsAmong(plan2, i - 1) /\ plan2 \in Seq(Creations)
        BY <1>16 DEF GoodPlan
    <2>2. i \in 1 .. Len(plan2) /\ Len(plan2) \in Nat /\ plan2[i].dir \in Nat
        <3>1. i \in 1 .. Len(plan2) /\ Len(plan2) \in Nat /\ plan2[i] \in Creations
            BY <1>20, <2>1
        <3> QED
            BY <3>1 DEF Creations
    <2>3. Len(plan2) = n + 2 /\ plan2[n + 2] = d /\ n \in Nat
        BY <1>2, <1>6, <1>9 DEF plan1, plan2
    <2>4. CASE i = n + 2
        BY <1>6, <1>10, <1>14, <1>16, <1>18, <2>2, <2>3, <2>4
    <2>5. CASE i \in 1 .. n + 1
        <3>1. i \in DOMAIN plan1 /\ plan2[i] = plan1[i] /\ Len(plan1) = n + 1
            BY <1>2, <1>6, <1>9, <2>5 DEF plan1, plan2
        <3>2. i - 1 \in Nat /\ i - 1 <= Len(plan1) /\ Len(plan1) \in Nat
            BY <2>3, <2>5, <3>1
        <3>3. /\ DirsAmong(plan1, i - 1) <= DirsAmong(plan1, Len(plan1))
              /\ DirsAmong(plan1, i - 1) \in Nat
            BY <3>2, Counting, CountingGrows
        <3>4. plan2[i].dir <= 1 + DirsAmong(plan1, i - 1)
            BY <1>6, <3>1 DEF GoodPlan
        <3> QED
            BY <1>6, <1>10, <1>16, <1>18, <2>2, <3>3, <3>4
    <2> QED
        BY <2>2, <2>3, <2>4, <2>5
<1>21. GoodStack(Append(Proceed(r, both), frame), plan2)
    <2>1. frame.dir <= 1 + DirsAmong(plan2, Len(plan2))
        BY <1>10, <1>16, <1>18
    <2> QED
        BY <1>11, <1>17, <1>19, <1>20, <2>1, StackPushed
<1> QED
    BY <1>1, <1>3, <1>4, <1>5, <1>16, <1>21, PlanningKeeps DEF Before

LEMMA PlannedKeeps ==
    ASSUME Shape, DiskInv, NEW r \in Runs, RunInv(r), Planned(r)
    PROVE  /\ RunInv(r)' /\ TreeStep(r)
           /\ \A p \in Places : ~MadeBy(entry'[p], r)
<1>1. at[r] = "plan" /\ UNCHANGED <<planned, diskVars, step, dirs, writeVars>>
    BY DEF Planned, PlanUnchanged
<1>2. GoodStack(stack[r], planned[r]) /\ GoodPlan(planned[r])
    BY <1>1 DEF RunInv, PlanInv, FrameInv
<1>3. CASE Len(stack[r]) > 1
    <2>1. stack'[r] = SubSeq(stack[r], 1, Len(stack[r]) - 1) /\ UNCHANGED at
        BY <1>3 DEF Planned, Shape
    <2>2. GoodStack(stack'[r], planned[r])
        BY <1>2, <1>3, <2>1, StackPopped
    <2> QED
        BY <1>1, <1>2, <2>1, <2>2, PlanningKeeps DEF Before
<1>4. CASE ~(Len(stack[r]) > 1)
    <2>1. at'[r] = "look"
        BY <1>4 DEF Planned, Goto, Shape
    <2> QED
        BY <1>1, <1>2, <2>1, PlanningKeeps DEF Before
<1> QED
    BY <1>3, <1>4

LEMMA PlanKeeps ==
    ASSUME Shape, DiskInv, NEW r \in Runs, RunInv(r), Plan(r)
    PROVE  /\ RunInv(r)' /\ TreeStep(r)
           /\ \A p \in Places : ~MadeBy(entry'[p], r)
BY SelectKeeps, PlanOneFileKeeps, PassedOverKeeps, PlanEndsKeeps, PlanFileKeeps,
   PlanNestedKeeps, PlannedKeeps, Zenon DEF Plan

-----------------------------------------------------------------------------
(* The walk along the output path.                                         *)

\* The component looked at is in the tree, in a directory held.
LEMMA ComponentHeld ==
    ASSUME DiskInv, NEW r \in Runs, RunInv(r), at[r] \in Walking
    PROVE  /\ DOMAIN dirs[r] = {1} /\ Here(r) = dirs[r][1]
           /\ Here(r) \in used \ {Elsewhere}
           /\ Component(r) \in Places /\ Component(r)[1] = Here(r)
           /\ created[r] = <<>> /\ written[r] = 0 /\ stuck[r] = {}
<1>1. /\ dirs[r] \in Seq(used \ {Elsewhere}) /\ Len(dirs[r]) = 1 /\ step[r] \in 1 .. Len(Path)
      /\ created[r] = <<>> /\ written[r] = 0 /\ stuck[r] = {}
    BY DEF RunInv, ControlInv, Walking, Ended
<1>2. DOMAIN dirs[r] = {1} /\ Here(r) = dirs[r][1] /\ Here(r) \in used \ {Elsewhere}
    BY <1>1 DEF Here
<1>3. Path[step[r]] \in Keys
    BY <1>1, OutputDirAssumption
<1>4. Component(r) \in Places /\ Component(r)[1] = Here(r)
    BY <1>2, <1>3 DEF Component, Places, DiskInv
<1> QED
    BY <1>1, <1>2, <1>4

\* A run that stops walking has dropped its descriptors, and answers for none.
LEMMA WalkFailsKeeps ==
    ASSUME Shape, DiskInv, NEW r \in Runs, RunInv(r), at[r] \in Walking \cup {"look"},
           NEW why, WalkFails(r, why), UNCHANGED <<diskVars, planVars, writeVars>>,
           NEW deep
    PROVE  RunInv(r)' /\ TreeStep(r) /\ AboveInv(deep, r)'
<1>1. at'[r] = "failed" /\ dirs'[r] = <<>> /\ UNCHANGED step
    BY DEF WalkFails, GiveUp, Goto, Shape
<1>2. UNCHANGED <<entry, used, planned, stack, written, created, stuck>>
    BY DEF diskVars, planVars, writeVars
<1>3. created[r] = <<>> /\ written[r] = 0 /\ stuck[r] = {}
    BY DEF RunInv, ControlInv, Walking, Ended
<1>4. ControlInv(r)'
    BY <1>1, <1>2, <1>3 DEF RunInv, ControlInv, PlanInv, GoodPlan, Labels, Before, Walking, Writing, Ended
<1>5. OwnInv(r)' /\ InsideInv(r)' /\ FrameInv(r)' /\ PlanInv(r)'
    BY <1>1, <1>2, <1>3 DEF RunInv, OwnInv, InsideInv, FrameInv, PlanInv, Before
<1> QED
    BY <1>1, <1>2, <1>4, <1>5 DEF RunInv, TreeStep, AboveInv

LEMMA LookKeeps ==
    ASSUME Shape, DiskInv, NEW r \in Runs, RunInv(r), Look(r), UNCHANGED <<planVars, writeVars>>,
           NEW deep
    PROVE  RunInv(r)' /\ TreeStep(r) /\ AboveInv(deep, r)'
<1>1. CASE \E why : WalkFails(r, why)
    BY <1>1, WalkFailsKeeps DEF Look
<1>2. CASE /\ step[r] < Len(Path) /\ step' = [step EXCEPT ![r] = @ + 1]
           /\ UNCHANGED <<at, dirs, diskVars>>
    <2>1. at[r] = "look" /\ UNCHANGED <<at, dirs, entry, used, planned, stack, written, created, stuck>>
        BY <1>2 DEF Look, diskVars, planVars, writeVars
    <2>2. step'[r] \in 1 .. Len(Path)
        BY <1>2, OutputDirAssumption DEF Shape, RunInv, ControlInv
    <2>3. ControlInv(r)'
        BY <2>1, <2>2 DEF RunInv, ControlInv
    <2>4. OwnInv(r)' /\ InsideInv(r)' /\ FrameInv(r)' /\ PlanInv(r)'
        BY <2>1 DEF RunInv, OwnInv, Own, Holds, Current, Place, InsideInv, FrameInv, PlanInv
    <2>5. \A p \in Places : ~MadeBy(entry'[p], r)
        BY <2>1 DEF RunInv, InsideInv
    <2> QED
        BY <2>1, <2>3, <2>4, <2>5 DEF RunInv, TreeStep, AboveInv
<1>3. CASE /\ step' = [step EXCEPT ![r] = 1] /\ dirs' = [dirs EXCEPT ![r] = <<Cwd>>]
           /\ Goto(r, "open") /\ UNCHANGED diskVars
    <2>1. at[r] = "look" /\ at'[r] = "open" /\ UNCHANGED <<entry, used, planned, stack, written, created, stuck>>
        BY <1>3 DEF Look, Goto, diskVars, planVars, writeVars, Shape
    <2>2. step'[r] = 1 /\ dirs'[r] = <<Cwd>> /\ 1 \in 1 .. Len(Path)
        BY <1>3, OutputDirAssumption DEF Shape
    <2>3. <<Cwd>> \in Seq(used \ {Elsewhere}) /\ Len(<<Cwd>>) = 1
        BY OutputDirAssumption DEF DiskInv
    <2>4. created[r] = <<>> /\ written[r] = 0 /\ stuck[r] = {}
        BY <2>1 DEF RunInv, ControlInv, Ended
    <2>5. ControlInv(r)'
        BY <2>1, <2>2, <2>3, <2>4 DEF RunInv, ControlInv, PlanInv, GoodPlan, Labels, Before, Walking, Writing, Ended
    <2>6. OwnInv(r)' /\ InsideInv(r)' /\ FrameInv(r)' /\ PlanInv(r)'
        BY <2>1, <2>4 DEF RunInv, OwnInv, InsideInv, FrameInv, PlanInv, Before
    <2>7. \A p \in Places : ~MadeBy(entry'[p], r)
        BY <2>1 DEF RunInv, InsideInv
    <2> QED
        BY <2>1, <2>5, <2>6, <2>7 DEF RunInv, TreeStep, AboveInv
<1> QED
    BY <1>1, <1>2, <1>3, Zenon DEF Look

\* A run on its way, or just arrived, with nothing created yet.
LEMMA OnItsWay ==
    ASSUME NEW r \in Runs, at'[r] \in Walking \cup {"opened"}, step'[r] \in 1 .. Len(Path),
           dirs'[r] \in Seq(used' \ {Elsewhere}), Len(dirs'[r]) = 1,
           planned'[r] \in Seq(Creations),
           created'[r] = <<>>, written'[r] = 0, stuck'[r] = {}
    PROVE  ControlInv(r)'
<1>1. DirsAmong(planned'[r], 0) = 0 /\ Len(planned'[r]) \in Nat /\ DOMAIN dirs'[r] = {1}
    BY Counting
<1>2. at'[r] \in Labels /\ at'[r] \notin Before \cup {"look", "failed"}
    BY DEF Labels, Before, Walking, Writing
<1>3. /\ at'[r] \in Writing => at'[r] = "opened"
      /\ at'[r] \in Writing => written'[r] \in 0 .. Len(planned'[r])
      /\ Len(created'[r]) = 0 /\ DOMAIN created'[r] = {} /\ created'[r] \in Seq(Creations)
    BY <1>1 DEF Walking, Writing
<1> QED
    BY <1>1, <1>2, <1>3 DEF ControlInv

LEMMA DescendKeeps ==
    ASSUME Shape, DiskInv, NEW r \in Runs, RunInv(r), at[r] \in {"open", "reopen"},
           Descend(r), UNCHANGED <<diskVars, planVars, writeVars>>,
           NEW rank, Deeper(rank), AboveInv(rank, r), NEW deep, \A d \in used : deep[d] = rank[d]
    PROVE  RunInv(r)' /\ TreeStep(r) /\ AboveInv(deep, r)'
<1>0. /\ DOMAIN dirs[r] = {1} /\ Here(r) = dirs[r][1]
      /\ Here(r) \in used \ {Elsewhere}
      /\ Component(r) \in Places /\ Component(r)[1] = Here(r)
      /\ created[r] = <<>> /\ written[r] = 0 /\ stuck[r] = {}
    BY ComponentHeld DEF Walking
<1>1. PICK d : dirs'[r] = <<d>> /\ d \in Descriptor(entry[Component(r)])
    BY DEF Descend, Shape
<1>2. entry[Component(r)].kind = "dir" /\ d = entry[Component(r)].dir
    BY <1>1 DEF Descriptor
<1>3. d \in used \ {Cwd, Elsewhere}
    BY <1>0, <1>2 DEF DiskInv
<1>4. UNCHANGED <<entry, used, planned, stack, written, created, stuck>>
    BY DEF diskVars, planVars, writeVars
<1>5. \/ at'[r] = "open" /\ step'[r] \in 1 .. Len(Path)
      \/ at'[r] = "opened" /\ step'[r] = step[r]
    BY OutputDirAssumption DEF Descend, Goto, Shape, RunInv, ControlInv
<1>6. <<d>> \in Seq(used \ {Elsewhere}) /\ Len(<<d>>) = 1
    BY <1>3
<1>8. ControlInv(r)'
    <2>1. step'[r] \in 1 .. Len(Path) /\ at'[r] \in Walking \cup {"opened"}
        BY <1>5 DEF RunInv, ControlInv, Walking
    <2>2. planned[r] \in Seq(Creations)
        BY DEF RunInv, PlanInv, GoodPlan
    <2> QED
        BY <1>0, <1>1, <1>4, <1>6, <2>1, <2>2, OnItsWay
<1>9. OwnInv(r)' /\ InsideInv(r)' /\ FrameInv(r)' /\ PlanInv(r)'
    BY <1>0, <1>4, <1>5 DEF RunInv, OwnInv, InsideInv, FrameInv, PlanInv, Before
<1>10. ASSUME NEW p \in Places, MadeBy(entry[p], r)
       PROVE  deep[p[1]] < deep[d]
    <2>1. Mine(r, p) => p = Component(r)
        BY <1>0 DEF Mine
    <2>2. Mine(r, p) \/ rank[p[1]] < rank[Here(r)]
        BY <1>0, <1>10 DEF AboveInv
    <2>3. rank[Here(r)] < rank[d]
        BY <1>0, <1>2 DEF Deeper
    <2>4. p[1] \in used
        BY <1>10, Kinds DEF DiskInv, MadeBy
    <2>5. rank[p[1]] \in Nat /\ rank[d] \in Nat /\ rank[Here(r)] \in Nat
        BY <1>0, <1>3, <2>4 DEF Deeper, DiskInv
    <2>6. rank[p[1]] < rank[d]
        BY <1>0, <2>1, <2>2, <2>3, <2>5
    <2> QED
        BY <1>3, <2>4, <2>6
<1> QED
    BY <1>1, <1>4, <1>8, <1>9, <1>10 DEF RunInv, TreeStep, AboveInv

\* Steps of the walk that only change the label.
LEMMA LabelKeeps ==
    ASSUME Shape, DiskInv, NEW r \in Runs, RunInv(r), at[r] \in Walking, at[r] # "reopen",
           at'[r] \in Walking, UNCHANGED <<step, dirs, diskVars, planVars, writeVars>>,
           NEW rank, AboveInv(rank, r), NEW deep, \A d \in used : deep[d] = rank[d]
    PROVE  RunInv(r)' /\ TreeStep(r) /\ AboveInv(deep, r)'
<1>1. UNCHANGED <<entry, used, step, dirs, planned, stack, written, created, stuck>>
    BY DEF diskVars, planVars, writeVars
<1>2. created[r] = <<>> /\ written[r] = 0 /\ stuck[r] = {} /\ DOMAIN dirs[r] = {1}
      /\ dirs[r][1] \in used
    BY ComponentHeld
<1>3. ControlInv(r)'
    BY <1>1, <1>2 DEF RunInv, ControlInv, PlanInv, GoodPlan, Labels, Before, Walking, Writing, Ended
<1>4. OwnInv(r)' /\ InsideInv(r)' /\ FrameInv(r)' /\ PlanInv(r)'
    BY <1>1, <1>2 DEF RunInv, OwnInv, InsideInv, FrameInv, PlanInv, Before, Walking
<1>5. \A p : ~Mine(r, p)
    BY <1>2 DEF Mine, Walking
<1>6. \A p \in Places : MadeBy(entry[p], r) => p[1] \in used
    BY Kinds DEF DiskInv, MadeBy
<1> QED
    BY <1>1, <1>2, <1>3, <1>4, <1>5, <1>6 DEF RunInv, TreeStep, AboveInv

LEMMA MakeComponentKeeps ==
    ASSUME Shape, DiskInv, NEW r \in Runs, RunInv(r), at[r] = "make",
           entry[Component(r)] = Absent, Make(r, Component(r)), Goto(r, "reopen"),
           UNCHANGED <<step, dirs, planVars, writeVars>>,
           NEW rank, AboveInv(rank, r), NEW deep, \A d \in used : deep[d] = rank[d]
    PROVE  RunInv(r)' /\ TreeStep(r) /\ AboveInv(deep, r)'
<1>0. /\ DOMAIN dirs[r] = {1} /\ dirs[r][1] = Here(r)
      /\ Here(r) \in used \ {Elsewhere}
      /\ Component(r) \in Places /\ Component(r)[1] = Here(r)
      /\ created[r] = <<>> /\ written[r] = 0 /\ stuck[r] = {}
    BY ComponentHeld DEF Walking
<1>1. at'[r] = "reopen" /\ UNCHANGED <<step, dirs, planned, stack, written, created, stuck>>
    BY DEF Goto, Shape, planVars, writeVars
<1>2. \E d \in Dirs \ used : Put(Component(r), Dir(r, d)) /\ used' = used \cup {d}
    BY DEF Make
<1>3. TreeStep(r) /\ used \subseteq used'
    BY <1>0, <1>2 DEF TreeStep, Changes
<1>4. \A p \in Places : p # Component(r) => entry'[p] = entry[p]
    BY <1>2 DEF Put, DiskInv
<1>5. ControlInv(r)'
    <2>1. dirs[r] \in Seq(used' \ {Elsewhere})
        BY <1>3, SeqMonotonic DEF RunInv, ControlInv
    <2>2. planned[r] \in Seq(Creations) /\ step[r] \in 1 .. Len(Path) /\ Len(dirs[r]) = 1
        BY DEF RunInv, ControlInv, PlanInv, GoodPlan, Walking
    <2> QED
        BY <1>0, <1>1, <2>1, <2>2, OnItsWay DEF Walking
<1>6. OwnInv(r)' /\ FrameInv(r)' /\ PlanInv(r)'
    BY <1>0, <1>1 DEF RunInv, OwnInv, FrameInv, PlanInv
<1>7. InsideInv(r)'
    BY <1>0, <1>1, <1>4 DEF RunInv, InsideInv, Before
<1>8. Component(r)' = Component(r)
    BY <1>1 DEF Component, Here
<1>9. \A p : ~Mine(r, p)
    BY <1>0 DEF Mine
<1>10. ASSUME NEW p \in Places, MadeBy(entry'[p], r), p # Component(r)
       PROVE  deep[p[1]] < deep[Here(r)]
    <2>1. MadeBy(entry[p], r)
        BY <1>4, <1>10
    <2>2. p[1] \in used
        BY <2>1, Kinds DEF DiskInv, MadeBy
    <2> QED
        BY <1>0, <1>9, <2>1, <2>2 DEF AboveInv
<1>11. AboveInv(deep, r)'
    BY <1>0, <1>1, <1>8, <1>10 DEF AboveInv, Mine
<1> QED
    BY <1>3, <1>5, <1>6, <1>7, <1>11 DEF RunInv

LEMMA WalkKeeps ==
    ASSUME Shape, DiskInv, NEW r \in Runs, RunInv(r), Walk(r), UNCHANGED <<planVars, writeVars>>,
           NEW rank, Deeper(rank), AboveInv(rank, r), NEW deep, \A d \in used : deep[d] = rank[d]
    PROVE  RunInv(r)' /\ TreeStep(r) /\ AboveInv(deep, r)'
<1>1. CASE Look(r)
    BY <1>1, LookKeeps
<1>2. ASSUME at[r] \in Walking, NEW why, WalkFails(r, why), UNCHANGED diskVars
      PROVE  RunInv(r)' /\ TreeStep(r) /\ AboveInv(deep, r)'
    BY <1>2, WalkFailsKeeps
<1>3. CASE Open(r)
    <2>1. at[r] = "open" /\ at[r] \in Walking /\ UNCHANGED diskVars
        BY <1>3 DEF Open, Walking
    <2>2. CASE Descend(r)
        BY <2>1, <2>2, DescendKeeps
    <2>3. CASE Goto(r, "stat") /\ UNCHANGED <<step, dirs, failure>>
        <3>1. at'[r] \in Walking
            BY <2>3 DEF Goto, Shape, Walking
        <3> QED
            BY <2>1, <2>3, <3>1, LabelKeeps
    <2> QED
        BY <1>2, <1>3, <2>1, <2>2, <2>3 DEF Open
<1>4. CASE Stat(r)
    <2>1. at[r] = "stat" /\ at[r] \in Walking /\ UNCHANGED diskVars
        BY <1>4 DEF Stat, Walking
    <2>2. CASE Goto(r, "make") /\ UNCHANGED <<step, dirs, failure>>
        <3>1. at'[r] \in Walking
            BY <2>2 DEF Goto, Shape, Walking
        <3> QED
            BY <2>1, <2>2, <3>1, LabelKeeps
    <2> QED
        BY <1>2, <1>4, <2>1, <2>2 DEF Stat
<1>5. CASE MakeComponent(r)
    <2>1. at[r] = "make" /\ at[r] \in Walking
        BY <1>5 DEF MakeComponent, Walking
    <2> QED
        BY <1>2, <1>5, <2>1, MakeComponentKeeps DEF MakeComponent
<1>6. CASE Reopen(r)
    <2>1. at[r] = "reopen" /\ at[r] \in Walking /\ UNCHANGED diskVars
        BY <1>6 DEF Reopen, Walking
    <2> QED
        BY <1>2, <1>6, <2>1, DescendKeeps DEF Reopen
<1> QED
    BY <1>1, <1>3, <1>4, <1>5, <1>6 DEF Walk

-----------------------------------------------------------------------------
(* Writing and rolling back.                                               *)

\* Two creations of a plan are two places: in different directories, or under
\* names the filesystem keeps apart.
LEMMA PlacesDiffer ==
    ASSUME NEW r \in Runs, PlanInv(r), ControlInv(r),
           NEW i \in DOMAIN planned[r], NEW j \in DOMAIN planned[r], i # j,
           planned[r][i].dir \in DOMAIN dirs[r], planned[r][j].dir \in DOMAIN dirs[r]
    PROVE  Place(r, planned[r][i]) # Place(r, planned[r][j])
<1> DEFINE c == planned[r][i]
           d == planned[r][j]
<1>1. c \in Creations /\ d \in Creations
    BY DEF PlanInv, GoodPlan
<1>2. c.name \in OutputNames /\ d.name \in OutputNames
    BY <1>1 DEF Creations
<1>3. SUFFICES ASSUME Place(r, c) = Place(r, d) PROVE FALSE
    OBVIOUS
<1>4. dirs[r][c.dir] = dirs[r][d.dir] /\ FileKey(c.name) = FileKey(d.name)
    BY <1>3 DEF Place
<1>5. c.dir = d.dir
    BY <1>4 DEF ControlInv
<1>6. NameKey(c.name) = NameKey(d.name)
    BY <1>2, <1>4, NamesAssumption
<1> QED
    BY <1>5, <1>6 DEF PlanInv, GoodPlan

LEMMA AboveStays ==
    ASSUME DiskInv, NEW r \in Runs, NEW rank, AboveInv(rank, r), NEW deep,
           \A d \in used : deep[d] = rank[d],
           dirs'[r] = dirs[r], \A i \in DOMAIN dirs[r] : dirs[r][i] \in used,
           \A p \in Places : MadeBy(entry'[p], r) =>
                Mine(r, p)' \/ (MadeBy(entry[p], r) /\ ~Mine(r, p))
    PROVE  AboveInv(deep, r)'
<1>1. \A p \in Places : MadeBy(entry[p], r) => p[1] \in used
    BY Kinds DEF DiskInv, MadeBy
<1> QED
    BY <1>1 DEF AboveInv

\* Steps that leave the tree, the descriptors and the record as they are.
LEMMA TreeLeft ==
    ASSUME DiskInv, NEW r \in Runs, RunInv(r), ControlInv(r)',
           UNCHANGED <<entry, used, step, dirs, planned, written, created, stuck>>,
           at'[r] \notin Before \cup {"look", "reopen"},
           at'[r] \in {"enter", "unmake"} => at[r] = "enter" /\ at'[r] = "unmake",
           at[r] \in {"enter", "unmake"} => at'[r] \in {"unmake", "crashed"},
           at[r] \in {"reopen", "crashed"} => at'[r] = "crashed",
           NEW rank, AboveInv(rank, r), NEW deep, \A d \in used : deep[d] = rank[d]
    PROVE  RunInv(r)' /\ TreeStep(r) /\ AboveInv(deep, r)'
<1>1. \A c : Place(r, c)' = Place(r, c) /\ (Own(r, c) <=> Own(r, c)')
    BY DEF Place, Own, Holds
<1>2. Current(r)' = Current(r)
    BY DEF Current
<1>3. OwnInv(r)'
    BY <1>1, <1>2 DEF RunInv, OwnInv
<1>4. InsideInv(r)' /\ FrameInv(r)' /\ PlanInv(r)'
    BY DEF RunInv, InsideInv, FrameInv, PlanInv, Before
<1>5. \A p : Mine(r, p) => Mine(r, p)'
    BY <1>1, <1>2 DEF Mine
<1>6. AboveInv(deep, r)'
    BY <1>5, PlacesHeld, AboveStays DEF RunInv
<1> QED
    BY <1>3, <1>4, <1>6 DEF RunInv, TreeStep

LEMMA KillKeeps ==
    ASSUME Shape, DiskInv, NEW r \in Runs, RunInv(r), Kill(r),
           NEW rank, AboveInv(rank, r), NEW deep, \A d \in used : deep[d] = rank[d]
    PROVE  RunInv(r)' /\ TreeStep(r) /\ AboveInv(deep, r)'
<1>1. at'[r] = "crashed" /\ UNCHANGED <<entry, used, step, dirs, planned, written, created, stuck>>
    BY DEF Kill, Killed, Goto, Shape, diskVars, planVars, writeVars
<1>2. ControlInv(r)'
    BY <1>1 DEF RunInv, ControlInv, Labels, Before, Walking, Writing, Ended
<1> QED
    BY <1>1, <1>2, TreeLeft DEF Before

LEMMA SettledKeeps ==
    ASSUME Shape, DiskInv, NEW r \in Runs, RunInv(r),
           \/ NameFree(r) \/ NameTaken(r) \/ AllFree(r) \/ CannotCreate(r)
           \/ CannotEnter(r) \/ Finish(r) \/ Undone(r),
           NEW rank, AboveInv(rank, r), NEW deep, \A d \in used : deep[d] = rank[d]
    PROVE  RunInv(r)' /\ TreeStep(r) /\ AboveInv(deep, r)'
<1>1. /\ UNCHANGED <<entry, used, step, dirs, planned, written, created, stuck>>
      /\ \/ at[r] = "opened" /\ at'[r] \in {"opened", "failed", "create"}
         \/ at[r] = "create" /\ at'[r] \in {"undo", "done"}
         \/ at[r] = "enter" /\ at'[r] = "unmake"
         \/ at[r] = "undo" /\ at'[r] = "failed" /\ created[r] = <<>>
    BY DEF NameFree, NameTaken, AllFree, CannotCreate, CannotEnter, Finish, Undone,
           WriteUnchanged, GiveUp, Goto, Shape, planVars, writeVars
<1>2. at[r] = "opened" => created[r] = <<>>
    BY DEF RunInv, ControlInv, Writing
<1>3. ControlInv(r)'
    BY <1>1, <1>2 DEF RunInv, ControlInv, Labels, Before, Walking, Writing, Ended
<1> QED
    BY <1>1, <1>3, TreeLeft DEF Before

\* What a run that writes holds and has recorded.
LEMMA WritingFacts ==
    ASSUME DiskInv, NEW r \in Runs, RunInv(r), at[r] \in Writing
    PROVE  /\ planned[r] \in Seq(Creations) /\ created[r] \in Seq(Creations)
           /\ written[r] \in 0 .. Len(planned[r])
           /\ dirs[r] \in Seq(used \ {Elsewhere})
           /\ \A i \in DOMAIN dirs[r] : dirs[r][i] \in used \ {Elsewhere}
           /\ \A i \in DOMAIN created[r] :
                /\ i \in DOMAIN planned[r] /\ created[r][i] = planned[r][i]
                /\ created[r][i].dir \in DOMAIN dirs[r]
                /\ Place(r, created[r][i]) \in Places
                /\ Own(r, created[r][i])
           /\ \A i, j \in DOMAIN created[r] :
                i # j => Place(r, created[r][i]) # Place(r, created[r][j])
<1>1. PlanInv(r) /\ ControlInv(r) /\ OwnInv(r)
    BY DEF RunInv
<1>2. \A i \in DOMAIN created[r] :
        /\ i \in DOMAIN planned[r] /\ created[r][i] = planned[r][i]
        /\ created[r][i].dir \in DOMAIN dirs[r]
        /\ Place(r, created[r][i]) \in Places
        /\ Own(r, created[r][i])
    BY <1>1, PlacesHeld DEF ControlInv, OwnInv
<1>3. \A i, j \in DOMAIN created[r] :
        i # j => Place(r, created[r][i]) # Place(r, created[r][j])
    BY <1>1, <1>2, PlacesDiffer
<1>4. /\ planned[r] \in Seq(Creations) /\ created[r] \in Seq(Creations)
      /\ written[r] \in 0 .. Len(planned[r])
      /\ dirs[r] \in Seq(used \ {Elsewhere})
    BY <1>1 DEF PlanInv, GoodPlan, ControlInv
<1>5. \A i \in DOMAIN dirs[r] : dirs[r][i] \in used \ {Elsewhere}
    BY <1>1, PlacesHeld
<1> QED
    BY <1>2, <1>3, <1>4, <1>5

LEMMA CurrentFacts ==
    ASSUME DiskInv, NEW r \in Runs, RunInv(r),
           at[r] \in {"create", "write", "enter", "unmake"}, written[r] < Len(planned[r])
    PROVE  /\ written[r] + 1 \in DOMAIN planned[r]
           /\ Current(r) = planned[r][written[r] + 1] /\ Current(r) \in Creations
           /\ Current(r).dir \in DOMAIN dirs[r]
           /\ Place(r, Current(r)) \in Places
           /\ Place(r, Current(r))[1] = dirs[r][Current(r).dir]
           /\ Place(r, Current(r))[1] \in used \ {Elsewhere}
           /\ \A i \in DOMAIN created[r] : i # written[r] + 1 =>
                Place(r, created[r][i]) # Place(r, Current(r))
<1>1. PlanInv(r) /\ ControlInv(r) /\ at[r] \in Writing
    BY DEF RunInv, Writing
<1>2. /\ written[r] + 1 \in DOMAIN planned[r]
      /\ Current(r) = planned[r][written[r] + 1] /\ Current(r) \in Creations
      /\ Current(r).dir \in DOMAIN dirs[r]
    BY <1>1, CurrentPlanned
<1>3. Place(r, Current(r)) \in Places
    BY <1>1, <1>2, PlacesHeld
<1>4. Place(r, Current(r))[1] = dirs[r][Current(r).dir] /\ dirs[r][Current(r).dir] \in used \ {Elsewhere}
    BY <1>1, <1>2, WritingFacts DEF Place
<1>5. ASSUME NEW i \in DOMAIN created[r], i # written[r] + 1
      PROVE  Place(r, created[r][i]) # Place(r, Current(r))
    <2>1. /\ i \in DOMAIN planned[r] /\ created[r][i] = planned[r][i]
          /\ planned[r][i].dir \in DOMAIN dirs[r]
        BY <1>1, <1>5, WritingFacts
    <2>2. Place(r, planned[r][i]) # Place(r, planned[r][written[r] + 1])
        BY <1>1, <1>2, <1>5, <2>1, PlacesDiffer
    <2> QED
        BY <1>2, <2>1, <2>2
<1> QED
    BY <1>2, <1>3, <1>4, <1>5

LEMMA CreateFileKeeps ==
    ASSUME Shape, DiskInv, NEW r \in Runs, RunInv(r), CreateFile(r),
           NEW rank, AboveInv(rank, r), NEW deep, \A d \in used : deep[d] = rank[d]
    PROVE  RunInv(r)' /\ TreeStep(r) /\ AboveInv(deep, r)'
<1> DEFINE c == Current(r)
           P == Place(r, c)
           e == File(r, c.path, "nothing")
           n == Len(created[r])
<1>1. /\ at[r] = "create" /\ at[r] \in Writing /\ written[r] < Len(planned[r]) /\ c.kind = "file"
      /\ n = written[r] /\ stuck[r] = {}
    BY DEF CreateFile, Creating, Writing, RunInv, ControlInv, Ended
<1>2. /\ written[r] + 1 \in DOMAIN planned[r]
      /\ c = planned[r][written[r] + 1] /\ c \in Creations
      /\ c.dir \in DOMAIN dirs[r] /\ P \in Places /\ P[1] \in used \ {Elsewhere}
      /\ \A i \in DOMAIN created[r] : i # written[r] + 1 => Place(r, created[r][i]) # P
    BY <1>1, CurrentFacts
<1>3. /\ planned[r] \in Seq(Creations) /\ created[r] \in Seq(Creations)
      /\ \A i \in DOMAIN dirs[r] : dirs[r][i] \in used \ {Elsewhere}
      /\ \A i \in DOMAIN created[r] :
            /\ i \in DOMAIN planned[r] /\ created[r][i] = planned[r][i]
            /\ created[r][i].dir \in DOMAIN dirs[r]
            /\ Place(r, created[r][i]) \in Places
            /\ Own(r, created[r][i])
    BY <1>1, WritingFacts
<1>4. /\ entry[P] = Absent /\ Put(P, e) /\ at'[r] = "write"
      /\ created'[r] = Append(created[r], c)
      /\ UNCHANGED <<used, step, dirs, planned, written, stuck>>
    BY DEF CreateFile, WriteUnchanged, Goto, Shape, planVars
<1>5. e.kind = "file" /\ e.by = r
    BY Kinds
<1> HIDE DEF c, e
<1>6. TreeStep(r)
    <2>1. Changes(r, P)
        BY <1>2, <1>4 DEF Changes, e
    <2> QED
        BY <1>2, <2>1 DEF TreeStep
<1>7. entry'[P] = e /\ \A p \in Places : p # P => entry'[p] = entry[p]
    BY <1>2, <1>4 DEF Put, DiskInv
<1> HIDE DEF P
<1>8. /\ created'[r] \in Seq(Creations) /\ Len(created'[r]) = n + 1
      /\ DOMAIN created'[r] = DOMAIN created[r] \cup {n + 1}
      /\ created'[r][n + 1] = c /\ \A i \in DOMAIN created[r] : created'[r][i] = created[r][i]
    BY <1>2, <1>3, <1>4
<1>9. ControlInv(r)'
    <2>1. Len(created'[r]) <= Len(planned[r])
        BY <1>1, <1>2, <1>3, <1>8
    <2>2. \A i \in DOMAIN created'[r] :
            created'[r][i] = planned[r][i] /\ created'[r][i].dir <= Len(dirs[r])
        BY <1>1, <1>2, <1>3, <1>8 DEF RunInv, ControlInv
    <2>3. Len(created'[r]) = written[r] + 1 /\ planned[r][written[r] + 1].kind = "file"
        BY <1>1, <1>2, <1>8
    <2> QED
        BY <1>1, <1>4, <1>8, <2>1, <2>2, <2>3 DEF RunInv, ControlInv, Labels, Before, Walking, Writing, Ended
<1>10. \A d : Place(r, d)' = Place(r, d)
    BY <1>4 DEF Place
<1>11. OwnInv(r)'
    <2>1. ASSUME NEW i \in DOMAIN created[r]
          PROVE  Holds(entry'[Place(r, created[r][i])], created[r][i].kind, r)
        <3>1. entry'[Place(r, created[r][i])] = entry[Place(r, created[r][i])]
            BY <1>1, <1>2, <1>3, <1>7, <2>1
        <3> QED
            BY <1>3, <2>1, <3>1 DEF Own
    <2>2. Holds(entry'[P], c.kind, r)
        BY <1>1, <1>5, <1>7 DEF Holds
    <2>3. \A i \in DOMAIN created'[r] :
            Holds(entry'[Place(r, created'[r][i])], created'[r][i].kind, r)
        BY <1>8, <2>1, <2>2 DEF P
    <2> QED
        BY <1>4, <1>10, <2>3 DEF OwnInv, Own
<1>12. InsideInv(r)' /\ FrameInv(r)' /\ PlanInv(r)'
    BY <1>1, <1>2, <1>4, <1>7 DEF RunInv, InsideInv, FrameInv, PlanInv, Before
<1>13. AboveInv(deep, r)'
    <2>1. ASSUME NEW p \in Places, MadeBy(entry'[p], r)
          PROVE  Mine(r, p)' \/ (MadeBy(entry[p], r) /\ ~Mine(r, p))
        <3>1. CASE p = P
            BY <1>8, <1>10, <3>1 DEF Mine, P
        <3>2. CASE p # P /\ Mine(r, p)
            BY <1>1, <1>4, <1>8, <1>10, <3>2 DEF Mine
        <3> QED
            BY <1>7, <2>1, <3>1, <3>2
    <2> QED
        BY <1>3, <1>4, <2>1, AboveStays
<1> QED
    BY <1>6, <1>9, <1>11, <1>12, <1>13 DEF RunInv

LEMMA WriteFileKeeps ==
    ASSUME Shape, DiskInv, NEW r \in Runs, RunInv(r), WriteFile(r),
           NEW rank, AboveInv(rank, r), NEW deep, \A d \in used : deep[d] = rank[d]
    PROVE  RunInv(r)' /\ TreeStep(r) /\ AboveInv(deep, r)'
<1> DEFINE c == Current(r)
           P == Place(r, c)
           n == Len(created[r])
<1>1. /\ at[r] = "write" /\ at[r] \in Writing /\ written[r] < Len(planned[r])
      /\ planned[r][written[r] + 1].kind = "file" /\ n = written[r] + 1 /\ stuck[r] = {}
      /\ Len(dirs[r]) = 1 + DirsAmong(planned[r], written[r])
    BY DEF WriteFile, Writing, RunInv, ControlInv, Ended
<1>2. /\ written[r] + 1 \in DOMAIN planned[r]
      /\ c = planned[r][written[r] + 1] /\ c \in Creations
      /\ P \in Places /\ P[1] \in used \ {Elsewhere}
      /\ \A i \in DOMAIN created[r] : i # written[r] + 1 => Place(r, created[r][i]) # P
    BY <1>1, CurrentFacts
<1>3. /\ planned[r] \in Seq(Creations) /\ created[r] \in Seq(Creations)
      /\ written[r] \in 0 .. Len(planned[r])
      /\ \A i \in DOMAIN dirs[r] : dirs[r][i] \in used \ {Elsewhere}
      /\ \A i \in DOMAIN created[r] :
            /\ i \in DOMAIN planned[r] /\ created[r][i] = planned[r][i]
            /\ Place(r, created[r][i]) \in Places
            /\ Own(r, created[r][i])
    BY <1>1, WritingFacts
<1>4. /\ UNCHANGED <<used, step, dirs, planned, created, stuck>>
      /\ \E part : Put(P, File(r, c.path, part))
      /\ \/ at'[r] = "create" /\ written'[r] = written[r] + 1
         \/ at'[r] = "undo" /\ written'[r] = written[r]
    BY DEF WriteFile, WriteUnchanged, Goto, GiveUp, Shape, planVars
<1>5. n \in DOMAIN created[r] /\ created[r][n] = c /\ c.kind = "file"
    BY <1>1, <1>2, <1>3
<1>6. entry[P].kind = "file" /\ entry[P].by = r
    BY <1>3, <1>5 DEF Own, Holds
<1>7. /\ entry'[P].kind = "file" /\ entry'[P].by = r
      /\ \A p \in Places : p # P => entry'[p] = entry[p]
    BY <1>2, <1>4, Kinds DEF Put, DiskInv
<1>8. TreeStep(r)
    <2>1. Changes(r, P)
        BY <1>2, <1>4, <1>6 DEF Changes
    <2> QED
        BY <1>2, <2>1 DEF TreeStep
<1> HIDE DEF c, P
<1>9. ControlInv(r)'
    <2>1. DirsAmong(planned[r], written[r] + 1) = DirsAmong(planned[r], written[r])
        <3>1. /\ DirsAmong(planned[r], written[r]) \in Nat
              /\ DirsAmong(planned[r], written[r] + 1) = DirsAmong(planned[r], written[r])
                    + (IF planned[r][written[r] + 1].kind = "dir" THEN 1 ELSE 0)
            <4>1. written[r] \in Nat
                BY <1>3
            <4> QED
                BY <4>1, Counting
        <3> QED
            BY <1>1, <3>1
    <2> QED
        BY <1>1, <1>2, <1>3, <1>4, <2>1 DEF RunInv, ControlInv, Labels, Before, Walking, Writing, Ended
<1>10. \A d : Place(r, d)' = Place(r, d)
    BY <1>4 DEF Place
<1>11. OwnInv(r)'
    <2>1. ASSUME NEW i \in DOMAIN created[r]
          PROVE  Holds(entry'[Place(r, created[r][i])], created[r][i].kind, r)
        <3>1. CASE Place(r, created[r][i]) = P
            BY <1>1, <1>2, <1>5, <1>7, <2>1, <3>1 DEF Holds
        <3>2. CASE Place(r, created[r][i]) # P
            BY <1>3, <1>7, <2>1, <3>2 DEF Own
        <3> QED
            BY <3>1, <3>2
    <2> QED
        BY <1>4, <1>10, <2>1 DEF OwnInv, Own
<1>12. InsideInv(r)' /\ FrameInv(r)' /\ PlanInv(r)'
    BY <1>1, <1>2, <1>4, <1>7 DEF RunInv, InsideInv, FrameInv, PlanInv, Before
<1>13. AboveInv(deep, r)'
    <2>1. ASSUME NEW p \in Places, MadeBy(entry'[p], r)
          PROVE  Mine(r, p)' \/ (MadeBy(entry[p], r) /\ ~Mine(r, p))
        <3>1. CASE p = P
            BY <1>4, <1>5, <1>10, <3>1 DEF Mine, P
        <3>2. CASE p # P /\ Mine(r, p)
            BY <1>1, <1>4, <1>10, <3>2 DEF Mine
        <3> QED
            BY <1>7, <2>1, <3>1, <3>2
    <2> QED
        BY <1>3, <1>4, <2>1, AboveStays
<1> QED
    BY <1>8, <1>9, <1>11, <1>12, <1>13 DEF RunInv

LEMMA CreateDirKeeps ==
    ASSUME Shape, DiskInv, NEW r \in Runs, RunInv(r), CreateDir(r),
           NEW rank, AboveInv(rank, r), NEW deep, \A d \in used : deep[d] = rank[d]
    PROVE  RunInv(r)' /\ TreeStep(r) /\ AboveInv(deep, r)'
<1> DEFINE c == Current(r)
           P == Place(r, c)
<1>1. /\ at[r] = "create" /\ at[r] \in Writing /\ written[r] < Len(planned[r]) /\ c.kind = "dir"
      /\ stuck[r] = {}
    BY DEF CreateDir, Creating, Writing, RunInv, ControlInv, Ended
<1>2. /\ written[r] + 1 \in DOMAIN planned[r]
      /\ c = planned[r][written[r] + 1]
      /\ P \in Places /\ P[1] \in used \ {Elsewhere}
      /\ \A i \in DOMAIN created[r] : i # written[r] + 1 => Place(r, created[r][i]) # P
    BY <1>1, CurrentFacts
<1>3. /\ created[r] \in Seq(Creations) /\ dirs[r] \in Seq(used \ {Elsewhere})
      /\ \A i \in DOMAIN dirs[r] : dirs[r][i] \in used \ {Elsewhere}
      /\ \A i \in DOMAIN created[r] :
            Place(r, created[r][i]) \in Places /\ Own(r, created[r][i])
    BY <1>1, WritingFacts
<1>4. /\ entry[P] = Absent /\ at'[r] = "enter"
      /\ UNCHANGED <<step, dirs, planned, written, created, stuck>>
    BY DEF CreateDir, WriteUnchanged, Goto, Shape, planVars, writeVars
<1>5. PICK d \in Dirs \ used : Put(P, Dir(r, d)) /\ used' = used \cup {d}
    BY DEF CreateDir, Make
<1>6. TreeStep(r)
    <2>1. Changes(r, P)
        BY <1>2, <1>4, <1>5 DEF Changes
    <2> QED
        BY <1>2, <2>1 DEF TreeStep
<1>7. /\ entry'[P].kind = "dir" /\ entry'[P].by = r /\ entry'[P].dir = d
      /\ \A p \in Places : p # P => entry'[p] = entry[p]
    BY <1>2, <1>5, Kinds DEF Put, DiskInv
<1> HIDE DEF c
<1>8. \A x : Place(r, x)' = Place(r, x)
    BY <1>4 DEF Place
<1>9. Current(r)' = c
    BY <1>4 DEF Current, c
<1>10. P' = P
    BY <1>4, <1>9 DEF Place, c
<1> HIDE DEF P
<1>11. ControlInv(r)'
    <2>1. dirs[r] \in Seq(used' \ {Elsewhere})
        BY <1>3, <1>5, SeqMonotonic
    <2> QED
        BY <1>1, <1>2, <1>3, <1>4, <2>1 DEF RunInv, ControlInv, Labels, Before, Walking, Writing, Ended
<1>12. \A i \in DOMAIN created[r] : Place(r, created[r][i]) # P
    BY <1>1, <1>2, <1>3 DEF RunInv, ControlInv
<1>13. OwnInv(r)'
    <2>1. ASSUME NEW i \in DOMAIN created[r]
          PROVE  Holds(entry'[Place(r, created[r][i])], created[r][i].kind, r)
        <3>1. entry'[Place(r, created[r][i])] = entry[Place(r, created[r][i])]
            BY <1>3, <1>7, <1>12, <2>1
        <3> QED
            BY <1>3, <2>1, <3>1 DEF Own
    <2>2. Holds(entry'[P], c.kind, r)
        BY <1>1, <1>7 DEF Holds
    <2>3. \A i \in DOMAIN dirs[r] : dirs[r][i] # entry'[P].dir
        BY <1>3, <1>5, <1>7
    <2>4. Place(r, Current(r))' = P
        BY <1>8, <1>9, <1>10 DEF P
    <2> QED
        BY <1>4, <1>8, <1>9, <2>1, <2>2, <2>3, <2>4 DEF OwnInv, Own
<1>14. InsideInv(r)' /\ FrameInv(r)' /\ PlanInv(r)'
    BY <1>1, <1>2, <1>4, <1>7 DEF RunInv, InsideInv, FrameInv, PlanInv, Before
<1>15. AboveInv(deep, r)'
    <2>1. ASSUME NEW p \in Places, MadeBy(entry'[p], r)
          PROVE  Mine(r, p)' \/ (MadeBy(entry[p], r) /\ ~Mine(r, p))
        <3>1. CASE p = P
            <4>1. p = Place(r, Current(r))'
                BY <1>8, <1>9, <1>10, <3>1 DEF P
            <4> QED
                BY <1>4, <4>1 DEF Mine
        <3>2. CASE p # P /\ Mine(r, p)
            BY <1>1, <1>4, <1>8, <3>2 DEF Mine
        <3> QED
            BY <1>7, <2>1, <3>1, <3>2
    <2> QED
        BY <1>3, <1>4, <2>1, AboveStays
<1> QED
    BY <1>6, <1>11, <1>13, <1>14, <1>15 DEF RunInv

\* The directory a run has made and opened is one it did not hold before.
LEMMA EnterDirKeeps ==
    ASSUME Shape, DiskInv, NEW r \in Runs, RunInv(r), EnterDir(r),
           NEW rank, Deeper(rank), AboveInv(rank, r), NEW deep, \A d \in used : deep[d] = rank[d]
    PROVE  RunInv(r)' /\ TreeStep(r) /\ AboveInv(deep, r)'
<1> DEFINE c == Current(r)
           P == Place(r, c)
           n == Len(created[r])
           m == Len(dirs[r])
           d == entry[P].dir
<1>1. /\ at[r] = "enter" /\ at[r] \in Writing /\ written[r] < Len(planned[r]) /\ stuck[r] = {}
      /\ planned[r][written[r] + 1].kind = "dir" /\ n = written[r]
      /\ Len(dirs[r]) = 1 + DirsAmong(planned[r], written[r])
    BY DEF EnterDir, Writing, RunInv, ControlInv, Ended
<1>2. /\ written[r] + 1 \in DOMAIN planned[r]
      /\ c = planned[r][written[r] + 1] /\ c \in Creations /\ c.dir \in DOMAIN dirs[r]
      /\ P \in Places /\ P[1] = dirs[r][c.dir] /\ P[1] \in used \ {Elsewhere}
    BY <1>1, CurrentFacts
<1>3. /\ planned[r] \in Seq(Creations) /\ created[r] \in Seq(Creations)
      /\ written[r] \in 0 .. Len(planned[r]) /\ dirs[r] \in Seq(used \ {Elsewhere})
      /\ \A i \in DOMAIN dirs[r] : dirs[r][i] \in used \ {Elsewhere}
      /\ \A i \in DOMAIN created[r] :
            /\ i \in DOMAIN planned[r] /\ created[r][i] = planned[r][i]
            /\ created[r][i].dir \in DOMAIN dirs[r]
            /\ Own(r, created[r][i])
    BY <1>1, WritingFacts
<1>4. entry[P].kind = "dir" /\ dirs'[r] = Append(dirs[r], d)
    BY DEF EnterDir, Descriptor, Shape
<1>5. /\ created'[r] = Append(created[r], c) /\ written'[r] = written[r] + 1 /\ at'[r] = "create"
      /\ UNCHANGED <<entry, used, step, planned, stuck>>
    BY DEF EnterDir, WriteUnchanged, Goto, Shape, planVars
<1>6. /\ d \in used \ {Cwd, Elsewhere}
      /\ \A i \in DOMAIN dirs[r] : dirs[r][i] # d
      /\ Own(r, c) /\ c.kind = "dir"
    BY <1>1, <1>2, <1>4 DEF DiskInv, RunInv, OwnInv
<1> HIDE DEF c, d
<1>7. /\ dirs'[r] \in Seq(used \ {Elsewhere}) /\ Len(dirs'[r]) = m + 1
      /\ DOMAIN dirs'[r] = DOMAIN dirs[r] \cup {m + 1} /\ dirs'[r][m + 1] = d
      /\ \A i \in DOMAIN dirs[r] : i # m + 1 /\ dirs'[r][i] = dirs[r][i]
    BY <1>3, <1>4, <1>6
<1>8. /\ created'[r] \in Seq(Creations) /\ Len(created'[r]) = n + 1
      /\ DOMAIN created'[r] = DOMAIN created[r] \cup {n + 1}
      /\ created'[r][n + 1] = c /\ \A i \in DOMAIN created[r] : created'[r][i] = created[r][i]
    BY <1>2, <1>3, <1>5
<1>9. /\ \A i \in DOMAIN created[r] :
            <<dirs'[r][created[r][i].dir], FileKey(created[r][i].name)>> = Place(r, created[r][i])
      /\ <<dirs'[r][c.dir], FileKey(c.name)>> = P
    BY <1>2, <1>3, <1>7 DEF Place
<1> HIDE DEF P
<1>10. ControlInv(r)'
    <2>1. Len(created'[r]) <= Len(planned[r]) /\ Len(created'[r]) = written'[r]
        BY <1>1, <1>2, <1>3, <1>5, <1>8
    <2>2. \A i \in DOMAIN created'[r] :
            created'[r][i] = planned[r][i] /\ created'[r][i].dir <= Len(dirs'[r])
        <3>1. ASSUME NEW x \in Creations, x.dir \in DOMAIN dirs[r] PROVE x.dir <= Len(dirs'[r])
            BY <1>3, <1>7, <3>1
        <3>2. ASSUME NEW i \in DOMAIN created[r] PROVE created[r][i] \in Creations
            BY <1>3, <3>2
        <3> QED
            BY <1>1, <1>2, <1>3, <1>8, <3>1, <3>2
    <2>3. Len(dirs'[r]) = 1 + DirsAmong(planned[r], written'[r])
        <3>1. /\ DirsAmong(planned[r], written[r]) \in Nat
              /\ DirsAmong(planned[r], written[r] + 1) = DirsAmong(planned[r], written[r])
                    + (IF planned[r][written[r] + 1].kind = "dir" THEN 1 ELSE 0)
            <4>1. written[r] \in Nat
                BY <1>3
            <4> QED
                BY <4>1, Counting
        <3> QED
            BY <1>1, <1>5, <1>7, <3>1
    <2>4. \A i, j \in DOMAIN dirs'[r] : i # j => dirs'[r][i] # dirs'[r][j]
        BY <1>6, <1>7 DEF RunInv, ControlInv
    <2>5. written'[r] \in 0 .. Len(planned[r])
        BY <1>2, <1>3, <1>5
    <2> QED
        BY <1>1, <1>5, <1>7, <1>8, <2>1, <2>2, <2>3, <2>4, <2>5
        DEF RunInv, ControlInv, Labels, Before, Walking, Writing, Ended
<1>11. OwnInv(r)'
    <2>1. \A i \in DOMAIN created[r] : Holds(entry[Place(r, created[r][i])], created[r][i].kind, r)
        BY <1>3 DEF Own
    <2>2. Holds(entry[P], c.kind, r)
        BY <1>6 DEF Own, P
    <2>3. ASSUME NEW i \in DOMAIN created'[r]
          PROVE  Holds(entry[<<dirs'[r][created'[r][i].dir], FileKey(created'[r][i].name)>>],
                       created'[r][i].kind, r)
        BY <1>8, <1>9, <2>1, <2>2, <2>3
    <2> QED
        BY <1>5, <2>3 DEF OwnInv, Own, Place
<1>12. InsideInv(r)' /\ FrameInv(r)' /\ PlanInv(r)'
    BY <1>1, <1>5 DEF RunInv, InsideInv, FrameInv, PlanInv, Before
<1>13. ASSUME NEW p \in Places, MadeBy(entry[p], r)
       PROVE  Mine(r, p)' \/ \A i \in DOMAIN dirs'[r] : deep[p[1]] < deep[dirs'[r][i]]
    <2>1. CASE Mine(r, p)
        <3>1. p = P \/ \E i \in DOMAIN created[r] : p = Place(r, created[r][i])
            BY <1>1, <2>1 DEF Mine, P, c
        <3>2. \E i \in DOMAIN created'[r] : p = <<dirs'[r][created'[r][i].dir], FileKey(created'[r][i].name)>>
            <4>1. CASE p = P
                <5>1. n + 1 \in DOMAIN created'[r] /\ p = <<dirs'[r][created'[r][n + 1].dir], FileKey(created'[r][n + 1].name)>>
                    BY <1>8, <1>9, <4>1
                <5> QED
                    BY <5>1
            <4>2. CASE \E i \in DOMAIN created[r] : p = Place(r, created[r][i])
                <5>1. PICK i \in DOMAIN created[r] : p = Place(r, created[r][i])
                    BY <4>2
                <5>2. i \in DOMAIN created'[r] /\ created'[r][i] = created[r][i]
                    BY <1>8
                <5> QED
                    BY <1>9, <5>1, <5>2
            <4> QED
                BY <3>1, <4>1, <4>2
        <3> QED
            BY <3>2 DEF Mine, Place
    <2>2. CASE ~Mine(r, p)
        <3>1. \A i \in DOMAIN dirs[r] : rank[p[1]] < rank[dirs[r][i]]
            BY <1>13, <2>2 DEF AboveInv
        <3>2. p[1] \in used
            BY <1>13, Kinds DEF DiskInv, MadeBy
        <3>3. rank[P[1]] < rank[d]
            BY <1>2, <1>4 DEF Deeper, d
        <3>4. rank[p[1]] \in Nat /\ rank[P[1]] \in Nat /\ rank[d] \in Nat
            BY <1>2, <1>6, <3>2 DEF Deeper, DiskInv
        <3>5. rank[p[1]] < rank[d]
            <4>1. rank[p[1]] < rank[P[1]]
                BY <1>2, <3>1
            <4> QED
                BY <3>3, <3>4, <4>1
        <3>6. \A i \in DOMAIN dirs'[r] : rank[p[1]] < rank[dirs'[r][i]] /\ dirs'[r][i] \in used
            BY <1>3, <1>6, <1>7, <3>1, <3>5
        <3> QED
            BY <3>2, <3>6
    <2> QED
        BY <2>1, <2>2
<1>14. AboveInv(deep, r)'
    BY <1>5, <1>13 DEF AboveInv
<1> QED
    BY <1>5, <1>10, <1>11, <1>12, <1>14 DEF RunInv, TreeStep

\* What a run takes away is its own, and what it cannot take away it lists.
LEMMA TakenAway ==
    ASSUME Shape, DiskInv, NEW r \in Runs, NEW c, c.kind \in {"file", "dir"},
           Place(r, c) \in Places, Place(r, c)[1] \in used, Own(r, c),
           Removed(r, c) \/ NotRemoved(r, c), UNCHANGED used
    PROVE  /\ TreeStep(r)
           /\ \A p \in Places : p # Place(r, c) => entry'[p] = entry[p]
           /\ \/ entry'[Place(r, c)] = Absent /\ stuck'[r] = stuck[r]
              \/ entry' = entry /\ stuck'[r] = stuck[r] \cup {c}
<1> DEFINE P == Place(r, c)
<1>1. CASE Removed(r, c)
    <2>1. Goes(r, c) /\ Put(P, Absent) /\ stuck' = stuck
        BY <1>1 DEF Removed
    <2>2. MadeBy(entry[P], r)
        <3>1. CASE c.kind = "file"
            BY <3>1 DEF Own, Holds, MadeBy
        <3>2. CASE c.kind = "dir"
            <4>1. entry[P].kind = "dir"
                BY <2>1, <3>2 DEF Goes, DirGoes
            <4> QED
                BY <3>2, <4>1, Kinds DEF Own, Holds, MadeBy
        <3> QED
            BY <3>1, <3>2
    <2>3. Changes(r, P)
        BY <2>1, <2>2 DEF Changes
    <2> QED
        BY <2>1, <2>3 DEF TreeStep, Put, DiskInv
<1>2. CASE NotRemoved(r, c)
    BY <1>2 DEF NotRemoved, TreeStep, Shape
<1> QED
    BY <1>1, <1>2

LEMMA UnmakeKeeps ==
    ASSUME Shape, DiskInv, NEW r \in Runs, RunInv(r), Unmake(r),
           NEW rank, AboveInv(rank, r), NEW deep, \A d \in used : deep[d] = rank[d]
    PROVE  RunInv(r)' /\ TreeStep(r) /\ AboveInv(deep, r)'
<1> DEFINE c == Current(r)
           P == Place(r, c)
<1>1. /\ at[r] = "unmake" /\ at[r] \in Writing /\ written[r] < Len(planned[r])
      /\ planned[r][written[r] + 1].kind = "dir" /\ stuck[r] = {} /\ Len(created[r]) = written[r]
    BY DEF Unmake, Writing, RunInv, ControlInv, Ended
<1>2. /\ written[r] + 1 \in DOMAIN planned[r]
      /\ c = planned[r][written[r] + 1] /\ c.dir \in DOMAIN dirs[r]
      /\ P \in Places /\ P[1] \in used \ {Elsewhere}
      /\ \A i \in DOMAIN created[r] : i # written[r] + 1 => Place(r, created[r][i]) # P
    BY <1>1, CurrentFacts
<1>3. /\ created[r] \in Seq(Creations)
      /\ \A i \in DOMAIN dirs[r] : dirs[r][i] \in used \ {Elsewhere}
      /\ \A i \in DOMAIN created[r] :
            Place(r, created[r][i]) \in Places /\ Own(r, created[r][i])
    BY <1>1, WritingFacts
<1>4. /\ Removed(r, c) \/ NotRemoved(r, c)
      /\ at'[r] = "undo" /\ UNCHANGED <<used, step, dirs, planned, written, created>>
    BY DEF Unmake, WriteUnchanged, Goto, Shape, planVars
<1>5. Own(r, c)
    BY <1>1 DEF RunInv, OwnInv
<1>6. /\ TreeStep(r)
      /\ \A p \in Places : p # P => entry'[p] = entry[p]
      /\ \/ entry'[P] = Absent /\ stuck'[r] = stuck[r]
         \/ entry' = entry /\ stuck'[r] = stuck[r] \cup {c}
    BY <1>1, <1>2, <1>4, <1>5, TakenAway
<1> HIDE DEF c, P
<1>7. \A d : Place(r, d)' = Place(r, d)
    BY <1>4 DEF Place
<1>8. \A i \in DOMAIN created[r] : Place(r, created[r][i]) # P
    BY <1>1, <1>2, <1>3 DEF RunInv, ControlInv
<1>9. ControlInv(r)'
    BY <1>1, <1>2, <1>4, <1>6 DEF RunInv, ControlInv, Labels, Before, Walking, Writing, Ended
<1>10. OwnInv(r)'
    <2>1. ASSUME NEW i \in DOMAIN created[r]
          PROVE  Holds(entry'[Place(r, created[r][i])], created[r][i].kind, r)
        <3>1. entry'[Place(r, created[r][i])] = entry[Place(r, created[r][i])]
            BY <1>3, <1>6, <1>8, <2>1
        <3> QED
            BY <1>3, <2>1, <3>1 DEF Own
    <2> QED
        BY <1>4, <1>7, <2>1 DEF OwnInv, Own
<1>11. ASSUME NEW p \in Places, MadeBy(entry'[p], r)
       PROVE  /\ MadeBy(entry[p], r)
              /\ Mine(r, p) => Mine(r, p)'
    <2>1. MadeBy(entry[p], r) /\ (p = P => c \in stuck'[r])
        BY <1>6, <1>11, Kinds DEF MadeBy
    <2>2. Mine(r, p) => p = P \/ \E i \in DOMAIN created[r] : p = Place(r, created[r][i])
        BY <1>1 DEF Mine, P, c
    <2>3. p = P => Mine(r, p)'
        BY <1>7, <2>1 DEF Mine, P
    <2> QED
        BY <1>4, <1>7, <2>1, <2>2, <2>3 DEF Mine
<1>12. InsideInv(r)' /\ FrameInv(r)' /\ PlanInv(r)'
    BY <1>1, <1>4, <1>11 DEF RunInv, InsideInv, FrameInv, PlanInv, Before
<1>13. AboveInv(deep, r)'
    BY <1>3, <1>4, <1>11, AboveStays
<1> QED
    BY <1>6, <1>9, <1>10, <1>12, <1>13 DEF RunInv

LEMMA UndoKeeps ==
    ASSUME Shape, DiskInv, NEW r \in Runs, RunInv(r), Undo(r),
           NEW rank, AboveInv(rank, r), NEW deep, \A d \in used : deep[d] = rank[d]
    PROVE  RunInv(r)' /\ TreeStep(r) /\ AboveInv(deep, r)'
<1> DEFINE c == Latest(r)
           P == Place(r, c)
           n == Len(created[r])
<1>1. at[r] = "undo" /\ at[r] \in Writing /\ created[r] # <<>>
    BY DEF Undo, Writing
<1>2. /\ planned[r] \in Seq(Creations) /\ created[r] \in Seq(Creations)
      /\ \A i \in DOMAIN dirs[r] : dirs[r][i] \in used \ {Elsewhere}
      /\ \A i \in DOMAIN created[r] :
            /\ i \in DOMAIN planned[r] /\ created[r][i] = planned[r][i]
            /\ created[r][i].dir \in DOMAIN dirs[r]
            /\ Place(r, created[r][i]) \in Places
            /\ Own(r, created[r][i])
      /\ \A i, j \in DOMAIN created[r] :
            i # j => Place(r, created[r][i]) # Place(r, created[r][j])
    BY <1>1, WritingFacts
<1>3. n \in DOMAIN created[r] /\ n \in Nat \ {0} /\ c = created[r][n] /\ c = planned[r][n]
    BY <1>1, <1>2 DEF Latest
<1>4. /\ Removed(r, c) \/ NotRemoved(r, c)
      /\ created'[r] = SubSeq(created[r], 1, n - 1)
      /\ UNCHANGED <<at, used, step, dirs, planned, written>>
    BY DEF Undo, WriteUnchanged, Dropped, Shape, planVars
<1>5. P[1] \in used /\ P \in Places /\ Own(r, c) /\ c.kind \in {"file", "dir"}
    <2>1. c \in Creations
        BY <1>2, <1>3
    <2> QED
        BY <1>2, <1>3, <2>1 DEF Place, Creations
<1>6. /\ TreeStep(r)
      /\ \A p \in Places : p # P => entry'[p] = entry[p]
      /\ \/ entry'[P] = Absent /\ stuck'[r] = stuck[r]
         \/ entry' = entry /\ stuck'[r] = stuck[r] \cup {c}
    BY <1>4, <1>5, TakenAway
<1>7. /\ created'[r] \in Seq(Creations) /\ Len(created'[r]) = n - 1
      /\ DOMAIN created'[r] = DOMAIN created[r] \ {n}
      /\ \A i \in DOMAIN created'[r] : created'[r][i] = created[r][i]
    <2>1. n - 1 \in 0 .. Len(created[r])
        BY <1>3
    <2>2. /\ created'[r] \in Seq(Creations) /\ Len(created'[r]) = n - 1
          /\ DOMAIN created'[r] = 1 .. n - 1
          /\ \A i \in 1 .. n - 1 : created'[r][i] = created[r][i]
        <3>1. ASSUME NEW k \in 0 .. Len(created[r])
              PROVE  /\ SubSeq(created[r], 1, k) \in Seq(Creations) /\ Len(SubSeq(created[r], 1, k)) = k
                     /\ DOMAIN SubSeq(created[r], 1, k) = 1 .. k
                     /\ \A i \in 1 .. k : SubSeq(created[r], 1, k)[i] = created[r][i]
            BY <1>2, Shortened
        <3> QED
            BY <1>4, <2>1, <3>1
    <2>3. DOMAIN created[r] = 1 .. n
        BY <1>2
    <2>4. 1 .. n - 1 = (1 .. n) \ {n}
        BY <1>3
    <2> QED
        BY <2>2, <2>3, <2>4
<1> HIDE DEF c, P
<1>8. \A d : Place(r, d)' = Place(r, d)
    BY <1>4 DEF Place
<1>9. ControlInv(r)'
    <2>1. Len(created'[r]) <= Len(planned[r]) /\ stuck'[r] \subseteq {planned[r][i] : i \in DOMAIN planned[r]}
        <3>1. n <= Len(planned[r]) /\ n \in DOMAIN planned[r] /\ Len(planned[r]) \in Nat
            BY <1>2, <1>3
        <3> QED
            BY <1>3, <1>6, <1>7, <3>1 DEF RunInv, ControlInv
    <2>2. \A x \in stuck'[r] : x.dir \in DOMAIN dirs[r]
        BY <1>2, <1>3, <1>6 DEF RunInv, ControlInv
    <2> QED
        BY <1>1, <1>4, <1>7, <2>1, <2>2 DEF RunInv, ControlInv, Labels, Before, Walking, Writing, Ended
<1>10. OwnInv(r)'
    <2>1. ASSUME NEW i \in DOMAIN created'[r]
          PROVE  Holds(entry'[Place(r, created'[r][i])], created'[r][i].kind, r)
        <3>1. i \in DOMAIN created[r] /\ i # n /\ created'[r][i] = created[r][i]
            BY <1>7, <2>1
        <3>2. entry'[Place(r, created[r][i])] = entry[Place(r, created[r][i])]
            BY <1>2, <1>3, <1>6, <3>1 DEF P
        <3> QED
            BY <1>2, <3>1, <3>2 DEF Own
    <2> QED
        BY <1>1, <1>4, <1>8, <2>1 DEF OwnInv, Own
<1>11. ASSUME NEW p \in Places, MadeBy(entry'[p], r)
       PROVE  /\ MadeBy(entry[p], r)
              /\ Mine(r, p) => Mine(r, p)'
    <2>1. MadeBy(entry[p], r) /\ (p = P => c \in stuck'[r])
        BY <1>6, <1>11, Kinds DEF MadeBy
    <2>2. p = P => Mine(r, p)'
        BY <1>8, <2>1 DEF Mine, P
    <2>3. CASE \E i \in DOMAIN created[r] : p = Place(r, created[r][i])
        <3>1. PICK i \in DOMAIN created[r] : p = Place(r, created[r][i])
            BY <2>3
        <3>2. i = n => p = P
            BY <1>3, <3>1 DEF P
        <3>3. i # n => i \in DOMAIN created'[r] /\ p = Place(r, created'[r][i])
            BY <1>7, <3>1
        <3> QED
            BY <1>8, <2>1, <2>2, <3>2, <3>3 DEF Mine
    <2>4. CASE \E x \in stuck[r] : p = Place(r, x)
        BY <1>6, <1>8, <2>1, <2>4 DEF Mine
    <2> QED
        BY <1>1, <2>1, <2>3, <2>4 DEF Mine
<1>12. InsideInv(r)' /\ FrameInv(r)' /\ PlanInv(r)'
    BY <1>1, <1>4, <1>11 DEF RunInv, InsideInv, FrameInv, PlanInv, Before
<1>13. AboveInv(deep, r)'
    BY <1>2, <1>4, <1>11, AboveStays
<1> QED
    BY <1>6, <1>9, <1>10, <1>12, <1>13 DEF RunInv

LEMMA StepKeeps ==
    ASSUME Shape, DiskInv, NEW r \in Runs, RunInv(r), Step(r) \/ Kill(r),
           NEW rank, Deeper(rank), AboveInv(rank, r), NEW deep, \A d \in used : deep[d] = rank[d]
    PROVE  RunInv(r)' /\ TreeStep(r) /\ AboveInv(deep, r)'
<1>1. CASE Plan(r)
    BY <1>1, PlanKeeps DEF AboveInv
<1>2. CASE Walk(r) /\ UNCHANGED <<planVars, writeVars>>
    BY <1>2, WalkKeeps
<1>3. CASE Write(r)
    BY <1>3, SettledKeeps, CreateFileKeeps, WriteFileKeeps, CreateDirKeeps, EnterDirKeeps,
       UnmakeKeeps, Zenon DEF Write
<1>4. CASE Undo(r)
    BY <1>4, UndoKeeps
<1>5. CASE Undone(r)
    BY <1>5, SettledKeeps
<1>6. CASE Kill(r)
    BY <1>6, KillKeeps
<1> QED
    BY <1>1, <1>2, <1>3, <1>4, <1>5, <1>6 DEF Step

-----------------------------------------------------------------------------
(* Other programs.                                                         *)

\* What a path name of i components resolves to, from what one of i - 1 does.
MetNext(m, i) ==
    IF i = 0 THEN Dir(Other, Cwd)
    ELSE CASE m[i - 1].kind = "dir"  -> entry[m[i - 1].dir, Path[i]]
           [] m[i - 1].kind = "link" -> entry[Elsewhere, Path[i]]
           [] m[i - 1].kind = "file" -> [kind |-> "barred"]
           [] OTHER                  -> m[i - 1]

LEMMA MetChosen == Met = CHOOSE m : m = [i \in 0 .. Len(Path) |-> MetNext(m, i)]
BY DEF Met, MetNext

LEMMA MetUpTo ==
    ASSUME NEW n \in Nat
    PROVE  \E m : m = [i \in 0 .. n |-> MetNext(m, i)]
<1> DEFINE Good(k) == \E m : m = [i \in 0 .. k |-> MetNext(m, i)]
           Bad == {k \in Nat : ~Good(k)}
<1>1. Good(0)
    <2> DEFINE m == [i \in 0 .. 0 |-> Dir(Other, Cwd)]
    <2>1. m = [i \in 0 .. 0 |-> MetNext(m, i)]
        BY DEF MetNext
    <2> QED
        BY <2>1
<1>2. ASSUME NEW k \in Nat, Good(k) PROVE Good(k + 1)
    <2>1. PICK m : m = [i \in 0 .. k |-> MetNext(m, i)]
        BY <1>2
    <2> DEFINE next == [i \in 0 .. k + 1 |-> IF i <= k THEN m[i] ELSE MetNext(m, k + 1)]
    <2>2. ASSUME NEW i \in 0 .. k + 1 PROVE next[i] = MetNext(next, i)
        <3>1. \A j \in 0 .. k : next[j] = m[j] /\ m[j] = MetNext(m, j)
            BY <2>1
        <3>2. next[i] = MetNext(m, i)
            <4>1. CASE i \in 0 .. k
                BY <3>1, <4>1
            <4>2. CASE i = k + 1
                BY <4>2
            <4> QED
                BY <4>1, <4>2
        <3>3. i # 0 => next[i - 1] = m[i - 1]
            BY <3>1
        <3> HIDE DEF next
        <3>4. MetNext(next, i) = MetNext(m, i)
            <4>1. CASE i = 0
                BY <4>1, Zenon DEF MetNext
            <4>2. CASE i # 0
                BY <3>3, <4>2, Zenon DEF MetNext
            <4> QED
                BY <4>1, <4>2
        <3> QED
            BY <3>2, <3>4
    <2>3. next = [i \in 0 .. k + 1 |-> MetNext(next, i)]
        BY <2>2
    <2> QED
        BY <2>3
<1> HIDE DEF Good
<1>3. SUFFICES ASSUME ~Good(n) PROVE FALSE
    BY DEF Good
<1>4. PICK k \in Bad : \A j \in Bad : k <= j
    BY <1>3, Least
<1>5. k # 0 /\ k - 1 \in Nat /\ k - 1 \notin Bad
    BY <1>1, <1>4
<1> QED
    BY <1>2, <1>4, <1>5

LEMMA MetUnfolds ==
    \A i \in 0 .. Len(Path) : Met[i] = MetNext(Met, i)
<1>1. Met = [i \in 0 .. Len(Path) |-> MetNext(Met, i)]
    <2>1. Len(Path) \in Nat
        BY OutputDirAssumption
    <2>2. \E m : m = [i \in 0 .. Len(Path) |-> MetNext(m, i)]
        BY <2>1, MetUpTo
    <2> QED
        BY <2>2, MetChosen
<1> QED
    BY <1>1

LEMMA MetInUse ==
    ASSUME DiskInv, NEW n \in 0 .. Len(Path), Met[n].kind = "dir"
    PROVE  Met[n].dir \in used
<1> DEFINE Bad == {k \in Nat : k <= Len(Path) /\ Met[k].kind = "dir" /\ Met[k].dir \notin used}
<1>0. Len(Path) \in Nat /\ \A k \in 1 .. Len(Path) : Path[k] \in Keys
    BY OutputDirAssumption
<1>1. SUFFICES ASSUME Met[n].dir \notin used PROVE FALSE
    OBVIOUS
<1>2. Bad \in SUBSET Nat /\ Bad # {}
    BY <1>0, <1>1
<1>3. PICK k \in Bad : \A j \in Bad : k <= j
    BY <1>2, Least
<1>4. Met[k] = MetNext(Met, k)
    BY <1>0, <1>3, MetUnfolds
<1>5. CASE k = 0
    <2>1. Met[k] = Dir(Other, Cwd)
        BY <1>4, <1>5 DEF MetNext
    <2> QED
        BY <1>3, <2>1, Kinds DEF DiskInv
<1>6. CASE k # 0
    <2>1. k - 1 \in Nat /\ k \in 1 .. Len(Path) /\ k - 1 \notin Bad /\ k - 1 <= Len(Path)
        BY <1>0, <1>3, <1>6
    <2> DEFINE m == Met[k - 1]
    <2>2. m.kind = "dir" => m.dir \in used
        BY <2>1
    <2>3. /\ m.kind = "dir" => Met[k] = entry[m.dir, Path[k]]
          /\ m.kind = "link" => Met[k] = entry[Elsewhere, Path[k]]
          /\ m.kind = "file" => Met[k] = [kind |-> "barred"]
          /\ m.kind \notin {"dir", "link", "file"} => Met[k] = m
        BY <1>4, <1>6 DEF MetNext
    <2> HIDE DEF m
    <2>4. ASSUME NEW d \in used PROVE ~(Met[k] = entry[d, Path[k]])
        <3>1. <<d, Path[k]>> \in Places
            BY <1>0, <2>1 DEF DiskInv, Places
        <3> QED
            BY <1>3, <3>1 DEF DiskInv
    <2>5. CASE m.kind = "dir"
        BY <2>2, <2>3, <2>4, <2>5
    <2>6. CASE m.kind = "link"
        BY <2>3, <2>4, <2>6 DEF DiskInv
    <2>7. CASE m.kind = "file"
        BY <1>3, <2>3, <2>7
    <2>8. CASE m.kind \notin {"dir", "link", "file"}
        BY <1>3, <2>3, <2>8
    <2> QED
        BY <2>5, <2>6, <2>7, <2>8
<1> QED
    BY <1>5, <1>6

LEMMA MeddleIsATreeStep ==
    ASSUME DiskInv, Meddle(OnThePath \X Contested)
    PROVE  TreeStep(Other) /\ meddled' \in Nat
<1>1. PICK p \in OnThePath \X Contested :
        \/ /\ entry[p] = Absent
           /\ \/ Put(p, File(Other, Foreign, "all")) /\ UNCHANGED used
              \/ Put(p, Link) /\ UNCHANGED used
              \/ Make(Other, p)
        \/ /\ Swaps /\ entry[p].kind = "dir"
           /\ Put(p, Link)
           /\ UNCHANGED used
    BY DEF Meddle
<1>2. OnThePath \subseteq used
    <2>1. Len(Path) \in Nat
        BY OutputDirAssumption
    <2>2. \A i \in 1 .. Len(Path) : Met[i].kind = "dir" => Met[i].dir \in used
        BY <2>1, MetInUse
    <2> QED
        BY <2>2 DEF OnThePath, DiskInv
<1>3. p \in Places /\ p[1] \in used
    BY <1>1, <1>2, ExtractionAssumption DEF DiskInv, Places
<1>4. Changes(Other, p)
    BY <1>1, <1>3 DEF Changes, Make
<1> QED
    BY <1>3, <1>4 DEF TreeStep, Meddle, DiskInv

-----------------------------------------------------------------------------
(* The invariant holds.                                                    *)

\* A step of one actor keeps what is so of the others, and of the tree.
LEMMA StepKeepsAll ==
    ASSUME IInv, NEW by, TreeStep(by), Shape', meddled' \in Nat,
           \A q \in Runs : q # by => Still(q),
           by \in Runs => RunInv(by)',
           by \in Runs => \A rank, deep \in [Dirs -> Nat] :
                Deeper(rank) /\ AboveInv(rank, by) /\ (\A d \in used : deep[d] = rank[d])
                    => AboveInv(deep, by)'
    PROVE  IInv'
<1>1. DiskInv' /\ DiskInv
    BY DiskKept DEF IInv
<1>2. \A r \in Runs : RunInv(r)'
    BY OthersStep DEF IInv
<1>3. PICK rank \in [Dirs -> Nat] : Deeper(rank) /\ \A r \in Runs : AboveInv(rank, r)
    BY DEF IInv, DepthInv
<1>4. PICK deep \in [Dirs -> Nat] : Deeper(deep)' /\ \A d \in used : deep[d] = rank[d]
    BY <1>1, <1>3, DeeperStep
<1>5. ASSUME NEW r \in Runs PROVE AboveInv(deep, r)'
    <2>1. CASE r = by
        BY <1>3, <1>4, <2>1
    <2>2. CASE r # by
        BY <1>1, <1>3, <1>4, <2>2, OthersAbove DEF IInv
    <2> QED
        BY <2>1, <2>2
<1>6. DepthInv'
    BY <1>4, <1>5 DEF DepthInv
<1> QED
    BY <1>1, <1>2, <1>6 DEF IInv

LEMMA InitHolds == Init => IInv
<1> SUFFICES ASSUME Init PROVE IInv
    OBVIOUS
<1>1. Shape
    BY DEF Init, InitDisk, Shape
<1>2. DiskInv
    BY OutputDirAssumption, Kinds DEF Init, InitDisk, DiskInv
<1>3. \A p \in Places : entry[p] = Absent
    BY DEF Init, InitDisk
<1>4. ASSUME NEW r \in Runs PROVE RunInv(r)
    <2>1. at[r] \in {"select", "done"} /\ planned[r] = <<>> /\ dirs[r] = <<>> /\ step[r] = 1
          /\ written[r] = 0 /\ created[r] = <<>> /\ stuck[r] = {}
        BY DEF Init, InitDisk
    <2>2. PlanInv(r) /\ FrameInv(r)
        BY <2>1, EmptyPlan DEF PlanInv, FrameInv
    <2>3. 1 \in 1 .. Len(Path)
        BY OutputDirAssumption
    <2>4. ControlInv(r)
        BY <2>1, <2>3 DEF ControlInv, Labels, Before, Walking, Writing, Ended
    <2>5. OwnInv(r) /\ InsideInv(r)
        BY <1>3, <2>1, Kinds DEF OwnInv, InsideInv, MadeBy
    <2> QED
        BY <2>2, <2>4, <2>5 DEF RunInv
<1>5. DepthInv
    <2> DEFINE rank == [d \in Dirs |-> 0]
    <2>1. rank \in [Dirs -> Nat] /\ Deeper(rank)
        BY <1>3, Kinds DEF Deeper
    <2>2. \A r \in Runs : AboveInv(rank, r)
        BY <1>3, Kinds DEF AboveInv, MadeBy
    <2> HIDE DEF rank
    <2> QED
        BY <2>1, <2>2 DEF DepthInv
<1> QED
    BY <1>1, <1>2, <1>4, <1>5 DEF IInv

LEMMA NextKeeps == IInv /\ [Next]_vars => IInv'
<1> SUFFICES ASSUME IInv, [Next]_vars PROVE IInv'
    OBVIOUS
<1>1. ASSUME NEW r \in Runs, Step(r) \/ Kill(r) PROVE IInv'
    <2>1. Shape' /\ meddled' = meddled /\ \A q \in Runs \ {r} : Still(q)
        BY <1>1, OnlyItself DEF IInv
    <2>2. \A rank, deep \in [Dirs -> Nat] :
            Deeper(rank) /\ AboveInv(rank, r) /\ (\A d \in used : deep[d] = rank[d])
                => AboveInv(deep, r)'
        BY <1>1, StepKeeps DEF IInv
    <2>3. RunInv(r)' /\ TreeStep(r)
        <3>1. PICK rank \in [Dirs -> Nat] : Deeper(rank) /\ AboveInv(rank, r)
            BY DEF IInv, DepthInv
        <3> QED
            BY <1>1, <3>1, StepKeeps DEF IInv
    <2>4. meddled' \in Nat
        BY <2>1 DEF IInv, DiskInv
    <2> QED
        BY <2>1, <2>2, <2>3, <2>4, StepKeepsAll
<1>2. CASE Meddle(OnThePath \X Contested) /\ UNCHANGED <<planVars, writeVars>>
    <2>1. TreeStep(Other) /\ meddled' \in Nat
        BY <1>2, MeddleIsATreeStep DEF IInv
    <2>2. Shape' /\ \A q \in Runs : Still(q)
        BY <1>2 DEF IInv, Shape, Still, Meddle, walkVars, planVars, writeVars
    <2>3. Other \notin Runs
        BY OutputDirAssumption
    <2> QED
        BY <2>1, <2>2, <2>3, StepKeepsAll
<1>3. CASE UNCHANGED vars
    <2>1. TreeStep(Other) /\ meddled' \in Nat
        BY <1>3 DEF TreeStep, IInv, DiskInv, vars, diskVars
    <2>2. Shape' /\ \A q \in Runs : Still(q)
        BY <1>3 DEF IInv, Shape, Still, vars, walkVars, planVars, writeVars
    <2>3. Other \notin Runs
        BY OutputDirAssumption
    <2> QED
        BY <2>1, <2>2, <2>3, StepKeepsAll
<1>4. CASE Done
    BY <1>3, <1>4 DEF Done
<1> QED
    BY <1>1, <1>2, <1>3, <1>4 DEF Next

LEMMA Invariance == Spec => []IInv
<1>1. Init => IInv
    BY InitHolds
<1>2. IInv /\ [Next]_vars => IInv'
    BY NextKeeps
<1> QED
    BY <1>1, <1>2, PTL DEF Spec

-----------------------------------------------------------------------------
(* What it is for.                                                         *)

\* Whatever is swapped for a link and whenever, no run makes anything on the
\* other side of one: every open is O_NOFOLLOW, and every name is looked up in
\* a directory the run holds.
THEOREM RunsStayInside == Spec => []StaysInside
<1>1. IInv => StaysInside
    <2> SUFFICES ASSUME IInv, NEW k \in Keys, NEW r \in Runs, MadeBy(entry[Elsewhere, k], r)
                 PROVE  FALSE
        BY DEF StaysInside
    <2>1. <<Elsewhere, k>> \in Places /\ <<Elsewhere, k>>[1] = Elsewhere
        BY OutputDirAssumption DEF Places
    <2> QED
        BY <2>1 DEF IInv, RunInv, InsideInv
<1> QED
    BY <1>1, Invariance, PTL

\* A place in a directory a run holds is not above that directory.
LEMMA HeldIsMine ==
    ASSUME IInv, NEW r \in Runs, NEW i \in DOMAIN planned[r], planned[r][i].dir \in DOMAIN dirs[r],
           MadeBy(entry[Place(r, planned[r][i])], r)
    PROVE  Mine(r, Place(r, planned[r][i]))
<1> DEFINE c == planned[r][i]
           p == Place(r, c)
<1>1. PICK rank \in [Dirs -> Nat] : AboveInv(rank, r)
    BY DEF IInv, DepthInv
<1>2. p \in Places /\ dirs[r][c.dir] \in used
    BY PlacesHeld DEF IInv, RunInv
<1>3. p[1] = dirs[r][c.dir]
    BY DEF Place
<1>4. ~(rank[p[1]] < rank[dirs[r][c.dir]])
    <2>1. rank[dirs[r][c.dir]] \in Nat
        BY <1>1, <1>2 DEF IInv, DiskInv
    <2> QED
        BY <1>3, <2>1
<1> HIDE DEF p, c
<1> QED
    BY <1>1, <1>2, <1>4 DEF AboveInv, p, c

\* All or nothing: a failed run leaves, in the directories it opened, nothing of
\* its plan that it did not try to remove and could not.
THEOREM FailedRunsCleanUp == Spec => []NothingLeftBehind
<1>1. IInv => NothingLeftBehind
    <2> SUFFICES ASSUME IInv, NEW r \in Runs, at[r] = "failed", NEW i \in DOMAIN planned[r],
                        planned[r][i].dir \in DOMAIN dirs[r], planned[r][i] \notin stuck[r],
                        MadeBy(entry[Place(r, planned[r][i])], r)
                 PROVE  FALSE
        BY DEF NothingLeftBehind
    <2>1. Mine(r, Place(r, planned[r][i]))
        BY HeldIsMine
    <2>2. created[r] = <<>> /\ PlanInv(r) /\ ControlInv(r)
        BY DEF IInv, RunInv, ControlInv
    <2>3. PICK c \in stuck[r] : Place(r, planned[r][i]) = Place(r, c)
        BY <2>1, <2>2 DEF Mine
    <2>4. PICK j \in DOMAIN planned[r] : c = planned[r][j]
        BY <2>2, <2>3 DEF ControlInv
    <2>5. j # i /\ planned[r][j].dir \in DOMAIN dirs[r]
        BY <2>2, <2>3, <2>4 DEF ControlInv
    <2> QED
        BY <2>2, <2>3, <2>4, <2>5, PlacesDiffer
<1> QED
    BY <1>1, Invariance, PTL

\* No run finds its own file in its way: name_key merges at least the names the
\* filesystem merges, every later document of a name is renamed, and whatever
\* else the run made is above the directories it writes into.
THEOREM RunsNeverMeetThemselves == Spec => []NeverMeetsItself
<1>1. IInv => NeverMeetsItself
    <2> SUFFICES ASSUME IInv, NEW r \in Runs, at[r] = "create", written[r] < Len(planned[r]),
                        MadeBy(entry[Place(r, Current(r))], r)
                 PROVE  FALSE
        BY DEF NeverMeetsItself
    <2>1. DiskInv /\ RunInv(r) /\ at[r] \in Writing
        BY DEF IInv, Writing
    <2>2. /\ written[r] + 1 \in DOMAIN planned[r] /\ Current(r) = planned[r][written[r] + 1]
          /\ Current(r).dir \in DOMAIN dirs[r]
          /\ \A i \in DOMAIN created[r] : i # written[r] + 1 =>
                Place(r, created[r][i]) # Place(r, Current(r))
        BY <2>1, CurrentFacts
    <2>3. Mine(r, Place(r, Current(r)))
        BY <2>2, HeldIsMine
    <2>4. stuck[r] = {} /\ Len(created[r]) = written[r] /\ created[r] \in Seq(Creations)
        BY <2>1 DEF RunInv, ControlInv, Ended
    <2>5. \A i \in DOMAIN created[r] : i # written[r] + 1
        BY <2>4
    <2> QED
        BY <2>2, <2>3, <2>4, <2>5 DEF Mine
<1> QED
    BY <1>1, Invariance, PTL

\* A step of a run that changes the tree is one it takes a note of.
LEMMA ChangesShow ==
    ASSUME IInv, NEW r \in Runs, Step(r) \/ Kill(r)
    PROVE  entry' = entry \/ ActsNow(r)
<1> USE DEF Goto, GiveUp, WriteUnchanged, diskVars, ActsNow
<1>0. DOMAIN at = Runs /\ DOMAIN created = Runs
    BY DEF IInv, Shape
<1>1. CASE Plan(r)
    BY <1>1 DEF Plan, Select, Unresolved, PlanOneFile, Stream, PassOver, SkipUnsupported,
                PlanFails, PlanFile, PlanNested, Planned, PlanUnchanged, Refuse
<1>2. CASE Walk(r)
    <2>1. CASE MakeComponent(r)
        BY <1>0, <2>1 DEF MakeComponent
    <2> QED
        BY <1>2, <2>1 DEF Walk, Look, Open, Stat, Reopen
<1>3. CASE Write(r)
    <2>1. CASE CreateFile(r)
        BY <1>0, <2>1 DEF CreateFile, Creating
    <2>2. CASE WriteFile(r)
        BY <1>0, <2>2 DEF WriteFile
    <2>3. CASE CreateDir(r)
        BY <1>0, <2>3 DEF CreateDir, Creating
    <2>4. CASE Unmake(r)
        BY <1>0, <2>4 DEF Unmake
    <2> QED
        BY <1>3, <2>1, <2>2, <2>3, <2>4
        DEF Write, NameFree, NameTaken, AllFree, CannotCreate, EnterDir, CannotEnter, Finish
<1>4. CASE Undo(r)
    <2>1. created[r] \in Seq(Creations) /\ created[r] # <<>>
        BY <1>4 DEF Undo, IInv, RunInv, ControlInv
    <2>2. Len(created[r]) - 1 \in 0 .. Len(created[r])
        BY <2>1
    <2>3. Len(Dropped(r)) = Len(created[r]) - 1
        <3>1. ASSUME NEW k \in 0 .. Len(created[r]) PROVE Len(SubSeq(created[r], 1, k)) = k
            BY <2>1, Shortened
        <3> QED
            BY <2>2, <3>1 DEF Dropped
    <2>4. Dropped(r) # created[r]
        BY <2>1, <2>3
    <2> QED
        BY <1>0, <1>4, <2>4 DEF Undo
<1>5. CASE Undone(r) \/ Kill(r)
    BY <1>5 DEF Undone, Kill, Killed
<1> QED
    BY <1>1, <1>2, <1>3, <1>4, <1>5 DEF Step

\* The no-clobber rule: what a run made changes only in a step of that run, and
\* what other programs made no run changes at all, roll-back by name included.
THEOREM RunsKeepOthersFiles == Spec => KeepsOthersFiles
<1> DEFINE Kept ==
        meddled' = meddled =>
            \A p \in Places :
                \/ entry'[p] = entry[p]
                \/ entry[p] = Absent
                \/ \E r \in Runs : MadeBy(entry[p], r) /\ ActsNow(r)
<1>1. IInv /\ [Next]_vars => [Kept]_vars
    <2> SUFFICES ASSUME IInv, Next, meddled' = meddled, NEW p \in Places,
                        entry'[p] # entry[p], entry[p] # Absent
                 PROVE  \E r \in Runs : MadeBy(entry[p], r) /\ ActsNow(r)
        OBVIOUS
    <2>1. ~Meddle(OnThePath \X Contested)
        BY DEF Meddle, IInv, DiskInv
    <2>2. ~Done
        BY DEF Done, vars, diskVars
    <2>3. PICK r \in Runs : Step(r) \/ Kill(r)
        BY <2>1, <2>2 DEF Next
    <2>4. ActsNow(r)
        BY <2>3, ChangesShow
    <2>5. TreeStep(r)
        <3>1. PICK rank \in [Dirs -> Nat] : Deeper(rank) /\ AboveInv(rank, r)
            BY DEF IInv, DepthInv
        <3> QED
            BY <2>3, <3>1, StepKeeps DEF IInv
    <2>6. PICK s \in Places : Changes(r, s)
        BY <2>5 DEF TreeStep
    <2>7. s = p
        BY <2>6 DEF Changes, Put, IInv, DiskInv
    <2>8. MadeBy(entry[p], r)
        BY <2>6, <2>7, OutputDirAssumption DEF Changes, MadeBy
    <2> QED
        BY <2>4, <2>8
<1> QED
    BY <1>1, Invariance, PTL DEF Spec, KeepsOthersFiles

-----------------------------------------------------------------------------
(* No document is lost: a second invariant, over the first.                *)

\* The dossier a path leads to from a given one.
Leads(root, path) ==
    LET inside[i \in 0 .. Len(path)] ==
            IF i = 0 THEN root ELSE Content[inside[i - 1]][path[i]].inside
    IN  inside[Len(path)]

LeadNext(root, path, f, i) == IF i = 0 THEN root ELSE Content[f[i - 1]][path[i]].inside

LEMMA LeadUpTo ==
    ASSUME NEW root, NEW path, NEW n \in Nat
    PROVE  \E f : f = [i \in 0 .. n |-> LeadNext(root, path, f, i)]
<1> DEFINE Good(k) == \E f : f = [i \in 0 .. k |-> LeadNext(root, path, f, i)]
           Bad == {k \in Nat : ~Good(k)}
<1>1. Good(0)
    <2> DEFINE f == [i \in 0 .. 0 |-> root]
    <2>1. f = [i \in 0 .. 0 |-> LeadNext(root, path, f, i)]
        BY DEF LeadNext
    <2> QED
        BY <2>1
<1>2. ASSUME NEW k \in Nat, Good(k) PROVE Good(k + 1)
    <2>1. PICK f : f = [i \in 0 .. k |-> LeadNext(root, path, f, i)]
        BY <1>2
    <2> DEFINE next == [i \in 0 .. k + 1 |-> IF i <= k THEN f[i] ELSE LeadNext(root, path, f, k + 1)]
    <2>2. ASSUME NEW i \in 0 .. k + 1 PROVE next[i] = LeadNext(root, path, next, i)
        <3>1. \A j \in 0 .. k : next[j] = f[j] /\ f[j] = LeadNext(root, path, f, j)
            BY <2>1
        <3>2. next[i] = LeadNext(root, path, f, i)
            <4>1. CASE i \in 0 .. k
                BY <3>1, <4>1
            <4>2. CASE i = k + 1
                BY <4>2
            <4> QED
                BY <4>1, <4>2
        <3>3. i # 0 => next[i - 1] = f[i - 1]
            BY <3>1
        <3> HIDE DEF next
        <3> QED
            BY <3>2, <3>3 DEF LeadNext
    <2>3. next = [i \in 0 .. k + 1 |-> LeadNext(root, path, next, i)]
        BY <2>2
    <2> QED
        BY <2>3
<1> HIDE DEF Good
<1>3. SUFFICES ASSUME ~Good(n) PROVE FALSE
    BY DEF Good
<1>4. PICK k \in Bad : \A j \in Bad : k <= j
    BY <1>3, Least
<1>5. k # 0 /\ k - 1 \in Nat /\ k - 1 \notin Bad
    BY <1>1, <1>4
<1> QED
    BY <1>2, <1>4, <1>5

\* One level at a time.
LEMMA LeadStep ==
    ASSUME NEW root, NEW path \in Seq(Nat), NEW n \in Nat
    PROVE  /\ Leads(root, <<>>) = root
           /\ Leads(root, Append(path, n)) = Content[Leads(root, path)][n].inside
<1> DEFINE F(p) == CHOOSE f : f = [i \in 0 .. Len(p) |-> LeadNext(root, p, f, i)]
<1>1. \A p : Leads(root, p) = F(p)[Len(p)]
    BY DEF Leads, LeadNext
<1>2. ASSUME NEW p, Len(p) \in Nat
      PROVE  \A i \in 0 .. Len(p) : F(p)[i] = LeadNext(root, p, F(p), i)
    <2>1. \E f : f = [i \in 0 .. Len(p) |-> LeadNext(root, p, f, i)]
        BY <1>2, LeadUpTo
    <2>2. F(p) = [i \in 0 .. Len(p) |-> LeadNext(root, p, F(p), i)]
        BY <2>1
    <2> HIDE DEF F
    <2> QED
        BY <2>2
<1> HIDE DEF F
<1>3. Leads(root, <<>>) = root
    <2>1. Len(<<>>) = 0
        OBVIOUS
    <2>2. F(<<>>)[0] = LeadNext(root, <<>>, F(<<>>), 0)
        BY <1>2, <2>1
    <2> QED
        BY <1>1, <2>1, <2>2 DEF LeadNext
<1> DEFINE m == Len(path)
           longer == Append(path, n)
           f == F(path)
           g == F(longer)
<1>4. /\ m \in Nat /\ Len(longer) = m + 1 /\ longer[m + 1] = n
      /\ \A i \in 1 .. m : longer[i] = path[i]
    OBVIOUS
<1> HIDE DEF longer
<1>5. /\ \A i \in 0 .. m : f[i] = LeadNext(root, path, f, i)
      /\ \A i \in 0 .. m + 1 : g[i] = LeadNext(root, longer, g, i)
    <2>1. \A i \in 0 .. Len(path) : F(path)[i] = LeadNext(root, path, F(path), i)
        BY <1>2, <1>4
    <2>2. \A i \in 0 .. Len(longer) : F(longer)[i] = LeadNext(root, longer, F(longer), i)
        BY <1>2, <1>4
    <2> QED
        BY <1>4, <2>1, <2>2
<1>6. Leads(root, path) = f[m] /\ Leads(root, longer) = g[m + 1]
    BY <1>1, <1>4
<1> HIDE DEF f, g
<1>7. \A i \in 0 .. m : f[i] = g[i]
    <2> DEFINE Bad == {i \in Nat : i <= m /\ f[i] # g[i]}
    <2>1. SUFFICES ASSUME Bad # {} PROVE FALSE
        BY <1>4
    <2>2. PICK k \in Bad : \A j \in Bad : k <= j
        BY <2>1, Least
    <2>3. k \in 0 .. m /\ k \in 0 .. m + 1 /\ f[k] # g[k]
        BY <1>4, <2>2
    <2>4. f[k] = LeadNext(root, path, f, k) /\ g[k] = LeadNext(root, longer, g, k)
        BY <1>5, <2>3
    <2>5. k # 0
        BY <2>3, <2>4 DEF LeadNext
    <2>6. f[k - 1] = g[k - 1] /\ path[k] = longer[k]
        <3>1. k - 1 \notin Bad /\ k - 1 \in Nat /\ k - 1 <= m /\ k \in 1 .. m
            BY <1>4, <2>2, <2>3, <2>5
        <3> QED
            BY <1>4, <3>1
    <2> QED
        BY <2>3, <2>4, <2>5, <2>6 DEF LeadNext
<1>8. g[m + 1] = Content[g[m]][n].inside
    <2>1. m + 1 \in 0 .. m + 1 /\ m + 1 # 0 /\ (m + 1) - 1 = m
        BY <1>4
    <2> QED
        BY <1>4, <1>5, <2>1 DEF LeadNext
<1> QED
    BY <1>3, <1>4, <1>6, <1>7, <1>8 DEF longer

\* What the plan and the notes say of a document, by its path.
PathsIn(plan, kind) == {c.path : c \in {d \in {plan[i] : i \in DOMAIN plan} : d.kind = kind}}
NotedIn(ns, codes) == {n[2] : n \in {m \in ns : m[1] \in codes}}
Accounted(plan, ns) == PathsIn(plan, "file") \cup NotedIn(ns, {"document_skipped"})

Covered(root, plan, ns, path) ==
    \A i \in DOMAIN Content[Leads(root, path)] : Append(path, i) \in Accounted(plan, ns)

Explained(req, plan, ns) ==
    \A path \in PathsIn(plan, "file") :
        req.recursive /\ Leads(req.dossier, path) # "nothing" =>
            path \in PathsIn(plan, "dir") \cup NotedIn(ns, Unexpanded)

\* While it plans: each call in progress is past documents that are accounted
\* for, or at the top not asked for, and every dossier it expanded is through
\* or has a call in progress.
Tallied(req, picked, frames, plan, ns) ==
    /\ picked \subseteq DOMAIN Content[req.dossier]
    /\ frames[1].path = <<>>
    /\ \A k \in DOMAIN frames :
        /\ frames[k].dossier = Leads(req.dossier, frames[k].path)
        /\ \A i \in 1 .. frames[k].next - 1 :
            Append(frames[k].path, i) \in Accounted(plan, ns) \/ (k = 1 /\ i \notin picked)
    /\ \A path \in PathsIn(plan, "dir") :
        \/ Covered(req.dossier, plan, ns, path)
        \/ \E k \in DOMAIN frames : k # 1 /\ frames[k].path = path

\* Once it has planned.
Complete(req, picked, plan, ns) ==
    /\ \A i \in picked : <<i>> \in Accounted(plan, ns)
    /\ \A path \in PathsIn(plan, "dir") : Covered(req.dossier, plan, ns, path)
    /\ Explained(req, plan, ns)

PlannedWhole(r) ==
    /\ at[r] = "stream" => request[r].kind # "extract"
    /\ at[r] = "plan" =>
        /\ Tallied(request[r], chosen[r], stack[r], planned[r], notes[r])
        /\ Explained(request[r], planned[r], notes[r])
    /\ at[r] \notin Before \cup {"failed", "crashed"} /\ request[r].kind = "extract" =>
        Complete(request[r], chosen[r], planned[r], notes[r])

\* What a run is past is written whole, and one that is done is past everything.
WrittenWhole(r) ==
    at[r] \in {"opened", "create", "write", "enter", "done"} =>
        /\ \A i \in DOMAIN created[r] :
            i <= written[r] /\ created[r][i].kind = "file" =>
                entry[Place(r, created[r][i])] = File(r, created[r][i].path, "all")
        /\ at[r] = "done" /\ request[r].kind = "extract" =>
            written[r] = Len(planned[r]) /\ Len(created[r]) = Len(planned[r])

NothingLost(r) == PlannedWhole(r) /\ WrittenWhole(r)

LEMMA PathsGrow ==
    ASSUME NEW plan \in Seq(Creations), NEW c \in Creations, NEW kind
    PROVE  /\ PathsIn(Append(plan, c), kind) = PathsIn(plan, kind) \cup {p \in {c.path} : c.kind = kind}
           /\ Append(plan, c) \in Seq(Creations)
<1> DEFINE more == Append(plan, c)
<1>1. /\ more \in Seq(Creations)
      /\ {more[i] : i \in DOMAIN more} = {plan[i] : i \in DOMAIN plan} \cup {c}
    <2>1. /\ DOMAIN more = DOMAIN plan \cup {Len(plan) + 1} /\ more[Len(plan) + 1] = c
          /\ \A i \in DOMAIN plan : more[i] = plan[i]
        OBVIOUS
    <2> QED
        BY <2>1
<1> HIDE DEF more
<1> QED
    BY <1>1 DEF PathsIn, more

LEMMA NotesGrow ==
    ASSUME NEW ns, NEW more, NEW codes
    PROVE  /\ NotedIn(ns \cup more, codes) = NotedIn(ns, codes) \cup NotedIn(more, codes)
           /\ \A code, path : code \in codes => path \in NotedIn({<<code, path>>}, codes)
<1>1. NotedIn(ns \cup more, codes) = NotedIn(ns, codes) \cup NotedIn(more, codes)
    BY DEF NotedIn
<1>2. ASSUME NEW code, NEW path, code \in codes
      PROVE  path \in NotedIn({<<code, path>>}, codes)
    <2> DEFINE n == <<code, path>>
    <2>1. n[1] = code /\ n[2] = path
        OBVIOUS
    <2> HIDE DEF n
    <2> QED
        BY <1>2, <2>1 DEF NotedIn, n
<1> QED
    BY <1>1, <1>2

\* The top call goes on to its next document.
LEMMA TallyMoves ==
    ASSUME NEW req, NEW picked, NEW frames \in Seq(Frames), frames # <<>>,
           NEW plan, NEW ns, Tallied(req, picked, frames, plan, ns),
           NEW fresh, DOMAIN fresh = DOMAIN frames,
           \A k \in DOMAIN frames :
                /\ fresh[k].path = frames[k].path /\ fresh[k].dossier = frames[k].dossier
                /\ k # Len(frames) => fresh[k].next = frames[k].next,
           fresh[Len(frames)].next = frames[Len(frames)].next + 1,
           NEW longer, NEW more, Accounted(plan, ns) \subseteq Accounted(longer, more),
           PathsIn(longer, "dir") \subseteq PathsIn(plan, "dir"),
           \/ Append(frames[Len(frames)].path, frames[Len(frames)].next) \in Accounted(longer, more)
           \/ Len(frames) = 1 /\ frames[Len(frames)].next \notin picked
    PROVE  Tallied(req, picked, fresh, longer, more)
<1>1. 1 \in DOMAIN frames /\ Len(frames) \in DOMAIN frames
    OBVIOUS
<1>2. ASSUME NEW k \in DOMAIN fresh
      PROVE  /\ fresh[k].dossier = Leads(req.dossier, fresh[k].path)
             /\ \A i \in 1 .. fresh[k].next - 1 :
                    Append(fresh[k].path, i) \in Accounted(longer, more) \/ (k = 1 /\ i \notin picked)
    <2>1. k \in DOMAIN frames
        BY <1>2
    <2>2. ASSUME NEW i \in 1 .. fresh[k].next - 1
          PROVE  Append(fresh[k].path, i) \in Accounted(longer, more) \/ (k = 1 /\ i \notin picked)
        <3>1. frames[k].next \in Nat
            <4>1. frames[k] \in Frames
                BY <2>1
            <4> QED
                BY <4>1 DEF Frames
        <3>2. i \in 1 .. frames[k].next - 1 \/ (k = Len(frames) /\ i = frames[k].next)
            BY <2>1, <2>2, <3>1
        <3>3. CASE i \in 1 .. frames[k].next - 1
            <4>1. \A j \in 1 .. frames[k].next - 1 :
                    Append(frames[k].path, j) \in Accounted(plan, ns) \/ (k = 1 /\ j \notin picked)
                BY <2>1 DEF Tallied
            <4>2. \/ Append(frames[k].path, i) \in Accounted(plan, ns)
                  \/ k = 1 /\ i \notin picked
                BY <3>3, <4>1
            <4>3. fresh[k].path = frames[k].path
                BY <2>1
            <4> QED
                BY <4>2, <4>3
        <3>4. CASE k = Len(frames) /\ i = frames[k].next
            BY <2>1, <3>4
        <3> QED
            BY <3>2, <3>3, <3>4
    <2> QED
        BY <2>1, <2>2 DEF Tallied
<1>3. fresh[1].path = <<>> /\ picked \subseteq DOMAIN Content[req.dossier]
    BY <1>1 DEF Tallied
<1>4. ASSUME NEW path \in PathsIn(longer, "dir")
      PROVE  \/ Covered(req.dossier, longer, more, path)
             \/ \E k \in DOMAIN fresh : k # 1 /\ fresh[k].path = path
    BY <1>4 DEF Tallied, Covered
<1> QED
    BY <1>2, <1>3, <1>4 DEF Tallied

\* A call into an embedded dossier, and the return from one.
LEMMA TallyPushed ==
    ASSUME NEW req, NEW picked, NEW frames \in Seq(Frames), frames # <<>>,
           NEW plan, NEW ns, Tallied(req, picked, frames, plan, ns),
           NEW frame, frame.next = 1, frame.dossier = Leads(req.dossier, frame.path),
           NEW longer, NEW more, Accounted(plan, ns) \subseteq Accounted(longer, more),
           PathsIn(longer, "dir") \subseteq PathsIn(plan, "dir") \cup {frame.path}
    PROVE  Tallied(req, picked, Append(frames, frame), longer, more)
<1> DEFINE called == Append(frames, frame)
           m == Len(frames)
<1>1. /\ m \in Nat /\ m # 0 /\ DOMAIN frames = 1 .. m /\ DOMAIN called = 1 .. m + 1
      /\ called[m + 1] = frame /\ \A k \in 1 .. m : called[k] = frames[k]
    OBVIOUS
<1> HIDE DEF called
<1>2. ASSUME NEW k \in DOMAIN called
      PROVE  /\ called[k].dossier = Leads(req.dossier, called[k].path)
             /\ \A i \in 1 .. called[k].next - 1 :
                    Append(called[k].path, i) \in Accounted(longer, more) \/ (k = 1 /\ i \notin picked)
    <2>1. CASE k = m + 1
        BY <1>1, <2>1
    <2>2. CASE k \in 1 .. m
        BY <1>1, <2>2 DEF Tallied
    <2> QED
        BY <1>1, <2>1, <2>2
<1>3. called[1].path = <<>> /\ picked \subseteq DOMAIN Content[req.dossier]
    BY <1>1 DEF Tallied
<1>4. ASSUME NEW path \in PathsIn(longer, "dir")
      PROVE  \/ Covered(req.dossier, longer, more, path)
             \/ \E k \in DOMAIN called : k # 1 /\ called[k].path = path
    <2>1. CASE path = frame.path
        <3>1. m + 1 \in DOMAIN called /\ m + 1 # 1 /\ called[m + 1].path = path
            BY <1>1, <2>1
        <3> QED
            BY <3>1
    <2>2. CASE path \in PathsIn(plan, "dir")
        <3>1. CASE Covered(req.dossier, plan, ns, path)
            BY <3>1 DEF Covered
        <3>2. CASE \E k \in DOMAIN frames : k # 1 /\ frames[k].path = path
            BY <1>1, <3>2
        <3> QED
            BY <2>2, <3>1, <3>2 DEF Tallied
    <2> QED
        BY <1>4, <2>1, <2>2
<1> QED
    BY <1>2, <1>3, <1>4 DEF Tallied, called

\* A call that is through has accounted for every document of its dossier.
LEMMA CallThrough ==
    ASSUME NEW req, NEW picked, NEW frames \in Seq(Frames), frames # <<>>,
           NEW plan, NEW ns, Tallied(req, picked, frames, plan, ns),
           NEW k \in DOMAIN frames, frames[k].next > Len(Content[frames[k].dossier])
    PROVE  \A i \in DOMAIN Content[frames[k].dossier] :
                Append(frames[k].path, i) \in Accounted(plan, ns) \/ (k = 1 /\ i \notin picked)
<1>1. frames[k].next \in Nat /\ frames[k].dossier \in DOMAIN Content
    <2>1. frames[k] \in Frames
        OBVIOUS
    <2> QED
        BY <2>1 DEF Frames
<1>2. Content[frames[k].dossier] \in Seq({Content[frames[k].dossier][j] : j \in DOMAIN Content[frames[k].dossier]})
    BY <1>1, ContentAssumption
<1>3. \A i \in DOMAIN Content[frames[k].dossier] : i \in 1 .. frames[k].next - 1
    BY <1>1, <1>2
<1> QED
    BY <1>3 DEF Tallied

LEMMA TallyPopped ==
    ASSUME NEW req, NEW picked, NEW frames \in Seq(Frames), Len(frames) > 1,
           NEW plan, NEW ns, Tallied(req, picked, frames, plan, ns),
           frames[Len(frames)].next > Len(Content[frames[Len(frames)].dossier])
    PROVE  Tallied(req, picked, SubSeq(frames, 1, Len(frames) - 1), plan, ns)
<1> DEFINE left == SubSeq(frames, 1, Len(frames) - 1)
           m == Len(frames)
<1>1. m \in Nat /\ m - 1 \in 0 .. Len(frames) /\ m - 1 > 0 /\ DOMAIN frames = 1 .. m /\ frames # <<>>
    OBVIOUS
<1>2. DOMAIN left = 1 .. m - 1 /\ \A k \in 1 .. m - 1 : left[k] = frames[k]
    <2>1. ASSUME NEW n \in 0 .. Len(frames)
          PROVE  /\ DOMAIN SubSeq(frames, 1, n) = 1 .. n
                 /\ \A k \in 1 .. n : SubSeq(frames, 1, n)[k] = frames[k]
        BY Shortened
    <2> QED
        BY <1>1, <2>1
<1> HIDE DEF left
<1>3. \A path \in PathsIn(plan, "dir") : path = frames[m].path => Covered(req.dossier, plan, ns, path)
    <2>1. \A i \in DOMAIN Content[frames[m].dossier] : Append(frames[m].path, i) \in Accounted(plan, ns)
        <3>1. PICK k \in DOMAIN frames : k = m
            BY <1>1
        <3>2. k # 1 /\ frames # <<>> /\ frames[k].next > Len(Content[frames[k].dossier])
            BY <1>1, <3>1
        <3>3. \A i \in DOMAIN Content[frames[k].dossier] :
                Append(frames[k].path, i) \in Accounted(plan, ns) \/ (k = 1 /\ i \notin picked)
            BY <3>2, CallThrough
        <3> QED
            BY <3>1, <3>2, <3>3
    <2>2. frames[m].dossier = Leads(req.dossier, frames[m].path)
        BY <1>1 DEF Tallied
    <2> QED
        BY <2>1, <2>2 DEF Covered
<1>4. ASSUME NEW path \in PathsIn(plan, "dir"), ~Covered(req.dossier, plan, ns, path)
      PROVE  \E k \in DOMAIN left : k # 1 /\ left[k].path = path
    <2>1. PICK k \in DOMAIN frames : k # 1 /\ frames[k].path = path
        BY <1>4 DEF Tallied
    <2>2. k # m
        BY <1>3, <1>4, <2>1
    <2>3. k \in DOMAIN left /\ left[k] = frames[k]
        BY <1>1, <1>2, <2>1, <2>2
    <2> QED
        BY <2>1, <2>3
<1>5. ASSUME NEW k \in DOMAIN left
      PROVE  /\ left[k].dossier = Leads(req.dossier, left[k].path)
             /\ \A i \in 1 .. left[k].next - 1 :
                    Append(left[k].path, i) \in Accounted(plan, ns) \/ (k = 1 /\ i \notin picked)
    <2>1. k \in DOMAIN frames /\ left[k] = frames[k]
        BY <1>1, <1>2, <1>5
    <2>2. /\ frames[k].dossier = Leads(req.dossier, frames[k].path)
          /\ \A i \in 1 .. frames[k].next - 1 :
                Append(frames[k].path, i) \in Accounted(plan, ns) \/ (k = 1 /\ i \notin picked)
        BY <2>1 DEF Tallied
    <2> QED
        BY <2>1, <2>2, Zenon
<1>6. left[1] = frames[1]
    BY <1>1, <1>2
<1> QED
    BY <1>4, <1>5, <1>6 DEF Tallied, left

-----------------------------------------------------------------------------
(* Nothing is lost by any step.                                            *)

LEMMA OthersLoseNothing ==
    ASSUME DiskInv, NEW q \in Runs, RunInv(q), NothingLost(q), Still(q), request' = request,
           NEW by, by # q, TreeStep(by)
    PROVE  NothingLost(q)'
<1>1. PlannedWhole(q)'
    BY DEF NothingLost, PlannedWhole, Still
<1>2. ASSUME NEW i \in DOMAIN created[q],
             entry[Place(q, created[q][i])] = File(q, created[q][i].path, "all")
      PROVE  entry'[Place(q, created[q][i])] = entry[Place(q, created[q][i])]
    <2>1. Place(q, created[q][i]) \in Places
        BY PlacesHeld DEF RunInv
    <2> QED
        BY <1>2, <2>1, OthersKept, Kinds DEF MadeBy
<1>3. \A c : Place(q, c)' = Place(q, c)
    BY DEF Place, Still
<1>4. WrittenWhole(q)'
    BY <1>2, <1>3 DEF NothingLost, WrittenWhole, Still
<1> QED
    BY <1>1, <1>4 DEF NothingLost

\* Nothing has been written before the plan is made.
LEMMA NotYetWritten ==
    ASSUME NEW r \in Runs, RunInv(r), at[r] \in Before, UNCHANGED created,
           at'[r] \in Before \cup {"look", "failed", "done"},
           at'[r] = "done" => request'[r].kind # "extract"
    PROVE  WrittenWhole(r)'
<1>1. created'[r] = <<>>
    BY DEF RunInv, ControlInv
<1> QED
    BY <1>1 DEF WrittenWhole, Before

LEMMA EmptyPaths == \A kind : PathsIn(<<>>, kind) = {}
BY DEF PathsIn

LEMMA SelectLosesNothing ==
    ASSUME Shape, NEW r \in Runs, RunInv(r), Select(r)
    PROVE  NothingLost(r)'
<1> DEFINE frames == <<Frame(request[r].dossier, <<>>, 1)>>
<1>1. /\ at[r] = "select" /\ planned'[r] = <<>>
      /\ at'[r] = "stream" => request[r].kind # "extract"
      /\ at'[r] \in {"stream", "plan"} /\ UNCHANGED <<request, created>>
      /\ chosen'[r] \subseteq DOMAIN Content[request[r].dossier]
      /\ stack'[r] = frames
    BY DEF Select, Goto, Shape, RunInv, ControlInv, Before, writeVars, Documents
<1>2. /\ DOMAIN frames = {1} /\ frames[1].path = <<>> /\ frames[1].next = 1
      /\ frames[1].dossier = request[r].dossier
    BY DEF Frame
<1> HIDE DEF frames
<1>3. Leads(request[r].dossier, <<>>) = request[r].dossier
    <2>1. <<>> \in Seq(Nat) /\ 0 \in Nat
        OBVIOUS
    <2> QED
        BY <2>1, LeadStep
<1>4. Tallied(request[r], chosen'[r], frames, <<>>, notes'[r])
    <2>1. \A k \in DOMAIN frames : k = 1 /\ 1 .. frames[k].next - 1 = {}
        BY <1>2
    <2> QED
        BY <1>1, <1>2, <1>3, <2>1, EmptyPaths DEF Tallied
<1>5. Explained(request[r], <<>>, notes'[r])
    BY EmptyPaths DEF Explained
<1>6. PlannedWhole(r)'
    BY <1>1, <1>4, <1>5 DEF PlannedWhole, Before
<1> QED
    BY <1>1, <1>6, NotYetWritten DEF NothingLost, Before

LEMMA EndingLosesNothing ==
    ASSUME Shape, NEW r \in Runs, RunInv(r), NothingLost(r),
           Unresolved(r) \/ PlanOneFile(r) \/ Stream(r) \/ PlanFails(r)
    PROVE  NothingLost(r)'
<1>1. /\ at[r] \in Before /\ UNCHANGED <<request, created>>
      /\ \/ at'[r] = "failed"
         \/ at'[r] \in {"look", "done"} /\ request[r].kind # "extract"
    <2>1. CASE Unresolved(r) \/ PlanFails(r)
        BY <2>1 DEF Unresolved, PlanFails, Refuse, GiveUp, Goto, Shape, Planning, Decoded, Before,
                    planVars, writeVars
    <2>2. CASE PlanOneFile(r)
        BY <2>2 DEF PlanOneFile, Goto, Shape, Before, writeVars
    <2>3. CASE Stream(r)
        <3>1. at[r] = "stream" /\ UNCHANGED <<request, created>>
            BY <2>3 DEF Stream, planVars, writeVars
        <3>2. (\E why : GiveUp(r, "failed", why)) \/ Goto(r, "done")
            BY <2>3 DEF Stream
        <3>3. request[r].kind # "extract"
            BY <3>1 DEF NothingLost, PlannedWhole
        <3> QED
            BY <3>1, <3>2, <3>3 DEF GiveUp, Goto, Shape, Before
    <2> QED
        BY <2>1, <2>2, <2>3
<1>2. PlannedWhole(r)'
    BY <1>1 DEF PlannedWhole, Before
<1> QED
    BY <1>1, <1>2, NotYetWritten DEF NothingLost

\* What the top call of a plan in progress is at.
LEMMA TopTallied ==
    ASSUME NEW r \in Runs, RunInv(r), NothingLost(r), Planning(r)
    PROVE  /\ stack[r] \in Seq(Frames) /\ stack[r] # <<>>
           /\ planned[r] \in Seq(Creations)
           /\ Tallied(request[r], chosen[r], stack[r], planned[r], notes[r])
           /\ Explained(request[r], planned[r], notes[r])
           /\ PathOf(r) = Append(stack[r][Len(stack[r])].path, stack[r][Len(stack[r])].next)
           /\ Leads(request[r].dossier, PathOf(r)) = Doc(r).inside
<1>1. /\ stack[r] \in Seq(Frames) /\ stack[r] # <<>> /\ at[r] = "plan" /\ planned[r] \in Seq(Creations)
    BY DEF Planning, RunInv, FrameInv, GoodStack, PlanInv, GoodPlan
<1>2. /\ Tallied(request[r], chosen[r], stack[r], planned[r], notes[r])
      /\ Explained(request[r], planned[r], notes[r])
    BY <1>1 DEF NothingLost, PlannedWhole
<1>3. Top(r) = stack[r][Len(stack[r])] /\ Top(r) \in Frames /\ Len(stack[r]) \in DOMAIN stack[r]
    BY TopFrame DEF RunInv
<1>4. Top(r).path \in Seq(Nat) /\ Top(r).next \in Nat
    BY <1>3 DEF Frames
<1>5. Leads(request[r].dossier, Append(Top(r).path, Top(r).next))
        = Content[Leads(request[r].dossier, Top(r).path)][Top(r).next].inside
    BY <1>4, LeadStep
<1>6. Top(r).dossier = Leads(request[r].dossier, Top(r).path)
    BY <1>2, <1>3 DEF Tallied
<1> QED
    BY <1>1, <1>2, <1>3, <1>5, <1>6 DEF PathOf, Doc

LEMMA PassedOverLosesNothing ==
    ASSUME Shape, NEW r \in Runs, RunInv(r), NothingLost(r), PassOver(r) \/ SkipUnsupported(r)
    PROVE  NothingLost(r)'
<1> DEFINE fresh == Proceed(r, Top(r).taken)
           m == Len(stack[r])
<1>1. /\ Planning(r) /\ at[r] = "plan" /\ UNCHANGED <<at, planned, request, chosen, created>>
      /\ stack'[r] = fresh
    BY DEF PassOver, SkipUnsupported, Planning, PlanUnchanged, writeVars, Shape
<1>2. /\ Top(r).taken \in SUBSET FoldedNames /\ Top(r) = stack[r][m]
      /\ m \in DOMAIN stack[r]
    BY <1>1, TopFrame DEF RunInv, Frames
<1>3. /\ DOMAIN fresh = DOMAIN stack[r]
      /\ \A k \in DOMAIN stack[r] :
            /\ fresh[k].path = stack[r][k].path /\ fresh[k].dossier = stack[r][k].dossier
            /\ k # m => fresh[k].next = stack[r][k].next
      /\ fresh[m].next = stack[r][m].next + 1
    BY <1>1, <1>2, Proceeding DEF RunInv
<1>4. /\ stack[r] \in Seq(Frames) /\ stack[r] # <<>>
      /\ Tallied(request[r], chosen[r], stack[r], planned[r], notes[r])
      /\ Explained(request[r], planned[r], notes[r])
      /\ PathOf(r) = Append(stack[r][m].path, stack[r][m].next)
    BY <1>1, TopTallied
<1>5. /\ notes[r] \subseteq notes'[r]
      /\ \/ PathOf(r) \in Accounted(planned[r], notes'[r])
         \/ m = 1 /\ stack[r][m].next \notin chosen[r]
    <2>1. CASE PassOver(r)
        BY <1>2, <1>4, <2>1 DEF PassOver, LeftOut, Depth
    <2>2. CASE SkipUnsupported(r)
        <3>1. notes'[r] = notes[r] \cup {<<"document_skipped", PathOf(r)>>}
            BY <2>2 DEF SkipUnsupported, Note, Shape
        <3>2. PathOf(r) \in NotedIn({<<"document_skipped", PathOf(r)>>}, {"document_skipped"})
            BY NotesGrow
        <3>3. PathOf(r) \in NotedIn(notes'[r], {"document_skipped"})
            BY <3>1, <3>2, NotesGrow
        <3> QED
            BY <3>1, <3>3 DEF Accounted
    <2> QED
        BY <2>1, <2>2
<1>6. \A codes : NotedIn(notes[r], codes) \subseteq NotedIn(notes'[r], codes)
    BY <1>5 DEF NotedIn
<1>7. Accounted(planned[r], notes[r]) \subseteq Accounted(planned[r], notes'[r])
    BY <1>6 DEF Accounted
<1> HIDE DEF fresh, m
<1>8. Tallied(request[r], chosen[r], fresh, planned[r], notes'[r])
    BY <1>3, <1>4, <1>5, <1>7, TallyMoves DEF m
<1>9. Explained(request[r], planned[r], notes'[r])
    BY <1>4, <1>6 DEF Explained
<1>10. PlannedWhole(r)'
    BY <1>1, <1>8, <1>9 DEF PlannedWhole, Before
<1> QED
    BY <1>1, <1>10, NotYetWritten DEF NothingLost, Before

LEMMA PlanFileLosesNothing ==
    ASSUME Shape, NEW r \in Runs, RunInv(r), NothingLost(r), PlanFile(r)
    PROVE  NothingLost(r)'
<1> DEFINE fresh == Proceed(r, TakenWithFile(r))
           m == Len(stack[r])
           c == Creation("file", Top(r).dir, FileName(r), PathOf(r))
           longer == Append(planned[r], c)
<1>1. /\ Planning(r) /\ FileName(r) # NoName /\ at[r] = "plan"
      /\ UNCHANGED <<at, request, chosen, created>>
      /\ planned'[r] = longer /\ stack'[r] = fresh
    BY DEF PlanFile, Decoded, Planning, PlanUnchanged, writeVars, Shape
<1>2. /\ c \in Creations /\ c.kind = "file" /\ c.path = PathOf(r)
      /\ TakenWithFile(r) \in SUBSET FoldedNames
    <2>1. c \in Creations
        BY <1>1, FilePlanned, FoldedTaken DEF RunInv
    <2> QED
        BY <1>1, <2>1, FoldedTaken DEF RunInv, Creation
<1>3. /\ DOMAIN fresh = DOMAIN stack[r]
      /\ \A k \in DOMAIN stack[r] :
            /\ fresh[k].path = stack[r][k].path /\ fresh[k].dossier = stack[r][k].dossier
            /\ k # m => fresh[k].next = stack[r][k].next
      /\ fresh[m].next = stack[r][m].next + 1
    BY <1>1, <1>2, Proceeding, TopFrame DEF RunInv
<1>4. /\ stack[r] \in Seq(Frames) /\ stack[r] # <<>> /\ planned[r] \in Seq(Creations)
      /\ Tallied(request[r], chosen[r], stack[r], planned[r], notes[r])
      /\ Explained(request[r], planned[r], notes[r])
      /\ PathOf(r) = Append(stack[r][m].path, stack[r][m].next)
      /\ Leads(request[r].dossier, PathOf(r)) = Doc(r).inside
    BY <1>1, TopTallied
<1>5. PICK more : notes'[r] = notes[r] \cup more /\ (LooksNested(r) =>
            more = RenameNote(r, FileName(r), Doc(r).title) \cup Note(r, "nested_dossier_depth_limit")
            \/ more = RenameNote(r, FileName(r), Doc(r).title) \cup Note(r, "nested_dossier_invalid"))
    <2> DEFINE looks == CASE LooksNested(r) /\ Depth(r) >= request[r].depth ->
                                Note(r, "nested_dossier_depth_limit")
                          [] LooksNested(r) /\ Depth(r) < request[r].depth ->
                                Note(r, "nested_dossier_invalid")
                          [] OTHER -> {}
    <2>1. notes'[r] = notes[r] \cup (RenameNote(r, FileName(r), Doc(r).title) \cup looks)
        BY DEF PlanFile, Shape
    <2>2. LooksNested(r) =>
            looks = Note(r, "nested_dossier_depth_limit") \/ looks = Note(r, "nested_dossier_invalid")
        <3>1. Depth(r) \in Nat /\ request[r].depth \in Nat
            <4>1. Len(stack[r]) \in Nat /\ Len(stack[r]) # 0
                BY <1>4
            <4>2. Depth(r) \in Nat
                BY <4>1 DEF Depth
            <4>3. \A scenario \in Scenarios : scenario[r].depth \in Nat
                BY ExtractionAssumption
            <4> QED
                BY <4>2, <4>3 DEF Shape
        <3>2. Depth(r) >= request[r].depth \/ Depth(r) < request[r].depth
            BY <3>1
        <3> QED
            BY <3>2
    <2> HIDE DEF looks
    <2> QED
        BY <2>1, <2>2
<1>6. LooksNested(r) => PathOf(r) \in NotedIn(notes'[r], Unexpanded)
    <2>1. ASSUME NEW code \in Unexpanded, NEW other, more = other \cup Note(r, code)
          PROVE  PathOf(r) \in NotedIn(more, Unexpanded)
        <3>1. PathOf(r) \in NotedIn({<<code, PathOf(r)>>}, Unexpanded)
            BY NotesGrow
        <3> QED
            BY <2>1, <3>1, NotesGrow DEF Note
    <2>2. LooksNested(r) => PathOf(r) \in NotedIn(more, Unexpanded)
        BY <1>5, <2>1 DEF Unexpanded
    <2> QED
        BY <1>5, <2>2, NotesGrow
<1>7. \A codes : NotedIn(notes[r], codes) \subseteq NotedIn(notes'[r], codes)
    BY <1>5, NotesGrow
<1> HIDE DEF fresh, m, c
<1>8. /\ PathsIn(longer, "file") = PathsIn(planned[r], "file") \cup {PathOf(r)}
      /\ PathsIn(longer, "dir") = PathsIn(planned[r], "dir")
    <2>1. \A kind : PathsIn(longer, kind) = PathsIn(planned[r], kind) \cup {p \in {c.path} : c.kind = kind}
        BY <1>2, <1>4, PathsGrow
    <2> QED
        BY <1>2, <2>1
<1> HIDE DEF longer
<1>9. /\ Accounted(planned[r], notes[r]) \subseteq Accounted(longer, notes'[r])
      /\ PathOf(r) \in Accounted(longer, notes'[r])
    BY <1>7, <1>8 DEF Accounted
<1>10. Tallied(request[r], chosen[r], fresh, longer, notes'[r])
    BY <1>3, <1>4, <1>8, <1>9, TallyMoves DEF m
<1>11. Explained(request[r], longer, notes'[r])
    BY <1>4, <1>6, <1>7, <1>8 DEF Explained, LooksNested
<1>12. PlannedWhole(r)'
    BY <1>1, <1>10, <1>11 DEF PlannedWhole, Before
<1> QED
    BY <1>1, <1>12, NotYetWritten DEF NothingLost, Before

LEMMA PlanNestedLosesNothing ==
    ASSUME Shape, NEW r \in Runs, RunInv(r), NothingLost(r), PlanNested(r)
    PROVE  NothingLost(r)'
<1> DEFINE taken == TakenWithFile(r) \cup {NameKey(DirName(r))}
           fresh == Proceed(r, taken)
           m == Len(stack[r])
           c == Creation("file", Top(r).dir, FileName(r), PathOf(r))
           d == Creation("dir", Top(r).dir, DirName(r), PathOf(r))
           plan1 == Append(planned[r], c)
           plan2 == Append(plan1, d)
           child == 2 + Cardinality({i \in DOMAIN planned[r] : planned[r][i].kind = "dir"})
           frame == Frame(Doc(r).inside, PathOf(r), child)
<1>1. /\ Planning(r) /\ FileName(r) # NoName /\ Expands(r) /\ DirName(r) # NoName
      /\ at[r] = "plan" /\ UNCHANGED <<at, request, chosen, created>>
      /\ planned'[r] = planned[r] \o <<c, d>> /\ stack'[r] = Append(fresh, frame)
      /\ notes[r] \subseteq notes'[r]
    BY DEF PlanNested, Decoded, Planning, PlanUnchanged, writeVars, Shape
<1>2. /\ c \in Creations /\ c.kind = "file" /\ c.path = PathOf(r)
      /\ taken \in SUBSET FoldedNames
    <2>1. c \in Creations
        BY <1>1, FilePlanned, FoldedTaken DEF RunInv
    <2> QED
        BY <1>1, <2>1, FoldedTaken DEF RunInv, Creation
<1>3. d \in Creations /\ d.kind = "dir" /\ d.path = PathOf(r)
    <2>1. DirName(r) \in OutputNames
        BY <1>1, DirNamed DEF RunInv
    <2> QED
        BY <1>2, <2>1 DEF Creation, Creations
<1>4. /\ fresh \in Seq(Frames)
      /\ DOMAIN fresh = DOMAIN stack[r]
      /\ \A k \in DOMAIN stack[r] :
            /\ fresh[k].path = stack[r][k].path /\ fresh[k].dossier = stack[r][k].dossier
            /\ k # m => fresh[k].next = stack[r][k].next
      /\ fresh[m].next = stack[r][m].next + 1
    <2> HIDE DEF taken
    <2>1. Top(r) = stack[r][m] /\ m \in DOMAIN stack[r] /\ FrameInv(r)
        BY <1>1, TopFrame DEF RunInv
    <2> QED
        BY <1>1, <1>2, <2>1, Proceeding
<1>5. /\ stack[r] \in Seq(Frames) /\ stack[r] # <<>> /\ planned[r] \in Seq(Creations)
      /\ Tallied(request[r], chosen[r], stack[r], planned[r], notes[r])
      /\ Explained(request[r], planned[r], notes[r])
      /\ PathOf(r) = Append(stack[r][m].path, stack[r][m].next)
      /\ Leads(request[r].dossier, PathOf(r)) = Doc(r).inside
    BY <1>1, TopTallied
<1>6. \A codes : NotedIn(notes[r], codes) \subseteq NotedIn(notes'[r], codes)
    BY <1>1 DEF NotedIn
<1>7. frame.next = 1 /\ frame.dossier = Doc(r).inside /\ frame.path = PathOf(r)
    BY DEF Frame
<1> HIDE DEF taken, fresh, m, c, d, child, frame
<1>8. planned'[r] = plan2
    BY <1>1, <1>5
<1>9. /\ plan1 \in Seq(Creations)
      /\ PathsIn(plan1, "file") = PathsIn(planned[r], "file") \cup {PathOf(r)}
      /\ PathsIn(plan1, "dir") = PathsIn(planned[r], "dir")
    <2>1. /\ plan1 \in Seq(Creations)
          /\ \A kind : PathsIn(plan1, kind) = PathsIn(planned[r], kind) \cup {p \in {c.path} : c.kind = kind}
        BY <1>2, <1>5, PathsGrow
    <2> QED
        BY <1>2, <2>1
<1>10. /\ PathsIn(plan2, "file") = PathsIn(plan1, "file")
       /\ PathsIn(plan2, "dir") = PathsIn(plan1, "dir") \cup {PathOf(r)}
    <2> HIDE DEF plan1
    <2>1. \A kind : PathsIn(plan2, kind) = PathsIn(plan1, kind) \cup {p \in {d.path} : d.kind = kind}
        BY <1>3, <1>9, PathsGrow
    <2> QED
        BY <1>3, <2>1
<1> HIDE DEF plan1, plan2
<1>11. /\ Accounted(planned[r], notes[r]) \subseteq Accounted(plan1, notes'[r])
       /\ PathOf(r) \in Accounted(plan1, notes'[r])
       /\ Accounted(plan1, notes'[r]) \subseteq Accounted(plan2, notes'[r])
    BY <1>6, <1>9, <1>10 DEF Accounted
<1>12. Tallied(request[r], chosen[r], fresh, plan1, notes'[r])
    BY <1>4, <1>5, <1>9, <1>11, TallyMoves DEF m
<1>13. Tallied(request[r], chosen[r], Append(fresh, frame), plan2, notes'[r])
    <2>1. fresh # <<>>
        BY <1>4, <1>5
    <2> QED
        BY <1>4, <1>5, <1>7, <1>10, <1>11, <1>12, <2>1, TallyPushed
<1>14. Explained(request[r], plan2, notes'[r])
    BY <1>5, <1>6, <1>9, <1>10 DEF Explained
<1>15. PlannedWhole(r)'
    BY <1>1, <1>8, <1>13, <1>14 DEF PlannedWhole, Before
<1> QED
    BY <1>1, <1>15, NotYetWritten DEF NothingLost, Before

LEMMA PlannedLosesNothing ==
    ASSUME Shape, NEW r \in Runs, RunInv(r), NothingLost(r), Planned(r)
    PROVE  NothingLost(r)'
<1> DEFINE m == Len(stack[r])
<1>1. /\ at[r] = "plan" /\ UNCHANGED <<planned, notes, request, chosen, created>>
      /\ Top(r) = stack[r][m] /\ Top(r).next > Len(Content[Top(r).dossier])
    BY DEF Planned, PlanUnchanged, writeVars, Top
<1>2. /\ stack[r] \in Seq(Frames) /\ stack[r] # <<>>
      /\ Tallied(request[r], chosen[r], stack[r], planned[r], notes[r])
      /\ Explained(request[r], planned[r], notes[r])
    BY <1>1 DEF RunInv, FrameInv, GoodStack, NothingLost, PlannedWhole
<1>3. CASE m > 1
    <2>1. stack'[r] = SubSeq(stack[r], 1, m - 1) /\ UNCHANGED at
        BY <1>3 DEF Planned, Shape
    <2>2. Tallied(request[r], chosen[r], stack'[r], planned[r], notes[r])
        BY <1>1, <1>2, <1>3, <2>1, TallyPopped
    <2>3. PlannedWhole(r)'
        BY <1>1, <1>2, <2>1, <2>2 DEF PlannedWhole, Before
    <2> QED
        BY <1>1, <2>1, <2>3, NotYetWritten DEF NothingLost, Before
<1>4. CASE ~(m > 1)
    <2>1. at'[r] = "look"
        BY <1>4 DEF Planned, Goto, Shape
    <2>2. m = 1 /\ 1 \in DOMAIN stack[r]
        <3>1. m \in Nat /\ m # 0 /\ DOMAIN stack[r] = 1 .. m
            BY <1>2
        <3> HIDE DEF m
        <3>2. m = 1
            BY <1>4, <3>1
        <3> QED
            BY <3>1, <3>2
    <2>3. stack[r][1].path = <<>> /\ stack[r][1].dossier = request[r].dossier
        <3>0. /\ stack[r][1].path = <<>>
              /\ \A k \in DOMAIN stack[r] : stack[r][k].dossier = Leads(request[r].dossier, stack[r][k].path)
            BY <1>2, Zenon DEF Tallied
        <3>1. stack[r][1].path = <<>> /\ stack[r][1].dossier = Leads(request[r].dossier, stack[r][1].path)
            BY <2>2, <3>0
        <3>2. <<>> \in Seq(Nat) /\ 0 \in Nat
            OBVIOUS
        <3> QED
            BY <3>1, <3>2, LeadStep
    <2>4. ASSUME NEW i \in chosen[r]
          PROVE  <<i>> \in Accounted(planned[r], notes[r])
        <3>1. i \in DOMAIN Content[request[r].dossier]
            BY <1>2 DEF Tallied
        <3>2. stack[r][1].next > Len(Content[stack[r][1].dossier])
            BY <1>1, <2>2
        <3>3. \A j \in DOMAIN Content[stack[r][1].dossier] :
                Append(stack[r][1].path, j) \in Accounted(planned[r], notes[r]) \/ j \notin chosen[r]
            <4>1. PICK k \in DOMAIN stack[r] : k = 1
                BY <2>2
            <4>2. \A j \in DOMAIN Content[stack[r][k].dossier] :
                    \/ Append(stack[r][k].path, j) \in Accounted(planned[r], notes[r])
                    \/ k = 1 /\ j \notin chosen[r]
                BY <1>2, <3>2, <4>1, CallThrough
            <4> QED
                BY <4>1, <4>2
        <3>4. Append(<<>>, i) = <<i>>
            OBVIOUS
        <3> QED
            BY <2>3, <3>1, <3>3, <3>4
    <2>5. ASSUME NEW path \in PathsIn(planned[r], "dir")
          PROVE  Covered(request[r].dossier, planned[r], notes[r], path)
        <3>1. \A k \in DOMAIN stack[r] : k = 1
            BY <1>2, <2>2
        <3> QED
            BY <1>2, <3>1 DEF Tallied
    <2>6. Complete(request[r], chosen[r], planned[r], notes[r])
        BY <1>2, <2>4, <2>5 DEF Complete
    <2>7. PlannedWhole(r)'
        BY <1>1, <2>1, <2>6 DEF PlannedWhole, Before
    <2> QED
        BY <1>1, <2>1, <2>7, NotYetWritten DEF NothingLost, Before
<1> QED
    BY <1>3, <1>4

LEMMA PlanLosesNothing ==
    ASSUME Shape, NEW r \in Runs, RunInv(r), NothingLost(r), Plan(r)
    PROVE  NothingLost(r)'
BY SelectLosesNothing, EndingLosesNothing, PassedOverLosesNothing, PlanFileLosesNothing,
   PlanNestedLosesNothing, PlannedLosesNothing, Zenon DEF Plan

\* Once made, the plan is kept.
LEMMA PlanStays ==
    ASSUME NEW r \in Runs, NothingLost(r), UNCHANGED planVars,
           at[r] \notin Before \cup Ended, at'[r] \notin Before
    PROVE  PlannedWhole(r)'
BY DEF NothingLost, PlannedWhole, planVars, Before, Ended

LEMMA WalkLosesNothing ==
    ASSUME Shape, NEW r \in Runs, RunInv(r), NothingLost(r), Walk(r), UNCHANGED <<planVars, writeVars>>
    PROVE  NothingLost(r)'
<1>1. /\ at[r] \in Walking \cup {"look"} /\ created[r] = <<>>
      /\ at'[r] \in Walking \cup {"look", "opened", "failed"}
    <2>1. \A label : Goto(r, label) => at'[r] = label
        BY DEF Goto, Shape
    <2>2. at[r] \in Walking \cup {"look"}
        BY DEF Walk, Look, Open, Stat, MakeComponent, Reopen, Walking
    <2>3. ASSUME Descend(r) PROVE at'[r] \in {"open", "opened"}
        BY <2>1, <2>3 DEF Descend
    <2>4. \A why : WalkFails(r, why) => at'[r] = "failed"
        BY <2>1 DEF WalkFails, GiveUp
    <2>5. at'[r] \in Walking \cup {"look", "opened", "failed"}
        <3>1. CASE Look(r)
            <4>1. at[r] = "look" /\ ((\E why : WalkFails(r, why)) \/ UNCHANGED at \/ Goto(r, "open"))
                BY <3>1 DEF Look
            <4> QED
                BY <2>1, <2>4, <4>1 DEF Walking
        <3>2. CASE Open(r)
            BY <2>1, <2>3, <2>4, <3>2 DEF Open, Walking
        <3>3. CASE Stat(r)
            BY <2>1, <2>4, <3>3 DEF Stat, Walking
        <3>4. CASE MakeComponent(r)
            BY <2>1, <2>4, <3>4 DEF MakeComponent, Walking
        <3>5. CASE Reopen(r)
            BY <2>1, <2>3, <2>4, <3>5 DEF Reopen, Walking
        <3> QED
            BY <3>1, <3>2, <3>3, <3>4, <3>5 DEF Walk
    <2> QED
        BY <2>2, <2>5 DEF RunInv, ControlInv
<1>2. PlannedWhole(r)'
    BY <1>1, PlanStays DEF Before, Walking, Ended
<1>3. created'[r] = <<>>
    BY <1>1 DEF writeVars
<1>4. WrittenWhole(r)'
    BY <1>1, <1>3 DEF WrittenWhole, Walking
<1> QED
    BY <1>2, <1>4 DEF NothingLost

\* What was written whole is not where the run writes next.
LEMMA WholeStays ==
    ASSUME Shape, DiskInv, NEW r \in Runs, RunInv(r), WrittenWhole(r),
           at[r] \in {"opened", "create", "enter"},
           UNCHANGED <<dirs, written>>,
           \A i \in DOMAIN created[r] : created'[r][i] = created[r][i],
           \A i \in DOMAIN created'[r] : i \in DOMAIN created[r] \/ ~(i <= written[r]),
           \A p \in Places : entry'[p] = entry[p] \/ entry[p] = Absent,
           at'[r] # "done"
    PROVE  WrittenWhole(r)'
<1>1. ASSUME NEW i \in DOMAIN created'[r], i <= written[r], created'[r][i].kind = "file"
      PROVE  entry'[Place(r, created'[r][i])] = File(r, created'[r][i].path, "all")
    <2>1. i \in DOMAIN created[r] /\ created'[r][i] = created[r][i]
        BY <1>1
    <2>2. Place(r, created[r][i]) \in Places
        BY <2>1, PlacesHeld DEF RunInv
    <2>3. entry[Place(r, created[r][i])] = File(r, created[r][i].path, "all")
        BY <1>1, <2>1 DEF WrittenWhole
    <2> QED
        BY <2>1, <2>2, <2>3, Kinds
<1>2. \A c : Place(r, c)' = Place(r, c)
    BY DEF Place
<1> QED
    BY <1>1, <1>2 DEF WrittenWhole

LEMMA WriteLosesNothing ==
    ASSUME Shape, DiskInv, NEW r \in Runs, RunInv(r), NothingLost(r), Write(r)
    PROVE  NothingLost(r)'
<1>1. at[r] \in Writing \ {"undo"} /\ UNCHANGED planVars /\ at'[r] \notin Before
    BY DEF Write, NameFree, NameTaken, AllFree, CreateFile, CannotCreate, WriteFile, CreateDir, EnterDir,
           CannotEnter, Unmake, Finish, Creating, WriteUnchanged, GiveUp, Goto, Shape, Writing, Before
<1>2. PlannedWhole(r)'
    BY <1>1, PlanStays DEF Writing, Before, Ended
<1> SUFFICES WrittenWhole(r)'
    BY <1>2 DEF NothingLost
<1>3. PlanInv(r) /\ ControlInv(r) /\ WrittenWhole(r)
    BY DEF RunInv, NothingLost
<1>4. CASE at'[r] \notin {"opened", "create", "write", "enter", "done"}
    BY <1>4 DEF WrittenWhole
<1>5. CASE NameFree(r) \/ AllFree(r)
    <2>1. /\ at[r] = "opened" /\ at'[r] \in {"opened", "create"}
          /\ UNCHANGED <<entry, dirs, written, created>>
        BY <1>5 DEF NameFree, AllFree, Goto, Shape, writeVars
    <2> QED
        BY <1>3, <2>1, WholeStays
<1>6. CASE CreateFile(r)
    <2>1. /\ at[r] = "create" /\ written[r] < Len(planned[r]) /\ entry[Place(r, Current(r))] = Absent
          /\ at'[r] = "write" /\ created'[r] = Append(created[r], Current(r))
          /\ UNCHANGED <<dirs, written>>
          /\ Put(Place(r, Current(r)), File(r, Current(r).path, "nothing"))
        BY <1>6 DEF CreateFile, Creating, Goto, Shape
    <2>2. created[r] \in Seq(Creations) /\ Len(created[r]) = written[r]
        BY <1>3, <2>1 DEF ControlInv, Writing
    <2>3. /\ \A i \in DOMAIN created[r] : created'[r][i] = created[r][i]
          /\ \A i \in DOMAIN created'[r] : i \in DOMAIN created[r] \/ ~(i <= written[r])
        BY <2>1, <2>2
    <2>4. \A p \in Places : entry'[p] = entry[p] \/ entry[p] = Absent
        BY <2>1 DEF Put, DiskInv
    <2> QED
        BY <1>3, <2>1, <2>3, <2>4, WholeStays
<1>7. CASE CreateDir(r)
    <2>1. /\ at[r] = "create" /\ entry[Place(r, Current(r))] = Absent
          /\ at'[r] = "enter" /\ UNCHANGED <<dirs, written, created>>
          /\ \E e : Put(Place(r, Current(r)), e)
        BY <1>7 DEF CreateDir, Creating, Goto, Shape, Make, writeVars
    <2>2. \A p \in Places : entry'[p] = entry[p] \/ entry[p] = Absent
        BY <2>1 DEF Put, DiskInv
    <2> QED
        BY <1>3, <2>1, <2>2, WholeStays
<1>8. CASE WriteFile(r) /\ at'[r] = "create"
    <2> DEFINE P == Place(r, Current(r))
    <2>1. /\ at[r] = "write" /\ UNCHANGED <<dirs, created, planned>>
          /\ written'[r] = written[r] + 1
          /\ Put(P, File(r, Current(r).path, "all"))
        BY <1>8 DEF WriteFile, Goto, GiveUp, Shape, WriteUnchanged, planVars
    <2>2. written[r] < Len(planned[r]) /\ written[r] \in Nat /\ Len(created[r]) = written[r] + 1
        BY <1>3, <2>1 DEF ControlInv, Writing
    <2>3. /\ Current(r) = planned[r][written[r] + 1] /\ P \in Places
          /\ \A i \in DOMAIN created[r] : i # written[r] + 1 => Place(r, created[r][i]) # P
        BY <2>1, <2>2, CurrentFacts
    <2>4. entry'[P] = File(r, Current(r).path, "all") /\ \A p \in Places : p # P => entry'[p] = entry[p]
        BY <2>1, <2>3 DEF Put, DiskInv
    <2> HIDE DEF P
    <2>5. ASSUME NEW i \in DOMAIN created[r], created[r][i].kind = "file"
          PROVE  entry'[Place(r, created[r][i])] = File(r, created[r][i].path, "all")
        <3>1. created[r][i] = planned[r][i] /\ Place(r, created[r][i]) \in Places
            BY <1>3, PlacesHeld DEF ControlInv
        <3>2. CASE i = written[r] + 1
            BY <2>3, <2>4, <3>1, <3>2 DEF P
        <3>3. CASE i # written[r] + 1
            <4>1. i <= written[r]
                BY <2>2, <3>3
            <4>2. entry[Place(r, created[r][i])] = File(r, created[r][i].path, "all")
                BY <1>3, <2>1, <2>5, <4>1 DEF WrittenWhole
            <4> QED
                BY <2>3, <2>4, <3>1, <3>3, <4>2
        <3> QED
            BY <3>2, <3>3
    <2>6. \A c : Place(r, c)' = Place(r, c)
        BY <2>1 DEF Place
    <2> QED
        BY <1>8, <2>1, <2>5, <2>6 DEF WrittenWhole
<1>9. CASE EnterDir(r)
    <2>1. /\ at[r] = "enter" /\ at'[r] = "create" /\ UNCHANGED entry
          /\ written'[r] = written[r] + 1 /\ created'[r] = Append(created[r], Current(r))
          /\ \E d : dirs'[r] = Append(dirs[r], d)
        BY <1>9 DEF EnterDir, Goto, Shape
    <2>2. /\ written[r] < Len(planned[r]) /\ written[r] \in Nat /\ Len(created[r]) = written[r]
          /\ planned[r][written[r] + 1].kind = "dir"
          /\ created[r] \in Seq(Creations) /\ dirs[r] \in Seq(used \ {Elsewhere})
        BY <1>3, <2>1 DEF ControlInv, Writing
    <2>3. Current(r).kind = "dir"
        BY <2>2 DEF Current
    <2>4. ASSUME NEW i \in DOMAIN created'[r], created'[r][i].kind = "file"
          PROVE  entry[<<dirs'[r][created'[r][i].dir], FileKey(created'[r][i].name)>>]
                    = File(r, created'[r][i].path, "all")
        <3>1. i \in DOMAIN created[r] /\ created'[r][i] = created[r][i] /\ i <= written[r]
            BY <2>1, <2>2, <2>3, <2>4
        <3>2. created[r][i].dir \in DOMAIN dirs[r]
            BY <1>3, <3>1, PlacesHeld
        <3>3. dirs'[r][created[r][i].dir] = dirs[r][created[r][i].dir]
            BY <2>1, <2>2, <3>2
        <3>4. entry[Place(r, created[r][i])] = File(r, created[r][i].path, "all")
            BY <1>3, <2>1, <2>4, <3>1 DEF WrittenWhole
        <3> QED
            BY <3>1, <3>3, <3>4 DEF Place
    <2> QED
        BY <2>1, <2>4 DEF WrittenWhole, Place
<1>10. CASE Finish(r)
    <2>1. /\ at[r] = "create" /\ at'[r] = "done" /\ written[r] = Len(planned[r])
          /\ UNCHANGED <<entry, dirs, written, created, planned>>
        BY <1>10 DEF Finish, Goto, Shape, writeVars, WriteUnchanged, planVars
    <2>2. Len(created[r]) = written[r]
        BY <1>3, <2>1 DEF ControlInv, Writing
    <2>3. \A c : Place(r, c)' = Place(r, c)
        BY <2>1 DEF Place
    <2> QED
        BY <1>3, <2>1, <2>2, <2>3 DEF WrittenWhole
<1>11. CASE NameTaken(r) \/ CannotCreate(r) \/ CannotEnter(r) \/ Unmake(r) \/ (WriteFile(r) /\ at'[r] # "create")
    <2>1. at'[r] \in {"failed", "undo", "unmake"}
        BY <1>11 DEF NameTaken, CannotCreate, CannotEnter, Unmake, WriteFile, GiveUp, Goto, Shape
    <2> QED
        BY <1>4, <2>1
<1> QED
    BY <1>5, <1>6, <1>7, <1>8, <1>9, <1>10, <1>11 DEF Write

\* Whatever a run does, and however it ends.
LEMMA StepLosesNothing ==
    ASSUME Shape, DiskInv, NEW r \in Runs, RunInv(r), NothingLost(r), Step(r) \/ Kill(r)
    PROVE  NothingLost(r)'
<1>1. CASE Undo(r) \/ Undone(r) \/ Kill(r)
    <2>1. /\ UNCHANGED planVars /\ at[r] \notin Ended
          /\ at'[r] \in {"undo", "failed", "crashed"}
          /\ at[r] \notin Before \/ at'[r] = "crashed"
        BY <1>1 DEF Undo, Undone, Kill, Killed, WriteUnchanged, Goto, Shape, Before, Ended
    <2>2. PlannedWhole(r)'
        BY <2>1, PlanStays DEF PlannedWhole, Before, Ended
    <2>3. WrittenWhole(r)'
        BY <2>1 DEF WrittenWhole
    <2> QED
        BY <2>2, <2>3 DEF NothingLost
<1> QED
    BY <1>1, PlanLosesNothing, WalkLosesNothing, WriteLosesNothing DEF Step

AllKept == IInv /\ \A r \in Runs : NothingLost(r)

LEMMA InitLosesNothing == Init => \A r \in Runs : NothingLost(r)
<1> SUFFICES ASSUME Init, NEW r \in Runs PROVE NothingLost(r)
    OBVIOUS
<1>1. /\ at[r] = "select" \/ (at[r] = "done" /\ request[r].kind # "extract")
      /\ created[r] = <<>>
    BY DEF Init
<1> QED
    BY <1>1 DEF NothingLost, PlannedWhole, WrittenWhole, Before

LEMMA NextLosesNothing == AllKept /\ [Next]_vars => AllKept'
<1> SUFFICES ASSUME AllKept, [Next]_vars PROVE AllKept'
    OBVIOUS
<1>1. IInv' /\ IInv /\ Shape /\ DiskInv /\ \A r \in Runs : RunInv(r) /\ NothingLost(r)
    BY NextKeeps DEF AllKept, IInv
<1>2. ASSUME NEW r \in Runs, Step(r) \/ Kill(r), NEW q \in Runs PROVE NothingLost(q)'
    <2>1. TreeStep(r)
        <3>1. PICK rank \in [Dirs -> Nat] : Deeper(rank) /\ AboveInv(rank, r)
            BY <1>1 DEF IInv, DepthInv
        <3> QED
            BY <1>1, <1>2, <3>1, StepKeeps
    <2>2. request' = request /\ \A x \in Runs \ {r} : Still(x)
        BY <1>1, <1>2, OnlyItself
    <2>3. CASE q = r
        BY <1>1, <1>2, <2>3, StepLosesNothing
    <2>4. CASE q # r
        BY <1>1, <2>1, <2>2, <2>4, OthersLoseNothing
    <2> QED
        BY <2>3, <2>4
<1>3. ASSUME TreeStep(Other), request' = request, \A q \in Runs : Still(q), NEW q \in Runs
      PROVE  NothingLost(q)'
    BY <1>1, <1>3, OutputDirAssumption, OthersLoseNothing
<1>4. CASE Meddle(OnThePath \X Contested) /\ UNCHANGED <<planVars, writeVars>>
    <2>1. TreeStep(Other)
        BY <1>1, <1>4, MeddleIsATreeStep
    <2>2. request' = request /\ \A q \in Runs : Still(q)
        BY <1>4 DEF Still, Meddle, walkVars, planVars, writeVars
    <2> QED
        BY <1>1, <1>3, <2>1, <2>2 DEF AllKept
<1>5. CASE UNCHANGED vars \/ Done
    <2>1. TreeStep(Other) /\ request' = request /\ \A q \in Runs : Still(q)
        BY <1>5 DEF Done, TreeStep, Still, vars, diskVars, walkVars, planVars, writeVars
    <2> QED
        BY <1>1, <1>3, <2>1 DEF AllKept
<1> QED
    BY <1>1, <1>2, <1>4, <1>5 DEF Next, AllKept

\* Every document asked for, at the top and in every dossier that was expanded,
\* arrives in a whole file in a place of its own or is reported: no run meets
\* its own file, and one that ends well is past a plan that lost nothing.
THEOREM DocumentsArrive == Spec => []DocumentsArriveOnce
<1>1. AllKept => NoDocumentLost
    <2> SUFFICES ASSUME AllKept, NEW r \in Runs, at[r] = "done", request[r].kind = "extract"
                 PROVE  LET accounted == Paths(r, "file") \cup Noted(r, {"document_skipped"}) IN
                        /\ \A i \in chosen[r] : <<i>> \in accounted
                        /\ \A path \in Paths(r, "dir") :
                            \A i \in DOMAIN Content[DossierAt(r, path)] : Append(path, i) \in accounted
                        /\ \A path \in Paths(r, "file") :
                            request[r].recursive /\ DossierAt(r, path) # "nothing" =>
                                path \in Paths(r, "dir") \cup Noted(r, Unexpanded)
                        /\ \A c \in Outputs(r, "file") :
                            entry[Place(r, c)] = File(r, c.path, "all")
        BY DEF NoDocumentLost
    <2>1. /\ \A kind : Paths(r, kind) = PathsIn(planned[r], kind)
          /\ \A codes : Noted(r, codes) = NotedIn(notes[r], codes)
          /\ \A path : DossierAt(r, path) = Leads(request[r].dossier, path)
        BY DEF Paths, Outputs, PathsIn, Noted, NotedIn, DossierAt, Leads
    <2>2. Complete(request[r], chosen[r], planned[r], notes[r])
        BY DEF AllKept, NothingLost, PlannedWhole, Before
    <2>3. ASSUME NEW c \in Outputs(r, "file")
          PROVE  entry[Place(r, c)] = File(r, c.path, "all")
        <3>1. PICK i \in DOMAIN planned[r] : c = planned[r][i] /\ c.kind = "file"
            BY DEF Outputs
        <3>2. /\ planned[r] \in Seq(Creations) /\ created[r] \in Seq(Creations)
              /\ \A j \in DOMAIN created[r] : created[r][j] = planned[r][j]
            BY DEF AllKept, IInv, RunInv, PlanInv, GoodPlan, ControlInv
        <3>3. /\ written[r] = Len(planned[r]) /\ Len(created[r]) = Len(planned[r])
              /\ \A j \in DOMAIN created[r] :
                    j <= written[r] /\ created[r][j].kind = "file" =>
                        entry[Place(r, created[r][j])] = File(r, created[r][j].path, "all")
            BY DEF AllKept, NothingLost, WrittenWhole
        <3>4. i \in DOMAIN created[r] /\ i <= written[r]
            BY <3>2, <3>3
        <3> QED
            BY <3>1, <3>2, <3>3, <3>4
    <2> QED
        BY <2>1, <2>2, <2>3 DEF Complete, Covered, Explained, Accounted
<1>2. Init => AllKept
    BY InitHolds, InitLosesNothing DEF AllKept
<1>3. AllKept /\ [Next]_vars => AllKept'
    BY NextLosesNothing
<1>4. Spec => []NoDocumentLost
    BY <1>1, <1>2, <1>3, PTL DEF Spec
<1>5. NeverMeetsItself /\ NoDocumentLost => DocumentsArriveOnce
    BY DEF DocumentsArriveOnce
<1> QED
    BY <1>4, <1>5, RunsNeverMeetThemselves, PTL
=============================================================================
