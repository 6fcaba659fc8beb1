------------------------ MODULE EvidenceCache_proofs ------------------------
(***************************************************************************)
(* For any number of runs that cache and load, every fault and kill, and   *)
(* whatever other programs do: nothing is replaced, what a run caches is   *)
(* in the store or reported, and where no directory is swapped for a link  *)
(* cache and loader are a store of evidence that only grows.               *)
(***************************************************************************)
EXTENDS EvidenceCache, WellFoundedInduction, TLAPS

Walking == {"open", "stat", "make", "reopen"}
Making  == {"sub stat", "sub make", "sub reopen"}
Writing == {"write", "compare"}
Caching == {"opened"} \cup Making \cup Writing
Loading == {"load", "layout", "list"}

-----------------------------------------------------------------------------
(* The invariant.                                                          *)

\* What is in the tree: what runs make is named by what it holds, and others'
\* files hold nothing of theirs.
DiskInv ==
    /\ used \subseteq Dirs /\ Cwd \in used /\ Elsewhere \in used
    /\ DOMAIN entry = Places
    /\ \A p \in Places :
        \/ entry[p] = Absent
        \/ entry[p] = Link
        \/ \E by, d : entry[p] = Dir(by, d) /\ d \in used
        \/ \E by \in Runs, part \in Portions : entry[p] = File(by, p[2], part) /\ p[2] \in Items
        \/ entry[p] = File(Other, Foreign, "all")

Shape ==
    /\ request \in Scenarios
    /\ DOMAIN at = Runs /\ DOMAIN step = Runs /\ DOMAIN dirs = Runs /\ DOMAIN failure = Runs
    /\ DOMAIN saved = Runs /\ DOMAIN sub = Runs /\ DOMAIN noted = Runs
    /\ DOMAIN unread = Runs /\ DOMAIN gathered = Runs /\ DOMAIN floor = Runs

\* How far a run has come, and what it holds.
CacheControl(r) ==
    /\ at[r] \in {"look"} \cup Walking \cup Caching \cup Ended
    /\ dirs[r] \in Seq(used)
    /\ step[r] \in 1 .. Len(Path)
    /\ saved[r] \in 0 .. Len(request[r].items)
    /\ at[r] \in Walking => Len(dirs[r]) = 1
    /\ at[r] \in {"look"} \cup Walking => sub[r] = "none"
    /\ at[r] \in Caching => Len(dirs[r]) >= 1
    /\ at[r] \in Caching /\ sub[r] # "none" => Len(dirs[r]) = 2
    /\ at[r] \in Making \cup Writing => Left(r)
    /\ at[r] \in Writing => sub[r] = Wanted(r)
    /\ at[r] = "write" => entry[ItemPlace(r)] = File(r, Item(r), "nothing")
    /\ at[r] = "done" => ~Left(r)

LoadControl(r) == at[r] \in Loading \cup Ended

\* The artefact is under its own name somewhere.
Stored(x) == \E p \in Places : p[2] = x /\ Holds(p, x, "all")

\* What a run is past is there or was reported.
SavedInv(r) ==
    \A i \in 1 .. saved[r] :
        LET x == request[r].items[i] IN x \in noted[r] \/ \E d \in used : Holds(<<d, x>>, x, "all")

RunInv(r) ==
    /\ request[r].kind = "cache" => CacheControl(r) /\ SavedInv(r)
    /\ request[r].kind = "load" => LoadControl(r)

IInv == Shape /\ DiskInv /\ \A r \in Runs : RunInv(r)

-----------------------------------------------------------------------------
(* The tree.                                                               *)

\* What one step of a run, or of another program, may do at a place of it.
Changes(by, p) ==
    \/ /\ entry[p] = Absent
       /\ \E d \in Dirs \ used : Put(p, Dir(by, d)) /\ used' = used \cup {d}
    \/ /\ entry[p] = Absent /\ by \in Runs /\ Saving(by) /\ p = ItemPlace(by) /\ p[2] \in Items
       /\ Put(p, File(by, p[2], "nothing")) /\ used' = used
    \/ /\ entry[p] = File(by, p[2], "nothing") /\ by \in Runs /\ p[2] \in Items
       /\ at[by] = "write" /\ at'[by] # "write"
       /\ \E part \in {"part", "all"} : Put(p, File(by, p[2], part))
       /\ used' = used
    \/ /\ entry[p] = Absent /\ by = Other
       /\ Put(p, File(Other, Foreign, "all")) /\ used' = used
    \/ /\ entry[p] = Absent \/ (Swaps /\ entry[p].kind = "dir")
       /\ Put(p, Link) /\ used' = used

TreeStep == UNCHANGED <<entry, used>> \/ \E by \in Actors, p \in Places : Changes(by, p)

LEMMA Kinds ==
    /\ Absent.kind = "absent" /\ Link.kind = "link" /\ Absent # Link
    /\ \A by, of, part : /\ File(by, of, part).kind = "file" /\ File(by, of, part).by = by
                         /\ File(by, of, part).of = of /\ File(by, of, part).holds = part
    /\ \A by, d : Dir(by, d).kind = "dir" /\ Dir(by, d).by = by /\ Dir(by, d).dir = d
BY DEF Absent, Link, File, Dir

LEMMA Unlike ==
    /\ \A by, of, part : File(by, of, part) # Absent /\ File(by, of, part) # Link
    /\ \A by, d : Dir(by, d) # Absent /\ Dir(by, d) # Link
    /\ \A by, of, part, by2, d : File(by, of, part) # Dir(by2, d)
<1>1. ASSUME NEW by, NEW of, NEW part PROVE File(by, of, part) # Absent /\ File(by, of, part) # Link
    BY Kinds
<1>2. ASSUME NEW by, NEW d PROVE Dir(by, d) # Absent /\ Dir(by, d) # Link
    BY Kinds
<1>3. ASSUME NEW by, NEW of, NEW part, NEW b, NEW d PROVE File(by, of, part) # Dir(b, d)
    BY Kinds
<1> QED
    BY <1>1, <1>2, <1>3

\* What is in an entry, by its kind.
LEMMA Entries ==
    ASSUME DiskInv, NEW p \in Places
    PROVE  /\ entry[p].kind \in {"absent", "link", "dir", "file"}
           /\ entry[p].kind = "absent" => entry[p] = Absent
           /\ entry[p].kind = "link" => entry[p] = Link
           /\ entry[p].kind = "dir" => entry[p].dir \in used
           /\ entry[p].kind = "file" => \/ \E by \in Runs, part \in Portions : entry[p] = File(by, p[2], part) /\ p[2] \in Items
                                        \/ entry[p] = File(Other, Foreign, "all")
<1>1. CASE entry[p] = Absent
    BY <1>1, Kinds
<1>2. CASE entry[p] = Link
    BY <1>2, Kinds
<1>3. CASE \E by, d : entry[p] = Dir(by, d) /\ d \in used
    BY <1>3, Kinds
<1>4. CASE \E by \in Runs, part \in Portions : entry[p] = File(by, p[2], part) /\ p[2] \in Items
    BY <1>4, Kinds
<1>5. CASE entry[p] = File(Other, Foreign, "all")
    BY <1>5, Kinds
<1> QED
    BY <1>1, <1>2, <1>3, <1>4, <1>5 DEF DiskInv

\* One place changes.
LEMMA OnePlace ==
    ASSUME DiskInv, NEW p \in Places, NEW e, Put(p, e)
    PROVE  DOMAIN entry' = Places /\ \A q \in Places : entry'[q] = IF q = p THEN e ELSE entry[q]
BY DEF DiskInv, Put

LEMMA DiskKept ==
    ASSUME DiskInv, TreeStep
    PROVE  DiskInv' /\ used \subseteq used'
<1>1. CASE UNCHANGED <<entry, used>>
    BY <1>1 DEF DiskInv
<1>2. ASSUME NEW by \in Actors, NEW p \in Places, Changes(by, p) PROVE DiskInv' /\ used \subseteq used'
    <2>1. used \subseteq used' /\ used' \subseteq Dirs
        BY <1>2 DEF Changes, DiskInv
    <2>2. PICK e : /\ Put(p, e)
                   /\ \/ e = Link
                      \/ \E b, d : e = Dir(b, d) /\ d \in used'
                      \/ \E b \in Runs, part \in Portions : e = File(b, p[2], part) /\ p[2] \in Items
                      \/ e = File(Other, Foreign, "all")
        <3>1. CASE \E d \in Dirs \ used : Put(p, Dir(by, d)) /\ used' = used \cup {d}
            BY <3>1
        <3>2. CASE by \in Runs /\ p[2] \in Items /\ \E part \in Portions : Put(p, File(by, p[2], part))
            BY <3>2
        <3>3. CASE Put(p, File(Other, Foreign, "all"))
            BY <3>3
        <3>4. CASE Put(p, Link)
            BY <3>4
        <3> QED
            BY <1>2, <3>1, <3>2, <3>3, <3>4 DEF Changes, Portions
    <2>3. DOMAIN entry' = Places /\ \A q \in Places : entry'[q] = IF q = p THEN e ELSE entry[q]
        BY <2>2, OnePlace
    <2> QED
        BY <2>1, <2>2, <2>3 DEF DiskInv
<1> QED
    BY <1>1, <1>2 DEF TreeStep

\* A file changes only when the run that made it writes it.
LEMMA FilesKept ==
    ASSUME DiskInv, TreeStep, NEW p \in Places, entry[p].kind = "file", entry'[p] # entry[p]
    PROVE  \E r \in Runs, part \in {"part", "all"} :
              /\ entry[p] = File(r, p[2], "nothing") /\ entry'[p] = File(r, p[2], part)
              /\ at[r] = "write" /\ at'[r] # "write"
<1>1. PICK by \in Actors, q \in Places : Changes(by, q)
    BY DEF TreeStep
<1>2. \E e : Put(q, e)
    BY <1>1 DEF Changes
<1>3. p = q
    BY <1>2, OnePlace
<1>4. entry[p] # Absent /\ entry[p].kind # "dir"
    BY Kinds
<1>5. PICK part \in {"part", "all"} :
        /\ entry[p] = File(by, p[2], "nothing") /\ by \in Runs /\ Put(p, File(by, p[2], part))
        /\ at[by] = "write" /\ at'[by] # "write"
    BY <1>1, <1>3, <1>4 DEF Changes
<1>6. entry'[p] = File(by, p[2], part)
    BY <1>5, OnePlace
<1> QED
    BY <1>5, <1>6

\* What is whole stays.
LEMMA WholeStays ==
    ASSUME DiskInv, TreeStep, NEW p \in Places, NEW x, Holds(p, x, "all")
    PROVE  Holds(p, x, "all")'
<1>1. CASE entry'[p] = entry[p]
    BY <1>1 DEF Holds
<1>2. CASE entry'[p] # entry[p]
    <2>1. PICK r \in Runs : entry[p] = File(r, p[2], "nothing")
        BY <1>2, FilesKept DEF Holds
    <2> QED
        BY <2>1, Kinds DEF Holds
<1> QED
    BY <1>1, <1>2

-----------------------------------------------------------------------------
(* Control.                                                                *)

\* A step of one run leaves what the others know.
OnlyRun(r) ==
    /\ request' = request
    /\ DOMAIN at' = Runs /\ DOMAIN step' = Runs /\ DOMAIN dirs' = Runs /\ DOMAIN failure' = Runs
    /\ DOMAIN saved' = Runs /\ DOMAIN sub' = Runs /\ DOMAIN noted' = Runs
    /\ DOMAIN unread' = Runs /\ DOMAIN gathered' = Runs /\ DOMAIN floor' = Runs
    /\ \A q \in Runs \ {r} :
        /\ at'[q] = at[q] /\ step'[q] = step[q] /\ dirs'[q] = dirs[q] /\ saved'[q] = saved[q]
        /\ sub'[q] = sub[q] /\ noted'[q] = noted[q] /\ unread'[q] = unread[q]
        /\ gathered'[q] = gathered[q] /\ floor'[q] = floor[q]

LEMMA KindOf ==
    ASSUME Shape, NEW r \in Runs, RunInv(r)
    PROVE  /\ request[r].kind \in {"cache", "load"} /\ request[r].items \in Seq(Items)
           /\ at[r] \in {"look"} \cup Walking \cup Caching => request[r].kind = "cache"
           /\ at[r] \in Loading => request[r].kind = "load"
<1>1. request[r].kind \in {"cache", "load"} /\ request[r].items \in Seq(Items)
    BY CacheAssumption DEF Shape
<1> QED
    BY <1>1 DEF RunInv, LoadControl, CacheControl, Walking, Caching, Making, Writing, Loading, Ended

\* The artefact a run is at, and where it belongs.
LEMMA AtItem ==
    ASSUME Shape, NEW r \in Runs, RunInv(r), CacheControl(r), Left(r)
    PROVE  /\ Item(r) \in Items /\ Item(r) \in Keys /\ Item(r) = request[r].items[saved[r] + 1]
           /\ saved[r] + 1 \in DOMAIN request[r].items
           /\ Wanted(r) \in Subdirs /\ Wanted(r) \in Keys /\ Wanted(r) # "none"
<1>1. request[r].items \in Seq(Items)
    BY KindOf
<1>2. saved[r] + 1 \in DOMAIN request[r].items
    BY <1>1 DEF CacheControl, Left
<1>3. Item(r) \in Items
    BY <1>1, <1>2 DEF Item
<1>4. Wanted(r) \in Subdirs
    BY <1>3, CacheAssumption DEF Wanted
<1> QED
    BY <1>2, <1>3, <1>4, CacheAssumption DEF Item, Subdirs

\* The places a run works at.
LEMMA InPlaces ==
    ASSUME Shape, DiskInv, NEW r \in Runs, RunInv(r), CacheControl(r)
    PROVE  /\ at[r] \in Walking => Component(r) \in Places /\ Here(r) = dirs[r][1] /\ Here(r) \in used
           /\ at[r] \in Caching /\ Left(r) => SubPlace(r) \in Places /\ dirs[r][1] \in used
           /\ at[r] \in Caching /\ sub[r] # "none" =>
                dirs[r][2] \in used /\ (Left(r) => ItemPlace(r) \in Places /\ ItemPlace(r)[2] = Item(r))
<1>1. dirs[r] \in Seq(used) /\ used \subseteq Dirs /\ step[r] \in 1 .. Len(Path) /\ Path \in Seq(Keys)
    BY OutputDirAssumption DEF CacheControl, DiskInv
<1>2. ASSUME at[r] \in Walking PROVE Component(r) \in Places /\ Here(r) = dirs[r][1] /\ Here(r) \in used
    <2>1. Len(dirs[r]) = 1
        BY <1>2 DEF CacheControl
    <2> QED
        BY <1>1, <2>1 DEF Component, Here, Places
<1>3. ASSUME at[r] \in Caching, Left(r) PROVE SubPlace(r) \in Places /\ dirs[r][1] \in used
    <2>1. Len(dirs[r]) >= 1 /\ Len(dirs[r]) \in Nat
        BY <1>1, <1>3 DEF CacheControl
    <2>2. dirs[r][1] \in used
        BY <1>1, <2>1
    <2>3. Wanted(r) \in Keys
        BY <1>3, AtItem
    <2> QED
        BY <1>1, <2>2, <2>3 DEF SubPlace, Places
<1>4. ASSUME at[r] \in Caching, sub[r] # "none"
      PROVE  dirs[r][2] \in used /\ (Left(r) => ItemPlace(r) \in Places /\ ItemPlace(r)[2] = Item(r))
    <2>1. Len(dirs[r]) = 2
        BY <1>4 DEF CacheControl
    <2>2. dirs[r][2] \in used
        BY <1>1, <2>1
    <2>3. Left(r) => Item(r) \in Keys
        BY AtItem
    <2> QED
        BY <1>1, <2>2, <2>3 DEF ItemPlace, Places
<1> QED
    BY <1>2, <1>3, <1>4

\* What a run is past stays true of the tree.
LEMMA SavedStays ==
    ASSUME Shape, DiskInv, TreeStep, NEW q \in Runs, RunInv(q), CacheControl(q), SavedInv(q),
           request' = request, noted[q] \subseteq noted'[q]
    PROVE  \A i \in 1 .. saved[q] :
              LET x == request[q].items[i] IN x \in noted'[q] \/ \E d \in used' : Holds(<<d, x>>, x, "all")'
<1>1. ASSUME NEW i \in 1 .. saved[q], NEW x, x = request[q].items[i]
      PROVE  x \in noted'[q] \/ \E d \in used' : Holds(<<d, x>>, x, "all")'
    <2>1. request[q].items \in Seq(Items) /\ i \in DOMAIN request[q].items
        BY KindOf DEF CacheControl
    <2>2. x \in Keys
        BY <1>1, <2>1, CacheAssumption
    <2>3. ASSUME NEW d \in used, Holds(<<d, x>>, x, "all") PROVE d \in used' /\ Holds(<<d, x>>, x, "all")'
        <3>1. <<d, x>> \in Places
            BY <2>2 DEF DiskInv, Places
        <3> QED
            BY <2>3, <3>1, DiskKept, WholeStays
    <2>4. x \in noted[q] \/ \E d \in used : Holds(<<d, x>>, x, "all")
        BY <1>1 DEF SavedInv
    <2> QED
        BY <2>3, <2>4
<1> QED
    BY <1>1 DEF Holds

\* A run that does not act keeps what it knows.
LEMMA RunKept ==
    ASSUME Shape, DiskInv, TreeStep, NEW q \in Runs, RunInv(q), request' = request,
           at'[q] = at[q], step'[q] = step[q], dirs'[q] = dirs[q], saved'[q] = saved[q],
           sub'[q] = sub[q], noted'[q] = noted[q]
    PROVE  RunInv(q)'
<1>1. CASE request[q].kind = "load"
    BY <1>1 DEF RunInv, LoadControl
<1>2. CASE request[q].kind = "cache"
    <2>1. CacheControl(q) /\ SavedInv(q)
        BY <1>2 DEF RunInv
    <2>2. used \subseteq used' /\ dirs'[q] \in Seq(used')
        <3>1. dirs[q] \in Seq(used) /\ used \subseteq used'
            BY <2>1, DiskKept DEF CacheControl
        <3> QED
            BY <3>1
    <2>3. Left(q)' = Left(q) /\ Item(q)' = Item(q) /\ Wanted(q)' = Wanted(q) /\ ItemPlace(q)' = ItemPlace(q)
        BY DEF Left, Item, Wanted, ItemPlace
    <2>4. ASSUME at[q] = "write" PROVE entry'[ItemPlace(q)] = File(q, Item(q), "nothing")
        <3>1. entry[ItemPlace(q)] = File(q, Item(q), "nothing") /\ Left(q) /\ sub[q] # "none"
            BY <2>1, <2>4, AtItem DEF CacheControl, Writing
        <3>2. ItemPlace(q) \in Places
            BY <2>1, <2>4, <3>1, InPlaces DEF Caching, Writing
        <3>3. SUFFICES ASSUME entry'[ItemPlace(q)] # entry[ItemPlace(q)] PROVE FALSE
            BY <3>1
        <3>4. PICK r \in Runs : entry[ItemPlace(q)] = File(r, ItemPlace(q)[2], "nothing") /\ at'[r] # "write"
            BY <3>1, <3>2, <3>3, FilesKept, Kinds
        <3>5. r = q
            BY <3>1, <3>4, Kinds
        <3> QED
            BY <2>4, <3>4, <3>5
    <2>5. CacheControl(q)'
        BY <2>1, <2>2, <2>3, <2>4 DEF CacheControl
    <2>6. SavedInv(q)'
        BY <2>1, SavedStays DEF SavedInv
    <2> QED
        BY <1>2, <2>5, <2>6 DEF RunInv
<1> QED
    BY <1>1, <1>2, KindOf

\* So the invariant holds after a step of a run that leaves it with its own.
LEMMA StepOfOne ==
    ASSUME IInv, NEW r \in Runs, OnlyRun(r), TreeStep, RunInv(r)'
    PROVE  IInv'
<1>1. Shape' /\ DiskInv'
    BY DiskKept DEF IInv, Shape, OnlyRun
<1>2. ASSUME NEW q \in Runs PROVE RunInv(q)'
    <2>1. CASE q = r
        BY <2>1
    <2>2. CASE q # r
        BY <2>2, RunKept DEF IInv, OnlyRun
    <2> QED
        BY <2>1, <2>2
<1> QED
    BY <1>1, <1>2 DEF IInv

-----------------------------------------------------------------------------
(* The steps.                                                              *)

\* A step that neither saves nor reports.
LEMMA CacheStep ==
    ASSUME IInv, NEW r \in Runs, request[r].kind = "cache", OnlyRun(r), TreeStep,
           CacheControl(r)', saved'[r] = saved[r], noted'[r] = noted[r]
    PROVE  IInv'
<1>1. CacheControl(r) /\ SavedInv(r) /\ Shape /\ DiskInv /\ RunInv(r) /\ request' = request
    BY DEF IInv, RunInv, OnlyRun
<1>2. SavedInv(r)'
    BY <1>1, SavedStays DEF SavedInv
<1>3. RunInv(r)'
    BY <1>1, <1>2 DEF RunInv
<1> QED
    BY <1>3, StepOfOne

\* One that gives up, or only moves on in the same directories.
LEMMA WalkFailsKeeps ==
    ASSUME IInv, NEW r \in Runs, at[r] \in {"look"} \cup Walking, NEW why, WalkFails(r, why),
           UNCHANGED <<entry, used, requestVars, cacheVars, loadVars>>
    PROVE  IInv'
<1>1. Shape /\ DiskInv /\ RunInv(r) /\ request[r].kind = "cache"
    BY KindOf DEF IInv
<1>2. CacheControl(r)
    BY <1>1 DEF RunInv
<1>3. at'[r] = "failed" /\ dirs'[r] = <<>> /\ OnlyRun(r)
    BY <1>1 DEF WalkFails, GiveUp, Goto, OnlyRun, Shape, requestVars, cacheVars, loadVars
<1>4. CacheControl(r)'
    <2>1. dirs'[r] \in Seq(used')
        BY <1>3
    <2>2. step' = step /\ saved' = saved /\ sub' = sub /\ request' = request
        BY DEF WalkFails, cacheVars, requestVars
    <2> QED
        BY <1>2, <1>3, <2>1, <2>2 DEF CacheControl, Walking, Caching, Making, Writing, Ended
<1> QED
    BY <1>1, <1>3, <1>4, CacheStep DEF TreeStep, cacheVars

LEMMA LookKeeps ==
    ASSUME IInv, NEW r \in Runs, Look(r), UNCHANGED <<requestVars, cacheVars, loadVars>>
    PROVE  IInv'
<1>1. Shape /\ DiskInv /\ RunInv(r) /\ request[r].kind = "cache" /\ at[r] = "look"
    BY KindOf DEF IInv, Look
<1>2. CacheControl(r) /\ Len(Path) \in Nat /\ Len(Path) >= 1
    BY <1>1, OutputDirAssumption DEF RunInv
<1>3. ASSUME NEW why, WalkFails(r, why) PROVE IInv'
    BY <1>1, <1>3, WalkFailsKeeps DEF Look, diskVars
<1>4. CASE UNCHANGED failure
    <2>1. \/ step[r] < Len(Path) /\ step' = [step EXCEPT ![r] = @ + 1] /\ UNCHANGED <<at, dirs>>
          \/ step' = [step EXCEPT ![r] = 1] /\ dirs' = [dirs EXCEPT ![r] = <<Cwd>>] /\ Goto(r, "open")
          \/ \E why : WalkFails(r, why)
        BY <1>4 DEF Look
    <2>2. CASE step[r] < Len(Path) /\ step' = [step EXCEPT ![r] = @ + 1] /\ UNCHANGED <<at, dirs>>
        <3>1. OnlyRun(r) /\ step'[r] = step[r] + 1
            BY <1>1, <1>4, <2>2 DEF OnlyRun, Shape, requestVars, cacheVars, loadVars
        <3>2. saved' = saved /\ sub' = sub /\ request' = request /\ used' = used
            BY DEF cacheVars, requestVars, Look, diskVars
        <3>3. step'[r] \in 1 .. Len(Path) /\ dirs' = dirs /\ at' = at
            BY <1>2, <2>2, <3>1 DEF CacheControl
        <3>4. CacheControl(r)'
            BY <1>1, <1>2, <3>2, <3>3 DEF CacheControl, Walking, Caching, Making, Writing, Ended
        <3> QED
            BY <1>1, <3>1, <3>4, CacheStep DEF TreeStep, cacheVars, Look, diskVars
    <2>3. CASE step' = [step EXCEPT ![r] = 1] /\ dirs' = [dirs EXCEPT ![r] = <<Cwd>>] /\ Goto(r, "open")
        <3>1. OnlyRun(r) /\ step'[r] = 1 /\ dirs'[r] = <<Cwd>> /\ at'[r] = "open"
            BY <1>1, <1>4, <2>3 DEF OnlyRun, Shape, Goto, requestVars, cacheVars, loadVars
        <3>2. dirs'[r] \in Seq(used') /\ Len(dirs'[r]) = 1
            BY <1>1, <3>1 DEF DiskInv, Look, diskVars
        <3>3. CacheControl(r)'
            BY <1>1, <1>2, <3>1, <3>2 DEF CacheControl, Walking, Caching, Making, Writing, Ended,
                    cacheVars, requestVars
        <3> QED
            BY <1>1, <3>1, <3>3, CacheStep DEF TreeStep, cacheVars, Look, diskVars
    <2> QED
        BY <1>3, <2>1, <2>2, <2>3
<1> QED
    BY <1>3, <1>4 DEF Look

LEMMA DescendKeeps ==
    ASSUME IInv, NEW r \in Runs, at[r] \in Walking, Descend(r),
           UNCHANGED <<entry, used, requestVars, cacheVars, loadVars>>
    PROVE  IInv'
<1>1. Shape /\ DiskInv /\ RunInv(r) /\ request[r].kind = "cache"
    BY KindOf DEF IInv
<1>2. CacheControl(r) /\ Len(Path) \in Nat /\ Len(Path) >= 1
    BY <1>1, OutputDirAssumption DEF RunInv
<1>3. PICK d \in Descriptor(entry[Component(r)]) : dirs' = [dirs EXCEPT ![r] = <<d>>]
    BY DEF Descend
<1>4. d \in used /\ dirs'[r] = <<d>>
    <2>1. Component(r) \in Places
        BY <1>1, <1>2, InPlaces
    <2> QED
        BY <1>1, <1>3, <2>1, Entries DEF Descriptor, Shape
<1>5. OnlyRun(r)
    BY <1>1, <1>3 DEF OnlyRun, Shape, Descend, Goto, requestVars, cacheVars, loadVars
<1>6. dirs'[r] \in Seq(used') /\ Len(dirs'[r]) = 1
    BY <1>4
<1>7. at'[r] \in {"open", "opened"} /\ step'[r] \in 1 .. Len(Path)
    <2>1. step[r] \in 1 .. Len(Path)
        BY <1>2 DEF CacheControl
    <2>2. CASE step[r] < Len(Path) /\ step' = [step EXCEPT ![r] = @ + 1] /\ Goto(r, "open")
        BY <1>1, <1>2, <2>1, <2>2 DEF Goto, Shape
    <2>3. CASE Goto(r, "opened") /\ UNCHANGED step
        BY <1>1, <2>1, <2>3 DEF Goto, Shape
    <2> QED
        BY <2>2, <2>3 DEF Descend
<1>8. sub[r] = "none"
    BY <1>2 DEF CacheControl
<1>9. CacheControl(r)'
    <2>1. saved' = saved /\ sub' = sub /\ request' = request
        BY DEF cacheVars, requestVars
    <2>2. saved'[r] \in 0 .. Len(request'[r].items) /\ sub'[r] = "none"
        BY <1>2, <1>8, <2>1 DEF CacheControl
    <2>3. CASE at'[r] = "open"
        BY <1>6, <1>7, <2>2, <2>3 DEF CacheControl, Walking, Caching, Making, Writing, Ended
    <2>4. CASE at'[r] = "opened"
        BY <1>6, <1>7, <2>2, <2>4 DEF CacheControl, Walking, Caching, Making, Writing, Ended
    <2> QED
        BY <1>7, <2>3, <2>4
<1> QED
    BY <1>1, <1>5, <1>9, CacheStep DEF TreeStep, cacheVars

\* A step to another label of the same part, with nothing else known.
LEMMA GoesOn ==
    ASSUME IInv, NEW r \in Runs, NEW label, Goto(r, label), UNCHANGED <<step, dirs>>,
           \/ at[r] \in Walking /\ label \in Walking
           \/ at[r] \in Caching /\ label \in Making /\ Left(r)
           \/ at[r] \in Caching /\ label \in {"failed", "crashed"}
           \/ at[r] \in {"look"} \cup Walking /\ label = "crashed"
           \/ at[r] = "opened" /\ label = "compare" /\ Left(r) /\ sub[r] = Wanted(r)
           \/ at[r] = "opened" /\ label = "done" /\ ~Left(r),
           DOMAIN failure' = Runs, TreeStep, UNCHANGED <<requestVars, cacheVars, loadVars>>
    PROVE  IInv'
<1>1. Shape /\ DiskInv /\ RunInv(r) /\ request[r].kind = "cache"
    BY KindOf DEF IInv, Caching
<1>2. CacheControl(r)
    BY <1>1 DEF RunInv
<1>3. at'[r] = label /\ OnlyRun(r) /\ dirs'[r] \in Seq(used')
    <2>1. used \subseteq used' /\ dirs[r] \in Seq(used)
        BY <1>1, <1>2, DiskKept DEF CacheControl
    <2> QED
        BY <1>1, <2>1 DEF Goto, OnlyRun, Shape, requestVars, cacheVars, loadVars
<1>4. Left(r)' = Left(r) /\ Wanted(r)' = Wanted(r)
    BY DEF Left, Wanted, Item, requestVars, cacheVars
<1>5. CacheControl(r)'
    BY <1>2, <1>3, <1>4 DEF CacheControl, Walking, Caching, Making, Writing, Ended, cacheVars, requestVars
<1> QED
    BY <1>1, <1>3, <1>5, CacheStep DEF cacheVars

\* Making a directory at a place of the tree.
LEMMA MakesADir ==
    ASSUME NEW by \in Actors, NEW p \in Places, entry[p] = Absent, Make(by, p)
    PROVE  TreeStep
BY DEF Make, TreeStep, Changes

LEMMA WalkKeeps ==
    ASSUME IInv, NEW r \in Runs, Walk(r), UNCHANGED <<requestVars, cacheVars, loadVars>>
    PROVE  IInv'
<1>1. CASE Look(r)
    BY <1>1, LookKeeps
<1>2. ASSUME at[r] \in Walking, UNCHANGED diskVars, Descend(r) PROVE IInv'
    BY <1>2, DescendKeeps DEF diskVars
<1>3. ASSUME at[r] \in Walking, UNCHANGED diskVars, NEW why, WalkFails(r, why) PROVE IInv'
    BY <1>3, WalkFailsKeeps DEF diskVars
<1>4. ASSUME at[r] \in Walking, NEW label \in Walking, Goto(r, label), UNCHANGED <<step, dirs, failure>>, TreeStep
      PROVE  IInv'
    BY <1>4, GoesOn DEF IInv, Shape
<1>5. UNCHANGED diskVars => TreeStep
    BY DEF diskVars, TreeStep
<1>6. CASE Open(r)
    BY <1>2, <1>3, <1>4, <1>5, <1>6 DEF Open, Walking
<1>7. CASE Stat(r)
    BY <1>3, <1>4, <1>5, <1>7 DEF Stat, Walking
<1>8. CASE MakeComponent(r)
    <2>1. CASE entry[Component(r)] = Absent /\ Make(r, Component(r)) /\ Goto(r, "reopen") /\ UNCHANGED <<step, dirs, failure>>
        <3>1. CacheControl(r) /\ Shape /\ DiskInv /\ RunInv(r)
            BY <1>8, KindOf DEF IInv, RunInv, MakeComponent, Walking
        <3>2. Component(r) \in Places
            BY <1>8, <3>1, InPlaces DEF MakeComponent, Walking
        <3>3. TreeStep
            BY <2>1, <3>2, MakesADir DEF Actors
        <3> QED
            BY <1>4, <1>8, <2>1, <3>3 DEF MakeComponent, Walking
    <2> QED
        BY <1>3, <1>8, <2>1 DEF MakeComponent, Walking
<1>9. CASE Reopen(r)
    BY <1>2, <1>3, <1>9 DEF Reopen, Walking
<1> QED
    BY <1>1, <1>6, <1>7, <1>8, <1>9 DEF Walk

LEMMA TwoOf ==
    ASSUME NEW S, NEW a \in S, NEW b \in S
    PROVE  <<a, b>> \in Seq(S) /\ Len(<<a, b>>) = 2 /\ Len(<<a, b>>) >= 1
OBVIOUS

\* A subdirectory entered.
LEMMA SubEnteredKeeps ==
    ASSUME IInv, NEW r \in Runs, at[r] \in {"opened", "sub reopen"}, Left(r), SubEntered(r),
           UNCHANGED <<diskVars, step, saved, noted, requestVars, loadVars>>
    PROVE  IInv'
<1>1. Shape /\ DiskInv /\ RunInv(r) /\ request[r].kind = "cache"
    BY KindOf DEF IInv, Caching, Making
<1>2. CacheControl(r)
    BY <1>1 DEF RunInv
<1>3. SubPlace(r) \in Places /\ dirs[r][1] \in used
    BY <1>1, <1>2, InPlaces DEF Caching, Making
<1>4. PICK d \in Descriptor(entry[SubPlace(r)]) : dirs' = [dirs EXCEPT ![r] = <<dirs[r][1], d>>]
    BY DEF SubEntered
<1>5. d \in used
    BY <1>1, <1>3, <1>4, Entries DEF Descriptor
<1>6. dirs'[r] \in Seq(used') /\ Len(dirs'[r]) = 2 /\ Len(dirs'[r]) >= 1
    <2>1. dirs'[r] = <<dirs[r][1], d>> /\ used' = used
        BY <1>1, <1>4 DEF Shape, diskVars
    <2> QED
        BY <1>3, <1>5, <2>1, TwoOf
<1>7. at'[r] = "opened" /\ OnlyRun(r)
    BY <1>1, <1>4 DEF SubEntered, Goto, OnlyRun, Shape, requestVars, loadVars
<1>8. CacheControl(r)'
    <2>1. saved' = saved /\ step' = step /\ request' = request
        BY DEF requestVars
    <2>2. saved'[r] \in 0 .. Len(request'[r].items) /\ step'[r] \in 1 .. Len(Path)
        BY <1>2, <2>1 DEF CacheControl
    <2>3. /\ at'[r] \notin {"look"} \cup Walking /\ at'[r] \notin Making \cup Writing /\ at'[r] \notin Writing
          /\ at'[r] \in Caching /\ at'[r] # "write" /\ at'[r] # "done" /\ at'[r] \notin Walking
        BY <1>7 DEF Walking, Caching, Making, Writing
    <2> QED
        BY <1>6, <2>2, <2>3, Zenon DEF CacheControl
<1> QED
    BY <1>1, <1>7, <1>8, CacheStep DEF TreeStep, diskVars

\* One more artefact dealt with.
LEMMA SavesOne ==
    ASSUME IInv, NEW r \in Runs, at[r] \in Writing, saved' = [saved EXCEPT ![r] = @ + 1], Goto(r, "opened"),
           UNCHANGED <<step, dirs, failure, sub, requestVars, loadVars>>, TreeStep,
           DOMAIN noted' = Runs, noted[r] \subseteq noted'[r], \A q \in Runs \ {r} : noted'[q] = noted[q],
           NEW x, x = Item(r), x \in noted'[r] \/ \E d \in used' : Holds(<<d, x>>, x, "all")'
    PROVE  IInv'
<1>1. Shape /\ DiskInv /\ RunInv(r) /\ request[r].kind = "cache" /\ request[r].items \in Seq(Items)
    BY KindOf DEF IInv, Caching
<1>2. CacheControl(r) /\ SavedInv(r) /\ Left(r)
    BY <1>1 DEF RunInv, CacheControl
<1>3. at'[r] = "opened" /\ saved'[r] = saved[r] + 1 /\ OnlyRun(r)
    BY <1>1 DEF Goto, OnlyRun, Shape, requestVars, loadVars
<1>4. CacheControl(r)'
    <2>1. dirs' = dirs /\ step' = step /\ sub' = sub /\ request' = request
        BY DEF requestVars
    <2>2. dirs'[r] \in Seq(used') /\ step'[r] \in 1 .. Len(Path)
        BY <1>1, <1>2, <2>1, DiskKept DEF CacheControl
    <2>3. Len(dirs'[r]) >= 1 /\ (sub'[r] # "none" => Len(dirs'[r]) = 2)
        BY <1>2, <2>1 DEF CacheControl, Caching
    <2>4. saved'[r] \in 0 .. Len(request'[r].items)
        BY <1>1, <1>2, <1>3, <2>1 DEF CacheControl, Left
    <2> QED
        BY <1>3, <2>2, <2>3, <2>4 DEF CacheControl, Walking, Caching, Making, Writing, Ended
<1>5. SavedInv(r)'
    <2>1. request' = request /\ saved[r] \in Nat
        BY <1>1, <1>2 DEF requestVars, CacheControl
    <2>2. ASSUME NEW i \in 1 .. saved[r] + 1, NEW y, y = request[r].items[i]
          PROVE  y \in noted'[r] \/ \E d \in used' : Holds(<<d, y>>, y, "all")'
        <3>1. CASE i \in 1 .. saved[r]
            <4>1. \A j \in 1 .. saved[r] : LET z == request[r].items[j] IN
                     z \in noted'[r] \/ \E d \in used' : Holds(<<d, z>>, z, "all")'
                BY <1>1, <1>2, <2>1, SavedStays
            <4> QED
                BY <2>1, <2>2, <3>1, <4>1 DEF Holds
        <3>2. CASE i = saved[r] + 1
            BY <2>2, <3>2 DEF Item
        <3> QED
            BY <2>1, <2>2, <3>1, <3>2
    <2> QED
        BY <1>3, <2>1, <2>2 DEF SavedInv, Holds
<1> QED
    BY <1>1, <1>3, <1>4, <1>5, StepOfOne DEF RunInv, requestVars

LEMMA CreateKeeps ==
    ASSUME IInv, NEW r \in Runs, CreateItem(r), UNCHANGED <<requestVars, loadVars>>
    PROVE  IInv'
<1>1. Shape /\ DiskInv /\ RunInv(r) /\ request[r].kind = "cache" /\ at[r] = "opened" /\ Left(r) /\ sub[r] = Wanted(r)
    BY KindOf DEF IInv, CreateItem, Saving, Caching
<1>2. CacheControl(r)
    BY <1>1 DEF RunInv
<1>3. ItemPlace(r) \in Places /\ ItemPlace(r)[2] = Item(r) /\ Item(r) \in Items
    BY <1>1, <1>2, InPlaces, AtItem DEF Caching
<1>4. CASE entry[ItemPlace(r)] = Absent /\ Put(ItemPlace(r), File(r, Item(r), "nothing")) /\ Goto(r, "write") /\ UNCHANGED failure
    <2>1. TreeStep
        BY <1>3, <1>4 DEF TreeStep, Changes, Actors, CreateItem
    <2>2. at'[r] = "write" /\ OnlyRun(r)
        BY <1>1, <1>4 DEF CreateItem, Goto, OnlyRun, Shape, requestVars, loadVars, cacheVars
    <2>3. Left(r)' = Left(r) /\ Item(r)' = Item(r) /\ Wanted(r)' = Wanted(r) /\ ItemPlace(r)' = ItemPlace(r)
        BY DEF CreateItem, Left, Item, Wanted, ItemPlace, requestVars, cacheVars
    <2>4. entry'[ItemPlace(r)] = File(r, Item(r), "nothing")
        BY <1>1, <1>3, <1>4, OnePlace
    <2>5. dirs'[r] \in Seq(used') /\ step'[r] \in 1 .. Len(Path) /\ saved'[r] \in 0 .. Len(request'[r].items)
        BY <1>2 DEF CreateItem, CacheControl, requestVars, cacheVars
    <2>6. Len(dirs'[r]) = 2 /\ sub'[r] = Wanted(r)
        <3>1. Wanted(r) # "none"
            BY <1>1, <1>2, AtItem
        <3> QED
            BY <1>1, <1>2, <3>1 DEF CreateItem, CacheControl, Caching, cacheVars
    <2>7. CacheControl(r)'
        BY <1>1, <2>2, <2>3, <2>4, <2>5, <2>6 DEF CacheControl, Walking, Caching, Making, Writing, Ended
    <2> QED
        BY <1>1, <2>1, <2>2, <2>7, CacheStep DEF CreateItem, cacheVars
<1>5. CASE Goto(r, "compare") /\ UNCHANGED <<entry, failure>>
    BY <1>1, <1>5, GoesOn DEF CreateItem, TreeStep, Shape
<1>6. CASE GiveUp(r, "failed", "io") /\ UNCHANGED entry
    BY <1>1, <1>6, GoesOn DEF CreateItem, TreeStep, Shape, GiveUp, Caching
<1> QED
    BY <1>4, <1>5, <1>6 DEF CreateItem

LEMMA WriteKeeps ==
    ASSUME IInv, NEW r \in Runs, WriteItem(r), UNCHANGED <<requestVars, loadVars>>
    PROVE  IInv'
<1>1. Shape /\ DiskInv /\ RunInv(r) /\ request[r].kind = "cache" /\ at[r] = "write"
    BY KindOf DEF IInv, WriteItem, Caching, Writing
<1>2. CacheControl(r) /\ Left(r) /\ sub[r] # "none" /\ entry[ItemPlace(r)] = File(r, Item(r), "nothing")
    BY <1>1, AtItem DEF RunInv, CacheControl, Writing
<1>3. ItemPlace(r) \in Places /\ ItemPlace(r)[2] = Item(r) /\ Item(r) \in Items /\ dirs[r][2] \in used
    BY <1>1, <1>2, InPlaces, AtItem DEF Caching, Writing
<1>4. ASSUME NEW part \in {"part", "all"}, NEW label \in {"opened", "failed"},
             Put(ItemPlace(r), File(r, Item(r), part)), Goto(r, label)
      PROVE  TreeStep
    BY <1>1, <1>2, <1>3, <1>4 DEF TreeStep, Changes, Actors, WriteItem, Goto, Shape
<1>5. CASE Put(ItemPlace(r), File(r, Item(r), "all")) /\ saved' = [saved EXCEPT ![r] = @ + 1] /\ Goto(r, "opened") /\ UNCHANGED failure
    <2>1. TreeStep
        BY <1>4, <1>5
    <2>2. entry'[ItemPlace(r)] = File(r, Item(r), "all") /\ ItemPlace(r) = <<dirs[r][2], Item(r)>>
        BY <1>1, <1>3, <1>5, OnePlace DEF ItemPlace
    <2>3. ASSUME NEW x, x = Item(r) PROVE \E d \in used' : Holds(<<d, x>>, x, "all")'
        BY <1>3, <2>2, <2>3, Kinds DEF Holds, WriteItem
    <2>4. DOMAIN noted' = Runs /\ \A q \in Runs : noted'[q] = noted[q]
        BY <1>1 DEF WriteItem, Shape
    <2>5. UNCHANGED <<step, dirs, failure, sub>> /\ at[r] \in Writing
        BY <1>1, <1>5 DEF WriteItem, Writing
    <2> QED
        BY <1>5, <2>1, <2>3, <2>4, <2>5, SavesOne
<1>6. CASE Put(ItemPlace(r), File(r, Item(r), "part")) /\ GiveUp(r, "failed", "io") /\ UNCHANGED saved
    <2>1. TreeStep
        BY <1>4, <1>6 DEF GiveUp
    <2> QED
        BY <1>1, <1>6, <2>1, GoesOn DEF WriteItem, Caching, Writing, GiveUp, Shape, cacheVars
<1> QED
    BY <1>5, <1>6 DEF WriteItem

LEMMA CompareKeeps ==
    ASSUME IInv, NEW r \in Runs, CompareItem(r), UNCHANGED <<requestVars, loadVars>>
    PROVE  IInv'
<1>1. Shape /\ DiskInv /\ RunInv(r) /\ at[r] = "compare"
    BY DEF IInv, CompareItem
<1>2. CacheControl(r) /\ Left(r) /\ sub[r] # "none"
    BY <1>1, KindOf, AtItem DEF RunInv, CacheControl, Caching, Writing
<1>3. dirs[r][2] \in used
    BY <1>1, <1>2, InPlaces DEF Caching, Writing
<1>4. TreeStep /\ used' = used /\ entry' = entry
    BY DEF CompareItem, TreeStep, diskVars
<1>5. CASE Holds(ItemPlace(r), Item(r), "all") /\ UNCHANGED noted
    <2>1. ASSUME NEW x, x = Item(r) PROVE \E d \in used' : Holds(<<d, x>>, x, "all")'
        BY <1>3, <1>4, <1>5, <2>1 DEF ItemPlace, Holds
    <2>2. DOMAIN noted' = Runs /\ \A q \in Runs : noted'[q] = noted[q]
        BY <1>1, <1>5 DEF Shape
    <2>3. saved' = [saved EXCEPT ![r] = @ + 1] /\ Goto(r, "opened") /\ UNCHANGED <<step, dirs, failure, sub>>
        BY DEF CompareItem
    <2>4. at[r] \in Writing
        BY <1>1 DEF Writing
    <2> QED
        BY <1>4, <2>1, <2>2, <2>3, <2>4, SavesOne
<1>6. CASE noted' = [noted EXCEPT ![r] = @ \cup {Item(r)}]
    <2>1. /\ DOMAIN noted' = Runs /\ noted[r] \subseteq noted'[r] /\ \A q \in Runs \ {r} : noted'[q] = noted[q]
          /\ Item(r) \in noted'[r]
        BY <1>1, <1>6 DEF Shape
    <2> QED
        BY <1>1, <1>4, <2>1, SavesOne DEF CompareItem, Writing
<1> QED
    BY <1>5, <1>6 DEF CompareItem

LEMMA CacheKeeps ==
    ASSUME IInv, NEW r \in Runs, Cache(r), UNCHANGED <<requestVars, loadVars>>
    PROVE  IInv'
<1>1. ASSUME at[r] \in Caching, SubNotEntered(r, "unsafe") \/ SubNotEntered(r, "io"),
             UNCHANGED <<diskVars, step, saved, noted>>
      PROVE  IInv'
    BY <1>1, GoesOn DEF SubNotEntered, GiveUp, diskVars, TreeStep, IInv, Shape, cacheVars
<1>2. ASSUME at[r] \in Caching, NEW label \in Making, Left(r), Goto(r, label), UNCHANGED <<step, dirs, cacheVars, failure>>, TreeStep
      PROVE  IInv'
    BY <1>2, GoesOn DEF IInv, Shape
<1>3. ASSUME at[r] \in Caching, NEW why, GiveUp(r, "failed", why), UNCHANGED <<step, dirs, cacheVars>>, TreeStep
      PROVE  IInv'
    BY <1>3, GoesOn DEF GiveUp, IInv, Shape
<1>4. UNCHANGED diskVars => TreeStep
    BY DEF diskVars, TreeStep
<1>5. at[r] \in Making => CacheControl(r) /\ Left(r)
    BY KindOf DEF IInv, RunInv, CacheControl, Caching
<1>6. CASE OpenSub(r)
    <2>1. at[r] = "opened" /\ Left(r)
        BY <1>6 DEF OpenSub
    <2>2. CASE SubEntered(r)
        BY <1>6, <2>1, <2>2, SubEnteredKeeps DEF OpenSub
    <2>3. CASE Goto(r, "sub stat") /\ UNCHANGED <<dirs, sub, failure>>
        BY <1>2, <1>4, <1>6, <2>1, <2>3 DEF OpenSub, Caching, Making, cacheVars
    <2> QED
        BY <1>1, <1>6, <2>1, <2>2, <2>3 DEF OpenSub, Caching
<1>7. CASE StatSub(r)
    BY <1>2, <1>3, <1>4, <1>5, <1>7 DEF StatSub, Caching, Making
<1>8. CASE MakeSub(r)
    <2>1. CASE entry[SubPlace(r)] = Absent /\ Make(r, SubPlace(r)) /\ Goto(r, "sub reopen") /\ UNCHANGED failure
        <3>1. SubPlace(r) \in Places
            BY <1>5, <1>8, InPlaces DEF MakeSub, IInv, Caching, Making
        <3>2. TreeStep
            BY <2>1, <3>1, MakesADir DEF Actors
        <3> QED
            BY <1>2, <1>5, <1>8, <2>1, <3>2 DEF MakeSub, Caching, Making
    <2>2. CASE Goto(r, "sub reopen") /\ UNCHANGED <<entry, used, failure>>
        BY <1>2, <1>5, <1>8, <2>2 DEF MakeSub, Caching, Making, TreeStep
    <2>3. CASE GiveUp(r, "failed", "io") /\ UNCHANGED <<entry, used>>
        BY <1>3, <1>8, <2>3 DEF MakeSub, Caching, Making, TreeStep
    <2> QED
        BY <1>8, <2>1, <2>2, <2>3 DEF MakeSub
<1>9. CASE ReopenSub(r)
    <2>1. CASE SubEntered(r)
        BY <1>5, <1>9, <2>1, SubEnteredKeeps DEF ReopenSub, Making
    <2> QED
        BY <1>1, <1>9, <2>1 DEF ReopenSub, Caching, Making
<1>10. CASE CreateItem(r)
    BY <1>10, CreateKeeps
<1>11. CASE WriteItem(r)
    BY <1>11, WriteKeeps
<1>12. CASE CompareItem(r)
    BY <1>12, CompareKeeps
<1>13. CASE Saved(r)
    BY <1>4, <1>13, GoesOn DEF Saved, Caching, IInv, Shape
<1> QED
    BY <1>6, <1>7, <1>8, <1>9, <1>10, <1>11, <1>12, <1>13 DEF Cache

LEMMA LoadsOn ==
    ASSUME IInv, NEW r \in Runs, at[r] \in Loading, NEW label \in Loading \cup Ended, at'[r] = label, OnlyRun(r), UNCHANGED <<entry, used>>
    PROVE  IInv'
<1>1. request[r].kind = "load" /\ request' = request
    BY KindOf DEF IInv, OnlyRun
<1>2. RunInv(r)'
    BY <1>1 DEF RunInv, LoadControl
<1> QED
    BY <1>2, StepOfOne DEF TreeStep

\* What a loader owes is its own, and only gets less.
FloorOf(r) == DOMAIN floor' = Runs /\ \A q \in Runs \ {r} : floor'[q] = floor[q]

LEMMA Withheld ==
    ASSUME Shape, NEW r \in Runs, NEW xs, Withhold(r, xs)
    PROVE  FloorOf(r) /\ floor'[r] = [asked |-> TRUE, held |-> floor[r].held \ xs]
BY DEF Withhold, FloorOf, Shape

LEMMA LoadKeeps ==
    ASSUME IInv, NEW r \in Runs, Load(r), UNCHANGED <<requestVars, cacheVars>>
    PROVE  IInv'
<1>0. Shape
    BY DEF IInv
<1>1. CASE Inspect(r)
    <2>1. PICK label \in {"layout", "failed"} : Goto(r, label)
        BY <1>1 DEF Inspect, GiveUp
    <2>2. OnlyRun(r) /\ at'[r] = label /\ at[r] \in Loading
        BY <1>0, <1>1, <2>1 DEF Inspect, GiveUp, Goto, OnlyRun, Shape, LoadUnchanged, requestVars, cacheVars, Loading
    <2> QED
        BY <1>1, <2>2, LoadsOn DEF Inspect, LoadUnchanged, diskVars, Loading, Ended
<1>2. CASE Layout(r)
    <2>1. DOMAIN unread' = Runs /\ (\A q \in Runs \ {r} : unread'[q] = unread[q]) /\ FloorOf(r)
        BY <1>0, <1>2, Withheld DEF Layout, Shape, FloorOf
    <2>2. OnlyRun(r) /\ at'[r] = "list" /\ at[r] \in Loading
        BY <1>0, <1>2, <2>1 DEF Layout, FloorOf, Goto, OnlyRun, Shape, LoadUnchanged, requestVars, cacheVars, Loading
    <2> QED
        BY <1>2, <2>2, LoadsOn DEF Layout, LoadUnchanged, diskVars, Loading
<1>3. CASE List(r)
    <2>1. DOMAIN unread' = Runs /\ (\A q \in Runs \ {r} : unread'[q] = unread[q]) /\ FloorOf(r)
        BY <1>0, <1>3, Withheld DEF List, Shape, FloorOf
    <2>2. at' = at \/ at' = [at EXCEPT ![r] = "failed"]
        BY <1>3 DEF List, GiveUp, Goto
    <2>3. DOMAIN failure' = Runs
        BY <1>0, <1>3 DEF List, GiveUp, Shape
    <2>4. OnlyRun(r) /\ at[r] \in Loading
        BY <1>0, <1>3, <2>1, <2>2, <2>3 DEF List, FloorOf, OnlyRun, Shape, LoadUnchanged, requestVars, cacheVars, Loading
    <2>5. at'[r] \in Loading \cup Ended
        BY <1>0, <2>2, <2>4 DEF Shape, Ended
    <2> QED
        BY <1>3, <2>4, <2>5, LoadsOn DEF List, LoadUnchanged, diskVars
<1>4. CASE Read(r)
    <2>1. DOMAIN unread' = Runs /\ \A q \in Runs \ {r} : unread'[q] = unread[q]
        BY <1>0, <1>4 DEF Read, Shape
    <2>2. DOMAIN gathered' = Runs /\ \A q \in Runs \ {r} : gathered'[q] = gathered[q]
        BY <1>0, <1>4 DEF Read, Shape
    <2>3. OnlyRun(r) /\ at'[r] = "list" /\ at[r] \in Loading
        BY <1>0, <1>4, <2>1, <2>2 DEF Read, OnlyRun, Shape, LoadUnchanged, requestVars, cacheVars, Loading
    <2> QED
        BY <1>4, <2>3, LoadsOn DEF Read, LoadUnchanged, diskVars, Loading
<1>5. CASE CannotRead(r)
    <2>1. OnlyRun(r) /\ at'[r] = "failed" /\ at[r] \in Loading
        BY <1>0, <1>5 DEF CannotRead, GiveUp, Goto, OnlyRun, Shape, LoadUnchanged, requestVars, cacheVars, loadVars, Loading
    <2> QED
        BY <1>5, <2>1, LoadsOn DEF CannotRead, LoadUnchanged, diskVars, Ended
<1>6. CASE Classify(r)
    <2>1. PICK label \in {"done", "failed"} : Goto(r, label)
        BY <1>6 DEF Classify, GiveUp
    <2>2. OnlyRun(r) /\ at'[r] = label /\ at[r] \in Loading
        BY <1>0, <1>6, <2>1 DEF Classify, GiveUp, Goto, OnlyRun, Shape, LoadUnchanged, requestVars, cacheVars, loadVars, Loading
    <2> QED
        BY <1>6, <2>2, LoadsOn DEF Classify, LoadUnchanged, diskVars, Loading, Ended
<1> QED
    BY <1>1, <1>2, <1>3, <1>4, <1>5, <1>6 DEF Load

LEMMA KillKeeps ==
    ASSUME IInv, NEW r \in Runs, Killed(r), UNCHANGED <<diskVars, requestVars, cacheVars, loadVars>>
    PROVE  IInv'
<1>1. Shape /\ RunInv(r)
    BY DEF IInv
<1>2. at[r] \in {"look"} \cup Walking \cup Caching \cup Loading
    BY <1>1, KindOf DEF RunInv, CacheControl, LoadControl, Killed
<1>3. CASE at[r] \in Loading
    <2>1. OnlyRun(r) /\ at'[r] = "crashed"
        BY <1>1 DEF Killed, Goto, OnlyRun, Shape, requestVars, cacheVars, loadVars
    <2> QED
        BY <1>3, <2>1, LoadsOn DEF diskVars, Ended
<1>4. CASE at[r] \notin Loading
    <2>1. TreeStep /\ DOMAIN failure' = Runs
        BY <1>1 DEF Killed, Shape, TreeStep, diskVars
    <2> QED
        BY <1>2, <1>4, <2>1, GoesOn DEF Killed
<1> QED
    BY <1>3, <1>4

LEMMA StepKeeps ==
    ASSUME IInv, NEW r \in Runs, Step(r)
    PROVE  IInv'
BY WalkKeeps, CacheKeeps, LoadKeeps, KillKeeps DEF Step

-----------------------------------------------------------------------------
(* The way to the store.                                                   *)

Less == {p \in Nat \X Nat : p[1] < p[2]}

LEMMA Least ==
    ASSUME NEW S \in SUBSET Nat, S # {}
    PROVE  \E k \in S : \A j \in S : k <= j
<1>1. OpToRel(<, Nat) = Less
    BY DEF OpToRel, Less
<1>2. IsWellFoundedOn(Less, Nat)
    BY NatLessThanWellFounded, <1>1
<1>3. PICK k \in S : \A j \in S : ~(<<j, k>> \in Less)
    BY <1>2, WFMin, Zenon
<1>4. ASSUME NEW j \in S PROVE k <= j
    <2>1. <<j, k>> \notin Less /\ j \in Nat /\ k \in Nat
        BY <1>3
    <2>2. <<j, k>> \in Nat \X Nat /\ <<j, k>>[1] = j /\ <<j, k>>[2] = k
        BY <2>1
    <2>3. ~(j < k)
        BY <2>1, <2>2 DEF Less
    <2> QED
        BY <2>1, <2>3
<1> QED
    BY <1>4

\* In a tree e, what a path name of i components resolves to, from what one of
\* i - 1 does.
WayNext(e, m, i) ==
    IF i = 0 THEN Dir(Other, Cwd)
    ELSE CASE m[i - 1].kind = "dir"  -> e[m[i - 1].dir, Path[i]]
           [] m[i - 1].kind = "link" -> e[Elsewhere, Path[i]]
           [] m[i - 1].kind = "file" -> [kind |-> "barred"]
           [] OTHER                  -> m[i - 1]

Way(e) == CHOOSE m : m = [i \in 0 .. Len(Path) |-> WayNext(e, m, i)]

LEMMA MetIsTheWay == Met = Way(entry)
BY DEF Met, Way, WayNext

LEMMA MetIsTheWayNext == Met' = Way(entry')
BY DEF Met, Way, WayNext

LEMMA WayUpTo ==
    ASSUME NEW e, NEW n \in Nat
    PROVE  \E m : m = [i \in 0 .. n |-> WayNext(e, m, i)]
<1> DEFINE Good(k) == \E m : m = [i \in 0 .. k |-> WayNext(e, m, i)]
           Bad == {k \in Nat : ~Good(k)}
<1>1. Good(0)
    <2> DEFINE m == [i \in 0 .. 0 |-> Dir(Other, Cwd)]
    <2>1. m = [i \in 0 .. 0 |-> WayNext(e, m, i)]
        BY DEF WayNext
    <2> QED
        BY <2>1
<1>2. ASSUME NEW k \in Nat, Good(k) PROVE Good(k + 1)
    <2>1. PICK m : m = [i \in 0 .. k |-> WayNext(e, m, i)]
        BY <1>2
    <2> DEFINE next == [i \in 0 .. k + 1 |-> IF i <= k THEN m[i] ELSE WayNext(e, m, k + 1)]
    <2>2. ASSUME NEW i \in 0 .. k + 1 PROVE next[i] = WayNext(e, next, i)
        <3>1. \A j \in 0 .. k : next[j] = m[j] /\ m[j] = WayNext(e, m, j)
            BY <2>1
        <3>2. next[i] = WayNext(e, m, i)
            <4>1. CASE i \in 0 .. k
                BY <3>1, <4>1
            <4>2. CASE i = k + 1
                BY <4>2
            <4> QED
                BY <4>1, <4>2
        <3>3. i # 0 => next[i - 1] = m[i - 1]
            BY <3>1
        <3> HIDE DEF next
        <3>4. WayNext(e, next, i) = WayNext(e, m, i)
            <4>1. CASE i = 0
                BY <4>1, Zenon DEF WayNext
            <4>2. CASE i # 0
                BY <3>3, <4>2, Zenon DEF WayNext
            <4> QED
                BY <4>1, <4>2
        <3> QED
            BY <3>2, <3>4
    <2>3. next = [i \in 0 .. k + 1 |-> WayNext(e, next, i)]
        BY <2>2
    <2> QED
        BY <2>3
<1> HIDE DEF Good
<1>3. SUFFICES ASSUME ~Good(n) PROVE FALSE
    BY DEF Good
<1>4. PICK k \in Bad : \A j \in Bad : k <= j
    BY <1>3, Least
<1>5. k # 0 /\ k - 1 \in Nat /\ k - 1 \notin Bad
    BY <1>1, <1>4
<1> QED
    BY <1>2, <1>4, <1>5

LEMMA WayUnfolds ==
    ASSUME NEW e
    PROVE  \A i \in 0 .. Len(Path) : Way(e)[i] = WayNext(e, Way(e), i)
<1>1. Len(Path) \in Nat
    BY OutputDirAssumption
<1>2. \E m : m = [i \in 0 .. Len(Path) |-> WayNext(e, m, i)]
    BY <1>1, WayUpTo
<1>3. Way(e) = [i \in 0 .. Len(Path) |-> WayNext(e, Way(e), i)]
    BY <1>2 DEF Way
<1> QED
    BY <1>3

\* What the way meets, one component on.
LEMMA OneOn ==
    ASSUME NEW i \in 1 .. Len(Path)
    PROVE  /\ Met[0] = Dir(Other, Cwd)
           /\ Met[i - 1].kind = "dir" => Met[i] = entry[Met[i - 1].dir, Path[i]]
           /\ Met[i - 1].kind = "link" => Met[i] = entry[Elsewhere, Path[i]]
           /\ Met[i - 1].kind = "file" => Met[i] = [kind |-> "barred"]
           /\ Met[i - 1].kind \notin {"dir", "link", "file"} => Met[i] = Met[i - 1]
<1>1. i \in 0 .. Len(Path) /\ i # 0 /\ 0 \in 0 .. Len(Path)
    BY OutputDirAssumption
<1>2. Met[0] = WayNext(entry, Met, 0) /\ Met[i] = WayNext(entry, Met, i)
    BY <1>1, WayUnfolds, MetIsTheWay, Zenon
<1> QED
    BY <1>1, <1>2 DEF WayNext

LEMMA MetInUse ==
    ASSUME DiskInv, NEW n \in 0 .. Len(Path), Met[n].kind = "dir"
    PROVE  Met[n].dir \in used
<1> DEFINE Bad == {k \in Nat : k <= Len(Path) /\ Met[k].kind = "dir" /\ Met[k].dir \notin used}
<1>0. Len(Path) \in Nat /\ \A k \in 1 .. Len(Path) : Path[k] \in Keys
    BY OutputDirAssumption
<1>1. SUFFICES ASSUME Met[n].dir \notin used PROVE FALSE
    OBVIOUS
<1>2. Bad \in SUBSET Nat /\ Bad # {}
    BY <1>0, <1>1
<1>3. PICK k \in Bad : \A j \in Bad : k <= j
    BY <1>2, Least
<1>4. CASE k = 0
    <2>1. 1 \in 1 .. Len(Path)
        BY OutputDirAssumption
    <2>2. Met[0] = Dir(Other, Cwd)
        BY <1>0, <2>1, OneOn
    <2> QED
        BY <1>3, <1>4, <2>2, Kinds DEF DiskInv
<1>5. CASE k # 0
    <2>1. k - 1 \in Nat /\ k \in 1 .. Len(Path) /\ k - 1 \notin Bad /\ k - 1 <= Len(Path)
        BY <1>0, <1>3, <1>5
    <2>2. Met[k - 1].kind = "dir" => Met[k - 1].dir \in used
        BY <2>1
    <2>3. ASSUME NEW d \in used PROVE ~(Met[k] = entry[d, Path[k]])
        <3>1. <<d, Path[k]>> \in Places
            BY <1>0, <2>1 DEF DiskInv, Places
        <3> QED
            BY <1>3, <2>3, <3>1, Entries
    <2>4. CASE Met[k - 1].kind = "dir"
        BY <2>1, <2>2, <2>3, <2>4, OneOn
    <2>5. CASE Met[k - 1].kind = "link"
        BY <2>1, <2>3, <2>5, OneOn DEF DiskInv
    <2>6. CASE Met[k - 1].kind = "file"
        <3>1. Met[k] = [kind |-> "barred"]
            BY <2>1, <2>6, OneOn
        <3>2. Met[k].kind = "dir"
            BY <1>3
        <3> QED
            BY <3>1, <3>2
    <2>7. CASE Met[k - 1].kind \notin {"dir", "link", "file"}
        BY <1>3, <2>1, <2>7, OneOn
    <2> QED
        BY <2>4, <2>5, <2>6, <2>7
<1> QED
    BY <1>4, <1>5

\* A directory found by following is one that was made.
LEMMA StoreInUse ==
    ASSUME DiskInv
    PROVE  StoreDir \subseteq used /\ \A s \in Subdirs \cup {"flat"} : InStore(s) \subseteq used
<1>1. Len(Path) \in 0 .. Len(Path)
    BY OutputDirAssumption
<1>2. StoreDir \subseteq used
    BY <1>1, MetInUse DEF StoreDir, DescriptorFollowing, DiskInv
<1>3. ASSUME NEW s \in Subdirs, NEW d \in StoreDir PROVE DescriptorFollowing(entry[d, s]) \subseteq used
    <2>1. <<d, s>> \in Places
        BY <1>2, CacheAssumption DEF Places, DiskInv
    <2> QED
        BY <2>1, Entries DEF DescriptorFollowing, DiskInv
<1>4. "flat" \notin Subdirs
    BY DEF Subdirs
<1> QED
    BY <1>2, <1>3, <1>4 DEF InStore, Subdirs

LEMMA ContestedInPlaces ==
    ASSUME DiskInv
    PROVE  Contested \subseteq Places
<1>0. Len(Path) \in Nat /\ \A k \in 1 .. Len(Path) : Path[k] \in Keys
    BY OutputDirAssumption
<1>1. ASSUME NEW i \in 0 .. Len(Path) - 1, Met[i].kind = "dir" PROVE <<Met[i].dir, Path[i + 1]>> \in Places
    BY <1>0, <1>1, MetInUse DEF Places, DiskInv
<1>2. StoreDir \X Subdirs \subseteq Places
    BY StoreInUse, CacheAssumption DEF Places, DiskInv
<1>3. (InStore("crls") \cup InStore("ocsp")) \X Items \subseteq Places
    BY StoreInUse, CacheAssumption DEF Places, DiskInv, Subdirs
<1> QED
    BY <1>1, <1>2, <1>3 DEF Contested

LEMMA MeddleIsATreeStep ==
    ASSUME DiskInv, Meddle(Contested)
    PROVE  TreeStep
<1>1. PICK p \in Contested :
        \/ /\ entry[p] = Absent
           /\ \/ Put(p, File(Other, Foreign, "all")) /\ UNCHANGED used
              \/ Put(p, Link) /\ UNCHANGED used
              \/ Make(Other, p)
        \/ Swaps /\ entry[p].kind = "dir" /\ Put(p, Link) /\ UNCHANGED used
    BY DEF Meddle
<1>2. p \in Places /\ Other \in Actors
    BY ContestedInPlaces DEF Actors
<1>3. CASE entry[p] = Absent /\ Make(Other, p)
    BY <1>2, <1>3, MakesADir
<1>4. CASE ~(entry[p] = Absent /\ Make(Other, p))
    BY <1>1, <1>2, <1>4 DEF TreeStep, Changes
<1> QED
    BY <1>3, <1>4

LEMMA MeddleKeeps ==
    ASSUME IInv, Meddle(Contested), UNCHANGED <<requestVars, cacheVars, loadVars>>
    PROVE  IInv'
<1>1. Shape /\ DiskInv /\ TreeStep
    BY MeddleIsATreeStep DEF IInv
<1>2. UNCHANGED <<at, step, dirs, failure, request, saved, sub, noted, unread, gathered, floor>>
    BY DEF Meddle, walkVars, requestVars, cacheVars, loadVars
<1>3. Shape' /\ DiskInv'
    BY <1>1, <1>2, DiskKept DEF Shape
<1>4. ASSUME NEW q \in Runs PROVE RunInv(q)'
    BY <1>1, <1>2, RunKept DEF IInv
<1> QED
    BY <1>3, <1>4 DEF IInv

LEMMA InitHolds == Init => IInv
<1> SUFFICES ASSUME Init PROVE IInv
    OBVIOUS
<1>1. Shape
    BY DEF Init, InitDisk, Shape
<1>2. DiskInv
    BY OutputDirAssumption DEF Init, InitDisk, DiskInv
<1>3. ASSUME NEW r \in Runs PROVE RunInv(r)
    <2>1. request[r].kind \in {"cache", "load"} /\ request[r].items \in Seq(Items)
        BY CacheAssumption DEF Init
    <2>2. saved[r] = 0 /\ step[r] = 1 /\ dirs[r] = <<>> /\ sub[r] = "none" /\ Len(Path) \in Nat /\ Len(Path) >= 1
        BY OutputDirAssumption DEF Init, InitDisk
    <2>3. at[r] = CASE request[r].kind = "cache" /\ request[r].items # <<>> -> "look"
                    [] request[r].kind = "load" -> "load"
                    [] OTHER -> "done"
        BY DEF Init
    <2>4. CASE request[r].kind = "load"
        BY <2>3, <2>4 DEF RunInv, LoadControl, Loading
    <2>5. CASE request[r].kind = "cache"
        <3>1. at[r] = "look" \/ (at[r] = "done" /\ request[r].items = <<>>)
            BY <2>3, <2>5
        <3>2. SavedInv(r)
            BY <2>2 DEF SavedInv
        <3>3. dirs[r] \in Seq(used) /\ step[r] \in 1 .. Len(Path) /\ saved[r] \in 0 .. Len(request[r].items)
            BY <2>1, <2>2
        <3>4. ASSUME at[r] = "look" PROVE CacheControl(r)
            <4>1. /\ at[r] \notin Walking /\ at[r] \notin Caching /\ at[r] \notin Making \cup Writing
                  /\ at[r] \notin Writing /\ at[r] # "write" /\ at[r] # "done"
                BY <3>4 DEF Walking, Caching, Making, Writing
            <4>2. at[r] \in {"look"} \cup Walking \cup Caching \cup Ended
                BY <3>4
            <4> QED
                BY <2>2, <3>3, <4>1, <4>2 DEF CacheControl
        <3>5. ASSUME at[r] = "done", request[r].items = <<>> PROVE CacheControl(r)
            <4>1. ~Left(r)
                BY <2>2, <3>5 DEF Left
            <4>2. /\ at[r] \notin Walking /\ at[r] \notin Caching /\ at[r] \notin Making \cup Writing
                  /\ at[r] \notin Writing /\ at[r] # "write" /\ at[r] \notin {"look"} \cup Walking
                BY <3>5 DEF Walking, Caching, Making, Writing
            <4>3. at[r] \in {"look"} \cup Walking \cup Caching \cup Ended
                BY <3>5 DEF Ended
            <4> QED
                BY <2>2, <3>3, <4>1, <4>2, <4>3 DEF CacheControl
        <3> QED
            BY <2>5, <3>1, <3>2, <3>4, <3>5 DEF RunInv
    <2> QED
        BY <2>1, <2>4, <2>5
<1> QED
    BY <1>1, <1>2, <1>3 DEF IInv

LEMMA Stuttering ==
    ASSUME IInv, UNCHANGED vars
    PROVE  IInv'
<1>1. UNCHANGED <<entry, used, at, step, dirs, failure, request, saved, sub, noted, unread, gathered, floor>>
    BY DEF vars, diskVars, walkVars, requestVars, cacheVars, loadVars
<1>2. TreeStep /\ Shape /\ DiskInv
    BY <1>1 DEF IInv, TreeStep
<1>3. Shape' /\ DiskInv'
    BY <1>1, <1>2, DiskKept DEF Shape
<1>4. ASSUME NEW q \in Runs PROVE RunInv(q)'
    BY <1>1, <1>2, RunKept DEF IInv
<1> QED
    BY <1>3, <1>4 DEF IInv

LEMMA NextKeeps == IInv /\ [Next]_vars => IInv'
BY StepKeeps, MeddleKeeps, Stuttering DEF Next, Done

THEOREM Invariance == Spec => []IInv
<1> QED
    BY InitHolds, NextKeeps, PTL DEF Spec

\* Every step is one step at one place of the tree, or none.
LEMMA WalkIsATreeStep ==
    ASSUME IInv, NEW r \in Runs, Walk(r)
    PROVE  TreeStep
<1>1. UNCHANGED diskVars => TreeStep
    BY DEF diskVars, TreeStep
<1>2. CASE MakeComponent(r)
    <2>1. CASE entry[Component(r)] = Absent /\ Make(r, Component(r))
        <3>1. Component(r) \in Places
            BY <1>2, KindOf, InPlaces DEF MakeComponent, IInv, Walking, RunInv
        <3> QED
            BY <2>1, <3>1, MakesADir DEF Actors
    <2> QED
        BY <1>1, <1>2, <2>1 DEF MakeComponent
<1> QED
    BY <1>1, <1>2 DEF Walk, Look, Open, Stat, Reopen

LEMMA CacheIsATreeStep ==
    ASSUME IInv, NEW r \in Runs, Cache(r)
    PROVE  TreeStep
<1>0. UNCHANGED diskVars \/ UNCHANGED <<entry, used>> => TreeStep
    BY DEF diskVars, TreeStep
<1>1. at[r] \in Caching => request[r].kind = "cache" /\ CacheControl(r) /\ Shape /\ DiskInv /\ RunInv(r)
    BY KindOf DEF IInv, RunInv
<1>2. CASE MakeSub(r)
    <2>1. CASE entry[SubPlace(r)] = Absent /\ Make(r, SubPlace(r))
        <3>1. at[r] \in Making
            BY <1>2 DEF MakeSub, Making
        <3>2. SubPlace(r) \in Places
            BY <1>1, <3>1, InPlaces DEF Caching, CacheControl
        <3> QED
            BY <2>1, <3>2, MakesADir DEF Actors
    <2> QED
        BY <1>0, <1>2, <2>1 DEF MakeSub
<1>3. CASE CreateItem(r)
    <2>1. at[r] = "opened" /\ Left(r) /\ sub[r] = Wanted(r)
        BY <1>3 DEF CreateItem, Saving
    <2>2. ItemPlace(r) \in Places /\ ItemPlace(r)[2] = Item(r) /\ Item(r) \in Items
        BY <1>1, <2>1, InPlaces, AtItem DEF Caching
    <2> QED
        BY <1>0, <1>3, <2>2 DEF CreateItem, TreeStep, Changes, Actors
<1>4. CASE WriteItem(r)
    <2>1. at[r] = "write" /\ CacheControl(r) /\ Left(r) /\ sub[r] # "none" /\ entry[ItemPlace(r)] = File(r, Item(r), "nothing")
        BY <1>1, <1>4, AtItem DEF WriteItem, CacheControl, Caching, Writing
    <2>2. ItemPlace(r) \in Places /\ ItemPlace(r)[2] = Item(r) /\ Item(r) \in Items
        BY <1>1, <2>1, InPlaces, AtItem DEF Caching, Writing
    <2>3. at'[r] # "write" /\ used' = used /\ \E part \in {"part", "all"} : Put(ItemPlace(r), File(r, Item(r), part))
        BY <1>4, <2>1 DEF WriteItem, Goto, GiveUp, IInv, Shape
    <2> QED
        BY <2>1, <2>2, <2>3 DEF TreeStep, Changes, Actors
<1> QED
    BY <1>0, <1>2, <1>3, <1>4 DEF Cache, OpenSub, StatSub, ReopenSub, CompareItem, Saved

LEMMA NextIsATreeStep ==
    ASSUME IInv, [Next]_vars
    PROVE  TreeStep
<1>0. UNCHANGED diskVars => TreeStep
    BY DEF diskVars, TreeStep
<1>1. ASSUME NEW r \in Runs, Step(r) PROVE TreeStep
    <2>1. CASE Load(r)
        BY <1>0, <2>1 DEF Load, Inspect, Layout, List, Read, CannotRead, Classify, LoadUnchanged
    <2> QED
        BY <1>0, <1>1, <2>1, WalkIsATreeStep, CacheIsATreeStep DEF Step
<1>2. CASE Meddle(Contested)
    BY <1>2, MeddleIsATreeStep DEF IInv
<1>3. CASE UNCHANGED vars
    BY <1>0, <1>3 DEF vars
<1> QED
    BY <1>1, <1>2, <1>3 DEF Next, Done

-----------------------------------------------------------------------------
(* What holds whatever other programs do.                                  *)

\* No step of any run, and no step of another program, changes a file that is
\* there, but the one write of the run that made it: "nothing is ever truncated
\* or replaced" (write_new in output_dir.rs, write_cache in online/mod.rs), even
\* where directories are swapped for links below the runs' feet.
THEOREM NothingIsReplaced == Spec => NothingReplaced
<1>1. ASSUME IInv, [Next]_vars, NEW p \in Places, entry[p].kind = "file", entry'[p] # entry[p]
      PROVE  /\ entry[p].holds = "nothing"
             /\ entry'[p] \in {[entry[p] EXCEPT !.holds = part] : part \in {"part", "all"}}
             /\ \E r \in Runs : entry[p].by = r /\ at[r] = "write" /\ at'[r] # "write"
    <2>1. PICK r \in Runs, part \in {"part", "all"} :
            /\ entry[p] = File(r, p[2], "nothing") /\ entry'[p] = File(r, p[2], part)
            /\ at[r] = "write" /\ at'[r] # "write"
        BY <1>1, NextIsATreeStep, FilesKept DEF IInv
    <2>2. entry'[p] = [entry[p] EXCEPT !.holds = part]
        BY <2>1 DEF File
    <2> QED
        BY <2>1, <2>2, Kinds
<1>2. IInv /\ [Next]_vars =>
        [\A p \in Places : entry[p].kind = "file" /\ entry'[p] # entry[p] =>
            /\ entry[p].holds = "nothing"
            /\ entry'[p] \in {[entry[p] EXCEPT !.holds = part] : part \in {"part", "all"}}
            /\ \E r \in Runs : entry[p].by = r /\ at[r] = "write" /\ at'[r] # "write"]_vars
    BY <1>1
<1> QED
    BY <1>2, Invariance, PTL DEF Spec, NothingReplaced

\* A run that ends without an error has every artefact it fetched in the store, byte
\* for byte and whoever wrote it, or has reported cache_collision for it
\* (write_cache in online/mod.rs), whatever other runs and programs do meanwhile.
THEOREM CachedIsThereOrNoted == Spec => []CachedOrNoted
<1>1. IInv => CachedOrNoted
    <2> SUFFICES ASSUME IInv, NEW r \in Runs, at[r] = "done", request[r].kind = "cache",
                        NEW i \in DOMAIN request[r].items, NEW x, x = request[r].items[i]
                 PROVE  x \in noted[r] \/ \E d \in used : Holds(<<d, x>>, x, "all")
        BY DEF CachedOrNoted
    <2>1. CacheControl(r) /\ SavedInv(r) /\ ~Left(r)
        BY DEF IInv, RunInv, CacheControl
    <2>2. request[r].items \in Seq(Items) /\ saved[r] \in 0 .. Len(request[r].items)
        BY <2>1, KindOf DEF IInv, CacheControl
    <2>3. i \in 1 .. saved[r]
        BY <2>1, <2>2 DEF Left
    <2> QED
        BY <2>1, <2>3 DEF SavedInv
<1> QED
    BY <1>1, Invariance, PTL

-----------------------------------------------------------------------------
(* Where no directory is swapped for a link, the store stays where it is.  *)

IsDir(e, d) == e.kind = "dir" /\ e.dir = d

\* The descriptors a caching run holds are those of the store.
PathInv(r) ==
    /\ at[r] \in Walking => IsDir(Met[step[r] - 1], dirs[r][1])
    /\ at[r] \in Caching => IsDir(Met[Len(Path)], dirs[r][1])
    /\ at[r] \in Caching /\ sub[r] # "none" =>
        sub[r] \in Subdirs /\ IsDir(entry[dirs[r][1], sub[r]], dirs[r][2])

\* So is every file a run made.
FileInv ==
    \A p \in Places : entry[p].kind = "file" /\ entry[p].by \in Runs => p[1] \in InStore(Subdir[p[2]])

Reading == [dirs : Seq(Subdirs \cup {"flat"}), names : SUBSET ((Subdirs \cup {"flat"}) \X Keys)]

\* What a loader has, and has still to read of what it began with.
LoadInv(r) ==
    /\ at[r] = "load" => ~floor[r].asked
    /\ at[r] \in {"load", "layout"} => gathered[r] = {}
    /\ at[r] \in {"layout", "list"} => floor[r].asked
    /\ floor[r].held \subseteq Kept
    /\ \A g \in gathered[r] : Classified(g) => g[2] \in Kept
    /\ at[r] \in Loading => unread[r] \in Reading
    /\ at[r] = "list" => \A x \in floor[r].held :
        \/ \E i \in DOMAIN unread[r].dirs : unread[r].dirs[i] = Subdir[x]
        \/ <<Subdir[x], x>> \in unread[r].names
        \/ \E g \in gathered[r] : g[2] = x

OwnInv(r) ==
    /\ request[r].kind = "cache" => PathInv(r)
    /\ request[r].kind = "load" => LoadInv(r)

StoreInv == FileInv /\ \A r \in Runs : OwnInv(r)

\* An entry changes only where there was nothing, or in what the file holds.
LEMMA EntryStays ==
    ASSUME DiskInv, TreeStep, ~Swaps, NEW p \in Places
    PROVE  /\ entry[p].kind \in {"dir", "link"} => entry'[p] = entry[p]
           /\ entry[p] # Absent => entry'[p].kind = entry[p].kind
<1>1. CASE entry'[p] = entry[p]
    BY <1>1
<1>2. CASE entry'[p] # entry[p]
    <2>1. PICK by \in Actors, q \in Places : Changes(by, q)
        BY <1>2 DEF TreeStep
    <2>2. \E e : Put(q, e)
        BY <2>1 DEF Changes
    <2>3. p = q
        BY <1>2, <2>2, OnePlace
    <2>4. CASE entry[p] = Absent
        BY <2>4, Kinds
    <2>5. CASE entry[p] # Absent
        <3>1. PICK part \in {"part", "all"} : entry[p] = File(by, p[2], "nothing") /\ Put(p, File(by, p[2], part))
            BY <2>1, <2>3, <2>5 DEF Changes
        <3>2. entry'[p] = File(by, p[2], part)
            BY <3>1, OnePlace
        <3> QED
            BY <3>1, <3>2, Kinds
    <2> QED
        BY <2>4, <2>5
<1> QED
    BY <1>1, <1>2

\* What a path leads through stays as well.
LEMMA MetStays ==
    ASSUME DiskInv, TreeStep, ~Swaps, NEW n \in 0 .. Len(Path), Met[n].kind \in {"dir", "link"}
    PROVE  Met'[n] = Met[n]
<1> DEFINE Bad == {k \in Nat : k <= Len(Path) /\ Met[k].kind \in {"dir", "link"} /\ Met'[k] # Met[k]}
<1>0. Len(Path) \in Nat /\ \A k \in 1 .. Len(Path) : Path[k] \in Keys
    BY OutputDirAssumption
<1>1. SUFFICES ASSUME Met'[n] # Met[n] PROVE FALSE
    OBVIOUS
<1>2. Bad \in SUBSET Nat /\ Bad # {}
    BY <1>0, <1>1
<1>3. PICK k \in Bad : \A j \in Bad : k <= j
    BY <1>2, Least
<1>4. ASSUME NEW i \in 0 .. Len(Path) PROVE Met'[i] = WayNext(entry', Met', i)
    BY WayUnfolds, MetIsTheWayNext
<1>5. CASE k = 0
    <2>1. 1 \in 1 .. Len(Path) /\ 0 \in 0 .. Len(Path)
        BY OutputDirAssumption
    <2>2. Met[0] = Dir(Other, Cwd) /\ Met'[0] = Dir(Other, Cwd)
        BY <1>4, <2>1, OneOn DEF WayNext
    <2> QED
        BY <1>3, <1>5, <2>2
<1>6. CASE k # 0
    <2>1. k - 1 \in Nat /\ k \in 1 .. Len(Path) /\ k - 1 \notin Bad /\ k - 1 <= Len(Path) /\ k \in 0 .. Len(Path)
        BY <1>0, <1>3, <1>6
    <2>2. Met[k].kind \in {"dir", "link"} /\ Met'[k] # Met[k]
        BY <1>3
    <2>3. Met'[k] = WayNext(entry', Met', k)
        BY <1>4, <2>1
    <2>4. ASSUME NEW d \in used, Met[k] = entry[d, Path[k]], Met'[k] = entry'[d, Path[k]] PROVE FALSE
        <3>1. <<d, Path[k]>> \in Places
            BY <1>0, <2>1 DEF DiskInv, Places
        <3> QED
            BY <2>2, <2>4, <3>1, EntryStays
    <2>5. CASE Met[k - 1].kind = "dir"
        <3>1. Met'[k - 1] = Met[k - 1] /\ Met[k - 1].dir \in used
            BY <2>1, <2>5, MetInUse
        <3>2. Met[k] = entry[Met[k - 1].dir, Path[k]] /\ Met'[k] = entry'[Met[k - 1].dir, Path[k]]
            BY <1>6, <2>1, <2>3, <2>5, <3>1, OneOn DEF WayNext
        <3> QED
            BY <2>4, <3>1, <3>2
    <2>6. CASE Met[k - 1].kind = "link"
        <3>1. Met'[k - 1] = Met[k - 1]
            BY <2>1, <2>6
        <3>2. Met[k] = entry[Elsewhere, Path[k]] /\ Met'[k] = entry'[Elsewhere, Path[k]]
            BY <1>6, <2>1, <2>3, <2>6, <3>1, OneOn DEF WayNext
        <3> QED
            BY <2>4, <3>2 DEF DiskInv
    <2>7. CASE Met[k - 1].kind = "file"
        <3>1. Met[k] = [kind |-> "barred"]
            BY <2>1, <2>7, OneOn
        <3> QED
            BY <2>2, <3>1
    <2>8. CASE Met[k - 1].kind \notin {"dir", "link", "file"}
        <3>1. Met[k] = Met[k - 1]
            BY <2>1, <2>8, OneOn
        <3> QED
            BY <2>2, <2>8, <3>1
    <2> QED
        BY <2>5, <2>6, <2>7, <2>8
<1> QED
    BY <1>5, <1>6

LEMMA InStoreStays ==
    ASSUME DiskInv, TreeStep, ~Swaps, NEW s \in Subdirs
    PROVE  InStore(s) \subseteq InStore(s)'
<1>1. Len(Path) \in 0 .. Len(Path) /\ s # "flat" /\ s \in Keys
    BY OutputDirAssumption, CacheAssumption DEF Subdirs
<1>2. StoreDir \subseteq StoreDir'
    <2>1. StoreDir = {} \/ Met[Len(Path)].kind \in {"dir", "link"}
        BY DEF StoreDir, DescriptorFollowing
    <2> QED
        BY <1>1, <2>1, MetStays DEF StoreDir, DescriptorFollowing
<1>3. ASSUME NEW d \in StoreDir PROVE DescriptorFollowing(entry[d, s]) \subseteq DescriptorFollowing(entry'[d, s])
    <2>1. <<d, s>> \in Places
        BY <1>1, StoreInUse DEF DiskInv, Places
    <2> QED
        BY <2>1, EntryStays DEF DescriptorFollowing
<1> QED
    BY <1>1, <1>2, <1>3 DEF InStore

\* Where a run that saves has its subdirectory open.
LEMMA SavesInStore ==
    ASSUME IInv, StoreInv, NEW r \in Runs, Saving(r)
    PROVE  ItemPlace(r)[1] \in InStore(Subdir[ItemPlace(r)[2]])
<1>1. at[r] = "opened" /\ Left(r) /\ sub[r] = Wanted(r) /\ request[r].kind = "cache"
    BY KindOf DEF IInv, Saving, Caching
<1>2. CacheControl(r) /\ PathInv(r) /\ Wanted(r) # "none" /\ Wanted(r) \in Subdirs
    BY <1>1, AtItem DEF IInv, RunInv, StoreInv, OwnInv
<1>3. IsDir(Met[Len(Path)], dirs[r][1]) /\ IsDir(entry[dirs[r][1], sub[r]], dirs[r][2])
    BY <1>1, <1>2 DEF PathInv, Caching
<1>4. dirs[r][1] \in StoreDir /\ dirs[r][2] \in DescriptorFollowing(entry[dirs[r][1], Wanted(r)])
    BY <1>1, <1>3 DEF StoreDir, DescriptorFollowing, IsDir
<1>5. Wanted(r) # "flat"
    BY <1>2 DEF Subdirs
<1>6. dirs[r][2] \in InStore(Wanted(r))
    BY <1>4, <1>5 DEF InStore
<1> QED
    BY <1>6 DEF ItemPlace, Wanted

LEMMA FilesStay ==
    ASSUME IInv, StoreInv, TreeStep, ~Swaps
    PROVE  FileInv'
<1> SUFFICES ASSUME NEW p \in Places, entry'[p].kind = "file", entry'[p].by \in Runs
             PROVE  p[1] \in InStore(Subdir[p[2]])'
    BY DEF FileInv
<1>0. DiskInv /\ Other \notin Runs
    BY OutputDirAssumption DEF IInv
<1>1. ASSUME entry[p].kind = "file", entry[p].by \in Runs
      PROVE  p[1] \in InStore(Subdir[p[2]])'
    <2>1. p[2] \in Items
        BY <1>0, <1>1, Entries, Kinds
    <2>2. Subdir[p[2]] \in Subdirs
        BY <2>1, CacheAssumption
    <2> QED
        BY <1>0, <1>1, <2>2, InStoreStays DEF StoreInv, FileInv
<1>2. CASE entry'[p] = entry[p]
    BY <1>1, <1>2
<1>3. CASE entry'[p] # entry[p]
    <2>1. PICK by \in Actors, q \in Places : Changes(by, q)
        BY <1>3 DEF TreeStep
    <2>2. \E e : Put(q, e)
        BY <2>1 DEF Changes
    <2>3. p = q
        BY <1>0, <1>3, <2>2, OnePlace
    <2>4. CASE \E d \in Dirs \ used : Put(p, Dir(by, d))
        BY <1>0, <2>4, OnePlace, Kinds
    <2>5. CASE by \in Runs /\ Saving(by) /\ p = ItemPlace(by) /\ p[2] \in Items
        <3>1. p[1] \in InStore(Subdir[p[2]])
            BY <2>5, SavesInStore
        <3>2. Subdir[p[2]] \in Subdirs
            BY <2>5, CacheAssumption
        <3> QED
            BY <1>0, <3>1, <3>2, InStoreStays
    <2>6. CASE entry[p] = File(by, p[2], "nothing") /\ by \in Runs
        BY <1>1, <2>6, Kinds
    <2>7. CASE Put(p, File(Other, Foreign, "all"))
        BY <1>0, <2>7, OnePlace, Kinds
    <2>8. CASE Put(p, Link)
        BY <1>0, <2>8, OnePlace, Kinds
    <2> QED
        BY <2>1, <2>3, <2>4, <2>5, <2>6, <2>7, <2>8 DEF Changes
<1> QED
    BY <1>2, <1>3

\* What the store holds is what is whole anywhere.
LEMMA KeptIsStored == DiskInv /\ FileInv => Kept = {x \in Items : Stored(x)}
<1> SUFFICES ASSUME DiskInv, FileInv PROVE Kept = {x \in Items : Stored(x)}
    OBVIOUS
<1>1. ASSUME NEW x \in Items, Stored(x) PROVE x \in Kept
    <2>1. PICK p \in Places : p[2] = x /\ Holds(p, x, "all")
        BY <1>1 DEF Stored
    <2>2. x # Foreign /\ entry[p].kind = "file" /\ entry[p].of = x
        BY <2>1, CacheAssumption DEF Holds
    <2>3. entry[p].by \in Runs
        BY <2>2, Entries, Kinds
    <2>4. p[1] \in InStore(Subdir[x]) /\ p = <<p[1], x>>
        BY <2>1, <2>2, <2>3 DEF FileInv, Places
    <2> QED
        BY <2>1, <2>4 DEF Kept
<1>2. ASSUME NEW x \in Kept PROVE x \in Items /\ Stored(x)
    <2>1. PICK d \in InStore(Subdir[x]) : Holds(<<d, x>>, x, "all")
        BY DEF Kept
    <2>2. x \in Items /\ Subdir[x] \in Subdirs /\ x \in Keys
        BY CacheAssumption DEF Kept
    <2>3. <<d, x>> \in Places
        BY <2>1, <2>2, StoreInUse DEF DiskInv, Places
    <2> QED
        BY <2>1, <2>2, <2>3 DEF Stored
<1> QED
    BY <1>1, <1>2

\* A step adds one artefact to it at most, and takes none away.
LEMMA KeptGrows ==
    ASSUME IInv, StoreInv, TreeStep, ~Swaps
    PROVE  /\ Kept \subseteq Kept'
           /\ Kept' = Kept \/ \E x \in Items : x \notin Kept /\ Kept' = Kept \cup {x}
<1>1. DiskInv /\ FileInv /\ DiskInv' /\ FileInv'
    BY DiskKept, FilesStay DEF IInv, StoreInv
<1>2. (DiskInv /\ FileInv => Kept = {x \in Items : Stored(x)})'
    BY KeptIsStored, PTL
<1>3. Kept = {x \in Items : Stored(x)} /\ Kept' = {x \in Items : Stored(x)'}
    BY <1>1, <1>2, KeptIsStored
<1>4. ASSUME NEW x \in Items, Stored(x) PROVE Stored(x)'
    BY <1>1, <1>4, WholeStays DEF Stored
<1>5. Kept \subseteq Kept'
    BY <1>3, <1>4
<1>6. CASE entry' = entry
    BY <1>3, <1>6 DEF Stored, Holds
<1>7. CASE entry' # entry
    <2>1. PICK by \in Actors, p \in Places : Changes(by, p)
        BY <1>7 DEF TreeStep
    <2>2. \E e : Put(p, e)
        BY <2>1 DEF Changes
    <2>3. \A q \in Places : q # p => entry'[q] = entry[q]
        BY <1>1, <2>2, OnePlace
    <2>4. ASSUME NEW x \in Items, x # p[2], Stored(x)' PROVE Stored(x)
        BY <2>3, <2>4 DEF Stored, Holds
    <2>5. \A x \in Kept' : x \in Kept \/ x = p[2]
        BY <1>3, <2>4
    <2> QED
        BY <1>3, <1>5, <2>5
<1> QED
    BY <1>5, <1>6, <1>7

\* A run's step leaves alone what the others hold.
Alone(q) ==
    /\ at'[q] = at[q] /\ step'[q] = step[q] /\ dirs'[q] = dirs[q] /\ sub'[q] = sub[q]
    /\ unread'[q] = unread[q] /\ gathered'[q] = gathered[q] /\ floor'[q] = floor[q]

LEMMA OthersAlone ==
    ASSUME Shape, NEW r \in Runs, Step(r), NEW q \in Runs, q # r
    PROVE  Alone(q) /\ request' = request
<1>1. CASE Walk(r) /\ UNCHANGED <<requestVars, cacheVars, loadVars>>
    <2>1. request' = request /\ sub' = sub /\ unread' = unread /\ gathered' = gathered /\ floor' = floor
        BY <1>1 DEF requestVars, cacheVars, loadVars
    <2>2. at'[q] = at[q]
        BY <1>1 DEF Walk, Look, Open, Stat, MakeComponent, Reopen, Descend, WalkFails, GiveUp, Goto, Shape
    <2>3. step'[q] = step[q]
        BY <1>1 DEF Walk, Look, Open, Stat, MakeComponent, Reopen, Descend, WalkFails, Shape
    <2>4. dirs'[q] = dirs[q]
        BY <1>1 DEF Walk, Look, Open, Stat, MakeComponent, Reopen, Descend, WalkFails, Shape
    <2> QED
        BY <2>1, <2>2, <2>3, <2>4 DEF Alone
<1>2. CASE Cache(r) /\ UNCHANGED <<requestVars, loadVars>>
    <2>1. request' = request /\ unread' = unread /\ gathered' = gathered /\ floor' = floor
        BY <1>2 DEF requestVars, loadVars
    <2>2. at'[q] = at[q]
        BY <1>2 DEF Cache, OpenSub, StatSub, MakeSub, ReopenSub, CreateItem, WriteItem, CompareItem, Saved,
                    SubEntered, SubNotEntered, GiveUp, Goto, Shape
    <2>3. step' = step
        BY <1>2 DEF Cache, OpenSub, StatSub, MakeSub, ReopenSub, CreateItem, WriteItem, CompareItem, Saved
    <2>4. dirs'[q] = dirs[q] /\ sub'[q] = sub[q]
        BY <1>2 DEF Cache, OpenSub, StatSub, MakeSub, ReopenSub, CreateItem, WriteItem, CompareItem, Saved,
                    SubEntered, SubNotEntered, cacheVars, Shape
    <2> QED
        BY <2>1, <2>2, <2>3, <2>4 DEF Alone
<1>3. CASE Load(r) /\ UNCHANGED <<requestVars, cacheVars>>
    <2>1. request' = request /\ sub' = sub /\ step' = step /\ dirs' = dirs
        BY <1>3 DEF requestVars, cacheVars, Load, Inspect, Layout, List, Read, CannotRead, Classify, LoadUnchanged
    <2>2. at'[q] = at[q]
        BY <1>3 DEF Load, Inspect, Layout, List, Read, CannotRead, Classify, GiveUp, Goto, Shape
    <2>3. unread'[q] = unread[q]
        BY <1>3 DEF Load, Inspect, Layout, List, Read, CannotRead, Classify, loadVars, Shape
    <2>4. gathered'[q] = gathered[q] /\ floor'[q] = floor[q]
        BY <1>3, Withheld DEF Load, Inspect, Layout, List, Read, CannotRead, Classify, loadVars, Shape, FloorOf
    <2> QED
        BY <2>1, <2>2, <2>3, <2>4 DEF Alone
<1>4. CASE Killed(r) /\ UNCHANGED <<diskVars, requestVars, cacheVars, loadVars>>
    BY <1>4 DEF Killed, Goto, Shape, Alone, requestVars, cacheVars, loadVars
<1> QED
    BY <1>1, <1>2, <1>3, <1>4 DEF Step

\* The tree unchanged, so is the way.
LEMMA SameTree ==
    ASSUME entry' = entry
    PROVE  Met' = Met /\ Kept' = Kept /\ StoreDir' = StoreDir /\ \A s \in Subdirs : InStore(s)' = InStore(s)
<1>1. Met' = Met
    BY MetIsTheWay, MetIsTheWayNext
<1>2. StoreDir' = StoreDir
    BY <1>1 DEF StoreDir
<1> QED
    BY <1>1, <1>2 DEF Kept, InStore, Holds

LEMMA PathLength ==
    /\ Len(Path) \in Nat /\ Len(Path) \in 0 .. Len(Path) /\ 0 \in 0 .. Len(Path) /\ Len(Path) \in 1 .. Len(Path)
    /\ \A i \in 1 .. Len(Path) : i \in 0 .. Len(Path) /\ i - 1 \in 0 .. Len(Path)
BY OutputDirAssumption

\* A caching run that keeps its descriptors.
LEMMA PathKept ==
    ASSUME IInv, StoreInv, TreeStep, ~Swaps, NEW r \in Runs, request[r].kind = "cache",
           \/ at'[r] \in {"look"} \cup Ended
           \/ /\ step'[r] = step[r] /\ dirs'[r] = dirs[r] /\ sub'[r] = sub[r]
              /\ \/ at[r] \in Walking /\ at'[r] \in Walking
                 \/ at[r] \in Caching /\ at'[r] \in Caching
    PROVE  PathInv(r)'
<1>0. DiskInv /\ CacheControl(r) /\ PathInv(r) /\ RunInv(r) /\ Shape
    BY DEF IInv, RunInv, StoreInv, OwnInv
<1>1. CASE at'[r] \in {"look"} \cup Ended
    BY <1>1 DEF PathInv, Walking, Caching, Making, Writing, Ended
<1>2. CASE step'[r] = step[r] /\ dirs'[r] = dirs[r] /\ sub'[r] = sub[r] /\ at[r] \in Walking /\ at'[r] \in Walking
    <2>0. step[r] \in 1 .. Len(Path)
        BY <1>0 DEF CacheControl
    <2>1. step[r] - 1 \in 0 .. Len(Path) /\ IsDir(Met[step[r] - 1], dirs[r][1])
        BY <1>0, <1>2, <2>0, PathLength DEF PathInv
    <2>2. Met'[step[r] - 1] = Met[step[r] - 1]
        BY <1>0, <2>1, MetStays DEF IsDir
    <2>3. at'[r] \notin Caching
        BY <1>2 DEF Walking, Caching, Making, Writing
    <2> QED
        BY <1>2, <2>1, <2>2, <2>3 DEF PathInv, IsDir
<1>3. CASE step'[r] = step[r] /\ dirs'[r] = dirs[r] /\ sub'[r] = sub[r] /\ at[r] \in Caching /\ at'[r] \in Caching
    <2>1. Len(Path) \in 0 .. Len(Path) /\ IsDir(Met[Len(Path)], dirs[r][1])
        BY <1>0, <1>3, PathLength DEF PathInv
    <2>2. Met'[Len(Path)] = Met[Len(Path)] /\ dirs[r][1] \in used
        BY <1>0, <2>1, MetStays, MetInUse DEF IsDir
    <2>3. ASSUME sub[r] # "none" PROVE sub[r] \in Subdirs /\ IsDir(entry'[dirs[r][1], sub[r]], dirs[r][2])
        <3>1. sub[r] \in Subdirs /\ IsDir(entry[dirs[r][1], sub[r]], dirs[r][2])
            BY <1>0, <1>3, <2>3 DEF PathInv
        <3>2. <<dirs[r][1], sub[r]>> \in Places
            BY <1>0, <2>2, <3>1, CacheAssumption DEF DiskInv, Places
        <3> QED
            BY <1>0, <3>1, <3>2, EntryStays DEF IsDir
    <2>4. at'[r] \notin Walking
        BY <1>3 DEF Walking, Caching, Making, Writing
    <2> QED
        BY <1>3, <2>1, <2>2, <2>3, <2>4 DEF PathInv, IsDir
<1> QED
    BY <1>1, <1>2, <1>3

LEMMA OwnKept ==
    ASSUME IInv, StoreInv, TreeStep, ~Swaps, NEW q \in Runs, request' = request, Alone(q)
    PROVE  OwnInv(q)'
<1>0. Shape /\ RunInv(q) /\ OwnInv(q)
    BY DEF IInv, StoreInv
<1>1. CASE request[q].kind = "cache"
    <2>1. at[q] \in {"look"} \cup Walking \cup Caching \cup Ended
        BY <1>0, <1>1 DEF RunInv, CacheControl
    <2>2. PathInv(q)'
        <3>1. CASE at[q] \in {"look"} \cup Ended
            BY <1>1, <3>1, PathKept DEF Alone
        <3>2. CASE at[q] \in Walking \/ at[q] \in Caching
            BY <1>1, <3>2, PathKept DEF Alone
        <3> QED
            BY <2>1, <3>1, <3>2
    <2> QED
        BY <1>1, <2>2 DEF OwnInv
<1>2. CASE request[q].kind = "load"
    <2>1. LoadInv(q) /\ Kept \subseteq Kept'
        BY <1>0, <1>2, KeptGrows DEF OwnInv
    <2>2. LoadInv(q)'
        BY <2>1 DEF LoadInv, Alone, Classified
    <2> QED
        BY <1>2, <2>2 DEF OwnInv
<1> QED
    BY <1>0, <1>1, <1>2, KindOf

LEMMA DescendsIntoStore ==
    ASSUME IInv, StoreInv, NEW r \in Runs, at[r] \in Walking, Descend(r), UNCHANGED <<entry, sub>>
    PROVE  PathInv(r)'
<1>1. Shape /\ DiskInv /\ RunInv(r) /\ request[r].kind = "cache"
    BY KindOf DEF IInv
<1>2. CacheControl(r) /\ PathInv(r)
    BY <1>1 DEF RunInv, StoreInv, OwnInv
<1>3. PICK d \in Descriptor(entry[Component(r)]) : dirs' = [dirs EXCEPT ![r] = <<d>>]
    BY DEF Descend
<1>4. dirs'[r][1] = d
    BY <1>1, <1>3 DEF Shape
<1>5. step[r] \in 1 .. Len(Path) /\ Here(r) = dirs[r][1] /\ IsDir(Met[step[r] - 1], dirs[r][1])
    BY <1>1, <1>2, InPlaces DEF CacheControl, PathInv
<1>6. Met[step[r]] = entry[Component(r)]
    BY <1>5, OneOn DEF IsDir, Component
<1>7. IsDir(Met'[step[r]], d)
    BY <1>3, <1>6, SameTree DEF Descriptor, IsDir
<1>8. CASE step' = [step EXCEPT ![r] = @ + 1] /\ Goto(r, "open")
    <2>1. at'[r] = "open" /\ step'[r] - 1 = step[r]
        BY <1>1, <1>5, <1>8 DEF Goto, Shape
    <2>2. at'[r] \notin Caching
        BY <2>1 DEF Caching, Making, Writing
    <2> QED
        BY <1>4, <1>7, <2>1, <2>2 DEF PathInv
<1>9. CASE ~(step[r] < Len(Path)) /\ Goto(r, "opened")
    <2>1. at'[r] = "opened"
        BY <1>1, <1>9 DEF Goto, Shape
    <2>2. step[r] = Len(Path) /\ sub'[r] = "none"
        BY <1>2, <1>5, <1>9, PathLength DEF CacheControl
    <2>3. at'[r] \notin Walking
        BY <2>1 DEF Walking
    <2> QED
        BY <1>4, <1>7, <2>2, <2>3 DEF PathInv
<1> QED
    BY <1>8, <1>9 DEF Descend

LEMMA WalkOwn ==
    ASSUME IInv, StoreInv, ~Swaps, NEW r \in Runs, Walk(r), UNCHANGED <<requestVars, cacheVars, loadVars>>
    PROVE  PathInv(r)' /\ request[r].kind = "cache"
<1>1. Shape /\ DiskInv /\ RunInv(r) /\ TreeStep /\ sub' = sub
    BY WalkIsATreeStep DEF IInv, cacheVars
<1>2. request[r].kind = "cache" /\ at[r] \in {"look"} \cup Walking
    BY <1>1, KindOf DEF Walk, Look, Open, Stat, MakeComponent, Reopen, Walking
<1> SUFFICES PathInv(r)'
    BY <1>2
<1>3. ASSUME NEW why, WalkFails(r, why) PROVE PathInv(r)'
    <2>1. at'[r] = "failed"
        BY <1>1, <1>3 DEF WalkFails, GiveUp, Goto, Shape
    <2> QED
        BY <1>1, <1>2, <2>1, PathKept DEF Ended
<1>4. ASSUME at[r] \in Walking, NEW label \in Walking, Goto(r, label), UNCHANGED <<step, dirs>> PROVE PathInv(r)'
    <2>1. at'[r] \in Walking
        BY <1>1, <1>4 DEF Goto, Shape
    <2> QED
        BY <1>1, <1>2, <1>4, <2>1, PathKept
<1>5. ASSUME at[r] \in Walking, Descend(r), UNCHANGED diskVars PROVE PathInv(r)'
    BY <1>1, <1>5, DescendsIntoStore DEF diskVars
<1>6. CASE Look(r)
    <2>1. CASE UNCHANGED <<at, dirs>>
        BY <1>1, <1>2, <1>6, <2>1, PathKept DEF Look
    <2>2. CASE step' = [step EXCEPT ![r] = 1] /\ dirs' = [dirs EXCEPT ![r] = <<Cwd>>] /\ Goto(r, "open")
        <3>1. step'[r] = 1 /\ dirs'[r][1] = Cwd /\ at'[r] = "open"
            BY <1>1, <2>2 DEF Goto, Shape
        <3>2. Met[0] = Dir(Other, Cwd)
            BY PathLength, OneOn
        <3>3. IsDir(Met'[step'[r] - 1], dirs'[r][1])
            BY <1>6, <3>1, <3>2, SameTree, Kinds DEF IsDir, Look, diskVars
        <3>4. at'[r] \notin Caching
            BY <3>1 DEF Caching, Making, Writing
        <3> QED
            BY <3>3, <3>4 DEF PathInv
    <2> QED
        BY <1>3, <1>6, <2>1, <2>2 DEF Look
<1>7. CASE Open(r)
    BY <1>3, <1>4, <1>5, <1>7 DEF Open, Walking
<1>8. CASE Stat(r)
    BY <1>3, <1>4, <1>8 DEF Stat, Walking
<1>9. CASE MakeComponent(r)
    BY <1>3, <1>4, <1>9 DEF MakeComponent, Walking
<1>10. CASE Reopen(r)
    BY <1>3, <1>5, <1>10 DEF Reopen, Walking
<1> QED
    BY <1>2, <1>6, <1>7, <1>8, <1>9, <1>10 DEF Walk

LEMMA CacheOwn ==
    ASSUME IInv, StoreInv, ~Swaps, NEW r \in Runs, Cache(r)
    PROVE  PathInv(r)' /\ request[r].kind = "cache"
<1>1. Shape /\ DiskInv /\ RunInv(r) /\ TreeStep
    BY CacheIsATreeStep DEF IInv
<1>2. request[r].kind = "cache" /\ at[r] \in Caching
    <2>1. at[r] \in Caching
        BY DEF Cache, OpenSub, StatSub, MakeSub, ReopenSub, CreateItem, Saving, WriteItem, CompareItem, Saved,
               Caching, Making, Writing
    <2> QED
        BY <1>1, <2>1, KindOf
<1> SUFFICES PathInv(r)'
    BY <1>2
<1>3. CacheControl(r) /\ PathInv(r)
    BY <1>1, <1>2 DEF RunInv, StoreInv, OwnInv
<1>4. CASE SubEntered(r) /\ Left(r) /\ UNCHANGED diskVars
    <2>1. PICK d \in Descriptor(entry[SubPlace(r)]) : dirs' = [dirs EXCEPT ![r] = <<dirs[r][1], d>>]
        BY <1>4 DEF SubEntered
    <2>2. at'[r] = "opened" /\ sub'[r] = Wanted(r) /\ dirs'[r][1] = dirs[r][1] /\ dirs'[r][2] = d
        BY <1>1, <1>4, <2>1 DEF SubEntered, Goto, Shape
    <2>3. IsDir(Met[Len(Path)], dirs[r][1]) /\ Wanted(r) \in Subdirs
        BY <1>1, <1>2, <1>3, <1>4, AtItem DEF PathInv
    <2>4. IsDir(entry[dirs[r][1], Wanted(r)], d)
        BY <2>1 DEF Descriptor, IsDir, SubPlace
    <2>5. Met' = Met /\ entry' = entry
        BY <1>4, SameTree DEF diskVars
    <2>6. at'[r] \notin Walking
        BY <2>2 DEF Walking
    <2> QED
        BY <2>2, <2>3, <2>4, <2>5, <2>6, Zenon DEF PathInv
<1>5. ASSUME NEW label \in Caching \cup Ended, Goto(r, label), UNCHANGED <<step, dirs, sub>> PROVE PathInv(r)'
    <2>1. at'[r] = label
        BY <1>1, <1>5 DEF Goto, Shape
    <2>2. CASE label \in Caching
        BY <1>1, <1>2, <1>5, <2>1, <2>2, PathKept
    <2>3. CASE label \in Ended
        BY <1>1, <1>2, <2>1, <2>3, PathKept
    <2> QED
        BY <1>5, <2>2, <2>3
<1>6. at[r] \in Making => Left(r)
    BY <1>3 DEF CacheControl
<1>7. CASE OpenSub(r)
    BY <1>4, <1>5, <1>7 DEF OpenSub, SubNotEntered, GiveUp, Caching, Making, Ended
<1>8. CASE StatSub(r)
    BY <1>5, <1>8 DEF StatSub, GiveUp, cacheVars, Caching, Making, Ended
<1>9. CASE MakeSub(r)
    BY <1>5, <1>9 DEF MakeSub, GiveUp, cacheVars, Caching, Making, Ended
<1>10. CASE ReopenSub(r)
    <2>1. CASE SubEntered(r)
        BY <1>4, <1>6, <1>10, <2>1 DEF ReopenSub, Making
    <2> QED
        BY <1>5, <1>10, <2>1 DEF ReopenSub, SubNotEntered, GiveUp, Ended
<1>11. CASE CreateItem(r)
    BY <1>5, <1>11 DEF CreateItem, GiveUp, cacheVars, Caching, Writing, Ended
<1>12. CASE WriteItem(r)
    BY <1>5, <1>12 DEF WriteItem, GiveUp, Caching, Ended
<1>13. CASE CompareItem(r)
    BY <1>5, <1>13 DEF CompareItem, Caching
<1>14. CASE Saved(r)
    BY <1>5, <1>14 DEF Saved, cacheVars, Ended
<1> QED
    BY <1>2, <1>7, <1>8, <1>9, <1>10, <1>11, <1>12, <1>13, <1>14 DEF Cache

\* What a loader reads of what the store holds.
LEMMA KeptIsFound ==
    ASSUME IInv, NEW x \in Kept
    PROVE  /\ x \in Items /\ x \in Keys /\ Subdir[x] \in Subdirs
           /\ x \in Names(Subdir[x])
           /\ \E g \in Files(<<Subdir[x], x>>) : g[2] = x
<1>1. x \in Items /\ x \in Keys /\ Subdir[x] \in Subdirs
    BY CacheAssumption DEF Kept
<1>2. PICK d \in InStore(Subdir[x]) : Holds(<<d, x>>, x, "all")
    BY DEF Kept
<1>3. entry[d, x].kind = "file" /\ entry[d, x].of = x /\ entry[d, x] # Absent
    BY <1>2, Kinds DEF Holds
<1>4. x \in Names(Subdir[x])
    BY <1>1, <1>2, <1>3 DEF Names
<1> DEFINE n == <<Subdir[x], x>>
<1>5. entry[d, x] \in Found(n)
    BY <1>2, <1>3 DEF Found
<1>6. <<n, entry[d, x].of, entry[d, x].holds>> \in Files(n)
    BY <1>3, <1>5 DEF Files
<1> QED
    BY <1>1, <1>3, <1>4, <1>6

\* And only that, where it is what it is named.
LEMMA FoundIsKept ==
    ASSUME IInv, StoreInv, NEW n \in (Subdirs \cup {"flat"}) \X Keys, NEW g \in Files(n), Classified(g)
    PROVE  g[2] \in Kept
<1>1. PICK e \in Found(n) : e.kind = "file" /\ g = <<n, e.of, e.holds>>
    BY DEF Files
<1>2. PICK d \in InStore(n[1]) : e = entry[d, n[2]]
    BY <1>1 DEF Found
<1>3. <<d, n[2]>> \in Places
    BY <1>2, StoreInUse DEF IInv, DiskInv, Places
<1>4. e.of # Foreign /\ e.holds = "all"
    BY <1>1 DEF Classified
<1>5. e.of = n[2] /\ n[2] \in Items
    <2>1. \/ \E by \in Runs, part \in Portions : e = File(by, n[2], part) /\ n[2] \in Items
          \/ e = File(Other, Foreign, "all")
        BY <1>1, <1>2, <1>3, Entries DEF IInv
    <2> QED
        BY <1>4, <2>1, Kinds
<1>6. Stored(n[2])
    BY <1>1, <1>2, <1>3, <1>4, <1>5 DEF Stored, Holds
<1> QED
    BY <1>1, <1>5, <1>6, KeptIsStored DEF IInv, StoreInv

LEMMA LoadOwn ==
    ASSUME IInv, StoreInv, NEW r \in Runs, Load(r), UNCHANGED <<requestVars, cacheVars>>
    PROVE  LoadInv(r)' /\ request[r].kind = "load" /\ entry' = entry
<1>1. Shape /\ DiskInv /\ RunInv(r)
    BY DEF IInv
<1>2. at[r] \in Loading /\ request[r].kind = "load" /\ entry' = entry
    <2>1. at[r] \in Loading /\ entry' = entry
        BY DEF Load, Inspect, Layout, List, Read, CannotRead, Classify, LoadUnchanged, diskVars, Loading
    <2> QED
        BY <1>1, <2>1, KindOf
<1> SUFFICES LoadInv(r)'
    BY <1>2
<1>3. LoadInv(r) /\ Kept' = Kept /\ unread[r] \in Reading
    BY <1>2, SameTree DEF StoreInv, OwnInv, LoadInv
<1>4. ASSUME at'[r] \in Ended, UNCHANGED <<gathered, floor>> PROVE LoadInv(r)'
    BY <1>3, <1>4 DEF LoadInv, Ended, Loading, Classified
<1>5. CASE Inspect(r)
    <2>1. CASE Goto(r, "layout") /\ floor' = [floor EXCEPT ![r] = [asked |-> TRUE, held |-> Kept]]
        <3>1. at'[r] = "layout" /\ floor'[r] = [asked |-> TRUE, held |-> Kept]
            BY <1>1, <2>1 DEF Goto, Shape
        <3>2. gathered'[r] = {} /\ unread'[r] \in Reading
            BY <1>3, <1>5 DEF Inspect, LoadInv
        <3> QED
            BY <1>3, <3>1, <3>2 DEF LoadInv
    <2>2. CASE GiveUp(r, "failed", "not a directory") /\ UNCHANGED floor
        <3>1. at'[r] = "failed"
            BY <1>1, <2>2 DEF GiveUp, Goto, Shape
        <3> QED
            BY <1>4, <1>5, <2>2, <3>1 DEF Inspect, Ended
    <2> QED
        BY <1>5, <2>1, <2>2 DEF Inspect
<1>6. CASE Layout(r)
    <2>1. at'[r] = "list" /\ gathered' = gathered /\ at[r] = "layout"
        BY <1>1, <1>6 DEF Layout, Goto, Shape
    <2>2. PICK found : unread' = [unread EXCEPT ![r].dirs = found] /\
                \/ found = LaidOut /\ UNCHANGED floor
                \/ found = <<"flat">> /\ Withhold(r, Items)
        BY <1>6 DEF Layout
    <2>3. found \in Seq(Subdirs \cup {"flat"})
        <3>1. found = <<"flat">> \/ found = <<"crls", "ocsp">>
            BY <2>2 DEF LaidOut
        <3>2. "crls" \in Subdirs \cup {"flat"} /\ "ocsp" \in Subdirs \cup {"flat"}
            BY DEF Subdirs
        <3>3. <<"crls", "ocsp">> \in Seq(Subdirs \cup {"flat"})
            BY <3>2, TwoOf
        <3>4. <<"flat">> \in Seq(Subdirs \cup {"flat"})
            OBVIOUS
        <3> QED
            BY <3>1, <3>3, <3>4
    <2>4. unread'[r].dirs = found /\ unread'[r] \in Reading
        BY <1>1, <1>3, <2>2, <2>3 DEF Reading, Shape
    <2>5. floor'[r].asked /\ floor'[r].held \subseteq floor[r].held
        <3>1. CASE UNCHANGED floor
            BY <1>3, <2>1, <3>1 DEF LoadInv
        <3>2. CASE Withhold(r, Items)
            <4>1. floor'[r] = [asked |-> TRUE, held |-> floor[r].held \ Items]
                BY <1>1, <3>2, Withheld
            <4> QED
                BY <4>1
        <3> QED
            BY <2>2, <3>1, <3>2
    <2>6. ASSUME NEW x \in floor'[r].held PROVE \E i \in DOMAIN found : found[i] = Subdir[x]
        <3>1. x \in Kept
            BY <1>3, <2>5 DEF LoadInv
        <3>2. Subdir[x] \in Subdirs /\ InStore(Subdir[x]) # {} /\ x \in Items
            BY <3>1, CacheAssumption DEF Kept
        <3>3. found = <<"crls", "ocsp">>
            <4>1. ASSUME Withhold(r, Items) PROVE FALSE
                <5>1. floor'[r] = [asked |-> TRUE, held |-> floor[r].held \ Items]
                    BY <1>1, <4>1, Withheld
                <5> QED
                    BY <2>6, <3>2, <5>1
            <4>2. found = LaidOut
                BY <2>2, <4>1
            <4> QED
                BY <3>2, <4>2 DEF LaidOut
        <3>4. 1 \in DOMAIN found /\ 2 \in DOMAIN found /\ found[1] = "crls" /\ found[2] = "ocsp"
            BY <3>3
        <3> QED
            BY <3>2, <3>4 DEF Subdirs
    <2> QED
        BY <1>3, <2>1, <2>4, <2>5, <2>6 DEF LoadInv
<1>7. CASE List(r)
    <2> DEFINE s == unread[r].dirs[1]
    <2>1. ASSUME NEW given \in SUBSET Names(s), Withhold(r, PassedOver(s, given)), UNCHANGED at,
                 unread' = [unread EXCEPT ![r] = [dirs |-> Tail(@.dirs), names |-> {s} \X given]]
          PROVE  LoadInv(r)'
        <3>1. unread'[r] = [dirs |-> Tail(unread[r].dirs), names |-> {s} \X given]
            BY <1>1, <2>1 DEF Shape
        <3>2. at[r] = "list" /\ unread[r].names = {} /\ unread[r].dirs # <<>> /\ gathered' = gathered
            BY <1>7 DEF List
        <3>3. unread[r].dirs \in Seq(Subdirs \cup {"flat"}) /\ Len(unread[r].dirs) \in Nat \ {0}
            BY <1>3, <3>2 DEF Reading
        <3>4. s \in Subdirs \cup {"flat"} /\ Tail(unread[r].dirs) \in Seq(Subdirs \cup {"flat"})
            BY <3>2, <3>3
        <3>5. unread'[r] \in Reading
            <4>1. {s} \X given \subseteq (Subdirs \cup {"flat"}) \X Keys
                BY <3>4 DEF Names
            <4> QED
                BY <3>1, <3>4, <4>1 DEF Reading
        <3>6. floor'[r] = [asked |-> TRUE, held |-> floor[r].held \ PassedOver(s, given)]
            BY <1>1, <2>1, Withheld
        <3>7. ASSUME NEW x \in floor'[r].held
              PROVE  \/ \E i \in DOMAIN unread'[r].dirs : unread'[r].dirs[i] = Subdir[x]
                     \/ <<Subdir[x], x>> \in unread'[r].names
                     \/ \E g \in gathered[r] : g[2] = x
            <4>1. x \in floor[r].held /\ x \notin PassedOver(s, given)
                BY <3>6
            <4>2. x \in Kept
                BY <1>3, <4>1 DEF LoadInv
            <4>3. ASSUME NEW i \in DOMAIN unread[r].dirs, unread[r].dirs[i] = Subdir[x]
                  PROVE  (\E j \in DOMAIN unread'[r].dirs : unread'[r].dirs[j] = Subdir[x]) \/ <<Subdir[x], x>> \in unread'[r].names
                <5>1. CASE i = 1
                    <6>1. s = Subdir[x] /\ x \in Items /\ x \in Names(s)
                        BY <4>2, <4>3, <5>1, KeptIsFound
                    <6>2. x \in given
                        BY <4>1, <6>1 DEF PassedOver
                    <6> QED
                        BY <3>1, <6>1, <6>2
                <5>2. CASE i # 1
                    <6>1. i - 1 \in 1 .. Len(Tail(unread[r].dirs)) /\ Tail(unread[r].dirs)[i - 1] = unread[r].dirs[i]
                        BY <3>3, <4>3, <5>2
                    <6>2. i - 1 \in DOMAIN unread'[r].dirs /\ unread'[r].dirs[i - 1] = Subdir[x]
                        BY <3>1, <3>4, <4>3, <6>1
                    <6> QED
                        BY <6>2
                <5> QED
                    BY <5>1, <5>2
            <4> QED
                BY <1>3, <3>2, <4>1, <4>3 DEF LoadInv
        <3> QED
            BY <1>3, <2>1, <3>2, <3>5, <3>6, <3>7 DEF LoadInv, Loading
    <2>2. CASE GiveUp(r, "failed", "not listed") /\ UNCHANGED floor
        <3>1. at'[r] = "failed"
            BY <1>1, <2>2 DEF GiveUp, Goto, Shape
        <3> QED
            BY <1>4, <1>7, <2>2, <3>1 DEF List, Ended
    <2> QED
        BY <1>7, <2>1, <2>2 DEF List
<1>8. CASE Read(r)
    <2> DEFINE n == NextName(r)
    <2>1. at[r] = "list" /\ unread[r].names # {} /\ at' = at /\ floor' = floor
        BY <1>8 DEF Read
    <2>2. n \in unread[r].names
        BY <2>1 DEF NextName
    <2>3. gathered'[r] = gathered[r] \cup Files(n) /\ unread'[r] = [unread[r] EXCEPT !.names = @ \ {n}]
        BY <1>1, <1>8 DEF Read, Shape
    <2>4. unread'[r] \in Reading /\ unread'[r].dirs = unread[r].dirs /\ unread'[r].names = unread[r].names \ {n}
        <3> HIDE DEF n
        <3> QED
            BY <1>3, <2>3 DEF Reading
    <2>5. n \in (Subdirs \cup {"flat"}) \X Keys
        BY <1>3, <2>2 DEF Reading
    <2> HIDE DEF n
    <2>6. ASSUME NEW g \in gathered'[r], Classified(g) PROVE g[2] \in Kept
        BY <1>3, <2>3, <2>5, <2>6, FoundIsKept DEF LoadInv
    <2>7. ASSUME NEW x \in floor[r].held
          PROVE  \/ \E i \in DOMAIN unread'[r].dirs : unread'[r].dirs[i] = Subdir[x]
                 \/ <<Subdir[x], x>> \in unread'[r].names
                 \/ \E g \in gathered'[r] : g[2] = x
        <3>1. x \in Kept
            BY <1>3 DEF LoadInv
        <3>2. <<Subdir[x], x>> = n => \E g \in gathered'[r] : g[2] = x
            BY <2>3, <3>1, KeptIsFound
        <3>3. (\E g \in gathered[r] : g[2] = x) => \E g \in gathered'[r] : g[2] = x
            BY <2>3
        <3> QED
            BY <1>3, <2>1, <2>4, <3>2, <3>3 DEF LoadInv
    <2> QED
        BY <1>3, <2>1, <2>4, <2>6, <2>7 DEF LoadInv, Classified
<1>9. CASE CannotRead(r)
    <2>1. at'[r] = "failed"
        BY <1>1, <1>9 DEF CannotRead, GiveUp, Goto, Shape
    <2> QED
        BY <1>4, <1>9, <2>1 DEF CannotRead, loadVars, Ended
<1>10. CASE Classify(r)
    <2>1. at'[r] \in {"done", "failed"}
        BY <1>1, <1>10 DEF Classify, GiveUp, Goto, Shape
    <2> QED
        BY <1>4, <1>10, <2>1 DEF Classify, loadVars, Ended
<1> QED
    BY <1>5, <1>6, <1>7, <1>8, <1>9, <1>10 DEF Load

LEMMA StoreInit == Init => StoreInv
<1> SUFFICES ASSUME Init PROVE StoreInv
    OBVIOUS
<1>1. FileInv
    BY Kinds DEF Init, InitDisk, FileInv
<1>2. ASSUME NEW r \in Runs PROVE OwnInv(r)
    <2>1. at[r] = CASE request[r].kind = "cache" /\ request[r].items # <<>> -> "look"
                    [] request[r].kind = "load" -> "load"
                    [] OTHER -> "done"
        BY DEF Init
    <2>2. ASSUME request[r].kind = "cache" PROVE PathInv(r)
        <3>1. at[r] = "look" \/ at[r] = "done"
            BY <2>1, <2>2
        <3>2. at[r] \notin Walking /\ at[r] \notin Caching
            BY <3>1 DEF Walking, Caching, Making, Writing
        <3> QED
            BY <3>2 DEF PathInv
    <2>3. ASSUME request[r].kind = "load" PROVE LoadInv(r)
        <3>1. at[r] = "load"
            BY <2>1, <2>3
        <3>2. unread[r] = [dirs |-> <<>>, names |-> {}] /\ gathered[r] = {} /\ floor[r] = [asked |-> FALSE, held |-> {}]
            BY DEF Init
        <3>3. <<>> \in Seq(Subdirs \cup {"flat"})
            OBVIOUS
        <3>4. unread[r] \in Reading
            BY <3>2, <3>3 DEF Reading
        <3> QED
            BY <3>1, <3>2, <3>4 DEF LoadInv
    <2> QED
        BY <2>2, <2>3 DEF OwnInv
<1> QED
    BY <1>1, <1>2 DEF StoreInv

LEMMA StepStoreKeeps ==
    ASSUME IInv, StoreInv, ~Swaps, NEW r \in Runs, Step(r), TreeStep
    PROVE  StoreInv'
<1>1. Shape /\ FileInv'
    BY FilesStay DEF IInv
<1>2. ASSUME NEW q \in Runs, q # r PROVE OwnInv(q)'
    BY <1>1, <1>2, OthersAlone, OwnKept
<1>3. OwnInv(r)'
    <2>1. request[r].kind \in {"cache", "load"} /\ at[r] \notin Ended => at[r] \notin Ended
        OBVIOUS
    <2>2. CASE Walk(r) /\ UNCHANGED <<requestVars, cacheVars, loadVars>>
        <3>1. PathInv(r)' /\ request'[r].kind = "cache"
            BY <2>2, WalkOwn DEF requestVars
        <3> QED
            BY <3>1 DEF OwnInv
    <2>3. CASE Cache(r) /\ UNCHANGED <<requestVars, loadVars>>
        <3>1. PathInv(r)' /\ request'[r].kind = "cache"
            BY <2>3, CacheOwn DEF requestVars
        <3> QED
            BY <3>1 DEF OwnInv
    <2>4. CASE Load(r) /\ UNCHANGED <<requestVars, cacheVars>>
        <3>1. LoadInv(r)' /\ request'[r].kind = "load"
            BY <2>4, LoadOwn DEF requestVars
        <3> QED
            BY <3>1 DEF OwnInv
    <2>5. CASE Killed(r) /\ UNCHANGED <<diskVars, requestVars, cacheVars, loadVars>>
        <3>1. at'[r] = "crashed" /\ request' = request /\ gathered' = gathered /\ floor' = floor /\ Kept' = Kept
            BY <1>1, <2>5, SameTree DEF Killed, Goto, Shape, diskVars, requestVars, loadVars
        <3>2. request[r].kind = "cache" => PathInv(r)'
            BY <3>1, PathKept DEF Ended
        <3>3. request[r].kind = "load" => LoadInv(r)'
            BY <3>1 DEF StoreInv, OwnInv, LoadInv, Loading, Classified
        <3> QED
            BY <3>1, <3>2, <3>3 DEF OwnInv
    <2> QED
        BY <2>2, <2>3, <2>4, <2>5 DEF Step
<1> QED
    BY <1>1, <1>2, <1>3 DEF StoreInv

LEMMA StoreNextKeeps ==
    ASSUME IInv, StoreInv, ~Swaps, [Next]_vars
    PROVE  StoreInv'
<1>1. TreeStep
    BY NextIsATreeStep
<1>2. ASSUME NEW r \in Runs, Step(r) PROVE StoreInv'
    BY <1>1, <1>2, StepStoreKeeps
<1>3. ASSUME UNCHANGED <<walkVars, requestVars, cacheVars, loadVars>> PROVE StoreInv'
    <2>1. FileInv'
        BY <1>1, FilesStay
    <2>2. ASSUME NEW q \in Runs PROVE OwnInv(q)'
        <3>1. Alone(q) /\ request' = request
            BY <1>3 DEF Alone, walkVars, requestVars, cacheVars, loadVars
        <3> QED
            BY <1>1, <3>1, OwnKept
    <2> QED
        BY <2>1, <2>2 DEF StoreInv
<1>4. CASE Meddle(Contested) /\ UNCHANGED <<requestVars, cacheVars, loadVars>>
    BY <1>3, <1>4 DEF Meddle
<1>5. CASE UNCHANGED vars
    BY <1>3, <1>5 DEF vars
<1> QED
    BY <1>2, <1>4, <1>5 DEF Next, Done

-----------------------------------------------------------------------------
(* What the store promises.                                                *)

Nothing == [is |-> "none", told |-> {}]
Asking  == [is |-> "asked", told |-> {}]
Refused == [is |-> "refused", told |-> {}]

\* Where a run's question stands.
AnswerIs(r) ==
    /\ request[r].kind # "load" => Answer(r) = Nothing
    /\ request[r].kind = "load" /\ at[r] = "done" =>
            Answer(r) = [is |-> "answered", told |-> {g[2] : g \in gathered[r]}]
    /\ request[r].kind = "load" /\ at[r] = "failed" => Answer(r) = Refused
    /\ request[r].kind = "load" /\ at[r] \notin {"done", "failed"} /\ floor[r].asked => Answer(r) = Asking
    /\ request[r].kind = "load" /\ at[r] \notin {"done", "failed"} /\ ~floor[r].asked => Answer(r) = Nothing

LEMMA Answers == \A r \in Runs : AnswerIs(r)
<1> SUFFICES ASSUME NEW r \in Runs PROVE AnswerIs(r)
    OBVIOUS
<1> DEFINE told == {g[2] : g \in gathered[r]}
<1>1. Answer(r) = CASE request[r].kind = "load" /\ at[r] = "done" -> [is |-> "answered", told |-> told]
                    [] request[r].kind = "load" /\ at[r] = "failed" -> Refused
                    [] request[r].kind = "load" /\ at[r] \notin {"done", "failed"} /\ floor[r].asked -> Asking
                    [] OTHER -> Nothing
    BY Zenon DEF Answer, Nothing, Asking, Refused
<1> HIDE DEF told
<1>2. AnswerIs(r)!1 /\ AnswerIs(r)!3 /\ AnswerIs(r)!4 /\ AnswerIs(r)!5
    BY <1>1, Zenon
<1>3. request[r].kind = "load" /\ at[r] = "done" => Answer(r) = [is |-> "answered", told |-> told]
    BY <1>1, Zenon
<1> QED
    BY <1>2, <1>3 DEF AnswerIs, told

LEMMA AnswersNext == \A r \in Runs : AnswerIs(r)'
<1>1. (\A r \in Runs : AnswerIs(r))'
    BY Answers, PTL
<1> QED
    BY <1>1

\* One reader's question moves, and nothing else.
Moves(r) ==
    /\ Kept' = Kept
    /\ \A q \in Runs \ {r} : Answer(q)' = Answer(q) /\ floor'[q].held = floor[q].held

LEMMA AskIsAsk ==
    ASSUME NEW r \in Runs, Moves(r), Answer(r) = Nothing, Answer(r)' = Asking, floor'[r].held = Kept
    PROVE  Store!Next
<1> DEFINE held == [q \in Runs |-> floor[q].held]
           held2 == [q \in Runs |-> floor'[q].held]
           said == [q \in Runs |-> Answer(q)]
           said2 == [q \in Runs |-> Answer(q)']
<1>1. held2 = [held EXCEPT ![r] = Kept]
    BY DEF Moves
<1>2. said2 = [said EXCEPT ![r].is = "asked"]
    <2>1. said2[r] = [said[r] EXCEPT !.is = "asked"]
        BY DEF Nothing, Asking
    <2> QED
        BY <2>1 DEF Moves
<1>3. said[r].is = "none"
    BY DEF Nothing
<1>4. Store!Ask(r)
    BY <1>1, <1>2, <1>3 DEF Store!Ask, Moves
<1> QED
    BY <1>4 DEF Store!Next

LEMMA RefuseIsRefuse ==
    ASSUME NEW r \in Runs, Moves(r), Answer(r) \in {Nothing, Asking}, Answer(r)' = Refused,
           floor'[r].held = floor[r].held
    PROVE  Store!Next
<1> DEFINE held == [q \in Runs |-> floor[q].held]
           held2 == [q \in Runs |-> floor'[q].held]
           said == [q \in Runs |-> Answer(q)]
           said2 == [q \in Runs |-> Answer(q)']
<1>1. held2 = held
    BY DEF Moves
<1>2. said2 = [said EXCEPT ![r].is = "refused"]
    <2>1. said2[r] = [said[r] EXCEPT !.is = "refused"]
        BY DEF Nothing, Asking, Refused
    <2> QED
        BY <2>1 DEF Moves
<1>3. said[r].is \in {"none", "asked"}
    BY DEF Nothing, Asking
<1>4. Store!Refuse(r)
    BY <1>1, <1>2, <1>3 DEF Store!Refuse, Moves
<1> QED
    BY <1>4 DEF Store!Next

LEMMA TellIsTell ==
    ASSUME NEW r \in Runs, Moves(r), NEW told \in SUBSET Kept, floor[r].held \subseteq told,
           Answer(r) = Asking, Answer(r)' = [is |-> "answered", told |-> told], floor'[r].held = floor[r].held
    PROVE  Store!Next
<1> DEFINE held == [q \in Runs |-> floor[q].held]
           held2 == [q \in Runs |-> floor'[q].held]
           said == [q \in Runs |-> Answer(q)]
           said2 == [q \in Runs |-> Answer(q)']
<1>1. held2 = held
    BY DEF Moves
<1>2. said2 = [said EXCEPT ![r] = [is |-> "answered", told |-> told]]
    BY DEF Moves
<1>3. said[r].is = "asked" /\ held[r] \subseteq told
    BY DEF Asking
<1>4. Store!Tell(r)
    BY <1>1, <1>2, <1>3 DEF Store!Tell, Moves
<1> QED
    BY <1>4 DEF Store!Next

\* Only the store moves, or nothing does.
LEMMA KeepIsKeep ==
    ASSUME \A q \in Runs : Answer(q)' = Answer(q) /\ floor'[q].held = floor[q].held,
           Kept' = Kept \/ \E x \in Items : x \notin Kept /\ Kept' = Kept \cup {x}
    PROVE  [Store!Next]_(Store!vars)
<1> DEFINE held == [q \in Runs |-> floor[q].held]
           held2 == [q \in Runs |-> floor'[q].held]
           said == [q \in Runs |-> Answer(q)]
           said2 == [q \in Runs |-> Answer(q)']
<1>1. held2 = held /\ said2 = said
    OBVIOUS
<1>2. CASE Kept' = Kept
    BY <1>1, <1>2 DEF Store!vars
<1>3. ASSUME NEW x \in Items, x \notin Kept, Kept' = Kept \cup {x} PROVE Store!Next
    BY <1>1, <1>3 DEF Store!Keep, Store!Next
<1> QED
    BY <1>2, <1>3

\* A call that fails may make what is owed less.
LEMMA OverlookIsOverlook ==
    ASSUME NEW r \in Runs, Moves(r), Faulty, Answer(r) = Asking, Answer(r)' = Asking,
           floor'[r].held \subseteq floor[r].held
    PROVE  Store!Next
<1> DEFINE held == [q \in Runs |-> floor[q].held]
           held2 == [q \in Runs |-> floor'[q].held]
           said == [q \in Runs |-> Answer(q)]
           said2 == [q \in Runs |-> Answer(q)']
<1>1. held2 = [held EXCEPT ![r] = held2[r]] /\ held2[r] \in SUBSET held[r]
    BY DEF Moves
<1>2. said2 = said /\ said[r].is = "asked"
    <2>1. \A q \in Runs : Answer(q)' = Answer(q)
        BY DEF Moves
    <2>2. said2 = said
        BY <2>1
    <2>3. said[r].is = "asked"
        BY DEF Asking
    <2> QED
        BY <2>2, <2>3
<1>3. Store!Overlook(r)
    BY <1>1, <1>2 DEF Store!Overlook, Moves
<1> QED
    BY <1>3 DEF Store!Next

LEMMA StartsAsStore == Init => Store!Init
<1> SUFFICES ASSUME Init PROVE Store!Init
    OBVIOUS
<1>1. Kept = {}
    <2>1. \A p \in Places : entry[p] = Absent
        BY DEF Init, InitDisk
    <2>2. DiskInv /\ FileInv
        BY InitHolds, StoreInit DEF IInv, StoreInv
    <2>3. ASSUME NEW x \in Items PROVE ~Stored(x)
        BY <2>1, Kinds DEF Stored, Holds
    <2> QED
        BY <2>2, <2>3, KeptIsStored
<1>2. ASSUME NEW r \in Runs PROVE Answer(r) = Nothing /\ floor[r].held = {}
    <2>1. at[r] = CASE request[r].kind = "cache" /\ request[r].items # <<>> -> "look"
                    [] request[r].kind = "load" -> "load"
                    [] OTHER -> "done"
        BY DEF Init
    <2>2. floor[r] = [asked |-> FALSE, held |-> {}]
        BY DEF Init
    <2>3. request[r].kind = "load" => at[r] = "load"
        BY <2>1
    <2> QED
        BY <2>2, <2>3, Answers DEF AnswerIs
<1> QED
    BY <1>1, <1>2, Zenon DEF Store!Init, Nothing

\* What a step of a loader says.
LEMMA LoadRefines ==
    ASSUME IInv, StoreInv, NEW r \in Runs, Load(r), UNCHANGED <<requestVars, cacheVars>>
    PROVE  [Store!Next]_(Store!vars)
<1>1. Shape /\ Step(r)
    BY DEF IInv, Step
<1>2. request[r].kind = "load" /\ request' = request /\ Kept' = Kept /\ LoadInv(r) /\ at[r] \in Loading
    <2>1. request[r].kind = "load" /\ request' = request /\ entry' = entry
        BY LoadOwn DEF requestVars
    <2>2. at[r] \in Loading
        BY DEF Load, Inspect, Layout, List, Read, CannotRead, Classify, Loading
    <2> QED
        BY <2>1, <2>2, SameTree DEF StoreInv, OwnInv
<1>3. ASSUME NEW q \in Runs \ {r} PROVE Answer(q)' = Answer(q) /\ floor'[q].held = floor[q].held
    BY <1>1, OthersAlone DEF Alone, Answer
<1>4. Moves(r)
    BY <1>2, <1>3 DEF Moves
<1>5. /\ at[r] = "load" => Answer(r) = Nothing
      /\ at[r] \in {"layout", "list"} => Answer(r) = Asking
      /\ Answer(r) \in {Nothing, Asking}
    BY <1>2, Answers DEF LoadInv, AnswerIs, Loading
<1>6. ASSUME at'[r] = "failed", floor' = floor PROVE Store!Next
    <2>1. Answer(r)' = Refused
        BY <1>2, <1>6, AnswersNext DEF AnswerIs
    <2> QED
        BY <1>4, <1>5, <1>6, <2>1, RefuseIsRefuse
<1>7. ASSUME at[r] \in {"layout", "list"}, at'[r] = "list", floor'[r].asked,
             floor'[r].held = floor[r].held \/ (Faulty /\ floor'[r].held \subseteq floor[r].held)
      PROVE  [Store!Next]_(Store!vars)
    <2>1. Answer(r)' = Asking
        BY <1>2, <1>7, AnswersNext DEF AnswerIs
    <2>2. CASE floor'[r].held = floor[r].held
        <3>1. \A q \in Runs : Answer(q)' = Answer(q) /\ floor'[q].held = floor[q].held
            BY <1>3, <1>5, <1>7, <2>1, <2>2
        <3> QED
            BY <1>2, <3>1, KeepIsKeep
    <2>3. CASE Faulty /\ floor'[r].held \subseteq floor[r].held
        BY <1>4, <1>5, <1>7, <2>1, <2>3, OverlookIsOverlook
    <2> QED
        BY <1>7, <2>2, <2>3
<1>8. CASE Inspect(r)
    <2>1. CASE Goto(r, "layout") /\ floor' = [floor EXCEPT ![r] = [asked |-> TRUE, held |-> Kept]]
        <3>1. at'[r] = "layout" /\ floor'[r] = [asked |-> TRUE, held |-> Kept] /\ at[r] = "load"
            BY <1>1, <1>8, <2>1 DEF Inspect, Goto, Shape
        <3>2. Answer(r)' = Asking
            BY <1>2, <3>1, AnswersNext DEF AnswerIs
        <3> QED
            BY <1>4, <1>5, <3>1, <3>2, AskIsAsk
    <2>2. CASE GiveUp(r, "failed", "not a directory") /\ UNCHANGED floor
        <3>1. at'[r] = "failed"
            BY <1>1, <2>2 DEF GiveUp, Goto, Shape
        <3> QED
            BY <1>6, <2>2, <3>1
    <2> QED
        BY <1>8, <2>1, <2>2 DEF Inspect
<1>9. CASE Layout(r)
    <2>1. at[r] = "layout" /\ at'[r] = "list" /\ (UNCHANGED floor \/ (Faulty /\ Withhold(r, Items)))
        BY <1>1, <1>9 DEF Layout, Goto, Shape
    <2>2. floor[r].asked
        BY <1>2, <2>1 DEF LoadInv
    <2>3. CASE UNCHANGED floor
        BY <1>7, <2>1, <2>2, <2>3
    <2>4. CASE Faulty /\ Withhold(r, Items)
        <3>1. floor'[r] = [asked |-> TRUE, held |-> floor[r].held \ Items]
            BY <1>1, <2>4, Withheld
        <3>2. floor'[r].asked /\ floor'[r].held \subseteq floor[r].held
            BY <3>1
        <3> QED
            BY <1>7, <2>1, <2>4, <3>2
    <2> QED
        BY <2>1, <2>3, <2>4
<1>10. CASE List(r)
    <2> DEFINE s == unread[r].dirs[1]
    <2>1. at[r] = "list"
        BY <1>10 DEF List
    <2>2. CASE UNCHANGED floor /\ GiveUp(r, "failed", "not listed")
        BY <1>1, <1>6, <2>2 DEF GiveUp, Goto, Shape
    <2>3. ASSUME NEW given \in SUBSET Names(s), given = Names(s) \/ Faulty, UNCHANGED at, Withhold(r, PassedOver(s, given))
          PROVE  [Store!Next]_(Store!vars)
        <3>1. floor'[r] = [asked |-> TRUE, held |-> floor[r].held \ PassedOver(s, given)]
            BY <1>1, <2>3, Withheld
        <3>2. given = Names(s) => PassedOver(s, given) = {}
            BY DEF PassedOver
        <3>3. floor'[r].held = floor[r].held \/ (Faulty /\ floor'[r].held \subseteq floor[r].held)
            BY <2>3, <3>1, <3>2
        <3> QED
            BY <1>7, <2>1, <2>3, <3>1, <3>3
    <2> QED
        BY <1>10, <2>2, <2>3 DEF List
<1>11. CASE Read(r)
    <2>1. at[r] = "list" /\ at' = at /\ floor' = floor
        BY <1>11 DEF Read
    <2>2. floor[r].asked
        BY <1>2, <2>1 DEF LoadInv
    <2> QED
        BY <1>7, <2>1, <2>2
<1>12. CASE CannotRead(r)
    BY <1>1, <1>6, <1>12 DEF CannotRead, GiveUp, Goto, Shape, loadVars
<1>13. CASE Classify(r)
    <2>1. at[r] = "list" /\ unread[r] = [dirs |-> <<>>, names |-> {}] /\ gathered' = gathered /\ floor' = floor
        BY <1>13 DEF Classify, loadVars
    <2>2. CASE (\A g \in gathered[r] : Classified(g)) /\ Goto(r, "done")
        <3> DEFINE said == {g[2] : g \in gathered[r]}
        <3>1. said \in SUBSET Kept
            BY <1>2, <2>2 DEF LoadInv
        <3>2. floor[r].held \subseteq said
            <4>1. ASSUME NEW x \in floor[r].held PROVE \E g \in gathered[r] : g[2] = x
                <5>1. unread[r].names = {} /\ unread[r].dirs = <<>>
                    BY <2>1
                <5>2. DOMAIN unread[r].dirs = {}
                    BY <5>1
                <5> QED
                    BY <1>2, <2>1, <5>1, <5>2 DEF LoadInv
            <4> QED
                BY <4>1
        <3>3. Answer(r)' = [is |-> "answered", told |-> said]
            <4>1. at'[r] = "done"
                BY <1>1, <2>2 DEF Goto, Shape
            <4> QED
                BY <1>2, <2>1, <4>1, AnswersNext DEF AnswerIs
        <3> HIDE DEF said
        <3> QED
            BY <1>4, <1>5, <2>1, <3>1, <3>2, <3>3, TellIsTell
    <2>3. CASE GiveUp(r, "failed", "neither a CRL nor an OCSP response")
        <3>1. at'[r] = "failed"
            BY <1>1, <2>3 DEF GiveUp, Goto, Shape
        <3> QED
            BY <1>6, <2>1, <3>1
    <2> QED
        BY <1>13, <2>2, <2>3 DEF Classify
<1> QED
    BY <1>8, <1>9, <1>10, <1>11, <1>12, <1>13 DEF Load

\* And what every step does.
LEMMA NextRefines ==
    ASSUME IInv, StoreInv, ~Swaps, [Next]_vars
    PROVE  [Store!Next]_(Store!vars)
<1>1. Shape /\ (Kept' = Kept \/ \E x \in Items : x \notin Kept /\ Kept' = Kept \cup {x})
    BY NextIsATreeStep, KeptGrows DEF IInv
<1>2. ASSUME NEW r \in Runs, Step(r), request[r].kind = "load" => at'[r] = "crashed" /\ at[r] \notin Ended,
             floor'[r] = floor[r]
      PROVE  [Store!Next]_(Store!vars)
    <2>1. request' = request
        BY <1>2 DEF Step, requestVars
    <2>2. Answer(r)' = Answer(r)
        BY <1>2, <2>1, Answers, AnswersNext DEF AnswerIs, Ended
    <2>3. ASSUME NEW q \in Runs, q # r PROVE Answer(q)' = Answer(q) /\ floor'[q].held = floor[q].held
        BY <1>1, <1>2, <2>3, OthersAlone DEF Alone, Answer
    <2> QED
        BY <1>1, <1>2, <2>2, <2>3, KeepIsKeep
<1>3. ASSUME NEW r \in Runs, Step(r) PROVE [Store!Next]_(Store!vars)
    <2>1. CASE Walk(r) /\ UNCHANGED <<requestVars, cacheVars, loadVars>>
        BY <1>2, <1>3, <2>1, WalkOwn DEF loadVars
    <2>2. CASE Cache(r) /\ UNCHANGED <<requestVars, loadVars>>
        BY <1>2, <1>3, <2>2, CacheOwn DEF loadVars
    <2>3. CASE Load(r) /\ UNCHANGED <<requestVars, cacheVars>>
        BY <2>3, LoadRefines
    <2>4. CASE Killed(r) /\ UNCHANGED <<diskVars, requestVars, cacheVars, loadVars>>
        BY <1>1, <1>2, <1>3, <2>4 DEF Killed, Goto, Shape, loadVars
    <2> QED
        BY <1>3, <2>1, <2>2, <2>3, <2>4 DEF Step
<1>4. ASSUME UNCHANGED <<at, request, gathered, floor>> PROVE [Store!Next]_(Store!vars)
    BY <1>1, <1>4, KeepIsKeep DEF Answer
<1>5. CASE Meddle(Contested) /\ UNCHANGED <<requestVars, cacheVars, loadVars>>
    BY <1>4, <1>5 DEF Meddle, walkVars, requestVars, loadVars
<1>6. CASE UNCHANGED vars
    BY <1>4, <1>6 DEF vars, walkVars, requestVars, loadVars
<1> QED
    BY <1>3, <1>5, <1>6 DEF Next, Done

\* Where no directory is swapped for a link, --online-cache and --revocation-store
\* are together what EvidenceStore says, for every interleaving of caching and
\* loading runs, every fault and kill, and every file, directory or link another
\* program puts where a name is free: what load_within answers is only what the
\* store holds, and at least all it held when the load began but what a failing
\* is_dir or directory entry withheld from it (nothing where no call fails); or
\* it refuses.
THEOREM CacheImplementsStore == ASSUME ~Swaps PROVE Spec => StoreOfEvidence
<1>1. Init => IInv /\ StoreInv /\ Store!Init
    BY InitHolds, StoreInit, StartsAsStore
<1>2. IInv /\ StoreInv /\ [Next]_vars => IInv' /\ StoreInv' /\ [Store!Next]_(Store!vars)
    BY NextKeeps, StoreNextKeeps, NextRefines
<1> QED
    BY <1>1, <1>2, PTL DEF Spec, StoreOfEvidence, Store!Spec

=============================================================================
