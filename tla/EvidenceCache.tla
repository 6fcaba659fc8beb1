--------------------------- MODULE EvidenceCache ---------------------------
(***************************************************************************)
(* The revocation evidence a run keeps for later runs: write_cache         *)
(* (online/mod.rs) writes what `verify --online` fetched below the         *)
(* --online-cache directory, and load_within (revocation_store.rs) reads a *)
(* directory of that shape for --revocation-store.                         *)
(*                                                                         *)
(* An artefact is named by its own bytes, so it is its own name.  A file   *)
(* is created empty and then written; a run that is killed, or whose write *)
(* fails, leaves what it had.  The writer goes by descriptors and follows  *)
(* no link; the loader goes by paths, and follows those on the way.        *)
(***************************************************************************)
EXTENDS OutputDir

CONSTANTS
    Items,       \* the artefacts: CRLs and OCSP responses
    Subdir,      \* per artefact, the subdirectory it is kept in
    Scenarios,   \* what the runs may have been asked and fetched
    MaxFiles,    \* files the loader takes from one directory, 4096 in the code
    MaxStore     \* files it takes in all; MAX_STORE_BYTES, in files

Subdirs == {"crls", "ocsp"}

ASSUME CacheAssumption ==
    /\ Items \subseteq Keys /\ Subdirs \subseteq Keys \ Items
    /\ Items \subseteq Contents \ {Foreign}
    /\ Subdir \in [Items -> Subdirs]
    /\ \A scenario \in Scenarios : \A r \in Runs :
        /\ scenario[r].kind \in {"cache", "load"}
        /\ scenario[r].items \in Seq(Items)
    /\ MaxFiles \in Nat /\ MaxStore \in Nat

VARIABLES
    request,   \* what each run was asked
    saved,     \* the artefacts write_cache is past
    sub,       \* the subdirectory it holds open
    noted,     \* the artefacts it reported as cache_collision
    unread,    \* what the loader has yet to list, then to read
    gathered,  \* what it read, as <<the directory entry, what it held>>
    floor      \* history: whether a loader has begun, and what the store held then,
               \* but for what a failing call has withheld from it since

requestVars == <<request>>
cacheVars   == <<saved, sub, noted>>
loadVars    == <<unread, gathered, floor>>
vars == <<diskVars, walkVars, requestVars, cacheVars, loadVars>>

Init ==
    /\ InitDisk
    /\ request \in Scenarios
    /\ at = [r \in Runs |->
            CASE request[r].kind = "cache" /\ request[r].items # <<>> -> "look"
              [] request[r].kind = "load" -> "load"
              [] OTHER -> "done"]
    /\ saved = [r \in Runs |-> 0]
    /\ sub = [r \in Runs |-> "none"]
    /\ noted = [r \in Runs |-> {}]
    /\ unread = [r \in Runs |-> [dirs |-> <<>>, names |-> {}]]
    /\ gathered = [r \in Runs |-> {}]
    /\ floor = [r \in Runs |-> [asked |-> FALSE, held |-> {}]]

-----------------------------------------------------------------------------
(* write_cache: a subdirectory opened or made, then its files.             *)

Left(r) == saved[r] < Len(request[r].items)
Item(r) == request[r].items[saved[r] + 1]
Wanted(r) == Subdir[Item(r)]
SubPlace(r) == <<dirs[r][1], Wanted(r)>>
ItemPlace(r) == <<dirs[r][2], Item(r)>>

Holds(p, x, part) == entry[p].kind = "file" /\ entry[p].of = x /\ entry[p].holds = part

SubEntered(r) ==
    /\ \E d \in Descriptor(entry[SubPlace(r)]) : dirs' = [dirs EXCEPT ![r] = <<dirs[r][1], d>>]
    /\ sub' = [sub EXCEPT ![r] = Wanted(r)]
    /\ Goto(r, "opened")
    /\ UNCHANGED failure

SubNotEntered(r, why) == GiveUp(r, "failed", why) /\ UNCHANGED <<dirs, sub>>

\* open_or_create_subdirectory, which tolerates being beaten to the mkdirat.
OpenSub(r) ==
    /\ at[r] = "opened" /\ Left(r) /\ sub[r] # Wanted(r)
    /\ LET e == entry[SubPlace(r)] IN
        \/ SubEntered(r)
        \/ (e = Absent \/ Faulty) /\ Goto(r, "sub stat") /\ UNCHANGED <<dirs, sub, failure>>
        \/ e # Absent /\ Descriptor(e) = {} /\ SubNotEntered(r, "unsafe")
    /\ UNCHANGED <<diskVars, step, saved, noted>>

StatSub(r) ==
    /\ at[r] = "sub stat"
    /\ IF entry[SubPlace(r)] = Absent
       THEN Goto(r, "sub make") /\ UNCHANGED failure
       ELSE GiveUp(r, "failed", "io")
    /\ UNCHANGED <<diskVars, step, dirs, cacheVars>>

MakeSub(r) ==
    /\ at[r] = "sub make"
    /\ \/ /\ entry[SubPlace(r)] = Absent
          /\ Make(r, SubPlace(r))
          /\ Goto(r, "sub reopen")
          /\ UNCHANGED failure
       \/ /\ entry[SubPlace(r)] # Absent
          /\ Goto(r, "sub reopen")
          /\ UNCHANGED <<entry, used, failure>>
       \/ Faulty /\ GiveUp(r, "failed", "io") /\ UNCHANGED <<entry, used>>
    /\ UNCHANGED <<meddled, step, dirs, cacheVars>>

ReopenSub(r) ==
    /\ at[r] = "sub reopen"
    /\ \/ SubEntered(r)
       \/ Descriptor(entry[SubPlace(r)]) = {} /\ SubNotEntered(r, "unsafe")
       \/ Faulty /\ SubNotEntered(r, "io")
    /\ UNCHANGED <<diskVars, step, saved, noted>>

Saving(r) == at[r] = "opened" /\ Left(r) /\ sub[r] = Wanted(r)

CreateItemTruncating(r) ==
    /\ Saving(r)
    /\ Put(ItemPlace(r), File(r, Item(r), "nothing"))
    /\ Goto(r, "write")
    /\ UNCHANGED <<used, meddled, step, dirs, failure, cacheVars>>

CreateItem(r) ==
    /\ Saving(r)
    /\ \/ /\ entry[ItemPlace(r)] = Absent
          /\ Put(ItemPlace(r), File(r, Item(r), "nothing"))
          /\ Goto(r, "write")
          /\ UNCHANGED failure
       \/ entry[ItemPlace(r)] # Absent /\ Goto(r, "compare") /\ UNCHANGED <<entry, failure>>
       \/ Faulty /\ GiveUp(r, "failed", "io") /\ UNCHANGED entry
    /\ UNCHANGED <<used, meddled, step, dirs, cacheVars>>

\* A write that fails ends the run, and what it wrote stays.
WriteItem(r) ==
    /\ at[r] = "write"
    /\ \/ /\ Put(ItemPlace(r), File(r, Item(r), "all"))
          /\ saved' = [saved EXCEPT ![r] = @ + 1]
          /\ Goto(r, "opened")
          /\ UNCHANGED failure
       \/ /\ Faulty
          /\ Put(ItemPlace(r), File(r, Item(r), "part"))
          /\ GiveUp(r, "failed", "io")
          /\ UNCHANGED saved
    /\ UNCHANGED <<used, meddled, step, dirs, sub, noted>>

CompareNameOnly(r) ==
    /\ at[r] = "compare"
    /\ saved' = [saved EXCEPT ![r] = @ + 1]
    /\ Goto(r, "opened")
    /\ UNCHANGED <<diskVars, step, dirs, failure, sub, noted>>

\* The name is taken: by these bytes, or by anything else.
CompareItem(r) ==
    /\ at[r] = "compare"
    /\ \/ Holds(ItemPlace(r), Item(r), "all") /\ UNCHANGED noted
       \/ /\ ~Holds(ItemPlace(r), Item(r), "all") \/ Faulty
          /\ noted' = [noted EXCEPT ![r] = @ \cup {Item(r)}]
    /\ saved' = [saved EXCEPT ![r] = @ + 1]
    /\ Goto(r, "opened")
    /\ UNCHANGED <<diskVars, step, dirs, failure, sub>>

Saved(r) ==
    /\ at[r] = "opened" /\ ~Left(r)
    /\ Goto(r, "done")
    /\ UNCHANGED <<diskVars, step, dirs, failure, cacheVars>>

Cache(r) ==
    \/ OpenSub(r) \/ StatSub(r) \/ MakeSub(r) \/ ReopenSub(r)
    \/ CreateItem(r) \/ WriteItem(r) \/ CompareItem(r) \/ Saved(r)

-----------------------------------------------------------------------------
(* load_within: the layout, each directory's names, each file, and then    *)
(* all of them classified.  Every lookup starts from the path again.       *)

StoreDir == DescriptorFollowing(Met[Len(Path)])
InStore(s) == IF s = "flat" THEN StoreDir ELSE UNION {DescriptorFollowing(entry[d, s]) : d \in StoreDir}

Kept == {x \in Items : \E d \in InStore(Subdir[x]) : Holds(<<d, x>>, x, "all")}

LoadUnchanged == UNCHANGED <<diskVars, step, dirs>>

Inspect(r) ==
    /\ at[r] = "load"
    /\ IF Met[Len(Path)].kind = "dir"
       THEN /\ Goto(r, "layout")
            /\ floor' = [floor EXCEPT ![r] = [asked |-> TRUE, held |-> Kept]]
            /\ UNCHANGED failure
       ELSE GiveUp(r, "failed", "not a directory") /\ UNCHANGED floor
    /\ LoadUnchanged /\ UNCHANGED <<unread, gathered>>

LayoutOfOne(r) ==
    /\ at[r] = "layout"
    /\ unread' = [unread EXCEPT ![r].dirs = IF InStore("crls") # {} THEN <<"crls">> ELSE <<"ocsp">>]
    /\ Goto(r, "list")
    /\ LoadUnchanged /\ UNCHANGED <<failure, gathered, floor>>

Withhold(r, xs) == floor' = [floor EXCEPT ![r] = [asked |-> TRUE, held |-> @.held \ xs]]

\* A store without either subdirectory is read as a bag of both.
LaidOut == IF \A s \in Subdirs : InStore(s) = {} THEN <<"flat">> ELSE <<"crls", "ocsp">>

\* Path::is_dir says no of a directory it fails to inspect, so a store that has
\* the subdirectories may be read as a bag too.
Layout(r) ==
    /\ at[r] = "layout"
    /\ \/ /\ unread' = [unread EXCEPT ![r].dirs = LaidOut]
          /\ UNCHANGED floor
       \/ /\ Faulty
          /\ unread' = [unread EXCEPT ![r].dirs = <<"flat">>]
          /\ Withhold(r, Items)
    /\ Goto(r, "list")
    /\ LoadUnchanged /\ UNCHANGED <<failure, gathered>>

Names(s) == {k \in Keys : \E d \in InStore(s) : entry[d, k] # Absent}

PassedOver(s, given) == {x \in Items : Subdir[x] = s /\ x \in Names(s) \ given}

\* A subdirectory that is_dir says no of, for there is none or the call fails, is
\* passed over.  read_directory takes the entries the system gives it and drops
\* the others, filter_map(Result::ok), without a word.
List(r) ==
    /\ at[r] = "list" /\ unread[r].names = {} /\ unread[r].dirs # <<>>
    /\ LET s == unread[r].dirs[1] IN
        \/ \E given \in SUBSET Names(s) :
            /\ given = Names(s) \/ Faulty
            /\ Cardinality(given) <= MaxFiles
            /\ InStore(s) # {} \/ s # "flat"
            /\ unread' = [unread EXCEPT ![r] =
                    [dirs |-> Tail(@.dirs), names |-> {s} \X given]]
            /\ Withhold(r, PassedOver(s, given))
            /\ UNCHANGED <<at, failure>>
        \/ /\ Cardinality(Names(s)) > MaxFiles \/ Faulty \/ (InStore(s) = {} /\ s = "flat")
           /\ GiveUp(r, "failed", "not listed")
           /\ UNCHANGED <<unread, floor>>
    /\ LoadUnchanged /\ UNCHANGED gathered

\* One file, in the order of the names; what is no regular file is passed over.
NextName(r) == CHOOSE n \in unread[r].names : TRUE
Found(n)    == {entry[d, n[2]] : d \in InStore(n[1])} \ {Absent}
Files(n)    == {<<n, e.of, e.holds>> : e \in {f \in Found(n) : f.kind = "file"}}

Read(r) ==
    /\ at[r] = "list" /\ unread[r].names # {}
    /\ Found(NextName(r)) # {}
    /\ Cardinality(gathered[r] \cup Files(NextName(r))) <= MaxStore
    /\ gathered' = [gathered EXCEPT ![r] = @ \cup Files(NextName(r))]
    /\ unread' = [unread EXCEPT ![r].names = @ \ {NextName(r)}]
    /\ LoadUnchanged /\ UNCHANGED <<at, failure, floor>>

\* It is gone, or unreadable, or one more than the loader will hold.
CannotRead(r) ==
    /\ at[r] = "list" /\ unread[r].names # {}
    /\ \/ Faulty
       \/ Found(NextName(r)) = {}
       \/ Cardinality(gathered[r] \cup Files(NextName(r))) > MaxStore
    /\ GiveUp(r, "failed", "unreadable")
    /\ LoadUnchanged /\ UNCHANGED loadVars

Classified(g) == g[2] # Foreign /\ g[3] = "all"

\* One file that is neither a CRL nor an OCSP response refuses the store.
Classify(r) ==
    /\ at[r] = "list" /\ unread[r] = [dirs |-> <<>>, names |-> {}]
    /\ IF \A g \in gathered[r] : Classified(g)
       THEN Goto(r, "done") /\ UNCHANGED failure
       ELSE GiveUp(r, "failed", "neither a CRL nor an OCSP response")
    /\ LoadUnchanged /\ UNCHANGED loadVars

Load(r) == Inspect(r) \/ Layout(r) \/ List(r) \/ Read(r) \/ CannotRead(r) \/ Classify(r)

-----------------------------------------------------------------------------
Step(r) ==
    \/ Walk(r) /\ UNCHANGED <<requestVars, cacheVars, loadVars>>
    \/ Cache(r) /\ UNCHANGED <<requestVars, loadVars>>
    \/ Load(r) /\ UNCHANGED <<requestVars, cacheVars>>
    \/ Killed(r) /\ UNCHANGED <<diskVars, requestVars, cacheVars, loadVars>>

Done == (\A r \in Runs : at[r] \in Ended) /\ UNCHANGED vars

\* The names other programs may take: those of the path, and those in the store.
Contested ==
    {<<Met[i].dir, Path[i + 1]>> : i \in {j \in 0 .. Len(Path) - 1 : Met[j].kind = "dir"}}
        \cup (StoreDir \X Subdirs)
        \cup ((InStore("crls") \cup InStore("ocsp")) \X Items)

Next ==
    \/ \E r \in Runs : Step(r)
    \/ /\ Meddle(Contested)
       /\ UNCHANGED <<requestVars, cacheVars, loadVars>>
    \/ Done

Spec == Init /\ [][Next]_vars

-----------------------------------------------------------------------------
(* Properties.                                                             *)

\* Every variable holds what its comment says.
TypeOK ==
    /\ DiskTypeOK
    /\ request \in Scenarios
    /\ at \in [Runs -> {"look", "open", "stat", "make", "reopen", "opened",
                       "sub stat", "sub make", "sub reopen", "write", "compare",
                       "load", "layout", "list"} \cup Ended]
    /\ \A r \in Runs :
        /\ saved[r] \in 0 .. Len(request[r].items)
        /\ sub[r] \in Subdirs \cup {"none"}
        /\ noted[r] \subseteq Items
        /\ unread[r].names \subseteq (Subdirs \cup {"flat"}) \X Keys
        /\ \A g \in gathered[r] : g[2] \in Contents /\ g[3] \in Portions
        /\ floor[r].held \subseteq Items

\* "Nothing is ever truncated or replaced": a file stays what it is, except that
\* the run that made it may still write it, once, and only while it is at it.
NothingReplaced ==
    [][\A p \in Places : entry[p].kind = "file" /\ entry'[p] # entry[p] =>
        /\ entry[p].holds = "nothing"
        /\ entry'[p] \in {[entry[p] EXCEPT !.holds = part] : part \in {"part", "all"}}
        /\ \E r \in Runs : entry[p].by = r /\ at[r] = "write" /\ at'[r] # "write"]_vars

\* A run that reports no error has, of everything it fetched, the very bytes under
\* their name, whoever wrote them, or a cache_collision.
CachedOrNoted ==
    \A r \in Runs : at[r] = "done" /\ request[r].kind = "cache" =>
        \A i \in DOMAIN request[r].items :
            LET x == request[r].items[i] IN
            \/ x \in noted[r]
            \/ \E d \in used : Holds(<<d, x>>, x, "all")

\* Where EvidenceStore sees a loader: it has asked once it found a directory.
Answer(r) ==
    CASE request[r].kind = "load" /\ at[r] = "done" ->
            [is |-> "answered", told |-> {g[2] : g \in gathered[r]}]
      [] request[r].kind = "load" /\ at[r] = "failed" ->
            [is |-> "refused", told |-> {}]
      [] request[r].kind = "load" /\ at[r] \notin {"done", "failed"} /\ floor[r].asked ->
            [is |-> "asked", told |-> {}]
      [] OTHER ->
            [is |-> "none", told |-> {}]

Store == INSTANCE EvidenceStore WITH kept <- Kept, floor <- [r \in Runs |-> floor[r].held],
             answer <- [r \in Runs |-> Answer(r)], Failing <- Faulty

\* Cache and loader together are a store of evidence that only grows, whose reader
\* is told at least all it held when the load began, only what it does hold, or
\* is refused.  The one thing that makes it a part of the store without a word is
\* a failing call on a directory: is_dir, or an entry readdir cannot give.
StoreOfEvidence == Store!Spec

\* "Two runs caching the same artefact at the same time must both succeed."
ConcurrentRunsSucceed ==
    \A r \in Runs : request[r].kind = "cache" => at[r] # "failed" /\ noted[r] = {}
=============================================================================
