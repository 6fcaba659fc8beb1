----------------------------- MODULE OutputDir -----------------------------
(***************************************************************************)
(* extract/output_dir.rs: the one way the program writes files.            *)
(*                                                                         *)
(* An output path is walked one component at a time, each opened relative  *)
(* to the descriptor of the one before with O_NOFOLLOW; what is missing is *)
(* made with mkdirat; files are created with O_CREAT | O_EXCL.  A system   *)
(* call is an action, so other runs of the program, and other programs,    *)
(* act between any two of them.  This is the Unix build.                   *)
(*                                                                         *)
(* A directory has an identity that a rename does not change: a descriptor *)
(* is an identity, a path is a way to find one.  A file lives in its       *)
(* directory entry.  "." and ".." components, permissions, and a directory *)
(* that is not where an anchored path starts are left out.                 *)
(***************************************************************************)
EXTENDS Naturals, Sequences, FiniteSets

CONSTANTS
    Runs,         \* processes running the program
    Other,        \* any other program
    Path,         \* the components of the output path the runs were given
    Keys,         \* names as the filesystem tells them apart
    Dirs,         \* directory identities: a bound on the directories ever made
    Cwd,          \* where the path starts
    Elsewhere,    \* the directory every symbolic link of the model points to
    Contents,     \* what a whole file may hold
    Foreign,      \* what the files of other programs hold
    Faulty,       \* TRUE: a system call may fail for reasons of its own
    Swaps,        \* TRUE: other programs may put a link where a directory was
    MaxMeddling   \* bound on the steps of other programs

ASSUME OutputDirAssumption ==
    /\ Other \notin Runs
    /\ Path \in Seq(Keys) \ {<<>>}
    /\ Cwd \in Dirs /\ Elsewhere \in Dirs /\ Cwd # Elsewhere
    /\ Foreign \in Contents
    /\ Faulty \in BOOLEAN /\ Swaps \in BOOLEAN
    /\ MaxMeddling \in Nat

VARIABLES
    entry,    \* what each name of each directory is
    used,     \* the identities given out
    meddled,  \* steps other programs took
    at,       \* the system call each run is about to make
    step,     \* the component of Path its walk has reached
    dirs,     \* the descriptors it holds; a walk that fails drops its own
    failure   \* why it gave up, "none" before

diskVars == <<entry, used, meddled>>
walkVars == <<at, step, dirs, failure>>

Places == Dirs \X Keys
Actors == Runs \cup {Other}

Absent             == [kind |-> "absent"]
Link               == [kind |-> "link"]
File(by, of, part) == [kind |-> "file", by |-> by, of |-> of, holds |-> part]
Dir(by, d)         == [kind |-> "dir", by |-> by, dir |-> d]

Portions == {"nothing", "part", "all"}

MadeBy(e, r) == e.kind \in {"file", "dir"} /\ e.by = r

InitDisk ==
    /\ entry = [p \in Places |-> Absent]
    /\ used = {Cwd, Elsewhere}
    /\ meddled = 0
    /\ step = [r \in Runs |-> 1]
    /\ dirs = [r \in Runs |-> <<>>]
    /\ failure = [r \in Runs |-> "none"]

-----------------------------------------------------------------------------
(* System calls.                                                           *)

Goto(r, label) == at' = [at EXCEPT ![r] = label]

GiveUp(r, label, why) ==
    /\ Goto(r, label)
    /\ failure' = [failure EXCEPT ![r] = why]

WalkFails(r, why) ==
    /\ GiveUp(r, "failed", why)
    /\ dirs' = [dirs EXCEPT ![r] = <<>>]
    /\ UNCHANGED step

Put(p, e) == entry' = [entry EXCEPT ![p] = e]

\* The directory a path lookup finds behind an entry, if any.
DescriptorFollowing(e) ==
    CASE e.kind = "dir" -> {e.dir} [] e.kind = "link" -> {Elsewhere} [] OTHER -> {}

\* What openat with O_DIRECTORY | O_NOFOLLOW returns for it.
Descriptor(e) == IF e.kind = "dir" THEN {e.dir} ELSE {}

\* mkdirat succeeding at a free place.
Make(by, p) ==
    \E d \in Dirs \ used :
        /\ d = CHOOSE x \in Dirs \ used : TRUE
        /\ Put(p, Dir(by, d))
        /\ used' = used \cup {d}

Empty(d) == \A k \in Keys : entry[d, k] = Absent

\* unlinkat, which follows nothing, and unlinkat with AT_REMOVEDIR.
FileGoes(p) == entry[p].kind \in {"file", "link"}
DirGoes(p)  == entry[p].kind = "dir" /\ Empty(entry[p].dir)

-----------------------------------------------------------------------------
(* OutputDir::open: reject_link_components, then walk_and_create.          *)

Here(r) == dirs[r][Len(dirs[r])]

\* What a path name of i components resolves to, intermediate links followed.
Met ==
    LET met[i \in 0 .. Len(Path)] ==
            IF i = 0 THEN Dir(Other, Cwd)
            ELSE CASE met[i - 1].kind = "dir"  -> entry[met[i - 1].dir, Path[i]]
                   [] met[i - 1].kind = "link" -> entry[Elsewhere, Path[i]]
                   [] met[i - 1].kind = "file" -> [kind |-> "barred"]
                   [] OTHER                    -> met[i - 1]
    IN  met

\* One symlink_metadata; the last one done, the walk starts over from Cwd.
Look(r) ==
    /\ at[r] = "look"
    /\ \/ Met[step[r]].kind = "link" /\ WalkFails(r, "unsafe")
       \/ (Met[step[r]].kind = "barred" \/ Faulty) /\ WalkFails(r, "io")
       \/ /\ Met[step[r]].kind \notin {"link", "barred"}
          /\ IF step[r] < Len(Path)
             THEN step' = [step EXCEPT ![r] = @ + 1] /\ UNCHANGED <<at, dirs>>
             ELSE /\ step' = [step EXCEPT ![r] = 1]
                  /\ dirs' = [dirs EXCEPT ![r] = <<Cwd>>]
                  /\ Goto(r, "open")
          /\ UNCHANGED failure
    /\ UNCHANGED diskVars

Component(r) == <<Here(r), Path[step[r]]>>

\* open_component gave a descriptor: on to the next component, or "opened".
Descend(r) ==
    /\ \E d \in Descriptor(entry[Component(r)]) : dirs' = [dirs EXCEPT ![r] = <<d>>]
    /\ IF step[r] < Len(Path)
       THEN step' = [step EXCEPT ![r] = @ + 1] /\ Goto(r, "open")
       ELSE Goto(r, "opened") /\ UNCHANGED step
    /\ UNCHANGED failure

Open(r) ==
    /\ at[r] = "open"
    /\ LET e == entry[Component(r)] IN
        \/ Descend(r)
        \/ /\ e = Absent \/ Faulty
           /\ Goto(r, "stat")
           /\ UNCHANGED <<step, dirs, failure>>
        \/ e # Absent /\ Descriptor(e) = {} /\ WalkFails(r, "unsafe")
    /\ UNCHANGED diskVars

\* exists_at, asked because the open failed.
Stat(r) ==
    /\ at[r] = "stat"
    /\ IF entry[Component(r)] = Absent
       THEN Goto(r, "make") /\ UNCHANGED <<step, dirs, failure>>
       ELSE WalkFails(r, "io")
    /\ UNCHANGED diskVars

MakeComponent(r) ==
    /\ at[r] = "make"
    /\ \/ /\ entry[Component(r)] = Absent
          /\ Make(r, Component(r))
          /\ Goto(r, "reopen")
          /\ UNCHANGED <<meddled, step, dirs, failure>>
       \/ /\ entry[Component(r)] # Absent \/ Faulty
          /\ WalkFails(r, "io")
          /\ UNCHANGED diskVars

Reopen(r) ==
    /\ at[r] = "reopen"
    /\ \/ Descend(r)
       \/ Descriptor(entry[Component(r)]) = {} /\ WalkFails(r, "unsafe")
       \/ Faulty /\ WalkFails(r, "io")
    /\ UNCHANGED diskVars

Walk(r) == Look(r) \/ Open(r) \/ Stat(r) \/ MakeComponent(r) \/ Reopen(r)

-----------------------------------------------------------------------------
(* What other programs do to the tree: at the given places they take       *)
(* free names, and move a directory away and leave a link in its place.    *)
(* They take away nobody's files.                                          *)

OnThePath == {Cwd} \cup {Met[i].dir : i \in {j \in 1 .. Len(Path) : Met[j].kind = "dir"}}

Meddle(where) ==
    /\ meddled < MaxMeddling
    /\ meddled' = meddled + 1
    /\ \E p \in where :
        \/ /\ entry[p] = Absent
           /\ \/ Put(p, File(Other, Foreign, "all")) /\ UNCHANGED used
              \/ Put(p, Link) /\ UNCHANGED used
              \/ Make(Other, p)
        \/ /\ Swaps /\ entry[p].kind = "dir"
           /\ Put(p, Link)
           /\ UNCHANGED used
    /\ UNCHANGED walkVars

\* A run may be killed at any system call before its last.
Ended == {"done", "failed", "crashed"}

Killed(r) ==
    /\ Faulty
    /\ at[r] \notin Ended
    /\ Goto(r, "crashed")
    /\ UNCHANGED <<step, dirs, failure>>

DiskTypeOK ==
    /\ used \subseteq Dirs
    /\ meddled \in 0 .. MaxMeddling
    /\ step \in [Runs -> 1 .. Len(Path)]
    /\ dirs \in [Runs -> Seq(used)]
    /\ failure \in [Runs -> STRING]
    /\ DOMAIN entry = Places
    /\ \A p \in Places :
        \/ entry[p] \in {Absent, Link}
        \/ \E d \in used \ {Cwd, Elsewhere}, by \in Actors : entry[p] = Dir(by, d)
        \/ /\ entry[p].kind = "file"
           /\ entry[p].of \in Contents
           /\ \E by \in Actors, part \in Portions : entry[p] = File(by, entry[p].of, part)
=============================================================================
