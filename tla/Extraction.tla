----------------------------- MODULE Extraction -----------------------------
(***************************************************************************)
(* `openszigno extract`, and the one-file writer `create`, `sign` and      *)
(* `timestamp` share with it.                                              *)
(*                                                                         *)
(* commands/extract.rs resolves the --document selectors, plans the whole  *)
(* tree (extract/plan.rs: decode, name, deduplicate, recurse into embedded *)
(* dossiers), and only then opens the output directory, looks whether any  *)
(* top-level name is taken, writes (extract/write.rs), and on a failure    *)
(* removes what it created, newest first.                                  *)
(*                                                                         *)
(* plan_dossier's recursion is a stack of frames; its tree is kept as the  *)
(* list of creations in the order write_directory makes them.  Decoding,   *)
(* sniffing, parsing and the title rules are given by their outcome for    *)
(* each document; a name is a value the constants below rename and fold.   *)
(***************************************************************************)
EXTENDS OutputDir

CONSTANTS
    Scenarios,       \* the command lines the runs may have been given together
    Contested,       \* the names other programs act on
    Content,         \* per dossier, its documents in source order
    Unsafe,          \* the title of a document no output name can be made of
    MaxTotal,        \* max_total_decoded_bytes
    MaxAttempts,     \* MAX_DEDUPLICATION_ATTEMPTS, 64 in the code
    Renamed(_, _, _),\* deduplicated_name
    Subdirectory(_), \* the name plus ".d"
    TooLong(_),      \* over 255 bytes
    NameKey(_),      \* name_key: the fold planned names are compared on
    FileKey(_)       \* the name the filesystem compares, at most as coarse

ASSUME ExtractionAssumption ==
    /\ Contested \subseteq Keys
    /\ \A scenario \in Scenarios : \A r \in Runs :
        /\ scenario[r].kind \in {"extract", "stdout", "new file", "none"}
        /\ scenario[r].dossier \in DOMAIN Content
        /\ scenario[r].recursive \in BOOLEAN
        /\ scenario[r].depth \in Nat
    /\ MaxTotal \in Nat
    /\ MaxAttempts \in Nat

ASSUME ContentAssumption ==
    \A dossier \in DOMAIN Content :
        /\ Content[dossier] \in Seq({Content[dossier][i] : i \in DOMAIN Content[dossier]})
        /\ \A i \in DOMAIN Content[dossier] :
            /\ Content[dossier][i].size \in Nat
            /\ Content[dossier][i].reads \in {"decoded", "unsupported", "broken"}
            /\ Content[dossier][i].inside \in DOMAIN Content \cup {"nothing", "malformed"}

\* The names the runs may come to use: a document's title, what deduplication
\* makes of it, and as much again for the subdirectory.
Renamings(name, index) == {name} \cup {Renamed(name, index, i) : i \in 1 .. MaxAttempts}
FileNames(d, i) ==
    {n \in Renamings(Content[d][i].title, i) : Content[d][i].title # Unsafe /\ ~TooLong(n)}
DirNames(d, i) ==
    IF Content[d][i].inside \notin DOMAIN Content THEN {}
    ELSE UNION {Renamings(Subdirectory(m), i) :
                    m \in {n \in FileNames(d, i) : ~TooLong(Subdirectory(n))}}
OutputNames ==
    {scenario[r].name : scenario \in Scenarios, r \in Runs}
        \cup UNION {UNION {FileNames(d, i) \cup DirNames(d, i) : i \in DOMAIN Content[d]}
                    : d \in DOMAIN Content}

\* The filesystem merges no two names that name_key keeps apart.
ASSUME NamesAssumption ==
    /\ \A n \in OutputNames : FileKey(n) \in Keys
    /\ \A m, n \in OutputNames : FileKey(m) = FileKey(n) => NameKey(m) = NameKey(n)

VARIABLES
    request,   \* what each run was asked
    chosen,    \* the indices the selectors resolved to
    stack,     \* the plan_dossier calls in progress, outermost first
    total,     \* Plan.total: bytes decoded so far
    notes,     \* Plan.warnings, as <<code, the document's path>>
    planned,   \* the creations planned, in writing order
    looked,    \* the top-level creations whose names were found free
    written,   \* the creations write_directory is past
    created,   \* Writer.created, oldest first
    stuck      \* the creations it could not undo; of those recorded the code keeps
               \* whether there were any, for its "some extracted files may remain"

planVars  == <<request, chosen, stack, total, notes, planned>>
writeVars == <<looked, written, created, stuck>>
vars == <<diskVars, walkVars, planVars, writeVars>>

NoName == [name |-> "none"]

Init ==
    /\ InitDisk
    /\ request \in Scenarios
    /\ at = [r \in Runs |-> IF request[r].kind = "none" THEN "done" ELSE "select"]
    /\ chosen = [r \in Runs |-> {}]
    /\ stack = [r \in Runs |-> <<>>]
    /\ total = [r \in Runs |-> 0]
    /\ notes = [r \in Runs |-> {}]
    /\ planned = [r \in Runs |-> <<>>]
    /\ looked = [r \in Runs |-> 0]
    /\ written = [r \in Runs |-> 0]
    /\ created = [r \in Runs |-> <<>>]
    /\ stuck = [r \in Runs |-> {}]

-----------------------------------------------------------------------------
(* Selection: resolve_selection.                                           *)

Documents(r) == Content[request[r].dossier]

\* A selector is "#<index>" or an object reference exactly one document has.
Selects(s, i, docs) == IF s.by = "index" THEN s.index = i ELSE s.ref = docs[i].ref

Resolves(s, docs) ==
    /\ s.by \in {"index", "ref"}
    /\ Cardinality({i \in DOMAIN docs : Selects(s, i, docs)}) = 1

Frame(dossier, path, dir) ==
    [dossier |-> dossier, path |-> path, dir |-> dir, next |-> 1, taken |-> {}]

Creation(kind, dir, name, path) ==
    [kind |-> kind, dir |-> dir, name |-> name, path |-> path]

Refuse(r, why) == GiveUp(r, "failed", why) /\ UNCHANGED <<diskVars, step, dirs, writeVars>>

Select(r) ==
    /\ at[r] = "select" /\ request[r].kind # "new file"
    /\ \A s \in request[r].selectors : Resolves(s, Documents(r))
    /\ chosen' = [chosen EXCEPT ![r] =
            {i \in DOMAIN Documents(r) :
                \/ request[r].selectors = {}
                \/ \E s \in request[r].selectors : Selects(s, i, Documents(r))}]
    /\ stack' = [stack EXCEPT ![r] = <<Frame(request[r].dossier, <<>>, 1)>>]
    /\ Goto(r, IF request[r].kind = "stdout" THEN "stream" ELSE "plan")
    /\ UNCHANGED <<diskVars, step, dirs, failure, writeVars, request, total, notes, planned>>

Unresolved(r) ==
    /\ at[r] = "select" /\ request[r].kind # "new file"
    /\ \E s \in request[r].selectors : ~Resolves(s, Documents(r))
    /\ Refuse(r, "document_not_found")
    /\ UNCHANGED planVars

\* write_new_file plans nothing: it creates the one name it was given.
PlanOneFile(r) ==
    /\ at[r] = "select" /\ request[r].kind = "new file"
    /\ planned' = [planned EXCEPT ![r] = <<Creation("file", 1, request[r].name, <<>>)>>]
    /\ Goto(r, "look")
    /\ UNCHANGED <<diskVars, step, dirs, failure, writeVars, request, chosen, stack, total, notes>>

\* extract_to_stdout: one document, decodable, and not one that would expand.
Stream(r) ==
    /\ at[r] = "stream"
    /\ IF Cardinality(chosen[r]) # 1
       THEN GiveUp(r, "failed", "stdout_requires_single_document")
       ELSE LET doc == Documents(r)[CHOOSE i \in chosen[r] : TRUE] IN
            CASE doc.reads # "decoded" -> GiveUp(r, "failed", "document_not_extractable")
              [] doc.reads = "decoded" /\ request[r].recursive /\ doc.inside # "nothing" ->
                    GiveUp(r, "failed", "stdout_requires_single_document")
              [] OTHER -> Goto(r, "done") /\ UNCHANGED failure
    /\ UNCHANGED <<diskVars, step, dirs, planVars, writeVars>>

-----------------------------------------------------------------------------
(* Planning: plan_dossier, one document a step.                            *)

Top(r)  == stack[r][Len(stack[r])]
Depth(r) == Len(stack[r]) - 1
Doc(r)  == Content[Top(r).dossier][Top(r).next]
PathOf(r) == Append(Top(r).path, Top(r).next)

Planning(r) ==
    /\ at[r] = "plan"
    /\ Top(r).next <= Len(Content[Top(r).dossier])

LeftOutAnywhere(r) == Top(r).next \notin chosen[r]

LeftOut(r) == Depth(r) = 0 /\ Top(r).next \notin chosen[r]

Decoded(r) == Planning(r) /\ ~LeftOut(r) /\ Doc(r).reads = "decoded"

Fits(r) == total[r] + Doc(r).size <= MaxTotal

ClaimUnchecked(taken, name, index) ==
    IF NameKey(name) \notin taken THEN name ELSE Renamed(name, index, 1)

\* Plan::claim: the name, or the first free candidate unless one before it is
\* too long; NoName when the run must fail.
Claim(taken, name, index) ==
    LET candidate(i) == Renamed(name, index, i)
        stops == {i \in 1 .. MaxAttempts :
                    TooLong(candidate(i)) \/ NameKey(candidate(i)) \notin taken}
        first == CHOOSE i \in stops : \A j \in stops : i <= j
    IN  CASE NameKey(name) \notin taken                   -> name
          [] NameKey(name) \in taken /\ stops = {}        -> NoName
          [] NameKey(name) \in taken /\ stops # {} /\ TooLong(candidate(first)) -> NoName
          [] OTHER                                        -> candidate(first)

FileName(r) ==
    IF Doc(r).title = Unsafe \/ TooLong(Doc(r).title) THEN NoName
    ELSE Claim(Top(r).taken, Doc(r).title, Top(r).next)

\* plan_nested: whether the document becomes a subdirectory as well.
LooksNested(r) == request[r].recursive /\ Doc(r).inside # "nothing"
Expands(r) ==
    /\ LooksNested(r)
    /\ Depth(r) < request[r].depth
    /\ Doc(r).inside # "malformed"

TakenWithFile(r) == Top(r).taken \cup {NameKey(FileName(r))}

DirName(r) ==
    LET name == Subdirectory(FileName(r)) IN
    IF TooLong(name) THEN NoName ELSE Claim(TakenWithFile(r), name, Top(r).next)

\* The top frame goes on to its next document, with these names taken.
Proceed(r, taken) ==
    [stack[r] EXCEPT ![Len(stack[r])].next = @ + 1, ![Len(stack[r])].taken = taken]

Note(r, code) == {<<code, PathOf(r)>>}
RenameNote(r, name, wanted) == IF name = wanted THEN {} ELSE Note(r, "output_name_deduplicated")

PlanUnchanged == UNCHANGED <<diskVars, step, dirs, writeVars, request, chosen>>

\* A document that was not asked for is passed over without a word.
PassOver(r) ==
    /\ Planning(r) /\ LeftOut(r)
    /\ stack' = [stack EXCEPT ![r] = Proceed(r, Top(r).taken)]
    /\ PlanUnchanged /\ UNCHANGED <<at, failure, total, notes, planned>>

SkipUnsupported(r) ==
    /\ Planning(r) /\ ~LeftOut(r) /\ Doc(r).reads = "unsupported"
    /\ stack' = [stack EXCEPT ![r] = Proceed(r, Top(r).taken)]
    /\ notes' = [notes EXCEPT ![r] = @ \cup Note(r, "document_skipped")]
    /\ PlanUnchanged /\ UNCHANGED <<at, failure, total, planned>>

\* Whatever cannot be decoded, held or named ends the run before it wrote.
PlanFails(r) ==
    /\ \/ Planning(r) /\ ~LeftOut(r) /\ Doc(r).reads = "broken"
       \/ Decoded(r) /\ ~Fits(r)
       \/ Decoded(r) /\ FileName(r) = NoName
       \/ Decoded(r) /\ FileName(r) # NoName /\ Expands(r) /\ DirName(r) = NoName
    /\ Refuse(r, "plan")
    /\ UNCHANGED planVars

\* A document kept as one file, with a note if it looked like more.
PlanFile(r) ==
    /\ Decoded(r) /\ Fits(r) /\ FileName(r) # NoName /\ ~Expands(r)
    /\ total' = [total EXCEPT ![r] = @ + Doc(r).size]
    /\ planned' = [planned EXCEPT ![r] =
            Append(@, Creation("file", Top(r).dir, FileName(r), PathOf(r)))]
    /\ stack' = [stack EXCEPT ![r] = Proceed(r, TakenWithFile(r))]
    /\ notes' = [notes EXCEPT ![r] = @
            \cup RenameNote(r, FileName(r), Doc(r).title)
            \cup CASE LooksNested(r) /\ Depth(r) >= request[r].depth ->
                        Note(r, "nested_dossier_depth_limit")
                   [] LooksNested(r) /\ Depth(r) < request[r].depth ->
                        Note(r, "nested_dossier_invalid")
                   [] OTHER -> {}]
    /\ PlanUnchanged /\ UNCHANGED <<at, failure>>

\* A document kept as a file and expanded beside it.
PlanNested(r) ==
    /\ Decoded(r) /\ Fits(r) /\ FileName(r) # NoName /\ Expands(r) /\ DirName(r) # NoName
    /\ LET child == 2 + Cardinality({i \in DOMAIN planned[r] : planned[r][i].kind = "dir"}) IN
        /\ planned' = [planned EXCEPT ![r] = @ \o
                <<Creation("file", Top(r).dir, FileName(r), PathOf(r)),
                  Creation("dir", Top(r).dir, DirName(r), PathOf(r))>>]
        /\ stack' = [stack EXCEPT ![r] = Append(
                Proceed(r, TakenWithFile(r) \cup {NameKey(DirName(r))}),
                Frame(Doc(r).inside, PathOf(r), child))]
    /\ total' = [total EXCEPT ![r] = @ + Doc(r).size]
    /\ notes' = [notes EXCEPT ![r] = @
            \cup RenameNote(r, FileName(r), Doc(r).title)
            \cup RenameNote(r, DirName(r), Subdirectory(FileName(r)))]
    /\ PlanUnchanged /\ UNCHANGED <<at, failure>>

Planned(r) ==
    /\ at[r] = "plan"
    /\ Top(r).next > Len(Content[Top(r).dossier])
    /\ IF Len(stack[r]) > 1
       THEN stack' = [stack EXCEPT ![r] = SubSeq(@, 1, Len(@) - 1)] /\ UNCHANGED at
       ELSE Goto(r, "look") /\ UNCHANGED stack
    /\ PlanUnchanged /\ UNCHANGED <<failure, total, notes, planned>>

Plan(r) ==
    \/ Select(r) \/ Unresolved(r) \/ PlanOneFile(r) \/ Stream(r)
    \/ PassOver(r) \/ SkipUnsupported(r) \/ PlanFails(r)
    \/ PlanFile(r) \/ PlanNested(r) \/ Planned(r)

-----------------------------------------------------------------------------
(* Writing: the existence check, then Writer::write_directory.             *)

WriteUnchanged == UNCHANGED <<meddled, step, planVars>>

\* Only names of the output directory itself are looked up beforehand.
TopLevel(r) ==
    IF request[r].kind = "new file" THEN <<>>
    ELSE SelectSeq(planned[r], LAMBDA c : c.dir = 1)

Place(r, c) == <<dirs[r][c.dir], FileKey(c.name)>>

NameFree(r) ==
    /\ at[r] = "opened" /\ looked[r] < Len(TopLevel(r))
    /\ entry[Place(r, TopLevel(r)[looked[r] + 1])] = Absent
    /\ looked' = [looked EXCEPT ![r] = @ + 1]
    /\ WriteUnchanged /\ UNCHANGED <<entry, used, at, dirs, failure, written, created, stuck>>

NameTaken(r) ==
    /\ at[r] = "opened" /\ looked[r] < Len(TopLevel(r))
    /\ \/ /\ entry[Place(r, TopLevel(r)[looked[r] + 1])] # Absent
          /\ GiveUp(r, "failed", "output_exists")
       \/ Faulty /\ GiveUp(r, "failed", "io")
    /\ WriteUnchanged /\ UNCHANGED <<entry, used, dirs, writeVars>>

AllFree(r) ==
    /\ at[r] = "opened" /\ looked[r] = Len(TopLevel(r))
    /\ Goto(r, "create")
    /\ WriteUnchanged /\ UNCHANGED <<entry, used, dirs, failure, writeVars>>

Current(r) == planned[r][written[r] + 1]
Creating(r, kind) ==
    /\ at[r] = "create" /\ written[r] < Len(planned[r])
    /\ Current(r).kind = kind

\* create_new_file, recorded at once; nothing is in it yet.
CreateFile(r) ==
    /\ Creating(r, "file")
    /\ entry[Place(r, Current(r))] = Absent
    /\ Put(Place(r, Current(r)), File(r, Current(r).path, "nothing"))
    /\ created' = [created EXCEPT ![r] = Append(@, Current(r))]
    /\ Goto(r, "write")
    /\ WriteUnchanged /\ UNCHANGED <<used, dirs, failure, looked, written, stuck>>

CannotCreateRecorded(r) ==
    /\ at[r] = "create" /\ written[r] < Len(planned[r])
    /\ entry[Place(r, Current(r))] # Absent /\ GiveUp(r, "undo", "output_exists")
    /\ created' = [created EXCEPT ![r] = Append(@, Current(r))]
    /\ WriteUnchanged /\ UNCHANGED <<entry, used, dirs, looked, written, stuck>>

\* The name was taken since it was looked up, or the system refused.
CannotCreate(r) ==
    /\ at[r] = "create" /\ written[r] < Len(planned[r])
    /\ \/ entry[Place(r, Current(r))] # Absent /\ GiveUp(r, "undo", "output_exists")
       \/ Faulty /\ GiveUp(r, "undo", "io")
    /\ WriteUnchanged /\ UNCHANGED <<entry, used, dirs, writeVars>>

WriteFile(r) ==
    /\ at[r] = "write"
    /\ \/ /\ Put(Place(r, Current(r)), File(r, Current(r).path, "all"))
          /\ written' = [written EXCEPT ![r] = @ + 1]
          /\ Goto(r, "create")
          /\ UNCHANGED failure
       \/ /\ Faulty
          /\ Put(Place(r, Current(r)), File(r, Current(r).path, "part"))
          /\ GiveUp(r, "undo", "io")
          /\ UNCHANGED written
    /\ WriteUnchanged /\ UNCHANGED <<used, dirs, looked, created, stuck>>

\* create_subdirectory: made, then opened, and only then recorded.
CreateDir(r) ==
    /\ Creating(r, "dir")
    /\ entry[Place(r, Current(r))] = Absent
    /\ Make(r, Place(r, Current(r)))
    /\ Goto(r, "enter")
    /\ WriteUnchanged /\ UNCHANGED <<dirs, failure, writeVars>>

EnterDir(r) ==
    /\ at[r] = "enter"
    /\ \E d \in Descriptor(entry[Place(r, Current(r))]) :
            dirs' = [dirs EXCEPT ![r] = Append(@, d)]
    /\ created' = [created EXCEPT ![r] = Append(@, Current(r))]
    /\ written' = [written EXCEPT ![r] = @ + 1]
    /\ Goto(r, "create")
    /\ WriteUnchanged /\ UNCHANGED <<entry, used, failure, looked, stuck>>

CannotEnter(r) ==
    /\ at[r] = "enter"
    /\ Faulty \/ Descriptor(entry[Place(r, Current(r))]) = {}
    /\ GiveUp(r, "unmake", "io")
    /\ WriteUnchanged /\ UNCHANGED <<entry, used, dirs, writeVars>>

Goes(r, c) == IF c.kind = "file" THEN FileGoes(Place(r, c)) ELSE DirGoes(Place(r, c))

Removed(r, c) ==
    /\ Goes(r, c)
    /\ Put(Place(r, c), Absent)
    /\ UNCHANGED stuck

NotRemoved(r, c) ==
    /\ Faulty \/ ~Goes(r, c)
    /\ stuck' = [stuck EXCEPT ![r] = @ \cup {c}]
    /\ UNCHANGED entry

\* Removed again if it can be, and nothing is said if it cannot.
Unmake(r) ==
    /\ at[r] = "unmake"
    /\ Removed(r, Current(r)) \/ NotRemoved(r, Current(r))
    /\ Goto(r, "undo")
    /\ WriteUnchanged /\ UNCHANGED <<used, dirs, failure, looked, written, created>>

Finish(r) ==
    /\ at[r] = "create" /\ written[r] = Len(planned[r])
    /\ Goto(r, "done")
    /\ WriteUnchanged /\ UNCHANGED <<entry, used, dirs, failure, writeVars>>

Write(r) ==
    \/ NameFree(r) \/ NameTaken(r) \/ AllFree(r)
    \/ CreateFile(r) \/ CannotCreate(r) \/ WriteFile(r)
    \/ CreateDir(r) \/ EnterDir(r) \/ CannotEnter(r) \/ Unmake(r)
    \/ Finish(r)

-----------------------------------------------------------------------------
(* Writer::roll_back: everything recorded, newest first, each tried once.  *)

Latest(r) == created[r][Len(created[r])]

Dropped(r) == SubSeq(created[r], 1, Len(created[r]) - 1)

UndoUntilFailure(r) ==
    /\ at[r] = "undo" /\ created[r] # <<>>
    /\ \/ Removed(r, Latest(r)) /\ created' = [created EXCEPT ![r] = Dropped(r)]
       \/ NotRemoved(r, Latest(r)) /\ created' = [created EXCEPT ![r] = <<>>]
    /\ WriteUnchanged /\ UNCHANGED <<used, at, dirs, failure, looked, written>>

UndoRetrying(r) ==
    /\ at[r] = "undo" /\ created[r] # <<>>
    /\ \/ Removed(r, Latest(r)) /\ created' = [created EXCEPT ![r] = Dropped(r)]
       \/ NotRemoved(r, Latest(r)) /\ UNCHANGED created
    /\ WriteUnchanged /\ UNCHANGED <<used, at, dirs, failure, looked, written>>

Undo(r) ==
    /\ at[r] = "undo" /\ created[r] # <<>>
    /\ Removed(r, Latest(r)) \/ NotRemoved(r, Latest(r))
    /\ created' = [created EXCEPT ![r] = Dropped(r)]
    /\ WriteUnchanged /\ UNCHANGED <<used, at, dirs, failure, looked, written>>

Undone(r) ==
    /\ at[r] = "undo" /\ created[r] = <<>>
    /\ Goto(r, "failed")
    /\ WriteUnchanged /\ UNCHANGED <<entry, used, dirs, failure, writeVars>>

Kill(r) == Killed(r) /\ UNCHANGED <<diskVars, planVars, writeVars>>

Step(r) ==
    \/ Plan(r)
    \/ Walk(r) /\ UNCHANGED <<planVars, writeVars>>
    \/ Write(r) \/ Undo(r) \/ Undone(r)

Done == (\A r \in Runs : at[r] \in Ended) /\ UNCHANGED vars

\* Other programs act along the output path and in the directory it names.  A
\* subdirectory a run makes has mode 0700 and a name of the dossier's choosing.
Next ==
    \/ \E r \in Runs : Step(r) \/ Kill(r)
    \/ Meddle(OnThePath \X Contested) /\ UNCHANGED <<planVars, writeVars>>
    \/ Done

\* A run is one process doing bounded work: nothing it waits for can keep it.
Spec == Init /\ [][Next]_vars /\ \A r \in Runs : WF_vars(Step(r))

-----------------------------------------------------------------------------
(* Properties.                                                             *)

CreationType == [kind : {"file", "dir"}, dir : Nat \ {0}, path : Seq(Nat)]

\* Every variable holds what its comment says.
TypeOK ==
    /\ DiskTypeOK
    /\ request \in Scenarios
    /\ at \in [Runs -> {"select", "stream", "plan", "look", "open", "stat", "make", "reopen",
                       "opened", "create", "write", "enter", "unmake", "undo"} \cup Ended]
    /\ \A r \in Runs :
        /\ chosen[r] \subseteq DOMAIN Documents(r)
        /\ \A i \in DOMAIN stack[r] :
            stack[r][i].next \in 1 .. Len(Content[stack[r][i].dossier]) + 1
        /\ \A c \in {planned[r][i] : i \in DOMAIN planned[r]} :
            [kind |-> c.kind, dir |-> c.dir, path |-> c.path] \in CreationType
        /\ looked[r] \in 0 .. Len(TopLevel(r))
        /\ written[r] \in 0 .. Len(planned[r])
    /\ total \in [Runs -> 0 .. MaxTotal]
    /\ \A r \in Runs : stuck[r] \subseteq {planned[r][i] : i \in DOMAIN planned[r]}

\* O_NOFOLLOW on every component and every file: whatever is swapped for a link
\* and whenever, no run makes anything on the other side of one.
StaysInside == \A k \in Keys, r \in Runs : ~MadeBy(entry[Elsewhere, k], r)

\* The no-clobber rule: what a run made changes only in a step of that run, and
\* what other programs made no run changes at all.  A roll-back removes by name,
\* so this is also what keeps it from removing somebody else's file.
ActsNow(r) == <<at[r], written[r], created[r]>> # <<at'[r], written'[r], created'[r]>>

KeepsOthersFiles ==
    [][meddled' = meddled =>
        \A p \in Places :
            \/ entry'[p] = entry[p]
            \/ entry[p] = Absent
            \/ \E r \in Runs : MadeBy(entry[p], r) /\ ActsNow(r)]_vars

\* All or nothing: of the files and subdirectories a failed run created in the
\* directories it opened, the only ones left are those it tried to remove and
\* could not.
NothingLeftBehind ==
    \A r \in Runs : at[r] = "failed" =>
        \A i \in DOMAIN planned[r] :
            planned[r][i].dir \in DOMAIN dirs[r] /\ planned[r][i] \notin stuck[r] =>
                ~MadeBy(entry[Place(r, planned[r][i])], r)

\* name_key merges at least the names the filesystem merges, and every later
\* document of a name is renamed, so no run finds its own file in its way.
NeverMeetsItself ==
    \A r \in Runs : at[r] = "create" /\ written[r] < Len(planned[r]) =>
        ~MadeBy(entry[Place(r, Current(r))], r)

\* The dossier a document's path leads to.
DossierAt(r, path) ==
    LET inside[i \in 0 .. Len(path)] ==
            IF i = 0 THEN request[r].dossier ELSE Content[inside[i - 1]][path[i]].inside
    IN  inside[Len(path)]

Outputs(r, kind) == {c \in {planned[r][i] : i \in DOMAIN planned[r]} : c.kind = kind}
Paths(r, kind)   == {c.path : c \in Outputs(r, kind)}
Noted(r, codes)  == {n[2] : n \in {m \in notes[r] : m[1] \in codes}}

Unexpanded == {"nested_dossier_depth_limit", "nested_dossier_invalid"}

\* A run that succeeded lost no document: every one asked for, at the top and in
\* every dossier it expanded, is in a whole file of its own or reported skipped,
\* and one that looks like a dossier was expanded or reported not to be.
NoDocumentLost ==
    \A r \in Runs : at[r] = "done" /\ request[r].kind = "extract" =>
        LET accounted == Paths(r, "file") \cup Noted(r, {"document_skipped"}) IN
        /\ \A i \in chosen[r] : <<i>> \in accounted
        /\ \A path \in Paths(r, "dir") :
            \A i \in DOMAIN Content[DossierAt(r, path)] : Append(path, i) \in accounted
        /\ \A path \in Paths(r, "file") :
            request[r].recursive /\ DossierAt(r, path) # "nothing" =>
                path \in Paths(r, "dir") \cup Noted(r, Unexpanded)
        /\ \A c \in Outputs(r, "file") :
            entry[Place(r, c)] = File(r, c.path, "all")

\* Every document a run is asked for arrives in a place of its own, or the
\* report says why not.
DocumentsArriveOnce == NeverMeetsItself /\ NoDocumentLost

\* Every run that is not killed comes to an end, whatever the others do.
EveryRunEnds == \A r \in Runs : <>(at[r] \in Ended)
=============================================================================
