--------------------------- MODULE EvidenceStore ---------------------------
(***************************************************************************)
(* What --online-cache and --revocation-store promise together: a body of  *)
(* evidence that only grows, and readers that are told everything it held  *)
(* when they asked, nothing it does not hold, or that they were refused.   *)
(* Where the system fails its calls some of it may be overlooked, which    *)
(* the reader is not told.                                                 *)
(***************************************************************************)
CONSTANTS
    Runs, Items,
    Failing      \* TRUE: a call on a directory may fail and nothing be said of it

VARIABLES kept,   \* the evidence in the store
          floor,  \* per reader, what the store held when it asked and was not overlooked
          answer  \* per reader, where its question stands and what it was told

vars == <<kept, floor, answer>>

Init ==
    /\ kept = {}
    /\ floor = [r \in Runs |-> {}]
    /\ answer = [r \in Runs |-> [is |-> "none", told |-> {}]]

Keep(x) == x \notin kept /\ kept' = kept \cup {x} /\ UNCHANGED <<floor, answer>>

Ask(r) ==
    /\ answer[r].is = "none"
    /\ floor' = [floor EXCEPT ![r] = kept]
    /\ answer' = [answer EXCEPT ![r].is = "asked"]
    /\ UNCHANGED kept

Overlook(r) ==
    /\ Failing /\ answer[r].is = "asked"
    /\ \E rest \in SUBSET floor[r] : floor' = [floor EXCEPT ![r] = rest]
    /\ UNCHANGED <<kept, answer>>

Tell(r) ==
    /\ answer[r].is = "asked"
    /\ \E told \in SUBSET kept :
        /\ floor[r] \subseteq told
        /\ answer' = [answer EXCEPT ![r] = [is |-> "answered", told |-> told]]
    /\ UNCHANGED <<kept, floor>>

Refuse(r) ==
    /\ answer[r].is \in {"none", "asked"}
    /\ answer' = [answer EXCEPT ![r].is = "refused"]
    /\ UNCHANGED <<kept, floor>>

Next == (\E x \in Items : Keep(x)) \/ (\E r \in Runs : Ask(r) \/ Overlook(r) \/ Tell(r) \/ Refuse(r))

Spec == Init /\ [][Next]_vars
=============================================================================
