---------------------------- MODULE GapQuestions ----------------------------
(***************************************************************************)
(* What `verify --online` promises about its traffic, whatever the order   *)
(* of passes, certificates and URLs: a question is put about a certificate *)
(* at instants nobody has asked about yet, each costs one of a fixed       *)
(* number of charges that is never refilled, and evidence is only gained.  *)
(***************************************************************************)
EXTENDS Naturals

CONSTANTS
    Pairs,  \* every (certificate, instant) that could be asked about
    Max     \* how many charges a run has

VARIABLES
    left,     \* charges that remain
    asked,    \* pairs a charge was spent on
    evidence  \* what the run knows

Init == left = Max /\ asked = {} /\ evidence = {}

\* A charge buys one certificate's unasked instants.
Ask ==
    /\ left > 0
    /\ asked' \in SUBSET Pairs
    /\ asked \subseteq asked' /\ asked' # asked
    /\ \A p, q \in asked' \ asked : p[1] = q[1]
    /\ left' = left - 1
    /\ evidence' = evidence

Learn ==
    /\ evidence \subseteq evidence'
    /\ UNCHANGED <<left, asked>>

Next == Ask \/ Learn

Spec == Init /\ [][Next]_<<left, asked, evidence>>
=============================================================================
