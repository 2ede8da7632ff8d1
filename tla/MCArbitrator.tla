---------------------------- MODULE MCArbitrator ----------------------------
(***************************************************************************)
(* Small instances of Arbitrator: the windows a run's clients ask for, and *)
(* the symmetry of the runs that check safety only.                        *)
(***************************************************************************)
EXTENDS Arbitrator, TLC

\* A window of one instant, one that ends within the horizon, and one that lies
\* in the future at first and outlasts the horizon.
MCWindows == {[start |-> 1, end |-> 1], [start |-> 0, end |-> 2], [start |-> 2, end |-> 9]}

MCFewWindows == {[start |-> 1, end |-> 1], [start |-> 1, end |-> 9]}

\* Permuting ids or subscribers maps behaviours to behaviours.
MCSymmetry == Permutations(RequestId) \cup Permutations(Subs)
=============================================================================
