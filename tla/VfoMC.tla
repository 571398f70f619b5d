------------------------------- MODULE VfoMC -------------------------------
(***************************************************************************)
(* An instance of Vfo: one amateur band, WWV, the general band and one     *)
(* transverter band, on a scale where the margin of a band is 1.  The      *)
(* behaviours are cut after MaxOps operations.                             *)
(***************************************************************************)
EXTENDS Vfo, TLC

CONSTANT MaxOps   \* bound on the number of operations

VARIABLE ops      \* operations so far

SmallPlan ==
  1 :> [min |-> 4, max |-> 6, lo |-> 0, entries |-> 2, home |-> 5]
  @@ 2 :> [min |-> 0, max |-> 0, lo |-> 0, entries |-> 1, home |-> 9]
  @@ 3 :> [min |-> 0, max |-> 0, lo |-> 0, entries |-> 1, home |-> 2]
  @@ 4 :> [min |-> 13, max |-> 15, lo |-> 9, entries |-> 1, home |-> 14]

\* A narrow filter and a wide one.
SmallFilters == {[low |-> -1, high |-> 0], [low |-> -2, high |-> 2]}
SmallHops == {2}
SmallRits == {0, 2}

MCInit == Init /\ ops = 0
MCNext == \/ ops < MaxOps /\ Next /\ ops' = ops + 1
          \/ ops = MaxOps /\ UNCHANGED <<vars, ops>>
MCSpec == MCInit /\ [][MCNext]_<<vars, ops>>
=============================================================================
