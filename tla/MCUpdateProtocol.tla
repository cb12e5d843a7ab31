-------------------------- MODULE MCUpdateProtocol --------------------------
(***************************************************************************)
(* Instances of UpdateProtocol for TLC.                                    *)
(***************************************************************************)
EXTENDS UpdateProtocol, TLC

CONSTANTS a, b, c, k1, k2

BudgetOf(edits, faults, silences, pauses) ==
  [run |-> 2, edit |-> edits, fault |-> faults, silence |-> silences, pause |-> pauses]

(* One version, published as one of two contents with a common first block *)
(* or as a shorter one: a part file can be a prefix of the wrong package,  *)
(* and be longer than the right one.                                       *)
SafetyBodies  == {<<a, b>>, <<a, c>>, <<a>>}
SafetyBudgets == {BudgetOf(2, 1, 0, 1), BudgetOf(1, 2, 0, 1), BudgetOf(0, 1, 1, 1)}

(* The connections, and the two contents of equal length, are alike.       *)
Alike == Permutations({k1, k2}) \cup Permutations({b, c})

(* Two versions, to roll the manifest forward and back, under fairness.    *)
ProgressBodies  == {<<a>>}
ProgressBudgets == {BudgetOf(1, 1, 0, 1)}

(* A server nobody touches, and one connection that goes silent.           *)
SilenceBudgets == {BudgetOf(0, 0, 1, 0)}
=============================================================================
