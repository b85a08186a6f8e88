---------------------------- MODULE MCLoopStore -----------------------------
(***************************************************************************)
(* Instances of LoopStore for TLC: a few hooks of one turn.                *)
(***************************************************************************)
EXTENDS LoopStore, TLC

CONSTANTS p1, p2, p3, p4

FourHooks == {p1, p2, p3, p4}
ThreeHooks == {p1, p2, p3}
TwoHooks == {p1, p2}
TwoSpawns == {p1, p2}
OnePrompt == {p3}
None == {}
EmptyLedger == {}
HookSymmetry == Permutations(Spawners) \cup Permutations(Procs \ (Spawners \cup Resetters))
=============================================================================
