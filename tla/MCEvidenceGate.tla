--------------------------- MODULE MCEvidenceGate ---------------------------
(***************************************************************************)
(* Instances of EvidenceGate for TLC: two tools in parallel.               *)
(***************************************************************************)
EXTENDS EvidenceGate, TLC

CONSTANTS s1, s2

TwoSlots == {s1, s2}
SlotSymmetry == Permutations(TwoSlots)
=============================================================================
