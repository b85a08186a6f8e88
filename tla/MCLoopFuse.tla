----------------------------- MODULE MCLoopFuse -----------------------------
(***************************************************************************)
(* Instances of LoopFuse for TLC.  Each configuration picks the calls and  *)
(* the environment its question needs; the rest of the turn is left out.   *)
(***************************************************************************)
EXTENDS LoopFuse

CONSTANTS a1, a2, a3, a4, a5

Shell(kind, command) == [kind |-> kind, tool |-> "bash", content |-> command]
Tool(name, body) == [kind |-> "edit", tool |-> name, content |-> body]

FiveAgents == {a1, a2, a3, a4, a5}
NoAgents == {}
MCEditTools == {"apply_patch", "edit", "write"}

Spawns == {Shell("spawn", "agent")}
TwoVerifiers == {Shell("verifier", "pytest"), Shell("verifier", "ruff")}
TwoVerifiersAndEdit == TwoVerifiers \cup {Tool("apply_patch", "patch")}
OneVerifierAndEdit == {Shell("verifier", "pytest"), Tool("apply_patch", "patch")}
Patches ==
    {Tool("apply_patch", "patch1"), Tool("apply_patch", "patch2"),
     Tool("apply_patch", "patch3"), Tool("apply_patch", "patch4")}
ReadsAndEdit ==
    {Shell("read", "cat"), Shell("wait", "sleep"), Tool("apply_patch", "patch")}

MCFingerprints == {FingerprintOf(call) : call \in Calls}
Symmetry == Permutations(Agents)
=============================================================================
