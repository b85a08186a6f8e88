--------------------------- MODULE MCCleanroomRun ---------------------------
(***************************************************************************)
(* Instances of CleanroomRun for TLC: one task in one repetition, hence a  *)
(* raw and a lean slot, and a few invocations.                             *)
(***************************************************************************)
EXTENDS CleanroomRun, TLC

CONSTANTS p1, p2

Two == {p1, p2}
ProcSymmetry == Permutations(Two)
OneTask == {"t1"}
OneTaskOrder == << "t1" >>
OneCost == {[tokens |-> 100, seconds |-> 10]}
Built(listed, source, raw, lean) ==
    [listed |-> listed, source |-> source, raw_config |-> "empty", raw |-> raw, lean |-> lean]
Plugin == {"config", "skill", "manifest"}
MCBuiltHomes == {
    Built("super-sol", "checkout", {"config"}, Plugin),
    Built("super-sol", "checkout", {"config"}, Plugin \cup {"cached"}),
    Built("super-sol", "checkout", {"config"}, Plugin \cup {"stray"}),
    [Built("super-sol", "checkout", {"config"}, Plugin) EXCEPT !.raw_config = "edited"]}
Printed(lines) == [code |-> 0, text |-> "plain", lines |-> lines]
MCCaptures ==
    {Printed(lines) : lines \in {<< >>, << "completed" >>, << "completed", "completed" >>,
                                 << "completed", "error" >>, << "unmetered" >>, << "garbled" >>}}
    \cup {[code |-> 1, text |-> text, lines |-> << >>] : text \in Texts}
=============================================================================
