----------------------------- MODULE MCPromotion -----------------------------
(***************************************************************************)
(* Instances of Promotion for TLC: two tasks, eight slots.  Lean may fail  *)
(* on the first task, in either repetition, and raw on the second, so that *)
(* the means can hide a task that got worse.  One lean turn may be dear:   *)
(* for its task alone its tokens exceed the budget and its seconds just    *)
(* meet it, for both tasks together it is within both.                     *)
(***************************************************************************)
EXTENDS Promotion

TwoTasks == {"t1", "t2"}
Usual == [tokens |-> 100, seconds |-> 10]
Dear == [tokens |-> 112, seconds |-> 12]

MayFail(s) == s.arm = IF s.task = "t1" THEN "lean" ELSE "raw"
MayBeDear(s) == s = [task |-> "t1", repetition |-> 1, arm |-> "lean"]

MCOutcomes ==
    [s \in Slots |->
        [passed : IF MayFail(s) THEN BOOLEAN ELSE {TRUE},
         cost : IF MayBeDear(s) THEN {Usual, Dear} ELSE {Usual}]]
=============================================================================
