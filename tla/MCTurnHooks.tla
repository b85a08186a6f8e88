---------------------------- MODULE MCTurnHooks ----------------------------
(***************************************************************************)
(* Instances of TurnHooks for TLC.                                         *)
(***************************************************************************)
EXTENDS TurnHooks, TLC

CONSTANTS u1, u2, u3

ThreeUses == {u1, u2, u3}
Symmetry == Permutations(Uses)

Edit(paths) == [name |-> "edit", paths |-> paths]
Shell(program, launcher, plain, flags, checks, api) ==
    [name |-> "bash", program |-> program, launcher |-> launcher, plain |-> plain,
     flags |-> flags, checks |-> checks, api |-> api]
ProductEdit == Edit({"product"})
TestEdit == Edit({"product", "test"})
Pytest == Shell("pytest", "uv_run", TRUE, {}, TRUE, FALSE)
Live == Shell("super-sol-eval", "direct", TRUE, {"--confirm-billable"}, FALSE, FALSE)
Contradictory == Shell("super-sol-eval", "direct", TRUE, {"--dry-run", "--no-dry-run"}, FALSE, FALSE)
Curl == Shell("curl", "direct", FALSE, {}, FALSE, TRUE)

Text(approves, refuses, control, explains, acts, signals) ==
    [secret |-> FALSE, approves |-> approves, refuses |-> refuses, control |-> control,
     explains |-> explains, acts |-> acts, signals |-> signals]
Approval == Text(TRUE, FALSE, "none", FALSE, FALSE, {})
Refusal == Text(FALSE, TRUE, "none", FALSE, FALSE, {})
Secret == [Approval EXCEPT !.secret = TRUE]
Rollback == {<< "failure_atomicity", "rollback" >>}
Fix == Text(FALSE, FALSE, "none", FALSE, TRUE, Rollback)
Order == Text(FALSE, FALSE, "security_boundary", FALSE, FALSE, {})
Off == Text(FALSE, FALSE, "off", FALSE, TRUE, Rollback)
Typo == Text(FALSE, FALSE, "unknown", FALSE, TRUE, Rollback)
Chat == Text(FALSE, FALSE, "none", FALSE, FALSE, Rollback)
Session(quality, model, diagnostic, guard) ==
    [quality |-> quality, model |-> model, diagnostic |-> diagnostic, guard |-> guard,
     forced |-> "failure_atomicity"]
Meets(session, prompts, tools, calls, answers, faultBound) ==
    session @@ [prompts |-> prompts, tools |-> tools, calls |-> calls, answers |-> answers,
                faults |-> faultBound]
Opted == Session("selective", "sol", "none", FALSE)
\* Edits and their verification, without and with a fault; a fuse that speaks up; a guarded
\* benchmark; the billing gate; prompts under the other settings.
MCSessions ==
    {Meets(Opted, {Fix}, {ProductEdit, Pytest}, 3, {}, 0),
     Meets(Opted, {Fix}, {ProductEdit, Pytest}, 2, {}, 1),
     Meets(Opted, {Fix}, {Pytest}, 2, {"deny", "stop", "warn"}, 0),
     Meets(Opted, {Fix}, {Pytest}, 1, {"stop", "warn"}, 2),
     Meets(Session("safety", "terra", "none", TRUE), {Fix}, {TestEdit}, 3, {}, 1),
     Meets(Session("selective", "observe", "none", FALSE), {Fix}, {ProductEdit, Pytest}, 2, {}, 0),
     Meets(Opted, {Approval, Refusal, Secret, Chat}, {Live, Contradictory, Curl}, 2, {}, 1)}
    \cup {Meets(Session("selective", "terra", diagnostic, FALSE), {Fix, Chat, Order, Off, Typo},
                {ProductEdit, Pytest}, 1, {}, 1) :
            diagnostic \in {"none", "empty", "invalid", "observe", "forced"}}
Spending == {Meets(Opted, {Approval, Refusal}, {Live}, 1, {}, 0)}
=============================================================================
