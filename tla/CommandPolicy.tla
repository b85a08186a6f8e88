--------------------------- MODULE CommandPolicy ---------------------------
(***************************************************************************)
(* What the PreToolUse hook reads out of a tool call: the kind of a shell  *)
(* command, whether it spends money (super_sol_commands.py), and whether   *)
(* an edit of a guarded benchmark touches a test                           *)
(* (super_sol_benchmark_guard.py).                                         *)
(***************************************************************************)
EXTENDS Integers

Evals == {"super-sol-eval", "fablized-sol-eval", "super-sol-codex-ab"}
Launchers == {"direct", "uv_run", "uv_run_options", "uv_build", "uv_other"}
\* The targets a path of an edit may have, seen from the test roots.
Targets == {"product", "test", "invalid"}

\* A tool call: an edit of the files it names, or a shell command.  A command is plain
\* unless shell operators or a quoting error keep it from being one argv; `checks` says
\* that the program and its arguments are one of the known verifications.
IsTool(tool) ==
    \/ tool.name = "edit" /\ tool.paths \subseteq Targets
    \/ /\ tool.name = "bash"
       /\ tool.launcher \in Launchers
       /\ tool.flags \subseteq {"--dry-run", "--no-dry-run", "--confirm-billable"}
       /\ {tool.plain, tool.checks, tool.api} \subseteq BOOLEAN

\* _command_parts: the program behind `uv run` and its options.
Program(tool) ==
    CASE tool.launcher \in {"direct", "uv_run", "uv_run_options"} -> tool.program
      [] tool.launcher = "uv_build" -> "uv-build"
      [] tool.launcher = "uv_other" -> ""

\* classify_command; the names of the other kinds matter to the loop fuse alone.
Kind(tool) ==
    CASE ~tool.plain -> "unknown"
      [] tool.plain /\ Program(tool) \in Evals -> "billable_eval"
      [] tool.plain /\ Program(tool) \notin Evals /\ (tool.checks \/ Program(tool) = "uv-build") ->
            "verifier"
      [] OTHER -> "other"

\* _EVAL_INVOCATION: the pattern sees the first words only, of a compound command too.
Invoked(tool) == tool.launcher \in {"direct", "uv_run"} /\ tool.program \in Evals
IsEval(tool) == Kind(tool) = "billable_eval" \/ Invoked(tool)
DryRun(tool) == tool.plain /\ "--dry-run" \in tool.flags

\* Mutant of BillableDenied: any dry-run flag makes an evaluation free.
BillableUnlessDry(tool, authorized) ==
    /\ tool.name = "bash"
    /\ \/ tool.api /\ ~authorized
       \/ IsEval(tool) /\ "--dry-run" \notin tool.flags /\ ~authorized

\* billable_pre_tool
BillableDenied(tool, authorized) ==
    /\ tool.name = "bash"
    /\ \/ tool.api /\ ~authorized
       \/ /\ IsEval(tool) /\ ~DryRun(tool)
          /\ \/ ~authorized
             \/ Kind(tool) # "billable_eval"
             \/ "--confirm-billable" \notin tool.flags
       \/ IsEval(tool) /\ DryRun(tool) /\ "--no-dry-run" \in tool.flags
\* What a command would spend if the host ran it.
Spends(tool) ==
    /\ tool.name = "bash"
    /\ \/ tool.api
       \/ IsEval(tool) /\ (DryRun(tool) => "--no-dry-run" \in tool.flags)

\* benchmark_guard_decision: the edits the guard refuses, when it is enabled with valid test
\* roots.
GuardDenied(tool, enabled) ==
    enabled /\ tool.name = "edit" /\ (tool.paths = {} \/ tool.paths \cap {"test", "invalid"} # {})
=============================================================================
