-------------------------- MODULE ContainerRuntime --------------------------
(***************************************************************************)
(* The hidden grader of the evaluation programs: each process grades one   *)
(* piece of work at a time in a Docker container that the program starts,  *)
(* waits for (120 s), and removes by force when it stops waiting (10 s).   *)
(* The programs that grade, CleanroomRun and Day0Run, extend this module   *)
(* and take its actions for their own.                                     *)
(*                                                                         *)
(* Docker is not in the repository: a container lives until its command    *)
(* ends (--rm) or until it is removed, whether or not anybody waits.  The  *)
(* deadlines are steps that may be taken at any time while one waits.      *)
(***************************************************************************)
EXTENDS Integers

CONSTANTS
    Procs        \* processes that grade

VARIABLES
    grading,     \* where the grading of each process is
    containers   \* containers that exist: <<who started it, graded job>>

Verdicts == {"passed", "failed", "infrastructure", "raised", "interrupted"}
Stages == {"idle", "running", "timed_out", "cancelled"} \cup Verdicts
GraderCodes == 0 .. 2

\* A container that cannot be inspected in time is as good as absent.
PreflightAnswers(images) == { \A i \in images : found[i] : found \in [images -> BOOLEAN] }

Judgement(code) ==
    CASE code = 0 -> "passed"
      [] code = 1 -> "failed"
      [] OTHER    -> "infrastructure"

\* docker is looked up on PATH before anything starts.
DockerMissing(p) ==
    /\ grading[p] = "idle"
    /\ grading' = [grading EXCEPT ![p] = "raised"]
    /\ UNCHANGED containers

Launch(p, job) ==
    /\ grading[p] = "idle"
    /\ grading' = [grading EXCEPT ![p] = "running"]
    /\ containers' = containers \cup {<<p, job>>}

ContainerExits(p, job, code) ==
    /\ grading[p] = "running"
    /\ grading' = [grading EXCEPT ![p] = Judgement(code)]
    /\ containers' = containers \ {<<p, job>>}

\* fail_after(120) or an interrupt ends the wait; the container is still up.
StopsWaiting(p) ==
    /\ grading[p] = "running"
    /\ \E why \in {"timed_out", "cancelled"} : grading' = [grading EXCEPT ![p] = why]
    /\ UNCHANGED containers

Stopped(p) == grading[p] \in {"timed_out", "cancelled"}

\* Mutant of ForceRemove: the wait ends and the container is left alone.
LetGo(p, job) ==
    /\ Stopped(p)
    /\ grading' = [grading EXCEPT ![p] = IF grading[p] = "timed_out" THEN "infrastructure"
                                                                     ELSE "interrupted"]
    /\ UNCHANGED containers

ForceRemove(p, job) ==
    /\ Stopped(p)
    /\ grading' = [grading EXCEPT ![p] = IF grading[p] = "timed_out" THEN "infrastructure"
                                                                     ELSE "interrupted"]
    /\ containers' = containers \ {<<p, job>>}

\* docker rm fails or exceeds its deadline: the container may still be there.
RemoveFails(p, job) ==
    /\ Stopped(p)
    /\ grading' = [grading EXCEPT ![p] = "raised"]
    /\ \E gone \in BOOLEAN : containers' = IF gone THEN containers \ {<<p, job>>} ELSE containers

\* The containers of a process that is gone are not followed any further.
Disown(p) == containers' = {c \in containers : c[1] # p}

\* A container nobody waits for comes to its own end.
Waited(c) == grading[c[1]] = "running" \/ Stopped(c[1])
LateExit ==
    /\ \E c \in containers :
          /\ ~ Waited(c)
          /\ containers' = containers \ {c}
    /\ UNCHANGED grading

Grading(p, job) ==
    \/ DockerMissing(p)
    \/ Launch(p, job)
    \/ \E code \in GraderCodes : ContainerExits(p, job, code)
    \/ StopsWaiting(p)
    \/ ForceRemove(p, job)
    \/ RemoveFails(p, job)

Judged(p) == grading[p] \in Verdicts
GraderTypeOK ==
    /\ grading \in [Procs -> Stages]
    /\ \A c \in containers : c[1] \in Procs
=============================================================================
