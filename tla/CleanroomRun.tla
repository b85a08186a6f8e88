---------------------------- MODULE CleanroomRun ----------------------------
(***************************************************************************)
(* Invocations of fablized-codex-ab on one run directory: dry plans, the   *)
(* live run, and the resumptions that retry slots it lost.  Each is a      *)
(* process that builds two temporary Codex homes, plans or validates the   *)
(* run, runs its slots one after the other through Codex and the grader,   *)
(* and removes the homes.  There is no lock: any number may overlap.  A    *)
(* member of Procs is a terminal, where one invocation follows another.    *)
(*                                                                         *)
(* Faults: a process is killed at any step, or interrupted (SIGINT), which *)
(* Python turns into an exception that runs the finally blocks; Codex, Git *)
(* and Docker fail as they like.  Deleting files is taken to succeed.      *)
(***************************************************************************)
EXTENDS ContainerRuntime, SlotLog, CodexTelemetry, CleanroomHome

CONSTANTS
    TaskOrder,    \* the tasks in the order of the manifest
    Inputs,       \* identities an invocation may compute from its options
    BuiltHomes,   \* homes that Codex may build
    Captures,     \* what Codex processes may return
    MaxInvoked,   \* bound: invocations in all
    MaxKills,     \* bound: invocations killed
    NoRun         \* run.json does not exist

ASSUME CleanroomAssumption ==
    /\ IsFiniteSet(Procs)
    /\ Procs \cap {"absent", "finished", "abandoned"} = {}
    /\ TaskOrder \in Seq(Tasks)
    /\ {TaskOrder[i] : i \in DOMAIN TaskOrder} = Tasks
    /\ Len(TaskOrder) = Cardinality(Tasks)
    /\ Inputs # {}
    /\ BuiltHomes \subseteq Homes
    /\ Captures \subseteq [code : {0, 1}, text : Texts, lines : Seq(LineKinds)]
    /\ {MaxInvoked, MaxKills} \subseteq Nat

VARIABLES
    pc,       \* where each process is
    mode,     \* what it was asked to do
    identity, \* what it computed: <<inputs, evidence of its homes>>
    temp,     \* its temporary homes: "none", "bare", or "auth" with the copied auth.json
    left,     \* the slots it has still to run
    result,   \* how it ended: exit code 0, 1, 2 or an exception
    root,     \* the run directory: absent, or what became of its planner
    invoked,  \* invocations so far
    kills,    \* ... and killed
    runFile,  \* run.json
    attempt   \* for the properties: what really happened to the slot it is at

vars == << pc, mode, identity, temp, left, result, root, invoked, kills, runFile, attempt,
           events, grading, containers >>
process == << pc, mode, identity, temp, left, result >>
graders == << grading, containers >>

\* Whether Codex took exactly one metered turn, and what the container said.
Untried == [turned |-> FALSE, verdict |-> "none"]
NoIdentity == << >>
\* A plan, a confirmed live run, or one resumed; a dry run cannot be.
Modes == {"live", "dry", "resume"}
Steps == {"idle", "revision", "homes", "discarding", "ready", "directory", "described",
          "preflight", "unmeasurable", "slots", "codex", "grading", "leaving"}
Results == {"none", "clean", "failed", "raised"}
Live(p) == pc[p] # "idle"
Goto(p, step) == pc' = [pc EXCEPT ![p] = step]
End(p, how) == result' = [result EXCEPT ![p] = how]

\* A process is gone, and what it knew with it.  The planner of the run either
\* finished it with an exit code or abandoned it; a dry plan is never run.
Exit(p, how) ==
    /\ Goto(p, "idle")
    /\ End(p, "none")
    /\ mode' = [mode EXCEPT ![p] = "live"]
    /\ identity' = [identity EXCEPT ![p] = NoIdentity]
    /\ left' = [left EXCEPT ![p] = {}]
    /\ attempt' = [attempt EXCEPT ![p] = Untried]
    /\ root' = IF root # p THEN root
               ELSE IF mode[p] = "live" /\ how \in {"clean", "failed"} THEN "finished" ELSE "abandoned"

\* Tasks in order, repetitions in order, the arm that goes first alternating.
SlotOrder ==
    [i \in 1 .. 2 * Repetitions * Len(TaskOrder) |->
        LET task == (i - 1) \div (2 * Repetitions)
            repetition == ((i - 1) % (2 * Repetitions)) \div 2
        IN  [task |-> TaskOrder[task + 1], repetition |-> repetition + 1,
             arm |-> IF (task + repetition + i - 1) % 2 = 0 THEN "raw" ELSE "lean"]]

\* for slot in slots: the first one in that order that the process has not been at.
First(slots) ==
    SlotOrder[CHOOSE i \in DOMAIN SlotOrder :
                  /\ SlotOrder[i] \in slots
                  /\ \A j \in 1 .. i - 1 : SlotOrder[j] \notin slots]
NextSlot(p) == First(left[p])

Init ==
    /\ pc = [p \in Procs |-> "idle"]
    /\ mode = [p \in Procs |-> "live"]
    /\ identity = [p \in Procs |-> NoIdentity]
    /\ temp = [p \in Procs |-> "none"]
    /\ left = [p \in Procs |-> {}]
    /\ result = [p \in Procs |-> "none"]
    /\ root = "absent"
    /\ runFile = NoRun
    /\ invoked = 0
    /\ kills = 0
    /\ attempt = [p \in Procs |-> Untried]
    /\ LogInit
    /\ grading = [p \in Procs |-> "idle"]
    /\ containers = {}

\* The directory is looked at before anything is built; otherwise nothing
\* happens, with exit code 2.
Invoke(p, how) ==
    /\ ~ Live(p)
    /\ invoked < MaxInvoked
    /\ invoked' = invoked + 1
    /\ mode' = [mode EXCEPT ![p] = how]
    /\ (root = "absent") # (how = "resume")
    /\ Goto(p, "revision")
    /\ Disown(p)
    /\ UNCHANGED << identity, temp, left, result, root, kills, runFile, events, grading, attempt >>

\* The identity is computed and the checkout is compared with it; the
\* temporary directory exists only after both.
BuildIdentity(p) ==
    /\ pc[p] = "revision"
    /\ \E inputs \in Inputs, checkout \in Checkouts, readable \in BOOLEAN :
          IF readable /\ RevisionMatches(checkout)
          THEN /\ identity' = [identity EXCEPT ![p] = << inputs >>]
               /\ temp' = [temp EXCEPT ![p] = IF mode[p] = "dry" THEN "bare" ELSE "auth"]
               /\ Goto(p, "homes")
               /\ UNCHANGED << mode, left, result, root, attempt >>
          ELSE Exit(p, "raised") /\ UNCHANGED temp
    /\ UNCHANGED << invoked, kills, runFile, events, graders >>

BuildHomes(p) ==
    /\ pc[p] = "homes"
    /\ \/ \E homes \in BuiltHomes :
             IF HomesValid(homes)
             THEN identity' = [identity EXCEPT ![p] = Append(@, Evidence(homes))] /\ Goto(p, "ready")
             ELSE Goto(p, "discarding") /\ UNCHANGED identity
       \/ Goto(p, "discarding") /\ UNCHANGED identity      \* a command failed
    /\ UNCHANGED << mode, temp, left, result, root, invoked, kills, runFile, events, graders, attempt >>

DiscardHomes(p) ==
    /\ pc[p] = "discarding"
    /\ temp' = [temp EXCEPT ![p] = "none"]
    /\ Exit(p, "raised")
    /\ UNCHANGED << invoked, kills, runFile, events, graders >>

Leave(p, how) == Goto(p, "leaving") /\ End(p, how)

\* mkdir is the one step in which a second fresh run is turned away.
MakeDirectory(p) ==
    /\ pc[p] = "ready"
    /\ mode[p] # "resume"
    /\ IF root = "absent"
       THEN root' = p /\ Goto(p, "directory") /\ UNCHANGED result
       ELSE Leave(p, "raised") /\ UNCHANGED root
    /\ UNCHANGED << mode, identity, temp, left, invoked, kills, runFile, events, graders, attempt >>

WriteRunFile(p) ==
    /\ pc[p] = "directory"
    /\ runFile' = identity[p]
    /\ Goto(p, "described")
    /\ UNCHANGED << mode, identity, temp, left, result, root, invoked, kills, events, graders, attempt >>

WritePlan(p) ==
    /\ pc[p] = "described"
    /\ Plan(Slots)
    /\ left' = [left EXCEPT ![p] = Slots]
    /\ IF mode[p] = "dry" THEN Leave(p, "clean") ELSE Goto(p, "preflight") /\ UNCHANGED result
    /\ UNCHANGED << mode, identity, temp, root, invoked, kills, runFile, graders, attempt >>

\* Slots that a resumption may run again.
Unresolved == Missing \ Completed
ResumeAccepted(mine) ==
    /\ runFile = mine
    /\ Planned = Slots
    /\ Missing \cap Completed \subseteq Resumed
    /\ Unresolved # {}
    /\ Slots \ (Completed \cup Missing) = {}

ValidateResume(p) ==
    /\ pc[p] = "ready"
    /\ mode[p] = "resume"
    /\ IF ResumeAccepted(identity[p])
       THEN /\ left' = [left EXCEPT ![p] = Unresolved]
            /\ Goto(p, "preflight")
            /\ UNCHANGED result
       ELSE Leave(p, "raised") /\ UNCHANGED left
    /\ UNCHANGED << mode, identity, temp, root, invoked, kills, runFile, events, graders, attempt >>

Preflight(p) ==
    /\ pc[p] = "preflight"
    /\ \E present \in PreflightAnswers({"grader_image"}) :
          Goto(p, IF present THEN "slots" ELSE "unmeasurable")
    /\ UNCHANGED << mode, identity, temp, left, result, root, invoked, kills, runFile, events, graders, attempt >>

\* Without the grader image every selected slot is missing, one by one.
LoseToPreflight(p) ==
    /\ pc[p] = "unmeasurable"
    /\ IF left[p] = {}
       THEN Leave(p, "failed") /\ UNCHANGED << left, events >>
       ELSE /\ Append1(NextSlot(p), Mark("missing"))
            /\ left' = [left EXCEPT ![p] = @ \ {NextSlot(p)}]
            /\ UNCHANGED << pc, result >>
    /\ UNCHANGED << mode, identity, temp, root, invoked, kills, runFile, graders, attempt >>

\* Mutant of Begin: a resumed slot is recorded like a first attempt.
BeginAnew(p) ==
    /\ pc[p] = "slots"
    /\ left[p] # {}
    /\ Append1(NextSlot(p), Mark("started"))
    /\ Goto(p, "codex")
    /\ UNCHANGED << mode, identity, temp, left, result, root, invoked, kills, runFile, graders, attempt >>

\* The workspace is copied afresh, whatever an earlier attempt left there.
Begin(p) ==
    /\ pc[p] = "slots"
    /\ left[p] # {}
    /\ Append1(NextSlot(p), Mark(IF mode[p] = "resume" THEN "resumed" ELSE "started"))
    /\ Goto(p, "codex")
    /\ UNCHANGED << mode, identity, temp, left, result, root, invoked, kills, runFile, graders, attempt >>

\* The outcome of a slot, and on to the next one.
Close(p, event) ==
    /\ Append1(NextSlot(p), event)
    /\ left' = [left EXCEPT ![p] = @ \ {NextSlot(p)}]
    /\ Goto(p, "slots")
    /\ attempt' = [attempt EXCEPT ![p] = Untried]

\* Mutant of LoseSlot: nothing is written about a lost slot.
LoseSilently(p) ==
    /\ left' = [left EXCEPT ![p] = @ \ {NextSlot(p)}]
    /\ Goto(p, "slots")
    /\ attempt' = [attempt EXCEPT ![p] = Untried]
    /\ End(p, "failed")
    /\ UNCHANGED events

\* The slot is missing and the invocation has failed.
LoseSlot(p) ==
    /\ Close(p, Mark("missing"))
    /\ End(p, "failed")

\* What the process returned as a capture, and what it really did.
OneMeteredTurn(capture) ==
    /\ capture.code = 0
    /\ Cardinality({i \in DOMAIN capture.lines : capture.lines[i] = "completed"}) = 1
    /\ \A i \in DOMAIN capture.lines : capture.lines[i] \in {"completed", "other"}

RunCodex(p) ==
    /\ pc[p] = "codex"
    /\ \/ LoseSlot(p)     \* the process seam raised
       \/ \E capture \in Captures \cup {TimedOut} :
             IF ParseCapture(capture) = "completed"
             THEN /\ Goto(p, "grading")
                  /\ attempt' = [attempt EXCEPT ![p].turned = OneMeteredTurn(capture)]
                  /\ UNCHANGED << left, result, events >>
             ELSE LoseSlot(p)
    /\ UNCHANGED << graders, mode, identity, temp, root, invoked, kills, runFile >>

GradeSlot(p) ==
    /\ pc[p] = "grading"
    /\ Grading(p, NextSlot(p))
    /\ attempt' = [attempt EXCEPT ![p].verdict =
                      IF grading[p] = "running" /\ grading'[p] \in {"passed", "failed"}
                      THEN grading'[p] ELSE @]
    /\ UNCHANGED << process, root, invoked, kills, runFile, events >>

\* A symlink in the workspace loses the slot even after its grader passed.
RecordSlot(p) ==
    /\ pc[p] = "grading"
    /\ \/ /\ grading[p] = "infrastructure"
          /\ LoseSlot(p)
       \/ /\ grading[p] \in {"passed", "failed"}
          /\ \/ LoseSlot(p)
             \/ \E cost \in Costs :
                   /\ Close(p, Completion(grading[p] = "passed", cost))
                   /\ IF grading[p] = "failed" THEN End(p, "failed") ELSE UNCHANGED result
       \/ /\ grading[p] \in {"raised", "interrupted"}
          /\ Leave(p, "raised")
          /\ UNCHANGED << left, events, attempt >>
    /\ grading' = [grading EXCEPT ![p] = "idle"]
    /\ UNCHANGED << mode, identity, temp, root, invoked, kills, runFile, containers >>

\* Mutant of FinishSlots: losses are forgotten.
FinishClean(p) ==
    /\ pc[p] = "slots"
    /\ left[p] = {}
    /\ Leave(p, "clean")
    /\ UNCHANGED << mode, identity, temp, left, root, invoked, kills, runFile, events, graders, attempt >>

\* int(failed)
FinishSlots(p) ==
    /\ pc[p] = "slots"
    /\ left[p] = {}
    /\ Leave(p, IF result[p] = "failed" THEN "failed" ELSE "clean")
    /\ UNCHANGED << mode, identity, temp, left, root, invoked, kills, runFile, events, graders, attempt >>

RemoveHomes(p) ==
    /\ pc[p] = "leaving"
    /\ temp' = [temp EXCEPT ![p] = "none"]
    /\ Exit(p, result[p])
    /\ UNCHANGED << invoked, kills, runFile, events, graders >>

\* SIGINT.  While the grader runs it is StopsWaiting of the container.
Interrupt(p) ==
    /\ \/ pc[p] = "homes" /\ Goto(p, "discarding") /\ UNCHANGED result
       \/ /\ pc[p] \in {"ready", "directory", "described", "preflight", "unmeasurable", "slots", "codex"}
          /\ Leave(p, "raised")
    /\ UNCHANGED << mode, identity, temp, left, root, invoked, kills, runFile, events, graders, attempt >>

\* SIGKILL or a crash.  The plan may be cut anywhere.
Kill(p) ==
    /\ Live(p)
    /\ kills < MaxKills
    /\ kills' = kills + 1
    /\ Exit(p, "killed")
    /\ temp' = [temp EXCEPT ![p] = "none"]    \* left behind for good, like its container
    /\ Disown(p)
    /\ IF pc[p] = "described"
       THEN \E k \in 0 .. Len(SlotOrder) : Plan({SlotOrder[i] : i \in 1 .. k})
       ELSE UNCHANGED events
    /\ grading' = [grading EXCEPT ![p] = "idle"]
    /\ UNCHANGED << invoked, runFile >>

ContainerEnds ==
    /\ LateExit
    /\ UNCHANGED << process, root, invoked, kills, runFile, events, attempt >>

Step(p) ==
    \/ BuildIdentity(p)
    \/ BuildHomes(p)
    \/ DiscardHomes(p)
    \/ MakeDirectory(p)
    \/ WriteRunFile(p)
    \/ WritePlan(p)
    \/ ValidateResume(p)
    \/ Preflight(p)
    \/ LoseToPreflight(p)
    \/ Begin(p)
    \/ RunCodex(p)
    \/ GradeSlot(p)
    \/ RecordSlot(p)
    \/ FinishSlots(p)
    \/ RemoveHomes(p)

Next ==
    \/ \E p \in Procs, how \in Modes : Invoke(p, how)
    \/ \E p \in Procs : Step(p) \/ Interrupt(p) \/ Kill(p)
    \/ ContainerEnds

Spec == Init /\ [][Next]_vars
-----------------------------------------------------------------------------
CleanroomTypeOK ==
    /\ GraderTypeOK
    /\ LogTypeOK
    /\ pc \in [Procs -> Steps]
    /\ mode \in [Procs -> Modes]
    /\ temp \in [Procs -> {"none", "bare", "auth"}]
    /\ left \in [Procs -> SUBSET Slots]
    /\ result \in [Procs -> Results]
    /\ root \in Procs \cup {"absent", "finished", "abandoned"}
    /\ invoked \in 0 .. MaxInvoked
    /\ kills \in 0 .. MaxKills
    /\ attempt \in [Procs -> [turned : BOOLEAN, verdict : {"none", "passed", "failed"}]]

\* A score is never made up.  A slot.completed record is written only by a
\* process whose own Codex process took exactly one metered turn at that slot and
\* whose own container ended with the verdict that the record carries: no
\* timeout, failed clean-up, provider error or interrupted grader becomes a zero
\* or a pass (RunCodex, RecordSlot; "must never become a zero score").
Scored(s) == /\ Len(events'[s]) > Len(events[s])
             /\ events'[s][Len(events'[s])].type = "completed"
OnlyJudgedSlotsScored ==
    [][\A s \in Slots : Scored(s) => \E p \in Procs :
          /\ left[p] # {} /\ NextSlot(p) = s
          /\ attempt[p].turned
          /\ (attempt[p].verdict = "passed") = events'[s][Len(events'[s])].passed
          /\ attempt[p].verdict # "none"]_vars

\* What an invocation leaves behind.  One that ended, unless killed, has
\* removed its homes and the copy of auth.json; and unless it ended with an
\* exception, no container it started is still there.
CleanEnd ==
    [][\A p \in Procs : (Live(p) /\ pc'[p] = "idle" /\ kills' = kills) =>
          /\ temp'[p] = "none"
          /\ result[p] # "raised" => ~ \E c \in containers' : c[1] = p]_vars

\* A run that lost slots is never stranded: when the invocation that planned it
\* ended by itself with an exit code, and nothing else is running, either every
\* slot is completed or --resume with the same identity is accepted, whatever
\* happened to other invocations on the way.
ResumableOrComplete ==
    (root = "finished" /\ \A p \in Procs : ~ Live(p)) =>
        \/ Slots \subseteq Completed
        \/ ResumeAccepted(runFile)

\* Exit code 0 of an invocation that ran slots says that nothing is missing,
\* and of the live run that every slot passed.
ExitTellsTruth ==
    \A p \in Procs : (pc[p] = "leaving" /\ result[p] = "clean" /\ mode[p] # "dry") =>
        /\ Slots \subseteq Completed
        /\ mode[p] = "live" =>
              \A s \in Slots : \E i \in DOMAIN events[s] :
                  events[s][i].type = "completed" /\ events[s][i].passed

\* The processes write the log as SlotLog promises: one plan, one start of each
\* slot, resumptions only after a loss, and no completion without its attempt.
ImplementsSlotLog == LogSpec
=============================================================================
