-------------------------- MODULE CleanroomProofs --------------------------
(***************************************************************************)
(* Theorems about CleanroomRun, for any number of processes, tasks,        *)
(* invocations and kills, any Codex and any Docker.                        *)
(*                                                                         *)
(* One process at a time owns the run directory (Ownership): only it plans *)
(* and only it starts slots for the first time.  A resumption is accepted  *)
(* once every slot is completed or missing, which nothing takes back, so   *)
(* that it never meets the planner at an open slot (Progress).  What a     *)
(* process is at is in Attempts, what it knows of its losses in Outcomes,  *)
(* and what it has started in Docker and on disk in Belongings.            *)
(***************************************************************************)
EXTENDS CleanroomRun, FiniteSetTheorems, WellFoundedInduction, TLAPS

Working(p) == pc[p] \in {"preflight", "unmeasurable", "slots", "codex", "grading"}
Trying(p) == pc[p] \in {"codex", "grading"}
Resolved(s) == Has(s, "completed") \/ Has(s, "missing")
Passed(s) == \E i \in DOMAIN events[s] : events[s][i].type = "completed" /\ events[s][i].passed
Blank == \A s \in Slots : events[s] = << >>
AtPlan(p) == pc[p] \in {"directory", "described"}

\* A process at a slot has that slot left.
HasSlot == \A p \in Procs : Trying(p) => left[p] # {}

\* Who owns the run directory, and that nothing is logged before its plan.
Ownership ==
    /\ \A p \in Procs :
          /\ AtPlan(p) => mode[p] # "resume" /\ root = p
          /\ Working(p) => mode[p] # "dry"
          /\ Working(p) /\ mode[p] = "live" => root = p
          /\ root = p => /\ AtPlan(p) \/ Working(p) \/ pc[p] = "leaving"
                         /\ mode[p] # "resume"
          /\ root = p /\ AtPlan(p) => Blank
          /\ Live(p) /\ mode[p] = "resume" => root # "absent"
    /\ root = "absent" => Blank

\* What the log says of the slots that a process has had and has still to run.
ProgressOf(p) ==
    /\ Working(p) => Planned = Slots
    /\ Working(p) /\ mode[p] = "live" =>
          /\ \A s \in Slots \ left[p] : Resolved(s)
          /\ Trying(p) => ~ Resolved(NextSlot(p))
          /\ \A s \in left[p] : ~ (Trying(p) /\ s = NextSlot(p)) => events[s] = << Mark("planned") >>
    /\ Working(p) /\ mode[p] = "resume" =>
          /\ \A s \in Slots : Resolved(s)
          /\ left[p] \subseteq Missing
          /\ Trying(p) => Has(NextSlot(p), "resumed")
RetriesMarked == Missing \cap Completed \subseteq Resumed
Progress == (\A p \in Procs : ProgressOf(p)) /\ RetriesMarked

\* Each process at a slot has an attempt of its own open there.
AtSlot(s) == {p \in Procs : Trying(p) /\ NextSlot(p) = s}
OpenAttempts ==
    \A s \in Slots :
        Count(s, {"started", "resumed"}) >= Count(s, {"completed"}) + Cardinality(AtSlot(s))

AllDecided == Planned = Slots /\ \A s \in Slots : Resolved(s)

\* What the exit code will say, while the process runs and when it leaves.
OutcomesOf(p) ==
    /\ pc[p] \notin {"slots", "codex", "grading", "leaving"} => result[p] = "none"
    /\ pc[p] \in {"slots", "codex", "grading"} => result[p] \in {"none", "failed"}
    /\ Working(p) /\ pc[p] # "unmeasurable" /\ result[p] = "none" =>
          /\ Slots \ left[p] \subseteq Completed
          /\ mode[p] = "live" => \A s \in Slots \ left[p] : Passed(s)
    /\ pc[p] = "leaving" /\ result[p] = "clean" /\ mode[p] # "dry" =>
          /\ Slots \subseteq Completed
          /\ mode[p] = "live" => \A s \in Slots : Passed(s)
    /\ (pc[p] = "leaving" /\ root = p /\ mode[p] = "live" /\ result[p] \in {"clean", "failed"}) =>
          AllDecided
Outcomes == \A p \in Procs : OutcomesOf(p)

\* A finished run has every slot decided.
FinishedDecided == root = "finished" => AllDecided

\* What really happened to the slot a process is at.
AttemptsOf(p) ==
    /\ pc[p] # "grading" => grading[p] = "idle"
    /\ pc[p] = "grading" => attempt[p].turned
    /\ grading[p] \in {"passed", "failed"} => attempt[p].verdict = grading[p]
Attempts == \A p \in Procs : AttemptsOf(p)

\* The homes and the containers of a process.
Followed(c) ==
    \/ pc[c[1]] = "idle"
    \/ pc[c[1]] = "leaving" /\ result[c[1]] = "raised"
    \/ /\ pc[c[1]] = "grading"
       /\ c[2] = NextSlot(c[1])
       /\ grading[c[1]] \in {"running", "timed_out", "cancelled", "raised"}
Belongings ==
    /\ containers \subseteq Procs \X Slots
    /\ \A c \in containers : Followed(c)
    /\ \A p \in Procs : pc[p] \in {"idle", "revision"} => temp[p] = "none"

-----------------------------------------------------------------------------
(* The order of the slots *)

\* A set of indices has a least one.
LEMMA LeastNat == ASSUME NEW S \in SUBSET Nat, S # {} PROVE \E n \in S : \A m \in S : n <= m
<1> DEFINE Less == {pair \in Nat \X Nat : pair[1] < pair[2]}
<1>1. IsWellFoundedOn(Less, Nat)
  BY NatLessThanWellFounded DEF OpToRel
<1>2. \A m, n \in Nat : << m, n >> \in Less <=> m < n
  OBVIOUS
<1> HIDE DEF Less
<1>3. PICK n \in S : \A m \in S : ~ (<< m, n >> \in Less)
  BY <1>1, WFMin
<1>4. ASSUME NEW m \in S PROVE n <= m
  <2>1. m \in Nat /\ n \in Nat
    OBVIOUS
  <2>2. ~ (m < n)
    BY <1>2, <1>3, <2>1
  <2>3. QED
    BY <2>1, <2>2
<1>5. QED
  BY <1>4

\* Where a slot is: the arm decides between two neighbours.
LEMMA IndexOf ==
    ASSUME NEW k \in Nat \ {0}, NEW r \in 1 .. Repetitions, NEW b \in {0, 1},
           NEW i, i = (k - 1) * (2 * Repetitions) + (r - 1) * 2 + b + 1
    PROVE  /\ i \in Nat \ {0}
           /\ (i - 1) \div (2 * Repetitions) = k - 1
           /\ ((i - 1) % (2 * Repetitions)) \div 2 = r - 1
           /\ ((k - 1) + (r - 1) + i - 1) % 2 = ((k - 1) + (r - 1) + b) % 2
           /\ \A n \in Nat : k <= n => i <= 2 * Repetitions * n
<1>1. CASE Repetitions = 1
  BY <1>1
<1>2. CASE Repetitions = 2
  BY <1>2
<1>3. CASE Repetitions = 3
  BY <1>3
<1>4. CASE Repetitions = 4
  BY <1>4
<1>5. CASE Repetitions = 5
  BY <1>5
<1>6. QED
  BY <1>1, <1>2, <1>3, <1>4, <1>5, SlotLogAssumption

\* Every slot has its turn, and a turn is a slot.
LEMMA SlotOrderOnto ==
    /\ DOMAIN SlotOrder \subseteq Nat \ {0}
    /\ \A i \in DOMAIN SlotOrder : 1 .. i - 1 \subseteq DOMAIN SlotOrder
    /\ \A i \in DOMAIN SlotOrder : SlotOrder[i] \in Slots
    /\ \A s \in Slots : \E i \in DOMAIN SlotOrder : SlotOrder[i] = s
<1> DEFINE L == Len(TaskOrder)
           N == 2 * Repetitions * L
<1>1. /\ L \in Nat /\ DOMAIN TaskOrder = 1 .. L
      /\ \A k \in 1 .. L : TaskOrder[k] \in Tasks
      /\ \A t \in Tasks : \E k \in 1 .. L : TaskOrder[k] = t
  BY CleanroomAssumption
<1>2. Repetitions \in 1 .. 5
  BY SlotLogAssumption
<1>3. N \in Nat /\ DOMAIN SlotOrder = 1 .. N
  BY <1>1, <1>2 DEF SlotOrder
<1> HIDE DEF L
<1>4. ASSUME NEW i \in 1 .. N
      PROVE  /\ (i - 1) \div (2 * Repetitions) \in 0 .. L - 1
             /\ ((i - 1) % (2 * Repetitions)) \div 2 \in 0 .. Repetitions - 1
  <2>1. CASE Repetitions = 1
    BY <1>1, <2>1
  <2>2. CASE Repetitions = 2
    BY <1>1, <2>2
  <2>3. CASE Repetitions = 3
    BY <1>1, <2>3
  <2>4. CASE Repetitions = 4
    BY <1>1, <2>4
  <2>5. CASE Repetitions = 5
    BY <1>1, <2>5
  <2>6. QED
    BY <1>2, <2>1, <2>2, <2>3, <2>4, <2>5
<1>5. ASSUME NEW i \in 1 .. N PROVE SlotOrder[i] \in Slots
  <2> DEFINE task == (i - 1) \div (2 * Repetitions)
             repetition == ((i - 1) % (2 * Repetitions)) \div 2
  <2>1. task + 1 \in 1 .. L /\ repetition + 1 \in 1 .. Repetitions
    BY <1>1, <1>2, <1>4
  <2>2. TaskOrder[task + 1] \in Tasks
    BY <1>1, <2>1
  <2>3. SlotOrder[i] = [task |-> TaskOrder[task + 1], repetition |-> repetition + 1,
                        arm |-> IF (task + repetition + i - 1) % 2 = 0 THEN "raw" ELSE "lean"]
    BY <1>3, Zenon DEF SlotOrder
  <2> HIDE DEF task, repetition
  <2>4. QED
    BY <2>1, <2>2, <2>3 DEF Slots, Arms
<1>6. ASSUME NEW s \in Slots PROVE \E i \in 1 .. N : SlotOrder[i] = s
  <2>1. s.task \in Tasks /\ s.repetition \in 1 .. Repetitions /\ s.arm \in {"raw", "lean"}
        /\ s = [task |-> s.task, repetition |-> s.repetition, arm |-> s.arm]
    BY DEF Slots, Arms
  <2>2. PICK k \in 1 .. L : TaskOrder[k] = s.task
    BY <1>1, <2>1
  <2> DEFINE r == s.repetition
  <2>3. k \in Nat \ {0} /\ r \in Nat \ {0} /\ k <= L
    BY <1>1, <1>2, <2>1, <2>2
  <2>4. PICK b \in {0, 1} : ((k - 1) + (r - 1) + b) % 2 = (IF s.arm = "raw" THEN 0 ELSE 1)
    BY <2>3
  <2> DEFINE i == (k - 1) * (2 * Repetitions) + (r - 1) * 2 + b + 1
  <2>5. /\ i \in Nat \ {0}
        /\ (i - 1) \div (2 * Repetitions) = k - 1
        /\ ((i - 1) % (2 * Repetitions)) \div 2 = r - 1
        /\ ((k - 1) + (r - 1) + i - 1) % 2 = ((k - 1) + (r - 1) + b) % 2
        /\ \A n \in Nat : k <= n => i <= 2 * Repetitions * n
    BY <2>1, <2>3, IndexOf
  <2> HIDE DEF i, r
  <2>6. i \in 1 .. N
    BY <1>1, <1>3, <2>3, <2>5
  <2>7. SlotOrder[i] = [task |-> TaskOrder[(k - 1) + 1], repetition |-> (r - 1) + 1,
                        arm |-> IF ((k - 1) + (r - 1) + i - 1) % 2 = 0 THEN "raw" ELSE "lean"]
    BY <1>3, <2>5, <2>6 DEF SlotOrder
  <2>8. (k - 1) + 1 = k /\ (r - 1) + 1 = r
    BY <2>3
  <2>9. (IF ((k - 1) + (r - 1) + i - 1) % 2 = 0 THEN "raw" ELSE "lean") = s.arm
    BY <2>1, <2>4, <2>5
  <2>10. SlotOrder[i] = s
    BY <2>1, <2>2, <2>7, <2>8, <2>9 DEF r
  <2>11. QED
    BY <2>6, <2>10
<1>7. QED
  BY <1>3, <1>5, <1>6

\* The next slot of a process that has slots left is one of them.
LEMMA FirstIn == ASSUME NEW slots \in SUBSET Slots, slots # {} PROVE First(slots) \in slots
<1> DEFINE Turns == {i \in DOMAIN SlotOrder : SlotOrder[i] \in slots}
<1>1. Turns \in SUBSET Nat /\ Turns # {}
  BY SlotOrderOnto
<1>2. PICK n \in Turns : \A m \in Turns : n <= m
  BY <1>1, LeastNat
<1>3. ASSUME NEW j \in 1 .. n - 1 PROVE SlotOrder[j] \notin slots
  <2>1. n \in Nat \ {0} /\ j \in Nat /\ j < n
    BY <1>1, SlotOrderOnto
  <2>2. j \in DOMAIN SlotOrder
    BY SlotOrderOnto
  <2>3. QED
    BY <1>2, <2>1, <2>2
<1>4. \E i \in DOMAIN SlotOrder : /\ SlotOrder[i] \in slots
                                 /\ \A j \in 1 .. i - 1 : SlotOrder[j] \notin slots
  BY <1>3
<1>5. QED
  BY <1>4, Zenon DEF First
-----------------------------------------------------------------------------
(* What the log says, and that it never takes it back *)

\* The records of every slot after one was appended.
LEMMA LogAfter ==
    ASSUME LogTypeOK, NEW s \in Slots, NEW event \in Events, Append1(s, event)
    PROVE  /\ LogTypeOK'
           /\ events'[s] = Append(events[s], event)
           /\ Len(events'[s]) = Len(events[s]) + 1
           /\ Len(events[s]) + 1 \in DOMAIN events'[s] /\ events'[s][Len(events[s]) + 1] = event
           /\ \A i \in DOMAIN events[s] : i \in DOMAIN events'[s] /\ events'[s][i] = events[s][i]
           /\ \A other \in Slots : other # s => events'[other] = events[other]
<1>1. events[s] \in Seq(Events) /\ events' = [events EXCEPT ![s] = Append(events[s], event)]
  BY DEF LogTypeOK, Append1
<1>2. events'[s] = Append(events[s], event) /\ \A other \in Slots : other # s => events'[other] = events[other]
  BY <1>1 DEF LogTypeOK
<1> HIDE DEF Events
<1>3. Append(events[s], event) \in Seq(Events)
  BY <1>1
<1>4. LogTypeOK'
  BY <1>1, <1>3 DEF LogTypeOK
<1>5. QED
  BY <1>1, <1>2, <1>4

\* How many records of given types a slot has after one more.
LEMMA CountAfter ==
    ASSUME LogTypeOK, NEW s \in Slots, NEW event \in Events, Append1(s, event), NEW types
    PROVE  /\ \A other \in Slots : Count(other, types) \in Nat
           /\ Count(s, types)' = Count(s, types) + (IF event.type \in types THEN 1 ELSE 0)
           /\ \A other \in Slots : other # s => Count(other, types)' = Count(other, types)
<1> DEFINE C(t) == {i \in DOMAIN events[t] : events[t][i].type \in types}
           n == Len(events[s]) + 1
<1>1. ASSUME NEW t \in Slots PROVE IsFiniteSet(C(t)) /\ Cardinality(C(t)) \in Nat
  <2>1. DOMAIN events[t] = 1 .. Len(events[t]) /\ Len(events[t]) \in Nat
    BY DEF LogTypeOK
  <2>2. IsFiniteSet(DOMAIN events[t])
    BY <2>1, FS_Interval
  <2>3. QED
    BY <2>2, FS_Subset, FS_CardinalityType
<1>2. DOMAIN events[s] = 1 .. n - 1 /\ n \in Nat /\ DOMAIN events'[s] = 1 .. n
  BY LogAfter DEF LogTypeOK
<1>3. \A other \in Slots : Count(other, types) \in Nat
  BY <1>1 DEF Count
<1>4. \A other \in Slots : other # s => Count(other, types)' = Count(other, types)
  BY LogAfter DEF Count
<1>5. CASE event.type \in types
  <2>1. C(s)' = C(s) \cup {n}
    BY <1>2, <1>5, LogAfter
  <2>2. n \notin C(s)
    BY <1>2
  <2>3. Cardinality(C(s) \cup {n}) = Cardinality(C(s)) + 1
    BY <1>1, <2>2, FS_AddElement
  <2>4. Count(s, types)' = Count(s, types) + 1
    BY <2>1, <2>3 DEF Count
  <2>5. QED
    BY <1>3, <1>4, <1>5, <2>4
<1>6. CASE event.type \notin types
  <2>1. C(s)' = C(s)
    BY <1>2, <1>6, LogAfter
  <2>2. Count(s, types)' = Count(s, types)
    BY <2>1 DEF Count
  <2>3. QED
    BY <1>3, <1>4, <1>6, <2>2
<1>7. QED
  BY <1>5, <1>6

\* What a slot has had after one more record.
LEMMA HasAfter ==
    ASSUME LogTypeOK, NEW s \in Slots, NEW event \in Events, Append1(s, event), NEW type
    PROVE  /\ Has(s, type)' <=> Has(s, type) \/ event.type = type
           /\ \A other \in Slots : other # s => (Has(other, type)' <=> Has(other, type))
<1>1. DOMAIN events'[s] = 1 .. Len(events[s]) + 1 /\ DOMAIN events[s] = 1 .. Len(events[s]) /\ Len(events[s]) \in Nat
  BY LogAfter DEF LogTypeOK
<1>2. QED
  BY <1>1, LogAfter DEF Has
-----------------------------------------------------------------------------
(* Types *)

LEMMA EventKinds ==
    /\ \A type \in {"planned", "started", "resumed", "missing"} :
          Mark(type) \in Events /\ Mark(type).type = type
    /\ \A passed \in BOOLEAN, cost \in Costs :
          /\ Completion(passed, cost) \in Events
          /\ Completion(passed, cost).type = "completed"
          /\ Completion(passed, cost).passed = passed
<1>1. ASSUME NEW type \in {"planned", "started", "resumed", "missing"}
      PROVE  Mark(type) \in Events /\ Mark(type).type = type
  BY <1>1, Zenon DEF Events, Mark
<1>2. ASSUME NEW passed \in BOOLEAN, NEW cost \in Costs
      PROVE  /\ Completion(passed, cost) \in Events
             /\ Completion(passed, cost).type = "completed"
             /\ Completion(passed, cost).passed = passed
  <2>1. Completion(passed, cost) \in Completions
    BY DEF Completions
  <2>2. Completion(passed, cost) \in Events
    BY <2>1, Zenon DEF Events
  <2>3. QED
    BY <2>2 DEF Completion
<1>3. QED
  BY <1>1, <1>2

\* What a process that grades may write, and which of the containers it touches.
LEMMA GradingType ==
    ASSUME NEW p \in Procs, NEW job, grading \in [Procs -> Stages],
           \A c \in containers : c[1] \in Procs, Grading(p, job)
    PROVE  /\ grading' \in [Procs -> Stages]
           /\ \A c \in containers' : c[1] \in Procs
           /\ grading'[p] # "idle"
           /\ \A q \in Procs : q # p => grading'[q] = grading[q]
<1>1. CASE DockerMissing(p) \/ StopsWaiting(p)
  BY <1>1 DEF DockerMissing, StopsWaiting, Stages, Verdicts
<1>2. CASE Launch(p, job)
  BY <1>2 DEF Launch, Stages, Verdicts
<1>3. ASSUME NEW code \in GraderCodes, ContainerExits(p, job, code)
      PROVE  /\ grading' \in [Procs -> Stages]
             /\ \A c \in containers' : c[1] \in Procs
             /\ grading'[p] # "idle"
             /\ \A q \in Procs : q # p => grading'[q] = grading[q]
  BY <1>3 DEF ContainerExits, Judgement, Stages, Verdicts
<1>4. CASE ForceRemove(p, job) \/ RemoveFails(p, job)
  BY <1>4 DEF ForceRemove, RemoveFails, Stages, Verdicts
<1>5. QED
  BY <1>1, <1>2, <1>3, <1>4 DEF Grading

\* A process that exits forgets what it had.
LEMMA ExitType ==
    ASSUME CleanroomTypeOK, HasSlot, NEW p \in Procs, NEW how, Exit(p, how)
    PROVE  /\ pc' \in [Procs -> Steps]
           /\ mode' \in [Procs -> Modes]
           /\ left' \in [Procs -> SUBSET Slots]
           /\ result' \in [Procs -> Results]
           /\ root' \in Procs \cup {"absent", "finished", "abandoned"}
           /\ attempt' \in [Procs -> [turned : BOOLEAN, verdict : {"none", "passed", "failed"}]]
           /\ HasSlot'
<1>1. /\ pc' \in [Procs -> Steps] /\ mode' \in [Procs -> Modes] /\ left' \in [Procs -> SUBSET Slots]
      /\ result' \in [Procs -> Results]
  BY DEF Exit, Goto, End, CleanroomTypeOK, Steps, Modes, Results
<1>2. root' \in Procs \cup {"absent", "finished", "abandoned"}
  BY DEF Exit, CleanroomTypeOK
<1>3. attempt' \in [Procs -> [turned : BOOLEAN, verdict : {"none", "passed", "failed"}]]
  BY DEF Exit, CleanroomTypeOK, Untried
<1>4. HasSlot'
  BY DEF Exit, Goto, End, CleanroomTypeOK, HasSlot, Trying
<1>5. QED
  BY <1>1, <1>2, <1>3, <1>4

\* So does the log while a slot is closed.
LEMMA CloseType ==
    ASSUME CleanroomTypeOK, HasSlot, NEW p \in Procs, Trying(p), NEW event \in Events, Close(p, event)
    PROVE  /\ LogTypeOK'
           /\ pc' \in [Procs -> Steps]
           /\ left' \in [Procs -> SUBSET Slots]
           /\ attempt' \in [Procs -> [turned : BOOLEAN, verdict : {"none", "passed", "failed"}]]
           /\ HasSlot'
           /\ NextSlot(p) \in left[p]
<1>1. NextSlot(p) \in left[p] /\ NextSlot(p) \in Slots
  BY FirstIn DEF HasSlot, NextSlot, CleanroomTypeOK
<1>2. LogTypeOK'
  BY <1>1, LogAfter DEF CleanroomTypeOK, Close
<1>3. /\ pc' \in [Procs -> Steps] /\ left' \in [Procs -> SUBSET Slots]
      /\ attempt' \in [Procs -> [turned : BOOLEAN, verdict : {"none", "passed", "failed"}]]
  BY DEF CleanroomTypeOK, Close, Goto, Steps, Untried
<1>4. HasSlot'
  BY DEF CleanroomTypeOK, Close, Goto, HasSlot, Trying
<1>5. QED
  BY <1>1, <1>2, <1>3, <1>4

\* A new log is well-formed.
LEMMA PlanType == ASSUME NEW written, Plan(written) PROVE LogTypeOK'
<1>1. << Mark("planned") >> \in Seq(Events) /\ << >> \in Seq(Events)
  BY EventKinds
<1>2. QED
  BY <1>1 DEF Plan, LogTypeOK

LEMMA TypeStep == CleanroomTypeOK /\ HasSlot /\ [Next]_vars => (CleanroomTypeOK /\ HasSlot)'
<1> SUFFICES ASSUME CleanroomTypeOK, HasSlot, [Next]_vars PROVE CleanroomTypeOK' /\ HasSlot'
  OBVIOUS
<1> USE DEF CleanroomTypeOK
<1>1. ASSUME NEW p \in Procs, NEW how \in Modes, Invoke(p, how) PROVE CleanroomTypeOK' /\ HasSlot'
  <2>1. invoked' \in 0 .. MaxInvoked
    BY <1>1, CleanroomAssumption DEF Invoke
  <2>2. GraderTypeOK' /\ LogTypeOK'
    BY <1>1 DEF Invoke, Disown, GraderTypeOK, LogTypeOK
  <2>3. QED
    BY <1>1, <2>1, <2>2 DEF Invoke, Goto, Steps, Modes, HasSlot, Trying
<1>2. ASSUME NEW p \in Procs, Step(p) PROVE CleanroomTypeOK' /\ HasSlot'
  <2>1. CASE BuildIdentity(p)
    <3>1. PICK inputs \in Inputs, checkout \in Checkouts, readable \in BOOLEAN :
            IF readable /\ RevisionMatches(checkout)
            THEN /\ identity' = [identity EXCEPT ![p] = << inputs >>]
                 /\ temp' = [temp EXCEPT ![p] = IF mode[p] = "dry" THEN "bare" ELSE "auth"]
                 /\ Goto(p, "homes")
                 /\ UNCHANGED << mode, left, result, root, attempt >>
            ELSE Exit(p, "raised") /\ UNCHANGED temp
      BY <2>1 DEF BuildIdentity
    <3>2. LogTypeOK' /\ GraderTypeOK' /\ UNCHANGED << invoked, kills >>
      BY <2>1 DEF BuildIdentity, graders, LogTypeOK, GraderTypeOK
    <3>3. CASE Exit(p, "raised") /\ UNCHANGED temp
      BY <3>2, <3>3, ExitType
    <3>4. CASE /\ temp' = [temp EXCEPT ![p] = IF mode[p] = "dry" THEN "bare" ELSE "auth"]
               /\ Goto(p, "homes")
               /\ UNCHANGED << mode, left, result, root, attempt >>
      BY <3>2, <3>4 DEF Goto, Steps, HasSlot, Trying
    <3>5. QED
      BY <3>1, <3>3, <3>4
  <2>2. CASE DiscardHomes(p)
    <3>1. LogTypeOK' /\ GraderTypeOK' /\ UNCHANGED << invoked, kills >>
      BY <2>2 DEF DiscardHomes, graders, LogTypeOK, GraderTypeOK
    <3>2. QED
      BY <2>2, <3>1, ExitType DEF DiscardHomes
  <2>3. CASE RemoveHomes(p)
    <3>1. LogTypeOK' /\ GraderTypeOK' /\ UNCHANGED << invoked, kills >>
      BY <2>3 DEF RemoveHomes, graders, LogTypeOK, GraderTypeOK
    <3>2. QED
      BY <2>3, <3>1, ExitType DEF RemoveHomes
  <2>4. CASE BuildHomes(p) \/ MakeDirectory(p) \/ WriteRunFile(p) \/ ValidateResume(p) \/ Preflight(p)
             \/ FinishSlots(p)
    <3>1. LogTypeOK' /\ GraderTypeOK' /\ UNCHANGED << mode, temp, invoked, kills, attempt >>
      BY <2>4 DEF BuildHomes, MakeDirectory, WriteRunFile, ValidateResume, Preflight, FinishSlots, graders,
                  LogTypeOK, GraderTypeOK
    <3>2. CASE BuildHomes(p) \/ MakeDirectory(p) \/ WriteRunFile(p)
      BY <3>1, <3>2 DEF BuildHomes, MakeDirectory, WriteRunFile, Goto, Leave, End, Steps, Results, HasSlot, Trying
    <3>3. CASE ValidateResume(p)
      <4>1. Unresolved \in SUBSET Slots
        BY DEF Unresolved, Missing
      <4>2. left' \in [Procs -> SUBSET Slots] /\ UNCHANGED root
        BY <3>3, <4>1 DEF ValidateResume
      <4>3. pc' \in [Procs -> Steps] /\ result' \in [Procs -> Results]
        BY <3>3 DEF ValidateResume, Goto, Leave, End, Steps, Results
      <4>4. HasSlot'
        BY <3>3 DEF ValidateResume, Goto, Leave, HasSlot, Trying
      <4>5. QED
        BY <3>1, <4>2, <4>3, <4>4
    <3>4. CASE Preflight(p) \/ FinishSlots(p)
      BY <3>1, <3>4 DEF Preflight, FinishSlots, Goto, Leave, End, Steps, Results, HasSlot, Trying
    <3>5. QED
      BY <2>4, <3>2, <3>3, <3>4
  <2>5. CASE WritePlan(p)
    <3>1. LogTypeOK' /\ GraderTypeOK' /\ UNCHANGED << mode, temp, root, invoked, kills, attempt >>
      BY <2>5, PlanType DEF WritePlan, graders, GraderTypeOK
    <3>2. QED
      BY <2>5, <3>1 DEF WritePlan, Goto, Leave, End, Steps, Results, HasSlot, Trying
  <2>6. CASE LoseToPreflight(p)
    <3>1. CASE left[p] = {}
      BY <2>6, <3>1 DEF LoseToPreflight, graders, LogTypeOK, GraderTypeOK, Goto, Leave, End, Steps, Results,
                        HasSlot, Trying
    <3>2. CASE left[p] # {}
      <4>1. NextSlot(p) \in Slots
        BY <3>2, FirstIn DEF NextSlot
      <4>2. Append1(NextSlot(p), Mark("missing"))
        BY <2>6, <3>2 DEF LoseToPreflight
      <4>3. LogTypeOK'
        BY <4>1, <4>2, LogAfter, EventKinds
      <4>4. QED
        BY <2>6, <3>2, <4>3 DEF LoseToPreflight, graders, GraderTypeOK, HasSlot, Trying
    <3>3. QED
      BY <3>1, <3>2
  <2>7. CASE Begin(p)
    <3>1. NextSlot(p) \in Slots
      BY <2>7, FirstIn DEF NextSlot, Begin
    <3>2. LogTypeOK'
      BY <2>7, <3>1, LogAfter, EventKinds DEF Begin
    <3>3. QED
      BY <2>7, <3>2 DEF Begin, graders, GraderTypeOK, Goto, Steps, HasSlot, Trying
  <2>8. CASE RunCodex(p)
    <3>1. GraderTypeOK' /\ UNCHANGED << mode, temp, root, invoked, kills >> /\ Trying(p)
      BY <2>8 DEF RunCodex, graders, GraderTypeOK, Trying
    <3>2. CASE LoseSlot(p)
      BY <3>1, <3>2, CloseType, EventKinds DEF LoseSlot, End, Results
    <3>3. ASSUME NEW capture \in Captures \cup {TimedOut}, Goto(p, "grading"),
                 attempt' = [attempt EXCEPT ![p].turned = OneMeteredTurn(capture)],
                 UNCHANGED << left, result, events >>
          PROVE  CleanroomTypeOK' /\ HasSlot'
      <4>1. OneMeteredTurn(capture) \in BOOLEAN
        BY DEF OneMeteredTurn
      <4> HIDE DEF OneMeteredTurn
      <4>2. attempt' \in [Procs -> [turned : BOOLEAN, verdict : {"none", "passed", "failed"}]]
        BY <3>3, <4>1, SMTT(30)
      <4>3. LogTypeOK'
        BY <3>3 DEF LogTypeOK
      <4>4. QED
        BY <3>1, <3>3, <4>2, <4>3 DEF Goto, Steps, HasSlot, Trying
    <3>4. QED
      BY <2>8, <3>2, <3>3 DEF RunCodex
  <2>9. CASE GradeSlot(p)
    <3>1. GraderTypeOK'
      BY <2>9, GradingType DEF GradeSlot, GraderTypeOK
    <3>2. attempt' \in [Procs -> [turned : BOOLEAN, verdict : {"none", "passed", "failed"}]]
      BY <2>9 DEF GradeSlot
    <3>3. QED
      BY <2>9, <3>1, <3>2 DEF GradeSlot, process, LogTypeOK, HasSlot, Trying
  <2>10. CASE RecordSlot(p)
    <3>1. GraderTypeOK' /\ UNCHANGED << mode, temp, root, invoked, kills >> /\ Trying(p)
      BY <2>10 DEF RecordSlot, GraderTypeOK, Stages, Trying
    <3>2. CASE LoseSlot(p)
      BY <3>1, <3>2, CloseType, EventKinds DEF LoseSlot, End, Results
    <3>3. ASSUME NEW cost \in Costs, Close(p, Completion(grading[p] = "passed", cost)),
                 IF grading[p] = "failed" THEN End(p, "failed") ELSE UNCHANGED result
          PROVE  CleanroomTypeOK' /\ HasSlot'
      <4>1. Completion(grading[p] = "passed", cost) \in Events
        BY EventKinds
      <4>2. result' \in [Procs -> Results]
        BY <3>3 DEF End, Results
      <4>3. QED
        BY <3>1, <3>3, <4>1, <4>2, CloseType
    <3>4. CASE Leave(p, "raised") /\ UNCHANGED << left, events, attempt >>
      BY <3>1, <3>4 DEF Leave, Goto, End, Steps, Results, HasSlot, Trying, LogTypeOK
    <3>5. QED
      BY <2>10, <3>2, <3>3, <3>4 DEF RecordSlot
  <2>11. QED
    BY <1>2, <2>1, <2>2, <2>3, <2>4, <2>5, <2>6, <2>7, <2>8, <2>9, <2>10 DEF Step
<1>3. ASSUME NEW p \in Procs, Interrupt(p) PROVE CleanroomTypeOK' /\ HasSlot'
  BY <1>3 DEF Interrupt, graders, GraderTypeOK, LogTypeOK, Goto, Leave, End, Steps, Results, HasSlot, Trying
<1>4. ASSUME NEW p \in Procs, Kill(p) PROVE CleanroomTypeOK' /\ HasSlot'
  <2>1. GraderTypeOK'
    BY <1>4 DEF Kill, Disown, GraderTypeOK, Stages
  <2>2. LogTypeOK'
    BY <1>4, PlanType DEF Kill, LogTypeOK
  <2>3. kills' \in 0 .. MaxKills
    BY <1>4, CleanroomAssumption DEF Kill
  <2>4. temp' \in [Procs -> {"none", "bare", "auth"}] /\ UNCHANGED invoked /\ Exit(p, "killed")
    BY <1>4 DEF Kill
  <2>5. QED
    BY <2>1, <2>2, <2>3, <2>4, ExitType
<1>5. CASE ContainerEnds
  BY <1>5 DEF ContainerEnds, LateExit, process, GraderTypeOK, LogTypeOK, HasSlot, Trying
<1>6. CASE UNCHANGED vars
  BY <1>6 DEF vars, GraderTypeOK, LogTypeOK, HasSlot, Trying
<1>7. QED
  BY <1>1, <1>2, <1>3, <1>4, <1>5, <1>6 DEF Next
-----------------------------------------------------------------------------
(* Who writes the log *)

\* What a process may append to the records of the slot it is at.
Writes(p, event) ==
    /\ left[p] # {}
    /\ \/ event = Mark("missing") /\ (pc[p] = "unmeasurable" \/ Trying(p))
       \/ event = Mark("started") /\ pc[p] = "slots" /\ mode[p] # "resume"
       \/ event = Mark("resumed") /\ pc[p] = "slots" /\ mode[p] = "resume"
       \/ /\ pc[p] = "grading" /\ grading[p] \in {"passed", "failed"}
          /\ \E cost \in Costs : event = Completion(grading[p] = "passed", cost)

\* A step leaves the log alone, plans, or appends one record.
LEMMA LogStep ==
    ASSUME CleanroomTypeOK, HasSlot, [Next]_vars
    PROVE  \/ events' = events
           \/ \E p \in Procs : pc[p] = "described" /\ \E written : Plan(written)
           \/ \E p \in Procs, event \in Events :
                 Working(p) /\ NextSlot(p) \in left[p] /\ Writes(p, event) /\ Append1(NextSlot(p), event)
<1> DEFINE Goal ==
           \/ events' = events
           \/ \E p \in Procs : pc[p] = "described" /\ \E written : Plan(written)
           \/ \E p \in Procs, event \in Events :
                 Working(p) /\ NextSlot(p) \in left[p] /\ Writes(p, event) /\ Append1(NextSlot(p), event)
<1>1. ASSUME NEW p \in Procs, left[p] # {} PROVE NextSlot(p) \in left[p]
  BY <1>1, FirstIn DEF NextSlot, CleanroomTypeOK
<1>2. ASSUME NEW p \in Procs, Step(p) PROVE Goal
  <2>1. CASE BuildIdentity(p) \/ BuildHomes(p) \/ DiscardHomes(p) \/ MakeDirectory(p) \/ WriteRunFile(p)
             \/ ValidateResume(p) \/ Preflight(p) \/ FinishSlots(p) \/ GradeSlot(p) \/ RemoveHomes(p)
    BY <2>1 DEF BuildIdentity, BuildHomes, DiscardHomes, MakeDirectory, WriteRunFile, ValidateResume,
                Preflight, FinishSlots, GradeSlot, RemoveHomes
  <2>2. CASE WritePlan(p)
    BY <2>2 DEF WritePlan
  <2>3. CASE LoseToPreflight(p)
    <3>1. CASE left[p] = {}
      BY <2>3, <3>1 DEF LoseToPreflight
    <3>2. CASE left[p] # {}
      BY <1>1, <2>3, <3>2, EventKinds DEF LoseToPreflight, Working, Writes
    <3>3. QED
      BY <3>1, <3>2
  <2>4. CASE Begin(p)
    BY <1>1, <2>4, EventKinds DEF Begin, Working, Writes
  <2>5. CASE RunCodex(p)
    <3>1. events' = events \/ Append1(NextSlot(p), Mark("missing"))
      BY <2>5 DEF RunCodex, LoseSlot, Close
    <3>2. QED
      BY <1>1, <2>5, <3>1, EventKinds DEF RunCodex, HasSlot, Working, Trying, Writes
  <2>6. CASE RecordSlot(p)
    <3>1. CASE events' = events \/ Append1(NextSlot(p), Mark("missing"))
      BY <1>1, <2>6, <3>1, EventKinds DEF RecordSlot, HasSlot, Working, Trying, Writes
    <3>2. ASSUME NEW cost \in Costs, grading[p] \in {"passed", "failed"},
                 Append1(NextSlot(p), Completion(grading[p] = "passed", cost))
          PROVE  Goal
      BY <1>1, <2>6, <3>2, EventKinds DEF RecordSlot, HasSlot, Working, Trying, Writes
    <3>3. QED
      BY <2>6, <3>1, <3>2 DEF RecordSlot, LoseSlot, Close
  <2>7. QED
    BY <1>2, <2>1, <2>2, <2>3, <2>4, <2>5, <2>6 DEF Step
<1>3. ASSUME NEW p \in Procs, Kill(p) PROVE Goal
  BY <1>3 DEF Kill
<1>4. ASSUME NEW p \in Procs, NEW how \in Modes, Invoke(p, how) \/ Interrupt(p) PROVE Goal
  BY <1>4 DEF Invoke, Interrupt
<1>5. CASE ContainerEnds \/ UNCHANGED vars
  BY <1>5 DEF ContainerEnds, vars
<1>6. QED
  BY <1>2, <1>3, <1>4, <1>5 DEF Next, Modes

\* Nobody has slots to run while the run is not planned.
LEMMA NothingLeft ==
    ASSUME CleanroomTypeOK, Ownership, Progress, Blank,
           root = "absent" \/ \E q \in Procs : root = q /\ AtPlan(q),
           NEW p \in Procs, Working(p)
    PROVE  left[p] = {}
<1>1. CASE mode[p] = "resume"
  <2>1. left[p] \subseteq Missing /\ Missing = {}
    BY <1>1 DEF Progress, ProgressOf, Missing, Has, Blank
  <2>2. QED
    BY <2>1
<1>2. CASE mode[p] # "resume"
  <2>1. root = p
    BY <1>2 DEF Ownership, CleanroomTypeOK, Modes
  <2>2. QED
    BY <2>1, CleanroomAssumption DEF AtPlan, Working
<1>3. QED
  BY <1>1, <1>2

LEMMA OwnershipStep ==
    ASSUME CleanroomTypeOK, HasSlot, Ownership, Progress, [Next]_vars PROVE Ownership'
<1>1. ASSUME NEW p \in Procs, NEW how \in Modes, Invoke(p, how) PROVE Ownership'
  BY <1>1 DEF Invoke, Goto, Live, CleanroomTypeOK, Ownership, AtPlan, Working, Blank, Modes
<1>2. ASSUME NEW p \in Procs, Step(p) PROVE Ownership'
  <2>1. CASE BuildIdentity(p) \/ DiscardHomes(p) \/ RemoveHomes(p)
    BY <2>1, CleanroomAssumption DEF BuildIdentity, DiscardHomes, RemoveHomes, Exit, Goto, End,
       Live, CleanroomTypeOK, Ownership, AtPlan, Working, Blank
  <2>2. CASE BuildHomes(p) \/ WriteRunFile(p) \/ FinishSlots(p) \/ GradeSlot(p) \/ Preflight(p)
    BY <2>2 DEF BuildHomes, WriteRunFile, FinishSlots, GradeSlot, Preflight, Goto, Leave, process,
       Live, CleanroomTypeOK, Ownership, AtPlan, Working, Blank
  <2>3. CASE MakeDirectory(p) \/ ValidateResume(p)
    BY <2>3, CleanroomAssumption DEF MakeDirectory, ValidateResume, Goto, Leave,
       Live, CleanroomTypeOK, Ownership, AtPlan, Working, Blank, Modes
  <2>4. CASE WritePlan(p)
    BY <2>4, CleanroomAssumption DEF WritePlan, Goto, Leave,
       Live, CleanroomTypeOK, Ownership, AtPlan, Working, Modes
  <2>5. CASE LoseToPreflight(p) \/ Begin(p) \/ RunCodex(p) \/ RecordSlot(p)
    <3>1. UNCHANGED << root, mode >> /\ Working(p) /\ (pc'[p] = "leaving" \/ Working(p)')
          /\ \A q \in Procs : q # p => pc'[q] = pc[q]
      BY <2>5 DEF LoseToPreflight, Begin, RunCodex, RecordSlot, LoseSlot, Close, Goto, Leave, Working, CleanroomTypeOK
    <3>2. left[p] = {} => UNCHANGED events
      BY <2>5 DEF LoseToPreflight, Begin, RunCodex, RecordSlot, HasSlot, Trying
    <3>3. Blank /\ (root = "absent" \/ \E q \in Procs : root = q /\ AtPlan(q)) => Blank'
      BY <3>1, <3>2, NothingLeft DEF Blank
    <3>4. QED
      BY <3>1, <3>3 DEF Live, CleanroomTypeOK, Ownership, AtPlan, Working
  <2>6. QED
    BY <1>2, <2>1, <2>2, <2>3, <2>4, <2>5 DEF Step
<1>3. ASSUME NEW p \in Procs, Interrupt(p) PROVE Ownership'
  BY <1>3 DEF Interrupt, Goto, Leave, Live, CleanroomTypeOK, Ownership, AtPlan, Working, Blank
<1>4. ASSUME NEW p \in Procs, Kill(p) PROVE Ownership'
  BY <1>4, CleanroomAssumption DEF Kill, Exit, Goto, End,
       Live, CleanroomTypeOK, Ownership, AtPlan, Working, Blank
<1>5. CASE ContainerEnds \/ UNCHANGED vars
  BY <1>5 DEF ContainerEnds, process, vars, Live, Ownership, AtPlan, Working, Blank
<1>6. QED
  BY <1>1, <1>2, <1>3, <1>4, <1>5 DEF Next
-----------------------------------------------------------------------------
(* Progress *)

LEMMA Unlogged ==
    ASSUME events' = events
    PROVE  /\ \A s, type : Has(s, type)' <=> Has(s, type)
           /\ \A s : (Passed(s)' <=> Passed(s)) /\ (Resolved(s)' <=> Resolved(s))
           /\ UNCHANGED << Planned, Missing, Completed, Resumed >>
<1>1. \A s, type : Has(s, type)' <=> Has(s, type)
  BY DEF Has
<1>2. \A s : (Passed(s)' <=> Passed(s)) /\ (Resolved(s)' <=> Resolved(s))
  BY <1>1 DEF Passed, Resolved
<1>3. QED
  BY <1>1, <1>2 DEF Planned, Missing, Completed, Resumed

\* Whoever is about to plan finds nothing logged.
LEMMA PlannedOnce ==
    ASSUME Ownership, NEW p \in Procs, pc[p] = "described" PROVE root = p /\ Blank
BY DEF Ownership, AtPlan

\* Nothing that a slot has had is ever taken back.
LEMMA LogGrows ==
    ASSUME CleanroomTypeOK, HasSlot, Ownership, [Next]_vars
    PROVE  /\ \A s \in Slots : \A type : Has(s, type) => Has(s, type)'
           /\ \A s \in Slots : (Passed(s) => Passed(s)') /\ (Resolved(s) => Resolved(s)')
           /\ Planned = Slots => Planned' = Slots
           /\ Missing \subseteq Missing' /\ Completed \subseteq Completed'
<1>1. \A s \in Slots : (Passed(s) => Passed(s)') /\ \A type : Has(s, type) => Has(s, type)'
  <2>1. CASE events' = events
    BY <2>1, Unlogged
  <2>2. ASSUME NEW p \in Procs, NEW written, pc[p] = "described", Plan(written)
        PROVE  \A s \in Slots : ~ Passed(s) /\ \A type : ~ Has(s, type)
    BY <2>2, PlannedOnce DEF Blank, Has, Passed
  <2>3. ASSUME NEW p \in Procs, NEW event \in Events, NextSlot(p) \in left[p], Append1(NextSlot(p), event)
        PROVE  \A s \in Slots : (Passed(s) => Passed(s)') /\ \A type : Has(s, type) => Has(s, type)'
    <3>1. NextSlot(p) \in Slots
      BY <2>3 DEF CleanroomTypeOK
    <3>2. \A s \in Slots : \A type : Has(s, type) => Has(s, type)'
      BY <2>3, <3>1, HasAfter DEF CleanroomTypeOK
    <3>3. \A s \in Slots : \A i \in DOMAIN events[s] : i \in DOMAIN events'[s] /\ events'[s][i] = events[s][i]
      BY <2>3, <3>1, LogAfter DEF CleanroomTypeOK, LogTypeOK
    <3>4. QED
      BY <3>2, <3>3 DEF Passed
  <2>4. QED
    BY <2>1, <2>2, <2>3, LogStep
<1>2. ASSUME NEW s \in Slots PROVE Resolved(s) => Resolved(s)'
  BY <1>1, Zenon DEF Resolved
<1>3. (Planned = Slots => Planned' = Slots) /\ Missing \subseteq Missing' /\ Completed \subseteq Completed'
  BY <1>1 DEF Planned, Missing, Completed, Has
<1>4. QED
  BY <1>1, <1>2, <1>3

\* While the planner has slots left, nobody else has.
LEMMA NoOther ==
    ASSUME CleanroomTypeOK, HasSlot, Ownership, Progress,
           NEW p \in Procs, Working(p), NextSlot(p) \in left[p],
           NEW q \in Procs, q # p, Working(q), mode[q] = "live"
    PROVE  left[q] = {}
<1>1. mode[p] = "resume"
  BY DEF Ownership, CleanroomTypeOK, Modes
<1>2. \A s \in Slots : Resolved(s)
  BY <1>1 DEF Progress, ProgressOf
<1>3. ASSUME NEW s \in left[q] PROVE FALSE
  <2>1. s \in Slots /\ NextSlot(q) \in Slots
    BY <1>3, FirstIn DEF CleanroomTypeOK, NextSlot
  <2>2. events[s] = << Mark("planned") >> => ~ Resolved(s)
    BY EventKinds DEF Resolved, Has
  <2>3. QED
    BY <1>2, <1>3, <2>1, <2>2 DEF Progress, ProgressOf
<1>4. QED
  BY <1>3

\* A process keeps its place while another one steps.
LEMMA OtherProgress ==
    ASSUME CleanroomTypeOK, HasSlot, Ownership, Progress, [Next]_vars,
           NEW q \in Procs, UNCHANGED << pc[q], mode[q], left[q] >>,
           Working(q) /\ mode[q] = "live" => \A s \in left[q] : events'[s] = events[s]
    PROVE  ProgressOf(q)'
<1>1. (Working(q)' <=> Working(q)) /\ (Trying(q)' <=> Trying(q)) /\ NextSlot(q)' = NextSlot(q)
  BY DEF Working, Trying, NextSlot
<1>2. Trying(q) => NextSlot(q) \in left[q] /\ NextSlot(q) \in Slots
  BY FirstIn DEF NextSlot, CleanroomTypeOK, HasSlot
<1>3. Trying(q) /\ mode[q] = "live" => (Resolved(NextSlot(q))' <=> Resolved(NextSlot(q)))
  BY <1>1, <1>2 DEF Resolved, Has, Working, Trying
<1>4. left[q] \subseteq Slots
  BY DEF CleanroomTypeOK
<1>5. QED
  BY <1>1, <1>2, <1>3, <1>4, LogGrows DEF Progress, ProgressOf

\* The log right after its plan.
LEMMA PlannedLog ==
    ASSUME NEW written, Plan(written), NEW s \in Slots
    PROVE  /\ events'[s] \in {<< >>, << Mark("planned") >>}
           /\ s \in written => events'[s] = << Mark("planned") >> /\ Has(s, "planned")'
           /\ ~ Has(s, "missing")' /\ ~ Has(s, "completed")'
<1>1. events'[s] = IF s \in written THEN << Mark("planned") >> ELSE << >>
  BY DEF Plan
<1>2. events'[s] \in {<< >>, << Mark("planned") >>}
  BY <1>1
<1>3. QED
  BY <1>1, <1>2, EventKinds DEF Has

\* A slot is completed after a loss only by an attempt that was marked as resumed.
LEMMA RetriesMarkedStep ==
    ASSUME CleanroomTypeOK, HasSlot, Ownership, Progress, [Next]_vars
    PROVE  RetriesMarked'
<1>1. CASE events' = events
  BY <1>1, Unlogged DEF Progress, RetriesMarked
<1>2. ASSUME NEW written, Plan(written) PROVE RetriesMarked'
  BY <1>2, PlannedLog DEF RetriesMarked, Missing
<1>3. ASSUME NEW p \in Procs, NEW event \in Events, Working(p), NextSlot(p) \in left[p], Writes(p, event),
             Append1(NextSlot(p), event), NEW s \in Slots, Has(s, "missing")', Has(s, "completed")'
      PROVE  Has(s, "resumed")'
  <2>1. NextSlot(p) \in Slots /\ mode[p] \in {"live", "resume"}
    BY <1>3 DEF CleanroomTypeOK, Ownership, Modes
  <2>2. CASE Has(s, "missing") /\ Has(s, "completed")
    <3>1. Has(s, "resumed")
      BY <2>2 DEF Progress, RetriesMarked, Missing, Completed, Resumed
    <3>2. QED
      BY <3>1, LogGrows
  <2>3. CASE ~ (Has(s, "missing") /\ Has(s, "completed"))
    <3>1. s = NextSlot(p) /\ (Has(s, "missing") \/ Has(s, "completed"))
      BY <1>3, <2>1, <2>3, HasAfter DEF CleanroomTypeOK
    <3>2. CASE Trying(p)
      <4>1. mode[p] = "resume"
        BY <1>3, <2>1, <3>1, <3>2 DEF Progress, ProgressOf, Resolved
      <4>2. Has(s, "resumed")
        BY <1>3, <3>1, <3>2, <4>1 DEF Progress, ProgressOf
      <4>3. QED
        BY <4>2, LogGrows
    <3>3. CASE ~ Trying(p)
      <4>1. event.type \in {"missing", "started", "resumed"} /\ ~ Has(s, "completed")' = ~ Has(s, "completed")
        BY <1>3, <2>1, <3>1, <3>3, HasAfter, EventKinds DEF Writes, Trying, CleanroomTypeOK
      <4>2. Has(s, "completed") /\ ~ Has(s, "missing")
        BY <1>3, <2>3, <4>1
      <4>3. CASE mode[p] = "live"
        <5>1. events[s] = << Mark("planned") >>
          BY <1>3, <3>1, <3>3, <4>3 DEF Progress, ProgressOf
        <5>2. QED
          BY <4>2, <5>1, EventKinds DEF Has
      <4>4. CASE mode[p] = "resume"
        BY <1>3, <3>1, <4>2, <4>4 DEF Progress, ProgressOf, Missing
      <4>5. QED
        BY <2>1, <4>3, <4>4
    <3>4. QED
      BY <3>2, <3>3
  <2>4. QED
    BY <2>2, <2>3
<1>4. QED
  <2>1. ASSUME NEW p \in Procs, NEW event \in Events, Working(p), NextSlot(p) \in left[p], Writes(p, event),
               Append1(NextSlot(p), event)
        PROVE  RetriesMarked'
    BY <1>3, <2>1 DEF RetriesMarked, Missing, Completed, Resumed
  <2>2. QED
    BY <1>1, <1>2, <2>1, LogStep

\* What a process has behind it after it closed a slot with a loss or a completion.
LEMMA ClosedProgress ==
    ASSUME CleanroomTypeOK, HasSlot, Ownership, Progress, [Next]_vars,
           NEW p \in Procs, Working(p), left[p] # {}, NEW event \in Events,
           event.type \in {"missing", "completed"}, Append1(NextSlot(p), event),
           left'[p] = left[p] \ {NextSlot(p)}, mode'[p] = mode[p], ~ Trying(p)'
    PROVE  ProgressOf(p)'
<1>1. PICK s0 \in left[p] : s0 = NextSlot(p)
  BY FirstIn DEF NextSlot, CleanroomTypeOK
<1>2. s0 \in Slots /\ left[p] \subseteq Slots /\ Resolved(s0)'
  <2>1. s0 \in Slots /\ left[p] \subseteq Slots
    BY DEF CleanroomTypeOK
  <2>2. QED
    BY <1>1, <2>1, HasAfter DEF Resolved, CleanroomTypeOK
<1>3. \A s \in left'[p] : events'[s] = events[s]
  BY <1>1, <1>2, LogAfter DEF CleanroomTypeOK
<1>4. \A s \in Slots : Resolved(s) => Resolved(s)'
  BY LogGrows
<1>5. Planned' = Slots
  BY LogGrows DEF Progress, ProgressOf
<1>6. mode[p] = "live" => /\ \A s \in Slots \ left'[p] : Resolved(s)'
                          /\ \A s \in left'[p] : events'[s] = << Mark("planned") >>
  BY <1>1, <1>2, <1>3, <1>4 DEF Progress, ProgressOf
<1>7. mode[p] = "resume" => (\A s \in Slots : Resolved(s)') /\ left'[p] \subseteq Missing'
  BY <1>4, LogGrows DEF Progress, ProgressOf
<1>8. QED
  BY <1>5, <1>6, <1>7 DEF ProgressOf

\* ... and while it runs one.
LEMMA OwnProgress ==
    ASSUME CleanroomTypeOK, HasSlot, Ownership, Progress, [Next]_vars, NEW p \in Procs,
           LoseToPreflight(p) \/ Begin(p) \/ RunCodex(p) \/ RecordSlot(p)
    PROVE  ProgressOf(p)'
<1>1. CASE ~ Working(p)'
  BY <1>1 DEF ProgressOf, Working, Trying
<1>2. CASE LoseToPreflight(p) /\ Working(p)'
  <2>1. Working(p) /\ ~ Trying(p)' /\ UNCHANGED mode /\ left[p] # {} /\ Append1(NextSlot(p), Mark("missing"))
        /\ left'[p] = left[p] \ {NextSlot(p)}
    BY <1>2 DEF LoseToPreflight, Leave, Goto, Working, Trying, CleanroomTypeOK
  <2>2. QED
    BY <2>1, ClosedProgress, EventKinds
<1>3. ASSUME NEW event \in Events, event.type \in {"missing", "completed"}, Trying(p), Close(p, event), UNCHANGED mode
      PROVE  ProgressOf(p)'
  <2>1. Working(p) /\ ~ Trying(p)' /\ left[p] # {} /\ Append1(NextSlot(p), event)
        /\ left'[p] = left[p] \ {NextSlot(p)}
    BY <1>3 DEF Close, Goto, Working, Trying, HasSlot, CleanroomTypeOK
  <2>2. QED
    BY <1>3, <2>1, ClosedProgress
<1>4. CASE RunCodex(p)
  <2>1. Trying(p) /\ UNCHANGED mode
    BY <1>4 DEF RunCodex, Trying
  <2>2. CASE LoseSlot(p)
    BY <1>3, <2>1, <2>2, EventKinds DEF LoseSlot
  <2>3. CASE Goto(p, "grading") /\ UNCHANGED << left, events >>
    <3>1. Working(p) /\ Trying(p)' /\ NextSlot(p)' = NextSlot(p)
      BY <2>1, <2>3 DEF Goto, Working, Trying, NextSlot, CleanroomTypeOK
    <3>2. \A s : (Resolved(s)' <=> Resolved(s)) /\ (Has(s, "resumed")' <=> Has(s, "resumed"))
      BY <2>3, Unlogged
    <3>3. Resolved(NextSlot(p))' <=> Resolved(NextSlot(p))
      BY <2>3, <3>1, Unlogged DEF Resolved, Has
    <3>4. Has(NextSlot(p), "resumed")' <=> Has(NextSlot(p), "resumed")
      BY <2>3, <3>1 DEF Has
    <3>5. QED
      BY <2>1, <2>3, <3>1, <3>2, <3>3, <3>4, Unlogged DEF Progress, ProgressOf
  <2>4. QED
    BY <1>4, <2>2, <2>3 DEF RunCodex
<1>5. CASE RecordSlot(p)
  <2>1. Trying(p) /\ UNCHANGED mode
    BY <1>5 DEF RecordSlot, Trying
  <2>2. CASE LoseSlot(p)
    BY <1>3, <2>1, <2>2, EventKinds DEF LoseSlot
  <2>3. ASSUME NEW cost \in Costs, Close(p, Completion(grading[p] = "passed", cost)) PROVE ProgressOf(p)'
    <3>1. (grading[p] = "passed") \in BOOLEAN
      OBVIOUS
    <3>2. QED
      BY <1>3, <2>1, <2>3, <3>1, EventKinds
  <2>4. CASE Leave(p, "raised")
    BY <1>1, <2>4 DEF Leave, Goto, Working, CleanroomTypeOK
  <2>5. QED
    BY <1>5, <2>2, <2>3, <2>4 DEF RecordSlot
<1>6. CASE Begin(p)
  <2> DEFINE s0 == NextSlot(p)
  <2>1. /\ pc[p] = "slots" /\ left[p] # {} /\ pc'[p] = "codex" /\ UNCHANGED << mode, left >>
        /\ Append1(s0, Mark(IF mode[p] = "resume" THEN "resumed" ELSE "started"))
    BY <1>6 DEF Begin, Goto, CleanroomTypeOK
  <2>2. s0 \in left[p] /\ s0 \in Slots /\ left[p] \subseteq Slots /\ NextSlot(p)' = s0
    BY <2>1, FirstIn DEF NextSlot, CleanroomTypeOK
  <2>3. Working(p) /\ ~ Trying(p) /\ Trying(p)'
    BY <2>1 DEF Working, Trying
  <2>4. CASE mode[p] = "live"
    <3>1. events[s0] = << Mark("planned") >> /\ Append1(s0, Mark("started"))
      BY <2>1, <2>2, <2>3, <2>4 DEF Progress, ProgressOf
    <3>2. ~ Has(s0, "missing") /\ ~ Has(s0, "completed")
      BY <3>1, EventKinds DEF Has
    <3>3. ~ Has(s0, "missing")' /\ ~ Has(s0, "completed")'
      BY <2>2, <3>1, <3>2, HasAfter, EventKinds DEF CleanroomTypeOK
    <3>4. ~ Resolved(NextSlot(p))'
      BY <2>2, <3>3 DEF Resolved, Has
    <3>5. \A s \in left[p] : s # s0 => events'[s] = << Mark("planned") >>
      BY <2>2, <2>3, <2>4, <3>1, LogAfter, EventKinds DEF Progress, ProgressOf, CleanroomTypeOK
    <3>6. QED
      BY <2>1, <2>2, <2>3, <2>4, <3>4, <3>5, LogGrows DEF Progress, ProgressOf
  <2>5. CASE mode[p] = "resume"
    <3>1. Append1(s0, Mark("resumed"))
      BY <2>1, <2>5
    <3>2. Has(s0, "resumed")'
      BY <2>2, <3>1, HasAfter, EventKinds DEF CleanroomTypeOK
    <3>3. Has(NextSlot(p), "resumed")'
      BY <2>2, <3>2 DEF Has
    <3>4. QED
      BY <2>1, <2>3, <2>5, <3>3, LogGrows DEF Progress, ProgressOf
  <2>6. QED
    BY <2>1, <2>3, <2>4, <2>5 DEF Ownership, CleanroomTypeOK, Modes
<1>7. QED
  BY <1>1, <1>2, <1>4, <1>5, <1>6

LEMMA ProgressStep ==
    ASSUME CleanroomTypeOK, HasSlot, Ownership, Progress, [Next]_vars PROVE Progress'
<1> SUFFICES ASSUME NEW q \in Procs PROVE ProgressOf(q)'
  BY RetriesMarkedStep DEF Progress
<1>1. CASE events' = events /\ UNCHANGED << pc[q], mode[q], left[q] >>
  BY <1>1, OtherProgress
<1>2. CASE ~ Working(q)'
  BY <1>2 DEF ProgressOf, Working, Trying
<1>3. ASSUME NEW p \in Procs, Step(p) PROVE ProgressOf(q)'
  <2>1. CASE BuildIdentity(p) \/ BuildHomes(p) \/ DiscardHomes(p) \/ MakeDirectory(p) \/ WriteRunFile(p)
             \/ FinishSlots(p) \/ GradeSlot(p) \/ RemoveHomes(p)
    <3>1. events' = events
      BY <2>1 DEF BuildIdentity, BuildHomes, DiscardHomes, MakeDirectory, WriteRunFile, FinishSlots, GradeSlot,
                  RemoveHomes
    <3>2. UNCHANGED << pc[q], mode[q], left[q] >> \/ ~ Working(q)'
      BY <2>1 DEF BuildIdentity, BuildHomes, DiscardHomes, MakeDirectory, WriteRunFile, FinishSlots, GradeSlot,
                  RemoveHomes, process, Exit, Goto, Leave, Working, CleanroomTypeOK
    <3>3. QED
      BY <1>1, <1>2, <3>1, <3>2
  <2>2. CASE ValidateResume(p)
    <3>1. CASE q = p /\ Working(q)'
      <4>1. /\ ResumeAccepted(identity[p]) /\ events' = events
            /\ left'[p] = Unresolved /\ pc'[p] = "preflight" /\ mode'[p] = "resume"
        BY <2>2, <3>1 DEF ValidateResume, Goto, Leave, Working, CleanroomTypeOK
      <4>2. Planned' = Slots /\ left'[p] \subseteq Missing'
        BY <4>1, Unlogged DEF ResumeAccepted, Unresolved
      <4>3. \A s \in Slots : Resolved(s)
        BY <4>1 DEF ResumeAccepted, Completed, Missing, Resolved
      <4>4. \A s \in Slots : Resolved(s)'
        BY <4>1, <4>3, Unlogged
      <4>5. QED
        BY <3>1, <4>1, <4>2, <4>4 DEF ProgressOf, Trying
    <3>2. CASE q # p
      BY <1>1, <2>2, <3>2 DEF ValidateResume, Goto, Leave, CleanroomTypeOK
    <3>3. QED
      BY <1>2, <3>1, <3>2
  <2>3. CASE Preflight(p)
    <3>1. CASE q = p
      <4>1. Working(q) /\ ~ Trying(q) /\ ~ Trying(q)' /\ events' = events /\ UNCHANGED << mode, left >>
        BY <2>3, <3>1 DEF Preflight, Goto, Working, Trying, CleanroomTypeOK
      <4>2. \A s : (Resolved(s)' <=> Resolved(s))
        BY <4>1, Unlogged
      <4>3. QED
        BY <4>1, <4>2, Unlogged DEF Progress, ProgressOf
    <3>2. CASE q # p
      BY <1>1, <2>3, <3>2 DEF Preflight, Goto, CleanroomTypeOK
    <3>3. QED
      BY <3>1, <3>2
  <2>4. CASE WritePlan(p)
    <3>1. root = p /\ mode[p] # "resume"
      BY <2>4 DEF WritePlan, Ownership, AtPlan
    <3>2. CASE q = p /\ Working(q)'
      <4>1. left'[p] = Slots /\ pc'[p] = "preflight" /\ mode'[p] = mode[p] /\ Plan(Slots)
        BY <2>4, <3>2 DEF WritePlan, Goto, Leave, Working, CleanroomTypeOK
      <4>2. \A s \in Slots : events'[s] = << Mark("planned") >> /\ Has(s, "planned")'
        BY <4>1, PlannedLog
      <4>3. Planned' = Slots
        BY <4>2 DEF Planned
      <4>4. QED
        BY <3>1, <3>2, <4>1, <4>2, <4>3 DEF ProgressOf, Trying
    <3>3. CASE q # p /\ Working(q)'
      <4>1. Working(q) /\ UNCHANGED << pc[q], mode[q], left[q] >>
        BY <2>4, <3>3 DEF WritePlan, Goto, Leave, Working, CleanroomTypeOK
      <4>2. mode[q] # "live"
        BY <3>1, <3>3, <4>1 DEF Ownership
      <4>3. QED
        BY <4>1, <4>2, OtherProgress
    <3>4. QED
      BY <1>2, <3>2, <3>3
  <2>5. CASE LoseToPreflight(p) \/ Begin(p) \/ RunCodex(p) \/ RecordSlot(p)
    <3>1. Working(p) /\ UNCHANGED mode /\ (q # p => UNCHANGED << pc[q], left[q] >>)
      BY <2>5 DEF LoseToPreflight, Begin, RunCodex, RecordSlot, LoseSlot, Close, Goto, Leave, Working, CleanroomTypeOK
    <3>2. events' = events \/ (left[p] # {} /\ \E event : Append1(NextSlot(p), event))
      BY <2>5 DEF LoseToPreflight, Begin, RunCodex, RecordSlot, LoseSlot, Close, HasSlot, Trying
    <3>3. CASE q # p
      <4>1. CASE left[p] # {} /\ \E event : Append1(NextSlot(p), event)
        <5>1. Working(q) /\ mode[q] = "live" => left[q] = {}
          BY <3>1, <3>3, <4>1, FirstIn, NoOther DEF NextSlot, CleanroomTypeOK
        <5>2. QED
          BY <3>1, <3>3, <5>1, OtherProgress
      <4>2. QED
        BY <1>1, <3>1, <3>2, <3>3, <4>1
    <3>4. CASE q = p
      BY <2>5, <3>4, OwnProgress
    <3>5. QED
      BY <3>3, <3>4
  <2>6. QED
    BY <1>3, <2>1, <2>2, <2>3, <2>4, <2>5 DEF Step
<1>4. ASSUME NEW p \in Procs, NEW how \in Modes, Invoke(p, how) \/ Interrupt(p) PROVE ProgressOf(q)'
  <2>1. events' = events
    BY <1>4 DEF Invoke, Interrupt
  <2>2. UNCHANGED << pc[q], mode[q], left[q] >> \/ ~ Working(q)'
    BY <1>4 DEF Invoke, Interrupt, Goto, Leave, Working, CleanroomTypeOK
  <2>3. QED
    BY <1>1, <1>2, <2>1, <2>2
<1>5. ASSUME NEW p \in Procs, Kill(p) PROVE ProgressOf(q)'
  <2>1. UNCHANGED << pc[q], mode[q], left[q] >> \/ ~ Working(q)'
    BY <1>5 DEF Kill, Exit, Goto, Working, CleanroomTypeOK
  <2>2. CASE events' = events
    BY <1>1, <1>2, <2>1, <2>2
  <2>3. CASE pc[p] = "described" /\ Working(q)'
    <3>1. root = p /\ Working(q) /\ q # p /\ UNCHANGED << pc[q], mode[q], left[q] >>
      BY <1>5, <2>1, <2>3 DEF Ownership, AtPlan, Kill, Exit, Goto, Working, CleanroomTypeOK
    <3>2. mode[q] # "live"
      BY <3>1 DEF Ownership
    <3>3. QED
      BY <3>1, <3>2, OtherProgress
  <2>4. QED
    BY <1>2, <1>5, <2>2, <2>3 DEF Kill
<1>6. CASE ContainerEnds \/ UNCHANGED vars
  BY <1>1, <1>6 DEF ContainerEnds, process, vars
<1>7. QED
  BY <1>3, <1>4, <1>5, <1>6 DEF Next, Modes
-----------------------------------------------------------------------------
(* Attempts that are open *)

\* A step of one process leaves the others where they are.
LEMMA OthersKeep ==
    ASSUME CleanroomTypeOK, NEW p \in Procs, NEW q \in Procs, q # p,
           Step(p) \/ Interrupt(p) \/ Kill(p) \/ \E how \in Modes : Invoke(p, how)
    PROVE  UNCHANGED << pc[q], mode[q], left[q], result[q], temp[q], attempt[q], grading[q] >>
<1> USE DEF CleanroomTypeOK, GraderTypeOK
<1>1. CASE BuildIdentity(p) \/ BuildHomes(p) \/ DiscardHomes(p) \/ MakeDirectory(p) \/ WriteRunFile(p)
           \/ WritePlan(p) \/ ValidateResume(p) \/ Preflight(p) \/ FinishSlots(p) \/ RemoveHomes(p)
  BY <1>1 DEF BuildIdentity, BuildHomes, DiscardHomes, MakeDirectory, WriteRunFile, WritePlan, ValidateResume,
              Preflight, FinishSlots, RemoveHomes, Exit, Goto, Leave, End, graders
<1>2. CASE LoseToPreflight(p) \/ Begin(p) \/ RunCodex(p) \/ RecordSlot(p)
  BY <1>2 DEF LoseToPreflight, Begin, RunCodex, RecordSlot, LoseSlot, Close, Goto, Leave, End, graders
<1>3. CASE GradeSlot(p)
  BY <1>3, GradingType DEF GradeSlot, process
<1>4. CASE Interrupt(p)
  BY <1>4 DEF Interrupt, Goto, Leave, End, graders
<1>5. CASE Kill(p)
  BY <1>5 DEF Kill, Exit, Goto, End
<1>6. ASSUME NEW how \in Modes, Invoke(p, how)
      PROVE  UNCHANGED << pc[q], mode[q], left[q], result[q], temp[q], attempt[q], grading[q] >>
  BY <1>6 DEF Invoke, Goto
<1>7. QED
  BY <1>1, <1>2, <1>3, <1>4, <1>5, <1>6 DEF Step

\* Which process a step is of.
LEMMA StepOf ==
    ASSUME [Next]_vars
    PROVE  \/ \E p \in Procs : Step(p) \/ Interrupt(p) \/ Kill(p) \/ \E how \in Modes : Invoke(p, how)
           \/ UNCHANGED << process, root, invoked, kills, runFile, events, attempt, grading >>
BY DEF Next, ContainerEnds, LateExit, vars, process

\* No attempt is open twice, and none is forgotten while its process is at it.
LEMMA OpenStep ==
    ASSUME CleanroomTypeOK, HasSlot, Ownership, Progress, OpenAttempts, [Next]_vars
    PROVE  OpenAttempts'
<1> SUFFICES ASSUME NEW s \in Slots
             PROVE  Count(s, {"started", "resumed"})' >= Count(s, {"completed"})' + Cardinality(AtSlot(s)')
  BY DEF OpenAttempts
<1> DEFINE Opened == Count(s, {"started", "resumed"})
           Done == Count(s, {"completed"})
<1>1. /\ Opened >= Done + Cardinality(AtSlot(s))
      /\ IsFiniteSet(AtSlot(s)) /\ Cardinality(AtSlot(s)) \in Nat
  <2>1. AtSlot(s) \in SUBSET Procs
    BY DEF AtSlot
  <2>2. QED
    BY <2>1, FS_Subset, FS_CardinalityType, CleanroomAssumption DEF OpenAttempts
<1>2. Opened \in Nat /\ Done \in Nat
  <2>1. IsFiniteSet(DOMAIN events[s])
    BY FS_Interval DEF CleanroomTypeOK, LogTypeOK
  <2>2. QED
    BY <2>1, FS_Subset, FS_CardinalityType DEF Count
<1> HIDE DEF Opened, Done
<1>3. CASE Opened' - Done' >= Opened - Done /\ Opened' \in Nat /\ Done' \in Nat /\ AtSlot(s)' \subseteq AtSlot(s)
  <2>1. Cardinality(AtSlot(s)') <= Cardinality(AtSlot(s)) /\ Cardinality(AtSlot(s)') \in Nat
    BY <1>1, <1>3, FS_Subset, FS_CardinalityType
  <2>2. QED
    BY <1>1, <1>2, <1>3, <2>1 DEF Opened, Done
<1>4. events' = events => Opened' = Opened /\ Done' = Done
  BY DEF Opened, Done, Count
<1>5. ASSUME UNCHANGED << pc, left >> PROVE AtSlot(s)' = AtSlot(s)
  BY <1>5 DEF AtSlot, Trying, NextSlot
<1>6. ASSUME NEW p \in Procs, ~ Trying(p)',
             Step(p) \/ Interrupt(p) \/ Kill(p) \/ \E how \in Modes : Invoke(p, how)
      PROVE  AtSlot(s)' \subseteq AtSlot(s) \ {p}
  BY <1>6, OthersKeep DEF AtSlot, Trying, NextSlot
<1>7. ASSUME NEW p \in Procs, Begin(p)
      PROVE  Opened' >= Done' + Cardinality(AtSlot(s)')
  <2>1. PICK s0 \in left[p] : s0 = NextSlot(p)
    BY <1>7, FirstIn DEF Begin, NextSlot, CleanroomTypeOK
  <2>2. s0 \in Slots /\ NextSlot(p)' = s0 /\ Trying(p)' /\ ~ Trying(p)
    BY <1>7, <2>1 DEF Begin, NextSlot, CleanroomTypeOK, Goto, Trying
  <2>3. AtSlot(s)' = IF s = s0 THEN AtSlot(s) \cup {p} ELSE AtSlot(s)
    BY <1>7, <2>2, OthersKeep DEF Step, AtSlot, Trying, NextSlot
  <2>4. p \notin AtSlot(s)
    BY <2>2 DEF AtSlot
  <2>5. PICK event \in Events : event.type \in {"started", "resumed"} /\ Append1(s0, event)
    BY <1>7, <2>1, EventKinds DEF Begin
  <2>6. CASE s = s0
    <3>1. Opened' = Opened + 1 /\ Done' = Done
      BY <1>2, <2>2, <2>5, <2>6, CountAfter DEF Opened, Done, CleanroomTypeOK
    <3>2. Cardinality(AtSlot(s)') = Cardinality(AtSlot(s)) + 1
      BY <1>1, <2>3, <2>4, <2>6, FS_AddElement
    <3>3. QED
      BY <1>1, <1>2, <3>1, <3>2
  <2>7. CASE s # s0
    <3>1. Opened' = Opened /\ Done' = Done
      BY <2>2, <2>5, <2>7, CountAfter DEF Opened, Done, CleanroomTypeOK
    <3>2. QED
      BY <1>1, <2>3, <2>7, <3>1
  <2>8. QED
    BY <2>6, <2>7
<1>8. ASSUME NEW p \in Procs, Step(p), Trying(p), ~ Trying(p)', NEW event \in Events,
             event.type \in {"missing", "completed"}, Append1(NextSlot(p), event)
      PROVE  Opened' >= Done' + Cardinality(AtSlot(s)')
  <2>1. PICK s0 \in left[p] : s0 = NextSlot(p)
    BY <1>8, FirstIn DEF HasSlot, NextSlot, CleanroomTypeOK
  <2>2. s0 \in Slots /\ Append1(s0, event)
    BY <1>8, <2>1 DEF CleanroomTypeOK
  <2>3. AtSlot(s)' \subseteq AtSlot(s) \ {p}
    BY <1>6, <1>8
  <2>4. CASE s = s0
    <3>1. p \in AtSlot(s)
      BY <1>8, <2>1, <2>4 DEF AtSlot
    <3>2. IsFiniteSet(AtSlot(s) \ {p}) /\ Cardinality(AtSlot(s) \ {p}) = Cardinality(AtSlot(s)) - 1
      BY <1>1, <3>1, FS_RemoveElement
    <3>3. Cardinality(AtSlot(s)') <= Cardinality(AtSlot(s)) - 1 /\ Cardinality(AtSlot(s)') \in Nat
      BY <2>3, <3>2, FS_Subset, FS_CardinalityType
    <3>4. Opened' = Opened /\ Done' <= Done + 1 /\ Done' \in Nat
      BY <1>2, <1>8, <2>2, <2>4, CountAfter DEF Opened, Done, CleanroomTypeOK
    <3>5. QED
      BY <1>1, <1>2, <3>3, <3>4
  <2>5. CASE s # s0
    <3>1. Opened' = Opened /\ Done' = Done
      BY <2>2, <2>5, CountAfter DEF Opened, Done, CleanroomTypeOK
    <3>2. QED
      BY <1>2, <1>3, <2>3, <3>1 DEF Opened, Done
  <2>6. QED
    BY <2>4, <2>5
<1>9. ASSUME NEW p \in Procs, Kill(p) \/ WritePlan(p), NEW written, Plan(written), pc[p] = "described"
      PROVE  Opened' >= Done' + Cardinality(AtSlot(s)')
  <2>1. AtSlot(s) = {}
    <3>1. Blank /\ root = p
      BY <1>9, PlannedOnce
    <3>2. \A q \in Procs : Working(q) => left[q] = {}
      BY <1>9, <3>1, NothingLeft DEF AtPlan
    <3>3. QED
      BY <3>2 DEF AtSlot, HasSlot, Trying, Working
  <2>2. ~ Trying(p)'
    BY <1>9 DEF Kill, WritePlan, Exit, Goto, Leave, Trying, CleanroomTypeOK
  <2>3. AtSlot(s)' = {}
    BY <1>6, <1>9, <2>1, <2>2 DEF Step
  <2>4. Opened' \in Nat /\ Done' = 0
    <3>1. events'[s] \in {<< >>, << Mark("planned") >>}
      BY <1>9, PlannedLog
    <3>2. \A i \in DOMAIN events'[s] : events'[s][i].type = "planned"
      BY <3>1, EventKinds
    <3>3. /\ {i \in DOMAIN events'[s] : events'[s][i].type \in {"completed"}} = {}
          /\ {i \in DOMAIN events'[s] : events'[s][i].type \in {"started", "resumed"}} = {}
      BY <3>2
    <3>4. QED
      BY <3>3, FS_EmptySet DEF Opened, Done, Count
  <2>5. QED
    BY <2>3, <2>4, FS_EmptySet
<1>10. ASSUME NEW p \in Procs, LoseToPreflight(p) PROVE Opened' >= Done' + Cardinality(AtSlot(s)')
  <2>1. ~ Trying(p)'
    BY <1>10 DEF LoseToPreflight, Leave, Goto, Trying, CleanroomTypeOK
  <2>2. Opened' = Opened /\ Done' = Done
    <3>1. CASE left[p] = {}
      BY <1>4, <1>10, <3>1 DEF LoseToPreflight
    <3>2. CASE left[p] # {}
      <4>1. NextSlot(p) \in Slots /\ Append1(NextSlot(p), Mark("missing"))
        BY <1>10, <3>2, FirstIn DEF LoseToPreflight, NextSlot, CleanroomTypeOK
      <4>2. CASE s = NextSlot(p)
        <5>1. Append1(s, Mark("missing")) /\ Mark("missing") \in Events /\ Mark("missing").type = "missing"
          BY <4>1, <4>2, EventKinds
        <5>2. QED
          BY <1>2, <5>1, CountAfter DEF Opened, Done, CleanroomTypeOK
      <4>3. CASE s # NextSlot(p)
        BY <4>1, <4>3, LogAfter, EventKinds DEF Opened, Done, Count, CleanroomTypeOK
      <4>4. QED
        BY <4>2, <4>3
    <3>3. QED
      BY <3>1, <3>2
  <2>3. QED
    BY <1>2, <1>3, <1>6, <1>10, <2>1, <2>2 DEF Step, Opened, Done
<1>11. ASSUME NEW p \in Procs, events' = events, ~ Trying(p)',
              Step(p) \/ Interrupt(p) \/ Kill(p) \/ \E how \in Modes : Invoke(p, how)
       PROVE  Opened' >= Done' + Cardinality(AtSlot(s)')
  BY <1>2, <1>3, <1>4, <1>6, <1>11 DEF Opened, Done
<1>12. ASSUME NEW p \in Procs, Step(p) PROVE Opened' >= Done' + Cardinality(AtSlot(s)')
  <2>1. CASE BuildIdentity(p) \/ BuildHomes(p) \/ DiscardHomes(p) \/ MakeDirectory(p) \/ WriteRunFile(p)
             \/ ValidateResume(p) \/ Preflight(p) \/ FinishSlots(p) \/ RemoveHomes(p)
    <3>1. events' = events
      BY <2>1 DEF BuildIdentity, BuildHomes, DiscardHomes, MakeDirectory, WriteRunFile, ValidateResume,
                  Preflight, FinishSlots, RemoveHomes
    <3>2. ~ Trying(p)'
      BY <2>1 DEF BuildIdentity, BuildHomes, DiscardHomes, MakeDirectory, WriteRunFile, ValidateResume,
                  Preflight, FinishSlots, RemoveHomes, Exit, Goto, Leave, Trying, CleanroomTypeOK
    <3>3. QED
      BY <1>11, <1>12, <3>1, <3>2
  <2>2. CASE WritePlan(p)
    BY <1>9, <2>2 DEF WritePlan
  <2>3. CASE LoseToPreflight(p) \/ Begin(p)
    BY <1>7, <1>10, <2>3
  <2>4. CASE GradeSlot(p)
    BY <1>1, <1>4, <1>5, <2>4 DEF GradeSlot, process
  <2>5. ASSUME NEW event \in Events, event.type \in {"missing", "completed"}, Trying(p), Close(p, event)
        PROVE  Opened' >= Done' + Cardinality(AtSlot(s)')
    BY <1>8, <1>12, <2>5 DEF Close, Goto, Trying, CleanroomTypeOK
  <2>6. CASE RunCodex(p)
    <3>1. CASE LoseSlot(p)
      BY <2>5, <2>6, <3>1, EventKinds DEF RunCodex, LoseSlot, Trying
    <3>2. CASE Goto(p, "grading") /\ UNCHANGED << left, events >>
      <4>1. AtSlot(s)' = AtSlot(s)
        BY <2>6, <3>2 DEF RunCodex, Goto, AtSlot, Trying, NextSlot, CleanroomTypeOK
      <4>2. QED
        BY <1>1, <1>4, <3>2, <4>1
    <3>3. QED
      BY <2>6, <3>1, <3>2 DEF RunCodex
  <2>7. CASE RecordSlot(p)
    <3>1. CASE LoseSlot(p)
      BY <2>5, <2>7, <3>1, EventKinds DEF RecordSlot, LoseSlot, Trying
    <3>2. ASSUME NEW cost \in Costs, Close(p, Completion(grading[p] = "passed", cost))
          PROVE  Opened' >= Done' + Cardinality(AtSlot(s)')
      <4>1. (grading[p] = "passed") \in BOOLEAN
        OBVIOUS
      <4>2. QED
        BY <2>5, <2>7, <3>2, <4>1, EventKinds DEF RecordSlot, Trying
    <3>3. CASE Leave(p, "raised") /\ UNCHANGED events
      BY <1>11, <1>12, <3>3 DEF Leave, Goto, Trying, CleanroomTypeOK
    <3>4. QED
      BY <2>7, <3>1, <3>2, <3>3 DEF RecordSlot
  <2>8. QED
    BY <1>12, <2>1, <2>2, <2>3, <2>4, <2>6, <2>7 DEF Step
<1>13. ASSUME NEW p \in Procs, Kill(p) PROVE Opened' >= Done' + Cardinality(AtSlot(s)')
  <2>1. CASE events' = events
    BY <1>11, <1>13, <2>1 DEF Kill, Exit, Goto, Trying, CleanroomTypeOK
  <2>2. QED
    BY <1>9, <1>13, <2>1 DEF Kill
<1>14. ASSUME NEW p \in Procs, Interrupt(p) \/ \E how \in Modes : Invoke(p, how)
       PROVE  Opened' >= Done' + Cardinality(AtSlot(s)')
  BY <1>11, <1>14 DEF Interrupt, Invoke, Goto, Leave, Trying, CleanroomTypeOK
<1>15. QED
  BY <1>1, <1>4, <1>5, <1>12, <1>13, <1>14, StepOf DEF process, Opened, Done
-----------------------------------------------------------------------------
(* How a process ends *)

LEMMA DecidedStays ==
    ASSUME CleanroomTypeOK, HasSlot, Ownership, [Next]_vars, AllDecided PROVE AllDecided'
BY LogGrows DEF AllDecided

\* A process that went through its slots has decided them all.
LEMMA DecidedAtEnd ==
    ASSUME CleanroomTypeOK, Progress, NEW p \in Procs, Working(p), mode[p] = "live", left[p] = {}
    PROVE  AllDecided
BY DEF Progress, ProgressOf, AllDecided

\* The directory does not change hands: it is taken once and given up once.
LEMMA RootOthers ==
    ASSUME NEW p \in Procs, NEW q \in Procs, q # p, root' = q,
           Step(p) \/ Interrupt(p) \/ Kill(p) \/ \E how \in Modes : Invoke(p, how)
    PROVE  root = q
<1>1. CASE BuildIdentity(p) \/ DiscardHomes(p) \/ RemoveHomes(p) \/ Kill(p)
  BY <1>1, CleanroomAssumption DEF BuildIdentity, DiscardHomes, RemoveHomes, Kill, Exit
<1>2. CASE MakeDirectory(p)
  BY <1>2 DEF MakeDirectory
<1>3. CASE BuildHomes(p) \/ WriteRunFile(p) \/ WritePlan(p) \/ ValidateResume(p) \/ Preflight(p)
           \/ LoseToPreflight(p) \/ Begin(p) \/ RunCodex(p) \/ GradeSlot(p) \/ RecordSlot(p) \/ FinishSlots(p)
           \/ Interrupt(p) \/ \E how \in Modes : Invoke(p, how)
  BY <1>3 DEF BuildHomes, WriteRunFile, WritePlan, ValidateResume, Preflight, LoseToPreflight, Begin, RunCodex,
              GradeSlot, RecordSlot, FinishSlots, Interrupt, Invoke
<1>4. QED
  BY <1>1, <1>2, <1>3 DEF Step

\* A slot that is closed as passed has passed.
LEMMA PassedAfter ==
    ASSUME LogTypeOK, NEW s \in Slots, NEW cost \in Costs, Append1(s, Completion(TRUE, cost))
    PROVE  Passed(s)' /\ s \in Completed'
<1>1. Completion(TRUE, cost) \in Events /\ Completion(TRUE, cost).type = "completed"
      /\ Completion(TRUE, cost).passed = TRUE
  BY EventKinds
<1>2. Len(events[s]) + 1 \in DOMAIN events'[s] /\ events'[s][Len(events[s]) + 1] = Completion(TRUE, cost)
  BY <1>1, LogAfter
<1>3. QED
  BY <1>1, <1>2 DEF Passed, Completed, Has

LEMMA OutcomesStep ==
    ASSUME CleanroomTypeOK, HasSlot, Ownership, Progress, Outcomes, [Next]_vars
    PROVE  Outcomes'
<1> SUFFICES ASSUME NEW q \in Procs PROVE OutcomesOf(q)'
  BY DEF Outcomes
<1>1. ASSUME UNCHANGED << pc[q], mode[q], left[q], result[q] >>, root' = q => root = q PROVE OutcomesOf(q)'
  BY <1>1, LogGrows, DecidedStays DEF Outcomes, OutcomesOf, Working
<1>2. CASE UNCHANGED << process, root, invoked, kills, runFile, events, attempt, grading >>
  BY <1>1, <1>2 DEF process
<1>3. ASSUME NEW p \in Procs, Step(p) \/ Interrupt(p) \/ Kill(p) \/ \E how \in Modes : Invoke(p, how), p # q
      PROVE  OutcomesOf(q)'
  BY <1>1, <1>3, OthersKeep, RootOthers
<1>4. ASSUME Step(q) PROVE OutcomesOf(q)'
  <2>1. CASE BuildIdentity(q) \/ BuildHomes(q) \/ DiscardHomes(q) \/ MakeDirectory(q) \/ WriteRunFile(q)
             \/ RemoveHomes(q)
    BY <2>1 DEF BuildIdentity, BuildHomes, DiscardHomes, MakeDirectory, WriteRunFile, RemoveHomes, Exit, Goto, End,
                Leave, CleanroomTypeOK, Outcomes, OutcomesOf, Working
  <2>2. CASE WritePlan(q)
    BY <2>2 DEF WritePlan, Goto, End, Leave, CleanroomTypeOK, Outcomes, OutcomesOf, Working
  <2>3. CASE ValidateResume(q)
    <3>1. CASE ResumeAccepted(identity[q])
      <4>1. pc'[q] = "preflight" /\ mode'[q] = "resume" /\ left'[q] = Unresolved /\ result'[q] = "none"
            /\ events' = events
        BY <2>3, <3>1 DEF ValidateResume, Goto, CleanroomTypeOK, Outcomes, OutcomesOf
      <4>2. Slots \ Unresolved \subseteq Completed
        BY <3>1 DEF ResumeAccepted, Unresolved
      <4>3. QED
        BY <4>1, <4>2, Unlogged DEF OutcomesOf
    <3>2. CASE ~ ResumeAccepted(identity[q])
      BY <2>3, <3>2 DEF ValidateResume, Goto, End, Leave, CleanroomTypeOK, OutcomesOf, Working
    <3>3. QED
      BY <3>1, <3>2
  <2>4. CASE Preflight(q)
    <3>1. Working(q) /\ pc[q] = "preflight" /\ pc'[q] \in {"slots", "unmeasurable"} /\ UNCHANGED << mode, left, result >>
      BY <2>4 DEF Preflight, Goto, Working, CleanroomTypeOK
    <3>2. QED
      BY <3>1, LogGrows DEF Outcomes, OutcomesOf
  <2>5. CASE LoseToPreflight(q)
    <3>1. CASE left[q] = {}
      <4>1. Working(q) /\ pc'[q] = "leaving" /\ result'[q] = "failed" /\ UNCHANGED << mode, root >>
        BY <2>5, <3>1 DEF LoseToPreflight, Leave, Goto, End, Working, CleanroomTypeOK
      <4>2. QED
        BY <3>1, <4>1, DecidedAtEnd, DecidedStays DEF OutcomesOf, Working
    <3>2. CASE left[q] # {}
      BY <2>5, <3>2 DEF LoseToPreflight, Outcomes, OutcomesOf
    <3>3. QED
      BY <3>1, <3>2
  <2>6. CASE Begin(q)
    <3>1. Working(q) /\ pc[q] = "slots" /\ pc'[q] = "codex" /\ UNCHANGED << mode, left, result >>
      BY <2>6 DEF Begin, Goto, Working, CleanroomTypeOK
    <3>2. QED
      BY <3>1, LogGrows DEF Outcomes, OutcomesOf
  <2>7. CASE Trying(q) /\ LoseSlot(q)
    BY <2>7 DEF LoseSlot, Close, Goto, End, CleanroomTypeOK, OutcomesOf
  <2>8. CASE RunCodex(q)
    <3>1. CASE Goto(q, "grading") /\ UNCHANGED << left, result >>
      <4>1. Working(q) /\ pc[q] = "codex" /\ pc'[q] = "grading" /\ UNCHANGED << mode, left, result >>
        BY <2>8, <3>1 DEF RunCodex, Goto, Working, CleanroomTypeOK
      <4>2. QED
        BY <4>1, LogGrows DEF Outcomes, OutcomesOf
    <3>2. QED
      BY <2>7, <2>8, <3>1 DEF RunCodex, Trying
  <2>9. CASE GradeSlot(q)
    BY <1>1, <2>9 DEF GradeSlot, process
  <2>10. CASE RecordSlot(q)
    <3>1. pc[q] = "grading" /\ Working(q) /\ Trying(q) /\ UNCHANGED << mode, root >>
      BY <2>10 DEF RecordSlot, Working, Trying
    <3>2. ASSUME NEW cost \in Costs, Close(q, Completion(grading[q] = "passed", cost)),
                 grading[q] \in {"passed", "failed"},
                 IF grading[q] = "failed" THEN End(q, "failed") ELSE UNCHANGED result
          PROVE  OutcomesOf(q)'
      <4>1. PICK s0 \in left[q] : s0 = NextSlot(q)
        BY <3>1, FirstIn DEF HasSlot, NextSlot, CleanroomTypeOK
      <4>2. s0 \in Slots /\ pc'[q] = "slots" /\ left'[q] = left[q] \ {s0}
        BY <3>1, <3>2, <4>1 DEF Close, Goto, CleanroomTypeOK
      <4>3. CASE grading[q] = "failed"
        BY <3>2, <4>2, <4>3 DEF End, CleanroomTypeOK, OutcomesOf
      <4>4. CASE grading[q] = "passed"
        <5>1. Append1(s0, Completion(TRUE, cost)) /\ UNCHANGED result
          BY <3>2, <4>1, <4>4 DEF Close
        <5>2. Passed(s0)' /\ s0 \in Completed'
          BY <4>2, <5>1, PassedAfter DEF CleanroomTypeOK
        <5>3. QED
          BY <3>1, <4>2, <5>1, <5>2, LogGrows DEF Outcomes, OutcomesOf
      <4>5. QED
        BY <3>2, <4>3, <4>4
    <3>3. CASE Leave(q, "raised")
      BY <3>1, <3>3 DEF Leave, Goto, End, CleanroomTypeOK, OutcomesOf, Working
    <3>4. QED
      BY <2>7, <2>10, <3>1, <3>2, <3>3 DEF RecordSlot
  <2>11. CASE FinishSlots(q)
    <3>1. /\ Working(q) /\ pc[q] = "slots" /\ left[q] = {} /\ pc'[q] = "leaving" /\ events' = events
          /\ result'[q] = (IF result[q] = "failed" THEN "failed" ELSE "clean") /\ UNCHANGED << mode, root >>
      BY <2>11 DEF FinishSlots, Leave, Goto, End, Working, CleanroomTypeOK
    <3>2. result'[q] = "clean" => result[q] = "none"
      BY <3>1 DEF Outcomes, OutcomesOf
    <3>3. result'[q] = "clean" => Slots \subseteq Completed /\ (mode[q] = "live" => \A s \in Slots : Passed(s))
      BY <3>1, <3>2 DEF Outcomes, OutcomesOf
    <3>4. QED
      BY <3>1, <3>3, DecidedAtEnd, DecidedStays, LogGrows DEF OutcomesOf, Working
  <2>12. QED
    BY <1>4, <2>1, <2>2, <2>3, <2>4, <2>5, <2>6, <2>8, <2>9, <2>10, <2>11 DEF Step
<1>5. ASSUME Interrupt(q) \/ Kill(q) \/ \E how \in Modes : Invoke(q, how) PROVE OutcomesOf(q)'
  <2>1. CASE Interrupt(q)
    BY <2>1 DEF Interrupt, Goto, End, Leave, CleanroomTypeOK, Outcomes, OutcomesOf, Working
  <2>2. CASE Kill(q)
    BY <2>2 DEF Kill, Exit, Goto, End, CleanroomTypeOK, OutcomesOf, Working
  <2>3. ASSUME NEW how \in Modes, Invoke(q, how) PROVE OutcomesOf(q)'
    BY <2>3 DEF Invoke, Goto, Live, CleanroomTypeOK, Outcomes, OutcomesOf, Working
  <2>4. QED
    BY <1>5, <2>1, <2>2, <2>3
<1>6. QED
  BY <1>2, <1>3, <1>4, <1>5, StepOf

\* A run is finished only by the exit of a planner that decided every slot.
LEMMA FinishedStep ==
    ASSUME CleanroomTypeOK, HasSlot, Ownership, Progress, Outcomes, FinishedDecided, [Next]_vars
    PROVE  FinishedDecided'
<1>1. CASE root' = root
  BY <1>1, DecidedStays DEF FinishedDecided
<1>2. ASSUME NEW p \in Procs, NEW how, Exit(p, how), root' = "finished", root # "finished"
      PROVE  root = p /\ mode[p] = "live" /\ how \in {"clean", "failed"}
  BY <1>2 DEF Exit
<1>3. ASSUME NEW p \in Procs, Step(p) PROVE FinishedDecided'
  <2>1. CASE RemoveHomes(p)
    <3>1. CASE root' = "finished" /\ root # "finished"
      <4>1. pc[p] = "leaving" /\ root = p /\ mode[p] = "live" /\ result[p] \in {"clean", "failed"}
        BY <1>2, <2>1, <3>1 DEF RemoveHomes
      <4>2. QED
        BY <4>1, DecidedStays DEF FinishedDecided, Outcomes, OutcomesOf
    <3>2. QED
      BY <3>1, DecidedStays DEF FinishedDecided
  <2>2. CASE BuildIdentity(p) \/ DiscardHomes(p) \/ MakeDirectory(p)
    BY <1>1, <2>2, CleanroomAssumption DEF BuildIdentity, DiscardHomes, MakeDirectory, Exit, FinishedDecided
  <2>3. CASE BuildHomes(p) \/ WriteRunFile(p) \/ WritePlan(p) \/ ValidateResume(p) \/ Preflight(p)
             \/ LoseToPreflight(p) \/ Begin(p) \/ RunCodex(p) \/ GradeSlot(p) \/ RecordSlot(p) \/ FinishSlots(p)
    BY <1>1, <2>3 DEF BuildHomes, WriteRunFile, WritePlan, ValidateResume, Preflight, LoseToPreflight, Begin,
                      RunCodex, GradeSlot, RecordSlot, FinishSlots
  <2>4. QED
    BY <1>3, <2>1, <2>2, <2>3 DEF Step
<1>4. ASSUME NEW p \in Procs, Kill(p) PROVE FinishedDecided'
  BY <1>1, <1>4 DEF Kill, Exit, FinishedDecided
<1>5. ASSUME NEW p \in Procs, NEW how \in Modes, Interrupt(p) \/ Invoke(p, how) PROVE FinishedDecided'
  BY <1>1, <1>5 DEF Interrupt, Invoke
<1>6. QED
  BY <1>1, <1>3, <1>4, <1>5, StepOf DEF Modes
-----------------------------------------------------------------------------
(* What really happened *)

\* Only one metered turn parses as completed.
LEMMA ParsedTurn ==
    ASSUME NEW capture \in Captures \cup {TimedOut}, ParseCapture(capture) = "completed"
    PROVE  OneMeteredTurn(capture)
<1> DEFINE lines == capture.lines
           bad == Of(lines, {"garbled", "scalar", "untyped", "error"})
           first == CHOOSE i \in bad : \A j \in bad : i <= j
           terminal == Terminal(lines)
<1>1. lines \in Seq(LineKinds)
  <2>1. CASE capture = TimedOut
    BY <2>1 DEF TimedOut
  <2>2. CASE capture \in Captures
    <3>1. capture \in [code : {0, 1}, text : Texts, lines : Seq(LineKinds)]
      BY <2>2, CleanroomAssumption
    <3>2. QED
      BY <3>1
  <2>3. QED
    BY <2>1, <2>2
<1>2. /\ capture.code = 0
      /\ bad # {} => LineFailure(lines[first]) = "completed"
      /\ bad = {} => Cardinality(terminal) = 1 /\ ~ \E i \in terminal : lines[i] = "unmetered"
  <2>1. NonzeroKind(capture.text) # "completed"
    BY DEF NonzeroKind
  <2>2. QED
    BY <2>1 DEF ParseCapture
<1>3. bad = {}
  <2> SUFFICES ASSUME bad # {} PROVE FALSE
    OBVIOUS
  <2>1. bad \in SUBSET Nat
    BY <1>1 DEF Of
  <2>2. \E i \in bad : \A j \in bad : i <= j
    BY <2>1, LeastNat
  <2>3. first \in bad
    BY <2>2, Zenon
  <2>4. lines[first] \in {"garbled", "scalar", "untyped", "error"}
    BY <2>3 DEF Of
  <2>5. LineFailure(lines[first]) # "completed"
    BY <2>4 DEF LineFailure
  <2>6. QED
    BY <1>2, <2>5
<1>4. \A i \in DOMAIN lines : lines[i] \in {"completed", "other"}
  <2>1. ASSUME NEW i \in DOMAIN lines PROVE lines[i] \in {"completed", "other"}
    <3>1. lines[i] \in LineKinds
      BY <1>1
    <3>2. lines[i] \notin {"garbled", "scalar", "untyped", "error"}
      BY <1>3 DEF Of
    <3>3. lines[i] # "unmetered"
      BY <1>2, <1>3 DEF Terminal, Of
    <3>4. QED
      BY <3>1, <3>2, <3>3 DEF LineKinds
  <2>2. QED
    BY <2>1
<1>5. terminal = {i \in DOMAIN lines : lines[i] = "completed"}
  BY <1>4 DEF Terminal, Of
<1>6. QED
  BY <1>2, <1>3, <1>4, <1>5 DEF OneMeteredTurn

\* A verdict comes from a container that was running.
LEMMA GradingVerdict ==
    ASSUME grading \in [Procs -> Stages], NEW p \in Procs, NEW job, Grading(p, job)
    PROVE  grading'[p] \in {"passed", "failed"} => grading[p] = "running"
<1>1. CASE DockerMissing(p) \/ Launch(p, job) \/ StopsWaiting(p)
  BY <1>1 DEF DockerMissing, Launch, StopsWaiting
<1>2. CASE ForceRemove(p, job) \/ RemoveFails(p, job)
  BY <1>2 DEF ForceRemove, RemoveFails
<1>3. CASE \E code \in GraderCodes : ContainerExits(p, job, code)
  BY <1>3 DEF ContainerExits
<1>4. QED
  BY <1>1, <1>2, <1>3 DEF Grading

LEMMA AttemptsStep ==
    ASSUME CleanroomTypeOK, HasSlot, Attempts, [Next]_vars PROVE Attempts'
<1> SUFFICES ASSUME NEW q \in Procs PROVE AttemptsOf(q)'
  BY DEF Attempts
<1>1. CASE UNCHANGED << pc[q], attempt[q], grading[q] >>
  BY <1>1 DEF Attempts, AttemptsOf
<1>2. CASE UNCHANGED << process, root, invoked, kills, runFile, events, attempt, grading >>
  BY <1>1, <1>2 DEF process
<1>3. ASSUME NEW p \in Procs, Step(p) \/ Interrupt(p) \/ Kill(p) \/ \E how \in Modes : Invoke(p, how), p # q
      PROVE  AttemptsOf(q)'
  BY <1>1, <1>3, OthersKeep
<1>4. ASSUME Step(q) PROVE AttemptsOf(q)'
  <2>1. CASE BuildIdentity(q) \/ BuildHomes(q) \/ DiscardHomes(q) \/ MakeDirectory(q) \/ WriteRunFile(q)
             \/ WritePlan(q) \/ ValidateResume(q) \/ Preflight(q) \/ LoseToPreflight(q) \/ Begin(q)
             \/ FinishSlots(q) \/ RemoveHomes(q)
    BY <2>1 DEF BuildIdentity, BuildHomes, DiscardHomes, MakeDirectory, WriteRunFile, WritePlan, ValidateResume,
                Preflight, LoseToPreflight, Begin, FinishSlots, RemoveHomes, Exit, Goto, Leave, graders,
                CleanroomTypeOK, Attempts, AttemptsOf
  <2>2. CASE RunCodex(q)
    <3>1. grading' = grading /\ grading[q] = "idle"
      BY <2>2 DEF RunCodex, graders, Attempts, AttemptsOf
    <3>2. CASE LoseSlot(q)
      BY <3>1, <3>2 DEF LoseSlot, Close, Goto, CleanroomTypeOK, AttemptsOf
    <3>3. ASSUME NEW capture \in Captures \cup {TimedOut}, ParseCapture(capture) = "completed",
                 attempt' = [attempt EXCEPT ![q].turned = OneMeteredTurn(capture)]
          PROVE  AttemptsOf(q)'
      <4>1. OneMeteredTurn(capture)
        BY <3>3, ParsedTurn
      <4>2. attempt'[q].turned = OneMeteredTurn(capture)
        BY <3>3, Zenon DEF CleanroomTypeOK
      <4>3. QED
        BY <3>1, <4>1, <4>2 DEF AttemptsOf
    <3>4. QED
      BY <2>2, <3>2, <3>3 DEF RunCodex
  <2>3. CASE GradeSlot(q)
    <3>1. pc[q] = "grading" /\ pc' = pc /\ Grading(q, NextSlot(q))
          /\ attempt' = [attempt EXCEPT ![q].verdict =
                           IF grading[q] = "running" /\ grading'[q] \in {"passed", "failed"}
                           THEN grading'[q] ELSE @]
      BY <2>3 DEF GradeSlot, process
    <3>2. attempt'[q].turned = attempt[q].turned
      BY <3>1 DEF CleanroomTypeOK
    <3>3. grading'[q] \in {"passed", "failed"} => attempt'[q].verdict = grading'[q]
      BY <3>1, GradingVerdict DEF CleanroomTypeOK, GraderTypeOK
    <3>4. QED
      BY <3>1, <3>2, <3>3 DEF Attempts, AttemptsOf
  <2>4. CASE RecordSlot(q)
    BY <2>4 DEF RecordSlot, LoseSlot, Close, Goto, Leave, CleanroomTypeOK, GraderTypeOK, AttemptsOf
  <2>5. QED
    BY <1>4, <2>1, <2>2, <2>3, <2>4 DEF Step
<1>5. ASSUME Interrupt(q) \/ Kill(q) \/ \E how \in Modes : Invoke(q, how) PROVE AttemptsOf(q)'
  BY <1>5 DEF Interrupt, Kill, Invoke, Exit, Goto, Leave, Live, graders, CleanroomTypeOK, GraderTypeOK, Attempts,
              AttemptsOf
<1>6. QED
  BY <1>2, <1>3, <1>4, <1>5, StepOf
-----------------------------------------------------------------------------
(* What a process leaves behind *)

\* A process that grades has at most the one container of its slot, and none
\* once it was judged.
LEMMA GradingOwn ==
    ASSUME CleanroomTypeOK, HasSlot, Belongings, NEW p \in Procs, pc[p] = "grading", Grading(p, NextSlot(p))
    PROVE  /\ containers' \subseteq Procs \X Slots
           /\ \A c \in containers' : c[1] # p => c \in containers
           /\ \A c \in containers' : c[1] = p =>
                 c[2] = NextSlot(p) /\ grading'[p] \in {"running", "timed_out", "cancelled", "raised"}
<1> DEFINE mine == << p, NextSlot(p) >>
           Goal == /\ containers' \subseteq Procs \X Slots
                   /\ \A c \in containers' : c[1] # p => c \in containers
                   /\ \A c \in containers' : c[1] = p =>
                         c[2] = NextSlot(p) /\ grading'[p] \in {"running", "timed_out", "cancelled", "raised"}
<1>1. mine \in Procs \X Slots
  BY FirstIn DEF HasSlot, Trying, NextSlot, CleanroomTypeOK
<1>2. \A c \in containers : c[1] = p => c = mine /\ grading[p] \in {"running", "timed_out", "cancelled", "raised"}
  BY DEF Belongings, Followed
<1>3. containers \subseteq Procs \X Slots /\ grading \in [Procs -> Stages]
  BY DEF Belongings, CleanroomTypeOK, GraderTypeOK
<1>4. CASE DockerMissing(p)
  BY <1>2, <1>3, <1>4 DEF DockerMissing
<1>5. CASE Launch(p, NextSlot(p))
  BY <1>1, <1>2, <1>3, <1>5 DEF Launch
<1>6. CASE \E code \in GraderCodes : ContainerExits(p, NextSlot(p), code)
  BY <1>2, <1>3, <1>6 DEF ContainerExits
<1>7. CASE StopsWaiting(p)
  BY <1>2, <1>3, <1>7 DEF StopsWaiting
<1>8. CASE ForceRemove(p, NextSlot(p))
  BY <1>2, <1>3, <1>8 DEF ForceRemove
<1>9. CASE RemoveFails(p, NextSlot(p))
  BY <1>2, <1>3, <1>9 DEF RemoveFails
<1>10. QED
  BY <1>4, <1>5, <1>6, <1>7, <1>8, <1>9 DEF Grading

\* The containers of other processes are followed as before.
LEMMA OthersFollowed ==
    ASSUME CleanroomTypeOK, Belongings, NEW p \in Procs,
           Step(p) \/ Interrupt(p) \/ Kill(p) \/ \E how \in Modes : Invoke(p, how),
           NEW c \in containers, c[1] # p
    PROVE  Followed(c)'
<1>1. c[1] \in Procs /\ Followed(c)
  BY DEF Belongings
<1>2. UNCHANGED << pc[c[1]], left[c[1]], result[c[1]], grading[c[1]] >>
  BY <1>1, OthersKeep
<1>3. QED
  BY <1>1, <1>2 DEF Followed, NextSlot

LEMMA BelongingsStep ==
    ASSUME CleanroomTypeOK, HasSlot, Attempts, Outcomes, Belongings, [Next]_vars PROVE Belongings'
<1>1. ASSUME NEW p \in Procs,
             Step(p) \/ Interrupt(p) \/ Kill(p) \/ \E how \in Modes : Invoke(p, how),
             containers' \subseteq Procs \X Slots,
             \A c \in containers' : c[1] # p => c \in containers,
             \A c \in containers' : c[1] = p => Followed(c)',
             pc'[p] \in {"idle", "revision"} => temp'[p] = "none"
      PROVE  Belongings'
  <2>1. ASSUME NEW c \in containers' PROVE Followed(c)'
    BY <1>1, <2>1, OthersFollowed
  <2>2. ASSUME NEW q \in Procs, pc'[q] \in {"idle", "revision"} PROVE temp'[q] = "none"
    BY <1>1, <2>2, OthersKeep DEF Belongings
  <2>3. QED
    BY <1>1, <2>1, <2>2 DEF Belongings
<1>2. ASSUME NEW p \in Procs, Step(p) PROVE Belongings'
  <2>1. CASE \/ BuildIdentity(p) \/ BuildHomes(p) \/ DiscardHomes(p) \/ MakeDirectory(p) \/ WriteRunFile(p)
             \/ WritePlan(p) \/ ValidateResume(p) \/ Preflight(p) \/ LoseToPreflight(p) \/ Begin(p)
             \/ FinishSlots(p) \/ RunCodex(p)
    <3>1. containers' = containers /\ pc[p] # "idle" /\ pc[p] # "leaving" /\ pc[p] # "grading"
      BY <2>1 DEF BuildIdentity, BuildHomes, DiscardHomes, MakeDirectory, WriteRunFile,
                  WritePlan, ValidateResume, Preflight, LoseToPreflight, Begin, FinishSlots, RunCodex, graders
    <3>2. \A c \in containers : c[1] # p
      BY <3>1 DEF Belongings, Followed
    <3>3. pc'[p] \in {"idle", "revision"} => temp'[p] = "none"
      BY <2>1 DEF BuildIdentity, BuildHomes, DiscardHomes, MakeDirectory, WriteRunFile,
                  WritePlan, ValidateResume, Preflight, LoseToPreflight, Begin, FinishSlots, RunCodex, LoseSlot,
                  Close, Goto, Leave, Exit, CleanroomTypeOK, Belongings
    <3>4. QED
      BY <1>1, <1>2, <3>1, <3>2, <3>3 DEF Belongings
  <2>2. CASE GradeSlot(p)
    <3>1. pc[p] = "grading" /\ UNCHANGED << pc, left, temp >> /\ Grading(p, NextSlot(p))
      BY <2>2 DEF GradeSlot, process
    <3>2. NextSlot(p)' = NextSlot(p)
      BY <3>1 DEF NextSlot
    <3>3. \A c \in containers' : c[1] = p => Followed(c)'
      BY <3>1, <3>2, GradingOwn DEF Followed
    <3>4. QED
      BY <1>1, <1>2, <3>1, <3>3, GradingOwn
  <2>3. CASE RecordSlot(p)
    <3>1. containers' = containers /\ pc[p] = "grading" /\ pc'[p] \in {"slots", "leaving"}
      BY <2>3 DEF RecordSlot, LoseSlot, Close, Goto, Leave, CleanroomTypeOK
    <3>2. ASSUME NEW c \in containers, c[1] = p PROVE Followed(c)'
      <4>1. grading[p] \in {"running", "timed_out", "cancelled", "raised"}
        BY <3>1, <3>2 DEF Belongings, Followed
      <4>2. Leave(p, "raised")
        BY <2>3, <4>1 DEF RecordSlot
      <4>3. QED
        BY <3>2, <4>2 DEF Leave, Goto, End, Followed, CleanroomTypeOK
    <3>3. QED
      BY <1>1, <1>2, <3>1, <3>2 DEF Belongings
  <2>4. CASE RemoveHomes(p)
    <3>1. containers' = containers /\ pc'[p] = "idle" /\ temp'[p] = "none"
      BY <2>4 DEF RemoveHomes, graders, Exit, Goto, CleanroomTypeOK
    <3>2. QED
      BY <1>1, <1>2, <3>1 DEF Belongings, Followed
  <2>5. QED
    BY <1>2, <2>1, <2>2, <2>3, <2>4 DEF Step
<1>3. ASSUME NEW p \in Procs, Interrupt(p) PROVE Belongings'
  <2>1. /\ containers' = containers /\ pc[p] # "idle" /\ pc[p] # "leaving" /\ pc[p] # "grading"
        /\ pc'[p] \notin {"idle", "revision"}
    BY <1>3 DEF Interrupt, graders, Goto, Leave, CleanroomTypeOK
  <2>2. \A c \in containers : c[1] # p
    BY <2>1 DEF Belongings, Followed
  <2>3. QED
    BY <1>1, <1>3, <2>1, <2>2 DEF Belongings
<1>4. ASSUME NEW p \in Procs, Kill(p) PROVE Belongings'
  <2>1. containers' = {c \in containers : c[1] # p} /\ temp'[p] = "none"
    BY <1>4 DEF Kill, Disown, CleanroomTypeOK
  <2>2. QED
    BY <1>1, <1>4, <2>1 DEF Belongings
<1>5. ASSUME NEW p \in Procs, NEW how \in Modes, Invoke(p, how) PROVE Belongings'
  <2>1. containers' = {c \in containers : c[1] # p} /\ temp'[p] = "none"
    BY <1>5 DEF Invoke, Live, Disown, Belongings
  <2>2. QED
    BY <1>1, <1>5, <2>1 DEF Belongings
<1>6. CASE ContainerEnds
  <2>1. containers' \subseteq containers /\ UNCHANGED << pc, left, result, temp, grading >>
    BY <1>6 DEF ContainerEnds, LateExit, process
  <2>2. \A c \in containers' : Followed(c)'
    BY <2>1 DEF Belongings, Followed, NextSlot
  <2>3. QED
    BY <2>1, <2>2 DEF Belongings
<1>7. CASE UNCHANGED vars
  BY <1>7 DEF vars, Belongings, Followed, NextSlot
<1>8. QED
  BY <1>2, <1>3, <1>4, <1>5, <1>6, <1>7 DEF Next
-----------------------------------------------------------------------------
(* The theorems *)

CleanroomInv ==
    /\ CleanroomTypeOK /\ HasSlot
    /\ Ownership /\ Progress
    /\ OpenAttempts
    /\ Outcomes /\ FinishedDecided
    /\ Attempts /\ Belongings

LEMMA CleanroomInit == Init => CleanroomInv
<1> SUFFICES ASSUME Init PROVE CleanroomInv
  OBVIOUS
<1>1. CleanroomTypeOK /\ HasSlot
  <2>1. LogTypeOK
    BY DEF Init, LogInit, LogTypeOK
  <2>2. invoked \in 0 .. MaxInvoked /\ kills \in 0 .. MaxKills
    BY CleanroomAssumption DEF Init
  <2>3. QED
    BY <2>1, <2>2 DEF Init, CleanroomTypeOK, GraderTypeOK, Stages, Steps, Modes, Results, Untried, HasSlot, Trying
<1>2. Ownership
  BY CleanroomAssumption DEF Init, LogInit, Ownership, AtPlan, Working, Live, Blank
<1>3. Progress
  BY DEF Init, LogInit, Progress, ProgressOf, RetriesMarked, Missing, Has, Working, Trying
<1>4. OpenAttempts
  <2>1. ASSUME NEW s \in Slots, NEW types PROVE Count(s, types) = 0
    BY FS_EmptySet DEF Init, LogInit, Count
  <2>2. ASSUME NEW s \in Slots PROVE AtSlot(s) = {}
    BY DEF Init, AtSlot, Trying
  <2>3. QED
    BY <2>1, <2>2, FS_EmptySet DEF OpenAttempts
<1>5. Outcomes /\ FinishedDecided
  BY CleanroomAssumption DEF Init, Outcomes, OutcomesOf, FinishedDecided, Working
<1>6. Attempts /\ Belongings
  BY DEF Init, Attempts, AttemptsOf, Belongings, Followed
<1>7. QED
  BY <1>1, <1>2, <1>3, <1>4, <1>5, <1>6 DEF CleanroomInv

LEMMA CleanroomStep == CleanroomInv /\ [Next]_vars => CleanroomInv'
BY TypeStep, OwnershipStep, ProgressStep, OpenStep, OutcomesStep, FinishedStep, AttemptsStep, BelongingsStep
   DEF CleanroomInv

LEMMA CleanroomInvariant == Spec => []CleanroomInv
BY CleanroomInit, CleanroomStep, PTL DEF Spec

\* Every variable keeps to its values, whatever Codex, Docker and SIGKILL do.
THEOREM CleanroomTypeCorrect == Spec => []CleanroomTypeOK
<1>1. CleanroomInv => CleanroomTypeOK
  BY DEF CleanroomInv
<1>2. QED
  BY <1>1, CleanroomInvariant, PTL

\* A planner that ended with an exit code left every slot decided, and a loss
\* after which a slot was completed is marked as retried: --resume has what it
\* asks for (ResumeAccepted), for any overlap of invocations.
THEOREM NeverStranded == Spec => []ResumableOrComplete
<1>1. CleanroomInv => ResumableOrComplete
  <2> SUFFICES ASSUME CleanroomInv, root = "finished", ~ (Slots \subseteq Completed)
               PROVE  ResumeAccepted(runFile)
    BY DEF ResumableOrComplete
  <2>1. AllDecided /\ RetriesMarked
    BY DEF CleanroomInv, FinishedDecided, Progress
  <2>2. Planned = Slots /\ Slots \ (Completed \cup Missing) = {}
    BY <2>1 DEF AllDecided, Resolved, Completed, Missing
  <2>3. Unresolved # {}
    BY <2>2 DEF Unresolved
  <2>4. QED
    BY <2>1, <2>2, <2>3 DEF ResumeAccepted, RetriesMarked
<1>2. QED
  BY <1>1, CleanroomInvariant, PTL

\* Exit code 0 is never a lie, for the live run and for every resumption.
THEOREM ExitIsTrue == Spec => []ExitTellsTruth
<1>1. CleanroomInv => ExitTellsTruth
  BY DEF CleanroomInv, Outcomes, OutcomesOf, ExitTellsTruth, Passed
<1>2. QED
  BY <1>1, CleanroomInvariant, PTL

\* Any number of processes write events.jsonl as SlotLog promises.
THEOREM ProcessesImplementLog == Spec => ImplementsSlotLog
<1>1. Init => LogInit
  BY DEF Init
<1>2. CleanroomInv /\ [Next]_vars => [LogNext]_events
  <2> SUFFICES ASSUME CleanroomInv, [Next]_vars PROVE [LogNext]_events
    OBVIOUS
  <2> USE DEF CleanroomInv
  <2>1. CASE events' = events
    BY <2>1
  <2>2. ASSUME NEW p \in Procs, NEW written, pc[p] = "described", Plan(written) PROVE LogNext
    <3>1. Plan(Slots \cap written)
      BY <2>2 DEF Plan
    <3>2. QED
      BY <3>1 DEF LogNext
  <2>3. ASSUME NEW p \in Procs, NEW event \in Events, Working(p), NextSlot(p) \in left[p], Writes(p, event),
               Append1(NextSlot(p), event)
        PROVE  LogNext
    <3> DEFINE s == NextSlot(p)
    <3>1. s \in Slots /\ Planned = Slots
      BY <2>3 DEF CleanroomTypeOK, Progress, ProgressOf
    <3>2. CASE event = Mark("missing")
      BY <2>3, <3>1, <3>2 DEF Lose, LogNext
    <3>3. CASE event = Mark("started") /\ pc[p] = "slots" /\ mode[p] # "resume"
      <4>1. mode[p] = "live"
        BY <2>3, <3>3 DEF CleanroomTypeOK, Modes, Ownership
      <4>2. events[s] = << Mark("planned") >>
        BY <2>3, <3>3, <4>1 DEF Progress, ProgressOf, Trying
      <4>3. QED
        BY <2>3, <3>1, <3>3, <4>2 DEF Start, LogNext
    <3>4. CASE event = Mark("resumed") /\ mode[p] = "resume"
      <4>1. s \in Missing
        BY <2>3, <3>4 DEF Progress, ProgressOf
      <4>2. QED
        BY <2>3, <3>1, <3>4, <4>1 DEF Resume, Missing, LogNext
    <3>5. ASSUME pc[p] = "grading", NEW cost \in Costs, event = Completion(grading[p] = "passed", cost)
          PROVE  LogNext
      <4>1. p \in AtSlot(s)
        BY <3>5 DEF AtSlot, Trying
      <4>2. IsFiniteSet(AtSlot(s))
        BY FS_Subset, CleanroomAssumption DEF AtSlot
      <4>3. Cardinality(AtSlot(s)) \in Nat /\ Cardinality(AtSlot(s)) # 0
        BY <4>1, <4>2, FS_CardinalityType, FS_EmptySet
      <4>4. Count(s, {"completed"}) \in Nat /\ Count(s, {"started", "resumed"}) \in Nat
        BY <2>3, <3>1, CountAfter DEF CleanroomTypeOK
      <4>5. Count(s, {"started", "resumed"}) > Count(s, {"completed"})
        BY <3>1, <4>3, <4>4 DEF OpenAttempts
      <4>6. Complete(s, grading[p] = "passed", cost)
        BY <2>3, <3>1, <3>5, <4>5 DEF Complete
      <4>7. (grading[p] = "passed") \in BOOLEAN
        OBVIOUS
      <4>8. QED
        BY <3>1, <4>6, <4>7 DEF LogNext
    <3>6. QED
      BY <2>3, <3>2, <3>3, <3>4, <3>5 DEF Writes
  <2>4. QED
    BY <2>1, <2>2, <2>3, LogStep
<1>3. QED
  BY <1>1, <1>2, CleanroomInvariant, PTL DEF Spec, ImplementsSlotLog, LogSpec

\* No record of a score without one metered turn and the verdict it carries.
THEOREM ScoresAreJudged == Spec => OnlyJudgedSlotsScored
<1> DEFINE JudgedScores ==
        \A s \in Slots : Scored(s) => \E p \in Procs :
            /\ left[p] # {} /\ NextSlot(p) = s
            /\ attempt[p].turned
            /\ (attempt[p].verdict = "passed") = events'[s][Len(events'[s])].passed
            /\ attempt[p].verdict # "none"
<1>1. CleanroomInv /\ [Next]_vars => [JudgedScores]_vars
  <2> SUFFICES ASSUME CleanroomInv, [Next]_vars, NEW s \in Slots, Scored(s)
               PROVE  \E p \in Procs :
                         /\ left[p] # {} /\ NextSlot(p) = s
                         /\ attempt[p].turned
                         /\ (attempt[p].verdict = "passed") = events'[s][Len(events'[s])].passed
                         /\ attempt[p].verdict # "none"
    OBVIOUS
  <2> USE DEF CleanroomInv
  <2>1. events'[s] # events[s] /\ Len(events[s]) \in Nat
    BY DEF Scored, CleanroomTypeOK, LogTypeOK
  <2>2. ASSUME NEW written, Plan(written) PROVE FALSE
    <3>1. events'[s] \in {<< >>, << Mark("planned") >>}
      BY <2>2, PlannedLog
    <3>2. QED
      BY <2>1, <3>1, EventKinds DEF Scored
  <2>3. PICK p \in Procs, event \in Events :
            Working(p) /\ NextSlot(p) \in left[p] /\ Writes(p, event) /\ Append1(NextSlot(p), event)
    BY <2>1, <2>2, LogStep
  <2>4. NextSlot(p) = s /\ events'[s][Len(events'[s])] = event
    BY <2>1, <2>3, LogAfter DEF CleanroomTypeOK
  <2>5. event.type = "completed"
    BY <2>4 DEF Scored
  <2>6. PICK cost \in Costs : /\ pc[p] = "grading" /\ grading[p] \in {"passed", "failed"}
                              /\ event = Completion(grading[p] = "passed", cost)
    BY <2>3, <2>5, EventKinds DEF Writes
  <2>7. event.passed = (grading[p] = "passed")
    BY <2>6 DEF Completion
  <2>8. attempt[p].turned /\ attempt[p].verdict = grading[p]
    BY <2>6 DEF Attempts, AttemptsOf
  <2>9. QED
    BY <2>3, <2>4, <2>6, <2>7, <2>8
<1>2. QED
  BY <1>1, CleanroomInvariant, PTL DEF Spec, OnlyJudgedSlotsScored

\* An invocation that ends removes its homes, and without an exception its containers.
THEOREM NothingLeftBehind == Spec => CleanEnd
<1>1. CleanroomInv /\ [Next]_vars =>
        [\A p \in Procs : (Live(p) /\ pc'[p] = "idle" /\ kills' = kills) =>
            /\ temp'[p] = "none"
            /\ result[p] # "raised" => ~ \E c \in containers' : c[1] = p]_vars
  <2> SUFFICES ASSUME CleanroomInv, [Next]_vars, NEW p \in Procs, Live(p), pc'[p] = "idle", kills' = kills
               PROVE  temp'[p] = "none" /\ (result[p] # "raised" => ~ \E c \in containers' : c[1] = p)
    OBVIOUS
  <2>1. temp'[p] = "none"
    BY CleanroomStep DEF CleanroomInv, Belongings
  <2>2. BuildIdentity(p) \/ DiscardHomes(p) \/ RemoveHomes(p)
    <3>1. Step(p) \/ Interrupt(p) \/ Kill(p) \/ \E how \in Modes : Invoke(p, how)
      BY StepOf, OthersKeep DEF CleanroomInv, Live, process
    <3>2. ~ Kill(p)
      BY DEF Kill, CleanroomInv, CleanroomTypeOK
    <3>3. ~ Interrupt(p) /\ ~ \E how \in Modes : Invoke(p, how)
      BY DEF Interrupt, Invoke, Goto, Leave, CleanroomInv, CleanroomTypeOK
    <3>4. ~ (BuildHomes(p) \/ MakeDirectory(p) \/ WriteRunFile(p) \/ WritePlan(p) \/ ValidateResume(p)
             \/ Preflight(p) \/ LoseToPreflight(p) \/ Begin(p) \/ RunCodex(p) \/ GradeSlot(p) \/ RecordSlot(p)
             \/ FinishSlots(p))
      BY DEF BuildHomes, MakeDirectory, WriteRunFile, WritePlan, ValidateResume, Preflight, LoseToPreflight, Begin,
             RunCodex, GradeSlot, RecordSlot, FinishSlots, LoseSlot, Close, Goto, Leave, Live, process,
             CleanroomInv, CleanroomTypeOK
    <3>5. QED
      BY <3>1, <3>2, <3>3, <3>4 DEF Step
  <2>3. containers' = containers /\ pc[p] \in {"revision", "discarding", "leaving"}
    BY <2>2 DEF BuildIdentity, DiscardHomes, RemoveHomes, graders
  <2>4. QED
    BY <2>1, <2>3 DEF CleanroomInv, Belongings, Followed
<1>2. QED
  BY <1>1, CleanroomInvariant, PTL DEF Spec, CleanEnd
=============================================================================
