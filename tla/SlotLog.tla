------------------------------- MODULE SlotLog -------------------------------
(***************************************************************************)
(* What events.jsonl of a clean-room comparison promises its readers.  One *)
(* slot is one task, repetition and arm; the log is kept here per slot,    *)
(* because nothing that reads it looks at the order of different slots.    *)
(* CleanroomRun shows which processes write the log this way; Promotion    *)
(* shows what the report and the audit make of it.                         *)
(***************************************************************************)
EXTENDS Integers, Sequences, FiniteSets

CONSTANTS
    Tasks,        \* task ids of the manifest
    Repetitions,  \* repetitions of each task and arm
    Costs         \* records [tokens, seconds] that a Codex turn may cost

ASSUME SlotLogAssumption ==
    /\ IsFiniteSet(Tasks)
    /\ Repetitions \in 1 .. 5
    /\ Costs \subseteq [tokens : Nat, seconds : Nat \ {0}]

VARIABLE events   \* the records of each slot, in the order of the file

Arms == {"raw", "lean"}
Slots == [task : Tasks, repetition : 1 .. Repetitions, arm : Arms]
Mark(type) == [type |-> type]
Completion(passed, cost) == [type |-> "completed", passed |-> passed, cost |-> cost]
Completions == {Completion(passed, cost) : passed \in BOOLEAN, cost \in Costs}
Events == {Mark(t) : t \in {"planned", "started", "resumed", "missing"}} \cup Completions

Count(s, types) == Cardinality({i \in DOMAIN events[s] : events[s][i].type \in types})
Has(s, type) == \E i \in DOMAIN events[s] : events[s][i].type = type
Planned == {s \in Slots : Has(s, "planned")}
Missing == {s \in Slots : Has(s, "missing")}
Completed == {s \in Slots : Has(s, "completed")}
Resumed == {s \in Slots : Has(s, "resumed")}
Append1(s, event) == events' = [events EXCEPT ![s] = Append(@, event)]

LogInit == events = [s \in Slots |-> << >>]

\* The plan is one write; a writer that is killed may leave a part of it.
Plan(written) ==
    /\ Planned = {}
    /\ events' = [s \in Slots |-> IF s \in written THEN << Mark("planned") >> ELSE << >>]

Start(s) ==
    /\ Planned = Slots
    /\ events[s] = << Mark("planned") >>
    /\ Append1(s, Mark("started"))

Resume(s) ==
    /\ Planned = Slots
    /\ Has(s, "missing")
    /\ Append1(s, Mark("resumed"))

Lose(s) ==
    /\ Planned = Slots
    /\ Append1(s, Mark("missing"))

\* Every completed record closes one attempt.
Complete(s, passed, cost) ==
    /\ Planned = Slots
    /\ Count(s, {"started", "resumed"}) > Count(s, {"completed"})
    /\ Append1(s, Completion(passed, cost))

LogNext ==
    \/ \E written \in SUBSET Slots : Plan(written)
    \/ \E s \in Slots :
          \/ Start(s)
          \/ Resume(s)
          \/ Lose(s)
          \/ \E passed \in BOOLEAN, cost \in Costs : Complete(s, passed, cost)

LogSpec == LogInit /\ [][LogNext]_events
LogTypeOK == events \in [Slots -> Seq(Events)]
=============================================================================
