---------------------------- MODULE AtomicLedger ----------------------------
(***************************************************************************)
(* What the plugin promises of a turn's ledger: a hook either applies its  *)
(* transition to the ledger in one step or gives up without touching it.   *)
(* "Writes are atomic and locked" (the loop-fuse design, l.123), and       *)
(* mutate_loop_ledger documents itself as atomic.  LoopStore shows with    *)
(* which file operations the hook processes keep the promise.              *)
(***************************************************************************)
EXTENDS HookRules

VARIABLES
    ledger,  \* the hooks whose transition is in the ledger
    status   \* what became of each hook

avars == << ledger, status >>

AInit ==
    /\ ledger = {}
    /\ status = [p \in Procs |-> "pending"]

Apply(p) ==
    /\ status[p] = "pending"
    /\ ledger' = Transition(p, ledger)
    /\ status' = [status EXCEPT ![p] = "applied"]

GiveUp(p) ==
    /\ status[p] = "pending"
    /\ status' = [status EXCEPT ![p] = "given_up"]
    /\ UNCHANGED ledger

ANext == \E p \in Procs : Apply(p) \/ GiveUp(p)

ASpec == AInit /\ [][ANext]_avars
=============================================================================
