----------------------------- MODULE LoopStore ------------------------------
(***************************************************************************)
(* How concurrent hook processes share one turn's ledger file              *)
(* (super_sol_loop_state.py and _transition of super_sol_loop_hook.py).    *)
(* Codex runs every hook in a process of its own and kills it after the    *)
(* timeout of hooks.json, so that any two file operations below may be     *)
(* separated by those of other hooks and a process may vanish between them.*)
(*                                                                         *)
(* Two locks protect the file: flock on loop.guard, which the kernel drops *)
(* when its holder dies, and the marker loop.lock, which outlives a dead   *)
(* holder and is removed by the next one once it is older than five        *)
(* seconds.  Both waits share one deadline of 0.2 seconds.                 *)
(***************************************************************************)
EXTENDS HookRules

CONSTANTS
    Absent,       \* the file does not exist
    InitialFile,  \* the ledger file before these hooks: Absent, or a fresh one
    Nobody,       \* no process holds the guard
    MaxCrashes,   \* bound of the model: processes killed
    MaxErrors     \* bound of the model: writes that fail

ASSUME StoreAssumption ==
    /\ \A led \in SUBSET Procs : led # Absent
    /\ InitialFile \in {Absent, {}}
    /\ Nobody \notin Procs
    /\ MaxCrashes \in Nat
    /\ MaxErrors \in Nat

VARIABLES
    file,        \* loop.json
    guard,       \* the holder of flock(loop.guard)
    marker,      \* loop.lock: absent, young, or older than _LOCK_STALE_SECONDS
    pc,          \* the next operation of each process
    initialize,  \* _transition's local: the file did not exist when it looked
    loaded,      \* the ledger a process read
    late,        \* the deadline of _acquire_lock has passed
    committed,   \* processes that replaced the file
    granted,     \* spawns a hook has let through since the last reset
    crashes,
    errors

vars == << file, guard, marker, pc, initialize, loaded, late, committed, granted, crashes, errors >>
locals == << initialize, loaded >>
answers == << committed, granted >>
counters == << crashes, errors >>

Critical == {"load", "write", "unlink", "unlock"}
Stopped == {"done", "failed", "killed"}
Locations == {"start", "guard", "marker", "stat", "remove_stale"} \cup Critical \cup Stopped

Init ==
    /\ file = InitialFile
    /\ guard = Nobody
    /\ marker = "absent"
    /\ pc = [p \in Procs |-> "start"]
    /\ initialize = [p \in Procs |-> FALSE]
    /\ loaded = [p \in Procs |-> {}]
    /\ late = [p \in Procs |-> FALSE]
    /\ committed = {}
    /\ granted = {}
    /\ crashes = 0
    /\ errors = 0

Go(p, from, to) == pc[p] = from /\ pc' = [pc EXCEPT ![p] = to]

-----------------------------------------------------------------------------
\* Mutant of Look: a file that is there is taken for missing.
LookAway(p) ==
    /\ Go(p, "start", "guard")
    /\ initialize' = [initialize EXCEPT ![p] = TRUE]
    /\ UNCHANGED << file, guard, marker, loaded, late, answers, counters >>

\* _transition looks for the file before it has any lock; a prompt resets only a file
\* that exists (reset_for_prompt).
Look(p) ==
    /\ IF p \in Resetters /\ file = Absent
       THEN Go(p, "start", "done") /\ UNCHANGED initialize
       ELSE /\ Go(p, "start", "guard")
            /\ initialize' = [initialize EXCEPT ![p] = file = Absent]
    /\ UNCHANGED << file, guard, marker, loaded, late, answers, counters >>

\* Mutant of TakeGuard: a shared lock.
TakeGuardShared(p) ==
    /\ Go(p, "guard", "marker")
    /\ guard' = p
    /\ UNCHANGED << file, marker, locals, late, answers, counters >>

\* fcntl.flock(guard, LOCK_EX | LOCK_NB)
TakeGuard(p) ==
    /\ guard = Nobody
    /\ Go(p, "guard", "marker")
    /\ guard' = p
    /\ UNCHANGED << file, marker, locals, late, answers, counters >>

\* Mutant of GuardTimeout: after the deadline the process goes on without the guard.
GuardTimeoutOpen(p) ==
    /\ guard # Nobody
    /\ late[p]
    /\ Go(p, "guard", "marker")
    /\ UNCHANGED << file, guard, marker, locals, late, answers, counters >>

\* BlockingIOError after the deadline; before it the process sleeps and tries again.
GuardTimeout(p) ==
    /\ guard # Nobody
    /\ late[p]
    /\ Go(p, "guard", "failed")
    /\ UNCHANGED << file, guard, marker, locals, late, answers, counters >>

\* os.open(lock, O_CREAT | O_EXCL)
CreateMarker(p) ==
    /\ IF marker = "absent"
       THEN Go(p, "marker", "load") /\ marker' = "young"
       ELSE Go(p, "marker", "stat") /\ UNCHANGED marker
    /\ UNCHANGED << file, guard, locals, late, answers, counters >>

\* Mutant of StatMarker: the deadline comes before the age of the marker.
StatMarkerHasty(p) ==
    /\ \/ marker = "absent" /\ Go(p, "stat", "marker") /\ UNCHANGED guard
       \/ marker # "absent" /\ late[p] /\ Go(p, "stat", "failed") /\ guard' = Nobody
       \/ marker = "stale" /\ ~late[p] /\ Go(p, "stat", "remove_stale") /\ UNCHANGED guard
       \/ marker = "young" /\ ~late[p] /\ Go(p, "stat", "marker") /\ UNCHANGED guard
    /\ UNCHANGED << file, marker, locals, late, answers, counters >>

\* Mutant of StatMarker: no deadline for a marker that stays young.
StatMarkerPatient(p) ==
    /\ \/ marker # "stale" /\ Go(p, "stat", "marker")
       \/ marker = "stale" /\ Go(p, "stat", "remove_stale")
    /\ UNCHANGED << file, guard, marker, locals, late, answers, counters >>

\* lock.stat(): a stale marker is removed before the deadline is looked at.
StatMarker(p) ==
    /\ \/ marker = "absent" /\ Go(p, "stat", "marker") /\ UNCHANGED guard
       \/ marker = "stale" /\ Go(p, "stat", "remove_stale") /\ UNCHANGED guard
       \/ marker = "young" /\ ~late[p] /\ Go(p, "stat", "marker") /\ UNCHANGED guard
       \/ marker = "young" /\ late[p] /\ Go(p, "stat", "failed") /\ guard' = Nobody
    /\ UNCHANGED << file, marker, locals, late, answers, counters >>

\* lock.unlink() of a stale marker
RemoveStale(p) ==
    /\ Go(p, "remove_stale", "marker")
    /\ marker' = "absent"
    /\ UNCHANGED << file, guard, locals, late, answers, counters >>

\* _load, and the fresh ledger of a process that found no file
Load(p) ==
    /\ Go(p, "load", "write")
    /\ loaded' = [loaded EXCEPT ![p] = IF initialize[p] \/ file = Absent THEN {} ELSE file]
    /\ UNCHANGED << file, guard, marker, initialize, late, answers, counters >>

\* write_private_json: the temporary file replaces loop.json
Write(p) ==
    /\ Go(p, "write", "unlink")
    /\ file' = Transition(p, loaded[p])
    /\ committed' = committed \cup {p}
    /\ granted' = IF p \in Resetters THEN {}
                  ELSE granted \cup (file' \cap Spawners \cap {p})
    /\ UNCHANGED << guard, marker, locals, late, counters >>

\* Mutant of WriteError: loop.json is truncated and written in place.
WriteErrorTruncating(p) ==
    /\ errors < MaxErrors
    /\ Go(p, "write", "unlink")
    /\ file' = {}
    /\ errors' = errors + 1
    /\ UNCHANGED << guard, marker, locals, late, answers, crashes >>

\* the transition or the write raises; the finally clause still releases the locks
WriteError(p) ==
    /\ errors < MaxErrors
    /\ Go(p, "write", "unlink")
    /\ errors' = errors + 1
    /\ UNCHANGED << file, guard, marker, locals, late, answers, crashes >>

\* Mutant of UnlinkMarker: it releases the guard, which Unlock does again.
UnlinkMarkerUnlocking(p) ==
    /\ Go(p, "unlink", "unlock")
    /\ marker' = "absent"
    /\ guard' = Nobody
    /\ UNCHANGED << file, locals, late, answers, counters >>

\* lock.unlink(missing_ok=True)
UnlinkMarker(p) ==
    /\ Go(p, "unlink", "unlock")
    /\ marker' = "absent"
    /\ UNCHANGED << file, guard, locals, late, answers, counters >>

\* flock(LOCK_UN) and close
Unlock(p) ==
    /\ Go(p, "unlock", IF p \in committed THEN "done" ELSE "failed")
    /\ guard' = Nobody
    /\ UNCHANGED << file, marker, locals, late, answers, counters >>

Step(p) ==
    \/ Look(p)
    \/ TakeGuard(p) \/ GuardTimeout(p)
    \/ CreateMarker(p) \/ StatMarker(p) \/ RemoveStale(p)
    \/ Load(p) \/ Write(p) \/ WriteError(p)
    \/ UnlinkMarker(p) \/ Unlock(p)

\* The host kills a hook that exceeds its timeout: the kernel drops its flock.
Kill(p) ==
    /\ crashes < MaxCrashes
    /\ pc[p] \notin Stopped
    /\ pc' = [pc EXCEPT ![p] = "killed"]
    /\ guard' = IF guard = p THEN Nobody ELSE guard
    /\ crashes' = crashes + 1
    /\ UNCHANGED << file, marker, locals, late, answers, errors >>

\* Time: the deadline of a waiting process passes, a marker grows old.
Expire(p) ==
    /\ pc[p] \in {"guard", "marker", "stat", "remove_stale"}
    /\ ~late[p]
    /\ late' = [late EXCEPT ![p] = TRUE]
    /\ UNCHANGED << file, guard, marker, pc, locals, answers, counters >>

Age ==
    /\ marker = "young"
    /\ marker' = "stale"
    /\ UNCHANGED << file, guard, pc, locals, late, answers, counters >>

AllStopped == (\A p \in Procs : pc[p] \in Stopped) /\ UNCHANGED vars

Next ==
    \/ \E p \in Procs : Step(p) \/ Kill(p) \/ Expire(p)
    \/ Age
    \/ AllStopped

Spec == Init /\ [][Next]_vars

\* A live process is scheduled and its monotonic clock advances; nothing obliges the
\* host to kill, a write to fail or a marker to be old when it is looked at.
FairSpec == Spec /\ \A p \in Procs : WF_vars(Step(p)) /\ WF_vars(Expire(p))

-----------------------------------------------------------------------------
(***************************************************************************)
(* Properties.                                                             *)
(***************************************************************************)
StoreTypeOK ==
    /\ file = Absent \/ file \in SUBSET Procs
    /\ guard \in Procs \cup {Nobody}
    /\ marker \in {"absent", "young", "stale"}
    /\ pc \in [Procs -> Locations]
    /\ initialize \in [Procs -> BOOLEAN]
    /\ loaded \in [Procs -> SUBSET Procs]
    /\ late \in [Procs -> BOOLEAN]
    /\ committed \subseteq Procs
    /\ granted \subseteq Spawners
    /\ crashes \in 0 .. MaxCrashes
    /\ errors \in 0 .. MaxErrors

\* Two processes are never between the creation of the marker and the release of the
\* guard, although a marker older than five seconds is taken from a holder that lives.
MutualExclusion ==
    \A p, q \in Procs : pc[p] \in Critical /\ pc[q] \in Critical => p = q

\* While a process reads and writes the ledger its marker stands: nobody took it for
\* the marker of a dead process.
MarkerStands == \A p \in Procs : pc[p] \in {"load", "write", "unlink"} => marker # "absent"

\* As long as no prompt resets it, the ledger carries every event that was committed and
\* every spawn that was let through.
NoLostUpdate ==
    committed \cap Resetters = {} /\ file # Absent =>
        (committed \ Spawners) \cup granted \subseteq file

\* Since the last reset the hooks let no more spawns through than the budget allows.
SpawnBudget == Cardinality(granted) <= Budget

\* The hook processes implement the atomic ledger: every interleaving of their file
\* operations, with kills, failed writes and expired deadlines, is a sequence of
\* transitions applied whole or not at all.
Ledger == IF file = Absent THEN {} ELSE file
Status(p) ==
    IF p \in committed THEN "applied"
    ELSE IF pc[p] \in Stopped THEN "given_up" ELSE "pending"

Atomic == INSTANCE AtomicLedger WITH ledger <- Ledger, status <- [p \in Procs |-> Status(p)]

ImplementsAtomicLedger == Atomic!ASpec

\* Every hook ends: no interleaving of lock attempts, kills and stale markers makes a
\* process wait past its deadline.
EveryHookEnds == \A p \in Procs : <>(pc[p] \in Stopped)

\* A process that holds the guard and finds the marker of a dead one goes on to commit,
\* however little is left of its deadline.
StaleMarkerRecovered ==
    \A p \in Procs :
        (guard = p /\ marker = "stale" /\ pc[p] \in {"marker", "stat"})
            ~> (p \in committed \/ pc[p] = "killed" \/ errors > 0)
=============================================================================
