------------------------------ MODULE SyncRuns ------------------------------
(***************************************************************************)
(* Run control of SyncService (src/apps/api/src/sync/sync.service.ts): the *)
(* in-memory flags running, runningTrigger and runSequence against the     *)
(* rows of sync_log, for normal runs (run), and for the historical punch   *)
(* imports (backfillPunches, employeePunchSweep), which follow one control *)
(* path and are both called "backfill" here.                               *)
(*                                                                         *)
(* A step is one database answer with the synchronous code that follows it *)
(* up to the next await.  What a pull reads from BioTime and writes to the *)
(* tables of employees and punches is left out: only that it is under way. *)
(***************************************************************************)
EXTENDS Integers

CONSTANTS
    Calls,       \* calls of run, backfillPunches and employeePunchSweep
    MaxCrashes   \* bound on the number of process crashes

ASSUME CrashAssumption == MaxCrashes \in Nat

VARIABLES
    trigger,    \* runningTrigger, "none" when running is false: the code
                \* always assigns the two together
    sequence,   \* runSequence
    pc,         \* await each call is at
    kind,       \* trigger each call was made with
    number,     \* `sequence` local to each call
    pulls,      \* calls whose pullAll or listing has not ended
    log,        \* sync_log.status of the row of each call
    startedAt,  \* sync_log.startedAt, as the rank of the insert
    cursor,     \* calls whose row has a lastCursor
    inserts,    \* rows inserted so far
    expired,    \* calls whose row is older than maxDurationMs
    mode,       \* "up", or "down" between a crash and onModuleInit
    crashes     \* crashes so far

flags == <<trigger, sequence>>
calls == <<pc, kind, number, pulls>>
table == <<log, startedAt, cursor, inserts>>
vars == <<flags, calls, table, expired, mode, crashes>>

-----------------------------------------------------------------------------
\* "startup" runs behave as "scheduled" ones and "manual_sap_biotime" ones as
\* "manual" ones, which are always full.
Background == {"scheduled"}
Full == {"manual"}
RunKinds == Background \cup Full
Kinds == RunKinds \cup {"backfill"}

\* Awaits at which a call holds a number of its own.
Working == {"inserting", "reading", "pulling", "rechecking", "succeeding",
            "failing", "rejecting", "recording"}
Awaits == {"idle", "checking", "interrupting", "done", "dead"} \cup Working

TypeOK ==
    /\ trigger \in Kinds \cup {"none"}
    /\ sequence \in Nat
    /\ pc \in [Calls -> Awaits]
    /\ kind \in [Calls -> Kinds]
    /\ number \in [Calls -> Nat]
    /\ pulls \in SUBSET Calls
    /\ log \in [Calls -> {"none", "RUNNING", "FAILED", "SUCCESS"}]
    /\ startedAt \in [Calls -> Nat]
    /\ cursor \in SUBSET Calls
    /\ inserts \in Nat
    /\ expired \in SUBSET Calls
    /\ mode \in {"up", "down"}
    /\ crashes \in 0..MaxCrashes

Init ==
    /\ trigger = "none"
    /\ sequence = 0
    /\ pc = [c \in Calls |-> "idle"]
    /\ kind = [c \in Calls |-> "scheduled"]
    /\ number = [c \in Calls |-> 0]
    /\ pulls = {}
    /\ log = [c \in Calls |-> "none"]
    /\ startedAt = [c \in Calls |-> 0]
    /\ cursor = {}
    /\ inserts = 0
    /\ expired = {}
    /\ mode = "up"
    /\ crashes = 0

-----------------------------------------------------------------------------
running == trigger # "none"

SomeRunningRow == \E c \in Calls : log[c] = "RUNNING"

\* failTimedOutRuns: the expired RUNNING rows become FAILED.
FailTimedOutRuns ==
    log' = [c \in Calls |->
              IF log[c] = "RUNNING" /\ c \in expired THEN "FAILED" ELSE log[c]]

\* The synchronous block that takes the flags and numbers the call.
Start(c, k) ==
    /\ trigger' = k
    /\ sequence' = sequence + 1
    /\ number' = [number EXCEPT ![c] = sequence + 1]
    /\ pc' = [pc EXCEPT ![c] = "inserting"]

\* Mutant of Release: the finally block forgets to compare the numbers.
MutRelease(c) == trigger' = "none" /\ UNCHANGED sequence

\* The finally block.
Release(c) ==
    /\ trigger' = IF sequence = number[c] THEN "none" ELSE trigger
    /\ UNCHANGED sequence

\* A call of kind k, up to the first decision after failTimedOutRuns: start, or
\* (run) look at the table, or (backfill) refuse.
Enter(c, k) ==
    /\ mode = "up"
    /\ pc[c] = "idle"
    /\ FailTimedOutRuns
    /\ kind' = [kind EXCEPT ![c] = k]
    /\ \/ /\ ~running
          /\ Start(c, k)
       \/ /\ running
          /\ pc' = [pc EXCEPT ![c] = IF k \in RunKinds THEN "checking" ELSE "done"]
          /\ UNCHANGED <<flags, number>>
    /\ UNCHANGED <<pulls, startedAt, cursor, inserts, expired, mode, crashes>>

\* run(): the flags are dropped when the table has no RUNNING row; a full run
\* interrupts a background one, any other call gives way.
Check(c) ==
    /\ pc[c] = "checking"
    /\ \/ /\ ~running \/ ~SomeRunningRow
          /\ Start(c, kind[c])
       \/ /\ running /\ SomeRunningRow
          /\ pc' = [pc EXCEPT ![c] =
                      IF kind[c] \in Full /\ trigger \in Background
                      THEN "interrupting" ELSE "done"]
          /\ UNCHANGED <<flags, number>>
    /\ UNCHANGED <<kind, pulls, table, expired, mode, crashes>>

\* interruptBackgroundRunForManualSync, then the call starts without looking
\* at the flags again.  The pull of the interrupted run goes on.
Interrupt(c) ==
    /\ pc[c] = "interrupting"
    /\ log' = [d \in Calls |->
                 IF log[d] = "RUNNING" /\ kind[d] \in Background
                 THEN "FAILED" ELSE log[d]]
    /\ Start(c, kind[c])
    /\ UNCHANGED <<kind, pulls, startedAt, cursor, inserts, expired, mode, crashes>>

Insert(c) ==
    /\ pc[c] = "inserting"
    /\ log' = [log EXCEPT ![c] = "RUNNING"]
    /\ startedAt' = [startedAt EXCEPT ![c] = inserts + 1]
    /\ inserts' = inserts + 1
    /\ pc' = [pc EXCEPT ![c] = IF kind[c] \in RunKinds THEN "reading" ELSE "pulling"]
    /\ pulls' = IF kind[c] \in RunKinds THEN pulls ELSE pulls \cup {c}
    /\ UNCHANGED <<flags, kind, number, cursor, expired, mode, crashes>>

\* The insert is rejected: it is outside the try, so the flags stay taken.
InsertFails(c) ==
    /\ pc[c] = "inserting"
    /\ pc' = [pc EXCEPT ![c] = "dead"]
    /\ UNCHANGED <<flags, kind, number, pulls, table, expired, mode, crashes>>

\* lastCursor() has answered and pullAll starts.
ReadCursor(c) ==
    /\ pc[c] = "reading"
    /\ pc' = [pc EXCEPT ![c] = "pulling"]
    /\ pulls' = pulls \cup {c}
    /\ UNCHANGED <<flags, kind, number, table, expired, mode, crashes>>

\* The pull ends or fails; nobody may be waiting for it any more.
PullEnds(c) ==
    /\ c \in pulls
    /\ pulls' = pulls \ {c}
    /\ \/ /\ pc[c] = "pulling"
          /\ \E next \in IF kind[c] \in RunKinds THEN {"rechecking", "failing"}
                                               ELSE {"succeeding", "rejecting"} :
               pc' = [pc EXCEPT ![c] = next]
       \/ /\ pc[c] # "pulling"
          /\ UNCHANGED pc
    /\ UNCHANGED <<flags, kind, number, table, expired, mode, crashes>>

\* withSyncTimeout rejects; the promise it raced is not stopped.
TimesOut(c) ==
    /\ pc[c] = "pulling"
    /\ kind[c] \in RunKinds
    /\ c \in expired
    /\ pc' = [pc EXCEPT ![c] = "failing"]
    /\ UNCHANGED <<flags, kind, number, pulls, table, expired, mode, crashes>>

\* Mutant of Recheck: run() does not read its row again before closing it.
MutRecheck(c) ==
    /\ pc[c] = "rechecking"
    /\ pc' = [pc EXCEPT ![c] = "succeeding"]
    /\ UNCHANGED <<flags, kind, number, pulls, table, expired, mode, crashes>>

\* run() reads its row again: a row somebody else closed is left alone.
Recheck(c) ==
    /\ \/ /\ pc[c] \in {"rechecking", "failing"}
          /\ log[c] # "RUNNING"
          /\ pc' = [pc EXCEPT ![c] = "done"]
          /\ Release(c)
       \/ /\ pc[c] = "rechecking"
          /\ log[c] = "RUNNING"
          /\ pc' = [pc EXCEPT ![c] = "succeeding"]
          /\ UNCHANGED flags
       \/ /\ pc[c] = "failing"
          /\ log[c] = "RUNNING"
          /\ pc' = [pc EXCEPT ![c] = "rejecting"]
          /\ UNCHANGED flags
    /\ UNCHANGED <<kind, number, pulls, table, expired, mode, crashes>>

\* The row becomes SUCCESS, whatever it is now; a run stores the cursor that
\* computeCursor read between its second look at the row and this update.
Succeeds(c) ==
    /\ pc[c] = "succeeding"
    /\ log' = [log EXCEPT ![c] = "SUCCESS"]
    /\ cursor' = IF kind[c] \in RunKinds THEN cursor \cup {c} ELSE cursor
    /\ pc' = [pc EXCEPT ![c] = "recording"]
    /\ UNCHANGED <<flags, kind, number, pulls, startedAt, inserts, expired, mode, crashes>>

\* The row becomes FAILED, whatever it is now.
Rejects(c) ==
    /\ pc[c] = "rejecting"
    /\ log' = [log EXCEPT ![c] = "FAILED"]
    /\ pc' = [pc EXCEPT ![c] = "recording"]
    /\ UNCHANGED <<flags, kind, number, pulls, startedAt, cursor, inserts, expired, mode, crashes>>

\* The audit record or the notification is written, and the call returns.
Returns(c) ==
    /\ pc[c] = "recording"
    /\ pc' = [pc EXCEPT ![c] = "done"]
    /\ Release(c)
    /\ UNCHANGED <<kind, number, pulls, table, expired, mode, crashes>>

\* scheduledTick() and state(), which every status page polls.
Poll ==
    /\ mode = "up"
    /\ FailTimedOutRuns
    /\ UNCHANGED <<flags, calls, startedAt, cursor, inserts, expired, mode, crashes>>

\* The row of c gets older than SYNC_MAX_DURATION_MINUTES (its age is looked at
\* only while the call is in flight).
Expire(c) ==
    /\ pc[c] \in Working
    /\ log[c] # "none"
    /\ c \notin expired
    /\ expired' = expired \cup {c}
    /\ UNCHANGED <<flags, calls, table, mode, crashes>>

Crash ==
    /\ mode = "up"
    /\ crashes < MaxCrashes
    /\ crashes' = crashes + 1
    /\ mode' = "down"
    /\ trigger' = "none"
    /\ sequence' = 0
    /\ pc' = [c \in Calls |-> IF pc[c] \in {"idle", "done"} THEN pc[c] ELSE "dead"]
    /\ pulls' = {}
    /\ UNCHANGED <<kind, number, table, expired>>

\* onModuleInit: failInterruptedRuns, before the server takes any call.
Boot ==
    /\ mode = "down"
    /\ mode' = "up"
    /\ log' = [c \in Calls |-> IF log[c] = "RUNNING" THEN "FAILED" ELSE log[c]]
    /\ UNCHANGED <<flags, calls, startedAt, cursor, inserts, expired, crashes>>

-----------------------------------------------------------------------------
Step(c) ==
    \/ Check(c) \/ Interrupt(c) \/ Insert(c) \/ ReadCursor(c)
    \/ Recheck(c) \/ Succeeds(c) \/ Rejects(c) \/ Returns(c)

Next ==
    \/ \E c \in Calls, k \in Kinds : Enter(c, k)
    \/ \E c \in Calls : Step(c) \/ InsertFails(c) \/ PullEnds(c) \/ TimesOut(c) \/ Expire(c)
    \/ Poll
    \/ Crash
    \/ Boot

Spec == Init /\ [][Next]_vars

\* Queries are answered, timeouts fire, rows age and the tick of every minute
\* happens.  BioTime may never answer a pull, nobody has to call anything, and
\* nothing starts a process again that has died.
FairSpec ==
    /\ Spec
    /\ WF_vars(Poll)
    /\ \A c \in Calls :
        WF_vars(Step(c)) /\ WF_vars(TimesOut(c)) /\ WF_vars(Expire(c))

-----------------------------------------------------------------------------
(* Properties                                                              *)

InFlight(c) == pc[c] \in Working

\* The call that took the flags last.
Holder(c) == InFlight(c) /\ number[c] = sequence

\* The flags are taken exactly while the call that took them last is in
\* flight: neither an older run that returns late (finally), nor a call that
\* drops "incoherent" flags, nor an interruption frees them under it, and
\* nothing but a failed insert leaves them taken (run, finally).
FlagsFollowHolder ==
    /\ \A c \in Calls : Holder(c) => running /\ trigger = kind[c]
    /\ running =>
         \E c \in Calls : number[c] = sequence /\ (InFlight(c) \/ pc[c] = "dead")

\* While the server is up, a RUNNING row belongs to a call that is still in
\* flight and will close it: no interruption, timeout or restart leaves a row
\* RUNNING that nobody works on (failInterruptedRuns, run, backfillPunches).
RunningRowHasOwner ==
    mode = "up" => \A c \in Calls : log[c] = "RUNNING" => InFlight(c)

\* Flags and rows both have the call they are about: neither outlives it, and
\* neither is taken from it (run, failInterruptedRuns).
RunsAreHeld == FlagsFollowHolder /\ RunningRowHasOwner

\* The row of a run() is closed and the run has no update of it under way.
Settled(c) ==
    /\ kind[c] \in RunKinds
    /\ log[c] \in {"FAILED", "SUCCESS"}
    /\ pc[c] \notin {"succeeding", "rejecting"}

\* The verdict on the row of a run stands for good, be it that of an
\* interruption, a timeout, a restart or the run itself, unless the run had
\* already sent its final update: a pull that ends late changes nothing (run).
VerdictStands ==
    [][\A c \in Calls : Settled(c) => Settled(c)' /\ log'[c] = log[c]]_vars

\* Every row leaves RUNNING, even when BioTime never answers and whatever the
\* crashes, as long as somebody starts the server again after each of them: the
\* timeout of the run, the tick or the restart closes it.
RunningRowCloses ==
    []<>(mode = "up") =>
        \A c \in Calls : log[c] = "RUNNING" ~> log[c] # "RUNNING"
=============================================================================
