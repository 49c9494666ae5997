-------------------------- MODULE AttendanceBlocks --------------------------
(***************************************************************************)
(* AttendanceBlocksService (src/apps/api/src/attendance/                   *)
(* attendance-blocks.service.ts): rows of attendance_block, the in-memory  *)
(* map of timers that moves them through SCHEDULED, ACTIVE, COMPLETED, the *)
(* cancel request, and the replay of the rows when the process restarts.   *)
(*                                                                         *)
(* Every handler reads the row, awaits, and then updates it by its id with *)
(* no condition on the status, so each read and each write is a step of    *)
(* its own.  The continuation that runs between two awaits is synchronous  *)
(* and belongs to the step of the database answer that starts it.          *)
(*                                                                         *)
(* A query may fail.  In a request it ends the request with an error; in a *)
(* timer callback or in the replay nobody catches it (void this.activate), *)
(* and an unhandled rejection ends the Node process: that is a Crash.      *)
(***************************************************************************)
EXTENDS Integers

CONSTANTS
    Blocks,      \* ids of attendance_block rows
    Requests,    \* cancel requests that may be in flight at once
    NoTimer,     \* no timeout registered
    MaxTime,     \* bound on the clock
    TimerMax,    \* longest delay setTimeout honours (2^31-1 ms), in ticks
    MaxCrashes   \* bound on the number of process crashes

ASSUME TimeAssumption ==
    /\ MaxTime \in Nat
    /\ TimerMax \in Nat
    /\ MaxCrashes \in Nat
    /\ NoTimer \notin Int

VARIABLES
    now,          \* wall clock
    status,       \* attendance_block.status, "ABSENT" before the insert
    from, to,     \* startsAt, endsAt
    startTimer,   \* due time of timers.get(id).start, or NoTimer
    endTimer,     \* due time of timers.get(id).end, or NoTimer
    arming,       \* status create() inserted, until it has scheduled the row
    activating,   \* progress of the activate() callback of a block
    completing,   \* progress of the complete() callback of a block
    cancelling,   \* what each cancel request is about to update, if any
    mode,         \* process life cycle
    bootTime,     \* `now` of restorePersistentSchedule
    found,        \* rows its findMany returned and its loop has not handled
    promoting,    \* rows whose activate() the loop awaits (at most one)
    crashes,      \* crashes so far
    dropped,      \* history: blocks a failed query left without their timers
    hurried       \* history: instants of a block beyond setTimeout when armed

rows == <<status, from, to>>
timers == <<startTimer, endTimer>>
handlers == <<arming, activating, completing, cancelling>>
boot == <<mode, bootTime, found, promoting>>
histories == <<dropped, hurried>>
vars == <<now, rows, timers, handlers, boot, crashes, histories>>

-----------------------------------------------------------------------------
Time == 0..MaxTime
Closed == {"COMPLETED", "CANCELLED"}
OpenStatus == {"SCHEDULED", "ACTIVE"}
Progress == {"none", "fired", "read"}

\* Mutant of Open: isOpenStatus forgets ACTIVE.
MutOpen(b) == status[b] = "SCHEDULED"

\* isOpenStatus
Open(b) == status[b] \in OpenStatus

\* Mutant of Due: Math.min for Math.max.
MutDue(t) == IF t <= now THEN t ELSE now

\* A delay that does not fit a signed 32-bit integer.
TooFar(t) == t - now > TimerMax

\* Delay given to setTimeout for the instant t: Math.max(0, t - now), and Node
\* fires at once a timeout whose delay is too long.
Due(t) == IF t <= now \/ TooFar(t) THEN now ELSE t

\* scheduleBlock(row) for a row whose status is st: no start timer unless st
\* is SCHEDULED, always an end timer (both earlier timers are cleared).
Arm(b, st) ==
    /\ startTimer' = [startTimer EXCEPT
                        ![b] = IF st = "SCHEDULED" THEN Due(from[b]) ELSE NoTimer]
    /\ endTimer' = [endTimer EXCEPT ![b] = Due(to[b])]
    /\ hurried' = [hurried EXCEPT
                     ![b] = @ \cup {t \in {to[b]} \cup IF st = "SCHEDULED" THEN {from[b]} ELSE {} :
                                      TooFar(t)}]

\* clearTimers(blockId)
ClearTimers(b) ==
    /\ startTimer' = [startTimer EXCEPT ![b] = NoTimer]
    /\ endTimer' = [endTimer EXCEPT ![b] = NoTimer]

TypeOK ==
    /\ now \in Time
    /\ status \in [Blocks -> {"ABSENT"} \cup OpenStatus \cup Closed]
    /\ from \in [Blocks -> Time]
    /\ to \in [Blocks -> Time]
    /\ startTimer \in [Blocks -> Time \cup {NoTimer}]
    /\ endTimer \in [Blocks -> Time \cup {NoTimer}]
    /\ arming \in [Blocks -> {"none"} \cup OpenStatus]
    /\ activating \in [Blocks -> Progress]
    /\ completing \in [Blocks -> Progress]
    /\ cancelling \in [Requests -> SUBSET Blocks]
    /\ mode \in {"up", "down", "closing", "restoring"}
    /\ bootTime \in Time
    /\ found \in [Blocks -> {"none"} \cup OpenStatus]
    /\ promoting \in SUBSET Blocks
    /\ crashes \in 0..MaxCrashes
    /\ dropped \in SUBSET Blocks
    /\ hurried \in [Blocks -> SUBSET Time]

Init ==
    /\ now = 0
    /\ status = [b \in Blocks |-> "ABSENT"]
    /\ from = [b \in Blocks |-> 0]
    /\ to = [b \in Blocks |-> 0]
    /\ startTimer = [b \in Blocks |-> NoTimer]
    /\ endTimer = [b \in Blocks |-> NoTimer]
    /\ arming = [b \in Blocks |-> "none"]
    /\ activating = [b \in Blocks |-> "none"]
    /\ completing = [b \in Blocks |-> "none"]
    /\ cancelling = [r \in Requests |-> {}]
    /\ mode = "up"
    /\ bootTime = 0
    /\ found = [b \in Blocks |-> "none"]
    /\ promoting = {}
    /\ crashes = 0
    /\ dropped = {}
    /\ hurried = [b \in Blocks |-> {}]

-----------------------------------------------------------------------------
(* Requests                                                                *)


\* create(): a block already finished when it is created is SCHEDULED too.
Create(b, s, e) ==
    /\ mode = "up"
    /\ status[b] = "ABSENT"
    /\ s < e
    /\ LET st == IF s <= now /\ now < e THEN "ACTIVE" ELSE "SCHEDULED"
       IN  /\ status' = [status EXCEPT ![b] = st]
           /\ arming' = [arming EXCEPT ![b] = st]
    /\ from' = [from EXCEPT ![b] = s]
    /\ to' = [to EXCEPT ![b] = e]
    /\ UNCHANGED <<now, timers, activating, completing, cancelling, boot, crashes, histories>>

\* The rest of create(), once the insert has answered: scheduleBlock(block)
\* with the row as inserted, whatever happened to it since.
CreateArms(b) ==
    /\ arming[b] # "none"
    /\ Arm(b, arming[b])
    /\ arming' = [arming EXCEPT ![b] = "none"]
    /\ dropped' = dropped \ {b}
    /\ UNCHANGED <<now, rows, activating, completing, cancelling, boot, crashes>>

\* The row is inserted, but the answer is lost: create() throws.
CreateFails(b) ==
    /\ arming[b] # "none"
    /\ arming' = [arming EXCEPT ![b] = "none"]
    /\ dropped' = dropped \cup {b}
    /\ UNCHANGED <<now, rows, timers, activating, completing, cancelling, boot,
                   crashes, hurried>>

\* cancel() up to its update: the row read is open, its timers are cleared.
CancelReads(r, b) ==
    /\ mode = "up"
    /\ cancelling[r] = {}
    /\ Open(b)
    /\ ClearTimers(b)
    /\ cancelling' = [cancelling EXCEPT ![r] = {b}]
    /\ UNCHANGED <<now, rows, arming, activating, completing, boot, crashes, histories>>

\* The update of cancel(), by id, whatever the status has become.
CancelWrites(r, b) ==
    /\ b \in cancelling[r]
    /\ status' = [status EXCEPT ![b] = "CANCELLED"]
    /\ cancelling' = [cancelling EXCEPT ![r] = {}]
    /\ UNCHANGED <<now, from, to, timers, arming, activating, completing, boot,
                   crashes, histories>>

\* The update of cancel() fails: the row stays open, and its timers are gone.
CancelFails(r, b) ==
    /\ b \in cancelling[r]
    /\ cancelling' = [cancelling EXCEPT ![r] = {}]
    /\ dropped' = dropped \cup {b}
    /\ UNCHANGED <<now, rows, timers, arming, activating, completing, boot,
                   crashes, hurried>>

-----------------------------------------------------------------------------
(* Timer callbacks                                                         *)

FireStart(b) ==
    /\ startTimer[b] # NoTimer
    /\ startTimer[b] <= now
    /\ startTimer' = [startTimer EXCEPT ![b] = NoTimer]
    /\ activating' = [activating EXCEPT ![b] = "fired"]
    /\ UNCHANGED <<now, rows, endTimer, arming, completing, cancelling, boot, crashes, histories>>

\* Mutant of ActivateReads: no test of the status.
MutActivateReads(b) ==
    /\ activating[b] = "fired"
    /\ activating' = [activating EXCEPT ![b] = "read"]
    /\ UNCHANGED <<now, rows, timers, arming, completing, cancelling, boot, crashes, histories>>

\* activate() reads the row and returns unless it is SCHEDULED.
ActivateReads(b) ==
    /\ activating[b] = "fired"
    /\ activating' = [activating EXCEPT
                        ![b] = IF status[b] = "SCHEDULED" THEN "read" ELSE "none"]
    /\ UNCHANGED <<now, rows, timers, arming, completing, cancelling, boot, crashes, histories>>

\* activate() updates the row by id.
ActivateWrites(b) ==
    /\ activating[b] = "read"
    /\ status' = [status EXCEPT ![b] = "ACTIVE"]
    /\ activating' = [activating EXCEPT ![b] = "none"]
    /\ UNCHANGED <<now, from, to, timers, arming, completing, cancelling, boot, crashes, histories>>

FireEnd(b) ==
    /\ endTimer[b] # NoTimer
    /\ endTimer[b] <= now
    /\ endTimer' = [endTimer EXCEPT ![b] = NoTimer]
    /\ completing' = [completing EXCEPT ![b] = "fired"]
    /\ UNCHANGED <<now, rows, startTimer, arming, activating, cancelling, boot, crashes, histories>>

\* complete() reads the row and, when it is open, clears its timers.
CompleteReads(b) ==
    /\ completing[b] = "fired"
    /\ \/ /\ Open(b)
          /\ ClearTimers(b)
          /\ completing' = [completing EXCEPT ![b] = "read"]
       \/ /\ ~Open(b)
          /\ completing' = [completing EXCEPT ![b] = "none"]
          /\ UNCHANGED timers
    /\ UNCHANGED <<now, rows, arming, activating, cancelling, boot, crashes, histories>>

\* complete() updates the row by id.
CompleteWrites(b) ==
    /\ completing[b] = "read"
    /\ status' = [status EXCEPT ![b] = "COMPLETED"]
    /\ completing' = [completing EXCEPT ![b] = "none"]
    /\ UNCHANGED <<now, from, to, timers, arming, activating, cancelling, boot, crashes, histories>>

-----------------------------------------------------------------------------
(* Crash and restart.  onModuleInit is awaited before the server listens,  *)
(* so no request runs between Restart and the end of the replay; the       *)
(* timers it has already registered may fire.                              *)

Crash ==
    /\ mode # "down"
    /\ crashes < MaxCrashes
    /\ crashes' = crashes + 1
    /\ mode' = "down"
    /\ startTimer' = [b \in Blocks |-> NoTimer]
    /\ endTimer' = [b \in Blocks |-> NoTimer]
    /\ arming' = [b \in Blocks |-> "none"]
    /\ activating' = [b \in Blocks |-> "none"]
    /\ completing' = [b \in Blocks |-> "none"]
    /\ cancelling' = [r \in Requests |-> {}]
    /\ found' = [b \in Blocks |-> "none"]
    /\ promoting' = {}
    /\ dropped' = {}
    /\ UNCHANGED <<now, rows, bootTime, hurried>>

\* restorePersistentSchedule takes the time; its first query is in flight.
Restart ==
    /\ mode = "down"
    /\ mode' = "closing"
    /\ bootTime' = now
    /\ UNCHANGED <<now, rows, timers, handlers, found, promoting, crashes, histories>>

\* updateMany closes the open rows that ended while the process was down;
\* findMany returns those that have not (no other handler runs in between).
CloseEnded ==
    status' = [b \in Blocks |->
                 IF Open(b) /\ to[b] <= bootTime THEN "COMPLETED" ELSE status[b]]

FindOpen ==
    found' = [b \in Blocks |->
                IF Open(b) /\ to[b] > bootTime THEN status[b] ELSE "none"]

RestoreReads ==
    /\ mode = "closing"
    /\ CloseEnded
    /\ FindOpen
    /\ mode' = "restoring"
    /\ UNCHANGED <<now, from, to, timers, handlers, bootTime, promoting, crashes, histories>>

\* The loop on a row that is not to be activated: scheduleBlock(block).
RestoreArms(b) ==
    /\ found[b] # "none"
    /\ promoting = {}
    /\ ~(from[b] <= bootTime /\ found[b] = "SCHEDULED")
    /\ Arm(b, found[b])
    /\ found' = [found EXCEPT ![b] = "none"]
    /\ UNCHANGED <<now, rows, handlers, mode, bootTime, promoting, crashes, dropped>>

\* The loop on a started SCHEDULED row: activate() reads it ...
RestorePromotes(b) ==
    /\ found[b] = "SCHEDULED"
    /\ promoting = {}
    /\ from[b] <= bootTime
    /\ status[b] = "SCHEDULED"
    /\ promoting' = {b}
    /\ UNCHANGED <<now, rows, timers, handlers, mode, bootTime, found, crashes, histories>>

\* ... updates it, and the row it returns is scheduled.
RestorePromoted(b) ==
    /\ b \in promoting
    /\ status' = [status EXCEPT ![b] = "ACTIVE"]
    /\ Arm(b, "ACTIVE")
    /\ found' = [found EXCEPT ![b] = "none"]
    /\ promoting' = {}
    /\ UNCHANGED <<now, from, to, handlers, mode, bootTime, crashes, dropped>>

\* The replay is over and the server starts listening.
RestoreEnds ==
    /\ mode = "restoring"
    /\ \A b \in Blocks : found[b] = "none"
    /\ mode' = "up"
    /\ UNCHANGED <<now, rows, timers, handlers, bootTime, found, promoting, crashes, histories>>

Tick ==
    /\ now < MaxTime
    /\ now' = now + 1
    /\ UNCHANGED <<rows, timers, handlers, boot, crashes, histories>>

-----------------------------------------------------------------------------
Callback(b) ==
    \/ CreateArms(b) \/ CreateFails(b)
    \/ FireStart(b) \/ ActivateReads(b) \/ ActivateWrites(b)
    \/ FireEnd(b) \/ CompleteReads(b) \/ CompleteWrites(b)
    \/ \E r \in Requests : CancelWrites(r, b) \/ CancelFails(r, b)

Replay ==
    \/ RestoreReads \/ RestoreEnds
    \/ \E b \in Blocks : RestoreArms(b) \/ RestorePromotes(b) \/ RestorePromoted(b)

Next ==
    \/ \E b \in Blocks, s, e \in Time : Create(b, s, e)
    \/ \E r \in Requests, b \in Blocks : CancelReads(r, b)
    \/ \E b \in Blocks : Callback(b)
    \/ Crash
    \/ Restart
    \/ Replay
    \/ Tick

Spec == Init /\ [][Next]_vars

\* What was issued ends: timers fire, the database answers or refuses, time
\* passes.  Users owe nothing, nor does whoever starts a process that is down.
Fairness ==
    /\ WF_vars(Tick)
    /\ WF_vars(Replay)
    /\ \A b \in Blocks :
        /\ WF_vars(CreateArms(b) \/ CreateFails(b))
        /\ WF_vars(FireStart(b))
        /\ WF_vars(ActivateReads(b) \/ ActivateWrites(b))
        /\ WF_vars(FireEnd(b))
        /\ WF_vars(CompleteReads(b) \/ CompleteWrites(b))
        /\ WF_vars(\E r \in Requests : CancelWrites(r, b) \/ CancelFails(r, b))

FairSpec == Spec /\ Fairness

-----------------------------------------------------------------------------
(* Properties                                                              *)

\* The instant t of block b has come, or it was too far away for setTimeout when
\* its timer was registered.
Come(b, t) == t <= now \/ t \in hurried[b]

\* No chain of timers, callbacks and restarts activates a block before its
\* startsAt or completes it before its endsAt, unless that instant was further
\* away than setTimeout can hold when its timer was registered, which then fires
\* at once (activate, complete, restorePersistentSchedule).
NeverEarly ==
    \A b \in Blocks :
        /\ status[b] = "ACTIVE" => Come(b, from[b])
        /\ status[b] = "COMPLETED" => Come(b, to[b])

\* A cancel request that has cleared the timers of b and not yet updated it.
BeingCancelled(b) == \E r \in Requests : b \in cancelling[r]

\* Something in this process is about to move the SCHEDULED block b on, no
\* later than the clock reaches its startsAt.
Watched(b) ==
    \/ arming[b] = "SCHEDULED"
    \/ startTimer[b] # NoTimer /\ (startTimer[b] <= from[b] \/ startTimer[b] <= now)
    \/ activating[b] # "none"
    \/ completing[b] = "read"
    \/ BeingCancelled(b)

\* While the server listens, no SCHEDULED row is forgotten: whatever creations,
\* cancellations, firings and restarts overlapped, a timer, a callback or a
\* request is there to move it on (the timers map against the table).  Only a
\* query that failed in this process leaves a row without them: the update of
\* cancel() after it has cleared the timers, or the answer to an insert.
ScheduledIsWatched ==
    mode = "up" =>
        \A b \in Blocks : status[b] = "SCHEDULED" => Watched(b) \/ b \in dropped

\* A block is neither ahead of its window nor forgotten behind it: its status
\* is what the clock allows, and somebody will move it on (scheduleBlock).
BlocksAreTimely == NeverEarly /\ ScheduledIsWatched

\* A row the replay loop still holds is the row of the table: the loop reads
\* it before awaiting the activation of others (restorePersistentSchedule).
ReplayRowsFresh ==
    \A b \in Blocks : found[b] # "none" => found[b] = status[b]

\* A callback that has read b open, or a cancel about to write.
StaleReader(b) ==
    activating[b] = "read" \/ completing[b] = "read" \/ BeingCancelled(b)

\* Closed, and no handler left that read the block while it was open.
Settled(b) == status[b] \in Closed /\ ~StaleReader(b)

\* Once no handler holds an older read of it, a closed block is closed for
\* good: no timer still registered for it, no request and no restart reopens
\* it or gets past its own test of the status (activate, complete, cancel).
ClosedIsFinal ==
    [][\A b \in Blocks :
        Settled(b) => Settled(b)' /\ status'[b] = status[b]]_vars

\* A SCHEDULED block leaves SCHEDULED, unless a failed query drops it.
ScheduledMovesOn ==
    \A b \in Blocks :
        status[b] = "SCHEDULED" ~> status[b] # "SCHEDULED" \/ b \in dropped

\* An ACTIVE block whose end timer is registered is eventually closed, even when
\* the process crashes first and the replay has to take over, with that exception.
ArmedBlockCloses ==
    \A b \in Blocks :
        status[b] = "ACTIVE" /\ endTimer[b] # NoTimer
            ~> status[b] \in Closed \/ b \in dropped

\* Every block reaches its next status, across crashes, provided that somebody
\* starts the process again whenever it is down: nothing in the repository does
\* it by itself (activate, complete, restorePersistentSchedule).
BlocksMoveOn == []<>(mode # "down") => ScheduledMovesOn /\ ArmedBlockCloses
=============================================================================
