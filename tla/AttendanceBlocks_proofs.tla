----------------------- MODULE AttendanceBlocks_proofs -----------------------
(***************************************************************************)
(* Theorems about AttendanceBlocks: type correctness, that no SCHEDULED    *)
(* block is ever forgotten, and that no block changes status ahead of its  *)
(* window as long as the delays fit what setTimeout honours.               *)
(***************************************************************************)
EXTENDS AttendanceBlocks, TLAPS

\* What Due computes: an instant that is never before now and, when setTimeout
\* can hold t, never before t; in any case no later than t or at once.
LEMMA DueFacts ==
    ASSUME NEW t \in Time, now \in Time
    PROVE  /\ Due(t) \in Time
           /\ Due(t) <= t \/ Due(t) <= now
           /\ t <= Due(t) \/ TooFar(t)
  BY TimeAssumption DEF Due, TooFar, Time

LEMMA NoTimerIsNoTime == NoTimer \notin Time
  BY TimeAssumption DEF Time

-----------------------------------------------------------------------------
\* Every reachable state of the service has the types of TypeOK.
THEOREM TypeCorrect == Spec => []TypeOK
<1>1. Init => TypeOK
  BY TimeAssumption DEF Init, TypeOK, Time, Progress, OpenStatus
<1>2. TypeOK /\ [Next]_vars => TypeOK'
  <2> SUFFICES ASSUME TypeOK, [Next]_vars
               PROVE  TypeOK'
    OBVIOUS
  <2> USE DEF TypeOK, OpenStatus, Closed, Progress, rows, timers, handlers, boot, histories
  <2>1. ASSUME NEW b \in Blocks, NEW s \in Time, NEW e \in Time, Create(b, s, e)
        PROVE  TypeOK'
    BY <2>1 DEF Create
  <2>2. ASSUME NEW r \in Requests, NEW b \in Blocks, CancelReads(r, b)
        PROVE  TypeOK'
    BY <2>2 DEF CancelReads, ClearTimers
  <2>3. ASSUME NEW r \in Requests, NEW b \in Blocks,
               CancelWrites(r, b) \/ CancelFails(r, b)
        PROVE  TypeOK'
    BY <2>3 DEF CancelWrites, CancelFails
  <2>4. ASSUME NEW b \in Blocks, CreateArms(b) \/ CreateFails(b)
        PROVE  TypeOK'
    BY <2>4, DueFacts DEF CreateArms, CreateFails, Arm
  <2>5. ASSUME NEW b \in Blocks, FireStart(b) \/ FireEnd(b)
        PROVE  TypeOK'
    BY <2>5 DEF FireStart, FireEnd
  <2>6. ASSUME NEW b \in Blocks, ActivateReads(b) \/ ActivateWrites(b)
        PROVE  TypeOK'
    BY <2>6 DEF ActivateReads, ActivateWrites
  <2>7. ASSUME NEW b \in Blocks, CompleteReads(b) \/ CompleteWrites(b)
        PROVE  TypeOK'
    BY <2>7 DEF CompleteReads, CompleteWrites, ClearTimers
  <2>8. CASE Crash
    <3>1. crashes' \in 0..MaxCrashes
      BY <2>8, TimeAssumption DEF Crash
    <3> QED BY <2>8, <3>1 DEF Crash
  <2>9. CASE Restart
    BY <2>9 DEF Restart
  <2>10. CASE RestoreReads
    BY <2>10 DEF RestoreReads, CloseEnded, FindOpen, Open
  <2>11. ASSUME NEW b \in Blocks, RestoreArms(b)
         PROVE  TypeOK'
    BY <2>11, DueFacts DEF RestoreArms, Arm
  <2>12. ASSUME NEW b \in Blocks, RestorePromotes(b) \/ RestorePromoted(b)
         PROVE  TypeOK'
    BY <2>12, DueFacts DEF RestorePromotes, RestorePromoted, Arm
  <2>13. CASE RestoreEnds
    BY <2>13 DEF RestoreEnds
  <2>14. CASE Tick
    <3>1. now' \in Time
      BY <2>14, TimeAssumption DEF Tick, Time
    <3> QED BY <2>14, <3>1 DEF Tick
  <2>15. CASE UNCHANGED vars
    BY <2>15 DEF vars
  <2> QED
    BY <2>1, <2>2, <2>3, <2>4, <2>5, <2>6, <2>7, <2>8, <2>9, <2>10, <2>11,
       <2>12, <2>13, <2>14, <2>15
       DEF Next, Callback, Replay
<1> QED BY <1>1, <1>2, PTL DEF Spec

-----------------------------------------------------------------------------
(* No SCHEDULED block is forgotten.                                        *)

\* Nothing in this process holds a timer, a callback or a request for b.
Quiet(b) ==
    /\ startTimer[b] = NoTimer
    /\ endTimer[b] = NoTimer
    /\ arming[b] = "none"
    /\ activating[b] = "none"
    /\ completing[b] = "none"
    /\ ~BeingCancelled(b)

\* The replay: before its first query everything is quiet; a row it still
\* holds is the row of the table and quiet; it holds none once it has ended.
ReplayInv ==
    /\ mode \in {"down", "closing"} =>
         \A b \in Blocks : Quiet(b) /\ found[b] = "none"
    /\ mode # "up" => \A r \in Requests : cancelling[r] = {}
    /\ mode # "up" => \A b \in Blocks : arming[b] = "none"
    /\ mode = "up" => \A b \in Blocks : found[b] = "none"
    /\ mode # "restoring" => promoting = {}
    /\ \A b \in Blocks : found[b] # "none" => found[b] = status[b] /\ Quiet(b)
    /\ \A b \in promoting : found[b] = "SCHEDULED"
    /\ \A a, b \in promoting : a = b

\* Nothing is registered for a block before its insert, and its end timer
\* fires at most once in the life of a process.
LifeInv ==
    \A b \in Blocks :
        /\ status[b] = "ABSENT" => Quiet(b)
        /\ endTimer[b] # NoTimer => completing[b] = "none"
        /\ arming[b] # "none" => endTimer[b] = NoTimer /\ completing[b] = "none"

\* A request updates the one block it read, and the row create() is about to
\* schedule is SCHEDULED whenever the table says so.
RequestInv ==
    /\ \A r \in Requests : \A a, b \in cancelling[r] : a = b
    /\ \A b \in Blocks : arming[b] = "ACTIVE" => status[b] # "SCHEDULED"

\* ScheduledIsWatched, extended to the replay.
WatchInv ==
    mode \in {"up", "restoring"} =>
        \A b \in Blocks :
            status[b] = "SCHEDULED" =>
                Watched(b) \/ found[b] = "SCHEDULED" \/ b \in dropped

IInv == ReplayInv /\ LifeInv /\ RequestInv /\ WatchInv

LEMMA IInvInit == Init => IInv
  BY DEF Init, IInv, ReplayInv, LifeInv, RequestInv, WatchInv, Quiet, BeingCancelled

LEMMA IInvStep == TypeOK /\ IInv /\ [Next]_vars => IInv'
<1> SUFFICES ASSUME TypeOK, IInv, [Next]_vars
             PROVE  IInv'
  OBVIOUS
<1> USE NoTimerIsNoTime
    DEF TypeOK, IInv, ReplayInv, LifeInv, RequestInv, WatchInv, Quiet, Watched,
        BeingCancelled, OpenStatus, Closed, Progress, rows, timers, handlers, boot, histories
<1>1. ASSUME NEW b \in Blocks, NEW s \in Time, NEW e \in Time, Create(b, s, e)
      PROVE  IInv'
  BY <1>1 DEF Create
<1>2. ASSUME NEW r \in Requests, NEW b \in Blocks, CancelReads(r, b)
      PROVE  IInv'
  BY <1>2 DEF CancelReads, ClearTimers, Open
<1>3. ASSUME NEW r \in Requests, NEW b \in Blocks,
             CancelWrites(r, b) \/ CancelFails(r, b)
      PROVE  IInv'
  BY <1>3 DEF CancelWrites, CancelFails
<1>4. ASSUME NEW b \in Blocks, CreateArms(b) \/ CreateFails(b)
      PROVE  IInv'
  BY <1>4, DueFacts DEF CreateArms, CreateFails, Arm
<1>5. ASSUME NEW b \in Blocks, FireStart(b) \/ FireEnd(b)
      PROVE  IInv'
  <2>1. CASE FireStart(b)
    <3>1. found[b] = "none" /\ mode \notin {"down", "closing"}
      BY <2>1 DEF FireStart
    <3>2. ReplayInv' /\ LifeInv' /\ RequestInv'
      BY <2>1, <3>1 DEF FireStart
    <3>3. WatchInv'
      BY <2>1, <3>1 DEF FireStart
    <3> QED BY <3>2, <3>3
  <2>2. CASE FireEnd(b)
    <3>1. found[b] = "none" /\ mode \notin {"down", "closing"}
      BY <2>2 DEF FireEnd
    <3>2. ReplayInv' /\ RequestInv'
      BY <2>2, <3>1 DEF FireEnd
    <3>4. LifeInv'
      BY <2>2, <3>1 DEF FireEnd
    <3>3. ASSUME NEW c \in Blocks, mode' \in {"up", "restoring"},
                 status'[c] = "SCHEDULED"
          PROVE  Watched(c)' \/ found'[c] = "SCHEDULED" \/ c \in dropped'
      BY <2>2, <3>1, <3>3 DEF FireEnd
    <3> QED BY <3>2, <3>3, <3>4
  <2> QED BY <1>5, <2>1, <2>2
<1>6. ASSUME NEW b \in Blocks, ActivateReads(b) \/ ActivateWrites(b)
      PROVE  IInv'
  BY <1>6 DEF ActivateReads, ActivateWrites
<1>7. ASSUME NEW b \in Blocks, CompleteReads(b) \/ CompleteWrites(b)
      PROVE  IInv'
  BY <1>7 DEF CompleteReads, CompleteWrites, ClearTimers, Open
<1>8. CASE Crash
  BY <1>8 DEF Crash
<1>9. CASE Restart
  BY <1>9 DEF Restart
<1>10. CASE RestoreReads
  <2>1. \A b \in Blocks : Quiet(b)
    BY <1>10 DEF RestoreReads
  <2>2. \A b \in Blocks : Quiet(b)'
    BY <1>10, <2>1 DEF RestoreReads
  <2>3. \A b \in Blocks : found'[b] # "none" => found'[b] = status'[b]
    BY <1>10, TimeAssumption DEF RestoreReads, CloseEnded, FindOpen, Open, Time
  <2>4. \A b \in Blocks : status'[b] = "SCHEDULED" => found'[b] = "SCHEDULED"
    BY <1>10, TimeAssumption DEF RestoreReads, CloseEnded, FindOpen, Open, Time
  <2>5. promoting' = {} /\ mode' = "restoring"
    BY <1>10 DEF RestoreReads
  <2>6. UNCHANGED <<cancelling, arming>> /\ \A r \in Requests : cancelling[r] = {}
    BY <1>10 DEF RestoreReads
  <2>7. ReplayInv'
    BY <2>1, <2>2, <2>3, <2>5, <2>6
  <2>8. RequestInv' /\ WatchInv'
    BY <2>1, <2>4, <2>5, <2>6
  <2>9. LifeInv'
    BY <2>2
  <2> QED BY <2>7, <2>8, <2>9
<1>11. ASSUME NEW b \in Blocks, RestoreArms(b)
       PROVE  IInv'
  BY <1>11, DueFacts DEF RestoreArms, Arm
<1>12. ASSUME NEW b \in Blocks, RestorePromotes(b) \/ RestorePromoted(b)
       PROVE  IInv'
  BY <1>12, DueFacts DEF RestorePromotes, RestorePromoted, Arm
<1>13. CASE RestoreEnds
  BY <1>13 DEF RestoreEnds
<1>14. CASE Tick
  BY <1>14, TimeAssumption DEF Tick, Time
<1>15. CASE UNCHANGED vars
  BY <1>15 DEF vars
<1> QED
  BY <1>1, <1>2, <1>3, <1>4, <1>5, <1>6, <1>7, <1>8, <1>9, <1>10, <1>11,
     <1>12, <1>13, <1>14, <1>15
     DEF Next, Callback, Replay

\* While the server listens, every SCHEDULED row has a timer, a callback or a
\* request of this process that will move it on, unless a query failed on it
\* after the timers were cleared or before they were set, for any number of
\* blocks and requests and whatever the longest delay that setTimeout honours.
THEOREM NeverForgotten == Spec => []ScheduledIsWatched
<1>1. TypeOK /\ IInv => ScheduledIsWatched
  BY DEF IInv, ReplayInv, WatchInv, ScheduledIsWatched, TypeOK
<1> QED BY <1>1, IInvInit, IInvStep, TypeCorrect, PTL DEF Spec

\* The rows the replay loop holds are those of the table.
THEOREM ReplayIsFresh == Spec => []ReplayRowsFresh
<1>1. IInv => ReplayRowsFresh
  BY DEF IInv, ReplayInv, ReplayRowsFresh
<1> QED BY <1>1, IInvInit, IInvStep, TypeCorrect, PTL DEF Spec

-----------------------------------------------------------------------------
(* A settled block stays as it is.                                         *)

LEMMA SettledStep ==
    ASSUME TypeOK, IInv, Next, NEW c \in Blocks, Settled(c)
    PROVE  Settled(c)' /\ status'[c] = status[c]
<1> USE DEF TypeOK, Settled, StaleReader, BeingCancelled, Open, OpenStatus, Closed,
            Progress, rows, timers, handlers, boot, histories
<1>1. ASSUME NEW b \in Blocks, NEW s \in Time, NEW e \in Time, Create(b, s, e)
      PROVE  Settled(c)' /\ status'[c] = status[c]
  BY <1>1 DEF Create
<1>2. ASSUME NEW r \in Requests, NEW b \in Blocks,
             CancelReads(r, b) \/ CancelWrites(r, b) \/ CancelFails(r, b)
      PROVE  Settled(c)' /\ status'[c] = status[c]
  BY <1>2 DEF CancelReads, CancelWrites, CancelFails
<1>3. ASSUME NEW b \in Blocks,
             CreateArms(b) \/ CreateFails(b) \/ FireStart(b) \/ FireEnd(b)
      PROVE  Settled(c)' /\ status'[c] = status[c]
  BY <1>3 DEF CreateArms, CreateFails, FireStart, FireEnd
<1>4. ASSUME NEW b \in Blocks, ActivateReads(b) \/ ActivateWrites(b)
      PROVE  Settled(c)' /\ status'[c] = status[c]
  BY <1>4 DEF ActivateReads, ActivateWrites
<1>5. ASSUME NEW b \in Blocks, CompleteReads(b) \/ CompleteWrites(b)
      PROVE  Settled(c)' /\ status'[c] = status[c]
  BY <1>5 DEF CompleteReads, CompleteWrites
<1>6. CASE Crash \/ Restart \/ RestoreEnds \/ Tick
  BY <1>6 DEF Crash, Restart, RestoreEnds, Tick
<1>7. CASE RestoreReads
  BY <1>7 DEF RestoreReads, CloseEnded
<1>8. ASSUME NEW b \in Blocks,
             RestoreArms(b) \/ RestorePromotes(b) \/ RestorePromoted(b)
      PROVE  Settled(c)' /\ status'[c] = status[c]
  <2>1. b \in promoting => status[b] = "SCHEDULED"
    BY DEF IInv, ReplayInv
  <2> QED BY <1>8, <2>1 DEF RestoreArms, RestorePromotes, RestorePromoted
<1> QED
  BY <1>1, <1>2, <1>3, <1>4, <1>5, <1>6, <1>7, <1>8 DEF Next, Callback, Replay

\* No timer, request or restart touches a closed block once the handlers that
\* read it open have finished.
THEOREM ClosedForGood == Spec => ClosedIsFinal
<1>1. TypeOK /\ IInv /\ [Next]_vars
        => [\A b \in Blocks :
               Settled(b) => Settled(b)' /\ status'[b] = status[b]]_vars
  BY SettledStep
<1> QED
  BY <1>1, IInvInit, IInvStep, TypeCorrect, PTL DEF Spec, ClosedIsFinal

-----------------------------------------------------------------------------
(* No block changes status ahead of its window.                            *)

\* Every timer is due no earlier than the instant it stands for, save when that
\* was too far away, every callback and every promotion of the replay is past it.
TimedInv ==
    /\ bootTime <= now
    /\ \A b \in promoting : Come(b, from[b])
    /\ \A b \in Blocks :
        /\ startTimer[b] # NoTimer => from[b] <= startTimer[b] \/ from[b] \in hurried[b]
        /\ endTimer[b] # NoTimer => to[b] <= endTimer[b] \/ to[b] \in hurried[b]
        /\ activating[b] # "none" => Come(b, from[b])
        /\ completing[b] # "none" => Come(b, to[b])

LEMMA TimedStep ==
    ASSUME TypeOK, IInv, TimedInv, NeverEarly, [Next]_vars
    PROVE  (TimedInv /\ NeverEarly)'
<1> USE NoTimerIsNoTime, TimeAssumption
    DEF TypeOK, TimedInv, NeverEarly, Come, OpenStatus, Closed, Progress, Time,
        rows, timers, handlers, boot, histories
<1>1. ASSUME NEW b \in Blocks, NEW s \in Time, NEW e \in Time, Create(b, s, e)
      PROVE  (TimedInv /\ NeverEarly)'
  <2>1. Quiet(b) /\ promoting = {}
    BY <1>1 DEF Create, IInv, LifeInv, ReplayInv
  <2> QED BY <1>1, <2>1 DEF Create, Quiet
<1>2. ASSUME NEW r \in Requests, NEW b \in Blocks,
             CancelReads(r, b) \/ CancelWrites(r, b) \/ CancelFails(r, b)
      PROVE  (TimedInv /\ NeverEarly)'
  BY <1>2 DEF CancelReads, CancelWrites, CancelFails, ClearTimers
<1>3. ASSUME NEW b \in Blocks, CreateArms(b) \/ CreateFails(b)
      PROVE  (TimedInv /\ NeverEarly)'
  <2>1. CASE CreateArms(b)
    <3>1. startTimer'[b] # NoTimer =>
            from[b] <= startTimer'[b] \/ from[b] \in hurried'[b]
      BY <2>1, DueFacts DEF CreateArms, Arm
    <3>2. to[b] <= endTimer'[b] \/ to[b] \in hurried'[b]
      BY <2>1, DueFacts DEF CreateArms, Arm
    <3> QED BY <2>1, <3>1, <3>2 DEF CreateArms, Arm
  <2>2. CASE CreateFails(b)
    BY <2>2 DEF CreateFails
  <2> QED BY <1>3, <2>1, <2>2
<1>4. ASSUME NEW b \in Blocks, FireStart(b) \/ FireEnd(b)
      PROVE  (TimedInv /\ NeverEarly)'
  BY <1>4 DEF FireStart, FireEnd
<1>5. ASSUME NEW b \in Blocks, ActivateReads(b) \/ ActivateWrites(b)
      PROVE  (TimedInv /\ NeverEarly)'
  BY <1>5 DEF ActivateReads, ActivateWrites
<1>6. ASSUME NEW b \in Blocks, CompleteReads(b) \/ CompleteWrites(b)
      PROVE  (TimedInv /\ NeverEarly)'
  BY <1>6 DEF CompleteReads, CompleteWrites, ClearTimers
<1>7. CASE Crash
  BY <1>7 DEF Crash
<1>8. CASE Restart
  BY <1>8 DEF Restart, IInv, ReplayInv
<1>9. CASE RestoreReads
  BY <1>9 DEF RestoreReads, CloseEnded, FindOpen, Open
<1>10. ASSUME NEW b \in Blocks, RestoreArms(b)
       PROVE  (TimedInv /\ NeverEarly)'
  BY <1>10, DueFacts DEF RestoreArms, Arm
<1>11. ASSUME NEW b \in Blocks, RestorePromotes(b) \/ RestorePromoted(b)
       PROVE  (TimedInv /\ NeverEarly)'
  BY <1>11, DueFacts DEF RestorePromotes, RestorePromoted, Arm
<1>12. CASE RestoreEnds
  BY <1>12 DEF RestoreEnds
<1>13. CASE Tick
  BY <1>13 DEF Tick
<1>14. CASE UNCHANGED vars
  BY <1>14 DEF vars
<1> QED
  BY <1>1, <1>2, <1>3, <1>4, <1>5, <1>6, <1>7, <1>8, <1>9, <1>10, <1>11,
     <1>12, <1>13, <1>14
     DEF Next, Callback, Replay

\* No block is ACTIVE before its startsAt or COMPLETED before its endsAt, as long
\* as setTimeout could hold the delays, for any number of blocks, requests, crashes and
\* restarts.
THEOREM NeverAheadOfWindow == Spec => []NeverEarly
<1>1. Init => TimedInv /\ NeverEarly
  BY NoTimerIsNoTime DEF Init, TimedInv, NeverEarly
<1>2. TypeOK /\ IInv /\ TimedInv /\ NeverEarly /\ [Next]_vars
        => (TimedInv /\ NeverEarly)'
  BY TimedStep
<1> QED BY <1>1, <1>2, IInvInit, IInvStep, TypeCorrect, PTL DEF Spec

\* A block is neither ahead of its window nor forgotten behind it.
THEOREM Timely == Spec => []BlocksAreTimely
<1>1. NeverEarly /\ ScheduledIsWatched => BlocksAreTimely
  BY DEF BlocksAreTimely
<1> QED BY <1>1, NeverForgotten, NeverAheadOfWindow, PTL
=============================================================================
