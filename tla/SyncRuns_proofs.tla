--------------------------- MODULE SyncRuns_proofs ---------------------------
(***************************************************************************)
(* Theorems about SyncRuns and about the client its runs go through, for   *)
(* any number of concurrent calls. The runs: the flags follow the call     *)
(* that took them last, a RUNNING row always has an owner and run() never  *)
(* rewrites the verdict on a row closed by somebody else. The client: a    *)
(* write BioTime may have carried out is never sent again, and a listing   *)
(* that returns holds every row it began with, once.                       *)
(***************************************************************************)
EXTENDS SyncRuns, BioTimeClient, TLAPS

\* Every reachable state has the types of TypeOK.
THEOREM TypeCorrect == Spec => []TypeOK
<1>1. Init => TypeOK
  BY CrashAssumption DEF Init, TypeOK, Kinds, RunKinds, Background, Full, Awaits, Working
<1>2. TypeOK /\ [Next]_vars => TypeOK'
  <2> SUFFICES ASSUME TypeOK, [Next]_vars
               PROVE  TypeOK'
    OBVIOUS
  <2> USE DEF TypeOK, Kinds, RunKinds, Background, Full, Awaits, Working,
              flags, calls, table
  <2>1. ASSUME NEW c \in Calls, NEW k \in Kinds, Enter(c, k)
        PROVE  TypeOK'
    BY <2>1 DEF Enter, FailTimedOutRuns, Start
  <2>2. ASSUME NEW c \in Calls, Check(c)
        PROVE  TypeOK'
    BY <2>2 DEF Check, Start
  <2>3. ASSUME NEW c \in Calls, Interrupt(c)
        PROVE  TypeOK'
    BY <2>3 DEF Interrupt, Start
  <2>4. ASSUME NEW c \in Calls, Insert(c) \/ InsertFails(c) \/ ReadCursor(c)
        PROVE  TypeOK'
    BY <2>4 DEF Insert, InsertFails, ReadCursor
  <2>5. ASSUME NEW c \in Calls, PullEnds(c) \/ TimesOut(c) \/ Expire(c)
        PROVE  TypeOK'
    BY <2>5 DEF PullEnds, TimesOut, Expire
  <2>6. ASSUME NEW c \in Calls, Recheck(c) \/ Returns(c)
        PROVE  TypeOK'
    BY <2>6 DEF Recheck, Returns, Release
  <2>7. ASSUME NEW c \in Calls, Succeeds(c) \/ Rejects(c)
        PROVE  TypeOK'
    BY <2>7 DEF Succeeds, Rejects
  <2>8. CASE Poll
    BY <2>8 DEF Poll, FailTimedOutRuns
  <2>9. CASE Crash
    <3>1. crashes' \in 0..MaxCrashes
      BY <2>9, CrashAssumption DEF Crash
    <3> QED BY <2>9, <3>1 DEF Crash
  <2>10. CASE Boot
    BY <2>10 DEF Boot
  <2>11. CASE UNCHANGED vars
    BY <2>11 DEF vars
  <2> QED
    BY <2>1, <2>2, <2>3, <2>4, <2>5, <2>6, <2>7, <2>8, <2>9, <2>10, <2>11
       DEF Next, Step
<1> QED BY <1>1, <1>2, PTL DEF Spec

-----------------------------------------------------------------------------
(* The inductive invariant.                                                *)

\* Calls in flight hold different numbers, none above the counter.
NumberInv ==
    /\ \A c \in Calls : InFlight(c) => 1 <= number[c] /\ number[c] <= sequence
    /\ \A c, d \in Calls : InFlight(c) /\ InFlight(d) /\ number[c] = number[d] => c = d

\* A call that has not inserted its row has none, a call about to return has
\* closed it, and a row is SUCCESS only once its own call has written it.
RowInv ==
    \A c \in Calls :
        /\ pc[c] \in {"idle", "checking", "interrupting", "inserting"} => log[c] = "none"
        /\ pc[c] \in {"recording", "done"} => log[c] # "RUNNING"
        /\ log[c] = "SUCCESS" => pc[c] \in {"recording", "done", "dead"}

\* After a crash no call is under way and no flag is set.
DownInv ==
    mode = "down" =>
        ~running /\ \A c \in Calls : pc[c] \in {"idle", "done", "dead"}

IInv ==
    /\ NumberInv
    /\ RowInv
    /\ DownInv
    /\ FlagsFollowHolder
    /\ RunningRowHasOwner

LEMMA IInvInit == Init => IInv
  BY DEF Init, IInv, NumberInv, RowInv, DownInv, FlagsFollowHolder,
         RunningRowHasOwner, Holder, InFlight, Working, running

LEMMA IInvStep == TypeOK /\ IInv /\ [Next]_vars => IInv'
<1> SUFFICES ASSUME TypeOK, IInv, [Next]_vars
             PROVE  IInv'
  OBVIOUS
<1> USE DEF TypeOK, IInv, NumberInv, RowInv, DownInv, FlagsFollowHolder,
            RunningRowHasOwner, Holder, InFlight, Working, Awaits, running,
            Kinds, RunKinds, Background, Full, flags, calls, table
<1>1. ASSUME NEW c \in Calls, NEW k \in Kinds, Enter(c, k)
      PROVE  IInv'
  BY <1>1 DEF Enter, FailTimedOutRuns, Start
<1>2. ASSUME NEW c \in Calls, Check(c)
      PROVE  IInv'
  BY <1>2 DEF Check, Start
<1>3. ASSUME NEW c \in Calls, Interrupt(c)
      PROVE  IInv'
  BY <1>3 DEF Interrupt, Start
<1>4. ASSUME NEW c \in Calls, Insert(c) \/ InsertFails(c) \/ ReadCursor(c)
      PROVE  IInv'
  BY <1>4 DEF Insert, InsertFails, ReadCursor
<1>5. ASSUME NEW c \in Calls, PullEnds(c) \/ TimesOut(c) \/ Expire(c)
      PROVE  IInv'
  BY <1>5 DEF PullEnds, TimesOut, Expire
<1>6. ASSUME NEW c \in Calls, Recheck(c) \/ Returns(c)
      PROVE  IInv'
  BY <1>6 DEF Recheck, Returns, Release
<1>7. ASSUME NEW c \in Calls, Succeeds(c) \/ Rejects(c)
      PROVE  IInv'
  BY <1>7 DEF Succeeds, Rejects
<1>8. CASE Poll
  BY <1>8 DEF Poll, FailTimedOutRuns
<1>9. CASE Crash
  BY <1>9 DEF Crash
<1>10. CASE Boot
  BY <1>10 DEF Boot
<1>11. CASE UNCHANGED vars
  BY <1>11 DEF vars
<1> QED
  BY <1>1, <1>2, <1>3, <1>4, <1>5, <1>6, <1>7, <1>8, <1>9, <1>10, <1>11
     DEF Next, Step

\* Whatever the overlaps, interruptions, late returns and restarts, the flags
\* are taken exactly while the call that took them last is in flight, or after
\* it died inserting its row.
THEOREM FlagsHaveHolder == Spec => []FlagsFollowHolder
<1>1. IInv => FlagsFollowHolder
  BY DEF IInv
<1> QED BY <1>1, IInvInit, IInvStep, TypeCorrect, PTL DEF Spec

\* While the server is up, no row is RUNNING without a call that will close it.
THEOREM RowsHaveOwners == Spec => []RunningRowHasOwner
<1>1. IInv => RunningRowHasOwner
  BY DEF IInv
<1> QED BY <1>1, IInvInit, IInvStep, TypeCorrect, PTL DEF Spec

\* Flags and rows both have the call they are about, whatever the crashes.
THEOREM RunsHeld == Spec => []RunsAreHeld
<1>1. FlagsFollowHolder /\ RunningRowHasOwner => RunsAreHeld
  BY DEF RunsAreHeld
<1> QED BY <1>1, FlagsHaveHolder, RowsHaveOwners, PTL

LEMMA VerdictStep ==
    ASSUME TypeOK, IInv, Next, NEW d \in Calls, Settled(d)
    PROVE  Settled(d)' /\ log'[d] = log[d]
<1> USE DEF TypeOK, Settled, flags, calls, table
<1>1. pc[d] \notin {"idle", "checking", "interrupting", "inserting"}
  BY DEF IInv, RowInv
<1>2. ASSUME NEW c \in Calls, NEW k \in Kinds, Enter(c, k)
      PROVE  Settled(d)' /\ log'[d] = log[d]
  BY <1>1, <1>2 DEF Enter, FailTimedOutRuns, Start
<1>3. ASSUME NEW c \in Calls, Step(c)
      PROVE  Settled(d)' /\ log'[d] = log[d]
  BY <1>1, <1>3
     DEF Step, Check, Interrupt, Insert, ReadCursor, Recheck, Succeeds, Rejects,
         Returns, Start
<1>4. ASSUME NEW c \in Calls, InsertFails(c) \/ PullEnds(c) \/ TimesOut(c) \/ Expire(c)
      PROVE  Settled(d)' /\ log'[d] = log[d]
  BY <1>1, <1>4 DEF InsertFails, PullEnds, TimesOut, Expire
<1>5. CASE Poll
  BY <1>5 DEF Poll, FailTimedOutRuns
<1>6. CASE Crash \/ Boot
  BY <1>6 DEF Crash, Boot
<1> QED
  BY <1>2, <1>3, <1>4, <1>5, <1>6 DEF Next

\* A closed row of run() is rewritten only by a final update already sent when
\* it was closed.
THEOREM VerdictsStand == Spec => VerdictStands
<1>1. TypeOK /\ IInv /\ [Next]_vars
        => [\A c \in Calls : Settled(c) => Settled(c)' /\ log'[c] = log[c]]_vars
  BY VerdictStep
<1> QED
  BY <1>1, IInvInit, IInvStep, TypeCorrect, PTL DEF Spec, VerdictStands

-----------------------------------------------------------------------------
(* BioTimeClient: types, and how authenticate nests in a call.             *)


\* What a call has listed stays when it authenticates or asks again.
Renewed(r, q) ==
    /\ q.kind = r.kind
    /\ \/ q.pc = "thrown" /\ ~q.shifted
       \/ /\ q.pc \in {"login", "verify", "licence", "request", "web"}
          /\ q.pc = "web" => r.kind = "asset"
          /\ q.page = r.page /\ q.rows = r.rows
          /\ q.present = r.present /\ q.shifted = r.shifted

\* The empty list of rows or of frames.
LEMMA Empty == <<>> \in Seq(Listed) /\ <<>> \in Seq(Frame) /\ Len(<<>>) = 0
OBVIOUS

\* A call before its first exchange is a call.
LEMMA NewCalls == ASSUME NEW k \in Purposes PROVE NewCall(k) \in Call
BY Empty DEF NewCall, Call

\* A call that throws keeps its purpose and nothing else.
LEMMA ThrowsTyped ==
    ASSUME NEW r \in Call
    PROVE  Throws(r) \in Call /\ Nested(Throws(r)) /\ Renewed(r, Throws(r))
<1>1. NewCall(r.kind) \in Call
  BY NewCalls DEF Call
<1>2. Throws(r) \in Call
  BY <1>1 DEF Throws, Call
<1>3. /\ Throws(r).pc = "thrown" /\ Throws(r).frames = <<>>
      /\ Throws(r).kind = r.kind /\ Throws(r).shifted = FALSE
  BY DEF Throws, NewCall
<1> QED BY <1>2, <1>3, Empty DEF Nested, Renewed

\* A call that returns keeps what it has listed.
LEMMA ReturnedTyped ==
    ASSUME NEW r \in Call
    PROVE  /\ Returned(r) \in Call /\ Nested(Returned(r))
           /\ Returned(r).pc = "returned" /\ Returned(r).kind = r.kind
           /\ Returned(r).rows = r.rows /\ Returned(r).present = r.present
           /\ Returned(r).shifted = r.shifted
<1>1. NewCall(r.kind) \in Call
  BY NewCalls DEF Call
<1>2. Returned(r) \in Call
  BY <1>1 DEF Returned, Call
<1>3. /\ Returned(r).pc = "returned" /\ Returned(r).frames = <<>>
      /\ Returned(r).kind = r.kind
  BY DEF Returned, NewCall
<1>4. /\ Returned(r).rows = r.rows /\ Returned(r).present = r.present
      /\ Returned(r).shifted = r.shifted
  BY DEF Returned, NewCall
<1> QED BY <1>2, <1>3, <1>4, Empty DEF Nested

\* A request goes out for the page the call has reached, outside authenticate.
LEMMA SendTyped ==
    ASSUME NEW r \in Call, NEW t \in {None} \cup Tokens
    PROVE  Send(r, t) \in Call /\ Nested(Send(r, t)) /\ Renewed(r, Send(r, t))
<1> DEFINE q == [r EXCEPT !.pc = "request", !.sent = t, !.visited = @ \cup {r.page},
                          !.frames = <<>>]
<1>1. q \in Call
  BY Empty DEF Call
<1>2. /\ q.kind = r.kind /\ q.pc = "request" /\ q.page = r.page /\ q.rows = r.rows
      /\ q.present = r.present /\ q.shifted = r.shifted /\ q.frames = <<>>
  BY DEF Call
<1> HIDE DEF q
<1>3. Nested(q) /\ Renewed(r, q)
  BY <1>2, Empty DEF Nested, Renewed
<1>4. Send(r, t) = IF Blocked(r) THEN Throws(r) ELSE q
  BY DEF Send, q
<1> QED BY <1>1, <1>3, <1>4, ThrowsTyped

\* The renewal of a token is not that of a token being renewed.
LEMMA PushTyped ==
    ASSUME NEW r \in Call, NEW once \in BOOLEAN,
           r.frames = <<>> \/ (Len(r.frames) = 1 /\ ~r.frames[1].once /\ once)
    PROVE  Push(r, once) \in Call /\ Nested(Push(r, once)) /\ Renewed(r, Push(r, once))
<1> DEFINE f == [cand |-> 1, once |-> once]
           stack == Append(r.frames, f)
           q == [r EXCEPT !.pc = "login", !.frames = stack]
<1>1. f \in Frame
  BY ClientAssumption DEF Frame
<1>2. r.frames \in Seq(Frame)
  BY DEF Call
<1>3. Len(r.frames) \in {0, 1}
  BY Empty
<1> HIDE DEF f
<1>4. /\ stack \in Seq(Frame)
      /\ Len(stack) = Len(r.frames) + 1
      /\ stack[Len(r.frames) + 1] = f
  BY <1>1, <1>2
<1>5. stack # <<>> /\ (Len(stack) = 2 => stack[2].once)
  <2>1. stack # <<>>
    <3> SUFFICES ASSUME stack = <<>> PROVE FALSE
      OBVIOUS
    <3>1. Len(stack) = 0
      BY Empty
    <3> QED BY <3>1, <1>3, <1>4
  <2>2. Len(r.frames) = 1 => once
    BY Empty
  <2> QED BY <2>1, <2>2, <1>3, <1>4 DEF f
<1> HIDE DEF stack
<1>6. q \in Call
  BY <1>4 DEF Call
<1>7. /\ q.kind = r.kind /\ q.pc = "login" /\ q.page = r.page /\ q.rows = r.rows
      /\ q.present = r.present /\ q.shifted = r.shifted /\ q.frames = stack
  BY DEF Call
<1>8. Push(r, once) = q
  BY DEF Push, q, stack, f
<1> HIDE DEF q
<1>9. Nested(q)
  <2>1. \A n \in {0, 1} : n + 1 <= 2
    OBVIOUS
  <2>2. Len(stack) <= 2
    BY <1>3, <1>4, <2>1
  <2> QED BY <2>2, <1>5, <1>7 DEF Nested
<1>10. Renewed(r, q)
  BY <1>7 DEF Renewed
<1> QED BY <1>6, <1>8, <1>9, <1>10

\* After a refusal the innermost candidate left is tried, or the call throws.
LEMMA NextTyped ==
    ASSUME NEW r \in Call, Nested(r)
    PROVE  /\ NextCandidate(r) \in Call /\ Nested(NextCandidate(r))
           /\ Renewed(r, NextCandidate(r))
<1> DEFINE left == {i \in DOMAIN r.frames : r.frames[i].cand < Candidates}
           last == CHOOSE i \in left : \A j \in left : j <= i
           kept == [i \in 1..last |-> IF i = last THEN [r.frames[i] EXCEPT !.cand = @ + 1]
                                      ELSE r.frames[i]]
           q == [r EXCEPT !.pc = "login", !.frames = kept]
<1>1. CASE left = {}
  BY <1>1, ThrowsTyped DEF NextCandidate
<1>2. CASE left # {}
  <2>1. DOMAIN r.frames = 1..Len(r.frames) /\ Len(r.frames) \in Nat /\ Len(r.frames) <= 2
    BY DEF Call, Nested
  <2>2. \E i \in left : \A j \in left : j <= i
    <3>1. left \subseteq {1, 2}
      BY <2>1
    <3> QED BY <3>1, <1>2
  <2>3. last \in left
    BY <2>2
  <2>4. NextCandidate(r) = q
    BY <1>2 DEF NextCandidate
  <2> HIDE DEF last
  <2>5. last \in {1, 2} /\ last <= Len(r.frames) /\ r.frames[last].cand < Candidates
    BY <2>3, <2>1
  <2>6. \A i \in 1..Len(r.frames) : r.frames[i] \in Frame
    BY <2>1 DEF Call
  <2>7. \A i \in 1..last : kept[i] \in Frame
    BY <2>5, <2>6, ClientAssumption DEF Frame
  <2>8. kept \in Seq(Frame)
    <3>1. last \in Nat /\ kept \in [1..last -> Frame]
      BY <2>5, <2>7
    <3> HIDE DEF kept
    <3> QED BY <3>1
  <2>9. Len(kept) = last
    BY <2>5
  <2>10. last = 2 => kept[2].once
    <3>1. last = 2 => Len(r.frames) = 2 /\ r.frames[2].once /\ r.frames[2] \in Frame
      <4> SUFFICES ASSUME last = 2 PROVE Len(r.frames) = 2 /\ r.frames[2].once /\ r.frames[2] \in Frame
        OBVIOUS
      <4>1. Len(r.frames) = 2
        <5>1. Len(r.frames) \in Nat /\ Len(r.frames) <= 2
          BY <2>1
        <5>2. last <= Len(r.frames)
          BY <2>5
        <5>3. \A n \in Nat : n <= 2 /\ 2 <= n => n = 2
          OBVIOUS
        <5>4. 2 <= Len(r.frames)
          BY <5>2
        <5> QED BY <5>1, <5>3, <5>4
      <4> QED BY <4>1, <2>6 DEF Nested
    <3> QED BY <3>1 DEF Frame
  <2>11. kept # <<>>
    BY <2>5, <2>9, Empty
  <2> HIDE DEF kept
  <2>12. q \in Call
    BY <2>8 DEF Call
  <2>13. /\ q.kind = r.kind /\ q.pc = "login" /\ q.page = r.page /\ q.rows = r.rows
         /\ q.present = r.present /\ q.shifted = r.shifted /\ q.frames = kept
    BY DEF Call
  <2> HIDE DEF q
  <2> QED BY <2>4, <2>5, <2>9, <2>10, <2>11, <2>12, <2>13 DEF Nested, Renewed
<1> QED BY <1>1, <1>2

\* What a call has read when a page comes, and what becomes of it.
Read(r, q) ==
    /\ q.kind = r.kind /\ q.page = r.page + 1 /\ q.shifted = r.shifted
    /\ q.rows = IF r.page <= Len(stock) THEN Append(r.rows, stock[r.page]) ELSE r.rows
    /\ q.present = IF r.page = 1 THEN ToSet(stock) ELSE r.present

\* An answer ends a call; a listing goes on as long as BioTime has pages.
LEMMA ReceiveTyped ==
    ASSUME NEW r \in Call, stock \in Seq(Listed), token \in {None} \cup Tokens
    PROVE  /\ Receive(r) \in Call /\ Nested(Receive(r))
           /\ r.kind # "list" => Receive(r) = Returned(r)
           /\ r.kind = "list" =>
                \E q \in Call : /\ Read(r, q)
                               /\ IF r.page < Len(stock) THEN Renewed(q, Receive(r))
                                  ELSE Receive(r) = Returned(q)
<1> DEFINE rows == IF r.page <= Len(stock) THEN Append(r.rows, stock[r.page]) ELSE r.rows
           present == IF r.page = 1 THEN ToSet(stock) ELSE r.present
           q == [r EXCEPT !.rows = rows, !.present = present, !.page = @ + 1]
<1>1. rows \in Seq(Listed)
  <2>1. r.rows \in Seq(Listed) /\ r.page \in Nat \ {0}
    BY DEF Call
  <2>2. r.page <= Len(stock) => stock[r.page] \in Listed
    BY <2>1
  <2> QED BY <2>1, <2>2
<1>2. present \in SUBSET Listed
  <2>1. r.present \in SUBSET Listed
    BY DEF Call
  <2> QED BY <2>1 DEF ToSet
<1> HIDE DEF rows, present
<1>3. q \in Call
  <2>1. r.page + 1 \in Nat \ {0}
    BY DEF Call
  <2> QED BY <1>1, <1>2, <2>1 DEF Call
<1>4. /\ q.kind = r.kind /\ q.page = r.page + 1 /\ q.rows = rows
      /\ q.present = present /\ q.shifted = r.shifted
  BY DEF Call
<1>5. Read(r, q)
  BY <1>4 DEF Read, rows, present
<1>6. Receive(r) = IF r.kind # "list" THEN Returned(r)
                   ELSE IF r.page < Len(stock) THEN Send(q, token) ELSE Returned(q)
  BY DEF Receive, rows, present
<1> HIDE DEF q
<1> QED BY <1>3, <1>5, <1>6, SendTyped, ReturnedTyped

\* The frame under way, and why a second one is not opened inside the second.
LEMMA TopTyped ==
    ASSUME NEW r \in Call, Nested(r), r.frames # <<>>
    PROVE  /\ Top(r) \in Frame
           /\ ~Top(r).once => Len(r.frames) = 1 /\ ~r.frames[1].once
<1>1. r.frames \in Seq(Frame)
  BY DEF Call
<1>2. Len(r.frames) \in Nat /\ Len(r.frames) # 0 /\ Len(r.frames) <= 2
  BY <1>1 DEF Nested
<1>3. \A n \in Nat : n # 0 /\ n <= 2 => n = 1 \/ n = 2
  OBVIOUS
<1>4. Len(r.frames) = 1 \/ Len(r.frames) = 2
  BY <1>2, <1>3
<1>5. Top(r) \in Frame
  BY <1>1, <1>2 DEF Top
<1>6. Len(r.frames) = 2 => Top(r).once
  BY DEF Top, Nested
<1>7. Len(r.frames) = 1 => Top(r) = r.frames[1]
  BY DEF Top
<1> QED BY <1>4, <1>5, <1>6, <1>7

-----------------------------------------------------------------------------
(* The types.                                                              *)

\* A step of one call that leaves BioTime as it is keeps the types.
LEMMA CallGoes ==
    ASSUME ClientTypeOK, NEW c \in Requests, NEW q \in Call, Nested(q), Goes(c, q),
           token' \in {None} \cup Tokens, licensed' \in BOOLEAN,
           UNCHANGED <<epoch, lapses, stock>>, executed' \in [Requests -> Nat]
    PROVE  ClientTypeOK'
BY DEF ClientTypeOK, Goes

\* BioTime counts what it carries out.
LEMMA ExecutedOnce ==
    ASSUME ClientTypeOK, NEW c \in Requests, Executes(c)
    PROVE  executed' \in [Requests -> Nat]
BY DEF ClientTypeOK, Executes

\* Every exchange, expiry, lapse and change keeps the types.
LEMMA ClientStep ==
    ASSUME ClientTypeOK, [ClientNext]_clientVars
    PROVE  ClientTypeOK'
<1> USE DEF biotime
<1>0. /\ token \in {None} \cup Tokens /\ licensed \in BOOLEAN
      /\ stock \in Seq(Listed) /\ executed \in [Requests -> Nat]
      /\ \A c \in Requests : call[c] \in Call /\ Nested(call[c])
  BY DEF ClientTypeOK
<1>1. ASSUME NEW c \in Requests, Begin(c) PROVE ClientTypeOK'
  <2>1. CASE token = None
    <3>1. call[c].frames = <<>>
      BY <1>0, <1>1 DEF Begin, Nested
    <3>2. Push(call[c], FALSE) \in Call /\ Nested(Push(call[c], FALSE))
      BY <1>0, <3>1, PushTyped
    <3> QED BY <1>0, <1>1, <2>1, <3>2, CallGoes DEF Begin
  <2>2. CASE token # None
    BY <1>0, <1>1, <2>2, SendTyped, CallGoes DEF Begin
  <2> QED BY <2>1, <2>2
<1>2. ASSUME NEW c \in Requests, Login(c) PROVE ClientTypeOK'
  <2>1. /\ [call[c] EXCEPT !.pc = "verify"] \in Call
        /\ call[c].pc = "login" => Nested([call[c] EXCEPT !.pc = "verify"])
    BY <1>0 DEF Call, Nested
  <2> QED BY <1>0, <1>2, <2>1, NextTyped, CallGoes DEF Login
<1>3. ASSUME NEW c \in Requests, Verified(c) PROVE ClientTypeOK'
  <2>1. token' \in Tokens
    <3>1. call[c].frames # <<>>
      BY <1>0, <1>3 DEF Verified, Nested
    <3>2. Top(call[c]).cand \in 1..Candidates
      BY <1>0, <3>1, TopTyped DEF Frame
    <3>3. epoch \in 0..MaxExpiries
      BY DEF ClientTypeOK
    <3> QED BY <1>3, <3>2, <3>3 DEF Verified, Tokens
  <2> QED BY <1>0, <1>3, <2>1, SendTyped, CallGoes DEF Verified
<1>4. ASSUME NEW c \in Requests, NotVerified(c) PROVE ClientTypeOK'
  BY <1>0, <1>4, NextTyped, CallGoes DEF NotVerified
<1>5. ASSUME NEW c \in Requests, Forbidden(c) PROVE ClientTypeOK'
  <2> DEFINE q == [call[c] EXCEPT !.pc = "licence"]
  <2>1. call[c].frames # <<>> /\ call[c].pc = "verify"
    BY <1>0, <1>5 DEF Forbidden, Nested
  <2>2. Len(call[c].frames) = 1 /\ ~call[c].frames[1].once
    BY <1>0, <1>5, <2>1, TopTyped DEF Forbidden
  <2>3. q \in Call /\ q.pc = "licence" /\ q.frames = call[c].frames
    BY <1>0 DEF Call
  <2>4. Nested(q)
    BY <1>0, <2>1, <2>2, <2>3 DEF Nested
  <2> HIDE DEF q
  <2> QED BY <1>0, <1>5, <2>3, <2>4, CallGoes DEF Forbidden, q
<1>6. ASSUME NEW c \in Requests, Reactivated(c) PROVE ClientTypeOK'
  BY <1>0, <1>6, PushTyped, CallGoes DEF Reactivated, Nested
<1>7. ASSUME NEW c \in Requests, NotReactivated(c) PROVE ClientTypeOK'
  BY <1>0, <1>7, NextTyped, CallGoes DEF NotReactivated
<1>8. ASSUME NEW c \in Requests, Answered(c) PROVE ClientTypeOK'
  BY <1>0, <1>8, ReceiveTyped, ExecutedOnce, CallGoes DEF Answered
<1>9. ASSUME NEW c \in Requests, AnswerLost(c) PROVE ClientTypeOK'
  BY <1>0, <1>9, ThrowsTyped, ExecutedOnce, CallGoes DEF AnswerLost
<1>10. ASSUME NEW c \in Requests, RequestLost(c) PROVE ClientTypeOK'
  BY <1>0, <1>10, ThrowsTyped, CallGoes DEF RequestLost
<1>11. ASSUME NEW c \in Requests, RefusedFor403(c) PROVE ClientTypeOK'
  <2> DEFINE web == [call[c] EXCEPT !.pc = "web"]
         q == [call[c] EXCEPT !.pc = "licence", !.relicensed = TRUE]
  <2>1. call[c].frames = <<>>
    BY <1>0, <1>11 DEF RefusedFor403, Nested
  <2>2. web \in Call /\ web.pc = "web" /\ web.frames = <<>>
    BY <1>0, <2>1 DEF Call
  <2>3. q \in Call /\ q.pc = "licence" /\ q.frames = <<>>
    BY <1>0, <2>1 DEF Call
  <2>4. Nested(web) /\ Nested(q)
    BY <2>2, <2>3, Empty DEF Nested
  <2> HIDE DEF q, web
  <2> QED BY <1>0, <1>11, <2>2, <2>3, <2>4, ThrowsTyped, CallGoes DEF RefusedFor403, q, web
<1>12. ASSUME NEW c \in Requests, RefusedFor401(c) PROVE ClientTypeOK'
  <2> DEFINE web == [call[c] EXCEPT !.pc = "web"]
         q == [call[c] EXCEPT !.reauthenticated = TRUE]
  <2>1. call[c].frames = <<>>
    BY <1>0, <1>12 DEF RefusedFor401, Nested
  <2>2. web \in Call /\ web.pc = "web" /\ web.frames = <<>>
    BY <1>0, <2>1 DEF Call
  <2>3. q \in Call /\ q.frames = <<>>
    BY <1>0, <2>1 DEF Call
  <2>4. Nested(web)
    BY <2>2, Empty DEF Nested
  <2> HIDE DEF q, web
  <2>5. Push(q, FALSE) \in Call /\ Nested(Push(q, FALSE))
    BY <2>3, PushTyped
  <2> QED BY <1>0, <1>12, <2>2, <2>4, <2>5, ThrowsTyped, CallGoes DEF RefusedFor401, q, web
<1>13. ASSUME NEW c \in Requests, AnsweredByPage(c) \/ WebSession(c) PROVE ClientTypeOK'
  <2> DEFINE web == [call[c] EXCEPT !.pc = "web"]
  <2>1. CASE AnsweredByPage(c)
    <3>1. call[c].frames = <<>>
      BY <1>0, <2>1 DEF AnsweredByPage, Nested
    <3>2. web \in Call /\ web.pc = "web" /\ web.frames = <<>>
      BY <1>0, <3>1 DEF Call
    <3>3. Nested(web)
      BY <3>2, Empty DEF Nested
    <3> HIDE DEF web
    <3> QED BY <1>0, <2>1, <3>2, <3>3, CallGoes DEF AnsweredByPage, web
  <2>2. CASE WebSession(c)
    BY <1>0, <2>2, ThrowsTyped, ReturnedTyped, CallGoes DEF WebSession
  <2> QED BY <1>13, <2>1, <2>2
<1>14. CASE TokensExpire
  BY <1>14, ClientAssumption DEF TokensExpire, ClientTypeOK
<1>15. CASE LicenceLapses
  <2>1. lapses' \in 0..MaxLapses
    BY <1>15, ClientAssumption DEF LicenceLapses, ClientTypeOK
  <2> QED BY <1>15, <2>1 DEF LicenceLapses, ClientTypeOK
<1>16. CASE ScheduledReactivation
  BY <1>16 DEF ScheduledReactivation, ClientTypeOK
<1>17. CASE Changes
  <2>1. stock' \in Seq(Listed)
    <3>1. New \in Listed /\ <<New>> \in Seq(Listed) /\ stock \in Seq(Listed)
      BY <1>0 DEF Listed
    <3>2. Append(stock, New) \in Seq(Listed) /\ <<New>> \o stock \in Seq(Listed)
      BY <3>1
    <3>3. stock # <<>> => Tail(stock) \in Seq(Listed)
      BY <3>1
    <3> QED BY <1>17, <3>1, <3>2, <3>3 DEF Changes
  <2>2. ASSUME NEW c \in Requests
        PROVE  [call[c] EXCEPT !.shifted = c \in Listing] \in Call
               /\ Nested([call[c] EXCEPT !.shifted = c \in Listing])
    <3>1. (c \in Listing) \in BOOLEAN
      BY DEF Listing
    <3> DEFINE b == c \in Listing
    <3> HIDE DEF b
    <3>2. [call[c] EXCEPT !.shifted = b] \in Call
      BY <1>0, <3>1 DEF Call, b
    <3>3. Nested([call[c] EXCEPT !.shifted = b])
      BY <1>0 DEF Call, Nested
    <3> QED BY <3>2, <3>3 DEF b
  <2>3. call' \in [Requests -> Call] /\ \A c \in Requests : Nested(call'[c])
    <3>1. CASE UNCHANGED call
      BY <3>1 DEF ClientTypeOK
    <3>2. CASE call' = [c \in Requests |-> [call[c] EXCEPT !.shifted = c \in Listing]]
      BY <3>2, <2>2
    <3> QED BY <1>17, <3>1, <3>2 DEF Changes
  <2> QED BY <1>17, <2>1, <2>3 DEF Changes, ClientTypeOK
<1>18. CASE UNCHANGED clientVars
  BY <1>18 DEF clientVars, ClientTypeOK
<1> QED
  BY <1>1, <1>2, <1>3, <1>4, <1>5, <1>6, <1>7, <1>8, <1>9, <1>10, <1>11, <1>12,
     <1>13, <1>14, <1>15, <1>16, <1>17, <1>18 DEF ClientNext, Exchange

\* Every reachable state has the types of ClientTypeOK; the calls of authenticate()
\* that a reactivation nests never nest another one.
THEOREM ClientTypeCorrect == ClientSpec => []ClientTypeOK
<1>1. ClientInit => ClientTypeOK
  <2> SUFFICES ASSUME ClientInit PROVE ClientTypeOK
    OBVIOUS
  <2>1. stock \in Seq(Listed)
    BY ClientAssumption DEF ClientInit, Listed
  <2>2. \A k \in Purposes : Nested(NewCall(k))
    BY Empty DEF Nested, NewCall
  <2>3. call \in [Requests -> Call]
    BY NewCalls DEF ClientInit
  <2>4. \A c \in Requests : Nested(call[c])
    BY <2>2 DEF ClientInit
  <2> QED BY <2>1, <2>3, <2>4, ClientAssumption DEF ClientInit, ClientTypeOK
<1>2. ClientTypeOK /\ [ClientNext]_clientVars => ClientTypeOK'
  BY ClientStep
<1> QED BY <1>1, <1>2, PTL DEF ClientSpec

-----------------------------------------------------------------------------
(* A step of a request.                                                    *)

\* What a step of a call does: it ends, answered or cut off, or goes on with
\* what it has listed.
LEMMA CallSteps ==
    ASSUME ClientTypeOK, NEW c \in Requests, Begin(c) \/ Exchange(c),
           call[c].pc = "web" => call[c].kind = "asset"
    PROVE  /\ ~Ended(c) /\ UNCHANGED stock
           /\ \/ Answered(c)
              \/ AnswerLost(c)
              \/ /\ Goes(c, Returned(call[c])) /\ call[c].kind = "asset"
                 /\ UNCHANGED executed
              \/ /\ \E q \in Call : Renewed(call[c], q) /\ Goes(c, q)
                 /\ UNCHANGED executed
<1> DEFINE Renews == /\ \E q \in Call : Renewed(call[c], q) /\ Goes(c, q)
                     /\ UNCHANGED executed
<1> USE DEF biotime, Ended
<1>0. /\ token \in {None} \cup Tokens
      /\ call[c] \in Call /\ Nested(call[c])
  BY DEF ClientTypeOK
<1>1. ASSUME Begin(c)
      PROVE  ~Ended(c) /\ UNCHANGED stock /\ Renews
  <2>1. CASE token = None
    <3>1. call[c].frames = <<>>
      BY <1>0, <1>1 DEF Begin, Nested
    <3>2. Push(call[c], FALSE) \in Call /\ Renewed(call[c], Push(call[c], FALSE))
      BY <1>0, <3>1, PushTyped
    <3> QED BY <1>1, <2>1, <3>2 DEF Begin
  <2>2. CASE token # None
    BY <1>0, <1>1, <2>2, SendTyped DEF Begin
  <2> QED BY <2>1, <2>2
<1>2. ASSUME Login(c)
      PROVE  ~Ended(c) /\ UNCHANGED stock /\ Renews
  <2> DEFINE q == [call[c] EXCEPT !.pc = "verify"]
  <2>1. q \in Call /\ Renewed(call[c], q)
    BY <1>0 DEF Call, Renewed
  <2>2. Goes(c, q) \/ Goes(c, NextCandidate(call[c]))
    BY <1>2 DEF Login
  <2>3. ~Ended(c) /\ UNCHANGED stock /\ UNCHANGED executed
    BY <1>2 DEF Login
  <2> HIDE DEF q
  <2> QED BY <1>0, <2>1, <2>2, <2>3, NextTyped
<1>3. ASSUME Verified(c)
      PROVE  ~Ended(c) /\ UNCHANGED stock /\ Renews
  <2>1. token' \in Tokens
    <3>1. call[c].frames # <<>>
      BY <1>0, <1>3 DEF Verified, Nested
    <3>2. Top(call[c]).cand \in 1..Candidates
      BY <1>0, <3>1, TopTyped DEF Frame
    <3> QED BY <1>3, <3>2 DEF Verified, Tokens, ClientTypeOK
  <2> QED BY <1>0, <1>3, <2>1, SendTyped DEF Verified
<1>4. ASSUME NotVerified(c)
      PROVE  ~Ended(c) /\ UNCHANGED stock /\ Renews
  BY <1>0, <1>4, NextTyped DEF NotVerified
<1>5. ASSUME Forbidden(c)
      PROVE  ~Ended(c) /\ UNCHANGED stock /\ Renews
  <2> DEFINE q == [call[c] EXCEPT !.pc = "licence"]
  <2>1. q \in Call /\ Renewed(call[c], q)
    BY <1>0 DEF Call, Renewed
  <2> HIDE DEF q
  <2> QED BY <1>5, <2>1 DEF Forbidden, q
<1>6. ASSUME Reactivated(c)
      PROVE  ~Ended(c) /\ UNCHANGED stock /\ Renews
  BY <1>0, <1>6, PushTyped DEF Reactivated, Nested
<1>7. ASSUME NotReactivated(c)
      PROVE  ~Ended(c) /\ UNCHANGED stock /\ Renews
  BY <1>0, <1>7, NextTyped DEF NotReactivated
<1>8. ASSUME Answered(c) \/ AnswerLost(c)
      PROVE  ~Ended(c) /\ UNCHANGED stock
  BY <1>8 DEF Answered, AnswerLost
<1>9. ASSUME RequestLost(c)
      PROVE  ~Ended(c) /\ UNCHANGED stock /\ Renews
  BY <1>0, <1>9, ThrowsTyped DEF RequestLost
<1>10. ASSUME RefusedFor403(c)
       PROVE  ~Ended(c) /\ UNCHANGED stock /\ Renews
  <2> DEFINE web == [call[c] EXCEPT !.pc = "web"]
             q == [call[c] EXCEPT !.pc = "licence", !.relicensed = TRUE]
  <2>1. web \in Call /\ (call[c].kind = "asset" => Renewed(call[c], web))
    BY <1>0 DEF Call, Renewed
  <2>2. q \in Call /\ Renewed(call[c], q)
    BY <1>0 DEF Call, Renewed
  <2>3. /\ ~Ended(c) /\ UNCHANGED stock /\ UNCHANGED executed
        /\ \/ call[c].kind = "asset" /\ Goes(c, web)
           \/ Goes(c, Throws(call[c]))
           \/ Goes(c, q)
    BY <1>10 DEF RefusedFor403
  <2> HIDE DEF web, q
  <2> QED BY <1>0, <2>1, <2>2, <2>3, ThrowsTyped
<1>11. ASSUME RefusedFor401(c)
       PROVE  ~Ended(c) /\ UNCHANGED stock /\ Renews
  <2> DEFINE web == [call[c] EXCEPT !.pc = "web"]
             q == [call[c] EXCEPT !.reauthenticated = TRUE]
  <2>1. web \in Call /\ (call[c].kind = "asset" => Renewed(call[c], web))
    BY <1>0 DEF Call, Renewed
  <2>2. /\ q \in Call /\ q.frames = <<>> /\ q.kind = call[c].kind
        /\ q.page = call[c].page /\ q.rows = call[c].rows
        /\ q.present = call[c].present /\ q.shifted = call[c].shifted
    BY <1>0, <1>11 DEF Call, Nested, RefusedFor401
  <2>3. /\ ~Ended(c) /\ UNCHANGED stock /\ UNCHANGED executed
        /\ \/ call[c].kind = "asset" /\ Goes(c, web)
           \/ Goes(c, Throws(call[c]))
           \/ Goes(c, Push(q, FALSE))
    BY <1>11 DEF RefusedFor401
  <2> HIDE DEF web, q
  <2>4. Push(q, FALSE) \in Call /\ Renewed(q, Push(q, FALSE))
    BY <2>2, PushTyped
  <2>5. Renewed(call[c], Push(q, FALSE))
    BY <2>2, <2>4 DEF Renewed
  <2> QED BY <1>0, <2>1, <2>3, <2>4, <2>5, ThrowsTyped
<1>12. ASSUME AnsweredByPage(c)
       PROVE  ~Ended(c) /\ UNCHANGED stock /\ Renews
  <2> DEFINE web == [call[c] EXCEPT !.pc = "web"]
  <2>1. web \in Call /\ Renewed(call[c], web)
    BY <1>0, <1>12 DEF Call, Renewed, AnsweredByPage
  <2> HIDE DEF web
  <2> QED BY <1>12, <2>1 DEF AnsweredByPage, web
<1>13. ASSUME WebSession(c)
       PROVE  /\ ~Ended(c) /\ UNCHANGED stock
              /\ \/ /\ Goes(c, Returned(call[c])) /\ call[c].kind = "asset"
                    /\ UNCHANGED executed
                 \/ Renews
  BY <1>0, <1>13, ThrowsTyped DEF WebSession
<1> HIDE DEF Renews
<1> QED
  BY <1>1, <1>2, <1>3, <1>4, <1>5, <1>6, <1>7, <1>8, <1>9, <1>10, <1>11, <1>12, <1>13
     DEF Exchange, Renews

-----------------------------------------------------------------------------
(* What a request has had executed, as far as its end goes.                *)

WriteInv ==
    \A c \in Requests :
        /\ executed[c] <= 1
        /\ call[c].kind # "write" \/ ~Ended(c) => executed[c] = 0
        /\ call[c].kind = "write" /\ call[c].pc = "returned" => executed[c] = 1
        /\ call[c].pc = "web" => call[c].kind = "asset"


\* The two facts hold in every reachable state.
LEMMA WriteInvHolds == ClientSpec => []WriteInv
<1>1. ClientInit => WriteInv
  BY DEF ClientInit, WriteInv, NewCall, Ended
<1>2. ClientTypeOK /\ WriteInv /\ [ClientNext]_clientVars => WriteInv'
  <2> SUFFICES ASSUME ClientTypeOK, WriteInv, [ClientNext]_clientVars PROVE WriteInv'
    OBVIOUS
  <2>0. /\ call \in [Requests -> Call] /\ executed \in [Requests -> Nat]
        /\ stock \in Seq(Listed) /\ token \in {None} \cup Tokens
    BY DEF ClientTypeOK
  <2>1. ASSUME NEW c \in Requests, Begin(c) \/ Exchange(c) PROVE WriteInv'
    <3>1. call[c].pc = "web" => call[c].kind = "asset"
      BY DEF WriteInv
    <3>2. ~Ended(c) /\ executed[c] = 0 /\ call[c] \in Call
      BY <2>0, <2>1, <3>1, CallSteps DEF WriteInv
    <3>3. SUFFICES ASSUME NEW q \in Call, Goes(c, q), NEW n \in {0, 1},
                          executed' = [executed EXCEPT ![c] = n],
                          q.kind # "write" \/ q.pc \notin {"returned", "thrown"} => n = 0,
                          q.kind = "write" /\ q.pc = "returned" => n = 1,
                          q.pc = "web" => q.kind = "asset"
                   PROVE  WriteInv'
      <4> DEFINE Goal(q, n) == /\ executed' = [executed EXCEPT ![c] = n]
                               /\ q.kind # "write" \/ q.pc \notin {"returned", "thrown"} => n = 0
                               /\ q.kind = "write" /\ q.pc = "returned" => n = 1
                               /\ q.pc = "web" => q.kind = "asset"
      <4> SUFFICES \E q \in Call, n \in {0, 1} : Goes(c, q) /\ Goal(q, n)
        OBVIOUS
      <4>0. UNCHANGED executed => executed' = [executed EXCEPT ![c] = 0]
        BY <2>0, <3>2
      <4>1. CASE Answered(c)
        <5> DEFINE n == IF call[c].kind = "write" THEN 1 ELSE 0
        <5>1. executed' = [executed EXCEPT ![c] = n] /\ n \in {0, 1}
          BY <2>0, <3>2, <4>1 DEF Answered, Executes
        <5>2. Goes(c, Receive(call[c])) /\ Receive(call[c]) \in Call
          BY <2>0, <3>2, <4>1, ReceiveTyped DEF Answered
        <5>3. CASE call[c].kind = "list"
          <6>1. PICK p \in Call : /\ Read(call[c], p)
                                  /\ IF call[c].page < Len(stock)
                                     THEN Renewed(p, Receive(call[c]))
                                     ELSE Receive(call[c]) = Returned(p)
            BY <2>0, <3>2, <5>3, ReceiveTyped
          <6>2. Receive(call[c]).kind = "list"
            BY <5>3, <6>1, ReturnedTyped DEF Read, Renewed
          <6>3. Receive(call[c]).pc # "web"
            BY <5>3, <6>1, ReturnedTyped DEF Read, Renewed
          <6>4. n = 0
            BY <5>3
          <6> HIDE DEF n
          <6> QED BY <5>1, <5>2, <6>2, <6>3, <6>4
        <5>4. CASE call[c].kind # "list"
          <6>1. /\ Receive(call[c]).pc = "returned"
                /\ Receive(call[c]).kind = call[c].kind
            BY <2>0, <3>2, <5>4, ReceiveTyped, ReturnedTyped
          <6>2. call[c].kind = "write" => n = 1
            OBVIOUS
          <6>3. call[c].kind # "write" => n = 0
            OBVIOUS
          <6> HIDE DEF n
          <6> QED BY <5>1, <5>2, <6>1, <6>2, <6>3
        <5> QED BY <5>3, <5>4
      <4>2. CASE AnswerLost(c)
        <5> DEFINE n == IF call[c].kind = "write" THEN 1 ELSE 0
        <5>1. executed' = [executed EXCEPT ![c] = n] /\ n \in {0, 1}
          BY <2>0, <3>2, <4>2 DEF AnswerLost, Executes
        <5>2. Goes(c, Throws(call[c])) /\ Throws(call[c]) \in Call
          BY <3>2, <4>2, ThrowsTyped DEF AnswerLost
        <5>3. Throws(call[c]).pc = "thrown" /\ Throws(call[c]).kind = call[c].kind
          BY <3>2 DEF Throws, NewCall
        <5>4. call[c].kind # "write" => n = 0
          OBVIOUS
        <5> HIDE DEF n
        <5> QED BY <5>1, <5>2, <5>3, <5>4
      <4>3. CASE /\ Goes(c, Returned(call[c])) /\ call[c].kind = "asset"
                 /\ UNCHANGED executed
        BY <3>2, <4>0, <4>3, ReturnedTyped
      <4>4. CASE /\ \E q \in Call : Renewed(call[c], q) /\ Goes(c, q)
                 /\ UNCHANGED executed
        <5>1. PICK q \in Call : Renewed(call[c], q) /\ Goes(c, q)
          BY <4>4
        <5>2. q.pc = "web" => q.kind = "asset"
          BY <5>1 DEF Renewed
        <5>3. q.pc # "returned"
          BY <5>1 DEF Renewed
        <5> QED BY <4>0, <4>4, <5>1, <5>2, <5>3
      <4> HIDE DEF Goal
      <4> QED BY <2>1, <3>1, <4>1, <4>2, <4>3, <4>4, CallSteps
    <3>4. /\ call'[c] = q /\ executed'[c] = n
          /\ \A d \in Requests \ {c} : call'[d] = call[d] /\ executed'[d] = executed[d]
      BY <2>0, <3>3 DEF Goes
    <3> QED BY <3>3, <3>4 DEF WriteInv, Ended
  <2>2. ASSUME TokensExpire \/ LicenceLapses \/ ScheduledReactivation \/ UNCHANGED clientVars
        PROVE  WriteInv'
    BY <2>2 DEF TokensExpire, LicenceLapses, ScheduledReactivation, clientVars, WriteInv, Ended
  <2>3. CASE Changes
    <3>1. UNCHANGED executed
      BY <2>3 DEF Changes
    <3>2. \A c \in Requests : call'[c].kind = call[c].kind /\ call'[c].pc = call[c].pc
      <4>1. CASE UNCHANGED call
        BY <4>1
      <4>2. CASE call' = [c \in Requests |-> [call[c] EXCEPT !.shifted = c \in Listing]]
        BY <2>0, <4>2 DEF Call
      <4> QED BY <2>3, <4>1, <4>2 DEF Changes
    <3> QED BY <3>1, <3>2 DEF WriteInv, Ended
  <2> QED BY <2>1, <2>2, <2>3 DEF ClientNext
<1> QED BY <1>1, <1>2, ClientTypeCorrect, PTL DEF ClientSpec

\* Nothing is written twice, and what returned was written.
THEOREM WritesAreMadeOnce == ClientSpec => []WriteIsMadeOnce
<1>1. WriteInv => WriteIsMadeOnce
  BY DEF WriteInv, WriteIsMadeOnce
<1> QED BY <1>1, WriteInvHolds, PTL

-----------------------------------------------------------------------------
(* What a listing has read.                                                *)

Initially == [i \in Rows |-> i]

\* A listing under way has read the first rows of what BioTime lists, and found there
\* at its first page no row that has gone.
Reading(r) ==
    /\ r.page = Len(r.rows) + 1
    /\ Len(r.rows) <= Len(stock)
    /\ \A i \in 1..Len(r.rows) : r.rows[i] = stock[i]
    /\ r.present \subseteq ToSet(stock)
    /\ r.present = {} => r.rows = <<>>

Whole(r) == r.present \subseteq ToSet(r.rows) /\ IsInjective(r.rows)

ListInv ==
    /\ IsInjective(stock)
    /\ stock = Initially => \A c \in Requests : ~call[c].shifted
    /\ \A c \in Requests :
         call[c].kind = "list" /\ ~call[c].shifted =>
             /\ ~Ended(c) => Reading(call[c])
             /\ call[c].pc = "returned" => Whole(call[c])


\* BioTime holds its rows in their order at first.
LEMMA RowsAreStock ==
    /\ Cardinality(Rows) \in Nat
    /\ Initially \in Seq(Listed) /\ Len(Initially) = Cardinality(Rows)
    /\ \A i \in 1..Len(Initially) : Initially[i] = i
    /\ IsInjective(Initially)
BY ClientAssumption DEF Initially, Listed, IsInjective

\* BioTime lists no row twice, and never again what it listed at first.
LEMMA StockChanges ==
    ASSUME ClientTypeOK, Changes
    PROVE  /\ IsInjective(stock')
           /\ \/ /\ call' = [c \in Requests |->
                                [call[c] EXCEPT !.shifted = c \in Listing]]
                 /\ stock' # Initially
              \/ /\ UNCHANGED call
                 /\ Len(stock) <= Len(stock')
                 /\ \A i \in 1..Len(stock) : stock'[i] = stock[i]
                 /\ ToSet(stock) \subseteq ToSet(stock')
<1>0. stock = Initially /\ New \notin Rows /\ Rows = 1..Cardinality(Rows)
  BY ClientAssumption DEF Changes, Initially
<1> DEFINE n == Cardinality(Rows)
<1>1. n \in Nat /\ Len(stock) = n /\ stock \in Seq(Listed)
      /\ (\A i \in 1..n : stock[i] = i) /\ DOMAIN stock = 1..n /\ IsInjective(stock)
  BY <1>0, RowsAreStock
<1>2. New \notin 1..n /\ New \in Listed
  BY <1>0 DEF Listed
<1> HIDE DEF n
<1>3. CASE stock' = Append(stock, New) /\ UNCHANGED call
  <2>1. Len(stock') = n + 1 /\ DOMAIN stock' = 1..(n+1)
    BY <1>1, <1>2, <1>3
  <2>2. (\A i \in 1..n : stock'[i] = i) /\ stock'[n+1] = New
    BY <1>1, <1>2, <1>3
  <2>3. IsInjective(stock')
    <3> SUFFICES ASSUME NEW a \in 1..(n+1), NEW b \in 1..(n+1), stock'[a] = stock'[b]
                 PROVE  a = b
      BY <2>1 DEF IsInjective
    <3>1. a \in 1..n \/ a = n+1
      BY <1>1
    <3>2. b \in 1..n \/ b = n+1
      BY <1>1
    <3> QED BY <1>1, <1>2, <2>2, <3>1, <3>2
  <2>4. ToSet(stock) \subseteq ToSet(stock')
    <3>1. \A i \in 1..n : i \in 1..(n+1)
      BY <1>1
    <3> QED BY <1>1, <2>1, <2>2, <3>1 DEF ToSet
  <2> QED BY <1>1, <1>3, <2>1, <2>2, <2>3, <2>4
<1>4. CASE stock' = <<New>> \o stock /\ call' = [c \in Requests |-> [call[c] EXCEPT !.shifted = c \in Listing]]
  <2>1. Len(stock') = n + 1 /\ DOMAIN stock' = 1..(n+1) /\ stock'[1] = New
    BY <1>1, <1>2, <1>4
  <2>2. \A i \in 2..(n+1) : stock'[i] = i - 1
    BY <1>1, <1>2, <1>4
  <2>3. IsInjective(stock')
    <3> SUFFICES ASSUME NEW a \in 1..(n+1), NEW b \in 1..(n+1), stock'[a] = stock'[b]
                 PROVE  a = b
      BY <2>1 DEF IsInjective
    <3>1. a = 1 \/ (a \in 2..(n+1) /\ a - 1 \in 1..n)
      BY <1>1
    <3>2. b = 1 \/ (b \in 2..(n+1) /\ b - 1 \in 1..n)
      BY <1>1
    <3> QED BY <1>1, <1>2, <2>1, <2>2, <3>1, <3>2
  <2> QED BY <1>0, <1>1, <2>1, <2>3, <1>4
<1>5. CASE stock # <<>> /\ stock' = Tail(stock)
           /\ call' = [c \in Requests |-> [call[c] EXCEPT !.shifted = c \in Listing]]
  <2>1. n # 0
    BY <1>1, <1>5
  <2>2. Len(stock') = n - 1 /\ DOMAIN stock' = 1..(n-1)
    BY <1>1, <1>5
  <2>3. \A i \in 1..(n-1) : stock'[i] = i + 1
    BY <1>1, <1>5
  <2>4. IsInjective(stock')
    <3> SUFFICES ASSUME NEW a \in 1..(n-1), NEW b \in 1..(n-1), stock'[a] = stock'[b]
                 PROVE  a = b
      BY <2>2 DEF IsInjective
    <3> QED BY <2>3
  <2>5. stock' # Initially
    BY <1>0, <1>1, <2>1, <2>2
  <2> QED BY <2>4, <2>5, <1>5
<1> QED BY <1>3, <1>4, <1>5 DEF Changes

\* So do these, by the types and the writes.
LEMMA ListInvHolds == ClientSpec => []ListInv
<1>1. ClientInit => ListInv
  <2> SUFFICES ASSUME ClientInit PROVE ListInv
    OBVIOUS
  <2>1. IsInjective(stock)
    BY RowsAreStock DEF ClientInit, Initially
  <2>2. \A k \in Purposes : /\ NewCall(k).pc = "idle" /\ NewCall(k).page = 1
                           /\ NewCall(k).rows = <<>> /\ NewCall(k).present = {}
                           /\ ~NewCall(k).shifted
    BY DEF NewCall
  <2>3. stock \in Seq(Listed)
    BY RowsAreStock DEF ClientInit, Initially
  <2>4. ASSUME NEW c \in Requests
        PROVE  /\ call[c].pc = "idle" /\ ~call[c].shifted /\ Reading(call[c])
    <3>1. PICK k \in Purposes : call[c] = NewCall(k)
      BY DEF ClientInit
    <3>2. Len(call[c].rows) = 0 /\ call[c].rows = <<>>
      BY <2>2, <3>1, Empty
    <3> QED BY <2>2, <2>3, <3>1, <3>2 DEF Reading
  <2> QED BY <2>1, <2>4 DEF ListInv
<1>2. ClientTypeOK /\ WriteInv /\ ListInv /\ [ClientNext]_clientVars => ListInv'
  <2> SUFFICES ASSUME ClientTypeOK, WriteInv, ListInv, [ClientNext]_clientVars
               PROVE  ListInv'
    OBVIOUS
  <2>0. /\ call \in [Requests -> Call]
        /\ stock \in Seq(Listed) /\ token \in {None} \cup Tokens
    BY DEF ClientTypeOK
  <2>1. ASSUME NEW c \in Requests, Begin(c) \/ Exchange(c) PROVE ListInv'
    <3>1. call[c].pc = "web" => call[c].kind = "asset"
      BY DEF WriteInv
    <3>2. ~Ended(c) /\ call[c] \in Call /\ UNCHANGED stock
      BY <2>0, <2>1, <3>1, CallSteps
    <3>3. ASSUME NEW q \in Call, Goes(c, q), q.shifted => call[c].shifted,
                 q.kind = "list" /\ ~q.shifted =>
                    /\ q.pc \notin {"returned", "thrown"} => Reading(q)
                    /\ q.pc = "returned" => Whole(q)
          PROVE  ListInv'
      <4>1. /\ call'[c] = q
            /\ \A d \in Requests \ {c} : call'[d] = call[d]
        BY <2>0, <3>3 DEF Goes
      <4>2. IsInjective(stock')
        BY <3>2 DEF ListInv
      <4>3. stock' = Initially => \A d \in Requests : ~call'[d].shifted
        BY <3>2, <3>3, <4>1 DEF ListInv
      <4>4. ASSUME NEW d \in Requests, (call[d].kind = "list" /\ ~call[d].shifted)'
            PROVE  /\ (~Ended(d) => Reading(call[d]))'
                   /\ (call[d].pc = "returned" => Whole(call[d]))'
        <5>1. CASE d = c
          BY <3>2, <3>3, <4>1, <4>4, <5>1 DEF Ended, Reading, Whole
        <5>2. CASE d # c
          BY <3>2, <4>1, <4>4, <5>2 DEF ListInv, Ended, Reading, Whole
        <5> QED BY <5>1, <5>2
      <4> QED BY <4>2, <4>3, <4>4 DEF ListInv
    <3>4. call[c].kind = "list" /\ ~call[c].shifted => Reading(call[c])
      BY <3>2 DEF ListInv
    <3>5. ASSUME NEW r \in Call, NEW q \in Call, Renewed(r, q),
                 r.kind = "list" /\ ~r.shifted => Reading(r)
          PROVE  /\ q.shifted => r.shifted
                 /\ q.pc # "returned"
                 /\ q.kind = "list" /\ ~q.shifted /\ q.pc # "thrown" => Reading(q)
      BY <3>5 DEF Renewed, Reading
    <3>6. CASE Answered(c)
      <4>1. Goes(c, Receive(call[c])) /\ Receive(call[c]) \in Call
        BY <2>0, <3>2, <3>6, ReceiveTyped DEF Answered
      <4>2. CASE call[c].kind # "list"
        <5>1. Receive(call[c]).kind # "list" /\ Receive(call[c]).shifted = call[c].shifted
          BY <2>0, <3>2, <4>2, ReceiveTyped, ReturnedTyped
        <5> QED BY <3>3, <4>1, <5>1
      <4>3. CASE call[c].kind = "list"
        <5>1. PICK p \in Call : /\ Read(call[c], p)
                                /\ IF call[c].page < Len(stock)
                                   THEN Renewed(p, Receive(call[c]))
                                   ELSE Receive(call[c]) = Returned(p)
          BY <2>0, <3>2, <4>3, ReceiveTyped
        <5>2. p.kind = "list" /\ p.shifted = call[c].shifted
          BY <4>3, <5>1 DEF Read
        <5> DEFINE r == call[c]
        <5>3. ASSUME ~r.shifted, r.page <= Len(stock)
              PROVE  Reading(p) /\ p.page = r.page + 1
          <6>1. /\ r.page \in Nat \ {0} /\ r.rows \in Seq(Listed) /\ Len(r.rows) \in Nat
                /\ r.page = Len(r.rows) + 1 /\ Len(stock) \in Nat
            BY <2>0, <3>2, <3>4, <4>3, <5>3 DEF Call, Reading
          <6>2. p.rows = Append(r.rows, stock[r.page]) /\ stock[r.page] \in Listed
            BY <2>0, <5>1, <5>3, <6>1 DEF Read
          <6>3. /\ Len(p.rows) = r.page /\ p.page = r.page + 1
                /\ \A i \in 1..Len(r.rows) : p.rows[i] = r.rows[i]
                /\ p.rows[r.page] = stock[r.page]
            BY <5>1, <6>1, <6>2 DEF Read
          <6>4. \A i \in 1..Len(p.rows) : p.rows[i] = stock[i]
            <7> SUFFICES ASSUME NEW i \in 1..Len(p.rows) PROVE p.rows[i] = stock[i]
              OBVIOUS
            <7>1. i = r.page \/ i \in 1..Len(r.rows)
              BY <6>1, <6>3
            <7>2. i \in 1..Len(r.rows) => r.rows[i] = stock[i]
              BY <3>4, <4>3, <5>3 DEF Reading
            <7> QED BY <6>3, <7>1, <7>2
          <6>5. p.present \subseteq ToSet(stock)
            BY <3>4, <4>3, <5>1, <5>3 DEF Read, Reading
          <6>6. p.present # {}
            <7>1. CASE r.page = 1
              <8>1. stock[1] \in ToSet(stock)
                BY <2>0, <5>3, <6>1, <7>1 DEF ToSet
              <8> QED BY <5>1, <7>1, <8>1 DEF Read
            <7>2. CASE r.page # 1
              <8>1. Len(r.rows) # 0
                BY <6>1, <7>2
              <8>2. r.rows # <<>>
                BY <8>1, Empty
              <8>3. r.present # {}
                BY <3>4, <4>3, <5>3, <8>2 DEF Reading
              <8> QED BY <5>1, <7>2, <8>3 DEF Read
            <7> QED BY <7>1, <7>2
          <6> QED BY <5>3, <6>3, <6>4, <6>5, <6>6 DEF Reading
        <5>4. CASE r.page < Len(stock)
          <6>1. r.page <= Len(stock)
            BY <2>0, <3>2, <5>4 DEF Call
          <6>2. p.kind = "list" /\ ~p.shifted => Reading(p)
            BY <5>2, <5>3, <6>1
          <6>3. Renewed(p, Receive(r))
            BY <5>1, <5>4
          <6> QED BY <3>3, <3>5, <4>1, <5>2, <6>2, <6>3
        <5>5. CASE ~(r.page < Len(stock))
          <6>1. Receive(r) = Returned(p)
            BY <5>1, <5>5
          <6>2. ASSUME ~r.shifted PROVE Whole(p)
            <7>1. /\ r.page \in Nat \ {0} /\ r.rows \in Seq(Listed) /\ Len(r.rows) \in Nat
                  /\ r.page = Len(r.rows) + 1 /\ Len(stock) \in Nat
                  /\ Len(r.rows) <= Len(stock) /\ p.rows \in Seq(Listed)
              BY <2>0, <3>2, <3>4, <4>3, <6>2 DEF Call, Reading
            <7>2. /\ Len(p.rows) = Len(stock)
                  /\ \A i \in 1..Len(p.rows) : p.rows[i] = stock[i]
                  /\ p.present \subseteq ToSet(stock)
              <8>1. CASE r.page <= Len(stock)
                <9>1. Reading(p) /\ p.page = r.page + 1
                  BY <5>3, <6>2, <8>1
                <9> QED BY <5>5, <7>1, <8>1, <9>1 DEF Reading
              <8>2. CASE ~(r.page <= Len(stock))
                <9>1. p.rows = r.rows
                  BY <5>1, <8>2 DEF Read
                <9>2. Len(r.rows) = Len(stock)
                  BY <7>1, <8>2
                <9>3. p.present \subseteq ToSet(stock)
                  BY <3>4, <4>3, <5>1, <6>2 DEF Read, Reading
                <9> QED BY <3>4, <4>3, <6>2, <9>1, <9>2, <9>3 DEF Reading
              <8> QED BY <8>1, <8>2
            <7>3. /\ DOMAIN p.rows = 1..Len(stock) /\ DOMAIN stock = 1..Len(stock)
                  /\ \A i \in 1..Len(stock) : p.rows[i] = stock[i]
              BY <2>0, <7>1, <7>2
            <7>4. ToSet(p.rows) = ToSet(stock)
              BY <7>3 DEF ToSet
            <7>5. IsInjective(p.rows)
              BY <7>3 DEF ListInv, IsInjective
            <7> QED BY <7>2, <7>4, <7>5 DEF Whole
          <6>3. Whole(p) => Whole(Returned(p))
            BY ReturnedTyped DEF Whole
          <6>4. Returned(p).pc = "returned" /\ Returned(p).shifted = r.shifted
            BY <5>2, ReturnedTyped
          <6> HIDE DEF r
          <6> QED BY <3>3, <4>1, <6>1, <6>2, <6>3, <6>4 DEF r
        <5> QED BY <5>4, <5>5
      <4> QED BY <4>2, <4>3
    <3>7. CASE AnswerLost(c)
      <4>1. Throws(call[c]) \in Call /\ Goes(c, Throws(call[c]))
        BY <3>2, <3>7, ThrowsTyped DEF AnswerLost
      <4>2. Throws(call[c]).pc = "thrown" /\ ~Throws(call[c]).shifted
        BY DEF Throws, NewCall
      <4> QED BY <3>3, <4>1, <4>2
    <3>8. CASE Goes(c, Returned(call[c])) /\ call[c].kind = "asset"
      BY <3>2, <3>3, <3>8, ReturnedTyped
    <3>9. CASE \E q \in Call : Renewed(call[c], q) /\ Goes(c, q)
      <4>1. PICK q \in Call : Renewed(call[c], q) /\ Goes(c, q)
        BY <3>9
      <4> QED BY <3>2, <3>3, <3>4, <3>5, <4>1
    <3> QED BY <2>1, <3>1, <3>6, <3>7, <3>8, <3>9, CallSteps
  <2>2. ASSUME TokensExpire \/ LicenceLapses \/ ScheduledReactivation \/ UNCHANGED clientVars
        PROVE  ListInv'
    <3>1. UNCHANGED <<call, stock>>
      BY <2>2 DEF TokensExpire, LicenceLapses, ScheduledReactivation, clientVars, biotime
    <3> QED BY <3>1 DEF ListInv, Reading, Whole, Ended
  <2>3. CASE Changes
    <3>1. stock = Initially
      BY <2>3 DEF Changes, Initially
    <3>2. \A c \in Requests : ~call[c].shifted
      BY <3>1 DEF ListInv
    <3>3. IsInjective(stock')
      BY <2>3, StockChanges
    <3>4. CASE /\ UNCHANGED call
               /\ Len(stock) <= Len(stock')
               /\ \A i \in 1..Len(stock) : stock'[i] = stock[i]
               /\ ToSet(stock) \subseteq ToSet(stock')
      <4>1. ASSUME NEW c \in Requests, Reading(call[c])
            PROVE  Reading(call[c])'
        <5>1. /\ call[c].rows \in Seq(Listed) /\ Len(call[c].rows) \in Nat
              /\ Len(stock) \in Nat /\ Len(stock') \in Nat
          <6>1. ClientTypeOK'
            BY ClientStep
          <6> QED BY <2>0, <6>1 DEF Call, ClientTypeOK
        <5>2. Len(call[c].rows) <= Len(stock')
          BY <3>4, <4>1, <5>1 DEF Reading
        <5>3. \A i \in 1..Len(call[c].rows) : i \in 1..Len(stock)
          BY <4>1, <5>1 DEF Reading
        <5> QED BY <3>4, <4>1, <5>2, <5>3 DEF Reading
      <4> QED BY <3>2, <3>3, <3>4, <4>1 DEF ListInv, Whole, Ended
    <3>5. CASE /\ call' = [c \in Requests |-> [call[c] EXCEPT !.shifted = c \in Listing]]
               /\ stock' # Initially
      <4>1. ASSUME NEW c \in Requests
            PROVE  /\ call'[c].kind = call[c].kind /\ call'[c].pc = call[c].pc
                   /\ call'[c].page = call[c].page /\ call'[c].rows = call[c].rows
                   /\ call'[c].present = call[c].present
                   /\ call'[c].shifted <=> c \in Listing
        <5> DEFINE b == c \in Listing
        <5>1. b \in BOOLEAN
          OBVIOUS
        <5> HIDE DEF b
        <5>2. call'[c] = [call[c] EXCEPT !.shifted = b]
          BY <3>5 DEF b
        <5>3. /\ call'[c].kind = call[c].kind /\ call'[c].pc = call[c].pc
              /\ call'[c].page = call[c].page /\ call'[c].rows = call[c].rows
              /\ call'[c].present = call[c].present
              /\ call'[c].shifted = b
          <6>1. call[c] \in Call
            BY <2>0
          <6> QED BY ONLY <6>1, <5>1, <5>2 DEF Call
        <5> QED BY <5>3 DEF b
      <4>2. ASSUME NEW c \in Requests, call[c].kind = "list", ~call'[c].shifted
            PROVE  /\ (~Ended(c) => Reading(call[c]))'
                   /\ (call[c].pc = "returned" => Whole(call[c]))'
        <5>1. call[c].pc = "returned" => Whole(call[c])
          BY <3>2, <4>2 DEF ListInv
        <5>2. ASSUME ~Ended(c) PROVE Reading(call[c])'
          <6>1. call[c].present = {}
            BY <4>1, <4>2, <5>2 DEF Listing, Ended
          <6>2. Reading(call[c])
            BY <3>2, <4>2, <5>2 DEF ListInv
          <6>3. call[c].rows = <<>> /\ call[c].page = Len(call[c].rows) + 1
            BY <6>1, <6>2 DEF Reading
          <6>4. Len(stock') \in Nat
            <7>1. ClientTypeOK'
              BY ClientStep
            <7> QED BY <7>1 DEF ClientTypeOK
          <6> QED BY <4>1, <6>1, <6>3, <6>4, Empty DEF Reading
        <5> QED BY <4>1, <5>1, <5>2 DEF Ended, Whole
      <4> QED BY <3>3, <3>5, <4>1, <4>2 DEF ListInv
    <3> QED BY <2>3, <3>4, <3>5, StockChanges
  <2> QED BY <2>1, <2>2, <2>3 DEF ClientNext
<1> QED BY <1>1, <1>2, ClientTypeCorrect, WriteInvHolds, PTL DEF ClientSpec

\* A listing that returns holds all that was there from its first page on, each row once.
THEOREM ListingsAreWhole == ClientSpec => []ListingIsWhole
<1>1. ListInv => ListingIsWhole
  BY DEF ListInv, ListingIsWhole, Whole
<1> QED BY <1>1, ListInvHolds, PTL

\* Writes are made once and listings lose no row, by calls that share a token
\* (requestWithAuth, paginatedGet).
THEOREM CallsSound == ClientSpec => []CallsAreSound
BY WritesAreMadeOnce, ListingsAreWhole, PTL DEF CallsAreSound
=============================================================================
