------------------------ MODULE ShiftPlanning_proofs ------------------------
(***************************************************************************)
(* Theorems about ShiftPlanning, for any cells, submissions and reviewers, *)
(* about Organisation, whose moves inherit plannings, for any groups,      *)
(* staff and requests: a change of membership is decided once, and members *)
(* move, groups are renamed, approved and deleted by who may, unless what  *)
(* the request had read has changed since; and about the users of both:    *)
(* their sessions and what they may do (UserAccounts), their conversations *)
(* (Messaging).                                                            *)
(***************************************************************************)
EXTENDS ShiftPlanning, Organisation, UserAccounts, Messaging, TLAPS

\* A submission no request has sent yet has left no trace.
UnsentIsUnknown ==
    \A s \in Batches \ sent :
        /\ \A c \in Cells : pending[c] # s /\ approved[c] # s /\ refused[c] # s
        /\ \A r \in Reviewers : subject[r] # s
        /\ \A m \in Movers, c \in Cells : active[m][c] # s /\ waiting[m][c] # s

\* A review under way is about a submission.
ReviewHasSubject ==
    \A r \in Reviewers : verdict[r] # "none" => subject[r] \in Submissions

\* A pending row has an id.
PendingHasId == \A c \in Cells : pending[c] # NoRow => pendingId[c] # NoRow

\* A batch copied as active has been approved: no row of it waits or is refused.
CopyIsDecided ==
    \A m \in Movers, c \in Cells, s \in Batches \ split :
        active[m][c] = s => \A d \in Cells : pending[d] # s /\ refused[d] # s

IInv ==
    /\ TypeOK
    /\ CopyIsDecided
    /\ PendingHasId
    /\ UnsentIsUnknown
    /\ ReviewHasSubject
    /\ BatchIsWhole
    /\ BatchApprovalFits

\* The inductive invariant holds of an empty table.
LEMMA IInvInit == Init => IInv
<1> USE NamesAssumption
<1> SUFFICES ASSUME Init PROVE IInv
    OBVIOUS
<1>1. TypeOK
    BY DEF Init, TypeOK, Owners, Ids, Pendings
<1>2. PendingHasId /\ UnsentIsUnknown /\ ReviewHasSubject /\ BatchIsWhole /\ CopyIsDecided
    BY DEF Init, PendingHasId, UnsentIsUnknown, ReviewHasSubject, BatchIsWhole, Submissions,
           CopyIsDecided
<1>3. BatchApprovalFits
    BY DEF Init, BatchApprovalFits, Submissions
<1> QED
    BY <1>1, <1>2, <1>3 DEF IInv

\* What a call of inheritGroupPlanning holds after its reading is what a cell held.
LEMMA CopiesAreRows ==
    ASSUME TypeOK, NEW m \in Movers, NEW who \in SUBSET Employees, InheritReads(m, who)
    PROVE  /\ active' \in [Movers -> [Cells -> Owners]]
           /\ waiting' \in [Movers -> [Cells -> Pendings]]
           /\ \A n \in Movers, c \in Cells :
                /\ \/ active'[n][c] = active[n][c] \/ active'[n][c] = NoRow
                   \/ \E b \in Cells : active'[n][c] = approved[b]
                /\ \/ waiting'[n][c] = waiting[n][c] \/ waiting'[n][c] = NoRow
                   \/ \E b \in Cells : waiting'[n][c] = pending[b]
<1>1. PICK a \in [Days -> Owners], p \in [Days -> Pendings] :
        /\ \A d \in Days : a[d] \in Templates(approved, d) /\ p[d] \in Templates(pending, d)
        /\ active' = [active EXCEPT ![m] =
                        [c \in Cells |-> IF c[1] \in who THEN a[c[2]] ELSE NoRow]]
        /\ waiting' = [waiting EXCEPT ![m] =
                         [c \in Cells |-> IF c[1] \in who THEN p[c[2]] ELSE NoRow]]
    BY DEF InheritReads
<1>2. \A c \in Cells : c[2] \in Days
    BY DEF Cells
<1>3. \A d \in Days : /\ a[d] = NoRow \/ \E b \in Cells : a[d] = approved[b]
                      /\ p[d] = NoRow \/ \E b \in Cells : p[d] = pending[b]
    BY <1>1 DEF Templates
<1>4. /\ active' \in [Movers -> [Cells -> Owners]]
      /\ waiting' \in [Movers -> [Cells -> Pendings]]
    BY <1>1, <1>2 DEF TypeOK, Owners, Pendings
<1> SUFFICES ASSUME NEW n \in Movers, NEW c \in Cells
             PROVE  /\ \/ active'[n][c] = active[n][c] \/ active'[n][c] = NoRow
                       \/ \E b \in Cells : active'[n][c] = approved[b]
                    /\ \/ waiting'[n][c] = waiting[n][c] \/ waiting'[n][c] = NoRow
                       \/ \E b \in Cells : waiting'[n][c] = pending[b]
    BY <1>4
<1>5. CASE n # m
    BY <1>1, <1>5 DEF TypeOK
<1>6. CASE n = m
    BY <1>1, <1>2, <1>3, <1>6 DEF TypeOK
<1> QED
    BY <1>5, <1>6

\* Every step keeps the type invariant.
LEMMA TypeStep == IInv /\ [Next]_vars => TypeOK'
<1> USE NamesAssumption
<1> SUFFICES ASSUME IInv, [Next]_vars PROVE TypeOK'
    OBVIOUS
<1> USE DEF IInv, TypeOK, Owners, Ids, Pendings, moves, Submissions
<1>1. CASE \E s \in Assigns : Assign(s)
    BY <1>1 DEF Assign, table, reviews
<1>2. CASE \E s \in Assigns, c \in Cells : AssignUpserts(s, c)
    BY <1>2 DEF AssignUpserts, WritePending, reviews
<1>3. CASE \E c \in Cells : AssignDirect(c)
    BY <1>3 DEF AssignDirect, WriteApproved, requests, reviews
<1>4. CASE \E s \in Batches, write, clear \in SUBSET Cells : BatchAssign(s, write, clear)
    BY <1>4 DEF BatchAssign, WritePending, reviews
<1>5. CASE \E write, clear \in SUBSET Cells : BatchDirect(write, clear)
    BY <1>5 DEF BatchDirect, WritePending, WriteApproved, requests, reviews
<1>6. CASE \E r \in Reviewers, v \in {"approve", "reject"}, s \in Submissions :
                ReviewReads(r, v, s)
    BY <1>6 DEF ReviewReads, table, requests
<1>7. CASE \E r \in Reviewers : ApproveCommits(r)
    BY <1>7 DEF ApproveCommits, TakePending, Finish, requests
<1>8. CASE \E r \in Reviewers : RejectCommits(r)
    BY <1>8 DEF RejectCommits, TakePending, Finish, requests
<1>9. CASE \E r \in Reviewers : ReviewRollsBack(r)
    BY <1>9 DEF ReviewRollsBack, Finish, table, requests
<1>10. CASE UNCHANGED vars
    BY <1>10 DEF vars, table, requests, reviews
<1>11. CASE \E m \in Movers, who \in SUBSET Employees : InheritReads(m, who)
    <2>1. PICK m \in Movers, who \in SUBSET Employees : InheritReads(m, who)
        BY <1>11
    <2>2. /\ active' \in [Movers -> [Cells -> Owners]]
          /\ waiting' \in [Movers -> [Cells -> Pendings]]
        <3> HIDE DEF TypeOK, Owners, Pendings
        <3> QED
            BY <2>1, CopiesAreRows
    <2>3. UNCHANGED <<table, sent, todo, split, reviews>> /\ moved' \in SUBSET Movers
        BY <2>1 DEF InheritReads
    <2> QED
        BY <2>2, <2>3 DEF table, reviews
<1>12. CASE \E m \in Movers, c \in Cells : InheritApproved(m, c)
    BY <1>12 DEF InheritApproved, reviews
<1>13. CASE \E m \in Movers, c \in Cells : InheritPending(m, c)
    BY <1>13 DEF InheritPending, PendingOf
<1> QED
    BY <1>1, <1>2, <1>3, <1>4, <1>5, <1>6, <1>7, <1>8, <1>9, <1>10, <1>11, <1>12, <1>13 DEF Next

\* Every step keeps the facts about batches.
LEMMA BatchStep ==
    IInv /\ [Next]_vars
      => CopyIsDecided' /\ PendingHasId' /\ UnsentIsUnknown' /\ ReviewHasSubject' /\ BatchIsWhole' /\ BatchApprovalFits'
<1> USE NamesAssumption
<1> SUFFICES ASSUME IInv, [Next]_vars
             PROVE CopyIsDecided' /\ PendingHasId' /\ UnsentIsUnknown' /\ ReviewHasSubject'
                     /\ BatchIsWhole' /\ BatchApprovalFits'
    OBVIOUS
<1> USE DEF IInv, TypeOK, Owners, Ids, Pendings, moves, Submissions, PendingHasId, UnsentIsUnknown,
            ReviewHasSubject, BatchIsWhole, BatchApprovalFits, PendingOf, Read, CopyIsDecided
<1>1. CASE \E s \in Assigns : Assign(s)
    BY <1>1 DEF Assign, table, reviews
<1>2. CASE \E s \in Assigns, c \in Cells : AssignUpserts(s, c)
    BY <1>2 DEF AssignUpserts, WritePending, reviews
<1>3. CASE \E c \in Cells : AssignDirect(c)
    BY <1>3 DEF AssignDirect, WriteApproved, requests, reviews
<1>4. CASE \E s \in Batches, write, clear \in SUBSET Cells : BatchAssign(s, write, clear)
    BY <1>4 DEF BatchAssign, WritePending, reviews
<1>5. CASE \E write, clear \in SUBSET Cells : BatchDirect(write, clear)
    BY <1>5 DEF BatchDirect, WritePending, WriteApproved, requests, reviews
<1>6. CASE \E r \in Reviewers, v \in {"approve", "reject"}, s \in Submissions :
                ReviewReads(r, v, s)
    BY <1>6 DEF ReviewReads, table, requests
<1>7. CASE \E r \in Reviewers : ApproveCommits(r)
    BY <1>7 DEF ApproveCommits, TakePending, Finish, requests
<1>8. CASE \E r \in Reviewers : RejectCommits(r)
    BY <1>8 DEF RejectCommits, TakePending, Finish, requests
<1>9. CASE \E r \in Reviewers : ReviewRollsBack(r)
    BY <1>9 DEF ReviewRollsBack, Finish, table, requests
<1>10. CASE UNCHANGED vars
    BY <1>10 DEF vars, table, requests, reviews
<1>11. CASE \E m \in Movers, who \in SUBSET Employees : InheritReads(m, who)
    <2>1. PICK m \in Movers, who \in SUBSET Employees : InheritReads(m, who)
        BY <1>11
    <2>2. UNCHANGED <<table, sent, todo, split, reviews>>
        BY <2>1 DEF InheritReads
    <2>3. \A n \in Movers, c \in Cells :
            /\ \/ active'[n][c] = active[n][c] \/ active'[n][c] = NoRow
               \/ \E b \in Cells : active'[n][c] = approved[b]
            /\ \/ waiting'[n][c] = waiting[n][c] \/ waiting'[n][c] = NoRow
               \/ \E b \in Cells : waiting'[n][c] = pending[b]
        <3> HIDE DEF TypeOK, Owners, Pendings
        <3> QED
            BY <2>1, CopiesAreRows DEF IInv
    <2>4. CopyIsDecided'
        <3>0. SUFFICES ASSUME NEW n \in Movers, NEW c \in Cells, NEW s \in Batches \ split,
                            NEW d \in Cells, active'[n][c] = s
                     PROVE  pending[d] # s /\ refused[d] # s
            BY <2>2 DEF table
        <3>1. CASE active[n][c] = s
            BY <3>1
        <3>2. CASE \E b \in Cells : approved[b] = s
            BY <3>2
        <3>3. s # NoRow
            OBVIOUS
        <3> QED
            BY ONLY <2>3, <3>0, <3>1, <3>2, <3>3
    <2>5. UnsentIsUnknown'
        <3> SUFFICES ASSUME NEW n \in Movers, NEW c \in Cells, NEW s \in Batches \ sent
                     PROVE  active'[n][c] # s /\ waiting'[n][c] # s
            BY <2>2 DEF table, reviews
        <3>1. s # NoRow /\ active[n][c] # s /\ waiting[n][c] # s
                /\ \A b \in Cells : pending[b] # s /\ approved[b] # s
            OBVIOUS
        <3> QED
            BY ONLY <2>3, <3>1
    <2>6. PendingHasId' /\ ReviewHasSubject' /\ BatchIsWhole' /\ BatchApprovalFits'
        BY <2>2 DEF table, reviews
    <2> QED
        BY <2>4, <2>5, <2>6
<1>12. CASE \E m \in Movers, c \in Cells : InheritApproved(m, c)
    <2>1. PICK m \in Movers, c \in Cells : InheritApproved(m, c)
        BY <1>12
    <2>2. CopyIsDecided' /\ PendingHasId' /\ UnsentIsUnknown' /\ ReviewHasSubject'
        BY <2>1 DEF InheritApproved, reviews
    <2>3. BatchIsWhole'
        BY <2>1 DEF InheritApproved
    <2>4. BatchApprovalFits'
        BY <2>1 DEF InheritApproved, reviews
    <2> QED
        BY <2>2, <2>3, <2>4
<1>13. CASE \E m \in Movers, c \in Cells : InheritPending(m, c)
    BY <1>13 DEF InheritPending, PendingOf
<1> QED
    BY <1>1, <1>2, <1>3, <1>4, <1>5, <1>6, <1>7, <1>8, <1>9, <1>10, <1>11, <1>12, <1>13 DEF Next
\* The inductive invariant holds in every reachable state.
LEMMA IInvAlways == Spec => []IInv
<1>1. IInv /\ [Next]_vars => IInv'
    BY TypeStep, BatchStep DEF IInv
<1> QED
    BY <1>1, IInvInit, PTL DEF Spec

\* Every row carries the values its columns admit; in particular a pending row
\* always has a submission id by which it can be reviewed.
THEOREM TypeCorrect == Spec => []TypeOK
<1>1. IInv => TypeOK
    BY DEF IInv
<1> QED
    BY <1>1, IInvAlways, PTL

\* A batch is decided as a whole, for any number of reviews in flight.
THEOREM BatchDecidedWhole == Spec => []BatchIsWhole
<1>1. IInv => BatchIsWhole
    BY DEF IInv
<1> QED
    BY <1>1, IInvAlways, PTL

\* The approval of a batch never breaks the unique key of the table.
THEOREM BatchFits == Spec => []BatchApprovalFits
<1>1. IInv => BatchApprovalFits
    BY DEF IInv
<1> QED
    BY <1>1, IInvAlways, PTL

\* A batch holds together, for any planning and any number of reviewers.
THEOREM BatchesHold == Spec => []BatchHolds
<1>1. BatchIsWhole /\ BatchApprovalFits => BatchHolds
    BY DEF BatchHolds
<1> QED
    BY <1>1, BatchDecidedWhole, BatchFits, PTL

\* No step other than an erasure or a stale approval empties an active day.
LEMMA DayStep ==
    ASSUME IInv, [Next]_vars, NEW c \in Cells,
           approved[c] # NoRow, approved'[c] = NoRow
    PROVE  Erased(c) \/ \E r \in Reviewers : StaleOn(r, c)
<1> USE NamesAssumption DEF IInv, TypeOK, Owners, Ids, Pendings, moves, Submissions
<1>1. CASE \E s \in Assigns : Assign(s)
    BY <1>1 DEF Assign, table
<1>2. CASE \E s \in Assigns, d \in Cells : AssignUpserts(s, d)
    BY <1>2 DEF AssignUpserts
<1>3. CASE \E d \in Cells : AssignDirect(d)
    BY <1>3 DEF AssignDirect, WriteApproved
<1>4. CASE \E s \in Batches, write, clear \in SUBSET Cells : BatchAssign(s, write, clear)
    BY <1>4 DEF BatchAssign, WritePending, Erased
<1>5. CASE \E write, clear \in SUBSET Cells : BatchDirect(write, clear)
    BY <1>5 DEF BatchDirect, WritePending, WriteApproved, Erased
<1>6. CASE \E r \in Reviewers, v \in {"approve", "reject"}, s \in Submissions :
                ReviewReads(r, v, s)
    BY <1>6 DEF ReviewReads, table
<1>7. CASE \E r \in Reviewers : ApproveCommits(r)
    BY <1>7 DEF ApproveCommits, ReviewHasSubject, StaleOn
<1>8. CASE \E r \in Reviewers : RejectCommits(r)
    BY <1>8 DEF RejectCommits
<1>9. CASE \E r \in Reviewers : ReviewRollsBack(r)
    BY <1>9 DEF ReviewRollsBack, table
<1>10. CASE UNCHANGED vars
    BY <1>10 DEF vars, table
<1>11. CASE \E m \in Movers, who \in SUBSET Employees : InheritReads(m, who)
    BY <1>11 DEF InheritReads, table
<1>12. CASE \E m \in Movers, d \in Cells : InheritApproved(m, d)
    BY <1>12 DEF InheritApproved, reviews
<1>13. CASE \E m \in Movers, d \in Cells : InheritPending(m, d)
    BY <1>13 DEF InheritPending, PendingOf
<1> QED
    BY <1>1, <1>2, <1>3, <1>4, <1>5, <1>6, <1>7, <1>8, <1>9, <1>10, <1>11, <1>12, <1>13 DEF Next

\* An active day is lost only when erased or to a stale approval.
THEOREM DaysAreNotLost == Spec => DayIsNotLost
<1>1. IInv /\ [Next]_vars
        => [\A c \in Cells :
             approved[c] # NoRow /\ approved'[c] = NoRow
               => Erased(c) \/ \E r \in Reviewers : StaleOn(r, c)]_vars
    BY DayStep
<1> QED
    BY <1>1, IInvAlways, PTL DEF Spec, DayIsNotLost

-----------------------------------------------------------------------------
(* Organisation.                                                           *)

\* What requests write to.
OrgIds == Groups \cup Staff \cup Changes

\* What a request notes besides what it has read.
Noting(w, S) == [w EXCEPT !.since = @ \cup S]

\* Only the rows of S change.
OnlyChanges(S) ==
    /\ \A g \in Groups \ S : group'[g] = group[g] /\ (g \in planned' <=> g \in planned)
    /\ \A e \in Staff \ S : member'[e] = member[e]
    /\ \A c \in Changes \ S : change'[c] = change[c]

\* The request q waits for its turn, and notes that S changes.
Notes(q, S) ==
    \/ work'[q] = Noting(work[q], S)
    \/ work'[q] = work[q] /\ (S = {} \/ work[q].op = "none")

\* What a handler is about has the kind its route says.
OrgFits(r) == LET w == work[r] IN
    /\ w.op \in {"edit", "delete", "approve", "reject"} => w.target \in Groups
    /\ w.op \in {"approve", "reject"} => w.by = "approver"
    /\ w.op = "drop" => w.target \in SubUnits
    /\ w.op \in {"accept", "refuse", "move"} => w.to \in Groups \cup {None}
    /\ w.op \in {"accept", "refuse"} => w.target \in Changes /\ \E e \in Staff : w.who = {e}
    /\ w.op = "refresh" => w.todo # <<>>

\* What a request has read is still so, but for what it has noted since.
OrgKnows(r) == LET w == work[r] IN
    /\ w.op \in {"accept", "refuse"} /\ w.target \notin w.since =>
          change[w.target].status = "PENDING" /\ change[w.target].to = w.to
    /\ w.op = "move" /\ w.by = "staff" =>
          /\ \A e \in w.who \ w.since : member[e] = w.from[e]
          /\ w.at = "counting" => \A g \in Concerned(w) \ w.since :
                group[g].status = "APPROVED" => g \in w.ids
          /\ w.at = "writing" => \A g \in Concerned(w) \ w.since : ~Protected(g)
    /\ w.op \in {"edit", "approve"} /\ w.target \notin w.since => group[w.target] = w.seen
    /\ w.op = "refresh" /\ w.idle = "yes" =>
          Head(w.todo) \in w.since \/ AwaitsNothing(Head(w.todo))
    /\ w.op = "refresh" /\ w.quiet = "yes" =>
          \A c \in Naming(Head(w.todo)) \ w.since : change[c].status # "PENDING"
    /\ w.op = "delete" /\ w.by = "approver" /\ ~w.force => Members(w.target) \subseteq w.since
    /\ w.op = "drop" /\ ~w.force => In(w.target) \subseteq w.since

OrgInv == \A r \in Requests : OrgFits(r) /\ OrgKnows(r)

\* A change asked for is about somebody.
Asked == \A c \in Changes : change[c].status = "PENDING" => change[c].of \in Staff

-----------------------------------------------------------------------------
(* Types.                                                                  *)

\* The constant values are of their types.
LEMMA OrgValues ==
    /\ 0 \in Names /\ Names \subseteq Nat
    /\ \A s \in SubUnits \cup {None}, x \in {"unborn", "PENDING", "APPROVED", "REJECTED", "deleted"} :
          Row(x, s) \in Group
    /\ NoChange \in Change /\ Free \in Work /\ Free.op = "none"
<1>1. 0 \in Names /\ Names \subseteq Nat
  BY BoundsAssumption DEF Names
<1>2. \A s \in SubUnits \cup {None}, x \in {"unborn", "PENDING", "APPROVED", "REJECTED", "deleted"} :
          Row(x, s) \in Group
  BY <1>1 DEF Row, Group
<1>3. NoChange \in Change
  BY DEF NoChange, Change
<1>4. Row("unborn", None) \in Group /\ <<>> \in Seq(Groups)
  BY <1>2
<1>5. Free \in Work /\ Free.op = "none"
  BY <1>1, <1>4 DEF Free, Work
<1> QED BY <1>1, <1>2, <1>3, <1>5

\* A request keeps its types and all its fields but since.
LEMMA NotingFields ==
    ASSUME NEW w \in Work, NEW S \in SUBSET OrgIds
    PROVE  /\ Noting(w, S) \in Work /\ Noting(w, S).since = w.since \cup S
           /\ Noting(w, S).op = w.op /\ Noting(w, S).by = w.by /\ Noting(w, S).at = w.at
           /\ Noting(w, S).target = w.target /\ Noting(w, S).force = w.force
           /\ Noting(w, S).name = w.name /\ Noting(w, S).seen = w.seen
           /\ Noting(w, S).who = w.who /\ Noting(w, S).from = w.from
           /\ Noting(w, S).to = w.to /\ Noting(w, S).ids = w.ids
           /\ Noting(w, S).todo = w.todo /\ Noting(w, S).idle = w.idle
           /\ Noting(w, S).quiet = w.quiet
BY DEF Noting, Work, OrgIds

\* Noting what a step changes keeps the types of the requests.
LEMMA NotedWork ==
    ASSUME OrgTypeOK, NEW r, NEW S \in SUBSET OrgIds
    PROVE  /\ Noted(r, S) \in [Requests -> Work]
           /\ \A q \in Requests : q # r =>
                 \/ Noted(r, S)[q] = Noting(work[q], S)
                 \/ Noted(r, S)[q] = work[q] /\ work[q].op = "none"
<1>1. \A q \in Requests : work[q] \in Work
  BY DEF OrgTypeOK
<1>2. \A q \in Requests : Noting(work[q], S) \in Work
  BY <1>1, NotingFields
<1> QED BY <1>1, <1>2 DEF Noted, Noting

\* A request that ends notes the others, and one that goes on too.
LEMMA EndsWork ==
    ASSUME OrgTypeOK, NEW r \in Requests, NEW S \in SUBSET OrgIds, NEW w \in Work,
           work' = [Noted(r, S) EXCEPT ![r] = w]
    PROVE  /\ work' \in [Requests -> Work] /\ work'[r] = w
           /\ \A q \in Requests \ {r} : Notes(q, S)
BY NotedWork DEF Notes

\* A request that begins, or goes on, leaves the others as they are.
LEMMA BeginsWork ==
    ASSUME OrgTypeOK, NEW r \in Requests, NEW w \in Work, work' = [work EXCEPT ![r] = w]
    PROVE  /\ work' \in [Requests -> Work] /\ work'[r] = w
           /\ \A q \in Requests \ {r} : Notes(q, {})
BY DEF OrgTypeOK, Notes

\* What nobody under way does is noted by all.
LEMMA NoteWork ==
    ASSUME OrgTypeOK, NEW S \in SUBSET OrgIds, work' = Noted(None, S)
    PROVE  work' \in [Requests -> Work] /\ \A q \in Requests : Notes(q, S)
BY NotedWork, NullAssumption DEF Notes

\* What is submitted and settled of a row is a row.
LEMMA RowTypes ==
    ASSUME NEW row \in Group, NEW n \in Names, NEW d \in BOOLEAN, NEW s \in SubUnits \cup {None},
           NEW x \in {"APPROVED", "REJECTED"}
    PROVE  /\ Submitted(row, n, d) \in Group /\ Submitted(row, n, d).status = "PENDING"
           /\ Submitted(row, n, d).name = row.name
           /\ Submitted(row, n, d).pendingName = n /\ Submitted(row, n, d).pendingDelete = d
           /\ Settled(row, x) \in Group /\ Settled(row, x).status = x
           /\ Settled(row, x).name = row.name
           /\ [Settled(row, x) EXCEPT !.name = n] \in Group
           /\ [Settled(row, x) EXCEPT !.name = n].status = x
           /\ [Settled(row, x) EXCEPT !.name = n].name = n
           /\ Edited(row, n, s) \in Group /\ Edited(row, n, s).status = "APPROVED"
           /\ Edited(row, n, s).name = n
           /\ Edited(row, n, s).pendingName = 0 /\ ~Edited(row, n, s).pendingDelete
           /\ Settled(row, x).pendingName = 0 /\ ~Settled(row, x).pendingDelete
           /\ [Settled(row, x) EXCEPT !.name = n].pendingName = 0
           /\ ~[Settled(row, x) EXCEPT !.name = n].pendingDelete
BY OrgValues DEF Submitted, Settled, Edited, Group

\* Rows written at g leave the others, and the groups that exist, as they were.
LEMMA OneGroup ==
    ASSUME OrgTypeOK, NEW g \in Groups, NEW row \in Group, Exists(g) \/ group[g].status = "unborn",
           row.status \notin {"unborn", "deleted"}, group' = [group EXCEPT ![g] = row],
           UNCHANGED <<member, planned, change>>
    PROVE  /\ group' \in [Groups -> Group] /\ member' \in [Staff -> Existing' \cup {None}]
           /\ planned' \in SUBSET Existing' /\ change' \in [Changes -> Change]
           /\ OnlyChanges({g}) /\ group'[g] = row
<1>1. group' \in [Groups -> Group] /\ \A h \in Groups \ {g} : group'[h] = group[h]
  BY DEF OrgTypeOK
<1>2. group'[g] = row
  BY DEF OrgTypeOK
<1>3. Existing \subseteq Existing'
  BY <1>1, <1>2 DEF Existing, Exists
<1>4. member' \in [Staff -> Existing' \cup {None}] /\ planned' \in SUBSET Existing'
  BY <1>3 DEF OrgTypeOK
<1>5. change' \in [Changes -> Change]
  BY DEF OrgTypeOK
<1> QED BY <1>1, <1>2, <1>4, <1>5 DEF OnlyChanges

\* An erasure takes the groups of S, their members and what names them.
LEMMA ErasedRows ==
    ASSUME OrgTypeOK, NEW S \in SUBSET Groups, Erase(S)
    PROVE  /\ group' \in [Groups -> Group] /\ member' \in [Staff -> Existing' \cup {None}]
           /\ planned' \in SUBSET Existing' /\ change' \in [Changes -> Change]
           /\ OnlyChanges(ErasedWith(S)) /\ ErasedWith(S) \in SUBSET OrgIds
           /\ \A g \in Groups : group'[g] = IF g \in S THEN Row("deleted", None) ELSE group[g]
           /\ \A e \in Staff : member'[e] = IF member[e] \in S THEN None ELSE member[e]
           /\ \A c \in Changes : /\ change'[c].status = change[c].status
                                 /\ change'[c].of = change[c].of
<1> DEFINE keep(g) == IF g \in S THEN None ELSE g
<1>1. /\ group' = [g \in Groups |-> IF g \in S THEN Row("deleted", None) ELSE group[g]]
      /\ member' = [e \in Staff |-> keep(member[e])]
      /\ change' = [c \in Changes |-> [change[c] EXCEPT !.from = keep(@), !.to = keep(@)]]
      /\ planned' = planned \ S
  BY DEF Erase
<1>2. group' \in [Groups -> Group]
  BY <1>1, OrgValues DEF OrgTypeOK
<1>3. \A g \in Groups : group'[g] = IF g \in S THEN Row("deleted", None) ELSE group[g]
  BY <1>1
<1>4. Existing \ S \subseteq Existing'
  BY <1>3 DEF Existing, Exists
<1>5. member' \in [Staff -> Existing' \cup {None}]
  BY <1>1, <1>4 DEF OrgTypeOK
<1>6. planned' \in SUBSET Existing'
  BY <1>1, <1>4 DEF OrgTypeOK
<1>7. ASSUME NEW c \in Changes
      PROVE  /\ change'[c] \in Change /\ change'[c].status = change[c].status
             /\ change'[c].of = change[c].of
             /\ c \notin UNION {Naming(g) : g \in S} => change'[c] = change[c]
  <2>1. change[c] \in Change /\ \A g \in Groups \cup {None} : keep(g) \in Groups \cup {None}
    BY DEF OrgTypeOK
  <2>2. change'[c] = [change[c] EXCEPT !.from = keep(change[c].from), !.to = keep(change[c].to)]
    BY <1>1
  <2>3. ASSUME c \notin UNION {Naming(g) : g \in S}
        PROVE  keep(change[c].from) = change[c].from /\ keep(change[c].to) = change[c].to
    BY <2>3 DEF Naming
  <2> HIDE DEF keep
  <2>4. change'[c] \in Change /\ change'[c].status = change[c].status
        /\ change'[c].of = change[c].of
    BY <2>1, <2>2 DEF Change
  <2>5. ASSUME c \notin UNION {Naming(g) : g \in S}
        PROVE  change'[c] = change[c]
    BY ONLY <2>1, <2>2, <2>3, <2>5 DEF Change
  <2> QED BY <2>4, <2>5
<1>8. change' \in [Changes -> Change]
  BY <1>1, <1>7
<1>9. ErasedWith(S) \in SUBSET OrgIds
  BY DEF ErasedWith, OrgIds, Naming
<1>10. \A g \in Groups \ ErasedWith(S) : group'[g] = group[g] /\ (g \in planned' <=> g \in planned)
  BY <1>1, <1>3 DEF ErasedWith
<1>11. \A e \in Staff \ ErasedWith(S) : member'[e] = member[e]
  BY <1>1 DEF ErasedWith
<1>12. \A c \in Changes \ ErasedWith(S) : change'[c] = change[c]
  BY <1>7 DEF ErasedWith
<1> QED BY <1>1, <1>2, <1>3, <1>5, <1>6, <1>7, <1>8, <1>9, <1>10, <1>11, <1>12 DEF OnlyChanges
-----------------------------------------------------------------------------
(* What the steps change, and what their requests go on with.              *)

\* The request r ends, and the others note S.
Over(r, S) == work'[r] = Free /\ \A q \in Requests \ {r} : Notes(q, S)

\* A request that ends is free, and the others note what it wrote.
LEMMA EndsOver ==
    ASSUME OrgTypeOK, NEW r \in Requests, NEW S \in SUBSET OrgIds, Ends(r, S)
    PROVE  work' \in [Requests -> Work] /\ Over(r, S) /\ events' \in 0 .. MaxEvents
BY EndsWork, OrgValues DEF Ends, Over, OrgTypeOK

\* An edit writes the row of its group.
LEMMA WritesEditStep ==
    ASSUME OrgTypeOK, NEW r \in Requests, OrgFits(r), WritesEdit(r)
    PROVE  OrgTypeOK' /\ OnlyChanges({work[r].target}) /\ Over(r, {work[r].target})
<1> DEFINE w == work[r]
           g == w.target
           row == group[g]
           name == Given(w.name, row.name, 0)
           s == Given(w.to, row.subUnit, None)
           asked == Given(w.name, w.seen.pendingName, 0)
           new == IF w.by = "approver" THEN Edited(row, name, s) ELSE Submitted(row, asked, FALSE)
<1>1. w \in Work /\ g \in Groups /\ group[g] \in Group
  BY DEF OrgTypeOK, OrgFits, WritesEdit
<1>2. row \in Group
  BY <1>1
<1>3. w.to \in subUnits \cup {None}
  BY DEF WritesEdit
<1>4. name \in Names /\ asked \in Names /\ s \in SubUnits \cup {None}
  BY <1>1, <1>2, <1>3 DEF Given, Work, Group, OrgTypeOK
<1>5. /\ group' = [group EXCEPT ![g] = new] /\ Exists(g) /\ Ends(r, {g})
      /\ UNCHANGED <<subUnits, member, planned, change>>
  BY DEF WritesEdit
<1>6. new \in Group /\ new.status \notin {"unborn", "deleted"}
  <2> HIDE DEF name, s, asked, row
  <2>1. CASE w.by = "approver"
    BY <1>2, <1>4, <2>1, RowTypes
  <2>2. CASE w.by # "approver"
    BY <1>2, <1>4, <2>2, RowTypes
  <2> QED BY <2>1, <2>2
<1> HIDE DEF new, g
<1>7. subUnits' \in SUBSET SubUnits /\ {g} \in SUBSET OrgIds /\ g \in Groups
  BY <1>1, <1>5 DEF OrgTypeOK, OrgIds
<1> QED BY <1>5, <1>6, <1>7, OneGroup, EndsOver DEF OrgTypeOK, g

\* A deletion erases its group, or marks it.
LEMMA WritesDeleteStep ==
    ASSUME OrgTypeOK, NEW r \in Requests, OrgFits(r), WritesDelete(r)
    PROVE  /\ OrgTypeOK'
           /\ \E S \in SUBSET OrgIds : OnlyChanges(S) /\ Over(r, S)
<1> DEFINE g == work[r].target
<1>1. g \in Groups /\ group[g] \in Group /\ Exists(g) /\ {g} \in SUBSET Groups /\ {g} \in SUBSET OrgIds
  BY DEF OrgTypeOK, OrgFits, WritesDelete, OrgIds
<1>2. subUnits' \in SUBSET SubUnits
  BY DEF OrgTypeOK, WritesDelete
<1>3. CASE Erase({g}) /\ Ends(r, ErasedWith({g}))
  BY <1>1, <1>2, <1>3, ErasedRows, EndsOver DEF OrgTypeOK
<1>4. CASE /\ group' = [group EXCEPT ![g] = Submitted(group[g], 0, TRUE)]
           /\ Ends(r, {g}) /\ UNCHANGED <<member, planned, change>>
  <2>1. /\ Submitted(group[g], 0, TRUE) \in Group
        /\ Submitted(group[g], 0, TRUE).status \notin {"unborn", "deleted"}
    BY <1>1, RowTypes, OrgValues
  <2> QED BY <1>1, <1>2, <1>4, <2>1, OneGroup, EndsOver DEF OrgTypeOK
<1> QED BY <1>3, <1>4 DEF WritesDelete

\* A sub-unit takes its groups with it.
LEMMA DropsStep ==
    ASSUME OrgTypeOK, NEW r \in Requests, Drops(r)
    PROVE  OrgTypeOK' /\ \E S \in SUBSET OrgIds : OnlyChanges(S) /\ Over(r, S)
<1>1. In(work[r].target) \in SUBSET Groups
  BY DEF In
<1>2. subUnits' \in SUBSET SubUnits
  BY DEF OrgTypeOK, Drops
<1> QED BY <1>1, <1>2, ErasedRows, EndsOver DEF OrgTypeOK, Drops

\* A review writes the row of its group, or erases it.
LEMMA ReviewStep ==
    ASSUME OrgTypeOK, NEW r \in Requests, OrgFits(r), Approves(r) \/ Rejects(r)
    PROVE  OrgTypeOK' /\ \E S \in SUBSET OrgIds : OnlyChanges(S) /\ Over(r, S)
<1> DEFINE w == work[r]
           g == w.target
           name == Given(w.seen.pendingName, w.seen.name, 0)
           settled == [Settled(group[g], "APPROVED") EXCEPT !.name = name]
<1>1. /\ w \in Work /\ w.seen \in Group /\ g \in Groups /\ group[g] \in Group /\ Exists(g)
      /\ {g} \in SUBSET Groups /\ {g} \in SUBSET OrgIds
  BY DEF OrgTypeOK, OrgFits, Approves, Rejects, OrgIds, Work
<1>2. subUnits' \in SUBSET SubUnits
  BY DEF OrgTypeOK, Approves, Rejects
<1>3. CASE Erase({g}) /\ Ends(r, ErasedWith({g}))
  BY <1>1, <1>2, <1>3, ErasedRows, EndsOver DEF OrgTypeOK
<1>4. CASE /\ group' = [group EXCEPT ![g] = settled]
           /\ Ends(r, {g}) /\ UNCHANGED <<member, planned, change>>
  <2>1. name \in Names
    BY <1>1 DEF Given, Group
  <2> HIDE DEF name
  <2>2. settled \in Group /\ settled.status \notin {"unborn", "deleted"}
    BY <1>1, <2>1, RowTypes
  <2> HIDE DEF settled
  <2> QED BY <1>1, <1>2, <1>4, <2>2, OneGroup, EndsOver DEF OrgTypeOK
<1>5. CASE /\ group' = [group EXCEPT ![g] = Settled(group[g], "REJECTED")]
           /\ Ends(r, {g}) /\ UNCHANGED <<member, planned, change>>
  <2>1. /\ Settled(group[g], "REJECTED") \in Group
        /\ Settled(group[g], "REJECTED").status \notin {"unborn", "deleted"}
    BY <1>1, RowTypes, OrgValues
  <2> QED BY <1>1, <1>2, <1>5, <2>1, OneGroup, EndsOver DEF OrgTypeOK
<1>6. Approves(r) => \/ Erase({g}) /\ Ends(r, ErasedWith({g}))
                     \/ /\ group' = [group EXCEPT ![g] = settled]
                        /\ Ends(r, {g}) /\ UNCHANGED <<member, planned, change>>
  BY DEF Approves
<1>7. Rejects(r) => /\ group' = [group EXCEPT ![g] = Settled(group[g], "REJECTED")]
                    /\ Ends(r, {g}) /\ UNCHANGED <<member, planned, change>>
  BY DEF Rejects
<1> QED BY <1>3, <1>4, <1>5, <1>6, <1>7
-----------------------------------------------------------------------------
(* The invariant.                                                          *)

\* What a request knows lasts while others act, as it notes what they change.
LEMMA KnowsLasts ==
    ASSUME OrgTypeOK, NEW q \in Requests, NEW S \in SUBSET OrgIds, OnlyChanges(S), Notes(q, S),
           OrgFits(q), OrgKnows(q)
    PROVE  OrgFits(q)' /\ OrgKnows(q)'
<1>1. CASE work[q].op = "none" /\ work'[q] = work[q]
  BY <1>1 DEF OrgFits, OrgKnows
<1>2. CASE work'[q] = Noting(work[q], S) \/ (work'[q] = work[q] /\ S = {})
  <2> DEFINE w == work[q]
             v == work'[q]
  <2>1. w \in Work
    BY DEF OrgTypeOK
  <2>2. /\ v.since = w.since \cup S /\ v.op = w.op /\ v.by = w.by /\ v.at = w.at
        /\ v.target = w.target /\ v.force = w.force /\ v.seen = w.seen
        /\ v.who = w.who /\ v.from = w.from /\ v.to = w.to /\ v.ids = w.ids
        /\ v.todo = w.todo /\ v.idle = w.idle /\ v.quiet = w.quiet
    BY <1>2, <2>1, NotingFields
  <2>3. OrgFits(q)'
    BY <2>2 DEF OrgFits
  <2>5. v.op \in {"accept", "refuse"} /\ v.target \notin v.since =>
            change'[v.target].status = "PENDING" /\ change'[v.target].to = v.to
    BY <2>2 DEF OrgFits, OrgKnows, OnlyChanges
  <2>6. ASSUME v.op = "move", v.by = "staff"
        PROVE  /\ \A e \in v.who \ v.since : member'[e] = v.from[e]
               /\ v.at = "counting" => \A g \in Concerned(v) \ v.since :
                     group'[g].status = "APPROVED" => g \in v.ids
               /\ v.at = "writing" => \A g \in Concerned(v) \ v.since : ~Protected(g)'
    <3>1. Concerned(v) = Concerned(w) /\ Concerned(w) \subseteq Groups
      BY <2>1, <2>2, <2>6 DEF Concerned, Moved, OrgFits, Work
    <3>2. w.who \subseteq Staff
      BY <2>1 DEF Work
    <3>3. /\ \A e \in w.who \ w.since : member[e] = w.from[e]
          /\ w.at = "counting" => \A g \in Concerned(w) \ w.since :
                group[g].status = "APPROVED" => g \in w.ids
          /\ w.at = "writing" => \A g \in Concerned(w) \ w.since : ~Protected(g)
      BY <2>2, <2>6 DEF OrgKnows
    <3> HIDE DEF v, w
    <3> QED BY <2>2, <3>1, <3>2, <3>3 DEF OnlyChanges, Protected
  <2>7. v.op \in {"edit", "approve"} /\ v.target \notin v.since => group'[v.target] = v.seen
    BY <2>2 DEF OrgFits, OrgKnows, OnlyChanges
  <2>8. ASSUME v.op = "refresh"
        PROVE  /\ v.idle = "yes" => Head(v.todo) \in v.since \/ AwaitsNothing(Head(work[q].todo))'
               /\ v.quiet = "yes" => \A c \in Naming(Head(work[q].todo))' \ v.since :
                     change'[c].status # "PENDING"
    <3>1. Head(v.todo) \in Groups /\ Head(v.todo) = Head(w.todo)
      BY <2>1, <2>2, <2>8 DEF Work, OrgFits
    <3>2. /\ w.idle = "yes" => Head(w.todo) \in w.since \/ AwaitsNothing(Head(w.todo))
          /\ w.quiet = "yes" => \A c \in Naming(Head(w.todo)) \ w.since :
                change[c].status # "PENDING"
      BY <2>2, <2>8 DEF OrgKnows
    <3>3. \A c \in Naming(Head(work[q].todo))' \ S : c \in Naming(Head(w.todo)) /\ change'[c] = change[c]
      BY <3>1, <2>2 DEF Naming, OnlyChanges
    <3>4. v.idle = "yes" => Head(v.todo) \in v.since \/ AwaitsNothing(Head(work[q].todo))'
      BY <2>2, <3>1, <3>2 DEF OnlyChanges, AwaitsNothing
    <3> QED BY <2>2, <3>2, <3>3, <3>4
  <2>9. v.op = "delete" /\ v.by = "approver" /\ ~v.force => Members(work[q].target)' \subseteq v.since
    BY <2>2 DEF OrgKnows, OnlyChanges, Members
  <2>10. v.op = "drop" /\ ~v.force => In(work[q].target)' \subseteq v.since
    BY <2>2 DEF OrgKnows, OnlyChanges, In, Exists
  <2> QED BY <2>3, <2>5, <2>6, <2>7, <2>8, <2>9, <2>10 DEF OrgKnows
<1> QED BY <1>1, <1>2 DEF Notes

\* A step keeps the invariant if the one who takes it keeps his part.
LEMMA OrgInvLasts ==
    ASSUME OrgTypeOK, OrgInv, NEW S \in SUBSET OrgIds, OnlyChanges(S), NEW r,
           \A q \in Requests \ {r} : Notes(q, S),
           r \in Requests => OrgFits(r)' /\ OrgKnows(r)'
    PROVE  OrgInv'
<1> SUFFICES ASSUME NEW q \in Requests PROVE OrgFits(q)' /\ OrgKnows(q)'
  BY DEF OrgInv
<1>1. CASE q = r
  BY <1>1
<1>2. CASE q # r
  BY <1>2, KnowsLasts DEF OrgInv
<1> QED BY <1>1, <1>2

\* Who has ended knows nothing.
LEMMA OverKnows ==
    ASSUME NEW r \in Requests, work'[r] = Free
    PROVE  OrgFits(r)' /\ OrgKnows(r)'
BY OrgValues DEF OrgFits, OrgKnows
\* A request that begins has read what it knows.
LEMMA BeginsStep ==
    ASSUME OrgTypeOK, NEW r \in Requests, NEW w \in Work, Begins(r, w)
    PROVE  /\ OrgTypeOK' /\ OnlyChanges({}) /\ work'[r] = w /\ UNCHANGED data
           /\ \A q \in Requests \ {r} : Notes(q, {})
<1>1. UNCHANGED data /\ work' = [work EXCEPT ![r] = w] /\ events' \in 0 .. MaxEvents
  BY BoundsAssumption DEF Begins, Counts, OrgTypeOK
<1>2. work' \in [Requests -> Work] /\ work'[r] = w /\ \A q \in Requests \ {r} : Notes(q, {})
  BY <1>1, BeginsWork
<1> QED BY <1>1, <1>2 DEF OrgTypeOK, OnlyChanges, data, Existing, Exists

\* A request that knows what it has read may begin.
LEMMA OrgBegins ==
    ASSUME OrgTypeOK, OrgInv, NEW r \in Requests, NEW w \in Work, Begins(r, w),
           work'[r] = w /\ UNCHANGED data => OrgFits(r)' /\ OrgKnows(r)'
    PROVE  OrgTypeOK' /\ OrgInv'
BY BeginsStep, OrgInvLasts

\* An edit has read the row it will write.
LEMMA BeginsEditStep ==
    ASSUME OrgTypeOK, OrgInv, NEW r \in Requests, NEW g \in Groups,
           NEW by \in Roles, BeginsEdit(r, g, by)
    PROVE  OrgTypeOK' /\ OrgInv'
<1>1. PICK name \in {0, events + 1}, s \in subUnits \cup {None} :
          Begins(r, [Free EXCEPT !.op = "edit", !.by = by, !.target = g,
                       !.seen = group[g], !.name = name, !.to = s])
  BY DEF BeginsEdit
<1> DEFINE w == [Free EXCEPT !.op = "edit", !.by = by, !.target = g,
                   !.seen = group[g], !.name = name, !.to = s]
<1>2. name \in Names /\ s \in SubUnits \cup {None} /\ group[g] \in Group
  BY <1>1, BoundsAssumption, OrgValues DEF Begins, Counts, OrgTypeOK, Names
<1>3. w \in Work /\ w.op = "edit" /\ w.target = g /\ w.seen = group[g]
  BY <1>2, OrgValues DEF Work, Roles
<1> HIDE DEF w
<1>4. work'[r] = w /\ UNCHANGED data => OrgFits(r)' /\ OrgKnows(r)'
  BY <1>3 DEF OrgFits, OrgKnows, data
<1>5. Begins(r, w)
  BY <1>1 DEF w
<1> QED BY <1>3, <1>4, <1>5, OrgBegins

\* A deletion that is not forced has read that the group is empty.
LEMMA BeginsDeleteStep ==
    ASSUME OrgTypeOK, OrgInv, NEW r \in Requests, NEW g \in Groups,
           NEW by \in Roles, NEW force \in BOOLEAN, BeginsDelete(r, g, by, force)
    PROVE  OrgTypeOK' /\ OrgInv'
<1> DEFINE forced == force /\ by = "approver"
           w == [Free EXCEPT !.op = "delete", !.by = by, !.target = g, !.force = forced]
<1>1. Begins(r, w) /\ (by = "approver" /\ ~force => Members(g) = {})
  BY DEF BeginsDelete, Refused
<1>2. forced \in BOOLEAN /\ (by = "approver" => forced = force)
  OBVIOUS
<1> HIDE DEF forced
<1>3. w \in Work /\ w.op = "delete" /\ w.target = g /\ w.by = by /\ w.force = forced
  BY <1>2, OrgValues DEF Work, Roles
<1> HIDE DEF w
<1>4. work'[r] = w /\ UNCHANGED data => OrgFits(r)' /\ OrgKnows(r)'
  BY <1>1, <1>2, <1>3 DEF OrgFits, OrgKnows, data, Members
<1> QED BY <1>1, <1>3, <1>4, OrgBegins

\* An approval has read the row it will write.
LEMMA BeginsReviewStep ==
    ASSUME OrgTypeOK, OrgInv, NEW r \in Requests, NEW g \in Groups,
           NEW op \in {"approve", "reject"}, BeginsReview(r, g, op)
    PROVE  OrgTypeOK' /\ OrgInv'
<1> DEFINE seen == IF op = "approve" THEN group[g] ELSE Free.seen
           w == [Free EXCEPT !.op = op, !.by = "approver", !.target = g, !.seen = seen]
<1>1. Begins(r, w)
  BY DEF BeginsReview
<1>2. seen \in Group /\ (op = "approve" => seen = group[g])
  BY OrgValues DEF OrgTypeOK, Work
<1> HIDE DEF seen
<1>3. w \in Work /\ w.op = op /\ w.target = g /\ w.by = "approver" /\ w.seen = seen
  BY <1>2, OrgValues DEF Work
<1> HIDE DEF w
<1>4. work'[r] = w /\ UNCHANGED data => OrgFits(r)' /\ OrgKnows(r)'
  BY <1>2, <1>3 DEF OrgFits, OrgKnows, data
<1> QED BY <1>1, <1>3, <1>4, OrgBegins

\* A sub-unit dropped without force was read without groups.
LEMMA BeginsDropStep ==
    ASSUME OrgTypeOK, OrgInv, NEW r \in Requests, NEW s \in SubUnits,
           NEW force \in BOOLEAN, BeginsDrop(r, s, force)
    PROVE  OrgTypeOK' /\ OrgInv'
<1> DEFINE w == [Free EXCEPT !.op = "drop", !.target = s, !.force = force]
<1>1. Begins(r, w) /\ (~force => In(s) = {})
  BY DEF BeginsDrop, Refused
<1>2. w \in Work /\ w.op = "drop" /\ w.target = s /\ w.force = force
  BY OrgValues DEF Work
<1> HIDE DEF w
<1>3. work'[r] = w /\ UNCHANGED data => OrgFits(r)' /\ OrgKnows(r)'
  BY <1>1, <1>2 DEF OrgFits, OrgKnows, data, In, Exists
<1> QED BY <1>1, <1>2, <1>3, OrgBegins

\* A move has read where its employees are.
LEMMA BeginsMoveStep ==
    ASSUME OrgTypeOK, OrgInv, NEW r \in Requests, NEW who \in SUBSET Staff,
           NEW to \in Groups \cup {None}, NEW by \in Roles \cup {"planner"},
           BeginsMove(r, who, to, by)
    PROVE  OrgTypeOK' /\ OrgInv'
<1> DEFINE from == [e \in Staff |-> IF e \in who THEN member[e] ELSE None]
           at == IF by = "staff" THEN "statuses" ELSE "writing"
           w == [Free EXCEPT !.op = "move", !.by = by, !.who = who, !.to = to,
                   !.from = from, !.at = at]
<1>1. Begins(r, w)
  BY DEF BeginsMove
<1>2. /\ from \in [Staff -> Groups \cup {None}] /\ \A e \in who : from[e] = member[e]
      /\ at \in {"statuses", "writing"} /\ (by = "staff" => at = "statuses")
  BY DEF OrgTypeOK, Existing
<1> HIDE DEF from, at
<1>3. /\ w \in Work /\ w.op = "move" /\ w.by = by /\ w.who = who /\ w.to = to
      /\ w.from = from /\ w.at = at
  <2>1. by \in {"staff", "planner", "approver"} /\ at \in {"writing", "statuses", "counting", "submitting"}
    BY <1>2 DEF Roles
  <2>2. w \in Work
    BY <1>2, <2>1, OrgValues DEF Work
  <2> QED BY <2>2, OrgValues DEF Work
<1> HIDE DEF w
<1>4. work'[r] = w /\ UNCHANGED data => OrgFits(r)' /\ OrgKnows(r)'
  BY <1>2, <1>3 DEF OrgFits, OrgKnows, data
<1> QED BY <1>1, <1>3, <1>4, OrgBegins

\* A decision has read a change that was pending.
LEMMA BeginsDecisionStep ==
    ASSUME OrgTypeOK, OrgInv, Asked, NEW r \in Requests, NEW c \in Changes,
           NEW op \in {"accept", "refuse"}, BeginsDecision(r, c, op)
    PROVE  OrgTypeOK' /\ OrgInv'
<1> DEFINE e == change[c].of
           to == change[c].to
           from == [d \in Staff |-> IF d = e THEN change[c].from ELSE None]
           w == [Free EXCEPT !.op = op, !.by = "approver", !.target = c,
                   !.who = {e}, !.to = to, !.from = from]
<1>1. Begins(r, w) /\ change[c].status = "PENDING"
  BY DEF BeginsDecision, Decidable
<1>2. /\ change[c] \in Change /\ e \in Staff /\ {e} \in SUBSET Staff
      /\ to \in Groups \cup {None} /\ to = change[c].to
      /\ from \in [Staff -> Groups \cup {None}]
  BY <1>1 DEF OrgTypeOK, Change, Asked
<1> HIDE DEF from, to, e
<1>3. /\ w \in Work /\ w.op = op /\ w.target = c /\ w.who = {e} /\ w.to = to
      /\ w.by = "approver"
  BY <1>2, OrgValues DEF Work
<1> HIDE DEF w
<1>4. work'[r] = w /\ UNCHANGED data => OrgFits(r)' /\ OrgKnows(r)'
  BY <1>1, <1>2, <1>3 DEF OrgFits, OrgKnows, data
<1> QED BY <1>1, <1>3, <1>4, OrgBegins

\* A request that goes on changes its own notes only.
LEMMA OwnStep ==
    ASSUME OrgTypeOK, OrgInv, NEW r \in Requests, NEW w \in Work,
           UNCHANGED <<data, events>>, work' = [work EXCEPT ![r] = w],
           OrgFits(r)' /\ OrgKnows(r)'
    PROVE  OrgTypeOK' /\ OrgInv'
<1>1. work' \in [Requests -> Work] /\ \A q \in Requests \ {r} : Notes(q, {})
  BY BeginsWork
<1>2. OrgTypeOK'
  BY <1>1 DEF OrgTypeOK, data, Existing, Exists
<1>3. OnlyChanges({})
  BY DEF OnlyChanges, data
<1> QED BY <1>1, <1>2, <1>3, OrgInvLasts

\* A move then knows which of the groups it concerns are approved.
LEMMA ReadsStatusesStep ==
    ASSUME OrgTypeOK, OrgInv, NEW r \in Requests, ReadsStatuses(r)
    PROVE  OrgTypeOK' /\ OrgInv'
<1> DEFINE u == work[r]
           holding == {g \in Concerned(work[r]) : group[g].status = "APPROVED"}
           at == IF holding = {} THEN "writing" ELSE "counting"
           w == [u EXCEPT !.ids = holding, !.at = at]
<1>1. /\ work' = [work EXCEPT ![r].ids = holding, ![r].at = at]
      /\ UNCHANGED <<data, events>> /\ u.op = "move" /\ u.at = "statuses"
  BY DEF ReadsStatuses
<1>2. u \in Work /\ OrgFits(r) /\ OrgKnows(r)
  BY DEF OrgTypeOK, OrgInv
<1>3. holding \in SUBSET Groups /\ at \in {"writing", "counting"}
  BY <1>1, <1>2 DEF Concerned, Moved, OrgFits, Work
<1> HIDE DEF at
<1>4. work' = [work EXCEPT ![r] = w]
  BY <1>1
<1> HIDE DEF holding, u
<1>5. /\ w \in Work /\ w.op = "move" /\ w.at = at /\ w.ids = holding /\ w.by = u.by
      /\ w.who = u.who /\ w.from = u.from /\ w.to = u.to /\ w.since = u.since
  BY <1>1, <1>2, <1>3 DEF Work
<1> HIDE DEF w
<1>6. work'[r] = w
  BY <1>4 DEF OrgTypeOK
<1>7. OrgFits(r)'
  BY <1>1, <1>2, <1>5, <1>6 DEF OrgFits, u
<1>8. Concerned(w) = Concerned(u)
  BY <1>5 DEF Concerned, Moved
<1>9. OrgKnows(r)'
  <2>1. \A e \in w.who \ w.since : w.by = "staff" => member'[e] = w.from[e]
    BY <1>1, <1>2, <1>5 DEF OrgKnows, u, data
  <2>2. at = "counting" => \A g \in Concerned(w) \ w.since :
            group'[g].status = "APPROVED" => g \in w.ids
    BY <1>1, <1>5, <1>8 DEF holding, data, u
  <2>3. at = "writing" => \A g \in Concerned(w) \ w.since : ~Protected(g)'
    BY <1>1, <1>8 DEF holding, data, u, at, Protected
  <2> QED BY <1>5, <1>6, <2>1, <2>2, <2>3 DEF OrgKnows
<1> QED BY <1>1, <1>4, <1>5, <1>7, <1>9, OwnStep

\* It then writes only if none of them has an holding planning.
LEMMA CountsPlanningStep ==
    ASSUME OrgTypeOK, OrgInv, NEW r \in Requests, CountsPlanning(r)
    PROVE  OrgTypeOK' /\ OrgInv'
<1> DEFINE u == work[r]
           at == IF u.ids \cap planned = {} THEN "writing" ELSE "submitting"
           w == [u EXCEPT !.ids = {}, !.at = at]
<1>1. /\ work' = [work EXCEPT ![r].ids = {}, ![r].at = at]
      /\ UNCHANGED <<data, events>> /\ u.op = "move" /\ u.at = "counting"
  BY DEF CountsPlanning
<1>2. u \in Work /\ OrgFits(r) /\ OrgKnows(r)
  BY DEF OrgTypeOK, OrgInv
<1>3. at \in {"writing", "submitting"} /\ (at = "writing" => u.ids \cap planned = {})
  OBVIOUS
<1> HIDE DEF at
<1>4. work' = [work EXCEPT ![r] = w]
  BY <1>1
<1> HIDE DEF u
<1>5. /\ w \in Work /\ w.op = "move" /\ w.at = at /\ w.by = u.by
      /\ w.who = u.who /\ w.from = u.from /\ w.to = u.to /\ w.since = u.since
  BY <1>1, <1>2, <1>3 DEF Work
<1> HIDE DEF w
<1>6. work'[r] = w
  BY <1>4 DEF OrgTypeOK
<1>7. OrgFits(r)'
  BY <1>1, <1>2, <1>5, <1>6 DEF OrgFits, u
<1>8. Concerned(w) = Concerned(u)
  BY <1>5 DEF Concerned, Moved
<1>9. OrgKnows(r)'
  <2>1. \A e \in w.who \ w.since : w.by = "staff" => member'[e] = w.from[e]
    BY <1>1, <1>2, <1>5 DEF OrgKnows, u, data
  <2>2. w.by = "staff" => \A g \in Concerned(w) \ w.since : group[g].status = "APPROVED" => g \in u.ids
    BY <1>1, <1>2, <1>5, <1>8 DEF OrgKnows, u
  <2>3. w.by = "staff" /\ at = "writing" => \A g \in Concerned(w) \ w.since : ~Protected(g)'
    BY <1>1, <1>3, <2>2 DEF data, Protected
  <2> QED BY <1>3, <1>5, <1>6, <2>1, <2>3 DEF OrgKnows
<1> QED BY <1>1, <1>4, <1>5, <1>7, <1>9, OwnStep

\* A refresh knows of its group what it has read.
LEMMA RefreshReadsStep ==
    ASSUME OrgTypeOK, OrgInv, NEW r \in Requests, ReadsGroup(r) \/ CountsPending(r)
    PROVE  OrgTypeOK' /\ OrgInv'
<1> DEFINE u == work[r]
           idle == Answer(AwaitsNothing(Head(work[r].todo)))
           quiet == Answer(\A c \in Naming(Head(work[r].todo)) : change[c].status # "PENDING")
<1>1. u \in Work /\ OrgFits(r) /\ OrgKnows(r) /\ u.op = "refresh" /\ UNCHANGED <<data, events>>
  BY DEF OrgTypeOK, OrgInv, ReadsGroup, CountsPending
<1>2. /\ idle \in {"yes", "no"} /\ (idle = "yes" => AwaitsNothing(Head(u.todo)))
      /\ quiet \in {"yes", "no"}
      /\ quiet = "yes" => \A c \in Naming(Head(u.todo)) : change[c].status # "PENDING"
  BY DEF Answer
<1> HIDE DEF idle, quiet
<1>3. CASE ReadsGroup(r)
  <2> DEFINE w == [u EXCEPT !.idle = idle]
  <2>1. work' = [work EXCEPT ![r] = w]
    BY <1>3 DEF ReadsGroup, idle
  <2>2. work'[r] = w
    BY <2>1 DEF OrgTypeOK
  <2>3. /\ w \in Work /\ w.op = "refresh" /\ w.todo = u.todo /\ w.since = u.since
        /\ w.idle = idle /\ w.quiet = u.quiet
    BY <1>1, <1>2 DEF Work
  <2> HIDE DEF w
  <2>4. OrgFits(r)' /\ OrgKnows(r)'
    BY <1>1, <1>2, <2>2, <2>3 DEF OrgFits, OrgKnows, data, AwaitsNothing, Naming
  <2> QED BY <1>1, <2>1, <2>3, <2>4, OwnStep
<1>4. CASE CountsPending(r)
  <2> DEFINE w == [u EXCEPT !.quiet = quiet]
  <2>1. work' = [work EXCEPT ![r] = w]
    BY <1>4 DEF CountsPending, quiet
  <2>2. work'[r] = w
    BY <2>1 DEF OrgTypeOK
  <2>3. /\ w \in Work /\ w.op = "refresh" /\ w.todo = u.todo /\ w.since = u.since
        /\ w.quiet = quiet /\ w.idle = u.idle
    BY <1>1, <1>2 DEF Work
  <2> HIDE DEF w
  <2>4. OrgFits(r)' /\ OrgKnows(r)'
    BY <1>1, <1>2, <2>2, <2>3 DEF OrgFits, OrgKnows, data, AwaitsNothing, Naming
  <2> QED BY <1>1, <2>1, <2>3, <2>4, OwnStep
<1> QED BY <1>3, <1>4
\* The planning and the creation of a group are nobody's under way.
LEMMA PlanningChangesStep ==
    ASSUME OrgTypeOK, OrgInv, NEW g \in Groups, PlanningChanges(g)
    PROVE  OrgTypeOK' /\ OrgInv'
<1>1. {g} \in SUBSET OrgIds /\ g \in Existing
  BY DEF OrgIds, Existing, PlanningChanges
<1>2. work' \in [Requests -> Work] /\ \A q \in Requests : Notes(q, {g})
  BY <1>1, NoteWork DEF PlanningChanges
<1>3. OnlyChanges({g})
  BY DEF OnlyChanges, PlanningChanges
<1>4. OrgTypeOK'
  <2>1. planned' \in SUBSET Existing /\ events' \in 0 .. MaxEvents
    BY <1>1, BoundsAssumption DEF OrgTypeOK, PlanningChanges, Counts
  <2>2. Existing' = Existing /\ UNCHANGED <<subUnits, group, member, change>>
    BY DEF PlanningChanges, Existing, Exists
  <2> QED BY <1>2, <2>1, <2>2 DEF OrgTypeOK
<1>5. None \notin Requests
  BY NullAssumption
<1> QED BY <1>1, <1>2, <1>3, <1>4, <1>5, OrgInvLasts

\* A group appears.
LEMMA CreateGroupStep ==
    ASSUME OrgTypeOK, OrgInv, NEW g \in Groups, NEW s \in SubUnits, NEW by \in Roles,
           CreateGroup(g, s, by)
    PROVE  OrgTypeOK' /\ OrgInv'
<1> DEFINE row == Row(IF by = "approver" THEN "APPROVED" ELSE "PENDING", s)
<1>1. {g} \in SUBSET OrgIds
  BY DEF OrgIds
<1>2. work' \in [Requests -> Work] /\ \A q \in Requests : Notes(q, {g})
  BY <1>1, NoteWork DEF CreateGroup
<1>3. row \in Group /\ row.status \notin {"unborn", "deleted"}
  BY OrgValues DEF Row
<1>4. group' = [group EXCEPT ![g] = row] /\ UNCHANGED <<member, planned, change>>
      /\ group[g].status = "unborn"
  BY DEF CreateGroup
<1> HIDE DEF row
<1>5. /\ group' \in [Groups -> Group] /\ member' \in [Staff -> Existing' \cup {None}]
      /\ planned' \in SUBSET Existing' /\ change' \in [Changes -> Change]
      /\ OnlyChanges({g})
  BY <1>3, <1>4, OneGroup
<1>6. OrgTypeOK'
  BY <1>2, <1>5, BoundsAssumption DEF OrgTypeOK, CreateGroup, Counts
<1>7. None \notin Requests
  BY NullAssumption
<1> QED BY <1>1, <1>2, <1>5, <1>6, <1>7, OrgInvLasts

\* A move asked for opens a change for each employee it moves.
LEMMA SubmitsStep ==
    ASSUME OrgTypeOK, OrgInv, NEW r \in Requests, Submits(r)
    PROVE  /\ OrgTypeOK' /\ OrgInv'
           /\ \A c \in Changes : \/ change'[c] = change[c]
                                 \/ /\ change[c].status = "unborn"
                                    /\ change'[c].of \in Staff
<1> DEFINE w == work[r]
<1>1. /\ w \in Work /\ w.to \in Groups \cup {None} /\ Moved(w) \in SUBSET Staff
      /\ w.from \in [Staff -> Groups \cup {None}]
  BY DEF OrgTypeOK, OrgInv, OrgFits, Submits, Work, Moved
<1>2. PICK id \in [Moved(w) -> {c \in Changes : change[c].status = "unborn"}] :
        /\ change' = [c \in Changes |->
             IF \E e \in Moved(w) : id[e] = c
             THEN LET e == CHOOSE e \in Moved(w) : id[e] = c IN
                  [status |-> "PENDING", of |-> e, from |-> w.from[e], to |-> w.to]
             ELSE change[c]]
        /\ Ends(r, {id[e] : e \in Moved(w)})
  BY DEF Submits
<1> DEFINE S == {id[e] : e \in Moved(w)}
<1>3. S \in SUBSET Changes /\ S \in SUBSET OrgIds /\ \A c \in S : change[c].status = "unborn"
  BY DEF OrgIds
<1>4. ASSUME NEW c \in Changes
      PROVE  \/ c \notin S /\ change'[c] = change[c]
             \/ c \in S /\ change'[c] \in Change /\ change'[c].of \in Staff
  <2>1. CASE \E e \in Moved(w) : id[e] = c
    <3> DEFINE e == CHOOSE e \in Moved(w) : id[e] = c
    <3>1. e \in Staff
      BY <1>1, <2>1
    <3>2. change'[c] = [status |-> "PENDING", of |-> e, from |-> w.from[e], to |-> w.to]
      BY <1>2, <2>1
    <3>3. w.from[e] \in Groups \cup {None}
      BY <1>1, <3>1
    <3> HIDE DEF e, w
    <3>4. change'[c] \in Change /\ change'[c].of \in Staff
      BY <1>1, <3>1, <3>2, <3>3 DEF Change
    <3> QED BY <2>1, <3>4
  <2>2. CASE ~\E e \in Moved(w) : id[e] = c
    BY <1>2, <2>2
  <2> QED BY <2>1, <2>2
<1>5. change' \in [Changes -> Change]
  <2>1. \A c \in Changes : change'[c] \in Change
    BY <1>4 DEF OrgTypeOK
  <2> QED BY <1>2, <2>1
<1>6. UNCHANGED <<subUnits, group, member, planned>>
  BY DEF Submits
<1>7. OnlyChanges(S)
  BY <1>4, <1>6 DEF OnlyChanges
<1> HIDE DEF S
<1>8. work' \in [Requests -> Work] /\ Over(r, S) /\ events' \in 0 .. MaxEvents
  BY <1>2, <1>3, EndsOver DEF S
<1>9. OrgTypeOK'
  BY <1>5, <1>6, <1>8 DEF OrgTypeOK, Existing, Exists
<1>10. OrgInv'
  BY <1>3, <1>7, <1>8, OverKnows, OrgInvLasts DEF Over
<1> QED BY <1>3, <1>4, <1>9, <1>10

\* A move writes the group of its employees.
LEMMA MovesStep ==
    ASSUME OrgTypeOK, OrgInv, NEW r \in Requests, Moves(r)
    PROVE  OrgTypeOK' /\ OrgInv'
<1> DEFINE S == work[r].who
<1>1. S \in SUBSET Staff /\ S \in SUBSET OrgIds
  BY DEF OrgTypeOK, Work, OrgIds
<1>2. /\ member' = [e \in Staff |-> IF e \in S THEN work[r].to ELSE member[e]]
      /\ work[r].to \in Existing \cup {None} /\ Ends(r, S)
      /\ UNCHANGED <<subUnits, group, planned, change>>
  BY DEF Moves
<1> HIDE DEF S
<1>3. OnlyChanges(S)
  BY <1>2 DEF OnlyChanges
<1>4. work' \in [Requests -> Work] /\ Over(r, S) /\ events' \in 0 .. MaxEvents
  BY <1>1, <1>2, EndsOver
<1>5. OrgTypeOK'
  BY <1>2, <1>4 DEF OrgTypeOK, Existing, Exists
<1> QED BY <1>1, <1>3, <1>4, <1>5, OverKnows, OrgInvLasts DEF Over

\* A request goes on with the groups left to refresh, of which it has read nothing.
LEMMA RefreshStep ==
    ASSUME OrgTypeOK, NEW r \in Requests, NEW S \in SUBSET OrgIds, NEW left \in Seq(Groups),
           Refresh(r, left, S)
    PROVE  /\ work' \in [Requests -> Work] /\ \A q \in Requests \ {r} : Notes(q, S)
           /\ events' = events /\ OrgFits(r)' /\ OrgKnows(r)'
<1> DEFINE w == IF left = <<>> THEN Free ELSE [Free EXCEPT !.op = "refresh", !.todo = left]
<1>1. work' = [Noted(r, S) EXCEPT ![r] = w] /\ events' = events
  BY DEF Refresh
<1>2. CASE left = <<>>
  BY <1>1, <1>2, OrgValues, EndsWork, OverKnows
<1>3. CASE left # <<>>
  <2> DEFINE v == [Free EXCEPT !.op = "refresh", !.todo = left]
  <2>1. Free.idle = "unread" /\ Free.quiet = "unread"
    BY DEF Free
  <2>2. /\ v \in Work /\ v.op = "refresh" /\ v.todo = left
        /\ v.idle = "unread" /\ v.quiet = "unread"
    BY <2>1, OrgValues DEF Work
  <2>3. work' = [Noted(r, S) EXCEPT ![r] = v]
    BY <1>1, <1>3
  <2> HIDE DEF v
  <2>4. /\ work' \in [Requests -> Work] /\ work'[r] = v
        /\ \A q \in Requests \ {r} : Notes(q, S)
    BY <2>2, <2>3, EndsWork
  <2>5. OrgFits(r)' /\ OrgKnows(r)'
    BY <1>3, <2>2, <2>4 DEF OrgFits, OrgKnows
  <2> QED BY <1>1, <2>4, <2>5
<1> QED BY <1>2, <1>3

\* A decision is written over the change, and over the employee if it accepts.
LEMMA DecidesStep ==
    ASSUME OrgTypeOK, OrgInv, NEW r \in Requests, Decides(r)
    PROVE  /\ OrgTypeOK' /\ OrgInv'
           /\ \A c \in Changes : change'[c] = change[c] \/ change'[c].status # "PENDING"
           /\ \A c \in Changes \ {work[r].target} : change'[c] = change[c]
           /\ \A e \in Staff :
                 \/ member'[e] = member[e]
                 \/ work[r].op = "accept" /\ e \in work[r].who /\ member'[e] = work[r].to
<1> DEFINE w == work[r]
           e == CHOOSE e \in Staff : e \in w.who
           c == w.target
           left == Named(w.from[e]) \o Named(w.to)
<1>1. /\ w \in Work /\ w.op \in {"accept", "refuse"} /\ w.to \in Groups \cup {None}
      /\ c \in Changes /\ (\E d \in Staff : w.who = {d})
  BY DEF OrgTypeOK, OrgInv, OrgFits, Decides
<1>2. e \in Staff /\ w.who = {e} /\ w.from[e] \in Groups \cup {None}
  BY <1>1 DEF Work
<1>3. left \in Seq(Groups)
  <2>1. \A g \in Groups \cup {None} : Named(g) \in Seq(Groups)
    BY DEF Named
  <2> QED BY <1>1, <1>2, <2>1
<1>4. UNCHANGED <<subUnits, group, planned>>
  BY DEF Decides
<1>5. /\ {e, c} \in SUBSET OrgIds /\ {c} \in SUBSET OrgIds
  BY <1>1, <1>2 DEF OrgIds
<1>6. \/ /\ w.op = "accept" /\ w.to \in Existing \cup {None}
         /\ member' = [member EXCEPT ![e] = w.to]
         /\ change' = [change EXCEPT ![c].status = "APPROVED"]
         /\ Refresh(r, left, {e, c})
      \/ /\ w.op = "refuse"
         /\ change' = [change EXCEPT ![c].status = "REJECTED"]
         /\ Refresh(r, left, {c})
         /\ UNCHANGED member
  BY DEF Decides
<1> HIDE DEF left, e, c, w
<1>7. PICK status \in {"APPROVED", "REJECTED"} : change' = [change EXCEPT ![c].status = status]
  BY <1>6
<1>8. \A d \in Changes : change[d] \in Change
  BY DEF OrgTypeOK
<1>9. [change[c] EXCEPT !.status = status] \in Change
      /\ [change[c] EXCEPT !.status = status].status # "PENDING"
  BY <1>1, <1>8 DEF Change
<1>10. /\ change' \in [Changes -> Change]
       /\ \A d \in Changes : change'[d] = change[d] \/ change'[d].status # "PENDING"
       /\ \A d \in Changes \ {c} : change'[d] = change[d]
  BY <1>1, <1>7, <1>9 DEF OrgTypeOK
<1>11. CASE w.op = "accept"
  <2>1. /\ w.to \in Existing \cup {None} /\ member' = [member EXCEPT ![e] = w.to]
        /\ Refresh(r, left, {e, c})
    BY <1>6, <1>11
  <2>2. OnlyChanges({e, c})
    BY <1>4, <1>10, <2>1 DEF OnlyChanges, OrgTypeOK
  <2>3. /\ work' \in [Requests -> Work] /\ \A q \in Requests \ {r} : Notes(q, {e, c})
        /\ events' = events /\ OrgFits(r)' /\ OrgKnows(r)'
    BY <1>3, <1>5, <2>1, RefreshStep
  <2>4. OrgTypeOK'
    BY <1>2, <1>4, <1>10, <2>1, <2>3 DEF OrgTypeOK, Existing, Exists
  <2>5. OrgInv'
    BY <1>5, <2>2, <2>3, OrgInvLasts
  <2>6. \A d \in Staff : member'[d] = member[d] \/ (d = e /\ member'[d] = w.to)
    BY <2>1 DEF OrgTypeOK
  <2> QED BY <1>2, <1>10, <1>11, <2>4, <2>5, <2>6 DEF w, c
<1>12. CASE w.op = "refuse"
  <2>1. UNCHANGED member /\ Refresh(r, left, {c})
    BY <1>6, <1>12
  <2>2. OnlyChanges({c})
    BY <1>4, <1>10, <2>1 DEF OnlyChanges
  <2>3. /\ work' \in [Requests -> Work] /\ \A q \in Requests \ {r} : Notes(q, {c})
        /\ events' = events /\ OrgFits(r)' /\ OrgKnows(r)'
    BY <1>3, <1>5, <2>1, RefreshStep
  <2>4. OrgTypeOK'
    BY <1>4, <1>10, <2>1, <2>3 DEF OrgTypeOK, Existing, Exists
  <2>5. OrgInv'
    BY <1>5, <2>2, <2>3, OrgInvLasts
  <2> QED BY <1>10, <2>1, <2>4, <2>5 DEF c, w
<1> QED BY <1>1, <1>11, <1>12

\* A refresh writes the status of its group, or leaves it.
LEMMA RefreshesStep ==
    ASSUME OrgTypeOK, OrgInv, NEW r \in Requests, Refreshes(r) \/ SkipsGroup(r)
    PROVE  OrgTypeOK' /\ OrgInv'
<1> DEFINE u == work[r]
           g == Head(u.todo)
<1>1. u \in Work /\ u.op = "refresh" /\ u.todo # <<>> /\ u.todo \in Seq(Groups)
  BY DEF OrgTypeOK, OrgInv, OrgFits, Refreshes, SkipsGroup, Work
<1>2. g \in Groups /\ Tail(u.todo) \in Seq(Groups)
  BY <1>1
<1>3. {g} \in SUBSET OrgIds /\ {} \in SUBSET OrgIds
  BY <1>2 DEF OrgIds
<1>4. CASE Refreshes(r)
  <2> DEFINE row == [group[g] EXCEPT !.status = "APPROVED"]
  <2>1. /\ Exists(g) /\ group' = [group EXCEPT ![g] = row]
        /\ Refresh(r, Tail(u.todo), {g}) /\ UNCHANGED <<subUnits, member, planned, change>>
    BY <1>4 DEF Refreshes
  <2>2. group[g] \in Group
    BY <1>2 DEF OrgTypeOK
  <2>3. row \in Group /\ row.status \notin {"unborn", "deleted"}
    BY ONLY <2>2 DEF Group
  <2> HIDE DEF row, g, u
  <2>4. /\ group' \in [Groups -> Group] /\ member' \in [Staff -> Existing' \cup {None}]
        /\ planned' \in SUBSET Existing' /\ change' \in [Changes -> Change]
        /\ OnlyChanges({g})
    BY <1>2, <2>1, <2>3, OneGroup
  <2>5. /\ work' \in [Requests -> Work] /\ \A q \in Requests \ {r} : Notes(q, {g})
        /\ events' = events /\ OrgFits(r)' /\ OrgKnows(r)'
    BY <1>2, <1>3, <2>1, RefreshStep
  <2>6. OrgTypeOK'
    BY <2>1, <2>4, <2>5 DEF OrgTypeOK
  <2> QED BY <1>3, <2>4, <2>5, <2>6, OrgInvLasts
<1>5. CASE SkipsGroup(r)
  <2>1. Refresh(r, Tail(u.todo), {}) /\ UNCHANGED data
    BY <1>5 DEF SkipsGroup
  <2>2. OnlyChanges({})
    BY <2>1 DEF OnlyChanges, data
  <2>3. /\ work' \in [Requests -> Work] /\ \A q \in Requests \ {r} : Notes(q, {})
        /\ events' = events /\ OrgFits(r)' /\ OrgKnows(r)'
    BY <1>2, <1>3, <2>1, RefreshStep
  <2>4. OrgTypeOK'
    BY <2>1, <2>3 DEF OrgTypeOK, data, Existing, Exists
  <2> QED BY <1>3, <2>2, <2>3, <2>4, OrgInvLasts
<1> QED BY <1>4, <1>5

\* What is left of a refresh that fails is lost.
LEMMA FailsStep ==
    ASSUME OrgTypeOK, OrgInv, NEW r \in Requests, Fails(r)
    PROVE  OrgTypeOK' /\ OrgInv'
<1>1. {} \in SUBSET OrgIds /\ Ends(r, {}) /\ UNCHANGED data
  BY DEF Fails
<1>2. work' \in [Requests -> Work] /\ Over(r, {}) /\ events' \in 0 .. MaxEvents
  BY <1>1, EndsOver
<1>3. OnlyChanges({})
  BY <1>1 DEF OnlyChanges, data
<1>4. OrgTypeOK'
  BY <1>1, <1>2 DEF OrgTypeOK, data, Existing, Exists
<1> QED BY <1>1, <1>2, <1>3, <1>4, OverKnows, OrgInvLasts DEF Over
\* Only a submission asks for changes, and for somebody's.
LEMMA AskedStep ==
    ASSUME OrgTypeOK, OrgInv, Asked, [OrgNext]_orgVars
    PROVE  Asked'
<1> SUFFICES ASSUME NEW c \in Changes, change'[c].status = "PENDING"
             PROVE  change'[c].of \in Staff
  BY DEF Asked
<1>1. ASSUME change'[c] = change[c] \/ (change'[c].status = change[c].status /\ change'[c].of = change[c].of)
      PROVE  change'[c].of \in Staff
  BY <1>1 DEF Asked
<1>2. ASSUME UNCHANGED change PROVE change'[c].of \in Staff
  BY <1>1, <1>2
<1>3. ASSUME NEW S \in SUBSET Groups, Erase(S) PROVE change'[c].of \in Staff
  BY <1>1, <1>3, ErasedRows
<1>4. CASE UNCHANGED orgVars
  BY <1>2, <1>4 DEF orgVars, data
<1>5. ASSUME NEW r \in Requests, WritesEdit(r) \/ WritesDelete(r) \/ Drops(r)
      PROVE  change'[c].of \in Staff
  <2>1. In(work[r].target) \in SUBSET Groups
    BY DEF In
  <2>2. WritesDelete(r) => {work[r].target} \in SUBSET Groups
    BY DEF WritesDelete, OrgInv, OrgFits
  <2> QED BY <1>2, <1>3, <1>5, <2>1, <2>2 DEF WritesEdit, WritesDelete, Drops
<1>6. ASSUME NEW r \in Requests, Approves(r) \/ Rejects(r)
      PROVE  change'[c].of \in Staff
  <2>1. Approves(r) => {work[r].target} \in SUBSET Groups
    BY DEF Approves, OrgInv, OrgFits
  <2> QED BY <1>2, <1>3, <1>6, <2>1 DEF Approves, Rejects
<1>7. ASSUME NEW r \in Requests, Submits(r) \/ Moves(r) PROVE change'[c].of \in Staff
  BY <1>1, <1>2, <1>7, SubmitsStep DEF Moves
<1>8. ASSUME NEW r \in Requests, Decides(r) PROVE change'[c].of \in Staff
  BY <1>1, <1>8, DecidesStep
<1>9. ASSUME NEW r \in Requests, \/ ReadsStatuses(r) \/ CountsPlanning(r)
                                 \/ ReadsGroup(r) \/ CountsPending(r)
                                 \/ Refreshes(r) \/ SkipsGroup(r) \/ Fails(r)
      PROVE  change'[c].of \in Staff
  BY <1>2, <1>9 DEF ReadsStatuses, CountsPlanning, ReadsGroup, CountsPending, Refreshes,
                    SkipsGroup, Fails, data
<1>10. ASSUME NEW r \in Requests, NEW w, Begins(r, w) PROVE change'[c].of \in Staff
  BY <1>2, <1>10 DEF Begins, data
<1>11. ASSUME NEW g \in Groups, \/ PlanningChanges(g)
                                \/ \E s \in SubUnits, by \in Roles : CreateGroup(g, s, by)
       PROVE  change'[c].of \in Staff
  BY <1>2, <1>11 DEF PlanningChanges, CreateGroup
<1>12. ASSUME NEW r \in Requests, NEW g \in Groups, NEW by, BeginsEdit(r, g, by)
       PROVE  change'[c].of \in Staff
  BY <1>10, <1>12 DEF BeginsEdit
<1>13. ASSUME NEW r \in Requests, NEW g \in Groups, NEW by, NEW force, BeginsDelete(r, g, by, force)
       PROVE  change'[c].of \in Staff
  BY <1>10, <1>13 DEF BeginsDelete
<1>14. ASSUME NEW r \in Requests, NEW g \in Groups, NEW op, BeginsReview(r, g, op)
       PROVE  change'[c].of \in Staff
  BY <1>10, <1>14 DEF BeginsReview
<1>15. ASSUME NEW r \in Requests, NEW s \in SubUnits, NEW force, BeginsDrop(r, s, force)
       PROVE  change'[c].of \in Staff
  BY <1>10, <1>15 DEF BeginsDrop
<1>16. ASSUME NEW r \in Requests, NEW who, NEW to, NEW by, BeginsMove(r, who, to, by)
       PROVE  change'[c].of \in Staff
  BY <1>10, <1>16 DEF BeginsMove
<1>17. ASSUME NEW r \in Requests, NEW d \in Changes, NEW op, BeginsDecision(r, d, op)
       PROVE  change'[c].of \in Staff
  BY <1>10, <1>17 DEF BeginsDecision
<1>18. ASSUME OrgNext PROVE change'[c].of \in Staff
  BY <1>5, <1>6, <1>7, <1>8, <1>9, <1>11, <1>12, <1>13, <1>14, <1>15, <1>16, <1>17, <1>18
     DEF OrgNext
<1> QED BY <1>4, <1>18

\* A write after which its request is over.
LEMMA WritesStep ==
    ASSUME OrgTypeOK, OrgInv, NEW r \in Requests,
           \/ WritesEdit(r) \/ WritesDelete(r) \/ Drops(r) \/ Approves(r) \/ Rejects(r)
    PROVE  OrgTypeOK' /\ OrgInv'
<1>1. OrgFits(r)
  BY DEF OrgInv
<1>2. WritesEdit(r) => {work[r].target} \in SUBSET OrgIds
  BY DEF OrgInv, OrgFits, WritesEdit, OrgIds
<1>3. OrgTypeOK' /\ \E S \in SUBSET OrgIds : OnlyChanges(S) /\ Over(r, S)
  BY <1>1, <1>2, WritesEditStep, WritesDeleteStep, DropsStep, ReviewStep
<1>4. PICK S \in SUBSET OrgIds : OnlyChanges(S) /\ Over(r, S)
  BY <1>3
<1> QED BY <1>3, <1>4, OverKnows, OrgInvLasts DEF Over

\* The inductive invariant.
OrgIInv == OrgTypeOK /\ OrgInv /\ Asked

\* Every step keeps the inductive invariant.
LEMMA OrgStep == OrgIInv /\ [OrgNext]_orgVars => OrgIInv'
<1> SUFFICES ASSUME OrgTypeOK, OrgInv, Asked, [OrgNext]_orgVars
             PROVE  OrgTypeOK' /\ OrgInv'
  BY AskedStep DEF OrgIInv
<1>1. CASE UNCHANGED orgVars
  BY <1>1 DEF orgVars, data, OrgTypeOK, OrgInv, OrgFits, OrgKnows, Existing, Exists,
              Concerned, Moved, Protected, AwaitsNothing, Naming, Members, In
<1>2. CASE OrgNext
  BY <1>2, WritesStep, SubmitsStep, MovesStep, DecidesStep, ReadsStatusesStep,
     CountsPlanningStep, RefreshReadsStep, RefreshesStep, FailsStep, PlanningChangesStep,
     CreateGroupStep, BeginsEditStep, BeginsDeleteStep, BeginsReviewStep, BeginsDropStep,
     BeginsMoveStep, BeginsDecisionStep DEF OrgNext
<1> QED BY <1>1, <1>2

\* The inductive invariant holds in every reachable state.
LEMMA OrgIInvHolds == OrgSpec => []OrgIInv
<1>1. OrgInit => OrgIInv
  <2> SUFFICES ASSUME OrgInit PROVE OrgTypeOK /\ OrgInv /\ Asked
    BY DEF OrgIInv
  <2>1. group \in [Groups -> Group]
    <3>1. ASSUME NEW s \in SubUnits
          PROVE  [Row("PENDING", s) EXCEPT !.pendingDelete = TRUE] \in Group
      <4>1. Row("PENDING", s) \in Group
        BY OrgValues
      <4> QED BY <4>1 DEF Group
    <3> QED BY <3>1, OrgValues DEF OrgInit
  <2>2. work \in [Requests -> Work] /\ \A r \in Requests : work[r].op = "none"
    BY OrgValues DEF OrgInit
  <2>3. PICK c \in Changes, e \in Staff, to \in Existing \cup {None} :
          change = [NoChanges EXCEPT ![c] = IF to = member[e] THEN NoChange ELSE
              [status |-> "PENDING", of |-> e, from |-> member[e], to |-> to]]
    BY DEF OrgInit
  <2>4. member[e] \in Groups \cup {None} /\ to \in Groups \cup {None}
    BY DEF OrgInit, Existing
  <2>5. [status |-> "PENDING", of |-> e, from |-> member[e], to |-> to] \in Change
    BY <2>4 DEF Change
  <2>6. change \in [Changes -> Change]
    BY <2>3, <2>5, OrgValues DEF NoChanges
  <2>7. Asked
    BY <2>3 DEF Asked, NoChanges, NoChange
  <2>8. planned \in SUBSET Existing /\ member \in [Staff -> Existing \cup {None}]
    BY DEF OrgInit, Existing, Exists
  <2>9. subUnits \in SUBSET SubUnits /\ events \in 0 .. MaxEvents
    BY BoundsAssumption DEF OrgInit
  <2>10. OrgInv
    BY <2>2 DEF OrgInv, OrgFits, OrgKnows
  <2> QED BY <2>1, <2>2, <2>6, <2>7, <2>8, <2>9, <2>10 DEF OrgTypeOK
<1> QED BY <1>1, OrgStep, PTL DEF OrgSpec

\* Every reachable state has the types of OrgTypeOK.
THEOREM OrgTypeCorrect == OrgSpec => []OrgTypeOK
<1>1. OrgIInv => OrgTypeOK
  BY DEF OrgIInv
<1> QED BY <1>1, OrgIInvHolds, PTL
-----------------------------------------------------------------------------
(* What becomes of a row.                                                  *)

\* The steps that write no row of the three tables.
Still == UNCHANGED <<group, member, change>>

\* Who writes the three tables.
LEMMA Stills ==
    ASSUME [OrgNext]_orgVars
    PROVE  \/ Still
           \/ \E g \in Groups, s \in SubUnits, by \in Roles : CreateGroup(g, s, by)
           \/ \E r \in Requests : \/ WritesEdit(r) \/ WritesDelete(r) \/ Drops(r)
                                  \/ Approves(r) \/ Rejects(r) \/ Submits(r) \/ Moves(r)
                                  \/ Decides(r) \/ Refreshes(r)
<1> USE DEF Still, data
<1>1. UNCHANGED orgVars => Still
  BY DEF orgVars
<1>2. ASSUME NEW r, NEW w, Begins(r, w) PROVE Still
  BY <1>2 DEF Begins
<1>3. ASSUME NEW r \in Requests, \/ ReadsStatuses(r) \/ CountsPlanning(r) \/ ReadsGroup(r)
                                 \/ CountsPending(r) \/ SkipsGroup(r) \/ Fails(r)
      PROVE  Still
  BY <1>3 DEF ReadsStatuses, CountsPlanning, ReadsGroup, CountsPending, SkipsGroup, Fails
<1>4. ASSUME NEW g \in Groups, PlanningChanges(g) PROVE Still
  BY <1>4 DEF PlanningChanges
<1>5. ASSUME NEW r, NEW g, NEW by, BeginsEdit(r, g, by) PROVE Still
  BY <1>2, <1>5 DEF BeginsEdit
<1>6. ASSUME NEW r, NEW g, NEW by, NEW force, BeginsDelete(r, g, by, force) PROVE Still
  BY <1>2, <1>6 DEF BeginsDelete
<1>7. ASSUME NEW r, NEW g, NEW op, BeginsReview(r, g, op) PROVE Still
  BY <1>2, <1>7 DEF BeginsReview
<1>8. ASSUME NEW r, NEW s, NEW force, BeginsDrop(r, s, force) PROVE Still
  BY <1>2, <1>8 DEF BeginsDrop
<1>9. ASSUME NEW r, NEW who, NEW to, NEW by, BeginsMove(r, who, to, by) PROVE Still
  BY <1>2, <1>9 DEF BeginsMove
<1>10. ASSUME NEW r, NEW c, NEW op, BeginsDecision(r, c, op) PROVE Still
  BY <1>2, <1>10 DEF BeginsDecision
<1> HIDE DEF Still
<1> QED BY <1>1, <1>3, <1>4, <1>5, <1>6, <1>7, <1>8, <1>9, <1>10 DEF OrgNext

\* The status of a change is a decision's to write, or a submission's.
LEMMA ChangeWriters ==
    ASSUME OrgTypeOK, OrgInv, [OrgNext]_orgVars, NEW c \in Changes,
           change'[c].status # change[c].status
    PROVE  \/ change[c].status = "unborn"
           \/ \E r \in Requests : Decides(r) /\ work[r].target = c
<1>1. ASSUME NEW S \in SUBSET Groups, Erase(S) PROVE FALSE
  BY <1>1, ErasedRows
<1>2. In(c) \in SUBSET Groups /\ \A r \in Requests : In(work[r].target) \in SUBSET Groups
  BY DEF In
<1>3. \A r \in Requests : WritesDelete(r) \/ Approves(r) => {work[r].target} \in SUBSET Groups
  BY DEF OrgInv, OrgFits, WritesDelete, Approves
<1>4. ~Still
  BY DEF Still
<1>5. \A g, s, by : ~CreateGroup(g, s, by)
  BY DEF CreateGroup
<1>6. \A r \in Requests : /\ ~WritesEdit(r) /\ ~WritesDelete(r) /\ ~Drops(r) /\ ~Approves(r)
                          /\ ~Rejects(r) /\ ~Moves(r) /\ ~Refreshes(r)
  BY <1>1, <1>2, <1>3 DEF WritesEdit, WritesDelete, Drops, Approves, Rejects, Moves, Refreshes
<1>7. ASSUME NEW r \in Requests, Submits(r) PROVE change[c].status = "unborn"
  BY <1>7, SubmitsStep
<1>8. ASSUME NEW r \in Requests, Decides(r) PROVE work[r].target = c
  BY <1>8, DecidesStep
<1> QED BY <1>4, <1>5, <1>6, <1>7, <1>8, Stills

\* A membership change is decided once, unless the decision had read it before
\* the other one (approveMembershipChange, rejectMembershipChange).
THEOREM ChangesAreDecidedOnce == OrgSpec => DecidedOnce
<1>1. ASSUME OrgIInv, [OrgNext]_orgVars, NEW c \in Changes,
             change[c].status \in {"APPROVED", "REJECTED"}, change'[c].status # change[c].status
      PROVE  \E r \in Requests : Decides(r) /\ work[r].target = c /\ c \in work[r].since
  <2>1. PICK r \in Requests : Decides(r) /\ work[r].target = c
    BY <1>1, ChangeWriters DEF OrgIInv
  <2>2. OrgKnows(r) /\ work[r].op \in {"accept", "refuse"}
    BY <1>1, <2>1 DEF OrgIInv, OrgInv, Decides
  <2>3. c \in work[r].since
    BY <1>1, <2>1, <2>2 DEF OrgKnows
  <2> QED BY <2>1, <2>3
<1>2. OrgIInv /\ [OrgNext]_orgVars =>
        [\A c \in Changes : change[c].status \in {"APPROVED", "REJECTED"} =>
            \/ change'[c].status = change[c].status
            \/ \E r \in Requests :
                  Decides(r) /\ work[r].target = c /\ c \in work[r].since]_orgVars
  BY <1>1
<1> QED BY <1>2, OrgIInvHolds, PTL DEF OrgSpec, DecidedOnce

\* Who moves an employee.
LEMMA MemberWriters ==
    ASSUME OrgTypeOK, OrgInv, [OrgNext]_orgVars, NEW e \in Staff, member'[e] # member[e]
    PROVE  \/ member'[e] = None /\ group'[member[e]].status = "deleted"
           \/ \E r \in Requests : /\ Decides(r) /\ work[r].op = "accept"
                                  /\ e \in work[r].who /\ member'[e] = work[r].to
           \/ \E r \in Requests : Moves(r) /\ e \in work[r].who /\ member'[e] = work[r].to
<1>1. ASSUME NEW S \in SUBSET Groups, Erase(S)
      PROVE  member'[e] = None /\ group'[member[e]].status = "deleted"
  <2>1. /\ \A g \in Groups : group'[g] = IF g \in S THEN Row("deleted", None) ELSE group[g]
        /\ member'[e] = IF member[e] \in S THEN None ELSE member[e]
    BY <1>1, ErasedRows
  <2> QED BY <2>1 DEF Row
<1>2. \A r \in Requests : In(work[r].target) \in SUBSET Groups
  BY DEF In
<1>3. \A r \in Requests : WritesDelete(r) \/ Approves(r) => {work[r].target} \in SUBSET Groups
  BY DEF OrgInv, OrgFits, WritesDelete, Approves
<1>4. ~Still /\ \A g, s, by : ~CreateGroup(g, s, by)
  BY DEF Still, CreateGroup
<1>5. ASSUME NEW r \in Requests, WritesDelete(r) \/ Drops(r) \/ Approves(r)
      PROVE  member'[e] = None /\ group'[member[e]].status = "deleted"
  BY <1>1, <1>2, <1>3, <1>5 DEF WritesDelete, Drops, Approves
<1>6. \A r \in Requests : ~WritesEdit(r) /\ ~Rejects(r) /\ ~Submits(r) /\ ~Refreshes(r)
  BY DEF WritesEdit, Rejects, Submits, Refreshes
<1>7. ASSUME NEW r \in Requests, Moves(r) PROVE e \in work[r].who /\ member'[e] = work[r].to
  BY <1>7 DEF Moves
<1>8. ASSUME NEW r \in Requests, Decides(r)
      PROVE  work[r].op = "accept" /\ e \in work[r].who /\ member'[e] = work[r].to
  BY <1>8, DecidesStep
<1> QED BY <1>4, <1>5, <1>6, <1>7, <1>8, Stills

\* What a move knows when it writes entitles it.
LEMMA MovesEntitled ==
    ASSUME OrgIInv, [OrgNext]_orgVars, NEW e \in Staff PROVE MoveIsEntitled(e)
<1> SUFFICES ASSUME member'[e] # member[e] PROVE MoveIsEntitled(e)
  BY DEF MoveIsEntitled
<1>1. OrgTypeOK /\ OrgInv
  BY DEF OrgIInv
<1>2. ASSUME NEW r \in Requests, Decides(r), work[r].op = "accept", member'[e] = work[r].to
      PROVE  LET c == work[r].target IN
                (change[c].status = "PENDING" /\ change[c].to = member'[e]) \/ c \in work[r].since
  BY <1>1, <1>2 DEF OrgInv, OrgKnows
<1>3. ASSUME NEW r \in Requests, Moves(r), e \in work[r].who, member'[e] = work[r].to,
             work[r].by = "staff", {e, member[e], member'[e]} \cap work[r].since = {}
      PROVE  ~Protected(member[e]) /\ ~Protected(member'[e])
  <2>1. /\ work[r].op = "move" /\ work[r].at = "writing" /\ OrgKnows(r) /\ work[r] \in Work
    BY <1>1, <1>3 DEF Moves, OrgInv, OrgTypeOK
  <2>2. member[e] = work[r].from[e] /\ e \in Moved(work[r])
    BY <1>3, <2>1 DEF OrgKnows, Moved
  <2>3. \A g \in {member[e], member'[e]} \ {None} : g \in Concerned(work[r]) \ work[r].since
    BY <1>3, <2>2 DEF Concerned
  <2> QED BY <1>3, <2>1, <2>3 DEF OrgKnows, Protected
<1> QED BY <1>1, <1>2, <1>3, MemberWriters DEF MoveIsEntitled
\* Who writes the row of a group, and what.
LEMMA GroupWriters ==
    ASSUME OrgTypeOK, OrgInv, [OrgNext]_orgVars, NEW g \in Groups, Exists(g),
           group'[g] # group[g]
    PROVE  \/ \E r \in Requests :
                \/ /\ WritesEdit(r) /\ By(r, "edit", g)
                   /\ \E n \in Names, s \in SubUnits \cup {None} : group'[g] = Edited(group[g], n, s)
                \/ /\ WritesEdit(r) /\ work[r].target = g /\ work[r].by # "approver"
                   /\ group'[g] = Submitted(group[g],
                                     Given(work[r].name, work[r].seen.pendingName, 0), FALSE)
                \/ WritesDelete(r) /\ group'[g] = Submitted(group[g], 0, TRUE)
                \/ Rejects(r) /\ By(r, "reject", g) /\ group'[g] = Settled(group[g], "REJECTED")
                \/ /\ Approves(r) /\ By(r, "approve", g)
                   /\ group'[g] = [Settled(group[g], "APPROVED") EXCEPT
                          !.name = Given(work[r].seen.pendingName, work[r].seen.name, 0)]
                \/ /\ Refreshes(r) /\ Head(work[r].todo) = g
                   /\ group'[g] = [group[g] EXCEPT !.status = "APPROVED"]
           \/ /\ group'[g].status = "deleted"
              /\ \E r \in Requests :
                \/ WritesDelete(r) /\ By(r, "delete", g)
                \/ Approves(r) /\ By(r, "approve", g) /\ work[r].seen.pendingDelete
                \/ Drops(r) /\ work[r].target = group[g].subUnit
<1>1. ASSUME NEW S \in SUBSET Groups, Erase(S) PROVE g \in S /\ group'[g].status = "deleted"
  <2>1. group'[g] = IF g \in S THEN Row("deleted", None) ELSE group[g]
    BY <1>1, ErasedRows
  <2> QED BY <2>1 DEF Row
<1>2. ASSUME NEW h, NEW row, group' = [group EXCEPT ![h] = row]
      PROVE  h = g /\ group'[g] = row
  BY <1>2 DEF OrgTypeOK
<1>3. \A r \in Requests : work[r] \in Work /\ OrgFits(r)
  BY DEF OrgInv, OrgTypeOK
<1>4. ~Still /\ \A h, s, by : ~CreateGroup(h, s, by)
  <2>1. ASSUME NEW h, NEW s, NEW by, CreateGroup(h, s, by) PROVE FALSE
    <3>1. h = g
      BY <1>2, <2>1 DEF CreateGroup
    <3> QED BY <2>1, <3>1 DEF CreateGroup, Exists
  <2> QED BY <2>1 DEF Still
<1>5. \A r \in Requests : ~Submits(r) /\ ~Moves(r) /\ ~Decides(r)
  BY DEF Submits, Moves, Decides
<1>6. ASSUME NEW r \in Requests, WritesEdit(r)
      PROVE  \/ /\ By(r, "edit", g)
                /\ \E n \in Names, s \in SubUnits \cup {None} : group'[g] = Edited(group[g], n, s)
             \/ /\ work[r].target = g /\ work[r].by # "approver"
                /\ group'[g] = Submitted(group[g],
                                  Given(work[r].name, work[r].seen.pendingName, 0), FALSE)
  <2> DEFINE w == work[r]
             n == Given(w.name, group[w.target].name, 0)
             s == Given(w.to, group[w.target].subUnit, None)
             new == IF w.by = "approver" THEN Edited(group[w.target], n, s)
                    ELSE Submitted(group[w.target], Given(w.name, w.seen.pendingName, 0), FALSE)
  <2>1. /\ group' = [group EXCEPT ![w.target] = new] /\ w.op = "edit"
        /\ w.to \in subUnits \cup {None}
    BY <1>6 DEF WritesEdit
  <2>2. w.target = g /\ group'[g] = new
    <3> HIDE DEF new
    <3> QED BY <1>2, <2>1
  <2>3. n \in Names /\ s \in SubUnits \cup {None}
    BY <1>3, <2>1, <2>2 DEF Given, OrgTypeOK, Work, Group
  <2> HIDE DEF n, s
  <2> QED BY <2>1, <2>2, <2>3 DEF By
<1>7. ASSUME NEW r \in Requests, WritesDelete(r)
      PROVE  \/ group'[g] = Submitted(group[g], 0, TRUE)
             \/ group'[g].status = "deleted" /\ By(r, "delete", g)
  <2>1. {work[r].target} \in SUBSET Groups /\ work[r].op = "delete"
    BY <1>3, <1>7 DEF OrgFits, WritesDelete
  <2>2. CASE Erase({work[r].target}) /\ work[r].by = "approver"
    BY <1>1, <2>1, <2>2 DEF By
  <2>3. CASE group' = [group EXCEPT ![work[r].target] = Submitted(group[work[r].target], 0, TRUE)]
    BY <1>2, <2>3
  <2> QED BY <1>7, <2>2, <2>3 DEF WritesDelete
<1>8. ASSUME NEW r \in Requests, Rejects(r)
      PROVE  By(r, "reject", g) /\ group'[g] = Settled(group[g], "REJECTED")
  BY <1>2, <1>3, <1>8 DEF Rejects, By, OrgFits
<1>9. ASSUME NEW r \in Requests, Approves(r)
      PROVE  /\ By(r, "approve", g)
             /\ \/ group'[g].status = "deleted" /\ work[r].seen.pendingDelete
                \/ group'[g] = [Settled(group[g], "APPROVED") EXCEPT
                          !.name = Given(work[r].seen.pendingName, work[r].seen.name, 0)]
  <2> DEFINE w == work[r]
             name == Given(w.seen.pendingName, w.seen.name, 0)
  <2>1. {w.target} \in SUBSET Groups /\ w.op = "approve" /\ w.by = "approver"
    BY <1>3, <1>9 DEF OrgFits, Approves
  <2>2. \/ Erase({w.target}) /\ w.seen.pendingDelete
        \/ group' = [group EXCEPT ![w.target] =
                        [Settled(group[w.target], "APPROVED") EXCEPT !.name = name]]
    BY <1>9 DEF Approves
  <2> HIDE DEF name
  <2>3. CASE Erase({w.target}) /\ w.seen.pendingDelete
    BY <1>1, <2>1, <2>3 DEF By
  <2>4. CASE group' = [group EXCEPT ![w.target] =
                        [Settled(group[w.target], "APPROVED") EXCEPT !.name = name]]
    BY <1>2, <2>1, <2>4 DEF By, name
  <2> QED BY <2>2, <2>3, <2>4
<1>10. ASSUME NEW r \in Requests, Drops(r)
       PROVE  group'[g].status = "deleted" /\ work[r].target = group[g].subUnit
  <2>1. In(work[r].target) \in SUBSET Groups
    BY DEF In
  <2>2. g \in In(work[r].target) /\ group'[g].status = "deleted"
    BY <1>1, <1>10, <2>1 DEF Drops
  <2> QED BY <2>2 DEF In
<1>11. ASSUME NEW r \in Requests, Refreshes(r)
       PROVE  Head(work[r].todo) = g /\ group'[g] = [group[g] EXCEPT !.status = "APPROVED"]
  <2> DEFINE h == Head(work[r].todo)
  <2>1. group' = [group EXCEPT ![h] = [group[h] EXCEPT !.status = "APPROVED"]]
    BY <1>11 DEF Refreshes
  <2> HIDE DEF h
  <2>2. h = g /\ group'[g] = [group[h] EXCEPT !.status = "APPROVED"]
    BY <1>2, <2>1
  <2> QED BY <2>2 DEF h
<1> QED BY <1>4, <1>5, <1>6, <1>7, <1>8, <1>9, <1>10, <1>11, Stills

\* What a deletion knows when it writes says that it was asked for.
LEMMA DeletionsAsked ==
    ASSUME OrgIInv, [OrgNext]_orgVars, NEW g \in Groups PROVE GoesAsAsked(g)
<1> SUFFICES ASSUME Exists(g), group'[g].status = "deleted" PROVE GoesAsAsked(g)
  BY DEF GoesAsAsked
<1>1. OrgTypeOK /\ OrgInv /\ group[g] \in Group /\ group'[g] # group[g]
  BY DEF OrgIInv, OrgTypeOK, Exists
<1>2. \A n \in Names, s \in SubUnits \cup {None}, d \in BOOLEAN :
         /\ Edited(group[g], n, s).status # "deleted"
         /\ Submitted(group[g], n, d).status # "deleted"
         /\ (Settled(group[g], "REJECTED")).status # "deleted"
         /\ [Settled(group[g], "APPROVED") EXCEPT !.name = n].status # "deleted"
         /\ [group[g] EXCEPT !.status = "APPROVED"].status # "deleted"
  BY <1>1 DEF Edited, Submitted, Settled, Group
<1>3. ASSUME NEW r \in Requests
      PROVE  /\ work[r] \in Work /\ OrgKnows(r)
             /\ Given(work[r].name, work[r].seen.pendingName, 0) \in Names
             /\ Given(work[r].seen.pendingName, work[r].seen.name, 0) \in Names
  BY <1>1 DEF OrgTypeOK, OrgInv, Given, Work, Group
<1>4. 0 \in Names
  BY OrgValues
<1>5. PICK r \in Requests :
        \/ WritesDelete(r) /\ By(r, "delete", g)
        \/ Approves(r) /\ By(r, "approve", g) /\ work[r].seen.pendingDelete
        \/ Drops(r) /\ work[r].target = group[g].subUnit
  BY <1>1, <1>2, <1>3, <1>4, GroupWriters
<1>6. WritesDelete(r) /\ By(r, "delete", g) => work[r].force \/ Members(g) \subseteq work[r].since
  BY <1>3 DEF By, OrgKnows
<1>7. Approves(r) /\ By(r, "approve", g) /\ work[r].seen.pendingDelete =>
        group[g].pendingDelete \/ g \in work[r].since
  BY <1>3 DEF By, OrgKnows
<1>8. Drops(r) /\ work[r].target = group[g].subUnit => work[r].force \/ g \in work[r].since
  BY <1>3 DEF Drops, OrgKnows, In
<1> QED BY <1>5, <1>6, <1>7, <1>8 DEF GoesAsAsked

\* What a request knows of the row when it writes is what was submitted.
LEMMA SubmissionsReviewed ==
    ASSUME OrgIInv, [OrgNext]_orgVars, NEW g \in Groups PROVE SubmissionIsReviewed(g)
<1> SUFFICES ASSUME Exists(g), group'[g].status # "deleted" PROVE SubmissionIsReviewed(g)
  BY DEF SubmissionIsReviewed
<1> DEFINE old == group[g]
           new == group'[g]
<1>1. OrgTypeOK /\ OrgInv /\ old \in Group
  BY DEF OrgIInv, OrgTypeOK
<1>2. ASSUME NEW r \in Requests
      PROVE  /\ work[r] \in Work /\ work[r].seen \in Group /\ OrgKnows(r)
             /\ Given(work[r].name, work[r].seen.pendingName, 0) \in Names
             /\ Given(work[r].seen.pendingName, work[r].seen.name, 0) \in Names
  BY <1>1 DEF OrgTypeOK, OrgInv, Given, Work, Group
<1> HIDE DEF old
<1>3. ASSUME NEW n \in Names, NEW d \in BOOLEAN
      PROVE  /\ Submitted(old, n, d).name = old.name /\ Submitted(old, n, d).pendingName = n
             /\ Submitted(old, n, d).pendingDelete = d /\ Submitted(old, n, d).status = "PENDING"
             /\ (Settled(old, "REJECTED")).name = old.name
             /\ (Settled(old, "REJECTED")).status = "REJECTED"
             /\ [Settled(old, "APPROVED") EXCEPT !.name = n].name = n
             /\ [old EXCEPT !.status = "APPROVED"].name = old.name
             /\ [old EXCEPT !.status = "APPROVED"].pendingName = old.pendingName
  BY <1>1 DEF Submitted, Settled, Group
<1>4. ASSUME NEW r \in Requests, Approves(r), By(r, "approve", g),
             new = [Settled(old, "APPROVED") EXCEPT
                        !.name = Given(work[r].seen.pendingName, work[r].seen.name, 0)]
      PROVE  new.name = Given(old.pendingName, old.name, 0) \/ g \in work[r].since
  <2>1. new.name = Given(work[r].seen.pendingName, work[r].seen.name, 0)
    BY <1>2, <1>3, <1>4
  <2>2. work[r].seen = old \/ g \in work[r].since
    BY <1>2, <1>4 DEF By, OrgKnows, old
  <2> QED BY <2>1, <2>2
<1>5. ASSUME NEW r \in Requests, WritesEdit(r), work[r].target = g, work[r].by # "approver",
             new = Submitted(old, Given(work[r].name, work[r].seen.pendingName, 0), FALSE),
             old.pendingName # 0, new.pendingName = 0
      PROVE  g \in work[r].since
  <2>1. Given(work[r].name, work[r].seen.pendingName, 0) = 0
    <3> DEFINE n == Given(work[r].name, work[r].seen.pendingName, 0)
    <3>1. n \in Names /\ new = Submitted(old, n, FALSE)
      BY <1>2, <1>5
    <3> HIDE DEF n, new
    <3>2. new.pendingName = n
      BY <1>3, <3>1
    <3> QED BY <1>5, <3>2 DEF n
  <2>2. work[r].seen.pendingName = 0
    BY <2>1 DEF Given
  <2> QED BY <1>2, <1>5, <2>2 DEF WritesEdit, OrgKnows, old
<1>6. ASSUME NEW r \in Requests, Refreshes(r), Head(work[r].todo) = g
      PROVE  \/ /\ old.status = "PENDING" /\ old.pendingName = 0 /\ ~old.pendingDelete
                /\ \A c \in Naming(g) : change[c].status # "PENDING"
             \/ ({g} \cup Naming(g)) \cap work[r].since # {}
  BY <1>2, <1>6 DEF Refreshes, OrgKnows, AwaitsNothing, old
<1>7. 0 \in Names
  BY OrgValues
<1>8. ASSUME new # old
      PROVE  \E r \in Requests :
                \/ WritesEdit(r) /\ By(r, "edit", g)
                \/ /\ WritesEdit(r) /\ work[r].target = g /\ work[r].by # "approver"
                   /\ new = Submitted(old,
                               Given(work[r].name, work[r].seen.pendingName, 0), FALSE)
                \/ WritesDelete(r) /\ new = Submitted(old, 0, TRUE)
                \/ Rejects(r) /\ By(r, "reject", g) /\ new = Settled(old, "REJECTED")
                \/ /\ Approves(r) /\ By(r, "approve", g)
                   /\ new = [Settled(old, "APPROVED") EXCEPT
                          !.name = Given(work[r].seen.pendingName, work[r].seen.name, 0)]
                \/ /\ Refreshes(r) /\ Head(work[r].todo) = g
                   /\ new = [old EXCEPT !.status = "APPROVED"]
  BY <1>1, <1>8, GroupWriters DEF old
<1> HIDE DEF new
<1>9. new.name # old.name => \E r \in Requests :
              \/ WritesEdit(r) /\ By(r, "edit", g)
              \/ /\ Approves(r) /\ By(r, "approve", g)
                 /\ new.name = Given(old.pendingName, old.name, 0) \/ g \in work[r].since
  <2>1. ASSUME NEW r \in Requests,
               \/ \E n \in Names, d \in BOOLEAN : new = Submitted(old, n, d)
               \/ new = Settled(old, "REJECTED")
               \/ new = [old EXCEPT !.status = "APPROVED"]
        PROVE  new.name = old.name
    <3>1. ASSUME NEW n \in Names, NEW d \in BOOLEAN, new = Submitted(old, n, d)
          PROVE  new.name = old.name
      BY <1>3, <3>1
    <3>2. /\ (Settled(old, "REJECTED")).name = old.name
          /\ [old EXCEPT !.status = "APPROVED"].name = old.name
      BY <1>3, <1>7
    <3> QED BY <2>1, <3>1, <3>2
  <2> QED BY <1>2, <1>4, <1>7, <1>8, <2>1
<1>10. old.pendingName # 0 /\ new.pendingName = 0 /\ ~new.pendingDelete =>
              \E r \in Requests :
                \/ /\ WritesEdit(r) /\ work[r].target = g
                   /\ work[r].by = "approver" \/ g \in work[r].since
                \/ Rejects(r) /\ By(r, "reject", g)
                \/ /\ Approves(r) /\ By(r, "approve", g)
                   /\ new.name = old.pendingName \/ g \in work[r].since
  <2>1. old.pendingName # 0 => Given(old.pendingName, old.name, 0) = old.pendingName
    BY DEF Given
  <2>2. \A r \in Requests : By(r, "edit", g) => work[r].target = g /\ work[r].by = "approver"
    BY DEF By
  <2> QED BY <1>2, <1>3, <1>4, <1>5, <1>7, <1>8, <2>1, <2>2
<1>11. old.status # "APPROVED" /\ new.status = "APPROVED" => \E r \in Requests :
              \/ WritesEdit(r) /\ By(r, "edit", g)
              \/ Approves(r) /\ By(r, "approve", g)
              \/ /\ Refreshes(r) /\ Head(work[r].todo) = g
                 /\ \/ /\ old.status = "PENDING"
                       /\ old.pendingName = 0 /\ ~old.pendingDelete
                       /\ \A c \in Naming(g) : change[c].status # "PENDING"
                    \/ ({g} \cup Naming(g)) \cap work[r].since # {}
  BY <1>2, <1>3, <1>6, <1>7, <1>8
<1> QED BY <1>9, <1>10, <1>11 DEF old, new, SubmissionIsReviewed

\* Members move, groups are renamed, approved, rid of what was submitted of them and
\* deleted only by who may, as asked and reviewed, unless it changed since it was read
\* (moveEmployee(s), updateGroup, deleteGroup, approveGroup, rejectGroup, deleteSubUnit,
\* refreshMembershipGroupStatuses).
THEOREM ChangesHaveTitles == OrgSpec => ChangesAreEntitled
<1>1. OrgIInv /\ [OrgNext]_orgVars => [\A e \in Staff : MoveIsEntitled(e)]_orgVars
  BY MovesEntitled
<1>2. OrgIInv /\ [OrgNext]_orgVars => [\A g \in Groups : SubmissionIsReviewed(g)]_orgVars
  BY SubmissionsReviewed
<1>3. OrgIInv /\ [OrgNext]_orgVars => [\A g \in Groups : GoesAsAsked(g)]_orgVars
  BY DeletionsAsked
<1>4. OrgSpec => MovesAreEntitled
  BY <1>1, OrgIInvHolds, PTL DEF OrgSpec, MovesAreEntitled
<1>5. OrgSpec => SubmissionsAreReviewed
  BY <1>2, OrgIInvHolds, PTL DEF OrgSpec, SubmissionsAreReviewed
<1>6. OrgSpec => DeletionIsAsked
  BY <1>3, OrgIInvHolds, PTL DEF OrgSpec, DeletionIsAsked
<1> QED BY <1>4, <1>5, <1>6 DEF ChangesAreEntitled

-----------------------------------------------------------------------------
(* UserAccounts: sessions, and lists replaced in place                     *)

\* A session nobody has opened belongs to nobody, and an ended one is over.
SessionInv ==
    \A s \in Sessions :
        /\ session[s].at = "free" => session[s].of = "none"
        /\ s \in ended => session[s].over /\ session[s].at # "free"

\* What a request has in hand: the user it is about, the session it has inserted, a list
\* that exists with what may be granted in it, the rows of the list it deletes, unless
\* another request has written it since.
InHand(w) ==
    /\ w.op \in {"login", "deactivate"} => w.of \in Holders
    /\ w.op = "login" /\ w.at = "signing" =>
          w.session \in Sessions /\ session[w.session].at # "free"
    /\ w.op \in {"grant", "seed"} <=> w.list # NoList
    /\ w.list # NoList => w.wanted \subseteq Things(w.list) /\ Born(w.list)
    /\ w.op = "seed" => w.list[1] = "permissions"
    /\ w.list # NoList /\ w.at = "deleting" => w.mixed \/ grants[w.list] = w.seen
    /\ w.op = "seed" /\ w.at = "creating" => w.mixed \/ grants[w.list] = {}

AccountInv ==
    /\ AccountTypeOK
    /\ SessionInv
    /\ \A q \in AccountRequests : InHand(accountWork[q])

-----------------------------------------------------------------------------
\* Nothing is in hand before the first request.
LEMMA NoWorkInHand == NoWork \in AccountWork /\ InHand(NoWork) /\ InHand(NoWork)'
<1>1. NoWork \in AccountWork
  BY DEF NoWork, AccountWork
<1> QED BY <1>1 DEF NoWork, InHand

\* A list is none of the requests without one.
LEMMA ListsAreSome == NoList \notin Lists
BY DEF NoList, Lists

\* A list is that of a user or of a role.
LEMMA ListKinds ==
    ASSUME NEW t \in Lists
    PROVE  \/ t[1] \in {"roles", "areas"} /\ t[2] \in Holders /\ t = <<t[1], t[2]>>
           \/ t[1] = "permissions" /\ t[2] \in RoleCodes /\ t = <<t[1], t[2]>>
BY DEF Lists

\* A role to seed has its permissions in hand.
LEMMA SeedInHand ==
    ASSUME NEW r \in RoleCodes, NEW rest \in SUBSET RoleCodes
    PROVE  LET w == [NoWork EXCEPT !.op = "seed", !.list = <<"permissions", r>>,
                                   !.wanted = Defaults[r], !.todo = rest]
           IN  w \in AccountWork /\ InHand(w) /\ InHand(w)'
<1> DEFINE t == <<"permissions", r>>
<1>1. /\ t \in Lists /\ t # NoList /\ Things(t) = Codes /\ Born(t) /\ Born(t)' /\ t[1] = "permissions"
  BY DEF Lists, NoList, Things, Born
<1>2. Defaults[r] \in SUBSET Codes
  BY AccountAssumption
<1> HIDE DEF t
<1> DEFINE w == [NoWork EXCEPT !.op = "seed", !.list = t, !.wanted = Defaults[r], !.todo = rest]
<1>3. /\ w \in AccountWork /\ w.op = "seed" /\ w.list = t /\ w.wanted = Defaults[r] /\ w.at = "begun"
  BY <1>1, <1>2, NoWorkInHand DEF AccountWork, NoWork
<1>4. InHand(w)
  BY <1>1, <1>2, <1>3 DEF InHand
<1>5. InHand(w)'
  BY <1>1, <1>2, <1>3 DEF InHand
<1> QED BY <1>3, <1>4, <1>5 DEF t

\* Seeded accounts satisfy the invariant.
LEMMA AccountInvInit == AccountInit => AccountInv
<1> SUFFICES ASSUME AccountInit PROVE AccountInv
  OBVIOUS
<1> USE AccountAssumption
<1>1. PICK r \in RoleCodes : grants = [t \in Lists |->
          CASE t[1] = "permissions" -> Defaults[t[2]]
            [] t[1] = "roles" -> IF account[t[2]] = "active" THEN {r} ELSE {}
            [] t[1] = "areas" -> {}]
  BY DEF AccountInit
<1>2. \A t \in Lists : grants[t] \subseteq Things(t)
  <2>1. ASSUME NEW u \in Holders
        PROVE /\ grants[<<"roles", u>>] \subseteq Things(<<"roles", u>>)
              /\ grants[<<"areas", u>>] \subseteq Things(<<"areas", u>>)
    BY <1>1, <2>1 DEF Lists, Things
  <2>2. ASSUME NEW c \in RoleCodes
        PROVE grants[<<"permissions", c>>] \subseteq Things(<<"permissions", c>>)
    BY <1>1, <2>2 DEF Lists, Things
  <2>3. ASSUME NEW t \in Lists PROVE grants[t] \subseteq Things(t)
    <3>1. CASE t[2] \in Holders /\ (t = <<"roles", t[2]>> \/ t = <<"areas", t[2]>>)
      BY <2>1, <3>1
    <3>2. CASE t[2] \in RoleCodes /\ t = <<"permissions", t[2]>>
      BY <2>2, <3>2
    <3> QED BY <3>1, <3>2, ListKinds
  <2> QED BY <2>3
<1>3. \A t \in Lists : Things(t) \subseteq RoleCodes \cup Codes \cup Areas
  BY DEF Things, Lists
<1>4. grants \in [Lists -> SUBSET (RoleCodes \cup Codes \cup Areas)]
  BY <1>1, <1>2, <1>3
<1>5. session \in [Sessions -> Session] /\ \A s \in Sessions : session[s].at = "free" => session[s].of = "none"
  <2>1. NoSession \in Session /\ NoSession.of = "none"
    BY DEF NoSession, Session
  <2>2. \A u \in Holders : [of |-> u, at |-> "open", over |-> FALSE] \in Session
    BY DEF Session
  <2> QED BY <2>1, <2>2 DEF AccountInit
<1>6. AccountTypeOK
  <2>1. account \in [Holders -> {"unborn", "active", "inactive"}] /\ ended \in SUBSET Sessions
    BY DEF AccountInit
  <2>2. accountWork \in [AccountRequests -> AccountWork]
    BY NoWorkInHand DEF AccountInit
  <2>3. accountCalls \in 0 .. MaxRequests
    BY DEF AccountInit
  <2> QED BY <1>2, <1>4, <1>5, <2>1, <2>2, <2>3 DEF AccountTypeOK
<1>7. SessionInv /\ \A q \in AccountRequests : InHand(accountWork[q])
  BY <1>5, NoWorkInHand DEF AccountInit, SessionInv
<1> QED BY <1>6, <1>7 DEF AccountInv

-----------------------------------------------------------------------------
\* What no step undoes: who was born stays so, a session that was opened too.
Lasts ==
    /\ account' \in [Holders -> {"unborn", "active", "inactive"}]
    /\ \A u \in Holders : account[u] # "unborn" => account'[u] # "unborn"
    /\ session' \in [Sessions -> Session] /\ ended' \in SUBSET Sessions
    /\ \A s \in Sessions : session[s].at # "free" => session'[s].at # "free"
    /\ SessionInv'
    /\ accountCalls' \in 0 .. MaxRequests

\* What a request has in hand stays so while its list is not written.
LEMMA InHandLasts ==
    ASSUME AccountInv, Lasts, NEW w \in AccountWork, InHand(w),
           w.list \in Lists /\ w.at # "begun" /\ ~w.mixed => grants'[w.list] = grants[w.list]
    PROVE  InHand(w)'
<1>1. w.list # NoList => w.list \in Lists
  BY DEF AccountWork
<1>2. w.list # NoList => Born(w.list)'
  <2> SUFFICES ASSUME w.list # NoList PROVE Born(w.list)'
    OBVIOUS
  <2>1. w.list \in Lists /\ Born(w.list)
    BY <1>1 DEF InHand
  <2> QED BY <2>1, ListKinds DEF Born, Lasts
<1>3. w.list # NoList => w.wanted \subseteq Things(w.list)
  BY DEF InHand
<1>4. w.op = "login" /\ w.at = "signing" => w.session \in Sessions /\ session'[w.session].at # "free"
  BY DEF InHand, Lasts
<1>5. w.list # NoList /\ w.at = "deleting" => w.mixed \/ grants'[w.list] = w.seen
  BY <1>1 DEF InHand
<1>6. w.op = "seed" /\ w.at = "creating" => w.mixed \/ grants'[w.list] = {}
  BY <1>1 DEF InHand
<1> QED BY <1>2, <1>3, <1>4, <1>5, <1>6 DEF InHand

\* A step that writes no list, and the row of one request at most.
LEMMA OneRequest ==
    ASSUME AccountInv, Lasts, UNCHANGED grants, NEW q \in AccountRequests,
           NEW w \in AccountWork, InHand(w)', accountWork' = [accountWork EXCEPT ![q] = w]
    PROVE  AccountInv' /\ \A t \in Lists : GrantIsWhole(t)
<1>1. AccountTypeOK'
  BY DEF AccountInv, AccountTypeOK, Lasts, Things
<1>2. ASSUME NEW p \in AccountRequests PROVE InHand(accountWork[p])'
  <2>1. CASE p = q
    BY <2>1 DEF AccountInv, AccountTypeOK
  <2>2. CASE p # q
    <3>1. accountWork'[p] = accountWork[p] /\ accountWork[p] \in AccountWork /\ InHand(accountWork[p])
      BY <2>2 DEF AccountInv, AccountTypeOK
    <3>2. PICK v \in AccountWork : v = accountWork[p]
      BY <3>1
    <3>3. InHand(v)'
      BY <3>1, <3>2, InHandLasts
    <3> QED BY <3>1, <3>2, <3>3
  <2> QED BY <2>1, <2>2
<1>3. \A t \in Lists : GrantIsWhole(t)
  BY DEF GrantIsWhole
<1> QED BY <1>1, <1>2, <1>3 DEF AccountInv, Lasts

\* A step that writes nothing but accounts and sessions.
LEMMA NoRequest ==
    ASSUME AccountInv, Lasts, UNCHANGED <<grants, accountWork>>
    PROVE  AccountInv' /\ \A t \in Lists : GrantIsWhole(t)
<1>1. AccountTypeOK'
  BY DEF AccountInv, AccountTypeOK, Lasts, Things
<1>2. ASSUME NEW p \in AccountRequests PROVE InHand(accountWork[p])'
  <2>1. PICK v \in AccountWork : v = accountWork[p] /\ v = accountWork'[p] /\ InHand(v)
    BY DEF AccountInv, AccountTypeOK
  <2>2. InHand(v)'
    BY <2>1, InHandLasts
  <2> QED BY <2>1, <2>2
<1>3. \A t \in Lists : GrantIsWhole(t)
  BY DEF GrantIsWhole
<1> QED BY <1>1, <1>2, <1>3 DEF AccountInv, Lasts

\* Nothing about the accounts and the sessions changes.
LEMMA StillLasts ==
    ASSUME AccountInv, UNCHANGED <<account, session, ended>>, accountCalls' \in 0 .. MaxRequests
    PROVE  Lasts
BY DEF AccountInv, AccountTypeOK, Lasts, SessionInv

\* What a request begins with is in its hand.
LEMMA BeginsInHand ==
    ASSUME AccountInv, NEW q \in AccountRequests, NEW w \in AccountWork,
           AccountBegins(q, w), InHand(w), UNCHANGED <<account, grants, session, ended>>
    PROVE  AccountInv' /\ \A t \in Lists : GrantIsWhole(t)
<1>1. accountCalls' \in 0 .. MaxRequests
  BY AccountAssumption DEF AccountBegins, AccountInv, AccountTypeOK
<1>2. Lasts
  BY <1>1, StillLasts
<1>3. InHand(w)'
  BY <1>2, InHandLasts
<1> QED BY <1>2, <1>3, OneRequest DEF AccountBegins

\* A request that ends has nothing in hand.
LEMMA EndsInHand ==
    ASSUME AccountInv, Lasts, NEW q \in AccountRequests, AccountEnds(q), UNCHANGED grants
    PROVE  AccountInv' /\ \A t \in Lists : GrantIsWhole(t)
BY NoWorkInHand, OneRequest DEF AccountEnds

\* A login holds a user, then a session that is no more free.
LEMMA LoginSteps ==
    ASSUME AccountInv, NEW q \in AccountRequests,
           \/ \E u \in Holders : BeginsLogin(q, u)
           \/ \E s \in Sessions : OpensSession(q, s)
           \/ SignsSession(q)
    PROVE  AccountInv' /\ \A t \in Lists : GrantIsWhole(t)
<1>1. ASSUME NEW u \in Holders, BeginsLogin(q, u)
      PROVE  AccountInv' /\ \A t \in Lists : GrantIsWhole(t)
  <2> DEFINE w == [NoWork EXCEPT !.op = "login", !.of = u]
  <2>1. w \in AccountWork /\ InHand(w)
    BY NoWorkInHand DEF AccountWork, InHand, NoWork
  <2>2. AccountBegins(q, w) /\ UNCHANGED <<account, grants, session, ended>>
    BY <1>1 DEF BeginsLogin
  <2> QED BY <2>1, <2>2, BeginsInHand
<1>2. ASSUME NEW s \in Sessions, OpensSession(q, s)
      PROVE  AccountInv' /\ \A t \in Lists : GrantIsWhole(t)
  <2> DEFINE v == accountWork[q]
             row == [of |-> v.of, at |-> "pending", over |-> FALSE]
  <2>1. /\ v \in AccountWork /\ InHand(v) /\ v.op = "login" /\ session[s].at = "free"
        /\ UNCHANGED <<account, grants, ended, accountCalls>>
        /\ session' = [session EXCEPT ![s] = row]
        /\ accountWork' = [accountWork EXCEPT ![q] = [v EXCEPT !.at = "signing", !.session = s]]
    BY <1>2 DEF OpensSession, AccountInv, AccountTypeOK
  <2>2. v.of \in Holders /\ v.list = NoList
    BY <2>1 DEF InHand
  <2>3. row \in Session /\ row.at = "pending"
    BY <2>2 DEF Session
  <2>4. Lasts
    BY <2>1, <2>3 DEF Lasts, AccountInv, AccountTypeOK, SessionInv
  <2>5. PICK w \in AccountWork : /\ w = [v EXCEPT !.at = "signing", !.session = s]
                                 /\ w.op = "login" /\ w.of \in Holders /\ w.session = s
                                 /\ w.list = NoList
    <3> DEFINE x == [v EXCEPT !.at = "signing", !.session = s]
    <3>1. x \in AccountWork /\ x.op = v.op /\ x.of = v.of /\ x.session = s /\ x.list = v.list
      BY <2>1 DEF AccountWork
    <3> QED BY <2>1, <2>2, <3>1
  <2>6. session'[s].at = "pending"
    BY <2>1, <2>3 DEF AccountInv, AccountTypeOK
  <2>7. InHand(w)'
    BY <2>5, <2>6 DEF InHand
  <2> QED BY <2>1, <2>4, <2>5, <2>7, OneRequest
<1>3. ASSUME SignsSession(q)
      PROVE  AccountInv' /\ \A t \in Lists : GrantIsWhole(t)
  <2> DEFINE k == accountWork[q].session
  <2>1. k \in Sessions /\ session[k].at # "free"
    BY <1>3 DEF SignsSession, AccountInv, InHand
  <2>2. /\ session' = [session EXCEPT ![k] = [session[k] EXCEPT !.at = "open"]]
        /\ UNCHANGED <<account, grants, ended, accountCalls>> /\ AccountEnds(q)
    BY <1>3 DEF SignsSession, AccountInv, AccountTypeOK
  <2>3. /\ [session[k] EXCEPT !.at = "open"] \in Session
        /\ [session[k] EXCEPT !.at = "open"].at = "open"
        /\ [session[k] EXCEPT !.at = "open"].over = session[k].over
    BY <2>1 DEF AccountInv, AccountTypeOK, Session
  <2> HIDE DEF k
  <2>4. \A s \in Sessions \ {k} : session'[s] = session[s]
    BY <2>1, <2>2 DEF AccountInv, AccountTypeOK
  <2>5. /\ session'[k].at = "open" /\ session'[k].over = session[k].over
        /\ session' \in [Sessions -> Session]
    BY <2>1, <2>2, <2>3 DEF AccountInv, AccountTypeOK
  <2>6. SessionInv'
    BY <2>1, <2>2, <2>4, <2>5 DEF AccountInv, SessionInv
  <2>7. Lasts
    BY <2>2, <2>4, <2>5, <2>6 DEF Lasts, AccountInv, AccountTypeOK
  <2> QED BY <2>2, <2>7, EndsInHand
<1> QED BY <1>1, <1>2, <1>3

\* A logout or the time ends a session that was opened.
LEMMA LogoutSteps ==
    ASSUME AccountInv, NEW s \in Sessions, Logout(s) \/ Expires(s)
    PROVE  AccountInv' /\ \A t \in Lists : GrantIsWhole(t)
<1> DEFINE row == [session[s] EXCEPT !.over = TRUE]
<1>1. /\ session' = [session EXCEPT ![s] = row] /\ session[s].at # "free"
      /\ (ended' = ended \/ ended' = ended \cup {s})
      /\ UNCHANGED <<account, grants, accountCalls, accountWork>>
  BY DEF Logout, Expires, Answers, AccountInv, AccountTypeOK
<1>2. row \in Session /\ row.at = session[s].at /\ row.over
  BY DEF AccountInv, AccountTypeOK, Session
<1> HIDE DEF row
<1>3. session'[s] = row /\ \A k \in Sessions \ {s} : session'[k] = session[k]
  BY <1>1 DEF AccountInv, AccountTypeOK
<1>4. SessionInv'
  BY <1>1, <1>2, <1>3 DEF AccountInv, SessionInv
<1>5. Lasts
  BY <1>1, <1>2, <1>3, <1>4 DEF Lasts, AccountInv, AccountTypeOK
<1> QED BY <1>1, <1>5, NoRequest

\* A deactivation ends the sessions of its user, none of which is free.
LEMMA DeactivationSteps ==
    ASSUME AccountInv, NEW q \in AccountRequests,
           (\E u \in Holders : BeginsDeactivation(q, u)) \/ Deactivates(q) \/ Revokes(q)
    PROVE  AccountInv' /\ \A t \in Lists : GrantIsWhole(t)
<1>1. ASSUME NEW u \in Holders, BeginsDeactivation(q, u)
      PROVE  AccountInv' /\ \A t \in Lists : GrantIsWhole(t)
  <2> DEFINE w == [NoWork EXCEPT !.op = "deactivate", !.of = u]
  <2>1. w \in AccountWork /\ InHand(w)
    BY NoWorkInHand DEF AccountWork, InHand, NoWork
  <2>2. AccountBegins(q, w) /\ UNCHANGED <<account, grants, session, ended>>
    BY <1>1 DEF BeginsDeactivation
  <2> QED BY <2>1, <2>2, BeginsInHand
<1>2. ASSUME Deactivates(q)
      PROVE  AccountInv' /\ \A t \in Lists : GrantIsWhole(t)
  <2> DEFINE v == accountWork[q]
  <2>1. /\ v \in AccountWork /\ InHand(v) /\ v.op = "deactivate"
        /\ account' = [account EXCEPT ![v.of] = "inactive"]
        /\ UNCHANGED <<grants, session, ended, accountCalls>>
        /\ accountWork' = [accountWork EXCEPT ![q] = [v EXCEPT !.at = "revoking"]]
    BY <1>2 DEF Deactivates, AccountInv, AccountTypeOK
  <2>2. v.of \in Holders /\ v.list = NoList
    BY <2>1 DEF InHand
  <2>3. Lasts
    BY <2>1 DEF Lasts, AccountInv, AccountTypeOK, SessionInv
  <2>4. PICK w \in AccountWork : /\ w = [v EXCEPT !.at = "revoking"]
                                 /\ w.op = "deactivate" /\ w.of \in Holders /\ w.list = NoList
    <3> DEFINE x == [v EXCEPT !.at = "revoking"]
    <3>1. x \in AccountWork /\ x.op = v.op /\ x.of = v.of /\ x.list = v.list
      BY <2>1 DEF AccountWork
    <3> QED BY <2>1, <2>2, <3>1
  <2>5. InHand(w)'
    BY <2>4 DEF InHand
  <2> QED BY <2>1, <2>3, <2>4, <2>5, OneRequest
<1>3. ASSUME Revokes(q)
      PROVE  AccountInv' /\ \A t \in Lists : GrantIsWhole(t)
  <2> DEFINE gone == SessionsOf(accountWork[q].of)
  <2>1. /\ session' = [s \in Sessions |-> IF s \in gone
                          THEN [session[s] EXCEPT !.over = TRUE] ELSE session[s]]
        /\ ended' = ended \cup gone /\ UNCHANGED <<account, grants, accountCalls>> /\ AccountEnds(q)
    BY <1>3 DEF Revokes
  <2>2. accountWork[q].of \in Holders
    BY <1>3 DEF Revokes, AccountInv, InHand
  <2>3. gone \subseteq Sessions /\ \A s \in gone : session[s].at # "free"
    BY <2>2, AccountAssumption DEF SessionsOf, AccountInv, SessionInv
  <2>4. \A s \in Sessions :
          /\ [session[s] EXCEPT !.over = TRUE] \in Session
          /\ [session[s] EXCEPT !.over = TRUE].at = session[s].at
          /\ [session[s] EXCEPT !.over = TRUE].over
    BY DEF AccountInv, AccountTypeOK, Session
  <2> HIDE DEF gone
  <2>5. \A s \in Sessions \ gone : session'[s] = session[s]
    BY <2>1
  <2>6. \A s \in gone : session'[s] \in Session /\ session'[s].at = session[s].at /\ session'[s].over
    BY <2>1, <2>3, <2>4
  <2>7. SessionInv'
    BY <2>1, <2>3, <2>5, <2>6 DEF AccountInv, SessionInv
  <2>8. Lasts
    <3>1. session' \in [Sessions -> Session]
      BY <2>1, <2>4 DEF AccountInv, AccountTypeOK
    <3> QED BY <2>1, <2>3, <2>5, <2>6, <2>7, <3>1 DEF Lasts, AccountInv, AccountTypeOK
  <2> QED BY <2>1, <2>8, EndsInHand
<1> QED BY <1>1, <1>2, <1>3

\* A user who is created, or switched on or off, disturbs no request.
LEMMA UserSteps ==
    ASSUME AccountInv, NEW u \in Holders,
           \/ \E roles \in SUBSET RoleCodes : CreatesUser(u, roles)
           \/ \E enabled \in {"active", "inactive"} : SetsActive(u, enabled)
    PROVE  AccountInv' /\ \A t \in Lists : GrantIsWhole(t)
<1>1. ASSUME NEW enabled \in {"active", "inactive"}, SetsActive(u, enabled)
      PROVE  AccountInv' /\ \A t \in Lists : GrantIsWhole(t)
  <2>1. Lasts
    BY <1>1, AccountAssumption DEF SetsActive, Lasts, AccountInv, AccountTypeOK, SessionInv
  <2> QED BY <1>1, <2>1, NoRequest DEF SetsActive
<1>2. ASSUME NEW roles \in SUBSET RoleCodes, CreatesUser(u, roles)
      PROVE  AccountInv' /\ \A t \in Lists : GrantIsWhole(t)
  <2> DEFINE list == <<"roles", u>>
  <2>1. /\ grants' = [grants EXCEPT ![list] = roles] /\ account[u] = "unborn"
        /\ UNCHANGED <<session, ended, accountWork>>
    BY <1>2 DEF CreatesUser
  <2>2. Lasts
    BY <1>2, AccountAssumption DEF CreatesUser, Lasts, AccountInv, AccountTypeOK, SessionInv
  <2>3. list \in Lists /\ ~Born(list) /\ Things(list) = RoleCodes
    BY <2>1 DEF Lists, Born, Things
  <2> HIDE DEF list
  <2>4. /\ \A t \in Lists \ {list} : grants'[t] = grants[t]
        /\ grants'[list] = roles
        /\ grants' \in [Lists -> SUBSET (RoleCodes \cup Codes \cup Areas)]
    BY <2>1, <2>3 DEF AccountInv, AccountTypeOK
  <2>5. \A t \in Lists : GrantIsWhole(t)
    BY <2>3, <2>4 DEF GrantIsWhole
  <2>6. AccountTypeOK'
    <3>1. \A t \in Lists : grants'[t] \subseteq Things(t)
      BY <2>3, <2>4 DEF AccountInv, AccountTypeOK
    <3> QED BY <2>1, <2>2, <2>4, <3>1 DEF Lasts, AccountInv, AccountTypeOK
  <2>7. ASSUME NEW p \in AccountRequests PROVE InHand(accountWork[p])'
    <3>1. PICK v \in AccountWork : v = accountWork[p] /\ v = accountWork'[p] /\ InHand(v)
      BY <2>1 DEF AccountInv, AccountTypeOK
    <3>2. v.list \in Lists => v.list # list
      BY <2>3, <3>1, ListsAreSome DEF InHand
    <3>3. InHand(v)'
      BY <2>2, <2>4, <3>1, <3>2, InHandLasts
    <3> QED BY <3>1, <3>3
  <2> QED BY <2>2, <2>5, <2>6, <2>7 DEF AccountInv, Lasts
<1> QED BY <1>1, <1>2

\* A change of grants or a seeding begins with a list and what it may grant.
LEMMA BeginsGrantSteps ==
    ASSUME AccountInv, NEW q \in AccountRequests,
           \/ \E t \in Lists, enabled \in {"kept", "active", "inactive"} :
                  \E wanted \in SUBSET Things(t) : BeginsGrant(q, t, wanted, enabled)
           \/ BeginsSeed(q)
    PROVE  AccountInv' /\ \A t \in Lists : GrantIsWhole(t)
<1>1. ASSUME NEW t \in Lists, NEW enabled \in {"kept", "active", "inactive"},
             NEW wanted \in SUBSET Things(t), BeginsGrant(q, t, wanted, enabled)
      PROVE  AccountInv' /\ \A l \in Lists : GrantIsWhole(l)
  <2> DEFINE w == [NoWork EXCEPT !.op = "grant", !.list = t, !.wanted = wanted,
                                 !.enabled = enabled]
  <2>1. wanted \in SUBSET (RoleCodes \cup Codes \cup Areas)
    BY ListKinds DEF Things
  <2>2. /\ w \in AccountWork /\ w.op = "grant" /\ w.list = t /\ w.wanted = wanted /\ w.at = "begun"
    BY <2>1, NoWorkInHand DEF AccountWork, NoWork
  <2>3. AccountBegins(q, w) /\ Born(t) /\ UNCHANGED <<account, grants, session, ended>>
    BY <1>1 DEF BeginsGrant
  <2> HIDE DEF w
  <2>4. InHand(w)
    BY <2>2, <2>3, ListsAreSome DEF InHand
  <2> QED BY <2>2, <2>3, <2>4, BeginsInHand
<1>2. ASSUME BeginsSeed(q)
      PROVE  AccountInv' /\ \A l \in Lists : GrantIsWhole(l)
  <2>1. PICK r \in RoleCodes : AccountBegins(q, [NoWork EXCEPT !.op = "seed",
          !.list = <<"permissions", r>>, !.wanted = Defaults[r], !.todo = RoleCodes \ {r}])
    BY <1>2 DEF BeginsSeed
  <2> DEFINE w == [NoWork EXCEPT !.op = "seed", !.list = <<"permissions", r>>,
                                 !.wanted = Defaults[r], !.todo = RoleCodes \ {r}]
  <2>2. w \in AccountWork /\ InHand(w)
    BY SeedInHand
  <2>3. UNCHANGED <<account, grants, session, ended>>
    BY <1>2 DEF BeginsSeed
  <2> QED BY <2>1, <2>2, <2>3, BeginsInHand
<1> QED BY <1>1, <1>2

\* A delete has read the rows it deletes, and leaves what the others have in hand.
LEMMA DeletesStep ==
    ASSUME AccountInv, NEW q \in AccountRequests, Deletes(q)
    PROVE  AccountInv' /\ \A t \in Lists : GrantIsWhole(t)
<1> DEFINE v == accountWork[q]
           locks == {p \in Deleting(v.list) : accountWork[p].seen \cap grants[v.list] # {}}
           x == [v EXCEPT !.at = "deleting", !.seen = grants[v.list], !.waits = locks]
<1>1. /\ v \in AccountWork /\ InHand(v) /\ v.op \in {"grant", "seed"} /\ v.list # NoList
      /\ UNCHANGED <<account, grants, session, ended, accountCalls>>
      /\ accountWork'[q] = x
      /\ DOMAIN accountWork' = AccountRequests
      /\ accountWork' = [p \in AccountRequests |-> accountWork'[p]]
  BY DEF Deletes, Unlocked, AccountInv, AccountTypeOK, AccountWork
<1>2. v.list \in Lists /\ grants[v.list] \in SUBSET (RoleCodes \cup Codes \cup Areas)
  BY <1>1 DEF AccountWork, AccountInv, AccountTypeOK
<1>3. locks \in SUBSET AccountRequests
  BY DEF Deleting
<1> HIDE DEF locks
<1>4. /\ x \in AccountWork /\ x.op = v.op /\ x.list = v.list /\ x.wanted = v.wanted
      /\ x.at = "deleting" /\ x.seen = grants[v.list]
  BY <1>1, <1>2, <1>3 DEF AccountWork
<1>5. Lasts
  BY <1>1, StillLasts DEF AccountInv, AccountTypeOK
<1> HIDE DEF x
<1>6. accountWork'[q] \in AccountWork /\ InHand(accountWork[q])'
  <2>1. PICK w \in AccountWork : w = x
    BY <1>4
  <2>2. InHand(w)
    BY <1>1, <1>4, <2>1 DEF InHand
  <2>3. InHand(w)'
    BY <1>1, <1>5, <2>2, InHandLasts
  <2> QED BY <1>1, <2>1, <2>3
<1>7. ASSUME NEW p \in AccountRequests \ {q}
      PROVE  accountWork'[p] \in AccountWork /\ InHand(accountWork[p])'
  <2> DEFINE u == accountWork[p]
             y == [u EXCEPT !.waits = @ \ {q}]
  <2>1. u \in AccountWork /\ InHand(u) /\ accountWork'[p] = y
    BY DEF Deletes, Unlocked, AccountInv, AccountTypeOK
  <2>2. /\ y \in AccountWork /\ y.op = u.op /\ y.at = u.at /\ y.of = u.of /\ y.list = u.list
        /\ y.wanted = u.wanted /\ y.seen = u.seen /\ y.session = u.session /\ y.mixed = u.mixed
    BY <2>1 DEF AccountWork
  <2> HIDE DEF y
  <2>3. PICK w \in AccountWork : w = y
    BY <2>2
  <2>4. InHand(w)
    BY <2>1, <2>2, <2>3 DEF InHand
  <2>5. InHand(w)'
    BY <1>1, <1>5, <2>4, InHandLasts
  <2> QED BY <2>1, <2>3, <2>5
<1>8. accountWork' \in [AccountRequests -> AccountWork]
  BY <1>1, <1>6, <1>7
<1>9. \A t \in Lists : GrantIsWhole(t)
  BY <1>1 DEF GrantIsWhole
<1> QED BY <1>1, <1>5, <1>6, <1>7, <1>8, <1>9 DEF AccountInv, AccountTypeOK, Lasts, Things

\* A step that writes a list is noted by the others who delete from it.
LEMMA WritesList ==
    ASSUME AccountInv, Lasts, NEW q \in AccountRequests, NEW t \in Lists,
           NEW S \in SUBSET Things(t), NEW gone, NEW w \in AccountWork, InHand(w)',
           grants' = [grants EXCEPT ![t] = S],
           accountWork' = [Mixed(q, t, gone) EXCEPT ![q] = w],
           GrantIsWhole(t)
    PROVE  AccountInv' /\ \A l \in Lists : GrantIsWhole(l)
<1>1. /\ grants' \in [Lists -> SUBSET (RoleCodes \cup Codes \cup Areas)]
      /\ grants'[t] = S /\ \A l \in Lists \ {t} : grants'[l] = grants[l]
  <2>1. S \in SUBSET (RoleCodes \cup Codes \cup Areas)
    BY ListKinds DEF Things
  <2> QED BY <2>1 DEF AccountInv, AccountTypeOK
<1>2. \A l \in Lists : grants'[l] \subseteq Things(l)
  BY <1>1 DEF AccountInv, AccountTypeOK
<1>3. \A l \in Lists : GrantIsWhole(l)
  BY <1>1 DEF GrantIsWhole
<1>4. /\ accountWork'[q] = w
      /\ \A p \in AccountRequests \ {q} : accountWork'[p] = Mixed(q, t, gone)[p]
      /\ DOMAIN accountWork' = AccountRequests
      /\ accountWork' = [p \in AccountRequests |-> accountWork'[p]]
  BY DEF Mixed
<1>5. ASSUME NEW p \in AccountRequests \ {q}
      PROVE  accountWork'[p] \in AccountWork /\ InHand(accountWork[p])'
  <2> DEFINE v == accountWork[p]
             y == [v EXCEPT !.seen = v.seen \ gone, !.mixed = TRUE]
  <2>1. v \in AccountWork /\ InHand(v)
    BY DEF AccountInv, AccountTypeOK
  <2>2. accountWork'[p] = IF v.list = t /\ v.at # "begun" THEN y ELSE v
    BY <1>4 DEF Mixed
  <2>3. CASE v.list = t /\ v.at # "begun"
    <3>1. /\ y \in AccountWork /\ y.op = v.op /\ y.at = v.at /\ y.of = v.of /\ y.list = v.list
          /\ y.wanted = v.wanted /\ y.session = v.session /\ y.mixed = TRUE
      BY <2>1 DEF AccountWork
    <3> HIDE DEF y
    <3>2. PICK z \in AccountWork : z = y
      BY <3>1
    <3>3. InHand(z)
      BY <2>1, <3>1, <3>2 DEF InHand
    <3>4. InHand(z)'
      BY <3>1, <3>2, <3>3, InHandLasts
    <3> QED BY <2>2, <2>3, <3>1, <3>2, <3>4
  <2>4. CASE ~(v.list = t /\ v.at # "begun")
    <3>1. PICK z \in AccountWork : z = v
      BY <2>1
    <3>2. z.list \in Lists /\ z.at # "begun" /\ ~z.mixed => grants'[z.list] = grants[z.list]
      BY <1>1, <2>4, <3>1
    <3>3. InHand(z)'
      BY <2>1, <3>1, <3>2, InHandLasts
    <3> QED BY <2>1, <2>2, <2>4, <3>1, <3>3
  <2> QED BY <2>3, <2>4
<1>6. accountWork' \in [AccountRequests -> AccountWork]
  BY <1>4, <1>5
<1>7. \A p \in AccountRequests : InHand(accountWork[p])'
  <2>1. InHand(accountWork[q])'
    BY <1>4
  <2> QED BY <1>5, <2>1
<1> QED BY <1>1, <1>2, <1>3, <1>6, <1>7 DEF AccountInv, AccountTypeOK, Lasts, Things

\* The transaction of a change of grants.
LEMMA CommitsStep ==
    ASSUME AccountInv, NEW q \in AccountRequests, Commits(q)
    PROVE  AccountInv' /\ \A t \in Lists : GrantIsWhole(t)
<1> DEFINE v == accountWork[q]
           S == (grants[v.list] \ v.seen) \cup v.wanted
<1>1. /\ v \in AccountWork /\ InHand(v) /\ v.op = "grant" /\ v.at = "deleting"
      /\ UNCHANGED <<session, ended, accountCalls>>
      /\ grants' = [grants EXCEPT ![v.list] = S]
      /\ accountWork' = [Mixed(q, v.list, v.seen) EXCEPT ![q] = NoWork]
      /\ account' = IF v.enabled = "kept" THEN account
                    ELSE [account EXCEPT ![v.list[2]] = v.enabled]
  BY DEF Commits, Replaced, AccountInv, AccountTypeOK
<1>2. /\ v.list # NoList /\ v.list \in Lists /\ v.wanted \subseteq Things(v.list)
      /\ v.enabled \in {"kept", "active", "inactive"}
      /\ (v.mixed \/ grants[v.list] = v.seen)
  <2>1. v.list # NoList
    BY <1>1 DEF InHand
  <2> QED BY <1>1, <2>1 DEF AccountWork, InHand
<1>3. S \in SUBSET Things(v.list)
  BY <1>2 DEF AccountInv, AccountTypeOK
<1>4. Lasts
  BY <1>1, <1>2 DEF Lasts, AccountInv, AccountTypeOK, SessionInv
<1>5. GrantIsWhole(v.list)
  <2>1. grants'[v.list] = S
    BY <1>1, <1>2 DEF AccountInv, AccountTypeOK
  <2>2. v.mixed \/ S = v.wanted
    BY <1>2
  <2> QED BY <2>1, <2>2 DEF GrantIsWhole
<1> HIDE DEF S
<1> QED BY <1>1, <1>2, <1>3, <1>4, <1>5, NoWorkInHand, WritesList

\* The delete of a seeding.
LEMMA EmptiesStep ==
    ASSUME AccountInv, NEW q \in AccountRequests, Empties(q)
    PROVE  AccountInv' /\ \A t \in Lists : GrantIsWhole(t)
<1> DEFINE v == accountWork[q]
           S == grants[v.list] \ v.seen
           x == [v EXCEPT !.at = "creating"]
<1>1. /\ v \in AccountWork /\ InHand(v) /\ v.op = "seed" /\ v.at = "deleting"
      /\ UNCHANGED <<account, session, ended, accountCalls>>
      /\ grants' = [grants EXCEPT ![v.list] = S]
      /\ accountWork' = [Mixed(q, v.list, v.seen) EXCEPT ![q] = x]
  BY DEF Empties, Mixed, AccountInv, AccountTypeOK
<1>2. /\ v.list # NoList /\ v.list \in Lists /\ v.wanted \subseteq Things(v.list)
      /\ (v.mixed \/ grants[v.list] = v.seen)
  <2>1. v.list # NoList
    BY <1>1 DEF InHand
  <2> QED BY <1>1, <2>1 DEF AccountWork, InHand
<1>3. S \in SUBSET Things(v.list)
  BY <1>2 DEF AccountInv, AccountTypeOK
<1>4. Lasts
  BY <1>1, StillLasts DEF AccountInv, AccountTypeOK
<1>5. grants'[v.list] = S /\ (v.mixed \/ S = {})
  BY <1>1, <1>2 DEF AccountInv, AccountTypeOK
<1>6. GrantIsWhole(v.list)
  BY <1>1, <1>5 DEF GrantIsWhole
<1>7. /\ x \in AccountWork /\ x.op = "seed" /\ x.at = "creating" /\ x.list = v.list
      /\ x.wanted = v.wanted /\ x.mixed = v.mixed
  BY <1>1 DEF AccountWork
<1> HIDE DEF x, S
<1>8. PICK w \in AccountWork : w = x
  BY <1>7
<1>9. Born(w.list)' /\ w.list[1] = "permissions"
  BY <1>1, <1>7, <1>8 DEF Born, InHand
<1>10. InHand(w)'
  BY <1>1, <1>2, <1>5, <1>7, <1>8, <1>9 DEF InHand
<1> QED BY <1>1, <1>2, <1>3, <1>4, <1>6, <1>8, <1>10, WritesList

\* The insert of a seeding, which then takes the next role.
LEMMA SeedsStep ==
    ASSUME AccountInv, NEW q \in AccountRequests, Seeds(q)
    PROVE  AccountInv' /\ \A t \in Lists : GrantIsWhole(t)
<1> DEFINE v == accountWork[q]
           S == grants[v.list] \cup v.wanted
<1>1. /\ v \in AccountWork /\ InHand(v) /\ v.op = "seed" /\ v.at = "creating"
      /\ UNCHANGED <<account, session, ended, accountCalls>>
      /\ grants' = [grants EXCEPT ![v.list] = S]
      /\ \/ accountWork' = [Mixed(q, v.list, {}) EXCEPT ![q] = NoWork]
         \/ \E r \in v.todo : accountWork' = [Mixed(q, v.list, {}) EXCEPT
               ![q] = [NoWork EXCEPT !.op = "seed", !.list = <<"permissions", r>>,
                         !.wanted = Defaults[r], !.todo = v.todo \ {r}]]
  BY DEF Seeds, AccountInv, AccountTypeOK
<1>2. /\ v.list # NoList /\ v.list \in Lists /\ v.wanted \subseteq Things(v.list)
      /\ (v.mixed \/ grants[v.list] = {}) /\ v.todo \subseteq RoleCodes
  <2>1. v.list # NoList
    BY <1>1 DEF InHand
  <2> QED BY <1>1, <2>1 DEF AccountWork, InHand
<1>3. S \in SUBSET Things(v.list)
  BY <1>2 DEF AccountInv, AccountTypeOK
<1>4. Lasts
  BY <1>1, StillLasts DEF AccountInv, AccountTypeOK
<1>5. GrantIsWhole(v.list)
  <2>1. grants'[v.list] = S
    BY <1>1, <1>2 DEF AccountInv, AccountTypeOK
  <2>2. v.mixed \/ S = v.wanted
    BY <1>2
  <2> QED BY <2>1, <2>2 DEF GrantIsWhole
<1> HIDE DEF S
<1>6. \E w \in AccountWork : InHand(w)' /\ accountWork' = [Mixed(q, v.list, {}) EXCEPT ![q] = w]
  <2>1. CASE accountWork' = [Mixed(q, v.list, {}) EXCEPT ![q] = NoWork]
    BY <2>1, NoWorkInHand
  <2>2. ASSUME NEW r \in v.todo,
               accountWork' = [Mixed(q, v.list, {}) EXCEPT
                 ![q] = [NoWork EXCEPT !.op = "seed", !.list = <<"permissions", r>>,
                           !.wanted = Defaults[r], !.todo = v.todo \ {r}]]
        PROVE  \E w \in AccountWork : InHand(w)' /\ accountWork' = [Mixed(q, v.list, {}) EXCEPT ![q] = w]
    <3>1. PICK rest \in SUBSET RoleCodes : rest = v.todo \ {r}
      BY <1>2
    <3>2. r \in RoleCodes
      BY <1>2
    <3> QED BY <2>2, <3>1, <3>2, SeedInHand
  <2> QED BY <1>1, <2>1, <2>2
<1> QED BY <1>1, <1>2, <1>3, <1>4, <1>5, <1>6, WritesList

\* Every step keeps the invariant, and writes a list as it was asked.
LEMMA AccountStep ==
    ASSUME AccountInv, [AccountNext]_accountVars
    PROVE  AccountInv' /\ (UNCHANGED accountVars \/ \A t \in Lists : GrantIsWhole(t))
<1>1. CASE UNCHANGED accountVars
  <2>1. UNCHANGED <<grants, accountWork, account, session, ended, accountCalls>>
    BY <1>1 DEF accountVars
  <2>2. Lasts
    BY <2>1, StillLasts DEF AccountInv, AccountTypeOK
  <2> QED BY <1>1, <2>1, <2>2, NoRequest
<1>2. ASSUME NEW q \in AccountRequests, AccountFails(q)
      PROVE  AccountInv' /\ \A t \in Lists : GrantIsWhole(t)
  <2>1. Lasts
    BY <1>2, StillLasts DEF AccountFails, AccountInv, AccountTypeOK
  <2> QED BY <1>2, <2>1, EndsInHand DEF AccountFails
<1> QED BY <1>1, <1>2, LoginSteps, LogoutSteps, DeactivationSteps, UserSteps, BeginsGrantSteps,
       DeletesStep, CommitsStep, EmptiesStep, SeedsStep DEF AccountNext

\* The invariant always holds.
LEMMA AccountInvHolds == AccountSpec => []AccountInv
<1>1. AccountInv /\ [AccountNext]_accountVars => AccountInv'
  BY AccountStep
<1> QED BY <1>1, AccountInvInit, PTL DEF AccountSpec

\* Every account, list, session and request keeps its type.
THEOREM AccountTypeCorrect == AccountSpec => []AccountTypeOK
<1>1. AccountInv => AccountTypeOK
  BY DEF AccountInv
<1> QED BY <1>1, AccountInvHolds, PTL

\* A session that a logout or a deactivation has ended answers no request any more,
\* whatever becomes of the account and of the logins under way (validateSession).
THEOREM SessionsEndForGood == AccountSpec => []EndedForGood
<1>1. AccountInv => EndedForGood
  BY DEF AccountInv, AccountTypeOK, SessionInv, EndedForGood, Answers
<1> QED BY <1>1, AccountInvHolds, PTL

\* Any number of changes and seedings at once leave in a list what one of them was
\* asked, unless another wrote it meanwhile (updateRolePermissions, updateOrgAccess,
\* update, seedDefaults).
THEOREM GrantsStayWhole == AccountSpec => GrantsAreWhole
<1>1. AccountInv /\ [AccountNext]_accountVars => [\A t \in Lists : GrantIsWhole(t)]_accountVars
  BY AccountStep
<1> QED BY <1>1, AccountInvHolds, PTL DEF AccountSpec, GrantsAreWhole

-----------------------------------------------------------------------------
(* Messaging: what a user has caught, and direct conversations             *)

\* A message being sent, or there.
Live(m) == message[m].at \in {"sending", "there"}

\* A conversation that exists.
Begun(c) == conversation[c].type # "unborn"

\* A message belongs to a conversation, and who has not caught it read that one before.
MessageInv ==
    \A m \in Messages : Live(m) =>
        /\ message[m].conversation \in Conversations /\ Begun(message[m].conversation)
        /\ \A u \in Users : \/ <<m, u>> \in caught
                            \/ conversation[message[m].conversation].lastReadAt[u] <= message[m].createdAt

\* Nobody takes part in a conversation before it begins.
Peopled == \A c \in Conversations : ~Begun(c) => conversation[c].participants = {}

\* Nobody has read in a time to come.
ReadInPast == \A c \in Conversations : \A u \in Users : conversation[c].lastReadAt[u] <= clock

\* What a request has in hand: a message of its own, which is there once it is inserted; a
\* date of which its user had caught the messages sent before; for a direct
\* conversation, that there is none unless another request creates it.
InChat(q, w) ==
    /\ w.op # "none" => w.by \in Users
    /\ w.op = "direct" =>
         /\ w.other \in Users
         /\ w.late \/ DirectOf(w.by, w.other) = {}
    /\ w.op \in {"send", "mark"} => w.conversation \in Conversations /\ Begun(w.conversation)
    /\ w.op = "send" =>
         /\ w.message \in Messages
         /\ message[w.message].at = IF w.at = "begun" THEN "sending" ELSE "there"
         /\ \A p \in ChatRequests \ {q} : chatWork[p].message # w.message
    /\ w.op # "send" => w.message = "none"
    /\ w.at \in {"inserted", "notifying"} => w.op = "send"
    /\ w.at = "dated" =>
         /\ w.op \in {"send", "mark"} /\ w.date <= clock
         /\ \A m \in Messages : Live(m) /\ message[m].conversation = w.conversation =>
               <<m, w.by>> \in caught \/ w.date <= message[m].createdAt

ChatInv ==
    /\ ChatTypeOK
    /\ MessageInv
    /\ Peopled
    /\ ReadInPast
    /\ OneDirect
    /\ \A q \in ChatRequests : InChat(q, chatWork[q])

\* Nothing is in hand before the first request.
LEMMA NoChatInHand ==
    /\ NoChat \in ChatWork /\ NoChat.message = "none"
    /\ \A q : InChat(q, NoChat) /\ InChat(q, NoChat)'
<1>1. NoChat \in ChatWork /\ NoChat.message = "none"
  BY ChatAssumption DEF NoChat, ChatWork, Times
<1>2. NoChat.op = "none" /\ NoChat.at = "begun"
  BY DEF NoChat
<1> QED BY <1>1, <1>2 DEF InChat

\* A group of some users, or nothing yet.
LEMMA ChatInvInit == ASSUME ChatInit PROVE ChatInv
<1> USE ChatAssumption
<1>1. PICK c \in Conversations, S \in SUBSET Users :
        conversation = [d \in Conversations |-> IF d = c /\ S # {}
              THEN [type |-> "GROUP", participants |-> S, lastReadAt |-> Unread]
              ELSE NoConversation]
  BY DEF ChatInit
<1>2. Unread \in [Users -> Times] /\ \A u \in Users : Unread[u] = 0
  BY DEF Unread, Times
<1>3. NoConversation \in Conversation /\ [type |-> "GROUP", participants |-> S, lastReadAt |-> Unread] \in Conversation
  BY <1>2 DEF NoConversation, Conversation
<1>4. \A d \in Conversations : conversation[d] \in Conversation /\ conversation[d].lastReadAt = Unread
                              /\ conversation[d].type # "DIRECT"
                              /\ (conversation[d].type = "unborn" => conversation[d].participants = {})
  BY <1>1, <1>3 DEF NoConversation
<1>5. NoMessage \in Message /\ NoMessage.at = "unborn"
  BY DEF NoMessage, Message, Times
<1>6. ChatTypeOK
  <2>1. message \in [Messages -> Message] /\ chatWork \in [ChatRequests -> ChatWork]
    BY <1>5, NoChatInHand DEF ChatInit
  <2>2. conversation \in [Conversations -> Conversation]
    BY <1>1, <1>4
  <2>3. notice \in [Messages -> [Users -> {"none", "unread", "read"}]]
    BY DEF ChatInit
  <2> QED BY <2>1, <2>2, <2>3 DEF ChatInit, ChatTypeOK
<1>7. MessageInv
  BY <1>5 DEF ChatInit, MessageInv, Live
<1>8. Peopled /\ ReadInPast /\ OneDirect
  BY <1>2, <1>4 DEF ChatInit, Peopled, Begun, ReadInPast, OneDirect
<1>9. \A q \in ChatRequests : InChat(q, chatWork[q])
  BY NoChatInHand DEF ChatInit
<1> QED BY <1>6, <1>7, <1>8, <1>9 DEF ChatInv

-----------------------------------------------------------------------------
\* What every step leaves: conversations begun, times past, messages as they were sent.
Grows ==
    /\ ChatTypeOK'
    /\ clock <= clock' /\ caught \subseteq caught'
    /\ \A c \in Conversations : Begun(c) => Begun(c)'
    /\ \A m \in Messages : Live(m)' =>
         \/ /\ Live(m) /\ message'[m].createdAt = message[m].createdAt
            /\ message'[m].conversation = message[m].conversation
         \/ message'[m].createdAt = clock

\* What a request has in hand stays so.
LEMMA InChatLasts ==
    ASSUME ChatInv, Grows, NEW p \in ChatRequests, NEW v \in ChatWork, InChat(p, v),
           v.op = "send" =>
             /\ message'[v.message].at = message[v.message].at
             /\ \A r \in ChatRequests \ {p} : chatWork'[r].message # v.message,
           v.op = "direct" => v.late \/ DirectOf(v.by, v.other)' = {}
    PROVE  InChat(p, v)'
<1>1. v.date \in Nat /\ clock \in Nat /\ clock' \in Nat
  BY ChatAssumption DEF ChatWork, Times, ChatInv, ChatTypeOK, Grows
<1>2. v.op \in {"send", "mark"} => v.conversation \in Conversations /\ Begun(v.conversation)'
  BY DEF InChat, Grows
<1>3. ASSUME v.at = "dated"
      PROVE  /\ v.op \in {"send", "mark"} /\ v.date <= clock'
             /\ \A m \in Messages : Live(m)' /\ message'[m].conversation = v.conversation =>
                   <<m, v.by>> \in caught' \/ v.date <= message'[m].createdAt
  <2>1. /\ v.op \in {"send", "mark"} /\ v.date <= clock
        /\ \A m \in Messages : Live(m) /\ message[m].conversation = v.conversation =>
              <<m, v.by>> \in caught \/ v.date <= message[m].createdAt
    BY <1>3 DEF InChat
  <2>2. v.date <= clock'
    BY <1>1, <2>1 DEF Grows
  <2> QED BY <2>1, <2>2 DEF Grows
<1>4. v.op = "send" =>
         /\ v.message \in Messages
         /\ message'[v.message].at = IF v.at = "begun" THEN "sending" ELSE "there"
         /\ \A r \in ChatRequests \ {p} : chatWork'[r].message # v.message
  BY DEF InChat
<1>5. /\ v.op # "none" => v.by \in Users
      /\ v.op = "direct" => v.other \in Users
      /\ v.op # "send" => v.message = "none"
      /\ v.at \in {"inserted", "notifying"} => v.op = "send"
  BY DEF InChat
<1> QED BY <1>2, <1>3, <1>4, <1>5 DEF InChat

\* A step of one request that takes no message of another and writes no conversation.
LEMMA OneTalk ==
    ASSUME ChatInv, Grows, NEW q \in ChatRequests, NEW w \in ChatWork, InChat(q, w)',
           chatWork' = [chatWork EXCEPT ![q] = w],
           \A p \in ChatRequests \ {q} : chatWork[p].op = "send" => w.message # chatWork[p].message,
           \A p \in ChatRequests \ {q} : chatWork[p].op = "send" =>
              message'[chatWork[p].message].at = message[chatWork[p].message].at,
           UNCHANGED <<conversation, twins>>, MessageInv'
    PROVE  ChatInv'
<1>1. Peopled' /\ ReadInPast' /\ OneDirect'
  <2>1. \A c \in Conversations, u \in Users : conversation[c].lastReadAt[u] \in Nat
    BY ChatAssumption DEF ChatInv, ChatTypeOK, Conversation, Times
  <2>2. clock \in Nat /\ clock' \in Nat
    BY DEF ChatInv, ChatTypeOK, Grows
  <2> QED BY <2>1, <2>2 DEF ChatInv, Peopled, Begun, ReadInPast, OneDirect, Grows
<1>2. ASSUME NEW p \in ChatRequests PROVE InChat(p, chatWork[p])'
  <2>1. CASE p = q
    BY <2>1 DEF ChatInv, ChatTypeOK
  <2>2. CASE p # q
    <3>1. PICK v \in ChatWork : v = chatWork[p] /\ v = chatWork'[p] /\ InChat(p, v)
      BY <2>2 DEF ChatInv, ChatTypeOK
    <3>2. v.op = "send" =>
             /\ message'[v.message].at = message[v.message].at
             /\ \A r \in ChatRequests \ {p} : chatWork'[r].message # v.message
      BY <2>2, <3>1 DEF InChat, ChatInv, ChatTypeOK
    <3>3. v.op = "direct" => v.late \/ DirectOf(v.by, v.other)' = {}
      BY <3>1 DEF InChat, DirectOf
    <3>4. InChat(p, v)'
      BY <3>1, <3>2, <3>3, InChatLasts
    <3> QED BY <3>1, <3>4
  <2> QED BY <2>1, <2>2
<1> QED BY <1>1, <1>2 DEF ChatInv, Grows

\* A step that changes nothing of the messages but what is known of them.
LEMMA StillGrows ==
    ASSUME ChatInv, ChatTypeOK', clock <= clock', caught \subseteq caught',
           UNCHANGED <<conversation, message>>
    PROVE  Grows /\ MessageInv'
BY DEF Grows, Begun, Live, ChatInv, MessageInv

\* What a request begins with is in its hand.
LEMMA ChatBeginsInHand ==
    ASSUME ChatInv, NEW q \in ChatRequests, NEW w \in ChatWork, ChatBegins(q, w), InChat(q, w),
           w.op \in {"direct", "mark"}, UNCHANGED <<chatData, clock, caught, twins>>
    PROVE  ChatInv'
<1>1. ChatTypeOK' /\ clock <= clock' /\ caught \subseteq caught' /\ UNCHANGED <<conversation, message>>
  BY ChatAssumption DEF ChatInv, ChatTypeOK, ChatBegins, ChatCounts, chatData
<1>2. Grows /\ MessageInv'
  BY <1>1, StillGrows
<1>3. InChat(q, w)'
  <2>1. w.op = "direct" => w.late \/ DirectOf(w.by, w.other)' = {}
    BY <1>1 DEF InChat, DirectOf
  <2> QED BY <1>2, <2>1, InChatLasts
<1>4. \A p \in ChatRequests : chatWork[p].op = "send" => w.message # chatWork[p].message
  BY ChatAssumption DEF ChatInv, InChat
<1> QED BY <1>1, <1>2, <1>3, <1>4, OneTalk DEF ChatBegins

\* A request that ends without a word has nothing in hand.
LEMMA ChatEnds ==
    ASSUME ChatInv, Grows, NEW q \in ChatRequests, chatWork' = [chatWork EXCEPT ![q] = NoChat],
           \A p \in ChatRequests \ {q} : chatWork[p].op = "send" =>
              message'[chatWork[p].message].at = message[chatWork[p].message].at,
           UNCHANGED <<conversation, twins>>, MessageInv'
    PROVE  ChatInv'
<1>1. \A p \in ChatRequests : chatWork[p].op = "send" => NoChat.message # chatWork[p].message
  BY ChatAssumption, NoChatInHand DEF ChatInv, InChat
<1> QED BY <1>1, NoChatInHand, OneTalk

\* The clock and the notifications disturb nothing.
LEMMA QuietSteps ==
    ASSUME ChatInv,
           \/ Ticks \/ UNCHANGED chatVars
           \/ \E u \in Users : ReadsAllNotices(u) \/ \E m \in Messages : ReadsNotice(u, m)
    PROVE  ChatInv'
<1>1. UNCHANGED <<conversation, message, chatWork, caught, twins>> /\ chatCalls' = chatCalls
      /\ reachable' = reachable
  BY DEF Ticks, chatVars, chatData, ReadsAllNotices, ReadsNotice
<1>2. clock' \in 1 .. MaxTime /\ clock <= clock'
  BY ChatAssumption DEF Ticks, chatVars, chatData, ReadsAllNotices, ReadsNotice, ChatInv, ChatTypeOK
<1>3. notice' \in [Messages -> [Users -> {"none", "unread", "read"}]]
  <2>1. CASE notice' = notice
    BY <2>1 DEF ChatInv, ChatTypeOK
  <2>2. ASSUME NEW u \in Users, ReadsAllNotices(u)
        PROVE notice' \in [Messages -> [Users -> {"none", "unread", "read"}]]
    <3>1. notice' = [m \in Messages |->
          [notice[m] EXCEPT ![u] = IF notice[m][u] = "unread" THEN "read" ELSE notice[m][u]]]
      BY <2>2 DEF ReadsAllNotices
    <3>2. \A m \in Messages : notice[m] \in [Users -> {"none", "unread", "read"}]
      BY DEF ChatInv, ChatTypeOK
    <3> QED BY <3>1, <3>2
  <2>3. ASSUME NEW u \in Users, NEW m \in Messages, ReadsNotice(u, m)
        PROVE notice' \in [Messages -> [Users -> {"none", "unread", "read"}]]
    BY <2>3 DEF ReadsNotice, ChatInv, ChatTypeOK
  <2> QED BY <2>1, <2>2, <2>3 DEF Ticks, chatVars, chatData
<1>4. ChatTypeOK'
  BY <1>1, <1>2, <1>3 DEF ChatInv, ChatTypeOK
<1>5. Grows /\ MessageInv'
  BY <1>1, <1>2, <1>4, StillGrows
<1>6. Peopled' /\ ReadInPast' /\ OneDirect'
  <2>1. \A c \in Conversations, u \in Users : conversation[c].lastReadAt[u] \in Nat
    BY ChatAssumption DEF ChatInv, ChatTypeOK, Conversation, Times
  <2>2. clock \in Nat /\ clock' \in Nat
    BY <1>2 DEF ChatInv, ChatTypeOK
  <2> QED BY <1>1, <1>2, <2>1, <2>2 DEF ChatInv, Peopled, Begun, ReadInPast, OneDirect
<1>7. ASSUME NEW p \in ChatRequests PROVE InChat(p, chatWork[p])'
  <2>1. PICK v \in ChatWork : v = chatWork[p] /\ v = chatWork'[p] /\ InChat(p, v)
    BY <1>1 DEF ChatInv, ChatTypeOK
  <2>2. v.op = "send" =>
           /\ message'[v.message].at = message[v.message].at
           /\ \A r \in ChatRequests \ {p} : chatWork'[r].message # v.message
    BY <1>1, <2>1 DEF InChat
  <2>3. v.op = "direct" => v.late \/ DirectOf(v.by, v.other)' = {}
    BY <1>1, <2>1 DEF InChat, DirectOf
  <2> QED BY <1>5, <2>1, <2>2, <2>3, InChatLasts
<1> QED BY <1>4, <1>5, <1>6, <1>7 DEF ChatInv

\* A direct conversation is asked for when there is none; a reading, in a conversation.
LEMMA BeginsChatSteps ==
    ASSUME ChatInv, NEW q \in ChatRequests,
           \/ \E u, v \in Users : BeginsDirect(q, u, v)
           \/ \E u \in Users, c \in Conversations : BeginsMark(q, u, c)
    PROVE  ChatInv'
<1>1. ASSUME NEW u \in Users, NEW v \in Users, BeginsDirect(q, u, v) PROVE ChatInv'
  <2> DEFINE w == [NoChat EXCEPT !.op = "direct", !.by = u, !.other = v]
  <2>1. /\ w \in ChatWork /\ w.op = "direct" /\ w.by = u /\ w.other = v /\ w.at = "begun"
        /\ w.message = "none"
    BY NoChatInHand DEF ChatWork, NoChat
  <2>2. DirectOf(u, v) = {} /\ ChatBegins(q, w) /\ UNCHANGED <<chatData, clock, caught, twins>>
    BY <1>1 DEF BeginsDirect
  <2> HIDE DEF w
  <2>3. InChat(q, w)
    BY <2>1, <2>2 DEF InChat
  <2> QED BY <2>1, <2>2, <2>3, ChatBeginsInHand
<1>2. ASSUME NEW u \in Users, NEW c \in Conversations, BeginsMark(q, u, c) PROVE ChatInv'
  <2> DEFINE w == [NoChat EXCEPT !.op = "mark", !.by = u, !.conversation = c]
  <2>1. /\ w \in ChatWork /\ w.op = "mark" /\ w.by = u /\ w.conversation = c /\ w.at = "begun"
        /\ w.message = "none"
    BY NoChatInHand DEF ChatWork, NoChat
  <2>2. /\ u \in conversation[c].participants /\ ChatBegins(q, w)
        /\ UNCHANGED <<chatData, clock, caught, twins>>
    BY <1>2 DEF BeginsMark
  <2>3. Begun(c)
    BY <2>2 DEF ChatInv, Peopled
  <2> HIDE DEF w
  <2>4. InChat(q, w)
    BY <2>1, <2>3 DEF InChat
  <2> QED BY <2>1, <2>2, <2>4, ChatBeginsInHand
<1> QED BY <1>1, <1>2

\* A message is sent in a conversation, of which nobody has read anything later.
LEMMA BeginsSendStep ==
    ASSUME ChatInv, NEW q \in ChatRequests, NEW u \in Users, NEW c \in Conversations,
           NEW m \in Messages, BeginsSend(q, u, c, m)
    PROVE  ChatInv'
<1> DEFINE x == [NoChat EXCEPT !.op = "send", !.by = u, !.conversation = c, !.message = m]
           row == [at |-> "sending", of |-> u, conversation |-> c, createdAt |-> clock]
<1>1. /\ u \in conversation[c].participants /\ message[m].at = "unborn"
      /\ ChatBegins(q, x) /\ message' = [message EXCEPT ![m] = row]
      /\ UNCHANGED <<reachable, conversation, notice, clock, caught, twins>>
  BY DEF BeginsSend
<1>2. /\ x \in ChatWork /\ x.op = "send" /\ x.by = u /\ x.conversation = c /\ x.message = m
      /\ x.at = "begun"
  BY NoChatInHand DEF ChatWork, NoChat
<1>3. /\ row \in Message /\ row.at = "sending" /\ row.conversation = c /\ row.createdAt = clock
  BY ChatAssumption DEF Message, Times, ChatInv, ChatTypeOK
<1>4. Begun(c)
  BY <1>1 DEF ChatInv, Peopled
<1> HIDE DEF x, row
<1>5. message'[m] = row /\ \A n \in Messages \ {m} : message'[n] = message[n]
  BY <1>1 DEF ChatInv, ChatTypeOK
<1>6. ChatTypeOK'
  <2>1. chatCalls' \in 0 .. MaxChatCalls
    BY <1>1, ChatAssumption DEF ChatBegins, ChatCounts, ChatInv, ChatTypeOK
  <2> QED BY <1>1, <1>2, <1>3, <2>1 DEF ChatBegins, ChatInv, ChatTypeOK
<1>7. Grows
  BY <1>1, <1>3, <1>5, <1>6 DEF Grows, Begun, Live, ChatInv, ChatTypeOK
<1>8. MessageInv'
  <2>1. \A v \in Users : conversation[c].lastReadAt[v] <= clock
    BY DEF ChatInv, ReadInPast
  <2> QED BY <1>1, <1>3, <1>4, <1>5, <2>1 DEF MessageInv, Live, Begun, ChatInv
<1>9. \A p \in ChatRequests : chatWork[p].message # m
  BY <1>1, ChatAssumption DEF ChatInv, InChat
<1>10. PICK w \in ChatWork : w = x
  BY <1>2
<1>11. chatWork' = [chatWork EXCEPT ![q] = w]
  BY <1>1, <1>10 DEF ChatBegins
<1>12. InChat(q, w)'
  BY <1>1, <1>2, <1>3, <1>4, <1>5, <1>9, <1>10, <1>11 DEF InChat, Begun
<1>13. \A p \in ChatRequests : chatWork[p].op = "send" =>
          /\ w.message # chatWork[p].message
          /\ message'[chatWork[p].message].at = message[chatWork[p].message].at
  BY <1>2, <1>5, <1>9, <1>10 DEF ChatInv, InChat
<1> QED BY <1>1, <1>7, <1>8, <1>11, <1>12, <1>13, OneTalk

\* Its row is inserted: the message was being sent, and is there.
LEMMA InsertsStep ==
    ASSUME ChatInv, NEW q \in ChatRequests, Inserts(q)
    PROVE  ChatInv'
<1> DEFINE v == chatWork[q]
           m == v.message
           row == [message[m] EXCEPT !.at = "there"]
           to == conversation[v.conversation].participants \ {v.by}
           x == [v EXCEPT !.at = "inserted", !.recipients = to]
<1>1. /\ v \in ChatWork /\ InChat(q, v) /\ v.op = "send" /\ v.at = "begun"
      /\ message' = [message EXCEPT ![m] = row] /\ chatWork' = [chatWork EXCEPT ![q] = x]
      /\ UNCHANGED <<reachable, conversation, notice, clock, chatCalls, caught, twins>>
  BY DEF Inserts, ChatInv, ChatTypeOK
<1>2. /\ m \in Messages /\ message[m].at = "sending" /\ message[m] \in Message
      /\ \A p \in ChatRequests \ {q} : chatWork[p].message # m
      /\ v.conversation \in Conversations /\ Begun(v.conversation) /\ v.by \in Users
  BY <1>1 DEF InChat, ChatInv, ChatTypeOK
<1>3. to \in SUBSET Users
  BY <1>2 DEF ChatInv, ChatTypeOK, Conversation
<1>4. /\ row \in Message /\ row.at = "there" /\ row.conversation = message[m].conversation
      /\ row.createdAt = message[m].createdAt
  BY <1>2 DEF Message
<1> HIDE DEF to
<1>5. /\ x \in ChatWork /\ x.op = "send" /\ x.at = "inserted" /\ x.message = m /\ x.by = v.by
      /\ x.conversation = v.conversation
  BY <1>1, <1>3 DEF ChatWork
<1> HIDE DEF row, x
<1>6. message'[m] = row /\ \A n \in Messages \ {m} : message'[n] = message[n]
  BY <1>1, <1>2 DEF ChatInv, ChatTypeOK
<1>7. ChatTypeOK'
  BY <1>1, <1>2, <1>4, <1>5 DEF ChatInv, ChatTypeOK
<1>8. \A n \in Messages : /\ Live(n)' = Live(n) /\ message'[n].createdAt = message[n].createdAt
                           /\ message'[n].conversation = message[n].conversation
  BY <1>2, <1>4, <1>6 DEF Live
<1>9. Grows
  BY <1>1, <1>7, <1>8 DEF Grows, Begun, ChatInv, ChatTypeOK
<1>10. MessageInv'
  BY <1>1, <1>8 DEF MessageInv, Begun, ChatInv
<1>11. PICK w \in ChatWork : w = x
  BY <1>5
<1>12. InChat(q, w)'
  <2>1. Begun(w.conversation)'
    BY <1>1, <1>2, <1>5, <1>11 DEF Begun
  <2>2. \A p \in ChatRequests \ {q} : chatWork'[p].message # w.message
    BY <1>1, <1>2, <1>5, <1>11 DEF ChatInv, ChatTypeOK
  <2> QED BY <1>2, <1>4, <1>5, <1>6, <1>11, <2>1, <2>2 DEF InChat
<1>13. \A p \in ChatRequests \ {q} : chatWork[p].op = "send" =>
          /\ w.message # chatWork[p].message
          /\ message'[chatWork[p].message].at = message[chatWork[p].message].at
  BY <1>2, <1>5, <1>6, <1>11 DEF ChatInv, InChat
<1> QED BY <1>1, <1>9, <1>10, <1>11, <1>12, <1>13, OneTalk

\* A reading is dated: its reader has caught what was sent before.
LEMMA DatesStep ==
    ASSUME ChatInv, NEW q \in ChatRequests, Dates(q)
    PROVE  ChatInv'
<1> DEFINE v == chatWork[q]
           x == [v EXCEPT !.at = "dated", !.date = clock]
<1>1. /\ v \in ChatWork /\ InChat(q, v) /\ v.op \in {"send", "mark"}
      /\ (v.op = "send" => v.at = "inserted")
      /\ chatWork' = [chatWork EXCEPT ![q] = x]
      /\ caught' = caught \cup {<<m, v.by>> : m \in {n \in Messages :
            message[n].conversation = v.conversation /\ message[n].at \in {"sending", "there"}}}
      /\ UNCHANGED <<chatData, clock, chatCalls, twins>>
  BY DEF Dates, ChatInv, ChatTypeOK
<1>2. clock \in Times /\ clock \in Nat /\ v.by \in Users
  BY <1>1, ChatAssumption DEF ChatInv, ChatTypeOK, Times, InChat
<1>3. /\ x \in ChatWork /\ x.op = v.op /\ x.at = "dated" /\ x.message = v.message /\ x.by = v.by
      /\ x.conversation = v.conversation /\ x.date = clock
  BY <1>1, <1>2 DEF ChatWork
<1> HIDE DEF x
<1>4. caught' \in SUBSET (Messages \X Users) /\ caught \subseteq caught'
  BY <1>1, <1>2 DEF ChatInv, ChatTypeOK
<1>5. ChatTypeOK' /\ clock <= clock' /\ UNCHANGED <<conversation, message>>
  BY <1>1, <1>2, <1>3, <1>4 DEF ChatInv, ChatTypeOK, chatData
<1>6. Grows /\ MessageInv'
  BY <1>4, <1>5, StillGrows
<1>7. PICK w \in ChatWork : w = x
  BY <1>3
<1>8. InChat(q, w)'
  <2>1. Begun(w.conversation)'
    BY <1>1, <1>3, <1>5, <1>7 DEF Begun, InChat
  <2>2. w.op = "send" => /\ w.message \in Messages /\ message'[w.message].at = "there"
                         /\ \A p \in ChatRequests \ {q} : chatWork'[p].message # w.message
    BY <1>1, <1>3, <1>5, <1>7 DEF InChat, ChatInv, ChatTypeOK
  <2>3. \A m \in Messages : Live(m)' /\ message'[m].conversation = w.conversation =>
          <<m, w.by>> \in caught'
    BY <1>1, <1>3, <1>5, <1>7 DEF Live
  <2>4. w.date <= clock'
    BY <1>2, <1>3, <1>5, <1>7
  <2>5. /\ w.by \in Users /\ w.conversation \in Conversations /\ (w.op # "send" => w.message = "none")
    BY <1>1, <1>3, <1>7 DEF InChat
  <2> QED BY <1>1, <1>3, <1>7, <2>1, <2>2, <2>3, <2>4, <2>5 DEF InChat
<1>9. \A p \in ChatRequests \ {q} : chatWork[p].op = "send" =>
          /\ w.message # chatWork[p].message
          /\ message'[chatWork[p].message].at = message[chatWork[p].message].at
  BY <1>1, <1>3, <1>5, <1>7 DEF ChatInv, InChat
<1>10. UNCHANGED <<conversation, twins>>
  BY <1>1, <1>5
<1> QED BY <1>1, <1>6, <1>7, <1>8, <1>9, <1>10, OneTalk

\* The notifications are sent, which ends the request.
LEMMA NotifiesStep ==
    ASSUME ChatInv, NEW q \in ChatRequests, Notifies(q)
    PROVE  ChatInv'
<1> DEFINE m == chatWork[q].message
           row == [u \in Users |-> IF u \in chatWork[q].recipients THEN "unread" ELSE notice[m][u]]
<1>1. /\ chatWork[q].at = "notifying" /\ notice' = [notice EXCEPT ![m] = row]
      /\ chatWork' = [chatWork EXCEPT ![q] = NoChat]
      /\ UNCHANGED <<reachable, conversation, message, clock, chatCalls, caught, twins>>
  BY DEF Notifies
<1>2. m \in Messages
  BY <1>1 DEF ChatInv, InChat
<1>3. row \in [Users -> {"none", "unread", "read"}]
  BY <1>2 DEF ChatInv, ChatTypeOK
<1> HIDE DEF row, m
<1>4. ChatTypeOK'
  BY <1>1, <1>2, <1>3, NoChatInHand DEF ChatInv, ChatTypeOK
<1>5. clock <= clock' /\ caught \subseteq caught'
  BY <1>1 DEF ChatInv, ChatTypeOK
<1>6. Grows /\ MessageInv'
  BY <1>1, <1>4, <1>5, StillGrows
<1> QED BY <1>1, <1>6, ChatEnds

\* Messages that are lost are no more.
LEMMA LostLeaves ==
    ASSUME ChatInv, NEW S \in SUBSET ChatRequests, message' = Lost(S)
    PROVE  /\ message' \in [Messages -> Message]
           /\ \A m \in Messages : /\ Live(m)' => Live(m)
                                   /\ message'[m].createdAt = message[m].createdAt
                                   /\ message'[m].conversation = message[m].conversation
           /\ \A m \in Messages : (\A q \in S : chatWork[q].message # m) => message'[m] = message[m]
           /\ \A m \in Messages : message[m].at # "sending" => message'[m] = message[m]
<1> DEFINE gone(m) == message[m].at = "sending" /\ \E q \in S : chatWork[q].message = m
<1>1. \A m \in Messages : message'[m] = IF gone(m) THEN [message[m] EXCEPT !.at = "lost"] ELSE message[m]
  BY DEF Lost
<1>2. DOMAIN message' = Messages /\ message' = [m \in Messages |-> message'[m]]
  BY DEF Lost
<1>3. \A m \in Messages : LET row == [message[m] EXCEPT !.at = "lost"] IN
        /\ message[m] \in Message
        /\ row \in Message /\ row.at = "lost" /\ row.createdAt = message[m].createdAt
        /\ row.conversation = message[m].conversation
  BY DEF ChatInv, ChatTypeOK, Message
<1>4. message' \in [Messages -> Message]
  BY <1>1, <1>2, <1>3
<1> QED BY <1>1, <1>3, <1>4 DEF Live

\* A request that fails loses the message it was sending, and no other.
LEMMA ChatFailsStep ==
    ASSUME ChatInv, NEW q \in ChatRequests, ChatFails(q)
    PROVE  ChatInv'
<1>1. /\ message' = Lost({q}) /\ chatWork' = [chatWork EXCEPT ![q] = NoChat]
      /\ UNCHANGED <<reachable, conversation, notice, clock, chatCalls, caught, twins>>
  BY DEF ChatFails
<1>2. /\ message' \in [Messages -> Message]
      /\ \A m \in Messages : /\ Live(m)' => Live(m)
                              /\ message'[m].createdAt = message[m].createdAt
                              /\ message'[m].conversation = message[m].conversation
      /\ \A m \in Messages : chatWork[q].message # m => message'[m] = message[m]
  <2>1. {q} \in SUBSET ChatRequests
    OBVIOUS
  <2> QED BY <1>1, <2>1, LostLeaves
<1>3. ChatTypeOK'
  BY <1>1, <1>2, NoChatInHand DEF ChatInv, ChatTypeOK
<1>4. Grows
  <2>1. clock <= clock' /\ caught \subseteq caught' /\ \A c \in Conversations : Begun(c) => Begun(c)'
    BY <1>1 DEF ChatInv, ChatTypeOK, Begun
  <2> QED BY <1>2, <1>3, <2>1 DEF Grows
<1>5. MessageInv'
  BY <1>1, <1>2 DEF MessageInv, Begun, ChatInv
<1>6. \A p \in ChatRequests \ {q} : chatWork[p].op = "send" =>
          message'[chatWork[p].message].at = message[chatWork[p].message].at
  BY <1>2 DEF ChatInv, InChat
<1> QED BY <1>1, <1>4, <1>5, <1>6, ChatEnds

\* A conversation that keeps its kind and participants is found as before.
LEMMA SameDirect ==
    ASSUME NEW u, NEW v,
           \A c \in Conversations : /\ conversation'[c].type = conversation[c].type
                                    /\ conversation'[c].participants = conversation[c].participants
    PROVE  DirectOf(u, v)' = DirectOf(u, v)
BY DEF DirectOf

\* A reading is written: who reads had caught what was sent before its date.
LEMMA MarksStep ==
    ASSUME ChatInv, NEW q \in ChatRequests, Marks(q)
    PROVE  ChatInv'
<1> DEFINE v == chatWork[q]
           c == v.conversation
           row == ReadBy(conversation[c], v.by, v.date)
           x == IF v.op = "send" THEN [v EXCEPT !.at = "notifying"] ELSE NoChat
<1>1. /\ v \in ChatWork /\ InChat(q, v) /\ v.at = "dated"
      /\ conversation' = [conversation EXCEPT ![c] = row] /\ chatWork' = [chatWork EXCEPT ![q] = x]
      /\ UNCHANGED <<reachable, message, notice, clock, chatCalls, caught, twins>>
  BY DEF Marks, ChatInv, ChatTypeOK
<1>2. /\ v.op \in {"send", "mark"} /\ c \in Conversations /\ Begun(c) /\ v.by \in Users
      /\ v.date \in Times /\ v.date <= clock /\ conversation[c] \in Conversation
      /\ \A m \in Messages : Live(m) /\ message[m].conversation = c =>
            <<m, v.by>> \in caught \/ v.date <= message[m].createdAt
  BY <1>1 DEF InChat, ChatWork, ChatInv, ChatTypeOK
<1>3. /\ row \in Conversation /\ row.type = conversation[c].type
      /\ row.participants = conversation[c].participants
      /\ row.lastReadAt[v.by] = v.date
      /\ \A u \in Users \ {v.by} : row.lastReadAt[u] = conversation[c].lastReadAt[u]
  BY <1>2 DEF Conversation, ReadBy
<1>4. /\ x \in ChatWork
      /\ \/ x = NoChat
         \/ /\ v.op = "send" /\ x.op = "send" /\ x.at = "notifying" /\ x.by = v.by
            /\ x.conversation = c /\ x.message = v.message
  BY <1>1, NoChatInHand DEF ChatWork
<1> HIDE DEF row, x, c
<1>5. conversation'[c] = row /\ \A d \in Conversations \ {c} : conversation'[d] = conversation[d]
  BY <1>1, <1>2 DEF ChatInv, ChatTypeOK
<1>6. \A d \in Conversations : /\ conversation'[d].type = conversation[d].type
                               /\ conversation'[d].participants = conversation[d].participants
  BY <1>3, <1>5
<1>7. ChatTypeOK'
  BY <1>1, <1>2, <1>3, <1>4 DEF ChatInv, ChatTypeOK
<1>8. Grows
  <2>1. clock <= clock' /\ caught \subseteq caught' /\ \A m \in Messages : Live(m)' = Live(m)
    BY <1>1 DEF ChatInv, ChatTypeOK, Live
  <2> QED BY <1>1, <1>6, <1>7, <2>1 DEF Grows, Begun
<1>9. MessageInv'
  <2>1. SUFFICES ASSUME NEW m \in Messages, Live(m)
                 PROVE  /\ message[m].conversation \in Conversations /\ Begun(message[m].conversation)'
                        /\ \A u \in Users :
                             \/ <<m, u>> \in caught
                             \/ conversation'[message[m].conversation].lastReadAt[u] <= message[m].createdAt
    BY <1>1 DEF MessageInv, Live
  <2>2. /\ message[m].conversation \in Conversations /\ Begun(message[m].conversation)
        /\ \A u \in Users :
             \/ <<m, u>> \in caught
             \/ conversation[message[m].conversation].lastReadAt[u] <= message[m].createdAt
    BY <2>1 DEF ChatInv, MessageInv
  <2>3. Begun(message[m].conversation)'
    BY <1>1, <1>6, <2>2 DEF Begun
  <2>4. CASE message[m].conversation = c
    BY <1>2, <1>3, <1>5, <2>1, <2>2, <2>3, <2>4
  <2>5. CASE message[m].conversation # c
    BY <1>5, <2>2, <2>3, <2>5
  <2> QED BY <2>4, <2>5
<1>10. Peopled' /\ OneDirect'
  BY <1>1, <1>6 DEF ChatInv, Peopled, Begun, OneDirect
<1>11. ReadInPast'
  BY <1>1, <1>2, <1>3, <1>5 DEF ChatInv, ReadInPast
<1>12. ASSUME NEW p \in ChatRequests \ {q} PROVE InChat(p, chatWork[p])'
  <2>1. PICK w \in ChatWork : w = chatWork[p] /\ w = chatWork'[p] /\ InChat(p, w)
    BY <1>1 DEF ChatInv, ChatTypeOK
  <2>2. w.op = "send" => w.message # "none" /\ \A r \in ChatRequests \ {p} : chatWork[r].message # w.message
    BY <2>1, ChatAssumption DEF InChat
  <2>3. chatWork'[q] = x /\ x.message \in {chatWork[q].message, "none"}
    BY <1>1, <1>4, NoChatInHand DEF ChatInv, ChatTypeOK
  <2>4. \A r \in ChatRequests \ {q} : chatWork'[r] = chatWork[r]
    BY <1>1 DEF ChatInv, ChatTypeOK
  <2>5. w.op = "send" =>
           /\ message'[w.message].at = message[w.message].at
           /\ \A r \in ChatRequests \ {p} : chatWork'[r].message # w.message
    BY <1>1, <2>2, <2>3, <2>4
  <2>6. w.op = "direct" => w.late \/ DirectOf(w.by, w.other)' = {}
    BY <1>6, <2>1, SameDirect DEF InChat
  <2> QED BY <1>8, <2>1, <2>5, <2>6, InChatLasts
<1>13. InChat(q, chatWork[q])'
  <2>1. chatWork'[q] = x
    BY <1>1 DEF ChatInv, ChatTypeOK
  <2>2. CASE x = NoChat
    BY <2>1, <2>2, NoChatInHand
  <2>3. CASE /\ v.op = "send" /\ x.op = "send" /\ x.at = "notifying" /\ x.by = v.by
             /\ x.conversation = c /\ x.message = v.message
    <3>1. PICK w \in ChatWork : w = x
      BY <1>4
    <3>2. Begun(w.conversation)'
      <4>1. w.conversation = c
        BY <2>3, <3>1
      <4>2. PICK d \in Conversations : d = c
        BY <1>2
      <4> QED BY <1>2, <1>6, <4>1, <4>2 DEF Begun
    <3>3. /\ w.message \in Messages /\ message'[w.message].at = "there"
          /\ \A p \in ChatRequests \ {q} : chatWork'[p].message # w.message
      BY <1>1, <2>3, <3>1 DEF InChat, ChatInv, ChatTypeOK
    <3>4. InChat(q, w)'
      BY <1>2, <2>3, <3>1, <3>2, <3>3 DEF InChat
    <3> QED BY <2>1, <3>1, <3>4
  <2> QED BY <1>4, <2>2, <2>3
<1> QED BY <1>7, <1>9, <1>10, <1>11, <1>12, <1>13 DEF ChatInv

\* A conversation is created for some users: nothing is read or sent in it yet.
LEMMA NewTalk ==
    ASSUME ChatInv, NEW c \in Conversations, ~Begun(c), NEW S \in SUBSET Users, NEW by \in Users,
           NEW type \in {"DIRECT", "GROUP"},
           conversation' = [conversation EXCEPT ![c] = Created(type, S, by)],
           chatWork' \in [ChatRequests -> ChatWork], chatCalls' \in 0 .. MaxChatCalls,
           twins' \in SUBSET Conversations,
           UNCHANGED <<reachable, message, notice, clock, caught>>
    PROVE  /\ Grows /\ MessageInv' /\ Peopled' /\ ReadInPast'
           /\ conversation'[c].type = type /\ conversation'[c].participants = S
           /\ \A d \in Conversations \ {c} : conversation'[d] = conversation[d]
<1> DEFINE row == Created(type, S, by)
<1>1. clock \in Times /\ clock \in Nat
  BY ChatAssumption DEF ChatInv, ChatTypeOK, Times
<1>2. /\ row \in Conversation /\ row.type = type /\ row.participants = S
      /\ \A u \in Users : row.lastReadAt[u] <= clock
  <2> DEFINE dates == [Unread EXCEPT ![by] = clock]
  <2>1. Unread \in [Users -> Times]
    BY ChatAssumption DEF Unread, Times
  <2>2. dates \in [Users -> Times] /\ \A u \in Users : dates[u] \in {Unread[u], clock}
    BY <1>1, <2>1
  <2>3. \A u \in Users : dates[u] <= clock
    BY <1>1, <2>2 DEF Unread
  <2>4. row = [type |-> type, participants |-> S, lastReadAt |-> dates]
    BY DEF Created
  <2> HIDE DEF dates, row
  <2> QED BY <2>2, <2>3, <2>4 DEF Conversation
<1> HIDE DEF row
<1>3. conversation'[c] = row /\ \A d \in Conversations \ {c} : conversation'[d] = conversation[d]
  BY DEF ChatInv, ChatTypeOK, row
<1>4. ChatTypeOK'
  <2>1. conversation' \in [Conversations -> Conversation]
    BY <1>2 DEF ChatInv, ChatTypeOK, row
  <2> QED BY <2>1 DEF ChatInv, ChatTypeOK
<1>5. \A d \in Conversations : Begun(d) => d # c /\ Begun(d)'
  BY <1>3 DEF Begun
<1>6. Grows
  BY <1>1, <1>4, <1>5 DEF Grows, Live
<1>7. MessageInv'
  BY <1>3, <1>5 DEF MessageInv, Live, Begun, ChatInv
<1>8. Peopled' /\ ReadInPast'
  BY <1>2, <1>3 DEF ChatInv, Peopled, Begun, ReadInPast
<1> QED BY <1>2, <1>3, <1>6, <1>7, <1>8

\* A group leaves the direct conversations as they are.
LEMMA CreatesGroupStep ==
    ASSUME ChatInv, NEW u \in Users, NEW S \in SUBSET Users, NEW c \in Conversations,
           CreatesGroup(u, S, c)
    PROVE  ChatInv'
<1>1. PICK T \in SUBSET Users :
        /\ ~Begun(c) /\ conversation' = [conversation EXCEPT ![c] = Created("GROUP", T, u)]
        /\ ChatCounts /\ UNCHANGED <<reachable, message, notice, clock, chatWork, caught, twins>>
  <2>1. Admins \in SUBSET Users
    BY DEF Admins, ChatInv, ChatTypeOK
  <2> QED BY <2>1 DEF CreatesGroup, Begun
<1>2. /\ chatWork' \in [ChatRequests -> ChatWork] /\ chatCalls' \in 0 .. MaxChatCalls
      /\ twins' \in SUBSET Conversations
  BY <1>1, ChatAssumption DEF ChatCounts, ChatInv, ChatTypeOK
<1>3. /\ Grows /\ MessageInv' /\ Peopled' /\ ReadInPast'
      /\ conversation'[c].type = "GROUP"
      /\ \A d \in Conversations \ {c} : conversation'[d] = conversation[d]
  BY <1>1, <1>2, NewTalk
<1>4. OneDirect'
  BY <1>1, <1>3 DEF ChatInv, OneDirect
<1>5. \A v, w : DirectOf(v, w)' \subseteq DirectOf(v, w)
  BY <1>3 DEF DirectOf
<1>6. ASSUME NEW p \in ChatRequests PROVE InChat(p, chatWork[p])'
  <2>1. PICK w \in ChatWork : w = chatWork[p] /\ w = chatWork'[p] /\ InChat(p, w)
    BY <1>1 DEF ChatInv, ChatTypeOK
  <2>2. w.op = "send" =>
           /\ message'[w.message].at = message[w.message].at
           /\ \A r \in ChatRequests \ {p} : chatWork'[r].message # w.message
    BY <1>1, <2>1 DEF InChat
  <2>3. w.op = "direct" => w.late \/ DirectOf(w.by, w.other)' = {}
    BY <1>5, <2>1 DEF InChat
  <2> QED BY <1>3, <2>1, <2>2, <2>3, InChatLasts
<1> QED BY <1>3, <1>4, <1>6 DEF ChatInv, Grows

\* A direct conversation is a twin, or there was none of these two; those who found
\* none know that they are late.
LEMMA CreatesDirectStep ==
    ASSUME ChatInv, NEW q \in ChatRequests, NEW c \in Conversations, CreatesDirect(q, c)
    PROVE  ChatInv'
<1> DEFINE v == chatWork[q]
           pair == {v.by, v.other}
           late(p) == chatWork[p].late \/ (chatWork[p].op = "direct" /\ SamePair(p, q))
<1>1. /\ v \in ChatWork /\ InChat(q, v) /\ v.op = "direct" /\ ~Begun(c)
      /\ conversation' = [conversation EXCEPT ![c] = Created("DIRECT", pair, v.by)]
      /\ twins' = IF v.late THEN twins \cup {c} ELSE twins
      /\ chatWork' = [p \in ChatRequests |-> IF p = q THEN NoChat
            ELSE [chatWork[p] EXCEPT !.late = late(p)]]
      /\ UNCHANGED <<reachable, message, notice, clock, chatCalls, caught>>
  BY DEF CreatesDirect, Begun, ChatInv, ChatTypeOK
<1>2. v.by \in Users /\ v.other \in Users /\ (v.late \/ DirectOf(v.by, v.other) = {})
  BY <1>1 DEF InChat
<1>3. \A p \in ChatRequests : LET x == [chatWork[p] EXCEPT !.late = late(p)] IN
        /\ x \in ChatWork /\ x.op = chatWork[p].op /\ x.at = chatWork[p].at /\ x.by = chatWork[p].by
        /\ x.other = chatWork[p].other /\ x.conversation = chatWork[p].conversation
        /\ x.message = chatWork[p].message /\ x.date = chatWork[p].date /\ x.late = late(p)
  <2>1. ASSUME NEW p \in ChatRequests PROVE late(p) \in BOOLEAN /\ chatWork[p] \in ChatWork
    BY DEF ChatInv, ChatTypeOK, ChatWork
  <2> HIDE DEF late
  <2> QED BY <2>1 DEF ChatWork
<1>4. /\ chatWork'[q] = NoChat
      /\ \A p \in ChatRequests \ {q} : chatWork'[p] = [chatWork[p] EXCEPT !.late = late(p)]
      /\ chatWork' \in [ChatRequests -> ChatWork]
  BY <1>1, <1>3, NoChatInHand
<1>5. /\ chatCalls' \in 0 .. MaxChatCalls /\ twins' \in SUBSET Conversations /\ twins \subseteq twins'
      /\ pair \in SUBSET Users
  BY <1>1, <1>2 DEF ChatInv, ChatTypeOK
<1>6. /\ Grows /\ MessageInv' /\ Peopled' /\ ReadInPast'
      /\ conversation'[c].type = "DIRECT" /\ conversation'[c].participants = pair
      /\ \A d \in Conversations \ {c} : conversation'[d] = conversation[d]
  BY <1>1, <1>2, <1>4, <1>5, NewTalk
<1>7. OneDirect'
  <2>1. \A d \in Conversations \ {c} :
          conversation[d].type = "DIRECT" /\ conversation[d].participants = pair => c \in twins'
    BY <1>1, <1>2 DEF DirectOf
  <2> QED BY <1>5, <1>6, <2>1 DEF ChatInv, OneDirect
<1>8. ASSUME NEW p \in ChatRequests PROVE InChat(p, chatWork[p])'
  <2>1. CASE p = q
    BY <1>4, <2>1, NoChatInHand
  <2>2. CASE p # q
    <3>1. PICK w \in ChatWork :
            /\ w = chatWork'[p] /\ w.op = chatWork[p].op /\ w.at = chatWork[p].at
            /\ w.by = chatWork[p].by /\ w.other = chatWork[p].other
            /\ w.conversation = chatWork[p].conversation /\ w.message = chatWork[p].message
            /\ w.date = chatWork[p].date /\ w.late = late(p)
      BY <1>3, <1>4, <2>2
    <3>2. InChat(p, chatWork[p])
      BY DEF ChatInv
    <3>3. w.late = FALSE => ~chatWork[p].late /\ (w.op = "direct" => {w.by, w.other} # pair)
      BY <3>1 DEF SamePair
    <3>4. w.op = "direct" /\ w.late = FALSE => DirectOf(w.by, w.other) = {}
      BY <3>1, <3>2, <3>3 DEF InChat
    <3>5. w.late \in BOOLEAN
      BY DEF ChatWork
    <3> HIDE DEF late, pair
    <3>6. InChat(p, w)
      BY <3>1, <3>2, <3>4, <3>5 DEF InChat
    <3>7. w.op = "direct" => w.late \/ DirectOf(w.by, w.other)' = {}
      BY <1>6, <3>3, <3>4, <3>5 DEF DirectOf
    <3>8. w.op = "send" =>
             /\ message'[w.message].at = message[w.message].at
             /\ \A r \in ChatRequests \ {p} : chatWork'[r].message # w.message
      <4>1. \A r \in ChatRequests : chatWork'[r].message \in {chatWork[r].message, "none"}
        BY <1>3, <1>4, NoChatInHand
      <4> QED BY <1>1, <3>6, <4>1, ChatAssumption DEF InChat
    <3> QED BY <1>6, <3>1, <3>6, <3>7, <3>8, InChatLasts
  <2> QED BY <2>1, <2>2
<1> QED BY <1>6, <1>7, <1>8 DEF ChatInv, Grows

\* A restart ends every request, and brings the administrators into groups.
LEMMA RestartsStep ==
    ASSUME ChatInv, NEW join \in BOOLEAN, Restarts(join)
    PROVE  ChatInv'
<1>1. /\ conversation' = [c \in Conversations |->
            IF join /\ conversation[c].type = "GROUP" /\ RhResponsable(conversation[c].participants)
            THEN [conversation[c] EXCEPT !.participants = conversation[c].participants \cup Admins]
            ELSE conversation[c]]
      /\ message' = Lost(ChatRequests) /\ chatWork' = [q \in ChatRequests |-> NoChat]
      /\ ChatCounts /\ UNCHANGED <<reachable, notice, clock, caught, twins>>
  BY DEF Restarts
<1>2. /\ message' \in [Messages -> Message]
      /\ \A m \in Messages : /\ Live(m)' => Live(m)
                              /\ message'[m].createdAt = message[m].createdAt
                              /\ message'[m].conversation = message[m].conversation
  BY <1>1, LostLeaves
<1>3. Admins \in SUBSET Users
  BY DEF Admins, ChatInv, ChatTypeOK
<1>4. \A c \in Conversations : LET x == [conversation[c] EXCEPT
                                          !.participants = conversation[c].participants \cup Admins] IN
        /\ conversation[c] \in Conversation
        /\ x \in Conversation /\ x.type = conversation[c].type /\ x.lastReadAt = conversation[c].lastReadAt
  BY <1>3 DEF ChatInv, ChatTypeOK, Conversation
<1>5. \A c \in Conversations :
        /\ conversation'[c] \in Conversation
        /\ conversation'[c].type = conversation[c].type
        /\ conversation'[c].lastReadAt = conversation[c].lastReadAt
        /\ conversation'[c].participants = conversation[c].participants \/ conversation[c].type = "GROUP"
  BY <1>1, <1>4
<1>6. conversation' \in [Conversations -> Conversation]
  BY <1>1, <1>5
<1>7. ChatTypeOK'
  BY <1>1, <1>2, <1>6, NoChatInHand, ChatAssumption DEF ChatInv, ChatTypeOK, ChatCounts
<1>8. MessageInv'
  BY <1>1, <1>2, <1>5 DEF MessageInv, Begun, ChatInv
<1>9. Peopled' /\ ReadInPast' /\ OneDirect'
  BY <1>1, <1>5 DEF ChatInv, Peopled, Begun, ReadInPast, OneDirect
<1>10. \A q \in ChatRequests : InChat(q, chatWork[q])'
  BY <1>1, NoChatInHand
<1> QED BY <1>7, <1>8, <1>9, <1>10 DEF ChatInv

\* Every step keeps the invariant.
LEMMA ChatStep == ChatInv /\ [ChatNext]_chatVars => ChatInv'
BY QuietSteps, BeginsChatSteps, CreatesDirectStep, CreatesGroupStep, BeginsSendStep, InsertsStep,
   DatesStep, MarksStep, NotifiesStep, ChatFailsStep, RestartsStep DEF ChatNext

\* The invariant always holds.
LEMMA ChatInvHolds == ChatSpec => []ChatInv
BY ChatInvInit, ChatStep, PTL DEF ChatSpec

\* Every conversation, message, notification and request keeps its type.
THEOREM ChatTypeCorrect == ChatSpec => []ChatTypeOK
<1>1. ChatInv => ChatTypeOK
  BY DEF ChatInv
<1> QED BY <1>1, ChatInvHolds, PTL

\* For any users, messages and requests at once, a message counts as unread until its
\* reader has caught it, but for one dated of the millisecond of his reading, and two
\* users have one direct conversation, but for twins (conversations, createDirect).
THEOREM ChatsAreKept == ChatSpec => []ChatIsKept
<1>1. ChatInv => UnreadIsKept
  <2>1. SUFFICES ASSUME ChatInv, NEW m \in Messages, message[m].at = "there",
                        NEW u \in conversation[message[m].conversation].participants \ {message[m].of},
                        <<m, u>> \notin caught
                 PROVE  \/ Counted(u, m)
                        \/ message[m].createdAt = conversation[message[m].conversation].lastReadAt[u]
    BY DEF UnreadIsKept
  <2>2. message[m].conversation \in Conversations
    BY <2>1 DEF ChatInv, MessageInv, Live
  <2>3. u \in Users
    BY <2>1, <2>2 DEF ChatInv, ChatTypeOK, Conversation
  <2>4. conversation[message[m].conversation].lastReadAt[u] <= message[m].createdAt
    BY <2>1, <2>3 DEF ChatInv, MessageInv, Live
  <2>5. message[m].createdAt \in Nat /\ conversation[message[m].conversation].lastReadAt[u] \in Nat
    BY <2>1, <2>2, <2>3, ChatAssumption DEF ChatInv, ChatTypeOK, Conversation, Message, Times
  <2> QED BY <2>1, <2>4, <2>5 DEF Counted
<1>2. ChatInv => ChatIsKept
  BY <1>1 DEF ChatInv, ChatIsKept
<1> QED BY <1>2, ChatInvHolds, PTL
=============================================================================
