---------------------------- MODULE Organisation ----------------------------
(***************************************************************************)
(* OrgService, src/apps/api/src/org/org.service.ts: the groups of the      *)
(* sub-units, with their creation, edits and deletions submitted to the    *)
(* approvers, and the membership of the employees, moved directly or by a  *)
(* change an approver decides.                                             *)
(*                                                                         *)
(* A request reads rows, awaits the database, and writes what its reading  *)
(* decided, by id; the requests of several users interleave.  A unit is    *)
(* deleted like a sub-unit, with all it contains.                          *)
(***************************************************************************)
EXTENDS Naturals, Sequences, FiniteSets

CONSTANTS
    Groups, SubUnits, Staff,  \* ids, of which some may be in use at first
    Changes,     \* ids of membership changes
    Requests,    \* requests under way at once
    None,        \* null
    MaxEvents    \* bound on the requests, and on the changes of the planning

ASSUME NullAssumption ==
    None \notin Groups \cup SubUnits \cup Staff \cup Changes \cup Requests
ASSUME BoundsAssumption == MaxEvents \in Nat

VARIABLES
    subUnits,    \* the sub-units that exist
    group,       \* groups
    member,      \* employees.group_id
    planned,     \* groups whose planning has approved assignments
    change,      \* group_membership_changes
    events,      \* requests and planning changes so far
    work         \* what each request has read and has to write

data == <<subUnits, group, member, planned, change>>
orgVars == <<data, events, work>>

-----------------------------------------------------------------------------
\* The n-th name submitted; 0 is the first name of a group, or no pending name.
Names == 0 .. MaxEvents

Group == [status : {"unborn", "PENDING", "APPROVED", "REJECTED", "deleted"},
          subUnit : SubUnits \cup {None},
          name : Names, pendingName : Names, pendingDelete : BOOLEAN]

Change == [status : {"unborn", "PENDING", "APPROVED", "REJECTED"},
           of : Staff \cup {None}, from : Groups \cup {None}, to : Groups \cup {None}]

Work == [op : {"none", "edit", "delete", "approve", "reject", "drop", "move",
               "accept", "refuse", "refresh"},
         by : {"staff", "planner", "approver"},
         at : {"writing", "statuses", "counting", "submitting"},
         target : Groups \cup SubUnits \cup Changes \cup {None},
         force : BOOLEAN, name : Names, seen : Group,
         who : SUBSET Staff,                      \* the employees it is about
         from : [Staff -> Groups \cup {None}],    \* where it read they are
         to : Groups \cup SubUnits \cup {None},
         ids : SUBSET Groups,
         todo : Seq(Groups),                      \* groups left to refresh
         idle : {"unread", "yes", "no"}, quiet : {"unread", "yes", "no"},
         since : SUBSET (Groups \cup Staff \cup Changes)]
                       \* changed by others since it was read (a history)

Row(status, subUnit) == [status |-> status, subUnit |-> subUnit,
    name |-> 0, pendingName |-> 0, pendingDelete |-> FALSE]
NoChange == [status |-> "unborn", of |-> None, from |-> None, to |-> None]
NoChanges == [c \in Changes |-> NoChange]
Free == [op |-> "none", by |-> "staff", at |-> "writing", target |-> None,
    force |-> FALSE, name |-> 0, seen |-> Row("unborn", None), who |-> {},
    from |-> [e \in Staff |-> None], to |-> None, ids |-> {}, todo |-> <<>>,
    idle |-> "unread", quiet |-> "unread", since |-> {}]

Exists(g) == group[g].status \notin {"unborn", "deleted"}
Existing == {g \in Groups : Exists(g)}
Members(g) == {e \in Staff : member[e] = g}
In(s) == {g \in Groups : Exists(g) /\ group[g].subUnit = s}
Naming(g) == {c \in Changes : g \in {change[c].from, change[c].to}}

OrgTypeOK ==
    /\ subUnits \in SUBSET SubUnits
    /\ group \in [Groups -> Group]
    /\ member \in [Staff -> Existing \cup {None}]
    /\ planned \in SUBSET Existing
    /\ change \in [Changes -> Change]
    /\ events \in 0 .. MaxEvents
    /\ work \in [Requests -> Work]

\* Groups and a membership change waiting, or not, for their approval.
OrgInit ==
    /\ subUnits = SubUnits
    /\ group \in [Groups -> {Row("unborn", None)} \cup
          UNION {{Row("PENDING", s), Row("APPROVED", s),
                  [Row("PENDING", s) EXCEPT !.pendingDelete = TRUE]} : s \in SubUnits}]
    /\ member \in [Staff -> Existing \cup {None}]
    /\ planned \in SUBSET {g \in Groups : group[g].status = "APPROVED"}
    /\ \E c \in Changes, e \in Staff, to \in Existing \cup {None} :
          change = [NoChanges EXCEPT ![c] = IF to = member[e] THEN NoChange ELSE
              [status |-> "PENDING", of |-> e, from |-> member[e], to |-> to]]
    /\ events = 0
    /\ work = [r \in Requests |-> Free]

-----------------------------------------------------------------------------
Counts == events < MaxEvents /\ events' = events + 1

\* The requests under way note what somebody else changed (a history).
Noted(r, S) ==
    [q \in Requests |-> IF q # r /\ work[q].op # "none"
        THEN [work[q] EXCEPT !.since = @ \cup S] ELSE work[q]]

Begins(r, w) ==
    /\ work[r].op = "none"
    /\ Counts
    /\ work' = [work EXCEPT ![r] = w]
    /\ UNCHANGED data

Ends(r, S) == work' = [Noted(r, S) EXCEPT ![r] = Free] /\ UNCHANGED events

\* Before its first write a request that fails has changed nothing: it stays
\* where it is.  Afterwards there is the refresh to lose.
Fails(r) == work[r].op = "refresh" /\ Ends(r, {}) /\ UNCHANGED data

\* The submissions, decisions and erasures of the planning (ShiftPlanning).
PlanningChanges(g) ==
    /\ Exists(g) /\ Counts
    /\ planned' = IF g \in planned THEN planned \ {g} ELSE planned \cup {g}
    /\ work' = Noted(None, {g})
    /\ UNCHANGED <<subUnits, group, member, change>>

-----------------------------------------------------------------------------
(* Groups                                                                  *)

CreateGroup(g, s, by) ==
    /\ group[g].status = "unborn" /\ s \in subUnits
    /\ group' = [group EXCEPT ![g] =
            Row(IF by = "approver" THEN "APPROVED" ELSE "PENDING", s)]
    /\ Counts /\ work' = Noted(None, {g})
    /\ UNCHANGED <<subUnits, member, planned, change>>

\* A new name or none, another sub-unit or none (ensureGroupAccess, the read).
BeginsEdit(r, g, by) ==
    /\ Exists(g)
    /\ \E name \in {0, events + 1}, s \in subUnits \cup {None} :
          Begins(r, [Free EXCEPT !.op = "edit", !.by = by, !.target = g,
                       !.seen = group[g], !.name = name, !.to = s])

Given(value, default, nothing) == IF value = nothing THEN default ELSE value

Submitted(row, name, delete) ==
    [row EXCEPT !.status = "PENDING", !.pendingName = name, !.pendingDelete = delete]

Settled(row, status) ==
    [row EXCEPT !.status = status, !.pendingName = 0, !.pendingDelete = FALSE]

Edited(row, name, subUnit) ==
    [Settled(row, "APPROVED") EXCEPT !.name = name, !.subUnit = subUnit]

\* The approver's edit is written at once; the others' waits, with the pending
\* name that was read when it brings none.
WritesEdit(r) ==
    /\ work[r].op = "edit" /\ Exists(work[r].target)
    /\ LET w == work[r]  row == group[w.target] IN
        /\ w.to \in subUnits \cup {None}
        /\ group' = [group EXCEPT ![w.target] =
             IF w.by = "approver"
             THEN Edited(row, Given(w.name, row.name, 0), Given(w.to, row.subUnit, None))
             ELSE Submitted(row, Given(w.name, w.seen.pendingName, 0), FALSE)]
        /\ Ends(r, {w.target})
    /\ UNCHANGED <<subUnits, member, planned, change>>

\* Foreign keys: the members leave, the changes and the planning forget it.
Erase(S) ==
    LET keep(g) == IF g \in S THEN None ELSE g IN
    /\ group' = [g \in Groups |-> IF g \in S THEN Row("deleted", None) ELSE group[g]]
    /\ member' = [e \in Staff |-> keep(member[e])]
    /\ change' = [c \in Changes |-> [change[c] EXCEPT !.from = keep(@), !.to = keep(@)]]
    /\ planned' = planned \ S

ErasedWith(S) == S \cup {e \in Staff : member[e] \in S} \cup UNION {Naming(g) : g \in S}

Refused(force, content) == ~force /\ content # {}

BeginsDelete(r, g, by, force) ==
    /\ Exists(g)
    /\ by = "approver" => ~Refused(force, Members(g))
    /\ Begins(r, [Free EXCEPT !.op = "delete", !.by = by, !.target = g,
                    !.force = force /\ by = "approver"])

WritesDelete(r) ==
    /\ work[r].op = "delete" /\ Exists(work[r].target)
    /\ LET g == work[r].target IN
        \/ /\ work[r].by = "approver"
           /\ Erase({g}) /\ Ends(r, ErasedWith({g}))
        \/ /\ work[r].by # "approver"
           /\ group' = [group EXCEPT ![g] = Submitted(@, 0, TRUE)]
           /\ Ends(r, {g})
           /\ UNCHANGED <<member, planned, change>>
    /\ UNCHANGED subUnits

\* deleteUnit, deleteSubUnit: refused unless forced when groups were read.
BeginsDrop(r, s, force) ==
    /\ s \in subUnits /\ ~Refused(force, In(s))
    /\ Begins(r, [Free EXCEPT !.op = "drop", !.target = s, !.force = force])

Drops(r) ==
    /\ work[r].op = "drop" /\ work[r].target \in subUnits
    /\ subUnits' = subUnits \ {work[r].target}
    /\ Erase(In(work[r].target)) /\ Ends(r, ErasedWith(In(work[r].target)))

\* approveGroup, rejectGroup: whatever the status of the group.
BeginsReview(r, g, op) ==
    /\ Exists(g)
    /\ Begins(r, [Free EXCEPT !.op = op, !.by = "approver", !.target = g,
                    !.seen = IF op = "approve" THEN group[g] ELSE @])

Approves(r) ==
    /\ work[r].op = "approve" /\ Exists(work[r].target)
    /\ LET w == work[r] IN
        \/ /\ w.seen.pendingDelete
           /\ Erase({w.target}) /\ Ends(r, ErasedWith({w.target}))
        \/ /\ ~w.seen.pendingDelete
           /\ group' = [group EXCEPT ![w.target] = [Settled(@, "APPROVED") EXCEPT
                           !.name = Given(w.seen.pendingName, w.seen.name, 0)]]
           /\ Ends(r, {w.target})
           /\ UNCHANGED <<member, planned, change>>
    /\ UNCHANGED subUnits

Rejects(r) ==
    /\ work[r].op = "reject" /\ Exists(work[r].target)
    /\ group' = [group EXCEPT ![work[r].target] = Settled(@, "REJECTED")]
    /\ Ends(r, {work[r].target})
    /\ UNCHANGED <<subUnits, member, planned, change>>

-----------------------------------------------------------------------------
(* moveEmployee, moveEmployees                                             *)

Moved(w) == {e \in w.who : w.from[e] # w.to}

BeginsMove(r, who, to, by) ==
    /\ to \in Existing \cup {None}
    /\ LET w == [Free EXCEPT !.op = "move", !.by = by, !.who = who, !.to = to,
                   !.from = [e \in Staff |-> IF e \in who THEN member[e] ELSE None],
                   !.at = IF by = "staff" THEN "statuses" ELSE "writing"]
       IN Moved(w) # {} /\ Begins(r, w)

\* Mutant of Concerned: the groups the employees leave are forgotten.
MutConcerned(w) == {w.to} \ {None}

Concerned(w) == ({w.from[e] : e \in Moved(w)} \cup {w.to}) \ {None}

\* requiresMembershipApproval: the groups approved, then their planning.
ReadsStatuses(r) ==
    /\ work[r].op = "move" /\ work[r].at = "statuses"
    /\ LET approved == {g \in Concerned(work[r]) : group[g].status = "APPROVED"} IN
       work' = [work EXCEPT ![r].ids = approved,
                            ![r].at = IF approved = {} THEN "writing" ELSE "counting"]
    /\ UNCHANGED <<data, events>>

CountsPlanning(r) ==
    /\ work[r].op = "move" /\ work[r].at = "counting"
    /\ work' = [work EXCEPT ![r].ids = {},
          ![r].at = IF work[r].ids \cap planned = {} THEN "writing" ELSE "submitting"]
    /\ UNCHANGED <<data, events>>

\* createMany: one change each, whose groups still exist (foreign keys).
Submits(r) ==
    /\ work[r].op = "move" /\ work[r].at = "submitting"
    /\ Concerned(work[r]) \subseteq Existing
    /\ LET w == work[r] IN
       \E id \in [Moved(w) -> {c \in Changes : change[c].status = "unborn"}] :
        /\ \A d, e \in Moved(w) : id[d] = id[e] => d = e
        /\ change' = [c \in Changes |->
             IF \E e \in Moved(w) : id[e] = c
             THEN LET e == CHOOSE e \in Moved(w) : id[e] = c IN
                  [status |-> "PENDING", of |-> e, from |-> w.from[e], to |-> w.to]
             ELSE change[c]]
        /\ Ends(r, {id[e] : e \in Moved(w)})
    /\ UNCHANGED <<subUnits, group, member, planned>>

\* updateMany: all of them, those who were already there included.
Moves(r) ==
    /\ work[r].op = "move" /\ work[r].at = "writing"
    /\ work[r].to \in Existing \cup {None}
    /\ member' = [e \in Staff |-> IF e \in work[r].who THEN work[r].to ELSE member[e]]
    /\ Ends(r, work[r].who)
    /\ UNCHANGED <<subUnits, group, planned, change>>

-----------------------------------------------------------------------------
(* approveMembershipChange ("accept"), rejectMembershipChange ("refuse")   *)

\* Mutant of Decidable: a decided change is not refused.
MutDecidable(c) == change[c].status # "unborn"

Decidable(c) == change[c].status = "PENDING"

BeginsDecision(r, c, op) ==
    /\ Decidable(c)
    /\ Begins(r, [Free EXCEPT !.op = op, !.by = "approver", !.target = c,
          !.who = {change[c].of}, !.to = change[c].to,
          !.from = [e \in Staff |-> IF e = change[c].of THEN change[c].from ELSE None]])

Named(g) == IF g = None THEN <<>> ELSE <<g>>

\* What refreshMembershipGroupStatuses has left to do.
Refresh(r, todo, S) ==
    /\ work' = [Noted(r, S) EXCEPT ![r] =
          IF todo = <<>> THEN Free ELSE [Free EXCEPT !.op = "refresh", !.todo = todo]]
    /\ UNCHANGED events

Decides(r) ==
    /\ work[r].op \in {"accept", "refuse"}
    /\ LET w == work[r]
           e == CHOOSE e \in Staff : e \in w.who
           todo == Named(w.from[e]) \o Named(w.to)
       IN \/ /\ w.op = "accept" /\ w.to \in Existing \cup {None}
             /\ member' = [member EXCEPT ![e] = w.to]
             /\ change' = [change EXCEPT ![w.target].status = "APPROVED"]
             /\ Refresh(r, todo, {e, w.target})
          \/ /\ w.op = "refuse"
             /\ change' = [change EXCEPT ![w.target].status = "REJECTED"]
             /\ Refresh(r, todo, {w.target})
             /\ UNCHANGED member
    /\ UNCHANGED <<subUnits, group, planned>>

AwaitsNothing(g) ==
    group[g].status = "PENDING" /\ group[g].pendingName = 0 /\ ~group[g].pendingDelete

Answer(b) == IF b THEN "yes" ELSE "no"

\* The two queries of Promise.all, in either order.
ReadsGroup(r) ==
    /\ work[r].op = "refresh" /\ work[r].idle = "unread"
    /\ work' = [work EXCEPT ![r].idle = Answer(AwaitsNothing(Head(work[r].todo)))]
    /\ UNCHANGED <<data, events>>

CountsPending(r) ==
    /\ work[r].op = "refresh" /\ work[r].quiet = "unread"
    /\ work' = [work EXCEPT ![r].quiet = Answer(
          \A c \in Naming(Head(work[r].todo)) : change[c].status # "PENDING")]
    /\ UNCHANGED <<data, events>>

Refreshes(r) ==
    /\ work[r].op = "refresh"
    /\ work[r].idle = "yes" /\ work[r].quiet = "yes"
    /\ LET g == Head(work[r].todo) IN
        /\ Exists(g)
        /\ group' = [group EXCEPT ![g].status = "APPROVED"]
        /\ Refresh(r, Tail(work[r].todo), {g})
    /\ UNCHANGED <<subUnits, member, planned, change>>

SkipsGroup(r) ==
    /\ work[r].op = "refresh"
    /\ "unread" \notin {work[r].idle, work[r].quiet}
    /\ "no" \in {work[r].idle, work[r].quiet}
    /\ Refresh(r, Tail(work[r].todo), {})
    /\ UNCHANGED data

-----------------------------------------------------------------------------
Roles == {"staff", "approver"}

OrgNext ==
    \/ \E g \in Groups : PlanningChanges(g)
    \/ \E g \in Groups, s \in SubUnits, by \in Roles : CreateGroup(g, s, by)
    \/ \E r \in Requests, g \in Groups, by \in Roles : BeginsEdit(r, g, by)
    \/ \E r \in Requests, g \in Groups, by \in Roles, force \in BOOLEAN :
          BeginsDelete(r, g, by, force)
    \/ \E r \in Requests, g \in Groups, op \in {"approve", "reject"} :
          BeginsReview(r, g, op)
    \/ \E r \in Requests, s \in SubUnits, force \in BOOLEAN : BeginsDrop(r, s, force)
    \/ \E r \in Requests : WritesEdit(r) \/ WritesDelete(r) \/ Drops(r)
    \/ \E r \in Requests : Approves(r) \/ Rejects(r)
    \/ \E r \in Requests, who \in (SUBSET Staff) \ {{}}, to \in Groups \cup {None},
          by \in Roles \cup {"planner"} : BeginsMove(r, who, to, by)
    \/ \E r \in Requests : ReadsStatuses(r) \/ CountsPlanning(r)
    \/ \E r \in Requests : Submits(r) \/ Moves(r)
    \/ \E r \in Requests, c \in Changes, op \in {"accept", "refuse"} :
          BeginsDecision(r, c, op)
    \/ \E r \in Requests : Decides(r)
    \/ \E r \in Requests : ReadsGroup(r) \/ CountsPending(r)
    \/ \E r \in Requests : Refreshes(r) \/ SkipsGroup(r)
    \/ \E r \in Requests : Fails(r)

OrgSpec == OrgInit /\ [][OrgNext]_orgVars

-----------------------------------------------------------------------------
(* Properties                                                              *)

\* A membership change is decided once, but for a decision that had read it
\* before the other one (approveMembershipChange, rejectMembershipChange).
DecidedOnce ==
    [][\A c \in Changes : change[c].status \in {"APPROVED", "REJECTED"} =>
        \/ change'[c].status = change[c].status
        \/ \E r \in Requests :
              Decides(r) /\ work[r].target = c /\ c \in work[r].since]_orgVars

\* Approved, with an approved planning: the members are an approver's to change.
Protected(g) == g # None /\ group[g].status = "APPROVED" /\ g \in planned

\* An employee changes group with the group, by the approval of a change that
\* was pending, or by a move of somebody who may: anybody if neither group is
\* protected; unless what the request had read changed (moveEmployee(s)).
MoveIsEntitled(e) ==
    LET from == member[e]  to == member'[e] IN from # to =>
        \/ to = None /\ group'[from].status = "deleted"
        \/ \E r \in Requests :
              /\ Decides(r) /\ work[r].op = "accept" /\ e \in work[r].who
              /\ LET c == work[r].target IN
                  (change[c].status = "PENDING" /\ change[c].to = to) \/ c \in work[r].since
        \/ \E r \in Requests :
              /\ Moves(r) /\ e \in work[r].who /\ work[r].to = to
              /\ \/ work[r].by # "staff"
                 \/ ~Protected(from) /\ ~Protected(to)
                 \/ {e, from, to} \cap work[r].since # {}

MovesAreEntitled == [][\A e \in Staff : MoveIsEntitled(e)]_orgVars

By(r, op, g) == work[r].op = op /\ work[r].target = g /\ work[r].by = "approver"

\* A group is renamed, approved or rid of what was submitted of it by an approver
\* only: his own edit, or a review of what it says now unless it was overtaken; the
\* refresh after a decision approves a group that waits for nothing, same exception.
SubmissionIsReviewed(g) ==
    LET old == group[g]  new == group'[g] IN
        Exists(g) /\ new.status # "deleted" =>
        /\ new.name # old.name => \E r \in Requests :
              \/ WritesEdit(r) /\ By(r, "edit", g)
              \/ /\ Approves(r) /\ By(r, "approve", g)
                 /\ new.name = Given(old.pendingName, old.name, 0) \/ g \in work[r].since
        /\ old.pendingName # 0 /\ new.pendingName = 0 /\ ~new.pendingDelete =>
              \E r \in Requests :
                \/ /\ WritesEdit(r) /\ work[r].target = g
                   /\ work[r].by = "approver" \/ g \in work[r].since
                \/ Rejects(r) /\ By(r, "reject", g)
                \/ /\ Approves(r) /\ By(r, "approve", g)
                   /\ new.name = old.pendingName \/ g \in work[r].since
        /\ old.status # "APPROVED" /\ new.status = "APPROVED" => \E r \in Requests :
              \/ WritesEdit(r) /\ By(r, "edit", g)
              \/ Approves(r) /\ By(r, "approve", g)
              \/ /\ Refreshes(r) /\ Head(work[r].todo) = g
                 /\ \/ /\ old.status = "PENDING"
                       /\ old.pendingName = 0 /\ ~old.pendingDelete
                       /\ \A c \in Naming(g) : change[c].status # "PENDING"
                    \/ ({g} \cup Naming(g)) \cap work[r].since # {}

SubmissionsAreReviewed == [][\A g \in Groups : SubmissionIsReviewed(g)]_orgVars

\* A group disappears when it or its sub-unit is deleted by force, when a review
\* finds its deletion asked for, or empty, but for the employees who joined (the
\* groups that came) since it was read (deleteGroup, approveGroup, deleteSubUnit).
GoesAsAsked(g) ==
    Exists(g) /\ group'[g].status = "deleted" =>
        \E r \in Requests :
          \/ /\ WritesDelete(r) /\ By(r, "delete", g)
             /\ work[r].force \/ Members(g) \subseteq work[r].since
          \/ /\ Approves(r) /\ By(r, "approve", g)
             /\ group[g].pendingDelete \/ g \in work[r].since
          \/ /\ Drops(r) /\ work[r].target = group[g].subUnit
             /\ work[r].force \/ g \in work[r].since

DeletionIsAsked == [][\A g \in Groups : GoesAsAsked(g)]_orgVars

\* Whoever moves, renames, approves or deletes may do so, on what is there.
ChangesAreEntitled == MovesAreEntitled /\ SubmissionsAreReviewed /\ DeletionIsAsked
=============================================================================
