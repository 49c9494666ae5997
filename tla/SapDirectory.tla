---------------------------- MODULE SapDirectory ----------------------------
(***************************************************************************)
(* The directory of SAP and its links with the employees of BioTime:       *)
(* SapDirectoryService (sap/sap-directory.service.ts: refresh,             *)
(* linkManually) and SapMatchingService (sap/sap-matching.service.ts:      *)
(* runAutoMatching, confirm, reject, relink), with the matricule the staff *)
(* type in EmployeesService (updateLocalMatricule).                        *)
(*                                                                         *)
(* Three tables say who is who: the rows of the directory (link), the      *)
(* mappings HR confirmed (confirmed) and the matricules (matricule).  A    *)
(* refresh reads the last two and writes the first, row by row, then       *)
(* reconciles the matricules; staff and automatic matching write the last  *)
(* two meanwhile.                                                          *)
(***************************************************************************)
EXTENDS Naturals

CONSTANTS
    Employees,   \* employees of BioTime
    Records,     \* identifiers of SAP (empID), which are matricules as well
    Keys,        \* those, and the codes of BioTime
    None,
    Handlers,    \* refreshes, matchings and decisions under way at once
    MaxRequests, \* bound on the requests
    Codes,       \* Codes[e]: zktecoId, biotimeCode and employeeCode of e
    Badge,       \* Badge[s]: the code of BioTime that SAP gives s (biotimeId), if any
    Named,       \* Named[s]: the only employee with the name or phone of s
    Alike,       \* pairs with the same name and the same phone
    Partly       \* pairs with the same name or the same phone only

ASSUME SapAssumption ==
    /\ MaxRequests \in Nat
    /\ None \notin Employees \cup Keys \cup Handlers
    /\ Records \subseteq Keys
    /\ Employees \cap Records = {}
    /\ Codes \in [Employees -> SUBSET Keys]
    /\ Badge \in [Records -> Keys \cup {None}]
    /\ Named \in [Records -> Employees \cup {None}]
    /\ Alike \in SUBSET (Employees \X Records)
    /\ Partly \in SUBSET (Employees \X Records)

VARIABLES
    rows,        \* sap_employee_directory: the records with a row,
    link,        \* the employee of each, and of those of an employee
    newest,      \* the one synchronised last (lastSyncedAt)
    confirmed,   \* employee_mappings: the employees confirmed for a record,
    latest,      \* and the one matched last (matchedAt)
    matricule,   \* employees.local_matricule
    call,        \* the local state of each handler
    asked        \* requests so far

directory == <<rows, link, newest>>
mappings == <<confirmed, latest>>
tables == <<directory, mappings, matricule>>
vars == <<tables, call, asked>>

-----------------------------------------------------------------------------
(* Types                                                                   *)

Call == [does : {"nothing", "refresh", "auto", "confirm", "relink"},
         at : {"idle", "mappings", "upserting", "reconciling", "matching",
               "chosen", "mapped"},
         list : SUBSET Records,                  \* what SAP has listed
         todo : SUBSET (Records \cup Employees), \* rows still to be written, or read
         found : [Records -> Employees \cup {None}],
         want : [Employees -> Keys \cup {None}],
         emp : Employees \cup {None},
         rec : Records \cup {None},
         stirred : SUBSET (Records \cup Employees)] \* written by others (a history)

Nobody == [s \in Records |-> None]
NoCode == [e \in Employees |-> None]

Free == [does |-> "nothing", at |-> "idle", list |-> {}, todo |-> {},
         found |-> Nobody, want |-> NoCode, emp |-> None, rec |-> None,
         stirred |-> {}]

\* The records of an employee.
RowsOf(e, links) == {s \in Records : links[s] = e}

\* The last one of each set: the last one before if it is still there, or else
\* any other, since the model forgets in which order the others came.
Lasts(sets, last, range) ==
    {l \in [DOMAIN sets -> range \cup {None}] :
        \A x \in DOMAIN sets :
            l[x] \in IF sets[x] = {} THEN {None}
                    ELSE IF last[x] \in sets[x] THEN {last[x]} ELSE sets[x]}

Newests(links) == Lasts([e \in Employees |-> RowsOf(e, links)], newest, Records)
Latests(sets) == Lasts(sets, latest, Employees)

DirectoryOK ==
    /\ rows \in SUBSET Records
    /\ link \in [Records -> Employees \cup {None}]
    /\ newest \in [Employees -> Records \cup {None}]
    /\ \A s \in Records : link[s] # None => s \in rows
    /\ \A e \in Employees : IF RowsOf(e, link) = {} THEN newest[e] = None
                           ELSE newest[e] \in RowsOf(e, link)

MappingsOK ==
    /\ confirmed \in [Records -> SUBSET Employees]
    /\ latest \in [Records -> Employees \cup {None}]
    /\ \A s \in Records : IF confirmed[s] = {} THEN latest[s] = None
                         ELSE latest[s] \in confirmed[s]

TypeOK ==
    /\ DirectoryOK
    /\ MappingsOK
    /\ matricule \in [Employees -> Keys \cup {None}]
    /\ call \in [Handlers -> Call]
    /\ asked \in 0 .. MaxRequests

-----------------------------------------------------------------------------
(* What the queries ask                                                    *)

\* Mutant of Reconciled: who has lost his record keeps its matricule.
MutReconciled(links, newests) ==
    [e \in Employees |->
        IF newests[e] # None THEN newests[e] ELSE matricule[e]]

\* reconcileLocalMatricules: the record synchronised last, or none in place of
\* a record linked to somebody else.
Reconciled(links, newests) ==
    [e \in Employees |->
        IF newests[e] # None THEN newests[e]
        ELSE IF matricule[e] \in Records /\ links[matricule[e]] # None THEN None
        ELSE matricule[e]]

ConfirmedOf(e) == {s \in Records : e \in confirmed[s]}

\* Who has a code: among those of BioTime, or as his matricule.
Holders(code) == {e \in Employees : code \in Codes[e] \/ matricule[e] = code}

\* employeeByBiotimeId: a code goes to the last of its holders that is read, and
\* the employees are read in no order.
Owners ==
    {o \in [Keys -> Employees \cup {None}] :
        \A k \in Keys : o[k] \in IF Holders(k) = {} THEN {None} ELSE Holders(k)}

\* Whom a record designates when no mapping is confirmed: by the code SAP gives
\* it, by its own identifier, by the name.
Designated(s, owner) ==
    IF Badge[s] # None /\ owner[Badge[s]] # None THEN owner[Badge[s]]
    ELSE IF owner[s] # None THEN owner[s]
    ELSE Named[s]

Findings(list) ==
    {[s \in Records |-> IF s \in list THEN Designated(s, owner) ELSE None] :
        owner \in Owners}

\* A directory as earlier refreshes and decisions may have left it, with the
\* matricules the staff have typed.
Init ==
    /\ rows \in SUBSET Records
    /\ link \in {l \in [Records -> Employees \cup {None}] :
                    \A s \in Records : l[s] # None => s \in rows}
    /\ newest \in {n \in [Employees -> Records \cup {None}] :
                      \A e \in Employees :
                          n[e] \in IF RowsOf(e, link) = {} THEN {None}
                                  ELSE RowsOf(e, link)}
    /\ confirmed \in {c \in [Records -> SUBSET Employees] :
                        \A s \in Records : c[s] \subseteq {link[s]}}
    /\ latest = [s \in Records |-> IF confirmed[s] = {} THEN None ELSE link[s]]
    /\ matricule \in [Employees -> Keys \cup {None}]
    /\ call = [h \in Handlers |-> Free]
    /\ asked = 0

-----------------------------------------------------------------------------
(* Handlers                                                                *)

\* The other handlers under way note what has been written (a history).
Stir(writer, things) ==
    [g \in Handlers |->
        IF g # writer /\ call[g].does \in {"refresh", "auto", "relink"}
        THEN [call[g] EXCEPT !.stirred = @ \cup things] ELSE call[g]]

Asks == asked < MaxRequests /\ asked' = asked + 1

MayBegin(h) == call[h].does = "nothing" /\ asked < MaxRequests

Begins(h, state) ==
    /\ MayBegin(h)
    /\ Asks
    /\ call' = [call EXCEPT ![h] = state]

In(h, does, at) == call[h].does = does /\ call[h].at = at

\* What h has to do once it has written, and who else has to know of it.
Goes(h, state, things) == call' = [Stir(h, things) EXCEPT ![h] = state]

-----------------------------------------------------------------------------
(* SapDirectoryService.refresh                                             *)

\* SAP lists what it holds by now; the employees are read after it.
RefreshReads(h) ==
    /\ MayBegin(h)
    /\ \E list \in SUBSET Records : \E found \in Findings(list) :
           Begins(h, [Free EXCEPT !.does = "refresh", !.at = "mappings",
                                  !.list = list, !.found = found])
    /\ UNCHANGED tables

\* Mutant of RefreshReadsMappings: the mappings come after codes and names.
MutRefreshReadsMappings(h) ==
    /\ In(h, "refresh", "mappings")
    /\ call' = [call EXCEPT
           ![h].at = "upserting",
           ![h].todo = call[h].list,
           ![h].found = [s \in Records |->
               IF s \in call[h].list /\ latest[s] # None /\ @[s] = None
               THEN latest[s] ELSE @[s]]]
    /\ UNCHANGED <<tables, asked>>

RefreshReadsMappings(h) ==
    /\ In(h, "refresh", "mappings")
    /\ call' = [call EXCEPT
           ![h].at = "upserting",
           ![h].todo = call[h].list,
           ![h].found = [s \in Records |->
               IF s \in call[h].list /\ latest[s] # None THEN latest[s]
               ELSE @[s]]]
    /\ UNCHANGED <<tables, asked>>

RefreshUpserts(h) ==
    \E s \in call[h].todo :
        LET e == call[h].found[s]
            links == [link EXCEPT ![s] = e]
        IN /\ In(h, "refresh", "upserting")
           /\ rows' = rows \cup {s}
           /\ link' = links
           /\ \E n \in Newests(links) :
                newest' = IF e = None THEN n ELSE [n EXCEPT ![e] = s]
           /\ Goes(h, [call[h] EXCEPT !.todo = @ \ {s}], {s})
           /\ UNCHANGED <<mappings, matricule, asked>>

RefreshReconciles(h) ==
    /\ In(h, "refresh", "upserting")
    /\ call[h].todo = {}
    /\ LET want == Reconciled(link, newest)
       IN call' = [call EXCEPT
              ![h].at = "reconciling",
              ![h].found = Nobody,
              ![h].want = want,
              ![h].todo = {e \in Employees : want[e] # matricule[e]}]
    /\ UNCHANGED <<tables, asked>>

RefreshNames(h) ==
    \E e \in call[h].todo :
        /\ In(h, "refresh", "reconciling")
        /\ matricule' = [matricule EXCEPT ![e] = call[h].want[e]]
        /\ Goes(h, [call[h] EXCEPT !.todo = @ \ {e}], {e})
        /\ UNCHANGED <<directory, mappings, asked>>

RefreshEnds(h) ==
    /\ In(h, "refresh", "reconciling")
    /\ call[h].todo = {}
    /\ call' = [call EXCEPT ![h] = Free]
    /\ UNCHANGED <<tables, asked>>

-----------------------------------------------------------------------------
(* SapDirectoryService.linkManually: one transaction                       *)

\* Mutant of Linked: the other records of the employee stay confirmed.
MutLinked(e, s) == [confirmed EXCEPT ![s] = {e}]

\* upsertConfirmedMapping
Linked(e, s) == [r \in Records |-> IF r = s THEN {e} ELSE confirmed[r] \ {e}]

LinkManually(e, s) ==
    LET links == [r \in Records |->
                    IF r = s THEN e ELSE IF link[r] = e THEN None ELSE link[r]]
    IN /\ s \in rows
       /\ Asks
       /\ link' = links
       /\ newest' \in Newests(links)
       /\ confirmed' = Linked(e, s)
       /\ latest' \in Latests(Linked(e, s))
       /\ matricule' = Reconciled(links, newest')
       /\ call' = Stir(None,
              {r \in Records : links[r] # link[r] \/ confirmed'[r] # confirmed[r]}
              \cup {s} \cup {d \in Employees : matricule'[d] # matricule[d]})
       /\ UNCHANGED rows

-----------------------------------------------------------------------------
(* SapMatchingService: confirm, relink, reject and runAutoMatching         *)

\* The record is listed in the cache, or proposed of the employee.
ConfirmReads(h) ==
    \E e \in Employees, s \in Records :
        /\ Begins(h, [Free EXCEPT !.does = "confirm", !.at = "chosen",
                                  !.emp = e, !.rec = s])
        /\ UNCHANGED tables

\* upsertMapping with the status confirmed.
Confirms(e, s) ==
    /\ confirmed' = [confirmed EXCEPT ![s] = @ \cup {e}]
    /\ latest' = [latest EXCEPT ![s] = e]

\* The mapping of e and s is confirmed no more.
Drops(e, s) ==
    LET left == [confirmed EXCEPT ![s] = @ \ {e}]
    IN confirmed' = left /\ latest' \in Latests(left)

ConfirmMaps(h) ==
    /\ In(h, "confirm", "chosen")
    /\ Confirms(call[h].emp, call[h].rec)
    /\ Goes(h, [call[h] EXCEPT !.at = "mapped"], {call[h].rec})
    /\ UNCHANGED <<directory, matricule, asked>>

\* applyConfirmedMatricule; a matching goes on with the next employee.
MatchNames(h) ==
    /\ call[h].at = "mapped"
    /\ matricule' = [matricule EXCEPT ![call[h].emp] = call[h].rec]
    /\ Goes(h, IF call[h].does = "confirm" THEN Free
               ELSE [call[h] EXCEPT !.at = "matching", !.emp = None, !.rec = None],
            {call[h].emp})
    /\ UNCHANGED <<directory, mappings, asked>>

RelinkReads(h) ==
    \E e \in Employees, s \in Records :
        /\ Begins(h, [Free EXCEPT !.does = "relink", !.at = "chosen",
                                  !.emp = e, !.rec = s, !.todo = ConfirmedOf(e)])
        /\ UNCHANGED tables

RelinkCommits(h) ==
    LET e == call[h].emp
        s == call[h].rec
        old == call[h].todo
        left == [r \in Records |->
                   IF r = s THEN confirmed[r] \cup {e}
                   ELSE IF r \in old THEN confirmed[r] \ {e} ELSE confirmed[r]]
    IN /\ In(h, "relink", "chosen")
       /\ confirmed' = left
       /\ \E l \in Latests(left) : latest' = [l EXCEPT ![s] = e]
       /\ matricule' = [matricule EXCEPT ![e] = s]
       /\ Goes(h, Free, old \cup {s, e})
       /\ UNCHANGED <<directory, asked>>

Reject(e, s) ==
    /\ e \in confirmed[s]
    /\ Asks
    /\ Drops(e, s)
    /\ call' = Stir(None, {s})
    /\ UNCHANGED <<directory, matricule>>

AutoReads(h) ==
    /\ Begins(h, [Free EXCEPT !.does = "auto", !.at = "matching",
                              !.todo = {e \in Employees : ConfirmedOf(e) = {}}])
    /\ UNCHANGED tables

\* The best candidate of the cache, whatever SAP had listed in it.
AutoMaps(h) ==
    \E e \in call[h].todo, s \in Records :
        /\ In(h, "auto", "matching")
        /\ \/ /\ <<e, s>> \in Alike
              /\ Confirms(e, s)
              /\ Goes(h, [call[h] EXCEPT !.at = "mapped", !.todo = @ \ {e},
                                         !.emp = e, !.rec = s], {s})
           \/ /\ <<e, s>> \in Partly
              /\ Drops(e, s)
              /\ Goes(h, [call[h] EXCEPT !.todo = @ \ {e}], {s})
        /\ UNCHANGED <<directory, matricule, asked>>

\* Nobody is left, or there is no candidate for those who are.
AutoEnds(h) ==
    /\ In(h, "auto", "matching")
    /\ call' = [call EXCEPT ![h] = Free]
    /\ UNCHANGED <<tables, asked>>

-----------------------------------------------------------------------------
\* EmployeesService.updateLocalMatricule; a code that is no record of SAP and no
\* code of BioTime is as good as none.
TypeMatricule(e) ==
    \E code \in (Keys \cup {None}) \ {matricule[e]} :
        /\ Asks
        /\ matricule' = [matricule EXCEPT ![e] = code]
        /\ call' = Stir(None, {e})
        /\ UNCHANGED <<directory, mappings>>

\* A query fails, or the server stops: what is written stays.
Fails(h) ==
    /\ call[h].does # "nothing"
    /\ call' = [call EXCEPT ![h] = Free]
    /\ UNCHANGED <<tables, asked>>

Handles(h) ==
    \/ RefreshReads(h) \/ RefreshReadsMappings(h) \/ RefreshUpserts(h)
    \/ RefreshReconciles(h) \/ RefreshNames(h) \/ RefreshEnds(h)
    \/ ConfirmReads(h) \/ ConfirmMaps(h) \/ MatchNames(h)
    \/ RelinkReads(h) \/ RelinkCommits(h)
    \/ AutoReads(h) \/ AutoMaps(h) \/ AutoEnds(h)
    \/ Fails(h)

Next ==
    \/ \E h \in Handlers : Handles(h)
    \/ \E e \in Employees, s \in Records : LinkManually(e, s) \/ Reject(e, s)
    \/ \E e \in Employees : TypeMatricule(e)

Spec == Init /\ [][Next]_vars

-----------------------------------------------------------------------------
(* Properties                                                              *)

\* A code of BioTime names the record, whoever takes it with his matricule.
Coded(s) == \E e \in Employees : s \in Codes[e] \/ Badge[s] \in Codes[e]

\* A refresh that ends, and that nobody wrote anything behind, has linked each
\* record SAP listed to the employee HR confirmed last, and to somebody in any
\* case if a code of BioTime names it; whoever has a record bears the matricule
\* of the last one, and nobody bears the matricule of a record that is somebody
\* else's (refresh, reconcileLocalMatricules).
Settled(list) ==
    /\ \A s \in list :
          /\ s \in rows
          /\ confirmed[s] # {} => link[s] = latest[s]
          /\ Coded(s) => link[s] # None
    /\ \A e \in Employees :
          /\ RowsOf(e, link) # {} => matricule[e] = newest[e]
          /\ RowsOf(e, link) = {} /\ matricule[e] \in Records => link[matricule[e]] = None

RefreshSettles ==
    \A h \in Handlers :
        (In(h, "refresh", "reconciling") /\ call[h].todo = {} /\ call[h].stirred = {})
            => Settled(call[h].list)

\* A record linked to the employee HR confirmed for it last leaves him only by
\* another manual link, of this record or of this employee, or by a refresh
\* that was overtaken on that record (refresh, linkManually).
ByHand(s) == confirmed[s] # {} /\ link[s] = latest[s]
LinkStands ==
    [][\A s \in Records :
          ByHand(s) /\ link'[s] # link[s] =>
              \/ \E r \in Records : LinkManually(link[s], r)
              \/ \E e \in Employees : LinkManually(e, s)
              \/ \E h \in Handlers :
                    /\ RefreshUpserts(h) /\ s \in call[h].todo \ call'[h].todo
                    /\ s \in call[h].stirred]_vars

\* An employee gets a second confirmed record only by confirm(), or by a
\* matching or a relink that read his mappings before another was confirmed.
Twice(e) == \E r, s \in ConfirmedOf(e) : r # s
DoubleIsOvertaken ==
    [][\A e \in Employees :
          ~Twice(e) /\ Twice(e)' =>
              \/ \E h \in Handlers : ConfirmMaps(h) /\ call[h].emp = e
              \/ \E h \in Handlers : /\ RelinkCommits(h) \/ AutoMaps(h)
                                     /\ ConfirmedOf(e) \cap call[h].stirred # {}]_vars
=============================================================================
