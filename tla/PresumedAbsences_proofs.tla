----------------------- MODULE PresumedAbsences_proofs -----------------------
(***************************************************************************)
(* Proofs about PresumedAbsences, for every set of employees and handlers  *)
(* and any number of changes.                                              *)
(*                                                                         *)
(* The three properties rest on one invariant, Readings: each fact a pass  *)
(* has read of an employee is still true, unless that fact has changed     *)
(* since, and what the pass is done with is as it has to be.               *)
(*                                                                         *)
(* Then of ManualDeclarations: what a request has in hand is founded until *)
(* it notes a change, and what waits is announced (ManualInv).             *)
(***************************************************************************)
EXTENDS PresumedAbsences, ManualDeclarations, TLAPS

-----------------------------------------------------------------------------
\* What the first reading of a pass in two readings has listed.
Sorted(h, e) ==
    LET listed == e \in work[h].todo
    IN /\ work[h].pass = "planned" =>
              \/ listed <=> e \in active
              \/ Since(h, e, "status")
       /\ work[h].pass = "guess" /\ listed =>
              /\ e \in active \/ Since(h, e, "status")
              /\ plan[e] = "none" \/ Since(h, e, "plan")
       /\ work[h].pass = "guess" /\ ~listed =>
              \/ e \notin active \/ plan[e] # "none"
              \/ Since(h, e, "status") \/ Since(h, e, "plan")

\* What the readings of a pass say of an employee it is about to handle.
Read(h, e) ==
    LET pass == work[h].pass
    IN /\ pass \in {"planned", "guess", "rest"} => e \in active \/ Since(h, e, "status")
       /\ pass = "planned" =>
              /\ plan[e] = "due" \/ Since(h, e, "plan")
              /\ excuse[e] = "none" \/ Since(h, e, "excuse")
              /\ e \notin matched \/ Since(h, e, "plan") \/ Since(h, e, "punch")
       /\ pass = "guess" =>
              /\ plan[e] = "none" \/ Since(h, e, "plan")
              /\ excuse[e] # "leave" \/ Since(h, e, "excuse")
       /\ pass = "rest" => plan[e] = "rest" \/ Since(h, e, "plan")
       /\ pass = "inactive" => e \notin active \/ Since(h, e, "status")
       /\ pass \in {"inactive", "justified", "punched"} =>
              /\ Pending(e) \/ Since(h, e, "case")
              /\ absence[e].status # "none"

\* What the check of its row says of it as well.
Checked(h, e) ==
    LET pass == work[h].pass
    IN /\ pass = "rest" => "day" \in punch[e]
       /\ pass = "guess" => ~Counted(h, e) \/ Since(h, e, "punch")
       /\ pass = "justified" => excuse[e] = "leave" \/ Since(h, e, "excuse")
       /\ pass = "punched" => Evidence(e) \/ Since(h, e, "summary")

Untouched(h, e) == \A fact \in Facts : ~Since(h, e, fact)

Fits(h, e) ==
    LET ahead == work[h].todo \cup work[h].held
    IN /\ work[h].at = "sorting" => Sorted(h, e)
       /\ work[h].at = "looping" =>
              /\ e \in ahead => Read(h, e)
              /\ e \in work[h].held => Checked(h, e)
              /\ e \notin ahead /\ Untouched(h, e) => Handled(h, work[h].pass, e)

\* A row is taken out of the list before it is held, and only a loop holds one.
Shape ==
    \A h \in Handlers :
        /\ work[h].held # {} => work[h].at = "looping" /\ work[h].does # "nothing"
        /\ work[h].held \cap work[h].todo = {}
        /\ work[h].at = "sorting" => work[h].pass \in {"planned", "guess"}

Readings ==
    \A h \in Handlers : work[h].does # "nothing" => \A e \in Employees : Fits(h, e)

\* A case is in nobody's name until it is decided.
Undecided ==
    \A e \in Employees :
        /\ absence[e].status \in {"none", "PENDING_REVIEW"} => absence[e].by = "nobody"
        /\ presence[e].status \in {"none", "PENDING_REVIEW"} => presence[e].by = "nobody"

IInv == TypeOK /\ Shape /\ Readings /\ Undecided

-----------------------------------------------------------------------------
(* What the operators on the handlers do                                   *)

LEMMA MoveFields ==
  ASSUME TypeOK, NEW h \in Handlers, NEW at \in {"reading", "sorting", "looping"},
         NEW todo \in SUBSET Employees, NEW read \in SUBSET Facts, Move(h, at, todo, read)
  PROVE  /\ work' \in [Handlers -> Work]
         /\ \A g \in Handlers : g # h => work'[g] = work[g]
         /\ work'[h].does = work[h].does
         /\ work'[h].pass = work[h].pass
         /\ work'[h].held = work[h].held
         /\ work'[h].later = work[h].later
         /\ work'[h].at = at
         /\ work'[h].todo = todo
         /\ \A e \in Employees, fact \in Facts :
              Since(h, e, fact)' <=> Since(h, e, fact) /\ fact \notin read
<1>1. work[h] \in Work
  BY DEF TypeOK
<1>2. work[h].stirred \ (Employees \X read) \in SUBSET (Employees \X Facts)
  BY <1>1 DEF Work
<1> DEFINE kept == work[h].stirred \ (Employees \X read)
<1>3. work' = [work EXCEPT ![h] = [work[h] EXCEPT !.at = at, !.todo = todo,
                                                   !.stirred = kept]]
  BY <1>1 DEF Move, TypeOK, Work
<1>4. kept \in SUBSET (Employees \X Facts)
  BY <1>2
<1> HIDE DEF kept
<1>5. [work[h] EXCEPT !.at = at, !.todo = todo, !.stirred = kept] \in Work
  BY <1>1, <1>4 DEF Work
<1>6. /\ work' \in [Handlers -> Work]
      /\ \A g \in Handlers : g # h => work'[g] = work[g]
      /\ work'[h] = [work[h] EXCEPT !.at = at, !.todo = todo, !.stirred = kept]
  BY <1>3, <1>5 DEF TypeOK
<1>7. work'[h].stirred = work[h].stirred \ (Employees \X read)
  BY <1>1, <1>6 DEF Work, kept
<1>8. \A e \in Employees, fact \in Facts :
         Since(h, e, fact)' <=> Since(h, e, fact) /\ fact \notin read
  BY <1>7 DEF Since
<1> QED BY <1>1, <1>6, <1>8 DEF Work

LEMMA EnterFields ==
  ASSUME TypeOK, NEW h \in Handlers, NEW does \in {"nothing", "detect", "list"},
         NEW pass \in Passes, Enter(h, does, pass)
  PROVE  /\ work' \in [Handlers -> Work]
         /\ \A g \in Handlers : g # h => work'[g] = work[g]
         /\ work'[h].at = "reading" /\ work'[h].held = {} /\ work'[h].todo = {}
<1>1. work[h].later \in SUBSET Employees
  BY DEF TypeOK, Work
<1> DEFINE later == work[h].later
<1> HIDE DEF later
<1>2. work' = [work EXCEPT ![h] = [Free EXCEPT !.does = does, !.pass = pass,
                                               !.later = later]]
  BY DEF Enter, later
<1>3. later \in SUBSET Employees
  BY <1>1 DEF later
<1> QED BY <1>2, <1>3 DEF Free, TypeOK, Work, Passes

LEMMA FreeFields ==
  ASSUME TypeOK, NEW h \in Handlers, work' = [work EXCEPT ![h] = Free]
  PROVE  /\ work' \in [Handlers -> Work]
         /\ \A g \in Handlers : g # h => work'[g] = work[g]
         /\ work'[h].at = "reading" /\ work'[h].held = {} /\ work'[h].todo = {}
         /\ work'[h].does = "nothing"
BY DEF Free, TypeOK, Work, Passes

\* A handler is at the same point with the same rows in f and in w.
SameRows(f, w, g) ==
    /\ f[g].does = w[g].does /\ f[g].pass = w[g].pass /\ f[g].at = w[g].at
    /\ f[g].todo = w[g].todo /\ f[g].held = w[g].held

LEMMA StirFields ==
  ASSUME TypeOK, NEW e \in Employees, NEW fact \in Facts, NEW writers
  PROVE  LET new == Stir(e, fact, writers)
         IN  /\ new \in [Handlers -> Work]
             /\ \A g \in Handlers :
                  /\ SameRows(new, work, g)
                  /\ new[g].later = work[g].later
                  /\ new[g].stirred = IF g \notin writers /\ work[g].does # "nothing"
                                      THEN work[g].stirred \cup {<<e, fact>>}
                                      ELSE work[g].stirred
<1> DEFINE new == Stir(e, fact, writers)
<1>1. ASSUME NEW g \in Handlers
      PROVE  /\ new[g] \in Work
             /\ SameRows(new, work, g)
             /\ new[g].later = work[g].later
             /\ new[g].stirred = IF g \notin writers /\ work[g].does # "nothing"
                                 THEN work[g].stirred \cup {<<e, fact>>}
                                 ELSE work[g].stirred
  <2>1. work[g] \in Work
    BY DEF TypeOK
  <2>2. work[g].stirred \cup {<<e, fact>>} \in SUBSET (Employees \X Facts)
    BY <2>1 DEF Work
  <2>3. new[g] = IF g \notin writers /\ work[g].does # "nothing"
                 THEN [work[g] EXCEPT !.stirred = work[g].stirred \cup {<<e, fact>>}]
                 ELSE work[g]
    BY <2>1 DEF Stir, Work
  <2> HIDE DEF new
  <2>4. [work[g] EXCEPT !.stirred = work[g].stirred \cup {<<e, fact>>}] \in Work
    BY <2>1, <2>2 DEF Work
  <2> QED BY <2>1, <2>3, <2>4 DEF Work, SameRows
<1>2. new = [g \in Handlers |-> new[g]]
  BY DEF Stir
<1> HIDE DEF new
<1>3. new \in [Handlers -> Work]
  BY <1>1, <1>2
<1> QED BY <1>1, <1>3 DEF new

LEMMA WritesFields ==
  ASSUME TypeOK, NEW h \in Handlers, NEW e \in Employees, Writes(h, e)
  PROVE  /\ work' \in [Handlers -> Work]
         /\ \A g \in Handlers :
              /\ g # h => SameRows(work', work, g)
              /\ work'[g].later = work[g].later
              /\ work'[g].stirred = IF g # h /\ work[g].does # "nothing"
                                    THEN work[g].stirred \cup {<<e, "case">>}
                                    ELSE work[g].stirred
         /\ work'[h].does = work[h].does /\ work'[h].pass = work[h].pass
         /\ work'[h].at = work[h].at /\ work'[h].todo = work[h].todo
         /\ work'[h].held = {}
<1> DEFINE new == Stir(e, "case", {h})
<1>1. /\ new \in [Handlers -> Work]
      /\ \A g \in Handlers :
           /\ SameRows(new, work, g)
           /\ new[g].later = work[g].later
           /\ new[g].stirred = IF g # h /\ work[g].does # "nothing"
                               THEN work[g].stirred \cup {<<e, "case">>}
                               ELSE work[g].stirred
  <2>1. "case" \in Facts
    BY DEF Facts
  <2> QED BY <2>1, StirFields
<1>2. work' = [new EXCEPT ![h].held = {}]
  BY DEF Writes
<1> HIDE DEF new
<1>3. work' \in [Handlers -> Work]
  BY <1>1, <1>2 DEF Work
<1>4. /\ \A g \in Handlers : g # h => work'[g] = new[g]
      /\ work'[h] = [new[h] EXCEPT !.held = {}]
  BY <1>1, <1>2
<1>5. /\ work'[h].does = new[h].does /\ work'[h].pass = new[h].pass
      /\ work'[h].at = new[h].at /\ work'[h].todo = new[h].todo
      /\ work'[h].held = {} /\ work'[h].later = new[h].later
      /\ work'[h].stirred = new[h].stirred
  <2>1. new[h] \in Work
    BY <1>1
  <2> QED BY <1>4, <2>1 DEF Work
<1>6. ASSUME NEW g \in Handlers, g # h PROVE SameRows(work', work, g)
  <2>1. SameRows(new, work, g) /\ work'[g] = new[g]
    BY <1>1, <1>4, <1>6
  <2> QED BY <2>1 DEF SameRows
<1>7. ASSUME NEW g \in Handlers
      PROVE  work'[g].later = new[g].later /\ work'[g].stirred = new[g].stirred
  BY <1>4, <1>5
<1>8. SameRows(new, work, h)
  BY <1>1
<1> QED BY <1>1, <1>3, <1>5, <1>6, <1>7, <1>8 DEF SameRows

LEMMA ChecksFields ==
  ASSUME TypeOK, NEW h \in Handlers, NEW e \in Employees, Checks(h, e)
  PROVE  /\ work' \in [Handlers -> Work]
         /\ \A g \in Handlers : g # h => work'[g] = work[g]
         /\ work'[h].does = work[h].does
         /\ work'[h].pass = work[h].pass
         /\ work'[h].at = work[h].at
         /\ work'[h].later = work[h].later
         /\ work'[h].todo = work[h].todo \ {e}
         /\ work'[h].held = IF Holds(h, e) THEN {e} ELSE {}
         /\ work'[h].stirred = work[h].stirred \ ({e} \X Rereads(work[h].pass))
<1> DEFINE held == IF Holds(h, e) THEN {e} ELSE {}
           kept == work[h].stirred \ ({e} \X Rereads(work[h].pass))
           todo == work[h].todo \ {e}
<1>1. work[h] \in Work
  BY DEF TypeOK
<1>2. work' = [work EXCEPT ![h] = [work[h] EXCEPT !.todo = todo, !.held = held,
                                                  !.stirred = kept]]
  BY <1>1 DEF Checks, TypeOK, Work
<1>3. /\ held \in SUBSET Employees /\ todo \in SUBSET Employees
      /\ kept \in SUBSET (Employees \X Facts)
  BY <1>1 DEF Work
<1> HIDE DEF held, kept, todo
<1>4. [work[h] EXCEPT !.todo = todo, !.held = held, !.stirred = kept] \in Work
  BY <1>1, <1>3 DEF Work
<1>5. /\ work' \in [Handlers -> Work]
      /\ \A g \in Handlers : g # h => work'[g] = work[g]
      /\ work'[h] = [work[h] EXCEPT !.todo = todo, !.held = held, !.stirred = kept]
  BY <1>2, <1>4 DEF TypeOK
<1> QED BY <1>1, <1>5 DEF Work, held, kept, todo

\* A punch comes in.
LEMMA PunchFields ==
  ASSUME TypeOK, NEW e \in Employees, PunchComesIn(e)
  PROVE  /\ work' \in [Handlers -> Work]
         /\ \A g \in Handlers :
              /\ SameRows(work', work, g)
              /\ \A d \in Employees \ {e} : d \in work'[g].later <=> d \in work[g].later
              /\ work'[g].stirred = IF work[g].does # "nothing"
                                    THEN work[g].stirred \cup {<<e, "punch">>}
                                    ELSE work[g].stirred
<1> DEFINE new == Stir(e, "punch", {})
<1>1. /\ new \in [Handlers -> Work]
      /\ \A g \in Handlers :
           /\ SameRows(new, work, g)
           /\ new[g].later = work[g].later
           /\ new[g].stirred = IF work[g].does # "nothing"
                               THEN work[g].stirred \cup {<<e, "punch">>}
                               ELSE work[g].stirred
  <2>1. "punch" \in Facts
    BY DEF Facts
  <2>2. /\ new \in [Handlers -> Work]
        /\ \A g \in Handlers :
             /\ SameRows(new, work, g)
             /\ new[g].later = work[g].later
             /\ new[g].stirred = IF g \notin {} /\ work[g].does # "nothing"
                                 THEN work[g].stirred \cup {<<e, "punch">>}
                                 ELSE work[g].stirred
    BY <2>1, StirFields
  <2> HIDE DEF new
  <2> QED BY <2>2
<1>2. PICK p \in Punches, before \in SUBSET MayPrecede(e) :
         work' = [g \in Handlers |->
            [new[g] EXCEPT
                !.later = CASE p # "day" -> @
                            [] p = "day" /\ g \in before -> @ \cup {e}
                            [] OTHER -> @ \ {e}]]
  BY DEF PunchComesIn
<1> HIDE DEF new
<1> DEFINE after(g) == CASE p # "day" -> new[g].later
                         [] p = "day" /\ g \in before -> new[g].later \cup {e}
                         [] OTHER -> new[g].later \ {e}
<1>3. ASSUME NEW g \in Handlers
      PROVE  /\ after(g) \in SUBSET Employees
             /\ \A d \in Employees \ {e} : d \in after(g) <=> d \in new[g].later
  <2>1. new[g].later \in SUBSET Employees
    BY <1>1 DEF Work
  <2>2. after(g) \in {new[g].later, new[g].later \cup {e}, new[g].later \ {e}}
    BY Zenon
  <2> QED BY <2>1, <2>2
<1>4. ASSUME NEW g \in Handlers
      PROVE  work'[g] = [new[g] EXCEPT !.later = after(g)]
  <2>1. new[g] \in Work
    BY <1>1
  <2> QED BY <1>2, <2>1 DEF Work
<1> HIDE DEF after
<1>5. ASSUME NEW g \in Handlers
      PROVE  /\ work'[g] \in Work
             /\ SameRows(work', work, g)
             /\ work'[g].later = after(g)
             /\ work'[g].stirred = new[g].stirred
  <2>1. new[g] \in Work /\ after(g) \in SUBSET Employees /\ SameRows(new, work, g)
    BY <1>1, <1>3
  <2> QED BY <1>4, <2>1 DEF Work, SameRows
<1>6. work' = [g \in Handlers |-> work'[g]]
  BY <1>2
<1>7. work' \in [Handlers -> Work]
  BY <1>5, <1>6
<1>8. ASSUME NEW g \in Handlers
      PROVE  \A d \in Employees \ {e} : d \in work'[g].later <=> d \in work[g].later
  BY <1>1, <1>3, <1>5
<1> QED BY <1>1, <1>5, <1>7, <1>8

-----------------------------------------------------------------------------
(* What the operators on the cases do                                      *)

LEMMA CaseDecided ==
  ASSUME NEW table \in [Employees -> Case], NEW e \in Employees,
         NEW status \in Statuses, NEW by \in {"nobody", "system", "reviewer"}
  PROVE  LET new == [table EXCEPT ![e].status = status, ![e].by = by]
         IN /\ new \in [Employees -> Case]
            /\ \A d \in Employees : d # e => new[d] = table[d]
            /\ new[e].status = status /\ new[e].by = by
            /\ new[e].basis = table[e].basis
BY DEF Case

LEMMA CaseFound ==
  ASSUME NEW table \in [Employees -> Case], NEW e \in Employees,
         NEW basis \in Bases
  PROVE  LET new == [table EXCEPT ![e] = Found(@, basis)]
         IN /\ new \in [Employees -> Case]
            /\ \A d \in Employees : d # e => new[d] = table[d]
            /\ table[e].status # "none" => new[e] = table[e]
            /\ table[e].status = "none" =>
                   new[e].status = "PENDING_REVIEW" /\ new[e].by = "nobody"
BY DEF Found, Case, Statuses

-----------------------------------------------------------------------------
(* Type correctness                                                        *)

LEMMA TypeStep == TypeOK /\ [Next]_vars => TypeOK'
<1> SUFFICES ASSUME TypeOK, [Next]_vars PROVE TypeOK'
  OBVIOUS
<1> USE DEF facts, cases
<1>1. ASSUME NEW e \in Employees,
             \/ ResignsOrReturns(e) \/ Declares(e) \/ PunchComesIn(e)
             \/ Plan(e) \/ Summarises(e)
      PROVE  TypeOK'
  <2>1. work' \in [Handlers -> Work]
    <3>1. CASE PunchComesIn(e)
      BY <3>1, PunchFields
    <3>2. CASE ~PunchComesIn(e)
      <4>1. PICK fact \in Facts : work' = Stir(e, fact, {})
        BY <1>1, <3>2 DEF ResignsOrReturns, Declares, Plan, Summarises, Facts
      <4> QED BY <4>1, StirFields
    <3> QED BY <3>1, <3>2
  <2>2. changes' \in 0 .. MaxChanges /\ UNCHANGED cases
    BY <1>1, BoundsAssumption DEF TypeOK, ResignsOrReturns, Declares,
                                  PunchComesIn, Plan, Summarises, Change
  <2>3. matched' \in SUBSET Employees
    BY <1>1 DEF TypeOK, ResignsOrReturns, Declares, PunchComesIn, Plan, Summarises
  <2>4. active' \in SUBSET Employees /\ summarised' \in SUBSET Employees
    BY <1>1 DEF TypeOK, ResignsOrReturns, Declares, PunchComesIn, Plan, Summarises
  <2>5. /\ excuse' \in [Employees -> Excuses] /\ plan' \in [Employees -> Plans]
        /\ punch' \in [Employees -> SUBSET Punches]
    BY <1>1 DEF TypeOK, ResignsOrReturns, Declares, PunchComesIn, Plan, Summarises
  <2> QED BY <2>1, <2>2, <2>3, <2>4, <2>5 DEF TypeOK
<1>2. ASSUME NEW h \in Handlers, NEW does \in {"detect", "list"}, Starts(h, does)
      PROVE  TypeOK'
  BY <1>2, EnterFields DEF TypeOK, Starts, Passes
<1>3. ASSUME NEW h \in Handlers,
             \/ InactiveReads(h) \/ PlannedReadsEmployees(h) \/ PlannedReads(h)
             \/ RestReads(h) \/ GuessReadsEmployees(h) \/ GuessReadsJustified(h)
             \/ PendingReads(h)
      PROVE  TypeOK'
  <2>1. work[h].todo \subseteq Employees /\ active \subseteq Employees
    BY DEF TypeOK, Work
  <2>2. PICK at \in {"sorting", "looping"}, todo \in SUBSET Employees,
             read \in SUBSET Facts : Move(h, at, todo, read)
    BY <1>3, <2>1 DEF InactiveReads, PlannedReadsEmployees, PlannedReads,
         RestReads, GuessReadsEmployees, GuessReadsJustified, PendingReads,
         Reviewable, Facts
  <2>3. UNCHANGED <<facts, changes, cases>>
    BY <1>3 DEF InactiveReads, PlannedReadsEmployees, PlannedReads,
         RestReads, GuessReadsEmployees, GuessReadsJustified, PendingReads
  <2> QED BY <2>2, <2>3, MoveFields DEF TypeOK
<1>4. ASSUME NEW h \in Handlers, NEW e \in Employees, Checks(h, e)
      PROVE  TypeOK'
  BY <1>4, ChecksFields DEF TypeOK, Checks
<1>5. ASSUME NEW h \in Handlers, NEW e \in Employees,
             FindsAbsence(h, e) \/ FindsPresence(h, e) \/ Rejects(h, e)
      PROVE  TypeOK'
  <2>1. Writes(h, e)
    BY <1>5 DEF FindsAbsence, FindsPresence, Rejects
  <2>2. work' \in [Handlers -> Work]
    BY <2>1, WritesFields
  <2>3. absence \in [Employees -> Case] /\ presence \in [Employees -> Case]
    BY DEF TypeOK
  <2>4. "daily_absence_report" \in Bases /\ "no_punch_heuristic" \in Bases
        /\ "rest_schedule_with_punch" \in Bases /\ "REJECTED" \in Statuses
    BY DEF Bases, Statuses
  <2>5. absence' \in [Employees -> Case] /\ presence' \in [Employees -> Case]
    <3>1. CASE FindsAbsence(h, e)
      <4>1. PICK basis \in Bases : absence' = [absence EXCEPT ![e] = Found(@, basis)]
        BY <2>4, <3>1 DEF FindsAbsence
      <4> QED BY <2>3, <3>1, <4>1, CaseFound DEF FindsAbsence
    <3>2. CASE FindsPresence(h, e)
      BY <2>3, <2>4, <3>2, CaseFound DEF FindsPresence
    <3>3. CASE Rejects(h, e)
      <4>1. absence' = [absence EXCEPT ![e].status = "REJECTED", ![e].by = "system"]
        BY <3>3 DEF Rejects
      <4>2. presence' = presence
        BY <3>3 DEF Rejects
      <4>3. absence' \in [Employees -> Case]
        BY <2>3, <2>4, <4>1 DEF Case
      <4> QED BY <2>3, <4>2, <4>3
    <3> QED BY <1>5, <3>1, <3>2, <3>3
  <2> QED BY <2>1, <2>2, <2>5 DEF TypeOK, Writes
<1>6. ASSUME NEW h \in Handlers, NextPass(h) \/ Stops(h) \/ Fails(h)
      PROVE  TypeOK'
  BY <1>6, EnterFields, FreeFields DEF TypeOK, NextPass, Stops, Fails, Passes
<1>7. ASSUME NEW e \in Employees, NEW verdict \in {"CONFIRMED", "REJECTED"},
             Review(e, verdict) \/ ReviewPresence(e, verdict)
      PROVE  TypeOK'
  <2>1. work' \in [Handlers -> Work]
    <3>1. work' = Stir(e, "case", {}) /\ "case" \in Facts
      BY <1>7 DEF Review, ReviewPresence, Facts
    <3> QED BY <3>1, StirFields
  <2>2. absence \in [Employees -> Case] /\ presence \in [Employees -> Case]
        /\ verdict \in Statuses
    BY DEF TypeOK, Statuses
  <2>3. absence' \in [Employees -> Case] /\ presence' \in [Employees -> Case]
    <3>1. CASE Review(e, verdict)
      <4>1. absence' = [absence EXCEPT ![e].status = verdict, ![e].by = "reviewer"]
        BY <3>1 DEF Review
      <4>2. presence' = presence
        BY <3>1 DEF Review
      <4>3. absence' \in [Employees -> Case]
        BY <2>2, <4>1 DEF Case
      <4> QED BY <2>2, <4>2, <4>3
    <3>2. CASE ReviewPresence(e, verdict)
      BY <2>2, <3>2, CaseDecided DEF ReviewPresence
    <3> QED BY <1>7, <3>1, <3>2
  <2> QED BY <1>7, <2>1, <2>3 DEF TypeOK, Review, ReviewPresence
<1>8. CASE UNCHANGED vars
  BY <1>8 DEF vars, TypeOK
<1> QED BY <1>1, <1>2, <1>3, <1>4, <1>5, <1>6, <1>7, <1>8 DEF Next

LEMMA TypeInit == Init => TypeOK
BY BoundsAssumption DEF Init, TypeOK, NoCase, Case, Statuses, Bases, Free, Work, Passes

\* The rows of the two tables and the readings of the handlers keep their
\* types, for any employees, handlers and changes.
THEOREM TypeCorrect == Spec => []TypeOK
BY TypeInit, TypeStep, PTL DEF Spec

-----------------------------------------------------------------------------
(* What is read of an employee stays true until it changes                 *)

\* g notes what changes of e, punches only come in, and a case stays where it is.
Tracked(g, e) ==
    /\ (e \in active' <=> e \in active) \/ Since(g, e, "status")'
    /\ excuse'[e] = excuse[e] \/ Since(g, e, "excuse")'
    /\ plan'[e] = plan[e] \/ Since(g, e, "plan")'
    /\ \/ punch'[e] = punch[e] /\ (Counted(g, e)' <=> Counted(g, e))
       \/ Since(g, e, "punch")'
    /\ (e \in matched' <=> e \in matched)
          \/ Since(g, e, "plan")' \/ Since(g, e, "punch")'
    /\ (e \in summarised' <=> e \in summarised) \/ Since(g, e, "summary")'
    /\ (absence'[e] = absence[e] /\ presence'[e] = presence[e]) \/ Since(g, e, "case")'
    /\ \A fact \in Facts : Since(g, e, fact) => Since(g, e, fact)'
    /\ punch[e] \subseteq punch'[e]
    /\ absence[e].status # "none" =>
          absence'[e].status # "none" /\ absence'[e].basis = absence[e].basis

LEMMA FitsStays ==
  ASSUME NEW g \in Handlers, NEW e \in Employees, SameRows(work', work, g),
         Tracked(g, e), Fits(g, e)
  PROVE  Fits(g, e)'
<1>1. /\ work'[g].pass = work[g].pass /\ work'[g].at = work[g].at
      /\ work'[g].todo = work[g].todo /\ work'[g].held = work[g].held
  BY DEF SameRows
<1>2. \A fact \in {"status", "excuse", "punch", "plan", "summary", "case"} :
         Since(g, e, fact) => Since(g, e, fact)'
  BY DEF Tracked, Facts
<1>3. /\ Since(g, e, "status") => Since(g, e, "status")'
      /\ Since(g, e, "excuse") => Since(g, e, "excuse")'
      /\ Since(g, e, "punch") => Since(g, e, "punch")'
      /\ Since(g, e, "plan") => Since(g, e, "plan")'
      /\ Since(g, e, "summary") => Since(g, e, "summary")'
      /\ Since(g, e, "case") => Since(g, e, "case")'
  BY <1>2
<1> HIDE DEF Since
<1>4. Sorted(g, e) => Sorted(g, e)'
  BY <1>1, <1>3 DEF Tracked, Sorted
<1>5. Read(g, e) => Read(g, e)'
  BY <1>1, <1>3 DEF Tracked, Read, Pending
<1>6. Read(g, e) /\ Checked(g, e) => Checked(g, e)'
  BY <1>1, <1>3 DEF Tracked, Read, Checked, Evidence
<1>7. Untouched(g, e)' /\ Handled(g, work[g].pass, e) => Handled(g, work[g].pass, e)'
  <2> SUFFICES ASSUME Untouched(g, e)', Handled(g, work[g].pass, e)
               PROVE  Handled(g, work[g].pass, e)'
    OBVIOUS
  <2>1. /\ ~Since(g, e, "status")' /\ ~Since(g, e, "excuse")' /\ ~Since(g, e, "punch")'
        /\ ~Since(g, e, "plan")' /\ ~Since(g, e, "summary")' /\ ~Since(g, e, "case")'
    BY DEF Untouched, Facts
  <2>2. /\ e \in active' <=> e \in active
        /\ excuse'[e] = excuse[e] /\ plan'[e] = plan[e] /\ punch'[e] = punch[e]
        /\ Counted(g, e)' <=> Counted(g, e)
        /\ e \in matched' <=> e \in matched
        /\ e \in summarised' <=> e \in summarised
        /\ absence'[e] = absence[e] /\ presence'[e] = presence[e]
    BY <2>1 DEF Tracked
  <2> HIDE DEF Counted
  <2> QED BY <1>1, <2>2 DEF Handled, Pending
<1>8. Untouched(g, e)' => Untouched(g, e)
  BY <1>3 DEF Untouched, Facts
<1>9. ASSUME work[g].at = "looping" PROVE e \in work[g].held => Read(g, e)
  BY <1>9 DEF Fits
<1> HIDE DEF Sorted, Read, Checked, Untouched
<1> QED BY <1>1, <1>4, <1>5, <1>6, <1>7, <1>8, <1>9 DEF Fits

\* A step that leaves the rows of everybody as they are.
LEMMA TrackedStep ==
  ASSUME IInv,
         \A g \in Handlers : SameRows(work', work, g),
         \A g \in Handlers : work[g].does # "nothing" => \A e \in Employees : Tracked(g, e)
  PROVE  Shape' /\ Readings'
<1>1. Shape'
  BY DEF IInv, Shape, SameRows
<1>2. ASSUME NEW g \in Handlers, work'[g].does # "nothing", NEW e \in Employees
      PROVE  Fits(g, e)'
  <2>1. work[g].does # "nothing" /\ SameRows(work', work, g)
    BY <1>2 DEF SameRows
  <2>2. Fits(g, e) /\ Tracked(g, e)
    BY <2>1 DEF IInv, Readings
  <2> QED BY <2>1, <2>2, FitsStays
<1> QED BY <1>1, <1>2 DEF Readings

LEMMA ChangeStep ==
  ASSUME IInv, NEW d \in Employees,
         \/ ResignsOrReturns(d) \/ Declares(d) \/ PunchComesIn(d)
         \/ Plan(d) \/ Summarises(d)
  PROVE  Shape' /\ Readings'
<1>1. PICK fact \in Facts :
         /\ fact = "status" \/ UNCHANGED active
         /\ fact = "excuse" \/ UNCHANGED excuse
         /\ fact = "plan" \/ UNCHANGED plan
         /\ fact = "punch" \/ UNCHANGED punch
         /\ fact \in {"plan", "punch"} \/ UNCHANGED matched
         /\ fact = "summary" \/ UNCHANGED summarised
         /\ IF fact = "punch" THEN PunchComesIn(d) ELSE work' = Stir(d, fact, {})
  BY DEF ResignsOrReturns, Declares, PunchComesIn, Plan, Summarises, Facts
<1>2. /\ TypeOK /\ UNCHANGED cases
      /\ \A e \in Employees \ {d} :
           /\ e \in active' <=> e \in active
           /\ excuse'[e] = excuse[e] /\ plan'[e] = plan[e] /\ punch'[e] = punch[e]
           /\ e \in matched' <=> e \in matched
           /\ e \in summarised' <=> e \in summarised
      /\ punch[d] \subseteq punch'[d]
  BY DEF IInv, TypeOK, ResignsOrReturns, Declares, PunchComesIn, Plan, Summarises, Change
<1>3. ASSUME NEW g \in Handlers
      PROVE  /\ SameRows(work', work, g)
             /\ \A e \in Employees \ {d} : e \in work'[g].later <=> e \in work[g].later
             /\ fact # "punch" => work'[g].later = work[g].later
             /\ work[g].does # "nothing" =>
                   work'[g].stirred = work[g].stirred \cup {<<d, fact>>}
  <2>1. CASE fact = "punch"
    BY <1>1, <1>2, <2>1, PunchFields
  <2>2. CASE fact # "punch"
    <3> DEFINE new == Stir(d, fact, {})
    <3>1. /\ SameRows(new, work, g)
          /\ new[g].later = work[g].later
          /\ new[g].stirred = IF g \notin {} /\ work[g].does # "nothing"
                              THEN work[g].stirred \cup {<<d, fact>>}
                              ELSE work[g].stirred
      BY <1>2, StirFields
    <3>2. work' = new
      BY <1>1, <2>2
    <3> HIDE DEF new
    <3> QED BY <2>2, <3>1, <3>2
  <2> QED BY <2>1, <2>2
<1>4. ASSUME NEW g \in Handlers, work[g].does # "nothing", NEW e \in Employees
      PROVE  Tracked(g, e)
  <2>1. /\ work'[g].stirred = work[g].stirred \cup {<<d, fact>>}
        /\ absence' = absence /\ presence' = presence
    BY <1>2, <1>3, <1>4 DEF cases
  <2>2. CASE e # d
    <3>1. Counted(g, e)' <=> Counted(g, e)
      BY <1>2, <1>3, <2>2 DEF Counted
    <3>2. punch'[e] = punch[e]
      BY <1>2, <2>2
    <3> HIDE DEF Counted
    <3> QED BY <1>2, <2>1, <2>2, <3>1, <3>2 DEF Tracked, Since
  <2>3. CASE e = d
    <3>1. \A f \in Facts : Since(g, d, f)' <=> Since(g, d, f) \/ f = fact
      BY <2>1 DEF Since
    <3>2. /\ Since(g, d, "status")' \/ UNCHANGED active
          /\ Since(g, d, "excuse")' \/ UNCHANGED excuse
          /\ Since(g, d, "plan")' \/ UNCHANGED plan
          /\ Since(g, d, "punch")' \/ (UNCHANGED punch /\ work'[g].later = work[g].later)
          /\ Since(g, d, "plan")' \/ Since(g, d, "punch")' \/ UNCHANGED matched
          /\ Since(g, d, "summary")' \/ UNCHANGED summarised
      BY <1>1, <1>3, <3>1 DEF Facts
    <3>3. (UNCHANGED punch /\ work'[g].later = work[g].later) =>
             (Counted(g, d)' <=> Counted(g, d))
      BY DEF Counted
    <3> HIDE DEF Counted, Since
    <3> QED BY <1>2, <2>1, <2>3, <3>1, <3>2, <3>3 DEF Tracked
  <2> QED BY <2>2, <2>3
<1> QED BY <1>3, <1>4, TrackedStep

\* A step of one handler that writes nothing.
LEMMA OwnStep ==
  ASSUME IInv, NEW h \in Handlers, UNCHANGED <<facts, cases>>,
         \A g \in Handlers : g # h => work'[g] = work[g],
         /\ work'[h].held # {} => work'[h].at = "looping" /\ work'[h].does # "nothing"
         /\ work'[h].held \cap work'[h].todo = {}
         /\ work'[h].at = "sorting" => work'[h].pass \in {"planned", "guess"},
         work'[h].does # "nothing" => \A e \in Employees : Fits(h, e)'
  PROVE  Shape' /\ Readings'
<1>1. Shape'
  BY DEF IInv, Shape
<1>2. ASSUME NEW g \in Handlers, work'[g].does # "nothing", NEW e \in Employees
      PROVE  Fits(g, e)'
  <2>1. CASE g = h
    BY <1>2, <2>1
  <2>2. CASE g # h
    <3>1. work'[g] = work[g]
      BY <2>2
    <3>2. SameRows(work', work, g) /\ Tracked(g, e)
      BY <3>1 DEF SameRows, Tracked, Since, Counted, facts, cases
    <3>3. Fits(g, e)
      BY <1>2, <3>1 DEF IInv, Readings
    <3> QED BY <3>2, <3>3, FitsStays
  <2> QED BY <2>1, <2>2
<1>3. Readings'
  BY <1>2 DEF Readings
<1> QED BY <1>1, <1>3

\* A handler that begins, stops or goes on to its next pass.
LEMMA EmptyStep ==
  ASSUME IInv, NEW h \in Handlers, UNCHANGED <<facts, cases>>,
         \A g \in Handlers : g # h => work'[g] = work[g],
         work'[h].at = "reading" /\ work'[h].held = {} /\ work'[h].todo = {}
  PROVE  Shape' /\ Readings'
<1>1. \A e \in Employees : Fits(h, e)'
  BY DEF Fits
<1> QED BY <1>1, OwnStep

LEMMA ReadStep ==
  ASSUME IInv, NEW h \in Handlers,
         \/ InactiveReads(h) \/ PlannedReadsEmployees(h) \/ PlannedReads(h)
         \/ RestReads(h) \/ GuessReadsEmployees(h) \/ GuessReadsJustified(h)
         \/ PendingReads(h)
  PROVE  Shape' /\ Readings'
<1> USE DEF facts, cases
<1>1. /\ TypeOK
      /\ active \subseteq Employees /\ work[h].todo \subseteq Employees
      /\ work[h].held # {} => work[h].at = "looping"
  BY DEF IInv, TypeOK, Work, Shape
<1>2. UNCHANGED <<facts, cases>>
  BY DEF InactiveReads, PlannedReadsEmployees, PlannedReads, RestReads,
         GuessReadsEmployees, GuessReadsJustified, PendingReads
<1> DEFINE From(at, todo, read) ==
     \/ /\ work[h].pass = "inactive" /\ at = "looping" /\ read = {"status", "case"}
        /\ todo = {e \in Employees : Pending(e) /\ e \notin active}
     \/ work[h].pass = "planned" /\ at = "sorting" /\ todo = active /\ read = {"status"}
     \/ /\ work[h].pass = "planned" /\ work[h].at = "sorting" /\ at = "looping"
        /\ todo = {e \in work[h].todo : Planned(e)} /\ read = {"plan", "punch", "excuse"}
     \/ /\ work[h].pass = "rest" /\ at = "looping" /\ read = {"status", "plan"}
        /\ todo = {e \in active : plan[e] = "rest"}
     \/ /\ work[h].pass = "guess" /\ at = "sorting" /\ read = {"status", "plan"}
        /\ todo = {e \in active : plan[e] = "none"}
     \/ /\ work[h].pass = "guess" /\ work[h].at = "sorting" /\ at = "looping"
        /\ todo = {e \in work[h].todo : ~Justified(e)} /\ read = {"excuse"}
     \/ /\ work[h].pass \in {"justified", "punched"} /\ at = "looping" /\ read = {"case"}
        /\ todo = {e \in Employees : Pending(e)}
<1>3. PICK at \in {"sorting", "looping"}, todo \in SUBSET Employees, read \in SUBSET Facts :
          Move(h, at, todo, read) /\ work[h].at # "looping" /\ work[h].does # "nothing"
          /\ From(at, todo, read)
  <2> DEFINE Goal == \E at \in {"sorting", "looping"}, todo \in SUBSET Employees,
                        read \in SUBSET Facts :
                           /\ Move(h, at, todo, read) /\ work[h].at # "looping"
                           /\ work[h].does # "nothing" /\ From(at, todo, read)
  <2>1. CASE InactiveReads(h)
    <3>1. {e \in Employees : Pending(e) /\ e \notin active} \in SUBSET Employees
          /\ {"status", "case"} \in SUBSET Facts
      BY DEF Facts
    <3> QED BY <2>1, <3>1 DEF InactiveReads, In
  <2>2. CASE PlannedReadsEmployees(h)
    BY <1>1, <2>2 DEF PlannedReadsEmployees, In, Facts
  <2>3. CASE PlannedReads(h)
    <3>1. {e \in work[h].todo : Planned(e)} \in SUBSET Employees
          /\ {"plan", "punch", "excuse"} \in SUBSET Facts
      BY <1>1 DEF Facts
    <3> QED BY <2>3, <3>1 DEF PlannedReads, In
  <2>4. CASE RestReads(h)
    <3>1. {e \in active : plan[e] = "rest"} \in SUBSET Employees
          /\ {"status", "plan"} \in SUBSET Facts
      BY <1>1 DEF Facts
    <3> QED BY <2>4, <3>1 DEF RestReads, In
  <2>5. CASE GuessReadsEmployees(h)
    <3>1. {e \in active : plan[e] = "none"} \in SUBSET Employees
          /\ {"status", "plan"} \in SUBSET Facts
      BY <1>1 DEF Facts
    <3> QED BY <2>5, <3>1 DEF GuessReadsEmployees, In
  <2>6. CASE GuessReadsJustified(h)
    <3>1. {e \in work[h].todo : ~Justified(e)} \in SUBSET Employees
          /\ {"excuse"} \in SUBSET Facts
      BY <1>1 DEF Facts
    <3> QED BY <2>6, <3>1 DEF GuessReadsJustified, In
  <2>7. CASE PendingReads(h)
    <3>1. {e \in Employees : Pending(e)} \in SUBSET Employees
          /\ {"case"} \in SUBSET Facts
      BY DEF Facts
    <3> QED BY <2>7, <3>1 DEF PendingReads, In, Reviewable
  <2> QED BY <2>1, <2>2, <2>3, <2>4, <2>5, <2>6, <2>7
<1>4. /\ \A g \in Handlers : g # h => work'[g] = work[g]
      /\ work'[h].does = work[h].does /\ work'[h].pass = work[h].pass
      /\ work'[h].later = work[h].later
      /\ \A e \in Employees, fact \in Facts :
           Since(h, e, fact)' <=> Since(h, e, fact) /\ fact \notin read
      /\ work'[h].held = {} /\ work'[h].at = at /\ work'[h].todo = todo
  <2>1. /\ at \in {"reading", "sorting", "looping"} /\ todo \in SUBSET Employees
        /\ read \in SUBSET Facts /\ Move(h, at, todo, read)
    BY <1>3
  <2>2. work[h].held = {}
    BY <1>1, <1>3
  <2>3. TypeOK
    BY <1>1
  <2> HIDE DEF From
  <2>4. /\ \A g \in Handlers : g # h => work'[g] = work[g]
        /\ work'[h].does = work[h].does /\ work'[h].pass = work[h].pass
        /\ work'[h].later = work[h].later
        /\ \A e \in Employees, fact \in Facts :
             Since(h, e, fact)' <=> Since(h, e, fact) /\ fact \notin read
        /\ work'[h].held = work[h].held /\ work'[h].at = at /\ work'[h].todo = todo
    BY <2>1, <2>3, MoveFields
  <2> QED BY <2>2, <2>4
<1>5. ASSUME NEW e \in Employees
      PROVE  Fits(h, e)'
  <2>1. Fits(h, e)
    BY <1>3 DEF IInv, Readings
  <2>2. \A fact \in Facts : Since(h, e, fact)' <=> (Since(h, e, fact) /\ fact \notin read)
    BY <1>4
  <2>3. /\ Since(h, e, "status")' <=> Since(h, e, "status") /\ "status" \notin read
        /\ Since(h, e, "excuse")' <=> Since(h, e, "excuse") /\ "excuse" \notin read
        /\ Since(h, e, "punch")' <=> Since(h, e, "punch") /\ "punch" \notin read
        /\ Since(h, e, "plan")' <=> Since(h, e, "plan") /\ "plan" \notin read
        /\ Since(h, e, "summary")' <=> Since(h, e, "summary") /\ "summary" \notin read
        /\ Since(h, e, "case")' <=> Since(h, e, "case") /\ "case" \notin read
    BY <2>2 DEF Facts
  <2>4. UNCHANGED <<active, excuse, punch, matched, plan, summarised, absence, presence>>
    BY <1>2
  <2> HIDE DEF Since
  <2>5. at = "sorting" => Sorted(h, e)'
    BY <1>3, <1>4, <2>4 DEF Sorted
  <2>6. at = "looping" /\ e \in todo => Read(h, e)'
    <3> SUFFICES ASSUME at = "looping", e \in todo PROVE Read(h, e)'
      OBVIOUS
    <3>1. CASE work[h].pass = "planned"
      <4>1. e \in work[h].todo /\ Planned(e) /\ Sorted(h, e) /\ "status" \notin read
        BY <1>3, <2>1, <3>1 DEF Fits
      <4>2. e \in active \/ Since(h, e, "status")'
        BY <2>3, <3>1, <4>1 DEF Sorted
      <4> QED BY <1>4, <2>4, <3>1, <4>1, <4>2 DEF Read, Planned
    <3>2. CASE work[h].pass = "guess"
      <4>1. /\ e \in work[h].todo /\ ~Justified(e) /\ Sorted(h, e)
            /\ "status" \notin read /\ "plan" \notin read
        BY <1>3, <2>1, <3>2 DEF Fits
      <4>2. /\ e \in active \/ Since(h, e, "status")'
            /\ plan[e] = "none" \/ Since(h, e, "plan")'
            /\ excuse[e] # "leave"
        BY <2>3, <3>2, <4>1 DEF Sorted, Justified
      <4> QED BY <1>4, <2>4, <3>2, <4>2 DEF Read
    <3>3. CASE work[h].pass \in {"inactive", "rest", "justified", "punched"}
      BY <1>3, <1>4, <2>4, <3>3 DEF Read, Pending
    <3>4. work[h].pass \in {"planned", "guess", "inactive", "rest", "justified", "punched"}
      BY <1>3
    <3> QED BY <3>1, <3>2, <3>3, <3>4
  <2>7. at = "looping" /\ e \notin todo /\ Untouched(h, e)' => Handled(h, work[h].pass, e)'
    <3> SUFFICES ASSUME at = "looping", e \notin todo, Untouched(h, e)'
                 PROVE  Handled(h, work[h].pass, e)'
      OBVIOUS
    <3>1. /\ ~Since(h, e, "status")' /\ ~Since(h, e, "plan")'
      BY DEF Untouched, Facts
    <3> QED BY <1>3, <1>4, <2>1, <2>3, <2>4, <3>1 DEF Fits, Sorted, Handled, Planned,
               Justified, Pending
  <2> QED BY <1>4, <2>5, <2>6, <2>7 DEF Fits
<1>6. at = "sorting" => work[h].pass \in {"planned", "guess"}
  BY <1>3
<1> HIDE DEF From
<1> QED BY <1>2, <1>3, <1>4, <1>5, <1>6, OwnStep

LEMMA ChecksStep ==
  ASSUME IInv, NEW h \in Handlers, NEW d \in Employees, Checks(h, d)
  PROVE  Shape' /\ Readings'
<1> USE DEF facts, cases
<1>1. TypeOK /\ UNCHANGED <<facts, cases>>
  BY DEF IInv, Checks
<1>2. /\ work[h].held = {} /\ d \in work[h].todo /\ work[h].at = "looping"
      /\ work[h].does # "nothing" /\ work[h].pass \in Passes
  BY <1>1 DEF Checks, TypeOK, Work
<1>3. /\ \A g \in Handlers : g # h => work'[g] = work[g]
      /\ work'[h].does = work[h].does /\ work'[h].pass = work[h].pass
      /\ work'[h].at = work[h].at /\ work'[h].later = work[h].later
      /\ work'[h].todo = work[h].todo \ {d}
      /\ work'[h].held = IF Holds(h, d) THEN {d} ELSE {}
      /\ work'[h].stirred = work[h].stirred \ ({d} \X Rereads(work[h].pass))
  BY <1>1, ChecksFields
<1>4. UNCHANGED <<active, excuse, punch, matched, plan, summarised, absence, presence>>
  BY <1>1
<1>5. ASSUME NEW e \in Employees
      PROVE  Fits(h, e)'
  <2>1. Fits(h, e)
    BY <1>2 DEF IInv, Readings
  <2>2. Counted(h, e)' <=> Counted(h, e)
    BY <1>3, <1>4 DEF Counted
  <2>3. CASE e # d
    <3>1. \A fact \in Facts : Since(h, e, fact)' <=> Since(h, e, fact)
      BY <1>3, <2>3 DEF Since
    <3>2. e \notin work'[h].held
      BY <1>3, <2>3
    <3>3. /\ Since(h, e, "status")' <=> Since(h, e, "status")
          /\ Since(h, e, "excuse")' <=> Since(h, e, "excuse")
          /\ Since(h, e, "punch")' <=> Since(h, e, "punch")
          /\ Since(h, e, "plan")' <=> Since(h, e, "plan")
          /\ Since(h, e, "case")' <=> Since(h, e, "case")
      BY <3>1 DEF Facts
    <3>4. Untouched(h, e)' <=> Untouched(h, e)
      BY <3>1 DEF Untouched
    <3> HIDE DEF Since, Counted
    <3>5. Read(h, e)' <=> Read(h, e)
      BY <1>3, <1>4, <3>3 DEF Read, Pending
    <3>6. Handled(h, work[h].pass, e)' <=> Handled(h, work[h].pass, e)
      BY <1>3, <1>4, <2>2 DEF Handled, Pending
    <3> HIDE DEF Read, Handled, Untouched
    <3> QED BY <1>2, <1>3, <2>1, <2>3, <3>2, <3>4, <3>5, <3>6 DEF Fits
  <2>4. CASE e = d
    <3>1. Read(h, d)
      BY <1>2, <2>1, <2>4 DEF Fits
    <3>2. \A fact \in Facts :
             Since(h, d, fact)' <=> Since(h, d, fact) /\ fact \notin Rereads(work[h].pass)
      BY <1>3 DEF Since
    <3>3. /\ Since(h, d, "status")' <=> Since(h, d, "status")
          /\ Since(h, d, "plan")' <=> Since(h, d, "plan")
          /\ Since(h, d, "case")' <=> Since(h, d, "case")
          /\ work[h].pass # "justified" =>
                (Since(h, d, "excuse")' <=> Since(h, d, "excuse"))
          /\ work[h].pass = "planned" =>
                (Since(h, d, "punch")' <=> Since(h, d, "punch"))
      BY <1>2, <3>2 DEF Facts, Rereads, Passes
    <3> HIDE DEF Since, Counted
    <3>4. Read(h, d)'
      BY <1>3, <1>4, <3>1, <3>3 DEF Read, Pending
    <3>5. Holds(h, d) => Checked(h, d)'
      BY <1>3, <1>4, <2>2, <2>4 DEF Holds, Checked, Justified, Evidence
    <3>6. ~Holds(h, d) => Handled(h, work[h].pass, d)'
      BY <1>2, <1>3, <1>4, <2>2, <2>4 DEF Holds, Handled, Justified, Evidence, Passes
    <3> HIDE DEF Read, Checked, Holds, Handled
    <3> QED BY <1>2, <1>3, <2>4, <3>4, <3>5, <3>6 DEF Fits
  <2> QED BY <2>3, <2>4
<1>6. /\ work'[h].at = "looping" /\ work'[h].does # "nothing"
      /\ work'[h].held \cap work'[h].todo = {}
  BY <1>2, <1>3
<1> QED BY <1>1, <1>3, <1>5, <1>6, OwnStep

LEMMA WriteStep ==
  ASSUME IInv, NEW h \in Handlers, NEW d \in Employees,
         FindsAbsence(h, d) \/ FindsPresence(h, d) \/ Rejects(h, d)
  PROVE  Shape' /\ Readings' /\ Undecided'
<1> USE DEF facts, cases
<1>1. /\ TypeOK /\ Writes(h, d) /\ UNCHANGED facts
      /\ work[h].at = "looping" /\ work[h].held = {d} /\ d \notin work[h].todo
      /\ work[h].does # "nothing" /\ work[h].pass \in Passes
  BY DEF IInv, TypeOK, Work, Shape, FindsAbsence, FindsPresence, Rejects, Writes
<1>2. absence \in [Employees -> Case] /\ presence \in [Employees -> Case]
  BY <1>1 DEF TypeOK
<1>3. \A e \in Employees \ {d} : absence'[e] = absence[e] /\ presence'[e] = presence[e]
  BY <1>2 DEF FindsAbsence, FindsPresence, Rejects
<1>4. /\ \A g \in Handlers :
           /\ g # h => SameRows(work', work, g)
           /\ work'[g].later = work[g].later
           /\ work'[g].stirred = IF g # h /\ work[g].does # "nothing"
                                 THEN work[g].stirred \cup {<<d, "case">>}
                                 ELSE work[g].stirred
      /\ work'[h].does = work[h].does /\ work'[h].pass = work[h].pass
      /\ work'[h].at = work[h].at /\ work'[h].todo = work[h].todo
      /\ work'[h].held = {}
  BY <1>1, WritesFields
<1>5. Shape'
  <2> SUFFICES ASSUME NEW g \in Handlers
               PROVE  /\ work'[g].held # {} =>
                            work'[g].at = "looping" /\ work'[g].does # "nothing"
                      /\ work'[g].held \cap work'[g].todo = {}
                      /\ work'[g].at = "sorting" => work'[g].pass \in {"planned", "guess"}
    BY DEF Shape
  <2>1. CASE g = h
    BY <1>1, <1>4, <2>1
  <2>2. CASE g # h
    BY <1>4, <2>2 DEF SameRows, IInv, Shape
  <2> QED BY <2>1, <2>2
<1>6. /\ work[h].pass \in {"planned", "guess"} => absence'[d].status # "none"
      /\ work[h].pass = "rest" => presence'[d].status # "none"
      /\ work[h].pass \in {"inactive", "justified", "punched"} =>
            absence'[d].status = "REJECTED"
      /\ absence'[d].status \in {"none", "PENDING_REVIEW"} => absence'[d].by = "nobody"
      /\ presence'[d].status \in {"none", "PENDING_REVIEW"} => presence'[d].by = "nobody"
      /\ absence[d].status # "none" =>
            absence'[d].status # "none" /\ absence'[d].basis = absence[d].basis
  <2>1. /\ absence[d].status \in {"none", "PENDING_REVIEW"} => absence[d].by = "nobody"
        /\ presence[d].status \in {"none", "PENDING_REVIEW"} => presence[d].by = "nobody"
    BY DEF IInv, Undecided
  <2>2. CASE FindsAbsence(h, d)
    <3>1. PICK basis : absence'[d] = Found(absence[d], basis)
      BY <1>2, <2>2 DEF FindsAbsence
    <3>2. presence' = presence /\ work[h].pass \in {"planned", "guess"}
      BY <2>2 DEF FindsAbsence
    <3> QED BY <2>1, <3>1, <3>2 DEF Found
  <2>3. CASE FindsPresence(h, d)
    <3>1. presence'[d] = Found(presence[d], "rest_schedule_with_punch")
      BY <1>2, <2>3 DEF FindsPresence
    <3>2. absence' = absence /\ work[h].pass = "rest"
      BY <2>3 DEF FindsPresence
    <3> QED BY <2>1, <3>1, <3>2 DEF Found
  <2>4. CASE Rejects(h, d)
    <3>1. absence' = [absence EXCEPT ![d].status = "REJECTED", ![d].by = "system"]
      BY <2>4 DEF Rejects
    <3>2. absence'[d].status = "REJECTED" /\ absence'[d].basis = absence[d].basis
      BY <1>2, <3>1 DEF Case
    <3>3. presence' = presence /\ work[h].pass \in {"inactive", "justified", "punched"}
      BY <2>4 DEF Rejects
    <3> QED BY <2>1, <3>2, <3>3
  <2> QED BY <2>2, <2>3, <2>4
<1>7. Undecided'
  BY <1>3, <1>6 DEF IInv, Undecided
<1>8. ASSUME NEW g \in Handlers, work[g].does # "nothing", NEW e \in Employees,
             g # h \/ e # d
      PROVE  Tracked(g, e)
  <2>1. /\ Counted(g, e)' <=> Counted(g, e)
        /\ \A fact \in Facts : Since(g, e, fact) => Since(g, e, fact)'
        /\ UNCHANGED <<active, excuse, punch, matched, plan, summarised>>
    BY <1>1, <1>4 DEF Counted, Since
  <2>2. CASE e # d
    <3>1. absence'[e] = absence[e] /\ presence'[e] = presence[e]
      BY <1>3, <2>2
    <3> HIDE DEF Counted, Since
    <3> QED BY <2>1, <3>1 DEF Tracked
  <2>3. CASE e = d
    <3>1. Since(g, d, "case")'
      BY <1>4, <1>8, <2>3 DEF Since
    <3> HIDE DEF Counted, Since
    <3> QED BY <1>6, <2>1, <2>3, <3>1 DEF Tracked
  <2> QED BY <2>2, <2>3
<1>9. ASSUME NEW g \in Handlers, work'[g].does # "nothing", NEW e \in Employees
      PROVE  Fits(g, e)'
  <2>1. work[g].does # "nothing"
    BY <1>4, <1>9 DEF SameRows
  <2>2. Fits(g, e)
    BY <2>1 DEF IInv, Readings
  <2>3. CASE g # h
    BY <1>4, <1>8, <2>1, <2>2, <2>3, FitsStays
  <2>4. CASE g = h /\ e = d
    <3>1. Handled(h, work[h].pass, d)'
      BY <1>1, <1>4, <1>6 DEF Handled, Pending, Passes
    <3> HIDE DEF Handled
    <3> QED BY <1>1, <1>4, <2>4, <3>1 DEF Fits
  <2>5. CASE g = h /\ e # d
    <3>1. Tracked(h, e) /\ e \notin work[h].held
      BY <1>1, <1>8, <2>5
    <3>2. \A fact \in Facts : Since(h, e, fact)' <=> Since(h, e, fact)
      BY <1>4 DEF Since
    <3>3. Counted(h, e)' <=> Counted(h, e)
      BY <1>1, <1>4 DEF Counted
    <3>4. /\ absence'[e] = absence[e] /\ presence'[e] = presence[e]
          /\ UNCHANGED <<active, excuse, punch, matched, plan, summarised>>
      BY <1>1, <1>3, <2>5
    <3>5. /\ Since(h, e, "status")' <=> Since(h, e, "status")
          /\ Since(h, e, "excuse")' <=> Since(h, e, "excuse")
          /\ Since(h, e, "punch")' <=> Since(h, e, "punch")
          /\ Since(h, e, "plan")' <=> Since(h, e, "plan")
          /\ Since(h, e, "case")' <=> Since(h, e, "case")
      BY <3>2 DEF Facts
    <3>6. Untouched(h, e)' <=> Untouched(h, e)
      BY <3>2 DEF Untouched
    <3> HIDE DEF Since, Counted
    <3>7. Read(h, e) => Read(h, e)'
      BY <1>4, <3>4, <3>5 DEF Read, Pending
    <3>8. Handled(h, work[h].pass, e)' <=> Handled(h, work[h].pass, e)
      BY <1>4, <3>3, <3>4 DEF Handled, Pending
    <3> HIDE DEF Read, Handled, Untouched
    <3> QED BY <1>1, <1>4, <2>2, <2>5, <3>1, <3>6, <3>7, <3>8 DEF Fits
  <2> QED BY <2>3, <2>4, <2>5
<1>10. Readings'
  BY <1>9 DEF Readings
<1> QED BY <1>5, <1>7, <1>10

LEMMA ReviewStep ==
  ASSUME IInv, NEW d \in Employees, NEW verdict \in {"CONFIRMED", "REJECTED"},
         Review(d, verdict) \/ ReviewPresence(d, verdict)
  PROVE  Shape' /\ Readings' /\ Undecided'
<1> USE DEF facts
<1>1. /\ absence \in [Employees -> Case] /\ presence \in [Employees -> Case]
      /\ UNCHANGED facts /\ work' = Stir(d, "case", {}) /\ "case" \in Facts
  BY DEF IInv, TypeOK, Review, ReviewPresence, Facts
<1>2. \A e \in Employees \ {d} : absence'[e] = absence[e] /\ presence'[e] = presence[e]
  BY <1>1 DEF Review, ReviewPresence
<1>3. /\ absence'[d] # absence[d] =>
            /\ absence'[d].status = verdict
            /\ absence'[d].basis = absence[d].basis
      /\ presence'[d] # presence[d] => presence'[d].status = verdict
  <2>1. CASE Review(d, verdict)
    <3>1. absence' = [absence EXCEPT ![d].status = verdict, ![d].by = "reviewer"]
      BY <2>1 DEF Review
    <3>2. presence' = presence
      BY <2>1 DEF Review
    <3> QED BY <1>1, <3>1, <3>2 DEF Case
  <2>2. CASE ReviewPresence(d, verdict)
    <3>1. presence' = [presence EXCEPT ![d].status = verdict, ![d].by = "reviewer"]
      BY <2>2 DEF ReviewPresence
    <3>2. absence' = absence
      BY <2>2 DEF ReviewPresence
    <3> QED BY <1>1, <3>1, <3>2 DEF Case
  <2> QED BY <2>1, <2>2
<1>4. Undecided'
  BY <1>2, <1>3 DEF IInv, Undecided
<1>5. ASSUME NEW g \in Handlers
      PROVE  /\ SameRows(work', work, g)
             /\ work'[g].later = work[g].later
             /\ work[g].does # "nothing" =>
                   work'[g].stirred = work[g].stirred \cup {<<d, "case">>}
  <2> DEFINE new == Stir(d, "case", {})
  <2>1. /\ SameRows(new, work, g)
        /\ new[g].later = work[g].later
        /\ new[g].stirred = IF g \notin {} /\ work[g].does # "nothing"
                            THEN work[g].stirred \cup {<<d, "case">>}
                            ELSE work[g].stirred
    BY <1>1, StirFields DEF IInv
  <2>2. work' = new
    BY <1>1
  <2> HIDE DEF new
  <2> QED BY <2>1, <2>2
<1>6. ASSUME NEW g \in Handlers, work[g].does # "nothing", NEW e \in Employees
      PROVE  Tracked(g, e)
  <2>1. /\ Counted(g, e)' <=> Counted(g, e)
        /\ \A fact \in Facts : Since(g, e, fact) => Since(g, e, fact)'
        /\ UNCHANGED <<active, excuse, punch, matched, plan, summarised>>
        /\ e = d => Since(g, e, "case")'
    BY <1>1, <1>5, <1>6 DEF Counted, Since
  <2>2. CASE e # d
    <3>1. absence'[e] = absence[e] /\ presence'[e] = presence[e]
      BY <1>2, <2>2
    <3> HIDE DEF Counted, Since
    <3> QED BY <2>1, <3>1 DEF Tracked
  <2>3. CASE e = d
    <3> HIDE DEF Counted, Since
    <3> QED BY <1>3, <2>1, <2>3 DEF Tracked
  <2> QED BY <2>2, <2>3
<1>7. Shape' /\ Readings'
  BY <1>5, <1>6, TrackedStep
<1> QED BY <1>4, <1>7

LEMMA InvariantStep == IInv /\ [Next]_vars => IInv'
<1> SUFFICES ASSUME IInv, [Next]_vars PROVE Shape' /\ Readings' /\ Undecided'
  BY TypeStep DEF IInv
<1>1. ASSUME UNCHANGED cases PROVE Undecided'
  BY <1>1 DEF IInv, Undecided, cases
<1>2. ASSUME NEW d \in Employees,
             \/ ResignsOrReturns(d) \/ Declares(d) \/ PunchComesIn(d)
             \/ Plan(d) \/ Summarises(d)
      PROVE  Shape' /\ Readings' /\ Undecided'
  <2>1. UNCHANGED cases
    BY <1>2 DEF ResignsOrReturns, Declares, PunchComesIn, Plan, Summarises, Change
  <2> QED BY <1>1, <1>2, <2>1, ChangeStep
<1>3. ASSUME NEW h \in Handlers, NEW does \in {"detect", "list"}, Starts(h, does)
      PROVE  Shape' /\ Readings' /\ Undecided'
  <2>1. TypeOK /\ Enter(h, does, "inactive") /\ UNCHANGED <<facts, cases>>
        /\ "inactive" \in Passes
    BY <1>3 DEF IInv, Starts, Passes
  <2>2. UNCHANGED cases
    BY <2>1
  <2> QED BY <1>1, <2>1, <2>2, EnterFields, EmptyStep
<1>4. ASSUME NEW h \in Handlers,
             \/ InactiveReads(h) \/ PlannedReadsEmployees(h) \/ PlannedReads(h)
             \/ RestReads(h) \/ GuessReadsEmployees(h) \/ GuessReadsJustified(h)
             \/ PendingReads(h)
      PROVE  Shape' /\ Readings' /\ Undecided'
  <2>1. UNCHANGED cases
    BY <1>4 DEF InactiveReads, PlannedReadsEmployees, PlannedReads, RestReads,
         GuessReadsEmployees, GuessReadsJustified, PendingReads
  <2> QED BY <1>1, <1>4, <2>1, ReadStep
<1>5. ASSUME NEW h \in Handlers, NEW d \in Employees, Checks(h, d)
      PROVE  Shape' /\ Readings' /\ Undecided'
  <2>1. UNCHANGED cases
    BY <1>5 DEF Checks
  <2> QED BY <1>1, <1>5, <2>1, ChecksStep
<1>6. ASSUME NEW h \in Handlers, NextPass(h) \/ Stops(h) \/ Fails(h)
      PROVE  Shape' /\ Readings' /\ Undecided'
  <2>1. TypeOK /\ UNCHANGED <<facts, cases>>
    BY <1>6 DEF IInv, NextPass, Stops, Fails
  <2>2. \/ \E does \in {"detect", "list"}, pass \in Passes : Enter(h, does, pass)
        \/ work' = [work EXCEPT ![h] = Free]
    BY <1>6 DEF NextPass, Stops, Fails, Passes
  <2>3. /\ \A g \in Handlers : g # h => work'[g] = work[g]
        /\ work'[h].at = "reading" /\ work'[h].held = {} /\ work'[h].todo = {}
    BY <2>1, <2>2, EnterFields, FreeFields
  <2> QED BY <1>1, <2>1, <2>3, EmptyStep
<1>7. CASE UNCHANGED vars
  <2>1. /\ \A g \in Handlers : SameRows(work', work, g)
        /\ \A g \in Handlers, e \in Employees : Tracked(g, e)
    BY <1>7 DEF vars, facts, cases, SameRows, Tracked, Since, Counted
  <2>2. Undecided'
    BY <1>1, <1>7 DEF vars
  <2> QED BY <2>1, <2>2, TrackedStep
<1> QED BY <1>2, <1>3, <1>4, <1>5, <1>6, <1>7, WriteStep, ReviewStep DEF Next

LEMMA InvariantInit == Init => IInv
BY TypeInit DEF Init, IInv, Shape, Readings, Undecided, Free, NoCase

LEMMA Invariant == Spec => []IInv
BY InvariantInit, InvariantStep, PTL DEF Spec

-----------------------------------------------------------------------------
(* The properties                                                          *)

\* A pass that ends has left every case it has to leave, whatever the number
\* of detections and lists under way, except of the employees of whom something
\* changed after the pass last read it (detectForToday, list).
THEOREM PassesAreComplete == Spec => []PassIsComplete
<1>1. ASSUME IInv, NEW h \in Handlers, NEW pass \in Passes, PassEnds(h, pass),
             NEW e \in Employees, \A fact \in Facts : ~Since(h, e, fact)
      PROVE  Handled(h, pass, e)
  <2>1. /\ work[h].does # "nothing" /\ work[h].pass = pass /\ work[h].at = "looping"
        /\ work[h].todo = {} /\ work[h].held = {}
    BY <1>1 DEF PassEnds, In
  <2>2. Fits(h, e) /\ Untouched(h, e)
    BY <1>1, <2>1 DEF IInv, Readings, Untouched
  <2> QED BY <2>1, <2>2 DEF Fits
<1>2. IInv => PassIsComplete
  BY <1>1 DEF PassIsComplete
<1> QED BY <1>2, Invariant, PTL

\* What a handler writes rests on what it has read.
LEMMA WritesWhatItRead ==
  ASSUME IInv, NEW h \in Handlers, NEW e \in Employees, Writes(h, e)
  PROVE  Read(h, e) /\ Checked(h, e)
<1>1. work[h].at = "looping" /\ work[h].held = {e}
  BY DEF Writes
<1>2. work[h].does # "nothing"
  BY <1>1 DEF IInv, Shape
<1>3. Fits(h, e)
  BY <1>2 DEF IInv, Readings
<1> QED BY <1>1, <1>3 DEF Fits

\* A case is opened of somebody who is active, not on leave and absent (or there
\* on a day of rest), and rejected automatically on its ground, unless the very
\* fact in question has changed after it was last read, whatever else changes and
\* however many handlers are under way (importPlannedAbsences, detectForToday,
\* autoReject*).
THEOREM CasesAreFounded == Spec => CaseIsFounded
<1> DEFINE Founded(h, e) ==
        /\ FindsAbsence(h, e) =>
             /\ e \in active \/ Since(h, e, "status")
             /\ excuse[e] # "leave" \/ Since(h, e, "excuse")
             /\ NoShow(h, e) \/ Since(h, e, "plan") \/ Since(h, e, "punch")
        /\ FindsPresence(h, e) =>
             /\ e \in active \/ Since(h, e, "status")
             /\ plan[e] = "rest" \/ Since(h, e, "plan")
             /\ "day" \in punch[e]
        /\ Rejects(h, e) =>
             CASE work[h].pass = "inactive" -> e \notin active \/ Since(h, e, "status")
               [] work[h].pass = "justified" -> excuse[e] = "leave" \/ Since(h, e, "excuse")
               [] OTHER -> Evidence(e) \/ Since(h, e, "summary")
<1>1. ASSUME IInv, NEW h \in Handlers, NEW e \in Employees PROVE Founded(h, e)
  <2> HIDE DEF Since
  <2>1. Writes(h, e) => Read(h, e) /\ Checked(h, e)
    BY <1>1, WritesWhatItRead
  <2>2. ASSUME FindsAbsence(h, e)
        PROVE  /\ e \in active \/ Since(h, e, "status")
               /\ excuse[e] # "leave" \/ Since(h, e, "excuse")
               /\ NoShow(h, e) \/ Since(h, e, "plan") \/ Since(h, e, "punch")
    <3>1. Writes(h, e) /\ work[h].pass \in {"planned", "guess"}
      BY <2>2 DEF FindsAbsence
    <3>2. Read(h, e) /\ Checked(h, e)
      BY <2>1, <3>1
    <3> HIDE DEF Counted
    <3> QED BY <3>1, <3>2 DEF Read, Checked, NoShow
  <2>3. ASSUME FindsPresence(h, e)
        PROVE  /\ e \in active \/ Since(h, e, "status")
               /\ plan[e] = "rest" \/ Since(h, e, "plan")
               /\ "day" \in punch[e]
    BY <2>1, <2>3 DEF FindsPresence, Read, Checked
  <2>4. ASSUME Rejects(h, e)
        PROVE  CASE work[h].pass = "inactive" -> e \notin active \/ Since(h, e, "status")
                 [] work[h].pass = "justified" -> excuse[e] = "leave" \/ Since(h, e, "excuse")
                 [] OTHER -> Evidence(e) \/ Since(h, e, "summary")
    <3>1. Writes(h, e) /\ work[h].pass \in {"inactive", "justified", "punched"}
      BY <2>4 DEF Rejects
    <3>2. Read(h, e) /\ Checked(h, e)
      BY <2>1, <3>1
    <3> HIDE DEF Evidence
    <3> QED BY <3>1, <3>2 DEF Read, Checked
  <2> QED BY <2>2, <2>3, <2>4
<1>2. IInv => \A h \in Handlers, e \in Employees : Founded(h, e)
  BY <1>1
<1> QED BY <1>2, Invariant, PTL DEF Spec, CaseIsFounded

\* A decision of the staff is changed by another one, or by an automatic
\* rejection that had read the case before it; an upsert of the detection never
\* changes it (confirm, reject, autoReject*).
THEOREM DecisionsStand == Spec => DecisionStands
<1> DEFINE Stands(e) ==
        /\ absence[e].by = "reviewer" /\ absence'[e] # absence[e]
             => \/ \E verdict \in {"CONFIRMED", "REJECTED"} : Review(e, verdict)
                \/ \E h \in Handlers : Rejects(h, e) /\ Since(h, e, "case")
        /\ presence[e].by = "reviewer" /\ presence'[e] # presence[e]
             => \E verdict \in {"CONFIRMED", "REJECTED"} : ReviewPresence(e, verdict)
<1>1. ASSUME IInv, [Next]_vars, NEW e \in Employees PROVE Stands(e)
  <2> USE DEF cases
  <2>1. /\ absence \in [Employees -> Case] /\ presence \in [Employees -> Case]
        /\ absence[e].status \in {"none", "PENDING_REVIEW"} => absence[e].by = "nobody"
        /\ presence[e].status \in {"none", "PENDING_REVIEW"} => presence[e].by = "nobody"
    BY <1>1 DEF IInv, TypeOK, Undecided
  <2>2. ASSUME NEW h \in Handlers, NEW d \in Employees, FindsAbsence(h, d)
        PROVE  Stands(e)
    <3>1. PICK basis : absence' = [absence EXCEPT ![d] = Found(@, basis)]
      BY <2>2 DEF FindsAbsence
    <3>2. presence' = presence
      BY <2>2 DEF FindsAbsence
    <3> QED BY <2>1, <3>1, <3>2 DEF Found
  <2>3. ASSUME NEW h \in Handlers, NEW d \in Employees, FindsPresence(h, d)
        PROVE  Stands(e)
    <3>1. /\ absence' = absence
          /\ presence' = [presence EXCEPT ![d] = Found(@, "rest_schedule_with_punch")]
      BY <2>3 DEF FindsPresence
    <3> QED BY <2>1, <3>1 DEF Found
  <2>4. ASSUME NEW h \in Handlers, NEW d \in Employees, Rejects(h, d)
        PROVE  Stands(e)
    <3>1. /\ presence' = presence
          /\ \A x \in Employees : x # d => absence'[x] = absence[x]
          /\ Writes(h, d) /\ work[h].pass \in {"inactive", "justified", "punched"}
      BY <2>1, <2>4 DEF Rejects
    <3>2. CASE e # d
      BY <3>1, <3>2
    <3>3. CASE e = d /\ ~Since(h, e, "case")
      <4>1. Read(h, d)
        BY <1>1, <3>1, WritesWhatItRead
      <4>2. Pending(d)
        BY <3>1, <3>3, <4>1 DEF Read
      <4> QED BY <2>1, <3>1, <3>3, <4>2 DEF Pending
    <3>4. CASE e = d /\ Since(h, e, "case")
      BY <2>4, <3>1, <3>4
    <3> QED BY <3>2, <3>3, <3>4
  <2>5. ASSUME NEW d \in Employees, NEW verdict \in {"CONFIRMED", "REJECTED"},
               Review(d, verdict)
        PROVE  Stands(e)
    <3>1. presence' = presence /\ (e # d => absence'[e] = absence[e])
      BY <2>1, <2>5 DEF Review
    <3> QED BY <2>5, <3>1
  <2>6. ASSUME NEW d \in Employees, NEW verdict \in {"CONFIRMED", "REJECTED"},
               ReviewPresence(d, verdict)
        PROVE  Stands(e)
    <3>1. absence' = absence /\ (e # d => presence'[e] = presence[e])
      BY <2>1, <2>6 DEF ReviewPresence
    <3> QED BY <2>6, <3>1
  <2>7. ASSUME UNCHANGED cases PROVE Stands(e)
    BY <2>7
  <2> QED
    BY <1>1, <2>2, <2>3, <2>4, <2>5, <2>6, <2>7 DEF Next, vars, ResignsOrReturns,
       Declares, PunchComesIn, Plan, Summarises, Change, Starts, InactiveReads,
       PlannedReadsEmployees, PlannedReads, RestReads, GuessReadsEmployees,
       GuessReadsJustified, PendingReads, Checks, NextPass, Stops, Fails
<1>2. IInv /\ [Next]_vars => \A e \in Employees : Stands(e)
  BY <1>1
<1> QED BY <1>2, Invariant, PTL DEF Spec, DecisionStands

-----------------------------------------------------------------------------
(* Manual declarations                                                     *)

\* What a request has in hand: what it declares is founded, and what it has asked did not
\* refuse, unless that has changed since.
Has(w) ==
    /\ w.op \in {"declare", "edit"} => w.id \in Rows /\ w.row \in Row
    /\ w.op = "manual" => w.id \in Dates /\ w.by \in Actors
    /\ w.op = "announce" => w.id \in Rows \cup Dates
    /\ w.op = "declare" /\ ~w.since =>
         /\ Ordered(w.row.type, w.row.start, w.row.end)
         /\ ~Refused(w.row.type, w.row.start, w.row.end)
    /\ w.op = "manual" /\ ~w.since => \A question \in w.asked : ~Refuses(question, w.id)

\* The invariant of the declarations and of their requests.
ManualInv ==
    /\ ManualTypeOK
    /\ \A q \in Requests : Has(request[q])
    /\ PendingIsAnnounced

\* Nothing is in hand before the first request.
LEMMA NoRequestIsTyped ==
    NoRequest \in Request /\ NoRequest.op = "none" /\ Has(NoRequest) /\ Has(NoRequest)'
BY DEF NoRequest, Request, Has

\* The invariant holds before anything is declared.
LEMMA ManualInvInit == ManualInit => ManualInv
<1> SUFFICES ASSUME ManualInit PROVE ManualInv
  OBVIOUS
<1>1. ManualTypeOK
  BY NoRequestIsTyped, ManualAssumption DEF ManualInit, ManualTypeOK, NoManual
<1>2. PendingIsAnnounced
  BY DEF ManualInit, PendingIsAnnounced, PendingApprovals, Live2, Live, NoRow, NoManual, Types
<1> QED BY <1>1, <1>2, NoRequestIsTyped DEF ManualInit, ManualInv

\* An approver answers at once.
LEMMA ApprovalTyped == \A by : ApprovalFor(by) \in RowStatuses
BY DEF ApprovalFor, RowStatuses

\* The other requests that read note a change, and lose nothing of what they have to write.
LEMMA NotedFields ==
    ASSUME request \in [Requests -> Request], NEW q, NEW p \in Requests
    PROVE  LET v == request[p]
               w == Noted(request, q)[p] IN
           /\ w \in Request /\ w.op = v.op /\ w.id = v.id /\ w.row = v.row /\ w.by = v.by
           /\ w.asked = v.asked /\ w.existing = v.existing
           /\ p # q /\ v.op \in {"declare", "edit", "manual"} => w.since
           /\ v.op \notin {"declare", "edit", "manual"} => w = v
<1> DEFINE v == request[p]
           t == [v EXCEPT !.since = TRUE]
<1>1. v \in Request
  OBVIOUS
<1>2. /\ t \in Request /\ t.op = v.op /\ t.id = v.id /\ t.row = v.row /\ t.by = v.by
      /\ t.asked = v.asked /\ t.existing = v.existing /\ t.since
  <2> HIDE DEF v
  <2> QED BY <1>1 DEF Request
<1>3. Noted(request, q)[p] = IF p # q /\ v.op \in {"declare", "edit", "manual"} THEN t ELSE v
  BY DEF Noted
<1> HIDE DEF t, v
<1> QED BY <1>1, <1>2, <1>3 DEF v

\* What a request has in hand outlasts any change it notes.
LEMMA HasLasts ==
    ASSUME NEW v \in Request, NEW w \in Request, Has(v),
           w.op = v.op, w.id = v.id, w.row = v.row, w.by = v.by, w.asked = v.asked,
           w.op \in {"declare", "manual"} => w.since
    PROVE  Has(w)'
BY DEF Has

\* While no fact and no declaration changes, what is in hand stays so.
LEMMA SameFacts ==
    ASSUME UNCHANGED <<dayFacts, row, manual>>, NEW v \in Request, Has(v)
    PROVE  Has(v)'
<1>1. \A type, start, end : Refused(type, start, end)' <=> Refused(type, start, end)
  BY DEF Refused, dayFacts
<1>2. SickDays' = SickDays
  BY DEF SickDays, Live
<1>3. \A question \in Questions : \A d : Refuses(question, d)' <=> Refuses(question, d)
  BY <1>2 DEF Refuses, Questions, dayFacts
<1>4. v.asked \subseteq Questions
  BY DEF Request
<1> QED BY <1>1, <1>3, <1>4 DEF Has

\* A request begins, or answers one of its queries: no declaration is changed by it.
LEMMA QuietStep ==
    ASSUME ManualInv, NEW q \in Requests, NEW w \in Request, Has(w),
           request' = [request EXCEPT ![q] = w], request[q].op # "announce",
           begun' \in 0 .. MaxRequests,
           UNCHANGED <<dayFacts, row, manual, announced, lost, altered>>
    PROVE  ManualInv'
<1>1. /\ request' \in [Requests -> Request] /\ request'[q] = w
      /\ \A p \in Requests \ {q} : request'[p] = request[p]
  BY DEF ManualInv, ManualTypeOK
<1>2. ManualTypeOK'
  BY <1>1 DEF ManualInv, ManualTypeOK, dayFacts
<1>3. \A v \in Request : Has(v) => Has(v)'
  BY SameFacts
<1>4. \A p \in Requests : Has(request[p])'
  <2>1. SUFFICES ASSUME NEW p \in Requests PROVE Has(request[p])'
    OBVIOUS
  <2>2. PICK v \in Request : v = request'[p]
    BY <1>1
  <2>3. Has(v)
    BY <1>1, <2>2 DEF ManualInv
  <2>4. Has(v)'
    BY <1>3, <2>3
  <2> QED BY <2>2, <2>4 DEF Has
<1>5. PendingIsAnnounced'
  <2>1. SUFFICES ASSUME NEW id \in PendingApprovals, id \notin announced \cup lost
                 PROVE  \E p \in Requests : request'[p].op = "announce" /\ request'[p].id = id
    BY DEF PendingIsAnnounced, PendingApprovals, Live2, Live, StatusOf, dayFacts
  <2>2. PICK p \in Requests : request[p].op = "announce" /\ request[p].id = id
    BY <2>1 DEF ManualInv, PendingIsAnnounced
  <2> QED BY <1>1, <2>2
<1> QED BY <1>2, <1>4, <1>5 DEF ManualInv

\* A declaration begins on facts that found it.
LEMMA BeginsDeclaringStep ==
    ASSUME ManualInv, NEW q \in Requests, NEW x \in Rows, NEW type \in Types, NEW start \in Dates,
           NEW end \in Dates, NEW by \in Actors, BeginsDeclaring(q, x, type, start, end, by)
    PROVE  ManualInv'
<1> DEFINE declared == [type |-> type, start |-> start, end |-> end,
                        status |-> ApprovalFor(by), owner |-> by]
           t == [NoRequest EXCEPT !.op = "declare", !.by = by, !.id = x, !.row = declared]
<1>1. /\ declared \in Row /\ declared.type = type /\ declared.start = start /\ declared.end = end
  BY ApprovalTyped DEF Row
<1>2. request' = [request EXCEPT ![q] = t]
  BY DEF BeginsDeclaring, Begins
<1> HIDE DEF declared
<1>3. t \in Request /\ t.op = "declare" /\ t.id = x /\ t.row = declared
  BY <1>1, NoRequestIsTyped DEF Request
<1> HIDE DEF t
<1>4. Has(t)
  BY <1>1, <1>3 DEF Has, BeginsDeclaring
<1>5. PICK w \in Request : w = t
  BY <1>3
<1>6. Has(w)
  BY <1>4, <1>5
<1>7. begun' \in 0 .. MaxRequests /\ request[q].op = "none"
  BY ManualAssumption DEF BeginsDeclaring, Begins, ManualInv, ManualTypeOK
<1> QED BY <1>2, <1>5, <1>6, <1>7, QuietStep DEF BeginsDeclaring

\* An edit begins with a row of its owner.
LEMMA BeginsEditStep ==
    ASSUME ManualInv, NEW q \in Requests, NEW x \in Rows, NEW start \in Dates, NEW end \in Dates,
           BeginsEdit(q, x, start, end)
    PROVE  ManualInv'
<1> DEFINE old == row[x]
           by == old.owner
           status == ApprovalFor(by)
           edited == [old EXCEPT !.start = start, !.end = end, !.status = status]
           t == [NoRequest EXCEPT !.op = "edit", !.by = by, !.id = x, !.row = edited]
<1>1. old \in Row
  BY DEF BeginsEdit, Live, ManualInv, ManualTypeOK, NoRow, Gone, Types
<1>2. request' = [request EXCEPT ![q] = t]
  BY DEF BeginsEdit, Begins
<1>3. status \in RowStatuses
  BY ApprovalTyped
<1> HIDE DEF old, status
<1>4. edited \in Row /\ by \in Actors
  BY <1>1, <1>3 DEF Row
<1> HIDE DEF edited, by
<1>5. t \in Request /\ t.op = "edit" /\ t.id = x /\ t.row = edited
  BY <1>4, NoRequestIsTyped DEF Request
<1> HIDE DEF t
<1>6. PICK w \in Request : w = t
  BY <1>5
<1>7. Has(w)
  BY <1>4, <1>5, <1>6 DEF Has
<1>8. begun' \in 0 .. MaxRequests /\ request[q].op = "none"
  BY ManualAssumption DEF BeginsEdit, Begins, ManualInv, ManualTypeOK
<1> QED BY <1>2, <1>6, <1>7, <1>8, QuietStep DEF BeginsEdit

\* A manual absence begins with nothing asked.
LEMMA BeginsManualStep ==
    ASSUME ManualInv, NEW q \in Requests, NEW d \in Dates, NEW by \in Actors, BeginsManual(q, d, by)
    PROVE  ManualInv'
<1> DEFINE t == [NoRequest EXCEPT !.op = "manual", !.by = by, !.id = d]
<1>1. request' = [request EXCEPT ![q] = t]
  BY DEF BeginsManual, Begins
<1>2. t \in Request /\ t.op = "manual" /\ t.id = d /\ t.by = by /\ t.asked = {}
  BY DEF Request, NoRequest
<1> HIDE DEF t
<1>3. PICK w \in Request : w = t
  BY <1>2
<1>4. Has(w)
  BY <1>2, <1>3 DEF Has
<1>5. begun' \in 0 .. MaxRequests /\ request[q].op = "none"
  BY ManualAssumption DEF BeginsManual, Begins, ManualInv, ManualTypeOK
<1> QED BY <1>1, <1>3, <1>4, <1>5, QuietStep DEF BeginsManual

\* A query that does not refuse is one more answered.
LEMMA AsksStep ==
    ASSUME ManualInv, NEW q \in Requests, NEW question \in Questions, Asks(q, question)
    PROVE  ManualInv'
<1> DEFINE v == request[q]
           found == IF question = "existing" THEN manual[v.id].status ELSE v.existing
           t == [v EXCEPT !.asked = @ \cup {question}, !.existing = found]
<1>1. v \in Request /\ v.op = "manual" /\ Has(v) /\ v.id \in Dates
  BY DEF Asks, ManualInv, ManualTypeOK, Has
<1>2. found \in {"none"} \cup RowStatuses
  BY <1>1 DEF ManualInv, ManualTypeOK, Request
<1>3. request' = [request EXCEPT ![q] = IF Refuses(question, v.id) THEN NoRequest ELSE t]
  <2>1. Answered(v, question) = t
    BY <1>1 DEF Request, Answered
  <2> HIDE DEF t
  <2> QED BY <2>1 DEF Asks, ManualInv, ManualTypeOK
<1> HIDE DEF found
<1>4. /\ t \in Request /\ t.op = v.op /\ t.id = v.id /\ t.row = v.row /\ t.by = v.by
      /\ t.since = v.since /\ t.asked = v.asked \cup {question}
  <2> HIDE DEF v
  <2> QED BY <1>1, <1>2 DEF Request
<1> HIDE DEF t
<1>5. PICK w \in Request : w = IF Refuses(question, v.id) THEN NoRequest ELSE t
  BY <1>4, NoRequestIsTyped
<1>6. Has(w)
  <2>1. CASE Refuses(question, v.id)
    BY <1>5, <2>1, NoRequestIsTyped
  <2>2. CASE ~Refuses(question, v.id)
    BY <1>1, <1>4, <1>5, <2>2 DEF Has
  <2> QED BY <2>1, <2>2
<1> QED BY <1>1, <1>3, <1>5, <1>6, QuietStep DEF Asks, ManualInv, ManualTypeOK

\* What changes beside the requests is noted by them, and leaves announced what waits.
LEMMA OutsideStep ==
    ASSUME ManualInv, request' = Noted(request, None),
           punched' \in SUBSET Dates, absent' \in SUBSET Dates, onLeave' \in SUBSET Dates,
           row' \in [Rows -> Row \cup {NoRow, Gone}],
           manual' \in [Dates -> [status : {"none"} \cup RowStatuses, owner : Actors \cup {None}]],
           announced' \in SUBSET (Rows \cup Dates), altered' \in 0 .. MaxAltered,
           \A id \in PendingApprovals' : id \in PendingApprovals /\ (id \in announced => id \in announced'),
           UNCHANGED <<lost, begun>>
    PROVE  ManualInv'
<1>1. ASSUME NEW p \in Requests
      PROVE  /\ request'[p] \in Request /\ Has(request[p])'
             /\ request[p].op = "announce" => request'[p] = request[p]
  <2>1. PICK v \in Request : v = request[p] /\ Has(v)
    BY DEF ManualInv, ManualTypeOK
  <2>2. PICK w : w = request'[p]
    OBVIOUS
  <2>3. /\ w \in Request /\ w.op = v.op /\ w.id = v.id /\ w.row = v.row /\ w.by = v.by
        /\ w.asked = v.asked /\ (v.op \in {"declare", "edit", "manual"} => w.since)
        /\ v.op \notin {"declare", "edit", "manual"} => w = v
    BY <2>1, <2>2, NotedFields, ManualAssumption DEF ManualInv, ManualTypeOK
  <2>4. Has(w)'
    BY <2>1, <2>3, HasLasts
  <2> QED BY <2>1, <2>2, <2>3, <2>4 DEF Has
<1>2. ManualTypeOK'
  <2>1. request' = [p \in Requests |-> request'[p]]
    BY DEF Noted
  <2>2. request' \in [Requests -> Request]
    BY <1>1, <2>1
  <2> QED BY <2>2 DEF ManualInv, ManualTypeOK
<1>3. PendingIsAnnounced'
  <2>1. SUFFICES ASSUME NEW id \in PendingApprovals', id \notin announced' \cup lost'
                 PROVE  \E p \in Requests : request'[p].op = "announce" /\ request'[p].id = id
    BY DEF PendingIsAnnounced
  <2>2. PICK p \in Requests : request[p].op = "announce" /\ request[p].id = id
    BY <2>1 DEF ManualInv, PendingIsAnnounced
  <2> QED BY <1>1, <2>2
<1> QED BY <1>1, <1>2, <1>3 DEF ManualInv

\* Punches, absences and leaves change.
LEMMA FactsChangeStep == ASSUME ManualInv, NEW d \in Dates, FactsChange(d) PROVE ManualInv'
<1>1. /\ punched' \in SUBSET Dates /\ absent' \in SUBSET Dates /\ onLeave' \in SUBSET Dates
      /\ altered' \in 0 .. MaxAltered
  BY ManualAssumption DEF FactsChange, ManualInv, ManualTypeOK
<1>2. \A id \in PendingApprovals' : id \in PendingApprovals
  BY DEF FactsChange, PendingApprovals, Live2, Live, StatusOf
<1> QED BY <1>1, <1>2, OutsideStep DEF FactsChange, ManualInv, ManualTypeOK

\* An Admin deletes a declaration, which waits no more.
LEMMA DeletesStep == ASSUME ManualInv, NEW x \in Rows, Deletes(x) PROVE ManualInv'
<1>1. /\ row' = [row EXCEPT ![x] = Gone] /\ announced' = announced \ {x}
      /\ UNCHANGED <<dayFacts, manual, lost, begun, altered>> /\ request' = Noted(request, None)
  BY DEF Deletes
<1>2. /\ row' \in [Rows -> Row \cup {NoRow, Gone}] /\ announced' \in SUBSET (Rows \cup Dates)
      /\ \A y \in Rows \ {x} : row'[y] = row[y]
      /\ row'[x].type \notin Types
  BY <1>1 DEF ManualInv, ManualTypeOK, Gone, Types
<1>3. \A id \in PendingApprovals' : id # x /\ id \in PendingApprovals
  BY <1>1, <1>2 DEF PendingApprovals, Live2, Live, StatusOf
<1> QED BY <1>1, <1>2, <1>3, OutsideStep DEF dayFacts, ManualInv, ManualTypeOK

\* A declaration reviewed waits no more.
LEMMA ReviewsStep ==
    ASSUME ManualInv, NEW id \in Rows \cup Dates, NEW status \in {"APPROVED", "REJECTED"},
           Reviews(id, status)
    PROVE  ManualInv'
<1>1. UNCHANGED <<dayFacts, announced, lost, begun, altered>> /\ request' = Noted(request, None)
  BY DEF Reviews
<1>2. CASE id \in Rows
  <2> DEFINE old == row[id]
             reviewed == [old EXCEPT !.status = status]
  <2>1. row' = [row EXCEPT ![id] = reviewed] /\ UNCHANGED manual
    BY <1>2 DEF Reviews, ManualInv, ManualTypeOK
  <2>2. old \in Row
    BY <1>2 DEF Reviews, Live2, Live, ManualInv, ManualTypeOK, NoRow, Gone, Types
  <2> HIDE DEF old
  <2>3. reviewed \in Row /\ reviewed.status = status
    BY <2>2 DEF Row, RowStatuses
  <2> HIDE DEF reviewed
  <2>4. /\ row' \in [Rows -> Row \cup {NoRow, Gone}] /\ row'[id].status = status
        /\ \A y \in Rows \ {id} : row'[y] = row[y]
    BY <1>2, <2>1, <2>3 DEF ManualInv, ManualTypeOK
  <2>5. \A y \in PendingApprovals' : y \in PendingApprovals
    BY <1>2, <2>1, <2>4 DEF PendingApprovals, Live2, Live, StatusOf
  <2> QED BY <1>1, <2>1, <2>4, <2>5, OutsideStep DEF dayFacts, ManualInv, ManualTypeOK
<1>3. CASE id \notin Rows
  <2>1. /\ UNCHANGED row
        /\ manual' \in [Dates -> [status : {"none"} \cup RowStatuses, owner : Actors \cup {None}]]
        /\ manual'[id].status = status /\ \A d \in Dates \ {id} : manual'[d] = manual[d]
    BY <1>3 DEF Reviews, ManualInv, ManualTypeOK, RowStatuses
  <2>2. \A y \in PendingApprovals' : y \in PendingApprovals
    BY <1>3, <2>1 DEF PendingApprovals, Live2, Live, StatusOf
  <2> QED BY <1>1, <2>1, <2>2, OutsideStep DEF dayFacts, ManualInv, ManualTypeOK
<1> QED BY <1>2, <1>3

\* A declaration is written, and announced afterwards if it waits for a review.
LEMMA SavesStep ==
    ASSUME ManualInv, NEW q \in Requests, NEW id \in Rows \cup Dates, NEW announce \in BOOLEAN,
           Saves(q, id, announce), request[q].op \in {"declare", "edit", "manual"},
           row' \in [Rows -> Row \cup {NoRow, Gone}],
           manual' \in [Dates -> [status : {"none"} \cup RowStatuses, owner : Actors \cup {None}]],
           \A x \in PendingApprovals' : x = id \/ x \in PendingApprovals,
           id \in PendingApprovals' => announce
    PROVE  ManualInv'
<1> DEFINE by == request[q].by
           t == [NoRequest EXCEPT !.op = "announce", !.by = by, !.id = id]
<1>1. /\ request' = [Noted(request, q) EXCEPT ![q] = IF announce THEN t ELSE NoRequest]
      /\ announced' = announced \ {id} /\ lost' = lost \ {id}
      /\ UNCHANGED <<dayFacts, begun, altered>>
  BY DEF Saves
<1>2. by \in Actors \cup {None}
  BY DEF ManualInv, ManualTypeOK, Request
<1> HIDE DEF by
<1>3. t \in Request /\ t.op = "announce" /\ t.id = id
  BY <1>2, NoRequestIsTyped DEF Request
<1> HIDE DEF t
<1>4. /\ request'[q] = IF announce THEN t ELSE NoRequest
      /\ \A p \in Requests \ {q} : request'[p] = Noted(request, q)[p]
      /\ request' = [r \in Requests |-> request'[r]]
  BY <1>1 DEF Noted
<1>5. ASSUME NEW p \in Requests \ {q}
      PROVE  /\ request'[p] \in Request /\ Has(request[p])'
             /\ request[p].op = "announce" => request'[p] = request[p]
  <2>1. PICK v \in Request : v = request[p] /\ Has(v)
    BY DEF ManualInv, ManualTypeOK
  <2>2. PICK w : w = request'[p]
    OBVIOUS
  <2>3. /\ w \in Request /\ w.op = v.op /\ w.id = v.id /\ w.row = v.row /\ w.by = v.by
        /\ w.asked = v.asked /\ (v.op \in {"declare", "edit", "manual"} => w.since)
        /\ v.op \notin {"declare", "edit", "manual"} => w = v
    BY <1>4, <2>1, <2>2, NotedFields DEF ManualInv, ManualTypeOK
  <2>4. Has(w)'
    BY <2>1, <2>3, HasLasts
  <2> QED BY <2>1, <2>2, <2>3, <2>4 DEF Has
<1>6. request'[q] \in Request /\ Has(request[q])'
  <2>1. PICK w \in Request : w = IF announce THEN t ELSE NoRequest
    BY <1>3, NoRequestIsTyped
  <2>2. Has(w)'
    BY <1>3, <2>1, NoRequestIsTyped DEF Has
  <2> QED BY <1>4, <2>1, <2>2 DEF Has
<1>7. ManualTypeOK'
  <2>1. ASSUME NEW r \in Requests PROVE request'[r] \in Request
    BY <1>5, <1>6
  <2>2. request' \in [Requests -> Request]
    BY <1>4, <2>1
  <2> QED BY <1>1, <2>2 DEF ManualInv, ManualTypeOK, dayFacts
<1>8. PendingIsAnnounced'
  <2>1. SUFFICES ASSUME NEW x \in PendingApprovals', x \notin announced' \cup lost'
                 PROVE  \E p \in Requests : request'[p].op = "announce" /\ request'[p].id = x
    BY DEF PendingIsAnnounced
  <2>2. CASE x = id
    BY <1>3, <1>4, <2>1, <2>2
  <2>3. CASE x # id
    <3>1. PICK p \in Requests : request[p].op = "announce" /\ request[p].id = x
      BY <1>1, <2>1, <2>3 DEF ManualInv, PendingIsAnnounced
    <3> QED BY <1>5, <3>1
  <2> QED BY <2>2, <2>3
<1> QED BY <1>5, <1>6, <1>7, <1>8 DEF ManualInv

\* A row declared or edited is written.
LEMMA WritesRowStep == ASSUME ManualInv, NEW q \in Requests, WritesRow(q) PROVE ManualInv'
<1>1. PICK w \in Request : w = request[q] /\ w.op \in {"declare", "edit"} /\ w.id \in Rows /\ w.row \in Row
  BY DEF WritesRow, ManualInv, ManualTypeOK, Has
<1>2. /\ row' = [row EXCEPT ![w.id] = w.row] /\ UNCHANGED manual
      /\ Saves(q, w.id, ToAnnounce(w))
  BY <1>1 DEF WritesRow
<1>3. row' \in [Rows -> Row \cup {NoRow, Gone}] /\ row'[w.id] = w.row
      /\ \A x \in Rows \ {w.id} : row'[x] = row[x]
  BY <1>1, <1>2 DEF ManualInv, ManualTypeOK
<1>4. \A x \in PendingApprovals' : x = w.id \/ x \in PendingApprovals
  BY <1>1, <1>2, <1>3 DEF PendingApprovals, Live2, Live, StatusOf
<1>5. w.id \in PendingApprovals' => ToAnnounce(w)
  BY <1>1, <1>3 DEF PendingApprovals, StatusOf, ToAnnounce
<1>6. PICK announce \in BOOLEAN : announce <=> ToAnnounce(w)
  OBVIOUS
<1>7. Saves(q, w.id, announce)
  BY <1>2, <1>6 DEF Saves
<1> QED BY <1>1, <1>2, <1>3, <1>4, <1>5, <1>6, <1>7, SavesStep DEF ManualInv, ManualTypeOK

\* A manual absence is written.
LEMMA WritesManualStep == ASSUME ManualInv, NEW q \in Requests, WritesManual(q) PROVE ManualInv'
<1>1. PICK w \in Request : w = request[q] /\ w.op = "manual" /\ w.id \in Dates /\ w.by \in Actors
  BY DEF WritesManual, ManualInv, ManualTypeOK, Has
<1> DEFINE written == [status |-> ApprovalFor(w.by), owner |-> w.by]
<1>2. /\ manual' = [manual EXCEPT ![w.id] = written] /\ UNCHANGED row
      /\ Saves(q, w.id, ApprovalFor(w.by) = "PENDING")
  BY <1>1 DEF WritesManual
<1>3. /\ manual' \in [Dates -> [status : {"none"} \cup RowStatuses, owner : Actors \cup {None}]]
      /\ manual'[w.id].status = ApprovalFor(w.by)
      /\ \A d \in Dates \ {w.id} : manual'[d] = manual[d]
  BY <1>1, <1>2, ApprovalTyped DEF ManualInv, ManualTypeOK
<1>4. \A x \in PendingApprovals' : x = w.id \/ x \in PendingApprovals
  BY <1>2, <1>3 DEF PendingApprovals, Live2, Live, StatusOf
<1>5. w.id \in PendingApprovals' => ApprovalFor(w.by) = "PENDING"
  BY <1>1, <1>3, ManualAssumption DEF PendingApprovals, StatusOf
<1>6. PICK announce \in BOOLEAN : announce <=> ApprovalFor(w.by) = "PENDING"
  OBVIOUS
<1>7. Saves(q, w.id, announce)
  BY <1>2, <1>6 DEF Saves
<1> QED BY <1>1, <1>2, <1>3, <1>4, <1>5, <1>6, <1>7, SavesStep DEF ManualInv, ManualTypeOK

\* The approvers are told, or the request fails and it is lost.
LEMMA LastStep ==
    ASSUME ManualInv, NEW q \in Requests, Announces(q) \/ RequestFails(q)
    PROVE  ManualInv'
<1>1. /\ request' = [request EXCEPT ![q] = NoRequest]
      /\ UNCHANGED <<dayFacts, row, manual, begun, altered>>
      /\ announced \subseteq announced' /\ lost \subseteq lost'
      /\ request[q].op = "announce" => request[q].id \in announced' \cup lost'
  BY DEF Announces, RequestFails
<1>2. announced' \in SUBSET (Rows \cup Dates) /\ lost' \in SUBSET (Rows \cup Dates)
  BY DEF Announces, RequestFails, ManualInv, ManualTypeOK, Has
<1>3. /\ request' \in [Requests -> Request] /\ request'[q] = NoRequest
      /\ \A p \in Requests \ {q} : request'[p] = request[p]
  BY <1>1, NoRequestIsTyped DEF ManualInv, ManualTypeOK
<1>4. ManualTypeOK'
  BY <1>1, <1>2, <1>3 DEF ManualInv, ManualTypeOK, dayFacts
<1>5. \A p \in Requests : Has(request[p])'
  <2>1. SUFFICES ASSUME NEW p \in Requests PROVE Has(request[p])'
    OBVIOUS
  <2>2. PICK v \in Request : v = request'[p] /\ Has(v)
    BY <1>3, NoRequestIsTyped DEF ManualInv
  <2>3. Has(v)'
    BY <1>1, <2>2, SameFacts
  <2> QED BY <2>2, <2>3 DEF Has
<1>6. PendingIsAnnounced'
  <2>1. PendingApprovals' = PendingApprovals
    BY <1>1 DEF PendingApprovals, Live2, Live, StatusOf
  <2>2. SUFFICES ASSUME NEW id \in PendingApprovals, id \notin announced' \cup lost'
                 PROVE  \E p \in Requests : request'[p].op = "announce" /\ request'[p].id = id
    BY <2>1 DEF PendingIsAnnounced
  <2>3. PICK p \in Requests : request[p].op = "announce" /\ request[p].id = id
    BY <1>1, <2>2 DEF ManualInv, PendingIsAnnounced
  <2>4. p # q
    BY <1>1, <2>2, <2>3
  <2> QED BY <1>3, <2>3, <2>4
<1> QED BY <1>4, <1>5, <1>6 DEF ManualInv

\* Every step keeps the invariant.
LEMMA ManualStep == ManualInv /\ [ManualNext]_manualVars => ManualInv'
<1>1. ASSUME ManualInv, UNCHANGED manualVars PROVE ManualInv'
  <2>1. \A q \in Requests : Has(request[q])'
    <3>1. SUFFICES ASSUME NEW q \in Requests PROVE Has(request[q])'
      OBVIOUS
    <3>2. PICK v \in Request : v = request[q] /\ v = request'[q] /\ Has(v)
      BY <1>1 DEF ManualInv, ManualTypeOK, manualVars
    <3>3. Has(v)'
      BY <1>1, <3>2, SameFacts DEF manualVars
    <3> QED BY <3>2, <3>3 DEF Has
  <2>2. PendingApprovals' = PendingApprovals
    BY <1>1 DEF manualVars, PendingApprovals, Live2, Live, StatusOf
  <2> QED BY <1>1, <2>1, <2>2 DEF ManualInv, ManualTypeOK, manualVars, dayFacts, PendingIsAnnounced
<1> QED BY <1>1, FactsChangeStep, BeginsDeclaringStep, BeginsEditStep, BeginsManualStep, AsksStep,
           WritesRowStep, WritesManualStep, LastStep, DeletesStep, ReviewsStep DEF ManualNext

\* The invariant always holds.
LEMMA ManualInvHolds == ManualSpec => []ManualInv
BY ManualInvInit, ManualStep, PTL DEF ManualSpec

\* Declarations, notifications and requests keep their types.
THEOREM ManualTypeCorrect == ManualSpec => []ManualTypeOK
<1>1. ManualInv => ManualTypeOK
  BY DEF ManualInv
<1> QED BY <1>1, ManualInvHolds, PTL

\* For any declarations and any number of requests, what waits for a review has been
\* announced to the approvers, or is about to be, or its request failed in between
\* (notify, notifyPending).
THEOREM PendingAreAnnounced == ManualSpec => []PendingIsAnnounced
<1>1. ManualInv => PendingIsAnnounced
  BY DEF ManualInv
<1> QED BY <1>1, ManualInvHolds, PTL

\* A row is born only of a request that declared it, on a day worked unless it changed since.
LEMMA RowsBornFounded ==
    ASSUME ManualInv, [ManualNext]_manualVars, NEW x \in Rows, row[x] = NoRow, row'[x] # NoRow
    PROVE  \/ row'[x].type \in {"reversal", "sick"}
           \/ row'[x].end \in punched
           \/ \E q \in Requests : request[q].id = x /\ request[q].since
<1>1. row' # row
  OBVIOUS
<1>2. ~Live(x)
  BY DEF Live, NoRow, Types
<1>3. PICK q \in Requests : WritesRow(q)
  <2>1. ASSUME NEW y \in Rows, Deletes(y) PROVE FALSE
    BY <1>2, <2>1 DEF Deletes, ManualInv, ManualTypeOK
  <2>2. ASSUME NEW id \in Rows \cup Dates, NEW status \in {"APPROVED", "REJECTED"}, Reviews(id, status)
        PROVE  FALSE
    BY <1>2, <2>2 DEF Reviews, Live2, ManualInv, ManualTypeOK
  <2> QED BY <1>1, <2>1, <2>2 DEF ManualNext, manualVars, FactsChange, BeginsDeclaring, BeginsEdit,
                BeginsManual, Asks, WritesManual, Announces, RequestFails
<1>4. PICK w \in Request : w = request[q] /\ Has(w) /\ w.op \in {"declare", "edit"}
  BY <1>3 DEF WritesRow, ManualInv, ManualTypeOK
<1>5. w.id \in Rows /\ w.row \in Row /\ row' = [row EXCEPT ![w.id] = w.row]
  BY <1>3, <1>4 DEF WritesRow, Has
<1>6. w.id = x /\ row'[x] = w.row
  BY <1>5 DEF ManualInv, ManualTypeOK
<1>7. w.op = "declare"
  BY <1>2, <1>3, <1>4, <1>6 DEF WritesRow
<1>8. CASE w.since
  BY <1>4, <1>6, <1>8
<1>9. CASE ~w.since
  <2>1. Ordered(w.row.type, w.row.start, w.row.end) /\ ~Refused(w.row.type, w.row.start, w.row.end)
    BY <1>4, <1>7, <1>9 DEF Has
  <2>2. w.row.type \in Types
    BY <1>5 DEF Row
  <2> QED BY <1>6, <2>1, <2>2 DEF Ordered, Refused, Types
<1> QED BY <1>8, <1>9

\* A manual absence is written only by a request whose five queries refused nothing, unless
\* it changed since, or by a review.
LEMMA ManualsFounded ==
    ASSUME ManualInv, [ManualNext]_manualVars, NEW d \in Dates, manual[d] # manual'[d]
    PROVE  \/ /\ d \notin absent \cup punched \cup onLeave \cup SickDays
              /\ manual[d].status \in {"none", "REJECTED"}
           \/ \E q \in Requests : /\ request[q].op = "manual" /\ request[q].id = d
                                  /\ request[q].since
           \/ \E status \in {"APPROVED", "REJECTED"} : Reviews(d, status)
<1>1. manual' # manual
  OBVIOUS
<1>2. \/ \E q \in Requests : WritesManual(q)
      \/ \E id \in Rows \cup Dates, status \in {"APPROVED", "REJECTED"} : Reviews(id, status)
  BY <1>1 DEF ManualNext, manualVars, FactsChange, BeginsDeclaring, BeginsEdit,
     BeginsManual, Asks, WritesRow, Announces, RequestFails, Deletes
<1>3. ASSUME NEW id \in Rows \cup Dates, NEW status \in {"APPROVED", "REJECTED"}, Reviews(id, status)
      PROVE  id = d
  BY <1>1, <1>3 DEF Reviews, ManualInv, ManualTypeOK
<1>4. ASSUME NEW q \in Requests, WritesManual(q)
      PROVE  \/ /\ d \notin absent \cup punched \cup onLeave \cup SickDays
                /\ manual[d].status \in {"none", "REJECTED"}
             \/ request[q].op = "manual" /\ request[q].id = d /\ request[q].since
  <2>1. PICK w \in Request : w = request[q] /\ Has(w) /\ w.op = "manual" /\ w.asked = Questions
    BY <1>4 DEF WritesManual, ManualInv, ManualTypeOK
  <2>2. w.id = d
    BY <1>4, <2>1 DEF WritesManual, Has, ManualInv, ManualTypeOK
  <2>3. CASE ~w.since
    <3>1. \A question \in Questions : ~Refuses(question, d)
      BY <2>1, <2>2, <2>3 DEF Has
    <3>2. /\ ~Refuses("main", d) /\ ~Refuses("punches", d) /\ ~Refuses("sick", d)
          /\ ~Refuses("leaves", d) /\ ~Refuses("existing", d)
      BY <3>1 DEF Questions
    <3> QED BY <3>2 DEF Refuses
  <2> QED BY <2>1, <2>2, <2>3
<1> QED BY <1>2, <1>3, <1>4

\* For any declarations and any number of requests, overtime and compensations are declared
\* for days that were worked and a manual absence for a day on which nothing else is known,
\* unless what was read changed meanwhile (createOvertime, createCompensation,
\* createManualAbsence).
THEOREM DeclarationsAreFounded == ManualSpec => DeclarationIsFounded
<1>1. ManualInv /\ [ManualNext]_manualVars =>
        [/\ \A x \in Rows : row[x] # row'[x] /\ row[x] = NoRow =>
              \/ row'[x].type \in {"reversal", "sick"}
              \/ row'[x].end \in punched
              \/ \E q \in Requests : request[q].id = x /\ request[q].since
         /\ \A d \in Dates : manual[d] # manual'[d] =>
              \/ /\ d \notin absent \cup punched \cup onLeave \cup SickDays
                 /\ manual[d].status \in {"none", "REJECTED"}
              \/ \E q \in Requests : /\ request[q].op = "manual" /\ request[q].id = d
                                     /\ request[q].since
              \/ \E status \in {"APPROVED", "REJECTED"} : Reviews(d, status)]_manualVars
  BY RowsBornFounded, ManualsFounded
<1> QED BY <1>1, ManualInvHolds, PTL DEF ManualSpec, DeclarationIsFounded

=============================================================================
