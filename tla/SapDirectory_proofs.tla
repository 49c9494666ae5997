------------------------ MODULE SapDirectory_proofs ------------------------
(***************************************************************************)
(* Theorems about SapDirectory, for any number of employees, records and   *)
(* handlers: the types, what a refresh leaves behind when nothing overtook *)
(* it, the links made by hand, and the employees with two records.         *)
(*                                                                         *)
(* What a handler has read stays true of a row until somebody stirs it.    *)
(*                                                                         *)
(* Then of PayrollControl: an import that ended has all its lines, those   *)
(* of two imports of one rubric are never mixed (PayInv).  And of          *)
(* AdvancedTreatment: pay is computed on days that were granted, and a row *)
(* of an employee says what it was read from (AdvanceInv).                 *)
(***************************************************************************)
EXTENDS SapDirectory, PayrollControl, AdvancedTreatment, FiniteSetTheorems, TLAPS

-----------------------------------------------------------------------------
(* The operators on the handlers and on the last ones                      *)

LEMMA FreeIsCall == Free \in Call
BY DEF Free, Call, Nobody, NoCode

\* d is c with things stirred, if c minds them.
Stirred(c, d, things) ==
    /\ d.does = c.does
    /\ d.at = c.at
    /\ d.list = c.list
    /\ d.todo = c.todo
    /\ d.found = c.found
    /\ d.want = c.want
    /\ d.emp = c.emp
    /\ d.rec = c.rec
    /\ c.does \in {"refresh", "auto", "relink"} => d.stirred = c.stirred \cup things

\* Stir changes what the other handlers note, and nothing else of them.
LEMMA StirFields ==
    ASSUME NEW w, NEW things \in SUBSET (Records \cup Employees),
           call \in [Handlers -> Call]
    PROVE  /\ Stir(w, things) \in [Handlers -> Call]
           /\ \A g \in Handlers : g # w => Stirred(call[g], Stir(w, things)[g], things)
<1>1. \A h \in Handlers : call[h] \in Call
  OBVIOUS
<1>2. ASSUME NEW h \in Handlers
      PROVE  [call[h] EXCEPT !.stirred = @ \cup things] \in Call
  BY <1>1 DEF Call
<1>3. Stir(w, things) \in [Handlers -> Call]
  BY <1>1, <1>2 DEF Stir
<1>4. ASSUME NEW g \in Handlers, g # w
      PROVE  Stirred(call[g], Stir(w, things)[g], things)
  BY <1>1, <1>4 DEF Stir, Stirred, Call
<1> QED BY <1>3, <1>4

\* The same when h goes on to another state of its own.
LEMMA GoesFields ==
    ASSUME NEW h \in Handlers, NEW state \in Call,
           NEW things \in SUBSET (Records \cup Employees),
           call \in [Handlers -> Call], Goes(h, state, things)
    PROVE  /\ call' \in [Handlers -> Call]
           /\ call'[h] = state
           /\ \A g \in Handlers : g # h => Stirred(call[g], call'[g], things)
<1>1. /\ Stir(h, things) \in [Handlers -> Call]
      /\ \A g \in Handlers : g # h => Stirred(call[g], Stir(h, things)[g], things)
  BY StirFields
<1>2. call' = [Stir(h, things) EXCEPT ![h] = state]
  BY DEF Goes
<1> QED BY ONLY <1>1, <1>2, h \in Handlers, state \in Call

LEMMA LatestsFacts ==
    ASSUME NEW sets \in [Records -> SUBSET Employees], NEW l \in Latests(sets),
           latest \in [Records -> Employees \cup {None}]
    PROVE  /\ l \in [Records -> Employees \cup {None}]
           /\ \A s \in Records :
                /\ sets[s] = {} => l[s] = None
                /\ sets[s] # {} => l[s] \in sets[s]
                /\ latest[s] \in sets[s] => l[s] = latest[s]
BY SapAssumption DEF Latests, Lasts

LEMMA NewestsFacts ==
    ASSUME NEW links \in [Records -> Employees \cup {None}],
           NEW n \in Newests(links),
           newest \in [Employees -> Records \cup {None}]
    PROVE  /\ n \in [Employees -> Records \cup {None}]
           /\ \A e \in Employees :
                /\ RowsOf(e, links) = {} => n[e] = None
                /\ RowsOf(e, links) # {} => n[e] \in RowsOf(e, links)
                /\ newest[e] \in RowsOf(e, links) => n[e] = newest[e]
<1>1. DOMAIN [e \in Employees |-> RowsOf(e, links)] = Employees
  OBVIOUS
<1>2. \A e \in Employees :
        [d \in Employees |-> RowsOf(d, links)][e] = RowsOf(e, links)
  OBVIOUS
<1> QED BY <1>1, <1>2, SapAssumption DEF Newests, Lasts

-----------------------------------------------------------------------------
(* Types                                                                   *)

LEMMA TypeInit == Init => TypeOK
<1> SUFFICES ASSUME Init PROVE TypeOK
  OBVIOUS
<1>1. DirectoryOK
  BY DEF Init, DirectoryOK
<1>2. MappingsOK
  BY SapAssumption DEF Init, MappingsOK
<1>3. call \in [Handlers -> Call] /\ asked \in 0 .. MaxRequests
  BY FreeIsCall, SapAssumption DEF Init
<1> QED BY <1>1, <1>2, <1>3 DEF Init, TypeOK

-----------------------------------------------------------------------------
(* What a handler holds, and what it has read                              *)

\* c, the state of a handler, holds what its step needs.
ShapeOf(c) ==
    /\ c.does = "nothing" => c.at = "idle"
    /\ c.does = "refresh" =>
         /\ c.at \in {"mappings", "upserting", "reconciling"}
         /\ c.at = "upserting" => c.todo \subseteq Records
         /\ c.at = "reconciling" => c.todo \subseteq Employees
    /\ c.does = "auto" =>
         c.at \in {"matching", "mapped"} /\ c.todo \subseteq Employees
    /\ c.does = "confirm" => c.at \in {"chosen", "mapped"}
    /\ c.does = "relink" => c.at = "chosen"
    /\ c.at \in {"chosen", "mapped"} => c.emp \in Employees /\ c.rec \in Records

\* What c has read of the mappings conf and last is still so, but of the
\* records somebody stirred.
Fits(c, conf, last) ==
    /\ c.does = "refresh" /\ c.at = "upserting" =>
         \A s \in c.todo \ c.stirred : conf[s] # {} => c.found[s] = last[s]
    /\ c.does = "auto" =>
         \A e \in c.todo : \A s \in Records : e \in conf[s] => s \in c.stirred
    /\ c.does = "relink" =>
         \A s \in Records : c.emp \in conf[s] => s \in c.todo \cup c.stirred

\* What a refresh c that nobody disturbed has done to the tables so far.
Settles(c, rs, lk, nw, conf, last, mat) ==
    c.does = "refresh" /\ c.stirred = {} =>
      /\ c.at = "mappings" =>
           \A s \in c.list : Coded(s) => c.found[s] # None
      /\ c.at = "upserting" =>
           /\ c.todo \subseteq c.list
           /\ \A s \in c.list :
                /\ conf[s] # {} => c.found[s] = last[s]
                /\ Coded(s) => c.found[s] # None
                /\ s \notin c.todo => s \in rs /\ lk[s] = c.found[s]
      /\ c.at = "reconciling" =>
           /\ \A s \in c.list :
                /\ s \in rs
                /\ conf[s] # {} => lk[s] = last[s]
                /\ Coded(s) => lk[s] # None
           /\ \A e \in Employees :
                /\ e \notin c.todo => mat[e] = c.want[e]
                /\ RowsOf(e, lk) # {} => c.want[e] = nw[e]
                /\ RowsOf(e, lk) = {} /\ c.want[e] \in Records => lk[c.want[e]] = None

Shape == \A h \in Handlers : ShapeOf(call[h])
Readings == \A h \in Handlers : Fits(call[h], confirmed, latest)
Settling == \A h \in Handlers :
    Settles(call[h], rows, link, newest, confirmed, latest, matricule)

IInv == TypeOK /\ Shape /\ Readings /\ Settling

\* Others keep their shape when h writes.
LEMMA StirShape ==
    ASSUME NEW c \in Call, NEW d \in Call, ShapeOf(c),
           NEW things, Stirred(c, d, things)
    PROVE  ShapeOf(d)
BY DEF ShapeOf, Stirred

\* What another handler has read survives a write that stirs what it changes.
LEMMA StirFits ==
    ASSUME NEW c \in Call, NEW things, NEW conf, NEW last, NEW conf2, NEW last2,
           NEW d \in Call, ShapeOf(c), Fits(c, conf, last),
           Stirred(c, d, things),
           \A s \in Records \ things : conf2[s] = conf[s] /\ last2[s] = last[s]
    PROVE  Fits(d, conf2, last2)
<1>1. c.does = "refresh" /\ c.at = "upserting" => c.todo \subseteq Records
  BY DEF ShapeOf
<1> QED BY <1>1 DEF Fits, Stirred

\* A write disturbs the refreshes of others.
LEMMA StirSettles ==
    ASSUME NEW c \in Call, NEW things, things # {}, NEW d \in Call,
           NEW rs, NEW lk, NEW nw, NEW conf, NEW last, NEW mat,
           Stirred(c, d, things)
    PROVE  Settles(d, rs, lk, nw, conf, last, mat)
BY DEF Settles, Stirred

LEMMA GoesKeeps ==
    ASSUME IInv, NEW h \in Handlers, NEW state \in Call,
           NEW things \in SUBSET (Records \cup Employees), things # {},
           Goes(h, state, things),
           \A s \in Records \ things : /\ confirmed'[s] = confirmed[s]
                                       /\ latest'[s] = latest[s],
           ShapeOf(state), Fits(state, confirmed', latest'),
           Settles(state, rows', link', newest', confirmed', latest', matricule')
    PROVE  /\ call' \in [Handlers -> Call]
           /\ Shape' /\ Readings' /\ Settling'
<1>1. call \in [Handlers -> Call]
  BY DEF IInv, TypeOK
<1>2. /\ call' \in [Handlers -> Call]
      /\ call'[h] = state
      /\ \A g \in Handlers : g # h => Stirred(call[g], call'[g], things)
  BY <1>1, GoesFields
<1>3. ASSUME NEW g \in Handlers \ {h}
      PROVE  /\ ShapeOf(call'[g]) /\ Fits(call'[g], confirmed', latest')
             /\ Settles(call'[g], rows', link', newest', confirmed', latest',
                        matricule')
  <2>1. Stirred(call[g], call'[g], things)
    BY <1>2
  <2>2. call[g] \in Call /\ call'[g] \in Call
    BY <1>1, <1>2
  <2>3. ShapeOf(call[g]) /\ Fits(call[g], confirmed, latest)
    BY DEF IInv, Shape, Readings
  <2>4. ShapeOf(call'[g])
    BY <2>1, <2>2, <2>3, StirShape
  <2>5. Fits(call'[g], confirmed', latest')
    BY <2>1, <2>2, <2>3, StirFits
  <2>6. Settles(call'[g], rows', link', newest', confirmed', latest', matricule')
    BY <2>1, <2>2, StirSettles
  <2> QED BY <2>4, <2>5, <2>6
<1> QED BY <1>2, <1>3 DEF Shape, Readings, Settling

\* The same for a write of somebody who is no handler.
LEMMA StirKeeps ==
    ASSUME IInv, NEW things \in SUBSET (Records \cup Employees), things # {},
           call' = Stir(None, things),
           \A s \in Records \ things : /\ confirmed'[s] = confirmed[s]
                                       /\ latest'[s] = latest[s]
    PROVE  /\ call' \in [Handlers -> Call]
           /\ Shape' /\ Readings' /\ Settling'
<1>1. call \in [Handlers -> Call] /\ None \notin Handlers
  BY SapAssumption DEF IInv, TypeOK
<1>2. /\ call' \in [Handlers -> Call]
      /\ \A g \in Handlers : Stirred(call[g], call'[g], things)
  BY <1>1, StirFields
<1>3. ASSUME NEW g \in Handlers
      PROVE  /\ ShapeOf(call'[g]) /\ Fits(call'[g], confirmed', latest')
             /\ Settles(call'[g], rows', link', newest', confirmed', latest',
                        matricule')
  <2>1. Stirred(call[g], call'[g], things)
    BY <1>2
  <2>2. call[g] \in Call /\ call'[g] \in Call
    BY <1>1, <1>2
  <2>3. ShapeOf(call[g]) /\ Fits(call[g], confirmed, latest)
    BY DEF IInv, Shape, Readings
  <2>4. ShapeOf(call'[g])
    BY <2>1, <2>2, <2>3, StirShape
  <2>5. Fits(call'[g], confirmed', latest')
    BY <2>1, <2>2, <2>3, StirFits
  <2>6. Settles(call'[g], rows', link', newest', confirmed', latest', matricule')
    BY <2>1, <2>2, StirSettles
  <2> QED BY <2>4, <2>5, <2>6
<1> QED BY <1>2, <1>3 DEF Shape, Readings, Settling

\* h goes on and writes nothing.
LEMMA MoveKeeps ==
    ASSUME IInv, NEW h \in Handlers, NEW state \in Call,
           call' = [call EXCEPT ![h] = state], UNCHANGED tables,
           asked' \in 0 .. MaxRequests,
           ShapeOf(state), Fits(state, confirmed, latest),
           Settles(state, rows, link, newest, confirmed, latest, matricule)
    PROVE  IInv'
<1>1. call \in [Handlers -> Call]
  BY DEF IInv, TypeOK
<1>2. /\ call' \in [Handlers -> Call]
      /\ call'[h] = state
      /\ \A g \in Handlers \ {h} : call'[g] = call[g]
  BY <1>1
<1>3. UNCHANGED <<rows, link, newest, confirmed, latest, matricule>>
  BY DEF tables, directory, mappings
<1>4. TypeOK'
  BY <1>2, <1>3 DEF IInv, TypeOK, DirectoryOK, MappingsOK
<1>5. Shape' /\ Readings' /\ Settling'
  BY <1>2, <1>3 DEF IInv, Shape, Readings, Settling
<1> QED BY <1>4, <1>5 DEF IInv

LEMMA ReconciledType ==
    ASSUME matricule \in [Employees -> Keys \cup {None}],
           NEW links, NEW n \in [Employees -> Records \cup {None}]
    PROVE  Reconciled(links, n) \in [Employees -> Keys \cup {None}]
BY SapAssumption DEF Reconciled

LEMMA FindingsType ==
    ASSUME NEW list, NEW f \in Findings(list)
    PROVE  f \in [Records -> Employees \cup {None}]
<1>1. PICK owner \in Owners :
         f = [s \in Records |-> IF s \in list THEN Designated(s, owner) ELSE None]
  BY DEF Findings
<1>2. owner \in [Keys -> Employees \cup {None}]
  BY DEF Owners
<1>3. ASSUME NEW s \in Records PROVE Designated(s, owner) \in Employees \cup {None}
  BY <1>2, SapAssumption DEF Designated
<1> QED BY <1>1, <1>3

\* A record that a code of BioTime names is found to be somebody's.
LEMMA FindingsName ==
    ASSUME NEW list \in SUBSET Records, NEW f \in Findings(list)
    PROVE  \A s \in list : Coded(s) => f[s] # None
<1> SUFFICES ASSUME NEW s \in list, Coded(s) PROVE f[s] # None
  OBVIOUS
<1>1. PICK owner \in Owners :
         f = [r \in Records |-> IF r \in list THEN Designated(r, owner) ELSE None]
  BY DEF Findings
<1>2. \A k \in Keys : Holders(k) # {} => owner[k] \in Holders(k)
  BY DEF Owners
<1>3. PICK e \in Employees : s \in Codes[e] \/ Badge[s] \in Codes[e]
  BY DEF Coded
<1>4. f[s] = Designated(s, owner)
  BY <1>1
<1>5. Codes[e] \subseteq Keys /\ None \notin Keys /\ None \notin Employees
  BY SapAssumption
<1>6. \A k \in Keys : k \in Codes[e] => owner[k] \in Employees
  BY <1>2 DEF Holders
<1>7. CASE s \in Codes[e]
  BY <1>4, <1>5, <1>6, <1>7 DEF Designated
<1>8. CASE Badge[s] \in Codes[e]
  BY <1>4, <1>5, <1>6, <1>8 DEF Designated
<1> QED BY <1>3, <1>7, <1>8

-----------------------------------------------------------------------------
(* The steps of a refresh                                                  *)

LEMMA AskedType == ASSUME Asks, asked \in 0 .. MaxRequests
                   PROVE  asked' \in 0 .. MaxRequests
BY SapAssumption DEF Asks

LEMMA RefreshReadsKeeps ==
    ASSUME IInv, NEW h \in Handlers, RefreshReads(h) PROVE IInv'
<1>0. PICK list \in SUBSET Records : \E found \in Findings(list) :
         Begins(h, [Free EXCEPT !.does = "refresh", !.at = "mappings",
                                !.list = list, !.found = found])
  BY DEF RefreshReads
<1>1. PICK found \in Findings(list) :
         Begins(h, [Free EXCEPT !.does = "refresh", !.at = "mappings",
                                !.list = list, !.found = found])
  BY <1>0
<1>2. /\ Begins(h, [Free EXCEPT !.does = "refresh", !.at = "mappings",
                                !.list = list, !.found = found])
      /\ UNCHANGED tables
  BY <1>1 DEF RefreshReads
<1> DEFINE state == [Free EXCEPT !.does = "refresh", !.at = "mappings",
                                 !.list = list, !.found = found]
<1>3. found \in [Records -> Employees \cup {None}]
  BY FindingsType
<1>4. \A s \in list : Coded(s) => found[s] # None
  BY FindingsName
<1>5. state \in Call
  BY <1>3, FreeIsCall DEF Call
<1>6. /\ state.does = "refresh" /\ state.at = "mappings"
      /\ state.list = list /\ state.found = found
  BY DEF Free
<1>7. call' = [call EXCEPT ![h] = state] /\ asked' \in 0 .. MaxRequests
  BY <1>2, AskedType DEF Begins, IInv, TypeOK
<1> HIDE DEF state
<1>8. ShapeOf(state) /\ Fits(state, confirmed, latest)
  BY <1>6 DEF ShapeOf, Fits
<1>9. Settles(state, rows, link, newest, confirmed, latest, matricule)
  BY <1>4, <1>6 DEF Settles
<1> QED BY <1>2, <1>5, <1>7, <1>8, <1>9, MoveKeeps

LEMMA RefreshReadsMappingsKeeps ==
    ASSUME IInv, NEW h \in Handlers, RefreshReadsMappings(h) PROVE IInv'
<1> DEFINE c == call[h]
           found == [s \in Records |->
                       IF s \in c.list /\ latest[s] # None THEN latest[s]
                       ELSE c.found[s]]
           state == [c EXCEPT !.at = "upserting", !.todo = c.list,
                              !.found = found]
<1>1. c \in Call
  BY DEF IInv, TypeOK
<1>2. call' = [call EXCEPT ![h] = state]
  BY DEF RefreshReadsMappings, IInv, TypeOK
<1>3. latest \in [Records -> Employees \cup {None}]
  BY DEF IInv, TypeOK, MappingsOK
<1>4. found \in [Records -> Employees \cup {None}]
  BY <1>1, <1>3 DEF Call
<1>5. c.list \in SUBSET Records
  BY <1>1 DEF Call
<1>6. state \in Call
  BY <1>1, <1>4, <1>5 DEF Call
<1>7. /\ state.does = c.does /\ state.at = "upserting" /\ state.list = c.list
      /\ state.todo = c.list /\ state.found = found
      /\ state.stirred = c.stirred
  BY <1>1 DEF Call
<1>8. c.does = "refresh" /\ c.at = "mappings"
  BY DEF RefreshReadsMappings, In
<1>9. \A s \in c.list : /\ confirmed[s] # {} => found[s] = latest[s] /\ found[s] # None
                        /\ confirmed[s] = {} => found[s] = c.found[s]
  BY <1>5, SapAssumption DEF IInv, TypeOK, MappingsOK
<1>10. Settles(c, rows, link, newest, confirmed, latest, matricule)
  BY DEF IInv, Settling
<1> HIDE DEF state, found, c
<1>11. ShapeOf(state)
  BY <1>5, <1>7, <1>8 DEF ShapeOf
<1>12. Fits(state, confirmed, latest)
  BY <1>7, <1>8, <1>9 DEF Fits
<1>13. Settles(state, rows, link, newest, confirmed, latest, matricule)
  BY <1>7, <1>8, <1>9, <1>10 DEF Settles
<1>14. UNCHANGED tables /\ asked' \in 0 .. MaxRequests
  BY DEF RefreshReadsMappings, IInv, TypeOK
<1> QED BY <1>2, <1>6, <1>11, <1>12, <1>13, <1>14, MoveKeeps

\* The directory with one more link stays in order.
LEMMA UpsertKeepsDirectory ==
    ASSUME DirectoryOK, NEW s \in Records, NEW e \in Employees \cup {None},
           NEW n \in Newests([link EXCEPT ![s] = e]),
           rows' = rows \cup {s},
           link' = [link EXCEPT ![s] = e],
           newest' = IF e = None THEN n ELSE [n EXCEPT ![e] = s]
    PROVE  DirectoryOK'
<1>1. link' \in [Records -> Employees \cup {None}]
  BY DEF DirectoryOK
<1>2. /\ n \in [Employees -> Records \cup {None}]
      /\ \A d \in Employees : /\ RowsOf(d, link') = {} => n[d] = None
                              /\ RowsOf(d, link') # {} => n[d] \in RowsOf(d, link')
  BY <1>1, NewestsFacts DEF DirectoryOK
<1>3. newest' \in [Employees -> Records \cup {None}]
  BY <1>2
<1>4. e \in Employees => s \in RowsOf(e, link')
  BY DEF RowsOf, DirectoryOK
<1>5. \A d \in Employees : newest'[d] = IF d = e THEN s ELSE n[d]
  BY <1>2, SapAssumption
<1>6. \A d \in Employees : IF RowsOf(d, link') = {} THEN newest'[d] = None
                          ELSE newest'[d] \in RowsOf(d, link')
  BY <1>2, <1>4, <1>5
<1>7. \A r \in Records : link'[r] # None => r \in rows'
  BY DEF DirectoryOK
<1> QED BY <1>1, <1>3, <1>6, <1>7 DEF DirectoryOK

LEMMA RefreshUpsertsKeeps ==
    ASSUME IInv, NEW h \in Handlers, RefreshUpserts(h) PROVE IInv'
<1> DEFINE c == call[h]
<1>1. PICK s \in c.todo :
         /\ In(h, "refresh", "upserting")
         /\ rows' = rows \cup {s}
         /\ link' = [link EXCEPT ![s] = c.found[s]]
         /\ \E n \in Newests([link EXCEPT ![s] = c.found[s]]) :
              newest' = IF c.found[s] = None THEN n
                        ELSE [n EXCEPT ![c.found[s]] = s]
         /\ Goes(h, [c EXCEPT !.todo = @ \ {s}], {s})
         /\ UNCHANGED <<mappings, matricule, asked>>
  BY DEF RefreshUpserts
<1> DEFINE state == [c EXCEPT !.todo = @ \ {s}]
<1>2. c \in Call /\ c.does = "refresh" /\ c.at = "upserting"
  BY <1>1 DEF IInv, TypeOK, In
<1>3. c.todo \subseteq Records /\ s \in Records
  BY <1>2 DEF IInv, Shape, ShapeOf
<1>4. state \in Call
  BY <1>2 DEF Call
<1>5. /\ state.does = "refresh" /\ state.at = "upserting"
      /\ state.list = c.list /\ state.todo = c.todo \ {s}
      /\ state.found = c.found /\ state.stirred = c.stirred
  BY <1>2 DEF Call
<1>6. UNCHANGED <<confirmed, latest, matricule, asked>>
  BY <1>1 DEF mappings
<1>7. c.found[s] \in Employees \cup {None}
  BY <1>2, <1>3 DEF Call
<1>8. DirectoryOK
  BY DEF IInv, TypeOK
<1>9. DirectoryOK'
  BY <1>1, <1>3, <1>7, <1>8, UpsertKeepsDirectory
<1>10. Goes(h, state, {s})
  BY <1>1
<1>11. ShapeOf(c) /\ Fits(c, confirmed, latest)
       /\ Settles(c, rows, link, newest, confirmed, latest, matricule)
  BY DEF IInv, Shape, Readings, Settling
<1>12. \A r \in Records : link'[r] = IF r = s THEN c.found[s] ELSE link[r]
  BY <1>1, <1>8 DEF DirectoryOK
<1>13. rows' = rows \cup {s} /\ c.list \subseteq Records
  BY <1>1, <1>2 DEF Call
<1> HIDE DEF state, c
<1>14. ShapeOf(state)
  BY <1>3, <1>5 DEF ShapeOf
<1>15. Fits(state, confirmed', latest')
  BY <1>2, <1>3, <1>5, <1>6, <1>11 DEF Fits
<1>16. Settles(state, rows', link', newest', confirmed', latest', matricule')
  BY <1>2, <1>3, <1>5, <1>6, <1>11, <1>12, <1>13 DEF Settles
<1>17. call' \in [Handlers -> Call] /\ Shape' /\ Readings' /\ Settling'
  BY <1>3, <1>4, <1>6, <1>10, <1>14, <1>15, <1>16, GoesKeeps
<1> QED BY <1>6, <1>9, <1>17 DEF IInv, TypeOK, MappingsOK

LEMMA RefreshReconcilesKeeps ==
    ASSUME IInv, NEW h \in Handlers, RefreshReconciles(h) PROVE IInv'
<1> DEFINE c == call[h]
           want == Reconciled(link, newest)
           state == [c EXCEPT !.at = "reconciling", !.found = Nobody,
                              !.want = want,
                              !.todo = {e \in Employees : want[e] # matricule[e]}]
<1>1. c \in Call /\ c.does = "refresh" /\ c.at = "upserting" /\ c.todo = {}
  BY DEF IInv, TypeOK, In, RefreshReconciles
<1>2. call' = [call EXCEPT ![h] = state] /\ UNCHANGED <<tables, asked>>
  BY DEF RefreshReconciles, IInv, TypeOK
<1>3. want \in [Employees -> Keys \cup {None}]
  BY ReconciledType DEF IInv, TypeOK, DirectoryOK
<1>4. Nobody \in [Records -> Employees \cup {None}]
  BY DEF Nobody
<1>5. ASSUME NEW e \in Employees
      PROVE  /\ RowsOf(e, link) # {} => want[e] = newest[e]
             /\ RowsOf(e, link) = {} /\ want[e] \in Records => link[want[e]] = None
  <2>1. IF RowsOf(e, link) = {} THEN newest[e] = None ELSE newest[e] \in Records
    BY DEF IInv, TypeOK, DirectoryOK, RowsOf
  <2>2. want[e] = IF newest[e] # None THEN newest[e]
                  ELSE IF matricule[e] \in Records /\ link[matricule[e]] # None
                       THEN None ELSE matricule[e]
    BY DEF Reconciled
  <2> HIDE DEF want
  <2> QED BY <2>1, <2>2, SapAssumption
<1>6. Settles(c, rows, link, newest, confirmed, latest, matricule)
  BY DEF IInv, Settling
<1> HIDE DEF want
<1>7. state \in Call
  BY <1>1, <1>3, <1>4 DEF Call
<1>8. /\ state.does = "refresh" /\ state.at = "reconciling"
      /\ state.list = c.list /\ state.want = want
      /\ state.todo = {e \in Employees : want[e] # matricule[e]}
      /\ state.stirred = c.stirred
  BY <1>1 DEF Call
<1>9. \A e \in Employees : e \notin state.todo => matricule[e] = state.want[e]
  BY <1>8
<1> HIDE DEF state, c
<1>10. ShapeOf(state) /\ Fits(state, confirmed, latest)
  BY <1>8 DEF ShapeOf, Fits
<1>11. Settles(state, rows, link, newest, confirmed, latest, matricule)
  BY <1>1, <1>5, <1>6, <1>8, <1>9 DEF Settles
<1>12. asked' \in 0 .. MaxRequests
  BY <1>2 DEF IInv, TypeOK
<1> QED BY <1>2, <1>7, <1>10, <1>11, <1>12, MoveKeeps

LEMMA RefreshNamesKeeps ==
    ASSUME IInv, NEW h \in Handlers, RefreshNames(h) PROVE IInv'
<1> DEFINE c == call[h]
<1>1. PICK e \in c.todo :
        /\ In(h, "refresh", "reconciling")
        /\ matricule' = [matricule EXCEPT ![e] = c.want[e]]
        /\ Goes(h, [c EXCEPT !.todo = @ \ {e}], {e})
        /\ UNCHANGED <<directory, mappings, asked>>
  BY DEF RefreshNames
<1> DEFINE state == [c EXCEPT !.todo = @ \ {e}]
<1>2. c \in Call /\ c.does = "refresh" /\ c.at = "reconciling"
  BY <1>1 DEF IInv, TypeOK, In
<1>3. c.todo \subseteq Employees /\ e \in Employees
  BY <1>2 DEF IInv, Shape, ShapeOf
<1>4. state \in Call
  BY <1>2 DEF Call
<1>5. /\ state.does = "refresh" /\ state.at = "reconciling"
      /\ state.list = c.list /\ state.todo = c.todo \ {e}
      /\ state.want = c.want /\ state.stirred = c.stirred
  BY <1>2 DEF Call
<1>6. UNCHANGED <<rows, link, newest, confirmed, latest, asked>>
  BY <1>1 DEF directory, mappings
<1>7. matricule \in [Employees -> Keys \cup {None}]
  BY DEF IInv, TypeOK
<1>8. c.want[e] \in Keys \cup {None}
  BY <1>2, <1>3 DEF Call
<1>9. /\ matricule' \in [Employees -> Keys \cup {None}]
      /\ \A d \in Employees : matricule'[d] = IF d = e THEN c.want[e] ELSE matricule[d]
  BY <1>1, <1>3, <1>7, <1>8
<1>10. Goes(h, state, {e})
  BY <1>1
<1>11. Settles(c, rows, link, newest, confirmed, latest, matricule)
  BY DEF IInv, Settling
<1> HIDE DEF state, c
<1>12. ShapeOf(state) /\ Fits(state, confirmed', latest')
  BY <1>3, <1>5 DEF ShapeOf, Fits
<1>13. Settles(state, rows', link', newest', confirmed', latest', matricule')
  BY <1>2, <1>5, <1>6, <1>9, <1>11 DEF Settles
<1>14. call' \in [Handlers -> Call] /\ Shape' /\ Readings' /\ Settling'
  BY <1>3, <1>4, <1>6, <1>10, <1>12, <1>13, GoesKeeps
<1> QED BY <1>6, <1>9, <1>14 DEF IInv, TypeOK, DirectoryOK, MappingsOK

\* Whoever has ended, or failed, has read nothing.
LEMMA FreeKeeps ==
    ASSUME IInv, NEW h \in Handlers, call' = [call EXCEPT ![h] = Free],
           UNCHANGED <<tables, asked>>
    PROVE  IInv'
<1>1. Free.does = "nothing" /\ Free.at = "idle"
  BY DEF Free
<1>2. ShapeOf(Free) /\ Fits(Free, confirmed, latest)
  BY <1>1 DEF ShapeOf, Fits
<1>3. Settles(Free, rows, link, newest, confirmed, latest, matricule)
  BY <1>1 DEF Settles
<1> QED BY <1>2, <1>3, FreeIsCall, MoveKeeps DEF IInv, TypeOK

-----------------------------------------------------------------------------
(* The steps of the staff and of the matchings                             *)

LEMMA ConfirmsOK ==
    ASSUME MappingsOK, NEW e \in Employees, NEW s \in Records, Confirms(e, s)
    PROVE  /\ MappingsOK'
           /\ \A r \in Records \ {s} : /\ confirmed'[r] = confirmed[r]
                                       /\ latest'[r] = latest[r]
           /\ \A r \in Records, d \in Employees :
                d \in confirmed'[r] => d \in confirmed[r] \/ (d = e /\ r = s)
<1>1. /\ confirmed \in [Records -> SUBSET Employees]
      /\ latest \in [Records -> Employees \cup {None}]
  BY DEF MappingsOK
<1>2. /\ confirmed' = [confirmed EXCEPT ![s] = @ \cup {e}]
      /\ latest' = [latest EXCEPT ![s] = e]
  BY DEF Confirms
<1>3. /\ confirmed' \in [Records -> SUBSET Employees]
      /\ latest' \in [Records -> Employees \cup {None}]
  BY <1>1, <1>2
<1>4. /\ confirmed'[s] = confirmed[s] \cup {e} /\ latest'[s] = e
      /\ \A r \in Records \ {s} : /\ confirmed'[r] = confirmed[r]
                                  /\ latest'[r] = latest[r]
  BY <1>1, <1>2
<1>5. ASSUME NEW r \in Records
      PROVE  /\ confirmed'[r] = {} => latest'[r] = None
             /\ confirmed'[r] # {} => latest'[r] \in confirmed'[r]
  <2>1. CASE r = s
    <3>1. e \in confirmed'[r] /\ latest'[r] = e
      BY <1>4, <2>1
    <3> QED BY <3>1
  <2>2. CASE r # s
    <3>1. confirmed'[r] = confirmed[r] /\ latest'[r] = latest[r]
      BY <1>4, <2>2
    <3> QED BY <3>1 DEF MappingsOK
  <2> QED BY <2>1, <2>2
<1>6. MappingsOK'
  BY <1>3, <1>5 DEF MappingsOK
<1>7. ASSUME NEW r \in Records, NEW d \in Employees, d \in confirmed'[r]
      PROVE  d \in confirmed[r] \/ (d = e /\ r = s)
  BY <1>4, <1>7
<1> QED BY <1>4, <1>6, <1>7

\* Mappings that only shrink, but of the records in S, and their last ones.
LEMMA LatestsOK ==
    ASSUME MappingsOK, NEW left \in [Records -> SUBSET Employees],
           confirmed' = left, latest' \in Latests(left)
    PROVE  /\ MappingsOK'
           /\ \A r \in Records : left[r] = confirmed[r] => latest'[r] = latest[r]
<1>1. latest \in [Records -> Employees \cup {None}]
  BY DEF MappingsOK
<1>2. /\ latest' \in [Records -> Employees \cup {None}]
      /\ \A s \in Records :
           /\ left[s] = {} => latest'[s] = None
           /\ left[s] # {} => latest'[s] \in left[s]
           /\ latest[s] \in left[s] => latest'[s] = latest[s]
  BY <1>1, LatestsFacts
<1> QED BY <1>2 DEF MappingsOK

LEMMA DropsOK ==
    ASSUME MappingsOK, NEW e \in Employees, NEW s \in Records, Drops(e, s)
    PROVE  /\ MappingsOK'
           /\ \A r \in Records \ {s} : /\ confirmed'[r] = confirmed[r]
                                       /\ latest'[r] = latest[r]
           /\ \A r \in Records : confirmed'[r] \subseteq confirmed[r]
<1> DEFINE left == [confirmed EXCEPT ![s] = @ \ {e}]
<1>1. left \in [Records -> SUBSET Employees]
  BY DEF MappingsOK
<1>2. confirmed' = left /\ latest' \in Latests(left)
  BY DEF Drops
<1>3. \A r \in Records : /\ r # s => left[r] = confirmed[r]
                         /\ left[r] \subseteq confirmed[r]
  BY DEF MappingsOK
<1> HIDE DEF left
<1>4. /\ MappingsOK'
      /\ \A r \in Records : left[r] = confirmed[r] => latest'[r] = latest[r]
  BY ONLY <1>1, <1>2, LatestsOK, MappingsOK
<1> QED BY <1>2, <1>3, <1>4

LEMMA LinkManuallyKeeps ==
    ASSUME IInv, NEW e \in Employees, NEW s \in Records, LinkManually(e, s)
    PROVE  IInv'
<1> DEFINE links == [r \in Records |->
                       IF r = s THEN e ELSE IF link[r] = e THEN None ELSE link[r]]
           things == {r \in Records : links[r] # link[r]
                                      \/ confirmed'[r] # confirmed[r]}
                     \cup {s} \cup {d \in Employees : matricule'[d] # matricule[d]}
<1>1. /\ s \in rows /\ Asks
      /\ link' = links /\ newest' \in Newests(links)
      /\ confirmed' = Linked(e, s) /\ latest' \in Latests(Linked(e, s))
      /\ matricule' = Reconciled(links, newest')
      /\ call' = Stir(None, things) /\ UNCHANGED rows
  BY DEF LinkManually
<1>2. DirectoryOK /\ MappingsOK
  BY DEF IInv, TypeOK
<1>3. links \in [Records -> Employees \cup {None}]
  BY <1>2 DEF DirectoryOK
<1>4. \A r \in Records : links[r] # None => r \in rows
  BY <1>1, <1>2 DEF DirectoryOK
<1>5. things \in SUBSET (Records \cup Employees) /\ things # {}
  OBVIOUS
<1>6. \A r \in Records \ things : confirmed'[r] = confirmed[r]
  OBVIOUS
<1>7. Linked(e, s) \in [Records -> SUBSET Employees]
  BY <1>2 DEF Linked, MappingsOK
<1> HIDE DEF links, things
<1>8. /\ newest' \in [Employees -> Records \cup {None}]
      /\ \A d \in Employees :
           /\ RowsOf(d, links) = {} => newest'[d] = None
           /\ RowsOf(d, links) # {} => newest'[d] \in RowsOf(d, links)
  BY <1>1, <1>2, <1>3, NewestsFacts DEF DirectoryOK
<1>9. DirectoryOK'
  BY <1>1, <1>2, <1>3, <1>4, <1>8 DEF DirectoryOK
<1>10. /\ MappingsOK'
       /\ \A r \in Records \ things : latest'[r] = latest[r]
  BY <1>1, <1>2, <1>6, <1>7, LatestsOK
<1>11. matricule' \in [Employees -> Keys \cup {None}]
  BY <1>1, <1>8, ReconciledType DEF IInv, TypeOK
<1>12. call' \in [Handlers -> Call] /\ Shape' /\ Readings' /\ Settling'
  BY <1>1, <1>5, <1>6, <1>10, StirKeeps
<1>13. asked' \in 0 .. MaxRequests
  BY <1>1, AskedType DEF IInv, TypeOK
<1> QED BY <1>9, <1>10, <1>11, <1>12, <1>13 DEF IInv, TypeOK

\* A confirmation that has chosen e and s.
LEMMA ConfirmReadsKeeps ==
    ASSUME IInv, NEW h \in Handlers, ConfirmReads(h) PROVE IInv'
<1>1. PICK e \in Employees, s \in Records :
        /\ Begins(h, [Free EXCEPT !.does = "confirm", !.at = "chosen",
                                  !.emp = e, !.rec = s])
        /\ UNCHANGED tables
  BY DEF ConfirmReads
<1> DEFINE state == [Free EXCEPT !.does = "confirm", !.at = "chosen",
                                 !.emp = e, !.rec = s]
<1>2. state \in Call
  BY FreeIsCall DEF Call
<1>3. /\ state.does = "confirm" /\ state.at = "chosen"
      /\ state.emp = e /\ state.rec = s
  BY DEF Free
<1>4. call' = [call EXCEPT ![h] = state] /\ asked' \in 0 .. MaxRequests
  BY <1>1, AskedType DEF Begins, IInv, TypeOK
<1> HIDE DEF state
<1>5. ShapeOf(state) /\ Fits(state, confirmed, latest)
      /\ Settles(state, rows, link, newest, confirmed, latest, matricule)
  BY <1>3 DEF ShapeOf, Fits, Settles
<1> QED BY <1>1, <1>2, <1>4, <1>5, MoveKeeps

LEMMA ConfirmMapsKeeps ==
    ASSUME IInv, NEW h \in Handlers, ConfirmMaps(h) PROVE IInv'
<1> DEFINE c == call[h]
           state == [c EXCEPT !.at = "mapped"]
<1>1. /\ c.does = "confirm" /\ c.at = "chosen"
      /\ Confirms(c.emp, c.rec) /\ Goes(h, state, {c.rec})
      /\ UNCHANGED <<directory, matricule, asked>>
  BY DEF ConfirmMaps, In
<1>2. c \in Call /\ c.emp \in Employees /\ c.rec \in Records
  BY <1>1 DEF IInv, TypeOK, Shape, ShapeOf
<1>3. state \in Call
  BY <1>2 DEF Call
<1>4. /\ state.does = "confirm" /\ state.at = "mapped"
      /\ state.emp = c.emp /\ state.rec = c.rec
  BY <1>1, <1>2 DEF Call
<1>5. MappingsOK
  BY DEF IInv, TypeOK
<1> HIDE DEF state, c
<1>6. ShapeOf(state) /\ Fits(state, confirmed', latest')
      /\ Settles(state, rows', link', newest', confirmed', latest', matricule')
  BY <1>2, <1>4 DEF ShapeOf, Fits, Settles
<1>7. PICK e \in Employees, s \in Records : e = c.emp /\ s = c.rec
  BY <1>2
<1>8. Confirms(e, s)
  BY <1>1, <1>7 DEF Confirms
<1>9. /\ MappingsOK'
      /\ \A r \in Records \ {s} : /\ confirmed'[r] = confirmed[r]
                                  /\ latest'[r] = latest[r]
  BY ONLY <1>5, <1>8, ConfirmsOK, e \in Employees, s \in Records
<1>10. call' \in [Handlers -> Call] /\ Shape' /\ Readings' /\ Settling'
  BY <1>1, <1>2, <1>3, <1>6, <1>7, <1>9, GoesKeeps
<1> QED BY <1>1, <1>9, <1>10 DEF IInv, TypeOK, DirectoryOK, directory

LEMMA MatchNamesKeeps ==
    ASSUME IInv, NEW h \in Handlers, MatchNames(h) PROVE IInv'
<1> DEFINE c == call[h]
           going == [c EXCEPT !.at = "matching", !.emp = None, !.rec = None]
           state == IF c.does = "confirm" THEN Free ELSE going
<1>1. /\ c.at = "mapped" /\ matricule' = [matricule EXCEPT ![c.emp] = c.rec]
      /\ Goes(h, state, {c.emp})
      /\ UNCHANGED <<directory, mappings, asked>>
  BY DEF MatchNames
<1>2. c \in Call /\ ShapeOf(c) /\ Fits(c, confirmed, latest)
  BY DEF IInv, TypeOK, Shape, Readings
<1>3. /\ c.does \in {"confirm", "auto"}
      /\ c.emp \in Employees /\ c.rec \in Records
      /\ c.does = "auto" => c.todo \subseteq Employees
  BY <1>1, <1>2 DEF ShapeOf, Call
<1>4. going \in Call
  BY <1>2 DEF Call
<1>5. /\ going.does = c.does /\ going.at = "matching" /\ going.todo = c.todo
      /\ going.stirred = c.stirred
  BY <1>2 DEF Call
<1>6. Free.does = "nothing" /\ Free.at = "idle"
  BY DEF Free
<1>7. UNCHANGED <<rows, link, newest, confirmed, latest, asked>>
  BY <1>1 DEF directory, mappings
<1>8. matricule' \in [Employees -> Keys \cup {None}]
  BY <1>1, <1>3, SapAssumption DEF IInv, TypeOK
<1> HIDE DEF going, c
<1>9. ShapeOf(Free) /\ Fits(Free, confirmed', latest')
  BY <1>6 DEF ShapeOf, Fits
<1>10. Settles(Free, rows', link', newest', confirmed', latest', matricule')
  BY <1>6 DEF Settles
<1>11. c.does = "auto" => ShapeOf(going) /\ Fits(going, confirmed', latest')
  BY <1>2, <1>3, <1>5, <1>7 DEF ShapeOf, Fits
<1>12. c.does = "auto" =>
         Settles(going, rows', link', newest', confirmed', latest', matricule')
  BY <1>5 DEF Settles
<1>13. /\ state \in Call /\ ShapeOf(state) /\ Fits(state, confirmed', latest')
       /\ Settles(state, rows', link', newest', confirmed', latest', matricule')
  BY <1>3, <1>4, <1>9, <1>10, <1>11, <1>12, FreeIsCall
<1> HIDE DEF state
<1>14. call' \in [Handlers -> Call] /\ Shape' /\ Readings' /\ Settling'
  BY <1>1, <1>3, <1>7, <1>13, GoesKeeps
<1> QED BY <1>7, <1>8, <1>14 DEF IInv, TypeOK, DirectoryOK, MappingsOK

LEMMA RelinkReadsKeeps ==
    ASSUME IInv, NEW h \in Handlers, RelinkReads(h) PROVE IInv'
<1>1. PICK e \in Employees, s \in Records :
        /\ Begins(h, [Free EXCEPT !.does = "relink", !.at = "chosen",
                                  !.emp = e, !.rec = s, !.todo = ConfirmedOf(e)])
        /\ UNCHANGED tables
  BY DEF RelinkReads
<1> DEFINE state == [Free EXCEPT !.does = "relink", !.at = "chosen", !.emp = e,
                                 !.rec = s, !.todo = ConfirmedOf(e)]
<1>2. state \in Call
  BY FreeIsCall DEF Call, ConfirmedOf
<1>3. /\ state.does = "relink" /\ state.at = "chosen" /\ state.emp = e
      /\ state.rec = s /\ state.todo = ConfirmedOf(e)
  BY DEF Free
<1>4. call' = [call EXCEPT ![h] = state] /\ asked' \in 0 .. MaxRequests
  BY <1>1, AskedType DEF Begins, IInv, TypeOK
<1> HIDE DEF state
<1>5. ShapeOf(state) /\ Fits(state, confirmed, latest)
      /\ Settles(state, rows, link, newest, confirmed, latest, matricule)
  BY <1>3 DEF ShapeOf, Fits, Settles, ConfirmedOf
<1> QED BY <1>1, <1>2, <1>4, <1>5, MoveKeeps

\* What the transaction of a relink leaves: the records it has read, without e.
Relinked(e, s, old) ==
    [r \in Records |-> IF r = s THEN confirmed[r] \cup {e}
                       ELSE IF r \in old THEN confirmed[r] \ {e} ELSE confirmed[r]]

LEMMA RelinkedFacts ==
    ASSUME MappingsOK, NEW e \in Employees, NEW s \in Records, NEW old
    PROVE  /\ Relinked(e, s, old) \in [Records -> SUBSET Employees]
           /\ e \in Relinked(e, s, old)[s]
           /\ \A r \in Records \ (old \cup {s}) :
                Relinked(e, s, old)[r] = confirmed[r]
           /\ \A r \in old \ {s} : r \in Records => e \notin Relinked(e, s, old)[r]
           /\ \A r \in Records, d \in Employees \ {e} :
                d \in Relinked(e, s, old)[r] => d \in confirmed[r]
<1>1. confirmed \in [Records -> SUBSET Employees]
  BY DEF MappingsOK
<1>2. ASSUME NEW r \in Records
      PROVE  Relinked(e, s, old)[r] =
               IF r = s THEN confirmed[r] \cup {e}
               ELSE IF r \in old THEN confirmed[r] \ {e} ELSE confirmed[r]
  BY DEF Relinked
<1>3. Relinked(e, s, old) \in [Records -> SUBSET Employees]
  BY <1>1 DEF Relinked
<1>4. e \in Relinked(e, s, old)[s]
  BY <1>2
<1>5. ASSUME NEW r \in Records \ (old \cup {s})
      PROVE  Relinked(e, s, old)[r] = confirmed[r]
  BY <1>2
<1>6. ASSUME NEW r \in old \ {s}, r \in Records
      PROVE  e \notin Relinked(e, s, old)[r]
  BY <1>2, <1>6
<1>7. ASSUME NEW r \in Records, NEW d \in Employees \ {e},
             d \in Relinked(e, s, old)[r]
      PROVE  d \in confirmed[r]
  <2>1. CASE r = s
    BY <1>2, <1>7, <2>1
  <2>2. CASE r # s /\ r \in old
    BY <1>2, <1>7, <2>2
  <2>3. CASE r # s /\ r \notin old
    BY <1>2, <1>7, <2>3
  <2> QED BY <2>1, <2>2, <2>3
<1> QED BY <1>3, <1>4, <1>5, <1>6, <1>7

\* The mappings stay in order when one is confirmed last.
LEMMA RelinkedOK ==
    ASSUME MappingsOK, NEW left \in [Records -> SUBSET Employees],
           NEW e \in Employees, NEW s \in Records, NEW l \in Latests(left),
           e \in left[s], confirmed' = left, latest' = [l EXCEPT ![s] = e]
    PROVE  /\ MappingsOK'
           /\ \A r \in Records \ {s} :
                left[r] = confirmed[r] => latest'[r] = latest[r]
<1>1. latest \in [Records -> Employees \cup {None}]
  BY DEF MappingsOK
<1>2. /\ l \in [Records -> Employees \cup {None}]
      /\ \A r \in Records :
           /\ left[r] = {} => l[r] = None
           /\ left[r] # {} => l[r] \in left[r]
           /\ latest[r] \in left[r] => l[r] = latest[r]
  BY <1>1, LatestsFacts
<1>3. /\ latest' \in [Records -> Employees \cup {None}]
      /\ latest'[s] = e
      /\ \A r \in Records \ {s} : latest'[r] = l[r]
  BY <1>2
<1>4. ASSUME NEW r \in Records
      PROVE  /\ left[r] = {} => latest'[r] = None
             /\ left[r] # {} => latest'[r] \in left[r]
  <2>1. CASE r = s
    BY <1>3, <2>1
  <2>2. CASE r # s
    BY <1>2, <1>3, <2>2
  <2> QED BY <2>1, <2>2
<1>5. MappingsOK'
  BY <1>3, <1>4 DEF MappingsOK
<1>6. ASSUME NEW r \in Records \ {s}, left[r] = confirmed[r]
      PROVE  latest'[r] = latest[r]
  <2>1. latest'[r] = l[r]
    BY <1>3
  <2>2. CASE left[r] = {}
    BY <1>2, <1>6, <2>1, <2>2 DEF MappingsOK
  <2>3. CASE left[r] # {}
    BY <1>2, <1>6, <2>1, <2>3 DEF MappingsOK
  <2> QED BY <2>2, <2>3
<1> QED BY <1>5, <1>6

LEMMA RelinkCommitsKeeps ==
    ASSUME IInv, NEW h \in Handlers, RelinkCommits(h) PROVE IInv'
<1> DEFINE c == call[h]
<1>1. /\ c.does = "relink" /\ c.at = "chosen"
      /\ confirmed' = Relinked(c.emp, c.rec, c.todo)
      /\ \E l \in Latests(Relinked(c.emp, c.rec, c.todo)) :
           latest' = [l EXCEPT ![c.rec] = c.emp]
      /\ matricule' = [matricule EXCEPT ![c.emp] = c.rec]
      /\ Goes(h, Free, c.todo \cup {c.rec, c.emp})
      /\ UNCHANGED <<directory, asked>>
  BY DEF RelinkCommits, Relinked, In
<1>2. c \in Call /\ c.emp \in Employees /\ c.rec \in Records
  BY <1>1 DEF IInv, TypeOK, Shape, ShapeOf
<1>3. c.todo \subseteq Records \cup Employees
  BY <1>2 DEF Call
<1> HIDE DEF c
<1>4. PICK e \in Employees, s \in Records, old \in SUBSET (Records \cup Employees) :
        e = c.emp /\ s = c.rec /\ old = c.todo
  BY <1>2, <1>3
<1> DEFINE left == Relinked(e, s, old)
<1>5. PICK l \in Latests(left) : latest' = [l EXCEPT ![s] = e]
  BY <1>1, <1>4
<1>6. MappingsOK
  BY DEF IInv, TypeOK
<1>7. /\ left \in [Records -> SUBSET Employees] /\ e \in left[s]
      /\ \A r \in Records \ (old \cup {s}) : left[r] = confirmed[r]
  BY <1>6, RelinkedFacts
<1>8. confirmed' = left
  BY <1>1, <1>4
<1> HIDE DEF left
<1>9. /\ MappingsOK'
      /\ \A r \in Records \ {s} : left[r] = confirmed[r] => latest'[r] = latest[r]
  BY ONLY <1>5, <1>6, <1>7, <1>8, RelinkedOK, e \in Employees, s \in Records
<1> DEFINE things == old \cup {s, e}
<1>10. things \in SUBSET (Records \cup Employees) /\ things # {}
  OBVIOUS
<1>11. \A r \in Records \ things : /\ confirmed'[r] = confirmed[r]
                                   /\ latest'[r] = latest[r]
  BY <1>7, <1>8, <1>9
<1>12. Free.does = "nothing" /\ Free.at = "idle"
  BY DEF Free
<1>13. ShapeOf(Free) /\ Fits(Free, confirmed', latest')
       /\ Settles(Free, rows', link', newest', confirmed', latest', matricule')
  BY <1>12 DEF ShapeOf, Fits, Settles
<1>14. Goes(h, Free, things)
  BY <1>1, <1>4
<1> HIDE DEF things
<1>15. call' \in [Handlers -> Call] /\ Shape' /\ Readings' /\ Settling'
  BY <1>10, <1>11, <1>13, <1>14, FreeIsCall, GoesKeeps
<1>16. matricule' \in [Employees -> Keys \cup {None}]
  BY <1>1, <1>2, SapAssumption DEF IInv, TypeOK
<1> QED BY <1>1, <1>9, <1>15, <1>16 DEF IInv, TypeOK, DirectoryOK, directory

LEMMA RejectKeeps ==
    ASSUME IInv, NEW e \in Employees, NEW s \in Records, Reject(e, s)
    PROVE  IInv'
<1>1. MappingsOK /\ Drops(e, s)
  BY DEF IInv, TypeOK, Reject
<1>2. /\ MappingsOK'
      /\ \A r \in Records \ {s} : /\ confirmed'[r] = confirmed[r]
                                  /\ latest'[r] = latest[r]
  BY <1>1, DropsOK
<1>3. call' = Stir(None, {s})
  BY DEF Reject
<1>4. call' \in [Handlers -> Call] /\ Shape' /\ Readings' /\ Settling'
  BY <1>2, <1>3, StirKeeps
<1>5. asked' \in 0 .. MaxRequests
  BY AskedType DEF Reject, IInv, TypeOK
<1> QED BY <1>2, <1>4, <1>5 DEF IInv, TypeOK, DirectoryOK, directory, Reject

LEMMA AutoReadsKeeps ==
    ASSUME IInv, NEW h \in Handlers, AutoReads(h) PROVE IInv'
<1> DEFINE alone == {e \in Employees : ConfirmedOf(e) = {}}
           state == [Free EXCEPT !.does = "auto", !.at = "matching",
                                 !.todo = alone]
<1>1. state \in Call
  BY FreeIsCall DEF Call
<1>2. /\ state.does = "auto" /\ state.at = "matching" /\ state.todo = alone
  BY DEF Free
<1>3. call' = [call EXCEPT ![h] = state] /\ asked' \in 0 .. MaxRequests
      /\ UNCHANGED tables
  BY AskedType DEF AutoReads, Begins, IInv, TypeOK
<1>4. \A e \in alone : \A s \in Records : e \notin confirmed[s]
  BY DEF ConfirmedOf
<1>5. alone \subseteq Employees
  OBVIOUS
<1> HIDE DEF state, alone
<1>6. ShapeOf(state) /\ Fits(state, confirmed, latest)
      /\ Settles(state, rows, link, newest, confirmed, latest, matricule)
  BY <1>2, <1>4, <1>5 DEF ShapeOf, Fits, Settles
<1> QED BY <1>1, <1>3, <1>6, MoveKeeps

LEMMA AutoMapsKeeps ==
    ASSUME IInv, NEW h \in Handlers, AutoMaps(h) PROVE IInv'
<1> DEFINE c == call[h]
<1>1. PICK e \in c.todo, s \in Records :
        /\ In(h, "auto", "matching")
        /\ \/ /\ Confirms(e, s)
              /\ Goes(h, [c EXCEPT !.at = "mapped", !.todo = @ \ {e},
                                   !.emp = e, !.rec = s], {s})
           \/ /\ Drops(e, s)
              /\ Goes(h, [c EXCEPT !.todo = @ \ {e}], {s})
        /\ UNCHANGED <<directory, matricule, asked>>
  BY DEF AutoMaps
<1>2. c \in Call /\ c.does = "auto" /\ c.at = "matching"
      /\ ShapeOf(c) /\ Fits(c, confirmed, latest)
  BY <1>1 DEF In, IInv, TypeOK, Shape, Readings
<1>3. c.todo \subseteq Employees /\ e \in Employees
  BY <1>2 DEF ShapeOf
<1>4. MappingsOK
  BY DEF IInv, TypeOK
<1> DEFINE mapped == [c EXCEPT !.at = "mapped", !.todo = @ \ {e},
                               !.emp = e, !.rec = s]
           dropped == [c EXCEPT !.todo = @ \ {e}]
<1>5. mapped \in Call /\ dropped \in Call
  BY <1>2, <1>3 DEF Call
<1>6. /\ mapped.does = "auto" /\ mapped.at = "mapped" /\ mapped.todo = c.todo \ {e}
      /\ mapped.emp = e /\ mapped.rec = s /\ mapped.stirred = c.stirred
      /\ dropped.does = "auto" /\ dropped.at = "matching"
      /\ dropped.todo = c.todo \ {e} /\ dropped.stirred = c.stirred
  BY <1>2 DEF Call
<1>7. /\ MappingsOK'
      /\ \A r \in Records \ {s} : /\ confirmed'[r] = confirmed[r]
                                  /\ latest'[r] = latest[r]
      /\ \A r \in Records, d \in Employees :
           d \in confirmed'[r] => d \in confirmed[r] \/ d = e
  <2>1. CASE Confirms(e, s)
    BY <1>3, <1>4, <2>1, ConfirmsOK
  <2>2. CASE Drops(e, s)
    BY <1>3, <1>4, <2>2, DropsOK
  <2> QED BY <1>1, <2>1, <2>2
<1>8. Goes(h, mapped, {s}) \/ Goes(h, dropped, {s})
  BY <1>1
<1> HIDE DEF mapped, dropped, c
<1>9. /\ ShapeOf(mapped) /\ Fits(mapped, confirmed', latest')
      /\ Settles(mapped, rows', link', newest', confirmed', latest', matricule')
  BY <1>2, <1>3, <1>6, <1>7 DEF ShapeOf, Fits, Settles
<1>10. /\ ShapeOf(dropped) /\ Fits(dropped, confirmed', latest')
       /\ Settles(dropped, rows', link', newest', confirmed', latest', matricule')
  BY <1>2, <1>3, <1>6, <1>7 DEF ShapeOf, Fits, Settles
<1>11. call' \in [Handlers -> Call] /\ Shape' /\ Readings' /\ Settling'
  <2>1. CASE Goes(h, mapped, {s})
    BY <1>5, <1>7, <1>9, <2>1, GoesKeeps
  <2>2. CASE Goes(h, dropped, {s})
    BY <1>5, <1>7, <1>10, <2>2, GoesKeeps
  <2> QED BY <1>8, <2>1, <2>2
<1> QED BY <1>1, <1>7, <1>11 DEF IInv, TypeOK, DirectoryOK, directory

LEMMA TypeMatriculeKeeps ==
    ASSUME IInv, NEW e \in Employees, TypeMatricule(e) PROVE IInv'
<1>1. PICK code \in Keys \cup {None} :
        /\ Asks /\ matricule' = [matricule EXCEPT ![e] = code]
        /\ call' = Stir(None, {e}) /\ UNCHANGED <<directory, mappings>>
  BY DEF TypeMatricule
<1>2. UNCHANGED <<rows, link, newest, confirmed, latest>>
  BY <1>1 DEF directory, mappings
<1>3. call' \in [Handlers -> Call] /\ Shape' /\ Readings' /\ Settling'
  BY <1>1, <1>2, StirKeeps
<1>4. asked' \in 0 .. MaxRequests
  BY <1>1, AskedType DEF IInv, TypeOK
<1>5. matricule' \in [Employees -> Keys \cup {None}]
  BY <1>1 DEF IInv, TypeOK
<1> QED BY <1>2, <1>3, <1>4, <1>5 DEF IInv, TypeOK, DirectoryOK, MappingsOK

-----------------------------------------------------------------------------
(* The invariant                                                           *)

LEMMA IInvInit == Init => IInv
<1> SUFFICES ASSUME Init PROVE IInv
  OBVIOUS
<1>1. TypeOK
  BY TypeInit
<1>2. Free.does = "nothing" /\ Free.at = "idle"
  BY DEF Free
<1>3. \A h \in Handlers : call[h] = Free
  BY DEF Init
<1>4. ShapeOf(Free) /\ Fits(Free, confirmed, latest)
      /\ Settles(Free, rows, link, newest, confirmed, latest, matricule)
  BY <1>2 DEF ShapeOf, Fits, Settles
<1> QED BY <1>1, <1>3, <1>4 DEF IInv, Shape, Readings, Settling

LEMMA IInvNext == IInv /\ [Next]_vars => IInv'
<1> SUFFICES ASSUME IInv, [Next]_vars PROVE IInv'
  OBVIOUS
<1>1. ASSUME NEW h \in Handlers, Handles(h) PROVE IInv'
  <2>1. CASE RefreshReads(h)
    BY <2>1, RefreshReadsKeeps
  <2>2. CASE RefreshReadsMappings(h)
    BY <2>2, RefreshReadsMappingsKeeps
  <2>3. CASE RefreshUpserts(h)
    BY <2>3, RefreshUpsertsKeeps
  <2>4. CASE RefreshReconciles(h)
    BY <2>4, RefreshReconcilesKeeps
  <2>5. CASE RefreshNames(h)
    BY <2>5, RefreshNamesKeeps
  <2>6. CASE RefreshEnds(h) \/ AutoEnds(h) \/ Fails(h)
    BY <2>6, FreeKeeps DEF RefreshEnds, AutoEnds, Fails
  <2>7. CASE ConfirmReads(h)
    BY <2>7, ConfirmReadsKeeps
  <2>8. CASE ConfirmMaps(h)
    BY <2>8, ConfirmMapsKeeps
  <2>9. CASE MatchNames(h)
    BY <2>9, MatchNamesKeeps
  <2>10. CASE RelinkReads(h)
    BY <2>10, RelinkReadsKeeps
  <2>11. CASE RelinkCommits(h)
    BY <2>11, RelinkCommitsKeeps
  <2>12. CASE AutoReads(h)
    BY <2>12, AutoReadsKeeps
  <2>13. CASE AutoMaps(h)
    BY <2>13, AutoMapsKeeps
  <2> QED BY <1>1, <2>1, <2>2, <2>3, <2>4, <2>5, <2>6, <2>7, <2>8, <2>9, <2>10,
             <2>11, <2>12, <2>13 DEF Handles
<1>2. ASSUME NEW e \in Employees, NEW s \in Records, LinkManually(e, s)
      PROVE  IInv'
  BY <1>2, LinkManuallyKeeps
<1>3. ASSUME NEW e \in Employees, NEW s \in Records, Reject(e, s) PROVE IInv'
  BY <1>3, RejectKeeps
<1>4. ASSUME NEW e \in Employees, TypeMatricule(e) PROVE IInv'
  BY <1>4, TypeMatriculeKeeps
<1>5. CASE UNCHANGED vars
  BY <1>5 DEF vars, tables, directory, mappings, IInv, TypeOK, DirectoryOK,
              MappingsOK, Shape, Readings, Settling
<1> QED BY <1>1, <1>2, <1>3, <1>4, <1>5 DEF Next

\* What is known of tables and handlers, at every await, holds in every state.
THEOREM InvariantHolds == Spec => []IInv
<1> QED BY IInvInit, IInvNext, PTL DEF Spec

\* The directory, the mappings and the matricules stay well formed: only a
\* record with a row has an employee, the one synchronised last is one of his
\* own, and the one matched last is one of those confirmed.
THEOREM TypeCorrect == Spec => []TypeOK
<1>1. IInv => TypeOK
  BY DEF IInv
<1> QED BY <1>1, InvariantHolds, PTL

-----------------------------------------------------------------------------
(* What it is all for                                                      *)

\* A refresh that nobody wrote behind leaves the directory, the mappings and
\* the matricules in agreement, in whatever order it read the employees.
THEOREM RefreshesSettle == Spec => []RefreshSettles
<1>1. IInv => RefreshSettles
  <2> SUFFICES ASSUME IInv, NEW h \in Handlers,
                      In(h, "refresh", "reconciling"),
                      call[h].todo = {}, call[h].stirred = {}
               PROVE  Settled(call[h].list)
    BY DEF RefreshSettles
  <2> DEFINE c == call[h]
  <2>1. /\ Settles(c, rows, link, newest, confirmed, latest, matricule)
        /\ c.does = "refresh" /\ c.at = "reconciling"
        /\ c.todo = {} /\ c.stirred = {}
    BY DEF IInv, Settling, In
  <2> HIDE DEF c
  <2>2. /\ \A s \in c.list :
             /\ s \in rows
             /\ confirmed[s] # {} => link[s] = latest[s]
             /\ Coded(s) => link[s] # None
        /\ \A e \in Employees :
             /\ matricule[e] = c.want[e]
             /\ RowsOf(e, link) # {} => c.want[e] = newest[e]
             /\ RowsOf(e, link) = {} /\ c.want[e] \in Records => link[c.want[e]] = None
    BY <2>1 DEF Settles
  <2>3. Settled(c.list)
    BY <2>2 DEF Settled
  <2> QED BY <2>3 DEF c
<1> QED BY <1>1, InvariantHolds, PTL

\* A refresh writes over a link made by hand only when somebody wrote the
\* record after the refresh read the mappings.
LEMMA UpsertOvertaken ==
    ASSUME IInv, NEW h \in Handlers, RefreshUpserts(h),
           NEW s \in Records, ByHand(s), link'[s] # link[s]
    PROVE  s \in call[h].todo \ call'[h].todo /\ s \in call[h].stirred
<1> DEFINE c == call[h]
<1>1. PICK r \in c.todo :
         /\ In(h, "refresh", "upserting")
         /\ link' = [link EXCEPT ![r] = c.found[r]]
         /\ Goes(h, [c EXCEPT !.todo = @ \ {r}], {r})
  BY DEF RefreshUpserts
<1>2. link \in [Records -> Employees \cup {None}] /\ c \in Call
      /\ call \in [Handlers -> Call]
  BY DEF IInv, TypeOK, DirectoryOK
<1>3. r = s /\ link[s] # c.found[s]
  BY <1>1, <1>2
<1>4. Fits(c, confirmed, latest) /\ c.does = "refresh" /\ c.at = "upserting"
  BY <1>1 DEF IInv, Readings, In
<1>5. s \in c.stirred
  BY <1>3, <1>4 DEF Fits, ByHand
<1>6. Stir(h, {r}) \in [Handlers -> Call]
  BY <1>1, <1>2, <1>3, StirFields
<1>7. call'[h] = [c EXCEPT !.todo = @ \ {r}]
  BY <1>1, <1>6 DEF Goes
<1>8. call'[h].todo = c.todo \ {r}
  BY <1>2, <1>7 DEF Call
<1> QED BY <1>3, <1>5, <1>8

\* A link HR has confirmed leaves its employee only by hand, or by a refresh
\* that was overtaken on that record.
THEOREM LinksStand == Spec => LinkStands
<1>1. ASSUME IInv, [Next]_vars, NEW s \in Records, ByHand(s), link'[s] # link[s]
      PROVE  \/ \E r \in Records : LinkManually(link[s], r)
             \/ \E e \in Employees : LinkManually(e, s)
             \/ \E h \in Handlers :
                   /\ RefreshUpserts(h) /\ s \in call[h].todo \ call'[h].todo
                   /\ s \in call[h].stirred
  <2>1. CASE \E h \in Handlers : RefreshUpserts(h)
    BY <1>1, <2>1, UpsertOvertaken
  <2>2. ASSUME NEW e \in Employees, NEW r \in Records, LinkManually(e, r)
        PROVE  r = s \/ e = link[s]
    <3>1. link' = [t \in Records |-> IF t = r THEN e
                                     ELSE IF link[t] = e THEN None ELSE link[t]]
      BY <2>2 DEF LinkManually
    <3> QED BY <1>1, <3>1
  <2>3. CASE \E e \in Employees, r \in Records : LinkManually(e, r)
    BY <2>2, <2>3
  <2>4. CASE UNCHANGED link
    BY <1>1, <2>4
  <2>5. \/ \E h \in Handlers : RefreshUpserts(h)
        \/ \E e \in Employees, r \in Records : LinkManually(e, r)
        \/ UNCHANGED link
    BY <1>1 DEF Next, Handles, RefreshReads, RefreshReadsMappings,
       RefreshReconciles, RefreshNames, RefreshEnds, ConfirmReads, ConfirmMaps,
       MatchNames, RelinkReads, RelinkCommits, AutoReads, AutoMaps, AutoEnds,
       Fails, Reject, TypeMatricule, vars, tables, directory
  <2> QED BY <2>1, <2>3, <2>4, <2>5
<1>2. IInv /\ [Next]_vars =>
        [\A s \in Records :
            ByHand(s) /\ link'[s] # link[s] =>
              \/ \E r \in Records : LinkManually(link[s], r)
              \/ \E e \in Employees : LinkManually(e, s)
              \/ \E h \in Handlers :
                    /\ RefreshUpserts(h) /\ s \in call[h].todo \ call'[h].todo
                    /\ s \in call[h].stirred]_vars
  BY <1>1
<1> QED BY <1>2, InvariantHolds, PTL DEF Spec, LinkStands

\* Whoever has two records now and had not, got one of them.
LEMMA TwiceFromMore ==
    ASSUME NEW e \in Employees, ~Twice(e), Twice(e)'
    PROVE  \E r \in Records : e \in confirmed'[r] /\ e \notin confirmed[r]
BY DEF Twice, ConfirmedOf

\* A relink of an employee leaves him another record only if it was overtaken.
LEMMA RelinkOvertaken ==
    ASSUME IInv, NEW h \in Handlers, RelinkCommits(h),
           NEW e \in Employees, ~Twice(e), Twice(e)'
    PROVE  ConfirmedOf(e) \cap call[h].stirred # {}
<1> DEFINE c == call[h]
<1>1. /\ c.does = "relink" /\ c.at = "chosen"
      /\ confirmed' = Relinked(c.emp, c.rec, c.todo)
  BY DEF RelinkCommits, Relinked, In
<1>2. c.emp \in Employees /\ c.rec \in Records /\ Fits(c, confirmed, latest)
  BY <1>1 DEF IInv, Shape, ShapeOf, Readings
<1> HIDE DEF c
<1>3. PICK d \in Employees, s \in Records : d = c.emp /\ s = c.rec
  BY <1>2
<1>4. MappingsOK
  BY DEF IInv, TypeOK
<1>5. /\ \A r \in Records \ (c.todo \cup {s}) : confirmed'[r] = confirmed[r]
      /\ \A r \in c.todo \ {s} : r \in Records => d \notin confirmed'[r]
      /\ \A r \in Records, f \in Employees \ {d} :
           f \in confirmed'[r] => f \in confirmed[r]
  BY <1>1, <1>3, <1>4, RelinkedFacts
<1>6. e = d
  BY <1>5, TwiceFromMore
<1>7. PICK r \in Records : e \in confirmed'[r] /\ r # s
  BY DEF Twice, ConfirmedOf
<1>8. e \in confirmed[r] /\ r \notin c.todo
  BY <1>5, <1>6, <1>7
<1>9. r \in c.stirred
  BY <1>1, <1>2, <1>3, <1>6, <1>8 DEF Fits
<1> QED BY <1>8, <1>9 DEF ConfirmedOf, c

\* So does a matching.
LEMMA AutoOvertaken ==
    ASSUME IInv, NEW h \in Handlers, AutoMaps(h),
           NEW e \in Employees, ~Twice(e), Twice(e)'
    PROVE  ConfirmedOf(e) \cap call[h].stirred # {}
<1> DEFINE c == call[h]
<1>1. PICK d \in c.todo, s \in Records :
        In(h, "auto", "matching") /\ (Confirms(d, s) \/ Drops(d, s))
  BY DEF AutoMaps
<1>2. /\ c.does = "auto" /\ Fits(c, confirmed, latest)
      /\ d \in Employees /\ MappingsOK
  BY <1>1 DEF In, IInv, TypeOK, Shape, ShapeOf, Readings
<1>3. PICK r \in Records : e \in confirmed'[r] /\ e \notin confirmed[r]
  BY TwiceFromMore
<1>4. ~Drops(d, s)
  BY <1>2, <1>3, DropsOK
<1>5. \A q \in Records, f \in Employees :
        f \in confirmed'[q] => f \in confirmed[q] \/ (f = d /\ q = s)
  BY <1>1, <1>2, <1>4, ConfirmsOK
<1>6. e = d
  BY <1>3, <1>5
<1>7. PICK q \in Records : e \in confirmed'[q] /\ q # s
  BY DEF Twice, ConfirmedOf
<1>8. e \in confirmed[q]
  BY <1>5, <1>7
<1>9. q \in c.stirred
  BY <1>1, <1>2, <1>6, <1>8 DEF Fits
<1> QED BY <1>8, <1>9 DEF ConfirmedOf

\* An employee with one record gets a second only by confirm(), which does not
\* look, or by a relink or a matching that was overtaken.
THEOREM DoublesAreOvertaken == Spec => DoubleIsOvertaken
<1>1. ASSUME IInv, [Next]_vars, NEW e \in Employees, ~Twice(e), Twice(e)'
      PROVE  \/ \E h \in Handlers : ConfirmMaps(h) /\ call[h].emp = e
             \/ \E h \in Handlers : /\ RelinkCommits(h) \/ AutoMaps(h)
                                    /\ ConfirmedOf(e) \cap call[h].stirred # {}
  <2>1. PICK r \in Records : e \in confirmed'[r] /\ e \notin confirmed[r]
    BY <1>1, TwiceFromMore
  <2>2. MappingsOK
    BY <1>1 DEF IInv, TypeOK
  <2>3. ASSUME NEW h \in Handlers, ConfirmMaps(h) PROVE call[h].emp = e
    <3>1. call[h].emp \in Employees /\ call[h].rec \in Records
          /\ Confirms(call[h].emp, call[h].rec)
      BY <1>1, <2>3 DEF ConfirmMaps, In, IInv, Shape, ShapeOf
    <3>2. PICK d \in Employees, s \in Records :
            d = call[h].emp /\ s = call[h].rec
      BY <3>1
    <3>3. Confirms(d, s)
      BY <3>1, <3>2 DEF Confirms
    <3>4. \A q \in Records, f \in Employees :
            f \in confirmed'[q] => f \in confirmed[q] \/ (f = d /\ q = s)
      BY ONLY <2>2, <3>3, ConfirmsOK, d \in Employees, s \in Records
    <3> QED BY <2>1, <3>2, <3>4
  <2>4. ASSUME NEW d \in Employees, NEW s \in Records, LinkManually(d, s)
        PROVE  FALSE
    <3>1. confirmed' = Linked(d, s)
      BY <2>4 DEF LinkManually
    <3>2. \A q \in Records : confirmed'[q] = IF q = s THEN {d}
                                            ELSE confirmed[q] \ {d}
      BY <3>1 DEF Linked
    <3>3. e = d
      BY <2>1, <3>2
    <3>4. \A q \in Records : e \in confirmed'[q] => q = s
      BY <3>2, <3>3
    <3> QED BY <1>1, <3>4 DEF Twice, ConfirmedOf
  <2>5. ASSUME NEW d \in Employees, NEW s \in Records, Reject(d, s) PROVE FALSE
    <3>1. Drops(d, s)
      BY <2>5 DEF Reject
    <3> QED BY <2>1, <2>2, <3>1, DropsOK
  <2>6. \/ \E h \in Handlers : \/ ConfirmMaps(h) \/ RelinkCommits(h)
                               \/ AutoMaps(h)
        \/ \E d \in Employees, s \in Records : LinkManually(d, s) \/ Reject(d, s)
        \/ UNCHANGED confirmed
    BY <1>1 DEF Next, Handles, RefreshReads, RefreshReadsMappings, RefreshUpserts,
       RefreshReconciles, RefreshNames, RefreshEnds, ConfirmReads, MatchNames,
       RelinkReads, AutoReads, AutoEnds, Fails, TypeMatricule, vars, tables,
       mappings
  <2>7. ~UNCHANGED confirmed
    BY <2>1
  <2> QED BY <1>1, <2>3, <2>4, <2>5, <2>6, <2>7, RelinkOvertaken, AutoOvertaken
<1>2. IInv /\ [Next]_vars =>
        [\A e \in Employees :
            ~Twice(e) /\ Twice(e)' =>
              \/ \E h \in Handlers : ConfirmMaps(h) /\ call[h].emp = e
              \/ \E h \in Handlers : /\ RelinkCommits(h) \/ AutoMaps(h)
                                     /\ ConfirmedOf(e) \cap call[h].stirred # {}]_vars
  BY <1>1
<1> QED BY <1>2, InvariantHolds, PTL DEF Spec, DoubleIsOvertaken

-----------------------------------------------------------------------------
(* Payroll control: the imports of the payroll lines                       *)

\* The rubrics of the answer of an import.
NamedBy(i) == NamedIn(request[i].answer)

\* What an import has still to replace: it holds the rubrics of its answer, and whoever
\* committed since it saw the lines shares none of them.
Replaces(i) ==
    request[i].at \in {"deleting", "inserting"} =>
        /\ NamedBy(i) \subseteq request[i].upserted
        /\ \A row \in lines \ request[i].seen : NamedBy(row[1]) \cap NamedBy(i) = {}

\* Lines of imports that have ended, each with all the lines of its answer.
Whole(S) ==
    \A row \in S :
        /\ request[row[1]].at \in {"done", "failed"}
        /\ row[2] \in Given(row[1]) /\ {row[1]} \X Given(row[1]) \subseteq S

\* Two imports under way hold different rubrics.
Apart ==
    \A i, j \in Imports : i # j /\ Open(i) /\ Open(j) =>
        request[i].upserted \cap request[j].upserted = {}

\* The invariant of the imports: the lines are whole, and no two imports hold lines of
\* the same rubric.
PayInv ==
    /\ PayTypeOK
    /\ \A i \in Imports : Replaces(i) /\ (request[i].at = "idle" => request[i].upserted = {})
    /\ \A i \in Imports : request[i].at \in {"deleting", "inserting"} => Whole(request[i].seen)
    /\ Whole(lines)
    /\ Apart
    /\ \A a, b \in lines : a[1] # b[1] => NamedBy(a[1]) \cap NamedBy(b[1]) = {}

\* The rubrics of an answer are known ones.
LEMMA NamedAreRubrics == \A b \in Bulletins : NamedIn(b) \subseteq Rubrics
BY DEF Rubrics

\* The invariant holds of an empty table.
LEMMA PayInvInit == PayInit => PayInv
BY DEF PayInit, PayInv, PayTypeOK, Import, Replaces, Whole, Apart, Open

\* An import takes a step before its end: what it knows is its own.
LEMMA ImportStep ==
    ASSUME PayInv, NEW i \in Imports, NEW w \in Import, request' = [request EXCEPT ![i] = w],
           request[i].at \notin {"done", "failed"},
           Open(i) => w.answer = request[i].answer,
           w.at \in {"deleting", "inserting"} =>
               /\ NamedIn(w.answer) \subseteq w.upserted
               /\ w.seen = lines \/ (w.seen = request[i].seen /\ request[i].at = "deleting"),
           w.at = "idle" => w.upserted = {},
           w.at \in {"upserting", "deleting", "inserting"} =>
               \A j \in Imports \ {i} : Open(j) => w.upserted \cap request[j].upserted = {},
           UNCHANGED lines, UNCHANGED mapping, UNCHANGED checked
    PROVE  PayInv'
<1>1. PayTypeOK'
  BY DEF PayInv, PayTypeOK
<1>2. /\ request'[i] = w /\ \A j \in Imports \ {i} : request'[j] = request[j]
  BY DEF PayInv, PayTypeOK
<1>3. \A row \in lines : row \in Rows /\ row[1] \in Imports /\ row[1] # i
  BY DEF PayInv, PayTypeOK, Whole, Rows
<1>4. ASSUME NEW S \in SUBSET Rows, Whole(S) PROVE Whole(S)'
  <2>1. \A row \in S : row[1] \in Imports /\ row[1] # i
    BY <1>4 DEF Whole, Rows
  <2> QED BY <1>2, <1>4, <2>1 DEF Whole, Given
<1>5. Whole(lines)'
  BY <1>4 DEF PayInv, PayTypeOK
<1>6. (\A j \in Imports : request[j].at \in {"deleting", "inserting"} => Whole(request[j].seen))'
  <2>1. SUFFICES ASSUME NEW j \in Imports, request'[j].at \in {"deleting", "inserting"}
                 PROVE  Whole(request[j].seen)'
    OBVIOUS
  <2>2. PICK S \in SUBSET Rows : S = request'[j].seen
    BY <1>1 DEF PayTypeOK, Import
  <2>3. Whole(S)
    BY <1>2, <2>1, <2>2 DEF PayInv
  <2>4. Whole(S)'
    BY <1>4, <2>3
  <2> QED BY <2>2, <2>4 DEF Whole
<1>7. Apart'
  BY <1>2 DEF PayInv, Apart, Open
<1>8. (\A j \in Imports : Replaces(j) /\ (request[j].at = "idle" => request[j].upserted = {}))'
  <2>1. SUFFICES ASSUME NEW j \in Imports PROVE Replaces(j)'
    BY <1>2 DEF PayInv
  <2>2. \A row \in lines : NamedBy(row[1])' = NamedBy(row[1])
    BY <1>2, <1>3 DEF NamedBy
  <2>3. CASE j # i
    BY <1>2, <2>2, <2>3 DEF PayInv, Replaces, NamedBy
  <2>4. CASE j = i
    BY <1>2, <2>2, <2>4 DEF PayInv, Replaces, NamedBy, Open
  <2> QED BY <2>3, <2>4
<1>9. (\A a, b \in lines : a[1] # b[1] => NamedBy(a[1]) \cap NamedBy(b[1]) = {})'
  BY <1>2, <1>3 DEF PayInv, NamedBy
<1> QED BY <1>1, <1>5, <1>6, <1>7, <1>8, <1>9 DEF PayInv

\* SAP answers an import that has upserted nothing yet.
LEMMA AsksLinesStep == ASSUME PayInv, NEW i \in Imports, AsksLines(i) PROVE PayInv'
<1>1. PICK answer \in Bulletins :
         request' = [request EXCEPT ![i].at = "upserting", ![i].answer = answer]
  BY DEF AsksLines
<1> DEFINE v == request[i]
           t == [v EXCEPT !.at = "upserting", !.answer = answer]
<1>2. v \in Import /\ v.at = "idle" /\ v.upserted = {}
  BY DEF AsksLines, PayInv, PayTypeOK
<1>3. t \in Import /\ t.at = "upserting" /\ t.upserted = {}
  <2> HIDE DEF v
  <2> QED BY <1>2 DEF Import
<1>4. request' = [request EXCEPT ![i] = t]
  BY <1>1 DEF PayInv, PayTypeOK
<1> HIDE DEF t
<1>5. PICK w \in Import : w = t
  BY <1>3
<1> QED BY <1>2, <1>3, <1>4, <1>5, ImportStep DEF AsksLines, Open

\* A rubric is upserted that nobody holds; after the last, the lines are seen.
LEMMA UpsertsStep == ASSUME PayInv, NEW i \in Imports, Upserts(i) PROVE PayInv'
<1> DEFINE v == request[i]
<1>1. v \in Import /\ v.at = "upserting" /\ Open(i)
  BY DEF Upserts, PayInv, PayTypeOK, Open
<1>2. lines \in SUBSET Rows
  BY DEF PayInv, PayTypeOK
<1>3. \A j \in Imports \ {i} : Open(j) => v.upserted \cap request[j].upserted = {}
  BY <1>1 DEF PayInv, Apart
<1>4. CASE Left(i) = {} /\ request' = [request EXCEPT ![i].at = "deleting", ![i].seen = lines]
  <2> DEFINE t == [v EXCEPT !.at = "deleting", !.seen = lines]
  <2>1. request' = [request EXCEPT ![i] = t]
    BY <1>4 DEF PayInv, PayTypeOK
  <2>2. /\ t \in Import /\ t.at = "deleting" /\ t.seen = lines /\ t.answer = v.answer
        /\ t.upserted = v.upserted
    <3> HIDE DEF v
    <3> QED BY <1>1, <1>2 DEF Import
  <2>3. NamedIn(v.answer) \subseteq v.upserted
    BY <1>4 DEF Left, NamedIn
  <2> HIDE DEF t
  <2>4. PICK w \in Import : w = t
    BY <2>2
  <2> QED BY <1>1, <1>3, <2>1, <2>2, <2>3, <2>4, ImportStep DEF Upserts
<1>5. ASSUME NEW k \in Left(i), ~Held(v.answer[k].rubric, i),
             request' = [request EXCEPT ![i].upserted = @ \cup {v.answer[k].rubric}]
      PROVE  PayInv'
  <2> DEFINE r == v.answer[k].rubric
             t == [v EXCEPT !.upserted = @ \cup {r}]
  <2>1. request' = [request EXCEPT ![i] = t]
    BY <1>5 DEF PayInv, PayTypeOK
  <2>2. r \in Rubrics
    <3>1. k \in DOMAIN v.answer /\ r \in NamedIn(v.answer)
      BY DEF Left, NamedIn
    <3>2. v.answer \in Bulletins \cup {<<>>}
      BY <1>1 DEF Import
    <3> QED BY <3>1, <3>2, NamedAreRubrics
  <2>3. \A j \in Imports \ {i} : Open(j) => r \notin request[j].upserted
    BY <1>5 DEF Held
  <2> HIDE DEF r
  <2>4. /\ t \in Import /\ t.at = "upserting" /\ t.answer = v.answer
        /\ t.upserted = v.upserted \cup {r}
    <3> HIDE DEF v
    <3> QED BY <1>1, <2>2 DEF Import
  <2> HIDE DEF t
  <2>5. PICK w \in Import : w = t
    BY <2>4
  <2>6. \A j \in Imports \ {i} : Open(j) => w.upserted \cap request[j].upserted = {}
    BY <1>3, <2>3, <2>4, <2>5
  <2>7. UNCHANGED <<lines, mapping, checked>>
    BY DEF Upserts
  <2> QED BY <1>1, <2>1, <2>4, <2>5, <2>6, <2>7, ImportStep
<1> QED BY <1>4, <1>5 DEF Upserts

\* The statement that takes the lines out goes on.
LEMMA DeletesStep == ASSUME PayInv, NEW i \in Imports, Deletes(i) PROVE PayInv'
<1> DEFINE v == request[i]
           t == [v EXCEPT !.at = "inserting"]
<1>1. v \in Import /\ v.at = "deleting" /\ Open(i)
  BY DEF Deletes, PayInv, PayTypeOK, Open
<1>2. request' = [request EXCEPT ![i] = t]
  BY DEF Deletes, PayInv, PayTypeOK
<1>3. /\ t \in Import /\ t.at = "inserting" /\ t.seen = v.seen /\ t.answer = v.answer
      /\ t.upserted = v.upserted
  <2> HIDE DEF v
  <2> QED BY <1>1 DEF Import
<1>4. NamedIn(v.answer) \subseteq v.upserted
  BY <1>1 DEF PayInv, Replaces, NamedBy
<1>5. \A j \in Imports \ {i} : Open(j) => v.upserted \cap request[j].upserted = {}
  BY <1>1 DEF PayInv, Apart
<1> HIDE DEF t
<1>6. PICK w \in Import : w = t
  BY <1>3
<1> QED BY <1>1, <1>2, <1>3, <1>4, <1>5, <1>6, ImportStep DEF Deletes

\* An import fails before its commit.
LEMMA ImportFailsStep == ASSUME PayInv, NEW i \in Imports, ImportFails(i) PROVE PayInv'
<1> DEFINE v == request[i]
           t == [v EXCEPT !.at = "failed"]
<1>1. v \in Import /\ v.at \notin {"done", "failed"}
  BY DEF ImportFails, PayInv, PayTypeOK, Open
<1>2. request' = [request EXCEPT ![i] = t]
  BY DEF ImportFails, PayInv, PayTypeOK
<1>3. t \in Import /\ t.at = "failed" /\ t.answer = v.answer
  <2> HIDE DEF v
  <2> QED BY <1>1 DEF Import
<1> HIDE DEF t
<1>4. PICK w \in Import : w = t
  BY <1>3
<1> QED BY <1>1, <1>2, <1>3, <1>4, ImportStep DEF ImportFails

\* The lines of the answer take the place of those the import saw: those it did not see
\* share no rubric with them, as it held its own until now.
LEMMA CommitsStep == ASSUME PayInv, NEW i \in Imports, Commits(i) PROVE PayInv'
<1> DEFINE v == request[i]
           given == Given(i)
<1>1. PICK at \in {"done", "failed"} : request' = [request EXCEPT ![i].at = at]
  BY DEF Commits
<1>2. /\ v \in Import /\ v.at = "inserting" /\ Open(i) /\ v.seen \in SUBSET Rows
      /\ Replaces(i) /\ Whole(v.seen) /\ lines \in SUBSET Rows
  BY DEF Commits, PayInv, PayTypeOK, Open, Import
<1>3. /\ request'[i].at = at /\ request'[i].answer = v.answer /\ request'[i].upserted = v.upserted
      /\ request'[i] \in Import
      /\ \A j \in Imports \ {i} : request'[j] = request[j]
  <2> DEFINE t == [v EXCEPT !.at = at]
  <2>1. request' = [request EXCEPT ![i] = t]
    BY <1>1 DEF PayInv, PayTypeOK
  <2>2. t \in Import /\ t.at = at /\ t.answer = v.answer /\ t.upserted = v.upserted
    <3> HIDE DEF v
    <3> QED BY <1>2 DEF Import
  <2> HIDE DEF t
  <2> QED BY <2>1, <2>2 DEF PayInv, PayTypeOK
<1>4. lines' = (lines \ v.seen) \cup ({i} \X given) /\ UNCHANGED checked
  BY DEF Commits
<1>5. given \subseteq Nat
  BY <1>2, PayAssumption DEF Given, Import
<1>6. PayTypeOK'
  <2>1. lines' \in SUBSET Rows
    BY <1>2, <1>4, <1>5 DEF Rows
  <2>2. DOMAIN mapping' \in SUBSET Rubrics
        /\ mapping' \in [DOMAIN mapping' -> Targets \cup {"IGNORED"}]
    <3>1. v.upserted \subseteq Rubrics
      BY <1>2 DEF Import
    <3>2. mapping' = [r \in DOMAIN mapping \cup v.upserted |->
                        IF r \in DOMAIN mapping THEN mapping[r] ELSE "IGNORED"]
      BY DEF Commits
    <3> QED BY <3>1, <3>2 DEF PayInv, PayTypeOK
  <2>3. request' \in [Imports -> Import]
    BY <1>1, <1>3 DEF PayInv, PayTypeOK
  <2> QED BY <1>4, <2>1, <2>2, <2>3 DEF PayInv, PayTypeOK
<1> HIDE DEF v, given
<1>7. \A j \in Imports : Given(j)' = Given(j) /\ NamedBy(j)' = NamedBy(j)
  BY <1>3 DEF Given, NamedBy, v
<1>8. \A row \in lines \cup v.seen : row[1] \in Imports /\ row[1] # i
  BY <1>2 DEF PayInv, Whole, Rows, v
<1>9. ASSUME NEW S \in SUBSET Rows, Whole(S) PROVE Whole(S)'
  <2>1. \A row \in S : row[1] \in Imports /\ row[1] # i
    BY <1>2, <1>9 DEF Whole, Rows, v
  <2> QED BY <1>3, <1>7, <1>9, <2>1 DEF Whole
<1>10. Whole(lines)'
  <2>1. Whole(lines) /\ Whole(v.seen)
    BY <1>2 DEF PayInv
  <2>2. ASSUME NEW row \in lines \ v.seen
        PROVE  {row[1]} \X Given(row[1]) \subseteq lines \ v.seen
    <3>1. row[1] \in Imports /\ row[2] \in Given(row[1]) /\ row = <<row[1], row[2]>>
          /\ {row[1]} \X Given(row[1]) \subseteq lines
      BY <1>2, <2>1 DEF Whole, Rows
    <3>2. SUFFICES ASSUME NEW k \in Given(row[1]), <<row[1], k>> \in v.seen PROVE FALSE
      BY <3>1
    <3>3. {row[1]} \X Given(row[1]) \subseteq v.seen
      BY <2>1, <3>2 DEF Whole
    <3> QED BY <3>1, <3>3
  <2>3. ASSUME NEW row \in lines'
        PROVE  /\ request'[row[1]].at \in {"done", "failed"}
               /\ row[2] \in Given(row[1])' /\ {row[1]} \X Given(row[1])' \subseteq lines'
    <3>1. CASE row \in lines \ v.seen
      BY <1>3, <1>4, <1>7, <1>8, <2>1, <2>2, <3>1 DEF Whole
    <3>2. CASE row \in {i} \X given
      BY <1>1, <1>3, <1>4, <1>7, <3>2 DEF given
    <3> QED BY <1>4, <3>1, <3>2
  <2> QED BY <2>3 DEF Whole
<1>11. (\A j \in Imports : request[j].at \in {"deleting", "inserting"} => Whole(request[j].seen))'
  <2>1. SUFFICES ASSUME NEW j \in Imports, request'[j].at \in {"deleting", "inserting"}
                 PROVE  Whole(request[j].seen)'
    OBVIOUS
  <2>2. PICK S \in SUBSET Rows : S = request'[j].seen
    BY <1>6 DEF PayTypeOK, Import
  <2>3. Whole(S)
    BY <1>1, <1>3, <2>1, <2>2 DEF PayInv
  <2>4. Whole(S)'
    BY <1>9, <2>3
  <2> QED BY <2>2, <2>4 DEF Whole
<1>12. Apart'
  BY <1>1, <1>3 DEF PayInv, Apart, Open
<1>13. \A j \in Imports \ {i} : Open(j) => v.upserted \cap request[j].upserted = {}
  BY <1>2 DEF PayInv, Apart, v
<1>14. (\A j \in Imports : Replaces(j) /\ (request[j].at = "idle" => request[j].upserted = {}))'
  <2>1. SUFFICES ASSUME NEW j \in Imports PROVE Replaces(j)'
    BY <1>1, <1>3 DEF PayInv
  <2>2. CASE j = i
    BY <1>1, <1>3, <2>2 DEF Replaces
  <2>3. CASE j # i
    <3>1. SUFFICES ASSUME request[j].at \in {"deleting", "inserting"}, NEW row \in lines' \ request[j].seen
                   PROVE  NamedBy(row[1])' \cap NamedBy(j)' = {} /\ NamedBy(j) \subseteq request[j].upserted
      BY <1>3, <1>7, <2>3 DEF Replaces, PayInv
    <3>2. /\ NamedBy(j) \subseteq request[j].upserted
          /\ \A a \in lines \ request[j].seen : NamedBy(a[1]) \cap NamedBy(j) = {}
      BY <3>1 DEF PayInv, Replaces
    <3>3. CASE row \in lines
      BY <1>7, <1>8, <3>1, <3>2, <3>3
    <3>4. CASE row \in {i} \X given
      <4>1. NamedBy(i) \subseteq v.upserted /\ v.upserted \cap request[j].upserted = {}
        BY <1>2, <1>13, <2>3, <3>1 DEF Replaces, Open, v
      <4> QED BY <1>7, <3>2, <3>4, <4>1
    <3> QED BY <1>4, <3>1, <3>2, <3>3, <3>4
  <2> QED BY <2>2, <2>3
<1>15. (\A a, b \in lines : a[1] # b[1] => NamedBy(a[1]) \cap NamedBy(b[1]) = {})'
  <2>1. \A a \in lines \ v.seen : a[1] \in Imports /\ NamedBy(a[1]) \cap NamedBy(i) = {}
    BY <1>2, <1>8 DEF Replaces, v
  <2>2. \A a \in lines' : a \in lines \ v.seen \/ a[1] = i
    BY <1>4
  <2>3. \A a, b \in lines \ v.seen : a[1] # b[1] => NamedBy(a[1]) \cap NamedBy(b[1]) = {}
    BY DEF PayInv
  <2>4. \A a \in lines' : NamedBy(a[1])' = NamedBy(a[1])
    BY <1>7, <2>1, <2>2
  <2>5. \A a, b \in lines' : a[1] # b[1] => NamedBy(a[1]) \cap NamedBy(b[1]) = {}
    BY <2>1, <2>2, <2>3
  <2> QED BY <2>4, <2>5
<1> QED BY <1>6, <1>10, <1>11, <1>12, <1>14, <1>15 DEF PayInv

\* The imports do not read the mapping nor what is confirmed.
LEMMA EditsStep ==
    ASSUME PayInv, UNCHANGED <<lines, request>>, DOMAIN mapping' \in SUBSET Rubrics,
           mapping' \in [DOMAIN mapping' -> Targets \cup {"IGNORED"}],
           checked' \in SUBSET (Persons \X Selections)
    PROVE  PayInv'
BY DEF PayInv, PayTypeOK, Replaces, NamedBy, Whole, Given, Apart, Open

\* Every step keeps the invariant.
LEMMA PayStep == PayInv /\ [PayNext]_payVars => PayInv'
<1> SUFFICES ASSUME PayInv, [PayNext]_payVars PROVE PayInv'
  OBVIOUS
<1>1. CASE UNCHANGED payVars
  BY <1>1, EditsStep DEF payVars, PayInv, PayTypeOK
<1>2. ASSUME NEW r \in Rubrics, NEW target \in Targets, UpdateRubric(r, target) PROVE PayInv'
  <2>1. DOMAIN mapping' = DOMAIN mapping /\ mapping' \in [DOMAIN mapping -> Targets \cup {"IGNORED"}]
    BY <1>2 DEF UpdateRubric, PayInv, PayTypeOK
  <2> QED BY <1>2, <2>1, EditsStep DEF UpdateRubric, PayInv, PayTypeOK
<1>3. ASSUME NEW e \in Persons, NEW scope \in Selections, Confirm(e, scope) \/ Restore(e, scope)
      PROVE  PayInv'
  <2>1. UNCHANGED <<lines, mapping, request>>
    BY <1>3 DEF Confirm, Restore
  <2>2. checked' \in SUBSET (Persons \X Selections)
    BY <1>3 DEF Confirm, Restore, PayInv, PayTypeOK
  <2>3. DOMAIN mapping' = DOMAIN mapping
    BY <2>1
  <2> QED BY <2>1, <2>2, <2>3, EditsStep DEF PayInv, PayTypeOK
<1> QED BY <1>1, <1>2, <1>3, AsksLinesStep, UpsertsStep, DeletesStep, CommitsStep, ImportFailsStep
        DEF PayNext

\* The invariant always holds.
LEMMA PayInvHolds == PaySpec => []PayInv
BY PayInvInit, PayStep, PTL DEF PaySpec

\* The lines, the rubrics and the imports keep their types.
THEOREM PayTypeCorrect == PaySpec => []PayTypeOK
<1>1. PayInv => PayTypeOK
  BY DEF PayInv
<1> QED BY <1>1, PayInvHolds, PTL

\* For any answers and any number of imports at once, the period holds the lines of one
\* answer of SAP, all of them, and others only of answers without a common rubric
\* (importPeriod).
THEOREM ImportsAreWhole == PaySpec => []ImportIsWhole
<1>1. PayInv => ImportIsWhole
  BY DEF PayInv, Whole, NamedBy, ImportIsWhole
<1> QED BY <1>1, PayInvHolds, PTL

-----------------------------------------------------------------------------
(* Advanced treatment: the days granted and the pay                        *)

\* The days of a period can be counted, and those that are some of them.
LEMMA DaysAreFinite ==
    ASSUME NEW S \in SUBSET Period
    PROVE  /\ IsFiniteSet(S) /\ Cardinality(S) \in Nat
           /\ Cardinality(S) = 0 <=> S = {}
<1>1. IsFiniteSet(Period)
  BY AdvanceAssumption, FS_Interval DEF Period
<1>2. IsFiniteSet(S)
  BY <1>1, FS_Subset
<1> QED BY <1>2, FS_CardinalityType, FS_EmptySet

\* What is declared of a period lies in it.
LEMMA CoveredIsIn == ASSUME NEW ranges PROVE Covered(ranges) \subseteq Period
BY DEF Covered

\* A row is typed, whatever has been read.
LEMMA RowTyped ==
    ASSUME NEW punches, NEW sick, NEW leaves, NEW account \in Accounts, NEW beneath \in BOOLEAN
    PROVE  LET row == RowOf(punches, sick, leaves) IN
           [punched |-> row.punched, empty |-> row.empty, justified |-> row.justified,
            risk |-> row.risk, account |-> account, beneath |-> beneath] \in Confirmation
<1> DEFINE punched == PunchedOf(punches)
           justified == Declared(sick) \cup Declared(leaves)
           empty == WorkDays \ (punched \cup justified)
<1>1. /\ punched \ Fridays \in SUBSET Period /\ justified \ Fridays \in SUBSET Period
      /\ empty \in SUBSET Period
  BY CoveredIsIn DEF PunchedOf, Declared, WorkDays
<1>2. /\ Cardinality(punched \ Fridays) \in Nat /\ Cardinality(justified \ Fridays) \in Nat
      /\ Cardinality(empty) \in Nat
  BY <1>1, DaysAreFinite
<1> HIDE DEF punched, justified, empty
<1>3. RiskOf(Cardinality(punched \ Fridays), Cardinality(empty), Cardinality(justified \ Fridays))
        \in {"HIGH", "MEDIUM", "LOW"}
  BY DEF RiskOf
<1> QED BY <1>2, <1>3 DEF RowOf, Confirmation, punched, justified, empty

\* The counts and the risk of a row are those of its calendar.
LEMMA RowsFounded == RowIsFounded
<1> SUFFICES ASSUME NEW e \in Workers, \A p \in known[e].punches : p.utc = p.local
             PROVE  LET fact == known[e]
                        row == RowOf(fact.punches, fact.sick, fact.leaves)
                        day == Calendar(fact)
                        present == {d \in WorkDays : \E p \in day[d].punches : p.presence}
                        excused == {d \in WorkDays : day[d].sick \/ day[d].leave}
                    IN  /\ row.punched = Cardinality(present)
                        /\ row.justified = Cardinality(excused)
                        /\ row.empty = Cardinality(WorkDays \ (present \cup excused))
                        /\ row.risk = "HIGH" <=> present = {} /\ WorkDays \ excused # {}
  BY DEF RowIsFounded
<1> DEFINE fact == known[e]
           row == RowOf(fact.punches, fact.sick, fact.leaves)
           day == Calendar(fact)
           present == {d \in WorkDays : \E p \in day[d].punches : p.presence}
           excused == {d \in WorkDays : day[d].sick \/ day[d].leave}
           punched == PunchedOf(fact.punches)
           justified == Declared(fact.sick) \cup Declared(fact.leaves)
           empty == WorkDays \ (punched \cup justified)
<1>1. /\ \A d \in Period : /\ day[d].punches = {p \in fact.punches : p.local = d}
                           /\ day[d].sick <=> d \in Covered(fact.sick)
                           /\ day[d].leave <=> d \in Covered(fact.leaves)
      /\ WorkDays \subseteq Period
  BY DEF Calendar, WorkDays
<1>2. present = punched \ Fridays
  <2>1. \A d : d \in punched <=> d \in Period /\ \E p \in fact.punches : p.presence /\ p.utc = d
    BY DEF PunchedOf
  <2>2. \A d : d \in present <=> d \in WorkDays /\ \E p \in fact.punches : p.local = d /\ p.presence
    BY <1>1
  <2> HIDE DEF present, punched
  <2> QED BY <2>1, <2>2 DEF WorkDays
<1>3. excused = justified \ Fridays
  <2>1. \A d : d \in justified <=>
           d \in Period \ Fridays /\ (d \in Covered(fact.sick) \/ d \in Covered(fact.leaves))
    BY CoveredIsIn DEF Declared
  <2>2. \A d : d \in excused <=>
           d \in WorkDays /\ (d \in Covered(fact.sick) \/ d \in Covered(fact.leaves))
    BY <1>1
  <2> HIDE DEF excused, justified
  <2> QED BY <2>1, <2>2 DEF WorkDays
<1>4. empty = WorkDays \ (present \cup excused)
  BY <1>2, <1>3 DEF WorkDays
<1>5. /\ row.punched = Cardinality(punched \ Fridays) /\ row.empty = Cardinality(empty)
      /\ row.justified = Cardinality(justified \ Fridays)
      /\ row.risk = RiskOf(Cardinality(punched \ Fridays), Cardinality(empty),
                           Cardinality(justified \ Fridays))
  BY DEF RowOf
<1> HIDE DEF row, day, present, excused, punched, justified, empty
<1>6. present \in SUBSET WorkDays /\ excused \in SUBSET WorkDays /\ WorkDays \in SUBSET Period
  BY DEF present, excused, WorkDays
<1>7. Cardinality(present) = 0 <=> present = {}
  BY <1>6, DaysAreFinite
<1>8. Cardinality(excused) < Cardinality(WorkDays) <=> WorkDays \ excused # {}
  <2>1. IsFiniteSet(WorkDays) /\ Cardinality(WorkDays) \in Nat /\ Cardinality(excused) \in Nat
    BY <1>6, DaysAreFinite
  <2>2. /\ Cardinality(excused) <= Cardinality(WorkDays)
        /\ Cardinality(excused) = Cardinality(WorkDays) => excused = WorkDays
    BY <1>6, <2>1, FS_Subset
  <2> QED BY <1>6, <2>1, <2>2
<1>9. row.risk = "HIGH" <=> present = {} /\ WorkDays \ excused # {}
  BY <1>2, <1>3, <1>5, <1>7, <1>8 DEF RiskOf
<1> QED BY <1>2, <1>3, <1>4, <1>5, <1>9 DEF row, day, present, excused

-----------------------------------------------------------------------------
\* What holds of an export in hand: it is due to whom was granted the advance since it
\* began, whom it has read the confirmation of, and whom it has paid.
Due(t) ==
    /\ t.at \notin {"idle", "done"} => t.of \in Workers
    /\ t.kind = "export" /\ t.of \in Workers /\ granted[t.of] => t.due
    /\ t.confirmed # Nothing => t.kind = "export" /\ (t.due \/ t.confirmed.beneath)
    /\ t.paid # Nothing => t.due

\* A confirmation is granted unless it was written beneath a freeze, and what is left
\* of an employee a freeze is being written of was written beneath it.
AdvanceInv ==
    /\ AdvanceTypeOK
    /\ \A c \in AdvanceRequests : Due(treatment[c])
    /\ \A e \in Workers : confirmation[e] # Nothing =>
         /\ granted[e] \/ confirmation[e].beneath
         /\ BeingFrozen(e) => confirmation[e].beneath

\* Nothing is done before the first request, nor after the last.
LEMMA RestIsTyped ==
    /\ NoTreatment \in Treatment /\ Done \in Treatment
    /\ NoTreatment.at = "idle" /\ Done.at = "done"
    /\ NoTreatment.of = Nothing /\ NoTreatment.kind = "none" /\ NoTreatment.confirmed = Nothing
    /\ NoTreatment.paid = Nothing /\ NoTreatment.due = FALSE
    /\ Done = [NoTreatment EXCEPT !.at = "done"]
    /\ Due(NoTreatment) /\ Due(Done)
<1>1. NoTreatment \in Treatment
  BY DEF NoTreatment, Treatment, Accounts
<1>2. Done = [NoTreatment EXCEPT !.at = "done"]
  BY DEF Done
<1>3. Done \in Treatment
  BY <1>1, <1>2 DEF Treatment
<1> QED BY <1>1, <1>2, <1>3 DEF NoTreatment, Due, Treatment

\* The invariant holds of a period nobody was confirmed for.
LEMMA AdvanceInvInit == AdvanceInit => AdvanceInv
BY RestIsTyped, AdvanceAssumption DEF AdvanceInit, AdvanceInv, AdvanceTypeOK

-----------------------------------------------------------------------------
\* A step of one request that decides nothing keeps the invariant if what the request
\* has in hand holds, and it is not writing a freeze.
LEMMA OwnStep ==
    ASSUME AdvanceInv, NEW c \in AdvanceRequests, NEW t \in Treatment, Due(t), t.at # "deleted",
           treatment' \in [AdvanceRequests -> Treatment], treatment'[c] = t,
           \A d \in AdvanceRequests \ {c} : treatment'[d] = treatment[d],
           frozen' \in SUBSET Workers, UNCHANGED <<known, eligible, confirmation, granted, changes>>
    PROVE  AdvanceInv'
<1>1. AdvanceTypeOK'
  BY DEF AdvanceInv, AdvanceTypeOK
<1>2. \A d \in AdvanceRequests : Due(treatment[d])'
  BY DEF AdvanceInv, Due
<1>3. \A e \in Workers : BeingFrozen(e)' => BeingFrozen(e)
  BY DEF BeingFrozen
<1> QED BY <1>1, <1>2, <1>3 DEF AdvanceInv

\* What is known changes, and nothing else.
LEMMA OccursStep == ASSUME AdvanceInv, NEW e \in Workers, Occurs(e) PROVE AdvanceInv'
<1>1. /\ known' \in [Workers -> Facts] /\ eligible' \in SUBSET Workers /\ changes' \in 0..MaxChanges
      /\ UNCHANGED <<confirmation, frozen, treatment, granted>>
  BY AdvanceAssumption DEF Occurs, AdvanceInv, AdvanceTypeOK
<1> QED BY <1>1 DEF AdvanceInv, AdvanceTypeOK, Due, BeingFrozen

\* An export begins with what has been granted.
LEMMA RequestsStep == ASSUME AdvanceInv, NEW c \in AdvanceRequests, Requests(c) PROVE AdvanceInv'
<1>1. PICK kind \in Kinds, e \in Workers :
         treatment' = [treatment EXCEPT ![c] = [NoTreatment EXCEPT !.kind = kind, !.of = e,
                         !.at = "finding", !.due = kind = "export" /\ granted[e]]]
  BY DEF Requests
<1> DEFINE due == kind = "export" /\ granted[e]
           t == [NoTreatment EXCEPT !.kind = kind, !.of = e, !.at = "finding", !.due = due]
<1>2. due \in BOOLEAN /\ (kind = "export" /\ granted[e] => due)
  OBVIOUS
<1> HIDE DEF due
<1>3. /\ t \in Treatment /\ t.kind = kind /\ t.of = e /\ t.at = "finding" /\ t.due = due
      /\ t.confirmed = Nothing /\ t.paid = Nothing
  BY <1>2, RestIsTyped DEF Treatment
<1>4. treatment' = [treatment EXCEPT ![c] = t]
  BY <1>1 DEF due
<1> HIDE DEF t
<1>5. Due(t)
  BY <1>2, <1>3 DEF Due
<1>6. PICK w \in Treatment : w = t
  BY <1>3
<1>7. /\ treatment' \in [AdvanceRequests -> Treatment] /\ treatment'[c] = w
      /\ \A d \in AdvanceRequests \ {c} : treatment'[d] = treatment[d]
  BY <1>4, <1>6 DEF AdvanceInv, AdvanceTypeOK
<1> QED BY <1>3, <1>5, <1>6, <1>7, OwnStep DEF Requests, AdvanceInv, AdvanceTypeOK

\* The account is read, or the request refused.
LEMMA FindsStep == ASSUME AdvanceInv, NEW c \in AdvanceRequests, Finds(c) PROVE AdvanceInv'
<1> DEFINE v == treatment[c]
<1>1. v \in Treatment /\ Due(v) /\ v.at = "finding" /\ v.of \in Workers
  BY DEF Finds, AdvanceInv, AdvanceTypeOK, Due
<1>2. known[v.of].account \in Accounts
  BY <1>1 DEF AdvanceInv, AdvanceTypeOK, Accounts
<1> DEFINE account == known[v.of].account
           t == IF v.of \in eligible THEN [v EXCEPT !.at = "reading", !.account = account] ELSE Done
<1>3. /\ treatment' \in [AdvanceRequests -> Treatment] /\ treatment'[c] = t
      /\ \A d \in AdvanceRequests \ {c} : treatment'[d] = treatment[d]
      /\ t \in Treatment
  <2>1. t \in Treatment
    <3> HIDE DEF account, v
    <3> QED BY <1>1, <1>2, RestIsTyped DEF Treatment, account
  <2>2. treatment' = [treatment EXCEPT ![c] = t]
    BY DEF Finds, AdvanceInv, AdvanceTypeOK
  <2> HIDE DEF t
  <2> QED BY <2>1, <2>2 DEF AdvanceInv, AdvanceTypeOK
<1>4. Due(t) /\ t.at # "deleted"
  <2>1. CASE v.of \in eligible
    <3>1. /\ t.kind = v.kind /\ t.of = v.of /\ t.at = "reading" /\ t.due = v.due
          /\ t.confirmed = v.confirmed /\ t.paid = v.paid
      BY <1>1, <2>1 DEF Treatment
    <3> HIDE DEF t
    <3> QED BY <1>1, <3>1 DEF Due
  <2>2. CASE v.of \notin eligible
    BY <2>2, RestIsTyped
  <2> QED BY <2>1, <2>2
<1> HIDE DEF t
<1>5. PICK w \in Treatment : w = t
  BY <1>3
<1> QED BY <1>3, <1>4, <1>5, OwnStep DEF Finds, AdvanceInv, AdvanceTypeOK

\* A confirmation is read of whom it was granted, or which lies beneath a freeze.
LEMMA ReadsStep ==
    ASSUME AdvanceInv, NEW c \in AdvanceRequests, NEW query \in QueriesOf(treatment[c].kind),
           Reads(c, query)
    PROVE  AdvanceInv'
<1> DEFINE v == treatment[c]
           e == v.of
           r == [v EXCEPT !.read = @ \cup {query}]
           t == CASE query = "punches" -> [r EXCEPT !.punches = known[e].punches]
                  [] query = "sick" -> [r EXCEPT !.sick = known[e].sick]
                  [] query = "leaves" -> [r EXCEPT !.leaves = known[e].leaves]
                  [] query = "confirmations" -> [r EXCEPT !.confirmed = confirmation[e]]
                  [] query = "freezes" -> [r EXCEPT !.frozen = e \in frozen]
<1>1. v \in Treatment /\ Due(v) /\ v.at = "reading" /\ v.of \in Workers
  BY DEF Reads, AdvanceInv, AdvanceTypeOK, Due
<1>2. /\ query \in {"punches", "sick", "leaves", "confirmations", "freezes"}
      /\ query = "confirmations" => v.kind = "export"
  BY DEF QueriesOf
<1>3. /\ r \in Treatment /\ r.kind = v.kind /\ r.of = v.of /\ r.at = "reading" /\ r.due = v.due
      /\ r.confirmed = v.confirmed /\ r.paid = v.paid
  <2> HIDE DEF v
  <2> QED BY <1>1, <1>2 DEF Treatment
<1>4. /\ known[e] \in Facts /\ confirmation[e] \in Confirmation \cup {Nothing}
      /\ confirmation[e] # Nothing => granted[e] \/ confirmation[e].beneath
  BY <1>1 DEF AdvanceInv, AdvanceTypeOK
<1>5. treatment' = [treatment EXCEPT ![c] = t]
  BY DEF Reads, AdvanceInv, AdvanceTypeOK
<1> DEFINE known_e == known[e]
           held == confirmation[e]
           stopped == e \in frozen
<1>6. /\ t \in Treatment /\ t.kind = v.kind /\ t.of = v.of /\ t.at = "reading" /\ t.due = v.due
      /\ t.paid = v.paid
      /\ \/ t.confirmed = v.confirmed
         \/ query = "confirmations" /\ t.confirmed = held
  <2>1. known_e \in Facts /\ held \in Confirmation \cup {Nothing} /\ stopped \in BOOLEAN
    BY <1>4
  <2> HIDE DEF r, known_e, held, stopped
  <2>2. CASE query = "punches"
    BY <1>3, <2>1, <2>2 DEF Treatment, known_e
  <2>3. CASE query = "sick"
    BY <1>3, <2>1, <2>3 DEF Treatment, known_e
  <2>4. CASE query = "leaves"
    BY <1>3, <2>1, <2>4 DEF Treatment, known_e
  <2>5. CASE query = "confirmations"
    BY <1>3, <2>1, <2>5 DEF Treatment, held
  <2>6. CASE query = "freezes"
    BY <1>3, <2>1, <2>6 DEF Treatment, stopped
  <2> QED BY <1>2, <2>2, <2>3, <2>4, <2>5, <2>6
<1> HIDE DEF t, r
<1>7. Due(t)
  BY <1>1, <1>2, <1>4, <1>6 DEF Due
<1>8. PICK w \in Treatment : w = t
  BY <1>6
<1>9. /\ treatment' \in [AdvanceRequests -> Treatment] /\ treatment'[c] = w
      /\ \A d \in AdvanceRequests \ {c} : treatment'[d] = treatment[d]
  BY <1>5, <1>8 DEF AdvanceInv, AdvanceTypeOK
<1> QED BY <1>6, <1>7, <1>8, <1>9, OwnStep DEF Reads, AdvanceInv, AdvanceTypeOK

\* An export pays whom the advance is due to.
LEMMA PaysStep == ASSUME AdvanceInv, NEW c \in AdvanceRequests, Pays(c) PROVE AdvanceInv'
<1> DEFINE v == treatment[c]
           due == v.due \/ v.confirmed.beneath
           t == IF v.confirmed # Nothing /\ ~v.frozen
                THEN [Done EXCEPT !.paid = v.account, !.due = due] ELSE Done
<1>1. v \in Treatment /\ Due(v) /\ v.kind = "export"
  BY DEF Pays, AdvanceInv, AdvanceTypeOK
<1>2. treatment' = [treatment EXCEPT ![c] = t]
  BY DEF Pays, AdvanceInv, AdvanceTypeOK
<1>3. due \in BOOLEAN /\ v.account \in Accounts /\ (v.confirmed # Nothing => due)
  BY <1>1 DEF Due, Treatment
<1> DEFINE account == v.account
           pays == v.confirmed # Nothing /\ ~v.frozen
<1>4. t \in Treatment /\ Due(t) /\ t.at # "deleted"
  <2>1. CASE pays
    <3> HIDE DEF due, account
    <3>1. t = [Done EXCEPT !.paid = account, !.due = due]
      BY <2>1 DEF account
    <3> HIDE DEF t
    <3>2. /\ t \in Treatment /\ t.at = "done" /\ t.kind = "none" /\ t.confirmed = Nothing
          /\ t.due = due
      BY <1>3, <3>1, RestIsTyped DEF Treatment, account
    <3> QED BY <1>3, <2>1, <3>2 DEF Due
  <2>2. CASE ~pays
    BY <2>2, RestIsTyped
  <2> QED BY <2>1, <2>2
<1> HIDE DEF t
<1>5. PICK w \in Treatment : w = t
  BY <1>4
<1>6. /\ treatment' \in [AdvanceRequests -> Treatment] /\ treatment'[c] = w
      /\ \A d \in AdvanceRequests \ {c} : treatment'[d] = treatment[d]
  BY <1>2, <1>5 DEF AdvanceInv, AdvanceTypeOK
<1> QED BY <1>4, <1>5, <1>6, OwnStep DEF Pays, AdvanceInv, AdvanceTypeOK

\* A freeze is lifted: nothing is granted by it.
LEMMA UnfreezesStep == ASSUME AdvanceInv, NEW c \in AdvanceRequests, Unfreezes(c) PROVE AdvanceInv'
<1>1. /\ treatment' \in [AdvanceRequests -> Treatment] /\ treatment'[c] = Done
      /\ \A d \in AdvanceRequests \ {c} : treatment'[d] = treatment[d]
  BY RestIsTyped DEF Unfreezes, AdvanceInv, AdvanceTypeOK
<1> QED BY <1>1, RestIsTyped, OwnStep DEF Unfreezes, AdvanceInv, AdvanceTypeOK

\* The confirmation is taken out before the freeze is written.
LEMMA FreezeDeletesStep ==
    ASSUME AdvanceInv, NEW c \in AdvanceRequests, FreezeDeletes(c)
    PROVE  AdvanceInv'
<1> DEFINE v == treatment[c]
           t == [v EXCEPT !.at = "deleted"]
<1>1. v \in Treatment /\ Due(v) /\ v.at = "reading" /\ v.of \in Workers
  BY DEF FreezeDeletes, ReadAll, AdvanceInv, AdvanceTypeOK, Due
<1>2. treatment' = [treatment EXCEPT ![c] = t] /\ confirmation' = [confirmation EXCEPT ![v.of] = Nothing]
  BY DEF FreezeDeletes, AdvanceInv, AdvanceTypeOK
<1>3. /\ t \in Treatment /\ t.kind = v.kind /\ t.of = v.of /\ t.at = "deleted" /\ t.due = v.due
      /\ t.confirmed = v.confirmed /\ t.paid = v.paid
  BY <1>1 DEF Treatment
<1> HIDE DEF t
<1>4. Due(t)
  BY <1>1, <1>3 DEF Due
<1>5. /\ treatment' \in [AdvanceRequests -> Treatment] /\ treatment'[c] = t
      /\ \A d \in AdvanceRequests \ {c} : treatment'[d] = treatment[d]
  BY <1>2, <1>3 DEF AdvanceInv, AdvanceTypeOK
<1>6. AdvanceTypeOK'
  BY <1>1, <1>2, <1>5 DEF FreezeDeletes, AdvanceInv, AdvanceTypeOK
<1>7. \A d \in AdvanceRequests : Due(treatment[d])'
  BY <1>4, <1>5 DEF FreezeDeletes, AdvanceInv, Due
<1>8. \A e \in Workers : e # v.of /\ BeingFrozen(e)' => BeingFrozen(e)
  BY <1>3, <1>5 DEF BeingFrozen
<1> QED BY <1>1, <1>2, <1>6, <1>7, <1>8 DEF FreezeDeletes, AdvanceInv, AdvanceTypeOK

-----------------------------------------------------------------------------
\* A request that ends with a decision on an employee.
LEMMA EndsStep ==
    ASSUME AdvanceInv, NEW c \in AdvanceRequests, NEW e \in Workers, NEW decision \in BOOLEAN,
           Ends(c, e, decision)
    PROVE  /\ granted' \in [Workers -> BOOLEAN] /\ granted'[e] = decision
           /\ \A x \in Workers \ {e} : granted'[x] = granted[x]
           /\ treatment' \in [AdvanceRequests -> Treatment]
           /\ \A d \in AdvanceRequests : Due(treatment[d])'
           /\ \A x \in Workers : BeingFrozen(x)' => BeingFrozen(x)
<1>1. /\ granted' \in [Workers -> BOOLEAN] /\ granted'[e] = decision
      /\ \A x \in Workers \ {e} : granted'[x] = granted[x]
  BY DEF Ends, AdvanceInv, AdvanceTypeOK
<1>2. ASSUME NEW d \in AdvanceRequests
      PROVE  /\ treatment'[d] \in Treatment /\ Due(treatment[d])'
             /\ d = c => treatment'[d].at = "done"
             /\ d # c => treatment'[d].at = treatment[d].at /\ treatment'[d].of = treatment[d].of
  <2> DEFINE v == treatment[d]
             due == v.due \/ (decision /\ v.kind = "export" /\ v.of = e)
             t == [v EXCEPT !.due = due]
  <2>1. v \in Treatment /\ Due(v)
    BY DEF AdvanceInv, AdvanceTypeOK
  <2>2. CASE d = c
    <3>1. treatment'[d] = Done
      BY <2>2 DEF Ends
    <3> QED BY <2>2, <3>1, RestIsTyped DEF Due
  <2>3. CASE d # c
    <3>1. treatment'[d] = t
      BY <2>3 DEF Ends
    <3>2. due \in BOOLEAN
      BY <2>1 DEF Treatment
    <3> HIDE DEF due, v
    <3>3. /\ t \in Treatment /\ t.kind = v.kind /\ t.of = v.of /\ t.at = v.at /\ t.due = due
          /\ t.confirmed = v.confirmed /\ t.paid = v.paid
      BY <2>1, <3>2 DEF Treatment
    <3> HIDE DEF t
    <3>4. PICK w \in Treatment : w = t
      BY <3>3
    <3>5. /\ w.kind = v.kind /\ w.of = v.of /\ w.at = v.at /\ w.confirmed = v.confirmed
          /\ w.paid = v.paid /\ (v.due => w.due)
          /\ decision /\ v.kind = "export" /\ v.of = e => w.due
      BY <3>3, <3>4 DEF due
    <3>6. Due(w)'
      BY <1>1, <2>1, <3>5 DEF Due
    <3> QED BY <2>3, <3>1, <3>3, <3>4, <3>6 DEF v
  <2> QED BY <2>2, <2>3
<1>3. treatment' \in [AdvanceRequests -> Treatment]
  <2>1. treatment' = [d \in AdvanceRequests |-> treatment'[d]]
    BY DEF Ends
  <2> QED BY <1>2, <2>1
<1>4. \A x \in Workers : BeingFrozen(x)' => BeingFrozen(x)
  BY <1>2 DEF BeingFrozen
<1> QED BY <1>1, <1>2, <1>3, <1>4

\* A confirmation is granted, but for those written beneath a freeze.
LEMMA ConfirmsRowStep == ASSUME AdvanceInv, NEW c \in AdvanceRequests, ConfirmsRow(c) PROVE AdvanceInv'
<1> DEFINE v == treatment[c]
           beneath == v.of \in frozen \/ BeingFrozen(v.of)
           row == RowOf(v.punches, v.sick, v.leaves)
           written == [punched |-> row.punched, empty |-> row.empty, justified |-> row.justified,
                       risk |-> row.risk, account |-> v.account, beneath |-> beneath]
<1>1. v \in Treatment /\ Due(v) /\ v.at = "reading" /\ v.of \in Workers
  BY DEF ConfirmsRow, ReadAll, AdvanceInv, AdvanceTypeOK, Due
<1>2. /\ confirmation' = [confirmation EXCEPT ![v.of] = written] /\ Ends(c, v.of, ~beneath)
      /\ UNCHANGED <<known, eligible, frozen, changes>>
  BY DEF ConfirmsRow
<1>3. written \in Confirmation /\ written.beneath = beneath /\ beneath \in BOOLEAN
  <2>1. v.account \in Accounts /\ beneath \in BOOLEAN
    BY <1>1 DEF Treatment, BeingFrozen
  <2> HIDE DEF beneath
  <2> QED BY <2>1, RowTyped
<1>4. BeingFrozen(v.of) => beneath
  OBVIOUS
<1> HIDE DEF written, beneath
<1>5. /\ granted' \in [Workers -> BOOLEAN] /\ granted'[v.of] = ~beneath
      /\ \A x \in Workers \ {v.of} : granted'[x] = granted[x]
      /\ treatment' \in [AdvanceRequests -> Treatment]
      /\ \A d \in AdvanceRequests : Due(treatment[d])'
      /\ \A x \in Workers : BeingFrozen(x)' => BeingFrozen(x)
  <2>1. (~beneath) \in BOOLEAN
    OBVIOUS
  <2> QED BY <1>1, <1>2, <2>1, EndsStep
<1>6. AdvanceTypeOK'
  BY <1>1, <1>2, <1>3, <1>5 DEF AdvanceInv, AdvanceTypeOK
<1>7. ASSUME NEW e \in Workers, confirmation'[e] # Nothing
      PROVE  /\ granted'[e] \/ confirmation'[e].beneath
             /\ BeingFrozen(e)' => confirmation'[e].beneath
  <2>1. CASE e = v.of
    BY <1>1, <1>2, <1>3, <1>4, <1>5, <2>1 DEF AdvanceInv, AdvanceTypeOK
  <2>2. CASE e # v.of
    <3>1. confirmation'[e] = confirmation[e] /\ granted'[e] = granted[e]
      BY <1>2, <1>5, <2>2 DEF AdvanceInv, AdvanceTypeOK
    <3> QED BY <1>5, <1>7, <3>1 DEF AdvanceInv
  <2> QED BY <2>1, <2>2
<1> QED BY <1>5, <1>6, <1>7 DEF AdvanceInv

\* A confirmation is withdrawn.
LEMMA UnconfirmsRowStep ==
    ASSUME AdvanceInv, NEW c \in AdvanceRequests, UnconfirmsRow(c)
    PROVE  AdvanceInv'
<1> DEFINE e == treatment[c].of
<1>1. e \in Workers
  BY DEF UnconfirmsRow, AdvanceInv, Due
<1>2. /\ confirmation' = [confirmation EXCEPT ![e] = Nothing] /\ Ends(c, e, FALSE)
      /\ UNCHANGED <<known, eligible, frozen, changes>>
  BY DEF UnconfirmsRow
<1> HIDE DEF e
<1>3. /\ granted' \in [Workers -> BOOLEAN]
      /\ \A x \in Workers \ {e} : granted'[x] = granted[x]
      /\ treatment' \in [AdvanceRequests -> Treatment]
      /\ \A d \in AdvanceRequests : Due(treatment[d])'
      /\ \A x \in Workers : BeingFrozen(x)' => BeingFrozen(x)
  BY <1>1, <1>2, EndsStep
<1>4. AdvanceTypeOK'
  BY <1>1, <1>2, <1>3 DEF AdvanceInv, AdvanceTypeOK
<1>5. \A x \in Workers : confirmation'[x] # Nothing => x # e /\ confirmation'[x] = confirmation[x]
  BY <1>1, <1>2 DEF AdvanceInv, AdvanceTypeOK
<1> QED BY <1>3, <1>4, <1>5 DEF AdvanceInv

\* A freeze is written, or its statement fails: what was confirmed since its first
\* statement lies beneath it.
LEMMA FreezesStep == ASSUME AdvanceInv, NEW c \in AdvanceRequests, Freezes(c) PROVE AdvanceInv'
<1> DEFINE e == treatment[c].of
<1>1. e \in Workers /\ BeingFrozen(e)
  BY DEF Freezes, AdvanceInv, Due, BeingFrozen
<1>2. /\ frozen' \in SUBSET Workers /\ Ends(c, e, FALSE)
      /\ UNCHANGED <<known, eligible, confirmation, changes>>
  BY <1>1 DEF Freezes, AdvanceInv, AdvanceTypeOK
<1> HIDE DEF e
<1>3. /\ granted' \in [Workers -> BOOLEAN]
      /\ \A x \in Workers \ {e} : granted'[x] = granted[x]
      /\ treatment' \in [AdvanceRequests -> Treatment]
      /\ \A d \in AdvanceRequests : Due(treatment[d])'
      /\ \A x \in Workers : BeingFrozen(x)' => BeingFrozen(x)
  BY <1>1, <1>2, EndsStep
<1>4. AdvanceTypeOK'
  BY <1>2, <1>3 DEF AdvanceInv, AdvanceTypeOK
<1>5. confirmation[e] # Nothing => confirmation[e].beneath
  BY <1>1 DEF AdvanceInv
<1> QED BY <1>2, <1>3, <1>4, <1>5 DEF AdvanceInv

\* Every step keeps the invariant.
LEMMA AdvanceStep == AdvanceInv /\ [AdvanceNext]_advanceVars => AdvanceInv'
<1>1. ASSUME AdvanceInv, UNCHANGED advanceVars PROVE AdvanceInv'
  BY <1>1 DEF advanceVars, AdvanceInv, AdvanceTypeOK, Due, BeingFrozen
<1> QED BY <1>1, OccursStep, RequestsStep, FindsStep, ReadsStep, ConfirmsRowStep, UnconfirmsRowStep,
           FreezeDeletesStep, FreezesStep, UnfreezesStep, PaysStep DEF AdvanceNext

\* The invariant always holds.
LEMMA AdvanceInvHolds == AdvanceSpec => []AdvanceInv
BY AdvanceInvInit, AdvanceStep, PTL DEF AdvanceSpec

\* Confirmations, freezes and requests keep their types, the counts of a row among them.
THEOREM AdvanceTypeCorrect == AdvanceSpec => []AdvanceTypeOK
<1>1. AdvanceInv => AdvanceTypeOK
  BY DEF AdvanceInv
<1> QED BY <1>1, AdvanceInvHolds, PTL

\* For any employees and requests at once, whom the transfer file pays was granted the
\* advance when the export began or since, unless the confirmation had been written
\* beneath a freeze (exportConfirmedExcel).
THEOREM PaysAreGranted == AdvanceSpec => []PayIsGranted
<1>1. AdvanceInv => PayIsGranted
  BY DEF AdvanceInv, Due, PayIsGranted
<1> QED BY <1>1, AdvanceInvHolds, PTL

\* For any period and any facts, the risk and the counts of a row are those its calendar
\* shows, but for punches whose day differs in UTC (computeRows, calendar).
THEOREM RowsAreFounded == AdvanceSpec => []RowIsFounded
BY RowsFounded, PTL

\* For any employees, facts and number of requests, both hold of every reachable
\* state (export, computeRows).
THEOREM AdvancesAreSound == AdvanceSpec => []AdvanceIsSound
BY PaysAreGranted, RowsAreFounded, PTL DEF AdvanceIsSound

=============================================================================
