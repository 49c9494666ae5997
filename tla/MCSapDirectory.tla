--------------------------- MODULE MCSapDirectory ---------------------------
(* Instances of SapDirectory for TLC: a record that gives the code of one  *)
(* employee and bears the name of another, and a record with no code.  The *)
(* payroll control and the advance on salary only read what it writes, so   *)
(* the three are explored one at a time: part says which one acts.          *)
EXTENDS SapDirectory, PayrollControl, AdvancedTreatment, TLC

CONSTANTS e1, e2, s1, s2, code

VARIABLE part

mcVars == <<part, vars, payVars, advanceVars>>

MCCodes == e1 :> {code} @@ e2 :> {}
MCBadge == s1 :> code @@ s2 :> None
MCNamed == s1 :> e2 @@ s2 :> e2
MCAlike == {<<e2, s2>>}
MCPartly == {<<e2, s1>>, <<e1, s1>>}

\* An employee with two records, one known by the end of his code only, and one with a
\* record of another company; two rubrics, a line without rubric and one of nobody.
OfSap(company, number, rubric, amount) ==
    [company |-> company, number |-> number, rubric |-> rubric, amount |-> amount]
MCBulletins ==
    {<<OfSap("F", 1, "A", 1), OfSap("R", 2, "B", 2)>>,
     <<OfSap("R", 2, "B", 4), OfSap("F", 1, "B", 8), OfSap("R", 1, "none", 3)>>,
     <<OfSap("R", 1, "A", 16), OfSap("F", 1, "A", 7), OfSap("F", 2, "A", 32),
       OfSap("F", 3, "A", 5)>>}
MCRecordsOf == "paid" :> {<<"F", 1>>, <<"R", 1>>} @@ "unlinked" :> {} @@ "foreign" :> {<<"R", 3>>}
MCCodesOf == "paid" :> {1} @@ "unlinked" :> {2} @@ "foreign" :> {}

\* A week and its Friday: an absence of some days, or a presence, a punch that counts for
\* nothing, a declaration that begins before the period and one that ends after it.
Punch(day, presence) == [local |-> day, utc |-> day, presence |-> presence]
MCFacts ==
    {[punches |-> {}, sick |-> {<<1, 2>>}, leaves |-> {<<2, 3>>}, account |-> "first"],
     [punches |-> {Punch(3, TRUE), Punch(4, FALSE)}, sick |-> {<<0, 1>>},
      leaves |-> {<<6, 9>>}, account |-> "second"]}

\* Bound of the instance: one employee at most has a matricule to begin with; the
\* requests and the refreshes give the others.
FewMatricules ==
    \A d, e \in Employees : matricule[d] # None /\ matricule[e] # None => d = e

MCInit ==
    /\ part \in {"directory", "pay", "advance"}
    /\ Init /\ FewMatricules
    /\ part # "directory" => rows = {} /\ matricule = NoCode
    /\ PayInit /\ AdvanceInit
    /\ part # "advance" => known = [e \in Workers |-> CHOOSE f \in Facts : TRUE]

DirectoryNext == part = "directory" /\ Next /\ UNCHANGED <<part, payVars, advanceVars>>
MCPayNext == part = "pay" /\ PayNext /\ UNCHANGED <<part, vars, advanceVars>>
MCAdvanceNext == part = "advance" /\ AdvanceNext /\ UNCHANGED <<part, vars, payVars>>

MCSpec == MCInit /\ [][DirectoryNext \/ MCPayNext \/ MCAdvanceNext]_mcVars

\* The handlers of SAP and the requests of the advance are the same values.
Symmetry == Permutations(Handlers)
=============================================================================
