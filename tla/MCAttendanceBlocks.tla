------------------------- MODULE MCAttendanceBlocks -------------------------
(* An instance of AttendanceBlocks for TLC.  The blocks are numbered in    *)
(* the order of their creation, the later ones end last, and one is        *)
(* dropped at a time.                                                      *)
EXTENDS AttendanceBlocks, FiniteSets

InOrder ==
    \A a, b \in Blocks :
        a < b /\ status[b] # "ABSENT" => status[a] # "ABSENT" /\ to[b] = MaxTime

MCSpec ==
    /\ Init
    /\ [][Next /\ InOrder' /\ Cardinality(dropped') <= 1]_vars
    /\ Fairness
=============================================================================
