---------------------------- MODULE MCIncidents ----------------------------
(* Incidents for TLC: two days, an important entry of the first and a      *)
(* sample entry of the second, and one file of two decisions, the first of *)
(* them handed off.  The rows of the four tables are bounded together.     *)
EXTENDS Incidents, TLC

CONSTANTS d1, d2, e1, e2, x1, x2

MCEntryDay == e1 :> d1 @@ e2 :> d2

MCFile == {<<x1, x2>>}

MCFewRows ==
    Cardinality(DOMAIN incidents) + Cardinality(packets) + Len(notes)
        + Cardinality(records) <= 4
=============================================================================
