----------------------------- MODULE MCReplace -----------------------------
(***************************************************************************)
(* Instances of Replace for TLC: two replacements with both keys, one      *)
(* with one of them, and a table that holds that one or nothing before.    *)
(***************************************************************************)
EXTENDS Replace

MCBody == [w1   |-> {"en", "fa"},
           w2   |-> {"en", "fa"},
           w3   |-> {"en"},
           seed |-> {"en"}]

(* Saves of the stats, of which there are some already. *)
StatsSpec ==
  /\ Init /\ table = "stats" /\ rows = RowsOf(Initial)
  /\ [][Next]_vars
=============================================================================
