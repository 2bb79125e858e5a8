---------------------------- MODULE Superseding ----------------------------
(***************************************************************************)
(* What an administrator may rely on when a table is replaced: once a      *)
(* replacement is saved its rows are there, and every row that was there   *)
(* when it began is gone. Of replacements that were saved while it was     *)
(* under way, some may survive it, but each as a whole.                    *)
(***************************************************************************)

CONSTANTS
  Writers,  \* the replacements, each made once
  Initial,  \* what filled the table before all of them
  Body      \* Body[w]: the keys of the rows that w puts into the table

VARIABLES
  rows,   \* the rows of the table, each a pair of its writer and its key
  older,  \* older[w]: the rows that were there when w began
  phase   \* phase[w]: "new", "active", "saved" or "failed"

supersedingVars == <<rows, older, phase>>

RowsOf(w) == {<<w, k>> : k \in Body[w]}

Init ==
  /\ rows \in {{}, RowsOf(Initial)}
  /\ older = [w \in Writers |-> {}]
  /\ phase = [w \in Writers |-> "new"]

Begin(w) ==
  /\ phase[w] = "new"
  /\ phase' = [phase EXCEPT ![w] = "active"]
  /\ older' = [older EXCEPT ![w] = rows]
  /\ UNCHANGED rows

Supersede(w) ==
  \E survivors \in SUBSET Writers :
    rows' = {r \in rows \ older[w] : r[1] \in survivors} \cup RowsOf(w)

Save(w) ==
  /\ phase[w] = "active"
  /\ Supersede(w)
  /\ phase' = [phase EXCEPT ![w] = "saved"]
  /\ UNCHANGED older

(* A failed replacement has no effect, or all of it if only its answer was *)
(* lost.                                                                   *)
Fail(w) ==
  /\ phase[w] = "active"
  /\ UNCHANGED rows \/ Supersede(w)
  /\ phase' = [phase EXCEPT ![w] = "failed"]
  /\ UNCHANGED older

Next == \E w \in Writers : Begin(w) \/ Save(w) \/ Fail(w)

Spec == Init /\ [][Next]_supersedingVars
=============================================================================
