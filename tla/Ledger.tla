------------------------------- MODULE Ledger -------------------------------
(***************************************************************************)
(* What a migration runner promises of the schema, without its table of    *)
(* versions, its transactions and its failures: of every version one file  *)
(* takes effect, from the lowest version to the highest, for good; and a   *)
(* process that serves finds all of them done.                             *)
(***************************************************************************)
EXTENDS Integers

CONSTANTS
  Procs,     \* the processes that serve
  Versions   \* Versions[i]: the version of file i

Files == DOMAIN Versions

VARIABLES
  ran,      \* ran[i]: how often file i has taken effect
  serving   \* the processes that serve

ledgerVars == <<ran, serving>>

(* The version has been reached. *)
Reached(v) == \E i \in Files : Versions[i] = v /\ ran[i] = 1

Init ==
  /\ ran = [i \in Files |-> 0]
  /\ serving = {}

Apply(i) ==
  /\ ~Reached(Versions[i])
  /\ \A j \in Files : Versions[j] < Versions[i] => Reached(Versions[j])
  /\ ran' = [ran EXCEPT ![i] = 1]
  /\ UNCHANGED serving

Serve(p) ==
  /\ \A i \in Files : Reached(Versions[i])
  /\ serving' = serving \cup {p}
  /\ UNCHANGED ran

Stop(p) ==
  /\ serving' = serving \ {p}
  /\ UNCHANGED ran

Next ==
  \/ \E i \in Files : Apply(i)
  \/ \E p \in Procs : Serve(p) \/ Stop(p)

Spec == Init /\ [][Next]_ledgerVars
=============================================================================
