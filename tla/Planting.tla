------------------------------ MODULE Planting ------------------------------
(***************************************************************************)
(* What seeding promises of the database, without its transactions, its    *)
(* counts and its failures: a new database is planted once and as a whole, *)
(* and before that nobody serves; later a default text comes only where    *)
(* there is none, and only an administrator changes or removes one.        *)
(***************************************************************************)

CONSTANTS
  Procs,     \* the processes that serve
  Tables,    \* the tables to fill
  Codes,     \* the codes of languages, the default ones among them
  Defaults,
  Texts      \* what there is for a code: "absent", "default" or "edited"

VARIABLES
  filled,     \* filled[t]: how often the seed rows of t were put in
  languages,  \* languages[c]: the text there is for c
  serving     \* the processes that serve

plantingVars == <<filled, languages, serving>>

Bare == filled = [t \in Tables |-> 0]

Init ==
  /\ Bare
  /\ languages = [c \in Codes |-> "absent"]
  /\ serving = {}

(* Whoever plants serves afterwards, or comes to nothing before it does. *)
Plant ==
  /\ Bare /\ serving = {}
  /\ filled' = [t \in Tables |-> 1]
  /\ languages' = [c \in Codes |-> IF c \in Defaults THEN "default" ELSE "absent"]
  /\ serving' \in {{}} \cup {{p} : p \in Procs}

Complete(c) ==
  /\ languages[c] = "absent"
  /\ languages' = [languages EXCEPT ![c] = "default"]
  /\ UNCHANGED <<filled, serving>>

Edit ==
  /\ serving # {}
  /\ languages' \in [Codes -> Texts]
  /\ \A c \in Codes : languages'[c] = "default" => languages[c] = "default"
  /\ UNCHANGED <<filled, serving>>

Serve(p) ==
  /\ ~Bare
  /\ serving' = serving \cup {p}
  /\ UNCHANGED <<filled, languages>>

Stop(p) ==
  /\ serving' = serving \ {p}
  /\ UNCHANGED <<filled, languages>>

Next ==
  \/ Plant
  \/ \E c \in Defaults : Complete(c)
  \/ Edit
  \/ \E p \in Procs : Serve(p) \/ Stop(p)

Spec == Init /\ [][Next]_plantingVars
=============================================================================
