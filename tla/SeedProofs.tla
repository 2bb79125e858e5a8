----------------------------- MODULE SeedProofs -----------------------------
(***************************************************************************)
(* The seed takes effect once and as a whole, and edits of languages are   *)
(* kept, for any number of processes, tables and languages, whatever       *)
(* fails.                                                                  *)
(***************************************************************************)
EXTENDS Seed, TLAPS

(* p has an open transaction that can still be committed. *)
Open(p) == pc[p] = "seed" /\ ~aborted[p]

(* Such a transaction has inserted into the tables it has come past, and   *)
(* one that has come past site has found the database empty and is the     *)
(* only one that has.                                                      *)
Seeding ==
  \A p \in Procs : Open(p) =>
    /\ inserted[p] = {Inserts[i] : i \in 1 .. pos[p]}
    /\ "site" \in inserted[p] =>
         /\ filled["site"] = 0
         /\ \A q \in Procs \ {p} : Open(q) => "site" \notin inserted[q]

(* A process that does not seed, and has not, has no transaction. *)
Fresh ==
  \A p \in Procs : pc[p] \in {"down", "count"} =>
    pos[p] = 0 /\ inserted[p] = {} /\ ~aborted[p]

(* Before the seed there are no languages, and nobody has gone beyond it. *)
Unseeded ==
  filled["site"] = 0 =>
    /\ \A c \in Codes : languages[c] = "absent"
    /\ \A p \in Procs : pc[p] \notin {"migrate", "add", "ready"}

Inv == TypeOK /\ SeededWhole /\ Seeding /\ Fresh /\ Unseeded

LEMMA InsertsFact ==
  /\ Len(Inserts) \in Nat /\ DOMAIN Inserts = 1 .. Len(Inserts)
  /\ 1 \in 1 .. Len(Inserts) /\ Inserts[1] = "site" /\ "site" \in Tables
  /\ Tables = {Inserts[i] : i \in 1 .. Len(Inserts)}
  /\ \A i \in 1 .. Len(Inserts) : Inserts[i] = "site" => i = 1
  /\ None \notin Defaults
<1>1. Len(Inserts) \in Nat /\ DOMAIN Inserts = 1 .. Len(Inserts) /\ Len(Inserts) > 0
  BY InsertsAssumption
<1>2. \A i \in 1 .. Len(Inserts) : Inserts[i] = "site" => i = 1
  BY <1>1, InsertsAssumption DEF IsInjective
<1>. QED
  BY <1>1, <1>2, InsertsAssumption DEF Tables, Codes, Range

-----------------------------------------------------------------------------
(* A process that gives up or is killed leaves nothing behind. *)
LEMMA ExitInv ==
  ASSUME Inv, NEW p \in Procs, Exit(p), UNCHANGED databaseVars
  PROVE  Inv'
<1>. USE InsertsFact DEF Inv, databaseVars
<1>1. /\ pc'[p] = "down" /\ pos'[p] = 0 /\ inserted'[p] = {} /\ aborted'[p] = FALSE
      /\ \A q \in Procs \ {p} : /\ pc'[q] = pc[q] /\ pos'[q] = pos[q]
                               /\ inserted'[q] = inserted[q] /\ aborted'[q] = aborted[q]
  BY DEF Exit, TypeOK
<1>2. TypeOK'
  BY DEF Exit, TypeOK
<1>3. Seeding'
  BY <1>1 DEF Seeding, Open
<1>4. Fresh' /\ Unseeded'
  BY <1>1 DEF Fresh, Unseeded
<1>. QED
  BY <1>2, <1>3, <1>4 DEF SeededWhole

(* A step outside the transactions, in which p goes on. *)
LEMMA MoveInv ==
  ASSUME Inv, TypeOK', NEW p \in Procs, UNCHANGED <<filled, seedVars>>,
         NEW label \in {"count", "seed", "migrate", "add", "ready"},
         pc' = [pc EXCEPT ![p] = label],
         label \in {"count", "seed"} => pc[p] \in {"down", "count"} /\ UNCHANGED languages,
         label \in {"migrate", "add", "ready"} => filled["site"] # 0
  PROVE  Inv'
<1>. USE InsertsFact DEF Inv, seedVars
<1>1. \A q \in Procs : pc'[q] = IF q = p THEN label ELSE pc[q]
  BY DEF TypeOK
<1>2. Seeding'
  <2>1. \A q \in Procs : Open(q)' => Open(q) \/ (inserted[q] = {} /\ pos[q] = 0)
    BY <1>1 DEF Open, Fresh
  <2>. QED
    BY <2>1 DEF Seeding
<1>3. Fresh' /\ Unseeded'
  BY <1>1 DEF Fresh, Unseeded
<1>. QED
  BY <1>2, <1>3 DEF SeededWhole

(* A statement of p's transaction. *)
LEMMA InsertInv ==
  ASSUME Inv, NEW p \in Procs,
         \/ Insert(p) \/ InsertRefused(p) \/ InsertAfterAbort(p) \/ InsertFails(p)
  PROVE  Inv'
<1>. USE InsertsFact DEF Inv, databaseVars, languageVars, Inserting
<1>1. /\ pc[p] = "seed" /\ pos[p] \in Nat /\ pos[p] + 1 \in 1 .. Len(Inserts)
      /\ Inserts[pos[p] + 1] \in Tables
      /\ pos' = [pos EXCEPT ![p] = pos[p] + 1]
      /\ UNCHANGED <<filled, languages, pc, todo, code>>
  BY DEF Insert, InsertRefused, InsertAfterAbort, InsertFails, TypeOK
<1>2. TypeOK'
  <2>1. pos' \in [Procs -> 0 .. Len(Inserts)]
    BY <1>1 DEF TypeOK
  <2>2. inserted' \in [Procs -> SUBSET Tables]
    BY <1>1 DEF Insert, InsertRefused, InsertAfterAbort, InsertFails, TypeOK
  <2>3. aborted' = aborted \/ aborted' = [aborted EXCEPT ![p] = TRUE]
    BY DEF Insert, InsertRefused, InsertAfterAbort, InsertFails
  <2>4. aborted' \in [Procs -> BOOLEAN]
    BY <2>3 DEF TypeOK
  <2>. QED
    BY <1>1, <2>1, <2>2, <2>4 DEF TypeOK
<1>3. Fresh' /\ Unseeded' /\ SeededWhole'
  BY <1>1 DEF Fresh, Unseeded, SeededWhole, Insert, InsertRefused, InsertAfterAbort,
              InsertFails, TypeOK
<1>4. CASE Insert(p)
  <2>1. /\ UNCHANGED aborted /\ ~aborted[p]
        /\ inserted'[p] = inserted[p] \cup {Inserts[pos[p] + 1]}
        /\ \A q \in Procs \ {p} : inserted'[q] = inserted[q] /\ pos'[q] = pos[q]
        /\ pos'[p] = pos[p] + 1
    BY <1>1, <1>4 DEF Insert, TypeOK
  <2>2. inserted[p] = {Inserts[i] : i \in 1 .. pos[p]}
    BY <1>1, <2>1 DEF Seeding, Open
  <2>3. inserted'[p] = {Inserts[i] : i \in 1 .. pos'[p]}
    <3>1. 1 .. pos'[p] = (1 .. pos[p]) \cup {pos[p] + 1}
      BY <1>1, <2>1
    <3>. QED
      BY <2>1, <2>2, <3>1
  <2>4. CASE Inserts[pos[p] + 1] = "site"
    <3>1. filled["site"] = 0
          /\ \A q \in Procs \ {p} : Open(q) => "site" \notin inserted[q]
      BY <1>4, <2>4 DEF Insert, SiteHeld, Open
    <3>. QED
      BY <1>1, <1>2, <1>3, <2>1, <2>3, <3>1 DEF Seeding, Open
  <2>5. CASE Inserts[pos[p] + 1] # "site"
    <3>1. "site" \in inserted'[p] <=> "site" \in inserted[p]
      BY <2>1, <2>5
    <3>. QED
      BY <1>1, <1>2, <1>3, <2>1, <2>3, <3>1 DEF Seeding, Open
  <2>. QED
    BY <2>4, <2>5
<1>5. CASE InsertRefused(p) \/ InsertAfterAbort(p) \/ InsertFails(p)
  <2>1. /\ UNCHANGED inserted /\ aborted'[p] = TRUE
        /\ \A q \in Procs \ {p} : aborted'[q] = aborted[q] /\ pos'[q] = pos[q]
    BY <1>1, <1>5 DEF InsertRefused, InsertAfterAbort, InsertFails, TypeOK
  <2>2. Seeding'
    BY <1>1, <2>1 DEF Seeding, Open
  <2>. QED
    BY <1>2, <1>3, <2>2
<1>. QED
  BY <1>4, <1>5

(* A commit fills all the tables, which were all empty. *)
LEMMA TakeEffectFills ==
  ASSUME Inv, NEW p \in Procs, Inserted(p), ~aborted[p], TakeEffect(p)
  PROVE  /\ filled["site"] = 0
         /\ filled' = [t \in Tables |-> 1]
         /\ languages' \in [Codes -> Texts]
         /\ \A q \in Procs \ {p} : Open(q) => "site" \notin inserted[q]
<1>. USE InsertsFact DEF Inv
<1>1. inserted[p] = Tables
  BY DEF Seeding, Open, Inserted
<1>2. filled["site"] = 0 /\ \A q \in Procs \ {p} : Open(q) => "site" \notin inserted[q]
  BY <1>1 DEF Seeding, Open, Inserted
<1>3. \A t \in Tables : filled[t] = 0
  BY <1>2 DEF SeededWhole
<1>4. filled' = [t \in Tables |-> 1]
  BY <1>1, <1>3 DEF TakeEffect
<1>5. languages' \in [Codes -> Texts]
  BY DEF TakeEffect, TypeOK, Texts
<1>. QED
  BY <1>2, <1>4, <1>5

LEMMA CommitInv ==
  ASSUME Inv, NEW p \in Procs, Commit(p) \/ CommitUnreported(p)
  PROVE  Inv'
<1>. USE InsertsFact DEF Inv
<1>1. /\ filled' = [t \in Tables |-> 1]
      /\ languages' \in [Codes -> Texts]
      /\ \A q \in Procs \ {p} : Open(q) => "site" \notin inserted[q]
  BY TakeEffectFills DEF Commit, CommitUnreported
<1>2. pc[p] = "seed"
  BY DEF Commit, CommitUnreported, Inserted
<1>3. /\ \A q \in Procs \ {p} :
           /\ pc'[q] = pc[q] /\ pos'[q] = pos[q]
           /\ inserted'[q] = inserted[q] /\ aborted'[q] = aborted[q]
      /\ \/ pc'[p] = "ready"
         \/ pc'[p] = "down" /\ pos'[p] = 0 /\ inserted'[p] = {} /\ aborted'[p] = FALSE
  BY DEF Commit, CommitUnreported, Goto, Exit, TypeOK, seedVars
<1>4. TypeOK'
  <2>1. filled' \in [Tables -> Nat]
    BY <1>1
  <2>2. CASE Commit(p)
    BY <1>1, <1>2, <2>1, <2>2 DEF Commit, Goto, TypeOK, seedVars, languageVars
  <2>3. CASE CommitUnreported(p)
    BY <1>1, <2>1, <2>3 DEF CommitUnreported, Exit, TypeOK
  <2>. QED
    BY <2>2, <2>3
<1>5. SeededWhole' /\ Unseeded'
  BY <1>1 DEF SeededWhole, Unseeded
<1>6. Seeding' /\ Fresh'
  BY <1>1, <1>3 DEF Seeding, Fresh, Open
<1>. QED
  BY <1>4, <1>5, <1>6

-----------------------------------------------------------------------------
LEMMA InitInv == Init => Inv
<1>. SUFFICES ASSUME Init PROVE Inv
  OBVIOUS
<1>. USE InsertsFact DEF Init
<1>1. TypeOK
  <2>1. filled \in [Tables -> Nat]
    OBVIOUS
  <2>2. languages \in [Codes -> Texts]
    BY DEF Texts
  <2>3. /\ pc \in [Procs -> {"down", "count", "seed", "migrate", "add", "ready"}]
        /\ pos \in [Procs -> 0 .. Len(Inserts)]
        /\ inserted \in [Procs -> SUBSET Tables]
    OBVIOUS
  <2>4. aborted \in [Procs -> BOOLEAN]
    OBVIOUS
  <2>5. /\ todo \in [Procs -> SUBSET Defaults]
        /\ code \in [Procs -> Defaults \cup {None}]
        /\ \A p \in Procs : pc[p] = "add" <=> code[p] # None
    OBVIOUS
  <2>. QED
    BY <2>1, <2>2, <2>3, <2>4, <2>5 DEF TypeOK
<1>. QED
  BY <1>1 DEF Inv, SeededWhole, Seeding, Fresh, Unseeded, Open

(* Boot steps outside the transaction of the seed. *)
LEMMA BootInv ==
  ASSUME Inv, NEW p \in Procs,
         \/ Start(p) \/ CountSite(p) \/ Add(p) \/ AddFails(p) \/ Migrated(p)
         \/ \E c \in Defaults : CountCode(p, c) \/ CountCodeFails(p, c)
  PROVE  Inv'
<1>. USE InsertsFact DEF Inv, databaseVars, languageVars, seedVars, Goto
<1>1. CASE Start(p)
  <2>1. TypeOK'
    BY <1>1 DEF Start, TypeOK
  <2>2. pc' = [pc EXCEPT ![p] = "count"] /\ pc[p] = "down"
    BY <1>1 DEF Start
  <2>3. UNCHANGED <<filled, seedVars, languages>>
    BY <1>1 DEF Start
  <2>. QED
    BY <2>1, <2>2, <2>3, MoveInv
<1>2. CASE CountSite(p)
  <2>1. TypeOK'
    BY <1>2 DEF CountSite, TypeOK
  <2>2. UNCHANGED <<filled, seedVars, languages>> /\ pc[p] = "count"
    BY <1>2 DEF CountSite
  <2>3. CASE filled["site"] > 0
    <3>1. pc' = [pc EXCEPT ![p] = "migrate"] /\ filled["site"] # 0
      BY <1>2, <2>3 DEF CountSite
    <3>. QED
      BY <2>1, <2>2, <3>1, MoveInv
  <2>4. CASE ~(filled["site"] > 0)
    <3>1. pc' = [pc EXCEPT ![p] = "seed"]
      BY <1>2, <2>4 DEF CountSite
    <3>. QED
      BY <2>1, <2>2, <3>1, MoveInv
  <2>. QED
    BY <2>3, <2>4
<1>3. ASSUME pc[p] \in {"migrate", "add"} PROVE filled["site"] # 0
  BY <1>3 DEF Unseeded
<1>4. CASE Add(p) \/ AddFails(p)
  <2>1. /\ pc[p] = "add" /\ pc' = [pc EXCEPT ![p] = "migrate"]
        /\ code' = [code EXCEPT ![p] = None]
        /\ UNCHANGED <<filled, seedVars, todo>>
    BY <1>4 DEF Add, AddFails
  <2>2. languages' \in [Codes -> Texts]
    <3>1. CASE Add(p)
      <4>1. languages' = [languages EXCEPT ![code[p]] =
                            IF @ = "absent" THEN "default" ELSE @]
        BY <3>1 DEF Add
      <4>. QED
        BY <4>1 DEF TypeOK, Texts
    <3>2. CASE AddFails(p)
      BY <3>2 DEF AddFails, TypeOK
    <3>. QED
      BY <1>4, <3>1, <3>2
  <2>3. \A q \in Procs : pc'[q] = "add" <=> code'[q] # None
    BY <2>1 DEF TypeOK
  <2>4. TypeOK'
    BY <2>1, <2>2, <2>3 DEF TypeOK
  <2>. QED
    BY <1>3, <2>1, <2>4, MoveInv
<1>5. CASE Migrated(p)
  <2>1. /\ pc[p] = "migrate" /\ pc' = [pc EXCEPT ![p] = "ready"]
        /\ UNCHANGED <<filled, languages, seedVars, todo, code>>
    BY <1>5 DEF Migrated
  <2>2. TypeOK'
    BY <2>1 DEF TypeOK
  <2>. QED
    BY <1>3, <2>1, <2>2, MoveInv
<1>6. ASSUME NEW c \in Defaults, CountCode(p, c) \/ CountCodeFails(p, c) PROVE Inv'
  <2>1. /\ pc[p] = "migrate" /\ todo' = [todo EXCEPT ![p] = @ \ {c}]
        /\ UNCHANGED <<filled, languages, seedVars>>
    BY <1>6 DEF CountCode, CountCodeFails
  <2>2. CASE pc' = [pc EXCEPT ![p] = "add"] /\ code' = [code EXCEPT ![p] = c]
    <3>1. \A q \in Procs : pc'[q] = "add" <=> code'[q] # None
      BY <2>2 DEF TypeOK
    <3>2. TypeOK'
      BY <2>1, <2>2, <3>1 DEF TypeOK
    <3>. QED
      BY <1>3, <2>1, <2>2, <3>2, MoveInv
  <2>3. CASE UNCHANGED <<pc, code>>
    <3>1. TypeOK'
      BY <2>1, <2>3 DEF TypeOK
    <3>2. pc' = [pc EXCEPT ![p] = "migrate"]
      BY <2>1, <2>3 DEF TypeOK
    <3>. QED
      BY <1>3, <2>1, <3>1, <3>2, MoveInv
  <2>. QED
    BY <1>6, <2>2, <2>3 DEF CountCode, CountCodeFails
<1>. QED
  BY <1>1, <1>2, <1>4, <1>5, <1>6

LEMMA UpdateInv == ASSUME Inv, UpdateLanguages PROVE Inv'
<1>1. filled["site"] # 0
  BY DEF UpdateLanguages, Inv, Unseeded
<1>2. TypeOK'
  BY DEF UpdateLanguages, Inv, TypeOK, seedVars, languageVars
<1>. QED
  BY <1>1, <1>2 DEF UpdateLanguages, Inv, SeededWhole, Seeding, Fresh, Unseeded, Open,
                    seedVars, languageVars

LEMMA SeedStepInv == Inv /\ [Next]_vars => Inv'
<1>. SUFFICES ASSUME Inv, [Next]_vars PROVE Inv'
  OBVIOUS
<1>1. ASSUME NEW p \in Procs, CommitRefused(p) \/ Crash(p) PROVE Inv'
  BY <1>1, ExitInv DEF CommitRefused, Crash
<1>2. CASE UNCHANGED vars
  BY <1>2 DEF vars, Inv, TypeOK, SeededWhole, Seeding, Fresh, Unseeded, Open
<1>. QED
  BY <1>1, <1>2, InsertInv, CommitInv, BootInv, UpdateInv DEF Next, Works, Breaks

LEMMA SeedInv == Spec => []Inv
BY InitInv, SeedStepInv, PTL DEF Spec

-----------------------------------------------------------------------------
(* A process adds a code exactly when it has found one missing, and has    *)
(* come past no more tables than SeedIfEmpty fills (service.go).           *)
THEOREM SeedTypeOK == Spec => []TypeOK
BY SeedInv, PTL DEF Inv

(* The tables are filled together and once, by whichever processes, and    *)
(* wherever they are killed (service.go, SeedIfEmpty).                     *)
THEOREM SeedSeededWhole == Spec => []SeededWhole
BY SeedInv, PTL DEF Inv

(* No process that starts changes a language that an administrator has     *)
(* edited (service.go, SeedIfEmpty and MigrateLanguages).                  *)
THEOREM SeedEditsKept == Spec => EditsKept
<1>1. ASSUME Inv, Next,
             NEW c \in Codes, languages[c] = "edited", languages'[c] # "edited"
      PROVE  UNCHANGED <<pc, todo>>
  <2>1. ASSUME NEW p \in Procs, Commit(p) \/ CommitUnreported(p) PROVE FALSE
    <3>1. filled["site"] = 0
      BY <1>1, <2>1, TakeEffectFills DEF Commit, CommitUnreported
    <3>. QED
      BY <1>1, <3>1 DEF Inv, Unseeded
  <2>2. ASSUME NEW p \in Procs, Add(p) PROVE FALSE
    BY <1>1, <2>2 DEF Add, Inv, TypeOK
  <2>3. ASSUME NEW p \in Procs,
               Works(p) \/ Breaks(p),
               ~Commit(p), ~CommitUnreported(p), ~Add(p)
        PROVE  UNCHANGED languages
    BY <2>3 DEF Works, Breaks, databaseVars, Start, CountSite, Insert, InsertRefused,
                InsertAfterAbort, CommitRefused, CountCode, Migrated, InsertFails,
                CountCodeFails, AddFails, Crash
  <2>4. CASE UpdateLanguages
    BY <2>4 DEF UpdateLanguages, languageVars
  <2>. QED
    BY <1>1, <2>1, <2>2, <2>3, <2>4 DEF Next
<1>2. Inv /\ [Next]_vars =>
        [\A c \in Codes : languages[c] = "edited" /\ languages'[c] # "edited"
                            => UNCHANGED <<pc, todo>>]_vars
  BY <1>1
<1>. QED
  BY SeedInv, <1>2, PTL DEF Spec, EditsKept

-----------------------------------------------------------------------------
(* The mapping to Planting. *)
Serving == {p \in Procs : pc[p] = "ready"}

(* Who commits has found nothing and nobody, so it plants. *)
LEMMA CommitPlants ==
  ASSUME Inv, NEW p \in Procs, Commit(p) \/ CommitUnreported(p)
  PROVE  Promise!Plant
<1>1. /\ filled["site"] = 0 /\ filled' = [t \in Tables |-> 1]
      /\ TakeEffect(p) /\ inserted[p] = Tables
  BY TakeEffectFills, InsertsFact DEF Commit, CommitUnreported, Inv, Seeding, Open, Inserted
<1>2. filled = [t \in Tables |-> 0]
  BY <1>1, InsertsFact DEF Inv, TypeOK, SeededWhole
<1>3. /\ \A c \in Codes : languages[c] = "absent"
      /\ \A q \in Procs : pc[q] # "ready"
  BY <1>1 DEF Inv, Unseeded
<1>4. languages' = [c \in Codes |-> IF c \in Defaults THEN "default" ELSE "absent"]
  BY <1>1, <1>3, InsertsAssumption DEF TakeEffect
<1>5. Serving = {} /\ Serving' \in {{}} \cup {{q} : q \in Procs}
  <2>1. \A q \in Procs \ {p} : pc'[q] # "ready"
    BY <1>3 DEF Commit, CommitUnreported, Goto, Exit, Inv, TypeOK
  <2>2. Serving' = {} \/ Serving' = {p}
    BY <2>1 DEF Serving
  <2>. QED
    BY <1>3, <2>2 DEF Serving
<1>. QED
  BY <1>1, <1>2, <1>4, <1>5 DEF Promise!Plant, Promise!Bare, Serving

LEMMA AddCompletes ==
  ASSUME Inv, NEW p \in Procs, Add(p)
  PROVE  Promise!Next \/ UNCHANGED Promise!plantingVars
<1>1. code[p] \in Defaults /\ code[p] \in Codes
  BY InsertsFact DEF Add, Inv, TypeOK, Codes
<1>2. UNCHANGED filled /\ Serving' = Serving
  BY DEF Add, Goto, Serving, Inv, TypeOK
<1>3. CASE languages[code[p]] = "absent"
  <2>1. languages' = [languages EXCEPT ![code[p]] = "default"]
    BY <1>3 DEF Add
  <2>. QED
    BY <1>1, <1>2, <1>3, <2>1 DEF Promise!Next, Promise!Complete, Serving
<1>4. CASE languages[code[p]] # "absent"
  <2>1. languages' = languages
    BY <1>1, <1>4 DEF Add, Inv, TypeOK
  <2>. QED
    BY <1>2, <2>1 DEF Promise!plantingVars, Serving
<1>. QED
  BY <1>3, <1>4

(* A step that changes nothing in the database stops p at most, or, once   *)
(* the database is planted, lets it serve.                                 *)
LEMMA MovePromised ==
  ASSUME Inv, NEW p \in Procs, UNCHANGED databaseVars,
         NEW l, Goto(p, l), l = "ready" => pc[p] = "migrate"
  PROVE  Promise!Next \/ UNCHANGED Promise!plantingVars
<1>1. UNCHANGED <<filled, languages>>
  BY DEF databaseVars
<1>2. CASE l = "ready"
  <2>1. Serving' = Serving \cup {p}
    BY <1>2 DEF Goto, Serving, Inv, TypeOK
  <2>2. filled["site"] # 0 /\ "site" \in Tables
    BY <1>2, InsertsFact DEF Inv, Unseeded
  <2>3. ~Promise!Bare
    BY <2>2 DEF Promise!Bare
  <2>. QED
    BY <1>1, <2>1, <2>3 DEF Promise!Next, Promise!Serve, Serving
<1>3. CASE l # "ready"
  <2>1. Serving' = Serving \ {p}
    BY <1>3 DEF Goto, Serving, Inv, TypeOK
  <2>. QED
    BY <1>1, <2>1 DEF Promise!Next, Promise!Stop, Serving
<1>. QED
  BY <1>2, <1>3

LEMMA EditPromised ==
  ASSUME Inv, UpdateLanguages
  PROVE  Promise!Edit
<1>1. UNCHANGED <<filled, pc>> /\ Serving # {} /\ Serving' = Serving
  BY DEF UpdateLanguages, Serving
<1>. QED
  BY <1>1 DEF UpdateLanguages, Promise!Edit, Serving

LEMMA StepPromised ==
  Inv /\ [Next]_vars => [Promise!Next]_(Promise!plantingVars)
<1>. SUFFICES ASSUME Inv, [Next]_vars
              PROVE  Promise!Next \/ UNCHANGED Promise!plantingVars
  OBVIOUS
<1>1. CASE UNCHANGED vars
  BY <1>1 DEF vars, Promise!plantingVars
<1>2. CASE UpdateLanguages
  BY <1>2, EditPromised DEF Promise!Next
<1>3. ASSUME NEW p \in Procs, Works(p) \/ Breaks(p)
      PROVE  Promise!Next \/ UNCHANGED Promise!plantingVars
  <2>1. CASE Commit(p) \/ CommitUnreported(p)
    BY <2>1, CommitPlants DEF Promise!Next
  <2>2. CASE Add(p)
    BY <2>2, AddCompletes
  <2>3. CASE \/ Insert(p) \/ InsertRefused(p) \/ InsertAfterAbort(p) \/ InsertFails(p)
    <3>1. UNCHANGED <<filled, languages, pc>>
      BY <2>3 DEF Insert, InsertRefused, InsertAfterAbort, InsertFails, databaseVars
    <3>. QED
      BY <3>1 DEF Promise!plantingVars
  <2>4. CASE \/ Start(p) \/ CountSite(p) \/ CommitRefused(p) \/ Migrated(p)
             \/ AddFails(p) \/ Crash(p)
    <3>1. PICK l : Goto(p, l) /\ (l = "ready" => pc[p] = "migrate")
      BY <2>4 DEF Start, CountSite, CommitRefused, Migrated, AddFails, Crash, Exit, Goto
    <3>2. UNCHANGED databaseVars
      BY <2>4 DEF Start, CountSite, CommitRefused, Migrated, AddFails, Crash
    <3>. QED
      BY <3>1, <3>2, MovePromised
  <2>5. ASSUME NEW c \in Defaults, CountCode(p, c) \/ CountCodeFails(p, c)
        PROVE  Promise!Next \/ UNCHANGED Promise!plantingVars
    <3>1. UNCHANGED databaseVars /\ (UNCHANGED pc \/ Goto(p, "add"))
      BY <2>5 DEF CountCode, CountCodeFails
    <3>2. CASE UNCHANGED pc
      BY <3>1, <3>2 DEF databaseVars, Promise!plantingVars
    <3>. QED
      BY <3>1, <3>2, MovePromised
  <2>. QED
    BY <1>3, <2>1, <2>2, <2>3, <2>4, <2>5 DEF Works, Breaks
<1>. QED
  BY <1>1, <1>2, <1>3 DEF Next

(* The seeding of any number of processes that race, fail and die plants   *)
(* the database once and as a whole before any of them serves, and changes *)
(* no text that is there (service.go, SeedIfEmpty and MigrateLanguages).   *)
THEOREM SeedKeepsPlanting == Spec => KeepsPlanting
<1>1. Init => Promise!Init
  BY DEF Init, Promise!Init, Promise!Bare
<1>. QED
  BY <1>1, SeedInv, StepPromised, PTL DEF Spec, KeepsPlanting, Promise!Spec
=============================================================================
