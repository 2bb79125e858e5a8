-------------------------------- MODULE Seed --------------------------------
(***************************************************************************)
(* The seeding of internal/service/service.go, run by every server process *)
(* after its migrations: SeedIfEmpty fills an empty database in one        *)
(* transaction; if there is data already, MigrateLanguages adds the        *)
(* default languages that are missing, one statement at a time, while      *)
(* other processes start or serve and an administrator edits languages.    *)
(*                                                                         *)
(* SeedIfEmpty ignores the result of every INSERT and relies on PostgreSQL *)
(* to refuse the commit of a transaction in which a statement failed. That *)
(* is modelled of PostgreSQL, and that the INSERT of the only row of site  *)
(* waits for an open transaction that has inserted it.                     *)
(***************************************************************************)
EXTENDS Sequences, Functions, Integers

CONSTANTS
  Procs,     \* the server processes
  Inserts,   \* the tables SeedIfEmpty inserts into, in its order
  Defaults,  \* the codes of DefaultLanguages()
  Custom,    \* other codes that an administrator may add
  None       \* no code

Tables == Range(Inserts)
Codes == Defaults \cup Custom

ASSUME InsertsAssumption ==
  /\ Inserts \in Seq(STRING) /\ IsInjective(Inserts)
  /\ Inserts # <<>> /\ Inserts[1] = "site" /\ "languages" \in Tables
  /\ None \notin Codes

VARIABLES
  filled,     \* filled[t]: how often the seed rows of t have been committed
  languages,  \* languages[c]: what the table languages holds for c
  pc,         \* pc[p]: where process p is
  pos,        \* pos[p]: how many INSERTs of the seed p has executed
  inserted,   \* inserted[p]: the tables its transaction has inserted into
  aborted,    \* aborted[p]: has a statement of the transaction failed?
  todo,       \* todo[p]: the codes MigrateLanguages has still to look at
  code        \* code[p]: the missing code it is about to insert

databaseVars == <<filled, languages>>
seedVars == <<pos, inserted, aborted>>
languageVars == <<todo, code>>
vars == <<filled, languages, pc, pos, inserted, aborted, todo, code>>

(* Absent, with the default texts, or with texts that were edited. *)
Texts == {"absent", "default", "edited"}

TypeOK ==
  /\ filled \in [Tables -> Nat]
  /\ languages \in [Codes -> Texts]
  /\ pc \in [Procs -> {"down", "count", "seed", "migrate", "add", "ready"}]
  /\ pos \in [Procs -> 0 .. Len(Inserts)]
  /\ inserted \in [Procs -> SUBSET Tables]
  /\ aborted \in [Procs -> BOOLEAN]
  /\ todo \in [Procs -> SUBSET Defaults]
  /\ code \in [Procs -> Defaults \cup {None}]
  /\ \A p \in Procs : pc[p] = "add" <=> code[p] # None

Goto(p, label) == pc' = [pc EXCEPT ![p] = label]

(* SeedIfEmpty has come to its commit. *)
Inserted(p) == pc[p] = "seed" /\ pos[p] = Len(Inserts)

(* The process is gone and its transaction rolled back. *)
Exit(p) ==
  /\ pc' = [pc EXCEPT ![p] = "down"]
  /\ pos' = [pos EXCEPT ![p] = 0]
  /\ inserted' = [inserted EXCEPT ![p] = {}]
  /\ aborted' = [aborted EXCEPT ![p] = FALSE]
  /\ todo' = [todo EXCEPT ![p] = {}]
  /\ code' = [code EXCEPT ![p] = None]

-----------------------------------------------------------------------------
(* Wrong variants of operations below, which the checked properties must   *)
(* tell from the right ones. They are part of no specification.            *)

(* An INSERT outside a transaction takes effect at once. *)
InsertCommitted(p) ==
  /\ pc[p] = "seed" /\ pos[p] < Len(Inserts) /\ ~aborted[p]
  /\ filled' = [filled EXCEPT ![Inserts[pos[p] + 1]] = @ + 1]
  /\ pos' = [pos EXCEPT ![p] = @ + 1]
  /\ UNCHANGED <<languages, pc, inserted, aborted, languageVars>>

(* SeedIfEmpty seeds without looking. *)
CountIgnored(p) ==
  /\ pc[p] = "count"
  /\ Goto(p, "seed")
  /\ UNCHANGED <<databaseVars, seedVars, languageVars>>

(* An upsert: ON CONFLICT DO UPDATE. *)
AddOverwrites(p) ==
  /\ pc[p] = "add"
  /\ languages' = [languages EXCEPT ![code[p]] = "default"]
  /\ Goto(p, "migrate")
  /\ code' = [code EXCEPT ![p] = None]
  /\ UNCHANGED <<filled, seedVars, todo>>

(* The code stays where it is after the INSERT. *)
AddKeepsCode(p) ==
  /\ pc[p] = "add"
  /\ languages' = [languages EXCEPT ![code[p]] = IF @ = "absent" THEN "default" ELSE @]
  /\ Goto(p, "migrate")
  /\ UNCHANGED <<filled, seedVars, languageVars>>

(* The error of the commit is ignored like those of the INSERTs. *)
CommitUnchecked(p) ==
  /\ Inserted(p) /\ aborted[p]
  /\ Goto(p, "ready")
  /\ UNCHANGED <<databaseVars, seedVars, languageVars>>

-----------------------------------------------------------------------------
Init ==
  /\ filled = [t \in Tables |-> 0]
  /\ languages = [c \in Codes |-> "absent"]
  /\ pc = [p \in Procs |-> "down"]
  /\ pos = [p \in Procs |-> 0]
  /\ inserted = [p \in Procs |-> {}]
  /\ aborted = [p \in Procs |-> FALSE]
  /\ todo = [p \in Procs |-> {}]
  /\ code = [p \in Procs |-> None]

Start(p) ==
  /\ pc[p] = "down"
  /\ Goto(p, "count")
  /\ UNCHANGED <<databaseVars, seedVars, languageVars>>

(* SELECT COUNT of site, which decides between the two halves of SeedIfEmpty. *)
CountSite(p) ==
  /\ pc[p] = "count"
  /\ IF filled["site"] > 0
       THEN /\ Goto(p, "migrate")
            /\ todo' = [todo EXCEPT ![p] = Defaults]
       ELSE /\ Goto(p, "seed")
            /\ UNCHANGED todo
  /\ UNCHANGED <<databaseVars, seedVars, code>>

-----------------------------------------------------------------------------
(* The seeding transaction. *)

Inserting(p) == pc[p] = "seed" /\ pos[p] < Len(Inserts)

(* Another open transaction has inserted the row of site. *)
SiteHeld(p) ==
  \E q \in Procs \ {p} : pc[q] = "seed" /\ "site" \in inserted[q] /\ ~aborted[q]

Insert(p) ==
  /\ Inserting(p) /\ ~aborted[p]
  /\ Inserts[pos[p] + 1] = "site" => ~SiteHeld(p) /\ filled["site"] = 0
  /\ inserted' = [inserted EXCEPT ![p] = @ \cup {Inserts[pos[p] + 1]}]
  /\ pos' = [pos EXCEPT ![p] = @ + 1]
  /\ UNCHANGED <<databaseVars, pc, aborted, languageVars>>

(* The primary key of site refuses the row. *)
InsertRefused(p) ==
  /\ Inserting(p) /\ ~aborted[p]
  /\ Inserts[pos[p] + 1] = "site" /\ filled["site"] > 0
  /\ aborted' = [aborted EXCEPT ![p] = TRUE]
  /\ pos' = [pos EXCEPT ![p] = @ + 1]
  /\ UNCHANGED <<databaseVars, pc, inserted, languageVars>>

(* The statements after a failed one; nobody looks at their errors either. *)
InsertAfterAbort(p) ==
  /\ Inserting(p) /\ aborted[p]
  /\ pos' = [pos EXCEPT ![p] = @ + 1]
  /\ UNCHANGED <<databaseVars, pc, inserted, aborted, languageVars>>

InsertFails(p) ==
  /\ Inserting(p) /\ ~aborted[p]
  /\ aborted' = [aborted EXCEPT ![p] = TRUE]
  /\ pos' = [pos EXCEPT ![p] = @ + 1]
  /\ UNCHANGED <<databaseVars, pc, inserted, languageVars>>

TakeEffect(p) ==
  /\ filled' = [t \in Tables |-> filled[t] + IF t \in inserted[p] THEN 1 ELSE 0]
  /\ languages' = [c \in Codes |->
                     IF c \in Defaults /\ "languages" \in inserted[p]
                       THEN "default" ELSE languages[c]]

Commit(p) ==
  /\ Inserted(p) /\ ~aborted[p]
  /\ TakeEffect(p)
  /\ Goto(p, "ready")
  /\ UNCHANGED <<seedVars, languageVars>>

(* PostgreSQL rolls an aborted transaction back, and the driver reports it. *)
CommitRefused(p) ==
  /\ Inserted(p) /\ aborted[p]
  /\ Exit(p)
  /\ UNCHANGED databaseVars

(* The commit took effect and its answer was lost. *)
CommitUnreported(p) ==
  /\ Inserted(p) /\ ~aborted[p]
  /\ TakeEffect(p)
  /\ Exit(p)

-----------------------------------------------------------------------------
(* MigrateLanguages. *)

(* SELECT COUNT of a code, in the random order of a Go map. *)
CountCode(p, c) ==
  /\ pc[p] = "migrate" /\ c \in todo[p]
  /\ todo' = [todo EXCEPT ![p] = @ \ {c}]
  /\ IF languages[c] = "absent"
       THEN Goto(p, "add") /\ code' = [code EXCEPT ![p] = c]
       ELSE UNCHANGED <<pc, code>>
  /\ UNCHANGED <<databaseVars, seedVars>>

(* The query fails; its error is ignored and count is still 0. *)
CountCodeFails(p, c) ==
  /\ pc[p] = "migrate" /\ c \in todo[p]
  /\ todo' = [todo EXCEPT ![p] = @ \ {c}]
  /\ Goto(p, "add") /\ code' = [code EXCEPT ![p] = c]
  /\ UNCHANGED <<databaseVars, seedVars>>

(* INSERT ... ON CONFLICT DO NOTHING *)
Add(p) ==
  /\ pc[p] = "add"
  /\ languages' = [languages EXCEPT ![code[p]] = IF @ = "absent" THEN "default" ELSE @]
  /\ Goto(p, "migrate")
  /\ code' = [code EXCEPT ![p] = None]
  /\ UNCHANGED <<filled, seedVars, todo>>

(* The INSERT fails, and the loop goes on. *)
AddFails(p) ==
  /\ pc[p] = "add"
  /\ Goto(p, "migrate")
  /\ code' = [code EXCEPT ![p] = None]
  /\ UNCHANGED <<databaseVars, seedVars, todo>>

Migrated(p) ==
  /\ pc[p] = "migrate" /\ todo[p] = {}
  /\ Goto(p, "ready")
  /\ UNCHANGED <<databaseVars, seedVars, languageVars>>

-----------------------------------------------------------------------------
(* An administrator saves the languages through a process that serves: the *)
(* table is replaced in one transaction (UpdateLanguages).                 *)
UpdateLanguages ==
  /\ \E p \in Procs : pc[p] = "ready"
  /\ languages' \in [Codes -> Texts]
  /\ \A c \in Codes : languages[c] # "default" => languages'[c] # "default"
  /\ UNCHANGED <<filled, pc, seedVars, languageVars>>

(* CountSite fails, or the process is killed. *)
Crash(p) ==
  /\ pc[p] # "down"
  /\ Exit(p)
  /\ UNCHANGED databaseVars

Works(p) ==
  \/ Start(p)
  \/ CountSite(p)
  \/ Insert(p)
  \/ InsertRefused(p)
  \/ InsertAfterAbort(p)
  \/ Commit(p)
  \/ CommitRefused(p)
  \/ \E c \in Defaults : CountCode(p, c)
  \/ Add(p)
  \/ Migrated(p)

Breaks(p) ==
  \/ InsertFails(p)
  \/ CommitUnreported(p)
  \/ \E c \in Defaults : CountCodeFails(p, c)
  \/ AddFails(p)
  \/ Crash(p)

Next ==
  \/ \E p \in Procs : Works(p) \/ Breaks(p)
  \/ UpdateLanguages

Spec == Init /\ [][Next]_vars

(* A process that can take a step does, and one that is down is restarted. *)
FairSpec == Spec /\ \A p \in Procs : WF_vars(Works(p))

-----------------------------------------------------------------------------
(* The database is seeded as a whole and once: there is never a table with *)
(* the seed rows and another without, nor one with two sets of them, even  *)
(* if processes race to seed it and are killed at it, and although no      *)
(* INSERT is looked at (service.go, SeedIfEmpty). A database with a row in *)
(* site and no administrator's password would never be repaired.           *)
SeededWhole ==
  \E n \in {0, 1} : \A t \in Tables : filled[t] = n

(* What an administrator has edited only an administrator changes: the     *)
(* check of MigrateLanguages may be out of date when its INSERT comes      *)
(* (service.go, MigrateLanguages; the INSERT does nothing on a conflict).  *)
EditsKept ==
  [][\A c \in Codes :
       languages[c] = "edited" /\ languages'[c] # "edited" => UNCHANGED <<pc, todo>>]_vars

Promise == INSTANCE Planting WITH serving <- {p \in Procs : pc[p] = "ready"}

(* The two halves of SeedIfEmpty, the second of which ignores all errors,  *)
(* keep the promise of Planting step by step: no process serves a database *)
(* that is not planted, also not one whose own transaction came to         *)
(* nothing, and the default languages that a start adds later never take   *)
(* the place of one that is there (service.go, SeedIfEmpty and             *)
(* MigrateLanguages; main.go, os.Exit on its error).                       *)
KeepsPlanting == Promise!Spec

(* Once statements stop failing and processes stop being killed, all of    *)
(* them come up, also those that lost the race to seed (service.go,        *)
(* SeedIfEmpty; main.go, os.Exit on its error).                            *)
AllGetReady ==
  <>[][(\E p \in Procs : Works(p)) \/ UpdateLanguages]_vars
    => <>[](\A p \in Procs : pc[p] = "ready")
=============================================================================
