------------------------------ MODULE Migrate ------------------------------
(***************************************************************************)
(* The migration runner of internal/migrate/migrate.go, run by every       *)
(* server process before it serves (cmd/server/main.go), possibly by       *)
(* several at once, against one PostgreSQL database.                       *)
(*                                                                         *)
(* A process may be killed at any step and is restarted (docker-compose,   *)
(* restart: unless-stopped). PostgreSQL is modelled as far as Run relies   *)
(* on it: a transaction takes effect at its commit or not at all, and a    *)
(* second INSERT of a version waits for the transaction that holds it and  *)
(* fails if that one commits.                                              *)
(***************************************************************************)
EXTENDS Sequences, Integers

CONSTANTS
  Procs,     \* the server processes
  Versions   \* Versions[i]: the version in the name of the i-th file of the
             \* migrations directory, as collectUpMigrations sorts them

Files == DOMAIN Versions

ASSUME VersionsAssumption ==
  /\ Versions \in Seq(Nat)
  /\ \A i, j \in Files : i < j => Versions[i] <= Versions[j]

VARIABLES
  table,    \* does schema_migrations exist?
  applied,  \* the versions in schema_migrations
  ran,      \* ran[i]: how often the SQL of file i has taken effect
  pc,       \* pc[p]: where process p is
  pos,      \* pos[p]: the file p has come to
  known     \* known[p]: the map that appliedVersions returned to p

databaseVars == <<table, applied, ran>>
vars == <<table, applied, ran, pc, pos, known>>

States == {"down", "table", "read", "next", "exec", "insert", "commit", "ready"}

TypeOK ==
  /\ table \in BOOLEAN
  /\ applied \subseteq {Versions[i] : i \in Files}
  /\ ran \in [Files -> Nat]
  /\ pc \in [Procs -> States]
  /\ pos \in [Procs -> 1 .. Len(Versions) + 1]
  /\ known \in [Procs -> SUBSET {Versions[i] : i \in Files}]
  /\ \A p \in Procs :
       /\ pc[p] \in {"exec", "insert", "commit"} => pos[p] \in Files
       /\ pc[p] \in {"read", "next", "exec", "insert", "commit", "ready"} => table

Goto(p, label) == pc' = [pc EXCEPT ![p] = label]

(* The process exits, or main returns an error and exits; PostgreSQL rolls *)
(* back what it had not committed.                                         *)
Exit(p) ==
  /\ pc' = [pc EXCEPT ![p] = "down"]
  /\ pos' = [pos EXCEPT ![p] = 1]
  /\ known' = [known EXCEPT ![p] = {}]

(* The version that p is applying. *)
Version(p) == Versions[pos[p]]

-----------------------------------------------------------------------------
(* Wrong variants of operations below, which the checked properties must   *)
(* tell from the right ones. They are part of no specification.            *)

(* A failed migration is skipped. *)
FailsAndGoesOn(p) ==
  /\ pc[p] \in {"table", "read", "exec", "insert", "commit"}
  /\ IF pc[p] \in {"exec", "insert", "commit"}
       THEN /\ Goto(p, "next")
            /\ pos' = [pos EXCEPT ![p] = @ + 1]
            /\ UNCHANGED known
       ELSE Exit(p)
  /\ UNCHANGED databaseVars

(* main logs the error of Run and serves nevertheless. *)
FailsAndServes(p) ==
  /\ pc[p] \in {"table", "read", "exec", "insert", "commit"}
  /\ Goto(p, "ready")
  /\ UNCHANGED <<databaseVars, pos, known>>

(* INSERT ... ON CONFLICT DO NOTHING, its result ignored. *)
InsertIgnored(p) ==
  /\ pc[p] = "insert"
  /\ Goto(p, "commit")
  /\ UNCHANGED <<databaseVars, pos, known>>

(* Run does without ensureMigrationsTable. *)
StartWithoutTable(p) ==
  /\ pc[p] = "down"
  /\ Goto(p, "read")
  /\ UNCHANGED <<databaseVars, pos, known>>

(* What is recorded is never read back. *)
AppliedUnread(p) ==
  /\ pc[p] = "read"
  /\ Goto(p, "next")
  /\ UNCHANGED <<databaseVars, pos, known>>

-----------------------------------------------------------------------------
Init ==
  /\ table = FALSE
  /\ applied = {}
  /\ ran = [i \in Files |-> 0]
  /\ pc = [p \in Procs |-> "down"]
  /\ pos = [p \in Procs |-> 1]
  /\ known = [p \in Procs |-> {}]

Start(p) ==
  /\ pc[p] = "down"
  /\ Goto(p, "table")
  /\ UNCHANGED <<databaseVars, pos, known>>

EnsureMigrationsTable(p) ==
  /\ pc[p] = "table"
  /\ table' = TRUE
  /\ Goto(p, "read")
  /\ UNCHANGED <<applied, ran, pos, known>>

AppliedVersions(p) ==
  /\ pc[p] = "read"
  /\ known' = [known EXCEPT ![p] = applied]
  /\ Goto(p, "next")
  /\ UNCHANGED <<databaseVars, pos>>

(* The head of the loop in Run. *)
Skip(p) ==
  /\ pc[p] = "next"
  /\ pos[p] \in Files /\ Version(p) \in known[p]
  /\ pos' = [pos EXCEPT ![p] = @ + 1]
  /\ UNCHANGED <<databaseVars, pc, known>>

Begin(p) ==
  /\ pc[p] = "next"
  /\ pos[p] \in Files /\ Version(p) \notin known[p]
  /\ Goto(p, "exec")
  /\ UNCHANGED <<databaseVars, pos, known>>

Done(p) ==
  /\ pc[p] = "next"
  /\ pos[p] \notin Files
  /\ Goto(p, "ready")
  /\ UNCHANGED <<databaseVars, pos, known>>

(* applyOne: the SQL of the file, in an open transaction. *)
Exec(p) ==
  /\ pc[p] = "exec"
  /\ Goto(p, "insert")
  /\ UNCHANGED <<databaseVars, pos, known>>

(* Another open transaction has inserted the version. *)
Held(v) == \E q \in Procs : pc[q] = "commit" /\ Version(q) = v

Insert(p) ==
  /\ pc[p] = "insert"
  /\ ~Held(Version(p))
  /\ Version(p) \notin applied
  /\ Goto(p, "commit")
  /\ UNCHANGED <<databaseVars, pos, known>>

(* The primary key refuses the version. *)
InsertRefused(p) ==
  /\ pc[p] = "insert"
  /\ Version(p) \in applied
  /\ Exit(p)
  /\ UNCHANGED databaseVars

TakeEffect(p) ==
  /\ applied' = applied \cup {Version(p)}
  /\ ran' = [ran EXCEPT ![pos[p]] = @ + 1]
  /\ UNCHANGED table

Commit(p) ==
  /\ pc[p] = "commit"
  /\ TakeEffect(p)
  /\ Goto(p, "next")
  /\ pos' = [pos EXCEPT ![p] = @ + 1]
  /\ UNCHANGED known

(* The commit took effect and its answer was lost. *)
CommitUnreported(p) ==
  /\ pc[p] = "commit"
  /\ TakeEffect(p)
  /\ Exit(p)

(* Any statement may fail, and Run returns its error. *)
Fails(p) ==
  /\ pc[p] \in {"table", "read", "exec", "insert", "commit"}
  /\ Exit(p)
  /\ UNCHANGED databaseVars

(* The process is killed, while it migrates or later. *)
Crash(p) ==
  /\ pc[p] # "down"
  /\ Exit(p)
  /\ UNCHANGED databaseVars

Works(p) ==
  \/ Start(p)
  \/ EnsureMigrationsTable(p)
  \/ AppliedVersions(p)
  \/ Skip(p)
  \/ Begin(p)
  \/ Done(p)
  \/ Exec(p)
  \/ Insert(p)
  \/ InsertRefused(p)
  \/ Commit(p)

Breaks(p) == CommitUnreported(p) \/ Fails(p) \/ Crash(p)

Next == \E p \in Procs : Works(p) \/ Breaks(p)

Spec == Init /\ [][Next]_vars

(* A process that can take a step does, and one that is down is restarted. *)
FairSpec == Spec /\ \A p \in Procs : WF_vars(Works(p))

-----------------------------------------------------------------------------
(* The SQL of a file has taken effect if and only if its version is        *)
(* recorded, and no file's has twice, however processes race and wherever  *)
(* they are killed (migrate.go, applyOne: one transaction for both).       *)
ExactlyOnce ==
  /\ \A i \in Files : ran[i] <= 1
  /\ \A v \in applied : \E i \in Files : Versions[i] = v /\ ran[i] = 1
  /\ \A i \in Files : ran[i] = 1 => Versions[i] \in applied

(* A migration never takes effect before all those of lower versions have, *)
(* whichever process applies which (migrate.go, the sort and the loop that *)
(* stops at the first error).                                              *)
InOrder ==
  \A i, j \in Files :
    Versions[i] < Versions[j] /\ Versions[j] \in applied => Versions[i] \in applied

(* Once processes stop being killed and statements stop failing, all of    *)
(* them get through Run, also those that lost a race for a version and     *)
(* had to be restarted (migrate.go, Run; main.go, os.Exit on its error).   *)
AllGetReady ==
  (<>[][\E p \in Procs : Works(p)]_vars) => <>[](\A p \in Procs : pc[p] = "ready")

(* Run applies all pending *.up.sql migrations, says its comment           *)
(* (migrate.go, Run): once it has returned nil, every file has run.        *)
EveryFileRuns ==
  \A p \in Procs : pc[p] = "ready" => \A i \in Files : ran[i] = 1

Promise == INSTANCE Ledger WITH serving <- {p \in Procs : pc[p] = "ready"}

(* The table of versions and the transactions of the runner carry through  *)
(* what Ledger asks for, step by step: nothing that took effect is undone  *)
(* or done again, also by a process that was killed after a commit whose   *)
(* answer it never got, and no process serves before every version is      *)
(* there; of files that share one, Ledger asks for one only (migrate.go,   *)
(* Run and applyOne; main.go, which serves after Run).                     *)
KeepsLedger == Promise!Spec
=============================================================================
