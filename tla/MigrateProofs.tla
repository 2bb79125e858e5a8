--------------------------- MODULE MigrateProofs ---------------------------
(***************************************************************************)
(* Migrations take effect once and in order, for any number of processes   *)
(* and files, whatever fails.                                              *)
(***************************************************************************)
EXTENDS Migrate, TLAPS

(* An open transaction that has inserted its version is the only one that  *)
(* has, and the version is not recorded yet.                               *)
Exclusive ==
  \A p \in Procs : pc[p] = "commit" =>
    /\ Version(p) \notin applied
    /\ \A q \in Procs \ {p} : pc[q] = "commit" => Version(q) # Version(p)

(* What a process takes to be recorded is, and so is what it has passed. *)
Passed ==
  /\ \A p \in Procs : known[p] \subseteq applied
  /\ \A p \in Procs, i \in Files : i < pos[p] => Versions[i] \in applied
  /\ \A p \in Procs : pc[p] = "ready" => pos[p] \notin Files

Inv == TypeOK /\ ExactlyOnce /\ InOrder /\ Exclusive /\ Passed

LEMMA FilesFact ==
  /\ Files = 1 .. Len(Versions) /\ Len(Versions) \in Nat
  /\ \A i \in Files : Versions[i] \in Nat
BY VersionsAssumption DEF Files

-----------------------------------------------------------------------------
(* A step that records nothing and in which p goes on or starts anew. *)
LEMMA QuietInv ==
  ASSUME Inv, TypeOK', NEW p \in Procs, UNCHANGED <<applied, ran>>,
         NEW label, pc' = [pc EXCEPT ![p] = label],
         label = "commit" =>
           /\ pos' = pos /\ Version(p) \notin applied
           /\ \A q \in Procs : pc[q] = "commit" => Version(q) # Version(p),
         \A q \in Procs \ {p} : pos'[q] = pos[q] /\ known'[q] = known[q],
         known'[p] \subseteq applied,
         \A i \in Files : i < pos'[p] => Versions[i] \in applied,
         label = "ready" => pos'[p] \notin Files
  PROVE  Inv'
<1>. USE DEF Inv
<1>1. \A q \in Procs : pc'[q] = IF q = p THEN label ELSE pc[q]
  BY DEF TypeOK
<1>2. Exclusive'
  <2>. SUFFICES ASSUME NEW q \in Procs, pc'[q] = "commit"
                PROVE  /\ Versions[pos'[q]] \notin applied
                       /\ \A r \in Procs \ {q} :
                            pc'[r] = "commit" => Versions[pos'[r]] # Versions[pos'[q]]
    BY DEF Exclusive, Version
  <2>1. CASE q = p
    BY <1>1, <2>1 DEF Version
  <2>2. CASE q # p
    BY <1>1, <2>2 DEF Exclusive, Version
  <2>. QED
    BY <2>1, <2>2
<1>3. Passed'
  BY <1>1 DEF Passed
<1>. QED
  BY <1>2, <1>3 DEF ExactlyOnce, InOrder

LEMMA ExitInv ==
  ASSUME Inv, NEW p \in Procs, Exit(p), UNCHANGED databaseVars
  PROVE  Inv'
<1>1. /\ pos'[p] = 1 /\ known'[p] = {}
      /\ \A q \in Procs \ {p} : pos'[q] = pos[q] /\ known'[q] = known[q]
  BY DEF Exit, Inv, TypeOK
<1>2. TypeOK'
  BY FilesFact DEF Exit, Inv, TypeOK, States, databaseVars
<1>3. \A i \in Files : ~(i < pos'[p])
  BY <1>1, FilesFact
<1>. QED
  BY <1>1, <1>2, <1>3, QuietInv DEF Exit, databaseVars

(* The commit: the version was not recorded, no file of it has taken       *)
(* effect, and all lower ones have.                                        *)
LEMMA CommitInv ==
  ASSUME Inv, NEW p \in Procs, Commit(p) \/ CommitUnreported(p)
  PROVE  Inv'
<1>. USE FilesFact DEF Inv
<1>1. /\ pc[p] = "commit" /\ pos[p] \in Files
      /\ applied' = applied \cup {Version(p)}
      /\ ran' = [ran EXCEPT ![pos[p]] = @ + 1]
      /\ table' = table
  BY DEF Commit, CommitUnreported, TakeEffect, TypeOK
<1>2. /\ \A q \in Procs \ {p} : /\ pc'[q] = pc[q]
                               /\ pos'[q] = pos[q] /\ known'[q] = known[q]
      /\ \/ pc'[p] = "next" /\ pos'[p] = pos[p] + 1 /\ known'[p] = known[p]
         \/ pc'[p] = "down" /\ pos'[p] = 1 /\ known'[p] = {}
  BY DEF Commit, CommitUnreported, Goto, Exit, TypeOK
<1>3. TypeOK'
  <2>1. applied' \subseteq {Versions[i] : i \in Files}
    BY <1>1 DEF TypeOK, Version
  <2>2. ran' \in [Files -> Nat]
    BY <1>1 DEF TypeOK
  <2>3. pc' \in [Procs -> States]
    BY DEF Commit, CommitUnreported, Goto, Exit, TypeOK, States
  <2>4. pos' \in [Procs -> 1 .. Len(Versions) + 1]
    BY <1>1 DEF Commit, CommitUnreported, Exit, TypeOK
  <2>5. known' \in [Procs -> SUBSET {Versions[i] : i \in Files}]
    BY DEF Commit, CommitUnreported, Exit, TypeOK
  <2>6. known' \in [Procs -> SUBSET {Versions[i] : i \in Files}] /\ table' \in BOOLEAN
    BY <1>1, <2>5 DEF TypeOK
  <2>7. \A q \in Procs :
          /\ pc'[q] \in {"exec", "insert", "commit"} => pos'[q] \in Files
          /\ pc'[q] \in {"read", "next", "exec", "insert", "commit", "ready"} => table'
    BY <1>1, <1>2 DEF TypeOK
  <2>. QED
    BY <2>1, <2>2, <2>3, <2>4, <2>6, <2>7 DEF TypeOK
<1>4. Version(p) \notin applied
  BY <1>1 DEF Exclusive
<1>5. \A i \in Files : Versions[i] = Version(p) => ran[i] = 0
  <2>. SUFFICES ASSUME NEW i \in Files, Versions[i] = Version(p)
                PROVE  ran[i] = 0
    OBVIOUS
  <2>1. ran[i] \in Nat /\ ran[i] <= 1
    BY DEF TypeOK, ExactlyOnce
  <2>2. ran[i] # 1
    BY <1>4 DEF ExactlyOnce
  <2>. QED
    BY <2>1, <2>2
<1>6. \A i \in Files : ran'[i] = IF i = pos[p] THEN 1 ELSE ran[i]
  BY <1>1, <1>5 DEF TypeOK, Version
<1>7. ExactlyOnce'
  BY <1>1, <1>6 DEF ExactlyOnce, Version
<1>8. InOrder'
  <2>. SUFFICES ASSUME NEW i \in Files, NEW j \in Files, Versions[i] < Versions[j],
                       Versions[j] \in applied'
                PROVE  Versions[i] \in applied'
    BY DEF InOrder
  <2>1. CASE Versions[j] \in applied
    BY <1>1, <2>1 DEF InOrder
  <2>2. CASE Versions[j] = Version(p)
    <3>1. i < pos[p]
      BY <1>1, <2>2, VersionsAssumption DEF Version
    <3>. QED
      BY <1>1, <3>1 DEF Passed
  <2>. QED
    BY <1>1, <2>1, <2>2
<1>9. Exclusive'
  BY <1>1, <1>2 DEF Exclusive, Version
<1>10. Passed'
  <2>1. \A q \in Procs : known'[q] \subseteq applied'
    BY <1>1, <1>2 DEF Passed
  <2>2. \A q \in Procs, i \in Files : i < pos'[q] => Versions[i] \in applied'
    <3>. SUFFICES ASSUME NEW q \in Procs, NEW i \in Files, i < pos'[q]
                  PROVE  Versions[i] \in applied'
      OBVIOUS
    <3>1. i < pos[q] \/ i = pos[p]
      BY <1>1, <1>2 DEF TypeOK
    <3>. QED
      BY <1>1, <3>1 DEF Passed, Version
  <2>3. \A q \in Procs : pc'[q] = "ready" => pos'[q] \notin Files
    BY <1>2 DEF Passed
  <2>. QED
    BY <2>1, <2>2, <2>3 DEF Passed
<1>. QED
  BY <1>3, <1>7, <1>8, <1>9, <1>10

-----------------------------------------------------------------------------
LEMMA InitInv == Init => Inv
<1>. SUFFICES ASSUME Init PROVE Inv
  OBVIOUS
<1>. USE FilesFact DEF Init
<1>1. TypeOK
  <2>1. table \in BOOLEAN
    OBVIOUS
  <2>4. /\ ran \in [Files -> Nat]
        /\ pc \in [Procs -> States] /\ pos \in [Procs -> 1 .. Len(Versions) + 1]
    BY DEF States
  <2>2. /\ applied \subseteq {Versions[i] : i \in Files}
        /\ known \in [Procs -> SUBSET {Versions[i] : i \in Files}]
    OBVIOUS
  <2>3. \A p \in Procs : pc[p] = "down"
    OBVIOUS
  <2>. QED
    BY <2>1, <2>2, <2>3, <2>4 DEF TypeOK
<1>2. \A p \in Procs, i \in Files : ~(i < pos[p])
  OBVIOUS
<1>. QED
  BY <1>1, <1>2 DEF Inv, ExactlyOnce, InOrder, Exclusive, Passed

(* The steps of Run that change nothing in the database but the table. *)
LEMMA RunInv ==
  ASSUME Inv, NEW p \in Procs,
         \/ Start(p) \/ EnsureMigrationsTable(p) \/ AppliedVersions(p)
         \/ Skip(p) \/ Begin(p) \/ Done(p) \/ Exec(p) \/ Insert(p)
  PROVE  Inv'
<1>. USE FilesFact DEF Inv, Goto
<1>1. CASE Start(p) \/ EnsureMigrationsTable(p) \/ Begin(p) \/ Exec(p)
  <2>1. TypeOK'
    BY <1>1 DEF Start, EnsureMigrationsTable, Begin, Exec, TypeOK, States, databaseVars
  <2>2. PICK label \in {"table", "read", "exec", "insert"} :
          pc' = [pc EXCEPT ![p] = label]
    BY <1>1 DEF Start, EnsureMigrationsTable, Begin, Exec
  <2>3. UNCHANGED <<applied, ran, pos, known>>
    BY <1>1 DEF Start, EnsureMigrationsTable, Begin, Exec, databaseVars
  <2>. QED
    BY <2>1, <2>2, <2>3, QuietInv DEF Passed
<1>2. CASE AppliedVersions(p)
  <2>1. TypeOK'
    BY <1>2 DEF AppliedVersions, TypeOK, States, databaseVars
  <2>2. known'[p] = applied /\ \A q \in Procs \ {p} : known'[q] = known[q]
    BY <1>2 DEF AppliedVersions, TypeOK
  <2>. QED
    BY <1>2, <2>1, <2>2, QuietInv DEF AppliedVersions, Passed, databaseVars
<1>3. CASE Skip(p)
  <2>1. TypeOK'
    BY <1>3 DEF Skip, TypeOK, databaseVars
  <2>2. /\ pos[p] \in Files /\ Version(p) \in applied
        /\ pos'[p] = pos[p] + 1 /\ \A q \in Procs \ {p} : pos'[q] = pos[q]
    BY <1>3 DEF Skip, Passed, TypeOK
  <2>3. \A i \in Files : i < pos'[p] => Versions[i] \in applied
    <3>1. \A i \in Files : i < pos'[p] => i < pos[p] \/ i = pos[p]
      BY <2>2
    <3>. QED
      BY <2>2, <3>1 DEF Passed, Version
  <2>4. pc' = [pc EXCEPT ![p] = "next"]
    BY <1>3 DEF Skip, TypeOK
  <2>. QED
    BY <1>3, <2>1, <2>2, <2>3, <2>4, QuietInv DEF Skip, Passed, databaseVars
<1>4. CASE Done(p)
  <2>1. TypeOK'
    BY <1>4 DEF Done, TypeOK, States, databaseVars
  <2>. QED
    BY <1>4, <2>1, QuietInv DEF Done, Passed, databaseVars
<1>5. CASE Insert(p)
  <2>1. TypeOK'
    BY <1>5 DEF Insert, TypeOK, States, databaseVars
  <2>2. \A q \in Procs : pc[q] = "commit" => Version(q) # Version(p)
    BY <1>5 DEF Insert, Held
  <2>. QED
    BY <1>5, <2>1, <2>2, QuietInv DEF Insert, Passed, databaseVars
<1>. QED
  BY <1>1, <1>2, <1>3, <1>4, <1>5

LEMMA MigrateInv == Spec => []Inv
<1>1. Inv /\ [Next]_vars => Inv'
  <2>. SUFFICES ASSUME Inv, [Next]_vars PROVE Inv'
    OBVIOUS
  <2>1. ASSUME NEW p \in Procs, InsertRefused(p) \/ Fails(p) \/ Crash(p)
        PROVE  Inv'
    BY <2>1, ExitInv DEF InsertRefused, Fails, Crash
  <2>2. CASE UNCHANGED vars
    BY <2>2 DEF vars, Inv, TypeOK, ExactlyOnce, InOrder, Exclusive, Passed, Version
  <2>. QED
    BY <2>1, <2>2, RunInv, CommitInv DEF Next, Works, Breaks
<1>. QED
  BY InitInv, <1>1, PTL DEF Spec

-----------------------------------------------------------------------------
(* Processes are at a file of the directory while they apply one, and the  *)
(* table of versions is there (migrate.go, Run).                           *)
THEOREM MigrateTypeOK == Spec => []TypeOK
BY MigrateInv, PTL DEF Inv

(* The SQL of a file and the record of its version take effect together,   *)
(* and at most once (migrate.go, applyOne).                                *)
THEOREM MigrateExactlyOnce == Spec => []ExactlyOnce
BY MigrateInv, PTL DEF Inv

(* Versions are recorded from the lowest to the highest (migrate.go, the   *)
(* sort and the loop of Run).                                              *)
THEOREM MigrateInOrder == Spec => []InOrder
BY MigrateInv, PTL DEF Inv

(* If no two files have the same number, every file has taken effect when  *)
(* Run returns without an error, whoever applied it (migrate.go, Run).     *)
THEOREM MigrateEveryFileRuns ==
  ASSUME \A i, j \in Files : Versions[i] = Versions[j] => i = j
  PROVE  Spec => []EveryFileRuns
<1>1. Inv => EveryFileRuns
  <2>. SUFFICES ASSUME Inv, NEW p \in Procs, pc[p] = "ready", NEW i \in Files
                PROVE  ran[i] = 1
    BY DEF EveryFileRuns
  <2>1. i < pos[p]
    BY FilesFact DEF Inv, Passed, TypeOK
  <2>2. Versions[i] \in applied
    BY <2>1 DEF Inv, Passed
  <2>3. PICK j \in Files : Versions[j] = Versions[i] /\ ran[j] = 1
    BY <2>2 DEF Inv, ExactlyOnce
  <2>. QED
    BY <2>3
<1>. QED
  BY MigrateInv, <1>1, PTL

-----------------------------------------------------------------------------
(* The steps that Ledger sees. *)
Serving == {p \in Procs : pc[p] = "ready"}

(* A version that is recorded has been reached. *)
LEMMA RecordedReached ==
  ASSUME Inv, NEW i \in Files, Versions[i] \in applied
  PROVE  Promise!Reached(Versions[i])
<1>1. PICK j \in Files : Versions[j] = Versions[i] /\ ran[j] = 1
  BY DEF Inv, ExactlyOnce
<1>. QED
  BY <1>1 DEF Promise!Reached, Promise!Files, Files

LEMMA CommitApplies ==
  ASSUME Inv, NEW p \in Procs, Commit(p) \/ CommitUnreported(p)
  PROVE  Promise!Apply(pos[p])
<1>. USE FilesFact DEF Inv
<1>1. pc[p] = "commit" /\ pos[p] \in Files /\ ran' = [ran EXCEPT ![pos[p]] = @ + 1]
  BY DEF Commit, CommitUnreported, TakeEffect, TypeOK
<1>2. \A i \in Files : Versions[i] = Version(p) => ran[i] # 1
  BY <1>1 DEF Exclusive, ExactlyOnce
<1>3. ~Promise!Reached(Versions[pos[p]])
  BY <1>2 DEF Promise!Reached, Promise!Files, Files, Version
<1>4. ASSUME NEW i \in Files, Versions[i] < Versions[pos[p]]
      PROVE  Promise!Reached(Versions[i])
  <2>1. i < pos[p]
    BY <1>1, <1>4, VersionsAssumption
  <2>. QED
    BY <2>1, RecordedReached DEF Passed
<1>5. ran' = [ran EXCEPT ![pos[p]] = 1]
  <2>1. ran[pos[p]] \in Nat /\ ran[pos[p]] <= 1 /\ ran[pos[p]] # 1
    BY <1>1, <1>2 DEF TypeOK, ExactlyOnce, Version
  <2>2. ran[pos[p]] + 1 = 1
    BY <2>1
  <2>. QED
    BY <1>1, <2>2
<1>6. Serving' = Serving
  BY <1>1 DEF Commit, CommitUnreported, Goto, Exit, TypeOK, Serving
<1>. QED
  BY <1>3, <1>4, <1>5, <1>6 DEF Promise!Apply, Promise!Files, Files, Serving

(* What it has come to the end of, a process has found recorded. *)
LEMMA DoneServes ==
  ASSUME Inv, NEW p \in Procs, Done(p)
  PROVE  Promise!Serve(p)
<1>1. \A i \in Files : i < pos[p]
  BY FilesFact DEF Done, Inv, TypeOK
<1>2. \A i \in Files : Promise!Reached(Versions[i])
  BY <1>1, RecordedReached DEF Inv, Passed
<1>3. Serving' = Serving \cup {p}
  BY DEF Done, Goto, Inv, TypeOK, Serving
<1>. QED
  BY <1>2, <1>3 DEF Done, databaseVars, Promise!Serve, Promise!Files, Files, Serving

LEMMA StepLedger ==
  ASSUME Inv, [Next]_vars
  PROVE  [Promise!Next]_(Promise!ledgerVars)
<1>. USE DEF Promise!Next
<1>1. ASSUME NEW p \in Procs, Commit(p) \/ CommitUnreported(p)
      PROVE  Promise!Next
  <2>1. pos[p] \in Promise!Files
    BY <1>1 DEF Commit, CommitUnreported, Inv, TypeOK, Promise!Files, Files
  <2>. QED
    BY <1>1, <2>1, CommitApplies
<1>2. ASSUME NEW p \in Procs, Done(p)
      PROVE  Promise!Next
  BY <1>2, DoneServes
<1>3. ASSUME NEW p \in Procs, InsertRefused(p) \/ Fails(p) \/ Crash(p)
      PROVE  Promise!Next
  <2>1. Serving' = Serving \ {p} /\ ran' = ran
    BY <1>3 DEF InsertRefused, Fails, Crash, Exit, databaseVars, Inv, TypeOK, Serving
  <2>2. Promise!Stop(p)
    BY <2>1 DEF Promise!Stop, Serving
  <2>. QED
    BY <2>2
<1>4. ASSUME NEW p \in Procs,
             \/ Start(p) \/ EnsureMigrationsTable(p) \/ AppliedVersions(p)
             \/ Skip(p) \/ Begin(p) \/ Exec(p) \/ Insert(p)
      PROVE  UNCHANGED Promise!ledgerVars
  <2>1. ran' = ran /\ pc[p] # "ready"
    BY <1>4
    DEF Start, EnsureMigrationsTable, AppliedVersions, Skip, Begin, Exec, Insert,
        databaseVars
  <2>2. PICK label \in States \ {"ready"} : pc' = [pc EXCEPT ![p] = label]
    BY <1>4
    DEF Start, EnsureMigrationsTable, AppliedVersions, Skip, Begin, Exec, Insert,
        Goto, States, Inv, TypeOK
  <2>3. Serving' = Serving
    BY <2>1, <2>2 DEF Serving, Inv, TypeOK
  <2>. QED
    BY <2>1, <2>3 DEF Promise!ledgerVars, Serving
<1>5. CASE UNCHANGED vars
  BY <1>5 DEF vars, Promise!ledgerVars
<1>. QED
  BY <1>1, <1>2, <1>3, <1>4, <1>5 DEF Next, Works, Breaks

(* The runner, for any number of processes that race, fail and die, and    *)
(* any files, implements Ledger: of every version one file takes effect,   *)
(* in order and for good, before anything serves (migrate.go, Run).        *)
THEOREM MigrateKeepsLedger == Spec => KeepsLedger
<1>1. Init => Promise!Init
  BY DEF Init, Promise!Init, Promise!Files, Files
<1>. QED
  BY <1>1, MigrateInv, StepLedger, PTL
  DEF Spec, KeepsLedger, Promise!Spec
=============================================================================
