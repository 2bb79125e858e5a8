------------------------------ MODULE Replace ------------------------------
(***************************************************************************)
(* The writes of internal/repository/repository.go that replace a table:   *)
(* UpdateHeroSlides, UpdateStats, UpdateServices, UpdateNews,              *)
(* UpdatePartners and UpdateLanguages, each a transaction of a DELETE      *)
(* without condition and one INSERT per row. Several requests may run one  *)
(* at once on the same table.                                              *)
(*                                                                         *)
(* PostgreSQL is modelled as the code relies on it, at its default level   *)
(* READ COMMITTED. A DELETE sees the rows committed before the statement   *)
(* and waits for any of them that an open transaction has deleted; rows    *)
(* committed later it does not see. An INSERT of a primary key waits for   *)
(* an open transaction that has inserted or deleted the key, and fails if  *)
(* a committed row has it. A statement that fails undoes the transaction   *)
(* and lets its locks go; one of the transactions that wait for each other *)
(* in a cycle is made to fail.                                             *)
(***************************************************************************)
EXTENDS Integers

CONSTANTS
  Writers,  \* the replacements, each made once
  Initial,  \* what filled the table before all of them
  Body      \* Body[w]: the sort_orders or codes of the rows w inserts

ASSUME BodyAssumption ==
  /\ Initial \notin Writers
  /\ Writers \cup {Initial} \subseteq DOMAIN Body

Keys == UNION {Body[w] : w \in Writers \cup {Initial}}

Row == (Writers \cup {Initial}) \X Keys

VARIABLES
  table,    \* the table all the writers replace: one of Tables
  rows,     \* its committed rows, each a pair of its writer and its key
  pc,       \* pc[w]: where replacement w is
  snap,     \* snap[w]: the rows that its DELETE sees
  deleted,  \* deleted[w]: the rows its open transaction has deleted
  todo,     \* todo[w]: the keys of the rows it has still to insert
  key,      \* key[w]: the key (at most one) that its INSERT is waiting with
  added,    \* added[w]: the keys of the rows its open transaction inserted
  older,    \* history: older[w]: the rows that were there when w began
  broken    \* history: has a statement failed that no other writer is to
            \* blame for, or an answer been lost?

txVars == <<snap, deleted, todo, key, added>>
historyVars == <<older, broken>>
vars == <<table, rows, pc, txVars, historyVars>>

(* The slides' update returns at the first error; the others go on to the  *)
(* commit. Only languages has a primary key among its own columns.         *)
Tables == {"hero_slides", "stats", "languages"}
Checks == table = "hero_slides"
Keyed  == table = "languages"

TypeOK ==
  /\ table \in Tables
  /\ rows \subseteq Row
  /\ pc \in [Writers -> {"new", "delete", "wait", "row", "insert", "refused",
                         "saved", "failed"}]
  /\ snap \in [Writers -> SUBSET Row]
  /\ deleted \in [Writers -> SUBSET Row]
  /\ todo \in [Writers -> SUBSET Keys]
  /\ key \in [Writers -> SUBSET Keys]
  /\ added \in [Writers -> SUBSET Keys]
  /\ older \in [Writers -> SUBSET Row]
  /\ broken \in BOOLEAN
  /\ \A w \in Writers :
       IF pc[w] \in {"row", "insert"}
         THEN /\ deleted[w] \subseteq rows
              /\ Body[w] = todo[w] \cup key[w] \cup added[w]
              /\ pc[w] = "row" <=> key[w] = {}
         ELSE deleted[w] = {} /\ key[w] = {} /\ added[w] = {}

Goto(w, label) == pc' = [pc EXCEPT ![w] = label]

RowsOf(w) == {<<w, k>> : k \in Body[w]}

(* The transaction of w is over or undone, with its locks. *)
LetGo(w) ==
  /\ snap' = [snap EXCEPT ![w] = {}]
  /\ deleted' = [deleted EXCEPT ![w] = {}]
  /\ todo' = [todo EXCEPT ![w] = {}]
  /\ key' = [key EXCEPT ![w] = {}]
  /\ added' = [added EXCEPT ![w] = {}]

-----------------------------------------------------------------------------
(* Wrong variants of operations below, which the checked properties must   *)
(* tell from the right ones. They are part of no specification.            *)

(* The error of a DELETE or an INSERT is ignored, and the statement is not *)
(* in a transaction that it could spoil.                                   *)
AbortOneStatement(w) ==
  /\ key' = [key EXCEPT ![w] = {}]
  /\ Goto(w, "row")
  /\ UNCHANGED <<table, rows, snap, deleted, todo, added, older>>

(* The handler returns without the Rollback, the transaction staying open. *)
AbortLeaks(w) == Goto(w, "failed") /\ UNCHANGED <<table, rows, txVars, older>>

(* The failed statement is tried again, its transaction staying open. *)
AbortRetries(w) == UNCHANGED <<table, rows, pc, txVars, older>>

(* The rows are inserted beside the old ones. *)
DeleteNothing(w) ==
  /\ pc[w] = "wait"
  /\ todo' = [todo EXCEPT ![w] = Body[w]]
  /\ Goto(w, "row")
  /\ UNCHANGED <<table, rows, snap, deleted, key, added, historyVars>>

(* UpdateLanguages has no DELETE. *)
DeleteNotLanguages(w) ==
  /\ pc[w] = "wait"
  /\ Keyed \/ \A q \in Writers \ {w} : deleted[q] \cap snap[w] = {}
  /\ deleted' = [deleted EXCEPT ![w] = IF Keyed THEN {} ELSE snap[w] \cap rows]
  /\ todo' = [todo EXCEPT ![w] = Body[w]]
  /\ Goto(w, "row")
  /\ UNCHANGED <<table, rows, snap, key, added, historyVars>>

-----------------------------------------------------------------------------
Init ==
  /\ table \in Tables
  /\ rows \in {{}, RowsOf(Initial)}
  /\ pc = [w \in Writers |-> "new"]
  /\ snap = [w \in Writers |-> {}]
  /\ deleted = [w \in Writers |-> {}]
  /\ todo = [w \in Writers |-> {}]
  /\ key = [w \in Writers |-> {}]
  /\ added = [w \in Writers |-> {}]
  /\ older = [w \in Writers |-> {}]
  /\ broken = FALSE

Begin(w) ==
  /\ pc[w] = "new"
  /\ Goto(w, "delete")
  /\ older' = [older EXCEPT ![w] = rows]
  /\ UNCHANGED <<table, rows, txVars, broken>>

DeleteSees(w) ==
  /\ pc[w] = "delete"
  /\ snap' = [snap EXCEPT ![w] = rows]
  /\ Goto(w, "wait")
  /\ UNCHANGED <<table, rows, deleted, todo, key, added, historyVars>>

(* The transactions whose end the DELETE of w waits for. *)
DeleteBlockers(w) == {q \in Writers \ {w} : deleted[q] \cap snap[w] # {}}

(* It gets all its rows at once, when no other transaction has any of them. *)
Delete(w) ==
  /\ pc[w] = "wait"
  /\ DeleteBlockers(w) = {}
  /\ deleted' = [deleted EXCEPT ![w] = snap[w] \cap rows]
  /\ todo' = [todo EXCEPT ![w] = Body[w]]
  /\ Goto(w, "row")
  /\ UNCHANGED <<table, rows, snap, key, added, historyVars>>

(* The loop takes the next row; the order matters only for languages,      *)
(* where it is the random order of a Go map.                               *)
NextRow(w) ==
  /\ pc[w] = "row"
  /\ \E k \in todo[w] :
       /\ key' = [key EXCEPT ![w] = {k}]
       /\ todo' = [todo EXCEPT ![w] = @ \ {k}]
  /\ Goto(w, "insert")
  /\ UNCHANGED <<table, rows, snap, deleted, added, historyVars>>

KeysOf(S) == {r[2] : r \in S}

(* The transactions whose end the INSERT of w waits for. *)
InsertBlockers(w) ==
  {q \in Writers \ {w} :
     Keyed /\ (added[q] \cup KeysOf(deleted[q])) \cap key[w] # {}}

(* A row that stays in the table has the primary key. *)
Taken(w) == Keyed /\ KeysOf(rows \ deleted[w]) \cap key[w] # {}

Insert(w) ==
  /\ pc[w] = "insert"
  /\ InsertBlockers(w) = {} /\ ~Taken(w)
  /\ added' = [added EXCEPT ![w] = @ \cup key[w]]
  /\ key' = [key EXCEPT ![w] = {}]
  /\ Goto(w, "row")
  /\ UNCHANGED <<table, rows, snap, deleted, todo, historyVars>>

(* A statement of w fails. Either the deferred Rollback is called at once, *)
(* or the statements that follow fail as well and the commit is refused.   *)
Abort(w) ==
  /\ LetGo(w)
  /\ Goto(w, IF Checks THEN "failed" ELSE "refused")
  /\ UNCHANGED <<table, rows, older>>

InsertRefused(w) ==
  /\ pc[w] = "insert"
  /\ InsertBlockers(w) = {} /\ Taken(w)
  /\ Abort(w)
  /\ UNCHANGED broken

(* tx.Commit returns an error, which is the answer. *)
CommitRefused(w) ==
  /\ pc[w] = "refused"
  /\ Goto(w, "failed")
  /\ UNCHANGED <<table, rows, txVars, historyVars>>

TakeEffect(w) ==
  /\ pc[w] = "row" /\ todo[w] = {}
  /\ rows' = (rows \ deleted[w]) \cup {<<w, k>> : k \in added[w]}
  /\ LetGo(w)
  /\ UNCHANGED <<table, older>>

Commit(w) ==
  /\ TakeEffect(w)
  /\ Goto(w, "saved")
  /\ UNCHANGED broken

(* The commit took effect and its answer was lost. *)
CommitUnreported(w) ==
  /\ TakeEffect(w)
  /\ Goto(w, "failed")
  /\ broken' = TRUE

(* A statement or the commit fails and nothing takes effect, or the 8      *)
(* seconds of dbTimeout are over, or the client is gone: its context ends, *)
(* and the transaction with it, also between two statements.               *)
Fails(w) ==
  /\ pc[w] \in {"delete", "wait", "row", "insert"}
  /\ Abort(w)
  /\ broken' = TRUE

-----------------------------------------------------------------------------
(* The transactions that must end before w can go on. *)
Blockers(w) ==
  CASE pc[w] = "wait"   -> DeleteBlockers(w)
    [] pc[w] = "insert" -> InsertBlockers(w)
    [] OTHER            -> {}

(* Those that w waits for, directly or through others: they are in every   *)
(* set that has the blockers of w and, with a writer, the blockers of it.  *)
WaitsFor(w) ==
  {q \in Writers :
     \A S \in SUBSET Writers :
       /\ Blockers(w) \subseteq S
       /\ \A p \in S : Blockers(p) \subseteq S
       => q \in S}

(* PostgreSQL chooses w to break a cycle. *)
DeadlockVictim(w) ==
  /\ pc[w] \in {"wait", "insert"} /\ w \in WaitsFor(w)
  /\ Abort(w)
  /\ UNCHANGED broken

-----------------------------------------------------------------------------
Works(w) ==
  \/ DeleteSees(w)
  \/ Delete(w)
  \/ NextRow(w)
  \/ Insert(w)
  \/ InsertRefused(w)
  \/ CommitRefused(w)
  \/ Commit(w)
  \/ DeadlockVictim(w)

Next ==
  \E w \in Writers : Begin(w) \/ Works(w) \/ CommitUnreported(w) \/ Fails(w)

Spec == Init /\ [][Next]_vars

(* A statement that can be executed is, and the handler goes on with its   *)
(* result; statements need not fail.                                       *)
FairSpec == Spec /\ \A w \in Writers : WF_vars(Works(w))

-----------------------------------------------------------------------------
Promise == INSTANCE Superseding
  WITH phase <- [w \in Writers |->
                   IF pc[w] \in {"new", "saved", "failed"} THEN pc[w] ELSE "active"]

(* The transactions of repository.go keep the promise of Superseding,      *)
(* those that ignore the errors of their statements too: what a GET may    *)
(* find in the table at any moment is made of whole bodies, and a saved    *)
(* replacement has removed all that was there when it began.               *)
KeepsPromise == Promise!Spec

(* Replacements that get in each other's way never all fail: unless        *)
(* something else goes wrong, one of them at least is saved, also of those *)
(* of languages that insert the same codes (repository.go,                 *)
(* UpdateLanguages, the primary key and the random order of its INSERTs).  *)
OneGetsThrough ==
  /\ \A w \in Writers : pc[w] \in {"saved", "failed"}
  /\ Writers # {} /\ ~broken
  => \E w \in Writers : pc[w] = "saved"

(* Whoever waits does so, directly or through others, for a transaction    *)
(* that is still there and can go on or be refused: the locks of one that  *)
(* is over are never in the way, and no wait is left that PostgreSQL would *)
(* not end (repository.go, the deferred Rollback of every Update and the   *)
(* INSERTs of UpdateLanguages in random order).                            *)
CanGoOn(w) ==
  /\ pc[w] \in {"wait", "row", "insert"}
  /\ Blockers(w) = {} \/ w \in WaitsFor(w)

WaitsEnd ==
  \A w \in Writers : Blockers(w) # {} => \E q \in WaitsFor(w) : CanGoOn(q)

(* A replacement that has begun is answered: no request waits for ever for *)
(* the rows of another, nor do two for each other (repository.go, the      *)
(* deferred Rollback of every Update).                                     *)
AllEnd ==
  \A w \in Writers : pc[w] = "delete" ~> pc[w] \in {"saved", "failed"}

(* public/admin.html, saveStats: "Stats saved" is announced of every       *)
(* replacement that was answered 200, so the table holds the list of one   *)
(* of them when all were.                                                  *)
SavedIsStored ==
  (\A w \in Writers : pc[w] = "saved") => \E w \in Writers : rows = RowsOf(w)
=============================================================================
