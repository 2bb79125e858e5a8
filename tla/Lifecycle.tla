------------------------------ MODULE Lifecycle ------------------------------
(***************************************************************************)
(* The life of a server process (cmd/server/main.go): it boots step by     *)
(* step and exits at the first error, listens, and after a SIGTERM waits   *)
(* for the requests in progress before it exits. Docker sends the signal,  *)
(* kills the process when its own patience is over, and starts it again    *)
(* (docker-compose.yml). What is counted is time: what a request may take, *)
(* and what it is given when the process ends.                             *)
(***************************************************************************)
EXTENDS Sequences, Functions, Integers

CONSTANTS
  Requests,       \* the requests that may be in progress at once
  Queries,        \* what requests there are: their numbers of queries
  BootSteps,      \* what main does before it listens, in its order
  ReadTimeout,    \* of the http.Server: a request's body has arrived by then
  DbTimeout,      \* dbTimeout of the service: a query is over by then
  DrainTimeout,   \* the context that Shutdown is given
  Grace           \* Docker's patience between SIGTERM and SIGKILL

ASSUME LifecycleAssumption ==
  /\ Queries \subseteq Nat
  /\ BootSteps \in Seq(STRING) /\ BootSteps # <<>>
  /\ Range(BootSteps) \cap {"down", "serving", "deaf", "draining"} = {}
  /\ {ReadTimeout, DbTimeout, DrainTimeout, Grace} \subseteq Nat

VARIABLES
  proc,    \* "down", the boot step to do next, "serving", "deaf" or "draining"
  wanted,  \* has Docker been told to keep it running?
  stage,   \* stage[r]: where request r is
  clock,   \* the time since the signal
  due      \* history: the most that r had left to do when the signal came

vars == <<proc, wanted, stage, clock, due>>

(* queries: the ones still to do; spent: the time in this stage. *)
Gone == [at |-> "gone", queries |-> 0, spent |-> 0]
Stages == [at : {"gone", "body", "query"}, queries : Nat, spent : Nat]

TypeOK ==
  /\ proc \in Range(BootSteps) \cup {"down", "serving", "deaf", "draining"}
  /\ wanted \in BOOLEAN
  /\ stage \in [Requests -> Stages]
  /\ clock \in Nat
  /\ due \in [Requests -> Nat]
  /\ \A r \in Requests : stage[r] # Gone => proc \in {"serving", "deaf", "draining"}

In(r, s) == stage[r].at = s

(* A wrong variant of Limit: a query without a deadline of its own. *)
LimitOfBody(r) == IF In(r, "body") THEN ReadTimeout ELSE DrainTimeout

(* What r's present stage may take. *)
Limit(r) == IF In(r, "body") THEN ReadTimeout ELSE DbTimeout

(* The most that r can still take. *)
Left(r) ==
  CASE In(r, "gone")  -> 0
    [] In(r, "body")  -> ReadTimeout - stage[r].spent + stage[r].queries * DbTimeout
    [] In(r, "query") -> stage[r].queries * DbTimeout - stage[r].spent

(* The process is gone, and its connections are closed. *)
End ==
  /\ proc' = "down"
  /\ stage' = [r \in Requests |-> Gone]
  /\ clock' = 0
  /\ due' = [r \in Requests |-> 0]

-----------------------------------------------------------------------------
(* Wrong variants of operations below, in no specification. *)

(* main does not wait for Shutdown to return. *)
ExitAtOnce == proc = "draining" /\ End /\ UNCHANGED wanted

(* A boot step that failed is waited for. *)
BootFailsAndWaits(i) ==
  /\ proc = BootSteps[i]
  /\ proc' = "waiting"
  /\ UNCHANGED <<wanted, stage, clock, due>>

(* The signal is looked for where requests are served. *)
SignalUnheard ==
  /\ proc # "draining" /\ wanted
  /\ wanted' = FALSE
  /\ IF proc = "serving"
       THEN proc' = "draining" /\ due' = [r \in Requests |-> Left(r)]
       ELSE proc' = (IF proc = "deaf" THEN "deaf" ELSE "down") /\ UNCHANGED due
  /\ UNCHANGED <<stage, clock>>

-----------------------------------------------------------------------------
Init ==
  /\ proc = "down" /\ wanted = TRUE
  /\ stage = [r \in Requests |-> Gone]
  /\ clock = 0
  /\ due = [r \in Requests |-> 0]

(* restart: unless-stopped *)
Start ==
  /\ proc = "down" /\ wanted
  /\ proc' = BootSteps[1]
  /\ UNCHANGED <<wanted, stage, clock, due>>

(* configs.Load, db.Open, migrate.Run, SeedIfEmpty, each of which may fail;  *)
(* after the last of them a goroutine listens.                               *)
BootStep(i) ==
  /\ proc = BootSteps[i]
  /\ proc' = IF i < Len(BootSteps) THEN BootSteps[i + 1] ELSE "serving"
  /\ UNCHANGED <<wanted, stage, clock, due>>

(* os.Exit(1) *)
BootFails(i) == proc = BootSteps[i] /\ End /\ UNCHANGED wanted

(* ListenAndServe returns an error, at once or later. It is logged, and     *)
(* main goes on waiting for a signal.                                       *)
ListenFails ==
  /\ proc \in {BootSteps[Len(BootSteps)], "serving"}
  /\ proc' = "deaf"
  /\ UNCHANGED <<wanted, stage, clock, due>>

-----------------------------------------------------------------------------
(* A request with a body, or one without. *)
Accept(r, s, n) ==
  /\ proc = "serving" /\ In(r, "gone")
  /\ s = "body" \/ n > 0
  /\ stage' = [stage EXCEPT ![r] = [at |-> s, queries |-> n, spent |-> 0]]
  /\ UNCHANGED <<proc, wanted, clock, due>>

(* The body has arrived or its time is up, or a query has returned or timed *)
(* out: the handler goes on with its next query, or answers.                *)
Proceed(r) ==
  /\ ~In(r, "gone")
  /\ LET n == IF In(r, "body") THEN stage[r].queries ELSE stage[r].queries - 1
     IN stage' = [stage EXCEPT ![r] =
                    IF n = 0 THEN Gone ELSE [at |-> "query", queries |-> n, spent |-> 0]]
  /\ UNCHANGED <<proc, wanted, clock, due>>

-----------------------------------------------------------------------------
(* docker stop. During the boot nothing handles the signal. *)
Signal ==
  /\ proc # "draining" /\ wanted
  /\ wanted' = FALSE
  /\ IF proc \in {"serving", "deaf"}
       THEN /\ proc' = "draining"
            /\ due' = [r \in Requests |-> Left(r)]
            /\ UNCHANGED <<stage, clock>>
       ELSE End

(* Shutdown returns when nothing is in progress or its context ends. *)
Exit ==
  /\ proc = "draining"
  /\ clock = DrainTimeout \/ \A r \in Requests : In(r, "gone")
  /\ End
  /\ UNCHANGED wanted

(* SIGKILL *)
Kill ==
  /\ proc = "draining" /\ clock = Grace
  /\ End
  /\ UNCHANGED wanted

(* The process dies by itself, and is started again. *)
Crash ==
  /\ proc # "down"
  /\ End
  /\ UNCHANGED wanted

(* docker compose up *)
Up ==
  /\ proc = "down" /\ ~wanted
  /\ wanted' = TRUE
  /\ UNCHANGED <<proc, stage, clock, due>>

(* The deadlines are kept. *)
Tick ==
  /\ \A r \in Requests : ~In(r, "gone") => stage[r].spent < Limit(r)
  /\ proc = "draining" => clock < DrainTimeout /\ clock < Grace
  /\ proc = "draining" \/ \E r \in Requests : ~In(r, "gone")
  /\ stage' = [r \in Requests |->
                 IF In(r, "gone") THEN Gone ELSE [stage[r] EXCEPT !.spent = @ + 1]]
  /\ clock' = IF proc = "draining" THEN clock + 1 ELSE clock
  /\ UNCHANGED <<proc, wanted, due>>

Works ==
  \/ Start
  \/ \E i \in DOMAIN BootSteps : BootStep(i)
  \/ \E r \in Requests : Proceed(r)
  \/ Exit
  \/ Kill

Next ==
  \/ Works
  \/ Tick
  \/ \E i \in DOMAIN BootSteps : BootFails(i)
  \/ ListenFails
  \/ \E r \in Requests, n \in Queries : \E s \in {"body", "query"} : Accept(r, s, n)
  \/ Signal
  \/ Crash
  \/ Up

Spec == Init /\ [][Next]_vars

(* The process goes on and time passes; requests need not come, and        *)
(* nothing has to fail.                                                    *)
FairSpec == Spec /\ WF_vars(Works) /\ WF_vars(Tick)

-----------------------------------------------------------------------------
(* The time that a request in progress can count on after the signal. *)
Promised == IF Grace < DrainTimeout THEN Grace ELSE DrainTimeout

(* The end of the process, unless it dies, cuts off no request that had    *)
(* less to do when the signal came than it can count on, whatever its      *)
(* queries cost and whatever else is in progress (main.go, Shutdown;       *)
(* service.go, dbTimeout; docker-compose.yml, which leaves Docker its      *)
(* patience of 10 s, less than the 15 s of main.go).                       *)
CutOnlyIfSlow ==
  [][Exit \/ Kill =>
       \A r \in Requests : ~In(r, "gone") => due[r] >= Promised]_vars

(* A process that is asked to end does, in whatever it is and also if it   *)
(* serves nothing any more (main.go, signal.Notify and the receive from    *)
(* quit; the deadlines of requests and of Shutdown).                       *)
SignalEnds == ~wanted ~> proc = "down"

Disturbed == Signal \/ Crash \/ \E i \in DOMAIN BootSteps : BootFails(i)

(* Once boot steps stop failing and nobody stops the process, it serves,   *)
(* or is one whose ListenAndServe has failed at some time: that is the     *)
(* only way to be up for ever and serve nothing (main.go, the goroutine    *)
(* that listens, and the exits of main).                                   *)
ServesOrDeaf ==
  <>[][~Disturbed]_vars /\ <>[]wanted => <>[](proc \in {"serving", "deaf"})
=============================================================================
