-------------------------- MODULE LifecycleProofs --------------------------
(***************************************************************************)
(* What a server process that ends cuts off, for any number of requests    *)
(* with any numbers of queries, any boot steps and any timeouts.           *)
(***************************************************************************)
EXTENDS Lifecycle, TLAPS

(* The deadlines are kept, and a stage with a query to do has one.         *)
StagesKept ==
  \A r \in Requests :
    /\ In(r, "gone") => stage[r] = Gone
    /\ In(r, "body") => stage[r].spent <= ReadTimeout
    /\ In(r, "query") => stage[r].queries > 0 /\ stage[r].spent <= DbTimeout

(* The clock runs while the process drains, and what a request has left to *)
(* do has become less by the time that it shows.                           *)
DrainKept ==
  /\ proc # "draining" => clock = 0
  /\ proc = "draining" =>
       \A r \in Requests : ~In(r, "gone") => Left(r) + clock <= due[r]

Inv == TypeOK /\ StagesKept /\ DrainKept

-----------------------------------------------------------------------------
LEMMA StepsFact ==
  /\ Len(BootSteps) \in Nat \ {0} /\ DOMAIN BootSteps = 1 .. Len(BootSteps)
  /\ \A i \in DOMAIN BootSteps :
       /\ BootSteps[i] \in Range(BootSteps)
       /\ BootSteps[i] \notin {"down", "serving", "deaf", "draining"}
<1>1. BootSteps \in Seq(STRING) /\ BootSteps # <<>>
  BY LifecycleAssumption
<1>2. DOMAIN BootSteps = 1 .. Len(BootSteps) /\ Len(BootSteps) \in Nat
  BY <1>1
<1>3. Len(BootSteps) # 0
  BY <1>1
<1>4. \A i \in DOMAIN BootSteps : BootSteps[i] \in Range(BootSteps)
  BY DEF Range
<1>. QED
  BY <1>2, <1>3, <1>4, LifecycleAssumption

LEMMA TimesFact ==
  /\ ReadTimeout \in Nat /\ DbTimeout \in Nat
  /\ DrainTimeout \in Nat /\ Grace \in Nat
BY LifecycleAssumption

(* Another query takes its time. *)
LEMMA OneMoreQuery ==
  ASSUME NEW n \in Nat
  PROVE  /\ n * DbTimeout \in Nat
         /\ n > 0 => n * DbTimeout = (n - 1) * DbTimeout + DbTimeout
BY TimesFact

(* What a request has left is never less than nothing. *)
LEMMA LeftTyped ==
  ASSUME Inv, NEW r \in Requests
  PROVE  Left(r) \in Nat
<1>. USE TimesFact
<1>1. stage[r] \in Stages
  BY DEF Inv, TypeOK
<1>2. stage[r].queries \in Nat /\ stage[r].spent \in Nat
      /\ stage[r].at \in {"gone", "body", "query"}
  BY <1>1 DEF Stages
<1>. DEFINE n == stage[r].queries
<1>3. n * DbTimeout \in Nat /\ (n > 0 => n * DbTimeout = (n - 1) * DbTimeout + DbTimeout)
  BY <1>2, OneMoreQuery
<1>4. n > 0 => (n - 1) * DbTimeout \in Nat
  BY <1>2, OneMoreQuery
<1>5. /\ In(r, "body") => stage[r].spent <= ReadTimeout
      /\ In(r, "query") => n > 0 /\ stage[r].spent <= DbTimeout
  BY DEF Inv, StagesKept
<1>6. CASE stage[r].at = "gone"
  BY <1>6 DEF Left, In
<1>7. CASE stage[r].at = "body"
  <2>1. Left(r) = ReadTimeout - stage[r].spent + n * DbTimeout
    BY <1>7 DEF Left, In
  <2>. HIDE DEF n
  <2>. QED
    BY <1>2, <1>3, <1>5, <1>7, <2>1 DEF In
<1>8. CASE stage[r].at = "query"
  <2>1. Left(r) = n * DbTimeout - stage[r].spent
    BY <1>8 DEF Left, In
  <2>2. n > 0 /\ stage[r].spent <= DbTimeout
    BY <1>5, <1>8 DEF In
  <2>. HIDE DEF n
  <2>. QED
    BY <1>2, <1>3, <1>4, <2>1, <2>2
<1>. QED
  BY <1>2, <1>6, <1>7, <1>8

-----------------------------------------------------------------------------
LEMMA EndInv ==
  ASSUME End, wanted' \in BOOLEAN
  PROVE  Inv'
<1>1. Gone \in Stages /\ Gone.at = "gone"
  BY DEF Gone, Stages
<1>2. \A r \in Requests : stage'[r] = Gone
  BY DEF End
<1>3. TypeOK'
  BY <1>1, <1>2 DEF End, TypeOK
<1>4. StagesKept' /\ DrainKept'
  BY <1>1, <1>2 DEF End, StagesKept, DrainKept, In
<1>. QED
  BY <1>3, <1>4 DEF Inv

LEMMA InitInv == Init => Inv
<1>. SUFFICES ASSUME Init PROVE Inv
  OBVIOUS
<1>1. Gone \in Stages /\ Gone.at = "gone"
  BY DEF Gone, Stages
<1>. QED
  BY <1>1 DEF Init, Inv, TypeOK, StagesKept, DrainKept, In

(* The process boots, serves or listens no more, and is not told to end. *)
LEMMA ProcInv ==
  ASSUME Inv, proc # "draining", UNCHANGED <<stage, clock, due>>,
         wanted' \in BOOLEAN,
         proc' \in Range(BootSteps) \cup {"down", "serving", "deaf"},
         proc \in {"serving", "deaf"} => proc' \in {"serving", "deaf"}
  PROVE  Inv'
<1>1. proc' # "draining"
  BY StepsFact DEF Range
<1>2. TypeOK'
  BY DEF Inv, TypeOK
<1>3. StagesKept' /\ DrainKept'
  BY <1>1 DEF Inv, StagesKept, DrainKept, In
<1>. QED
  BY <1>2, <1>3 DEF Inv

LEMMA AcceptInv ==
  ASSUME Inv, NEW r \in Requests, NEW n \in Queries, NEW s \in {"body", "query"},
         Accept(r, s, n)
  PROVE  Inv'
<1>. DEFINE new == [at |-> s, queries |-> n, spent |-> 0]
<1>1. n \in Nat /\ (s = "body" \/ n > 0) /\ proc = "serving"
  BY LifecycleAssumption DEF Accept
<1>2. /\ stage' = [stage EXCEPT ![r] = new]
      /\ UNCHANGED <<proc, wanted, clock, due>>
  BY DEF Accept
<1>3. /\ new \in Stages /\ new.at = s /\ new.queries = n /\ new.spent = 0
  BY <1>1 DEF Stages
<1>. HIDE DEF new
<1>4. TypeOK'
  BY <1>1, <1>2, <1>3 DEF Inv, TypeOK
<1>5. StagesKept'
  BY <1>1, <1>2, <1>3, TimesFact DEF Inv, TypeOK, StagesKept, In
<1>6. DrainKept'
  BY <1>1, <1>2 DEF Inv, DrainKept
<1>. QED
  BY <1>4, <1>5, <1>6 DEF Inv

(* Going on to the next query leaves no more to do than before. *)
LEMMA ProceedInv ==
  ASSUME Inv, NEW r \in Requests, Proceed(r)
  PROVE  Inv'
<1>. USE TimesFact
<1>. DEFINE n == IF In(r, "body") THEN stage[r].queries ELSE stage[r].queries - 1
            new == IF n = 0 THEN Gone ELSE [at |-> "query", queries |-> n, spent |-> 0]
<1>1. /\ stage' = [stage EXCEPT ![r] = new]
      /\ UNCHANGED <<proc, wanted, clock, due>>
      /\ ~In(r, "gone")
  BY DEF Proceed
<1>2. stage[r] \in Stages
  BY DEF Inv, TypeOK
<1>3. stage[r].queries \in Nat /\ stage[r].spent \in Nat
      /\ stage[r].at \in {"body", "query"}
  BY <1>1, <1>2 DEF Stages, In
<1>4. /\ In(r, "body") => stage[r].spent <= ReadTimeout
      /\ In(r, "query") => stage[r].queries > 0 /\ stage[r].spent <= DbTimeout
  BY DEF Inv, StagesKept
<1>5. n \in Nat
  BY <1>3, <1>4 DEF In
<1>6. /\ new \in Stages
      /\ \/ new = Gone /\ new.at = "gone"
         \/ new.at = "query" /\ new.queries = n /\ n > 0 /\ new.spent = 0
  <2>. HIDE DEF n
  <2>1. CASE n = 0
    BY <2>1 DEF Gone, Stages
  <2>2. CASE n # 0
    BY <1>5, <2>2 DEF Stages
  <2>. QED
    BY <2>1, <2>2
<1>7. stage'[r] = new /\ \A q \in Requests \ {r} : stage'[q] = stage[q]
  BY <1>1 DEF Inv, TypeOK
<1>8. TypeOK'
  <2>1. stage[r] # Gone
    BY <1>1 DEF In, Gone
  <2>2. proc \in {"serving", "deaf", "draining"}
    BY <2>1 DEF Inv, TypeOK
  <2>. HIDE DEF new
  <2>. QED
    BY <1>1, <1>6, <2>2 DEF Inv, TypeOK
<1>9. StagesKept'
  <2>. HIDE DEF new
  <2>. QED
    BY <1>6, <1>7 DEF Inv, StagesKept, In
<1>10. ASSUME proc = "draining", NEW q \in Requests, ~In(q, "gone")'
       PROVE  Left(q)' + clock <= due[q]
  <2>1. CASE q # r
    BY <1>7, <1>10, <2>1 DEF Inv, DrainKept, Left, In
  <2>2. CASE q = r
    <3>1. Left(r)' = n * DbTimeout
      <4>. HIDE DEF n
      <4>1. new.at = "query" /\ new.queries = n /\ new.spent = 0
        BY <1>6, <1>7, <1>10, <2>2 DEF In
      <4>. HIDE DEF new
      <4>2. Left(r)' = n * DbTimeout - 0
        BY <1>7, <4>1 DEF Left, In
      <4>. QED
        BY <1>5, <4>2, OneMoreQuery
    <3>2. n * DbTimeout <= Left(r)
      <4>1. CASE stage[r].at = "body"
        <5>1. n = stage[r].queries
          BY <4>1 DEF In
        <5>2. Left(r) = ReadTimeout - stage[r].spent + n * DbTimeout
          BY <4>1, <5>1 DEF Left, In
        <5>3. stage[r].spent <= ReadTimeout
          BY <1>4, <4>1 DEF In
        <5>. HIDE DEF n
        <5>. QED
          BY <1>3, <1>5, <5>2, <5>3, OneMoreQuery
      <4>2. CASE stage[r].at = "query"
        <5>1. n = stage[r].queries - 1 /\ stage[r].queries > 0
          BY <1>4, <4>2 DEF In
        <5>2. Left(r) = stage[r].queries * DbTimeout - stage[r].spent
          BY <4>2 DEF Left, In
        <5>3. stage[r].spent <= DbTimeout
          BY <1>4, <4>2 DEF In
        <5>4. stage[r].queries * DbTimeout = n * DbTimeout + DbTimeout
          BY <1>3, <5>1, OneMoreQuery
        <5>5. n * DbTimeout \in Nat
          BY <1>5, OneMoreQuery
        <5>. HIDE DEF n
        <5>. QED
          BY <1>3, <5>2, <5>3, <5>4, <5>5
      <4>. QED
        BY <1>3, <4>1, <4>2
    <3>3. Left(r) + clock <= due[r]
      BY <1>1, <1>10 DEF Inv, DrainKept
    <3>4. n * DbTimeout \in Nat /\ Left(r) \in Nat /\ clock \in Nat /\ due[r] \in Nat
      BY <1>5, OneMoreQuery, LeftTyped DEF Inv, TypeOK
    <3>. HIDE DEF n
    <3>. QED
      BY <2>2, <3>1, <3>2, <3>3, <3>4
  <2>. QED
    BY <2>1, <2>2
<1>11. DrainKept'
  BY <1>1, <1>10 DEF Inv, DrainKept
<1>. QED
  BY <1>8, <1>9, <1>11 DEF Inv

LEMMA SignalInv ==
  ASSUME Inv, Signal
  PROVE  Inv'
<1>1. CASE proc \in {"serving", "deaf"}
  <2>1. /\ proc' = "draining" /\ wanted' = FALSE
        /\ due' = [r \in Requests |-> Left(r)]
        /\ UNCHANGED <<stage, clock>>
        /\ clock = 0
    BY <1>1 DEF Signal, Inv, DrainKept
  <2>2. TypeOK'
    BY <1>1, <2>1, LeftTyped DEF Inv, TypeOK
  <2>3. StagesKept'
    BY <2>1 DEF Inv, StagesKept, In
  <2>4. \A r \in Requests : Left(r)' = Left(r) /\ Left(r) \in Nat /\ due'[r] = Left(r)
    BY <2>1, LeftTyped DEF Left, In
  <2>5. DrainKept'
    BY <2>1, <2>4 DEF DrainKept
  <2>. QED
    BY <2>2, <2>3, <2>5 DEF Inv
<1>2. CASE proc \notin {"serving", "deaf"}
  BY <1>2, EndInv DEF Signal
<1>. QED
  BY <1>1, <1>2

(* What a request has left becomes less by a tick at every tick. *)
LEMMA TickInv ==
  ASSUME Inv, Tick
  PROVE  Inv'
<1>. USE TimesFact
<1>1. /\ UNCHANGED <<proc, wanted, due>>
      /\ clock' = IF proc = "draining" THEN clock + 1 ELSE clock
  BY DEF Tick
<1>2. ASSUME NEW r \in Requests, In(r, "gone")
      PROVE  stage'[r] = Gone
  BY <1>2 DEF Tick
<1>3. ASSUME NEW r \in Requests, ~In(r, "gone")
      PROVE  /\ stage'[r] \in Stages /\ stage[r] \in Stages
             /\ stage'[r].at = stage[r].at /\ stage[r].at \in {"body", "query"}
             /\ stage'[r].queries = stage[r].queries
             /\ stage'[r].spent = stage[r].spent + 1
             /\ stage[r].spent < Limit(r)
             /\ Left(r)' = Left(r) - 1
  <2>1. stage[r] \in Stages
    BY DEF Inv, TypeOK
  <2>2. /\ stage[r].at \in {"body", "query"}
        /\ stage[r].queries \in Nat /\ stage[r].spent \in Nat
    BY <1>3, <2>1 DEF Stages, In
  <2>3. stage'[r] = [stage[r] EXCEPT !.spent = @ + 1] /\ stage[r].spent < Limit(r)
    BY <1>3 DEF Tick
  <2>4. /\ stage'[r] \in Stages
        /\ stage'[r].at = stage[r].at
        /\ stage'[r].queries = stage[r].queries
        /\ stage'[r].spent = stage[r].spent + 1
    BY <2>1, <2>2, <2>3 DEF Stages
  <2>5. stage[r].queries * DbTimeout \in Nat
    BY <2>2, OneMoreQuery
  <2>6. Left(r)' = Left(r) - 1
    <3>1. CASE stage[r].at = "body"
      <4>1. Left(r) = ReadTimeout - stage[r].spent + stage[r].queries * DbTimeout
        BY <3>1 DEF Left, In
      <4>2. Left(r)' = ReadTimeout - stage'[r].spent + stage'[r].queries * DbTimeout
        BY <2>4, <3>1 DEF Left, In
      <4>. QED
        BY <2>2, <2>4, <2>5, <4>1, <4>2
    <3>2. CASE stage[r].at = "query"
      <4>1. Left(r) = stage[r].queries * DbTimeout - stage[r].spent
        BY <3>2 DEF Left, In
      <4>2. Left(r)' = stage'[r].queries * DbTimeout - stage'[r].spent
        BY <2>4, <3>2 DEF Left, In
      <4>. QED
        BY <2>2, <2>4, <2>5, <4>1, <4>2
    <3>. QED
      BY <2>2, <3>1, <3>2
  <2>. QED
    BY <2>1, <2>2, <2>3, <2>4, <2>6
<1>4. Gone \in Stages /\ Gone.at = "gone"
  BY DEF Gone, Stages
<1>5. TypeOK'
  <2>1. stage' = [r \in Requests |-> stage'[r]]
    BY DEF Tick
  <2>2. \A r \in Requests : stage'[r] \in Stages
    BY <1>2, <1>3, <1>4
  <2>3. ASSUME NEW r \in Requests, stage'[r] # Gone
        PROVE  proc \in {"serving", "deaf", "draining"}
    <3>1. stage[r] # Gone
      BY <1>2, <1>4, <2>3 DEF In
    <3>. QED
      BY <3>1 DEF Inv, TypeOK
  <2>4. clock' \in Nat
    BY <1>1 DEF Inv, TypeOK
  <2>. QED
    BY <1>1, <2>1, <2>2, <2>3, <2>4 DEF Inv, TypeOK
<1>6. StagesKept'
  <2>. SUFFICES ASSUME NEW r \in Requests
                PROVE  /\ In(r, "gone")' => stage'[r] = Gone
                       /\ In(r, "body")' => stage'[r].spent <= ReadTimeout
                       /\ In(r, "query")' => /\ stage'[r].queries > 0
                                             /\ stage'[r].spent <= DbTimeout
    BY DEF StagesKept
  <2>1. CASE In(r, "gone")
    BY <1>2, <1>4, <2>1 DEF In
  <2>2. CASE ~In(r, "gone")
    <3>1. stage[r].spent \in Nat
      BY <1>3, <2>2 DEF Stages
    <3>. QED
      BY <1>3, <2>2, <3>1 DEF Inv, StagesKept, In, Limit
  <2>. QED
    BY <2>1, <2>2
<1>7. DrainKept'
  <2>1. ASSUME proc = "draining", NEW r \in Requests, ~In(r, "gone")'
        PROVE  Left(r)' + clock' <= due[r]
    <3>1. ~In(r, "gone")
      BY <1>2, <1>4, <2>1 DEF In
    <3>2. Left(r) + clock <= due[r]
      BY <2>1, <3>1 DEF Inv, DrainKept
    <3>3. Left(r) \in Nat /\ clock \in Nat /\ due[r] \in Nat
      BY LeftTyped DEF Inv, TypeOK
    <3>. QED
      BY <1>1, <1>3, <2>1, <3>1, <3>2, <3>3
  <2>. QED
    BY <1>1, <2>1 DEF Inv, DrainKept
<1>. QED
  BY <1>5, <1>6, <1>7 DEF Inv

-----------------------------------------------------------------------------
LEMMA StepInv ==
  ASSUME Inv, [Next]_vars
  PROVE  Inv'
<1>1. wanted \in BOOLEAN
  BY DEF Inv, TypeOK
<1>2. CASE Start
  BY <1>1, <1>2, StepsFact, ProcInv DEF Start
<1>3. ASSUME NEW i \in DOMAIN BootSteps, BootStep(i)
      PROVE  Inv'
  <2>1. proc \notin {"serving", "deaf", "draining"}
    BY <1>3, StepsFact DEF BootStep
  <2>2. proc' \in Range(BootSteps) \cup {"serving"}
    BY <1>3, StepsFact DEF BootStep
  <2>. QED
    BY <1>1, <1>3, <2>1, <2>2, ProcInv DEF BootStep
<1>4. CASE ListenFails
  <2>1. proc # "draining"
    BY <1>4, StepsFact DEF ListenFails
  <2>. QED
    BY <1>1, <1>4, <2>1, ProcInv DEF ListenFails
<1>5. CASE Up
  BY <1>5, ProcInv DEF Up
<1>6. CASE Exit \/ Kill \/ Crash \/ \E i \in DOMAIN BootSteps : BootFails(i)
  BY <1>1, <1>6, EndInv DEF Exit, Kill, Crash, BootFails
<1>7. CASE UNCHANGED vars
  BY <1>7 DEF vars, Inv, TypeOK, StagesKept, DrainKept, Left, In
<1>. QED
  BY <1>2, <1>3, <1>4, <1>5, <1>6, <1>7, AcceptInv, ProceedInv, SignalInv, TickInv
  DEF Next, Works

LEMMA LifecycleInv == Spec => []Inv
BY InitInv, StepInv, PTL DEF Spec

-----------------------------------------------------------------------------
(* Requests are in progress only in a process that has booted, and no more *)
(* time is counted of them than their deadlines allow, so that what is     *)
(* left of one is never less than nothing (main.go).                       *)
THEOREM LifecycleTypeOK == Spec => []TypeOK
BY LifecycleInv, PTL DEF Inv

(* Whatever the timeouts are and however many requests are in progress,    *)
(* the end of a process that was asked to end cuts off none that had less  *)
(* to do than the shorter of the two patiences (main.go, Shutdown;         *)
(* docker-compose.yml).                                                    *)
THEOREM LifecycleCutOnlyIfSlow == Spec => CutOnlyIfSlow
<1>1. ASSUME Inv, Exit \/ Kill, NEW r \in Requests, ~In(r, "gone")
      PROVE  due[r] >= Promised
  <2>1. proc = "draining" /\ clock \in {DrainTimeout, Grace}
    BY <1>1 DEF Exit, Kill
  <2>2. Left(r) + clock <= due[r]
    BY <1>1, <2>1 DEF Inv, DrainKept
  <2>3. Left(r) \in Nat /\ due[r] \in Nat
    BY <1>1, LeftTyped DEF Inv, TypeOK
  <2>. QED
    BY <2>1, <2>2, <2>3, TimesFact DEF Promised
<1>2. Inv /\ [Next]_vars =>
        [Exit \/ Kill => \A r \in Requests : ~In(r, "gone") => due[r] >= Promised]_vars
  BY <1>1
<1>. QED
  BY <1>2, LifecycleInv, PTL DEF Spec, CutOnlyIfSlow
=============================================================================
