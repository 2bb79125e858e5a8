---------------------------- MODULE TokenBucket ----------------------------
(***************************************************************************)
(* What the rate limiter promises: one bucket per client address, full at  *)
(* first, refilled at a steady rate up to its capacity; a request is       *)
(* admitted when it finds a token and takes it. No bucket is ever created, *)
(* brought up to date or thrown away.                                      *)
(*                                                                         *)
(* A token is counted as Minute units, so that the refill of one tick is   *)
(* the whole number PerMinute.                                             *)
(***************************************************************************)
EXTENDS Integers

CONSTANTS
  IPs,        \* the client addresses
  Minute,     \* the ticks in a minute
  PerMinute   \* requests per minute

Burst == PerMinute \div 4
Cap   == Burst * Minute

VARIABLES
  level,     \* level[ip]: the content of ip's bucket
  admitted,  \* admitted[ip]: requests admitted in the window under observation
  age        \* the age of that window, which is closed after a minute

bucketVars == <<level, admitted, age>>

Filled(n) == IF n > Cap THEN Cap ELSE n

Init ==
  /\ level = [ip \in IPs |-> Cap]
  /\ admitted = [ip \in IPs |-> 0]
  /\ age = 0

Admit(ip) ==
  /\ level[ip] >= Minute
  /\ level' = [level EXCEPT ![ip] = @ - Minute]
  /\ admitted' = [admitted EXCEPT ![ip] = @ + 1]
  /\ UNCHANGED age

Tick ==
  /\ age < Minute
  /\ level' = [ip \in IPs |-> Filled(level[ip] + PerMinute)]
  /\ age' = age + 1
  /\ UNCHANGED admitted

(* A new window may be opened at any moment. *)
Observe ==
  /\ age' = 0
  /\ admitted' = [ip \in IPs |-> 0]
  /\ UNCHANGED level

Next == (\E ip \in IPs : Admit(ip)) \/ Tick \/ Observe

Spec == Init /\ [][Next]_bucketVars

-----------------------------------------------------------------------------
(* Every token that was taken or is still there was in the bucket when the *)
(* window was opened, or came in since.                                    *)
Conserved ==
  \A ip \in IPs : admitted[ip] * Minute + level[ip] <= Cap + age * PerMinute
=============================================================================
