---------------------------- MODULE MCLifecycle ----------------------------
(***************************************************************************)
(* The instance of Lifecycle for TLC. A unit of time is two seconds; three *)
(* queries already take longer than Docker waits, as the eight of          *)
(* /api/content do.                                                        *)
(***************************************************************************)
EXTENDS Lifecycle

MCBootSteps == <<"config", "db", "migrate", "seed">>
=============================================================================
