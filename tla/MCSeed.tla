------------------------------- MODULE MCSeed -------------------------------
(***************************************************************************)
(* Instances of Seed for TLC: three tables, of which site has a key that   *)
(* two seeding transactions contend for and stats has none.                *)
(***************************************************************************)
EXTENDS Seed

MCInserts == <<"site", "stats", "languages">>
=============================================================================
