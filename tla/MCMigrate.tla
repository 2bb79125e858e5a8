----------------------------- MODULE MCMigrate -----------------------------
(***************************************************************************)
(* An instance of Migrate for TLC: four files, of which two were given the *)
(* same version.                                                           *)
(***************************************************************************)
EXTENDS Migrate

MCVersions == <<1, 2, 2, 4>>

(* Nothing fails but what Run makes fail itself, and nobody is killed. *)
CalmSpec == Init /\ [][\E p \in Procs : Works(p)]_vars
=============================================================================
