---------------------------- MODULE MCAdminPanel ----------------------------
(***************************************************************************)
(* Instances of AdminPanel for TLC: the panels edit the side panel, a      *)
(* section with an endpoint of its own and one row in the database.        *)
(***************************************************************************)
EXTENDS AdminPanel, TLC

MCContentSections == <<"site">>

MCBodies == SUBSET Items

MCSymmetry == Permutations(Panels) \cup Permutations(Items)
=============================================================================
