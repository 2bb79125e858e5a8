----------------------------- MODULE MCContent -----------------------------
(***************************************************************************)
(* Instances of Content for TLC. Two of the eight sections of /api/content *)
(* are enough for its reads to be interleaved with writes, flushes and     *)
(* failures of the section already read and of the one still to come.      *)
(***************************************************************************)
EXTENDS Content

MCContentSections == <<"site", "stats">>
=============================================================================
