-------------------------- MODULE MCConfiguration --------------------------
(***************************************************************************)
(* Instances of Configuration for TLC.                                     *)
(***************************************************************************)
EXTENDS Configuration

AllFamilies == {"rates", "tags", "baggage", "main", "mistakes"} \cup Settings
=============================================================================
