------------------------------ MODULE MCService ------------------------------
(***************************************************************************)
(* Service on small instances.                                             *)
(***************************************************************************)
EXTENDS Service
=============================================================================
