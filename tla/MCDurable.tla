------------------------------ MODULE MCDurable ------------------------------
(***************************************************************************)
(* Durable on small instances.  One pool and one queue are enough: the     *)
(* order of file system effects depends on the number of records an        *)
(* operation writes, not on whose they are.  Two allocations give          *)
(* revocations of two records, and a compaction threshold of two frames    *)
(* puts compactions inside such operations.                                *)
(***************************************************************************)
EXTENDS Durable
=============================================================================
