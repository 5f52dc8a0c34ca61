-------------------------- MODULE MCLocationResolver --------------------------
(* A small instance of LocationResolver for TLC.                           *)
EXTENDS LocationResolver

=============================================================================
