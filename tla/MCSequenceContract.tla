-------------------------- MODULE MCSequenceContract --------------------------
(* Small instances of SequenceContract. *)
EXTENDS SequenceContract

MCNumbers == 0 .. 13
=============================================================================
