-------------------------- MODULE MCAlephiumSequence --------------------------
(* Small instances of AlephiumSequence. *)
EXTENDS AlephiumSequence

MCSequences == 0 .. 11
=============================================================================
