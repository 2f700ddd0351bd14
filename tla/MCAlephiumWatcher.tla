-------------------------- MODULE MCAlephiumWatcher --------------------------
(* Instances of AlephiumWatcher for TLC. *)
EXTENDS AlephiumWatcher, TLC

CONSTANTS m1, c1

\* A transfer that a contract c1 sends, or a message that is no transfer.
MCSender == m1 :> c1
MCNoSender == m1 :> Nil
MCLevels == m1 :> 2
=============================================================================
