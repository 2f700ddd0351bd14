----------------------------- MODULE MCEthWatcher -----------------------------
(* Small instances of EthWatcher. *)
EXTENDS EthWatcher, TLC

CONSTANTS t1, t2

\* One message below the watcher's minimum, one that asks for more.
MCLevelsOne == t1 :> 0
MCLevels    == t1 :> 0 @@ t2 :> 2
=============================================================================
