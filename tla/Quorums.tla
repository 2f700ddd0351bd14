------------------------------- MODULE Quorums -------------------------------
(***************************************************************************)
(* The quorum arithmetic every part of the bridge shares                   *)
(* (node/pkg/processor/quorum.go, and the same formula in the contracts).  *)
(***************************************************************************)
EXTENDS Integers, FiniteSets

\* CalculateQuorum(numGuardians): Go's int division truncates, and the number
\* of guardians is never negative.
CalculateQuorum(n) == (((n * 10) \div 3) * 2) \div 10 + 1

\* A group of guardians large enough to sign for a set of guardians.
IsQuorum(Q, guardians) ==
    /\ Q \subseteq guardians
    /\ Cardinality(Q) >= CalculateQuorum(Cardinality(guardians))
=============================================================================
