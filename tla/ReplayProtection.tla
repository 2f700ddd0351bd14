--------------------------- MODULE ReplayProtection ---------------------------
(***************************************************************************)
(* What a bridge contract promises about the sequence numbers of one       *)
(* emitter: each is executed at most once, and it is given up only after a *)
(* sequence number more than Distance above it was executed.               *)
(***************************************************************************)
EXTENDS Naturals

CONSTANTS
    Sequences,  \* the sequence numbers of the VAAs meant for this contract
    Distance    \* how far behind a sequence number may lag for certain

VARIABLES
    executions, \* how often each sequence number was executed
    refused     \* the unexecuted sequence numbers given up for ever

Init ==
    /\ executions = [s \in Sequences |-> 0]
    /\ refused = {}

Execute(s) ==
    /\ executions[s] = 0
    /\ s \notin refused
    /\ executions' = [executions EXCEPT ![s] = 1]
    /\ refused \subseteq refused'
    /\ \A x \in refused' \ refused :
         x \in Sequences /\ executions'[x] = 0 /\ s > x + Distance

Next == \E s \in Sequences : Execute(s)

Spec == Init /\ [][Next]_<<executions, refused>>
=============================================================================
