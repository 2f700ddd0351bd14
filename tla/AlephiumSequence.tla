--------------------------- MODULE AlephiumSequence ---------------------------
(***************************************************************************)
(* Replay protection of the Alephium contracts (alephium/contracts:        *)
(* sequence.ral, undone_sequence.ral): which sequence numbers of an        *)
(* emitter were executed.  Two bitmaps of Window bits slide over the       *)
(* numbers from `next' on; the unexecuted numbers that fall out below are  *)
(* kept in the list `undone' until they lag more than Distance behind.     *)
(*                                                                         *)
(* The contract keeps bitmaps in integers and the list in a byte vector;   *)
(* here both are sets, and SequenceContract models the bytes.  A call that *)
(* fails an assertion is rolled back and leaves no trace.                  *)
(***************************************************************************)
EXTENDS Integers, FiniteSets

CONSTANTS
    Window,     \* bits of one bitmap, 256
    Distance,   \* compile-time constant of the contract, 64 when deployed
    Sequences   \* the sequence numbers of the VAAs meant for this contract

ASSUME WindowAssumption == Window \in Nat \ {0}
ASSUME DistanceAssumption == Distance \in Nat
ASSUME SequencesAssumption == Sequences \subseteq Nat

VARIABLES
    next,       \* the first sequence number of the window
    next1,      \* the executed positions of the lower half of the window
    next2,      \* the executed positions of the upper half
    undone,     \* unexecuted sequence numbers below the window
    executions  \* history: how often each sequence number was executed

vars == <<next, next1, next2, undone, executions>>

Positions == 0 .. Window - 1

Init ==
    /\ next = 0
    /\ next1 = {}
    /\ next2 = {}
    /\ undone = {}
    /\ executions = [s \in Sequences |-> 0]

Count(s) == executions' = [executions EXCEPT ![s] = @ + 1]

\* Mutant of ExecuteUndone: the number stays in the list.
ExecuteUndoneKept(s) ==
    /\ s < next
    /\ s \in undone
    /\ undone' = undone
    /\ Count(s)
    /\ UNCHANGED <<next, next1, next2>>

\* checkSequence below the window: trySetDone takes s out of the list.
ExecuteUndone(s) ==
    /\ s < next
    /\ s \in undone
    /\ undone' = undone \ {s}
    /\ Count(s)
    /\ UNCHANGED <<next, next1, next2>>

\* Mutant of Recent: nothing is removed.
RecentAll(list, s) == list

\* removeOldUndone: what is left of a list when s is executed.
Recent(list, s) == { x \in list : s <= x + Distance }

\* Mutant of ExecuteLower: the bit is not looked at.
ExecuteLowerAgain(s) ==
    /\ next <= s
    /\ s < next + Window
    /\ next1' = next1 \cup {s - next}
    /\ undone' = Recent(undone, s)
    /\ Count(s)
    /\ UNCHANGED <<next, next2>>

\* checkSequence in the lower half of the window.
ExecuteLower(s) ==
    /\ next <= s
    /\ s < next + Window
    /\ s - next \notin next1
    /\ next1' = next1 \cup {s - next}
    /\ undone' = Recent(undone, s)
    /\ Count(s)
    /\ UNCHANGED <<next, next2>>

\* Mutant of ExecuteUpper: the position is not counted from the upper half.
ExecuteUpperFromNext(s) ==
    /\ next + Window <= s
    /\ s < next + 2 * Window
    /\ s - next \notin next2
    /\ next2' = next2 \cup {s - next}
    /\ undone' = Recent(undone, s)
    /\ Count(s)
    /\ UNCHANGED <<next, next1>>

\* checkSequence in the upper half of the window.
ExecuteUpper(s) ==
    /\ next + Window <= s
    /\ s < next + 2 * Window
    /\ s - (next + Window) \notin next2
    /\ next2' = next2 \cup {s - (next + Window)}
    /\ undone' = Recent(undone, s)
    /\ Count(s)
    /\ UNCHANGED <<next, next1>>

\* The numbers compact moves to the list.
Unexecuted == { next + i : i \in Positions \ next1 }

\* UndoneSequence.add asserts that the list stays in ascending order.
AppendsInOrder == \A x \in undone, y \in Unexecuted : x < y

\* Mutant of ExecuteBeyond: the upper bitmap is not moved down.
ExecuteBeyondUnshifted(s) ==
    /\ next + 2 * Window <= s
    /\ s < next + 3 * Window
    /\ AppendsInOrder
    /\ next' = next + Window
    /\ next1' = next1
    /\ next2' = {s - (next + 2 * Window)}
    /\ undone' = Recent(undone \cup Unexecuted, s)
    /\ Count(s)

\* checkSequence above the window: compact slides it by one half, once, and s
\* has to be in the upper half then.
ExecuteBeyond(s) ==
    /\ next + 2 * Window <= s
    /\ s < next + 3 * Window
    /\ AppendsInOrder
    /\ next' = next + Window
    /\ next1' = next2
    /\ next2' = {s - (next + 2 * Window)}
    /\ undone' = Recent(undone \cup Unexecuted, s)
    /\ Count(s)

CheckSequence(s) ==
    \/ ExecuteUndone(s)
    \/ ExecuteLower(s)
    \/ ExecuteUpper(s)
    \/ ExecuteBeyond(s)

Next == \E s \in Sequences : CheckSequence(s)

Spec == Init /\ [][Next]_vars

\* Anybody can submit a VAA, and somebody keeps trying: nothing is promised of
\* the order.
FairSpec == Spec /\ \A s \in Sequences : WF_vars(CheckSequence(s))

-----------------------------------------------------------------------------
(***************************************************************************)
(* Properties                                                              *)
(***************************************************************************)

\* The bitmaps and the list hold what the contract's fields can hold.
TypeOK ==
    /\ next \in Nat
    /\ next1 \subseteq Positions
    /\ next2 \subseteq Positions
    /\ undone \subseteq Nat
    /\ executions \in [Sequences -> Nat]

\* The number s is below the window and in no list.
Gone(s) == s < next /\ s \notin undone

\* The bit of s is set.
Set(s) ==
    \/ s - next \in next1
    \/ s - (next + Window) \in next2

\* No VAA is executed twice, in whatever order the numbers arrive and however
\* often they are submitted again (checkSequence).
AtMostOnce == \A s \in Sequences : executions[s] <= 1

\* The bitmaps and the list tell executed and unexecuted numbers apart: a bit
\* is set, or a number above zero missing, only for what was executed, and what
\* is in the list is not executed.
MarksAreTrue ==
    \A s \in Sequences :
        /\ s >= next => (Set(s) <=> executions[s] > 0)
        /\ s \in undone => executions[s] = 0

\* A number is given up only after one more than Distance above it was
\* executed.
GivenUpOnlyIfOld ==
    \A s \in Sequences :
        Gone(s) /\ executions[s] = 0 =>
            \E t \in Sequences : executions[t] > 0 /\ t > s + Distance

\* An unexecuted number that is in the list, in the window or at most one half
\* above it is accepted at once: no assertion of add, setExecuted or trySetDone
\* fails for it.
AcceptedWhenDue ==
    \A s \in Sequences :
        executions[s] = 0 /\ s < next + 3 * Window /\ ~Gone(s) =>
            /\ next <= s => ~Set(s)
            /\ next + 2 * Window <= s => AppendsInOrder

\* The list never holds more than Distance numbers, so the byte vector and the
\* cost of a call are bounded.
UndoneIsShort ==
    /\ \A x \in undone : x < next /\ next <= x + Distance
    /\ Cardinality(undone) <= Distance

\* When the distance is no larger than a bitmap, as in every deployment script,
\* nothing is ever kept in the list: sliding the window gives up all the
\* numbers it leaves behind.
NothingKept == Distance <= Window => undone = {}

\* If no stretch of Window numbers is without a VAA for this contract, every VAA
\* is executed or given up; a longer gap would leave the window behind for ever.
NoLongGaps ==
    \A s \in Sequences : \A k \in 0 .. s \div Window :
        \E t \in Sequences : t \div Window = k

EveryVAASettled ==
    NoLongGaps => \A s \in Sequences : <>(executions[s] > 0 \/ Gone(s))

\* The contract keeps the promise of ReplayProtection.
Promise ==
    INSTANCE ReplayProtection
        WITH refused <- { s \in Sequences : Gone(s) /\ executions[s] = 0 }
PromiseKept == Promise!Spec
=============================================================================
