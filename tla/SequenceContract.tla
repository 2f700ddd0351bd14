--------------------------- MODULE SequenceContract ---------------------------
(***************************************************************************)
(* The contract state of alephium/contracts/sequence.ral and               *)
(* undone_sequence.ral as the contract keeps it: a bitmap is an unsigned   *)
(* integer read and written one byte at a time, and the undone numbers are *)
(* a list searched by bisection.  A byte has ByteBits bits and a bitmap    *)
(* has Bytes bytes (8 and 32 in the contract).                             *)
(***************************************************************************)
EXTENDS Integers, Sequences, SequencesExt

CONSTANTS
    ByteBits,   \* bits of a byte
    Bytes,      \* bytes of a bitmap
    Distance,   \* compile-time constant of the contract
    Numbers     \* the sequence numbers of the VAAs meant for this contract

ASSUME BitAssumption == ByteBits \in Nat \ {0} /\ Bytes \in Nat \ {0}
ASSUME DistanceAssumption == Distance \in Nat
ASSUME NumbersAssumption == Numbers \subseteq Nat

VARIABLES
    next,       \* the first sequence number of the window
    next1,      \* lower bitmap
    next2,      \* upper bitmap
    undone,     \* ascending list of unexecuted numbers below the window
    executions  \* history: how often each number was executed

vars == <<next, next1, next2, undone, executions>>

Window == ByteBits * Bytes

\* 1 << k.  A recursive function, since the provers know nothing of 2 ^ k.
Pow2[k \in 0 .. Window] == IF k = 0 THEN 1 ELSE 2 * Pow2[k - 1]

ByteMax == Pow2[ByteBits] - 1   \* 0xff
WordMax == Pow2[Window] - 1     \* 0xff..ff

Init ==
    /\ next = 0
    /\ next1 = 0
    /\ next2 = 0
    /\ undone = <<>>
    /\ executions = [s \in Numbers |-> 0]

Byte(word, pos)    == (word \div Pow2[pos * ByteBits]) % Pow2[ByteBits]
Bit(value, offset) == (value \div Pow2[offset]) % 2

-----------------------------------------------------------------------------
(* The bitmaps. *)

IsUnset(pos, offset, current) == Bit(Byte(current, pos), offset) = 0

\* setExecuted, when its assertion holds: the flag is or-ed into the byte and
\* the byte back into the word.
setExecuted(pos, offset, current) == current + Pow2[pos * ByteBits + offset]

-----------------------------------------------------------------------------
(* The list. *)

\* add, for each of some numbers: one that is not above the last fails.
AddsInOrder(list, numbers) ==
    LET all == list \o numbers
    IN  \A i \in Len(list) + 1 .. Len(all) : i > 1 => all[i] > all[i - 1]

\* The number at an index of a bitmap is not added: its byte is full, or its bit
\* is set.
IsSkipped(index, bitMap) ==
    LET byte == Byte(bitMap, index \div ByteBits)
    IN  byte = ByteMax \/ Bit(byte, index % ByteBits) = 1

\* Mutant of addToUndone: the last byte is not looked at.
addToUndoneShort(current, bitMap) ==
    LET added[i \in 0 .. Window] ==
            IF i = 0 THEN <<>>
            ELSE IF IsSkipped(i - 1, bitMap) \/ i > Window - ByteBits
                   THEN added[i - 1]
                   ELSE Append(added[i - 1], current + i - 1)
    IN  added[Window]

\* addToUndone and addSequences, their loops in one: what they have added after
\* i bits, and in the end.
addToUndone(current, bitMap) ==
    LET added[i \in 0 .. Window] ==
            IF i = 0 THEN <<>>
            ELSE IF IsSkipped(i - 1, bitMap)
                   THEN added[i - 1]
                   ELSE Append(added[i - 1], current + i - 1)
    IN  added[Window]

\* removeOldUndone: numbers are taken from the front until one is recent.
removeOldUndone(list, current) ==
    LET recent == { i \in DOMAIN list : current <= list[i] + Distance }
    IN  SubSeq(list, Min(recent \cup {Len(list) + 1}), Len(list))

\* The loop of trySetDone, from its variables p = <<begin, end>> on: the position
\* of the number, counted from 0, or -1 when it is not found.
Bisect(list, seq, first) ==
    LET found[p \in (0 .. Len(list)) \X (-1 .. Len(list) - 1)] ==
            LET mid == (p[1] + p[2]) \div 2
            IN  IF p[1] > p[2]             THEN -1
                ELSE IF seq = list[mid + 1] THEN mid
                ELSE IF seq > list[mid + 1] THEN found[<<mid + 1, p[2]>>]
                                            ELSE found[<<p[1], mid - 1>>]
    IN  found[<<first, Len(list) - 1>>]

\* Mutant of Find: the search starts with the second number.
FindFromSecond(list, seq) == IF list = <<>> THEN -1 ELSE Bisect(list, seq, 1)

Find(list, seq) == Bisect(list, seq, 0)

-----------------------------------------------------------------------------
(* checkSequence. *)

Count(s) == executions' = [executions EXCEPT ![s] = @ + 1]

trySetDone(s) ==
    /\ s < next
    /\ Find(undone, s) # -1
    /\ undone' = RemoveAt(undone, Find(undone, s) + 1)
    /\ Count(s)
    /\ UNCHANGED <<next, next1, next2>>

\* The body of checkSequence after compact, for window (n, n1, n2) and list u.
SetInWindow(s, n, n1, n2, u) ==
    LET index  == s - n
        pos    == index \div ByteBits
        offset == index % ByteBits
    IN  /\ next' = n
        /\ undone' = removeOldUndone(u, s)
        /\ \/ /\ pos < Bytes
              /\ IsUnset(pos, offset, n1)
              /\ next1' = setExecuted(pos, offset, n1)
              /\ next2' = n2
           \/ /\ pos >= Bytes
              /\ IsUnset(pos - Bytes, offset, n2)
              /\ next1' = n1
              /\ next2' = setExecuted(pos - Bytes, offset, n2)
        /\ Count(s)

SetWithin(s) ==
    /\ next <= s
    /\ s < next + 2 * Window
    /\ SetInWindow(s, next, next1, next2, undone)

\* The numbers compact adds to the list; nothing if all were executed.
Compacted == IF next1 = WordMax THEN <<>> ELSE addToUndone(next, next1)

CompactAndSet(s) ==
    /\ s >= next + 2 * Window
    /\ AddsInOrder(undone, Compacted)
    /\ s < next + 3 * Window
    /\ SetInWindow(s, next + Window, next2, 0, undone \o Compacted)

checkSequence(s) == trySetDone(s) \/ SetWithin(s) \/ CompactAndSet(s)

Next == \E s \in Numbers : checkSequence(s)

Spec == Init /\ [][Next]_vars

-----------------------------------------------------------------------------
(* Properties. *)

\* The bisection finds exactly the numbers of the list, which is only so while
\* add keeps the list in ascending order (trySetDone).
BisectionIsExact ==
    \A s \in Numbers : Find(undone, s) # -1 <=> s \in ToSet(undone)

\* The contract's bytes implement the sets of AlephiumSequence: the same calls
\* succeed and leave the same numbers executed and undone.
BitsOf(word) == { i \in 0 .. Window - 1 : Bit(word, i) = 1 }
Sets ==
    INSTANCE AlephiumSequence
        WITH Sequences <- Numbers, next1 <- BitsOf(next1), next2 <- BitsOf(next2),
             undone <- ToSet(undone)
ImplementsSets == Sets!Spec
=============================================================================
