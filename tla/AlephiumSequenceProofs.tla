------------------------ MODULE AlephiumSequenceProofs ------------------------
(***************************************************************************)
(* Proofs about AlephiumSequence, for every window, distance and set of    *)
(* sequence numbers.                                                       *)
(*                                                                         *)
(* MarksAreTrue is what makes AtMostOnce inductive: a number is accepted   *)
(* when its bit is clear or it is in the list, so both have to say that it *)
(* was not executed.  It is itself inductive only together with the facts  *)
(* that the list lies below the window and that nothing above the window   *)
(* was executed, since a slide makes a fresh bitmap of the numbers there.  *)
(***************************************************************************)
EXTENDS AlephiumSequence, FiniteSetTheorems, TLAPS

\* The list lies below the window.
ListBelow == \A x \in undone : x < next

\* Nothing above the window was executed.
NothingAbove == \A s \in Sequences : executions[s] > 0 => s < next + 2 * Window

IInv == TypeOK /\ ListBelow /\ NothingAbove /\ AtMostOnce /\ MarksAreTrue

USE WindowAssumption, DistanceAssumption, SequencesAssumption

LEMMA CountType ==
    ASSUME TypeOK, NEW s \in Sequences, Count(s)
    PROVE  /\ executions' \in [Sequences -> Nat]
           /\ executions'[s] = executions[s] + 1
           /\ \A t \in Sequences : t # s => executions'[t] = executions[t]
BY DEF TypeOK, Count

LEMMA InitIInv == Init => IInv
BY DEF Init, IInv, TypeOK, ListBelow, NothingAbove, AtMostOnce, MarksAreTrue, Set, Positions

LEMMA UndoneIInv ==
    ASSUME IInv, NEW s \in Sequences, ExecuteUndone(s)
    PROVE  IInv'
<1>1. /\ s \in undone /\ s < next /\ undone' = undone \ {s} /\ Count(s)
      /\ next' = next /\ next1' = next1 /\ next2' = next2
  BY DEF ExecuteUndone
<1>2. executions[s] = 0
  BY <1>1 DEF IInv, MarksAreTrue, TypeOK
<1>3. TypeOK' /\ ListBelow'
  BY <1>1, CountType DEF IInv, TypeOK, ListBelow
<1>4. NothingAbove' /\ AtMostOnce'
  BY <1>1, <1>2, CountType DEF IInv, NothingAbove, AtMostOnce, TypeOK
<1>5. MarksAreTrue'
  BY <1>1, <1>2, CountType DEF IInv, MarksAreTrue, Set, TypeOK
<1> QED
  BY <1>3, <1>4, <1>5 DEF IInv

LEMMA LowerIInv ==
    ASSUME IInv, NEW s \in Sequences, ExecuteLower(s)
    PROVE  IInv'
<1>1. /\ next <= s /\ s < next + Window /\ s - next \notin next1
      /\ next1' = next1 \cup {s - next} /\ undone' \subseteq undone /\ Count(s)
      /\ next' = next /\ next2' = next2
  BY DEF ExecuteLower, Recent
<1>2. executions[s] = 0
  BY <1>1 DEF IInv, MarksAreTrue, Set, TypeOK, Positions
<1>3. TypeOK' /\ ListBelow'
  BY <1>1, CountType DEF IInv, TypeOK, ListBelow, Positions
<1>4. NothingAbove' /\ AtMostOnce'
  BY <1>1, <1>2, CountType DEF IInv, NothingAbove, AtMostOnce, TypeOK
<1>5. MarksAreTrue'
  BY <1>1, <1>2, CountType DEF IInv, MarksAreTrue, Set, ListBelow, TypeOK, Positions
<1> QED
  BY <1>3, <1>4, <1>5 DEF IInv

LEMMA UpperIInv ==
    ASSUME IInv, NEW s \in Sequences, ExecuteUpper(s)
    PROVE  IInv'
<1>1. /\ next + Window <= s /\ s < next + 2 * Window /\ s - (next + Window) \notin next2
      /\ next2' = next2 \cup {s - (next + Window)} /\ undone' \subseteq undone /\ Count(s)
      /\ next' = next /\ next1' = next1
  BY DEF ExecuteUpper, Recent
<1>2. executions[s] = 0
  BY <1>1 DEF IInv, MarksAreTrue, Set, TypeOK, Positions
<1>3. TypeOK' /\ ListBelow'
  BY <1>1, CountType DEF IInv, TypeOK, ListBelow, Positions
<1>4. NothingAbove' /\ AtMostOnce'
  BY <1>1, <1>2, CountType DEF IInv, NothingAbove, AtMostOnce, TypeOK
<1>5. MarksAreTrue'
  BY <1>1, <1>2, CountType DEF IInv, MarksAreTrue, Set, ListBelow, TypeOK, Positions
<1> QED
  BY <1>3, <1>4, <1>5 DEF IInv

LEMMA BeyondIInv ==
    ASSUME IInv, NEW s \in Sequences, ExecuteBeyond(s)
    PROVE  IInv'
<1>1. /\ next + 2 * Window <= s /\ s < next + 3 * Window
      /\ next1' = next2 /\ next2' = {s - (next + 2 * Window)}
      /\ undone' \subseteq undone \cup Unexecuted /\ Count(s)
      /\ next' = next + Window
  BY DEF ExecuteBeyond, Recent
<1>2. executions[s] = 0
  BY <1>1 DEF IInv, NothingAbove, TypeOK
<1>3. \A x \in Unexecuted : x \in Nat /\ next <= x /\ x < next + Window /\ x - next \notin next1
  BY DEF Unexecuted, Positions, IInv, TypeOK
<1>4. TypeOK' /\ ListBelow'
  BY <1>1, <1>3, CountType DEF IInv, TypeOK, ListBelow, Positions
<1>5. NothingAbove' /\ AtMostOnce'
  BY <1>1, <1>2, CountType DEF IInv, NothingAbove, AtMostOnce, TypeOK
<1>6. ASSUME NEW t \in Sequences, t >= next'
      PROVE  Set(t)' <=> executions'[t] > 0
  <2>1. CASE t = s
    BY <1>1, <1>2, <2>1, CountType DEF Set, IInv, TypeOK
  <2>2. CASE t # s
    <3>1. executions'[t] = executions[t]
      BY <1>1, <2>2, CountType DEF IInv
    <3>2. Set(t) <=> executions[t] > 0
      BY <1>1, <1>6 DEF IInv, MarksAreTrue, TypeOK
    <3>3. Set(t) <=> t - (next + Window) \in next2
      BY <1>1, <1>6 DEF Set, IInv, TypeOK, Positions
    <3>4. Set(t)' <=> t - (next + Window) \in next2
      BY <1>1, <1>6, <2>2 DEF Set, IInv, TypeOK
    <3> QED
      BY <3>1, <3>2, <3>3, <3>4
  <2> QED
    BY <2>1, <2>2
<1>7. ASSUME NEW t \in Sequences, t \in undone'
      PROVE  executions'[t] = 0
  <2>1. t # s
    BY <1>1, <1>4, <1>7 DEF ListBelow, IInv, TypeOK
  <2>2. CASE t \in undone
    BY <1>1, <2>1, <2>2, CountType DEF IInv, MarksAreTrue
  <2>3. CASE t \in Unexecuted
    <3>1. t - (next + Window) \notin next2
      BY <1>3, <2>3 DEF IInv, TypeOK, Positions
    <3> QED
      BY <1>1, <1>3, <2>1, <2>3, <3>1, CountType DEF IInv, MarksAreTrue, Set, TypeOK
  <2> QED
    BY <1>1, <1>7, <2>2, <2>3
<1>8. MarksAreTrue'
  BY <1>6, <1>7 DEF MarksAreTrue
<1> QED
  BY <1>4, <1>5, <1>8 DEF IInv

LEMMA NextIInv == IInv /\ [Next]_vars => IInv'
<1> SUFFICES ASSUME IInv, [Next]_vars PROVE IInv'
  OBVIOUS
<1>1. CASE Next
  BY <1>1, UndoneIInv, LowerIInv, UpperIInv, BeyondIInv DEF Next, CheckSequence
<1>2. CASE UNCHANGED vars
  BY <1>2 DEF vars, IInv, TypeOK, ListBelow, NothingAbove, AtMostOnce, MarksAreTrue, Set
<1> QED
  BY <1>1, <1>2

LEMMA Invariance == Spec => []IInv
BY InitIInv, NextIInv, PTL DEF Spec

\* The contract's state keeps its types whatever is submitted.
THEOREM TypeCorrect == Spec => []TypeOK
BY Invariance, PTL DEF IInv

\* No VAA is executed twice.
THEOREM ExecutedOnce == Spec => []AtMostOnce
BY Invariance, PTL DEF IInv

\* Bits and list tell executed and unexecuted numbers apart.
THEOREM MarksTrue == Spec => []MarksAreTrue
BY Invariance, PTL DEF IInv

-----------------------------------------------------------------------------
(* What is given up, and the promise of ReplayProtection. *)

Refused == { s \in Sequences : Gone(s) /\ executions[s] = 0 }

\* What a call that executes s does to the numbers given up.
GivesUpOld(s) ==
    /\ s \notin Refused
    /\ executions[s] = 0
    /\ executions' = [executions EXCEPT ![s] = 1]
    /\ Refused \subseteq Refused'
    /\ \A x \in Refused' \ Refused :
         x \in Sequences /\ executions'[x] = 0 /\ s > x + Distance

LEMMA CallGivesUpOld ==
    ASSUME IInv, NEW s \in Sequences, CheckSequence(s)
    PROVE  GivesUpOld(s)
<1>1. s \notin Refused /\ Count(s)
  BY DEF CheckSequence, ExecuteUndone, ExecuteLower, ExecuteUpper, ExecuteBeyond,
         Refused, Gone, IInv, TypeOK
<1>2. executions[s] = 0
  BY DEF CheckSequence, ExecuteUndone, ExecuteLower, ExecuteUpper, ExecuteBeyond,
         IInv, TypeOK, MarksAreTrue, NothingAbove, Set, Positions
<1>3. executions' = [executions EXCEPT ![s] = 1]
  BY <1>1, <1>2 DEF Count, IInv, TypeOK
<1>4. next \in Nat /\ next' \in Nat /\ next <= next'
  BY DEF CheckSequence, ExecuteUndone, ExecuteLower, ExecuteUpper, ExecuteBeyond, IInv, TypeOK
<1>5. \A x \in undone' : x \in undone \/ x >= next
  BY DEF CheckSequence, ExecuteUndone, ExecuteLower, ExecuteUpper, ExecuteBeyond,
         Recent, Unexecuted, Positions, IInv, TypeOK
<1>6. ASSUME NEW x \in Refused
      PROVE  x \in Refused'
  BY <1>1, <1>3, <1>4, <1>5 DEF Refused, Gone, IInv, TypeOK
<1>7. ASSUME NEW x \in Refused', x \notin Refused
      PROVE  x \in Sequences /\ executions'[x] = 0 /\ s > x + Distance
  <2>1. /\ x \in Sequences /\ executions'[x] = 0 /\ x # s /\ executions[x] = 0
        /\ x < next' /\ x \notin undone'
    BY <1>1, <1>3, <1>7, CountType DEF Refused, Gone, IInv, TypeOK
  <2>2. x \in undone \/ x >= next
    BY <1>7, <2>1 DEF Refused, Gone, IInv, TypeOK
  <2>3. ~ExecuteUndone(s)
    BY <2>1, <2>2 DEF ExecuteUndone, IInv, TypeOK
  <2>4. CASE ExecuteLower(s) \/ ExecuteUpper(s)
    BY <2>1, <2>2, <2>4 DEF ExecuteLower, ExecuteUpper, Recent, IInv, TypeOK
  <2>5. CASE ExecuteBeyond(s)
    <3>1. x < next + Window /\ undone' = Recent(undone \cup Unexecuted, s)
      BY <2>1, <2>5 DEF ExecuteBeyond
    <3>2. CASE x >= next
      <4>1. x - next \notin next1
        BY <2>1, <3>2 DEF IInv, MarksAreTrue, Set, TypeOK
      <4>2. x - next \in Positions \ next1 /\ x = next + (x - next)
        BY <2>1, <3>1, <3>2, <4>1 DEF Positions, IInv, TypeOK
      <4>3. x \in Unexecuted
        BY <4>2 DEF Unexecuted
      <4> QED
        BY <2>1, <3>1, <4>3 DEF Recent
    <3>3. CASE x \in undone
      BY <2>1, <3>1, <3>3 DEF Recent
    <3> QED
      BY <2>2, <3>2, <3>3
  <2> QED
    BY <2>1, <2>3, <2>4, <2>5 DEF CheckSequence
<1> QED
  BY <1>1, <1>2, <1>3, <1>6, <1>7 DEF GivesUpOld

LEMMA InitGivenUp == Init => GivenUpOnlyIfOld
BY DEF Init, GivenUpOnlyIfOld, Gone

LEMMA NextGivenUp == IInv /\ GivenUpOnlyIfOld /\ [Next]_vars => GivenUpOnlyIfOld'
<1> SUFFICES ASSUME IInv, GivenUpOnlyIfOld, [Next]_vars PROVE GivenUpOnlyIfOld'
  OBVIOUS
<1>1. ASSUME NEW s \in Sequences, CheckSequence(s) PROVE GivenUpOnlyIfOld'
  <2>1. GivesUpOld(s)
    BY <1>1, CallGivesUpOld
  <2>2. /\ executions \in [Sequences -> Nat] /\ executions'[s] > 0
        /\ \A t \in Sequences : executions[t] > 0 => executions'[t] > 0
    BY <2>1 DEF GivesUpOld, IInv, TypeOK
  <2>3. ASSUME NEW x \in Sequences, Gone(x)', executions'[x] = 0
        PROVE  \E t \in Sequences : executions'[t] > 0 /\ t > x + Distance
    <3>1. x \in Refused'
      BY <2>3 DEF Refused
    <3>2. CASE x \in Refused
      BY <2>2, <3>2 DEF Refused, GivenUpOnlyIfOld
    <3>3. CASE x \notin Refused
      BY <2>1, <2>2, <3>1, <3>3 DEF GivesUpOld
    <3> QED
      BY <3>2, <3>3
  <2> QED
    BY <2>3 DEF GivenUpOnlyIfOld
<1>2. CASE UNCHANGED vars
  BY <1>2 DEF vars, GivenUpOnlyIfOld, Gone
<1> QED
  BY <1>1, <1>2 DEF Next

\* A number is given up only after a number more than Distance above it was
\* executed.
THEOREM OldAreGivenUp == Spec => []GivenUpOnlyIfOld
BY Invariance, InitGivenUp, NextGivenUp, PTL DEF Spec

\* Unexecuted numbers that are due are accepted: no assertion fails for them.
THEOREM DueAreAccepted == Spec => []AcceptedWhenDue
<1>1. IInv => AcceptedWhenDue
  BY DEF IInv, TypeOK, ListBelow, MarksAreTrue, AcceptedWhenDue, AppendsInOrder,
         Unexecuted, Positions, Gone
<1> QED
  BY <1>1, Invariance, PTL

\* The contract implements ReplayProtection.
THEOREM KeepsPromise == Spec => PromiseKept
<1>1. Init => Promise!Init
  <2> SUFFICES ASSUME Init PROVE Promise!Init
    OBVIOUS
  <2>1. \A s \in Sequences : ~Gone(s)
    BY DEF Init, Gone
  <2> QED
    BY <2>1 DEF Init, Promise!Init
<1>2. IInv /\ [Next]_vars => [Promise!Next]_<<executions, Refused>>
  <2> SUFFICES ASSUME IInv, [Next]_vars PROVE [Promise!Next]_<<executions, Refused>>
    OBVIOUS
  <2>1. ASSUME NEW s \in Sequences, CheckSequence(s) PROVE Promise!Next
    <3>1. GivesUpOld(s)
      BY <2>1, CallGivesUpOld
    <3>2. Promise!Execute(s)
      BY <3>1 DEF GivesUpOld, Promise!Execute, Refused
    <3> QED
      BY <3>2 DEF Promise!Next
  <2>2. CASE UNCHANGED vars
    BY <2>2 DEF vars, Refused, Gone
  <2> QED
    BY <2>1, <2>2 DEF Next
<1> QED
  BY <1>1, <1>2, Invariance, PTL DEF Spec, PromiseKept, Promise!Spec, Refused

-----------------------------------------------------------------------------
(* The list of undone numbers. *)

Near == \A x \in undone : x < next /\ next <= x + Distance

LEMMA NextNear == TypeOK /\ Near /\ [Next]_vars => Near'
<1> SUFFICES ASSUME TypeOK, Near, [Next]_vars PROVE Near'
  OBVIOUS
<1>1. ASSUME NEW s \in Sequences, ExecuteUndone(s) PROVE Near'
  BY <1>1 DEF ExecuteUndone, Near
<1>2. ASSUME NEW s \in Sequences, ExecuteLower(s) \/ ExecuteUpper(s) PROVE Near'
  BY <1>2 DEF ExecuteLower, ExecuteUpper, Recent, Near
<1>3. ASSUME NEW s \in Sequences, ExecuteBeyond(s) PROVE Near'
  BY <1>3 DEF ExecuteBeyond, Recent, Unexecuted, Positions, TypeOK, Near
<1>4. CASE UNCHANGED vars
  BY <1>4 DEF vars, Near
<1> QED
  BY <1>1, <1>2, <1>3, <1>4 DEF Next, CheckSequence

LEMMA NearIsShort ==
    ASSUME TypeOK, Near
    PROVE  Cardinality(undone) <= Distance
<1> DEFINE span == (next - Distance) .. (next - 1)
<1>1. undone \subseteq span
  BY DEF TypeOK, Near
<1>2. IsFiniteSet(span) /\ Cardinality(span) = Distance
  BY FS_Interval DEF TypeOK
<1> HIDE DEF span
<1> QED
  BY <1>1, <1>2, FS_Subset

\* The list never holds more than Distance numbers.
THEOREM ListIsShort == Spec => []UndoneIsShort
<1>1. Init => Near
  BY DEF Init, Near
<1>2. TypeOK /\ Near => UndoneIsShort
  BY NearIsShort DEF UndoneIsShort, Near
<1> QED
  BY <1>1, <1>2, NextNear, TypeCorrect, PTL DEF Spec

\* With a distance no larger than a bitmap the list is always empty.
THEOREM NothingIsKept == Spec => []NothingKept
<1>1. Init => NothingKept
  BY DEF Init, NothingKept
<1>2. TypeOK /\ Near' /\ NothingKept /\ [Next]_vars => NothingKept'
  <2> SUFFICES ASSUME TypeOK, Near', undone = {}, Distance <= Window, [Next]_vars
               PROVE  undone' = {}
    BY DEF NothingKept
  <2>1. ASSUME NEW s \in Sequences, ExecuteBeyond(s), NEW x \in undone' PROVE FALSE
    BY <2>1 DEF ExecuteBeyond, Recent, Unexecuted, Positions, TypeOK, Near
  <2>2. ASSUME NEW s \in Sequences, ~ExecuteBeyond(s), CheckSequence(s) PROVE undone' = {}
    BY <2>2 DEF CheckSequence, ExecuteUndone, ExecuteLower, ExecuteUpper, Recent
  <2>3. CASE UNCHANGED vars
    BY <2>3 DEF vars
  <2> QED
    BY <2>1, <2>2, <2>3 DEF Next
<1>3. Init => Near
  BY DEF Init, Near
<1> QED
  BY <1>1, <1>2, <1>3, NextNear, TypeCorrect, PTL DEF Spec
=============================================================================
