--------------------------- MODULE ProcessorProofs ---------------------------
(***************************************************************************)
(* Theorems about Processor, for every set of guardians, messages and      *)
(* guardian sets.                                                          *)
(***************************************************************************)
EXTENDS Processor, FiniteSetTheorems, WellFoundedInduction, TLAPS

-----------------------------------------------------------------------------
(***************************************************************************)
(* Lemmas about the operators                                              *)
(***************************************************************************)

\* Induction.  The library's theorem on minimal elements takes a set, not an
\* operator, so what is proved for all numbers is written as a set of them.
LEMMA Induction ==
    ASSUME NEW T, 0 \in T, \A n \in Nat : n \in T => n + 1 \in T
    PROVE  \A n \in Nat : n \in T
<1> DEFINE U == { n \in Nat : n \notin T }
<1> SUFFICES ASSUME U # {} PROVE FALSE
  OBVIOUS
<1>1. PICK n \in U : \A m \in U : ~ (<<m, n>> \in OpToRel(<, Nat))
  BY WFMin, NatLessThanWellFounded
<1>2. \A m \in U : ~ (m < n)
  BY <1>1 DEF OpToRel
<1>3. n - 1 \in Nat /\ n - 1 \in T
  BY <1>2
<1> QED
  BY <1>3

\* One turn of the loop of SigsOf, over the n-th key, with g what the turns
\* before have left.
SigsTurn(i, signers, g, n) ==
    IF n = 0 THEN <<>>
    ELSE IF GuardianSets[i][n] \in signers
      THEN Append(g[n - 1], <<n, GuardianSets[i][n]>>)
    ELSE g[n - 1]

\* The recursive function of SigsOf exists.
LEMMA SigsIsDefined ==
    ASSUME NEW i \in SetIndices, NEW S
    PROVE  \A n \in Nat : \E g : g = [k \in 0 .. n |-> SigsTurn(i, S, g, k)]
<1> DEFINE T == { n \in Nat : \E g : g = [k \in 0 .. n |-> SigsTurn(i, S, g, k)] }
<1>1. 0 \in T
  <2> DEFINE g == [k \in 0 .. 0 |-> <<>>]
  <2>1. g = [k \in 0 .. 0 |-> SigsTurn(i, S, g, k)]
    BY DEF SigsTurn
  <2> QED
    BY <2>1
<1>2. ASSUME NEW n \in Nat, n \in T PROVE n + 1 \in T
  <2>1. PICK g : g = [k \in 0 .. n |-> SigsTurn(i, S, g, k)]
    BY <1>2
  <2> DEFINE h == [k \in 0 .. n + 1 |-> SigsTurn(i, S, g, k)]
  <2>2. ASSUME NEW k \in 0 .. n PROVE h[k] = g[k]
    BY <2>1
  <2>3. ASSUME NEW k \in 0 .. n + 1 PROVE SigsTurn(i, S, g, k) = SigsTurn(i, S, h, k)
    <3>1. CASE k = 0
      BY <3>1 DEF SigsTurn
    <3>2. CASE k # 0
      <4> HIDE DEF h
      <4>0. k - 1 \in 0 .. n
        BY <3>2
      <4>1. g[k - 1] = h[k - 1]
        BY <2>2, <4>0
      <4> QED
        BY <4>1 DEF SigsTurn
    <3> QED
      BY <3>1, <3>2
  <2>4. h = [k \in 0 .. n + 1 |-> SigsTurn(i, S, h, k)]
    BY <2>3
  <2> HIDE DEF h
  <2> QED
    BY <2>4
<1> HIDE DEF T
<1>3. \A n \in Nat : n \in T
  BY <1>1, <1>2, Induction
<1> QED
  BY <1>3 DEF T

\* s holds signatures of members of set i at positions up to n, each position
\* at most once and in ascending order.
Aggregated(i, s, n) ==
    /\ s \in Seq((Nat \ {0}) \X Guardians)
    /\ Len(s) <= n
    /\ \A k \in DOMAIN s : s[k][1] <= n /\ GuardianSets[i][s[k][1]] = s[k][2]
    /\ \A k, l \in DOMAIN s : k < l => s[k][1] < s[l][1]

LEMMA AggregateOne ==
    ASSUME NEW i \in SetIndices, NEW n \in Nat, n + 1 \in DOMAIN GuardianSets[i],
           NEW s, Aggregated(i, s, n)
    PROVE  Aggregated(i, Append(s, <<n + 1, GuardianSets[i][n + 1]>>), n + 1)
<1> DEFINE x == <<n + 1, GuardianSets[i][n + 1]>>
           t == Append(s, x)
<1>1. x \in (Nat \ {0}) \X Guardians
  BY ConstantsAssumption
<1>2. x[1] = n + 1 /\ x[2] = GuardianSets[i][x[1]]
  OBVIOUS
<1> HIDE DEF x
<1>3. s \in Seq((Nat \ {0}) \X Guardians) /\ Len(s) \in Nat /\ Len(s) <= n
  BY DEF Aggregated
<1>4. /\ t \in Seq((Nat \ {0}) \X Guardians)
      /\ Len(t) = Len(s) + 1
      /\ DOMAIN t = 1 .. Len(s) + 1
      /\ t[Len(s) + 1] = x
      /\ \A k \in 1 .. Len(s) : t[k] = s[k]
  BY <1>1, <1>3
<1>5. \A k \in 1 .. Len(s) : s[k][1] \in Nat /\ s[k][1] <= n
  BY <1>3 DEF Aggregated
<1> HIDE DEF t
<1>6. ASSUME NEW k \in DOMAIN t
      PROVE  t[k][1] <= n + 1 /\ GuardianSets[i][t[k][1]] = t[k][2]
  <2>1. CASE k = Len(s) + 1
    BY <1>2, <1>4, <2>1
  <2>2. CASE k \in 1 .. Len(s)
    <3>1. t[k] = s[k] /\ k \in DOMAIN s
      BY <1>3, <1>4, <2>2
    <3>2. s[k][1] <= n /\ GuardianSets[i][s[k][1]] = s[k][2] /\ s[k][1] \in Nat
      BY <1>5, <2>2, <3>1 DEF Aggregated
    <3> QED
      BY <3>1, <3>2
  <2> QED
    BY <1>3, <1>4, <2>1, <2>2
<1>7. ASSUME NEW k \in DOMAIN t, NEW l \in DOMAIN t, k < l
      PROVE  t[k][1] < t[l][1]
  <2>1. k \in 1 .. Len(s)
    BY <1>3, <1>4, <1>7
  <2>2. CASE l = Len(s) + 1
    BY <1>2, <1>4, <1>5, <2>1, <2>2
  <2>3. CASE l \in 1 .. Len(s)
    <3>1. DOMAIN s = 1 .. Len(s)
      BY <1>3
    <3>2. s[k][1] < s[l][1]
      BY <1>7, <2>1, <2>3, <3>1 DEF Aggregated
    <3> QED
      BY <1>4, <2>1, <2>3, <3>2
  <2> QED
    BY <1>3, <1>4, <2>2, <2>3
<1>8. Aggregated(i, t, n + 1)
  BY <1>3, <1>4, <1>6, <1>7 DEF Aggregated
<1> QED
  BY <1>8 DEF t, x

\* What the loop over the keys of set i leaves.
LEMMA SigsAggregated ==
    ASSUME NEW i \in SetIndices, NEW S
    PROVE  Aggregated(i, SigsOf(i, S), Len(GuardianSets[i]))
<1> DEFINE m == Len(GuardianSets[i])
           sigs == CHOOSE g : g = [k \in 0 .. m |-> SigsTurn(i, S, g, k)]
           T == { n \in Nat : n <= m => Aggregated(i, sigs[n], n) }
<1>1. m \in Nat /\ DOMAIN GuardianSets[i] = 1 .. m
  BY ConstantsAssumption
<1>2. SigsOf(i, S) = sigs[m]
  BY DEF SigsOf, SigsTurn
<1>3. \E g : g = [k \in 0 .. m |-> SigsTurn(i, S, g, k)]
  BY <1>1, SigsIsDefined
<1> HIDE DEF m
<1>4. sigs = [k \in 0 .. m |-> SigsTurn(i, S, sigs, k)]
  BY <1>3
<1> HIDE DEF sigs
<1>5. \A k \in 0 .. m : sigs[k] = SigsTurn(i, S, sigs, k)
  BY <1>4
<1>6. 0 \in T
  <2>1. 0 \in 0 .. m /\ SigsTurn(i, S, sigs, 0) = <<>>
    BY <1>1 DEF SigsTurn
  <2>2. sigs[0] = <<>>
    BY <1>5, <2>1
  <2>3. Aggregated(i, <<>>, 0)
    BY DEF Aggregated
  <2> QED
    BY <2>2, <2>3
<1>7. ASSUME NEW n \in Nat, n \in T PROVE n + 1 \in T
  <2> SUFFICES ASSUME n + 1 <= m PROVE Aggregated(i, sigs[n + 1], n + 1)
    OBVIOUS
  <2>1. Aggregated(i, sigs[n], n)
    BY <1>1, <1>7
  <2>2. n + 1 \in 0 .. m /\ n + 1 # 0 /\ (n + 1) - 1 = n
    BY <1>1
  <2>3. sigs[n + 1] = IF GuardianSets[i][n + 1] \in S
                        THEN Append(sigs[n], <<n + 1, GuardianSets[i][n + 1]>>)
                        ELSE sigs[n]
    BY <1>5, <2>2 DEF SigsTurn
  <2>4. Aggregated(i, Append(sigs[n], <<n + 1, GuardianSets[i][n + 1]>>), n + 1)
    BY <1>1, <2>1, AggregateOne
  <2>5. Aggregated(i, sigs[n], n + 1)
    BY <2>1 DEF Aggregated
  <2> QED
    BY <2>3, <2>4, <2>5
<1> HIDE DEF T
<1>8. \A n \in Nat : n \in T
  BY <1>6, <1>7, Induction
<1> QED
  BY <1>1, <1>2, <1>8 DEF T, m

\* The aggregated signatures are a list of positions and keys.
LEMMA SigsOfType ==
    ASSUME NEW i \in SetIndices, NEW S
    PROVE  SigsOf(i, S) \in Seq((Nat \ {0}) \X Guardians)
BY SigsAggregated DEF Aggregated

\* The signatures aggregated for a set verify against that set, in order.
LEMMA SigsOfVerify ==
    ASSUME NEW i \in SetIndices, NEW S, NEW v, v.sigs = SigsOf(i, S)
    PROVE  VerifySignatures(v, i) /\ InOrder(v)
<1> Aggregated(i, v.sigs, Len(GuardianSets[i]))
  BY SigsAggregated
<1> QED
  BY DEF Aggregated, VerifySignatures, InOrder

\* A fresh entry is an entry.
LEMMA StateOfType ==
    ASSUME TypeOK, NEW d \in Digests
    PROVE  StateOf(d) \in VaaState
<1>1. NewVaaState \in VaaState
  BY TimeAssumption DEF NewVaaState, VaaState
<1> QED
  BY <1>1 DEF StateOf, Has, TypeOK

LEMMA WithSignatureType ==
    ASSUME TypeOK, NEW d \in Digests, NEW g \in Guardians
    PROVE  WithSignature(g, d) \in VaaState
BY StateOfType DEF WithSignature, VaaState

LEMMA ApplicableSetType ==
    ASSUME TypeOK, NEW d \in Digests, ApplicableSet(d) # Nil
    PROVE  ApplicableSet(d) \in SetIndices
BY DEF ApplicableSet, TypeOK, VaaState, Has

\* An assembled VAA is a VAA.
LEMMA SignedByType ==
    ASSUME TypeOK, NEW d \in Digests, NEW g \in Guardians,
           Accepts(g, d), Completes(g, d)
    PROVE  SignedBy(g, d) \in SignedVAA
<1>1. ApplicableSet(d) \in SetIndices
  BY ApplicableSetType DEF Accepts
<1>2. WithSignature(g, d).ourVAA \in SetIndices
  BY WithSignatureType DEF Completes, VaaState
<1>3. SigsOf(ApplicableSet(d), WithSignature(g, d).signatures)
        \in Seq((Nat \ {0}) \X Guardians)
  BY <1>1, SigsOfType
<1> QED
  BY <1>2, <1>3 DEF SignedBy, SignedVAA

LEMMA StoreType ==
    ASSUME TypeOK, NEW v \in SignedVAA, NEW ok, StoreSignedVAA(v, ok)
    PROVE  db' \in [VaaIDs -> SignedVAA \cup {Nil}]
<1>1. IdOf[v.digest] \in VaaIDs
  BY ConstantsAssumption DEF SignedVAA
<1> QED
  BY <1>1 DEF StoreSignedVAA, TypeOK

LEMMA CleanedType ==
    ASSUME NEW e \in VaaState, NEW found
    PROVE  Cleaned(e, found) \in VaaState \cup {Nil}
<1>1. (e.settled \/ Settles(e, found)) \in BOOLEAN
  BY DEF VaaState, Settles, IsPending
<1>2. (IF Resubmits(e) THEN e.retryCount + 1 ELSE e.retryCount) \in Nat
  BY DEF VaaState
<1> QED
  BY <1>1, <1>2 DEF Cleaned, VaaState

LEMMA OlderType ==
    ASSUME NEW e \in VaaState
    PROVE  Older(e) \in VaaState
BY TimeAssumption DEF Older, VaaState

\* What a restart leaves is well typed.
LEMMA LoseMemoryType ==
    ASSUME TypeOK, LoseMemory
    PROVE  /\ gs' \in SetIndices \cup {Nil}
           /\ vaaSignatures' \in [Digests -> VaaState \cup {Nil}]
           /\ obsvC' \in [Digests -> Nat]
           /\ ethSet' \in SetIndices
           /\ held' \subseteq SetIndices
BY DEF TypeOK, LoseMemory

-----------------------------------------------------------------------------
(***************************************************************************)
(* Type correctness                                                        *)
(***************************************************************************)

LEMMA BroadcastType ==
    ASSUME TypeOK, NEW d \in Digests, NEW i \in SetIndices, BroadcastSignature(d, i)
    PROVE  /\ vaaSignatures' \in [Digests -> VaaState \cup {Nil}]
           /\ obsvC' \in [Digests -> Nat]
           /\ sent' \subseteq GossipMessage
<1>1. [StateOf(d) EXCEPT !.ourVAA = i, !.gs = gs] \in VaaState
  BY StateOfType DEF VaaState, TypeOK
<1>2. Observation(d) \in GossipMessage
  BY DEF Observation, GossipMessage
<1> QED
  BY <1>1, <1>2 DEF BroadcastSignature, TypeOK

LEMMA ObservationType ==
    ASSUME TypeOK, NEW d \in Digests, NEW g \in Guardians, HandleObservation(g, d)
    PROVE  /\ vaaSignatures' \in [Digests -> VaaState \cup {Nil}]
           /\ db' \in [VaaIDs -> SignedVAA \cup {Nil}]
           /\ sent' \subseteq GossipMessage
<1>1. WithSignature(g, d) \in VaaState
  BY WithSignatureType
<1>2. CASE RecordSignature(g, d)
  BY <1>1, <1>2 DEF RecordSignature, TypeOK
<1>3. CASE SubmitVAA(g, d)
  <2>1. SignedBy(g, d) \in SignedVAA
    BY <1>3, SignedByType DEF HandleObservation, SubmitVAA
  <2>2. db' \in [VaaIDs -> SignedVAA \cup {Nil}]
    BY <1>3, <2>1, StoreType DEF SubmitVAA
  <2>3. VAAMessage(SignedBy(g, d)) \in GossipMessage
    BY <2>1 DEF VAAMessage, GossipMessage
  <2>4. [WithSignature(g, d) EXCEPT !.submitted = TRUE] \in VaaState
    BY <1>1 DEF VaaState
  <2> QED
    BY <1>3, <2>2, <2>3, <2>4 DEF SubmitVAA, TypeOK
<1> QED
  BY <1>2, <1>3 DEF HandleObservation

LEMMA InitType == Init => TypeOK
BY DEF Init, TypeOK

LEMMA NextType == TypeOK /\ [Next]_vars => TypeOK'
<1> SUFFICES ASSUME TypeOK, [Next]_vars PROVE TypeOK'
  OBVIOUS
<1>1. CASE EthereumUpgrade
  BY <1>1 DEF EthereumUpgrade, TypeOK
<1>2. CASE SetGuardianSet
  BY <1>2 DEF SetGuardianSet, TypeOK
<1>3. ASSUME NEW d \in Digests, HandleMessage(d) PROVE TypeOK'
  <2>1. gs \in SetIndices
    BY <1>3 DEF HandleMessage, TypeOK
  <2> QED
    BY <1>3, <2>1, BroadcastType DEF HandleMessage, TypeOK
<1>4. ASSUME NEW d \in Digests, NEW i \in SetIndices, HandleInjection(d, i) PROVE TypeOK'
  BY <1>4, BroadcastType DEF HandleInjection, TypeOK
<1>5. ASSUME NEW g \in Guardians, NEW d \in Digests, HandleRemoteObservation(g, d)
      PROVE  TypeOK'
  BY <1>5, ObservationType DEF HandleRemoteObservation, TypeOK
<1>6. ASSUME NEW d \in Digests, HandleOwnObservation(d) PROVE TypeOK'
  <2>1. obsvC' \in [Digests -> Nat]
    BY <1>6 DEF HandleOwnObservation, TypeOK
  <2>2. Self \in Guardians
    BY ConstantsAssumption
  <2>3. CASE HandleObservation(Self, d)
    BY <1>6, <2>1, <2>2, <2>3, ObservationType DEF HandleOwnObservation, TypeOK
  <2>4. CASE UNCHANGED <<vaaSignatures, db, sent>>
    BY <1>6, <2>1, <2>4 DEF HandleOwnObservation, TypeOK
  <2> QED
    BY <1>6, <2>3, <2>4 DEF HandleOwnObservation
<1>7. ASSUME NEW v \in GossipedVAAs, HandleInboundSignedVAAWithQuorum(v)
      PROVE  TypeOK'
  <2>1. v \in SignedVAA
    BY GossipAssumption
  <2>2. db' \in [VaaIDs -> SignedVAA \cup {Nil}]
    BY <1>7, <2>1, StoreType DEF HandleInboundSignedVAAWithQuorum
  <2> QED
    BY <1>7, <2>2 DEF HandleInboundSignedVAAWithQuorum, TypeOK
<1>8. CASE HandleCleanup
  <2> PICK found \in Lookups :
        /\ vaaSignatures' =
             [d \in Digests |-> IF Has(d) THEN Cleaned(vaaSignatures[d], d \in found)
                                          ELSE Nil]
        /\ sent' = sent \cup { Observation(d) : d \in { x \in Entries : Resubmits(vaaSignatures[x]) } }
        /\ UNCHANGED <<gs, db, obsvC, ethSet, held>>
    BY <1>8 DEF HandleCleanup
  <2>1. ASSUME NEW d \in Digests, Has(d)
        PROVE  Cleaned(vaaSignatures[d], d \in found) \in VaaState \cup {Nil}
    BY <2>1, CleanedType DEF Has, TypeOK
  <2>2. vaaSignatures' \in [Digests -> VaaState \cup {Nil}]
    BY <2>1
  <2>3. sent' \subseteq GossipMessage
    BY DEF TypeOK, GossipMessage, Observation, Entries
  <2> QED
    BY <2>2, <2>3 DEF TypeOK
<1>9. CASE Tick
  <2>1. ASSUME NEW d \in Digests, Has(d) PROVE Older(vaaSignatures[d]) \in VaaState
    BY <2>1, OlderType DEF Has, TypeOK
  <2> QED
    BY <1>9, <2>1 DEF Tick, TypeOK
<1>10. CASE Crash
  BY <1>10, LoseMemoryType DEF Crash, TypeOK
<1>11. CASE CleanupPanic
  BY <1>11, LoseMemoryType DEF CleanupPanic, TypeOK
<1>12. ASSUME NEW g \in Guardians, NEW d \in Digests, CrashAfterStore(g, d) PROVE TypeOK'
  <2>1. SignedBy(g, d) \in SignedVAA
    BY <1>12, SignedByType DEF CrashAfterStore
  <2>2. db' \in [VaaIDs -> SignedVAA \cup {Nil}]
    BY <1>12, <2>1, StoreType DEF CrashAfterStore
  <2> QED
    BY <1>12, <2>2, LoseMemoryType DEF CrashAfterStore, TypeOK
<1>13. CASE UNCHANGED vars
  BY <1>13 DEF vars, TypeOK
<1> QED
  BY <1>1, <1>2, <1>3, <1>4, <1>5, <1>6, <1>7, <1>8, <1>9, <1>10, <1>11, <1>12, <1>13
  DEF Next

\* Every variable of the processor keeps its type, whatever the environment
\* delivers and wherever the process dies.
THEOREM TypeCorrect == Spec => []TypeOK
BY InitType, NextType, PTL DEF Spec

-----------------------------------------------------------------------------
(***************************************************************************)
(* What a step does to the VAAs stored and broadcast                       *)
(***************************************************************************)

\* VAA v was assembled here in this step, by handleObservation.
AssembledNow(v) ==
    \E g \in Guardians, d \in Digests :
        Accepts(g, d) /\ Completes(g, d) /\ v = SignedBy(g, d)

\* VAA v passed the checks of handleInboundSignedVAAWithQuorum in this step.
ReceivedNow(v) ==
    /\ v \in SignedVAA
    /\ v \in GossipedVAAs
    /\ gs # Nil
    /\ Checked(v, gs)
    /\ db[IdOf[v.digest]] = Nil

\* Either the database stays as it is, or one VAA is stored.
DBStep ==
    \/ db' = db
    \/ \E v : /\ AssembledNow(v) \/ ReceivedNow(v)
              /\ db' = [db EXCEPT ![IdOf[v.digest]] = v]

\* Either no VAA is broadcast, or one assembled in this step is.
SentStep ==
    \/ BroadcastVAAs' = BroadcastVAAs
    \/ \E v : AssembledNow(v) /\ BroadcastVAAs' = BroadcastVAAs \cup {v}

LEMMA BroadcastOne ==
    ASSUME NEW v, sent' = sent \cup {VAAMessage(v)}
    PROVE  BroadcastVAAs' = BroadcastVAAs \cup {v}
<1>1. VAAMessage(v).type = "signedVAA" /\ VAAMessage(v).vaa = v
  BY DEF VAAMessage
<1> HIDE DEF VAAMessage
<1>2. { x \in sent' : x.type = "signedVAA" }
        = { x \in sent : x.type = "signedVAA" } \cup {VAAMessage(v)}
  BY <1>1
<1> QED
  BY <1>1, <1>2 DEF BroadcastVAAs

LEMMA ObservationSteps ==
    ASSUME NEW g \in Guardians, NEW d \in Digests, HandleObservation(g, d)
    PROVE  DBStep /\ SentStep
<1>1. CASE RecordSignature(g, d)
  BY <1>1 DEF RecordSignature, DBStep, SentStep, BroadcastVAAs
<1>2. CASE SubmitVAA(g, d)
  <2>1. AssembledNow(SignedBy(g, d))
    BY <1>2 DEF HandleObservation, SubmitVAA, AssembledNow
  <2>2. DBStep
    BY <1>2, <2>1 DEF SubmitVAA, StoreSignedVAA, DBStep
  <2>3. BroadcastVAAs' = BroadcastVAAs \cup {SignedBy(g, d)}
    BY <1>2, BroadcastOne DEF SubmitVAA
  <2> QED
    BY <2>1, <2>2, <2>3 DEF SentStep
<1> QED
  BY <1>1, <1>2 DEF HandleObservation

LEMMA ObservationsOnly ==
    ASSUME NEW D, sent' = sent \cup { Observation(d) : d \in D }
    PROVE  BroadcastVAAs' = BroadcastVAAs
BY DEF BroadcastVAAs, Observation

LEMMA NextSteps == [Next]_vars => DBStep /\ SentStep
<1> SUFFICES ASSUME [Next]_vars PROVE DBStep /\ SentStep
  OBVIOUS
<1>0. ASSUME UNCHANGED sent PROVE BroadcastVAAs' = BroadcastVAAs
  BY <1>0 DEF BroadcastVAAs
<1>1. CASE EthereumUpgrade
  BY <1>0, <1>1 DEF EthereumUpgrade, DBStep, SentStep
<1>2. CASE SetGuardianSet
  BY <1>0, <1>2 DEF SetGuardianSet, DBStep, SentStep
<1>3. ASSUME NEW d \in Digests, NEW i, BroadcastSignature(d, i), UNCHANGED db
      PROVE  DBStep /\ SentStep
  <2>1. sent' = sent \cup { Observation(x) : x \in {d} }
    BY <1>3 DEF BroadcastSignature
  <2> QED
    BY <1>3, <2>1, ObservationsOnly DEF DBStep, SentStep
<1>4. ASSUME NEW d \in Digests, HandleMessage(d) PROVE DBStep /\ SentStep
  BY <1>3, <1>4 DEF HandleMessage
<1>5. ASSUME NEW d \in Digests, NEW i \in SetIndices, HandleInjection(d, i)
      PROVE  DBStep /\ SentStep
  BY <1>3, <1>5 DEF HandleInjection
<1>6. ASSUME NEW g \in Guardians, NEW d \in Digests, HandleRemoteObservation(g, d)
      PROVE  DBStep /\ SentStep
  BY <1>6, ObservationSteps DEF HandleRemoteObservation
<1>7. ASSUME NEW d \in Digests, HandleOwnObservation(d) PROVE DBStep /\ SentStep
  <2>1. CASE HandleObservation(Self, d)
    BY <2>1, ObservationSteps, ConstantsAssumption
  <2>2. CASE UNCHANGED <<vaaSignatures, db, sent>>
    BY <1>0, <2>2 DEF DBStep, SentStep
  <2> QED
    BY <1>7, <2>1, <2>2 DEF HandleOwnObservation
<1>8. ASSUME NEW v \in GossipedVAAs, HandleInboundSignedVAAWithQuorum(v)
      PROVE  DBStep /\ SentStep
  <2>1. v \in SignedVAA
    BY GossipAssumption
  <2>2. ReceivedNow(v)
    BY <1>8, <2>1 DEF HandleInboundSignedVAAWithQuorum, ReceivedNow, Checked
  <2>3. db' = [db EXCEPT ![IdOf[v.digest]] = v]
    BY <1>8 DEF HandleInboundSignedVAAWithQuorum, StoreSignedVAA
  <2>4. DBStep
    BY <2>2, <2>3 DEF DBStep
  <2> QED
    BY <1>0, <1>8, <2>4 DEF HandleInboundSignedVAAWithQuorum, SentStep
<1>9. CASE HandleCleanup
  BY <1>9, ObservationsOnly DEF HandleCleanup, DBStep, SentStep
<1>10. CASE Tick
  BY <1>0, <1>10 DEF Tick, DBStep, SentStep
<1>11. CASE Crash
  BY <1>0, <1>11 DEF Crash, DBStep, SentStep
<1>12. CASE CleanupPanic
  BY <1>0, <1>12 DEF CleanupPanic, DBStep, SentStep
<1>13. ASSUME NEW g \in Guardians, NEW d \in Digests, CrashAfterStore(g, d)
       PROVE  DBStep /\ SentStep
  <2>1. AssembledNow(SignedBy(g, d))
    BY <1>13 DEF CrashAfterStore, AssembledNow
  <2>2. DBStep
    BY <1>13, <2>1 DEF CrashAfterStore, StoreSignedVAA, DBStep
  <2> QED
    BY <1>0, <1>13, <2>2 DEF CrashAfterStore, SentStep
<1>14. CASE UNCHANGED vars
  BY <1>0, <1>14 DEF vars, DBStep, SentStep
<1> QED
  BY <1>1, <1>2, <1>4, <1>5, <1>6, <1>7, <1>8, <1>9, <1>10, <1>11, <1>12, <1>13, <1>14
  DEF Next

-----------------------------------------------------------------------------
(***************************************************************************)
(* The guardian set an entry is aggregated under                           *)
(***************************************************************************)

\* The set kept with the entry of a chain message is the one ourVAA names, and
\* every set in use was read from Ethereum by this node.
EntrySets ==
    /\ gs # Nil => gs \in held
    /\ \A d \in Digests :
         Has(d) =>
           /\ vaaSignatures[d].gs # Nil => vaaSignatures[d].gs \in held
           /\ d \notin GovernanceDigests /\ vaaSignatures[d].ourVAA # Nil =>
                vaaSignatures[d].gs = vaaSignatures[d].ourVAA

\* A field an action leaves alone.
LEMMA FreshSets ==
    /\ NewVaaState.ourVAA = Nil
    /\ NewVaaState.gs = Nil
    /\ NewVaaState.submitted = FALSE
    /\ NewVaaState.signatures = {}
BY DEF NewVaaState

\* e and f agree on the VAA, the guardian set and what was signed.
SameSets(e, f) ==
    /\ e.ourVAA = f.ourVAA
    /\ e.gs = f.gs
    /\ e.signatures = f.signatures
    /\ e.submitted = f.submitted

LEMMA CleanedSame ==
    ASSUME NEW e \in VaaState, NEW found, Cleaned(e, found) # Nil
    PROVE  SameSets(Cleaned(e, found), e)
BY DEF Cleaned, VaaState, SameSets

LEMMA OlderSame ==
    ASSUME NEW e \in VaaState
    PROVE  SameSets(Older(e), e)
BY DEF Older, VaaState, SameSets

\* The entry of d after g's observation: only signatures and submitted differ.
LEMMA ObservedEntry ==
    ASSUME TypeOK, NEW g \in Guardians, NEW d \in Digests, HandleObservation(g, d)
    PROVE  /\ Has(d)'
           /\ vaaSignatures'[d].ourVAA = StateOf(d).ourVAA
           /\ vaaSignatures'[d].gs = StateOf(d).gs
           /\ vaaSignatures'[d].signatures = StateOf(d).signatures \cup {g}
           /\ ~Completes(g, d) => vaaSignatures'[d].submitted = StateOf(d).submitted
           /\ Completes(g, d) => vaaSignatures'[d].submitted
           /\ \A x \in Digests \ {d} : vaaSignatures'[x] = vaaSignatures[x]
<1>1. StateOf(d) \in VaaState /\ WithSignature(g, d) \in VaaState
  BY StateOfType, WithSignatureType
<1>2. /\ WithSignature(g, d).ourVAA = StateOf(d).ourVAA
      /\ WithSignature(g, d).gs = StateOf(d).gs
      /\ WithSignature(g, d).signatures = StateOf(d).signatures \cup {g}
      /\ WithSignature(g, d).submitted = StateOf(d).submitted
  BY <1>1 DEF WithSignature, VaaState
<1>3. CASE RecordSignature(g, d)
  <2>1. vaaSignatures' = [vaaSignatures EXCEPT ![d] = WithSignature(g, d)]
    BY <1>3 DEF RecordSignature
  <2>2. vaaSignatures'[d] = WithSignature(g, d)
    BY <2>1 DEF TypeOK
  <2>3. Has(d)'
    BY <1>1, <2>2, NilAssumption DEF Has
  <2> QED
    BY <1>2, <1>3, <2>1, <2>2, <2>3 DEF TypeOK, RecordSignature
<1>4. CASE SubmitVAA(g, d)
  <2> DEFINE e == [WithSignature(g, d) EXCEPT !.submitted = TRUE]
  <2>1. vaaSignatures' = [vaaSignatures EXCEPT ![d] = e]
    BY <1>4 DEF SubmitVAA
  <2>2. /\ e \in VaaState
        /\ e.ourVAA = WithSignature(g, d).ourVAA
        /\ e.gs = WithSignature(g, d).gs
        /\ e.signatures = WithSignature(g, d).signatures
        /\ e.submitted
    BY <1>1 DEF VaaState
  <2> HIDE DEF e
  <2>3. vaaSignatures'[d] = e
    BY <2>1 DEF TypeOK
  <2>4. Has(d)'
    BY <2>2, <2>3, NilAssumption DEF Has
  <2> QED
    BY <1>2, <1>4, <2>1, <2>2, <2>3, <2>4 DEF TypeOK, SubmitVAA
<1> QED
  BY <1>3, <1>4 DEF HandleObservation

\* The entry of d after our own observation.
LEMMA BroadcastEntry ==
    ASSUME TypeOK, NEW d \in Digests, NEW i \in SetIndices, BroadcastSignature(d, i)
    PROVE  /\ vaaSignatures'[d].ourVAA = i
           /\ vaaSignatures'[d].gs = gs
           /\ vaaSignatures'[d].submitted = StateOf(d).submitted
           /\ \A x \in Digests \ {d} : vaaSignatures'[x] = vaaSignatures[x]
BY StateOfType DEF BroadcastSignature, TypeOK, VaaState

LEMMA EntrySetsInit == Init => EntrySets
BY DEF Init, EntrySets, Has

\* An action that keeps the sets in use, and leaves each entry alone, forgets
\* it, or changes neither its VAA nor its set, preserves EntrySets.
LEMMA EntrySetsKept ==
    ASSUME EntrySets, held \subseteq held', gs' # Nil => gs' \in held',
           \A d \in Digests :
             Has(d)' => /\ Has(d)
                        /\ SameSets(vaaSignatures'[d], vaaSignatures[d])
    PROVE  EntrySets'
BY DEF EntrySets, SameSets, Has

LEMMA EntrySetsBroadcast ==
    ASSUME TypeOK, EntrySets, NEW d \in Digests, NEW i \in SetIndices,
           BroadcastSignature(d, i), d \notin GovernanceDigests => i = gs,
           UNCHANGED <<gs, held>>
    PROVE  EntrySets'
BY BroadcastEntry DEF EntrySets, Has

LEMMA EntrySetsObserve ==
    ASSUME TypeOK, EntrySets, NEW g \in Guardians, NEW d \in Digests,
           HandleObservation(g, d), UNCHANGED <<gs, held>>
    PROVE  EntrySets'
<1>1. ASSUME NEW x \in Digests, Has(x)'
      PROVE  /\ vaaSignatures'[x].gs # Nil => vaaSignatures'[x].gs \in held'
             /\ x \notin GovernanceDigests /\ vaaSignatures'[x].ourVAA # Nil =>
                  vaaSignatures'[x].gs = vaaSignatures'[x].ourVAA
  <2>1. CASE x = d
    BY <2>1, ObservedEntry, FreshSets DEF EntrySets, StateOf
  <2>2. CASE x # d
    <3>1. vaaSignatures'[x] = vaaSignatures[x]
      BY <2>2, ObservedEntry
    <3> QED
      BY <1>1, <3>1 DEF EntrySets, Has
  <2> QED
    BY <2>1, <2>2
<1> QED
  BY <1>1 DEF EntrySets

LEMMA EntrySetsNext == TypeOK /\ EntrySets /\ [Next]_vars => EntrySets'
<1> SUFFICES ASSUME TypeOK, EntrySets, [Next]_vars PROVE EntrySets'
  OBVIOUS
<1>0. ASSUME LoseMemory PROVE EntrySets'
  BY <1>0 DEF LoseMemory, EntrySets, Has
<1>1. ASSUME UNCHANGED <<gs, vaaSignatures, held>> PROVE EntrySets'
  BY <1>1 DEF EntrySets, Has
<1>2. CASE EthereumUpgrade
  BY <1>1, <1>2 DEF EthereumUpgrade
<1>3. CASE SetGuardianSet
  BY <1>3 DEF SetGuardianSet, EntrySets, Has
<1>4. ASSUME NEW d \in Digests, HandleMessage(d) PROVE EntrySets'
  BY <1>4, EntrySetsBroadcast DEF HandleMessage, TypeOK
<1>5. ASSUME NEW d \in Digests, NEW i \in SetIndices, HandleInjection(d, i)
      PROVE  EntrySets'
  BY <1>5, EntrySetsBroadcast DEF HandleInjection
<1>6. ASSUME NEW g \in Guardians, NEW d \in Digests, HandleRemoteObservation(g, d)
      PROVE  EntrySets'
  BY <1>6, EntrySetsObserve DEF HandleRemoteObservation
<1>7. ASSUME NEW d \in Digests, HandleOwnObservation(d) PROVE EntrySets'
  BY <1>1, <1>7, EntrySetsObserve, ConstantsAssumption DEF HandleOwnObservation
<1>8. ASSUME NEW v, HandleInboundSignedVAAWithQuorum(v) PROVE EntrySets'
  BY <1>1, <1>8 DEF HandleInboundSignedVAAWithQuorum
<1>9. CASE HandleCleanup
  <2>1. ASSUME NEW d \in Digests, Has(d)'
        PROVE  Has(d) /\ SameSets(vaaSignatures'[d], vaaSignatures[d])
    <3>1. PICK found \in Lookups :
            vaaSignatures'[d] = IF Has(d) THEN Cleaned(vaaSignatures[d], d \in found) ELSE Nil
      BY <1>9 DEF HandleCleanup
    <3>2. Has(d) /\ vaaSignatures'[d] = Cleaned(vaaSignatures[d], d \in found)
      BY <2>1, <3>1 DEF Has
    <3> QED
      BY <2>1, <3>2, CleanedSame DEF Has, TypeOK
  <2> QED
    BY <1>9, <2>1, EntrySetsKept DEF HandleCleanup, EntrySets
<1>10. CASE Tick
  <2>1. ASSUME NEW d \in Digests, Has(d)'
        PROVE  Has(d) /\ SameSets(vaaSignatures'[d], vaaSignatures[d])
    BY <1>10, <2>1, OlderSame DEF Tick, Has, TypeOK
  <2> QED
    BY <1>10, <2>1, EntrySetsKept DEF Tick, EntrySets
<1>11. CASE Crash
  BY <1>0, <1>11 DEF Crash
<1>12. CASE CleanupPanic
  BY <1>0, <1>12 DEF CleanupPanic
<1>13. ASSUME NEW g \in Guardians, NEW d \in Digests, CrashAfterStore(g, d)
       PROVE  EntrySets'
  BY <1>0, <1>13 DEF CrashAfterStore
<1>14. CASE UNCHANGED vars
  BY <1>1, <1>14 DEF vars
<1> QED
  BY <1>2, <1>3, <1>4, <1>5, <1>6, <1>7, <1>8, <1>9, <1>10, <1>11, <1>12, <1>13, <1>14
  DEF Next

-----------------------------------------------------------------------------
(***************************************************************************)
(* Stored and broadcast VAAs                                               *)
(***************************************************************************)

\* A VAA handleObservation assembles is signed by a quorum of a set this node
\* has held, and of the set it names unless it was injected.
LEMMA AssembledValid ==
    ASSUME TypeOK, EntrySets, NEW v, AssembledNow(v)
    PROVE  /\ \E i \in held : ValidFor(v, i)
           /\ v.digest \notin GovernanceDigests => ValidFor(v, v.gsIndex)
<1> PICK g \in Guardians, d \in Digests :
      Accepts(g, d) /\ Completes(g, d) /\ v = SignedBy(g, d)
  BY DEF AssembledNow
<1> DEFINE i == ApplicableSet(d)
<1>1. i \in SetIndices /\ i # Nil
  BY ApplicableSetType DEF Accepts
<1>2. ValidFor(v, i)
  <2>1. v.sigs = SigsOf(i, WithSignature(g, d).signatures)
    BY DEF SignedBy
  <2>2. VerifySignatures(v, i) /\ InOrder(v)
    BY <1>1, <2>1, SigsOfVerify
  <2> QED
    BY <2>1, <2>2 DEF ValidFor, Checked, Completes
<1>3. i \in held
  BY <1>1 DEF ApplicableSet, EntrySets
<1>4. v.digest = d /\ v.gsIndex = StateOf(d).ourVAA /\ StateOf(d).ourVAA # Nil
  <2>1. WithSignature(g, d).ourVAA = StateOf(d).ourVAA
    BY StateOfType DEF WithSignature, VaaState
  <2> QED
    BY <2>1 DEF SignedBy, Completes
<1>5. ASSUME d \notin GovernanceDigests PROVE v.gsIndex = i
  BY <1>4, <1>5, FreshSets, NilAssumption, StateOfType
  DEF StateOf, EntrySets, ApplicableSet, TypeOK, VaaState
<1> QED
  BY <1>2, <1>3, <1>4, <1>5

\* A VAA accepted from gossip passed the checks against the current set.
LEMMA ReceivedChecked ==
    ASSUME EntrySets, NEW v, ReceivedNow(v)
    PROVE  v \in GossipedVAAs /\ \E i \in held : Checked(v, i)
BY DEF ReceivedNow, EntrySets

\* A row of the database after a step is an old row or the VAA of the step.
LEMMA StoredStep ==
    ASSUME TypeOK, NEW v, v \in StoredVAAs', DBStep
    PROVE  v \in StoredVAAs \/ AssembledNow(v) \/ ReceivedNow(v)
<1>1. PICK id \in VaaIDs : db'[id] # Nil /\ v = db'[id]
  BY DEF StoredVAAs
<1>2. CASE db'[id] = db[id]
  BY <1>1, <1>2 DEF StoredVAAs
<1>3. CASE db'[id] # db[id]
  BY <1>1, <1>3 DEF DBStep, TypeOK
<1> QED
  BY <1>2, <1>3

\* The guardian sets in use only grow.
LEMMA HeldGrows == [Next]_vars => held \subseteq held'
BY DEF Next, vars, EthereumUpgrade, SetGuardianSet, HandleMessage, HandleInjection,
       HandleRemoteObservation, HandleOwnObservation, HandleInboundSignedVAAWithQuorum,
       HandleCleanup, Tick, Crash, CleanupPanic, CrashAfterStore, LoseMemory

\* A VAA assembled here was so before the step, or is in this step.
LEMMA AssembledStep ==
    ASSUME TypeOK, NEW v, v \in AssembledVAAs', [Next]_vars
    PROVE  v \in AssembledVAAs \/ AssembledNow(v)
<1>1. DBStep /\ SentStep
  BY NextSteps
<1>2. CASE v \in BroadcastVAAs'
  BY <1>1, <1>2 DEF SentStep, AssembledVAAs
<1>3. CASE v \in StoredVAAs' /\ v \notin GossipedVAAs
  BY <1>1, <1>3, StoredStep DEF AssembledVAAs, ReceivedNow
<1> QED
  BY <1>2, <1>3 DEF AssembledVAAs

\* A VAA of a chain message that this node assembled is signed by a quorum of
\* the guardian set it names, in the order the contracts demand, whatever peers
\* send it.
THEOREM NamedSetSigned == Spec => []QuorumOfNamedSet
<1> DEFINE IInv == TypeOK /\ EntrySets /\ QuorumOfNamedSet
<1>1. Init => IInv
  BY InitType, EntrySetsInit
  DEF Init, QuorumOfNamedSet, AssembledVAAs, StoredVAAs, BroadcastVAAs
<1>2. IInv /\ [Next]_vars => IInv'
  <2> SUFFICES ASSUME IInv, [Next]_vars PROVE QuorumOfNamedSet'
    BY NextType, EntrySetsNext
  <2>1. ASSUME NEW v, v \in AssembledVAAs', v.digest \notin GovernanceDigests
        PROVE  ValidFor(v, v.gsIndex)
    BY <2>1, AssembledStep, AssembledValid DEF QuorumOfNamedSet
  <2> QED
    BY <2>1 DEF QuorumOfNamedSet
<1>3. IInv => QuorumOfNamedSet
  OBVIOUS
<1> QED
  BY <1>1, <1>2, <1>3, PTL DEF Spec

\* Every VAA in the database passed the checks against a guardian set this node
\* read from Ethereum itself; those it assembled, injected ones included, are
\* signed by a quorum of different guardians of that set.
THEOREM StoredVerified == Spec => []VerifiedHere
<1> DEFINE IInv == TypeOK /\ EntrySets /\ VerifiedHere
           Here(v, i) == Checked(v, i) /\ (v \in GossipedVAAs \/ InOrder(v))
<1>1. Init => IInv
  BY InitType, EntrySetsInit DEF Init, VerifiedHere, StoredVAAs
<1>2. IInv /\ [Next]_vars => IInv'
  <2> SUFFICES ASSUME IInv, [Next]_vars PROVE VerifiedHere'
    BY NextType, EntrySetsNext
  <2>1. ASSUME NEW v, v \in StoredVAAs' PROVE \E i \in held' : Here(v, i)
    <3>1. CASE v \in StoredVAAs
      BY <3>1, HeldGrows DEF VerifiedHere
    <3>2. CASE AssembledNow(v)
      BY <3>2, AssembledValid, HeldGrows DEF ValidFor
    <3>3. CASE ReceivedNow(v)
      BY <3>3, ReceivedChecked, HeldGrows
    <3> QED
      BY <2>1, <3>1, <3>2, <3>3, NextSteps, StoredStep
  <2> QED
    BY <2>1 DEF VerifiedHere
<1>3. IInv => VerifiedHere
  OBVIOUS
<1> QED
  BY <1>1, <1>2, <1>3, PTL DEF Spec

-----------------------------------------------------------------------------
(***************************************************************************)
(* What a quorum is worth                                                  *)
(***************************************************************************)

\* Go's two truncating divisions lose nothing: a quorum is the least number of
\* signatures that is more than two thirds of the guardians (CalculateQuorum of
\* quorum.go, and the contracts' formula).
THEOREM QuorumIsLeast ==
    ASSUME NEW n \in Nat
    PROVE  LET q == CalculateQuorum(n)
           IN  q \in Nat \ {0} /\ 3 * q > 2 * n /\ 3 * (q - 1) <= 2 * n
<1> DEFINE a == (n * 10) \div 3   b == (a * 2) \div 10
<1>1. a \in Nat /\ 3 * a <= n * 10 /\ n * 10 < 3 * a + 3
  OBVIOUS
<1> HIDE DEF a
<1>2. b \in Nat /\ 10 * b <= a * 2 /\ a * 2 < 10 * b + 10
  BY <1>1
<1>3. CalculateQuorum(n) = b + 1
  BY DEF CalculateQuorum, a
<1> HIDE DEF b
<1> QED
  BY <1>1, <1>2, <1>3

\* The places of guardian set i, each with its key.
Places(i) == [k \in DOMAIN GuardianSets[i] |-> <<k, GuardianSets[i][k]>>]

\* As many signatures as positions, at most.
LEMMA PlacesOf ==
    ASSUME NEW i \in SetIndices, NEW F \in SUBSET DOMAIN GuardianSets[i]
    PROVE  LET signed == { Places(i)[k] : k \in F }
           IN  /\ IsFiniteSet(F) /\ IsFiniteSet(signed)
               /\ Cardinality(signed) <= Cardinality(F)
<1> DEFINE signed == { Places(i)[k] : k \in F }
           f == [k \in F |-> Places(i)[k]]
<1>1. GuardianSets[i] \in Seq(Guardians)
  BY ConstantsAssumption
<1>2. Len(GuardianSets[i]) \in Nat /\ DOMAIN GuardianSets[i] = 1 .. Len(GuardianSets[i])
  BY <1>1
<1>3. IsFiniteSet(1 .. Len(GuardianSets[i]))
  BY <1>2, FS_Interval
<1>4. IsFiniteSet(F)
  BY <1>2, <1>3, FS_Subset
<1>5. f \in Surjection(F, signed)
  BY DEF Surjection
<1> HIDE DEF f, signed
<1>6. IsFiniteSet(signed) /\ Cardinality(signed) <= Cardinality(F)
  BY <1>4, <1>5, FS_Surjection
<1> QED
  BY <1>4, <1>6 DEF signed

\* The places v is signed at, however often.
SignedAt(v) == { v.sigs[k] : k \in DOMAIN v.sigs }

\* The signatures of a VAA that verifies are places of the set.
LEMMA SignedPlaces ==
    ASSUME NEW i \in SetIndices, NEW v \in SignedVAA, VerifySignatures(v, i)
    PROVE  SignedAt(v) \subseteq { Places(i)[k] : k \in DOMAIN GuardianSets[i] }
<1> SUFFICES ASSUME NEW n \in DOMAIN v.sigs
             PROVE  \E k \in DOMAIN GuardianSets[i] : v.sigs[n] = Places(i)[k]
  BY DEF SignedAt
<1> DEFINE s == v.sigs[n]
<1>1. GuardianSets[i] \in Seq(Guardians)
  BY ConstantsAssumption
<1>2. s \in (Nat \ {0}) \X Guardians
  BY DEF SignedVAA
<1>3. s[1] <= Len(GuardianSets[i]) /\ GuardianSets[i][s[1]] = s[2]
  BY DEF VerifySignatures
<1> HIDE DEF s
<1>4. s[1] \in DOMAIN GuardianSets[i] /\ s = <<s[1], s[2]>>
  BY <1>1, <1>2, <1>3
<1>5. s = Places(i)[s[1]]
  BY <1>3, <1>4 DEF Places
<1> QED
  BY <1>4, <1>5 DEF s

\* Signatures in order are of different guardians: as many places as entries.
LEMMA InOrderCounts ==
    ASSUME NEW v \in SignedVAA, InOrder(v)
    PROVE  IsFiniteSet(SignedAt(v)) /\ Cardinality(SignedAt(v)) = Len(v.sigs)
<1> DEFINE n == Len(v.sigs)
           f == [k \in 1 .. n |-> v.sigs[k]]
<1>1. v.sigs \in Seq((Nat \ {0}) \X Guardians) /\ n \in Nat /\ DOMAIN v.sigs = 1 .. n
  BY DEF SignedVAA
<1>2. \A k \in 1 .. n : v.sigs[k][1] \in Nat
  BY <1>1
<1>3. ASSUME NEW k \in 1 .. n, NEW l \in 1 .. n, v.sigs[k] = v.sigs[l] PROVE k = l
  <2>1. ~ (v.sigs[k][1] < v.sigs[l][1]) /\ ~ (v.sigs[l][1] < v.sigs[k][1])
    BY <1>2, <1>3
  <2>2. \A a, b \in 1 .. n : a < b => v.sigs[a][1] < v.sigs[b][1]
    BY <1>1 DEF InOrder
  <2> HIDE DEF n
  <2>3. ~ (k < l) /\ ~ (l < k)
    BY <2>1, <2>2
  <2> QED
    BY <1>1, <2>3
<1> HIDE DEF n
<1>4. f \in Bijection(1 .. n, SignedAt(v))
  BY <1>1, <1>3 DEF Bijection, Injection, Surjection, IsInjective, SignedAt
<1>5. IsFiniteSet(1 .. n) /\ Cardinality(1 .. n) = n
  BY <1>1, FS_Interval
<1> HIDE DEF f
<1> QED
  <2>1. IsFiniteSet(SignedAt(v)) /\ Cardinality(SignedAt(v)) = n
    BY <1>4, <1>5, FS_Bijection DEF ExistsBijection
  <2> QED
    BY <2>1 DEF n

\* Two VAAs valid for one guardian set have a signer in common outside any third
\* of the set.
LEMMA QuorumsMeet ==
    ASSUME NEW i \in SetIndices, NEW v \in SignedVAA, NEW w \in SignedVAA,
           ValidFor(v, i), ValidFor(w, i),
           NEW F \in SUBSET DOMAIN GuardianSets[i],
           3 * Cardinality(F) <= Len(GuardianSets[i])
    PROVE  \E k \in DOMAIN GuardianSets[i] \ F : Places(i)[k] \in SignedAt(v) \cap SignedAt(w)
<1> DEFINE n == Len(GuardianSets[i])
           q == CalculateQuorum(n)
           all == { Places(i)[k] : k \in DOMAIN GuardianSets[i] }
           bad == { Places(i)[k] : k \in F }
           both == SignedAt(v) \cap SignedAt(w)
           either == SignedAt(v) \cup SignedAt(w)
<1>1. n \in Nat /\ DOMAIN GuardianSets[i] = 1 .. n
  BY ConstantsAssumption
<1>2. IsFiniteSet(all) /\ Cardinality(all) <= n
  <2>1. Cardinality(1 .. n) = n
    BY <1>1, FS_Interval
  <2> QED
    BY <1>1, <2>1, PlacesOf
<1>3. IsFiniteSet(F) /\ IsFiniteSet(bad) /\ Cardinality(bad) <= Cardinality(F)
  BY PlacesOf
<1>4. SignedAt(v) \subseteq all /\ SignedAt(w) \subseteq all
  BY SignedPlaces DEF ValidFor, Checked
<1>5. /\ Cardinality(SignedAt(v)) >= q /\ Cardinality(SignedAt(w)) >= q
      /\ q \in Nat /\ 3 * q > 2 * n
  BY <1>1, QuorumIsLeast, InOrderCounts DEF ValidFor, Checked, HasQuorum
<1> HIDE DEF n, q, all, bad
<1>6. /\ IsFiniteSet(SignedAt(v)) /\ IsFiniteSet(SignedAt(w)) /\ IsFiniteSet(both)
      /\ Cardinality(either) <= Cardinality(all)
  BY <1>2, <1>4, FS_Subset
<1>7. Cardinality(either) = Cardinality(SignedAt(v)) + Cardinality(SignedAt(w)) - Cardinality(both)
  BY <1>6, FS_Union
<1>8. 3 * Cardinality(both) > n
  <2>1. /\ Cardinality(SignedAt(v)) \in Nat /\ Cardinality(SignedAt(w)) \in Nat
        /\ Cardinality(both) \in Nat /\ Cardinality(all) \in Nat
    BY <1>2, <1>6, FS_CardinalityType
  <2> HIDE DEF both, either
  <2> QED
    BY <1>1, <1>2, <1>5, <1>6, <1>7, <2>1
<1>9. ~ (both \subseteq bad)
  <2>1. SUFFICES ASSUME both \subseteq bad PROVE FALSE
    OBVIOUS
  <2>2. Cardinality(both) <= Cardinality(bad)
    BY <1>3, <2>1, FS_Subset
  <2>3. Cardinality(both) \in Nat /\ Cardinality(bad) \in Nat /\ Cardinality(F) \in Nat
    BY <1>3, <1>6, FS_CardinalityType
  <2>4. 3 * Cardinality(F) <= n
    BY DEF n
  <2> HIDE DEF both
  <2> QED
    BY <1>1, <1>3, <1>8, <2>2, <2>3, <2>4
<1>10. PICK x \in both : x \notin bad
  BY <1>9
<1>11. PICK k \in DOMAIN GuardianSets[i] : x = Places(i)[k]
  BY <1>4, <1>10 DEF all
<1> QED
  BY <1>10, <1>11 DEF bad

\* Two VAAs of chain messages that this node assembled, that it holds or
\* broadcast, and that name one guardian set were both signed by one guardian
\* outside any third of it: they can contradict each other only if such a
\* guardian has signed both (CalculateQuorum, and the sets of handleObservation).
THEOREM VAAsShareSigner ==
    Spec => [](\A v, w \in AssembledVAAs :
                  /\ v.digest \notin GovernanceDigests
                  /\ w.digest \notin GovernanceDigests
                  /\ v.gsIndex = w.gsIndex
                  => \A F \in SUBSET DOMAIN GuardianSets[v.gsIndex] :
                        3 * Cardinality(F) <= Len(GuardianSets[v.gsIndex]) =>
                           \E k \in DOMAIN GuardianSets[v.gsIndex] \ F :
                              Places(v.gsIndex)[k] \in SignedAt(v) \cap SignedAt(w))
<1> DEFINE Meet(v, w) ==
             \A F \in SUBSET DOMAIN GuardianSets[v.gsIndex] :
                3 * Cardinality(F) <= Len(GuardianSets[v.gsIndex]) =>
                   \E k \in DOMAIN GuardianSets[v.gsIndex] \ F :
                      Places(v.gsIndex)[k] \in SignedAt(v) \cap SignedAt(w)
           Met == \A v, w \in AssembledVAAs :
                     /\ v.digest \notin GovernanceDigests
                     /\ w.digest \notin GovernanceDigests
                     /\ v.gsIndex = w.gsIndex
                     => Meet(v, w)
<1>1. TypeOK /\ QuorumOfNamedSet => Met
  <2> SUFFICES ASSUME TypeOK, QuorumOfNamedSet,
                      NEW v \in AssembledVAAs,
                      NEW w \in AssembledVAAs,
                      v.digest \notin GovernanceDigests, w.digest \notin GovernanceDigests,
                      v.gsIndex = w.gsIndex
               PROVE  Meet(v, w)
    OBVIOUS
  <2>1. v \in SignedVAA /\ w \in SignedVAA
    <3>1. StoredVAAs \subseteq SignedVAA
      BY DEF TypeOK, StoredVAAs
    <3>2. BroadcastVAAs \subseteq SignedVAA
      BY DEF TypeOK, BroadcastVAAs, GossipMessage
    <3> QED
      BY <3>1, <3>2 DEF AssembledVAAs
  <2>2. v.gsIndex \in SetIndices
    BY <2>1 DEF SignedVAA
  <2>3. ValidFor(v, v.gsIndex) /\ ValidFor(w, v.gsIndex)
    BY DEF QuorumOfNamedSet
  <2> QED
    BY <2>1, <2>2, <2>3, QuorumsMeet
<1> HIDE DEF Met
<1>2. Spec => []Met
  BY <1>1, TypeCorrect, NamedSetSigned, PTL
<1> QED
  BY <1>2 DEF Met

-----------------------------------------------------------------------------
(***************************************************************************)
(* No quorum is overlooked                                                 *)
(***************************************************************************)

\* An observation this node accepts leaves no quorum waiting on its message:
\* the signatures are counted in the same step.
LEMMA ObservedNotPending ==
    ASSUME TypeOK, NEW g \in Guardians, NEW d \in Digests, HandleObservation(g, d)
    PROVE  ~QuorumPending(d)'
<1> SUFFICES ASSUME QuorumPending(d)' PROVE FALSE
  OBVIOUS
<1> DEFINE e == StateOf(d)
<1>1. /\ e.ourVAA # Nil
      /\ e.gs # Nil
      /\ ~Completes(g, d)
      /\ ~e.submitted
      /\ HasQuorum(e.gs, SigsOf(e.gs, e.signatures \cup {g}))
  BY ObservedEntry DEF QuorumPending
<1>2. ApplicableSet(d) = e.gs
  BY <1>1, FreshSets DEF StateOf, ApplicableSet
<1>3. /\ WithSignature(g, d).ourVAA = e.ourVAA
      /\ WithSignature(g, d).submitted = e.submitted
      /\ WithSignature(g, d).signatures = e.signatures \cup {g}
  BY StateOfType DEF WithSignature, VaaState
<1> QED
  BY <1>1, <1>2, <1>3 DEF Completes

\* An entry that keeps its VAA, its set and its signatures is pending only if
\* it was.
LEMMA PendingSame ==
    ASSUME NEW d \in Digests, QuorumPending(d)',
           Has(d)' => Has(d) /\ SameSets(vaaSignatures'[d], vaaSignatures[d])
    PROVE  QuorumPending(d)
BY DEF QuorumPending, SameSets

LEMMA NotMissedKept ==
    ASSUME QuorumNotMissed, UNCHANGED obsvC,
           \A d \in Digests :
             Has(d)' => Has(d) /\ SameSets(vaaSignatures'[d], vaaSignatures[d])
    PROVE  QuorumNotMissed'
BY PendingSame DEF QuorumNotMissed

LEMMA NotMissedBroadcast ==
    ASSUME TypeOK, QuorumNotMissed, NEW d \in Digests, NEW i \in SetIndices,
           BroadcastSignature(d, i)
    PROVE  QuorumNotMissed'
<1>1. obsvC'[d] > 0 /\ \A x \in Digests \ {d} : obsvC'[x] = obsvC[x]
  BY DEF BroadcastSignature, TypeOK
<1>2. ASSUME NEW x \in Digests \ {d}, QuorumPending(x)' PROVE QuorumPending(x)
  BY <1>2, BroadcastEntry DEF QuorumPending, Has
<1> QED
  BY <1>1, <1>2 DEF QuorumNotMissed

LEMMA NotMissedObserve ==
    ASSUME TypeOK, QuorumNotMissed, NEW g \in Guardians, NEW d \in Digests,
           HandleObservation(g, d), \A x \in Digests \ {d} : obsvC'[x] = obsvC[x]
    PROVE  QuorumNotMissed'
<1>1. ASSUME NEW x \in Digests \ {d}, QuorumPending(x)' PROVE QuorumPending(x)
  BY <1>1, ObservedEntry DEF QuorumPending, Has
<1> QED
  BY <1>1, ObservedNotPending DEF QuorumNotMissed

LEMMA NotMissedNext == TypeOK /\ QuorumNotMissed /\ [Next]_vars => QuorumNotMissed'
<1> SUFFICES ASSUME TypeOK, QuorumNotMissed, [Next]_vars PROVE QuorumNotMissed'
  OBVIOUS
<1>0. ASSUME LoseMemory PROVE QuorumNotMissed'
  BY <1>0 DEF LoseMemory, QuorumNotMissed, QuorumPending, Has
<1>1. ASSUME UNCHANGED <<vaaSignatures, obsvC>> PROVE QuorumNotMissed'
  BY <1>1 DEF QuorumNotMissed, QuorumPending, Has
<1>2. CASE EthereumUpgrade
  BY <1>1, <1>2 DEF EthereumUpgrade
<1>3. CASE SetGuardianSet
  BY <1>1, <1>3 DEF SetGuardianSet
<1>4. ASSUME NEW d \in Digests, HandleMessage(d) PROVE QuorumNotMissed'
  BY <1>4, NotMissedBroadcast DEF HandleMessage, TypeOK
<1>5. ASSUME NEW d \in Digests, NEW i \in SetIndices, HandleInjection(d, i)
      PROVE  QuorumNotMissed'
  BY <1>5, NotMissedBroadcast DEF HandleInjection
<1>6. ASSUME NEW g \in Guardians, NEW d \in Digests, HandleRemoteObservation(g, d)
      PROVE  QuorumNotMissed'
  BY <1>6, NotMissedObserve DEF HandleRemoteObservation
<1>7. ASSUME NEW d \in Digests, HandleOwnObservation(d) PROVE QuorumNotMissed'
  <2>1. \A x \in Digests \ {d} : obsvC'[x] = obsvC[x]
    BY <1>7 DEF HandleOwnObservation, TypeOK
  <2>2. CASE HandleObservation(Self, d)
    BY <2>1, <2>2, NotMissedObserve, ConstantsAssumption
  <2>3. CASE ~Accepts(Self, d) /\ UNCHANGED <<vaaSignatures, db, sent>>
    <3>1. ~QuorumPending(d)
      BY <2>3 DEF Accepts, ApplicableSet, QuorumPending
    <3> QED
      BY <2>1, <2>3, <3>1 DEF QuorumNotMissed, QuorumPending, Has
  <2> QED
    BY <1>7, <2>2, <2>3 DEF HandleOwnObservation
<1>8. ASSUME NEW v, HandleInboundSignedVAAWithQuorum(v) PROVE QuorumNotMissed'
  BY <1>1, <1>8 DEF HandleInboundSignedVAAWithQuorum
<1>9. CASE HandleCleanup
  <2>1. ASSUME NEW d \in Digests, Has(d)'
        PROVE  Has(d) /\ SameSets(vaaSignatures'[d], vaaSignatures[d])
    <3>1. PICK found \in Lookups :
            vaaSignatures'[d] = IF Has(d) THEN Cleaned(vaaSignatures[d], d \in found) ELSE Nil
      BY <1>9 DEF HandleCleanup
    <3>2. Has(d) /\ vaaSignatures'[d] = Cleaned(vaaSignatures[d], d \in found)
      BY <2>1, <3>1 DEF Has
    <3> QED
      BY <2>1, <3>2, CleanedSame DEF Has, TypeOK
  <2> QED
    BY <1>9, <2>1, NotMissedKept DEF HandleCleanup
<1>10. CASE Tick
  <2>1. ASSUME NEW d \in Digests, Has(d)'
        PROVE  Has(d) /\ SameSets(vaaSignatures'[d], vaaSignatures[d])
    BY <1>10, <2>1, OlderSame DEF Tick, Has, TypeOK
  <2> QED
    BY <1>10, <2>1, NotMissedKept DEF Tick
<1>11. CASE Crash
  BY <1>0, <1>11 DEF Crash
<1>12. CASE CleanupPanic
  BY <1>0, <1>12 DEF CleanupPanic
<1>13. ASSUME NEW g \in Guardians, NEW d \in Digests, CrashAfterStore(g, d)
       PROVE  QuorumNotMissed'
  BY <1>0, <1>13 DEF CrashAfterStore
<1>14. CASE UNCHANGED vars
  BY <1>1, <1>14 DEF vars
<1> QED
  BY <1>2, <1>3, <1>4, <1>5, <1>6, <1>7, <1>8, <1>9, <1>10, <1>11, <1>12, <1>13, <1>14
  DEF Next

\* A quorum of signatures on an observation of ours is never left without an
\* own observation on its way to have it counted.
THEOREM NotMissed == Spec => []QuorumNotMissed
<1>1. Init => TypeOK /\ QuorumNotMissed
  BY InitType DEF Init, QuorumNotMissed, QuorumPending, Has
<1>2. TypeOK /\ QuorumNotMissed /\ [Next]_vars => (TypeOK /\ QuorumNotMissed)'
  BY NextType, NotMissedNext
<1> QED
  BY <1>1, <1>2, PTL DEF Spec

-----------------------------------------------------------------------------
(***************************************************************************)
(* The database                                                            *)
(***************************************************************************)

\* A VAA is assembled only from an entry with a VAA of our own.
LEMMA AssembledOwn ==
    ASSUME TypeOK, NEW v, AssembledNow(v)
    PROVE  /\ v \in SignedVAA
           /\ Has(v.digest)
           /\ vaaSignatures[v.digest].ourVAA # Nil
<1> PICK g \in Guardians, d \in Digests :
      Accepts(g, d) /\ Completes(g, d) /\ v = SignedBy(g, d)
  BY DEF AssembledNow
<1>1. v \in SignedVAA /\ v.digest = d
  BY SignedByType DEF SignedBy
<1>2. StateOf(d).ourVAA # Nil
  BY StateOfType DEF Completes, WithSignature, VaaState
<1> QED
  BY <1>1, <1>2, FreshSets DEF StateOf

\* A stored VAA is never deleted, and only a VAA this node assembled from its
\* own observation replaces it.
THEOREM DatabaseKeeps == Spec => StoredVAAStays
<1>1. TypeOK /\ [Next]_vars =>
        [\A id \in VaaIDs :
           db[id] # Nil =>
              \/ db'[id] = db[id]
              \/ /\ db'[id] # Nil
                 /\ Has(db'[id].digest)
                 /\ vaaSignatures[db'[id].digest].ourVAA # Nil]_vars
  <2> SUFFICES ASSUME TypeOK, [Next]_vars, NEW id \in VaaIDs, db[id] # Nil, db'[id] # db[id]
               PROVE  /\ db'[id] # Nil
                      /\ Has(db'[id].digest)
                      /\ vaaSignatures[db'[id].digest].ourVAA # Nil
    OBVIOUS
  <2>1. PICK v : /\ AssembledNow(v) \/ ReceivedNow(v)
                 /\ db' = [db EXCEPT ![IdOf[v.digest]] = v]
    BY NextSteps DEF DBStep
  <2>2. id = IdOf[v.digest] /\ db'[id] = v
    BY <2>1 DEF TypeOK
  <2>3. AssembledNow(v)
    BY <2>1, <2>2 DEF ReceivedNow
  <2> QED
    BY <2>2, <2>3, AssembledOwn, NilAssumption
<1> QED
  BY <1>1, TypeCorrect, PTL DEF Spec, StoredVAAStays

\* A database row is never emptied.
LEMMA RowsStay ==
    ASSUME TypeOK, [Next]_vars, NEW id \in VaaIDs, db[id] # Nil
    PROVE  db'[id] # Nil
BY NextSteps, AssembledOwn, NilAssumption DEF DBStep, TypeOK, ReceivedNow

\* What StoredBeforeBroadcast says when the database does not fail.
Stored ==
    /\ \A v \in BroadcastVAAs : db[IdOf[v.digest]] # Nil
    /\ \A d \in Digests : Has(d) /\ vaaSignatures[d].submitted => db[IdOf[d]] # Nil

LEMMA SubmitStores ==
    ASSUME TypeOK, ~DBMayFail, NEW g \in Guardians, NEW d \in Digests,
           Accepts(g, d), SubmitVAA(g, d)
    PROVE  db'[IdOf[d]] # Nil /\ BroadcastVAAs' = BroadcastVAAs \cup {SignedBy(g, d)}
<1>1. SignedBy(g, d) \in SignedVAA /\ SignedBy(g, d).digest = d
  BY SignedByType DEF SubmitVAA, SignedBy
<1>2. StoreSignedVAA(SignedBy(g, d), TRUE)
  BY DEF SubmitVAA, DBResults
<1>3. db'[IdOf[d]] = SignedBy(g, d)
  BY <1>1, <1>2, ConstantsAssumption DEF StoreSignedVAA, TypeOK
<1> QED
  BY <1>1, <1>3, BroadcastOne, NilAssumption DEF SubmitVAA

LEMMA StoredNext == TypeOK /\ ~DBMayFail /\ Stored /\ [Next]_vars => Stored'
<1> SUFFICES ASSUME TypeOK, ~DBMayFail, Stored, [Next]_vars PROVE Stored'
  OBVIOUS
<1>a. \A id \in VaaIDs : db[id] # Nil => db'[id] # Nil
  BY RowsStay
<1>b. \A v \in BroadcastVAAs : v \in SignedVAA
  BY DEF BroadcastVAAs, TypeOK, GossipMessage
<1>c. \A d \in Digests : IdOf[d] \in VaaIDs
  BY ConstantsAssumption
<1>d. \A v \in BroadcastVAAs : db'[IdOf[v.digest]] # Nil
  BY <1>a, <1>b, <1>c DEF Stored, SignedVAA
<1>0. ASSUME BroadcastVAAs' = BroadcastVAAs,
             \A d \in Digests : Has(d)' /\ vaaSignatures'[d].submitted =>
                                   Has(d) /\ vaaSignatures[d].submitted
      PROVE  Stored'
  BY <1>0, <1>a, <1>c, <1>d DEF Stored
<1>1. ASSUME UNCHANGED <<vaaSignatures, sent>> PROVE Stored'
  BY <1>0, <1>1 DEF BroadcastVAAs, Has
<1>2. ASSUME LoseMemory, UNCHANGED sent PROVE Stored'
  BY <1>0, <1>2 DEF BroadcastVAAs, LoseMemory, Has
<1>3. ASSUME NEW d \in Digests, NEW i \in SetIndices, BroadcastSignature(d, i)
      PROVE  Stored'
  <2>1. sent' = sent \cup { Observation(x) : x \in {d} }
    BY <1>3 DEF BroadcastSignature
  <2>2. ASSUME NEW x \in Digests, Has(x)', vaaSignatures'[x].submitted
        PROVE  Has(x) /\ vaaSignatures[x].submitted
    BY <1>3, <2>2, BroadcastEntry, FreshSets DEF StateOf, Has
  <2> QED
    BY <1>0, <2>1, <2>2, ObservationsOnly
<1>4. ASSUME NEW g \in Guardians, NEW d \in Digests, HandleObservation(g, d)
      PROVE  Stored'
  <2>1. CASE RecordSignature(g, d)
    <3>1. ASSUME NEW x \in Digests, Has(x)', vaaSignatures'[x].submitted
          PROVE  Has(x) /\ vaaSignatures[x].submitted
      BY <1>4, <2>1, <3>1, ObservedEntry, FreshSets DEF StateOf, Has, RecordSignature
    <3> QED
      BY <1>0, <2>1, <3>1 DEF RecordSignature, BroadcastVAAs
  <2>2. CASE SubmitVAA(g, d)
    <3>1. /\ db'[IdOf[d]] # Nil
          /\ BroadcastVAAs' = BroadcastVAAs \cup {SignedBy(g, d)}
      BY <1>4, <2>2, SubmitStores DEF HandleObservation
    <3>2. SignedBy(g, d).digest = d
      BY DEF SignedBy
    <3>3. ASSUME NEW x \in Digests, Has(x)', vaaSignatures'[x].submitted
          PROVE  db'[IdOf[x]] # Nil
      BY <1>4, <1>a, <1>c, <3>1, <3>3, ObservedEntry DEF Stored, Has
    <3> QED
      BY <1>d, <3>1, <3>2, <3>3 DEF Stored
  <2> QED
    BY <1>4, <2>1, <2>2 DEF HandleObservation
<1>5. ASSUME NEW d \in Digests, HandleMessage(d) PROVE Stored'
  BY <1>3, <1>5 DEF HandleMessage, TypeOK
<1>6. ASSUME NEW d \in Digests, HandleOwnObservation(d) PROVE Stored'
  BY <1>1, <1>4, <1>6, ConstantsAssumption DEF HandleOwnObservation
<1>7. ASSUME \A d \in Digests :
               Has(d)' => Has(d) /\ SameSets(vaaSignatures'[d], vaaSignatures[d]),
             BroadcastVAAs' = BroadcastVAAs
      PROVE  Stored'
  BY <1>0, <1>7 DEF SameSets
<1>8. CASE HandleCleanup
  <2>1. ASSUME NEW d \in Digests, Has(d)'
        PROVE  Has(d) /\ SameSets(vaaSignatures'[d], vaaSignatures[d])
    <3>1. PICK found \in Lookups :
            vaaSignatures'[d] = IF Has(d) THEN Cleaned(vaaSignatures[d], d \in found) ELSE Nil
      BY <1>8 DEF HandleCleanup
    <3>2. Has(d) /\ vaaSignatures'[d] = Cleaned(vaaSignatures[d], d \in found)
      BY <2>1, <3>1 DEF Has
    <3> QED
      BY <2>1, <3>2, CleanedSame DEF Has, TypeOK
  <2> QED
    BY <1>7, <1>8, <2>1, ObservationsOnly DEF HandleCleanup
<1>9. CASE Tick
  <2>1. ASSUME NEW d \in Digests, Has(d)'
        PROVE  Has(d) /\ SameSets(vaaSignatures'[d], vaaSignatures[d])
    BY <1>9, <2>1, OlderSame DEF Tick, Has, TypeOK
  <2> QED
    BY <1>7, <1>9, <2>1 DEF Tick, BroadcastVAAs
<1>10. ASSUME NEW v, HandleInboundSignedVAAWithQuorum(v) PROVE Stored'
  BY <1>1, <1>10 DEF HandleInboundSignedVAAWithQuorum
<1>11. CASE EthereumUpgrade \/ SetGuardianSet \/ UNCHANGED vars
  BY <1>1, <1>11 DEF EthereumUpgrade, SetGuardianSet, vars
<1>12. ASSUME NEW g \in Guardians, NEW d \in Digests, CrashAfterStore(g, d) PROVE Stored'
  BY <1>2, <1>12 DEF CrashAfterStore
<1>13. CASE Crash \/ CleanupPanic
  BY <1>2, <1>13 DEF Crash, CleanupPanic
<1> QED
  BY <1>3, <1>4, <1>5, <1>6, <1>8, <1>9, <1>10, <1>11, <1>12, <1>13
  DEF Next, HandleInjection, HandleRemoteObservation

\* With a database that does not fail, a VAA is stored before it is broadcast
\* and before its entry counts as submitted.
THEOREM StoreComesFirst == Spec => []StoredBeforeBroadcast
<1>1. Init => TypeOK /\ StoredBeforeBroadcast
  BY InitType DEF Init, StoredBeforeBroadcast, BroadcastVAAs, Has
<1>2. TypeOK /\ StoredBeforeBroadcast /\ [Next]_vars => (TypeOK /\ StoredBeforeBroadcast)'
  <2> SUFFICES ASSUME TypeOK, StoredBeforeBroadcast, [Next]_vars
               PROVE  (TypeOK /\ StoredBeforeBroadcast)'
    OBVIOUS
  <2>1. TypeOK'
    BY NextType
  <2>2. ASSUME ~DBMayFail PROVE Stored'
    <3>1. Stored
      BY <2>2 DEF StoredBeforeBroadcast, Stored
    <3> QED
      BY <2>2, <3>1, StoredNext
  <2>3. StoredBeforeBroadcast'
    BY <2>2 DEF StoredBeforeBroadcast, Stored
  <2> QED
    BY <2>1, <2>3
<1> QED
  BY <1>1, <1>2, PTL DEF Spec

-----------------------------------------------------------------------------
(***************************************************************************)
(* What a step may do to an entry                                          *)
(***************************************************************************)

\* A VAA message that was not there before carries a VAA assembled in the step.
LEMMA NewMessage ==
    ASSUME TypeOK, [Next]_vars, NEW m \in sent' \ sent, m.type = "signedVAA"
    PROVE  AssembledNow(m.vaa)
<1>1. TypeOK'
  BY NextType
<1>2. \A x \in GossipMessage : x.type = "signedVAA" => x = VAAMessage(x.vaa)
  BY DEF GossipMessage, VAAMessage
<1>3. m \in GossipMessage
  BY <1>1 DEF TypeOK
<1>4. m.vaa \in BroadcastVAAs'
  BY DEF BroadcastVAAs
<1>5. m.vaa \notin BroadcastVAAs
  <2>1. ASSUME m.vaa \in BroadcastVAAs PROVE FALSE
    <3>1. PICK x \in sent : x.type = "signedVAA" /\ x.vaa = m.vaa
      BY <2>1 DEF BroadcastVAAs
    <3>2. x = m
      BY <1>2, <1>3, <3>1 DEF TypeOK
    <3> QED
      BY <3>2
  <2> QED
    BY <2>1
<1> QED
  BY <1>4, <1>5, NextSteps DEF SentStep

\* While an entry lives its VAA is submitted at most once: handleObservation
\* looks at submitted before it submits, and nothing resets the flag.
THEOREM SubmitsOnce == Spec => SubmittedOnce
<1>1. TypeOK /\ [Next]_vars =>
        [\A m \in sent' \ sent :
           m.type = "signedVAA" =>
              ~(Has(m.vaa.digest) /\ vaaSignatures[m.vaa.digest].submitted)]_vars
  <2> SUFFICES ASSUME TypeOK, [Next]_vars, NEW m \in sent' \ sent, m.type = "signedVAA"
               PROVE  ~(Has(m.vaa.digest) /\ vaaSignatures[m.vaa.digest].submitted)
    OBVIOUS
  <2>1. PICK g \in Guardians, d \in Digests :
          Accepts(g, d) /\ Completes(g, d) /\ m.vaa = SignedBy(g, d)
    BY NewMessage DEF AssembledNow
  <2>2. m.vaa.digest = d
    BY <2>1 DEF SignedBy
  <2>3. ~StateOf(d).submitted
    BY <2>1, StateOfType DEF Completes, WithSignature, VaaState
  <2> QED
    BY <2>2, <2>3 DEF StateOf
<1> QED
  BY <1>1, TypeCorrect, PTL DEF Spec, SubmittedOnce

\* A cleanup pass drops an entry that holds our own VAA for one of three
\* reasons.
LEMMA CleanedReasons ==
    ASSUME NEW e \in VaaState, NEW found, NEW d,
           Cleaned(e, d \in found) = Nil, e.ourVAA # Nil
    PROVE  d \in found \/ e.submitted \/ e.retryCount >= OwnRetryLimit
<1>1. ASSUME ~(IsLate(e, d \in found) \/ IsDone(e) \/ IsExhausted(e) \/ IsUnobserved(e))
      PROVE  FALSE
  <2> DEFINE s == e.settled \/ Settles(e, d \in found)
             r == IF Resubmits(e) THEN e.retryCount + 1 ELSE e.retryCount
  <2>1. Cleaned(e, d \in found) = [e EXCEPT !.settled = s, !.retryCount = r]
    BY <1>1 DEF Cleaned
  <2>2. s \in BOOLEAN /\ r \in Nat
    BY DEF VaaState, Settles, IsPending
  <2> HIDE DEF s, r
  <2>3. Cleaned(e, d \in found) \in VaaState
    BY <2>1, <2>2 DEF VaaState
  <2> QED
    BY <2>3, NilAssumption
<1> QED
  BY <1>1 DEF IsLate, IsDone, IsExhausted, IsUnobserved

\* A running node gives up a message it observed only when the database holds
\* a VAA with its id, its VAA was submitted, or the retry limit is reached.
THEOREM NotForgotten == Spec => ObservationNotForgotten
<1>1. TypeOK /\ [Next]_vars =>
        [\A d \in Digests :
           Has(d) /\ vaaSignatures[d].ourVAA # Nil /\ vaaSignatures'[d] = Nil =>
              \/ gs' = Nil
              \/ vaaSignatures[d].submitted
              \/ db[IdOf[d]] # Nil
              \/ vaaSignatures[d].retryCount >= OwnRetryLimit]_vars
  <2> SUFFICES ASSUME TypeOK, [Next]_vars, NEW d \in Digests,
                      Has(d), vaaSignatures[d].ourVAA # Nil, vaaSignatures'[d] = Nil
               PROVE  \/ gs' = Nil
                      \/ vaaSignatures[d].submitted
                      \/ db[IdOf[d]] # Nil
                      \/ vaaSignatures[d].retryCount >= OwnRetryLimit
    OBVIOUS
  <2>0. vaaSignatures[d] \in VaaState
    BY DEF TypeOK, Has
  <2>1. ASSUME UNCHANGED vaaSignatures PROVE FALSE
    BY <2>1 DEF Has
  <2>2. ASSUME NEW x \in Digests, NEW i \in SetIndices, BroadcastSignature(x, i)
        PROVE  FALSE
    <3>1. CASE x = d
      <4> DEFINE e == [StateOf(d) EXCEPT !.ourVAA = i, !.gs = gs]
      <4>1. e \in VaaState
        BY StateOfType, ZenonT(40) DEF TypeOK, VaaState
      <4>2. vaaSignatures'[d] = e
        BY <2>2, <3>1 DEF BroadcastSignature, TypeOK
      <4> QED
        BY <4>1, <4>2, NilAssumption
    <3> QED
      BY <2>2, <3>1, BroadcastEntry DEF Has
  <2>3. ASSUME NEW g \in Guardians, NEW x \in Digests, HandleObservation(g, x)
        PROVE  FALSE
    BY <2>3, ObservedEntry DEF Has
  <2>4. CASE HandleCleanup
    <3>1. PICK found \in Lookups : vaaSignatures'[d] = Cleaned(vaaSignatures[d], d \in found)
      BY <2>4 DEF HandleCleanup
    <3>2. d \in found => db[IdOf[d]] # Nil
      BY <3>1 DEF Lookups
    <3> QED
      BY <2>0, <3>1, <3>2, CleanedReasons
  <2>5. CASE Tick
    <3>1. Older(vaaSignatures[d]) \in VaaState
      BY <2>0, OlderType
    <3> QED
      BY <2>5, <3>1, NilAssumption DEF Tick
  <2>6. ASSUME LoseMemory PROVE gs' = Nil
    BY <2>6 DEF LoseMemory
  <2>7. ASSUME NEW x \in Digests, HandleMessage(x) PROVE FALSE
    BY <2>2, <2>7 DEF HandleMessage, TypeOK
  <2>8. ASSUME NEW x \in Digests, HandleOwnObservation(x) PROVE FALSE
    BY <2>1, <2>3, <2>8, ConstantsAssumption DEF HandleOwnObservation
  <2>9. ASSUME NEW v, HandleInboundSignedVAAWithQuorum(v) PROVE FALSE
    BY <2>1, <2>9 DEF HandleInboundSignedVAAWithQuorum
  <2>10. CASE EthereumUpgrade \/ SetGuardianSet \/ UNCHANGED vars
    BY <2>1, <2>10 DEF EthereumUpgrade, SetGuardianSet, vars
  <2> QED
    BY <2>2, <2>3, <2>4, <2>5, <2>6, <2>7, <2>8, <2>9, <2>10
    DEF Next, HandleInjection, HandleRemoteObservation, Crash, CleanupPanic, CrashAfterStore
<1> QED
  BY <1>1, TypeCorrect, PTL DEF Spec, ObservationNotForgotten
=============================================================================
