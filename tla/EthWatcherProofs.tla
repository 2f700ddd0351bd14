--------------------------- MODULE EthWatcherProofs ---------------------------
(***************************************************************************)
(* Proofs about EthWatcher, for every chain length, fork depth, message    *)
(* and consistency level.                                                  *)
(*                                                                         *)
(* Three facts carry the argument.  Every number the watcher compares with *)
(* is that of a block the chain has already reached (NumbersReached), so a *)
(* message it finds deep enough is that deep.  Every block it knows of was *)
(* mined by the latest fork or before (BlocksKnown), so a fork to come     *)
(* makes none of them canonical, and an entry whose block is canonical     *)
(* read the time of that block.  A published message sits below the reach  *)
(* of forks (PublishedSafe).                                               *)
(***************************************************************************)
EXTENDS EthWatcher, TLAPS

USE EthAssumption

Last == chain[Len(chain)]

NumbersReached ==
    /\ heads \in Seq(1 .. Len(chain))
    /\ current <= Len(chain)
    /\ header # Nil => header.number <= Len(chain)
    /\ request # Nil => request.number <= Len(chain)

ForksGrow == \A i, j \in 1 .. Len(chain) : i <= j => chain[i] <= chain[j]

MinedReached == \A t \in Txs : mined[t] # Nil => mined[t] <= Len(chain)

KnownBlock(b) == b[1] <= Len(chain) /\ b[2] <= Last

TimeIsRead(p) == KnownBlock(p.block) /\ (IsCanonical(p.block) => p.time = p.block)

KnownLog == { l \in [tx : Txs, block : Blocks] : KnownBlock(l.block) }

BlocksKnown ==
    /\ logs \in Seq(KnownLog)
    /\ \A p \in pending : TimeIsRead(p)
    /\ inHand # Nil => TimeIsRead(inHand)

TodoReady ==
    header # Nil => \A p \in header.todo : p \in pending /\ Ready(p, header.number)

Safe(p) ==
    /\ IsCanonical(p.block)
    /\ mined[p.msg.tx] = p.block[1]
    /\ p.block[1] + Confirmations(p.msg.tx) <= Len(chain)

PublishedSafe ==
    \A p \in published :
        /\ p.msg.time = p.block
        /\ MaxReorg <= Confirmations(p.msg.tx) => Safe(p)

IInv ==
    /\ TypeOK
    /\ NumbersReached
    /\ ForksGrow
    /\ MinedReached
    /\ BlocksKnown
    /\ TodoReady
    /\ PublishedSafe

-----------------------------------------------------------------------------
(* Types. *)

LEMMA ConfirmationsType == \A t \in Txs : Confirmations(t) \in Nat
BY DEF Confirmations

LEMMA NilIsNone == Nil \notin Heights /\ Nil \notin Pending /\ Nil \notin Header /\ Nil \notin Request
OBVIOUS

LEMMA InitIInv == Init => IInv
<1> SUFFICES ASSUME Init PROVE IInv
  OBVIOUS
<1>1. chain \in Seq(Nat) /\ chain # <<>> /\ Len(chain) = 1
  BY DEF Init
<1>2. mined \in [Txs -> Heights \cup {Nil}] /\ \A t \in Txs : mined[t] = Nil
  BY DEF Init
<1>3. /\ heads \in Seq(Heights) /\ heads \in Seq(1 .. Len(chain))
      /\ logs \in Seq([tx : Txs, block : Blocks]) /\ logs \in Seq(KnownLog)
  BY DEF Init
<1>4. TypeOK
  BY <1>1, <1>2, <1>3 DEF Init, TypeOK
<1>5. ForksGrow
  BY <1>1 DEF ForksGrow
<1> QED
  BY <1>1, <1>2, <1>3, <1>4, <1>5
  DEF Init, IInv, NumbersReached, MinedReached, BlocksKnown, TodoReady, PublishedSafe

-----------------------------------------------------------------------------
(* What the chain does to what the watcher knows. *)

ChainSame == chain' = chain /\ mined' = mined

\* The chain grows or forks; a block it keeps is below the fork, and one it
\* gains is new or of a fork unknown before.
ChainMoves ==
    /\ chain' \in Seq(Nat) /\ chain' # <<>>
    /\ mined' \in [Txs -> Heights \cup {Nil}]
    /\ Len(chain') = Len(chain) + 1
    /\ ForksGrow' /\ MinedReached'
    /\ Last <= Last'
    /\ \A b \in Blocks : KnownBlock(b) /\ IsCanonical(b)' => IsCanonical(b)
    /\ \A b \in Blocks, t \in Txs :
         /\ IsCanonical(b)
         /\ mined[t] = b[1]
         /\ b[1] + MaxReorg <= Len(chain)
         => IsCanonical(b)' /\ mined'[t] = b[1]

LEMMA MineMoves ==
    ASSUME IInv, Mine
    PROVE  ChainMoves
<1>1. PICK S : /\ chain' = Append(chain, Last)
               /\ S \subseteq { t \in Txs : mined[t] = Nil }
               /\ mined' = [t \in Txs |-> IF t \in S THEN Len(chain) + 1 ELSE mined[t]]
  BY DEF Mine, AtMostOne, Last
<1>2. chain \in Seq(Nat) /\ Len(chain) \in Nat /\ Len(chain) > 0 /\ Last \in Nat
  BY DEF IInv, TypeOK, Last
<1>3. /\ chain' \in Seq(Nat) /\ Len(chain') = Len(chain) + 1
      /\ \A i \in 1 .. Len(chain) : chain'[i] = chain[i]
      /\ chain'[Len(chain) + 1] = Last
  BY <1>1, <1>2
<1>4. mined' \in [Txs -> Heights \cup {Nil}] /\ MinedReached'
  BY <1>1, <1>2, <1>3, NilIsNone DEF IInv, TypeOK, MinedReached, Heights
<1>5. ForksGrow' /\ Last' = Last
  <2>1. \A i \in 1 .. Len(chain) : chain[i] <= Last /\ chain[i] \in Nat
    BY <1>2 DEF IInv, ForksGrow, Last
  <2>2. Last' = Last
    BY <1>2, <1>3 DEF Last
  <2>3. ASSUME NEW i \in 1 .. Len(chain) + 1, NEW j \in 1 .. Len(chain) + 1, i <= j
        PROVE  chain'[i] <= chain'[j]
    <3>1. CASE j \in 1 .. Len(chain)
      <4>1. i \in 1 .. Len(chain)
        BY <1>2, <2>3, <3>1
      <4> QED
        BY <1>3, <2>3, <3>1, <4>1 DEF IInv, ForksGrow
    <3>2. CASE j = Len(chain) + 1
      <4>1. chain'[j] = Last
        BY <1>3, <3>2
      <4>2. CASE i \in 1 .. Len(chain)
        BY <1>3, <2>1, <4>1, <4>2
      <4>3. CASE i = Len(chain) + 1
        BY <1>2, <1>3, <4>1, <4>3
      <4> QED
        BY <1>2, <4>2, <4>3
    <3> QED
      BY <1>2, <3>1, <3>2
  <2> QED
    BY <1>3, <2>2, <2>3 DEF ForksGrow
<1>6. ASSUME NEW b \in Blocks, KnownBlock(b), IsCanonical(b)' PROVE IsCanonical(b)
  BY <1>2, <1>3, <1>6 DEF KnownBlock, IsCanonical, Blocks, Heights
<1>7. ASSUME NEW b \in Blocks, NEW t \in Txs, IsCanonical(b), mined[t] = b[1]
      PROVE  IsCanonical(b)' /\ mined'[t] = b[1]
  <2>1. IsCanonical(b)'
    BY <1>2, <1>3, <1>7 DEF IsCanonical, Blocks, Heights
  <2>2. mined[t] # Nil
    BY <1>7, NilIsNone DEF Blocks
  <2> QED
    BY <1>1, <1>7, <2>1, <2>2
<1> QED
  BY <1>2, <1>3, <1>4, <1>5, <1>6, <1>7 DEF ChainMoves

LEMMA FunctionIsSeq ==
    ASSUME NEW T, NEW n \in Nat, NEW s \in [1 .. n + 1 -> T]
    PROVE  s \in Seq(T) /\ Len(s) = n + 1
OBVIOUS

LEMMA ReorgMoves ==
    ASSUME IInv, NEW h \in 1 .. Len(chain), NEW k \in h .. Len(chain) + 1, Reorg(h, k)
    PROVE  ChainMoves
<1> DEFINE dropped == { t \in Txs : mined[t] # Nil /\ mined[t] >= h }
<1>1. PICK S : /\ chain' = [n \in 1 .. Len(chain) + 1 |-> IF n < h THEN chain[n] ELSE Last + 1]
               /\ S \subseteq { t \in Txs : mined[t] = Nil \/ t \in dropped }
               /\ mined' = [t \in Txs |-> IF t \in S THEN k
                                          ELSE IF t \in dropped THEN Nil ELSE mined[t]]
  BY DEF Reorg, AtMostOne, Last
<1>2. /\ chain \in Seq(Nat) /\ Len(chain) \in Nat /\ Len(chain) > 0 /\ Last \in Nat
      /\ h \in Nat /\ h > 1 /\ h <= Len(chain) /\ k \in Nat /\ h <= k /\ k <= Len(chain) + 1
      /\ Len(chain) - h + 1 <= MaxReorg
  <2>1. chain \in Seq(Nat) /\ chain # <<>>
    BY DEF IInv, TypeOK
  <2>2. Len(chain) \in Nat /\ Len(chain) > 0 /\ Last \in Nat
    BY <2>1 DEF Last
  <2>3. h > 1 /\ Len(chain) - h + 1 <= MaxReorg
    BY DEF Reorg
  <2> QED
    BY <2>1, <2>2, <2>3
<1>3. \A i \in 1 .. Len(chain) : chain[i] \in Nat /\ chain[i] <= Last
  BY <1>2 DEF IInv, ForksGrow, Last
<1>4. /\ chain' \in Seq(Nat) /\ Len(chain') = Len(chain) + 1
      /\ \A i \in 1 .. h - 1 : chain'[i] = chain[i]
      /\ \A i \in h .. Len(chain) + 1 : chain'[i] = Last + 1
      /\ Last' = Last + 1
  <2>1. chain' \in [1 .. Len(chain) + 1 -> Nat]
    BY <1>1, <1>2, <1>3
  <2>2. chain' \in Seq(Nat) /\ Len(chain') = Len(chain) + 1
    BY <1>2, <2>1, FunctionIsSeq
  <2>3. \A i \in h .. Len(chain) + 1 : chain'[i] = Last + 1
    BY <1>1, <1>2
  <2>4. Last' = Last + 1
    <3>1. chain'[Len(chain) + 1] = Last + 1
      BY <1>2, <2>3
    <3> QED
      BY <2>2, <3>1 DEF Last
  <2>5. \A i \in 1 .. h - 1 : chain'[i] = chain[i]
    BY <1>1, <1>2
  <2> HIDE DEF Last
  <2> QED
    BY <2>2, <2>3, <2>4, <2>5
<1>5. mined' \in [Txs -> Heights \cup {Nil}] /\ MinedReached'
  BY <1>1, <1>2, <1>4, NilIsNone DEF IInv, TypeOK, MinedReached, Heights
<1>6. ForksGrow'
  <2>1. ASSUME NEW i \in 1 .. Len(chain'), NEW j \in 1 .. Len(chain'), i <= j
        PROVE  chain'[i] <= chain'[j]
    <3>1. CASE j < h
      <4>1. i \in 1 .. h - 1 /\ j \in 1 .. h - 1 /\ i \in 1 .. Len(chain) /\ j \in 1 .. Len(chain)
        BY <1>2, <2>1, <3>1
      <4>2. chain'[i] = chain[i] /\ chain'[j] = chain[j]
        BY <1>4, <4>1
      <4> QED
        BY <2>1, <4>1, <4>2 DEF IInv, ForksGrow
    <3>2. CASE i < h /\ j >= h
      <4>1. i \in 1 .. h - 1 /\ i \in 1 .. Len(chain) /\ j \in h .. Len(chain) + 1
        BY <1>2, <1>4, <3>2
      <4>2. chain'[j] = Last + 1 /\ chain'[i] = chain[i]
        BY <1>4, <4>1
      <4> QED
        BY <1>2, <1>3, <4>1, <4>2
    <3>3. CASE i >= h
      <4>1. i \in h .. Len(chain) + 1 /\ j \in h .. Len(chain) + 1
        BY <1>2, <1>4, <2>1, <3>3
      <4>2. chain'[i] = Last + 1 /\ chain'[j] = Last + 1
        BY <1>4, <4>1
      <4> QED
        BY <1>2, <4>2
    <3> QED
      BY <1>2, <3>1, <3>2, <3>3
  <2> QED
    BY <2>1 DEF ForksGrow
<1>7. Last <= Last'
  BY <1>2, <1>4
<1>8. ASSUME NEW b \in Blocks, KnownBlock(b), IsCanonical(b)' PROVE IsCanonical(b)
  <2>1. b[1] \in 1 .. Len(chain) /\ b[2] \in Nat /\ b[2] <= Last /\ chain'[b[1]] = b[2]
    BY <1>2, <1>8 DEF KnownBlock, IsCanonical, Blocks, Heights
  <2>2. b[1] \notin h .. Len(chain) + 1
    <3>1. b[1] \in h .. Len(chain) + 1 => b[2] = Last + 1
      BY <1>4, <2>1
    <3> QED
      BY <1>2, <2>1, <3>1
  <2>3. b[1] \in 1 .. h - 1
    BY <1>2, <2>1, <2>2
  <2>4. chain'[b[1]] = chain[b[1]]
    BY <1>4, <2>3
  <2> QED
    BY <1>2, <2>1, <2>4 DEF IsCanonical
<1>9. ASSUME NEW b \in Blocks, NEW t \in Txs, IsCanonical(b), mined[t] = b[1],
             b[1] + MaxReorg <= Len(chain)
      PROVE  IsCanonical(b)' /\ mined'[t] = b[1]
  <2>1. b[1] \in 1 .. h - 1
    BY <1>2, <1>9 DEF Blocks, Heights
  <2>2. IsCanonical(b)'
    <3>1. chain'[b[1]] = chain[b[1]]
      BY <1>4, <2>1
    <3>2. b[1] <= Len(chain) + 1 /\ chain[b[1]] = b[2]
      BY <1>2, <1>9, <2>1 DEF IsCanonical
    <3> QED
      BY <1>4, <3>1, <3>2 DEF IsCanonical
  <2>3. mined[t] # Nil /\ t \notin dropped
    BY <1>2, <1>9, <2>1, NilIsNone DEF Heights
  <2> QED
    BY <1>1, <1>9, <2>2, <2>3
<1>10. chain' # <<>>
  BY <1>4, <1>2
<1> QED
  BY <1>4, <1>5, <1>6, <1>7, <1>8, <1>9, <1>10 DEF ChainMoves

-----------------------------------------------------------------------------
(* The subscriptions. *)

LEMMA SeqOfLarger ==
    ASSUME NEW S, NEW T, S \subseteq T, NEW s \in Seq(S)
    PROVE  s \in Seq(T)
<1>1. s \in [1 .. Len(s) -> T] /\ Len(s) \in Nat
  OBVIOUS
<1> QED
  BY <1>1

LEMMA JoinOfSeqs ==
    ASSUME NEW T, NEW s \in Seq(T), NEW u \in Seq(T)
    PROVE  s \o u \in Seq(T)
OBVIOUS

LEMMA LogsOfKnown ==
    ASSUME NEW S \in SUBSET Txs, NEW b \in Blocks, NEW L,
           \A t \in Txs : [tx |-> t, block |-> b] \in L
    PROVE  LogsOf(S, b) \in Seq(L)
<1>1. CASE S = {}
  BY <1>1 DEF LogsOf
<1>2. CASE S # {}
  <2>1. (CHOOSE t \in S : TRUE) \in Txs
    BY <1>2
  <2> QED
    BY <1>2, <2>1 DEF LogsOf
<1> QED
  BY <1>1, <1>2

\* What a step of the chain sends: the number of the new block, and logs of
\* blocks that are known afterwards.
Sends ==
    /\ heads' = Append(heads, Len(chain) + 1)
    /\ logs \in Seq(KnownLog') => logs' \in Seq(KnownLog')
    /\ UNCHANGED <<inHand, pending, header, current, request, published, panicked>>

LEMMA MineSends ==
    ASSUME IInv, Mine
    PROVE  Sends
<1>1. PICK S \in SUBSET Txs : logs' = logs \o LogsOf(S, <<Len(chain) + 1, Last>>)
  BY DEF Mine, AtMostOne, Last
<1>2. ChainMoves /\ chain' = Append(chain, Last) /\ Last \in Nat /\ Len(chain) \in Nat
  <2>1. chain \in Seq(Nat) /\ chain # <<>>
    BY DEF IInv, TypeOK
  <2>2. chain' = Append(chain, Last) /\ Last \in Nat /\ Len(chain) \in Nat
    BY <2>1 DEF Mine, Last
  <2>3. ChainMoves
    BY MineMoves
  <2> QED
    BY <2>2, <2>3
<1>3. Len(chain') = Len(chain) + 1 /\ Last' = Last
  BY <1>2 DEF Last, IInv, TypeOK
<1>4. \A t \in Txs : [tx |-> t, block |-> <<Len(chain) + 1, Last>>] \in KnownLog'
  BY <1>2, <1>3 DEF KnownLog, KnownBlock, Blocks, Heights
<1>5. <<Len(chain) + 1, Last>> \in Blocks
  BY <1>2 DEF Blocks, Heights
<1>6. LogsOf(S, <<Len(chain) + 1, Last>>) \in Seq(KnownLog')
  BY <1>4, <1>5, LogsOfKnown
<1>7. logs \in Seq(KnownLog') => logs' \in Seq(KnownLog')
  BY <1>1, <1>6, JoinOfSeqs
<1> QED
  BY <1>7 DEF Mine, Sends

LEMMA ReorgSends ==
    ASSUME IInv, NEW h \in 1 .. Len(chain), NEW k \in h .. Len(chain) + 1, Reorg(h, k)
    PROVE  Sends
<1> DEFINE dropped == { t \in Txs : mined[t] # Nil /\ mined[t] >= h }
<1>1. PICK S \in SUBSET Txs, R \in SUBSET dropped :
        logs' = logs \o RemovedLogs(R) \o LogsOf(S, <<k, Last + 1>>)
  BY DEF Reorg, AtMostOne, Last
<1>2. /\ ChainMoves
      /\ chain' = [n \in 1 .. Len(chain) + 1 |-> IF n < h THEN chain[n] ELSE Last + 1]
      /\ chain \in Seq(Nat) /\ Len(chain) \in Nat /\ Last \in Nat
      /\ h \in Nat /\ h >= 1 /\ k \in Nat /\ h <= k /\ k <= Len(chain) + 1
  <2>1. chain \in Seq(Nat) /\ chain # <<>>
    BY DEF IInv, TypeOK
  <2>2. Len(chain) \in Nat /\ Last \in Nat
    BY <2>1 DEF Last
  <2>3. chain' = [n \in 1 .. Len(chain) + 1 |-> IF n < h THEN chain[n] ELSE Last + 1]
    BY DEF Reorg, Last
  <2>4. ChainMoves
    BY ReorgMoves
  <2> QED
    BY <2>1, <2>2, <2>3, <2>4
<1>3. Len(chain') = Len(chain) + 1 /\ Last' = Last + 1
  <2>1. Len(chain') = Len(chain) + 1
    BY <1>2 DEF ChainMoves
  <2>2. chain'[Len(chain) + 1] = Last + 1
    BY <1>2
  <2> QED
    BY <2>1, <2>2 DEF Last
<1>4. LogsOf(S, <<k, Last + 1>>) \in Seq(KnownLog')
  <2>1. <<k, Last + 1>> \in Blocks
    BY <1>2 DEF Blocks, Heights
  <2>2. \A t \in Txs : [tx |-> t, block |-> <<k, Last + 1>>] \in KnownLog'
    BY <1>2, <1>3, <2>1 DEF KnownLog, KnownBlock
  <2> QED
    BY <2>1, <2>2, LogsOfKnown
<1>5. RemovedLogs(R) \in Seq(KnownLog')
  <2>1. CASE R = {}
    BY <2>1 DEF RemovedLogs
  <2>2. CASE R # {}
    <3> DEFINE u == CHOOSE t \in R : TRUE
               b == BlockAt(mined[u])
    <3>1. u \in Txs /\ mined[u] # Nil
      BY <2>2
    <3>2. mined[u] \in 1 .. Len(chain)
      BY <3>1 DEF IInv, TypeOK, MinedReached, Heights
    <3>3. b \in Blocks /\ b[1] <= Len(chain) + 1 /\ b[2] <= Last + 1
      <4>1. b[1] = mined[u] /\ b[2] = chain[mined[u]]
        BY DEF BlockAt
      <4>2. chain[mined[u]] \in Nat /\ chain[mined[u]] <= Last
        BY <1>2, <3>2 DEF IInv, ForksGrow, Last
      <4>3. b \in Blocks
        BY <1>2, <3>2, <4>2 DEF BlockAt, Blocks, Heights
      <4> HIDE DEF b
      <4> QED
        BY <1>2, <3>2, <4>1, <4>2, <4>3
    <3>4. \A t \in Txs : [tx |-> t, block |-> b] \in KnownLog'
      BY <1>3, <3>3 DEF KnownLog, KnownBlock
    <3>5. LogsOf(R, b) \in Seq(KnownLog')
      BY <3>3, <3>4, LogsOfKnown
    <3> QED
      BY <2>2, <3>5 DEF RemovedLogs
  <2> QED
    BY <2>1, <2>2
<1>6. ASSUME logs \in Seq(KnownLog') PROVE logs' \in Seq(KnownLog')
  <2>1. logs \o RemovedLogs(R) \in Seq(KnownLog')
    BY <1>5, <1>6, JoinOfSeqs
  <2> QED
    BY <1>1, <1>4, <2>1, JoinOfSeqs
<1> QED
  BY <1>6 DEF Reorg, Sends, Last

LEMMA ChainStep ==
    ASSUME IInv, ChainMoves, Sends
    PROVE  IInv'
<1>1. /\ chain \in Seq(Nat) /\ chain' \in Seq(Nat) /\ Len(chain) \in Nat /\ Len(chain) > 0
      /\ Last \in Nat /\ Last' \in Nat /\ Len(chain') = Len(chain) + 1 /\ Last <= Last'
  <2>1. chain \in Seq(Nat) /\ chain # <<>> /\ chain' \in Seq(Nat) /\ chain' # <<>>
    BY DEF IInv, TypeOK, ChainMoves
  <2>2. Len(chain) \in Nat /\ Len(chain) > 0 /\ Last \in Nat /\ Last' \in Nat
    BY <2>1 DEF Last
  <2> QED
    BY <2>1, <2>2 DEF ChainMoves
<1>2. UNCHANGED <<inHand, pending, header, current, request, published, panicked>>
  BY DEF Sends
<1>3. heads' \in Seq(1 .. Len(chain')) /\ heads' \in Seq(Heights)
  <2>1. heads \in Seq(1 .. Len(chain'))
    <3>1. 1 .. Len(chain) \subseteq 1 .. Len(chain')
      BY <1>1
    <3> QED
      BY <3>1, SeqOfLarger DEF IInv, NumbersReached
  <2>2. heads' \in Seq(1 .. Len(chain'))
    BY <1>1, <2>1 DEF Sends
  <2>3. 1 .. Len(chain') \subseteq Heights
    BY <1>1 DEF Heights
  <2> QED
    BY <2>2, <2>3, SeqOfLarger
<1>4. ASSUME NEW b \in Blocks, KnownBlock(b) PROVE KnownBlock(b)'
  BY <1>1, <1>4 DEF KnownBlock, Blocks, Heights
<1>5. logs' \in Seq(KnownLog') /\ logs' \in Seq([tx : Txs, block : Blocks])
  <2>1. KnownLog \subseteq KnownLog'
    BY <1>4 DEF KnownLog
  <2>2. logs \in Seq(KnownLog')
    BY <2>1, SeqOfLarger DEF IInv, BlocksKnown
  <2>3. logs' \in Seq(KnownLog')
    BY <2>2 DEF Sends
  <2>4. KnownLog' \subseteq [tx : Txs, block : Blocks]
    BY DEF KnownLog
  <2> QED
    <3> DEFINE K == KnownLog'
               T == [tx : Txs, block : Blocks]
    <3>1. K \subseteq T /\ logs' \in Seq(K)
      BY <2>3, <2>4
    <3> HIDE DEF K, T
    <3>2. logs' \in Seq(T)
      BY <3>1, SeqOfLarger
    <3> QED
      BY <2>3, <3>2 DEF T
<1>6. TypeOK'
  BY <1>2, <1>3, <1>5 DEF IInv, TypeOK, ChainMoves
<1>7. NumbersReached'
  BY <1>1, <1>2, <1>3 DEF IInv, TypeOK, NumbersReached, Header, Request, Heights
<1>8. BlocksKnown'
  <2>1. ASSUME NEW p \in Pending, TimeIsRead(p) PROVE TimeIsRead(p)'
    <3>1. p.block \in Blocks /\ KnownBlock(p.block)
      BY <2>1 DEF Pending, TimeIsRead
    <3>2. KnownBlock(p.block)'
      BY <1>4, <3>1
    <3>3. IsCanonical(p.block)' => IsCanonical(p.block)
      BY <3>1 DEF ChainMoves
    <3> QED
      BY <2>1, <3>2, <3>3 DEF TimeIsRead
  <2>2. \A p \in pending' : TimeIsRead(p)'
    BY <1>2, <2>1 DEF IInv, TypeOK, BlocksKnown
  <2>3. (inHand # Nil => TimeIsRead(inHand))'
    <3>1. inHand # Nil => TimeIsRead(inHand) /\ inHand \in Pending
      BY DEF IInv, TypeOK, BlocksKnown
    <3>2. ASSUME NEW p \in Pending, p = inHand, inHand # Nil PROVE TimeIsRead(p)'
      BY <2>1, <3>1, <3>2
    <3>3. ASSUME NEW p \in Pending, p = inHand', TimeIsRead(p)' PROVE TimeIsRead(inHand)'
      BY <3>3 DEF TimeIsRead, KnownBlock, IsCanonical
    <3> QED
      BY <1>2, <3>1, <3>2, <3>3
  <2> QED
    BY <1>5, <2>2, <2>3 DEF BlocksKnown
<1>9. TodoReady'
  BY <1>2 DEF IInv, TodoReady, Ready, Confirmations
<1>10. PublishedSafe'
  <2>1. ASSUME NEW p \in published, MaxReorg <= Confirmations(p.msg.tx) PROVE Safe(p)'
    <3>1. p.block \in Blocks /\ p.msg.tx \in Txs
      BY DEF IInv, TypeOK, Message
    <3>2. Safe(p)
      BY <2>1 DEF IInv, PublishedSafe
    <3>3. p.block[1] \in Nat /\ Confirmations(p.msg.tx) \in Nat
      BY <3>1, ConfirmationsType DEF Blocks, Heights
    <3>4. p.block[1] + MaxReorg <= Len(chain) /\ p.block[1] + Confirmations(p.msg.tx) <= Len(chain')
      BY <1>1, <2>1, <3>2, <3>3 DEF Safe
    <3>5. IsCanonical(p.block)' /\ mined'[p.msg.tx] = p.block[1]
      BY <3>1, <3>2, <3>4 DEF ChainMoves, Safe
    <3> QED
      BY <3>4, <3>5 DEF Safe, Confirmations
  <2> QED
    BY <1>2, <2>1 DEF IInv, PublishedSafe, Confirmations
<1> QED
  BY <1>6, <1>7, <1>8, <1>9, <1>10 DEF IInv, ChainMoves

-----------------------------------------------------------------------------
(* What the watcher does while the chain stays. *)

LEMMA SameChain ==
    ASSUME UNCHANGED <<chain, mined>>
    PROVE  /\ \A b : (KnownBlock(b)' <=> KnownBlock(b)) /\ (IsCanonical(b)' <=> IsCanonical(b))
           /\ \A p : (TimeIsRead(p)' <=> TimeIsRead(p)) /\ (Safe(p)' <=> Safe(p))
           /\ KnownLog' = KnownLog
           /\ ForksGrow' <=> ForksGrow
           /\ MinedReached' <=> MinedReached
BY DEF KnownBlock, IsCanonical, TimeIsRead, Safe, KnownLog, ForksGrow, MinedReached,
       Last, Confirmations

LEMMA BlockAtCanonical ==
    ASSUME IInv, NEW h \in Heights, h <= Len(chain)
    PROVE  BlockAt(h) \in Blocks /\ IsCanonical(BlockAt(h))
<1>1. chain[h] \in Nat
  BY DEF IInv, TypeOK, Heights
<1> QED
  BY <1>1 DEF BlockAt, IsCanonical, Blocks

LEMMA TailOfSeq ==
    ASSUME NEW T, NEW s \in Seq(T), s # <<>>
    PROVE  Head(s) \in T /\ Tail(s) \in Seq(T)
OBVIOUS

LEMMA TakeLogStep ==
    ASSUME IInv, TakeLog
    PROVE  IInv'
<1> DEFINE l == Head(logs)
<1>1. /\ l \in KnownLog /\ Tail(logs) \in Seq(KnownLog)
      /\ Tail(logs) \in Seq([tx : Txs, block : Blocks])
  BY TailOfSeq DEF IInv, TypeOK, BlocksKnown, TakeLog
<1>2. /\ logs' = Tail(logs) /\ l.block[1] <= Len(chain)
      /\ inHand' = [tx |-> l.tx, block |-> l.block, time |-> BlockAt(l.block[1])]
      /\ UNCHANGED <<chain, mined, heads, pending, header, current, request, published, panicked>>
  BY DEF TakeLog
<1> HIDE DEF l
<1>3. l.tx \in Txs /\ l.block \in Blocks /\ l.block[1] \in Heights /\ KnownBlock(l.block)
  BY <1>1 DEF KnownLog, Blocks
<1>4. BlockAt(l.block[1]) \in Blocks
  BY <1>2, <1>3, BlockAtCanonical
<1>5. inHand' \in Pending
  BY <1>2, <1>3, <1>4 DEF Pending
<1>6. IsCanonical(l.block) => BlockAt(l.block[1]) = l.block
  BY <1>3 DEF IsCanonical, BlockAt, Blocks
<1>7. TimeIsRead(inHand')
  <2>1. ASSUME NEW p, p = inHand' PROVE TimeIsRead(p)
    BY <1>2, <1>3, <1>6, <2>1 DEF TimeIsRead
  <2> QED
    BY <2>1
<1>8. BlocksKnown'
  <2>1. TimeIsRead(inHand)'
    BY <1>2, <1>7 DEF TimeIsRead, KnownBlock, IsCanonical, Last
  <2> QED
    BY <1>1, <1>2, <2>1, SameChain DEF IInv, BlocksKnown
<1>9. TypeOK'
  BY <1>1, <1>2, <1>5 DEF IInv, TypeOK
<1> QED
  BY <1>2, <1>8, <1>9, SameChain
  DEF IInv, NumbersReached, TodoReady, Ready, Confirmations, PublishedSafe

LEMMA InsertPendingStep ==
    ASSUME IInv, InsertPending
    PROVE  IInv'
<1>1. /\ inHand \in Pending /\ TimeIsRead(inHand)
      /\ header' = Nil /\ inHand' = Nil
      /\ \A p \in pending' : p \in pending \/ p = inHand
      /\ UNCHANGED <<chain, mined, heads, logs, current, request, published, panicked>>
  BY DEF IInv, TypeOK, BlocksKnown, InsertPending
<1>2. pending' \subseteq Pending
  BY <1>1 DEF IInv, TypeOK
<1>3. \A p \in pending' : TimeIsRead(p)
  BY <1>1 DEF IInv, BlocksKnown
<1>4. TypeOK'
  BY <1>1, <1>2 DEF IInv, TypeOK
<1>5. BlocksKnown'
  BY <1>1, <1>3, SameChain DEF IInv, BlocksKnown
<1> QED
  BY <1>1, <1>4, <1>5, SameChain
  DEF IInv, NumbersReached, TodoReady, PublishedSafe, Confirmations

LEMMA TakeHeaderStep ==
    ASSUME IInv, TakeHeader
    PROVE  IInv'
<1> DEFINE n == Head(heads)
<1>1. n \in 1 .. Len(chain) /\ Tail(heads) \in Seq(1 .. Len(chain)) /\ Tail(heads) \in Seq(Heights)
  BY TailOfSeq DEF IInv, TypeOK, NumbersReached, TakeHeader
<1>2. /\ current' = n /\ heads' = Tail(heads)
      /\ pending' \subseteq pending
      /\ header' = [number |-> n, todo |-> { p \in pending' : Ready(p, n) }]
      /\ UNCHANGED <<chain, mined, logs, inHand, request, published, panicked>>
  BY DEF TakeHeader
<1> HIDE DEF n
<1>3. n \in Heights /\ n \in Nat /\ n <= Len(chain)
  BY <1>1 DEF Heights
<1>4. pending' \subseteq Pending /\ { p \in pending' : Ready(p, n) } \subseteq Pending
  BY <1>2 DEF IInv, TypeOK
<1>5. header' \in Header
  BY <1>2, <1>3, <1>4 DEF Header
<1>6. TypeOK'
  BY <1>1, <1>2, <1>3, <1>4, <1>5 DEF IInv, TypeOK
<1>7. NumbersReached'
  BY <1>1, <1>2, <1>3 DEF IInv, NumbersReached
<1>8. TodoReady'
  BY <1>2 DEF TodoReady, Ready, Confirmations
<1>9. BlocksKnown'
  BY <1>2, SameChain DEF IInv, BlocksKnown
<1> QED
  BY <1>2, <1>6, <1>7, <1>8, <1>9, SameChain DEF IInv, PublishedSafe, Confirmations

LEMMA PublishStep ==
    ASSUME IInv, UNCHANGED <<chain, mined>>, NEW t \in Txs, mined[t] # Nil,
           mined[t] + Confirmations(t) <= Len(chain),
           Publish(t, BlockAt(mined[t]), BlockAt(mined[t]))
    PROVE  PublishedSafe' /\ published' \subseteq [msg : Message, block : Blocks]
<1> DEFINE b == BlockAt(mined[t])
           q == [msg |-> [tx |-> t, time |-> b], block |-> b]
<1>1. mined[t] \in Heights /\ mined[t] <= Len(chain)
  BY DEF IInv, TypeOK, MinedReached
<1>2. b \in Blocks /\ IsCanonical(b) /\ b[1] = mined[t]
  BY <1>1, BlockAtCanonical DEF BlockAt
<1>3. published' = published \cup {q}
  BY DEF Publish
<1> HIDE DEF b
<1>4. q \in [msg : Message, block : Blocks] /\ q.msg.time = q.block /\ Safe(q)
  BY <1>2 DEF Message, Safe
<1> HIDE DEF q
<1>5. \A p \in published' : p.msg.time = p.block /\ (MaxReorg <= Confirmations(p.msg.tx) => Safe(p))
  BY <1>3, <1>4 DEF IInv, PublishedSafe
<1> QED
  BY <1>3, <1>4, <1>5, SameChain DEF IInv, TypeOK, PublishedSafe, Confirmations

LEMMA LookUpStep ==
    ASSUME IInv, NEW p \in pending, LookUp(p)
    PROVE  IInv'
<1>1. /\ header # Nil /\ p \in header.todo /\ header \in Header
      /\ pending' = pending \ {p}
      /\ header' = [header EXCEPT !.todo = @ \ {p}]
      /\ UNCHANGED <<chain, mined, heads, logs, inHand, current, request, panicked>>
  BY DEF IInv, TypeOK, LookUp
<1>2. header' = [number |-> header.number, todo |-> header.todo \ {p}]
      /\ header.number \in Nat /\ header.todo \in SUBSET Pending
  BY <1>1 DEF Header, Heights
<1>3. header' \in Header /\ header'.number = header.number /\ header'.todo = header.todo \ {p}
  BY <1>1, <1>2 DEF Header
<1>4. PublishedSafe' /\ published' \subseteq [msg : Message, block : Blocks]
  <2>1. CASE Confirm(p)
    <3>1. p \in Pending /\ TimeIsRead(p) /\ Ready(p, header.number) /\ header.number <= Len(chain)
      BY <1>1 DEF IInv, TypeOK, BlocksKnown, TodoReady, NumbersReached
    <3>2. p.tx \in Txs /\ mined[p.tx] # Nil /\ BlockAt(mined[p.tx]) = p.block
      BY <2>1, <3>1 DEF Confirm, Pending
    <3>3. mined[p.tx] \in Heights /\ mined[p.tx] <= Len(chain)
      BY <3>2 DEF IInv, TypeOK, MinedReached
    <3>4. IsCanonical(p.block) /\ p.block[1] = mined[p.tx]
      <4>1. BlockAt(mined[p.tx])[1] = mined[p.tx]
        BY DEF BlockAt
      <4> QED
        BY <3>2, <3>3, <4>1, BlockAtCanonical
    <3>5. p.time = p.block
      BY <3>1, <3>4 DEF TimeIsRead
    <3>6. mined[p.tx] + Confirmations(p.tx) <= Len(chain)
      BY <1>2, <3>1, <3>2, <3>3, <3>4, ConfirmationsType DEF Ready, Heights, IInv, TypeOK
    <3>7. Publish(p.tx, BlockAt(mined[p.tx]), BlockAt(mined[p.tx]))
      BY <2>1, <3>2, <3>5 DEF Confirm
    <3> QED
      BY <1>1, <3>2, <3>6, <3>7, PublishStep
  <2>2. CASE DropMismatch(p)
    BY <1>1, <2>2, SameChain DEF DropMismatch, IInv, TypeOK, PublishedSafe, Confirmations
  <2> QED
    BY <2>1, <2>2 DEF LookUp
<1>5. TypeOK'
  BY <1>1, <1>3, <1>4 DEF IInv, TypeOK
<1>6. NumbersReached'
  BY <1>1, <1>3 DEF IInv, NumbersReached
<1>7. TodoReady'
  BY <1>1, <1>3 DEF IInv, TodoReady, Ready, Confirmations
<1>8. BlocksKnown'
  BY <1>1, SameChain DEF IInv, BlocksKnown
<1> QED
  BY <1>1, <1>4, <1>5, <1>6, <1>7, <1>8, SameChain DEF IInv

LEMMA FinishHeaderStep ==
    ASSUME IInv, FinishHeader
    PROVE  IInv'
<1>1. /\ header' = Nil
      /\ UNCHANGED <<chain, mined, heads, logs, inHand, pending, current, request, published, panicked>>
  BY DEF FinishHeader
<1>2. TypeOK'
  BY <1>1 DEF IInv, TypeOK
<1> QED
  BY <1>1, <1>2, SameChain
  DEF IInv, NumbersReached, BlocksKnown, TodoReady, PublishedSafe, Confirmations

\* What is left is what a watcher may have: nothing, or what it had.
Forgets ==
    /\ heads' = <<>> /\ logs' = <<>> /\ header' = Nil /\ current' = 0
    /\ inHand' \in {inHand, Nil} /\ pending' \subseteq pending
    /\ request' \in {request, Nil}
    /\ panicked' \in BOOLEAN
    /\ UNCHANGED <<chain, mined, published>>

LEMMA ForgetStep ==
    ASSUME IInv, Forgets
    PROVE  IInv'
<1>1. /\ heads' \in Seq(Heights) /\ heads' \in Seq(1 .. Len(chain'))
      /\ logs' \in Seq([tx : Txs, block : Blocks]) /\ logs' \in Seq(KnownLog')
  BY DEF Forgets
<1>2. TypeOK'
  BY <1>1 DEF Forgets, IInv, TypeOK
<1>3. NumbersReached'
  BY <1>1 DEF Forgets, IInv, TypeOK, NumbersReached
<1>4. BlocksKnown'
  <2>1. (inHand # Nil => TimeIsRead(inHand))'
    BY DEF Forgets, IInv, BlocksKnown, TimeIsRead, KnownBlock, IsCanonical, Last
  <2>2. \A p \in pending' : TimeIsRead(p)'
    BY SameChain DEF Forgets, IInv, BlocksKnown
  <2> QED
    BY <1>1, <2>1, <2>2 DEF BlocksKnown
<1> QED
  BY <1>2, <1>3, <1>4, SameChain
  DEF Forgets, IInv, TodoReady, PublishedSafe, Confirmations

LEMMA LoadBlockNumberStep ==
    ASSUME IInv, NEW t \in Txs, LoadBlockNumber(t)
    PROVE  IInv'
<1>1. /\ request' = [tx |-> t, number |-> current]
      /\ current \in Nat /\ current # 0 /\ current <= Len(chain)
      /\ UNCHANGED <<chain, mined, heads, logs, inHand, pending, header, current, published, panicked>>
  BY DEF LoadBlockNumber, IInv, TypeOK, NumbersReached
<1>2. request' \in Request /\ request'.number <= Len(chain)
  BY <1>1 DEF Request, Heights
<1>3. TypeOK'
  BY <1>1, <1>2 DEF IInv, TypeOK
<1>4. NumbersReached'
  BY <1>1, <1>2 DEF IInv, NumbersReached
<1> QED
  BY <1>1, <1>3, <1>4, SameChain
  DEF IInv, BlocksKnown, TodoReady, Ready, Confirmations, PublishedSafe

LEMMA ReobserveStep ==
    ASSUME IInv, Reobserve
    PROVE  IInv'
<1>1. /\ request # Nil /\ request' = Nil
      /\ request \in Request /\ request.number <= Len(chain)
      /\ UNCHANGED <<chain, mined, heads, logs, inHand, pending, header, current, panicked>>
  BY DEF Reobserve, IInv, TypeOK, NumbersReached
<1>2. PublishedSafe' /\ published' \subseteq [msg : Message, block : Blocks]
  <2> DEFINE t == request.tx
  <2>1. CASE published' = published
    BY <1>1, <2>1, SameChain DEF IInv, TypeOK, PublishedSafe, Confirmations
  <2>2. CASE /\ mined[t] # Nil /\ mined[t] + Confirmations(t) <= request.number
             /\ Publish(t, BlockAt(mined[t]), BlockAt(mined[t]))
    <3>1. t \in Txs /\ request.number \in Nat
      BY <1>1 DEF Request, Heights
    <3>2. mined[t] \in Nat
      BY <2>2, <3>1 DEF IInv, TypeOK, Heights
    <3>3. mined[t] + Confirmations(t) <= Len(chain)
      BY <1>1, <2>2, <3>1, <3>2, ConfirmationsType DEF IInv, TypeOK
    <3> HIDE DEF t
    <3> QED
      BY <1>1, <2>2, <3>1, <3>3, PublishStep
  <2> QED
    BY <2>1, <2>2 DEF Reobserve
<1>3. TypeOK'
  BY <1>1, <1>2 DEF IInv, TypeOK
<1> QED
  BY <1>1, <1>2, <1>3, SameChain
  DEF IInv, NumbersReached, BlocksKnown, TodoReady, Ready, Confirmations

LEMMA StepIInv ==
    ASSUME IInv, [Next]_vars
    PROVE  IInv'
<1>1. CASE Mine
  BY <1>1, MineMoves, MineSends, ChainStep
<1>2. ASSUME NEW h \in 1 .. Len(chain), NEW k \in h .. Len(chain) + 1, Reorg(h, k)
      PROVE  IInv'
  BY <1>2, ReorgMoves, ReorgSends, ChainStep
<1>3. CASE TakeLog
  BY <1>3, TakeLogStep
<1>4. CASE InsertPending
  BY <1>4, InsertPendingStep
<1>5. CASE TakeHeader
  BY <1>5, TakeHeaderStep
<1>6. ASSUME NEW p \in pending, LookUp(p) PROVE IInv'
  BY <1>6, LookUpStep
<1>7. CASE FinishHeader
  BY <1>7, FinishHeaderStep
<1>8. ASSUME NEW p \in pending, LookUpFails(p) PROVE IInv'
  <2>1. Forgets
    BY <1>8 DEF LookUpFails, StartAgain, Forgets
  <2> QED
    BY <2>1, ForgetStep
<1>9. CASE Resubscribe
  <2>1. Forgets
    BY <1>9 DEF Resubscribe, Forgets, IInv, TypeOK
  <2> QED
    BY <2>1, ForgetStep
<1>10. ASSUME NEW t \in Txs, LoadBlockNumber(t) PROVE IInv'
  BY <1>10, LoadBlockNumberStep
<1>11. CASE Reobserve
  BY <1>11, ReobserveStep
<1>12. CASE UNCHANGED vars
  <2>1. TypeOK'
    BY <1>12 DEF vars, IInv, TypeOK
  <2>2. NumbersReached'
    BY <1>12 DEF vars, IInv, NumbersReached
  <2> QED
    BY <1>12, <2>1, <2>2, SameChain
    DEF vars, IInv, BlocksKnown, TodoReady, Ready, Confirmations, PublishedSafe
<1> QED
  BY <1>1, <1>2, <1>3, <1>4, <1>5, <1>6, <1>7, <1>8, <1>9, <1>10, <1>11, <1>12 DEF Next

\* The inductive invariant holds in every reachable state of the watcher.
THEOREM Invariance == Spec => []IInv
<1>1. IInv /\ [Next]_vars => IInv'
  BY StepIInv
<1> QED
  BY InitIInv, <1>1, PTL DEF Spec

-----------------------------------------------------------------------------
(* What follows. *)

\* The watcher's state has its type in every reachable state: no step stores a
\* number, block or entry of another kind.
THEOREM TypeCorrect == Spec => []TypeOK
<1>1. IInv => TypeOK
  BY DEF IInv
<1> QED
  BY Invariance, <1>1, PTL

\* Whatever the depth of forks and the consistency levels, a message that waits
\* at least as long as forks are deep is published from a block that stays.
THEOREM FinalWhenPublished == Spec => []PublishedIsFinal
<1>1. IInv => PublishedIsFinal
  BY DEF IInv, PublishedSafe, Safe, PublishedIsFinal
<1> QED
  BY Invariance, <1>1, PTL

\* The time that guardians sign is that of the block the message was mined in,
\* by whichever path it is published.
THEOREM RightTimestamp == Spec => []TimestampIsOfBlock
<1>1. IInv => TimestampIsOfBlock
  BY DEF IInv, PublishedSafe, TimestampIsOfBlock
<1> QED
  BY Invariance, <1>1, PTL

\* Headers and re-observations, before and after forks and restarts, publish
\* one and the same message for a transaction.
THEOREM OneMessage == Spec => []OneMessagePerTx
<1>1. ASSUME IInv, NEW p \in published, NEW q \in published, p.msg.tx = q.msg.tx,
             MaxReorg <= Confirmations(p.msg.tx)
      PROVE  p.msg = q.msg
  <2>1. /\ p.msg \in Message /\ q.msg \in Message
        /\ p.block \in Blocks /\ q.block \in Blocks
    BY <1>1 DEF IInv, TypeOK
  <2>2. p.msg.time = p.block /\ q.msg.time = q.block /\ Safe(p) /\ Safe(q)
    BY <1>1 DEF IInv, PublishedSafe
  <2>3. p.block = q.block
    BY <1>1, <2>1, <2>2 DEF Safe, IsCanonical, Blocks
  <2> QED
    BY <1>1, <2>1, <2>2, <2>3 DEF Message
<1>2. IInv => OneMessagePerTx
  BY <1>1 DEF OneMessagePerTx
<1> QED
  BY Invariance, <1>2, PTL
=============================================================================
