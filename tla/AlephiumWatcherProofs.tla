------------------------ MODULE AlephiumWatcherProofs ------------------------
(***************************************************************************)
(* Proofs about AlephiumWatcher, for every chain, fork, message, capacity  *)
(* of the channel and pattern of restarts.                                 *)
(*                                                                         *)
(* Two invariants carry the argument, each on top of the types.  FinalInv  *)
(* follows a message from the block it was read in to its publication:     *)
(* what is handed over is so deep that no fork reaches it.  NoForkInv      *)
(* follows the events of a chain without forks through pendings, channel   *)
(* and database, so that nothing is counted as done that is not.           *)
(***************************************************************************)
EXTENDS AlephiumWatcher, TLAPS, WellFoundedInduction

-----------------------------------------------------------------------------
(* Operators. *)

LessOnNat == { ss \in Nat \X Nat : ss[1] < ss[2] }

LEMMA LessOnNatWellFounded == IsWellFoundedOn(LessOnNat, Nat)
BY NatLessThanWellFounded DEF OpToRel, LessOnNat

\* A set of heights that is not empty has a least one, and Min is it.
LEMMA MinIs ==
    ASSUME NEW S \in SUBSET Nat, S # {}
    PROVE  Min(S) \in S /\ \A y \in S : Min(S) <= y
<1>1. PICK x \in S : \A y \in S : ~(<<y, x>> \in LessOnNat)
  BY LessOnNatWellFounded, WFMin
<1>2. \A y \in S : x <= y
  <2> SUFFICES ASSUME NEW y \in S, y < x PROVE FALSE
    OBVIOUS
  <2>1. <<y, x>> \in LessOnNat
    BY DEF LessOnNat
  <2> QED
    BY <1>1, <2>1
<1> QED
  BY <1>2 DEF Min

LEMMA ConstantTypes ==
    /\ MinConfirmations \in Nat /\ MaxForkHeight \in Nat
    /\ ChannelSize \in Nat /\ ChannelSize > 0
    /\ MaxReorg \in Nat /\ MaxHeight \in Nat /\ MaxForks \in Nat /\ MaxRestarts \in Nat
    /\ Messages \cap Creations = {}
BY AlephiumAssumption

LEMMA NilIsNone == Nil \notin Creations /\ Nil \notin Nat /\ Nil \notin Work /\ Nil \notin Request
BY AlephiumAssumption

LEMMA ConfirmationsType ==
    ASSUME NEW e \in Events
    PROVE  Confirmations(e) \in Nat /\ MinConfirmations <= Confirmations(e)
BY AlephiumAssumption DEF Confirmations, Events

LEMMA MinPending ==
    ASSUME TypeOK, Doing("check"), Unchecked # {}
    PROVE  /\ Min(Unchecked) \in DOMAIN pendings
           /\ Min(Unchecked) \in Heights
           /\ work.at <= Min(Unchecked)
           /\ \A h \in DOMAIN pendings : h >= work.at => Min(Unchecked) <= h
<1>1. DOMAIN pendings \subseteq Heights /\ Heights \subseteq Nat
  BY ConstantTypes DEF TypeOK, PendingType, Heights
<1>2. Unchecked \in SUBSET Nat
  BY <1>1 DEF Unchecked
<1> QED
  BY <1>1, <1>2, MinIs DEF Unchecked

-----------------------------------------------------------------------------
(* Types. *)

Block == [fork : Nat, events : SUBSET Events]

LEMMA ChainFacts ==
    ASSUME TypeOK
    PROVE  /\ chain \in Seq(Block) /\ Len(chain) = Tip + 1
           /\ Tip \in Nat /\ Tip <= MaxHeight /\ Heights \subseteq Nat
           /\ \A h \in 0 .. Tip :
                /\ h \in Heights
                /\ At(h) = chain[h + 1]
                /\ At(h) \in Block /\ At(h).fork \in Nat /\ At(h).events \subseteq Events
                /\ PendingAt(h) \in [fork : Nat, messages : SUBSET Events]
                /\ PendingAt(h).fork = At(h).fork /\ PendingAt(h).messages = At(h).events
<1>1. chain \in Seq(Block) /\ Len(chain) = Tip + 1 /\ Tip \in Nat /\ Tip <= MaxHeight
  BY ConstantTypes DEF TypeOK, Block, Tip, Heights
<1>2. ASSUME NEW h \in 0 .. Tip
      PROVE  At(h) \in Block
  BY <1>1 DEF At
<1> QED
  BY <1>1, <1>2, ConstantTypes DEF Heights, Block, At, PendingAt

LEMMA InitType == Init => TypeOK
<1> SUFFICES ASSUME Init PROVE TypeOK
  OBVIOUS
<1>1. chain \in Seq([fork : Nat, events : SUBSET Events]) /\ Tip = 0
  BY DEF Init, Tip
<1>2. PendingType
  BY DEF Init, PendingType
<1> QED
  BY <1>1, <1>2, ConstantTypes DEF Init, TypeOK, Heights

\* What the chain's steps change.
ChainType ==
    /\ chain \in Seq(Block)
    /\ Tip \in Heights /\ highest \in Heights /\ fork \in 0 .. MaxForks

LEMMA TypeOfChain == TypeOK => ChainType
BY DEF TypeOK, ChainType, Block

\* What they leave alone.
RestType ==
    /\ polled \in Heights
    /\ current \in Heights \cup {Nil}
    /\ PendingType
    /\ work \in Work \cup {Nil}
    /\ request \in Request \cup {Nil}
    /\ confirmedC \in Seq(ConfirmedType) /\ Len(confirmedC) <= ChannelSize
    /\ fromHeight \in Nat /\ blocks \subseteq Heights
    /\ lastHeight \in Heights \cup {Nil} /\ addresses \subseteq Creations
    /\ published \subseteq [message : Messages, height : Heights, fork : Nat, reObserved : BOOLEAN]
    /\ skipped \subseteq Heights /\ restarts \in 0 .. MaxRestarts
    /\ current = Nil => (work = Nil /\ request = Nil /\ confirmedC = <<>>)

LEMMA TypeSplit ==
    /\ TypeOK <=> ChainType /\ RestType
    /\ TypeOK' <=> ChainType' /\ RestType'
BY DEF TypeOK, ChainType, RestType, Block

LEMMA ChainTypeSame ==
    ASSUME ChainType, UNCHANGED chainVars
    PROVE  ChainType'
BY DEF ChainType, chainVars, Tip

\* The chain after a fork.
Forked(h, k, n, S) ==
    [i \in 1 .. n + 1 |->
        IF i <= h THEN chain[i]
        ELSE [fork |-> fork', events |-> IF i = k + 1 THEN S ELSE {}]]

EventsBelow(h) == UNION { At(i).events : i \in 0 .. h - 1 }

LEMMA ReorgChain ==
    ASSUME TypeOK, NEW h \in 1 .. MaxHeight, NEW k \in 1 .. MaxHeight,
           NEW n \in Tip - 1 .. Tip + 1, Reorg(h, k, n)
    PROVE  /\ fork' = fork + 1 /\ fork' \in Nat
           /\ n \in Nat /\ h - 1 <= n /\ n <= MaxHeight /\ h <= Tip
           /\ highest - h + 1 <= MaxReorg
           /\ \E S \in SUBSET Events :
                /\ chain' = Forked(h, k, n, S)
                /\ S \cap EventsBelow(h) = {}
           /\ chain' \in Seq(Block) /\ Len(chain') = n + 1
           /\ Tip' = n
<1>1. /\ fork' = fork + 1 /\ fork' \in Nat
      /\ n \in Nat /\ h - 1 <= n /\ n <= MaxHeight /\ h <= Tip
      /\ highest - h + 1 <= MaxReorg
  BY ChainFacts DEF Reorg, TypeOK
<1>2. PICK S \in SUBSET Events : /\ chain' = Forked(h, k, n, S)
                                 /\ S \cap EventsBelow(h) = {}
  <2>1. PICK S \in Mineable(EventsBelow(h)) : chain' = Forked(h, k, n, S)
    BY DEF Reorg, Forked, EventsBelow
  <2>2. S \subseteq Events /\ S \cap EventsBelow(h) = {}
    BY DEF Mineable
  <2> QED
    BY <2>1, <2>2
<1>3. ASSUME NEW i \in 1 .. n + 1
      PROVE  chain'[i] \in Block
  <2>1. CASE i <= h
    BY <1>1, <1>2, <2>1, ChainFacts DEF Forked
  <2>2. CASE ~(i <= h)
    <3>1. chain'[i] = [fork |-> fork', events |-> IF i = k + 1 THEN S ELSE {}]
      BY <1>2, <2>2 DEF Forked
    <3> QED
      BY <1>1, <3>1 DEF Block
  <2> QED
    BY <2>1, <2>2
<1>4. chain' = [i \in 1 .. n + 1 |-> chain'[i]]
  BY <1>2 DEF Forked
<1>5. chain' \in [1 .. n + 1 -> Block]
  BY <1>3, <1>4
<1>6. chain' \in Seq(Block) /\ Len(chain') = n + 1
  BY <1>1, <1>5
<1> QED
  BY <1>1, <1>2, <1>6 DEF Tip

LEMMA MineChain ==
    ASSUME TypeOK, Mine
    PROVE  /\ \E S \in SUBSET Events :
                /\ chain' = Append(chain, [fork |-> fork, events |-> S])
                /\ S \cap Mined = {}
           /\ fork' = fork
           /\ chain' \in Seq(Block) /\ Len(chain') = Len(chain) + 1
           /\ Tip' = Tip + 1 /\ Tip' <= MaxHeight
<1>1. PICK S \in SUBSET Events : /\ chain' = Append(chain, [fork |-> fork, events |-> S])
                                 /\ S \cap Mined = {}
  <2>1. PICK S \in Mineable(Mined) : chain' = Append(chain, [fork |-> fork, events |-> S])
    BY DEF Mine
  <2>2. S \subseteq Events /\ S \cap Mined = {}
    BY DEF Mineable
  <2> QED
    BY <2>1, <2>2
<1>2. [fork |-> fork, events |-> S] \in Block
  BY ConstantTypes DEF TypeOK, Block
<1>3. chain' \in Seq(Block) /\ Len(chain') = Len(chain) + 1
  BY <1>1, <1>2, ChainFacts
<1>4. Tip' = Tip + 1 /\ Tip' <= MaxHeight
  <2>1. Tip' = Len(chain') - 1 /\ Tip < MaxHeight
    BY DEF Mine, Tip
  <2> QED
    BY <1>3, <2>1, ChainFacts, ConstantTypes
<1>5. fork' = fork
  BY DEF Mine
<1> QED
  BY <1>1, <1>3, <1>4, <1>5

LEMMA MineType ==
    ASSUME TypeOK, Mine
    PROVE  TypeOK'
<1>1. ChainType'
  <2>1. chain' \in Seq(Block) /\ Tip' \in Heights /\ Tip + 1 \in Heights
    BY MineChain, ChainFacts, ConstantTypes DEF Heights
  <2>2. highest' \in Heights /\ fork' \in 0 .. MaxForks
    BY <2>1 DEF Mine, TypeOK
  <2> QED
    BY <2>1, <2>2 DEF ChainType
<1>2. RestType'
  BY TypeSplit DEF Mine, RestType, PendingType, watchVars, validatorVars, dbVars
<1> QED
  BY <1>1, <1>2, TypeSplit

LEMMA ReorgType ==
    ASSUME TypeOK, NEW h \in 1 .. MaxHeight, NEW k \in 1 .. MaxHeight,
           NEW n \in Tip - 1 .. Tip + 1, Reorg(h, k, n)
    PROVE  TypeOK'
<1>1. ChainType'
  <2>1. highest' \in Heights /\ fork' \in 0 .. MaxForks
    BY ReorgChain, ConstantTypes DEF Reorg, TypeOK, Heights
  <2>2. chain' \in Seq(Block) /\ Tip' \in Heights
    BY ReorgChain, ConstantTypes DEF Heights
  <2> QED
    BY <2>1, <2>2 DEF ChainType
<1>2. RestType'
  BY TypeSplit DEF Reorg, RestType, PendingType, watchVars, validatorVars, dbVars
<1> QED
  BY <1>1, <1>2, TypeSplit

LEMMA SendType ==
    ASSUME TypeOK, NEW c \in ConfirmedType, Send(c)
    PROVE  /\ confirmedC' \in Seq(ConfirmedType)
           /\ Len(confirmedC') = Len(confirmedC) + 1 /\ Len(confirmedC') <= ChannelSize
           /\ \A i \in 1 .. Len(confirmedC) : confirmedC'[i] = confirmedC[i]
           /\ confirmedC'[Len(confirmedC) + 1] = c
BY ConstantTypes DEF TypeOK, Send

LEMMA WorkCheck ==
    ASSUME NEW w \in Work, NEW h \in Heights, NEW v, v = [w EXCEPT !.do = "check", !.at = h + 1]
    PROVE  v = [do |-> "check", at |-> h + 1, to |-> w.to] /\ v \in Work
<1>1. w.to \in Heights /\ h + 1 \in Nat /\ w = [do |-> w.do, at |-> w.at, to |-> w.to]
  BY ConstantTypes DEF Work, Heights
<1>2. v = [do |-> "check", at |-> h + 1, to |-> w.to]
  BY <1>1
<1> QED
  BY <1>1, <1>2 DEF Work

PendingSet == [fork : Nat, messages : SUBSET Events]

\* What handing over the events of a block does.
LEMMA HandOverType ==
    ASSUME TypeOK, NEW h \in Heights, NEW p \in PendingSet, work # Nil, HandOver(h, p)
    PROVE  /\ PendingType'
           /\ confirmedC' \in Seq(ConfirmedType) /\ Len(confirmedC') <= ChannelSize
           /\ work' = [do |-> "check", at |-> h + 1, to |-> work.to]
           /\ work' \in Work
<1> DEFINE deep == { e \in p.messages : IsDeep(h, e) }
<1>1. deep \subseteq Events /\ p.messages \ deep \subseteq Events
  BY DEF PendingSet
<1>2. Confirmed(h, p, deep, deep = p.messages) \in ConfirmedType
  BY <1>1 DEF Confirmed, ConfirmedType, PendingSet
<1>3. Send(Confirmed(h, p, deep, deep = p.messages))
  BY DEF HandOver
<1>4. [p EXCEPT !.messages = @ \ deep] \in PendingSet
  BY <1>1 DEF PendingSet
<1>5. PendingType'
  <2>1. CASE deep = p.messages
    <3>1. pendings' = Restrict(pendings, DOMAIN pendings \ {h})
      BY <2>1 DEF HandOver
    <3> QED
      BY <3>1 DEF TypeOK, PendingType, Restrict
  <2>2. CASE deep # p.messages
    <3>1. pendings' = Put(h, [p EXCEPT !.messages = @ \ deep])
      BY <2>2 DEF HandOver
    <3> QED
      BY <1>4, <3>1 DEF TypeOK, PendingType, Put, PendingSet
  <2> QED
    BY <2>1, <2>2
<1>6. work \in Work /\ work' = [work EXCEPT !.do = "check", !.at = h + 1]
  BY DEF HandOver, CheckNext, TypeOK
<1>7. work' = [do |-> "check", at |-> h + 1, to |-> work.to] /\ work' \in Work
  BY <1>6, WorkCheck
<1>8. confirmedC' \in Seq(ConfirmedType) /\ Len(confirmedC') <= ChannelSize
  BY <1>2, <1>3, SendType
<1> QED
  BY <1>5, <1>7, <1>8

LEMMA PollType == TypeOK /\ Poll => TypeOK'
<1> SUFFICES ASSUME TypeOK, Poll PROVE TypeOK'
  OBVIOUS
<1>1. ChainType'
  BY TypeOfChain, ChainTypeSame DEF Poll
<1>2. [do |-> "fetch", at |-> current + 1, to |-> Tip] \in Work
  BY ChainFacts, ConstantTypes DEF Poll, TypeOK, Work, Heights
<1>3. Tip \in Heights
  BY DEF TypeOK
<1>4. work' \in Work \cup {Nil} /\ current' \in Heights \cup {Nil} /\ current # Nil
  BY <1>2, <1>3 DEF Poll, TypeOK
<1>5. current' # Nil
  BY <1>3, <1>4, ChainFacts, NilIsNone DEF Poll
<1>6. RestType'
  BY <1>3, <1>4, <1>5, TypeSplit DEF Poll, RestType, PendingType, validatorVars, dbVars
<1> QED
  BY <1>1, <1>6, TypeSplit

LEMMA FetchType == TypeOK /\ Fetch => TypeOK'
<1> SUFFICES ASSUME TypeOK, Fetch PROVE TypeOK'
  OBVIOUS
<1>1. ChainType'
  BY TypeOfChain, ChainTypeSame DEF Fetch
<1>2. work \in Work /\ work.at \in Nat /\ work.to \in Heights /\ work.do = "fetch"
  BY DEF TypeOK, Work, Fetch, Doing
<1>3. work.at \in 0 .. Tip /\ work.at \in Heights
  BY <1>2, ChainFacts DEF Fetch
<1>4. PendingType'
  BY <1>3, ChainFacts DEF Fetch, TypeOK, PendingType, Put
<1>5. work' \in Work /\ current' \in Heights \cup {Nil} /\ (current' = Nil => current = Nil)
  <2>1. CASE work' = [work EXCEPT !.at = @ + 1] /\ UNCHANGED current
    <3>1. work.at + 1 \in Nat
      BY <1>2
    <3> QED
      BY <1>2, <2>1, <3>1 DEF Work, TypeOK
  <2>2. CASE work' = [do |-> "check", at |-> 0, to |-> work.to] /\ current' = work.to
    BY <1>2, <2>2, NilIsNone, ConstantTypes DEF Work, Heights
  <2> QED
    BY <2>1, <2>2 DEF Fetch
<1>6. current # Nil
  BY <1>2, NilIsNone DEF TypeOK
<1>7. RestType'
  BY <1>4, <1>5, <1>6, TypeSplit DEF Fetch, RestType, validatorVars, dbVars
<1> QED
  BY <1>1, <1>7, TypeSplit

\* The steps of checkConfirmations hand over a block, or change work alone.
LEMMA CheckedType ==
    ASSUME TypeOK, work # Nil, work' \in Work, PendingType',
           confirmedC' \in Seq(ConfirmedType), Len(confirmedC') <= ChannelSize,
           UNCHANGED <<chainVars, polled, current, request, validatorVars, dbVars,
                       published, skipped, restarts>>
    PROVE  TypeOK'
<1>1. ChainType'
  BY TypeOfChain, ChainTypeSame
<1>2. current # Nil
  BY DEF TypeOK
<1>3. RestType'
  BY <1>2, TypeSplit DEF RestType, validatorVars, dbVars
<1> QED
  BY <1>1, <1>3, TypeSplit

LEMMA CheckType == TypeOK /\ Check => TypeOK'
<1> SUFFICES ASSUME TypeOK, Check PROVE TypeOK'
  OBVIOUS
<1> DEFINE h == Min(Unchecked)
<1>1. h \in DOMAIN pendings /\ h \in Heights /\ pendings[h] \in PendingSet
  BY MinPending DEF Check, TypeOK, PendingType, PendingSet
<1>2. work # Nil /\ work \in Work
  BY DEF Check, Doing, TypeOK
<1>3. CASE CheckEmpty(h)
  <2>1. Confirmed(h, pendings[h], {}, TRUE) \in ConfirmedType
    BY <1>1 DEF Confirmed, ConfirmedType, PendingSet
  <2>2. confirmedC' \in Seq(ConfirmedType) /\ Len(confirmedC') <= ChannelSize
    BY <1>3, <2>1, SendType DEF CheckEmpty
  <2>3. work' \in Work
    BY <1>1, <1>2, <1>3, WorkCheck DEF CheckEmpty, CheckNext
  <2>4. PendingType'
    BY <1>3 DEF CheckEmpty, TypeOK, PendingType
  <2> QED
    BY <1>2, <2>2, <2>3, <2>4, CheckedType DEF Check
<1>4. CASE CheckShallow(h)
  <2>1. work' \in Work
    BY <1>1, <1>2, <1>4, WorkCheck DEF CheckShallow, CheckNext
  <2>2. PendingType' /\ confirmedC' = confirmedC
    BY <1>4 DEF CheckShallow, TypeOK, PendingType
  <2> QED
    BY <1>2, <2>1, <2>2, CheckedType DEF Check, TypeOK
<1>5. CASE CheckDeep(h) /\ HandOver(h, pendings[h])
  BY <1>1, <1>2, <1>5, HandOverType, CheckedType DEF Check
<1>6. CASE /\ work' = [work EXCEPT !.do = "refetch", !.at = h]
           /\ UNCHANGED <<pendings, confirmedC>>
  <2>1. work' \in Work
    <3>1. h \in Nat
      BY <1>1, ConstantTypes DEF Heights
    <3> QED
      BY <1>2, <1>6, <3>1 DEF Work
  <2>2. PendingType' /\ confirmedC' = confirmedC
    BY <1>6 DEF TypeOK, PendingType
  <2> QED
    BY <1>2, <2>1, <2>2, CheckedType DEF Check, TypeOK
<1> QED
  BY <1>3, <1>4, <1>5, <1>6 DEF Check, CheckDeep

LEMMA RefetchFacts ==
    ASSUME TypeOK, Refetch
    PROVE  work # Nil /\ work \in Work /\ work.at \in 0 .. Tip /\ work.at \in Heights
<1>1. work # Nil /\ work \in Work /\ work.at \in Nat
  BY DEF Refetch, Doing, TypeOK, Work
<1> QED
  BY <1>1, ChainFacts DEF Refetch

LEMMA RefetchType == TypeOK /\ Refetch => TypeOK'
<1> SUFFICES ASSUME TypeOK, Refetch PROVE TypeOK'
  OBVIOUS
<1>1. PendingAt(work.at) \in PendingSet
  BY RefetchFacts, ChainFacts DEF PendingSet
<1> QED
  BY <1>1, RefetchFacts, HandOverType, CheckedType DEF Refetch

LEMMA EndCheckType == TypeOK /\ EndCheck => TypeOK'
<1> SUFFICES ASSUME TypeOK, EndCheck PROVE TypeOK'
  OBVIOUS
<1>1. ChainType'
  BY TypeOfChain, ChainTypeSame DEF EndCheck
<1>2. RestType'
  BY TypeSplit DEF EndCheck, RestType, PendingType, validatorVars, dbVars
<1> QED
  BY <1>1, <1>2, TypeSplit

LEMMA LookUpFacts ==
    ASSUME TypeOK, NEW m \in Messages, m \in Mined
    PROVE  HeightOf(m) \in 0 .. Tip /\ m \in At(HeightOf(m)).events
<1>1. \E h \in 0 .. Tip : m \in At(h).events
  BY DEF Mined
<1> QED
  BY <1>1 DEF HeightOf

LEMMA ReobserveLookUpType ==
    ASSUME TypeOK, NEW m \in Messages, ReobserveLookUp(m)
    PROVE  TypeOK'
<1>1. ChainType'
  BY TypeOfChain, ChainTypeSame DEF ReobserveLookUp
<1>2. HeightOf(m) \in 0 .. Tip
  BY LookUpFacts DEF ReobserveLookUp
<1>3. request' \in Request
  BY <1>2, ChainFacts DEF ReobserveLookUp, Request
<1>4. RestType'
  BY <1>3, TypeSplit DEF ReobserveLookUp, RestType, PendingType, watchVars, validatorVars, dbVars
<1> QED
  BY <1>1, <1>4, TypeSplit

LEMMA ReobserveConfirmType == TypeOK /\ ReobserveConfirm => TypeOK'
<1> SUFFICES ASSUME TypeOK, ReobserveConfirm PROVE TypeOK'
  OBVIOUS
<1>1. ChainType'
  BY TypeOfChain, ChainTypeSame DEF ReobserveConfirm
<1>2. request \in Request
  BY DEF ReobserveConfirm, TypeOK
<1> DEFINE c == [height |-> request.height, fork |-> request.fork,
                 messages |-> {request.message}, finished |-> TRUE, reObserved |-> TRUE]
<1>3. c \in ConfirmedType
  BY <1>2 DEF Request, ConfirmedType, Events
<1>4. confirmedC' \in Seq(ConfirmedType) /\ Len(confirmedC') <= ChannelSize
  <2>1. CASE Send(c)
    BY <1>3, <2>1, SendType
  <2>2. CASE UNCHANGED confirmedC
    BY <2>2 DEF TypeOK
  <2> QED
    BY <2>1, <2>2 DEF ReobserveConfirm
<1>5. current # Nil
  BY DEF ReobserveConfirm, TypeOK
<1>6. RestType'
  BY <1>4, <1>5, TypeSplit DEF ReobserveConfirm, RestType, PendingType, watchVars, validatorVars, dbVars
<1> QED
  BY <1>1, <1>6, TypeSplit

PublishedSet == [message : Messages, height : Heights, fork : Nat, reObserved : BOOLEAN]

LEMMA ChannelHead ==
    ASSUME TypeOK, confirmedC # <<>>
    PROVE  /\ Head(confirmedC) \in ConfirmedType
           /\ Head(confirmedC) = confirmedC[1]
           /\ Tail(confirmedC) \in Seq(ConfirmedType)
           /\ Len(Tail(confirmedC)) = Len(confirmedC) - 1
           /\ Len(confirmedC) \in Nat /\ Len(confirmedC) > 0
           /\ \A i \in 1 .. Len(confirmedC) - 1 : Tail(confirmedC)[i] = confirmedC[i + 1]
BY DEF TypeOK

LEMMA PublicationsType ==
    ASSUME NEW c \in ConfirmedType
    PROVE  Publications(c) \subseteq PublishedSet
BY DEF Publications, ConfirmedType, PublishedSet

LEMMA BehindType ==
    ASSUME NEW h \in Heights
    PROVE  Behind(h) \in Heights /\ Behind(h) <= h
BY ConstantTypes DEF Behind, Heights

LEMMA ProcessedHeightType ==
    ASSUME TypeOK, NEW h \in Heights, NEW done \in SUBSET Heights,
           updateProcessedHeight(h, done)
    PROVE  fromHeight' \in Nat /\ blocks' \subseteq Heights /\ lastHeight' \in Heights \cup {Nil}
<1>1. h \in Nat /\ h + 1 \in Nat
  BY ConstantTypes DEF Heights
<1> QED
  BY <1>1, BehindType DEF updateProcessedHeight, TypeOK

LEMMA ValidateType == TypeOK /\ Validate => TypeOK'
<1> SUFFICES ASSUME TypeOK, Validate PROVE TypeOK'
  OBVIOUS
<1> DEFINE c == Head(confirmedC)
<1>1. ChainType'
  BY TypeOfChain, ChainTypeSame DEF Validate
<1>2. c \in ConfirmedType /\ c.height \in Heights /\ confirmedC # <<>>
  BY ChannelHead DEF Validate, ConfirmedType
<1>3. confirmedC' \in Seq(ConfirmedType) /\ Len(confirmedC') <= ChannelSize
  BY <1>2, ChannelHead, ConstantTypes DEF Validate, TypeOK
<1>4. published' \subseteq PublishedSet /\ addresses' \subseteq Creations
  BY <1>2, PublicationsType DEF Validate, TypeOK, PublishedSet
<1>5. fromHeight' \in Nat /\ blocks' \subseteq Heights /\ lastHeight' \in Heights \cup {Nil}
  <2>1. blocks \cup {c.height} \in SUBSET Heights
    BY <1>2 DEF TypeOK
  <2>2. CASE updateProcessedHeight(c.height, blocks \cup {c.height})
    BY <1>2, <2>1, <2>2, ProcessedHeightType
  <2>3. CASE ~updateProcessedHeight(c.height, blocks \cup {c.height})
    BY <2>3 DEF Validate, TypeOK, validatorVars
  <2> QED
    BY <2>2, <2>3
<1>6. current # Nil
  BY DEF Validate
<1>7. RestType'
  BY <1>3, <1>4, <1>5, <1>6, TypeSplit DEF Validate, RestType, PendingType, watchVars, PublishedSet
<1> QED
  BY <1>1, <1>7, TypeSplit

LEMMA DownType ==
    ASSUME TypeOK, Down, restarts' \in 0 .. MaxRestarts, published' \subseteq PublishedSet
    PROVE  TypeOK'
<1>1. ChainType'
  BY TypeOfChain, ChainTypeSame DEF Down
<1>2. PendingType' /\ confirmedC' \in Seq(ConfirmedType) /\ Len(confirmedC') <= ChannelSize
  BY ConstantTypes DEF Down, PendingType
<1>3. polled' \in Heights /\ fromHeight' \in Nat /\ blocks' \subseteq Heights
  BY ConstantTypes DEF Down, TypeOK, Heights
<1>4. RestType'
  BY <1>2, <1>3, TypeSplit DEF Down, RestType, dbVars, PublishedSet
<1> QED
  BY <1>1, <1>4, TypeSplit

LEMMA PublishedType == TypeOK => published \subseteq PublishedSet
BY DEF TypeOK, PublishedSet

LEMMA StopType == TypeOK /\ Stop => TypeOK'
<1> SUFFICES ASSUME TypeOK, Stop PROVE TypeOK'
  OBVIOUS
<1>1. restarts' \in 0 .. MaxRestarts
  BY ConstantTypes DEF Stop, TypeOK
<1> QED
  BY <1>1, DownType, PublishedType DEF Stop

LEMMA StopValidatingType == TypeOK /\ StopValidating => TypeOK'
<1> SUFFICES ASSUME TypeOK, StopValidating PROVE TypeOK'
  OBVIOUS
<1>1. restarts' \in 0 .. MaxRestarts
  BY ConstantTypes DEF StopValidating, TypeOK
<1>2. published' \subseteq PublishedSet
  BY ChannelHead, PublicationsType, PublishedType DEF StopValidating
<1> QED
  BY <1>1, <1>2, DownType DEF StopValidating

LEMMA FailType == TypeOK /\ Fail => TypeOK'
<1> SUFFICES ASSUME TypeOK, Fail PROVE TypeOK'
  OBVIOUS
<1>1. restarts' \in 0 .. MaxRestarts
  BY DEF Fail, TypeOK
<1> QED
  BY <1>1, DownType, PublishedType DEF Fail

\* Where the watcher starts, and what the database then holds.
StartsAt(h) ==
    /\ h \in 0 .. Tip
    /\ StartFrom(h)
    /\ lastHeight' \in Heights \cup {Nil} /\ addresses' \subseteq Creations
    /\ skipped' \subseteq Heights

LEMMA StartFacts ==
    ASSUME TypeOK, Start
    PROVE  \E h \in 0 .. Tip : StartsAt(h)
<1>1. CASE lastHeight = Nil /\ StartFrom(0) /\ UNCHANGED <<dbVars, skipped>>
  <2>1. 0 \in 0 .. Tip
    BY ChainFacts
  <2>2. StartsAt(0)
    BY <1>1, <2>1 DEF StartsAt, dbVars, TypeOK
  <2> QED
    BY <2>1, <2>2
<1>2. CASE /\ lastHeight # Nil /\ lastHeight <= Tip /\ StartFrom(lastHeight)
           /\ UNCHANGED <<dbVars, skipped>>
  <2>1. lastHeight \in 0 .. Tip
    BY <1>2, ChainFacts DEF TypeOK, Heights
  <2>2. StartsAt(lastHeight)
    BY <1>2, <2>1 DEF StartsAt, dbVars, TypeOK
  <2> QED
    BY <2>1, <2>2
<1>3. CASE /\ lastHeight # Nil
           /\ lastHeight + MaxForkHeight < Tip
           /\ StartFrom(Tip - MaxForkHeight)
           /\ lastHeight' = Tip - MaxForkHeight - 1
           /\ skipped' = skipped \cup (lastHeight + 1 .. lastHeight')
           /\ addresses' = addresses \cup CreatedBetween(lastHeight + 1, lastHeight')
  <2> DEFINE h == Tip - MaxForkHeight
  <2>1. lastHeight \in Nat /\ h \in 0 .. Tip /\ h - 1 \in 0 .. Tip
    BY <1>3, ChainFacts, ConstantTypes DEF TypeOK, Heights
  <2>2. lastHeight' \in Heights /\ skipped' \subseteq Heights
    <3>1. lastHeight' = h - 1 /\ lastHeight' \in Heights
      BY <1>3, <2>1, ChainFacts
    <3>2. lastHeight + 1 .. h - 1 \subseteq Heights
      BY <2>1, ChainFacts, ConstantTypes DEF Heights
    <3>3. skipped' = skipped \cup (lastHeight + 1 .. h - 1)
      BY <1>3, <3>1
    <3> QED
      BY <3>1, <3>2, <3>3 DEF TypeOK
  <2>3. addresses' \subseteq Creations
    BY <1>3 DEF TypeOK, CreatedBetween
  <2>4. StartsAt(h)
    BY <1>3, <2>1, <2>2, <2>3 DEF StartsAt
  <2> QED
    BY <2>1, <2>4
<1> QED
  BY <1>1, <1>2, <1>3 DEF Start, fetchContractAddresses

LEMMA StartType == TypeOK /\ Start => TypeOK'
<1> SUFFICES ASSUME TypeOK, Start PROVE TypeOK'
  OBVIOUS
<1>1. ChainType'
  BY TypeOfChain, ChainTypeSame DEF Start
<1>2. PICK h \in 0 .. Tip : StartsAt(h)
  BY StartFacts
<1>3. PendingType' /\ current' \in Heights /\ fromHeight' \in Nat
  BY <1>2, ChainFacts DEF StartsAt, StartFrom, PendingType
<1>4. work' = Nil /\ request' = Nil /\ confirmedC' = <<>>
  BY DEF Start, TypeOK
<1>5. RestType'
  BY <1>2, <1>3, <1>4, TypeSplit DEF Start, StartsAt, RestType
<1> QED
  BY <1>1, <1>5, TypeSplit

LEMMA StutterType == TypeOK /\ UNCHANGED vars => TypeOK'
<1> SUFFICES ASSUME TypeOK, UNCHANGED vars PROVE TypeOK'
  OBVIOUS
<1>1. ChainType'
  BY TypeOfChain, ChainTypeSame DEF vars
<1>2. RestType'
  BY TypeSplit DEF vars, RestType, PendingType, watchVars, validatorVars, dbVars
<1> QED
  BY <1>1, <1>2, TypeSplit

LEMMA NextType == TypeOK /\ [Next]_vars => TypeOK'
BY MineType, ReorgType, PollType, FetchType, CheckType, RefetchType, EndCheckType,
   ReobserveLookUpType, ReobserveConfirmType, ValidateType, StopType, StopValidatingType,
   FailType, StartType, StutterType
DEF Next

\* The types of the chain, of the watcher's state, of the channel to the validator and
\* of its database: heights stay within the chain over forks that shorten it and
\* restarts that jump, the channel within its capacity, and a watcher that is down
\* (after an error of getEvents or of the validator) serves nothing.
THEOREM TypeCorrect == Spec => []TypeOK
<1>1. Init => TypeOK
  BY InitType
<1>2. TypeOK /\ [Next]_vars => TypeOK'
  BY NextType
<1> QED
  BY <1>1, <1>2, PTL DEF Spec

-----------------------------------------------------------------------------
(* What is published is final.                                             *)
(*                                                                         *)
(* A block is known by its height and its fork.  A block mined by the fork *)
(* that mines now is in the main chain, and blocks to come have another    *)
(* fork or a greater height, so a block that was read never stands for     *)
(* another one (Known).  Every height the watcher compares with was        *)
(* reached, so what it finds deep enough is beyond the reach of forks      *)
(* (Final).                                                                *)

Known(h, f, events) ==
    /\ f <= fork
    /\ f = fork => IsCanonical(h, f)
    /\ IsCanonical(h, f) => events \subseteq At(h).events

Final(h, f, m) ==
    /\ IsCanonical(h, f)
    /\ m \in At(h).events
    /\ h + Confirmations(m) <= highest

ChainInv ==
    /\ Tip <= highest
    /\ \A h \in 0 .. Tip : At(h).fork <= fork
    /\ \A h, i \in 0 .. Tip : h # i => At(h).events \cap At(i).events = {}

WorkReached == work # Nil => work.to <= highest

PendingKnown == \A h \in DOMAIN pendings : Known(h, pendings[h].fork, pendings[h].messages)

OutOfReach(m) == MaxReorg <= Confirmations(m)

ConfirmedFinal(c) ==
    ~c.reObserved => \A e \in c.messages : OutOfReach(e) => Final(c.height, c.fork, e)

ChannelFinal == \A i \in 1 .. Len(confirmedC) : ConfirmedFinal(confirmedC[i])

\* A message the watcher has published on its own is in the main chain, in the block it
\* was published with, and has the confirmations it asks for, if no fork replaces more
\* blocks than that.
IsFinal(p) == ~p.reObserved /\ OutOfReach(p.message) => Final(p.height, p.fork, p.message)

PublishedFinal == \A p \in published : IsFinal(p)

FinalInv ==
    /\ TypeOK
    /\ ChainInv
    /\ WorkReached
    /\ PendingKnown
    /\ ChannelFinal
    /\ PublishedFinal

LEMMA InitFinal == Init => FinalInv
<1> SUFFICES ASSUME Init PROVE FinalInv
  OBVIOUS
<1>1. Tip = 0 /\ At(0) = [fork |-> 0, events |-> {}] /\ Len(confirmedC) = 0
  BY DEF Init, Tip, At
<1>2. ChainInv
  BY <1>1 DEF Init, ChainInv
<1> QED
  BY <1>1, <1>2, InitType
  DEF Init, FinalInv, WorkReached, PendingKnown, ChannelFinal, PublishedFinal

\* What a step of the chain keeps.
Keeps ==
    /\ highest <= highest' /\ highest' \in Nat
    /\ \A h \in Heights, f \in Nat, events \in SUBSET Events :
         Known(h, f, events) => Known(h, f, events)'
    /\ \A h \in Heights, f \in Nat, m \in Events :
         OutOfReach(m) /\ Final(h, f, m) => Final(h, f, m)'

LEMMA MineKeeps ==
    ASSUME TypeOK, ChainInv, Mine
    PROVE  ChainInv' /\ Keeps
<1>1. PICK S \in SUBSET Events :
        /\ chain' = Append(chain, [fork |-> fork, events |-> S])
        /\ S \cap Mined = {}
  BY MineChain
<1>2. /\ Tip \in Nat /\ Tip' = Tip + 1
      /\ fork' = fork /\ fork \in Nat /\ highest \in Nat
  <2>1. fork \in Nat /\ highest \in Nat
    BY ConstantTypes DEF TypeOK, Heights
  <2> QED
    BY <2>1, MineChain, ChainFacts
<1>t. PICK t \in Nat : t = Tip
  BY <1>2
<1>3. highest <= highest' /\ Tip' <= highest' /\ highest' \in Nat
  BY <1>2 DEF Mine, ChainInv
<1>4. \A h \in 0 .. Tip : At(h)' = At(h)
  BY <1>1, <1>2, ChainFacts DEF At
<1>5. At(t + 1)' = [fork |-> fork, events |-> S]
  BY <1>1, <1>2, <1>t, ChainFacts DEF At
<1>6. \A h \in 0 .. Tip : S \cap At(h).events = {}
  BY <1>1 DEF Mined
<1>7. ChainInv'
  <2>1. \A h \in 0 .. t + 1 : At(h)'.fork <= fork
    BY <1>2, <1>t, <1>4, <1>5 DEF ChainInv
  <2>2. ASSUME NEW h \in 0 .. t + 1, NEW i \in 0 .. t + 1, h # i
        PROVE  At(h)'.events \cap At(i)'.events = {}
    <3>1. CASE h \in 0 .. Tip /\ i \in 0 .. Tip
      BY <1>4, <2>2, <3>1 DEF ChainInv
    <3>2. CASE h = t + 1
      BY <1>2, <1>t, <1>4, <1>5, <1>6, <2>2, <3>2
    <3>3. CASE i = t + 1
      BY <1>2, <1>t, <1>4, <1>5, <1>6, <2>2, <3>3
    <3> QED
      BY <1>2, <1>t, <2>2, <3>1, <3>2, <3>3
  <2> QED
    BY <1>2, <1>t, <1>3, <2>1, <2>2 DEF ChainInv
<1>8. ASSUME NEW h \in Heights, NEW f \in Nat, IsCanonical(h, f)
      PROVE  h \in 0 .. Tip /\ IsCanonical(h, f)' /\ At(h)' = At(h)
  BY <1>2, <1>4, <1>8, ChainFacts DEF IsCanonical
<1>9. ASSUME NEW h \in Heights, NEW f \in Nat, NEW events \in SUBSET Events,
             Known(h, f, events)
      PROVE  Known(h, f, events)'
  <2>1. f <= fork' /\ (f = fork' => IsCanonical(h, f)')
    BY <1>2, <1>8, <1>9 DEF Known
  <2>2. ASSUME IsCanonical(h, f)' PROVE events \subseteq At(h)'.events
    <3>1. CASE h <= Tip
      <4>1. h \in 0 .. Tip /\ IsCanonical(h, f)
        BY <1>4, <2>2, <3>1, ChainFacts DEF IsCanonical
      <4> QED
        BY <1>4, <1>9, <4>1 DEF Known
    <3>2. CASE h > Tip
      <4>1. h = t + 1
        BY <1>2, <1>t, <2>2, <3>2, ChainFacts DEF IsCanonical
      <4>2. f = fork /\ ~IsCanonical(h, f)
        BY <1>2, <1>t, <1>5, <2>2, <4>1 DEF IsCanonical
      <4> QED
        BY <1>9, <4>2 DEF Known
    <3> QED
      BY <1>2, <3>1, <3>2, ChainFacts
  <2> QED
    BY <2>1, <2>2 DEF Known
<1>10. ASSUME NEW h \in Heights, NEW f \in Nat, NEW m \in Events, Final(h, f, m)
       PROVE  Final(h, f, m)'
  BY <1>2, <1>3, <1>8, <1>10, ConfirmationsType, ChainFacts DEF Final, Confirmations
<1> QED
  BY <1>3, <1>7, <1>9, <1>10 DEF Keeps

LEMMA ReorgKeeps ==
    ASSUME TypeOK, ChainInv, NEW h \in 1 .. MaxHeight, NEW k \in 1 .. MaxHeight,
           NEW n \in Tip - 1 .. Tip + 1, Reorg(h, k, n)
    PROVE  ChainInv' /\ Keeps
<1>1. PICK S \in SUBSET Events :
        /\ chain' = Forked(h, k, n, S)
        /\ S \cap EventsBelow(h) = {}
  BY ReorgChain
<1>2. fork \in Nat /\ highest \in Nat
  BY ConstantTypes DEF TypeOK, Heights
<1>3. /\ Tip \in Nat /\ Tip' = n /\ n \in Nat /\ h \in Nat /\ k \in Nat
      /\ h <= Tip /\ h - 1 <= n
      /\ highest - h + 1 <= MaxReorg /\ fork' = fork + 1
  BY ReorgChain, ChainFacts, ConstantTypes
<1>4. highest <= highest' /\ n <= highest' /\ highest' \in Nat
  BY <1>2, <1>3 DEF Reorg
<1>5. \A i \in 0 .. h - 1 : At(i)' = At(i) /\ i \in 0 .. Tip
  BY <1>1, <1>3 DEF At, Forked
<1>6. \A i \in h .. n : At(i)' = [fork |-> fork', events |-> IF i = k THEN S ELSE {}]
  <2> SUFFICES ASSUME NEW i \in h .. n
               PROVE  At(i)' = [fork |-> fork', events |-> IF i = k THEN S ELSE {}]
    OBVIOUS
  <2>1. i + 1 \in 1 .. n + 1 /\ ~(i + 1 <= h) /\ (i + 1 = k + 1 <=> i = k)
    BY <1>3
  <2> QED
    BY <1>1, <2>1 DEF At, Forked
<1>7. \A i \in 0 .. h - 1 : S \cap At(i).events = {}
  BY <1>1 DEF EventsBelow
<1>8. ChainInv'
  <2>1. \A i \in 0 .. n : At(i)'.fork <= fork'
    <3> SUFFICES ASSUME NEW i \in 0 .. n PROVE At(i)'.fork <= fork'
      OBVIOUS
    <3>1. CASE i \in 0 .. h - 1
      <4>1. At(i).fork \in Nat /\ At(i).fork <= fork /\ At(i)' = At(i)
        BY <1>5, <3>1, ChainFacts DEF ChainInv
      <4> QED
        BY <1>2, <1>3, <4>1
    <3>2. CASE i \in h .. n
      BY <1>2, <1>3, <1>6, <3>2
    <3> QED
      BY <1>3, <3>1, <3>2
  <2>2. ASSUME NEW i \in 0 .. n, NEW j \in 0 .. n, i # j
        PROVE  At(i)'.events \cap At(j)'.events = {}
    <3>1. CASE i \in 0 .. h - 1 /\ j \in 0 .. h - 1
      BY <1>5, <2>2, <3>1 DEF ChainInv
    <3>2. CASE i \in h .. n /\ j \in h .. n
      BY <1>6, <2>2, <3>2
    <3>3. CASE i \in 0 .. h - 1 /\ j \in h .. n
      BY <1>5, <1>6, <1>7, <3>3
    <3>4. CASE i \in h .. n /\ j \in 0 .. h - 1
      BY <1>5, <1>6, <1>7, <3>4
    <3> QED
      BY <1>3, <3>1, <3>2, <3>3, <3>4
  <2> QED
    BY <1>3, <1>4, <2>1, <2>2 DEF ChainInv
<1>9. ASSUME NEW i \in Heights, NEW f \in Nat, NEW events \in SUBSET Events,
             Known(i, f, events)
      PROVE  Known(i, f, events)'
  <2>1. f <= fork /\ f # fork' /\ f <= fork'
    BY <1>2, <1>3, <1>9 DEF Known
  <2>2. ASSUME IsCanonical(i, f)' PROVE events \subseteq At(i)'.events
    <3>1. i \in 0 .. n /\ At(i)'.fork = f
      BY <1>3, <2>2, ChainFacts DEF IsCanonical
    <3>2. i \in 0 .. h - 1
      BY <1>3, <1>6, <2>1, <3>1
    <3>3. IsCanonical(i, f)
      BY <1>3, <1>5, <3>1, <3>2 DEF IsCanonical
    <3> QED
      BY <1>5, <1>9, <3>2, <3>3 DEF Known
  <2> QED
    BY <2>1, <2>2 DEF Known
<1>10. ASSUME NEW i \in Heights, NEW f \in Nat, NEW m \in Events, OutOfReach(m), Final(i, f, m)
       PROVE  Final(i, f, m)'
  <2>1. /\ i + Confirmations(m) <= highest /\ MaxReorg <= Confirmations(m)
        /\ Confirmations(m) \in Nat /\ MaxReorg \in Nat /\ i \in Nat
    BY <1>10, ConfirmationsType, ConstantTypes DEF Final, OutOfReach, Heights
  <2>2. i \in 0 .. h - 1
    BY <1>2, <1>3, <2>1
  <2>3. IsCanonical(i, f)' /\ At(i)' = At(i)
    BY <1>3, <1>5, <1>10, <2>2 DEF IsCanonical, Final
  <2>4. i + Confirmations(m) <= highest'
    BY <1>2, <1>4, <2>1, <2>2, <1>3
  <2> QED
    BY <1>10, <2>3, <2>4 DEF Final, Confirmations
<1> QED
  BY <1>4, <1>8, <1>9, <1>10 DEF Keeps

LEMMA SameKeeps ==
    ASSUME TypeOK, ChainInv, UNCHANGED chainVars
    PROVE  /\ ChainInv' /\ Keeps
           /\ Tip' = Tip /\ \A h \in Heights : At(h)' = At(h)
<1>1. /\ Tip' = Tip /\ highest' = highest /\ fork' = fork
      /\ \A h \in Heights : At(h)' = At(h)
  BY DEF chainVars, Tip, At
<1>2. highest \in Nat
  BY ConstantTypes DEF TypeOK, Heights
<1>3. ChainInv'
  BY <1>1, ChainFacts DEF ChainInv
<1>4. \A h \in Heights, f \in Nat : IsCanonical(h, f)' <=> IsCanonical(h, f)
  BY <1>1 DEF IsCanonical
<1>5. Keeps
  BY <1>1, <1>2, <1>4 DEF Keeps, Known, Final, Confirmations
<1> QED
  BY <1>1, <1>3, <1>5

\* The parts of the invariant that a step leaves alone, whatever it does to the chain.
LEMMA PendingKeeps ==
    ASSUME TypeOK, PendingKnown, Keeps, pendings' = pendings
    PROVE  PendingKnown'
<1> SUFFICES ASSUME NEW h \in DOMAIN pendings
             PROVE  Known(h, pendings[h].fork, pendings[h].messages)'
  BY DEF PendingKnown
<1>1. h \in Heights /\ pendings[h].fork \in Nat /\ pendings[h].messages \in SUBSET Events
  BY DEF TypeOK, PendingType
<1>2. PICK f \in Nat, S \in SUBSET Events : f = pendings[h].fork /\ S = pendings[h].messages
  BY <1>1
<1>3. Known(h, f, S)'
  BY <1>1, <1>2 DEF PendingKnown, Keeps
<1>4. f = pendings'[h].fork /\ S = pendings'[h].messages
  BY <1>2
<1> QED
  BY <1>3, <1>4

LEMMA ConfirmedKeeps ==
    ASSUME Keeps, NEW c \in ConfirmedType, ConfirmedFinal(c)
    PROVE  ConfirmedFinal(c)'
<1> SUFFICES ASSUME ~c.reObserved, NEW e \in c.messages, OutOfReach(e)
             PROVE  Final(c.height, c.fork, e)'
  BY DEF ConfirmedFinal, OutOfReach, Confirmations
<1>1. c.height \in Heights /\ c.fork \in Nat /\ e \in Events
  BY DEF ConfirmedType
<1> QED
  BY <1>1 DEF Keeps, ConfirmedFinal

LEMMA ChannelSame ==
    ASSUME TypeOK, ChannelFinal, Keeps, confirmedC' = confirmedC
    PROVE  ChannelFinal'
<1> SUFFICES ASSUME NEW i \in 1 .. Len(confirmedC) PROVE ConfirmedFinal(confirmedC[i])'
  BY DEF ChannelFinal
<1>1. PICK c \in ConfirmedType : c = confirmedC[i]
  BY DEF TypeOK
<1>2. ConfirmedFinal(c)'
  BY <1>1, ConfirmedKeeps DEF ChannelFinal
<1> QED
  BY <1>1, <1>2

LEMMA ChannelGrows ==
    ASSUME TypeOK, ChannelFinal, Keeps, NEW c \in ConfirmedType, ConfirmedFinal(c)', Send(c)
    PROVE  ChannelFinal'
<1> SUFFICES ASSUME NEW i \in 1 .. Len(confirmedC) + 1 PROVE ConfirmedFinal(confirmedC[i])'
  BY SendType DEF ChannelFinal
<1>1. CASE i \in 1 .. Len(confirmedC)
  <2>1. PICK d \in ConfirmedType : d = confirmedC[i]
    BY <1>1 DEF TypeOK
  <2>2. ConfirmedFinal(d)'
    BY <1>1, <2>1, ConfirmedKeeps DEF ChannelFinal
  <2> QED
    BY <1>1, <2>1, <2>2, SendType
<1>2. CASE i = Len(confirmedC) + 1
  BY <1>2, SendType
<1> QED
  BY <1>1, <1>2 DEF TypeOK

LEMMA ChannelShrinks ==
    ASSUME TypeOK, ChannelFinal, Keeps, confirmedC # <<>>, confirmedC' = Tail(confirmedC)
    PROVE  ChannelFinal'
<1> SUFFICES ASSUME NEW i \in 1 .. Len(confirmedC) - 1 PROVE ConfirmedFinal(confirmedC[i])'
  BY ChannelHead DEF ChannelFinal
<1>1. PICK c \in ConfirmedType : c = confirmedC[i + 1]
  BY ChannelHead DEF TypeOK
<1>2. ConfirmedFinal(c)'
  BY <1>1, ConfirmedKeeps, ChannelHead DEF ChannelFinal
<1> QED
  BY <1>1, <1>2, ChannelHead

LEMMA ChannelEmpty == confirmedC' = <<>> => ChannelFinal'
BY DEF ChannelFinal

LEMMA PublishedKeeps ==
    ASSUME TypeOK, PublishedFinal, Keeps
    PROVE  \A p \in published : IsFinal(p)'
<1> SUFFICES ASSUME NEW p \in published, ~p.reObserved, OutOfReach(p.message)
             PROVE  Final(p.height, p.fork, p.message)'
  BY DEF IsFinal, OutOfReach, Confirmations
<1>1. p.height \in Heights /\ p.fork \in Nat /\ p.message \in Events
  BY DEF TypeOK, Events
<1> QED
  BY <1>1 DEF Keeps, PublishedFinal, IsFinal

LEMMA PublicationsFinal ==
    ASSUME Keeps, NEW c \in ConfirmedType, ConfirmedFinal(c)
    PROVE  \A p \in Publications(c) : IsFinal(p)'
<1>1. ConfirmedFinal(c)'
  BY ConfirmedKeeps
<1> SUFFICES ASSUME NEW p \in Publications(c)
             PROVE  IsFinal(p)'
  OBVIOUS
<1>2. PICK m \in c.messages :
        p = [message |-> m, height |-> c.height, fork |-> c.fork, reObserved |-> c.reObserved]
  BY DEF Publications
<1> QED
  BY <1>1, <1>2 DEF IsFinal, ConfirmedFinal

\* A step of the chain.
LEMMA ChainFinal ==
    ASSUME FinalInv, TypeOK', ChainInv', Keeps,
           UNCHANGED <<watchVars, request, confirmedC, published>>
    PROVE  FinalInv'
<1>1. PendingKnown' /\ ChannelFinal'
  BY PendingKeeps, ChannelSame DEF FinalInv, watchVars
<1>2. WorkReached'
  <2>1. work # Nil => work.to \in Nat /\ highest \in Nat
    BY ConstantTypes DEF FinalInv, TypeOK, Work, Heights
  <2> QED
    BY <2>1 DEF FinalInv, WorkReached, Keeps, watchVars
<1>3. PublishedFinal'
  BY PublishedKeeps DEF FinalInv, PublishedFinal
<1> QED
  BY <1>1, <1>2, <1>3 DEF FinalInv

LEMMA MineFinal == FinalInv /\ Mine => FinalInv'
BY MineType, MineKeeps, ChainFinal DEF FinalInv, Mine

LEMMA ReorgFinal ==
    ASSUME FinalInv, NEW h \in 1 .. MaxHeight, NEW k \in 1 .. MaxHeight,
           NEW n \in Tip - 1 .. Tip + 1, Reorg(h, k, n)
    PROVE  FinalInv'
BY ReorgType, ReorgKeeps, ChainFinal DEF FinalInv, Reorg

\* What a step that leaves the chain alone has to show.
LEMMA FinalStep ==
    ASSUME FinalInv, TypeOK', UNCHANGED chainVars,
           WorkReached', PendingKnown', ChannelFinal', PublishedFinal'
    PROVE  FinalInv'
BY SameKeeps DEF FinalInv

LEMMA PublishedSame ==
    ASSUME FinalInv, UNCHANGED chainVars, published' = published
    PROVE  PublishedFinal'
BY SameKeeps, PublishedKeeps DEF FinalInv, PublishedFinal

LEMMA WorkSame ==
    ASSUME FinalInv, UNCHANGED <<chainVars, work>>
    PROVE  WorkReached'
BY DEF FinalInv, WorkReached, chainVars

\* A block that was just read is known.
LEMMA ReadKnown ==
    ASSUME TypeOK, ChainInv, NEW h \in 0 .. Tip
    PROVE  Known(h, PendingAt(h).fork, PendingAt(h).messages)
BY ChainFacts DEF Known, ChainInv, IsCanonical

\* And stays so when getEvents keeps it among the pendings.
LEMMA PutKnown ==
    ASSUME FinalInv, UNCHANGED chainVars, NEW h \in Heights, NEW p \in PendingSet,
           Known(h, p.fork, p.messages), pendings' = Put(h, p)
    PROVE  PendingKnown'
<1> SUFFICES ASSUME NEW i \in DOMAIN pendings \cup {h}
             PROVE  Known(i, pendings[i].fork, pendings[i].messages)'
  BY DEF PendingKnown, Put
<1>1. PICK q \in PendingSet : q = IF i = h THEN p ELSE pendings[i]
  BY DEF FinalInv, TypeOK, PendingType, PendingSet
<1>2. pendings'[i] = q
  BY <1>1 DEF Put
<1>3. Known(i, q.fork, q.messages) /\ i \in Heights
  BY <1>1 DEF FinalInv, PendingKnown, TypeOK, PendingType
<1>4. Known(i, q.fork, q.messages)'
  BY <1>1, <1>3, SameKeeps DEF FinalInv, Keeps, PendingSet
<1> QED
  BY <1>2, <1>4

LEMMA PollFinal == FinalInv /\ Poll => FinalInv'
<1> SUFFICES ASSUME FinalInv, Poll PROVE FinalInv'
  OBVIOUS
<1>1. WorkReached'
  BY NilIsNone DEF FinalInv, ChainInv, WorkReached, Poll, chainVars
<1>2. PendingKnown' /\ ChannelFinal'
  BY SameKeeps, PendingKeeps, ChannelSame DEF FinalInv, Poll
<1> QED
  BY <1>1, <1>2, PollType, PublishedSame, FinalStep DEF FinalInv, Poll

LEMMA FetchFinal == FinalInv /\ Fetch => FinalInv'
<1> SUFFICES ASSUME FinalInv, Fetch PROVE FinalInv'
  OBVIOUS
<1>1. work \in Work /\ work # Nil /\ work.at \in 0 .. Tip
  <2>1. work \in Work /\ work # Nil /\ work.at \in Nat
    BY DEF FinalInv, TypeOK, Fetch, Doing, Work
  <2> QED
    BY <2>1, ChainFacts DEF FinalInv, Fetch
<1>2. PICK h \in 0 .. Tip : h = work.at
  BY <1>1
<1>3. h \in Heights /\ PendingAt(h) \in PendingSet
  BY ChainFacts DEF FinalInv, PendingSet
<1>4. PendingKnown'
  BY <1>2, <1>3, ReadKnown, PutKnown DEF FinalInv, Fetch
<1>5. work'.to = work.to
  BY <1>1 DEF Fetch, Work
<1>6. WorkReached'
  BY <1>1, <1>5 DEF FinalInv, WorkReached, Fetch, chainVars
<1>7. ChannelFinal'
  BY SameKeeps, ChannelSame DEF FinalInv, Fetch
<1> QED
  BY <1>4, <1>6, <1>7, FetchType, PublishedSame, FinalStep DEF FinalInv, Fetch

\* The events handed over are deep in a block of the main chain.
LEMMA HandOverFinal ==
    ASSUME FinalInv, UNCHANGED chainVars, work # Nil, NEW h \in Heights, NEW p \in PendingSet,
           IsCanonical(h, p.fork), p.messages \subseteq At(h).events, p.fork <= fork,
           HandOver(h, p)
    PROVE  WorkReached' /\ PendingKnown' /\ ChannelFinal'
<1> DEFINE deep == { e \in p.messages : IsDeep(h, e) }
           c == Confirmed(h, p, deep, deep = p.messages)
<1>1. work \in Work /\ work.to \in Nat /\ work.to <= highest /\ h \in Nat /\ highest \in Nat
  BY ConstantTypes DEF FinalInv, TypeOK, WorkReached, Work, Heights
<1>2. c \in ConfirmedType
  BY DEF Confirmed, ConfirmedType, PendingSet
<1>3. ConfirmedFinal(c)
  <2> SUFFICES ASSUME NEW e \in deep PROVE Final(h, p.fork, e)
    BY DEF Confirmed, ConfirmedFinal
  <2>1. e \in Events /\ h + Confirmations(e) <= work.to
    BY DEF IsDeep, PendingSet
  <2>2. h + Confirmations(e) <= highest
    BY <1>1, <2>1, ConfirmationsType
  <2> QED
    BY <2>2 DEF Final
<1>4. Keeps
  BY SameKeeps DEF FinalInv
<1>5. Send(c)
  BY DEF HandOver
<1>6. ChannelFinal'
  BY <1>2, <1>3, <1>4, <1>5, ConfirmedKeeps, ChannelGrows DEF FinalInv
<1>7. WorkReached'
  BY <1>1, HandOverType DEF FinalInv, WorkReached, chainVars
<1>8. PendingKnown'
  <2>1. CASE deep = p.messages
    <3>1. pendings' = Restrict(pendings, DOMAIN pendings \ {h})
      BY <2>1 DEF HandOver
    <3> SUFFICES ASSUME NEW i \in DOMAIN pendings, i # h
                 PROVE  Known(i, pendings[i].fork, pendings[i].messages)'
      BY <3>1 DEF PendingKnown, Restrict
    <3>2. PICK q \in PendingSet : q = pendings[i]
      BY DEF FinalInv, TypeOK, PendingType, PendingSet
    <3>3. pendings'[i] = q /\ i \in Heights
      BY <3>1, <3>2 DEF Restrict, FinalInv, TypeOK, PendingType
    <3>4. Known(i, q.fork, q.messages)'
      BY <1>4, <3>2, <3>3 DEF Keeps, FinalInv, PendingKnown, PendingSet
    <3> QED
      BY <3>3, <3>4
  <2>2. CASE deep # p.messages
    <3>1. PICK q : q = [p EXCEPT !.messages = @ \ deep]
      OBVIOUS
    <3>2. q \in PendingSet /\ q.fork = p.fork /\ q.messages \subseteq p.messages
      BY <3>1 DEF PendingSet
    <3>3. Known(h, q.fork, q.messages)
      BY <3>2 DEF Known
    <3>4. pendings' = Put(h, q)
      BY <2>2, <3>1 DEF HandOver
    <3> QED
      BY <3>2, <3>3, <3>4, PutKnown
  <2> QED
    BY <2>1, <2>2
<1> QED
  BY <1>6, <1>7, <1>8

LEMMA CheckFinal == FinalInv /\ Check => FinalInv'
<1> SUFFICES ASSUME FinalInv, Check PROVE FinalInv'
  OBVIOUS
<1> DEFINE h == Min(Unchecked)
<1>1. h \in DOMAIN pendings /\ h \in Heights /\ pendings[h] \in PendingSet
  BY MinPending DEF FinalInv, Check, TypeOK, PendingType, PendingSet
<1>2. work # Nil /\ work \in Work
  BY DEF FinalInv, Check, Doing, TypeOK
<1>3. Known(h, pendings[h].fork, pendings[h].messages)
  BY <1>1 DEF FinalInv, PendingKnown
<1>4. WorkReached' /\ PendingKnown' /\ ChannelFinal'
  <2>1. CASE CheckEmpty(h)
    <3>1. PICK c \in ConfirmedType : c = Confirmed(h, pendings[h], {}, TRUE)
      BY <1>1 DEF Confirmed, ConfirmedType, PendingSet
    <3>2. ConfirmedFinal(c)'
      BY <3>1 DEF ConfirmedFinal, Confirmed
    <3>3. Keeps
      BY SameKeeps DEF FinalInv, Check
    <3>4. PendingKnown' /\ ChannelFinal'
      BY <2>1, <3>1, <3>2, <3>3, ChannelGrows, PendingKeeps DEF CheckEmpty, FinalInv
    <3>5. work'.to = work.to
      BY <1>2, <2>1 DEF CheckEmpty, CheckNext, Work
    <3> QED
      BY <1>2, <3>4, <3>5 DEF FinalInv, WorkReached, Check, chainVars
  <2>2. CASE CheckShallow(h)
    <3>1. work'.to = work.to
      BY <1>2, <2>2 DEF CheckShallow, CheckNext, Work
    <3>2. PendingKnown' /\ ChannelFinal'
      BY <2>2, SameKeeps, ChannelSame, PendingKeeps DEF CheckShallow, FinalInv, Check
    <3> QED
      BY <1>2, <3>1, <3>2 DEF FinalInv, WorkReached, Check, chainVars
  <2>3. CASE IsCanonical(h, pendings[h].fork) /\ HandOver(h, pendings[h])
    BY <1>1, <1>2, <1>3, <2>3, HandOverFinal DEF Known, Check
  <2>4. CASE /\ work' = [work EXCEPT !.do = "refetch", !.at = h]
             /\ UNCHANGED <<pendings, confirmedC>>
    <3>1. work'.to = work.to
      BY <1>2, <2>4 DEF Work
    <3>2. PendingKnown' /\ ChannelFinal'
      BY <2>4, SameKeeps, ChannelSame, PendingKeeps DEF FinalInv, Check
    <3> QED
      BY <1>2, <3>1, <3>2 DEF FinalInv, WorkReached, Check, chainVars
  <2> QED
    BY <2>1, <2>2, <2>3, <2>4 DEF Check, CheckDeep
<1> QED
  BY <1>4, CheckType, PublishedSame, FinalStep DEF FinalInv, Check

LEMMA RefetchFinal == FinalInv /\ Refetch => FinalInv'
<1> SUFFICES ASSUME FinalInv, Refetch PROVE FinalInv'
  OBVIOUS
<1>1. work # Nil /\ work.at \in 0 .. Tip
  BY RefetchFacts DEF FinalInv
<1>2. PICK h \in 0 .. Tip : h = work.at
  BY <1>1
<1>3. /\ h \in Heights /\ PendingAt(h) \in PendingSet /\ PendingAt(h).fork <= fork
      /\ IsCanonical(h, PendingAt(h).fork) /\ PendingAt(h).messages \subseteq At(h).events
  BY ChainFacts DEF FinalInv, PendingSet, ChainInv, IsCanonical
<1>4. WorkReached' /\ PendingKnown' /\ ChannelFinal'
  BY <1>1, <1>2, <1>3, HandOverFinal DEF Refetch
<1> QED
  BY <1>4, RefetchType, PublishedSame, FinalStep DEF FinalInv, Refetch

LEMMA EndCheckFinal == FinalInv /\ EndCheck => FinalInv'
<1> SUFFICES ASSUME FinalInv, EndCheck PROVE FinalInv'
  OBVIOUS
<1>1. PendingKnown' /\ ChannelFinal'
  BY SameKeeps, ChannelSame, PendingKeeps DEF FinalInv, EndCheck
<1>2. WorkReached'
  BY DEF EndCheck, WorkReached
<1> QED
  BY <1>1, <1>2, EndCheckType, PublishedSame, FinalStep DEF FinalInv, EndCheck

LEMMA ReobserveLookUpFinal ==
    ASSUME FinalInv, NEW m \in Messages, ReobserveLookUp(m)
    PROVE  FinalInv'
<1>1. PendingKnown' /\ ChannelFinal'
  BY SameKeeps, ChannelSame, PendingKeeps DEF FinalInv, ReobserveLookUp, watchVars
<1> QED
  BY <1>1, ReobserveLookUpType, PublishedSame, WorkSame, FinalStep
  DEF FinalInv, ReobserveLookUp, watchVars

LEMMA ReobserveConfirmFinal == FinalInv /\ ReobserveConfirm => FinalInv'
<1> SUFFICES ASSUME FinalInv, ReobserveConfirm PROVE FinalInv'
  OBVIOUS
<1> DEFINE c == [height |-> request.height, fork |-> request.fork,
                 messages |-> {request.message}, finished |-> TRUE, reObserved |-> TRUE]
<1>1. Keeps /\ PendingKnown'
  BY SameKeeps, PendingKeeps DEF FinalInv, ReobserveConfirm, watchVars
<1>2. ChannelFinal'
  <2>1. CASE Send(c)
    <3>1. c \in ConfirmedType
      BY DEF FinalInv, TypeOK, ReobserveConfirm, Request, ConfirmedType, Events
    <3>2. PICK d \in ConfirmedType : d = c
      BY <3>1
    <3>3. ConfirmedFinal(d)'
      BY <3>2 DEF ConfirmedFinal
    <3> QED
      BY <1>1, <2>1, <3>2, <3>3, ChannelGrows DEF FinalInv
  <2>2. CASE UNCHANGED confirmedC
    BY <1>1, <2>2, ChannelSame DEF FinalInv
  <2> QED
    BY <2>1, <2>2 DEF ReobserveConfirm
<1> QED
  BY <1>1, <1>2, ReobserveConfirmType, PublishedSame, WorkSame, FinalStep
  DEF FinalInv, ReobserveConfirm, watchVars

LEMMA HeadFinal ==
    ASSUME FinalInv, confirmedC # <<>>
    PROVE  Head(confirmedC) \in ConfirmedType /\ ConfirmedFinal(Head(confirmedC))
BY ChannelHead DEF FinalInv, ChannelFinal

LEMMA ValidateFinal == FinalInv /\ Validate => FinalInv'
<1> SUFFICES ASSUME FinalInv, Validate PROVE FinalInv'
  OBVIOUS
<1>1. Keeps /\ PendingKnown'
  BY SameKeeps, PendingKeeps DEF FinalInv, Validate, watchVars
<1>2. ChannelFinal'
  BY <1>1, ChannelShrinks DEF FinalInv, Validate
<1>3. PublishedFinal'
  <2>1. published' = published \cup Publications(Head(confirmedC))
    BY DEF Validate
  <2>2. PICK c \in ConfirmedType : c = Head(confirmedC) /\ ConfirmedFinal(c)
    BY HeadFinal DEF Validate
  <2>3. \A p \in Publications(c) : IsFinal(p)'
    BY <1>1, <2>2, PublicationsFinal
  <2> QED
    BY <1>1, <2>1, <2>2, <2>3, PublishedKeeps DEF FinalInv, PublishedFinal
<1> QED
  BY <1>1, <1>2, <1>3, ValidateType, WorkSame, FinalStep DEF FinalInv, Validate, watchVars

\* A watcher that goes down forgets all but what it has published.
LEMMA DownFinal ==
    ASSUME FinalInv, TypeOK', Down, PublishedFinal'
    PROVE  FinalInv'
<1>1. WorkReached' /\ PendingKnown' /\ ChannelFinal'
  BY ChannelEmpty DEF Down, WorkReached, PendingKnown
<1> QED
  BY <1>1, FinalStep DEF Down

LEMMA StopFinal == FinalInv /\ Stop => FinalInv'
BY StopType, PublishedSame, DownFinal DEF FinalInv, Stop, Down

LEMMA StopValidatingFinal == FinalInv /\ StopValidating => FinalInv'
<1> SUFFICES ASSUME FinalInv, StopValidating PROVE FinalInv'
  OBVIOUS
<1>1. published' = published \cup Publications(Head(confirmedC)) /\ Down
  BY DEF StopValidating
<1>2. Keeps
  BY <1>1, SameKeeps DEF FinalInv, Down
<1>3. PICK c \in ConfirmedType : c = Head(confirmedC) /\ ConfirmedFinal(c)
  BY HeadFinal DEF StopValidating
<1>4. \A p \in Publications(c) : IsFinal(p)'
  BY <1>2, <1>3, PublicationsFinal
<1>5. PublishedFinal'
  BY <1>1, <1>2, <1>3, <1>4, PublishedKeeps DEF FinalInv, PublishedFinal
<1> QED
  BY <1>1, <1>5, StopValidatingType, DownFinal DEF FinalInv

LEMMA FailFinal == FinalInv /\ Fail => FinalInv'
BY FailType, PublishedSame, DownFinal DEF FinalInv, Fail, Down

LEMMA StartFinal == FinalInv /\ Start => FinalInv'
<1> SUFFICES ASSUME FinalInv, Start PROVE FinalInv'
  OBVIOUS
<1>1. PICK h \in 0 .. Tip : StartsAt(h)
  BY StartFacts DEF FinalInv
<1>2. pendings' = [i \in {h} |-> PendingAt(h)]
  BY <1>1 DEF StartsAt, StartFrom
<1>3. PICK p \in PendingSet : p = PendingAt(h) /\ Known(h, p.fork, p.messages)
  BY ReadKnown, ChainFacts DEF FinalInv, PendingSet
<1>4. Known(h, p.fork, p.messages)'
  BY <1>3, SameKeeps, ChainFacts DEF FinalInv, Start, Keeps, PendingSet
<1>5. PendingKnown'
  BY <1>2, <1>3, <1>4 DEF PendingKnown
<1>6. ChannelFinal' /\ WorkReached'
  BY SameKeeps, ChannelSame, WorkSame DEF FinalInv, Start
<1> QED
  BY <1>5, <1>6, StartType, PublishedSame, FinalStep DEF FinalInv, Start

LEMMA StutterFinal == FinalInv /\ UNCHANGED vars => FinalInv'
<1> SUFFICES ASSUME FinalInv, UNCHANGED vars PROVE FinalInv'
  OBVIOUS
<1>1. PendingKnown' /\ ChannelFinal' /\ WorkReached'
  BY SameKeeps, PendingKeeps, ChannelSame, WorkSame DEF FinalInv, vars, watchVars
<1> QED
  BY <1>1, StutterType, PublishedSame, FinalStep DEF FinalInv, vars

LEMMA NextFinal == FinalInv /\ [Next]_vars => FinalInv'
BY MineFinal, ReorgFinal, PollFinal, FetchFinal, CheckFinal, RefetchFinal, EndCheckFinal,
   ReobserveLookUpFinal, ReobserveConfirmFinal, ValidateFinal, StopFinal, StopValidatingFinal,
   FailFinal, StartFinal, StutterFinal
DEF Next

LEMMA FinalCorrect == Spec => []FinalInv
<1>1. FinalInv /\ [Next]_vars => FinalInv'
  BY NextFinal
<1> QED
  BY <1>1, InitFinal, PTL DEF Spec

\* Whatever forks replace: a message published by checkConfirmations, which no fork can
\* reach within the confirmations the message asks for, is and stays in the main chain, in
\* the block it was published with, over restarts too.
THEOREM PublishedStays == Spec => []PublishedFinal
<1>1. FinalInv => PublishedFinal
  BY DEF FinalInv
<1> QED
  BY <1>1, FinalCorrect, PTL

\* If no fork replaces more than MinConfirmations blocks, the watcher publishes on its own
\* only messages of blocks that stay in the main chain.
THEOREM PublishedIsFinalCorrect ==
    ASSUME MaxReorg <= MinConfirmations
    PROVE  Spec => []PublishedIsFinal
<1>1. FinalInv => PublishedIsFinal
  <2> SUFFICES ASSUME FinalInv, NEW p \in published, ~p.reObserved
               PROVE  IsCanonical(p.height, p.fork)
    BY DEF PublishedIsFinal
  <2>1. p.message \in Events
    BY DEF FinalInv, TypeOK, Events
  <2>2. OutOfReach(p.message)
    BY <2>1, ConfirmationsType, ConstantTypes DEF OutOfReach
  <2> QED
    BY <2>2 DEF FinalInv, PublishedFinal, IsFinal, Final
<1> QED
  BY <1>1, FinalCorrect, PTL

-----------------------------------------------------------------------------
(* Without forks, what is done is published and every contract is known.   *)
(*                                                                         *)
(* An event of a block that getEvents has read is among its pendings, in   *)
(* the channel, or processed: published, or stored if it is a creation.    *)
(* Two orders make this enough.  checkConfirmations goes through the       *)
(* heights in ascending order and a creation needs the fewest              *)
(* confirmations, so a creation is sent before the transfers of the blocks *)
(* above it (CheckedUpTo, SendersFirst).  A block is reported as finished  *)
(* after the last of its events, in the same channel (FinishedLast).       *)

\* The sender of m was created below height h.
Early(m, h) == Sender[m] = Nil \/ \E i \in 0 .. h - 1 : Sender[m] \in At(i).events

\* The event e of height h has been dealt with.
Processed(e, h) ==
    /\ e \in Creations => e \in addresses
    /\ e \in Messages /\ Early(e, h) => IsPublished(e)

InChannel(e, n) ==
    \E j \in 1 .. n : ~confirmedC[j].reObserved /\ e \in confirmedC[j].messages

\* The event e of height h will have been when the first n of the channel are.
Covered(e, h, n) == Processed(e, h) \/ InChannel(e, n)

Sent(e, h) == Covered(e, h, Len(confirmedC))

SenderCovered(m, n) ==
    Sender[m] = Nil \/ Sender[m] \in addresses \/ InChannel(Sender[m], n)

\* The last height getEvents has read.
Frontier == IF Doing("fetch") THEN work.at - 1 ELSE current

WorkInv ==
    /\ current = Nil => pendings = <<>>
    /\ current # Nil => current <= Tip
    /\ work # Nil =>
         /\ work.do # "refetch"
         /\ work.to <= Tip
         /\ work.do = "fetch" => current < work.at /\ work.at <= work.to
         /\ work.do = "check" => current = work.to

Accounted(h, p) ==
    /\ p.fork = 0
    /\ p.messages \subseteq At(h).events
    /\ \A e \in At(h).events \ p.messages : Sent(e, h)

PendingInv == \A h \in DOMAIN pendings : h <= Frontier /\ Accounted(h, pendings[h])

CreationsInv ==
    current # Nil =>
      \A h \in 0 .. Tip : h <= Frontier =>
        \A c \in At(h).events \cap Creations :
          \/ Sent(c, h)
          \/ h \in DOMAIN pendings /\ c \in pendings[h].messages

CheckedUpTo ==
    Doing("check") =>
      \A h \in DOMAIN pendings : h < work.at =>
        \A e \in pendings[h].messages : ~IsDeep(h, e)

FinishedLast(c, i) ==
    c.finished => \A e \in At(c.height).events : Covered(e, c.height, i)

SendersFirst(c, i) ==
    \A m \in c.messages \cap Messages : Early(m, c.height) => SenderCovered(m, i - 1)

ConfirmedInv(c, i) ==
    ~c.reObserved =>
      /\ c.height <= Tip
      /\ c.messages \subseteq At(c.height).events
      /\ FinishedLast(c, i)
      /\ SendersFirst(c, i)

ChannelInv == \A i \in 1 .. Len(confirmedC) : ConfirmedInv(confirmedC[i], i)

Done(h) ==
    \A e \in At(h).events :
      /\ e \in Creations => e \in addresses
      /\ e \in Messages /\ Early(e, h) /\ h \notin skipped => IsPublished(e)

CountsAsDone(h) ==
    h < fromHeight \/ h \in blocks \/ (lastHeight # Nil /\ h <= lastHeight)

DoneInv ==
    /\ fromHeight <= Tip + 1
    /\ blocks \subseteq 0 .. Tip
    /\ lastHeight # Nil => lastHeight <= Tip
    /\ \A h \in 0 .. Tip : CountsAsDone(h) => Done(h)

OneForkInv ==
    /\ WorkInv
    /\ PendingInv
    /\ CreationsInv
    /\ CheckedUpTo
    /\ ChannelInv
    /\ DoneInv

NoForkInv == fork = 0 => OneForkInv

\* An event has one height.
LEMMA HeightIs ==
    ASSUME TypeOK, ChainInv, NEW h \in 0 .. Tip, NEW e \in At(h).events
    PROVE  e \in Mined /\ HeightOf(e) = h
<1>1. e \in Mined
  BY DEF Mined
<1>2. HeightOf(e) \in 0 .. Tip /\ e \in At(HeightOf(e)).events
  BY DEF HeightOf
<1> QED
  BY <1>1, <1>2 DEF ChainInv

LEMMA EarlyIs ==
    ASSUME TypeOK, ChainInv, NEW h \in 0 .. Tip, NEW m \in Messages, m \in At(h).events
    PROVE  CreatedEarlier(m) <=> Early(m, h)
<1>1. m \in Mined /\ HeightOf(m) = h
  BY HeightIs
<1>2. ASSUME Sender[m] \in Mined, HeightOf(Sender[m]) < h
      PROVE  Early(m, h)
  <2>1. HeightOf(Sender[m]) \in 0 .. Tip /\ Sender[m] \in At(HeightOf(Sender[m])).events
    <3>1. \E i \in 0 .. Tip : Sender[m] \in At(i).events
      BY <1>2 DEF Mined
    <3> QED
      BY <3>1 DEF HeightOf
  <2>2. HeightOf(Sender[m]) \in 0 .. h - 1
    BY <1>2, <2>1
  <2> QED
    BY <2>1, <2>2 DEF Early
<1>3. ASSUME NEW i \in 0 .. h - 1, Sender[m] \in At(i).events
      PROVE  Sender[m] \in Mined /\ HeightOf(Sender[m]) < h
  <2>1. i \in 0 .. Tip /\ i < h
    BY ChainFacts
  <2> QED
    BY <1>3, <2>1, HeightIs
<1> QED
  BY <1>1, <1>2, <1>3 DEF CreatedEarlier, Early

LEMMA EventsApart == \A e \in Events : e \in Creations <=> e \notin Messages
BY ConstantTypes DEF Events

LEMMA InitNoFork == Init => NoForkInv
<1> SUFFICES ASSUME Init PROVE NoForkInv
  OBVIOUS
<1>1. Tip = 0 /\ At(0) = [fork |-> 0, events |-> {}] /\ Len(confirmedC) = 0
  BY DEF Init, Tip, At
<1>2. WorkInv /\ PendingInv /\ CreationsInv /\ CheckedUpTo /\ ChannelInv
  BY <1>1, NilIsNone DEF Init, WorkInv, PendingInv, CreationsInv, CheckedUpTo, ChannelInv, Doing
<1>3. DoneInv
  BY <1>1, NilIsNone DEF Init, DoneInv, Done
<1> QED
  BY <1>2, <1>3 DEF NoForkInv, OneForkInv

\* What all steps without a fork keep: the chain, what is published and stored.
Extends ==
    /\ Tip' \in Nat /\ Tip <= Tip'
    /\ \A h \in 0 .. Tip : At(h)' = At(h)

Grown ==
    /\ Extends
    /\ published \subseteq published'
    /\ addresses \subseteq addresses'
    /\ skipped \subseteq skipped'

\* Steps that do not take from the channel.
ChannelKept ==
    /\ Len(confirmedC) \in Nat /\ Len(confirmedC') \in Nat
    /\ Len(confirmedC) <= Len(confirmedC')
    /\ \A i \in 1 .. Len(confirmedC) : confirmedC'[i] = confirmedC[i]

LEMMA EarlyKept ==
    ASSUME TypeOK, Extends, NEW h \in 0 .. Tip, NEW m
    PROVE  Early(m, h)' <=> Early(m, h)
<1>1. \A i \in 0 .. h - 1 : At(i)' = At(i)
  BY ChainFacts DEF Extends
<1> QED
  BY <1>1 DEF Early

LEMMA ProcessedKept ==
    ASSUME TypeOK, Grown, NEW h \in 0 .. Tip, NEW e, Processed(e, h)
    PROVE  Processed(e, h)'
BY EarlyKept DEF Grown, Processed, IsPublished

LEMMA DoneKept ==
    ASSUME TypeOK, Grown, NEW h \in 0 .. Tip, Done(h)
    PROVE  Done(h)'
<1>1. At(h)' = At(h)
  BY DEF Grown, Extends
<1>2. \A e : Early(e, h)' <=> Early(e, h)
  BY EarlyKept DEF Grown
<1>3. \A e : IsPublished(e) => IsPublished(e)'
  BY DEF Grown, IsPublished
<1> QED
  BY <1>1, <1>2, <1>3 DEF Grown, Done

LEMMA InChannelKept ==
    ASSUME ChannelKept, NEW n \in Nat, n <= Len(confirmedC), NEW e, InChannel(e, n)
    PROVE  InChannel(e, n)'
<1>1. PICK j \in 1 .. n : ~confirmedC[j].reObserved /\ e \in confirmedC[j].messages
  BY DEF InChannel
<1>2. confirmedC'[j] = confirmedC[j]
  BY DEF ChannelKept
<1> QED
  BY <1>1, <1>2 DEF InChannel

LEMMA CoveredKept ==
    ASSUME TypeOK, Grown, ChannelKept, NEW h \in 0 .. Tip, NEW e,
           NEW n \in Nat, n <= Len(confirmedC), Covered(e, h, n)
    PROVE  Covered(e, h, n)'
BY ProcessedKept, InChannelKept DEF Covered

LEMMA InChannelMore ==
    ASSUME NEW n \in Nat, NEW k \in Nat, n <= k, NEW e, InChannel(e, n)'
    PROVE  InChannel(e, k)'
BY DEF InChannel

LEMMA SentKept ==
    ASSUME TypeOK, Grown, ChannelKept, NEW h \in 0 .. Tip, NEW e, Sent(e, h)
    PROVE  Sent(e, h)'
<1>1. PICK n \in Nat : n = Len(confirmedC)
  BY DEF ChannelKept
<1>2. PICK k \in Nat : k = Len(confirmedC')
  BY DEF ChannelKept
<1>3. Covered(e, h, n)'
  BY <1>1, CoveredKept DEF Sent
<1>4. Covered(e, h, k)'
  BY <1>1, <1>2, <1>3, InChannelMore DEF Covered, ChannelKept
<1> QED
  BY <1>2, <1>4 DEF Sent

LEMMA SenderCoveredKept ==
    ASSUME Grown, ChannelKept, NEW m, NEW n \in Nat, n <= Len(confirmedC), SenderCovered(m, n)
    PROVE  SenderCovered(m, n)'
BY InChannelKept DEF SenderCovered, Grown

LEMMA AccountedKept ==
    ASSUME TypeOK, Grown, ChannelKept, NEW h \in 0 .. Tip, NEW p, Accounted(h, p)
    PROVE  Accounted(h, p)'
<1>1. At(h)' = At(h)
  BY DEF Grown, Extends
<1>2. \A e : Sent(e, h) => Sent(e, h)'
  BY SentKept
<1> QED
  BY <1>1, <1>2 DEF Accounted

\* The entries that stay in the channel.
LEMMA ConfirmedKept ==
    ASSUME TypeOK, Grown, ChannelKept, NEW c \in ConfirmedType,
           NEW i \in Nat, 1 <= i, i <= Len(confirmedC), ConfirmedInv(c, i)
    PROVE  ConfirmedInv(c, i)'
<1> SUFFICES ASSUME ~c.reObserved
             PROVE  /\ c.height <= Tip' /\ c.messages \subseteq At(c.height)'.events
                    /\ FinishedLast(c, i)' /\ SendersFirst(c, i)'
  BY DEF ConfirmedInv
<1>1. c.height \in 0 .. Tip
  BY ChainFacts DEF ConfirmedInv, ConfirmedType
<1>2. At(c.height)' = At(c.height) /\ Tip <= Tip' /\ Tip \in Nat /\ Tip' \in Nat
  BY <1>1, ChainFacts DEF Grown, Extends
<1>3. FinishedLast(c, i)'
  <2> SUFFICES ASSUME c.finished, NEW e \in At(c.height).events
               PROVE  Covered(e, c.height, i)'
    BY <1>2 DEF FinishedLast
  <2>1. Covered(e, c.height, i)
    BY DEF ConfirmedInv, FinishedLast
  <2> QED
    BY <1>1, <2>1, CoveredKept
<1>4. SendersFirst(c, i)'
  <2> SUFFICES ASSUME NEW m \in c.messages \cap Messages, Early(m, c.height)'
               PROVE  SenderCovered(m, i - 1)'
    BY DEF SendersFirst
  <2>1. Early(m, c.height)
    BY <1>1, EarlyKept DEF Grown
  <2>2. SenderCovered(m, i - 1) /\ i - 1 \in Nat /\ i - 1 <= Len(confirmedC)
    BY <2>1 DEF ConfirmedInv, SendersFirst, ChannelKept
  <2> QED
    BY <2>2, SenderCoveredKept
<1> QED
  BY <1>1, <1>2, <1>3, <1>4 DEF ConfirmedInv

LEMMA ChannelInvSame ==
    ASSUME TypeOK, Grown, ChannelInv, confirmedC' = confirmedC
    PROVE  ChannelInv' /\ ChannelKept
<1>1. ChannelKept
  BY DEF TypeOK, ChannelKept
<1> SUFFICES ASSUME NEW i \in 1 .. Len(confirmedC) PROVE ConfirmedInv(confirmedC[i], i)'
  BY <1>1 DEF ChannelInv
<1>2. PICK c \in ConfirmedType : c = confirmedC[i]
  BY DEF TypeOK
<1>3. ConfirmedInv(c, i)'
  BY <1>1, <1>2, ConfirmedKept DEF ChannelInv, ChannelKept
<1> QED
  BY <1>2, <1>3

LEMMA ChannelInvGrows ==
    ASSUME TypeOK, Grown, ChannelInv, NEW c \in ConfirmedType, Send(c),
           NEW n \in Nat, n = Len(confirmedC) + 1, ConfirmedInv(c, n)'
    PROVE  ChannelInv'
<1>1. ChannelKept
  BY SendType DEF TypeOK, ChannelKept
<1> SUFFICES ASSUME NEW i \in 1 .. n PROVE ConfirmedInv(confirmedC[i], i)'
  BY SendType DEF ChannelInv
<1>2. CASE i \in 1 .. Len(confirmedC)
  <2>1. PICK d \in ConfirmedType : d = confirmedC[i]
    BY <1>2 DEF TypeOK
  <2>2. ConfirmedInv(d, i)'
    BY <1>1, <1>2, <2>1, ConfirmedKept DEF ChannelInv, ChannelKept
  <2> QED
    BY <1>2, <2>1, <2>2, SendType
<1>3. CASE i = n
  BY <1>3, SendType
<1> QED
  BY <1>2, <1>3 DEF TypeOK

LEMMA FrontierFacts ==
    ASSUME TypeOK, WorkInv, current # Nil
    PROVE  Frontier \in Int /\ Frontier <= Tip /\ current \in Nat /\ current <= Frontier
<1>1. current \in Nat /\ current <= Tip /\ Tip \in Nat
  BY ChainFacts DEF TypeOK, WorkInv
<1>2. CASE Doing("fetch")
  <2>1. /\ work.at \in Nat /\ work.to \in Nat /\ work.to <= Tip
        /\ current < work.at /\ work.at <= work.to
    BY <1>2, ConstantTypes DEF TypeOK, WorkInv, Doing, Work, Heights
  <2>2. Frontier = work.at - 1
    BY <1>2 DEF Frontier
  <2> QED
    BY <1>1, <2>1, <2>2
<1>3. CASE ~Doing("fetch")
  BY <1>1, <1>3 DEF Frontier
<1> QED
  BY <1>2, <1>3

LEMMA PendingHeights ==
    ASSUME TypeOK, WorkInv, PendingInv, NEW h \in DOMAIN pendings
    PROVE  h \in 0 .. Tip /\ h \in Heights /\ pendings[h] \in PendingSet /\ current # Nil
<1>1. h \in Heights /\ h \in Nat /\ pendings[h] \in PendingSet
  BY ChainFacts DEF TypeOK, PendingType, PendingSet
<1>2. current # Nil
  BY DEF WorkInv
<1>3. h <= Tip
  BY <1>1, <1>2, FrontierFacts, ChainFacts DEF PendingInv
<1> QED
  BY <1>1, <1>2, <1>3, ChainFacts

\* The chain is that of the first fork.
LEMMA OneFork ==
    ASSUME FinalInv, fork = 0, NEW h \in 0 .. Tip
    PROVE  At(h).fork = 0 /\ IsCanonical(h, 0)
<1>1. At(h).fork \in Nat /\ At(h).fork <= 0
  BY ChainFacts DEF FinalInv, ChainInv
<1> QED
  BY <1>1 DEF IsCanonical

LEMMA MineExtends ==
    ASSUME TypeOK, Mine
    PROVE  Extends /\ Tip' = Tip + 1
<1>1. PICK S \in SUBSET Events : chain' = Append(chain, [fork |-> fork, events |-> S])
  BY MineChain
<1>2. \A h \in 0 .. Tip : At(h)' = At(h)
  BY <1>1, ChainFacts DEF At
<1>3. Tip' = Tip + 1 /\ Tip \in Nat
  BY MineChain, ChainFacts
<1> QED
  BY <1>2, <1>3 DEF Extends

LEMMA StillExtends ==
    ASSUME FinalInv, UNCHANGED chainVars
    PROVE  Extends /\ Tip' = Tip
BY SameKeeps, ChainFacts DEF FinalInv, Extends

LEMMA PendingSame ==
    ASSUME FinalInv, OneForkInv, Grown, ChannelKept,
           UNCHANGED <<pendings, current>>, current # Nil => Frontier <= Frontier' /\ Frontier' \in Int
    PROVE  PendingInv'
<1> SUFFICES ASSUME NEW h \in DOMAIN pendings
             PROVE  h <= Frontier' /\ Accounted(h, pendings[h])'
  BY DEF PendingInv
<1>1. h \in 0 .. Tip /\ current # Nil
  BY PendingHeights DEF FinalInv, OneForkInv
<1>2. PICK p : p = pendings[h]
  OBVIOUS
<1>3. Accounted(h, p)'
  BY <1>1, <1>2, AccountedKept DEF FinalInv, OneForkInv, PendingInv
<1>4. h <= Frontier'
  BY <1>1, FrontierFacts DEF FinalInv, OneForkInv, PendingInv
<1> QED
  BY <1>2, <1>3, <1>4

LEMMA CreationsSame ==
    ASSUME FinalInv, OneForkInv, Grown, ChannelKept,
           UNCHANGED <<pendings, current>>, current # Nil => Frontier' = Frontier
    PROVE  CreationsInv'
<1> SUFFICES ASSUME current # Nil, NEW h \in 0 .. Tip', h <= Frontier,
                    NEW c \in At(h)'.events \cap Creations
             PROVE  Sent(c, h)' \/ (h \in DOMAIN pendings /\ c \in pendings[h].messages)
  BY DEF CreationsInv
<1>1. h \in 0 .. Tip
  BY FrontierFacts, ChainFacts DEF FinalInv, OneForkInv, Grown, Extends
<1>2. c \in At(h).events \cap Creations
  BY <1>1 DEF Grown, Extends
<1> QED
  BY <1>1, <1>2, SentKept DEF FinalInv, OneForkInv, CreationsInv

LEMMA DoneSame ==
    ASSUME FinalInv, OneForkInv, Grown, UNCHANGED <<validatorVars, lastHeight>>
    PROVE  DoneInv'
<1>1. /\ fromHeight \in Nat /\ blocks \subseteq 0 .. Tip
      /\ fromHeight <= Tip + 1 /\ (lastHeight # Nil => lastHeight \in Nat /\ lastHeight <= Tip)
  BY ConstantTypes DEF FinalInv, OneForkInv, TypeOK, DoneInv, Heights
<1>2. Tip \in Nat /\ Tip' \in Nat /\ Tip <= Tip'
  BY ChainFacts DEF FinalInv, Grown, Extends
<1>3. ASSUME NEW h \in 0 .. Tip', CountsAsDone(h)
      PROVE  Done(h)'
  <2>1. h \in 0 .. Tip
    BY <1>1, <1>2, <1>3 DEF CountsAsDone
  <2> QED
    BY <1>3, <2>1, DoneKept DEF FinalInv, OneForkInv, DoneInv
<1>4. \A h : CountsAsDone(h)' <=> CountsAsDone(h)
  BY DEF CountsAsDone, validatorVars
<1>5. fromHeight' = fromHeight /\ blocks' = blocks /\ lastHeight' = lastHeight
  BY DEF validatorVars
<1>6. fromHeight <= Tip' + 1
  BY <1>1, <1>2 DEF Tip
<1>7. blocks \subseteq 0 .. Tip'
  BY <1>1, <1>2
<1>8. lastHeight # Nil => lastHeight <= Tip'
  BY <1>1, <1>2
<1> QED
  BY <1>3, <1>4, <1>5, <1>6, <1>7, <1>8 DEF DoneInv

LEMMA MineNoFork ==
    ASSUME FinalInv, OneForkInv, Mine
    PROVE  OneForkInv'
<1>1. Grown /\ Tip' = Tip + 1 /\ Tip \in Nat
  BY MineExtends, ChainFacts DEF FinalInv, Mine, Grown, dbVars
<1>2. UNCHANGED <<pendings, current, work, confirmedC, validatorVars, lastHeight>>
  BY DEF Mine, watchVars, dbVars
<1>3. ChannelInv' /\ ChannelKept
  BY <1>1, <1>2, ChannelInvSame DEF FinalInv, OneForkInv
<1>4. Frontier' = Frontier
  BY <1>2 DEF Frontier, Doing
<1>5. PendingInv' /\ CreationsInv'
  BY <1>1, <1>2, <1>3, <1>4, FrontierFacts, PendingSame, CreationsSame DEF FinalInv, OneForkInv
<1>6. DoneInv'
  BY <1>1, <1>2, DoneSame
<1>7. CheckedUpTo'
  BY <1>2 DEF OneForkInv, CheckedUpTo, Doing, IsDeep, Confirmations
<1>8. WorkInv'
  <2>1. (current # Nil => current \in Nat) /\ (work # Nil => work.to \in Nat)
    BY ConstantTypes DEF FinalInv, TypeOK, Work, Heights
  <2> QED
    BY <1>1, <1>2, <2>1 DEF OneForkInv, WorkInv
<1> QED
  BY <1>3, <1>5, <1>6, <1>7, <1>8 DEF OneForkInv

\* Steps that leave the chain and the validator alone.
LEMMA StillGrown ==
    ASSUME FinalInv, UNCHANGED <<chainVars, published, addresses, skipped>>
    PROVE  Grown /\ Tip' = Tip /\ \A h \in 0 .. Tip : At(h)' = At(h)
BY StillExtends DEF Grown, Extends

LEMMA PollNoFork ==
    ASSUME FinalInv, OneForkInv, Poll
    PROVE  OneForkInv'
<1>1. /\ UNCHANGED <<pendings, confirmedC, validatorVars, lastHeight>>
      /\ current # Nil /\ work = Nil /\ Grown /\ Tip' = Tip
  BY StillGrown DEF Poll, dbVars
<1>2. ChannelInv' /\ ChannelKept
  BY <1>1, ChannelInvSame DEF FinalInv, OneForkInv
<1>3. current \in Nat /\ current <= Tip /\ Tip \in Nat
  BY <1>1, ChainFacts DEF FinalInv, OneForkInv, WorkInv, TypeOK
<1>4. current' = current
  BY <1>3 DEF Poll
<1>5. Frontier' = Frontier
  <2>1. Frontier = current
    BY <1>1 DEF Frontier, Doing
  <2>2. CASE work' = [do |-> "fetch", at |-> current + 1, to |-> Tip]
    <3>1. work' # Nil /\ work'.do = "fetch" /\ work'.at = current + 1
      BY <1>3, <2>2, NilIsNone, ConstantTypes, ChainFacts DEF Work, FinalInv, TypeOK
    <3> QED
      BY <1>3, <2>1, <3>1 DEF Frontier, Doing
  <2>3. CASE UNCHANGED work
    BY <1>1, <1>4, <2>3 DEF Frontier, Doing
  <2> QED
    BY <2>2, <2>3 DEF Poll
<1>6. PendingInv' /\ CreationsInv'
  BY <1>1, <1>2, <1>4, <1>5, FrontierFacts, PendingSame, CreationsSame DEF FinalInv, OneForkInv
<1>7. DoneInv'
  BY <1>1, DoneSame
<1>8. CheckedUpTo'
  BY <1>1 DEF Poll, CheckedUpTo, Doing
<1>9. WorkInv'
  <2>1. CASE Tip > current /\ work' = [do |-> "fetch", at |-> current + 1, to |-> Tip]
    <3>1. work'.do = "fetch" /\ work'.at = current + 1 /\ work'.to = Tip
      BY <2>1
    <3> QED
      BY <1>1, <1>3, <1>4, <2>1, <3>1 DEF WorkInv
  <2>2. CASE UNCHANGED work
    BY <1>1, <1>3, <1>4, <2>2 DEF WorkInv
  <2> QED
    BY <2>1, <2>2 DEF Poll
<1> QED
  BY <1>2, <1>6, <1>7, <1>8, <1>9 DEF OneForkInv

LEMMA FetchNoFork ==
    ASSUME FinalInv, OneForkInv, fork = 0, Fetch
    PROVE  OneForkInv'
<1>1. /\ UNCHANGED <<confirmedC, validatorVars, lastHeight>> /\ Grown /\ Tip' = Tip
      /\ \A h \in 0 .. Tip : At(h)' = At(h)
  BY StillGrown DEF Fetch, dbVars
<1>2. ChannelInv' /\ ChannelKept
  BY <1>1, ChannelInvSame DEF FinalInv, OneForkInv
<1>3. /\ work \in Work /\ work # Nil /\ work.do = "fetch" /\ work.at \in Nat /\ work.at <= Tip
      /\ work.to \in Nat /\ work.at <= work.to /\ work.to <= Tip
  BY ConstantTypes DEF FinalInv, OneForkInv, TypeOK, Fetch, Doing, Work, WorkInv, Heights
<1>4. current # Nil /\ current \in Nat /\ current < work.at /\ Tip \in Nat
  BY <1>3, NilIsNone, ChainFacts DEF FinalInv, TypeOK, OneForkInv, WorkInv
<1>5. PICK t \in 0 .. Tip : t = work.at
  BY <1>3, <1>4
<1>6. Frontier = t - 1
  BY <1>3, <1>5 DEF Frontier, Doing
<1>7. pendings' = Put(t, PendingAt(t))
  BY <1>5 DEF Fetch
<1>8. /\ Frontier' = t /\ current' # Nil /\ WorkInv' /\ CheckedUpTo'
  <2>1. CASE work.at < work.to /\ work' = [work EXCEPT !.at = @ + 1] /\ UNCHANGED current
    <3>1. work' = [do |-> "fetch", at |-> t + 1, to |-> work.to]
      BY <1>3, <1>5, <2>1 DEF Work
    <3>2. work' # Nil /\ work'.do = "fetch" /\ work'.at = t + 1 /\ work'.to = work.to
      BY <1>3, <1>5, <3>1, NilIsNone, ConstantTypes DEF Work
    <3>3. Frontier' = t
      BY <1>5, <3>2 DEF Frontier, Doing
    <3>4. WorkInv'
      BY <1>1, <1>3, <1>4, <1>5, <2>1, <3>2 DEF WorkInv, OneForkInv
    <3>5. CheckedUpTo'
      BY <3>2 DEF CheckedUpTo, Doing
    <3> QED
      BY <1>4, <2>1, <3>3, <3>4, <3>5
  <2>2. CASE /\ work.at = work.to /\ work' = [do |-> "check", at |-> 0, to |-> work.to]
             /\ current' = work.to
    <3>1. work' # Nil /\ work'.do = "check" /\ work'.at = 0 /\ work'.to = work.to
      BY <1>3, <2>2, NilIsNone DEF Work
    <3>2. Frontier' = t /\ current' # Nil
      BY <1>3, <1>5, <2>2, <3>1, NilIsNone DEF Frontier, Doing
    <3>3. WorkInv'
      BY <1>1, <1>3, <2>2, <3>1, <3>2 DEF WorkInv
    <3>4. CheckedUpTo'
      <4>1. \A h \in DOMAIN pendings \cup {t} : h \in Nat
        BY <1>3, <1>5, ChainFacts DEF FinalInv, TypeOK, PendingType
      <4> QED
        BY <1>7, <3>1, <4>1 DEF CheckedUpTo, Put
    <3> QED
      BY <3>2, <3>3, <3>4
  <2> QED
    BY <2>1, <2>2 DEF Fetch
<1>9. PendingInv'
  <2> SUFFICES ASSUME NEW h \in DOMAIN pendings \cup {t}
               PROVE  h <= t /\ Accounted(h, pendings[h])'
    BY <1>7, <1>8 DEF PendingInv, Put
  <2>1. CASE h = t
    <3>1. PICK p : p = PendingAt(t)
      OBVIOUS
    <3>2. p.fork = 0 /\ p.messages = At(t).events
      BY <3>1, OneFork, ChainFacts DEF FinalInv
    <3>3. Accounted(t, p)'
      BY <1>1, <3>2 DEF Accounted
    <3>4. pendings'[t] = p
      BY <1>7, <3>1 DEF Put
    <3> QED
      BY <2>1, <3>3, <3>4
  <2>2. CASE h # t
    <3>1. h \in 0 .. Tip /\ h <= Frontier
      BY <2>2, PendingHeights DEF FinalInv, OneForkInv, PendingInv
    <3>2. PICK p : p = pendings[h]
      OBVIOUS
    <3>3. Accounted(h, p)'
      BY <1>1, <1>2, <2>2, <3>1, <3>2, AccountedKept DEF FinalInv, OneForkInv, PendingInv
    <3>4. pendings'[h] = p
      BY <1>7, <2>2, <3>2 DEF Put
    <3> QED
      BY <1>6, <3>1, <3>3, <3>4
  <2> QED
    BY <2>1, <2>2
<1>10. CreationsInv'
  <2> SUFFICES ASSUME NEW h \in 0 .. Tip, h <= t, NEW c \in At(h).events \cap Creations
               PROVE  Sent(c, h)' \/ (h \in DOMAIN pendings' /\ c \in pendings'[h].messages)
    BY <1>1, <1>8 DEF CreationsInv
  <2>1. CASE h = t
    <3>1. pendings'[h].messages = At(h).events /\ h \in DOMAIN pendings'
      BY <1>7, <2>1, ChainFacts DEF FinalInv, Put
    <3> QED
      BY <3>1
  <2>2. CASE h # t
    <3>1. h <= Frontier
      BY <1>6, <2>2
    <3>2. Sent(c, h) \/ (h \in DOMAIN pendings /\ c \in pendings[h].messages)
      BY <1>4, <3>1 DEF OneForkInv, CreationsInv
    <3>3. h \in DOMAIN pendings => h \in DOMAIN pendings' /\ pendings'[h] = pendings[h]
      BY <1>7, <2>2 DEF Put
    <3> QED
      BY <1>1, <1>2, <3>2, <3>3, SentKept DEF FinalInv
  <2> QED
    BY <2>1, <2>2
<1>11. DoneInv'
  BY <1>1, DoneSame
<1> QED
  BY <1>2, <1>8, <1>9, <1>10, <1>11 DEF OneForkInv

\* What checkConfirmations knows about the next height.
LEMMA CheckFacts ==
    ASSUME FinalInv, OneForkInv, Doing("check")
    PROVE  /\ work \in Work /\ work # Nil /\ work.do = "check" /\ work.at \in Nat /\ work.to \in Nat
           /\ current # Nil /\ current = work.to /\ current <= Tip /\ Frontier = current
<1>1. work \in Work /\ work # Nil /\ work.do = "check" /\ work.at \in Nat /\ work.to \in Nat
  BY ConstantTypes DEF FinalInv, TypeOK, Doing, Work, Heights
<1>2. Frontier = current
  BY <1>1 DEF Frontier, Doing
<1> QED
  BY <1>1, <1>2, NilIsNone DEF FinalInv, TypeOK, OneForkInv, WorkInv

\* The next step of the round: only the height checked may have changed.
LEMMA CheckedNext ==
    ASSUME FinalInv, OneForkInv, UNCHANGED <<chainVars, current>>, Doing("check"), Unchecked # {},
           NEW h, h = Min(Unchecked), CheckNext(h),
           DOMAIN pendings' \subseteq DOMAIN pendings,
           \A i \in DOMAIN pendings' : i # h => pendings'[i] = pendings[i],
           h \in DOMAIN pendings' => \A e \in pendings'[h].messages : ~IsDeep(h, e)
    PROVE  CheckedUpTo' /\ WorkInv' /\ Frontier' = Frontier
<1>1. /\ work \in Work /\ work # Nil /\ work.do = "check" /\ work.at \in Nat
      /\ current # Nil /\ current = work.to /\ current <= Tip /\ Frontier = current
  BY CheckFacts
<1>2. h \in DOMAIN pendings /\ h \in Heights /\ \A i \in DOMAIN pendings : i >= work.at => h <= i
  BY MinPending DEF FinalInv
<1>3. work' = [do |-> "check", at |-> h + 1, to |-> work.to] /\ work' \in Work
  BY <1>1, <1>2, WorkCheck DEF CheckNext
<1>4. /\ work' # Nil /\ work'.do = "check" /\ work'.at = h + 1 /\ work'.to = work.to
      /\ h \in Nat /\ Tip' = Tip
  BY <1>2, <1>3, NilIsNone, ChainFacts, StillExtends DEF FinalInv
<1>5. WorkInv'
  BY <1>1, <1>4 DEF WorkInv
<1>6. Frontier' = Frontier
  BY <1>1, <1>4 DEF Frontier, Doing
<1>7. CheckedUpTo'
  <2> SUFFICES ASSUME NEW i \in DOMAIN pendings', i < h + 1, NEW e \in pendings'[i].messages
               PROVE  ~(i + Confirmations(e) <= work.to)
    BY <1>4 DEF CheckedUpTo, IsDeep, Confirmations
  <2>1. i \in DOMAIN pendings /\ i \in Nat
    BY ChainFacts DEF FinalInv, TypeOK, PendingType
  <2>2. CASE i = h
    BY <2>2 DEF IsDeep
  <2>3. CASE i # h
    <3>1. i < work.at
      BY <1>1, <1>2, <1>4, <2>1, <2>3
    <3> QED
      BY <1>1, <2>1, <2>3, <3>1 DEF OneForkInv, CheckedUpTo, IsDeep, Doing
  <2> QED
    BY <2>2, <2>3
<1> QED
  BY <1>5, <1>6, <1>7

\* The creations of lower heights have been sent when a transfer is.
LEMMA SenderSent ==
    ASSUME FinalInv, OneForkInv, Doing("check"), Unchecked # {},
           NEW h, h = Min(Unchecked), h <= Tip,
           NEW m \in Messages, Early(m, h), IsDeep(h, m)
    PROVE  SenderCovered(m, Len(confirmedC))
<1> SUFFICES ASSUME Sender[m] # Nil PROVE SenderCovered(m, Len(confirmedC))
  BY DEF SenderCovered
<1>1. PICK i \in 0 .. h - 1 : Sender[m] \in At(i).events
  BY DEF Early
<1>2. Sender[m] \in Creations /\ Sender[m] \in Events /\ m \in Events
  BY AlephiumAssumption DEF Events
<1>3. /\ work.at \in Nat /\ work.to \in Nat /\ current # Nil /\ current = work.to /\ Frontier = current
  BY CheckFacts
<1>4. h \in Nat /\ i \in 0 .. Tip /\ i < h /\ \A j \in DOMAIN pendings : j >= work.at => h <= j
  BY MinPending, ChainFacts DEF FinalInv
<1>5. /\ h + Confirmations(m) <= work.to /\ MinConfirmations <= Confirmations(m)
      /\ Confirmations(m) \in Nat /\ MinConfirmations \in Nat
      /\ Confirmations(Sender[m]) = MinConfirmations
  BY <1>2, ConfirmationsType, ConstantTypes DEF IsDeep, Confirmations
<1>6. i <= Frontier /\ i + Confirmations(Sender[m]) <= work.to
  BY <1>3, <1>4, <1>5
<1>7. ~(i \in DOMAIN pendings /\ Sender[m] \in pendings[i].messages)
  <2> SUFFICES ASSUME i \in DOMAIN pendings, Sender[m] \in pendings[i].messages
               PROVE  FALSE
    OBVIOUS
  <2>1. i < work.at
    BY <1>3, <1>4
  <2> QED
    BY <1>6, <2>1 DEF OneForkInv, CheckedUpTo, IsDeep
<1>8. Sent(Sender[m], i)
  BY <1>1, <1>2, <1>3, <1>4, <1>6, <1>7 DEF OneForkInv, CreationsInv
<1> QED
  BY <1>2, <1>8 DEF Sent, Covered, Processed, SenderCovered

\* What the channel covers once c has been appended to it.
LEMMA InChannelNew ==
    ASSUME TypeOK, NEW c \in ConfirmedType, Send(c), ~c.reObserved, NEW e \in c.messages,
           NEW n \in Nat, n = Len(confirmedC) + 1
    PROVE  InChannel(e, n)' /\ n = Len(confirmedC')
<1>1. confirmedC'[n] = c /\ n \in 1 .. n /\ n = Len(confirmedC')
  BY SendType DEF TypeOK
<1> QED
  BY <1>1 DEF InChannel

LEMMA SentNew ==
    ASSUME TypeOK, NEW c \in ConfirmedType, Send(c), ~c.reObserved, NEW e \in c.messages, NEW h
    PROVE  Sent(e, h)'
<1>1. PICK n \in Nat : n = Len(confirmedC) + 1
  BY DEF TypeOK
<1>2. InChannel(e, n)' /\ n = Len(confirmedC')
  BY <1>1, InChannelNew
<1> QED
  BY <1>2 DEF Sent, Covered

LEMMA SendKept ==
    ASSUME TypeOK, NEW c \in ConfirmedType, Send(c)
    PROVE  ChannelKept
BY SendType DEF TypeOK, ChannelKept

\* A step that sends c and may take some of its events from the pendings of its height.
LEMMA SendNoFork ==
    ASSUME FinalInv, OneForkInv, Doing("check"), Unchecked # {},
           UNCHANGED <<chainVars, current, validatorVars, dbVars, published, skipped>>,
           NEW h, h = Min(Unchecked), CheckNext(h),
           NEW p \in PendingSet, p = pendings[h],
           NEW c \in ConfirmedType, Send(c), ~c.reObserved, c.height = h,
           c.messages = { e \in p.messages : IsDeep(h, e) },
           c.finished => c.messages = p.messages,
           DOMAIN pendings' \subseteq DOMAIN pendings,
           DOMAIN pendings \ {h} \subseteq DOMAIN pendings',
           \A i \in DOMAIN pendings' : i # h => pendings'[i] = pendings[i],
           h \in DOMAIN pendings' =>
             pendings'[h].fork = p.fork /\ pendings'[h].messages = p.messages \ c.messages,
           h \notin DOMAIN pendings' => c.messages = p.messages
    PROVE  OneForkInv'
<1>1. /\ work \in Work /\ work # Nil /\ work.at \in Nat
      /\ current # Nil /\ current = work.to /\ current <= Tip /\ Frontier = current
  BY CheckFacts
<1>2. h \in DOMAIN pendings
  BY MinPending DEF FinalInv
<1>3. h \in 0 .. Tip
  BY <1>2, PendingHeights DEF FinalInv, OneForkInv
<1>4. Accounted(h, p) /\ h <= Frontier
  BY <1>2 DEF OneForkInv, PendingInv
<1>5. Grown /\ Tip' = Tip /\ \A i \in 0 .. Tip : At(i)' = At(i)
  BY StillGrown DEF dbVars
<1>6. ChannelKept
  BY SendKept DEF FinalInv
<1>7. CheckedUpTo' /\ WorkInv' /\ Frontier' = Frontier
  <2>1. h \in DOMAIN pendings' => \A e \in pendings'[h].messages : ~IsDeep(h, e)
    OBVIOUS
  <2> QED
    BY <2>1, CheckedNext
<1>8. \A i \in 0 .. Tip : \A e : Sent(e, i) => Sent(e, i)'
  BY <1>5, <1>6, SentKept DEF FinalInv
<1>9. \A i, e : e \in c.messages => Sent(e, i)'
  BY SentNew DEF FinalInv
<1>10. DoneInv'
  BY <1>5, DoneSame DEF dbVars
<1>11. PendingInv'
  <2> SUFFICES ASSUME NEW i \in DOMAIN pendings'
               PROVE  i <= Frontier /\ Accounted(i, pendings[i])'
    BY <1>7 DEF PendingInv
  <2>1. CASE i = h
    <3>1. PICK q : q = pendings'[h]
      OBVIOUS
    <3>2. q.fork = 0 /\ q.messages \subseteq At(h).events
      BY <1>4, <2>1, <3>1 DEF Accounted
    <3>3. \A e \in At(h).events \ q.messages : Sent(e, h)'
      BY <1>3, <1>4, <1>8, <1>9, <2>1, <3>1 DEF Accounted
    <3>4. Accounted(h, q)'
      BY <1>3, <1>5, <3>2, <3>3 DEF Accounted
    <3> QED
      BY <1>4, <2>1, <3>1, <3>4
  <2>2. CASE i # h
    <3>1. PICK q : q = pendings[i]
      OBVIOUS
    <3>2. i \in 0 .. Tip /\ Accounted(i, q) /\ i <= Frontier
      BY <3>1, PendingHeights DEF FinalInv, OneForkInv, PendingInv
    <3>3. Accounted(i, q)'
      BY <1>5, <1>6, <3>2, AccountedKept DEF FinalInv
    <3> QED
      BY <2>2, <3>1, <3>2, <3>3
  <2> QED
    BY <2>1, <2>2
<1>12. CreationsInv'
  <2> SUFFICES ASSUME NEW i \in 0 .. Tip, i <= Frontier, NEW d \in At(i).events \cap Creations
               PROVE  Sent(d, i)' \/ (i \in DOMAIN pendings' /\ d \in pendings'[i].messages)
    BY <1>5, <1>7 DEF CreationsInv
  <2>1. Sent(d, i) \/ (i \in DOMAIN pendings /\ d \in pendings[i].messages)
    BY <1>1 DEF OneForkInv, CreationsInv
  <2>2. CASE Sent(d, i)
    BY <1>8, <2>2
  <2>3. CASE i # h /\ i \in DOMAIN pendings /\ d \in pendings[i].messages
    BY <2>3
  <2>4. CASE i = h /\ d \in p.messages
    BY <1>9, <2>4
  <2> QED
    BY <2>1, <2>2, <2>3, <2>4
<1>13. ChannelInv'
  <2>1. PICK n \in Nat : n = Len(confirmedC) + 1 /\ n - 1 = Len(confirmedC) /\ n - 1 \in Nat
    BY DEF FinalInv, TypeOK
  <2>2. \A e \in c.messages : InChannel(e, n)'
    BY <2>1, InChannelNew DEF FinalInv
  <2>3. FinishedLast(c, n)'
    <3> SUFFICES ASSUME c.finished, NEW e \in At(h).events PROVE Covered(e, h, n)'
      BY <1>3, <1>5 DEF FinishedLast
    <3>1. CASE e \in c.messages
      BY <2>2, <3>1 DEF Covered
    <3>2. CASE e \notin c.messages
      <4>1. Covered(e, h, n - 1)
        BY <1>4, <2>1, <3>2 DEF Accounted, Sent
      <4>2. Covered(e, h, n - 1)'
        BY <1>3, <1>5, <1>6, <2>1, <4>1, CoveredKept DEF FinalInv
      <4> QED
        BY <2>1, <4>2, InChannelMore DEF Covered
    <3> QED
      BY <3>1, <3>2
  <2>4. SendersFirst(c, n)'
    <3> SUFFICES ASSUME NEW m \in c.messages \cap Messages, Early(m, h)'
                 PROVE  SenderCovered(m, n - 1)'
      BY DEF SendersFirst
    <3>1. Early(m, h) /\ IsDeep(h, m)
      BY <1>3, <1>5, EarlyKept DEF FinalInv, Grown
    <3>2. SenderCovered(m, n - 1)
      BY <1>3, <2>1, <3>1, SenderSent
    <3> QED
      BY <1>5, <1>6, <2>1, <3>2, SenderCoveredKept
  <2>5. c.height <= Tip' /\ c.messages \subseteq At(c.height)'.events
    BY <1>3, <1>4, <1>5 DEF Accounted
  <2>6. ConfirmedInv(c, n)'
    BY <2>3, <2>4, <2>5 DEF ConfirmedInv
  <2> QED
    BY <1>5, <2>1, <2>6, ChannelInvGrows DEF FinalInv, OneForkInv
<1> QED
  BY <1>7, <1>10, <1>11, <1>12, <1>13 DEF OneForkInv

\* The three outcomes of the check of a height, on a chain without forks.
LEMMA CheckNoFork ==
    ASSUME FinalInv, OneForkInv, fork = 0, Check
    PROVE  OneForkInv'
<1>1. /\ Doing("check") /\ Unchecked # {}
      /\ UNCHANGED <<chainVars, current, validatorVars, dbVars, published, skipped>>
  BY DEF Check
<1>2. PICK h : h = Min(Unchecked)
  OBVIOUS
<1>3. h \in DOMAIN pendings /\ h \in Heights
  BY <1>1, <1>2, MinPending DEF FinalInv
<1>4. h \in 0 .. Tip /\ h \in Nat /\ pendings[h] \in PendingSet
  BY <1>3, PendingHeights DEF FinalInv, OneForkInv
<1>5. PICK p \in PendingSet : p = pendings[h]
  BY <1>4
<1>6. work.to \in Nat /\ MinConfirmations \in Nat
  BY <1>1, CheckFacts, ConstantTypes
<1>7. CheckEmpty(h) \/ CheckShallow(h) \/ CheckDeep(h)
  BY <1>2 DEF Check
<1>8. CASE CheckEmpty(h)
  <2>1. PICK c \in ConfirmedType : c = Confirmed(h, p, {}, TRUE)
    BY <1>3 DEF Confirmed, ConfirmedType, PendingSet
  <2>2. /\ ~c.reObserved /\ c.height = h /\ c.messages = {}
    BY <2>1 DEF Confirmed
  <2>3. Send(c) /\ CheckNext(h) /\ pendings' = pendings /\ p.messages = {}
    BY <1>5, <1>8, <2>1 DEF CheckEmpty
  <2> QED
    BY <1>1, <1>2, <1>5, <2>2, <2>3, SendNoFork
<1>9. CASE CheckShallow(h)
  <2>1. CheckNext(h) /\ UNCHANGED <<pendings, confirmedC>> /\ h + MinConfirmations > work.to
    BY <1>9 DEF CheckShallow
  <2>2. \A e \in pendings[h].messages : ~IsDeep(h, e)
    <3> SUFFICES ASSUME NEW e \in pendings[h].messages PROVE ~IsDeep(h, e)
      OBVIOUS
    <3>1. Confirmations(e) \in Nat /\ MinConfirmations <= Confirmations(e)
      BY <1>4, ConfirmationsType DEF PendingSet
    <3> QED
      BY <1>4, <1>6, <2>1, <3>1 DEF IsDeep
  <2>3. CheckedUpTo' /\ WorkInv' /\ Frontier' = Frontier
    BY <1>1, <1>2, <2>1, <2>2, CheckedNext
  <2>4. Grown
    BY <1>1, StillGrown DEF dbVars
  <2>5. ChannelInv' /\ ChannelKept
    BY <2>1, <2>4, ChannelInvSame DEF FinalInv, OneForkInv
  <2>6. PendingInv' /\ CreationsInv'
    BY <1>1, <2>1, <2>3, <2>4, <2>5, FrontierFacts, PendingSame, CreationsSame DEF FinalInv, OneForkInv
  <2>7. DoneInv'
    BY <1>1, <2>4, DoneSame DEF dbVars
  <2> QED
    BY <2>3, <2>5, <2>6, <2>7 DEF OneForkInv
<1>10. CASE CheckDeep(h)
  <2>1. p.fork = 0
    BY <1>3, <1>5 DEF OneForkInv, PendingInv, Accounted
  <2>2. IsCanonical(h, p.fork)
    BY <1>4, <2>1, OneFork
  <2>3. HandOver(h, p)
    BY <1>5, <1>10, <2>2 DEF CheckDeep
  <2>4. PICK deep : deep = { e \in p.messages : IsDeep(h, e) }
    OBVIOUS
  <2>5. deep \subseteq p.messages /\ p.messages \subseteq Events
    BY <2>4 DEF PendingSet
  <2>6. PICK c \in ConfirmedType : c = Confirmed(h, p, deep, deep = p.messages)
    <3>1. Confirmed(h, p, deep, deep = p.messages) \in ConfirmedType
      BY <1>3, <2>5 DEF Confirmed, ConfirmedType, PendingSet
    <3> QED
      BY <3>1
  <2>7. ~c.reObserved /\ c.height = h /\ c.messages = deep /\ c.finished = (deep = p.messages)
    BY <2>6 DEF Confirmed
  <2>8. Send(c) /\ CheckNext(h)
    BY <2>3, <2>4, <2>6 DEF HandOver
  <2>9. c.messages = { e \in p.messages : IsDeep(h, e) } /\ (c.finished => c.messages = p.messages)
    BY <2>4, <2>7
  <2>10. CASE deep = p.messages
    <3>1. pendings' = Restrict(pendings, DOMAIN pendings \ {h})
      BY <2>3, <2>4, <2>10 DEF HandOver
    <3>2. /\ DOMAIN pendings' = DOMAIN pendings \ {h}
          /\ \A i \in DOMAIN pendings' : pendings'[i] = pendings[i]
      BY <3>1 DEF Restrict
    <3> QED
      BY <1>1, <1>2, <1>5, <2>7, <2>8, <2>9, <2>10, <3>2, SendNoFork
  <2>11. CASE deep # p.messages
    <3>1. PICK q : q = [p EXCEPT !.messages = @ \ deep]
      OBVIOUS
    <3>2. q.fork = p.fork /\ q.messages = p.messages \ deep
      BY <3>1 DEF PendingSet
    <3>3. pendings' = Put(h, q)
      BY <2>3, <2>4, <2>11, <3>1 DEF HandOver
    <3>4. /\ DOMAIN pendings' = DOMAIN pendings /\ pendings'[h] = q
          /\ \A i \in DOMAIN pendings' : i # h => pendings'[i] = pendings[i]
      BY <1>3, <3>3 DEF Put
    <3>5. pendings'[h].fork = p.fork /\ pendings'[h].messages = p.messages \ c.messages
      BY <2>7, <3>2, <3>4
    <3>6. DOMAIN pendings' \subseteq DOMAIN pendings /\ DOMAIN pendings \ {h} \subseteq DOMAIN pendings'
      BY <3>4
    <3>7. h \in DOMAIN pendings'
      BY <1>3, <3>4
    <3>8. ~c.reObserved /\ c.height = h /\ (c.finished => c.messages = p.messages)
      BY <2>7, <2>9
    <3>9. c.messages = { e \in p.messages : IsDeep(h, e) }
      BY <2>9
    <3>10. \A i \in DOMAIN pendings' : i # h => pendings'[i] = pendings[i]
      BY <3>4
    <3> HIDE <1>10, <2>11
    <3> QED
      BY <1>1, <1>2, <1>5, <2>8, <3>5, <3>6, <3>7, <3>8, <3>9, <3>10, SendNoFork, SMTT(30)
  <2> QED
    BY <2>10, <2>11
<1> QED
  BY <1>7, <1>8, <1>9, <1>10

LEMMA RefetchNoFork ==
    ASSUME FinalInv, OneForkInv, Refetch
    PROVE  OneForkInv'
BY DEF Refetch, OneForkInv, WorkInv, Doing

LEMMA EndCheckNoFork ==
    ASSUME FinalInv, OneForkInv, EndCheck
    PROVE  OneForkInv'
<1>1. /\ UNCHANGED <<pendings, current, confirmedC, validatorVars, lastHeight>>
      /\ Doing("check") /\ work' = Nil /\ Grown /\ Tip' = Tip
  BY StillGrown DEF EndCheck, dbVars
<1>2. ChannelInv' /\ ChannelKept
  BY <1>1, ChannelInvSame DEF FinalInv, OneForkInv
<1>3. current # Nil /\ current <= Tip /\ Frontier = current
  BY <1>1, CheckFacts
<1>4. Frontier' = Frontier
  BY <1>1, <1>3 DEF Frontier, Doing
<1>5. PendingInv' /\ CreationsInv'
  BY <1>1, <1>2, <1>4, FrontierFacts, PendingSame, CreationsSame DEF FinalInv, OneForkInv
<1>6. DoneInv'
  BY <1>1, DoneSame
<1>7. CheckedUpTo' /\ WorkInv'
  BY <1>1, <1>3 DEF CheckedUpTo, WorkInv, Doing
<1> QED
  BY <1>2, <1>5, <1>6, <1>7 DEF OneForkInv

\* Steps of the goroutine that serves re-observation requests.
LEMMA RequestNoFork ==
    ASSUME FinalInv, OneForkInv, ChannelInv', ChannelKept,
           UNCHANGED <<chainVars, watchVars, validatorVars, dbVars, published, skipped>>
    PROVE  OneForkInv'
<1>1. /\ UNCHANGED <<pendings, current, work, validatorVars, lastHeight>> /\ Grown /\ Tip' = Tip
  BY StillGrown DEF dbVars, watchVars
<1>2. Frontier' = Frontier
  BY <1>1 DEF Frontier, Doing
<1>3. PendingInv' /\ CreationsInv'
  BY <1>1, <1>2, FrontierFacts, PendingSame, CreationsSame DEF FinalInv, OneForkInv
<1>4. DoneInv'
  BY <1>1, DoneSame
<1>5. CheckedUpTo' /\ WorkInv'
  BY <1>1 DEF OneForkInv, CheckedUpTo, WorkInv, Doing, IsDeep, Confirmations
<1> QED
  BY <1>3, <1>4, <1>5 DEF OneForkInv

LEMMA ReobserveLookUpNoFork ==
    ASSUME FinalInv, OneForkInv, NEW m \in Messages, ReobserveLookUp(m)
    PROVE  OneForkInv'
<1>1. UNCHANGED <<chainVars, watchVars, validatorVars, dbVars, published, skipped, confirmedC>>
  BY DEF ReobserveLookUp
<1>2. ChannelInv' /\ ChannelKept
  BY <1>1, StillGrown, ChannelInvSame DEF FinalInv, OneForkInv, dbVars
<1> QED
  BY <1>1, <1>2, RequestNoFork

LEMMA ReobserveConfirmNoFork ==
    ASSUME FinalInv, OneForkInv, ReobserveConfirm
    PROVE  OneForkInv'
<1>1. UNCHANGED <<chainVars, watchVars, validatorVars, dbVars, published, skipped>>
  BY DEF ReobserveConfirm
<1>2. Grown
  BY <1>1, StillGrown DEF dbVars
<1>3. CASE UNCHANGED confirmedC
  BY <1>1, <1>2, <1>3, ChannelInvSame, RequestNoFork DEF FinalInv, OneForkInv
<1>4. CASE confirmedC' # confirmedC
  <2>1. request \in Request
    BY DEF FinalInv, TypeOK, ReobserveConfirm
  <2>2. PICK c \in ConfirmedType :
          c = [height |-> request.height, fork |-> request.fork,
               messages |-> {request.message}, finished |-> TRUE, reObserved |-> TRUE]
    BY <2>1 DEF Request, ConfirmedType, Events
  <2>3. Send(c) /\ c.reObserved
    BY <1>4, <2>2 DEF ReobserveConfirm
  <2>4. PICK n \in Nat : n = Len(confirmedC) + 1
    BY DEF FinalInv, TypeOK
  <2>5. ConfirmedInv(c, n)'
    BY <2>3 DEF ConfirmedInv
  <2>6. ChannelInv' /\ ChannelKept
    BY <1>2, <2>3, <2>4, <2>5, ChannelInvGrows, SendKept DEF FinalInv, OneForkInv
  <2> QED
    BY <1>1, <2>6, RequestNoFork
<1> QED
  BY <1>3, <1>4

\* The validator takes c: what it does with the events of a block.
Taken(c) ==
    /\ confirmedC # <<>> /\ c = Head(confirmedC)
    /\ confirmedC' = Tail(confirmedC)
    /\ published' = published \cup Publications(c)
    /\ addresses' = addresses \cup (c.messages \cap Creations)
    /\ UNCHANGED <<chainVars, skipped>>

LEMMA TakenFacts ==
    ASSUME FinalInv, OneForkInv, NEW c, Taken(c)
    PROVE  /\ c \in ConfirmedType /\ c.height \in Heights /\ ConfirmedInv(c, 1)
           /\ ~c.reObserved => c.height \in 0 .. Tip
           /\ Grown /\ Tip' = Tip /\ \A h \in 0 .. Tip : At(h)' = At(h)
           /\ Len(confirmedC) \in Nat /\ Len(confirmedC) > 0
           /\ Len(confirmedC') = Len(confirmedC) - 1
           /\ c = confirmedC[1]
           /\ \A i \in 1 .. Len(confirmedC) - 1 : confirmedC'[i] = confirmedC[i + 1]
<1>1. /\ c \in ConfirmedType /\ c = confirmedC[1]
      /\ Len(confirmedC) \in Nat /\ Len(confirmedC) > 0
      /\ Len(confirmedC') = Len(confirmedC) - 1
      /\ \A i \in 1 .. Len(confirmedC) - 1 : confirmedC'[i] = confirmedC[i + 1]
  BY ChannelHead DEF FinalInv, Taken
<1>2. ConfirmedInv(c, 1)
  BY <1>1 DEF OneForkInv, ChannelInv
<1>3. c.height \in Heights
  BY <1>1 DEF ConfirmedType
<1>4. ~c.reObserved => c.height \in 0 .. Tip
  BY <1>2, <1>3, ChainFacts DEF ConfirmedInv, FinalInv
<1>5. Grown /\ Tip' = Tip /\ \A h \in 0 .. Tip : At(h)' = At(h)
  BY StillExtends DEF Grown, Extends, Taken
<1> QED
  BY <1>1, <1>2, <1>3, <1>4, <1>5

\* The events of c have been dealt with: the sender of a transfer is known by now.
LEMMA TakenProcessed ==
    ASSUME FinalInv, OneForkInv, NEW c, Taken(c), ~c.reObserved, NEW e \in c.messages
    PROVE  Processed(e, c.height)'
<1>1. /\ ConfirmedInv(c, 1) /\ c.height \in 0 .. Tip /\ Grown
      /\ c.messages \subseteq Events
  BY TakenFacts DEF ConfirmedType
<1>2. e \in Creations => e \in addresses'
  BY DEF Taken
<1>3. ASSUME e \in Messages, Early(e, c.height)'
      PROVE  IsPublished(e)'
  <2>1. Early(e, c.height)
    BY <1>1, <1>3, EarlyKept DEF FinalInv, Grown
  <2>2. SenderCovered(e, 1 - 1)
    BY <1>1, <1>3, <2>1 DEF ConfirmedInv, SendersFirst
  <2>3. IsKnownSender(e)
    BY <2>2 DEF SenderCovered, InChannel, IsKnownSender
  <2>4. [message |-> e, height |-> c.height, fork |-> c.fork, reObserved |-> c.reObserved]
          \in Publications(c)
    BY <1>3, <2>3 DEF Publications
  <2>5. [message |-> e, height |-> c.height, fork |-> c.fork, reObserved |-> c.reObserved]
          \in published'
    BY <2>4 DEF Taken
  <2> QED
    BY <2>5 DEF IsPublished
<1> QED
  BY <1>2, <1>3 DEF Processed

LEMMA TakenInChannel ==
    ASSUME FinalInv, OneForkInv, NEW c, Taken(c), NEW e, NEW n \in Nat,
           n < Len(confirmedC), InChannel(e, n + 1)
    PROVE  InChannel(e, n)' \/ (~c.reObserved /\ e \in c.messages)
<1>1. PICK j \in 1 .. n + 1 : ~confirmedC[j].reObserved /\ e \in confirmedC[j].messages
  BY DEF InChannel
<1>2. CASE j = 1
  BY <1>1, <1>2, TakenFacts
<1>3. CASE j # 1
  <2>1. j - 1 \in 1 .. n /\ confirmedC'[j - 1] = confirmedC[j]
    BY <1>1, <1>3, TakenFacts
  <2> QED
    BY <1>1, <2>1 DEF InChannel
<1> QED
  BY <1>2, <1>3

\* An event is in one block only, so what c held of the events of a block is that of
\* its own block.
LEMMA TakenCovered ==
    ASSUME FinalInv, OneForkInv, NEW c, Taken(c), NEW h \in 0 .. Tip, NEW e \in At(h).events,
           NEW n \in Nat, n < Len(confirmedC), Covered(e, h, n + 1)
    PROVE  Covered(e, h, n)'
<1>1. CASE Processed(e, h)
  BY <1>1, TakenFacts, ProcessedKept DEF FinalInv, Covered
<1>2. CASE InChannel(e, n)'
  BY <1>2 DEF Covered
<1>3. CASE ~c.reObserved /\ e \in c.messages
  <2>1. c.height \in 0 .. Tip /\ e \in At(c.height).events
    BY <1>3, TakenFacts DEF ConfirmedInv
  <2>2. c.height = h
    BY <2>1 DEF FinalInv, ChainInv
  <2>3. Processed(e, c.height)'
    BY <1>3, TakenProcessed
  <2>4. PICK k : k = c.height
    OBVIOUS
  <2>5. Processed(e, h)'
    BY <2>2, <2>3
  <2> QED
    BY <2>5 DEF Covered
<1> QED
  BY <1>1, <1>2, <1>3, TakenInChannel DEF Covered

LEMMA TakenSent ==
    ASSUME FinalInv, OneForkInv, NEW c, Taken(c), NEW h \in 0 .. Tip, NEW e \in At(h).events,
           Sent(e, h)
    PROVE  Sent(e, h)'
<1>1. PICK n \in Nat : n = Len(confirmedC) - 1 /\ n + 1 = Len(confirmedC)
  BY TakenFacts
<1>2. n = Len(confirmedC')
  BY <1>1, TakenFacts
<1>3. Covered(e, h, n)'
  BY <1>1, TakenCovered DEF Sent
<1> QED
  BY <1>2, <1>3 DEF Sent

LEMMA TakenSender ==
    ASSUME FinalInv, OneForkInv, NEW c, Taken(c), NEW m \in Messages, NEW n \in Nat,
           n < Len(confirmedC), SenderCovered(m, n + 1)
    PROVE  SenderCovered(m, n)'
<1>1. CASE Sender[m] = Nil \/ Sender[m] \in addresses
  BY <1>1 DEF SenderCovered, Taken
<1>2. CASE Sender[m] # Nil /\ InChannel(Sender[m], n + 1)
  <2>1. Sender[m] \in Creations
    BY <1>2, AlephiumAssumption
  <2>2. InChannel(Sender[m], n)' \/ Sender[m] \in c.messages
    BY <1>2, TakenInChannel
  <2> QED
    BY <2>1, <2>2 DEF SenderCovered, Taken
<1> QED
  BY <1>1, <1>2 DEF SenderCovered

LEMMA TakenChannel ==
    ASSUME FinalInv, OneForkInv, NEW c, Taken(c)
    PROVE  ChannelInv'
<1> SUFFICES ASSUME NEW i \in 1 .. Len(confirmedC')
             PROVE  ConfirmedInv(confirmedC[i], i)'
  BY DEF ChannelInv
<1>1. /\ i \in Nat /\ i + 1 \in 1 .. Len(confirmedC) /\ i < Len(confirmedC)
      /\ confirmedC'[i] = confirmedC[i + 1] /\ i - 1 \in Nat /\ (i - 1) + 1 = i
  BY TakenFacts
<1>2. PICK d \in ConfirmedType : d = confirmedC[i + 1] /\ ConfirmedInv(d, i + 1)
  BY <1>1 DEF FinalInv, TypeOK, OneForkInv, ChannelInv
<1>3. ConfirmedInv(d, i)'
  <2> SUFFICES ASSUME ~d.reObserved
               PROVE  /\ d.height <= Tip' /\ d.messages \subseteq At(d.height)'.events
                      /\ FinishedLast(d, i)' /\ SendersFirst(d, i)'
    BY DEF ConfirmedInv
  <2>1. d.height \in 0 .. Tip
    BY <1>2, ChainFacts DEF FinalInv, ConfirmedInv, ConfirmedType
  <2>2. At(d.height)' = At(d.height) /\ Tip' = Tip /\ Grown
    BY <2>1, TakenFacts
  <2>3. FinishedLast(d, i)'
    <3> SUFFICES ASSUME d.finished, NEW e \in At(d.height).events
                 PROVE  Covered(e, d.height, i)'
      BY <2>2 DEF FinishedLast
    <3>1. Covered(e, d.height, i + 1)
      BY <1>2 DEF ConfirmedInv, FinishedLast
    <3> QED
      BY <1>1, <2>1, <3>1, TakenCovered
  <2>4. SendersFirst(d, i)'
    <3> SUFFICES ASSUME NEW m \in d.messages \cap Messages, Early(m, d.height)'
                 PROVE  SenderCovered(m, i - 1)'
      BY DEF SendersFirst
    <3>1. Early(m, d.height)
      BY <2>1, <2>2, EarlyKept DEF FinalInv, Grown
    <3>2. SenderCovered(m, (i + 1) - 1) /\ (i + 1) - 1 = (i - 1) + 1
      BY <1>1, <1>2, <3>1 DEF ConfirmedInv, SendersFirst
    <3> QED
      BY <1>1, <3>2, TakenSender
  <2> QED
    BY <1>2, <2>2, <2>3, <2>4 DEF ConfirmedInv
<1> QED
  BY <1>1, <1>2, <1>3

\* The last event of a finished block is taken: all of them have been dealt with.
LEMMA TakenDone ==
    ASSUME FinalInv, OneForkInv, NEW c, Taken(c), ~c.reObserved, c.finished
    PROVE  Done(c.height)'
<1>1. c.height \in 0 .. Tip /\ ConfirmedInv(c, 1) /\ 0 < Len(confirmedC) /\ Grown
  BY TakenFacts
<1>2. At(c.height)' = At(c.height)
  BY <1>1, TakenFacts
<1>3. ASSUME NEW e \in At(c.height).events PROVE Processed(e, c.height)'
  <2>1. Covered(e, c.height, 0 + 1)
    BY <1>1 DEF ConfirmedInv, FinishedLast
  <2>2. Covered(e, c.height, 0)'
    BY <1>1, <2>1, TakenCovered
  <2> QED
    BY <2>2 DEF Covered, InChannel
<1> QED
  BY <1>2, <1>3 DEF Done, Processed

\* The heights that count as done after c: those that did, and its own.
LEMMA ProcessedHeights ==
    ASSUME FinalInv, OneForkInv, NEW c \in ConfirmedType, c.height <= Tip,
           updateProcessedHeight(c.height, blocks \cup {c.height})
    PROVE  /\ fromHeight' <= Tip + 1 /\ blocks' \subseteq 0 .. Tip
           /\ lastHeight' # Nil => lastHeight' <= Tip
           /\ \A h \in 0 .. Tip : CountsAsDone(h)' => CountsAsDone(h) \/ h = c.height
<1>1. PICK n \in Heights : n = c.height
  BY DEF ConfirmedType
<1>2. PICK t \in Nat : t = Tip
  BY ChainFacts DEF FinalInv
<1>3. /\ n \in 0 .. t /\ n \in Nat /\ fromHeight \in Nat
      /\ fromHeight <= t + 1 /\ blocks \subseteq 0 .. t
      /\ lastHeight # Nil => lastHeight \in Nat /\ lastHeight <= t
  BY <1>1, <1>2, ConstantTypes DEF FinalInv, TypeOK, OneForkInv, DoneInv, Heights
<1>4. updateProcessedHeight(n, blocks \cup {n})
  BY <1>1
<1>5. CASE n < fromHeight /\ fromHeight' = n /\ blocks' = blocks \cup {n} /\ lastHeight' = lastHeight
  <2>1. fromHeight' <= t + 1 /\ blocks' \subseteq 0 .. t /\ (lastHeight' # Nil => lastHeight' <= t)
    BY <1>3, <1>5
  <2>2. \A h \in 0 .. t : CountsAsDone(h)' => CountsAsDone(h) \/ h = n
    BY <1>3, <1>5 DEF CountsAsDone
  <2> QED
    BY <1>1, <1>2, <2>1, <2>2
<1>6. CASE /\ UNCHANGED <<fromHeight, lastHeight>>
           /\ blocks' \subseteq blocks \cup {n}
  BY <1>1, <1>2, <1>3, <1>6 DEF CountsAsDone
<1>7. CASE /\ n >= fromHeight /\ Unfinished(blocks \cup {n}, n) = {}
           /\ blocks' \subseteq blocks \cup {n}
           /\ fromHeight' = n + 1 /\ lastHeight' = Behind(n)
  <2>1. lastHeight' \in Nat /\ lastHeight' <= n
    BY <1>1, <1>3, <1>7, BehindType, ConstantTypes DEF Heights
  <2>2. \A h \in 0 .. n : h < fromHeight \/ h \in blocks \/ h = n
    BY <1>3, <1>7 DEF Unfinished
  <2>3. \A h \in 0 .. t : CountsAsDone(h)' => h <= n \/ h \in blocks \/ h = n
    BY <1>3, <1>7, <2>1 DEF CountsAsDone
  <2>4. \A h \in 0 .. t : CountsAsDone(h)' => CountsAsDone(h) \/ h = n
    BY <1>3, <2>2, <2>3 DEF CountsAsDone
  <2>5. fromHeight' <= t + 1 /\ blocks' \subseteq 0 .. t /\ lastHeight' <= t
    BY <1>3, <1>7, <2>1
  <2> QED
    BY <1>1, <1>2, <2>4, <2>5
<1>8. \A S : (blocks \cup {n}) \ S \subseteq blocks \cup {n}
  OBVIOUS
<1> QED
  BY <1>4, <1>5, <1>6, <1>7, <1>8 DEF updateProcessedHeight

LEMMA ValidateDone ==
    ASSUME FinalInv, OneForkInv, NEW c, Taken(c),
           \/ /\ c.reObserved
              /\ UNCHANGED <<validatorVars, lastHeight>>
           \/ /\ ~c.reObserved /\ ~c.finished
              /\ blocks' = blocks \ {c.height}
              /\ UNCHANGED <<fromHeight, lastHeight>>
           \/ /\ ~c.reObserved /\ c.finished
              /\ updateProcessedHeight(c.height, blocks \cup {c.height})
    PROVE  DoneInv'
<1>1. c \in ConfirmedType /\ Grown /\ Tip' = Tip /\ (~c.reObserved => c.height \in 0 .. Tip)
  BY TakenFacts
<1>2. \A h \in 0 .. Tip : CountsAsDone(h) => Done(h)'
  BY <1>1, DoneKept DEF FinalInv, OneForkInv, DoneInv
<1>3. CASE c.reObserved /\ UNCHANGED <<validatorVars, lastHeight>>
  BY <1>1, <1>3, DoneSame
<1>4. CASE /\ ~c.reObserved /\ ~c.finished
           /\ blocks' = blocks \ {c.height}
           /\ UNCHANGED <<fromHeight, lastHeight>>
  <2>1. \A h : CountsAsDone(h)' => CountsAsDone(h)
    BY <1>4 DEF CountsAsDone
  <2>2. /\ fromHeight' <= Tip + 1 /\ blocks' \subseteq 0 .. Tip
        /\ lastHeight' # Nil => lastHeight' <= Tip
    BY <1>4 DEF OneForkInv, DoneInv
  <2>3. PICK t : t = Tip
    OBVIOUS
  <2>4. Tip' = t
    BY <1>1, <2>3
  <2> QED
    BY <1>2, <2>1, <2>2, <2>3, <2>4 DEF DoneInv
<1>5. CASE /\ ~c.reObserved /\ c.finished
           /\ updateProcessedHeight(c.height, blocks \cup {c.height})
  <2>1. c.height \in 0 .. Tip /\ c.height <= Tip
    BY <1>1, <1>5
  <2>2. /\ fromHeight' <= Tip + 1 /\ blocks' \subseteq 0 .. Tip
        /\ lastHeight' # Nil => lastHeight' <= Tip
        /\ \A h \in 0 .. Tip : CountsAsDone(h)' => CountsAsDone(h) \/ h = c.height
    BY <1>1, <1>5, <2>1, ProcessedHeights
  <2>3. Done(c.height)'
    BY <1>5, TakenDone
  <2>4. \A h \in 0 .. Tip : CountsAsDone(h)' => Done(h)'
    <3> SUFFICES ASSUME NEW h \in 0 .. Tip, CountsAsDone(h)' PROVE Done(h)'
      OBVIOUS
    <3>1. CASE CountsAsDone(h)
      BY <1>2, <3>1
    <3>2. CASE h = c.height
      BY <2>3, <3>2
    <3> QED
      BY <2>2, <3>1, <3>2
  <2>5. PICK t : t = Tip
    OBVIOUS
  <2>6. Tip' = t
    BY <1>1, <2>5
  <2> QED
    BY <2>2, <2>4, <2>5, <2>6 DEF DoneInv
<1> QED
  BY <1>3, <1>4, <1>5

LEMMA ValidateNoFork ==
    ASSUME FinalInv, OneForkInv, Validate
    PROVE  OneForkInv'
<1>1. PICK c : c = Head(confirmedC)
  OBVIOUS
<1>2. Taken(c) /\ UNCHANGED <<watchVars>>
  BY <1>1 DEF Validate, Taken
<1>3. DoneInv'
  BY <1>1, <1>2, ValidateDone DEF Validate
<1>4. ChannelInv'
  BY <1>2, TakenChannel
<1>5. /\ Tip' = Tip /\ Grown /\ \A h \in 0 .. Tip : At(h)' = At(h)
  BY <1>2, TakenFacts
<1>6. UNCHANGED <<pendings, current, work>>
  BY <1>2 DEF watchVars
<1>7. Frontier' = Frontier
  BY <1>6 DEF Frontier, Doing
<1>8. WorkInv' /\ CheckedUpTo'
  BY <1>5, <1>6 DEF OneForkInv, CheckedUpTo, WorkInv, Doing, IsDeep, Confirmations
<1>9. PendingInv'
  <2> SUFFICES ASSUME NEW h \in DOMAIN pendings PROVE h <= Frontier /\ Accounted(h, pendings[h])'
    BY <1>6, <1>7 DEF PendingInv
  <2>1. PICK p : p = pendings[h]
    OBVIOUS
  <2>2. h \in 0 .. Tip /\ h <= Frontier /\ Accounted(h, p)
    BY <2>1, PendingHeights DEF FinalInv, OneForkInv, PendingInv
  <2>3. \A e \in At(h).events \ p.messages : Sent(e, h)'
    BY <1>2, <2>2, TakenSent DEF Accounted
  <2>4. Accounted(h, p)'
    BY <1>5, <2>2, <2>3 DEF Accounted
  <2> QED
    BY <1>6, <2>1, <2>2, <2>4
<1>10. CreationsInv'
  <2> SUFFICES ASSUME current # Nil, NEW h \in 0 .. Tip, h <= Frontier,
                      NEW d \in At(h).events \cap Creations
               PROVE  Sent(d, h)' \/ (h \in DOMAIN pendings /\ d \in pendings[h].messages)
    BY <1>5, <1>6, <1>7 DEF CreationsInv
  <2> QED
    BY <1>2, TakenSent DEF OneForkInv, CreationsInv
<1> QED
  BY <1>3, <1>4, <1>8, <1>9, <1>10 DEF OneForkInv

\* A watcher that goes down keeps what is published and the database.
LEMMA DownNoFork ==
    ASSUME FinalInv, OneForkInv, Down, published \subseteq published'
    PROVE  OneForkInv'
<1>1. /\ current' = Nil /\ pendings' = <<>> /\ work' = Nil /\ confirmedC' = <<>>
      /\ fromHeight' = 0 /\ blocks' = {} /\ lastHeight' = lastHeight
  BY DEF Down, dbVars
<1>2. Grown /\ Tip' = Tip /\ Tip \in Nat
  BY StillExtends, ChainFacts DEF Down, Grown, dbVars, FinalInv
<1>3. WorkInv' /\ PendingInv' /\ CreationsInv' /\ CheckedUpTo' /\ ChannelInv'
  BY <1>1 DEF WorkInv, PendingInv, CreationsInv, CheckedUpTo, ChannelInv, Doing
<1>4. \A h \in 0 .. Tip : CountsAsDone(h)' => CountsAsDone(h)
  BY <1>1, ConstantTypes DEF CountsAsDone, FinalInv, TypeOK
<1>5. \A h \in 0 .. Tip : CountsAsDone(h)' => Done(h)'
  BY <1>2, <1>4, DoneKept DEF FinalInv, OneForkInv, DoneInv
<1>6. PICK t \in Nat : t = Tip
  BY <1>2
<1>7. Tip' = t /\ (lastHeight # Nil => lastHeight <= t)
  BY <1>2, <1>6 DEF OneForkInv, DoneInv
<1>8. DoneInv'
  BY <1>1, <1>5, <1>6, <1>7 DEF DoneInv
<1> QED
  BY <1>3, <1>8 DEF OneForkInv

\* The database of a watcher that starts at height h knows the contracts below h, and
\* the messages of the heights below h are published or jumped over.
LEMMA StartDone ==
    ASSUME FinalInv, OneForkInv, Start
    PROVE  /\ Grown /\ Tip' = Tip
           /\ \E h \in 0 .. Tip : StartFrom(h)
           /\ lastHeight' # Nil => lastHeight' <= Tip
           /\ \A i \in 0 .. Tip : CountsAsDone(i)' => Done(i)'
<1>1. PICK t \in Nat : t = Tip
  BY ChainFacts DEF FinalInv
<1>2. PICK l : l = lastHeight
  OBVIOUS
<1>3. l # Nil => l \in Nat /\ l <= t
  BY <1>1, <1>2, ChainFacts DEF FinalInv, TypeOK, OneForkInv, DoneInv
<1>4. \A i \in 0 .. t : i \in blocks \/ (l # Nil /\ i <= l) => Done(i)
  BY <1>1, <1>2 DEF OneForkInv, DoneInv, CountsAsDone
<1>5. UNCHANGED <<chainVars, blocks, published>>
  BY DEF Start
<1>6. CASE lastHeight = Nil /\ StartFrom(0) /\ UNCHANGED <<dbVars, skipped>>
  <2>1. Grown /\ Tip' = Tip
    BY <1>5, <1>6, StillGrown DEF dbVars
  <2>2. ASSUME NEW i \in 0 .. t, CountsAsDone(i)' PROVE Done(i)
    BY <1>2, <1>4, <1>5, <1>6, <2>2 DEF CountsAsDone, StartFrom, dbVars
  <2>3. \A i \in 0 .. t : CountsAsDone(i)' => Done(i)'
    BY <1>1, <2>1, <2>2, DoneKept DEF FinalInv
  <2> QED
    BY <1>1, <1>6, <2>1, <2>3 DEF dbVars
<1>7. CASE /\ lastHeight # Nil /\ lastHeight <= Tip /\ StartFrom(lastHeight)
           /\ UNCHANGED <<dbVars, skipped>>
  <2>1. Grown /\ Tip' = Tip
    BY <1>5, <1>7, StillGrown DEF dbVars
  <2>2. ASSUME NEW i \in 0 .. t, CountsAsDone(i)' PROVE Done(i)
    BY <1>2, <1>3, <1>4, <1>5, <1>7, <2>2 DEF CountsAsDone, StartFrom, dbVars
  <2>3. \A i \in 0 .. t : CountsAsDone(i)' => Done(i)'
    BY <1>1, <2>1, <2>2, DoneKept DEF FinalInv
  <2>4. l \in 0 .. Tip /\ StartFrom(l)
    BY <1>1, <1>2, <1>3, <1>7
  <2> QED
    BY <1>1, <1>7, <2>1, <2>3, <2>4 DEF dbVars
<1>8. CASE /\ lastHeight # Nil
           /\ lastHeight + MaxForkHeight < Tip
           /\ StartFrom(Tip - MaxForkHeight)
           /\ lastHeight' = Tip - MaxForkHeight - 1
           /\ skipped' = skipped \cup (lastHeight + 1 .. lastHeight')
           /\ addresses' = addresses \cup CreatedBetween(lastHeight + 1, lastHeight')
  <2>1. PICK s \in Nat : s = t - MaxForkHeight /\ s - 1 \in Nat /\ s <= t /\ l < s /\ l \in Nat
    BY <1>1, <1>2, <1>3, <1>8, ConstantTypes
  <2>2. /\ StartFrom(s) /\ lastHeight' = s - 1
        /\ skipped' = skipped \cup (l + 1 .. s - 1)
        /\ addresses' = addresses \cup CreatedBetween(l + 1, s - 1)
    BY <1>1, <1>2, <1>8, <2>1
  <2>3. Grown /\ Tip' = Tip /\ \A i \in 0 .. Tip : At(i)' = At(i)
    BY <1>5, <2>2, StillExtends DEF Grown, Extends
  <2>4. ASSUME NEW i \in 0 .. t, CountsAsDone(i)' PROVE Done(i)'
    <3>1. i < s \/ i \in blocks
      BY <1>5, <2>1, <2>2, <2>4 DEF CountsAsDone, StartFrom
    <3>2. CASE Done(i)
      BY <1>1, <2>3, <3>2, DoneKept DEF FinalInv
    <3>3. CASE ~Done(i)
      <4>1. i \in l + 1 .. s - 1
        BY <1>3, <1>4, <2>1, <3>1, <3>3, NilIsNone
      <4>2. i \in skipped' /\ At(i).events \cap Creations \subseteq addresses'
        BY <2>2, <4>1 DEF CreatedBetween
      <4>3. At(i)' = At(i)
        BY <1>1, <2>3
      <4> QED
        BY <4>2, <4>3 DEF Done
    <3> QED
      BY <3>2, <3>3
  <2>5. s \in 0 .. Tip
    BY <1>1, <2>1
  <2>6. lastHeight' <= Tip
    BY <1>1, <2>1, <2>2
  <2> QED
    BY <1>1, <2>2, <2>3, <2>4, <2>5, <2>6
<1> QED
  BY <1>6, <1>7, <1>8 DEF Start, fetchContractAddresses

LEMMA StartNoFork ==
    ASSUME FinalInv, OneForkInv, fork = 0, Start
    PROVE  OneForkInv'
<1>1. /\ Grown /\ Tip' = Tip /\ (lastHeight' # Nil => lastHeight' <= Tip)
      /\ \A i \in 0 .. Tip : CountsAsDone(i)' => Done(i)'
  BY StartDone
<1>2. PICK h \in 0 .. Tip : StartFrom(h)
  BY StartDone
<1>3. PICK t \in Nat : t = Tip
  BY ChainFacts DEF FinalInv
<1>4. /\ h \in 0 .. t /\ h \in Nat /\ Tip' = t /\ h # Nil
      /\ \A i \in 0 .. t : At(i)' = At(i)
  BY <1>1, <1>2, <1>3, NilIsNone DEF Grown, Extends
<1>5. work' = Nil /\ confirmedC' = <<>> /\ blocks' = blocks /\ current' = h /\ fromHeight' = h
  BY <1>2 DEF Start, StartFrom, FinalInv, TypeOK
<1>6. PICK p : p = PendingAt(h) /\ p.fork = 0 /\ p.messages = At(h).events
  BY OneFork, ChainFacts DEF FinalInv
<1>7. DOMAIN pendings' = {h} /\ pendings'[h] = p
  BY <1>2, <1>6 DEF StartFrom
<1>8. Frontier' = h
  BY <1>5 DEF Frontier, Doing
<1>9. WorkInv' /\ CheckedUpTo' /\ ChannelInv'
  BY <1>4, <1>5 DEF WorkInv, CheckedUpTo, ChannelInv, Doing
<1>10. PendingInv'
  <2>1. Accounted(h, p)'
    BY <1>4, <1>6 DEF Accounted
  <2> QED
    BY <1>4, <1>7, <1>8, <2>1 DEF PendingInv
<1>11. CreationsInv'
  <2> SUFFICES ASSUME NEW i \in 0 .. t, i <= h, NEW c \in At(i).events \cap Creations
               PROVE  Sent(c, i)' \/ (i \in DOMAIN pendings' /\ c \in pendings'[i].messages)
    BY <1>4, <1>5, <1>8 DEF CreationsInv
  <2>1. CASE i = h
    BY <1>6, <1>7, <2>1
  <2>2. CASE i # h
    <3>1. CountsAsDone(i)'
      BY <1>4, <1>5, <2>2 DEF CountsAsDone
    <3>2. c \in addresses'
      BY <1>1, <1>3, <1>4, <3>1 DEF Done
    <3>3. c \notin Messages
      BY ConstantTypes
    <3> QED
      BY <3>2, <3>3 DEF Sent, Covered, Processed
  <2> QED
    BY <2>1, <2>2
<1>12. DoneInv'
  <2>1. blocks' \subseteq 0 .. t /\ fromHeight' <= t + 1 /\ (lastHeight' # Nil => lastHeight' <= t)
    BY <1>1, <1>3, <1>4, <1>5 DEF OneForkInv, DoneInv
  <2> QED
    BY <1>1, <1>3, <1>4, <2>1 DEF DoneInv
<1> QED
  BY <1>9, <1>10, <1>11, <1>12 DEF OneForkInv

LEMMA StutterNoFork ==
    ASSUME FinalInv, OneForkInv, UNCHANGED vars
    PROVE  OneForkInv'
<1>1. /\ UNCHANGED <<chainVars, watchVars, validatorVars, dbVars, published, skipped>>
      /\ UNCHANGED confirmedC
  BY DEF vars
<1>2. ChannelInv' /\ ChannelKept
  BY <1>1, StillGrown, ChannelInvSame DEF FinalInv, OneForkInv, dbVars
<1> QED
  BY <1>1, <1>2, RequestNoFork

\* No step but a fork changes the fork that mines.
LEMMA ForkKept ==
    ASSUME FinalInv, [Next]_vars, fork' = 0
    PROVE  /\ fork = 0
           /\ \A h, k \in 1 .. MaxHeight : \A n \in Tip - 1 .. Tip + 1 : ~Reorg(h, k, n)
<1>1. fork \in Nat
  BY ConstantTypes DEF FinalInv, TypeOK
<1>2. \A h, k \in 1 .. MaxHeight : \A n \in Tip - 1 .. Tip + 1 : ~Reorg(h, k, n)
  BY <1>1 DEF Reorg
<1>3. CASE Mine \/ UNCHANGED chainVars
  BY <1>2, <1>3 DEF Mine, chainVars
<1>4. CASE Next
  BY <1>2, <1>3, <1>4
  DEF Next, Poll, Fetch, Check, Refetch, EndCheck, ReobserveLookUp, ReobserveConfirm, Validate,
      Stop, StopValidating, Fail, Down, Start
<1>5. CASE UNCHANGED vars
  BY <1>3, <1>5 DEF vars
<1> QED
  BY <1>4, <1>5

LEMMA NextNoFork == FinalInv /\ NoForkInv /\ [Next]_vars => NoForkInv'
<1> SUFFICES ASSUME FinalInv, NoForkInv, [Next]_vars, fork' = 0 PROVE OneForkInv'
  BY DEF NoForkInv
<1>1. /\ fork = 0 /\ OneForkInv
      /\ \A h, k \in 1 .. MaxHeight : \A n \in Tip - 1 .. Tip + 1 : ~Reorg(h, k, n)
  BY ForkKept DEF NoForkInv
<1>2. CASE Mine
  BY <1>1, <1>2, MineNoFork
<1>3. CASE Poll
  BY <1>1, <1>3, PollNoFork
<1>4. CASE Fetch
  BY <1>1, <1>4, FetchNoFork
<1>5. CASE Check
  BY <1>1, <1>5, CheckNoFork
<1>6. CASE Refetch
  BY <1>1, <1>6, RefetchNoFork
<1>7. CASE EndCheck
  BY <1>1, <1>7, EndCheckNoFork
<1>8. CASE \E m \in Messages : ReobserveLookUp(m)
  BY <1>1, <1>8, ReobserveLookUpNoFork
<1>9. CASE ReobserveConfirm
  BY <1>1, <1>9, ReobserveConfirmNoFork
<1>10. CASE Validate
  BY <1>1, <1>10, ValidateNoFork
<1>11. CASE Stop \/ StopValidating \/ Fail
  <2>1. Down /\ published \subseteq published'
    BY <1>11 DEF Stop, StopValidating, Fail
  <2> QED
    BY <1>1, <2>1, DownNoFork
<1>12. CASE Start
  BY <1>1, <1>12, StartNoFork
<1>13. CASE UNCHANGED vars
  BY <1>1, <1>13, StutterNoFork
<1> QED
  BY <1>1, <1>2, <1>3, <1>4, <1>5, <1>6, <1>7, <1>8, <1>9, <1>10, <1>11, <1>12, <1>13 DEF Next

LEMMA NoForkCorrect == Spec => []NoForkInv
<1>1. FinalInv /\ NoForkInv /\ [Next]_vars => NoForkInv'
  BY NextNoFork
<1> QED
  BY <1>1, InitNoFork, FinalCorrect, PTL DEF Spec

\* On a chain without forks, over errors, crashes and restarts and with re-observation
\* requests served in between, the height the validator waits for and the height it has
\* stored pass a block only when every message of it has been published, but for those
\* a restart jumped over and transfers in the block that creates their sender
\* (updateProcessedHeight, validator.run).
THEOREM DoneIsPublishedCorrect == Spec => []DoneIsPublished
<1>1. FinalInv /\ NoForkInv => DoneIsPublished
  <2> SUFFICES ASSUME FinalInv, NoForkInv, fork = 0, NEW m \in Messages \cap Mined,
                      HeightOf(m) \notin skipped, CreatedEarlier(m),
                      HeightOf(m) < fromHeight \/ (lastHeight # Nil /\ HeightOf(m) <= lastHeight)
               PROVE  IsPublished(m)
    BY DEF DoneIsPublished
  <2>1. PICK h \in 0 .. Tip : m \in At(h).events
    BY DEF Mined
  <2>2. HeightOf(m) = h /\ Early(m, h)
    BY <2>1, HeightIs, EarlyIs DEF FinalInv
  <2>3. Done(h)
    BY <2>2 DEF NoForkInv, OneForkInv, DoneInv, CountsAsDone
  <2> QED
    BY <2>1, <2>2, <2>3 DEF Done
<1> QED
  BY <1>1, FinalCorrect, NoForkCorrect, PTL

\* On a chain without forks the database holds every contract created up to the height
\* that is stored with it, over restarts that jump over blocks and fetch the contracts
\* created in them (fetchContractAddresses).
THEOREM ContractsAreKnownCorrect == Spec => []ContractsAreKnown
<1>1. FinalInv /\ NoForkInv => ContractsAreKnown
  <2> SUFFICES ASSUME FinalInv, NoForkInv, fork = 0, lastHeight # Nil,
                      NEW c \in Creations \cap Mined, HeightOf(c) <= lastHeight
               PROVE  c \in addresses
    BY DEF ContractsAreKnown
  <2>1. PICK h \in 0 .. Tip : c \in At(h).events
    BY DEF Mined
  <2>2. HeightOf(c) = h
    BY <2>1, HeightIs DEF FinalInv
  <2>3. Done(h)
    BY <2>2 DEF NoForkInv, OneForkInv, DoneInv, CountsAsDone
  <2> QED
    BY <2>1, <2>3 DEF Done
<1> QED
  BY <1>1, FinalCorrect, NoForkCorrect, PTL
=============================================================================
