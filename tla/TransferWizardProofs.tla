-------------------------- MODULE TransferWizardProofs --------------------------
(***************************************************************************)
(* Proofs about the transfer wizard, for all chains, links and bounds.     *)
(***************************************************************************)
EXTENDS TransferWizard, TLAPS

(***************************************************************************)
(* The reducers                                                            *)
(***************************************************************************)

State == TransferState(VAAs)

\* A slice of its type, whose chains differ.
Good(s) == s \in State /\ s.sourceChain # s.targetChain

\* s and t agree on the VAA and the locks.
SameLocks(s, t) ==
    /\ s.signedVAA = t.signedVAA
    /\ s.isSending = t.isSending
    /\ s.isRedeeming = t.isRedeeming
    /\ s.redeemTx = t.redeemTx
    /\ s.isRecovery = t.isRecovery

\* s and t agree on the step, the chains and the token.
SameForm(s, t) ==
    /\ s.activeStep = t.activeStep
    /\ s.sourceChain = t.sourceChain
    /\ s.account = t.account
    /\ s.origin = t.origin
    /\ s.targetChain = t.targetChain

LEMMA InitialGood == Good(initialState)
BY ConstantsAssumption DEF Good, State, TransferState, initialState, AssetStates, EmptyWrapper

\* Two different chains are set.
LEMMA ChainsSet ==
    ASSUME NEW s \in State, NEW c \in Chains, NEW d \in Chains, c # d
    PROVE  Good([s EXCEPT !.sourceChain = c, !.targetChain = d])
<1> DEFINE u == [s EXCEPT !.sourceChain = c]
<1>1. u \in State /\ u.sourceChain = c
  BY DEF State, TransferState
<1>2. [s EXCEPT !.sourceChain = c, !.targetChain = d] = [u EXCEPT !.targetChain = d]
  OBVIOUS
<1> HIDE DEF u
<1>3. [u EXCEPT !.targetChain = d] \in State
  BY <1>1 DEF State, TransferState
<1> QED
  BY <1>1, <1>2, <1>3 DEF Good, State, TransferState

LEMMA StepGood ==
    ASSUME NEW s, Good(s), NEW n \in 0 .. 3
    PROVE  Good(setStep(s, n)) /\ Good(incrementStep(s))
BY DEF Good, State, TransferState, setStep, incrementStep

\* Clearing the target or the token leaves the other fields alone.
LEMMA TargetCleared ==
    ASSUME NEW s \in State
    PROVE  /\ ClearTarget(s) \in State
           /\ SameLocks(ClearTarget(s), s) /\ SameForm(ClearTarget(s), s)
           /\ ClearTarget(s).targetAsset = "empty" /\ ClearTarget(s).targetAddress = Nil
<1>1. ClearTarget(s) \in State
  BY DEF State, TransferState, ClearTarget, AssetStates, EmptyWrapper
<1>2. SameLocks(ClearTarget(s), s) /\ SameForm(ClearTarget(s), s)
  BY DEF State, TransferState, ClearTarget, SameLocks, SameForm
<1> QED
  BY <1>1, <1>2 DEF State, TransferState, ClearTarget, EmptyWrapper

LEMMA TokenCleared ==
    ASSUME NEW s \in State
    PROVE  /\ ClearToken(s) \in State /\ SameLocks(ClearToken(s), s)
           /\ ClearToken(s).account = Nil /\ ClearToken(s).origin = Nil
           /\ ClearToken(s).activeStep = s.activeStep
           /\ ClearToken(s).sourceChain = s.sourceChain
           /\ ClearToken(s).targetChain = s.targetChain
           /\ ClearToken(s).targetAsset = s.targetAsset
           /\ ClearToken(s).targetAddress = s.targetAddress
<1>1. ClearToken(s) \in State
  BY DEF State, TransferState, ClearToken
<1>2. SameLocks(ClearToken(s), s)
  BY DEF State, TransferState, ClearToken, SameLocks
<1> QED
  BY <1>1, <1>2 DEF State, TransferState, ClearToken

LEMMA SourceChainMoves ==
    ASSUME NEW s, Good(s), NEW c \in Chains
    PROVE  LET t == setSourceChain(s, c)
           IN  /\ Good(t) /\ SameLocks(t, s) /\ t.activeStep = s.activeStep
               /\ t.account = Nil /\ t.origin = Nil
               /\ t.targetAsset = "empty" /\ t.targetAddress = Nil
<1> DEFINE u == ClearToken(ClearTarget(s))
           d == IF u.targetChain = c THEN s.sourceChain ELSE u.targetChain
<1>1. /\ u \in State /\ SameLocks(u, s) /\ u.activeStep = s.activeStep
      /\ u.account = Nil /\ u.origin = Nil /\ u.targetAsset = "empty"
      /\ u.targetAddress = Nil /\ u.sourceChain = s.sourceChain
      /\ u.targetChain = s.targetChain
  BY TargetCleared, TokenCleared DEF Good, SameLocks, SameForm
<1>2. setSourceChain(s, c) = [u EXCEPT !.sourceChain = c, !.targetChain = d]
  BY DEF setSourceChain
<1>3. d \in Chains /\ d # c
  BY <1>1 DEF Good, State, TransferState
<1> HIDE DEF u, d
<1>4. Good(setSourceChain(s, c))
  <2>1. Good([u EXCEPT !.sourceChain = c, !.targetChain = d])
    BY <1>1, <1>3, ChainsSet
  <2> QED
    BY <1>2, <2>1
<1>5. SameLocks(setSourceChain(s, c), u)
  BY <1>1, <1>2 DEF State, TransferState, SameLocks
<1> QED
  BY <1>1, <1>2, <1>4, <1>5 DEF State, TransferState, SameLocks

LEMMA TargetChainMoves ==
    ASSUME NEW s, Good(s), NEW c \in Chains
    PROVE  LET t == setTargetChain(s, c)
           IN  /\ Good(t) /\ SameLocks(t, s) /\ t.targetChain = c
               /\ t.targetAsset = "empty" /\ t.targetAddress = Nil
               /\ \/ t.account = Nil /\ t.origin = Nil
                  \/ /\ t.account = s.account /\ t.origin = s.origin
                     /\ t.sourceChain = s.sourceChain
                     /\ t.activeStep = s.activeStep
<1> DEFINE u == ClearTarget(s)
           v == [u EXCEPT !.targetChain = c]
           w == ClearToken(v)
<1>1. /\ u \in State /\ SameLocks(u, s) /\ SameForm(u, s)
      /\ u.targetAsset = "empty" /\ u.targetAddress = Nil
  BY TargetCleared DEF Good
<1> HIDE DEF u
<1>2. /\ v \in State /\ SameLocks(v, u) /\ v.targetChain = c
      /\ v.activeStep = u.activeStep /\ v.sourceChain = u.sourceChain
      /\ v.account = u.account /\ v.origin = u.origin
      /\ v.targetAsset = "empty" /\ v.targetAddress = Nil
  BY <1>1 DEF State, TransferState, SameLocks
<1> HIDE DEF v
<1>3. CASE s.sourceChain # c
  <2>1. setTargetChain(s, c) = v
    BY <1>3 DEF setTargetChain, u, v
  <2> QED
    BY <1>1, <1>2, <1>3, <2>1 DEF Good, SameLocks, SameForm
<1>4. CASE s.sourceChain = c
  <2>1. /\ w \in State /\ SameLocks(w, v) /\ w.account = Nil /\ w.origin = Nil
        /\ w.targetChain = c /\ w.targetAsset = "empty" /\ w.targetAddress = Nil
    BY <1>2, TokenCleared
  <2>2. setTargetChain(s, c) = [w EXCEPT !.sourceChain = s.targetChain, !.activeStep = 0]
    BY <1>4 DEF setTargetChain, u, v, w
  <2>3. s.targetChain \in Chains /\ s.targetChain # c
    BY <1>4 DEF Good, State, TransferState
  <2> HIDE DEF w
  <2>4. Good(setTargetChain(s, c))
    <3> DEFINE z == [w EXCEPT !.sourceChain = s.targetChain]
    <3>1. z \in State /\ z.sourceChain = s.targetChain /\ z.targetChain = c
      BY <2>1, <2>3 DEF State, TransferState
    <3>2. setTargetChain(s, c) = setStep(z, 0)
      BY <2>2 DEF setStep
    <3> HIDE DEF z
    <3> QED
      BY <2>3, <3>1, <3>2, StepGood DEF Good
  <2>5. SameLocks(setTargetChain(s, c), w)
    BY <2>1, <2>2 DEF State, TransferState, SameLocks
  <2>6. SameLocks(setTargetChain(s, c), s)
    BY <1>1, <1>2, <2>1, <2>5 DEF SameLocks
  <2> QED
    BY <2>1, <2>2, <2>4, <2>6 DEF State, TransferState
<1> QED
  BY <1>3, <1>4

LEMMA OriginGood ==
    ASSUME NEW s, Good(s), NEW o \in Origins
    PROVE  Good(setSourceWormholeWrappedInfo(s, o))
BY DEF Good, State, TransferState, setSourceWormholeWrappedInfo

LEMMA AccountGood ==
    ASSUME NEW s, Good(s), NEW a \in Chains \cup {Nil}
    PROVE  Good(setSourceParsedTokenAccount(s, a))
BY DEF Good, State, TransferState, setSourceParsedTokenAccount, ClearTarget, AssetStates,
       EmptyWrapper

LEMMA AddressGood ==
    ASSUME NEW s, Good(s), NEW a \in {"evm", "solana", "terra", Nil}
    PROVE  Good(setTargetAddressHex(s, a))
BY DEF Good, State, TransferState, setTargetAddressHex

LEMMA AssetGood ==
    ASSUME NEW s, Good(s), NEW a \in AssetStates \cup Chains
    PROVE  Good(setTargetAsset(s, a))
BY DEF Good, State, TransferState, setTargetAsset

LEMMA LocksGood ==
    ASSUME NEW s, Good(s), NEW v \in VAAs, NEW b \in BOOLEAN
    PROVE  /\ Good(setSignedVAAHex(s, v)) /\ Good(setIsSending(s, b))
           /\ Good(setIsRedeeming(s, b)) /\ Good(setRedeemTx(s))
<1>1. Good(setSignedVAAHex(s, v))
  <2> DEFINE u == [s EXCEPT !.signedVAA = v]
             w == [u EXCEPT !.isSending = FALSE]
  <2>1. Good(u)
    BY DEF Good, State, TransferState
  <2>2. Good(w)
    <3> HIDE DEF u
    <3> QED BY <2>1 DEF Good, State, TransferState
  <2>3. setSignedVAAHex(s, v) = setStep(w, 3)
    BY DEF setSignedVAAHex, setStep
  <2> HIDE DEF w
  <2> QED
    BY <2>2, <2>3, StepGood
<1>2. Good(setIsSending(s, b))
  BY DEF Good, State, TransferState, setIsSending
<1>3. Good(setIsRedeeming(s, b))
  BY DEF Good, State, TransferState, setIsRedeeming
<1>4. Good(setRedeemTx(s))
  BY DEF Good, State, TransferState, setRedeemTx
<1> QED
  BY <1>1, <1>2, <1>3, <1>4

\* A reset keeps the chains.
LEMMA ResetMoves ==
    ASSUME NEW s, Good(s)
    PROVE  /\ Good(reset(s)) /\ reset(s).account = Nil /\ reset(s).origin = Nil
           /\ reset(s).activeStep = 0 /\ reset(s).targetAsset = "empty"
           /\ reset(s).signedVAA = Nil /\ ~reset(s).isSending /\ ~reset(s).redeemTx
<1> DEFINE u == [initialState EXCEPT !.sourceChain = s.sourceChain,
                                     !.targetChain = s.targetChain]
<1>1. reset(s) = u
  BY DEF reset
<1>2. initialState \in State /\ s.sourceChain \in Chains /\ s.targetChain \in Chains
  BY InitialGood DEF Good, State, TransferState
<1>3. Good(u)
  BY <1>2, ChainsSet DEF Good
<1>4. /\ u.account = Nil /\ u.origin = Nil /\ u.activeStep = 0
      /\ u.targetAsset = "empty" /\ u.signedVAA = Nil /\ ~u.isSending /\ ~u.redeemTx
  BY DEF initialState, EmptyWrapper
<1> QED
  BY <1>1, <1>3, <1>4

\* A recovery takes the chain of the VAA and drops the token.
LEMMA RecoveryMoves ==
    ASSUME NEW s, Good(s), NEW v \in VAAs, NEW c \in Chains
    PROVE  LET t == setRecoveryVaa(s, v, c)
           IN  /\ Good(t) /\ t.account = Nil /\ t.origin # Nil
               /\ t.origin.isWrapped = Nil /\ t.activeStep = 3
               /\ t.targetAsset = "empty" /\ t.signedVAA = v /\ t.targetChain = c
               /\ t.isRecovery /\ t.isSending = s.isSending
<1> DEFINE u == ClearToken(s)
           d == IF u.sourceChain = c THEN s.targetChain ELSE u.sourceChain
           o == [isWrapped |-> Nil, chain |-> Home, isToken |-> TRUE]
           t == [u EXCEPT !.signedVAA = v, !.targetChain = c, !.sourceChain = d,
                          !.targetAsset = "empty", !.targetAddress = Kind[c],
                          !.origin = o, !.activeStep = 3, !.isRecovery = TRUE]
<1>1. /\ u \in State /\ SameLocks(u, s) /\ u.account = Nil
      /\ u.sourceChain = s.sourceChain /\ u.targetChain = s.targetChain
  BY TokenCleared DEF Good
<1>2. d \in Chains /\ d # c /\ Kind[c] \in {"evm", "solana", "terra"}
  BY <1>1, ConstantsAssumption DEF Good, State, TransferState
<1>3. o \in Origins /\ o # Nil /\ o.isWrapped = Nil
  <2>1. o \in Origins
    BY ConstantsAssumption DEF Origins
  <2> QED
    BY <2>1, NilAssumption
<1>4. setRecoveryVaa(s, v, c) = t
  BY DEF setRecoveryVaa, EmptyWrapper
<1> HIDE DEF u, d, o
<1>5. t.account = Nil /\ t.origin = o /\ t.activeStep = 3 /\ t.targetAsset = "empty"
  BY <1>1 DEF State, TransferState
<1>6. /\ t.signedVAA = v /\ t.targetChain = c /\ t.isRecovery
      /\ t.isSending = s.isSending /\ t.sourceChain = d
  BY <1>1 DEF State, TransferState, SameLocks
<1>7. t \in State
  <2> DEFINE t1 == [u EXCEPT !.signedVAA = v]
             t2 == [t1 EXCEPT !.targetChain = c]
             t3 == [t2 EXCEPT !.sourceChain = d]
             t4 == [t3 EXCEPT !.targetAsset = "empty"]
             t5 == [t4 EXCEPT !.targetAddress = Kind[c]]
             t6 == [t5 EXCEPT !.origin = o]
             t7 == [t6 EXCEPT !.activeStep = 3]
             t8 == [t7 EXCEPT !.isRecovery = TRUE]
  <2>0. t = t8
    OBVIOUS
  <2>a. "empty" \in AssetStates
    BY DEF AssetStates
  <2> HIDE DEF t
  <2>1. t1 \in State
    BY <1>1 DEF State, TransferState
  <2> HIDE DEF t1
  <2>2. t2 \in State
    BY <2>1 DEF State, TransferState
  <2> HIDE DEF t2
  <2>3. t3 \in State
    BY <1>2, <2>2 DEF State, TransferState
  <2> HIDE DEF t3
  <2>4. t4 \in State
    BY <2>3, <2>a DEF State, TransferState
  <2> HIDE DEF t4
  <2>5. t5 \in State
    BY <1>2, <2>4 DEF State, TransferState
  <2> HIDE DEF t5
  <2>6. t6 \in State
    BY <1>3, <2>5 DEF State, TransferState
  <2> HIDE DEF t6
  <2>7. t7 \in State
    BY <2>6 DEF State, TransferState
  <2> HIDE DEF t7
  <2>8. t8 \in State
    BY <2>7 DEF State, TransferState
  <2> QED
    BY <2>0, <2>8
<1> HIDE DEF t
<1> QED
  BY <1>2, <1>3, <1>4, <1>5, <1>6, <1>7 DEF Good

-----------------------------------------------------------------------------
(***************************************************************************)
(* What the effects do to the store                                        *)
(***************************************************************************)

\* The path params leave the slice alone, or clear the target, and the token
\* too where they change the source chain.
LEMMA PathMoves ==
    ASSUME NEW s, Good(s), NEW link \in Links \cup {Nil}
    PROVE  LET t == initFromPath(link, s)
           IN  /\ Good(t) /\ SameLocks(t, s)
               /\ link = Nil => t = s
               /\ \/ t = s
                  \/ /\ t.targetAddress = Nil /\ t.targetAsset = "empty"
                     /\ \/ t.account = Nil /\ t.origin = Nil
                        \/ /\ t.account = s.account /\ t.origin = s.origin
                           /\ t.sourceChain = s.sourceChain
                           /\ t.activeStep = s.activeStep
<1> DEFINE t == IF link.source = Nil THEN s ELSE setSourceChain(s, link.source)
           u == IF link.target = Nil THEN t ELSE setTargetChain(t, link.target)
<1>1. CASE link = Nil \/ link.source = link.target
  BY <1>1 DEF initFromPath, SameLocks
<1>2. CASE link # Nil /\ link.source # link.target
  <2>1. link.source \in Chains \cup {Nil} /\ link.target \in Chains \cup {Nil}
    BY <1>2, ConstantsAssumption
  <2>2. initFromPath(link, s) = u
    BY <1>2 DEF initFromPath
  <2>3. /\ Good(t) /\ SameLocks(t, s)
        /\ \/ t = s
           \/ t.targetAddress = Nil /\ t.targetAsset = "empty" /\ t.account = Nil /\ t.origin = Nil
    BY <2>1, SourceChainMoves DEF SameLocks
  <2> HIDE DEF t
  <2>4. \/ u = t
        \/ /\ Good(u) /\ SameLocks(u, t)
           /\ u.targetAddress = Nil /\ u.targetAsset = "empty"
           /\ \/ u.account = Nil /\ u.origin = Nil
              \/ /\ u.account = t.account /\ u.origin = t.origin
                 /\ u.sourceChain = t.sourceChain
                 /\ u.activeStep = t.activeStep
    BY <2>1, <2>3, TargetChainMoves
  <2> HIDE DEF u
  <2> QED
    BY <1>2, <2>2, <2>3, <2>4 DEF SameLocks
<1> QED
  BY <1>1, <1>2

\* What the synchronised address and the look-up of the asset make of s.
Kept(t, s, r, f) ==
    /\ SameForm(t, s)
    /\ \/ t.targetAddress = s.targetAddress /\ ~(SyncsAddress(r, f) /\ ~DerivesAddress(r))
       \/ t.targetAddress \in {Nil, Kind[r.targetChain]} /\ SyncsAddress(r, f)
    /\ \/ t.targetAsset \in {s.targetAsset, "fetching"}
       \/ t.targetAsset = r.targetChain /\ GoesHome(r)

\* What the path params make of s, when they change it.
Cleared(t, s) ==
    /\ t.targetAddress = Nil /\ t.targetAsset = "empty"
    /\ \/ t.account = Nil /\ t.origin = Nil
       \/ /\ t.account = s.account /\ t.origin = s.origin
          /\ t.sourceChain = s.sourceChain
          /\ t.activeStep = s.activeStep

LEMMA SyncMoves ==
    ASSUME NEW r, Good(r), NEW s, Good(s), NEW f
    PROVE  LET t == useSyncTargetAddress(r, f, s)
           IN  /\ Good(t) /\ SameLocks(t, s) /\ SameForm(t, s)
               /\ t.targetAsset = s.targetAsset
               /\ \/ /\ t.targetAddress = s.targetAddress
                     /\ ~(SyncsAddress(r, f) /\ ~DerivesAddress(r))
                  \/ /\ t.targetAddress \in {Nil, Kind[r.targetChain]}
                     /\ SyncsAddress(r, f)
<1> DEFINE a == IF Kind[r.targetChain] = "solana" THEN Nil ELSE Kind[r.targetChain]
<1>1. a \in {Nil, Kind[r.targetChain]} /\ a \in {"evm", "solana", "terra", Nil}
  BY ConstantsAssumption DEF Good, State, TransferState
<1>2. CASE SyncsAddress(r, f) /\ ~DerivesAddress(r)
  <2>1. useSyncTargetAddress(r, f, s) = setTargetAddressHex(s, a)
    BY <1>2 DEF useSyncTargetAddress
  <2> HIDE DEF a
  <2>2. Good(setTargetAddressHex(s, a))
    BY <1>1, AddressGood
  <2>3. /\ SameLocks(setTargetAddressHex(s, a), s) /\ SameForm(setTargetAddressHex(s, a), s)
        /\ setTargetAddressHex(s, a).targetAsset = s.targetAsset
        /\ setTargetAddressHex(s, a).targetAddress = a
    BY DEF setTargetAddressHex, SameLocks, SameForm, Good, State, TransferState
  <2> QED
    BY <1>1, <1>2, <2>1, <2>2, <2>3
<1>3. CASE ~(SyncsAddress(r, f) /\ ~DerivesAddress(r))
  BY <1>3 DEF useSyncTargetAddress, SameLocks, SameForm
<1> QED
  BY <1>2, <1>3

\* Setting the target asset leaves the other fields alone.
LEMMA AssetSet ==
    ASSUME NEW s, Good(s), NEW a \in AssetStates \cup Chains
    PROVE  LET t == setTargetAsset(s, a)
           IN  /\ Good(t) /\ SameLocks(t, s) /\ SameForm(t, s)
               /\ t.targetAddress = s.targetAddress /\ t.targetAsset = a
<1>1. Good(setTargetAsset(s, a))
  BY AssetGood
<1> QED
  BY <1>1 DEF setTargetAsset, SameLocks, SameForm, Good, State, TransferState

LEMMA AssetMoves ==
    ASSUME NEW r, Good(r), NEW s, Good(s), NEW f
    PROVE  LET t == useFetchTargetAsset(r, f, s)
           IN  /\ Good(t) /\ SameLocks(t, s) /\ SameForm(t, s)
               /\ t.targetAddress = s.targetAddress
               /\ \/ t.targetAsset \in {s.targetAsset, "fetching"}
                  \/ t.targetAsset = r.targetChain /\ GoesHome(r)
<1>1. CASE SearchesAsset(r, f) /\ GoesHome(r)
  <2>1. useFetchTargetAsset(r, f, s) = setTargetAsset(s, r.targetChain)
    BY <1>1 DEF useFetchTargetAsset
  <2>2. r.targetChain \in Chains
    BY DEF Good, State, TransferState
  <2> QED
    BY <1>1, <2>1, <2>2, AssetSet
<1>2. CASE SearchesAsset(r, f) /\ ~GoesHome(r) /\ FetchesAsset(r)
  <2>1. useFetchTargetAsset(r, f, s) = setTargetAsset(s, "fetching")
    BY <1>2 DEF useFetchTargetAsset
  <2>2. "fetching" \in AssetStates
    BY DEF AssetStates
  <2> QED
    BY <2>1, <2>2, AssetSet
<1>3. CASE ~(SearchesAsset(r, f) /\ (GoesHome(r) \/ FetchesAsset(r)))
  <2>1. useFetchTargetAsset(r, f, s) = s
    BY <1>3 DEF useFetchTargetAsset
  <2> QED
    BY <2>1 DEF SameLocks, SameForm
<1> QED
  BY <1>1, <1>2, <1>3

LEMMA RunStore ==
    ASSUME NEW r, Good(r), NEW s, Good(s), NEW f, f.path \in Links \cup {Nil}
    PROVE  LET t == RunEffects(r, s, f).st
           IN  /\ Good(t) /\ SameLocks(t, s)
               /\ Kept(t, s, r, f) \/ (f.path # Nil /\ Cleared(t, s))
<1> DEFINE u == useSyncTargetAddress(r, f, s)
           v == useFetchTargetAsset(r, f, u)
           w == initFromPath(f.path, v)
<1>1. RunEffects(r, s, f).st = w
  BY DEF RunEffects
<1>2. /\ Good(u) /\ SameLocks(u, s) /\ SameForm(u, s)
      /\ u.targetAsset = s.targetAsset
      /\ \/ u.targetAddress = s.targetAddress /\ ~(SyncsAddress(r, f) /\ ~DerivesAddress(r))
         \/ u.targetAddress \in {Nil, Kind[r.targetChain]} /\ SyncsAddress(r, f)
  BY SyncMoves
<1> HIDE DEF u
<1>3. /\ Good(v) /\ SameLocks(v, u) /\ SameForm(v, u)
      /\ v.targetAddress = u.targetAddress
      /\ \/ v.targetAsset \in {u.targetAsset, "fetching"}
         \/ v.targetAsset = r.targetChain /\ GoesHome(r)
  BY <1>2, AssetMoves
<1> HIDE DEF v
<1>4. /\ Good(w) /\ SameLocks(w, v)
      /\ f.path = Nil => w = v
      /\ w = v \/ Cleared(w, v)
  BY <1>3, PathMoves DEF Cleared
<1> HIDE DEF w
<1>5. SameLocks(w, s) /\ SameForm(v, s)
  BY <1>2, <1>3, <1>4 DEF SameLocks, SameForm
<1>6. Kept(v, s, r, f)
  BY <1>2, <1>3, <1>5 DEF Kept
<1>7. Cleared(w, v) => Cleared(w, s)
  BY <1>5 DEF Cleared, SameForm
<1> QED
  BY <1>1, <1>4, <1>5, <1>6, <1>7

-----------------------------------------------------------------------------
(***************************************************************************)
(* What the effects do to themselves                                       *)
(***************************************************************************)

AddressFx ==
    [on : (BOOLEAN \X Chains \X (Chains \cup {Nil})) \cup {Nil}, busy : BOOLEAN]

DoneFx ==
    [on : (BOOLEAN \X Chains \X {"evm", "solana", "terra", Nil} \X (VAAs \cup {Nil})
             \X BOOLEAN \X BOOLEAN) \cup {Nil},
     busy : BOOLEAN, loading : BOOLEAN, completed : BOOLEAN]

WrappedFx ==
    [on : (BOOLEAN \X Chains \X (Chains \cup {Nil})) \cup {Nil}, busy : BOOLEAN]

AssetQuestions == (Origins \cup {Nil}) \X Chains

AssetFx ==
    [on : (AssetQuestions \X BOOLEAN \X BOOLEAN) \cup {Nil}, busy : BOOLEAN,
     last : AssetQuestions \cup {Nil}]

Fx == [address : AddressFx, done : DoneFx, wrapped : WrappedFx, asset : AssetFx,
       path : Links \cup {Nil}]

\* An effect that awaits an answer has asked a question: the address effect
\* that of a derivation on a Solana chain, while nothing was locked.
AddressOK(e) ==
    /\ e \in AddressFx
    /\ e.busy => /\ e.on # Nil /\ e.on[1] = FALSE
                  /\ Kind[e.on[2]] = "solana" /\ e.on[3] # Nil

WrappedOK(e) == e \in WrappedFx /\ (e.busy => e.on \in BOOLEAN \X Chains \X Chains)

AssetOK(e) == e \in AssetFx /\ (e.busy => e.on # Nil /\ e.on[1][1] # Nil)

FxOK(f) ==
    /\ f \in Fx
    /\ AddressOK(f.address) /\ WrappedOK(f.wrapped) /\ AssetOK(f.asset)

LEMMA IdleOK == FxOK(Idle) /\ (\A link \in Links \cup {Nil} : FxOK([Idle EXCEPT !.path = link]))
<1>1. /\ AddressOK([on |-> Nil, busy |-> FALSE]) /\ WrappedOK([on |-> Nil, busy |-> FALSE])
      /\ AssetOK([on |-> Nil, busy |-> FALSE, last |-> Nil])
      /\ [on |-> Nil, busy |-> FALSE, loading |-> FALSE, completed |-> FALSE] \in DoneFx
  BY DEF AddressOK, WrappedOK, AssetOK, AddressFx, WrappedFx, AssetFx, DoneFx
<1>2. /\ Idle.address = [on |-> Nil, busy |-> FALSE]
      /\ Idle.wrapped = [on |-> Nil, busy |-> FALSE]
      /\ Idle.asset = [on |-> Nil, busy |-> FALSE, last |-> Nil]
  BY DEF Idle
<1>3. Idle \in Fx
  BY <1>1 DEF Idle, Fx, AddressOK, WrappedOK, AssetOK
<1>4. ASSUME NEW link \in Links \cup {Nil} PROVE FxOK([Idle EXCEPT !.path = link])
  <2> DEFINE f == [Idle EXCEPT !.path = link]
  <2>1. /\ f.address = Idle.address /\ f.wrapped = Idle.wrapped /\ f.asset = Idle.asset
        /\ f \in Fx
    BY <1>3 DEF Fx
  <2> QED
    BY <1>1, <1>2, <2>1 DEF FxOK
<1> QED
  BY <1>1, <1>2, <1>3, <1>4 DEF FxOK

LEMMA AddressRuns ==
    ASSUME NEW r, Good(r), NEW f, AddressOK(f.address)
    PROVE  AddressOK(AddressEffect(r, f))
<1>1. CASE AddressOn(r) = f.address.on
  BY <1>1 DEF AddressEffect
<1>2. CASE AddressOn(r) # f.address.on
  <2> DEFINE b == SyncsAddress(r, f) /\ DerivesAddress(r)
  <2>1. AddressEffect(r, f) = [on |-> AddressOn(r), busy |-> b]
    BY <1>2 DEF AddressEffect
  <2>2. /\ ShouldLockFields(r) \in BOOLEAN /\ r.targetChain \in Chains
        /\ TargetAsset(r) \in Chains \cup {Nil}
    BY DEF Good, State, TransferState, ShouldLockFields, TargetAsset
  <2>3. AddressOn(r) \in (BOOLEAN \X Chains \X (Chains \cup {Nil})) \cup {Nil}
    BY <2>2 DEF AddressOn
  <2>4. ASSUME b
        PROVE  /\ AddressOn(r) # Nil /\ AddressOn(r)[1] = FALSE
               /\ Kind[AddressOn(r)[2]] = "solana" /\ AddressOn(r)[3] # Nil
    <3>1. /\ AddressOn(r) # Nil /\ ~ShouldLockFields(r)
          /\ Kind[r.targetChain] = "solana" /\ TargetAsset(r) # Nil
      BY <2>4 DEF SyncsAddress, DerivesAddress
    <3>2. AddressOn(r) = <<ShouldLockFields(r), r.targetChain, TargetAsset(r)>>
      BY <3>1 DEF AddressOn
    <3> QED
      BY <2>2, <3>1, <3>2
  <2>5. b \in BOOLEAN
    BY DEF SyncsAddress, DerivesAddress
  <2> DEFINE on == AddressOn(r)
             e == [on |-> on, busy |-> b]
  <2> HIDE DEF b, on
  <2>6. e \in AddressFx /\ e.on = on /\ e.busy = b
    BY <2>3, <2>5 DEF AddressFx, on
  <2>7. AddressEffect(r, f) = e
    BY <2>1 DEF on
  <2> HIDE DEF e
  <2> QED
    BY <2>4, <2>6, <2>7 DEF AddressOK, on
<1> QED
  BY <1>1, <1>2

LEMMA WrappedRuns ==
    ASSUME NEW r, Good(r), NEW f, WrappedOK(f.wrapped)
    PROVE  WrappedOK(useCheckIfWormholeWrapped(r, f))
<1>1. CASE WrappedOn(r) = f.wrapped.on
  BY <1>1 DEF useCheckIfWormholeWrapped
<1>2. CASE WrappedOn(r) # f.wrapped.on
  <2>1. r.isRecovery \in BOOLEAN /\ r.sourceChain \in Chains /\ r.account \in Chains \cup {Nil}
    BY DEF Good, State, TransferState
  <2> QED
    BY <1>2, <2>1 DEF useCheckIfWormholeWrapped, WrappedOn, WrappedOK, WrappedFx
<1> QED
  BY <1>1, <1>2

LEMMA AssetRuns ==
    ASSUME NEW r, Good(r), NEW f, AssetOK(f.asset)
    PROVE  AssetOK(AssetEffect(r, f))
<1>1. AssetArgs(r) \in AssetQuestions
  BY DEF Good, State, TransferState, AssetArgs, AssetQuestions
<1>2. AssetOn(r, f) \in AssetQuestions \X BOOLEAN \X BOOLEAN
  BY <1>1 DEF AssetOn, hasCorrectEvmNetwork
<1>3. AssetOn(r, f) # Nil
  BY <1>2, NilAssumption DEF AssetQuestions
<1>4. CASE AssetOn(r, f) = f.asset.on
  BY <1>4 DEF AssetEffect, SearchesAsset
<1>5. CASE AssetOn(r, f) # f.asset.on /\ SearchesAsset(r, f)
  <2> DEFINE b == ~GoesHome(r) /\ FetchesAsset(r)
             l == IF GoesHome(r) THEN AssetArgs(r) ELSE Nil
  <2>1. AssetEffect(r, f) = [on |-> AssetOn(r, f), busy |-> b, last |-> l]
    BY <1>5 DEF AssetEffect
  <2>2. b \in BOOLEAN /\ l \in AssetQuestions \cup {Nil}
    BY <1>1 DEF GoesHome, FetchesAsset
  <2>3. b => AssetOn(r, f)[1][1] # Nil
    BY DEF FetchesAsset, AssetOn, AssetArgs
  <2> HIDE DEF b, l
  <2> QED
    BY <1>2, <1>3, <2>1, <2>2, <2>3 DEF AssetOK, AssetFx
<1>6. CASE AssetOn(r, f) # f.asset.on /\ ~SearchesAsset(r, f)
  <2>1. AssetEffect(r, f) = [f.asset EXCEPT !.on = AssetOn(r, f), !.busy = FALSE]
    BY <1>6 DEF AssetEffect
  <2> QED
    BY <1>2, <1>3, <2>1 DEF AssetOK, AssetFx
<1> QED
  BY <1>4, <1>5, <1>6

LEMMA DoneRuns ==
    ASSUME NEW r, Good(r), NEW f, f.done \in DoneFx
    PROVE  useGetIsTransferCompleted(r, f) \in DoneFx
<1>1. CASE DoneOn(r) # Nil /\ DoneOn(r) = f.done.on
  BY <1>1 DEF useGetIsTransferCompleted
<1>2. CASE DoneOn(r) = Nil
  BY <1>2 DEF useGetIsTransferCompleted, Idle, DoneFx
<1>3. CASE DoneOn(r) # f.done.on /\ DoneOn(r) # Nil
  <2> DEFINE b == AsksIfCompleted(r)
             l == f.done.loading \/ AsksIfCompleted(r)
             on == DoneOn(r)
  <2>1. useGetIsTransferCompleted(r, f) = [f.done EXCEPT !.on = on, !.busy = b, !.loading = l]
    BY <1>3 DEF useGetIsTransferCompleted
  <2>2. b \in BOOLEAN /\ l \in BOOLEAN
    BY DEF Good, State, TransferState, AsksIfCompleted, isReady
  <2>3. on = <<r.isRecovery, r.targetChain, r.targetAddress, r.signedVAA,
               isReady(r.targetChain), hasCorrectEvmNetwork(r.targetChain)>>
    BY <1>3 DEF DoneOn
  <2>4. isReady(r.targetChain) \in BOOLEAN /\ hasCorrectEvmNetwork(r.targetChain) \in BOOLEAN
    BY DEF isReady, hasCorrectEvmNetwork
  <2>5. /\ r.isRecovery \in BOOLEAN /\ r.targetChain \in Chains
        /\ r.targetAddress \in {"evm", "solana", "terra", Nil} /\ r.signedVAA \in VAAs \cup {Nil}
    BY DEF Good, State, TransferState
  <2> HIDE DEF b, l, on
  <2>6. on \in BOOLEAN \X Chains \X {"evm", "solana", "terra", Nil} \X (VAAs \cup {Nil})
                \X BOOLEAN \X BOOLEAN
    BY <2>3, <2>4, <2>5
  <2> QED
    BY <2>1, <2>2, <2>6 DEF DoneFx
<1> QED
  BY <1>1, <1>2, <1>3

LEMMA RunFx ==
    ASSUME NEW r, Good(r), NEW s, NEW f, FxOK(f)
    PROVE  LET g == RunEffects(r, s, f).fx
           IN  /\ FxOK(g) /\ g.path = Nil
               /\ g.address = AddressEffect(r, f)
               /\ g.wrapped = useCheckIfWormholeWrapped(r, f)
               /\ g.asset = AssetEffect(r, f)
<1> DEFINE a == AddressEffect(r, f)
           d == useGetIsTransferCompleted(r, f)
           w == useCheckIfWormholeWrapped(r, f)
           x == AssetEffect(r, f)
           g == [address |-> a, done |-> d, wrapped |-> w, asset |-> x, path |-> Nil]
<1>1. RunEffects(r, s, f).fx = g
  BY DEF RunEffects
<1>2. AddressOK(a) /\ WrappedOK(w) /\ AssetOK(x) /\ d \in DoneFx
  BY AddressRuns, WrappedRuns, AssetRuns, DoneRuns DEF FxOK, Fx
<1> HIDE DEF a, d, w, x
<1>3. g \in Fx
  BY <1>2 DEF Fx, AddressOK, WrappedOK, AssetOK
<1> QED
  BY <1>1, <1>2, <1>3 DEF FxOK, a, w, x

\* Answers and failures end the calls they answer.
LEMMA AnswersOK ==
    ASSUME FxOK(fx)
    PROVE  /\ FxOK([fx EXCEPT !.wrapped.busy = FALSE])
           /\ FxOK([fx EXCEPT !.asset.busy = FALSE])
           /\ FxOK([fx EXCEPT !.address.busy = FALSE])
           /\ \A b \in BOOLEAN : FxOK([fx EXCEPT !.done.busy = FALSE,
                                   !.done.loading = FALSE, !.done.completed = b])
<1>1. FxOK([fx EXCEPT !.wrapped.busy = FALSE])
  <2> DEFINE e == [fx.wrapped EXCEPT !.busy = FALSE]
  <2>1. WrappedOK(e)
    BY DEF FxOK, WrappedOK, WrappedFx
  <2>2. [fx EXCEPT !.wrapped.busy = FALSE] = [fx EXCEPT !.wrapped = e]
    BY DEF FxOK, Fx
  <2> HIDE DEF e
  <2> QED
    BY <2>1, <2>2 DEF FxOK, Fx, WrappedOK
<1>2. FxOK([fx EXCEPT !.asset.busy = FALSE])
  <2> DEFINE e == [fx.asset EXCEPT !.busy = FALSE]
  <2>1. AssetOK(e)
    BY DEF FxOK, AssetOK, AssetFx
  <2>2. [fx EXCEPT !.asset.busy = FALSE] = [fx EXCEPT !.asset = e]
    BY DEF FxOK, Fx
  <2> HIDE DEF e
  <2> QED
    BY <2>1, <2>2 DEF FxOK, Fx, AssetOK
<1>3. FxOK([fx EXCEPT !.address.busy = FALSE])
  <2> DEFINE e == [fx.address EXCEPT !.busy = FALSE]
  <2>1. AddressOK(e)
    BY DEF FxOK, AddressOK, AddressFx
  <2>2. [fx EXCEPT !.address.busy = FALSE] = [fx EXCEPT !.address = e]
    BY DEF FxOK, Fx
  <2> HIDE DEF e
  <2> QED
    BY <2>1, <2>2 DEF FxOK, Fx, AddressOK
<1>4. ASSUME NEW b \in BOOLEAN
      PROVE  FxOK([fx EXCEPT !.done.busy = FALSE, !.done.loading = FALSE,
                             !.done.completed = b])
  <2> DEFINE e == [fx.done EXCEPT !.busy = FALSE, !.loading = FALSE, !.completed = b]
  <2>1. e \in DoneFx
    BY DEF FxOK, Fx, DoneFx
  <2>2. [fx EXCEPT !.done.busy = FALSE, !.done.loading = FALSE, !.done.completed = b]
          = [fx EXCEPT !.done = e]
    BY DEF FxOK, Fx
  <2> HIDE DEF e
  <2> QED
    BY <2>1, <2>2 DEF FxOK, Fx
<1> QED
  BY <1>1, <1>2, <1>3, <1>4

-----------------------------------------------------------------------------
(***************************************************************************)
(* A change of the store, and the types                                    *)
(***************************************************************************)

\* What is rendered when the store becomes s: pending effects have run on the
\* slice that was rendered before.
LEMMA RenderedMoves ==
    ASSUME Good(st), NEW s, Good(s), NEW f, FxOK(f)
    PROVE  LET p == Rendered(s, f)
           IN  /\ Good(p.st) /\ FxOK(p.fx) /\ SameLocks(p.st, s)
               /\ ~EffectsPending => p.st = s /\ p.fx = f
               /\ EffectsPending =>
                    /\ p.fx.path = Nil
                    /\ p.fx.address = AddressEffect(st, f)
                    /\ p.fx.wrapped = useCheckIfWormholeWrapped(st, f)
                    /\ p.fx.asset = AssetEffect(st, f)
                    /\ Kept(p.st, s, st, f) \/ (f.path # Nil /\ Cleared(p.st, s))
<1>1. CASE EffectsPending
  <2>1. Rendered(s, f) = RunEffects(st, s, f)
    BY <1>1 DEF Rendered
  <2>2. f.path \in Links \cup {Nil}
    BY DEF FxOK, Fx
  <2> DEFINE p == RunEffects(st, s, f)
  <2>3. /\ Good(p.st) /\ SameLocks(p.st, s)
        /\ Kept(p.st, s, st, f) \/ (f.path # Nil /\ Cleared(p.st, s))
    BY <2>2, RunStore
  <2>4. /\ FxOK(p.fx) /\ p.fx.path = Nil
        /\ p.fx.address = AddressEffect(st, f)
        /\ p.fx.wrapped = useCheckIfWormholeWrapped(st, f)
        /\ p.fx.asset = AssetEffect(st, f)
    BY RunFx
  <2> HIDE DEF p
  <2> QED
    BY <1>1, <2>1, <2>3, <2>4 DEF p
<1>2. CASE ~EffectsPending
  BY <1>2 DEF Rendered, SameLocks
<1> QED
  BY <1>1, <1>2

LEMMA BecomesMoves ==
    ASSUME Good(st), NEW s, Good(s), NEW f, FxOK(f), Becomes(Rendered(s, f)),
           isConfirmOpen \in BOOLEAN, disturbed \in BOOLEAN
    PROVE  /\ Good(st') /\ FxOK(fx') /\ SameLocks(st', s)
           /\ ~EffectsPending => st' = s /\ fx' = f
           /\ EffectsPending =>
                /\ fx'.path = Nil
                /\ fx'.address = AddressEffect(st, f)
                /\ fx'.wrapped = useCheckIfWormholeWrapped(st, f)
                /\ fx'.asset = AssetEffect(st, f)
                /\ Kept(st', s, st, f) \/ (f.path # Nil /\ Cleared(st', s))
           /\ isConfirmOpen' = (isConfirmOpen /\ st'.activeStep = 2)
           /\ disturbed' = (disturbed \/ (UnderWay /\ fx.path # fx'.path))
           /\ isConfirmOpen' \in BOOLEAN /\ disturbed' \in BOOLEAN
<1>1. /\ st' = Rendered(s, f).st /\ fx' = Rendered(s, f).fx
      /\ isConfirmOpen' = (isConfirmOpen /\ st'.activeStep = 2)
      /\ disturbed' = (disturbed \/ (UnderWay /\ fx.path # fx'.path))
  BY DEF Becomes
<1> QED
  BY <1>1, RenderedMoves

\* A flush renders what is in the store.
LEMMA FlushRenders ==
    ASSUME FlushEffects
    PROVE  Becomes(Rendered(st, fx))
BY DEF FlushEffects, Rendered

TypeInv ==
    /\ TypeOK
    /\ FxOK(fx)
    /\ page = "away" => fx = Idle

\* What TypeOK says of all but the slice and the effects.
RestOK ==
    /\ pick \in Chains \cup {Nil}
    /\ network \in EVMChains
    /\ sends \in Seq(Calls({"signing", "fetching", "landed", "failed"}))
    /\ Len(sends) <= MaxSends
    /\ redeems \subseteq [vaa : VAAs, chain : Chains]
    /\ released \subseteq VAAs
    /\ slipped \in BOOLEAN
    /\ choices \in 0 .. MaxChoices /\ reloads \in 0 .. MaxReloads

SliceOK ==
    /\ Good(st) /\ FxOK(fx)
    /\ page \in {"transfer", "away"}
    /\ page = "away" => fx = Idle
    /\ isConfirmOpen \in BOOLEAN /\ disturbed \in BOOLEAN
    /\ isConfirmOpen => page = "transfer" /\ st.activeStep = 2

LEMMA TypeParts == TypeInv <=> RestOK /\ SliceOK
<1>1. ASSUME FxOK(fx)
      PROVE  /\ fx.path \in Links \cup {Nil}
             /\ \A f \in {"address", "done", "wrapped", "asset"} : fx[f].busy \in BOOLEAN
  <2>1. /\ fx.address.busy \in BOOLEAN /\ fx.done.busy \in BOOLEAN
        /\ fx.wrapped.busy \in BOOLEAN /\ fx.asset.busy \in BOOLEAN
    BY <1>1 DEF FxOK, Fx, AddressFx, DoneFx, WrappedFx, AssetFx
  <2> QED
    BY <1>1, <2>1 DEF FxOK, Fx
<1> QED
  BY <1>1 DEF TypeInv, TypeOK, RestOK, SliceOK, Good, State

SendPhases == {"signing", "fetching", "landed", "failed"}

\* A transfer that goes on keeps the arguments of its call.
LEMMA PhaseMoves ==
    ASSUME sends \in Seq(Calls(SendPhases)), NEW i \in DOMAIN sends, NEW p \in SendPhases,
           sends' = [sends EXCEPT ![i].phase = p]
    PROVE  /\ sends' \in Seq(Calls(SendPhases)) /\ Len(sends') = Len(sends)
           /\ DOMAIN sends' = DOMAIN sends
           /\ sends'[i] = [sends[i] EXCEPT !.phase = p]
           /\ \A j \in DOMAIN sends \ {i} : sends'[j] = sends[j]
<1> DEFINE c == [sends[i] EXCEPT !.phase = p]
<1>1. c \in Calls(SendPhases)
  <2>1. sends[i] \in Calls(SendPhases)
    OBVIOUS
  <2> QED
    BY <2>1 DEF Calls
<1>2. sends' = [sends EXCEPT ![i] = c]
  OBVIOUS
<1> HIDE DEF c
<1> QED
  BY <1>1, <1>2 DEF c

LEMMA SendGrows ==
    ASSUME TypeInv, NEW b \in BOOLEAN,
           st.account # Nil, st.targetAddress # Nil, Len(sends) < MaxSends,
           sends' = Append(sends,
                  [sourceChain |-> st.sourceChain, account |-> st.account,
                   targetChain |-> st.targetChain, recipient |-> st.targetAddress,
                   reaches |-> b, phase |-> "signing"])
    PROVE  /\ sends' \in Seq(Calls(SendPhases)) /\ Len(sends') = Len(sends) + 1
           /\ DOMAIN sends' = DOMAIN sends \cup {Len(sends) + 1}
           /\ Len(sends') <= MaxSends
           /\ sends'[Len(sends) + 1] =
                  [sourceChain |-> st.sourceChain, account |-> st.account,
                   targetChain |-> st.targetChain, recipient |-> st.targetAddress,
                   reaches |-> b, phase |-> "signing"]
           /\ \A j \in DOMAIN sends : sends'[j] = sends[j]
<1> DEFINE c == [sourceChain |-> st.sourceChain, account |-> st.account,
                 targetChain |-> st.targetChain, recipient |-> st.targetAddress,
                 reaches |-> b, phase |-> "signing"]
<1>1. c \in Calls(SendPhases)
  BY TypeParts DEF SliceOK, Good, State, TransferState, Calls, SendPhases
<1>2. sends \in Seq(Calls(SendPhases)) /\ MaxSends \in Nat
  BY TypeParts, ConstantsAssumption DEF RestOK, SendPhases
<1>3. sends' = Append(sends, c)
  OBVIOUS
<1> HIDE DEF c
<1> QED
  BY <1>1, <1>2, <1>3 DEF c

\* The transfers after a reload.
Ended(i, executed) ==
    IF ~InFlight(i) THEN sends[i]
    ELSE [sends[i] EXCEPT !.phase =
            IF sends[i].phase = "fetching" \/ (i \in executed /\ sends[i].reaches)
            THEN "landed" ELSE "failed"]

LEMMA ReloadEnds ==
    ASSUME TypeInv, Reload
    PROVE  /\ sends' \in Seq(Calls(SendPhases)) /\ Len(sends') = Len(sends)
           /\ DOMAIN sends' = DOMAIN sends
           /\ \A i \in DOMAIN sends :
                /\ sends'[i].account = sends[i].account
                /\ sends'[i].sourceChain = sends[i].sourceChain
                /\ sends'[i].targetChain = sends[i].targetChain
                /\ sends'[i].recipient = sends[i].recipient
                /\ sends'[i].phase \in {"landed", "failed"}
<1>1. PICK executed \in SUBSET DOMAIN sends :
        sends' = [i \in DOMAIN sends |-> Ended(i, executed)]
  BY DEF Reload, Ended
<1>2. sends \in Seq(Calls(SendPhases))
  BY TypeParts DEF RestOK, SendPhases
<1>3. ASSUME NEW i \in DOMAIN sends
      PROVE  /\ Ended(i, executed) \in Calls(SendPhases)
             /\ Ended(i, executed).account = sends[i].account
             /\ Ended(i, executed).sourceChain = sends[i].sourceChain
             /\ Ended(i, executed).targetChain = sends[i].targetChain
             /\ Ended(i, executed).recipient = sends[i].recipient
             /\ Ended(i, executed).phase \in {"landed", "failed"}
  <2>1. sends[i] \in Calls(SendPhases)
    BY <1>2
  <2> DEFINE p == IF sends[i].phase = "fetching" \/ (i \in executed /\ sends[i].reaches)
                  THEN "landed" ELSE "failed"
  <2>2. CASE ~InFlight(i)
    BY <2>1, <2>2 DEF Ended, InFlight, Calls, SendPhases
  <2>3. CASE InFlight(i)
    <3>1. Ended(i, executed) = [sends[i] EXCEPT !.phase = p]
      BY <2>3 DEF Ended
    <3>2. p \in {"landed", "failed"}
      OBVIOUS
    <3> HIDE DEF p
    <3> QED
      BY <2>1, <3>1, <3>2 DEF Calls, SendPhases
  <2> QED
    BY <2>2, <2>3
<1>4. DOMAIN sends = 1 .. Len(sends) /\ Len(sends) \in Nat
  BY <1>2
<1>5. sends' \in Seq(Calls(SendPhases)) /\ Len(sends') = Len(sends)
  BY <1>1, <1>3, <1>4
<1> QED
  BY <1>1, <1>3, <1>5

LEMMA RestInit == Init => RestOK
<1> SUFFICES ASSUME Init PROVE RestOK
  OBVIOUS
<1>1. pick \in Chains \cup {Nil} /\ network \in EVMChains /\ slipped \in BOOLEAN
  BY DEF Init
<1>2. sends \in Seq(Calls({"signing", "fetching", "landed", "failed"})) /\ Len(sends) <= MaxSends
  BY ConstantsAssumption DEF Init
<1>3. released \subseteq VAAs /\ redeems \subseteq [vaa : VAAs, chain : Chains]
  BY ConstantsAssumption DEF Init, VAAs
<1>4. choices \in 0 .. MaxChoices /\ reloads \in 0 .. MaxReloads
  BY ConstantsAssumption DEF Init
<1> QED
  BY <1>1, <1>2, <1>3, <1>4 DEF RestOK

LEMMA RestNext == TypeInv /\ [Next]_vars => RestOK'
<1> SUFFICES ASSUME TypeInv, [Next]_vars PROVE RestOK'
  OBVIOUS
<1>1. RestOK /\ SliceOK
  BY TypeParts
<1>2. ASSUME Choice PROVE choices' \in 0 .. MaxChoices
  BY <1>1, <1>2, ConstantsAssumption DEF Choice, RestOK
<1> DEFINE Rest == <<pick, network, sends, redeems, released, slipped, reloads>>
<1>3. ASSUME UNCHANGED Rest, Choice \/ UNCHANGED choices PROVE RestOK'
  BY <1>1, <1>2, <1>3 DEF RestOK
<1>4. ASSUME UNCHANGED <<network, sends, redeems, released, slipped, reloads>>,
             Choice \/ UNCHANGED choices, pick' \in Chains \cup {Nil}
      PROVE  RestOK'
  BY <1>1, <1>2, <1>4 DEF RestOK
<1>5. ASSUME NEW c \in Chains, ChooseSourceChain(c) \/ ChooseTargetChain(c) PROVE RestOK'
  BY <1>3, <1>5 DEF ChooseSourceChain, ChooseTargetChain, Click
<1>6. CASE SelectOption
  BY <1>1, <1>4, <1>6 DEF SelectOption, SliceOK, Good, State, TransferState
<1>7. CASE ClearOption \/ SourceNext \/ TargetNext \/ RedeemStepButton \/ ResetClick
  BY <1>3, <1>7 DEF ClearOption, SourceNext, TargetNext, RedeemStepButton, ResetClick, Click
<1>8. ASSUME NEW n, StepButton(n) PROVE RestOK'
  BY <1>3, <1>8 DEF StepButton, Click
<1>9. CASE TransferClick \/ CancelClick \/ Leave
  BY <1>3, <1>9 DEF TransferClick, CancelClick, Leave
<1>10. CASE ConfirmClick
  <2>1. CASE st.account # Nil /\ st.targetAddress # Nil
    <3>1. sends' \in Seq(Calls(SendPhases)) /\ Len(sends') <= MaxSends
      BY <1>10, <2>1, SendGrows DEF ConfirmClick, isReady
    <3> QED
      BY <1>1, <1>10, <3>1 DEF ConfirmClick, RestOK, SendPhases
  <2>2. CASE ~(st.account # Nil /\ st.targetAddress # Nil)
    BY <1>3, <1>10, <2>2 DEF ConfirmClick
  <2> QED
    BY <2>1, <2>2
<1>11. CASE RedeemClick
  <2>1. [vaa |-> st.signedVAA, chain |-> st.targetChain] \in [vaa : VAAs, chain : Chains]
    BY <1>1, <1>11 DEF RedeemClick, SliceOK, Good, State, TransferState
  <2> QED
    BY <1>1, <1>11, <2>1 DEF RedeemClick, RestOK
<1>12. ASSUME NEW x, Return(x) \/ RecoverClick(x) PROVE RestOK'
  BY <1>3, <1>12 DEF Return, RecoverClick
<1>13. ASSUME NEW c \in EVMChains, SwitchNetwork(c) PROVE RestOK'
  BY <1>1, <1>2, <1>13 DEF SwitchNetwork, RestOK
<1>14. CASE Reload
  <2>1. sends' \in Seq(Calls(SendPhases)) /\ Len(sends') = Len(sends)
    BY <1>14, ReloadEnds
  <2>2. released' \subseteq VAAs
    BY <1>1, <1>14 DEF Reload, RestOK
  <2>3. reloads' \in 0 .. MaxReloads
    BY <1>1, <1>14, ConstantsAssumption DEF Reload, RestOK
  <2> QED
    BY <1>1, <1>14, <2>1, <2>2, <2>3 DEF Reload, RestOK, SendPhases
<1>15. CASE FlushEffects
  BY <1>3, <1>15 DEF FlushEffects
<1>16. ASSUME unchangedByAnswer PROVE RestOK'
  BY <1>1, <1>16 DEF unchangedByAnswer, RestOK
<1>17. CASE WrappedAnswer \/ WrappedFails \/ AssetAnswer \/ AssetFails \/ AddressAnswer
            \/ DoneAnswer
  BY <1>16, <1>17
  DEF WrappedAnswer, WrappedFails, AssetAnswer, AssetFails, AddressAnswer, DoneAnswer
<1>18. CASE OptionSelected \/ OptionFails
  BY <1>4, <1>18 DEF OptionSelected, OptionFails
<1>19. ASSUME NEW i \in DOMAIN sends, Sent(i) PROVE RestOK'
  <2>1. PICK p \in SendPhases : sends' = [sends EXCEPT ![i].phase = p]
    BY <1>19 DEF Sent, SendConfirmed, SendFails, SendNotFound, GotSignedVAA, SendPhases
  <2>2. unchangedBySend
    BY <1>19 DEF Sent, SendConfirmed, SendFails, SendNotFound, GotSignedVAA
  <2>3. sends' \in Seq(Calls(SendPhases)) /\ Len(sends') = Len(sends)
    BY <1>1, <2>1, PhaseMoves DEF RestOK, SendPhases
  <2> QED
    BY <1>1, <2>2, <2>3 DEF unchangedBySend, RestOK, SendPhases
<1>20. ASSUME NEW r \in redeems, RedeemEnds(r) PROVE RestOK'
  <2>1. r.vaa \in VAAs
    BY <1>1 DEF RestOK
  <2>2. released' \in {released, released \cup {r.vaa}}
    BY <1>20 DEF RedeemEnds
  <2> QED
    BY <1>1, <1>20, <2>1, <2>2 DEF RedeemEnds, RestOK
<1>21. CASE UNCHANGED vars
  BY <1>3, <1>21 DEF vars
<1> QED
  BY <1>5, <1>6, <1>7, <1>8, <1>9, <1>10, <1>11, <1>12, <1>13, <1>14, <1>15, <1>17, <1>18,
     <1>19, <1>20, <1>21
  DEF Next, User, Answers

\* The effects with a call ended.
WrappedEnded == [fx EXCEPT !.wrapped.busy = FALSE]
AssetEnded   == [fx EXCEPT !.asset.busy = FALSE]
AddressEnded == [fx EXCEPT !.address.busy = FALSE]
DoneEnded(b) == [fx EXCEPT !.done.busy = FALSE, !.done.loading = FALSE, !.done.completed = b]

\* Where no effect awaits anything, the page is not shown.
LEMMA AwayIsIdle ==
    ASSUME SliceOK, fx.wrapped.busy \/ fx.asset.busy \/ fx.address.busy \/ fx.done.busy
    PROVE  page = "transfer"
BY DEF SliceOK, Idle

LEMMA DispatchSlice ==
    ASSUME SliceOK, NEW s, Good(s), NEW f, FxOK(f), page = "away" => f = Idle,
           Becomes(Rendered(s, f)), page' = page
    PROVE  SliceOK'
<1>1. /\ Good(st') /\ FxOK(fx')
      /\ ~EffectsPending => st' = s /\ fx' = f
      /\ isConfirmOpen' = (isConfirmOpen /\ st'.activeStep = 2)
      /\ isConfirmOpen' \in BOOLEAN /\ disturbed' \in BOOLEAN
  BY BecomesMoves DEF SliceOK
<1>2. page = "away" => ~EffectsPending
  BY DEF EffectsPending
<1> QED
  BY <1>1, <1>2 DEF SliceOK

\* The last question of the look-up of the asset changes no call.
LEMMA LastOK ==
    ASSUME NEW f, FxOK(f), NEW q \in AssetQuestions
    PROVE  LET g == [f EXCEPT !.asset.last = q]
           IN  /\ FxOK(g) /\ g.address = f.address /\ g.wrapped = f.wrapped
               /\ g.path = f.path /\ g.asset.on = f.asset.on /\ g.asset.busy = f.asset.busy
<1> DEFINE e == [f.asset EXCEPT !.last = q]
<1>1. AssetOK(e) /\ e.on = f.asset.on /\ e.busy = f.asset.busy
  BY DEF FxOK, AssetOK, AssetFx
<1>2. [f EXCEPT !.asset.last = q] = [f EXCEPT !.asset = e]
  BY DEF FxOK, Fx
<1> HIDE DEF e
<1> QED
  BY <1>1, <1>2 DEF FxOK, Fx, AssetOK

LEMMA WrappedInfoType ==
    ASSUME NEW c \in Chains, NEW a
    PROVE  a \in Chains => WrappedInfo(c, a) \in Origins
BY ConstantsAssumption DEF WrappedInfo, Origins

\* The chains and the account the wrapped look-up was asked about.
LEMMA WrappedQuestion ==
    ASSUME SliceOK, fx.wrapped.busy
    PROVE  fx.wrapped.on[2] \in Chains /\ fx.wrapped.on[3] \in Chains
BY DEF SliceOK, FxOK, WrappedOK

LEMMA AssetQuestion ==
    ASSUME SliceOK, fx.asset.busy
    PROVE  /\ fx.asset.on[1] \in AssetQuestions
           /\ fx.asset.on[1][2] \in Chains
           /\ ForeignAsset(fx.asset.on[1][1], fx.asset.on[1][2]) \in AssetStates \cup Chains
<1>1. fx.asset.on \in AssetQuestions \X BOOLEAN \X BOOLEAN
  BY DEF SliceOK, FxOK, AssetOK, AssetFx
<1>2. fx.asset.on[1] \in AssetQuestions /\ fx.asset.on[1][2] \in Chains
  BY <1>1 DEF AssetQuestions
<1> QED
  BY <1>2 DEF ForeignAsset, AssetStates

\* A change of the store after which the question of the look-up is noted.
LEMMA NotedMoves ==
    ASSUME Good(st), NEW s, Good(s), NEW f, FxOK(f), NEW q \in AssetQuestions,
           Becomes([Rendered(s, f) EXCEPT !.fx.asset.last = q]),
           isConfirmOpen \in BOOLEAN, disturbed \in BOOLEAN
    PROVE  /\ Good(st') /\ FxOK(fx') /\ SameLocks(st', s)
           /\ ~EffectsPending => /\ st' = s /\ fx'.path = f.path
                                 /\ fx'.address = f.address /\ fx'.wrapped = f.wrapped
                                 /\ fx'.asset.busy = f.asset.busy
           /\ EffectsPending =>
                /\ fx'.path = Nil
                /\ fx'.address = AddressEffect(st, f)
                /\ fx'.wrapped = useCheckIfWormholeWrapped(st, f)
                /\ Kept(st', s, st, f) \/ (f.path # Nil /\ Cleared(st', s))
           /\ isConfirmOpen' = (isConfirmOpen /\ st'.activeStep = 2)
           /\ disturbed' = (disturbed \/ (UnderWay /\ fx.path # fx'.path))
           /\ isConfirmOpen' \in BOOLEAN /\ disturbed' \in BOOLEAN
<1> DEFINE p == Rendered(s, f)
<1>1. /\ st' = p.st /\ fx' = [p.fx EXCEPT !.asset.last = q]
      /\ isConfirmOpen' = (isConfirmOpen /\ st'.activeStep = 2)
      /\ disturbed' = (disturbed \/ (UnderWay /\ fx.path # fx'.path))
  BY DEF Becomes, Rendered, RunEffects
<1>2. /\ Good(p.st) /\ FxOK(p.fx) /\ SameLocks(p.st, s)
      /\ ~EffectsPending => p.st = s /\ p.fx = f
      /\ EffectsPending =>
           /\ p.fx.path = Nil
           /\ p.fx.address = AddressEffect(st, f)
           /\ p.fx.wrapped = useCheckIfWormholeWrapped(st, f)
           /\ Kept(p.st, s, st, f) \/ (f.path # Nil /\ Cleared(p.st, s))
  BY RenderedMoves
<1> HIDE DEF p
<1>3. /\ FxOK(fx') /\ fx'.address = p.fx.address /\ fx'.wrapped = p.fx.wrapped
      /\ fx'.path = p.fx.path /\ fx'.asset.busy = p.fx.asset.busy
  BY <1>1, <1>2, LastOK
<1> QED
  BY <1>1, <1>2, <1>3

LEMMA ClickSlice ==
    ASSUME SliceOK, NEW s, Good(s), Click(s), disturbed' \in BOOLEAN
    PROVE  SliceOK'
BY DEF SliceOK, Click

\* The slices that the user's clicks lead to.
LEMMA ChoicesGood ==
    ASSUME SliceOK
    PROVE  /\ \A c \in Chains : Good(setSourceChain(st, c)) /\ Good(setTargetChain(st, c))
           /\ \A a \in Chains \cup {Nil} : Good(setSourceParsedTokenAccount(st, a))
           /\ \A n \in 0 .. 3 : Good(setStep(st, n))
           /\ Good(incrementStep(st)) /\ Good(reset(st))
<1>1. Good(st)
  BY DEF SliceOK
<1>2. ASSUME NEW c \in Chains
      PROVE  Good(setSourceChain(st, c)) /\ Good(setTargetChain(st, c))
  BY <1>1, SourceChainMoves, TargetChainMoves
<1>3. ASSUME NEW a \in Chains \cup {Nil} PROVE Good(setSourceParsedTokenAccount(st, a))
  BY <1>1, AccountGood
<1>4. ASSUME NEW n \in 0 .. 3 PROVE Good(setStep(st, n)) /\ Good(incrementStep(st))
  BY <1>1, StepGood
<1>5. Good(reset(st))
  BY <1>1, ResetMoves
<1>6. Good(incrementStep(st))
  BY <1>4
<1> QED
  BY <1>2, <1>3, <1>4, <1>5, <1>6

LEMMA SliceNext == TypeInv /\ [Next]_vars => SliceOK'
<1> SUFFICES ASSUME TypeInv, [Next]_vars PROVE SliceOK'
  OBVIOUS
<1>1. RestOK /\ SliceOK
  BY TypeParts
<1>2. Good(st) /\ FxOK(fx) /\ disturbed \in BOOLEAN /\ (page = "away" => fx = Idle)
  BY <1>1 DEF SliceOK
<1>a. \A b \in BOOLEAN : /\ Good(setIsSending(st, b)) /\ Good(setIsRedeeming(st, b))
                       /\ Good(setRedeemTx(st))
  <2>1. 0 \in VAAs
    BY ConstantsAssumption DEF VAAs
  <2> QED
    BY <1>2, <2>1, LocksGood
<1>3. ASSUME NEW s, Good(s), Click(s), UNCHANGED disturbed PROVE SliceOK'
  BY <1>1, <1>2, <1>3, ClickSlice
<1>4. ASSUME NEW c \in Chains, ChooseSourceChain(c) \/ ChooseTargetChain(c) PROVE SliceOK'
  BY <1>1, <1>3, <1>4, ChoicesGood DEF ChooseSourceChain, ChooseTargetChain
<1>5. CASE ClearOption
  BY <1>1, <1>3, <1>5, ChoicesGood DEF ClearOption
<1>6. CASE SourceNext \/ TargetNext
  BY <1>1, <1>3, <1>6, ChoicesGood DEF SourceNext, TargetNext
<1>7. ASSUME NEW n \in 0 .. 3, StepButton(n) PROVE SliceOK'
  BY <1>1, <1>3, <1>7, ChoicesGood DEF StepButton
<1>8. CASE RedeemStepButton
  BY <1>1, <1>3, <1>8, ChoicesGood DEF RedeemStepButton
<1>9. CASE ResetClick
  <2>1. Good(reset(st)) /\ Click(reset(st)) /\ disturbed' \in BOOLEAN
    BY <1>1, <1>2, <1>9, ChoicesGood DEF ResetClick
  <2> QED
    BY <1>1, <2>1, ClickSlice
<1>10. CASE SelectOption \/ OptionFails
  BY <1>1, <1>10 DEF SelectOption, OptionFails, SliceOK
<1>11. CASE TransferClick \/ CancelClick
  BY <1>1, <1>11 DEF TransferClick, CancelClick, SliceOK
<1>12. CASE Leave
  BY <1>1, <1>12, IdleOK DEF Leave, SliceOK
<1>13. ASSUME NEW link \in Links \cup {Nil}, Return(link) PROVE SliceOK'
  BY <1>1, <1>13, IdleOK DEF Return, SliceOK
<1>14. ASSUME NEW v \in VAAs, RecoverClick(v) PROVE SliceOK'
  <2>1. TargetOf(v) \in Chains
    <3>1. v = 0 \/ v \in DOMAIN sends
      BY <1>14 DEF RecoverClick, Signed
    <3>2. ASSUME v \in DOMAIN sends PROVE sends[v].targetChain \in Chains
      <4>1. sends[v] \in Calls(SendPhases)
        BY <1>1, <3>2 DEF RestOK, SendPhases
      <4> QED
        BY <4>1 DEF Calls
    <3> QED
      BY <3>1, <3>2, ConstantsAssumption DEF TargetOf
  <2>2. Good(setRecoveryVaa(st, v, TargetOf(v)))
    BY <1>2, <2>1, RecoveryMoves
  <2> QED
    BY <1>1, <1>14, <2>2, IdleOK DEF RecoverClick, SliceOK
<1>15. CASE Reload
  BY <1>1, <1>15, InitialGood, IdleOK DEF Reload, SliceOK
<1>16. CASE ConfirmClick
  <2>1. st' \in {st, setIsSending(st, TRUE)}
    BY <1>16 DEF ConfirmClick
  <2>2. Good(st')
    BY <1>2, <1>a, <2>1
  <2> QED
    BY <1>1, <1>16, <2>2 DEF ConfirmClick, SliceOK
<1>17. CASE RedeemClick
  <2>1. Good(setIsRedeeming(st, TRUE))
    BY <1>a
  <2>2. st.activeStep = 3 /\ st' = setIsRedeeming(st, TRUE) /\ UNCHANGED <<page, fx, isConfirmOpen, disturbed>>
    BY <1>17 DEF RedeemClick
  <2>3. isConfirmOpen' = FALSE
    <3>1. isConfirmOpen \in BOOLEAN /\ (isConfirmOpen => st.activeStep = 2)
      BY <1>1 DEF SliceOK
    <3> QED
      BY <2>2, <3>1
  <2>4. page' = page /\ fx' = fx /\ disturbed' = disturbed
    BY <2>2
  <2> QED
    BY <1>1, <2>1, <2>2, <2>3, <2>4 DEF SliceOK
<1>18. ASSUME NEW s, Good(s), Dispatch(s), UNCHANGED page PROVE SliceOK'
  BY <1>1, <1>2, <1>18, DispatchSlice DEF Dispatch
<1>19. ASSUME NEW c \in EVMChains, SwitchNetwork(c) PROVE SliceOK'
  BY <1>2, <1>18, <1>19 DEF SwitchNetwork
<1>20. CASE FlushEffects
  BY <1>1, <1>2, <1>20, DispatchSlice, FlushRenders DEF FlushEffects
<1>21. CASE OptionSelected
  BY <1>1, <1>18, <1>21, ChoicesGood DEF OptionSelected, RestOK
<1>22. ASSUME NEW i \in DOMAIN sends, Sent(i) PROVE SliceOK'
  <2>1. i \in VAAs
    BY <1>1, ConstantsAssumption DEF RestOK, VAAs
  <2>2. Good(setIsSending(st, FALSE)) /\ Good(setSignedVAAHex(st, i))
    BY <1>2, <2>1, LocksGood
  <2>3. CASE SendConfirmed(i)
    BY <1>1, <2>3 DEF SendConfirmed, unchangedBySend, SliceOK
  <2>4. CASE SendFails(i) \/ SendNotFound(i) \/ GotSignedVAA(i)
    BY <1>18, <2>2, <2>4 DEF SendFails, SendNotFound, GotSignedVAA, unchangedBySend
  <2> QED
    BY <1>22, <2>3, <2>4 DEF Sent
<1>23. ASSUME NEW r \in redeems, RedeemEnds(r) PROVE SliceOK'
  <2>1. Good(setRedeemTx(st)) /\ Good(setIsRedeeming(st, FALSE))
    BY <1>a
  <2> QED
    BY <1>18, <1>23, <2>1 DEF RedeemEnds
<1>24. CASE AssetAnswer \/ AssetFails
  <2>1. /\ FxOK(AssetEnded) /\ page = "transfer"
        /\ isConfirmOpen \in BOOLEAN /\ (isConfirmOpen => st.activeStep = 2)
    BY <1>1, <1>2, <1>24, AnswersOK, AwayIsIdle DEF AssetAnswer, AssetFails, SliceOK, AssetEnded
  <2>2. CASE AssetFails
    <3>1. Good(setTargetAsset(st, "error"))
      BY <1>2, AssetGood DEF AssetStates
    <3> QED
      BY <1>1, <2>1, <2>2, <3>1, DispatchSlice DEF AssetFails, unchangedByAnswer, AssetEnded
  <2>3. CASE AssetAnswer
    <3> DEFINE q == fx.asset.on[1]
               s == setTargetAsset(st, ForeignAsset(q[1], q[2]))
    <3>1. q \in AssetQuestions /\ Good(s)
      BY <1>1, <1>2, <2>3, AssetQuestion, AssetGood DEF AssetAnswer
    <3>2. Becomes([Rendered(s, AssetEnded) EXCEPT !.fx.asset.last = q]) /\ UNCHANGED page
      BY <2>3 DEF AssetAnswer, AssetEnded, unchangedByAnswer
    <3> HIDE DEF q, s
    <3>3. /\ Good(st') /\ FxOK(fx') /\ isConfirmOpen' = (isConfirmOpen /\ st'.activeStep = 2)
          /\ isConfirmOpen' \in BOOLEAN /\ disturbed' \in BOOLEAN
      BY <1>2, <2>1, <3>1, <3>2, NotedMoves
    <3> QED
      BY <1>1, <2>1, <3>2, <3>3 DEF SliceOK
  <2> QED
    BY <1>24, <2>2, <2>3
<1>25. CASE WrappedAnswer \/ WrappedFails
  <2> DEFINE c == fx.wrapped.on[2]
             a == fx.wrapped.on[3]
             s == setSourceWormholeWrappedInfo(st, WrappedInfo(c, a))
  <2>1. FxOK(WrappedEnded) /\ page = "transfer"
    BY <1>1, <1>2, <1>25, AnswersOK, AwayIsIdle DEF WrappedAnswer, WrappedFails, WrappedEnded
  <2>2. Good(s)
    BY <1>1, <1>2, <1>25, WrappedQuestion, WrappedInfoType, OriginGood
    DEF WrappedAnswer, WrappedFails
  <2>3. \/ Becomes(Rendered(s, WrappedEnded)) /\ UNCHANGED page
        \/ fx' = WrappedEnded /\ UNCHANGED <<page, st, isConfirmOpen, disturbed>>
    BY <1>25 DEF WrappedAnswer, WrappedFails, unchangedByAnswer, WrappedEnded
  <2> HIDE DEF c, a, s
  <2>4. CASE Becomes(Rendered(s, WrappedEnded)) /\ UNCHANGED page
    BY <1>1, <2>1, <2>2, <2>4, DispatchSlice
  <2>5. CASE fx' = WrappedEnded /\ UNCHANGED <<page, st, isConfirmOpen, disturbed>>
    BY <1>1, <2>1, <2>5 DEF SliceOK
  <2> QED
    BY <2>3, <2>4, <2>5
<1>26. CASE AddressAnswer
  <2> DEFINE a == IF Kind[fx.address.on[3]] = "solana" THEN "solana" ELSE Nil
             s == setTargetAddressHex(st, a)
  <2>1. FxOK(AddressEnded) /\ page = "transfer"
    BY <1>1, <1>2, <1>26, AnswersOK, AwayIsIdle DEF AddressAnswer, AddressEnded
  <2>2. Good(s)
    BY <1>2, AddressGood
  <2>3. Becomes(Rendered(s, AddressEnded)) /\ UNCHANGED page
    BY <1>26 DEF AddressAnswer, unchangedByAnswer, AddressEnded
  <2> HIDE DEF a, s
  <2> QED
    BY <1>1, <2>1, <2>2, <2>3, DispatchSlice
<1>27. CASE DoneAnswer
  <2>1. PICK b \in BOOLEAN : Becomes(Rendered(st, DoneEnded(b)))
    <3> DEFINE x == fx.done.on[4] \in released
    <3>1. \E b \in {FALSE, x} : Becomes(Rendered(st, DoneEnded(b)))
      BY <1>27 DEF DoneAnswer, DoneEnded
    <3>2. x \in BOOLEAN
      OBVIOUS
    <3> HIDE DEF x, DoneEnded
    <3> QED
      BY <3>1, <3>2
  <2>2. FxOK(DoneEnded(b)) /\ page = "transfer" /\ page' = page
    BY <1>1, <1>2, <1>27, AnswersOK, AwayIsIdle DEF DoneAnswer, DoneEnded, unchangedByAnswer
  <2> HIDE DEF DoneEnded
  <2> QED
    BY <1>1, <1>2, <2>1, <2>2, DispatchSlice
<1>28. CASE UNCHANGED vars
  BY <1>1, <1>28 DEF vars, SliceOK
<1> QED
  BY <1>4, <1>5, <1>6, <1>7, <1>8, <1>9, <1>10, <1>11, <1>12, <1>13, <1>14, <1>15, <1>16,
     <1>17, <1>19, <1>20, <1>21, <1>22, <1>23, <1>24, <1>25, <1>26, <1>27, <1>28
  DEF Next, User, Answers

LEMMA SliceInit == Init => SliceOK
BY InitialGood, IdleOK DEF Init, SliceOK

LEMMA TypeInvariant == Spec => []TypeInv
<1>1. Init => TypeInv
  BY RestInit, SliceInit, TypeParts
<1>2. TypeInv /\ [Next]_vars => TypeInv'
  <2> SUFFICES ASSUME TypeInv, [Next]_vars PROVE TypeInv'
    OBVIOUS
  <2>1. RestOK' /\ SliceOK'
    BY RestNext, SliceNext
  <2>2. (RestOK /\ SliceOK => TypeInv)'
    BY TypeParts, PTL
  <2> QED
    BY <2>1, <2>2
<1> QED
  BY <1>1, <1>2, PTL DEF Spec

\* The variables keep their types, no step of the wizard leaves it with two
\* equal chains, and the confirmation dialog is only open over step 3 (the
\* reducers of transferSlice.ts and the guards of the steps' buttons).
THEOREM TypeCorrect == Spec => []TypeOK
<1>1. TypeInv => TypeOK
  BY DEF TypeInv
<1> QED
  BY <1>1, TypeInvariant, PTL

-----------------------------------------------------------------------------
(***************************************************************************)
(* What the steps render                                                   *)
(***************************************************************************)

\* The store becomes s and the effects f, unless effects were pending: they
\* have run on what was rendered before.
Renders(s, f) ==
    /\ Good(st') /\ FxOK(fx') /\ SameLocks(st', s)
    /\ ~EffectsPending => /\ st' = s /\ fx'.path = f.path
                          /\ fx'.address = f.address /\ fx'.wrapped = f.wrapped
    /\ EffectsPending => /\ fx'.path = Nil
                         /\ fx'.address = AddressEffect(st, f)
                         /\ fx'.wrapped = useCheckIfWormholeWrapped(st, f)
                         /\ Kept(st', s, st, f) \/ (f.path # Nil /\ Cleared(st', s))
    /\ isConfirmOpen' = (isConfirmOpen /\ st'.activeStep = 2)
    /\ disturbed' = (disturbed \/ (UnderWay /\ fx.path # fx'.path))

LEMMA BecomesRenders ==
    ASSUME TypeInv, NEW s, Good(s), NEW f, FxOK(f), Becomes(Rendered(s, f))
    PROVE  Renders(s, f)
<1>1. Good(st) /\ isConfirmOpen \in BOOLEAN /\ disturbed \in BOOLEAN
  BY TypeParts DEF SliceOK
<1> QED
  BY <1>1, BecomesMoves DEF Renders

\* An ended call leaves the other effects alone.
LEMMA EndedParts ==
    ASSUME FxOK(fx)
    PROVE  /\ FxOK(WrappedEnded) /\ WrappedEnded.path = fx.path
           /\ WrappedEnded.address = fx.address
           /\ FxOK(AssetEnded) /\ AssetEnded.path = fx.path
           /\ AssetEnded.address = fx.address
           /\ FxOK(AddressEnded) /\ AddressEnded.path = fx.path
           /\ AddressEnded.address.on = fx.address.on /\ AddressEnded.address.busy = FALSE
           /\ \A b \in BOOLEAN : /\ FxOK(DoneEnded(b)) /\ DoneEnded(b).path = fx.path
                                 /\ DoneEnded(b).address = fx.address
<1>1. FxOK(WrappedEnded) /\ FxOK(AssetEnded) /\ FxOK(AddressEnded)
  BY AnswersOK DEF WrappedEnded, AssetEnded, AddressEnded
<1>2. ASSUME NEW b \in BOOLEAN
      PROVE  /\ FxOK(DoneEnded(b)) /\ DoneEnded(b).path = fx.path
             /\ DoneEnded(b).address = fx.address
  <2>1. FxOK(DoneEnded(b))
    BY AnswersOK DEF DoneEnded
  <2> QED
    BY <2>1 DEF DoneEnded, FxOK, Fx
<1>3. /\ WrappedEnded.path = fx.path /\ WrappedEnded.address = fx.address
      /\ AssetEnded.path = fx.path /\ AssetEnded.address = fx.address
  BY DEF FxOK, Fx, WrappedEnded, AssetEnded
<1>4. /\ AddressEnded.path = fx.path
      /\ AddressEnded.address.on = fx.address.on /\ AddressEnded.address.busy = FALSE
  BY DEF FxOK, Fx, AddressFx, AddressEnded
<1> QED
  BY <1>1, <1>2, <1>3, <1>4

\* What the wrapped look-up answers, where it dispatches.
WrappedSlice == setSourceWormholeWrappedInfo(st, WrappedInfo(fx.wrapped.on[2], fx.wrapped.on[3]))
AssetSlice == setTargetAsset(st, ForeignAsset(fx.asset.on[1][1], fx.asset.on[1][2]))

\* Only the address, the asset or the origin changes.
LEMMA WrappedRenders ==
    ASSUME TypeInv, WrappedAnswer \/ WrappedFails
    PROVE  /\ fx.wrapped.busy /\ page = "transfer"
           /\ fx.wrapped.on[2] \in Chains /\ fx.wrapped.on[3] \in Chains
           /\ \/ Good(WrappedSlice) /\ Renders(WrappedSlice, WrappedEnded)
              \/ fx' = WrappedEnded /\ UNCHANGED <<st, isConfirmOpen, disturbed>>
<1>1. SliceOK /\ fx.wrapped.busy
  BY TypeParts DEF WrappedAnswer, WrappedFails
<1>2. /\ page = "transfer" /\ Good(st) /\ FxOK(WrappedEnded)
      /\ fx.wrapped.on[2] \in Chains /\ fx.wrapped.on[3] \in Chains
  BY <1>1, AwayIsIdle, WrappedQuestion, EndedParts DEF SliceOK
<1>3. Good(WrappedSlice)
  BY <1>2, WrappedInfoType, OriginGood DEF WrappedSlice
<1>4. \/ Becomes(Rendered(WrappedSlice, WrappedEnded))
      \/ fx' = WrappedEnded /\ UNCHANGED <<st, isConfirmOpen, disturbed>>
  BY DEF WrappedAnswer, WrappedFails, WrappedSlice, WrappedEnded
<1> HIDE DEF WrappedSlice, WrappedEnded
<1> QED
  BY <1>1, <1>2, <1>3, <1>4, BecomesRenders

LEMMA AssetRenders ==
    ASSUME TypeInv, AssetAnswer \/ AssetFails
    PROVE  /\ fx.asset.busy /\ page = "transfer"
           /\ \/ AssetAnswer /\ Good(AssetSlice) /\ Renders(AssetSlice, AssetEnded)
              \/ LET s == setTargetAsset(st, "error") IN Good(s) /\ Renders(s, AssetEnded)
<1>1. SliceOK /\ fx.asset.busy
  BY TypeParts DEF AssetAnswer, AssetFails
<1>2. /\ page = "transfer" /\ Good(st) /\ FxOK(AssetEnded)
      /\ isConfirmOpen \in BOOLEAN /\ disturbed \in BOOLEAN
  BY <1>1, AwayIsIdle, EndedParts DEF SliceOK
<1>3. CASE AssetFails
  <2>1. Good(setTargetAsset(st, "error"))
    BY <1>2, AssetGood DEF AssetStates
  <2>2. Becomes(Rendered(setTargetAsset(st, "error"), AssetEnded))
    BY <1>3 DEF AssetFails, AssetEnded
  <2> QED
    BY <1>1, <1>2, <2>1, <2>2, BecomesRenders
<1>4. CASE AssetAnswer
  <2> DEFINE q == fx.asset.on[1]
  <2>1. q \in AssetQuestions /\ Good(AssetSlice)
    BY <1>1, <1>2, AssetQuestion, AssetGood DEF AssetSlice
  <2>2. Becomes([Rendered(AssetSlice, AssetEnded) EXCEPT !.fx.asset.last = q])
    BY <1>4 DEF AssetAnswer, AssetEnded, AssetSlice
  <2> HIDE DEF q, AssetSlice, AssetEnded
  <2>3. Renders(AssetSlice, AssetEnded)
    BY <1>2, <2>1, <2>2, NotedMoves DEF Renders
  <2> QED
    BY <1>1, <1>2, <1>4, <2>1, <2>3
<1> QED
  BY <1>3, <1>4

LEMMA AddressRenders ==
    ASSUME TypeInv, AddressAnswer
    PROVE  /\ fx.address.busy /\ page = "transfer"
           /\ \E a \in {"solana", Nil} : /\ Good(setTargetAddressHex(st, a))
                                         /\ Renders(setTargetAddressHex(st, a), AddressEnded)
<1> DEFINE a == IF Kind[fx.address.on[3]] = "solana" THEN "solana" ELSE Nil
<1>1. SliceOK /\ fx.address.busy
  BY TypeParts DEF AddressAnswer
<1>2. page = "transfer" /\ Good(st) /\ FxOK(AddressEnded)
  BY <1>1, AwayIsIdle, EndedParts DEF SliceOK
<1>3. a \in {"solana", Nil} /\ Good(setTargetAddressHex(st, a))
  BY <1>2, AddressGood
<1>4. Becomes(Rendered(setTargetAddressHex(st, a), AddressEnded))
  BY DEF AddressAnswer, AddressEnded
<1> HIDE DEF a, AddressEnded
<1> QED
  BY <1>1, <1>2, <1>3, <1>4, BecomesRenders

LEMMA DoneRenders ==
    ASSUME TypeInv, DoneAnswer
    PROVE  page = "transfer" /\ \E b \in BOOLEAN : Renders(st, DoneEnded(b))
<1> DEFINE x == fx.done.on[4] \in released
<1>1. SliceOK /\ fx.done.busy
  BY TypeParts DEF DoneAnswer
<1>2. page = "transfer" /\ Good(st) /\ \A b \in BOOLEAN : FxOK(DoneEnded(b))
  BY <1>1, AwayIsIdle, EndedParts DEF SliceOK
<1>3. \E b \in {FALSE, x} : Becomes(Rendered(st, DoneEnded(b)))
  BY DEF DoneAnswer, DoneEnded
<1>4. x \in BOOLEAN
  OBVIOUS
<1> HIDE DEF x, DoneEnded
<1>5. PICK b \in BOOLEAN : Becomes(Rendered(st, DoneEnded(b)))
  BY <1>3, <1>4
<1> QED
  BY <1>2, <1>5, BecomesRenders

LEMMA DispatchRenders ==
    ASSUME TypeInv, NEW s, Good(s), Dispatch(s)
    PROVE  Renders(s, fx)
BY TypeParts, BecomesRenders DEF Dispatch, SliceOK

LEMMA StillRenders ==
    ASSUME TypeInv, FlushEffects \/ \E c \in EVMChains : SwitchNetwork(c)
    PROVE  Renders(st, fx) /\ UNCHANGED page
<1>1. Good(st) /\ FxOK(fx)
  BY TypeParts DEF SliceOK
<1>2. CASE FlushEffects
  BY <1>1, <1>2, FlushRenders, BecomesRenders DEF FlushEffects
<1>3. CASE \E c \in EVMChains : SwitchNetwork(c)
  BY <1>1, <1>3, DispatchRenders DEF SwitchNetwork
<1> QED
  BY <1>2, <1>3

LEMMA OptionRenders ==
    ASSUME TypeInv, OptionSelected
    PROVE  LET s == setSourceParsedTokenAccount(st, pick)
           IN  pick \in Chains /\ Good(s) /\ Renders(s, fx)
<1>1. pick \in Chains
  BY TypeParts DEF RestOK, OptionSelected
<1>2. Good(setSourceParsedTokenAccount(st, pick))
  BY <1>1, TypeParts, ChoicesGood
<1> QED
  BY <1>1, <1>2, DispatchRenders DEF OptionSelected

LEMMA SendRenders ==
    ASSUME TypeInv, NEW i \in DOMAIN sends
    PROVE  /\ SendFails(i) \/ SendNotFound(i) =>
                Good(setIsSending(st, FALSE)) /\ Renders(setIsSending(st, FALSE), fx)
           /\ GotSignedVAA(i) =>
                Good(setSignedVAAHex(st, i)) /\ Renders(setSignedVAAHex(st, i), fx)
<1>1. i \in VAAs /\ Good(st)
  BY TypeParts, ConstantsAssumption DEF RestOK, VAAs, SliceOK
<1>2. Good(setIsSending(st, FALSE)) /\ Good(setSignedVAAHex(st, i))
  BY <1>1, LocksGood
<1>3. SendFails(i) \/ SendNotFound(i) => Dispatch(setIsSending(st, FALSE))
  BY DEF SendFails, SendNotFound
<1>4. GotSignedVAA(i) => Dispatch(setSignedVAAHex(st, i))
  BY DEF GotSignedVAA
<1> QED
  BY <1>2, <1>3, <1>4, DispatchRenders

LEMMA RedeemRenders ==
    ASSUME TypeInv, NEW r \in redeems, RedeemEnds(r)
    PROVE  /\ Good(setRedeemTx(st)) /\ Good(setIsRedeeming(st, FALSE))
           /\ \/ /\ Renders(setRedeemTx(st), fx)
                 /\ Kind[r.chain] = "terra" \/ r.vaa \in released'
              \/ Renders(setIsRedeeming(st, FALSE), fx)
<1>1. Good(setRedeemTx(st)) /\ Good(setIsRedeeming(st, FALSE))
  <2>1. Good(st) /\ 0 \in VAAs
    BY TypeParts, ConstantsAssumption DEF VAAs, SliceOK
  <2> QED
    BY <2>1, LocksGood
<1>2. \/ Dispatch(setRedeemTx(st)) /\ (Kind[r.chain] = "terra" \/ r.vaa \in released')
      \/ Dispatch(setIsRedeeming(st, FALSE))
  BY DEF RedeemEnds
<1> QED
  BY <1>1, <1>2, DispatchRenders

-----------------------------------------------------------------------------
(***************************************************************************)
(* The slices that are dispatched                                          *)
(***************************************************************************)

\* s is where the wizard is, and locks nothing new.
Calm(s) ==
    /\ s.activeStep = st.activeStep
    /\ s.sourceChain = st.sourceChain /\ s.targetChain = st.targetChain
    /\ s.signedVAA = st.signedVAA /\ (s.isSending => st.isSending)

SameTarget(s) == s.targetAsset = st.targetAsset /\ s.targetAddress = st.targetAddress

SameToken(s) == s.account = st.account /\ s.origin = st.origin

LEMMA AnswerSlices ==
    ASSUME Good(st)
    PROVE  /\ \A o : LET s == setSourceWormholeWrappedInfo(st, o)
                     IN  /\ Calm(s) /\ SameLocks(s, st) /\ SameTarget(s)
                         /\ s.account = st.account /\ s.origin = o
           /\ \A a : LET s == setTargetAsset(st, a)
                     IN  /\ Calm(s) /\ SameLocks(s, st) /\ SameToken(s)
                         /\ s.targetAsset = a /\ s.targetAddress = st.targetAddress
           /\ \A a : LET s == setTargetAddressHex(st, a)
                     IN  /\ Calm(s) /\ SameLocks(s, st) /\ SameToken(s)
                         /\ s.targetAsset = st.targetAsset /\ s.targetAddress = a
           /\ \A a : LET s == setSourceParsedTokenAccount(st, a)
                     IN  /\ Calm(s) /\ SameLocks(s, st) /\ s.account = a /\ s.origin = Nil
                         /\ s.targetAsset = "empty" /\ s.targetAddress = Nil
BY DEF Good, State, TransferState, setSourceWormholeWrappedInfo, setTargetAsset,
       setTargetAddressHex, setSourceParsedTokenAccount, ClearTarget, EmptyWrapper,
       Calm, SameLocks, SameTarget, SameToken

LEMMA LockSlices ==
    ASSUME Good(st)
    PROVE  /\ LET s == setIsSending(st, FALSE)
              IN  /\ Calm(s) /\ SameTarget(s) /\ SameToken(s) /\ ~s.isSending
                  /\ s.redeemTx = st.redeemTx /\ s.isRecovery = st.isRecovery
           /\ LET s == setIsRedeeming(st, FALSE)
              IN  /\ Calm(s) /\ SameTarget(s) /\ SameToken(s) /\ s.isSending = st.isSending
                  /\ s.redeemTx = st.redeemTx /\ s.isRecovery = st.isRecovery
           /\ LET s == setRedeemTx(st)
              IN  /\ Calm(s) /\ SameTarget(s) /\ SameToken(s) /\ s.isSending = st.isSending
                  /\ s.isRecovery = st.isRecovery
           /\ \A v : LET s == setSignedVAAHex(st, v)
                     IN  /\ s.signedVAA = v /\ SameTarget(s) /\ SameToken(s)
                         /\ s.sourceChain = st.sourceChain /\ s.targetChain = st.targetChain
                         /\ s.activeStep = 3 /\ ~s.isSending
                         /\ s.redeemTx = st.redeemTx /\ s.isRecovery = st.isRecovery
BY DEF Good, State, TransferState, setIsSending, setIsRedeeming, setRedeemTx, setSignedVAAHex,
       Calm, SameTarget, SameToken

-----------------------------------------------------------------------------
(***************************************************************************)
(* The recipient                                                           *)
(***************************************************************************)

LEMMA AddressShown ==
    ASSUME NEW r, Good(r)
    PROVE  AddressOn(r) = Nil <=> r.activeStep # 1
<1>1. <<ShouldLockFields(r), r.targetChain, TargetAsset(r)>>
        \in BOOLEAN \X Chains \X (Chains \cup {Nil})
  BY DEF ShouldLockFields, TargetAsset, Good, State, TransferState
<1> QED
  BY <1>1, NilAssumption DEF AddressOn

\* An address is awaited for what the effect last ran on.
LEMMA AddressAsked ==
    ASSUME NEW r, Good(r), NEW e, AddressOK(e), e.on = AddressOn(r), e.busy
    PROVE  r.activeStep = 1 /\ ~ShouldLockFields(r) /\ Kind[r.targetChain] = "solana"
<1>1. e.on # Nil /\ e.on[1] = FALSE /\ Kind[e.on[2]] = "solana"
  BY DEF AddressOK
<1>2. r.activeStep = 1
  BY <1>1, AddressShown
<1>3. e.on = <<ShouldLockFields(r), r.targetChain, TargetAsset(r)>>
  BY <1>2 DEF AddressOn
<1>4. e.on[1] = ShouldLockFields(r) /\ e.on[2] = r.targetChain
  BY <1>3
<1> QED
  BY <1>1, <1>2, <1>4

\* While a token is selected and nothing is on its way, the address is one of
\* the target chain, or none; and the one that is awaited will be one of the
\* target chain too, unless the effect is about to run again, which clears it.
AddressInv ==
    st.signedVAA = Nil /\ st.account # Nil =>
        /\ st.targetAddress \in {Nil, Kind[st.targetChain]}
        /\ fx.address.busy =>
              \/ Kind[st.targetChain] = "solana"
              \/ AddressOn(st) \notin {fx.address.on, Nil} /\ ~st.isSending

\* No click finds an address awaited for another chain.
LEMMA AddressSettled ==
    ASSUME TypeInv, ~EffectsPending, fx.address.busy
    PROVE  /\ st.activeStep = 1 /\ ~ShouldLockFields(st)
           /\ Kind[st.targetChain] = "solana"
<1>1. SliceOK
  BY TypeParts
<1>2. page = "transfer"
  BY <1>1, AwayIsIdle
<1>3. fx.address.on = AddressOn(st) /\ AddressOK(fx.address) /\ Good(st)
  BY <1>1, <1>2 DEF EffectsPending, SliceOK, FxOK
<1> QED
  BY <1>3, AddressAsked

LEMMA AddressRendered ==
    ASSUME TypeInv, NEW s, Good(s), NEW f, FxOK(f), Renders(s, f), Calm(s),
           \/ f.address = fx.address
           \/ f.address.on = fx.address.on /\ f.address.busy = FALSE,
           s.signedVAA = Nil /\ s.account # Nil =>
              \/ s.targetAddress \in {Nil, Kind[s.targetChain]}
              \/ EffectsPending /\ SyncsAddress(st, f) /\ ~DerivesAddress(st)
    PROVE  AddressInv'
<1>1. Good(st) /\ Good(st')
  BY TypeParts DEF SliceOK, Renders
<1>2. s.targetChain = st.targetChain /\ s.activeStep = st.activeStep
      /\ s.signedVAA = st.signedVAA /\ (s.isSending => st.isSending)
  BY DEF Calm
<1>3. SUFFICES ASSUME st'.signedVAA = Nil, st'.account # Nil
      PROVE  /\ st'.targetAddress \in {Nil, Kind[st'.targetChain]}
             /\ fx'.address.busy =>
                  \/ Kind[st'.targetChain] = "solana"
                  \/ AddressOn(st)' \notin {fx'.address.on, Nil} /\ ~st'.isSending
  BY DEF AddressInv
<1>4. CASE ~EffectsPending
  <2>1. st' = s /\ fx'.address = f.address
    BY <1>4 DEF Renders
  <2>2. fx'.address.busy => Kind[st.targetChain] = "solana"
    BY <1>4, <2>1, AddressSettled
  <2> QED
    BY <1>2, <1>3, <1>4, <2>1, <2>2
<1>5. CASE EffectsPending
  <2>1. fx'.address = AddressEffect(st, f) /\ AddressOK(fx'.address) /\ SameLocks(st', s)
    BY <1>5 DEF Renders, FxOK
  <2>2. fx'.address.on = AddressOn(st)
    <3>1. CASE AddressOn(st) = f.address.on
      BY <2>1, <3>1 DEF AddressEffect
    <3>2. CASE AddressOn(st) # f.address.on
      BY <2>1, <3>2 DEF AddressEffect
    <3> QED
      BY <3>1, <3>2
  <2>3. fx'.address.busy => /\ st.activeStep = 1 /\ ~ShouldLockFields(st)
                            /\ Kind[st.targetChain] = "solana"
    BY <1>1, <2>1, <2>2, AddressAsked
  <2>4. CASE Kept(st', s, st, f)
    <3>1. st'.targetChain = s.targetChain /\ st'.account = s.account
      BY <2>4 DEF Kept, SameForm
    <3>2. s.signedVAA = Nil
      BY <1>3, <2>1 DEF SameLocks
    <3>3. \/ st'.targetAddress = s.targetAddress /\ ~(SyncsAddress(st, f) /\ ~DerivesAddress(st))
          \/ st'.targetAddress \in {Nil, Kind[st.targetChain]}
      BY <2>4 DEF Kept
    <3> QED
      BY <1>2, <1>3, <2>3, <3>1, <3>2, <3>3
  <2>5. CASE Cleared(st', s)
    <3>1. /\ st'.targetAddress = Nil /\ st'.targetAsset = "empty"
          /\ st'.activeStep = s.activeStep /\ st'.account = s.account
      BY <1>3, <2>5 DEF Cleared
    <3>2. ASSUME fx'.address.busy PROVE AddressOn(st') \notin {fx'.address.on, Nil} /\ ~st'.isSending
      <4>1. st'.activeStep = 1 /\ ~st.isSending
        BY <1>2, <2>3, <3>1, <3>2 DEF ShouldLockFields
      <4>2. AddressOn(st') # Nil
        BY <1>1, <4>1, AddressShown
      <4>3. TargetAsset(st') = Nil
        BY <3>1, NilAssumption DEF TargetAsset, AssetStates
      <4>4. AddressOn(st') = <<ShouldLockFields(st'), st'.targetChain, Nil>>
        BY <4>1, <4>3 DEF AddressOn
      <4>5. fx'.address.on # Nil /\ fx'.address.on[3] # Nil
        BY <2>1, <3>2 DEF AddressOK
      <4>6. AddressOn(st')[3] = Nil
        BY <4>4
      <4>7. ~st'.isSending
        BY <1>2, <2>1, <4>1 DEF SameLocks
      <4> QED
        BY <4>2, <4>5, <4>6, <4>7
    <3>3. AddressOn(st)' = AddressOn(st')
      BY DEF AddressOn, ShouldLockFields, TargetAsset
    <3> QED
      BY <3>1, <3>2, <3>3
  <2> QED
    BY <1>5, <2>4, <2>5 DEF Renders
<1> QED
  BY <1>4, <1>5

LEMMA AddressNext == TypeInv /\ AddressInv /\ [Next]_vars => AddressInv'
<1> SUFFICES ASSUME TypeInv, AddressInv, [Next]_vars PROVE AddressInv'
  OBVIOUS
<1>1. Good(st) /\ FxOK(fx) /\ RestOK /\ SliceOK
  BY TypeParts DEF SliceOK
<1>2. ASSUME st' = st, fx'.address = fx.address PROVE AddressInv'
  BY <1>2 DEF AddressInv, AddressOn, ShouldLockFields, TargetAsset
<1>3. ASSUME st'.signedVAA # Nil \/ st'.account = Nil PROVE AddressInv'
  BY <1>3 DEF AddressInv
<1>4. ASSUME st' = st, ~fx'.address.busy PROVE AddressInv'
  BY <1>4 DEF AddressInv
<1>5. ASSUME ~EffectsPending, fx' = fx, st.activeStep # 1 \/ ShouldLockFields(st),
             st'.signedVAA = Nil /\ st'.account # Nil =>
                st'.targetAddress \in {Nil, Kind[st'.targetChain]}
      PROVE  AddressInv'
  BY <1>5, AddressSettled DEF AddressInv
<1>6. ASSUME ~EffectsPending, fx' = fx, st'.targetChain = st.targetChain,
             st'.targetAddress = st.targetAddress, st'.account = st.account,
             st'.signedVAA = st.signedVAA
      PROVE  AddressInv'
  BY <1>6, AddressSettled DEF AddressInv
<1>7. ASSUME NEW c \in Chains, ChooseSourceChain(c) \/ ChooseTargetChain(c) PROVE AddressInv'
  <2>1. st'.targetAddress = Nil
    BY <1>1, <1>7, SourceChainMoves, TargetChainMoves
    DEF ChooseSourceChain, ChooseTargetChain, Click
  <2>2. ~EffectsPending /\ fx' = fx /\ st.activeStep = 0
    BY <1>7 DEF ChooseSourceChain, ChooseTargetChain, Click
  <2> QED
    BY <1>5, <2>1, <2>2
<1>8. CASE ClearOption
  <2>1. st'.account = Nil
    BY <1>1, <1>8, AnswerSlices DEF ClearOption, Click
  <2> QED
    BY <1>3, <2>1
<1>9. CASE SourceNext \/ TargetNext \/ \E n \in 0 .. 1 : StepButton(n)
  <2>1. PICK n : st' = [st EXCEPT !.activeStep = n]
    BY <1>9 DEF SourceNext, TargetNext, StepButton, Click, incrementStep, setStep
  <2>2. ~EffectsPending /\ fx' = fx
    BY <1>9 DEF SourceNext, TargetNext, StepButton, Click
  <2> QED
    BY <1>1, <1>6, <2>1, <2>2 DEF Good, State, TransferState
<1>10. CASE RedeemStepButton
  <2>1. st'.signedVAA = st.signedVAA /\ st.signedVAA # Nil
    BY <1>1, <1>10 DEF RedeemStepButton, Click, setStep, Good, State, TransferState
  <2> QED
    BY <1>3, <2>1
<1>11. CASE ResetClick \/ Reload
  <2>1. st'.account = Nil
    BY <1>1, <1>11, ResetMoves DEF ResetClick, Reload, Click, initialState
  <2> QED
    BY <1>3, <2>1
<1>12. CASE SelectOption \/ OptionFails \/ TransferClick \/ CancelClick
  BY <1>2, <1>12 DEF SelectOption, OptionFails, TransferClick, CancelClick
<1>13. CASE Leave \/ \E link \in Links \cup {Nil} : Return(link)
  <2>1. st' = st /\ fx'.address = Idle.address
    BY <1>13 DEF Leave, Return, Idle
  <2> QED
    BY <1>4, <2>1 DEF Idle
<1>14. ASSUME NEW v \in VAAs, RecoverClick(v) PROVE AddressInv'
  <2>1. st'.account = Nil
    BY <1>1, <1>14, TokenCleared DEF RecoverClick, setRecoveryVaa, Good, State, TransferState
  <2> QED
    BY <1>3, <2>1
<1>15. CASE ConfirmClick
  <2>1. ~EffectsPending /\ fx' = fx /\ (st' = st \/ st' = setIsSending(st, TRUE))
    BY <1>15 DEF ConfirmClick
  <2> QED
    BY <1>1, <1>6, <2>1 DEF setIsSending, Good, State, TransferState
<1>16. CASE RedeemClick
  <2>1. st'.signedVAA = st.signedVAA /\ st.signedVAA # Nil
    BY <1>1, <1>16 DEF RedeemClick, setIsRedeeming, Good, State, TransferState
  <2> QED
    BY <1>3, <2>1
<1>17. ASSUME NEW s, Good(s), NEW f, FxOK(f), f.address = fx.address, Renders(s, f), Calm(s),
              \/ s.account = st.account /\ s.targetAddress = st.targetAddress
              \/ s.targetAddress = Nil
       PROVE  AddressInv'
  <2>1. s.signedVAA = Nil /\ s.account # Nil => s.targetAddress \in {Nil, Kind[s.targetChain]}
    BY <1>17 DEF AddressInv, Calm
  <2> QED
    BY <1>17, <2>1, AddressRendered
<1>18. CASE WrappedAnswer \/ WrappedFails
  <2>1. FxOK(WrappedEnded) /\ WrappedEnded.address = fx.address
    BY <1>1, EndedParts
  <2>2. CASE fx' = WrappedEnded /\ st' = st
    BY <1>2, <2>1, <2>2
  <2>3. CASE Good(WrappedSlice) /\ Renders(WrappedSlice, WrappedEnded)
    <3>1. /\ Calm(WrappedSlice) /\ WrappedSlice.account = st.account
          /\ WrappedSlice.targetAddress = st.targetAddress
      BY <1>1, AnswerSlices DEF WrappedSlice, SameTarget
    <3> HIDE DEF WrappedSlice, WrappedEnded
    <3> QED
      BY <1>17, <2>1, <2>3, <3>1
  <2> QED
    BY <1>18, <2>2, <2>3, WrappedRenders
<1>19. CASE AssetAnswer \/ AssetFails
  <2>1. FxOK(AssetEnded) /\ AssetEnded.address = fx.address
    BY <1>1, EndedParts
  <2>2. PICK a : LET s == setTargetAsset(st, a) IN Good(s) /\ Renders(s, AssetEnded)
    BY <1>19, AssetRenders DEF AssetSlice
  <2>3. LET s == setTargetAsset(st, a)
        IN  Calm(s) /\ s.account = st.account /\ s.targetAddress = st.targetAddress
    BY <1>1, AnswerSlices DEF SameToken
  <2> HIDE DEF AssetEnded
  <2> QED
    BY <1>17, <2>1, <2>2, <2>3
<1>20. CASE AddressAnswer
  <2>1. PICK a \in {"solana", Nil} : /\ Good(setTargetAddressHex(st, a))
                                     /\ Renders(setTargetAddressHex(st, a), AddressEnded)
    BY <1>20, AddressRenders
  <2> DEFINE s == setTargetAddressHex(st, a)
  <2>2. /\ FxOK(AddressEnded) /\ AddressEnded.address.on = fx.address.on
        /\ AddressEnded.address.busy = FALSE /\ fx.address.busy /\ page = "transfer"
    BY <1>1, <1>20, EndedParts, AddressRenders
  <2>3. Calm(s) /\ s.account = st.account /\ s.targetAddress = a
    BY <1>1, AnswerSlices DEF SameToken
  <2> HIDE DEF s
  <2>4. ASSUME s.signedVAA = Nil, s.account # Nil, Kind[st.targetChain] # "solana"
        PROVE  EffectsPending /\ SyncsAddress(st, AddressEnded) /\ ~DerivesAddress(st)
    <3>1. AddressOn(st) \notin {fx.address.on, Nil} /\ ~st.isSending /\ st.signedVAA = Nil
      BY <2>2, <2>3, <2>4 DEF AddressInv, Calm
    <3> QED
      BY <2>2, <2>4, <3>1
      DEF EffectsPending, SyncsAddress, DerivesAddress, ShouldLockFields
  <2>5. s.signedVAA = Nil /\ s.account # Nil =>
              \/ s.targetAddress \in {Nil, Kind[s.targetChain]}
              \/ EffectsPending /\ SyncsAddress(st, AddressEnded) /\ ~DerivesAddress(st)
    BY <2>3, <2>4 DEF Calm
  <2> HIDE DEF AddressEnded
  <2>6. Good(s) /\ Renders(s, AddressEnded)
    BY <2>1 DEF s
  <2> QED
    BY <2>2, <2>3, <2>5, <2>6, AddressRendered
<1>21. ASSUME NEW f, FxOK(f), f.address = fx.address, Renders(st, f) PROVE AddressInv'
  BY <1>1, <1>17, <1>21 DEF Calm
<1>22. CASE DoneAnswer
  <2>1. PICK b \in BOOLEAN : Renders(st, DoneEnded(b))
    BY <1>22, DoneRenders
  <2>2. FxOK(DoneEnded(b)) /\ DoneEnded(b).address = fx.address
    BY <1>1, EndedParts
  <2> HIDE DEF DoneEnded
  <2> QED
    BY <1>21, <2>1, <2>2
<1>23. CASE FlushEffects \/ \E c \in EVMChains : SwitchNetwork(c)
  BY <1>1, <1>21, <1>23, StillRenders
<1>24. CASE OptionSelected
  BY <1>1, <1>17, <1>24, OptionRenders, AnswerSlices
<1>25. ASSUME NEW i \in DOMAIN sends, Sent(i) PROVE AddressInv'
  <2>1. CASE SendConfirmed(i)
    BY <1>2, <2>1 DEF SendConfirmed
  <2>2. CASE SendFails(i) \/ SendNotFound(i)
    BY <1>1, <1>17, <2>2, SendRenders, LockSlices DEF SameTarget, SameToken
  <2>3. CASE GotSignedVAA(i)
    <3>1. Renders(setSignedVAAHex(st, i), fx) /\ i # Nil
      <4>1. i \in Nat
        BY <1>1 DEF RestOK
      <4> QED
        BY <2>3, <4>1, SendRenders, NilAssumption
    <3>2. st'.signedVAA = i
      BY <1>1, <3>1, LockSlices DEF Renders, SameLocks
    <3> QED
      BY <1>3, <3>1, <3>2
  <2> QED
    BY <1>25, <2>1, <2>2, <2>3 DEF Sent
<1>26. ASSUME NEW r \in redeems, RedeemEnds(r) PROVE AddressInv'
  BY <1>1, <1>17, <1>26, RedeemRenders, LockSlices DEF SameTarget, SameToken
<1>27. CASE UNCHANGED vars
  BY <1>2, <1>27 DEF vars
<1> QED
  BY <1>7, <1>8, <1>9, <1>10, <1>11, <1>12, <1>13, <1>14, <1>15, <1>16, <1>18, <1>19, <1>20,
     <1>22, <1>23, <1>24, <1>25, <1>26, <1>27
  DEF Next, User, Answers

-----------------------------------------------------------------------------
(***************************************************************************)
(* The token                                                               *)
(***************************************************************************)

\* What is known of the token is known of an account of the source chain.
TokenFits(s) ==
    /\ s.origin # Nil => /\ s.origin.isWrapped = TRUE => s.account = s.sourceChain
                         /\ s.origin.isToken => s.account \in {s.sourceChain, Nil}
    /\ TargetAsset(s) # Nil => s.account \in {s.sourceChain, Nil}

\* A token picked late is one of the source chain, or there is none to compare
\* it with; and what was looked up was looked up for the source chain.
TokenInv ==
    /\ pick # Nil => pick = st.sourceChain \/ st.account = Nil
    /\ ~slipped => TokenFits(st)

\* The token stays one of the source chain, or is dropped.
TokenStays(s) == s.account = Nil \/ (s.account = st.account /\ s.sourceChain = st.sourceChain)

LEMMA StaysRendered ==
    ASSUME NEW s, NEW f, Renders(s, f), TokenStays(s)
    PROVE  TokenStays(st')
BY DEF Renders, Kept, Cleared, SameForm, TokenStays

LEMMA PickNext ==
    TypeInv /\ TokenInv /\ [Next]_vars =>
        (pick # Nil => pick = st.sourceChain \/ st.account = Nil)'
<1> SUFFICES ASSUME TypeInv, TokenInv, [Next]_vars, pick' # Nil
             PROVE  pick' = st'.sourceChain \/ st'.account = Nil
  OBVIOUS
<1>1. Good(st) /\ FxOK(fx) /\ RestOK /\ SliceOK
  BY TypeParts DEF SliceOK
<1>2. ASSUME pick' = pick, TokenStays(st') PROVE pick' = st'.sourceChain \/ st'.account = Nil
  BY <1>2 DEF TokenInv, TokenStays
<1>3. ASSUME pick' = pick, st' = st PROVE pick' = st'.sourceChain \/ st'.account = Nil
  BY <1>3 DEF TokenInv
<1>4. ASSUME pick' = pick, NEW s, NEW f, Renders(s, f), TokenStays(s)
      PROVE  pick' = st'.sourceChain \/ st'.account = Nil
  BY <1>2, <1>4, StaysRendered
<1>5. ASSUME NEW c \in Chains, ChooseSourceChain(c) \/ ChooseTargetChain(c)
      PROVE  pick' = st'.sourceChain \/ st'.account = Nil
  <2>1. TokenStays(st')
    BY <1>1, <1>5, SourceChainMoves, TargetChainMoves
    DEF ChooseSourceChain, ChooseTargetChain, Click, TokenStays
  <2> QED
    BY <1>2, <1>5, <2>1 DEF ChooseSourceChain, ChooseTargetChain, Click
<1>6. CASE ClearOption
  BY <1>1, <1>6, AnswerSlices DEF ClearOption, Click
<1>7. CASE SourceNext \/ TargetNext \/ RedeemStepButton \/ \E n \in 0 .. 1 : StepButton(n)
  <2>1. PICK n : st' = [st EXCEPT !.activeStep = n]
    BY <1>7
    DEF SourceNext, TargetNext, StepButton, RedeemStepButton, Click, incrementStep, setStep
  <2>2. TokenStays(st')
    BY <1>1, <2>1 DEF TokenStays, Good, State, TransferState
  <2> QED
    BY <1>2, <1>7, <2>2 DEF SourceNext, TargetNext, StepButton, RedeemStepButton, Click
<1>8. CASE ResetClick
  BY <1>1, <1>8, ResetMoves DEF ResetClick, Click
<1>9. CASE SelectOption
  BY <1>9 DEF SelectOption
<1>10. CASE OptionSelected \/ OptionFails \/ Reload
  BY <1>10 DEF OptionSelected, OptionFails, Reload
<1>11. CASE TransferClick \/ CancelClick \/ Leave \/ \E link \in Links \cup {Nil} : Return(link)
  BY <1>3, <1>11 DEF TransferClick, CancelClick, Leave, Return
<1>12. ASSUME NEW v \in VAAs, RecoverClick(v) PROVE st'.account = Nil
  BY <1>1, <1>12, TokenCleared DEF RecoverClick, setRecoveryVaa, Good, State, TransferState
<1>13. CASE ConfirmClick \/ RedeemClick
  <2>1. st' = st \/ st' = setIsSending(st, TRUE) \/ st' = setIsRedeeming(st, TRUE)
    BY <1>13 DEF ConfirmClick, RedeemClick
  <2>2. TokenStays(st')
    BY <1>1, <2>1 DEF TokenStays, setIsSending, setIsRedeeming, Good, State, TransferState
  <2> QED
    BY <1>2, <1>13, <2>2 DEF ConfirmClick, RedeemClick
<1>14. TokenStays(st)
  BY DEF TokenStays
<1>15. ASSUME unchangedByAnswer PROVE pick' = pick
  BY <1>15 DEF unchangedByAnswer
<1>16. CASE WrappedAnswer \/ WrappedFails
  <2>1. TokenStays(WrappedSlice) /\ pick' = pick
    BY <1>1, <1>15, <1>16, AnswerSlices
    DEF WrappedSlice, TokenStays, Calm, WrappedAnswer, WrappedFails
  <2> HIDE DEF WrappedSlice
  <2> QED
    BY <1>3, <1>4, <1>16, <2>1, WrappedRenders
<1>17. CASE AssetAnswer \/ AssetFails
  <2>1. PICK a : Renders(setTargetAsset(st, a), AssetEnded)
    BY <1>17, AssetRenders DEF AssetSlice
  <2>2. TokenStays(setTargetAsset(st, a)) /\ pick' = pick
    BY <1>1, <1>15, <1>17, AnswerSlices
    DEF TokenStays, Calm, SameToken, AssetAnswer, AssetFails
  <2> QED
    BY <1>4, <2>1, <2>2
<1>18. CASE AddressAnswer
  <2>1. PICK a : Renders(setTargetAddressHex(st, a), AddressEnded)
    BY <1>18, AddressRenders
  <2>2. TokenStays(setTargetAddressHex(st, a)) /\ pick' = pick
    BY <1>1, <1>15, <1>18, AnswerSlices DEF TokenStays, Calm, SameToken, AddressAnswer
  <2> QED
    BY <1>4, <2>1, <2>2
<1>19. CASE DoneAnswer
  BY <1>4, <1>14, <1>15, <1>19, DoneRenders DEF DoneAnswer
<1>20. CASE FlushEffects \/ \E c \in EVMChains : SwitchNetwork(c)
  BY <1>4, <1>14, <1>20, StillRenders DEF FlushEffects, SwitchNetwork
<1>21. ASSUME NEW i \in DOMAIN sends, Sent(i)
       PROVE  pick' = st'.sourceChain \/ st'.account = Nil
  <2>1. pick' = pick
    BY <1>21 DEF Sent, SendConfirmed, SendFails, SendNotFound, GotSignedVAA, unchangedBySend
  <2>2. TokenStays(setIsSending(st, FALSE)) /\ TokenStays(setSignedVAAHex(st, i))
    BY <1>1, LockSlices DEF TokenStays, SameToken, Calm
  <2>3. CASE SendConfirmed(i)
    BY <1>3, <2>1, <2>3 DEF SendConfirmed
  <2>4. CASE SendFails(i) \/ SendNotFound(i) \/ GotSignedVAA(i)
    BY <1>4, <2>1, <2>2, <2>4, SendRenders
  <2> QED
    BY <1>21, <2>3, <2>4 DEF Sent
<1>22. ASSUME NEW r \in redeems, RedeemEnds(r)
       PROVE  pick' = st'.sourceChain \/ st'.account = Nil
  <2>1. pick' = pick
    BY <1>22 DEF RedeemEnds
  <2>2. TokenStays(setRedeemTx(st)) /\ TokenStays(setIsRedeeming(st, FALSE))
    BY <1>1, LockSlices DEF TokenStays, SameToken, Calm
  <2> QED
    BY <1>4, <1>22, <2>1, <2>2, RedeemRenders
<1>23. CASE UNCHANGED vars
  BY <1>3, <1>23 DEF vars
<1> QED
  BY <1>5, <1>6, <1>7, <1>8, <1>9, <1>10, <1>11, <1>12, <1>13, <1>16, <1>17, <1>18, <1>19,
     <1>20, <1>21, <1>22, <1>23
  DEF Next, User, Answers

\* An asset is only shown as found on a chain.
LEMMA NoAsset == ASSUME NEW s PROVE s.targetAsset \in AssetStates => TargetAsset(s) = Nil
BY NilAssumption DEF TargetAsset

LEMMA TokenRendered ==
    ASSUME TypeInv, NEW s, Good(s), NEW f, Renders(s, f), TokenFits(s),
           GoesHome(st) => s.account \in {s.sourceChain, Nil}
    PROVE  TokenFits(st')
<1>1. CASE ~EffectsPending
  BY <1>1 DEF Renders
<1>2. CASE EffectsPending /\ Kept(st', s, st, f)
  <2>1. /\ st'.origin = s.origin /\ st'.account = s.account
        /\ st'.sourceChain = s.sourceChain
    BY <1>2 DEF Kept, SameForm
  <2>2. \/ st'.targetAsset = s.targetAsset \/ st'.targetAsset = "fetching"
        \/ GoesHome(st)
    BY <1>2 DEF Kept
  <2>3. TargetAsset(st') # Nil => TargetAsset(s) # Nil \/ GoesHome(st)
    BY <2>2, NoAsset DEF TargetAsset, AssetStates
  <2> QED
    BY <2>1, <2>3 DEF TokenFits
<1>3. CASE EffectsPending /\ Cleared(st', s)
  <2>1. TargetAsset(st') = Nil
    BY <1>3, NoAsset DEF Cleared, AssetStates
  <2>2. \/ st'.account = Nil /\ st'.origin = Nil
        \/ /\ st'.account = s.account /\ st'.origin = s.origin
           /\ st'.sourceChain = s.sourceChain
    BY <1>3 DEF Cleared
  <2> QED
    BY <2>1, <2>2 DEF TokenFits
<1> QED
  BY <1>1, <1>2, <1>3 DEF Renders

\* What the wrapped look-up finds is true of the account it was asked about.
LEMMA WrappedFits ==
    ASSUME NEW c \in Chains, NEW a \in Chains, NEW o, o = WrappedInfo(c, a)
    PROVE  (o.isWrapped = TRUE => a = c) /\ (o.isToken => a = c)
BY DEF WrappedInfo

LEMMA FitsNext == TypeInv /\ TokenInv /\ [Next]_vars => (~slipped => TokenFits(st))'
<1> SUFFICES ASSUME TypeInv, TokenInv, [Next]_vars, ~slipped'
             PROVE  TokenFits(st')
  BY DEF TokenFits, TargetAsset
<1>1. Good(st) /\ FxOK(fx) /\ RestOK /\ SliceOK
  BY TypeParts DEF SliceOK
<1>2. ASSUME ~slipped, st' = st PROVE TokenFits(st')
  BY <1>2 DEF TokenInv
<1>3. ASSUME st'.origin = Nil, st'.targetAsset = "empty" PROVE TokenFits(st')
  BY <1>3, NoAsset DEF TokenFits, AssetStates
<1>4. ASSUME ~slipped, NEW s, SameToken(s), s.sourceChain = st.sourceChain,
             s.targetAsset \in {st.targetAsset} \cup AssetStates
      PROVE  TokenFits(s) /\ (GoesHome(st) => s.account \in {s.sourceChain, Nil})
  <2>1. TargetAsset(s) # Nil => TargetAsset(st) # Nil
    BY <1>4, NoAsset DEF TargetAsset
  <2>2. TokenFits(st)
    BY <1>4 DEF TokenInv
  <2> QED
    BY <1>4, <2>1, <2>2 DEF TokenFits, SameToken, GoesHome
<1>5. ASSUME NEW s, Good(s), NEW f, Renders(s, f), ~slipped, SameToken(s),
             s.sourceChain = st.sourceChain,
             s.targetAsset \in {st.targetAsset} \cup AssetStates
      PROVE  TokenFits(st')
  BY <1>4, <1>5, TokenRendered
<1>6. ASSUME NEW c \in Chains, ChooseSourceChain(c) PROVE TokenFits(st')
  BY <1>1, <1>3, <1>6, SourceChainMoves DEF ChooseSourceChain, Click
<1>7. ASSUME NEW c \in Chains, ChooseTargetChain(c) PROVE TokenFits(st')
  <2>1. /\ st'.targetAsset = "empty"
        /\ \/ st'.origin = Nil
           \/ SameToken(st') /\ st'.sourceChain = st.sourceChain
    BY <1>1, <1>7, TargetChainMoves DEF ChooseTargetChain, Click, SameToken
  <2>2. ~slipped
    BY <1>7 DEF ChooseTargetChain, Click
  <2> QED
    BY <1>3, <1>4, <2>1, <2>2 DEF AssetStates
<1>8. CASE ClearOption
  BY <1>1, <1>3, <1>8, AnswerSlices DEF ClearOption, Click
<1>9. CASE SourceNext \/ TargetNext \/ RedeemStepButton \/ \E n \in 0 .. 1 : StepButton(n)
  <2>1. PICK n : st' = [st EXCEPT !.activeStep = n]
    BY <1>9
    DEF SourceNext, TargetNext, StepButton, RedeemStepButton, Click, incrementStep, setStep
  <2>2. SameToken(st') /\ st'.sourceChain = st.sourceChain /\ st'.targetAsset = st.targetAsset
    BY <1>1, <2>1 DEF SameToken, Good, State, TransferState
  <2>3. ~slipped
    BY <1>9 DEF SourceNext, TargetNext, StepButton, RedeemStepButton, Click
  <2> QED
    BY <1>4, <2>2, <2>3
<1>10. CASE ResetClick \/ Reload
  <2>1. st'.origin = Nil /\ st'.targetAsset = "empty"
    BY <1>1, <1>10, ResetMoves DEF ResetClick, Reload, Click, initialState, EmptyWrapper
  <2> QED
    BY <1>3, <2>1
<1>11. CASE SelectOption \/ OptionFails \/ TransferClick \/ CancelClick \/ Leave
            \/ \E link \in Links \cup {Nil} : Return(link)
  BY <1>2, <1>11 DEF SelectOption, OptionFails, TransferClick, CancelClick, Leave, Return
<1>12. ASSUME NEW v \in VAAs, RecoverClick(v) PROVE TokenFits(st')
  <2>1. TargetOf(v) \in Chains
    <3>1. v = 0 \/ v \in DOMAIN sends
      BY <1>12 DEF RecoverClick, Signed
    <3>2. ASSUME v \in DOMAIN sends PROVE sends[v] \in Calls(SendPhases)
      BY <1>1, <3>2 DEF RestOK, SendPhases
    <3> QED
      BY <3>1, <3>2, ConstantsAssumption DEF TargetOf, Calls
  <2>2. /\ st'.account = Nil /\ st'.origin.isWrapped = Nil /\ st'.targetAsset = "empty"
    BY <1>1, <1>12, <2>1, RecoveryMoves DEF RecoverClick
  <2>3. TargetAsset(st') = Nil
    BY <2>2, NoAsset DEF AssetStates
  <2> QED
    BY <2>2, <2>3, NilAssumption DEF TokenFits
<1>13. CASE ConfirmClick \/ RedeemClick
  <2>1. st' = st \/ st' = setIsSending(st, TRUE) \/ st' = setIsRedeeming(st, TRUE)
    BY <1>13 DEF ConfirmClick, RedeemClick
  <2>2. SameToken(st') /\ st'.sourceChain = st.sourceChain /\ st'.targetAsset = st.targetAsset
    BY <1>1, <2>1
    DEF SameToken, setIsSending, setIsRedeeming, Good, State, TransferState
  <2>3. ~slipped
    BY <1>13 DEF ConfirmClick, RedeemClick
  <2> QED
    BY <1>4, <2>2, <2>3
<1>14. ASSUME unchangedByAnswer PROVE ~slipped /\ ~EffectsPending
  BY <1>14 DEF unchangedByAnswer
<1>15. CASE WrappedAnswer \/ WrappedFails
  <2> DEFINE c == fx.wrapped.on[2]
             a == fx.wrapped.on[3]
  <2>1. ~slipped /\ ~EffectsPending
    BY <1>14, <1>15 DEF WrappedAnswer, WrappedFails
  <2>2. CASE st' = st
    BY <1>2, <2>1, <2>2
  <2>3. CASE Good(WrappedSlice) /\ Renders(WrappedSlice, WrappedEnded)
    <3>1. st' = WrappedSlice /\ c \in Chains /\ a \in Chains /\ page = "transfer"
      BY <1>15, <2>1, <2>3, WrappedRenders DEF Renders
    <3>2. c = st.sourceChain /\ a = st.account
      BY <2>1, <3>1 DEF EffectsPending, WrappedOn
    <3>3. /\ st'.account = st.account /\ st'.sourceChain = st.sourceChain
          /\ st'.targetAsset = st.targetAsset /\ st'.origin = WrappedInfo(c, a)
      BY <1>1, <3>1, AnswerSlices DEF WrappedSlice, Calm, SameTarget
    <3>4. (st'.origin.isWrapped = TRUE => a = c) /\ (st'.origin.isToken => a = c)
      BY <3>1, <3>3, WrappedFits
    <3>5. TokenFits(st) /\ TargetAsset(st') = TargetAsset(st)
      BY <2>1, <3>3 DEF TokenInv, TargetAsset
    <3> HIDE DEF c, a
    <3> QED
      BY <3>2, <3>3, <3>4, <3>5 DEF TokenFits
  <2> QED
    BY <1>15, <2>2, <2>3, WrappedRenders
<1>16. CASE AssetAnswer \/ AssetFails
  <2>1. ~slipped /\ ~EffectsPending
    BY <1>14, <1>16 DEF AssetAnswer, AssetFails
  <2>2. fx.asset.busy /\ page = "transfer"
    BY <1>16, AssetRenders
  <2>3. CASE Renders(setTargetAsset(st, "error"), AssetEnded)
    <3>1. st' = setTargetAsset(st, "error")
      BY <2>1, <2>3 DEF Renders
    <3>2. SameToken(st') /\ st'.sourceChain = st.sourceChain /\ st'.targetAsset = "error"
      BY <1>1, <3>1, AnswerSlices DEF Calm
    <3> QED
      BY <1>4, <2>1, <3>2 DEF AssetStates
  <2>4. CASE Renders(AssetSlice, AssetEnded)
    <3> DEFINE x == ForeignAsset(fx.asset.on[1][1], fx.asset.on[1][2])
    <3>1. st' = AssetSlice
      BY <2>1, <2>4 DEF Renders
    <3>2. fx.asset.on = AssetOn(st, fx) /\ fx.asset.on[1][1] # Nil
      BY <1>1, <2>1, <2>2 DEF EffectsPending, FxOK, AssetOK
    <3>3. fx.asset.on[1] = <<st.origin, st.targetChain>>
      BY <3>2 DEF AssetOn, AssetArgs
    <3>4. st.origin # Nil /\ x = ForeignAsset(st.origin, st.targetChain)
      BY <3>2, <3>3
    <3>5. SameToken(st') /\ st'.sourceChain = st.sourceChain /\ st'.targetAsset = x
      BY <1>1, <3>1, AnswerSlices DEF AssetSlice, Calm
    <3>6. CASE x = "missing"
      BY <1>4, <2>1, <3>5, <3>6 DEF AssetStates
    <3>7. CASE st.origin.isToken
      <4>1. TokenFits(st) /\ st.account \in {st.sourceChain, Nil}
        BY <2>1, <3>4, <3>7 DEF TokenInv, TokenFits
      <4> QED
        BY <3>5, <4>1 DEF TokenFits, SameToken
    <3> QED
      BY <3>4, <3>6, <3>7 DEF ForeignAsset
  <2> QED
    BY <1>16, <2>3, <2>4, AssetRenders
<1>17. CASE AddressAnswer
  <2>1. PICK a : /\ Good(setTargetAddressHex(st, a))
                 /\ Renders(setTargetAddressHex(st, a), AddressEnded)
    BY <1>17, AddressRenders
  <2>2. /\ ~slipped /\ SameToken(setTargetAddressHex(st, a))
        /\ setTargetAddressHex(st, a).sourceChain = st.sourceChain
        /\ setTargetAddressHex(st, a).targetAsset = st.targetAsset
    BY <1>1, <1>14, <1>17, AnswerSlices DEF Calm, AddressAnswer
  <2> QED
    BY <1>5, <2>1, <2>2
<1>18. SameToken(st)
  BY DEF SameToken
<1>19. CASE DoneAnswer
  BY <1>1, <1>5, <1>14, <1>18, <1>19, DoneRenders DEF DoneAnswer
<1>20. CASE FlushEffects \/ \E c \in EVMChains : SwitchNetwork(c)
  BY <1>1, <1>5, <1>18, <1>20, StillRenders DEF FlushEffects, SwitchNetwork
<1>21. CASE OptionSelected
  <2> DEFINE s == setSourceParsedTokenAccount(st, pick)
  <2>1. pick \in Chains /\ Good(s) /\ Renders(s, fx) /\ ~slipped
    BY <1>21, OptionRenders DEF OptionSelected
  <2>2. /\ s.account = pick /\ s.origin = Nil /\ s.targetAsset = "empty"
        /\ s.sourceChain = st.sourceChain
    BY <1>1, AnswerSlices DEF Calm
  <2>3. TokenFits(s)
    BY <2>2, NoAsset DEF TokenFits, AssetStates
  <2>4. GoesHome(st) => s.account = s.sourceChain
    <3>1. GoesHome(st) => st.account = st.sourceChain
      BY <2>1 DEF TokenInv, TokenFits, GoesHome
    <3>2. st.sourceChain # Nil /\ pick # Nil
      BY <1>1, <2>1, NilAssumption DEF Good, State, TransferState
    <3> QED
      BY <2>2, <3>1, <3>2 DEF TokenInv
  <2> HIDE DEF s
  <2> QED
    BY <2>1, <2>3, <2>4, TokenRendered
<1>22. ASSUME NEW i \in DOMAIN sends, Sent(i) PROVE TokenFits(st')
  <2>1. ~slipped
    BY <1>22 DEF Sent, SendConfirmed, SendFails, SendNotFound, GotSignedVAA, unchangedBySend
  <2>2. CASE SendConfirmed(i)
    BY <1>2, <2>1, <2>2 DEF SendConfirmed
  <2>3. CASE SendFails(i) \/ SendNotFound(i)
    BY <1>1, <1>5, <2>1, <2>3, SendRenders, LockSlices DEF SameTarget, Calm
  <2>4. CASE GotSignedVAA(i)
    BY <1>1, <1>5, <2>1, <2>4, SendRenders, LockSlices DEF SameTarget
  <2> QED
    BY <1>22, <2>2, <2>3, <2>4 DEF Sent
<1>23. ASSUME NEW r \in redeems, RedeemEnds(r) PROVE TokenFits(st')
  <2>1. ~slipped
    BY <1>23 DEF RedeemEnds
  <2> QED
    BY <1>1, <1>5, <1>23, <2>1, RedeemRenders, LockSlices DEF SameTarget, Calm
<1>24. CASE UNCHANGED vars
  BY <1>2, <1>24 DEF vars
<1> QED
  BY <1>6, <1>7, <1>8, <1>9, <1>10, <1>11, <1>12, <1>13, <1>15, <1>16, <1>17, <1>19, <1>20,
     <1>21, <1>22, <1>23, <1>24
  DEF Next, User, Answers

LEMMA TokenNext == TypeInv /\ TokenInv /\ [Next]_vars => TokenInv'
BY PickNext, FitsNext DEF TokenInv

-----------------------------------------------------------------------------
(***************************************************************************)
(* The confirmation dialog                                                 *)
(***************************************************************************)

\* What TransferClick asked still holds when the dialog is answered, although
\* the dialog does not ask again.
ConfirmInv ==
    isConfirmOpen =>
        /\ ~ShouldLockFields(st) /\ ~fx.address.busy /\ fx.path = Nil
        /\ ~slipped /\ st.targetAddress # Nil => st.account \in {st.sourceChain, Nil}

LEMMA ConfirmRendered ==
    ASSUME TypeInv, ConfirmInv, isConfirmOpen', slipped => slipped',
           NEW s, Good(s), NEW f, FxOK(f), Renders(s, f),
           s.activeStep = st.activeStep => Calm(s), f.path = fx.path,
           f.address = fx.address, s.account = st.account \/ s.targetAddress = Nil,
           s.targetAddress \in {st.targetAddress, Nil},
           s.activeStep \in {st.activeStep, 3}
    PROVE  ConfirmInv'
<1>1. SliceOK
  BY TypeParts
<1>2. isConfirmOpen /\ st'.activeStep = 2
  BY DEF Renders
<1>3. /\ page = "transfer" /\ st.activeStep = 2
      /\ ~ShouldLockFields(st) /\ ~fx.address.busy /\ fx.path = Nil
      /\ ~slipped /\ st.targetAddress # Nil => st.account \in {st.sourceChain, Nil}
  BY <1>1, <1>2 DEF SliceOK, ConfirmInv
<1>4. CASE ~EffectsPending
  <2>1. st' = s /\ fx'.path = Nil /\ ~fx'.address.busy
    BY <1>3, <1>4 DEF Renders
  <2>2. Calm(s)
    BY <1>2, <1>3, <2>1
  <2>3. ~ShouldLockFields(st')
    BY <1>3, <2>1, <2>2 DEF Calm, ShouldLockFields
  <2> QED
    BY <1>3, <2>1, <2>2, <2>3 DEF ConfirmInv, Calm, SameToken, ShouldLockFields
<1>5. CASE EffectsPending
  <2>1. /\ fx'.path = Nil /\ fx'.address = AddressEffect(st, f) /\ SameLocks(st', s)
        /\ Kept(st', s, st, f)
    BY <1>3, <1>5 DEF Renders
  <2>2. AddressOn(st) = Nil
    BY <1>1, <1>3, AddressShown DEF SliceOK
  <2>3. ~fx'.address.busy
    <3>1. CASE f.address.on = Nil
      BY <1>3, <2>1, <2>2, <3>1 DEF AddressEffect
    <3>2. CASE f.address.on # Nil
      <4>1. AddressEffect(st, f).busy = (SyncsAddress(st, f) /\ DerivesAddress(st))
        BY <2>2, <3>2 DEF AddressEffect
      <4>2. ~SyncsAddress(st, f)
        BY <2>2 DEF SyncsAddress
      <4> QED
        BY <2>1, <4>1, <4>2
    <3> QED
      BY <3>1, <3>2
  <2>4. /\ st'.activeStep = s.activeStep /\ st'.account = s.account
        /\ st'.sourceChain = s.sourceChain /\ st'.targetAddress = s.targetAddress
    BY <2>1, <2>2 DEF Kept, SameForm, SyncsAddress
  <2>5. Calm(s)
    BY <1>2, <1>3, <2>4
  <2>6. ~ShouldLockFields(st')
    BY <1>3, <2>1, <2>5 DEF Calm, ShouldLockFields, SameLocks
  <2> QED
    BY <1>3, <2>1, <2>3, <2>4, <2>5, <2>6 DEF ConfirmInv, Calm, SameToken, ShouldLockFields
<1> QED
  BY <1>4, <1>5

\* A click that is possible over an open dialog leaves step 3.
LEMMA ClickCloses ==
    ASSUME TypeInv, NEW s, Click(s), st.activeStep # 2 \/ s.activeStep # 2
    PROVE  ~isConfirmOpen'
BY TypeParts DEF Click, SliceOK

LEMMA ConfirmNext == TypeInv /\ TokenInv /\ ConfirmInv /\ [Next]_vars => ConfirmInv'
<1> SUFFICES ASSUME TypeInv, TokenInv, ConfirmInv, [Next]_vars, isConfirmOpen' PROVE ConfirmInv'
  BY DEF ConfirmInv
<1>1. Good(st) /\ FxOK(fx) /\ RestOK /\ SliceOK
  BY TypeParts DEF SliceOK
<1>2. ASSUME isConfirmOpen' = isConfirmOpen, st' = st, fx'.address = fx.address,
             fx'.path = fx.path, slipped => slipped'
      PROVE  ConfirmInv'
  BY <1>2 DEF ConfirmInv, ShouldLockFields
<1>3. ASSUME NEW c \in Chains, ChooseSourceChain(c) \/ ChooseTargetChain(c) PROVE FALSE
  BY <1>3, ClickCloses DEF ChooseSourceChain, ChooseTargetChain
<1>4. ~(ClearOption \/ SourceNext \/ TargetNext \/ ResetClick)
  BY ClickCloses DEF ClearOption, SourceNext, TargetNext, ResetClick
<1>5. ASSUME NEW n \in 0 .. 3, n # 2 PROVE ~Click(setStep(st, n))
  <2>1. setStep(st, n).activeStep = n
    BY <1>1 DEF setStep, Good, State, TransferState
  <2> QED
    BY <1>5, <2>1, ClickCloses
<1>6. ~RedeemStepButton /\ \A n \in 0 .. 1 : ~StepButton(n)
  BY <1>5 DEF RedeemStepButton, StepButton
<1>7. ~(CancelClick \/ ConfirmClick \/ Leave \/ Reload)
  BY DEF CancelClick, ConfirmClick, Leave, Reload
<1>8. CASE SelectOption \/ OptionFails
  BY <1>2, <1>8 DEF SelectOption, OptionFails
<1>9. CASE TransferClick
  <2>1. /\ st' = st /\ fx' = fx /\ slipped' = slipped /\ ~EffectsPending
        /\ page = "transfer" /\ st.activeStep = 2 /\ ~ShouldLockFields(st)
        /\ TargetAsset(st) # Nil
    BY <1>9 DEF TransferClick, IsTargetComplete
  <2>2. ~fx.address.busy
    BY <2>1, AddressSettled
  <2>3. fx.path = Nil
    BY <2>1 DEF EffectsPending
  <2>4. ~slipped => st.account \in {st.sourceChain, Nil}
    BY <2>1 DEF TokenInv, TokenFits
  <2> QED
    BY <2>1, <2>2, <2>3, <2>4 DEF ConfirmInv, ShouldLockFields
<1>10. ~RedeemClick
  <2>1. ASSUME RedeemClick PROVE st.activeStep = 3 /\ isConfirmOpen
    BY <2>1 DEF RedeemClick
  <2>2. isConfirmOpen => st.activeStep = 2
    BY <1>1 DEF SliceOK
  <2> QED
    BY <2>1, <2>2
<1>11. ASSUME NEW x, Return(x) \/ RecoverClick(x) PROVE FALSE
  BY <1>1, <1>11 DEF Return, RecoverClick, SliceOK
<1>12. ASSUME NEW s, Good(s), NEW f, FxOK(f), Renders(s, f), slipped => slipped',
              Calm(s) \/ s.activeStep = 3, f.path = fx.path, f.address = fx.address,
              s.account = st.account \/ s.targetAddress = Nil,
              s.targetAddress \in {st.targetAddress, Nil}
       PROVE  ConfirmInv'
  <2>1. st.activeStep = 2
    BY <1>1, <1>12 DEF SliceOK, Renders
  <2>2. s.activeStep \in {st.activeStep, 3} /\ (s.activeStep = st.activeStep => Calm(s))
    BY <1>12, <2>1 DEF Calm
  <2> QED
    BY <1>12, <2>2, ConfirmRendered
<1>13. ASSUME unchangedByAnswer PROVE slipped => slipped'
  BY <1>13 DEF unchangedByAnswer
<1>14. CASE WrappedAnswer \/ WrappedFails
  <2>1. /\ FxOK(WrappedEnded) /\ WrappedEnded.path = fx.path
        /\ WrappedEnded.address = fx.address /\ (slipped => slipped')
    BY <1>1, <1>13, <1>14, EndedParts DEF WrappedAnswer, WrappedFails
  <2>2. CASE fx' = WrappedEnded /\ UNCHANGED <<st, isConfirmOpen>>
    BY <1>2, <2>1, <2>2
  <2>3. CASE Good(WrappedSlice) /\ Renders(WrappedSlice, WrappedEnded)
    <3>1. /\ Calm(WrappedSlice) /\ WrappedSlice.targetAddress = st.targetAddress
          /\ WrappedSlice.account = st.account
      BY <1>1, AnswerSlices DEF WrappedSlice, SameTarget
    <3> QED
      BY <1>12, <2>1, <2>3, <3>1
  <2> QED
    BY <1>14, <2>2, <2>3, WrappedRenders
<1>15. CASE AssetAnswer \/ AssetFails
  <2>1. /\ FxOK(AssetEnded) /\ AssetEnded.path = fx.path
        /\ AssetEnded.address = fx.address /\ (slipped => slipped')
    BY <1>1, <1>13, <1>15, EndedParts DEF AssetAnswer, AssetFails
  <2>2. PICK a : LET s == setTargetAsset(st, a) IN Good(s) /\ Renders(s, AssetEnded)
    BY <1>15, AssetRenders DEF AssetSlice
  <2>3. LET s == setTargetAsset(st, a)
        IN  Calm(s) /\ s.account = st.account /\ s.targetAddress = st.targetAddress
    BY <1>1, AnswerSlices DEF SameToken
  <2> HIDE DEF AssetEnded
  <2> QED
    BY <1>12, <2>1, <2>2, <2>3
<1>16. ~AddressAnswer
  <2>1. ASSUME AddressAnswer PROVE fx.address.busy /\ isConfirmOpen
    BY <2>1, AddressRenders DEF Renders
  <2> QED
    BY <2>1 DEF ConfirmInv
<1>17. SameToken(st) /\ Calm(st)
  BY DEF SameToken, Calm
<1>18. CASE DoneAnswer
  <2>1. PICK b \in BOOLEAN : Renders(st, DoneEnded(b))
    BY <1>18, DoneRenders
  <2>2. /\ FxOK(DoneEnded(b)) /\ DoneEnded(b).path = fx.path
        /\ DoneEnded(b).address = fx.address /\ (slipped => slipped')
    BY <1>1, <1>13, <1>18, EndedParts DEF DoneAnswer
  <2> HIDE DEF DoneEnded
  <2> QED
    BY <1>1, <1>12, <1>17, <2>1, <2>2
<1>19. CASE FlushEffects \/ \E c \in EVMChains : SwitchNetwork(c)
  <2>1. slipped' = slipped
    BY <1>19 DEF FlushEffects, SwitchNetwork
  <2> QED
    BY <1>1, <1>12, <1>17, <1>19, <2>1, StillRenders
<1>20. CASE OptionSelected
  <2>1. slipped' = slipped
    BY <1>20 DEF OptionSelected
  <2> QED
    BY <1>1, <1>12, <1>20, <2>1, OptionRenders, AnswerSlices
<1>21. ASSUME NEW i \in DOMAIN sends, Sent(i) PROVE ConfirmInv'
  <2>1. slipped' = slipped
    BY <1>21 DEF Sent, SendConfirmed, SendFails, SendNotFound, GotSignedVAA, unchangedBySend
  <2>2. CASE SendConfirmed(i)
    BY <1>2, <2>1, <2>2 DEF SendConfirmed
  <2>3. CASE SendFails(i) \/ SendNotFound(i)
    BY <1>1, <1>12, <2>1, <2>3, SendRenders, LockSlices DEF SameTarget, SameToken
  <2>4. CASE GotSignedVAA(i)
    BY <1>1, <1>12, <2>1, <2>4, SendRenders, LockSlices DEF SameTarget, SameToken
  <2> QED
    BY <1>21, <2>2, <2>3, <2>4 DEF Sent
<1>22. ASSUME NEW r \in redeems, RedeemEnds(r) PROVE ConfirmInv'
  <2>1. slipped' = slipped
    BY <1>22 DEF RedeemEnds
  <2> QED
    BY <1>1, <1>12, <1>22, <2>1, RedeemRenders, LockSlices DEF SameTarget, SameToken
<1>23. CASE UNCHANGED vars
  BY <1>2, <1>23 DEF vars
<1> QED
  BY <1>3, <1>4, <1>6, <1>7, <1>8, <1>9, <1>10, <1>11, <1>14, <1>15, <1>16, <1>18, <1>19,
     <1>20, <1>21, <1>22, <1>23
  DEF Next, User, Answers

-----------------------------------------------------------------------------
(***************************************************************************)
(* What is sent                                                            *)
(***************************************************************************)

LEMMA SentNext ==
    TypeInv /\ AddressInv /\ ConfirmInv /\ SentIsConsistent /\ [Next]_vars
        => SentIsConsistent'
<1> SUFFICES ASSUME TypeInv, AddressInv, ConfirmInv, SentIsConsistent, [Next]_vars
             PROVE  SentIsConsistent'
  OBVIOUS
<1>1. RestOK /\ SliceOK /\ Good(st)
  BY TypeParts DEF SliceOK
<1>2. ASSUME UNCHANGED sends, slipped => slipped' PROVE SentIsConsistent'
  BY <1>2 DEF SentIsConsistent
<1>3. CASE ConfirmClick
  <2>1. CASE st.account # Nil /\ st.targetAddress # Nil
    <3>1. /\ ~ShouldLockFields(st) /\ isConfirmOpen
          /\ ~slipped => st.account \in {st.sourceChain, Nil}
      BY <1>3, <2>1 DEF ConfirmClick, ConfirmInv
    <3>2. st.targetAddress = Kind[st.targetChain]
      BY <2>1, <3>1 DEF AddressInv, ShouldLockFields
    <3> DEFINE c(b) == [sourceChain |-> st.sourceChain, account |-> st.account,
                        targetChain |-> st.targetChain, recipient |-> st.targetAddress,
                        reaches |-> b, phase |-> "signing"]
    <3>3. PICK b \in BOOLEAN : Len(sends) < MaxSends /\ sends' = Append(sends, c(b))
      BY <1>3, <2>1 DEF ConfirmClick, isReady
    <3>4. /\ DOMAIN sends' = DOMAIN sends \cup {Len(sends) + 1}
          /\ sends'[Len(sends) + 1] = c(b)
          /\ \A j \in DOMAIN sends : sends'[j] = sends[j]
      BY <2>1, <3>3, SendGrows
    <3>5. slipped' = slipped
      BY <1>3 DEF ConfirmClick
    <3>6. ASSUME NEW i \in DOMAIN sends'
          PROVE  /\ slipped' \/ sends'[i].account = sends'[i].sourceChain
                 /\ sends'[i].recipient = Kind[sends'[i].targetChain]
      <4>1. CASE i \in DOMAIN sends
        BY <3>4, <3>5, <4>1 DEF SentIsConsistent
      <4>2. CASE i = Len(sends) + 1
        BY <2>1, <3>1, <3>2, <3>4, <3>5, <4>2
      <4> QED
        BY <3>4, <4>1, <4>2
    <3> QED
      BY <3>6 DEF SentIsConsistent
  <2>2. CASE ~(st.account # Nil /\ st.targetAddress # Nil)
    BY <1>2, <1>3, <2>2 DEF ConfirmClick
  <2> QED
    BY <2>1, <2>2
<1>4. ASSUME NEW i \in DOMAIN sends, Sent(i) PROVE SentIsConsistent'
  <2>1. PICK p \in SendPhases : sends' = [sends EXCEPT ![i].phase = p]
    BY <1>4 DEF Sent, SendConfirmed, SendFails, SendNotFound, GotSignedVAA, SendPhases
  <2>2. slipped' = slipped
    BY <1>4 DEF Sent, SendConfirmed, SendFails, SendNotFound, GotSignedVAA, unchangedBySend
  <2>3. /\ DOMAIN sends' = DOMAIN sends /\ sends'[i] = [sends[i] EXCEPT !.phase = p]
        /\ \A j \in DOMAIN sends \ {i} : sends'[j] = sends[j]
    BY <1>1, <2>1, PhaseMoves DEF RestOK, SendPhases
  <2>4. sends[i] \in Calls(SendPhases)
    BY <1>1 DEF RestOK, SendPhases
  <2>5. /\ sends'[i].account = sends[i].account /\ sends'[i].sourceChain = sends[i].sourceChain
        /\ sends'[i].recipient = sends[i].recipient
        /\ sends'[i].targetChain = sends[i].targetChain
    BY <2>3, <2>4 DEF Calls
  <2>6. ASSUME NEW j \in DOMAIN sends'
        PROVE  /\ slipped' \/ sends'[j].account = sends'[j].sourceChain
               /\ sends'[j].recipient = Kind[sends'[j].targetChain]
    <3>1. CASE j = i
      BY <2>2, <2>5, <3>1 DEF SentIsConsistent
    <3>2. CASE j # i
      BY <2>2, <2>3, <2>6, <3>2 DEF SentIsConsistent
    <3> QED
      BY <3>1, <3>2
  <2> QED
    BY <2>6 DEF SentIsConsistent
<1>5. CASE Reload
  <2>1. slipped' = slipped
    BY <1>5 DEF Reload
  <2> QED
    BY <1>5, <2>1, ReloadEnds DEF SentIsConsistent
<1>6. ASSUME NEW c \in Chains, ChooseSourceChain(c) \/ ChooseTargetChain(c)
      PROVE  SentIsConsistent'
  BY <1>2, <1>6 DEF ChooseSourceChain, ChooseTargetChain, Click
<1>7. CASE ClearOption \/ SourceNext \/ TargetNext \/ RedeemStepButton \/ ResetClick
            \/ \E n \in 0 .. 1 : StepButton(n)
  BY <1>2, <1>7
  DEF ClearOption, SourceNext, TargetNext, RedeemStepButton, ResetClick, StepButton, Click
<1>8. CASE SelectOption \/ TransferClick \/ CancelClick \/ RedeemClick \/ Leave
  BY <1>2, <1>8 DEF SelectOption, TransferClick, CancelClick, RedeemClick, Leave
<1>9. ASSUME NEW x, Return(x) \/ RecoverClick(x) \/ SwitchNetwork(x) PROVE SentIsConsistent'
  BY <1>2, <1>9 DEF Return, RecoverClick, SwitchNetwork
<1>10. ASSUME unchangedByAnswer PROVE SentIsConsistent'
  BY <1>2, <1>10 DEF unchangedByAnswer
<1>11. CASE WrappedAnswer \/ WrappedFails \/ AssetAnswer \/ AssetFails \/ AddressAnswer
             \/ DoneAnswer
  BY <1>10, <1>11
  DEF WrappedAnswer, WrappedFails, AssetAnswer, AssetFails, AddressAnswer, DoneAnswer
<1>12. CASE FlushEffects \/ OptionSelected \/ OptionFails \/ \E r \in redeems : RedeemEnds(r)
  BY <1>2, <1>12 DEF FlushEffects, OptionSelected, OptionFails, RedeemEnds
<1>13. CASE UNCHANGED vars
  BY <1>2, <1>13 DEF vars
<1> QED
  BY <1>3, <1>4, <1>5, <1>6, <1>7, <1>8, <1>9, <1>11, <1>12, <1>13 DEF Next, User, Answers

\* The form and what it sends.
FormInv == TypeInv /\ AddressInv /\ TokenInv /\ ConfirmInv /\ SentIsConsistent

LEMMA FormInvariant == Spec => []FormInv
<1>1. Init => FormInv
  <2> SUFFICES ASSUME Init PROVE FormInv
    OBVIOUS
  <2>1. TypeInv
    BY RestInit, SliceInit, TypeParts
  <2>2. /\ st = initialState /\ pick = Nil /\ isConfirmOpen = FALSE /\ sends = <<>>
    BY DEF Init
  <2>3. AddressInv /\ TokenFits(st)
    BY <2>2, NoAsset DEF AddressInv, TokenFits, initialState, EmptyWrapper, AssetStates
  <2>4. TokenInv /\ ConfirmInv /\ SentIsConsistent
    BY <2>2, <2>3 DEF TokenInv, ConfirmInv, SentIsConsistent
  <2> QED
    BY <2>1, <2>3, <2>4 DEF FormInv
<1>2. FormInv /\ [Next]_vars => FormInv'
  <2> SUFFICES ASSUME FormInv, [Next]_vars PROVE FormInv'
    OBVIOUS
  <2>1. RestOK' /\ SliceOK'
    BY RestNext, SliceNext DEF FormInv
  <2>2. (RestOK /\ SliceOK => TypeInv)'
    BY TypeParts, PTL
  <2>3. AddressInv' /\ TokenInv' /\ ConfirmInv' /\ SentIsConsistent'
    BY AddressNext, TokenNext, ConfirmNext, SentNext DEF FormInv
  <2> QED
    BY <2>1, <2>2, <2>3 DEF FormInv
<1> QED
  BY <1>1, <1>2, PTL DEF Spec

\* A transfer is only ever sent with a token of the chain the call is made on,
\* unless an answer came after what it was about had changed, and to an address
\* of its target chain (SourceTokenSelector's handleOnChange, the looked-up
\* target asset, useSyncTargetAddress, and the dialog that asks nothing again).
THEOREM SendsConsistently == Spec => []SentIsConsistent
<1>1. FormInv => SentIsConsistent
  BY DEF FormInv
<1> QED
  BY <1>1, FormInvariant, PTL

-----------------------------------------------------------------------------
(***************************************************************************)
(* The VAA                                                                 *)
(***************************************************************************)

\* As long as nothing but the form has touched it, the wizard follows at most
\* one transfer: what is on its way, its VAA and the calls that redeem it are for
\* the target chain that is selected.
Orderly ==
    /\ \A i \in DOMAIN sends : InFlight(i) =>
          /\ st.isSending /\ st.signedVAA = Nil /\ sends[i].targetChain = st.targetChain
          /\ \A j \in DOMAIN sends : InFlight(j) => j = i
    /\ st.signedVAA # Nil => TargetOf(st.signedVAA) = st.targetChain
    /\ \A r \in redeems : r.vaa = st.signedVAA /\ r.chain = st.targetChain
    /\ st.redeemTx /\ ~st.isRecovery =>
          /\ st.signedVAA # Nil
          /\ Kind[st.targetChain] # "terra" => st.signedVAA \in released

VaaInv == ~disturbed => Orderly

LEMMA OrderlyKept ==
    ASSUME Orderly, sends' = sends, redeems' \subseteq redeems, released \subseteq released',
           SameLocks(st', st), st'.targetChain = st.targetChain
    PROVE  Orderly'
<1>1. \A i : InFlight(i)' = InFlight(i) /\ sends'[i] = sends[i]
  BY DEF InFlight
<1>2. TargetOf(st.signedVAA)' = TargetOf(st'.signedVAA)
  BY DEF TargetOf
<1>3. st'.signedVAA = st.signedVAA /\ st'.isSending = st.isSending
      /\ st'.redeemTx = st.redeemTx /\ st'.isRecovery = st.isRecovery
  BY DEF SameLocks
<1> QED
  BY <1>1, <1>2, <1>3 DEF Orderly, TargetOf

\* Nothing is under way.
LEMMA OrderlyFresh ==
    ASSUME \A i \in DOMAIN sends' : ~InFlight(i)', redeems' = {},
           st'.signedVAA # Nil => TargetOf(st.signedVAA)' = st'.targetChain,
           st'.redeemTx => st'.isRecovery
    PROVE  Orderly'
BY DEF Orderly

LEMMA TargetRendered ==
    ASSUME TypeInv, ~disturbed', NEW s, NEW f, Renders(s, f), f.path = fx.path, UnderWay
    PROVE  st'.targetChain = s.targetChain
<1>1. fx.path = fx'.path
  BY DEF Renders
<1>2. EffectsPending => fx.path = Nil
  BY <1>1 DEF Renders
<1> QED
  BY <1>2 DEF Renders, Kept, SameForm

LEMMA OrderlyRendered ==
    ASSUME TypeInv, Orderly, ~disturbed', sends' = sends, redeems' = redeems,
           released' = released, NEW s, NEW f, Renders(s, f), f.path = fx.path,
           SameLocks(s, st), s.targetChain = st.targetChain
    PROVE  Orderly'
<1>1. SameLocks(st', st)
  BY DEF Renders, SameLocks
<1>2. CASE UnderWay
  <2>1. st'.targetChain = st.targetChain
    BY <1>2, TargetRendered
  <2> QED
    BY <1>1, <2>1, OrderlyKept
<1>3. CASE ~UnderWay
  <2>1. ~st.isSending /\ st.signedVAA = Nil /\ redeems = {}
    BY <1>3 DEF UnderWay, ShouldLockFields
  <2>2. \A i \in DOMAIN sends' : ~InFlight(i)'
    BY <2>1 DEF Orderly, InFlight
  <2>3. st'.signedVAA = Nil /\ (st'.redeemTx => st'.isRecovery)
    BY <1>1, <2>1 DEF Orderly, SameLocks
  <2> QED
    BY <2>1, <2>2, <2>3, OrderlyFresh
<1> QED
  BY <1>2, <1>3

\* The fields are locked while a transfer is on its way.
LEMMA UnlockedIsIdle ==
    ASSUME TypeInv, Orderly, ~ShouldLockFields(st)
    PROVE  /\ \A i \in DOMAIN sends : ~InFlight(i)
           /\ redeems = {} /\ (st.redeemTx => st.isRecovery)
<1>1. ~st.isSending /\ st.signedVAA = Nil
  BY DEF ShouldLockFields
<1>2. ASSUME NEW r \in redeems PROVE FALSE
  <2>1. r.vaa \in VAAs
    BY TypeParts DEF RestOK
  <2>2. r.vaa # Nil
    BY <2>1, NilAssumption, ConstantsAssumption DEF VAAs
  <2> QED
    BY <1>1, <2>2 DEF Orderly
<1> QED
  BY <1>1, <1>2 DEF Orderly

LEMMA VaaSends ==
    ASSUME TypeInv, Orderly, ~disturbed', NEW i \in DOMAIN sends, Sent(i)
    PROVE  Orderly'
<1>1. InFlight(i)
  BY DEF Sent, SendConfirmed, SendFails, SendNotFound, GotSignedVAA, InFlight
<1>2. /\ st.isSending /\ st.signedVAA = Nil /\ sends[i].targetChain = st.targetChain
      /\ \A j \in DOMAIN sends : InFlight(j) => j = i
  BY <1>1 DEF Orderly
<1>3. Good(st) /\ UnderWay
  BY <1>2, TypeParts DEF SliceOK, UnderWay, ShouldLockFields
<1>4. redeems = {}
  <2>1. ASSUME NEW r \in redeems PROVE FALSE
    <3>1. r.vaa \in VAAs /\ r.vaa = Nil
      BY <1>2, TypeParts DEF RestOK, Orderly
    <3> QED
      BY <3>1, NilAssumption, ConstantsAssumption DEF VAAs
  <2> QED
    BY <2>1
<1>5. st.redeemTx => st.isRecovery
  BY <1>2 DEF Orderly
<1>6. redeems' = {}
  BY <1>4
  DEF Sent, SendConfirmed, SendFails, SendNotFound, GotSignedVAA, unchangedBySend
<1>7. PICK p \in SendPhases : sends' = [sends EXCEPT ![i].phase = p]
  BY DEF Sent, SendConfirmed, SendFails, SendNotFound, GotSignedVAA, SendPhases
<1>8. sends \in Seq(Calls(SendPhases))
  BY TypeParts DEF RestOK, SendPhases
<1>9. /\ DOMAIN sends' = DOMAIN sends /\ sends'[i] = [sends[i] EXCEPT !.phase = p]
      /\ \A j \in DOMAIN sends \ {i} : sends'[j] = sends[j]
  BY <1>7, <1>8, PhaseMoves
<1>10. sends'[i].targetChain = sends[i].targetChain /\ sends'[i].phase = p
  <2>1. sends[i] \in Calls(SendPhases)
    BY <1>8
  <2> QED
    BY <1>9, <2>1 DEF Calls
<1>11. \A j \in DOMAIN sends' : InFlight(j)' => j = i
  BY <1>2, <1>9 DEF InFlight
<1>12. CASE SendConfirmed(i)
  <2>1. st' = st
    BY <1>12 DEF SendConfirmed
  <2> QED
    BY <1>2, <1>5, <1>6, <1>9, <1>10, <1>11, <2>1 DEF Orderly, InFlight
<1>13. CASE SendFails(i) \/ SendNotFound(i)
  <2>1. sends' = [sends EXCEPT ![i].phase = "failed"] \/ sends' = [sends EXCEPT ![i].phase = "landed"]
    BY <1>13 DEF SendFails, SendNotFound
  <2>2. sends'[i].phase \in {"failed", "landed"}
    <3>1. sends[i] \in Calls(SendPhases)
      BY <1>8
    <3> QED
      BY <1>8, <2>1, <3>1 DEF Calls
  <2>3. \A j \in DOMAIN sends' : ~InFlight(j)'
    BY <1>11, <2>2 DEF InFlight
  <2>4. Renders(setIsSending(st, FALSE), fx)
    BY <1>13, SendRenders
  <2>5. st'.signedVAA = Nil /\ (st'.redeemTx => st'.isRecovery)
    BY <1>2, <1>3, <1>5, <2>4, LockSlices DEF Renders, SameLocks, Calm
  <2> QED
    BY <1>6, <2>3, <2>5, OrderlyFresh
<1>14. CASE GotSignedVAA(i)
  <2>1. sends' = [sends EXCEPT ![i].phase = "landed"]
    BY <1>14 DEF GotSignedVAA
  <2>2. sends'[i].phase = "landed"
    <3>1. sends[i] \in Calls(SendPhases)
      BY <1>8
    <3> QED
      BY <1>8, <2>1, <3>1 DEF Calls
  <2>3. \A j \in DOMAIN sends' : ~InFlight(j)'
    BY <1>11, <2>2 DEF InFlight
  <2>4. Renders(setSignedVAAHex(st, i), fx)
    BY <1>14, SendRenders
  <2>5. /\ st'.signedVAA = i /\ (st'.redeemTx => st'.isRecovery)
    BY <1>3, <1>5, <2>4, LockSlices DEF Renders, SameLocks
  <2>6. st'.targetChain = st.targetChain
    BY <1>3, <2>4, LockSlices, TargetRendered
  <2>7. TargetOf(st.signedVAA)' = st'.targetChain
    <3>1. i \in 1 .. Len(sends)
      BY <1>8
    <3>2. i # 0
      BY <1>8, <3>1
    <3> QED
      BY <1>2, <1>10, <2>5, <2>6, <3>2 DEF TargetOf
  <2> QED
    BY <1>6, <2>3, <2>5, <2>7, OrderlyFresh
<1> QED
  BY <1>12, <1>13, <1>14 DEF Sent

LEMMA VaaRedeems ==
    ASSUME TypeInv, Orderly, ~disturbed', NEW r \in redeems, RedeemEnds(r)
    PROVE  Orderly'
<1>1. /\ redeems' = redeems \ {r} /\ sends' = sends /\ released \subseteq released'
  BY DEF RedeemEnds
<1>2. r.vaa = st.signedVAA /\ r.chain = st.targetChain /\ st.signedVAA # Nil
  <2>1. r.vaa \in VAAs
    BY TypeParts DEF RestOK
  <2>2. r.vaa # Nil
    BY <2>1, NilAssumption, ConstantsAssumption DEF VAAs
  <2> QED
    BY <2>2 DEF Orderly
<1>3. Good(st) /\ UnderWay
  BY TypeParts DEF SliceOK, UnderWay
<1>4. CASE Renders(setIsRedeeming(st, FALSE), fx)
  <2>1. st'.targetChain = st.targetChain
    BY <1>3, <1>4, TargetRendered, LockSlices DEF Calm
  <2>2. /\ st'.signedVAA = st.signedVAA /\ st'.isSending = st.isSending
        /\ st'.redeemTx = st.redeemTx /\ st'.isRecovery = st.isRecovery
    BY <1>3, <1>4, LockSlices DEF Renders, SameLocks, Calm
  <2>3. \A i : InFlight(i)' = InFlight(i)
    BY <1>1 DEF InFlight
  <2>4. TargetOf(st.signedVAA)' = TargetOf(st.signedVAA)
    BY <1>1, <2>2 DEF TargetOf
  <2> QED
    BY <1>1, <2>1, <2>2, <2>3, <2>4 DEF Orderly
<1>5. CASE Renders(setRedeemTx(st), fx) /\ (Kind[r.chain] = "terra" \/ r.vaa \in released')
  <2>1. st'.targetChain = st.targetChain
    BY <1>3, <1>5, TargetRendered, LockSlices DEF Calm
  <2>2. /\ st'.signedVAA = st.signedVAA /\ st'.isSending = st.isSending
        /\ st'.isRecovery = st.isRecovery
    BY <1>3, <1>5, LockSlices DEF Renders, SameLocks, Calm
  <2>3. \A i : InFlight(i)' = InFlight(i)
    BY <1>1 DEF InFlight
  <2>4. TargetOf(st.signedVAA)' = TargetOf(st.signedVAA)
    BY <1>1, <2>2 DEF TargetOf
  <2> QED
    BY <1>1, <1>2, <1>5, <2>1, <2>2, <2>3, <2>4 DEF Orderly
<1> QED
  BY <1>4, <1>5, RedeemRenders

\* The dialog sends one transfer, and none is on its way.
LEMMA VaaConfirms ==
    ASSUME TypeInv, ConfirmInv, Orderly, ConfirmClick
    PROVE  Orderly'
<1>1. Good(st) /\ sends \in Seq(Calls(SendPhases))
  BY TypeParts DEF SliceOK, RestOK, SendPhases
<1>2. /\ UNCHANGED <<redeems, released>> /\ ~ShouldLockFields(st)
  BY DEF ConfirmClick, ConfirmInv
<1>3. /\ \A i \in DOMAIN sends : ~InFlight(i)
      /\ redeems = {} /\ (st.redeemTx => st.isRecovery) /\ st.signedVAA = Nil
  BY <1>2, UnlockedIsIdle DEF ShouldLockFields
<1>4. CASE ~(st.account # Nil /\ st.targetAddress # Nil)
  <2>1. st' = st /\ sends' = sends
    BY <1>4 DEF ConfirmClick
  <2> QED
    BY <1>2, <2>1, OrderlyKept DEF SameLocks
<1>5. CASE st.account # Nil /\ st.targetAddress # Nil
  <2> DEFINE c(b) == [sourceChain |-> st.sourceChain, account |-> st.account,
                      targetChain |-> st.targetChain, recipient |-> st.targetAddress,
                      reaches |-> b, phase |-> "signing"]
  <2>1. PICK b \in BOOLEAN : Len(sends) < MaxSends /\ sends' = Append(sends, c(b))
    BY <1>5 DEF ConfirmClick, isReady
  <2>2. /\ DOMAIN sends' = DOMAIN sends \cup {Len(sends) + 1}
        /\ sends'[Len(sends) + 1] = c(b)
        /\ \A j \in DOMAIN sends : sends'[j] = sends[j]
    BY <1>5, <2>1, SendGrows
  <2>3. st' = setIsSending(st, TRUE)
    BY <1>5 DEF ConfirmClick
  <2>4. /\ st'.isSending /\ st'.signedVAA = Nil /\ st'.targetChain = st.targetChain
        /\ st'.redeemTx = st.redeemTx /\ st'.isRecovery = st.isRecovery
    BY <1>1, <1>3, <2>3 DEF setIsSending, Good, State, TransferState
  <2>5. sends'[Len(sends) + 1].targetChain = st.targetChain
    BY <2>2
  <2>6. \A j \in DOMAIN sends' : InFlight(j)' => j = Len(sends) + 1
    BY <1>3, <2>2 DEF InFlight
  <2>7. redeems' = {}
    BY <1>2, <1>3
  <2> HIDE DEF c
  <2> QED
    BY <1>3, <2>4, <2>5, <2>6, <2>7 DEF Orderly
<1> QED
  BY <1>4, <1>5

LEMMA VaaNext == TypeInv /\ ConfirmInv /\ VaaInv /\ [Next]_vars => VaaInv'
<1> SUFFICES ASSUME TypeInv, ConfirmInv, VaaInv, [Next]_vars, ~disturbed'
             PROVE  Orderly'
  BY DEF VaaInv
<1>1. Good(st) /\ FxOK(fx) /\ RestOK /\ SliceOK
  BY TypeParts DEF SliceOK
<1>2. ASSUME ~disturbed, UNCHANGED <<sends, redeems, released>>, SameLocks(st', st),
             st'.targetChain = st.targetChain
      PROVE  Orderly'
  BY <1>2, OrderlyKept DEF VaaInv
<1>3. ASSUME ~disturbed, UNCHANGED <<sends, redeems, released, st>> PROVE Orderly'
  BY <1>2, <1>3 DEF SameLocks
<1>4. ASSUME NEW c \in Chains, ChooseSourceChain(c) \/ ChooseTargetChain(c) PROVE Orderly'
  <2>1. ~ShouldLockFields(st) /\ Orderly
    BY <1>4 DEF ChooseSourceChain, ChooseTargetChain, VaaInv
  <2>2. SameLocks(st', st)
    BY <1>1, <1>4, SourceChainMoves, TargetChainMoves
    DEF ChooseSourceChain, ChooseTargetChain, Click
  <2>3. UNCHANGED <<sends, redeems, released>>
    BY <1>4 DEF ChooseSourceChain, ChooseTargetChain, Click
  <2>4. /\ \A i \in DOMAIN sends : ~InFlight(i)
        /\ redeems = {} /\ (st.redeemTx => st.isRecovery)
    BY <2>1, UnlockedIsIdle
  <2>5. st'.signedVAA = Nil /\ (st'.redeemTx => st'.isRecovery)
    BY <2>1, <2>2, <2>4 DEF SameLocks, ShouldLockFields
  <2> QED
    BY <2>3, <2>4, <2>5, OrderlyFresh DEF InFlight
<1>5. CASE ClearOption
  BY <1>1, <1>2, <1>5, AnswerSlices DEF ClearOption, Click, Calm
<1>6. CASE SourceNext \/ TargetNext \/ RedeemStepButton \/ \E n \in 0 .. 1 : StepButton(n)
  <2>1. PICK n : st' = [st EXCEPT !.activeStep = n]
    BY <1>6
    DEF SourceNext, TargetNext, StepButton, RedeemStepButton, Click, incrementStep, setStep
  <2>2. SameLocks(st', st) /\ st'.targetChain = st.targetChain
    BY <1>1, <2>1 DEF SameLocks, Good, State, TransferState
  <2>3. ~disturbed /\ UNCHANGED <<sends, redeems, released>>
    BY <1>6 DEF SourceNext, TargetNext, StepButton, RedeemStepButton, Click
  <2> QED
    BY <1>2, <2>2, <2>3
<1>7. CASE ResetClick
  <2>1. /\ st'.signedVAA = Nil /\ ~st'.redeemTx
    BY <1>1, <1>7, ResetMoves DEF ResetClick, Click
  <2>2. /\ \A i \in DOMAIN sends : ~InFlight(i)
        /\ redeems = {} /\ UNCHANGED <<sends, redeems>>
    BY <1>7 DEF ResetClick, Click
  <2> QED
    BY <2>1, <2>2, OrderlyFresh DEF InFlight
<1>8. CASE SelectOption \/ OptionFails \/ TransferClick \/ CancelClick \/ Leave
           \/ \E link \in Links \cup {Nil} : Return(link)
  BY <1>3, <1>8 DEF SelectOption, OptionFails, TransferClick, CancelClick, Leave, Return
<1>9. ASSUME NEW v \in VAAs, RecoverClick(v) PROVE Orderly'
  <2>1. TargetOf(v) \in Chains
    <3>1. v = 0 \/ v \in DOMAIN sends
      BY <1>9 DEF RecoverClick, Signed
    <3>2. ASSUME v \in DOMAIN sends PROVE sends[v] \in Calls(SendPhases)
      BY <1>1, <3>2 DEF RestOK, SendPhases
    <3> QED
      BY <3>1, <3>2, ConstantsAssumption DEF TargetOf, Calls
  <2>2. st'.signedVAA = v /\ st'.targetChain = TargetOf(v) /\ st'.isRecovery
    BY <1>1, <1>9, <2>1, RecoveryMoves DEF RecoverClick
  <2>3. /\ \A i \in DOMAIN sends : ~InFlight(i)
        /\ redeems = {} /\ UNCHANGED <<sends, redeems>>
    BY <1>9 DEF RecoverClick
  <2>4. TargetOf(st.signedVAA)' = TargetOf(v)
    BY <2>2, <2>3 DEF TargetOf
  <2> QED
    BY <2>2, <2>3, <2>4, OrderlyFresh DEF InFlight
<1>10. CASE ConfirmClick
  <2>1. Orderly
    BY <1>10 DEF ConfirmClick, VaaInv
  <2> QED
    BY <1>10, <2>1, VaaConfirms
<1>11. CASE RedeemClick
  <2>1. /\ Orderly /\ UNCHANGED <<sends, released>> /\ st.signedVAA # Nil
        /\ st' = setIsRedeeming(st, TRUE)
        /\ redeems' = redeems \cup {[vaa |-> st.signedVAA, chain |-> st.targetChain]}
    BY <1>11 DEF RedeemClick, VaaInv
  <2>2. /\ st'.targetChain = st.targetChain /\ st'.signedVAA = st.signedVAA
        /\ st'.redeemTx = st.redeemTx /\ st'.isRecovery = st.isRecovery
    BY <1>1, <2>1 DEF setIsRedeeming, Good, State, TransferState
  <2>3. \A i : InFlight(i)' = InFlight(i)
    BY <2>1 DEF InFlight
  <2>4. TargetOf(st.signedVAA)' = TargetOf(st.signedVAA)
    BY <2>1, <2>2 DEF TargetOf
  <2>5. \A i \in DOMAIN sends' : ~InFlight(i)'
    BY <2>1, <2>3 DEF Orderly
  <2>6. ASSUME NEW r \in redeems' PROVE r.vaa = st'.signedVAA /\ r.chain = st'.targetChain
    <3>1. CASE r \in redeems
      BY <2>1, <2>2, <3>1 DEF Orderly
    <3>2. CASE r = [vaa |-> st.signedVAA, chain |-> st.targetChain]
      BY <2>2, <3>2
    <3> QED
      BY <2>1, <3>1, <3>2
  <2>7. st'.redeemTx /\ ~st'.isRecovery =>
          /\ st'.signedVAA # Nil
          /\ Kind[st'.targetChain] # "terra" => st'.signedVAA \in released'
    BY <2>1, <2>2 DEF Orderly
  <2>8. TargetOf(st.signedVAA)' = st'.targetChain
    BY <2>1, <2>2, <2>4 DEF Orderly
  <2> QED
    BY <2>5, <2>6, <2>7, <2>8 DEF Orderly
<1>12. CASE Reload
  <2>1. st' = initialState /\ redeems' = {}
    BY <1>12 DEF Reload
  <2>2. st'.signedVAA = Nil /\ ~st'.redeemTx
    BY <2>1 DEF initialState
  <2>3. \A i \in DOMAIN sends' : ~InFlight(i)'
    BY <1>12, ReloadEnds DEF InFlight
  <2> QED
    BY <2>1, <2>2, <2>3, OrderlyFresh
<1>13. ASSUME NEW s, NEW f, Renders(s, f), f.path = fx.path, SameLocks(s, st),
              s.targetChain = st.targetChain, UNCHANGED <<sends, redeems, released>>
       PROVE  Orderly'
  <2>1. Orderly
    BY <1>13 DEF Renders, VaaInv
  <2> QED
    BY <1>13, <2>1, OrderlyRendered
<1>14. ASSUME unchangedByAnswer PROVE UNCHANGED <<sends, redeems, released>>
  BY <1>14 DEF unchangedByAnswer
<1>15. CASE WrappedAnswer \/ WrappedFails
  <2>1. UNCHANGED <<sends, redeems, released>> /\ WrappedEnded.path = fx.path
    BY <1>1, <1>14, <1>15, EndedParts DEF WrappedAnswer, WrappedFails
  <2>2. CASE UNCHANGED <<st, disturbed>>
    BY <1>3, <2>1, <2>2
  <2>3. CASE Renders(WrappedSlice, WrappedEnded)
    <3>1. SameLocks(WrappedSlice, st) /\ WrappedSlice.targetChain = st.targetChain
      BY <1>1, AnswerSlices DEF WrappedSlice, Calm
    <3> QED
      BY <1>13, <2>1, <2>3, <3>1
  <2> QED
    BY <1>15, <2>2, <2>3, WrappedRenders
<1>16. CASE AssetAnswer \/ AssetFails
  <2>1. UNCHANGED <<sends, redeems, released>> /\ AssetEnded.path = fx.path
    BY <1>1, <1>14, <1>16, EndedParts DEF AssetAnswer, AssetFails
  <2>2. PICK a : Renders(setTargetAsset(st, a), AssetEnded)
    BY <1>16, AssetRenders DEF AssetSlice
  <2>3. /\ SameLocks(setTargetAsset(st, a), st)
        /\ setTargetAsset(st, a).targetChain = st.targetChain
    BY <1>1, AnswerSlices DEF Calm
  <2> HIDE DEF AssetEnded
  <2> QED
    BY <1>13, <2>1, <2>2, <2>3
<1>17. CASE AddressAnswer
  <2>1. UNCHANGED <<sends, redeems, released>> /\ AddressEnded.path = fx.path
    BY <1>1, <1>14, <1>17, EndedParts DEF AddressAnswer
  <2>2. PICK a : Renders(setTargetAddressHex(st, a), AddressEnded)
    BY <1>17, AddressRenders
  <2>3. /\ SameLocks(setTargetAddressHex(st, a), st)
        /\ setTargetAddressHex(st, a).targetChain = st.targetChain
    BY <1>1, AnswerSlices DEF Calm
  <2> HIDE DEF AddressEnded
  <2> QED
    BY <1>13, <2>1, <2>2, <2>3
<1>18. SameLocks(st, st)
  BY DEF SameLocks
<1>19. CASE DoneAnswer
  <2>1. PICK b \in BOOLEAN : Renders(st, DoneEnded(b))
    BY <1>19, DoneRenders
  <2>2. UNCHANGED <<sends, redeems, released>> /\ DoneEnded(b).path = fx.path
    BY <1>1, <1>14, <1>19, EndedParts DEF DoneAnswer
  <2> HIDE DEF DoneEnded
  <2> QED
    BY <1>13, <1>18, <2>1, <2>2
<1>20. CASE FlushEffects \/ \E c \in EVMChains : SwitchNetwork(c)
  <2>1. UNCHANGED <<sends, redeems, released>>
    BY <1>20 DEF FlushEffects, SwitchNetwork
  <2> QED
    BY <1>13, <1>18, <1>20, <2>1, StillRenders
<1>21. CASE OptionSelected
  <2>1. UNCHANGED <<sends, redeems, released>>
    BY <1>21 DEF OptionSelected
  <2>2. Renders(setSourceParsedTokenAccount(st, pick), fx)
    BY <1>21, OptionRenders
  <2>3. /\ SameLocks(setSourceParsedTokenAccount(st, pick), st)
        /\ setSourceParsedTokenAccount(st, pick).targetChain = st.targetChain
    BY <1>1, AnswerSlices DEF Calm
  <2> QED
    BY <1>13, <2>1, <2>2, <2>3
<1>22. ASSUME NEW i \in DOMAIN sends, Sent(i) PROVE Orderly'
  <2>1. Orderly
    <3>1. \/ disturbed' = disturbed
          \/ Renders(setIsSending(st, FALSE), fx) \/ Renders(setSignedVAAHex(st, i), fx)
      BY <1>22, SendRenders DEF Sent, SendConfirmed
    <3> QED
      BY <3>1 DEF Renders, VaaInv
  <2> QED
    BY <1>22, <2>1, VaaSends
<1>23. ASSUME NEW r \in redeems, RedeemEnds(r) PROVE Orderly'
  <2>1. Orderly
    BY <1>23, RedeemRenders DEF Renders, VaaInv
  <2> QED
    BY <1>23, <2>1, VaaRedeems
<1>24. CASE UNCHANGED vars
  BY <1>3, <1>24 DEF vars
<1> QED
  BY <1>4, <1>5, <1>6, <1>7, <1>8, <1>9, <1>10, <1>11, <1>12, <1>15, <1>16, <1>17, <1>19,
     <1>20, <1>21, <1>22, <1>23, <1>24
  DEF Next, User, Answers

LEMMA VaaInvariant == Spec => []VaaInv
<1>1. Init => VaaInv
  BY NilAssumption DEF Init, VaaInv, Orderly, initialState
<1>2. FormInv /\ VaaInv /\ [Next]_vars => VaaInv'
  BY VaaNext DEF FormInv
<1> QED
  BY <1>1, <1>2, FormInvariant, PTL DEF Spec

\* Step 4 offers the VAA of the chain it shows, whatever the user clicked while
\* it was on its way, unless path params, a reset or a recovery came in between
\* (the locks of the chains, of the steps and of the redeem button).
THEOREM RedeemsOnTarget == Spec => []VaaIsForTargetChain
<1>1. VaaInv => VaaIsForTargetChain
  BY DEF VaaInv, Orderly, VaaIsForTargetChain
<1> QED
  BY <1>1, VaaInvariant, PTL

\* What the wizard shows as complete has been released on the target chain,
\* unless it was recovered, was disturbed, or is on Terra, whose wallet answers
\* when it has posted the transaction (handleRedeemClick, setRedeemTx, reset).
THEOREM ShowsCompletion == Spec => []CompleteUnlessRecovered
<1>1. VaaInv => CompleteUnlessRecovered
  BY DEF VaaInv, Orderly, CompleteUnlessRecovered
<1> QED
  BY <1>1, VaaInvariant, PTL
=============================================================================
