---------------------------- MODULE NFTWizardProofs ----------------------------
(***************************************************************************)
(* What the NFT wizard promises, for all chains, NFTs and bounds.          *)
(***************************************************************************)
EXTENDS NFTWizard, TLAPS

(***************************************************************************)
(* The reducers                                                            *)
(***************************************************************************)

\* A slice of its type, whose chains differ.
Good(s) == s \in NFTState /\ s.sourceChain # s.targetChain

\* s and t agree on the VAA and the locks.
SameLocks(s, t) ==
    /\ s.signedVAA = t.signedVAA /\ s.isSending = t.isSending
    /\ s.redeemTx = t.redeemTx

\* s and t agree on the step, the chains and the token.
SameForm(s, t) ==
    /\ s.activeStep = t.activeStep /\ s.sourceChain = t.sourceChain
    /\ s.targetChain = t.targetChain /\ s.account = t.account

\* s and t agree on what is known of the token and of the target.
SameTarget(s, t) ==
    /\ s.origin = t.origin /\ s.targetAsset = t.targetAsset
    /\ s.targetAddress = t.targetAddress

\* Nothing is known of the target.
NoTarget(s) == s.targetAsset = NoAsset("empty") /\ s.targetAddress = Nil

NoToken(s) == s.account = Nil /\ s.origin = Nil

\* The fields of a good slice.
LEMMA Fields ==
    ASSUME NEW s, Good(s)
    PROVE  /\ s.activeStep \in 0 .. 3 /\ s.sourceChain \in Chains
           /\ s.account \in Accounts \cup {Nil} /\ s.origin \in Origins \cup {Nil}
           /\ s.targetChain \in Chains /\ s.targetAddress \in Addresses \cup {Nil}
           /\ s.targetAsset \in Unknown \cup AssetsOf /\ s.signedVAA \in VAAs \cup {Nil}
           /\ s.isSending \in BOOLEAN /\ s.isRedeeming \in BOOLEAN
           /\ s.redeemTx \in BOOLEAN /\ s.isRecovery \in BOOLEAN
           /\ s.sourceChain # s.targetChain
BY DEF Good, NFTState

LEMMA EmptyIsUnknown ==
    \A why \in {"empty", "fetching", "error"} : NoAsset(why) \in Unknown
BY DEF Unknown

\* What is not known is no asset of a chain.
LEMMA UnknownIsNoAsset ==
    ASSUME ConstantsOK, NEW s, s.targetAsset \in Unknown
    PROVE  s.targetAsset \notin AssetsOf /\ TargetAsset(s) = Nil
<1>1. s.targetAsset.chain = Nil
  BY DEF Unknown, NoAsset
<1>2. Nil \notin Chains
  BY DEF ConstantsOK
<1> QED
  BY <1>1, <1>2 DEF AssetsOf, TargetAsset

LEMMA InitialMoves ==
    ASSUME ConstantsOK
    PROVE  /\ Good(initialState) /\ NoTarget(initialState) /\ NoToken(initialState)
           /\ initialState.activeStep = 0 /\ initialState.signedVAA = Nil
           /\ initialState.isSending = FALSE /\ initialState.redeemTx = FALSE
BY EmptyIsUnknown DEF ConstantsOK, initialState, Good, NFTState, NoTarget, NoToken

LEMMA StepMoves ==
    ASSUME NEW s, Good(s), NEW n \in 0 .. 3
    PROVE  LET t == setStep(s, n)
           IN  /\ Good(t) /\ SameLocks(t, s) /\ SameTarget(t, s) /\ t.activeStep = n
               /\ t.sourceChain = s.sourceChain /\ t.targetChain = s.targetChain
               /\ t.account = s.account
BY DEF setStep, Good, NFTState, SameLocks, SameTarget

LEMMA SourceChainMoves ==
    ASSUME NEW s, Good(s), NEW c \in Chains
    PROVE  LET t == setSourceChain(s, c)
           IN  /\ Good(t) /\ SameLocks(t, s) /\ NoTarget(t) /\ NoToken(t)
               /\ t.activeStep = s.activeStep
<1> DEFINE d == IF s.targetChain = c THEN s.sourceChain ELSE s.targetChain
           u == [s EXCEPT !.sourceChain = c]
           v == [u EXCEPT !.account = Nil]
           w == [v EXCEPT !.origin = Nil]
           x == [w EXCEPT !.targetAsset = NoAsset("empty")]
           y == [x EXCEPT !.targetAddress = Nil]
           z == [y EXCEPT !.targetChain = d]
           Same(t) == SameLocks(t, s) /\ t.activeStep = s.activeStep
<1>1. d \in Chains /\ d # c
  BY Fields
<1>2. setSourceChain(s, c) = z
  BY Fields DEF setSourceChain, Good, NFTState
<1>3. u \in NFTState /\ u.sourceChain = c /\ Same(u)
  BY DEF Good, NFTState, SameLocks
<1> HIDE DEF d, u
<1>4. v \in NFTState /\ v.sourceChain = c /\ Same(v) /\ v.account = Nil
  BY <1>3 DEF NFTState, SameLocks
<1> HIDE DEF v
<1>5. w \in NFTState /\ w.sourceChain = c /\ Same(w) /\ NoToken(w)
  BY <1>4 DEF NFTState, SameLocks, NoToken
<1> HIDE DEF w
<1>6. /\ x \in NFTState /\ x.sourceChain = c /\ Same(x) /\ NoToken(x)
      /\ x.targetAsset = NoAsset("empty")
  BY <1>5, EmptyIsUnknown DEF NFTState, SameLocks, NoToken
<1> HIDE DEF x
<1>7. y \in NFTState /\ y.sourceChain = c /\ Same(y) /\ NoToken(y) /\ NoTarget(y)
  BY <1>6 DEF NFTState, SameLocks, NoToken, NoTarget
<1> HIDE DEF y
<1>8. Good(z) /\ Same(z) /\ NoToken(z) /\ NoTarget(z)
  BY <1>1, <1>7 DEF Good, NFTState, SameLocks, NoToken, NoTarget
<1> QED
  BY <1>2, <1>8

\* The target chain is another one than the source chain where it is chosen.
LEMMA TargetChainMoves ==
    ASSUME NEW s, Good(s), NEW c \in Chains, c # s.sourceChain
    PROVE  LET t == setTargetChain(s, c)
           IN  /\ Good(t) /\ SameLocks(t, s) /\ NoTarget(t) /\ t.targetChain = c
               /\ t.activeStep = s.activeStep /\ t.sourceChain = s.sourceChain
               /\ t.account = s.account /\ t.origin = s.origin
<1> DEFINE u == [s EXCEPT !.targetChain = c]
           v == [u EXCEPT !.targetAddress = Nil]
           w == [v EXCEPT !.targetAsset = NoAsset("empty")]
           Same(t) == /\ SameLocks(t, s) /\ t.activeStep = s.activeStep
                      /\ t.sourceChain = s.sourceChain /\ t.targetChain = c
                      /\ t.account = s.account /\ t.origin = s.origin
<1>1. setTargetChain(s, c) = w
  BY DEF setTargetChain
<1>2. u \in NFTState /\ Same(u)
  BY DEF Good, NFTState, SameLocks
<1> HIDE DEF u
<1>3. v \in NFTState /\ Same(v) /\ v.targetAddress = Nil
  BY <1>2 DEF NFTState, SameLocks
<1> HIDE DEF v
<1>4. w \in NFTState /\ Same(w) /\ NoTarget(w)
  BY <1>3, EmptyIsUnknown DEF NFTState, SameLocks, NoTarget
<1>5. s.sourceChain # c
  OBVIOUS
<1> QED
  BY <1>1, <1>4, <1>5 DEF Good

LEMMA OriginMoves ==
    ASSUME NEW s, Good(s), NEW o \in Origins
    PROVE  LET t == setSourceWormholeWrappedInfo(s, o)
           IN  /\ Good(t) /\ SameLocks(t, s) /\ SameForm(t, s) /\ t.origin = o
               /\ t.targetAsset = s.targetAsset /\ t.targetAddress = s.targetAddress
BY DEF setSourceWormholeWrappedInfo, Good, NFTState, SameLocks, SameForm

LEMMA AccountMoves ==
    ASSUME NEW s, Good(s), NEW a \in Accounts
    PROVE  LET t == setSourceParsedTokenAccount(s, a)
           IN  /\ Good(t) /\ SameLocks(t, s) /\ NoTarget(t) /\ t.origin = Nil
               /\ t.account = a /\ t.activeStep = s.activeStep
               /\ t.sourceChain = s.sourceChain /\ t.targetChain = s.targetChain
<1> DEFINE u == [s EXCEPT !.account = a]
           v == [u EXCEPT !.origin = Nil]
           w == [v EXCEPT !.targetAsset = NoAsset("empty")]
           x == [w EXCEPT !.targetAddress = Nil]
           Same(t) == /\ SameLocks(t, s) /\ t.activeStep = s.activeStep
                      /\ t.sourceChain = s.sourceChain /\ t.targetChain = s.targetChain
                      /\ t.account = a
<1>1. setSourceParsedTokenAccount(s, a) = x
  BY DEF setSourceParsedTokenAccount
<1>2. u \in NFTState /\ Same(u)
  BY DEF Good, NFTState, SameLocks
<1> HIDE DEF u
<1>3. v \in NFTState /\ Same(v) /\ v.origin = Nil
  BY <1>2 DEF NFTState, SameLocks
<1> HIDE DEF v
<1>4. w \in NFTState /\ Same(w) /\ w.origin = Nil /\ w.targetAsset = NoAsset("empty")
  BY <1>3, EmptyIsUnknown DEF NFTState, SameLocks
<1> HIDE DEF w
<1>5. x \in NFTState /\ Same(x) /\ x.origin = Nil /\ NoTarget(x)
  BY <1>4 DEF NFTState, SameLocks, NoTarget
<1>6. s.sourceChain # s.targetChain
  BY DEF Good
<1> QED
  BY <1>1, <1>5, <1>6 DEF Good

LEMMA AddressMoves ==
    ASSUME NEW s, Good(s), NEW a \in Addresses \cup {Nil}
    PROVE  LET t == setTargetAddressHex(s, a)
           IN  /\ Good(t) /\ SameLocks(t, s) /\ SameForm(t, s) /\ t.origin = s.origin
               /\ t.targetAsset = s.targetAsset /\ t.targetAddress = a
BY DEF setTargetAddressHex, Good, NFTState, SameLocks, SameForm

LEMMA AssetMoves ==
    ASSUME NEW s, Good(s), NEW a \in Unknown \cup AssetsOf
    PROVE  LET t == setTargetAsset(s, a)
           IN  /\ Good(t) /\ SameLocks(t, s) /\ SameForm(t, s) /\ t.origin = s.origin
               /\ t.targetAsset = a /\ t.targetAddress = s.targetAddress
BY DEF setTargetAsset, Good, NFTState, SameLocks, SameForm

LEMMA VAAMoves ==
    ASSUME NEW s, Good(s), NEW v \in VAAs
    PROVE  LET t == setSignedVAAHex(s, v)
           IN  /\ Good(t) /\ SameTarget(t, s) /\ t.activeStep = 3
               /\ t.sourceChain = s.sourceChain /\ t.targetChain = s.targetChain
               /\ t.account = s.account
               /\ t.signedVAA = v /\ t.isSending = FALSE /\ t.redeemTx = s.redeemTx
<1> DEFINE u == [s EXCEPT !.signedVAA = v]
           w == [u EXCEPT !.isSending = FALSE]
           x == [w EXCEPT !.activeStep = 3]
           Same(t) == /\ SameTarget(t, s) /\ t.sourceChain = s.sourceChain
                      /\ t.targetChain = s.targetChain /\ t.account = s.account
                      /\ t.signedVAA = v /\ t.redeemTx = s.redeemTx
<1>1. setSignedVAAHex(s, v) = x
  BY DEF setSignedVAAHex
<1>2. u \in NFTState /\ Same(u)
  BY DEF Good, NFTState, SameTarget
<1> HIDE DEF u
<1>3. w \in NFTState /\ Same(w) /\ w.isSending = FALSE
  BY <1>2 DEF NFTState, SameTarget
<1> HIDE DEF w
<1>4. x \in NFTState /\ Same(x) /\ x.isSending = FALSE /\ x.activeStep = 3
  BY <1>3 DEF NFTState, SameTarget
<1>5. s.sourceChain # s.targetChain
  BY DEF Good
<1> QED
  BY <1>1, <1>4, <1>5 DEF Good

LEMMA SendingMoves ==
    ASSUME NEW s, Good(s), NEW b \in BOOLEAN
    PROVE  LET t == setIsSending(s, b)
           IN  /\ Good(t) /\ SameForm(t, s) /\ SameTarget(t, s) /\ t.isSending = b
               /\ t.signedVAA = s.signedVAA /\ t.redeemTx = s.redeemTx
BY DEF setIsSending, Good, NFTState, SameForm, SameTarget

LEMMA RedeemingMoves ==
    ASSUME NEW s, Good(s), NEW b \in BOOLEAN
    PROVE  LET t == setIsRedeeming(s, b)
           IN  Good(t) /\ SameForm(t, s) /\ SameTarget(t, s) /\ SameLocks(t, s)
BY DEF setIsRedeeming, Good, NFTState, SameForm, SameTarget, SameLocks

LEMMA RedeemTxMoves ==
    ASSUME NEW s, Good(s)
    PROVE  LET t == setRedeemTx(s)
           IN  /\ Good(t) /\ SameForm(t, s) /\ SameTarget(t, s)
               /\ t.signedVAA = s.signedVAA /\ t.isSending = s.isSending
BY DEF setRedeemTx, Good, NFTState, SameForm, SameTarget

\* A reset keeps the chains.
LEMMA ResetMoves ==
    ASSUME ConstantsOK, NEW s, Good(s)
    PROVE  LET t == reset(s)
           IN  /\ Good(t) /\ NoTarget(t) /\ NoToken(t) /\ t.activeStep = 0
               /\ t.signedVAA = Nil /\ t.isSending = FALSE /\ t.redeemTx = FALSE
<1> DEFINE u == [initialState EXCEPT !.sourceChain = s.sourceChain]
           v == [u EXCEPT !.targetChain = s.targetChain]
           Fresh(t) == /\ NoTarget(t) /\ NoToken(t) /\ t.activeStep = 0
                       /\ t.signedVAA = Nil /\ t.isSending = FALSE /\ t.redeemTx = FALSE
<1>1. reset(s) = v
  BY DEF reset
<1>2. /\ s.sourceChain \in Chains /\ s.targetChain \in Chains
      /\ s.sourceChain # s.targetChain
  BY Fields
<1>3. initialState \in NFTState /\ Fresh(initialState)
  BY InitialMoves DEF Good
<1>4. u \in NFTState /\ u.sourceChain = s.sourceChain /\ Fresh(u)
  BY <1>2, <1>3 DEF NFTState, NoTarget, NoToken
<1> HIDE DEF u
<1>5. Good(v) /\ Fresh(v)
  BY <1>2, <1>4 DEF Good, NFTState, NoTarget, NoToken
<1> QED
  BY <1>1, <1>5

\* A recovery takes chain and recipient from the VAA and drops the token.
LEMMA RecoveryMoves ==
    ASSUME ConstantsOK, NEW s, Good(s), NEW v \in VAAs, NEW c \in Chains,
           NEW token \in Tokens
    PROVE  LET t == setRecoveryVaa(s, v, c, token)
           IN  /\ Good(t) /\ t.account = Nil /\ t.activeStep = 3
               /\ t.targetChain = c /\ t.targetAddress.kind = Kind[c]
               /\ t.signedVAA = v /\ t.isSending = s.isSending /\ t.redeemTx = s.redeemTx
<1> DEFINE d == IF s.sourceChain = c THEN s.targetChain ELSE s.sourceChain
           a == [kind |-> Kind[c], token |-> IF Kind[c] = "solana" THEN token ELSE Nil]
           o == [isWrapped |-> Nil, chain |-> HomeOf[token], token |-> token]
           t1 == [s EXCEPT !.signedVAA = v]
           t2 == [t1 EXCEPT !.targetChain = c]
           t3 == [t2 EXCEPT !.sourceChain = d]
           t4 == [t3 EXCEPT !.account = Nil]
           t5 == [t4 EXCEPT !.targetAsset = NoAsset("empty")]
           t6 == [t5 EXCEPT !.targetAddress = a]
           t7 == [t6 EXCEPT !.origin = o]
           t8 == [t7 EXCEPT !.activeStep = 3]
           t9 == [t8 EXCEPT !.isRecovery = TRUE]
           Same(t) == /\ t.signedVAA = v /\ t.isSending = s.isSending
                      /\ t.redeemTx = s.redeemTx
<1>1. d \in Chains /\ d # c
  BY Fields
<1>2. a \in Addresses /\ a.kind = Kind[c]
  BY DEF ConstantsOK, Addresses
<1>3. o \in Origins
  BY DEF ConstantsOK, Origins
<1>4. setRecoveryVaa(s, v, c, token) = t9
  <2>1. t2.sourceChain = s.sourceChain
    BY DEF Good, NFTState
  <2>2. t3 = [t2 EXCEPT !.sourceChain = IF @ = c THEN s.targetChain ELSE @]
    BY <2>1 DEF Good, NFTState
  <2> QED
    BY <2>2 DEF setRecoveryVaa
<1>5. t1 \in NFTState /\ Same(t1)
  BY DEF Good, NFTState
<1> HIDE DEF d, a, o, t1
<1>6. t2 \in NFTState /\ Same(t2) /\ t2.targetChain = c
  BY <1>5 DEF NFTState
<1> HIDE DEF t2
<1>7. t3 \in NFTState /\ Same(t3) /\ t3.targetChain = c /\ t3.sourceChain = d
  BY <1>1, <1>6 DEF NFTState
<1> HIDE DEF t3
<1>8. /\ t4 \in NFTState /\ Same(t4) /\ t4.targetChain = c /\ t4.sourceChain = d
      /\ t4.account = Nil
  BY <1>7 DEF NFTState
<1> HIDE DEF t4
<1>9. /\ t5 \in NFTState /\ Same(t5) /\ t5.targetChain = c /\ t5.sourceChain = d
      /\ t5.account = Nil
  BY <1>8, EmptyIsUnknown DEF NFTState
<1> HIDE DEF t5
<1>10. /\ t6 \in NFTState /\ Same(t6) /\ t6.targetChain = c /\ t6.sourceChain = d
       /\ t6.account = Nil /\ t6.targetAddress = a
  BY <1>2, <1>9 DEF NFTState
<1> HIDE DEF t6
<1>11. /\ t7 \in NFTState /\ Same(t7) /\ t7.targetChain = c /\ t7.sourceChain = d
       /\ t7.account = Nil /\ t7.targetAddress = a
  BY <1>3, <1>10 DEF NFTState
<1> HIDE DEF t7
<1>12. /\ t8 \in NFTState /\ Same(t8) /\ t8.targetChain = c /\ t8.sourceChain = d
       /\ t8.account = Nil /\ t8.targetAddress = a /\ t8.activeStep = 3
  BY <1>11 DEF NFTState
<1> HIDE DEF t8
<1>13. /\ t9 \in NFTState /\ Same(t9) /\ t9.targetChain = c /\ t9.sourceChain = d
       /\ t9.account = Nil /\ t9.targetAddress = a /\ t9.activeStep = 3
  BY <1>12 DEF NFTState
<1> HIDE DEF t9
<1> QED
  BY <1>1, <1>2, <1>4, <1>13 DEF Good

-----------------------------------------------------------------------------
(***************************************************************************)
(* What the effects do to the store                                        *)
(***************************************************************************)

\* What the synchronised address and the look-up of the asset, run on r, make
\* of s.
Kept(t, s, r, f) ==
    /\ SameLocks(t, s) /\ SameForm(t, s) /\ t.origin = s.origin
    /\ \/ t.targetAddress = s.targetAddress /\ ~(SyncsAddress(r, f) /\ ~DerivesAddress(r))
       \/ t.targetAddress \in {Nil, [kind |-> Kind[r.targetChain], token |-> Nil]}
    /\ \/ t.targetAsset \in {s.targetAsset, NoAsset("fetching")}
       \/ /\ r.origin # Nil
          /\ t.targetAsset = [chain |-> r.targetChain, token |-> r.origin.token]

LEMMA SyncRuns ==
    ASSUME ConstantsOK, NEW r, Good(r), NEW s, Good(s), NEW f
    PROVE  LET t == useSyncTargetAddress(r, f, s)
           IN  /\ Good(t) /\ SameLocks(t, s) /\ SameForm(t, s) /\ t.origin = s.origin
               /\ t.targetAsset = s.targetAsset
               /\ \/ /\ t.targetAddress = s.targetAddress
                     /\ ~(SyncsAddress(r, f) /\ ~DerivesAddress(r))
                  \/ t.targetAddress \in {Nil, [kind |-> Kind[r.targetChain], token |-> Nil]}
<1> DEFINE a == IF Kind[r.targetChain] = "solana" THEN Nil ELSE [kind |-> "evm", token |-> Nil]
<1>1. /\ a \in {Nil, [kind |-> Kind[r.targetChain], token |-> Nil]}
      /\ a \in Addresses \cup {Nil}
  <2>1. Kind[r.targetChain] \in {"evm", "solana"}
    BY Fields DEF ConstantsOK
  <2>2. [kind |-> "evm", token |-> Nil] \in Addresses
    BY DEF Addresses
  <2> QED
    BY <2>1, <2>2
<1>2. CASE SyncsAddress(r, f) /\ ~DerivesAddress(r)
  <2>1. useSyncTargetAddress(r, f, s) = setTargetAddressHex(s, a)
    BY <1>2 DEF useSyncTargetAddress
  <2> HIDE DEF a
  <2> QED
    BY <1>1, <2>1, AddressMoves
<1>3. CASE ~(SyncsAddress(r, f) /\ ~DerivesAddress(r))
  BY <1>3 DEF useSyncTargetAddress, SameLocks, SameForm
<1> QED
  BY <1>2, <1>3

LEMMA FetchRuns ==
    ASSUME NEW r, Good(r), NEW s, Good(s), NEW f
    PROVE  LET t == useFetchTargetAsset(r, f, s)
           IN  /\ Good(t) /\ SameLocks(t, s) /\ SameForm(t, s) /\ t.origin = s.origin
               /\ t.targetAddress = s.targetAddress
               /\ \/ t.targetAsset \in {s.targetAsset, NoAsset("fetching")}
                  \/ /\ r.origin # Nil
                     /\ t.targetAsset = [chain |-> r.targetChain, token |-> r.origin.token]
<1>1. CASE SearchesAsset(r, f) /\ GoesHome(r)
  <2> DEFINE a == [chain |-> r.targetChain, token |-> r.origin.token]
  <2>1. useFetchTargetAsset(r, f, s) = setTargetAsset(s, a)
    BY <1>1 DEF useFetchTargetAsset
  <2>2. r.origin # Nil
    BY <1>1 DEF GoesHome
  <2>3. a \in AssetsOf
    BY <2>2, Fields DEF AssetsOf, Origins
  <2> HIDE DEF a
  <2> QED
    BY <2>1, <2>2, <2>3, AssetMoves DEF a
<1>2. CASE SearchesAsset(r, f) /\ ~GoesHome(r) /\ FetchesAsset(r)
  <2>1. useFetchTargetAsset(r, f, s) = setTargetAsset(s, NoAsset("fetching"))
    BY <1>2 DEF useFetchTargetAsset
  <2> QED
    BY <2>1, EmptyIsUnknown, AssetMoves
<1>3. CASE ~(SearchesAsset(r, f) /\ (GoesHome(r) \/ FetchesAsset(r)))
  <2>1. useFetchTargetAsset(r, f, s) = s
    BY <1>3 DEF useFetchTargetAsset
  <2> QED
    BY <2>1 DEF SameLocks, SameForm
<1> QED
  BY <1>1, <1>2, <1>3

LEMMA StoreRuns ==
    ASSUME ConstantsOK, Good(nft), NEW s, Good(s), NEW f
    PROVE  Good(RunEffects(s, f).st) /\ Kept(RunEffects(s, f).st, s, nft, f)
<1> DEFINE u == useSyncTargetAddress(nft, f, s)
           v == useFetchTargetAsset(nft, f, u)
<1>1. RunEffects(s, f).st = v
  BY DEF RunEffects
<1>2. /\ Good(u) /\ SameLocks(u, s) /\ SameForm(u, s) /\ u.origin = s.origin
      /\ u.targetAsset = s.targetAsset
      /\ \/ /\ u.targetAddress = s.targetAddress
            /\ ~(SyncsAddress(nft, f) /\ ~DerivesAddress(nft))
         \/ u.targetAddress \in {Nil, [kind |-> Kind[nft.targetChain], token |-> Nil]}
  BY SyncRuns
<1> HIDE DEF u
<1>3. /\ Good(v) /\ SameLocks(v, u) /\ SameForm(v, u) /\ v.origin = u.origin
      /\ v.targetAddress = u.targetAddress
      /\ \/ v.targetAsset \in {u.targetAsset, NoAsset("fetching")}
         \/ /\ nft.origin # Nil
            /\ v.targetAsset = [chain |-> nft.targetChain, token |-> nft.origin.token]
  BY <1>2, FetchRuns
<1> HIDE DEF v
<1>4. SameLocks(v, s) /\ SameForm(v, s) /\ v.origin = s.origin
  BY <1>2, <1>3 DEF SameLocks, SameForm
<1>5. Kept(v, s, nft, f)
  BY <1>2, <1>3, <1>4 DEF Kept
<1> QED
  BY <1>1, <1>3, <1>5

-----------------------------------------------------------------------------
(***************************************************************************)
(* What the effects do to themselves                                       *)
(***************************************************************************)

AddressFx ==
    [on : (BOOLEAN \X Chains \X (AssetsOf \cup {Nil})) \cup {Nil}, busy : BOOLEAN]

WrappedFx ==
    [on : (BOOLEAN \X Chains \X (Accounts \cup {Nil})) \cup {Nil}, busy : BOOLEAN]

AssetQuestions == (Origins \cup {Nil}) \X Chains

AssetFx ==
    [on : (AssetQuestions \X BOOLEAN \X BOOLEAN) \cup {Nil}, busy : BOOLEAN,
     last : AssetQuestions \cup {Nil}]

Fx == [address : AddressFx, wrapped : WrappedFx, asset : AssetFx]

\* An effect that awaits an answer has asked a question: the address effect
\* that of a derivation on a Solana chain, while nothing was locked.
AddressOK(e) ==
    /\ e \in AddressFx
    /\ e.busy => /\ e.on # Nil /\ e.on[1] = FALSE
                 /\ Kind[e.on[2]] = "solana" /\ e.on[3] # Nil

WrappedOK(e) == e \in WrappedFx /\ (e.busy => e.on \in BOOLEAN \X Chains \X Accounts)

AssetOK(e) == e \in AssetFx /\ (e.busy => e.on # Nil /\ e.on[1][1] # Nil)

FxOK(f) ==
    /\ f \in Fx
    /\ AddressOK(f.address) /\ WrappedOK(f.wrapped) /\ AssetOK(f.asset)

LEMMA IdleOK == FxOK(Idle)
<1>1. /\ AddressOK([on |-> Nil, busy |-> FALSE]) /\ WrappedOK([on |-> Nil, busy |-> FALSE])
      /\ AssetOK([on |-> Nil, busy |-> FALSE, last |-> Nil])
  BY DEF AddressOK, WrappedOK, AssetOK, AddressFx, WrappedFx, AssetFx
<1>2. /\ Idle.address = [on |-> Nil, busy |-> FALSE]
      /\ Idle.wrapped = [on |-> Nil, busy |-> FALSE]
      /\ Idle.asset = [on |-> Nil, busy |-> FALSE, last |-> Nil]
  BY DEF Idle
<1>3. Idle \in Fx
  BY <1>1 DEF Idle, Fx, AddressOK, WrappedOK, AssetOK
<1> QED
  BY <1>1, <1>2, <1>3 DEF FxOK

LEMMA AddressShown ==
    ASSUME ConstantsOK, NEW r, Good(r)
    PROVE  /\ AddressOn(r) \in (BOOLEAN \X Chains \X (AssetsOf \cup {Nil})) \cup {Nil}
           /\ AddressOn(r) = Nil <=> r.activeStep # 1
<1>1. <<ShouldLockFields(r), r.targetChain, TargetAsset(r)>>
        \in BOOLEAN \X Chains \X (AssetsOf \cup {Nil})
  BY Fields DEF ShouldLockFields, TargetAsset
<1>2. Nil \notin BOOLEAN \X Chains \X (AssetsOf \cup {Nil})
  BY DEF ConstantsOK
<1> QED
  BY <1>1, <1>2 DEF AddressOn

\* The effects, one by one, as Effects has them.
AddressRun(r, f) ==
    IF AddressOn(r) = f.address.on THEN f.address
    ELSE [on |-> AddressOn(r), busy |-> SyncsAddress(r, f) /\ DerivesAddress(r)]

WrappedRun(r, f) ==
    IF WrappedOn(r) = f.wrapped.on THEN f.wrapped
    ELSE [on |-> WrappedOn(r), busy |-> ~r.isRecovery /\ r.account # Nil]

AssetRun(r, f) ==
    CASE AssetOn(r, f) = f.asset.on -> f.asset
      [] SearchesAsset(r, f) ->
            [on |-> AssetOn(r, f), busy |-> ~GoesHome(r) /\ FetchesAsset(r),
             last |-> IF GoesHome(r) THEN AssetArgs(r) ELSE Nil]
      [] OTHER -> [f.asset EXCEPT !.on = AssetOn(r, f), !.busy = FALSE]

LEMMA AddressRuns ==
    ASSUME ConstantsOK, NEW r, Good(r), NEW f, AddressOK(f.address)
    PROVE  AddressOK(AddressRun(r, f)) /\ AddressRun(r, f).on = AddressOn(r)
<1>1. CASE AddressOn(r) = f.address.on
  BY <1>1 DEF AddressRun
<1>2. CASE AddressOn(r) # f.address.on
  <2> DEFINE b == SyncsAddress(r, f) /\ DerivesAddress(r)
             on == AddressOn(r)
             e == [on |-> on, busy |-> b]
  <2>1. AddressRun(r, f) = e
    BY <1>2 DEF AddressRun
  <2>2. on \in (BOOLEAN \X Chains \X (AssetsOf \cup {Nil})) \cup {Nil}
    BY AddressShown
  <2>3. ASSUME b
        PROVE  on # Nil /\ on[1] = FALSE /\ Kind[on[2]] = "solana" /\ on[3] # Nil
    <3>1. /\ on # Nil /\ ~ShouldLockFields(r)
          /\ Kind[r.targetChain] = "solana" /\ TargetAsset(r) # Nil
      BY <2>3 DEF SyncsAddress, DerivesAddress
    <3>2. on = <<ShouldLockFields(r), r.targetChain, TargetAsset(r)>>
      BY <3>1 DEF AddressOn
    <3>3. ShouldLockFields(r) \in BOOLEAN
      BY Fields DEF ShouldLockFields
    <3> HIDE DEF on
    <3> QED
      BY <3>1, <3>2, <3>3
  <2>4. b \in BOOLEAN
    BY DEF SyncsAddress, DerivesAddress
  <2> HIDE DEF b, on
  <2>5. e \in AddressFx /\ e.on = on /\ e.busy = b
    BY <2>2, <2>4 DEF AddressFx
  <2> HIDE DEF e
  <2> QED
    BY <2>1, <2>3, <2>5 DEF AddressOK, on
<1> QED
  BY <1>1, <1>2

LEMMA WrappedRuns ==
    ASSUME NEW r, Good(r), NEW f, WrappedOK(f.wrapped)
    PROVE  WrappedOK(WrappedRun(r, f))
<1>1. CASE WrappedOn(r) = f.wrapped.on
  BY <1>1 DEF WrappedRun
<1>2. CASE WrappedOn(r) # f.wrapped.on
  <2> DEFINE b == ~r.isRecovery /\ r.account # Nil
             e == [on |-> <<r.isRecovery, r.sourceChain, r.account>>, busy |-> b]
  <2>1. /\ r.isRecovery \in BOOLEAN /\ r.sourceChain \in Chains
        /\ r.account \in Accounts \cup {Nil}
    BY Fields
  <2>2. WrappedRun(r, f) = e
    BY <1>2 DEF WrappedRun, WrappedOn
  <2>3. b \in BOOLEAN /\ (b => r.account \in Accounts)
    BY <2>1
  <2> HIDE DEF b
  <2>4. e \in WrappedFx /\ (e.busy => e.on \in BOOLEAN \X Chains \X Accounts)
    BY <2>1, <2>3 DEF WrappedFx
  <2> QED
    BY <2>2, <2>4 DEF WrappedOK
<1> QED
  BY <1>1, <1>2

LEMMA AssetRuns ==
    ASSUME ConstantsOK, NEW r, Good(r), NEW f, AssetOK(f.asset)
    PROVE  AssetOK(AssetRun(r, f))
<1>1. AssetArgs(r) \in AssetQuestions /\ AssetArgs(r)[1] = r.origin
  BY Fields DEF AssetArgs, AssetQuestions
<1>2. /\ AssetOn(r, f) \in AssetQuestions \X BOOLEAN \X BOOLEAN
      /\ AssetOn(r, f)[1] = AssetArgs(r)
  BY <1>1 DEF AssetOn
<1>3. AssetOn(r, f) # Nil
  BY <1>2 DEF AssetQuestions, ConstantsOK
<1>4. CASE AssetOn(r, f) = f.asset.on
  BY <1>4 DEF AssetRun, SearchesAsset
<1>5. CASE AssetOn(r, f) # f.asset.on /\ SearchesAsset(r, f)
  <2> DEFINE b == ~GoesHome(r) /\ FetchesAsset(r)
             l == IF GoesHome(r) THEN AssetArgs(r) ELSE Nil
             on == AssetOn(r, f)
             e == [on |-> on, busy |-> b, last |-> l]
  <2>1. AssetRun(r, f) = e
    BY <1>5 DEF AssetRun
  <2>2. b \in BOOLEAN /\ l \in AssetQuestions \cup {Nil}
    BY <1>1 DEF GoesHome, FetchesAsset
  <2>3. b => on[1][1] # Nil
    BY <1>1, <1>2 DEF FetchesAsset
  <2>4. on \in AssetQuestions \X BOOLEAN \X BOOLEAN /\ on # Nil
    BY <1>2, <1>3
  <2> HIDE DEF b, l, on
  <2>5. e \in AssetFx /\ e.on = on /\ e.busy = b
    BY <2>2, <2>4 DEF AssetFx
  <2> HIDE DEF e
  <2> QED
    BY <2>1, <2>3, <2>4, <2>5 DEF AssetOK
<1>6. CASE AssetOn(r, f) # f.asset.on /\ ~SearchesAsset(r, f)
  <2>1. AssetRun(r, f) = [f.asset EXCEPT !.on = AssetOn(r, f), !.busy = FALSE]
    BY <1>6 DEF AssetRun
  <2> QED
    BY <1>2, <1>3, <2>1 DEF AssetOK, AssetFx
<1> QED
  BY <1>4, <1>5, <1>6

LEMMA FxRuns ==
    ASSUME ConstantsOK, Good(nft), NEW s, NEW f, FxOK(f)
    PROVE  LET g == RunEffects(s, f).fx
           IN  FxOK(g) /\ g.address.on = AddressOn(nft)
<1> DEFINE a == AddressRun(nft, f)
           w == WrappedRun(nft, f)
           x == AssetRun(nft, f)
           g == [address |-> a, wrapped |-> w, asset |-> x]
<1>1. RunEffects(s, f).fx = g
  BY DEF RunEffects, Effects, AddressRun, WrappedRun, AssetRun
<1>2. AddressOK(a) /\ a.on = AddressOn(nft) /\ WrappedOK(w) /\ AssetOK(x)
  BY AddressRuns, WrappedRuns, AssetRuns DEF FxOK
<1> HIDE DEF a, w, x
<1>3. g \in Fx
  BY <1>2 DEF Fx, AddressOK, WrappedOK, AssetOK
<1> QED
  BY <1>1, <1>2, <1>3 DEF FxOK

\* An address is awaited for what the effect last ran on.
LEMMA AddressAsked ==
    ASSUME ConstantsOK, NEW r, Good(r), NEW e, AddressOK(e), e.on = AddressOn(r), e.busy
    PROVE  /\ r.activeStep = 1 /\ ~ShouldLockFields(r)
           /\ Kind[r.targetChain] = "solana" /\ e.on[3] = TargetAsset(r)
<1>1. e.on # Nil /\ e.on[1] = FALSE /\ Kind[e.on[2]] = "solana"
  BY DEF AddressOK
<1>2. r.activeStep = 1
  BY <1>1, AddressShown
<1>3. e.on = <<ShouldLockFields(r), r.targetChain, TargetAsset(r)>>
  BY <1>2 DEF AddressOn
<1>4. e.on[1] = ShouldLockFields(r) /\ e.on[2] = r.targetChain /\ e.on[3] = TargetAsset(r)
  BY <1>3
<1> QED
  BY <1>1, <1>2, <1>4

\* The effects with a call ended.
WrappedEnded == [effects EXCEPT !.wrapped.busy = FALSE]
AssetEnded   == [effects EXCEPT !.asset.busy = FALSE]
AddressEnded == [effects EXCEPT !.address.busy = FALSE]

LEMMA EndedParts ==
    ASSUME FxOK(effects)
    PROVE  /\ FxOK(WrappedEnded) /\ WrappedEnded.address = effects.address
           /\ FxOK(AssetEnded) /\ AssetEnded.address = effects.address
           /\ FxOK(AddressEnded) /\ AddressEnded.address.on = effects.address.on
           /\ AddressEnded.address.busy = FALSE
<1>1. FxOK(WrappedEnded) /\ WrappedEnded.address = effects.address
  <2> DEFINE e == [effects.wrapped EXCEPT !.busy = FALSE]
  <2>1. WrappedOK(e)
    BY DEF FxOK, WrappedOK, WrappedFx
  <2>2. WrappedEnded = [effects EXCEPT !.wrapped = e]
    BY DEF FxOK, Fx, WrappedEnded
  <2> HIDE DEF e
  <2> QED
    BY <2>1, <2>2 DEF FxOK, Fx, WrappedOK
<1>2. FxOK(AssetEnded) /\ AssetEnded.address = effects.address
  <2> DEFINE e == [effects.asset EXCEPT !.busy = FALSE]
  <2>1. AssetOK(e)
    BY DEF FxOK, AssetOK, AssetFx
  <2>2. AssetEnded = [effects EXCEPT !.asset = e]
    BY DEF FxOK, Fx, AssetEnded
  <2> HIDE DEF e
  <2> QED
    BY <2>1, <2>2 DEF FxOK, Fx, AssetOK
<1>3. /\ FxOK(AddressEnded) /\ AddressEnded.address.on = effects.address.on
      /\ AddressEnded.address.busy = FALSE
  <2> DEFINE e == [effects.address EXCEPT !.busy = FALSE]
  <2>1. AddressOK(e) /\ e.on = effects.address.on /\ e.busy = FALSE
    BY DEF FxOK, AddressOK, AddressFx
  <2>2. AddressEnded = [effects EXCEPT !.address = e]
    BY DEF FxOK, Fx, AddressEnded
  <2> HIDE DEF e
  <2> QED
    BY <2>1, <2>2 DEF FxOK, Fx, AddressOK
<1> QED
  BY <1>1, <1>2, <1>3

\* The last question of the look-up of the asset changes no call.
LEMMA LastOK ==
    ASSUME NEW f, FxOK(f), NEW q \in AssetQuestions
    PROVE  LET g == [f EXCEPT !.asset.last = q]
           IN  FxOK(g) /\ g.address = f.address
<1> DEFINE e == [f.asset EXCEPT !.last = q]
<1>1. AssetOK(e)
  BY DEF FxOK, AssetOK, AssetFx
<1>2. [f EXCEPT !.asset.last = q] = [f EXCEPT !.asset = e]
  BY DEF FxOK, Fx
<1> HIDE DEF e
<1> QED
  BY <1>1, <1>2 DEF FxOK, Fx, AssetOK

-----------------------------------------------------------------------------
(***************************************************************************)
(* What the steps render                                                   *)
(***************************************************************************)

\* The effects have asked what they may, and those of a page that is left
\* nothing.
SliceOK ==
    /\ Good(nft) /\ FxOK(effects)
    /\ nftPage \in {"nft", "away"}
    /\ nftPage = "away" => effects = Idle

\* The store becomes s and the effects f, unless effects were pending: they
\* have run on what was rendered before.
Renders(s, f) ==
    /\ Good(nft') /\ FxOK(effects')
    /\ ~EffectsPending => nft' = s /\ effects'.address = f.address
    /\ EffectsPending => Kept(nft', s, nft, f) /\ effects'.address.on = AddressOn(nft)
    /\ nftPage = "away" => effects' = f

LEMMA RenderedMoves ==
    ASSUME ConstantsOK, Good(nft), NEW s, Good(s), NEW f, FxOK(f)
    PROVE  LET p == Rendered(s, f)
           IN  /\ Good(p.st) /\ FxOK(p.fx)
               /\ ~EffectsPending => p.st = s /\ p.fx = f
               /\ EffectsPending => Kept(p.st, s, nft, f) /\ p.fx.address.on = AddressOn(nft)
<1>1. CASE EffectsPending
  <2> DEFINE p == RunEffects(s, f)
  <2>1. Rendered(s, f) = p
    BY <1>1 DEF Rendered
  <2>2. Good(p.st) /\ Kept(p.st, s, nft, f)
    BY StoreRuns
  <2>3. FxOK(p.fx) /\ p.fx.address.on = AddressOn(nft)
    BY FxRuns
  <2> HIDE DEF p
  <2> QED
    BY <1>1, <2>1, <2>2, <2>3
<1>2. CASE ~EffectsPending
  BY <1>2 DEF Rendered
<1> QED
  BY <1>1, <1>2

LEMMA BecomesRenders ==
    ASSUME ConstantsOK, Good(nft), NEW s, Good(s), NEW f, FxOK(f), Becomes(Rendered(s, f))
    PROVE  Renders(s, f)
<1>1. nft' = Rendered(s, f).st /\ effects' = Rendered(s, f).fx
  BY DEF Becomes
<1>2. nftPage = "away" => ~EffectsPending
  BY DEF EffectsPending
<1> QED
  BY <1>1, <1>2, RenderedMoves DEF Renders

LEMMA DispatchRenders ==
    ASSUME ConstantsOK, SliceOK, NEW s, Good(s), Dispatch(s)
    PROVE  Renders(s, effects)
BY BecomesRenders DEF Dispatch, SliceOK

LEMMA RendersSlice ==
    ASSUME SliceOK, NEW s, NEW f, Renders(s, f), nftPage' = nftPage,
           f = effects \/ nftPage = "nft"
    PROVE  SliceOK'
BY DEF SliceOK, Renders

\* Where no effect awaits anything, the page is not shown.
LEMMA AwayIsIdle ==
    ASSUME SliceOK, effects.wrapped.busy \/ effects.asset.busy \/ effects.address.busy
    PROVE  nftPage = "nft"
BY DEF SliceOK, Idle

LEMMA WrappedInfoType ==
    ASSUME ConstantsOK, NEW c \in Chains, NEW a \in Accounts
    PROVE  /\ WrappedInfo(c, a) \in Origins
           /\ a.chain = c => WrappedInfo(c, a).token = a.token
<1>1. a.token \in Tokens /\ HomeOf[a.token] \in Chains
  BY DEF Accounts, ConstantsOK
<1> QED
  BY <1>1 DEF WrappedInfo, Origins

\* The chain and the account that the wrapped look-up was asked about.
WrappedSlice ==
    setSourceWormholeWrappedInfo(nft, WrappedInfo(effects.wrapped.on[2], effects.wrapped.on[3]))

LEMMA WrappedRenders ==
    ASSUME ConstantsOK, SliceOK, WrappedAnswer \/ WrappedFails
    PROVE  /\ effects.wrapped.busy /\ nftPage = "nft"
           /\ effects.wrapped.on[2] \in Chains /\ effects.wrapped.on[3] \in Accounts
           /\ \/ Renders(WrappedSlice, WrappedEnded)
              \/ effects' = WrappedEnded /\ UNCHANGED nft
<1>1. effects.wrapped.busy
  BY DEF WrappedAnswer, WrappedFails
<1>2. /\ nftPage = "nft" /\ Good(nft) /\ FxOK(WrappedEnded)
      /\ effects.wrapped.on[2] \in Chains /\ effects.wrapped.on[3] \in Accounts
  BY <1>1, AwayIsIdle, EndedParts DEF SliceOK, FxOK, WrappedOK
<1>3. Good(WrappedSlice)
  BY <1>2, WrappedInfoType, OriginMoves DEF WrappedSlice
<1>4. \/ Becomes(Rendered(WrappedSlice, WrappedEnded))
      \/ effects' = WrappedEnded /\ UNCHANGED nft
  BY DEF WrappedAnswer, WrappedFails, WrappedSlice, WrappedEnded
<1> HIDE DEF WrappedSlice, WrappedEnded
<1> QED
  BY <1>1, <1>2, <1>3, <1>4, BecomesRenders

\* The asset that is found is the one that was asked for.
LEMMA AssetRenders ==
    ASSUME ConstantsOK, SliceOK, AssetAnswer \/ AssetFails
    PROVE  /\ effects.asset.busy /\ nftPage = "nft"
           /\ effects.asset.on[1][1] # Nil
           /\ \E a \in Unknown \cup AssetsOf :
                /\ Renders(setTargetAsset(nft, a), AssetEnded)
                /\ a \in AssetsOf => a.token = effects.asset.on[1][1].token
<1>1. effects.asset.busy
  BY DEF AssetAnswer, AssetFails
<1>2. nftPage = "nft" /\ Good(nft) /\ FxOK(AssetEnded)
  BY <1>1, AwayIsIdle, EndedParts DEF SliceOK
<1> DEFINE q == effects.asset.on[1]
           b == [chain |-> q[2], token |-> q[1].token]
<1>3. q \in AssetQuestions /\ q[1] # Nil
  BY <1>1 DEF SliceOK, FxOK, AssetOK, AssetFx
<1>4. b \in AssetsOf /\ b.token = q[1].token
  BY <1>3 DEF AssetQuestions, Origins, AssetsOf
<1>5. CASE AssetFails
  <2>1. NoAsset("error") \in Unknown
    BY EmptyIsUnknown
  <2>2. NoAsset("error") \notin AssetsOf
    BY DEF ConstantsOK, NoAsset, AssetsOf
  <2>3. Becomes(Rendered(setTargetAsset(nft, NoAsset("error")), AssetEnded))
    BY <1>5 DEF AssetFails, AssetEnded
  <2>4. Good(setTargetAsset(nft, NoAsset("error")))
    BY <1>2, <2>1, AssetMoves
  <2>5. Renders(setTargetAsset(nft, NoAsset("error")), AssetEnded)
    BY <1>2, <2>3, <2>4, BecomesRenders
  <2> HIDE DEF q
  <2> QED
    BY <1>1, <1>2, <1>3, <2>1, <2>2, <2>5 DEF q
<1>6. CASE AssetAnswer
  <2> DEFINE s == setTargetAsset(nft, b)
             p == Rendered(s, AssetEnded)
  <2>1. Becomes([p EXCEPT !.fx.asset.last = q])
    BY <1>6 DEF AssetAnswer, AssetEnded
  <2> HIDE DEF q, b
  <2>2. Good(s)
    BY <1>2, <1>4, AssetMoves
  <2>3. /\ Good(p.st) /\ FxOK(p.fx)
        /\ ~EffectsPending => p.st = s /\ p.fx = AssetEnded
        /\ EffectsPending => /\ Kept(p.st, s, nft, AssetEnded)
                             /\ p.fx.address.on = AddressOn(nft)
    BY <1>2, <2>2, RenderedMoves
  <2>4. nft' = p.st /\ effects' = [p.fx EXCEPT !.asset.last = q]
    <3>1. p = [st |-> p.st, fx |-> p.fx]
      BY DEF Rendered, RunEffects
    <3> DEFINE st1 == p.st
               fx1 == p.fx
    <3>2. Becomes([[st |-> st1, fx |-> fx1] EXCEPT !.fx.asset.last = q])
      BY <2>1, <3>1
    <3> HIDE DEF st1, fx1
    <3>3. nft' = st1 /\ effects' = [fx1 EXCEPT !.asset.last = q]
      BY <3>2 DEF Becomes
    <3> QED
      BY <3>3 DEF st1, fx1
  <2> HIDE DEF p
  <2>5. FxOK(effects') /\ effects'.address = p.fx.address
    BY <1>3, <2>3, <2>4, LastOK
  <2>6. Renders(s, AssetEnded)
    BY <1>2, <2>3, <2>4, <2>5 DEF Renders
  <2> QED
    BY <1>1, <1>2, <1>3, <1>4, <2>6 DEF q
<1> QED
  BY <1>5, <1>6

\* The address that is derived belongs to the asset that was asked about.
LEMMA AddressRenders ==
    ASSUME ConstantsOK, SliceOK, AddressAnswer
    PROVE  /\ effects.address.busy /\ nftPage = "nft"
           /\ \E a \in Addresses \cup {Nil} :
                /\ Renders(setTargetAddressHex(nft, a), AddressEnded)
                /\ a # Nil => a.kind = "solana" /\ a.token = effects.address.on[3].token
<1> DEFINE asset == effects.address.on[3]
           a == IF Kind[asset.chain] = "solana"
                THEN [kind |-> "solana", token |-> asset.token] ELSE Nil
<1>1. effects.address.busy
  BY DEF AddressAnswer
<1>2. nftPage = "nft" /\ Good(nft) /\ FxOK(AddressEnded)
  BY <1>1, AwayIsIdle, EndedParts DEF SliceOK
<1>3. asset \in AssetsOf
  BY <1>1 DEF SliceOK, FxOK, AddressOK, AddressFx
<1>4. a \in Addresses \cup {Nil} /\ (a # Nil => a.kind = "solana" /\ a.token = asset.token)
  BY <1>3 DEF AssetsOf, Addresses
<1>5. Becomes(Rendered(setTargetAddressHex(nft, a), AddressEnded))
  BY DEF AddressAnswer, AddressEnded
<1> HIDE DEF a
<1>6. Good(setTargetAddressHex(nft, a))
  BY <1>2, <1>4, AddressMoves
<1>7. Renders(setTargetAddressHex(nft, a), AddressEnded)
  BY <1>2, <1>5, <1>6, BecomesRenders
<1> QED
  BY <1>1, <1>2, <1>4, <1>7

-----------------------------------------------------------------------------
(***************************************************************************)
(* Types                                                                   *)
(***************************************************************************)

ClaimSet == [vaa : VAAs, chain : Chains, phase : {"claim", "describe"}]

\* What TypeOK says of all but the slice and the effects.
RestOK ==
    /\ picks \subseteq Accounts /\ network \in EVMChains
    /\ nftSends \in Seq(Calls) /\ Len(nftSends) <= MaxNFTSends
    /\ claims \subseteq ClaimSet /\ claimed \subseteq VAAs /\ described \subseteq claimed
    /\ nftDisturbed \in BOOLEAN /\ nftSlipped \in BOOLEAN
    /\ nftChoices \in 0 .. MaxNFTChoices

\* The transfers whose VAA is known.
Existing == {0} \cup DOMAIN nftSends

\* A VAA in use is that of a transfer, and the metadata is asked for after the
\* NFT has been released, on its chain.
ClaimsInv ==
    /\ nft.signedVAA \in Existing \cup {Nil}
    /\ \A r \in claims :
         /\ r.vaa \in Existing
         /\ r.phase = "describe" => r.vaa \in claimed /\ TargetOf(r.vaa) = r.chain

TypeInv == SliceOK /\ RestOK /\ ClaimsInv

LEMMA TypesFollow == TypeInv => TypeOK
<1> SUFFICES ASSUME TypeInv PROVE TypeOK
  OBVIOUS
<1>1. nft \in NFTState /\ nft.sourceChain # nft.targetChain /\ nftPage \in {"nft", "away"}
  BY DEF TypeInv, SliceOK, Good
<1>2. \A f \in {"address", "wrapped", "asset"} : effects[f].busy \in BOOLEAN
  <2>1. /\ effects.address.busy \in BOOLEAN /\ effects.wrapped.busy \in BOOLEAN
        /\ effects.asset.busy \in BOOLEAN
    BY DEF TypeInv, SliceOK, FxOK, Fx, AddressFx, WrappedFx, AssetFx
  <2> QED
    BY <2>1
<1> QED
  BY <1>1, <1>2 DEF TypeInv, RestOK, TypeOK, ClaimSet

\* A transfer keeps the arguments of its call.
LEMMA PhaseMoves ==
    ASSUME nftSends \in Seq(Calls), NEW i \in DOMAIN nftSends,
           NEW p \in {"fetching", "landed", "failed"},
           nftSends' = [nftSends EXCEPT ![i].phase = p]
    PROVE  /\ nftSends' \in Seq(Calls) /\ Len(nftSends') = Len(nftSends)
           /\ DOMAIN nftSends' = DOMAIN nftSends
           /\ nftSends'[i] = [nftSends[i] EXCEPT !.phase = p]
           /\ \A j \in DOMAIN nftSends \ {i} : nftSends'[j] = nftSends[j]
<1> DEFINE c == [nftSends[i] EXCEPT !.phase = p]
<1>1. c \in Calls
  <2>1. nftSends[i] \in Calls
    OBVIOUS
  <2> QED
    BY <2>1 DEF Calls
<1>2. nftSends' = [nftSends EXCEPT ![i] = c]
  OBVIOUS
<1> HIDE DEF c
<1> QED
  BY <1>1, <1>2 DEF c

\* Which phase a transfer enters, and what is rendered of it.
LEMMA SendMoves ==
    ASSUME NEW i, Sent(i)
    PROVE  /\ nftSends[i].phase \in {"signing", "fetching"}
           /\ \E p \in {"fetching", "landed", "failed"} :
                nftSends' = [nftSends EXCEPT ![i].phase = p]
           /\ unchangedBySend
           /\ \/ UNCHANGED <<nft, effects>>
              \/ Dispatch(setIsSending(nft, FALSE))
              \/ Dispatch(setSignedVAAHex(nft, i))
BY DEF Sent, SendConfirmed, SendFails, GotSignedVAA

\* The transfer that is sent.
Sending == [sourceChain |-> nft.sourceChain, account |-> nft.account,
            origin |-> nft.origin, targetChain |-> nft.targetChain,
            recipient |-> nft.targetAddress, reaches |-> Executable(nft),
            phase |-> "signing"]

LEMMA SendGrows ==
    ASSUME ConstantsOK, Good(nft), nftSends \in Seq(Calls), TransferClick
    PROVE  /\ nftSends' \in Seq(Calls) /\ Len(nftSends') = Len(nftSends) + 1
           /\ Len(nftSends') <= MaxNFTSends
           /\ DOMAIN nftSends' = DOMAIN nftSends \cup {Len(nftSends) + 1}
           /\ nftSends'[Len(nftSends) + 1] = Sending
           /\ \A j \in DOMAIN nftSends : nftSends'[j] = nftSends[j]
<1>1. Sending \in Calls
  <2>1. /\ nft.account \in Accounts /\ nft.targetAddress \in Addresses
    BY Fields DEF TransferClick, IsTargetComplete, IsSourceComplete
  <2>2. Executable(nft) \in BOOLEAN
    BY DEF Executable
  <2> DEFINE b == Executable(nft)
  <2>3. Sending = [sourceChain |-> nft.sourceChain, account |-> nft.account,
            origin |-> nft.origin, targetChain |-> nft.targetChain,
            recipient |-> nft.targetAddress, reaches |-> b, phase |-> "signing"]
    BY DEF Sending
  <2>4. b \in BOOLEAN
    BY <2>2
  <2> HIDE DEF b
  <2> QED
    BY <2>1, <2>3, <2>4, Fields DEF Calls
<1>2. nftSends' = Append(nftSends, Sending) /\ Len(nftSends) < MaxNFTSends /\ MaxNFTSends \in Nat
  BY DEF TransferClick, Sending, ConstantsOK
<1> QED
  BY <1>1, <1>2

\* Which calls and VAAs a redeem leaves, and what is rendered of it.
LEMMA ClaimMoves ==
    ASSUME NEW r, Redeems(r)
    PROVE  /\ claims' \in {claims \ {r}, (claims \ {r}) \cup {[r EXCEPT !.phase = "describe"]}}
           /\ claimed' \in {claimed, claimed \cup {r.vaa}}
           /\ described' \in {described, described \cup {r.vaa}}
           /\ described' # described => r.phase = "describe"
           /\ claims' # claims \ {r} => r.vaa \in claimed' /\ TargetOf(r.vaa) = r.chain
           /\ unchangedByRedeem
           /\ \/ UNCHANGED <<nft, effects>>
              \/ Dispatch(setRedeemTx(nft))
              \/ Dispatch(setIsRedeeming(nft, FALSE))
<1>1. CASE ClaimOnEVM(r)
  BY <1>1 DEF ClaimOnEVM
<1>2. CASE ClaimOnSolana(r)
  BY <1>2 DEF ClaimOnSolana, Claimable
<1>3. CASE Describe(r)
  <2>1. (IF NeedsMetadata(r.vaa) THEN {r.vaa} ELSE {}) \in {{}, {r.vaa}}
    OBVIOUS
  <2>2. described' \in {described, described \cup IF NeedsMetadata(r.vaa) THEN {r.vaa} ELSE {}}
    BY <1>3 DEF Describe
  <2>3. described' \in {described, described \cup {r.vaa}}
    BY <2>1, <2>2
  <2> QED
    BY <1>3, <2>3 DEF Describe
<1> QED
  BY <1>1, <1>2, <1>3 DEF Redeems

LEMMA VAAsOfSends ==
    ASSUME ConstantsOK, RestOK
    PROVE  /\ DOMAIN nftSends \subseteq VAAs /\ 0 \notin DOMAIN nftSends
           /\ Existing \subseteq VAAs /\ Nil \notin VAAs /\ 0 \in VAAs
<1>1. DOMAIN nftSends = 1 .. Len(nftSends) /\ Len(nftSends) \in Nat
  BY DEF RestOK
<1> QED
  BY <1>1 DEF ConstantsOK, RestOK, VAAs, Existing

LEMMA TargetsOfVAAs ==
    ASSUME ConstantsOK, RestOK, NEW v \in Existing
    PROVE  TargetOf(v) \in Chains /\ TokenOf(v) \in Tokens
<1>1. CASE v = 0
  BY <1>1 DEF TargetOf, TokenOf, ConstantsOK
<1>2. CASE v # 0
  <2>1. v \in DOMAIN nftSends
    BY <1>2 DEF Existing
  <2>2. nftSends[v] \in Calls
    BY <2>1 DEF RestOK
  <2> QED
    BY <1>2, <2>2 DEF TargetOf, TokenOf, Calls, Accounts
<1> QED
  BY <1>1, <1>2

\* The slices that the user's clicks lead to.
LEMMA ClickSlice ==
    ASSUME SliceOK, NEW s, Good(s), Click(s)
    PROVE  SliceOK'
BY DEF SliceOK, Click

LEMMA ContinueMoves ==
    ASSUME Good(nft), Continue
    PROVE  LET t == incrementStep(nft)
           IN  /\ Good(t) /\ SameLocks(t, nft) /\ SameTarget(t, nft)
               /\ t.sourceChain = nft.sourceChain /\ t.targetChain = nft.targetChain
               /\ t.account = nft.account
<1>1. nft.activeStep \in {0, 1}
  BY DEF Continue
<1>2. incrementStep(nft) = setStep(nft, nft.activeStep + 1) /\ nft.activeStep + 1 \in 0 .. 3
  BY <1>1 DEF incrementStep
<1> QED
  BY <1>2, StepMoves

LEMMA SliceNext == ConstantsOK /\ TypeInv /\ [Next]_nftVars => SliceOK'
<1> SUFFICES ASSUME ConstantsOK, TypeInv, [Next]_nftVars PROVE SliceOK'
  OBVIOUS
<1>1. SliceOK /\ RestOK /\ ClaimsInv /\ Good(nft)
  BY DEF TypeInv, SliceOK
<1>2. ASSUME NEW s, Good(s), Click(s) PROVE SliceOK'
  BY <1>1, <1>2, ClickSlice
<1>3. ASSUME NEW s, Good(s), Dispatch(s), UNCHANGED nftPage PROVE SliceOK'
  BY <1>1, <1>3, DispatchRenders, RendersSlice
<1>4. ASSUME UNCHANGED <<nft, effects, nftPage>> PROVE SliceOK'
  BY <1>1, <1>4 DEF SliceOK
<1>5. ASSUME NEW c \in Chains, ChooseSourceChain(c) PROVE SliceOK'
  BY <1>1, <1>2, <1>5, SourceChainMoves DEF ChooseSourceChain
<1>6. ASSUME NEW c \in Chains, ChooseTargetChain(c) PROVE SliceOK'
  BY <1>1, <1>2, <1>6, TargetChainMoves DEF ChooseTargetChain
<1>7. ASSUME NEW token \in Tokens, SelectOption(token) PROVE SliceOK'
  BY <1>4, <1>7 DEF SelectOption
<1>8. ASSUME NEW a \in picks, OptionSelected(a) PROVE SliceOK'
  <2>1. Good(setSourceParsedTokenAccount(nft, a))
    BY <1>1, AccountMoves DEF RestOK
  <2> QED
    BY <1>3, <1>4, <1>8, <2>1 DEF OptionSelected
<1>9. CASE Continue
  BY <1>1, <1>2, <1>9, ContinueMoves DEF Continue
<1>10. ASSUME NEW n \in 0 .. 1, StepButton(n) PROVE SliceOK'
  BY <1>1, <1>2, <1>10, StepMoves DEF StepButton
<1>11. CASE FlushEffects
  <2>1. Dispatch(nft) /\ UNCHANGED nftPage
    BY <1>11 DEF FlushEffects, Dispatch, Rendered
  <2> QED
    BY <1>1, <1>3, <2>1
<1>12. CASE WrappedAnswer \/ WrappedFails
  <2>1. UNCHANGED nftPage
    BY <1>12 DEF WrappedAnswer, WrappedFails, unchangedByAnswer
  <2>2. /\ nftPage = "nft"
        /\ \/ Renders(WrappedSlice, WrappedEnded)
           \/ effects' = WrappedEnded /\ UNCHANGED nft
    BY <1>1, <1>12, WrappedRenders
  <2>3. FxOK(WrappedEnded)
    BY <1>1, EndedParts DEF SliceOK
  <2>4. CASE Renders(WrappedSlice, WrappedEnded)
    BY <1>1, <2>1, <2>2, <2>4, RendersSlice
  <2>5. CASE effects' = WrappedEnded /\ UNCHANGED nft
    BY <1>1, <2>1, <2>2, <2>3, <2>5 DEF SliceOK
  <2> QED
    BY <2>2, <2>4, <2>5
<1>13. CASE AssetAnswer \/ AssetFails
  <2>1. UNCHANGED nftPage
    BY <1>13 DEF AssetAnswer, AssetFails, unchangedByAnswer
  <2>2. PICK a : nftPage = "nft" /\ Renders(setTargetAsset(nft, a), AssetEnded)
    BY <1>1, <1>13, AssetRenders
  <2> QED
    BY <1>1, <2>1, <2>2, RendersSlice
<1>14. CASE AddressAnswer
  <2>1. UNCHANGED nftPage
    BY <1>14 DEF AddressAnswer, unchangedByAnswer
  <2>2. PICK a : nftPage = "nft" /\ Renders(setTargetAddressHex(nft, a), AddressEnded)
    BY <1>1, <1>14, AddressRenders
  <2> QED
    BY <1>1, <2>1, <2>2, RendersSlice
<1>15. CASE TransferClick
  <2>1. Good(setIsSending(nft, TRUE))
    BY <1>1, SendingMoves
  <2> QED
    BY <1>1, <1>15, <2>1 DEF TransferClick, SliceOK
<1>16. ASSUME NEW i \in DOMAIN nftSends, Sent(i) PROVE SliceOK'
  <2>1. /\ UNCHANGED nftPage
        /\ \/ UNCHANGED <<nft, effects>>
           \/ Dispatch(setIsSending(nft, FALSE))
           \/ Dispatch(setSignedVAAHex(nft, i))
    BY <1>16, SendMoves DEF unchangedBySend
  <2>2. Good(setIsSending(nft, FALSE)) /\ Good(setSignedVAAHex(nft, i))
    BY <1>1, SendingMoves, VAAMoves, VAAsOfSends
  <2> QED
    BY <1>3, <1>4, <2>1, <2>2
<1>17. CASE RedeemClick
  <2>1. Good(setIsRedeeming(nft, TRUE))
    BY <1>1, RedeemingMoves
  <2> QED
    BY <1>1, <1>17, <2>1 DEF RedeemClick, SliceOK
<1>18. ASSUME NEW r \in claims, Redeems(r) PROVE SliceOK'
  <2>1. /\ UNCHANGED nftPage
        /\ \/ UNCHANGED <<nft, effects>>
           \/ Dispatch(setRedeemTx(nft))
           \/ Dispatch(setIsRedeeming(nft, FALSE))
    BY <1>18, ClaimMoves DEF unchangedByRedeem
  <2>2. Good(setRedeemTx(nft)) /\ Good(setIsRedeeming(nft, FALSE))
    BY <1>1, RedeemTxMoves, RedeemingMoves
  <2> QED
    BY <1>3, <1>4, <2>1, <2>2
<1>19. CASE ResetClick
  BY <1>1, <1>2, <1>19, ResetMoves DEF ResetClick
<1>20. CASE Leave
  BY <1>1, <1>20, IdleOK DEF Leave, SliceOK
<1>21. CASE Return
  BY <1>1, <1>21 DEF Return, SliceOK
<1>22. ASSUME NEW v \in VAAs, RecoverClick(v) PROVE SliceOK'
  <2>1. v \in Existing
    BY <1>22 DEF RecoverClick, Existing
  <2>2. Good(setRecoveryVaa(nft, v, TargetOf(v), TokenOf(v)))
    BY <1>1, <2>1, TargetsOfVAAs, RecoveryMoves
  <2> QED
    BY <1>1, <1>22, <2>2 DEF RecoverClick, SliceOK
<1>23. ASSUME NEW c \in EVMChains, SwitchNetwork(c) PROVE SliceOK'
  BY <1>1, <1>3, <1>23 DEF SwitchNetwork
<1>24. CASE UNCHANGED nftVars
  BY <1>4, <1>24 DEF nftVars
<1> QED
  BY <1>5, <1>6, <1>7, <1>8, <1>9, <1>10, <1>11, <1>12, <1>13, <1>14, <1>15, <1>16, <1>17,
     <1>18, <1>19, <1>20, <1>21, <1>22, <1>23, <1>24
  DEF Next

LEMMA RestNext == ConstantsOK /\ TypeInv /\ [Next]_nftVars => RestOK'
<1> SUFFICES ASSUME ConstantsOK, TypeInv, [Next]_nftVars PROVE RestOK'
  OBVIOUS
<1>1. SliceOK /\ RestOK /\ ClaimsInv /\ Good(nft)
  BY DEF TypeInv, SliceOK
<1>2. MaxNFTChoices \in Nat /\ MaxNFTSends \in Nat
  BY DEF ConstantsOK
<1> DEFINE Calm == <<picks, network, nftSends, claims, claimed, described>>
           Flags == nftDisturbed' \in BOOLEAN /\ nftSlipped' \in BOOLEAN
           Counted == nftChoices' \in 0 .. MaxNFTChoices
<1>3. Choice \/ UNCHANGED nftChoices => Counted
  BY <1>1, <1>2 DEF Choice, RestOK
<1>4. ASSUME UNCHANGED Calm, Flags, Counted PROVE RestOK'
  BY <1>1, <1>4 DEF RestOK
<1>5. UNCHANGED <<nftDisturbed, nftSlipped>> => Flags
  BY <1>1 DEF RestOK
<1>6. ASSUME unchangedByAnswer PROVE RestOK'
  <2>1. Flags /\ Counted /\ UNCHANGED Calm
    BY <1>1, <1>3, <1>6 DEF unchangedByAnswer, RestOK, EffectsPending
  <2> QED
    BY <1>4, <2>1
<1> HIDE DEF Counted
<1>7. ASSUME NEW c \in Chains, ChooseSourceChain(c) \/ ChooseTargetChain(c) PROVE RestOK'
  BY <1>3, <1>4, <1>5, <1>7 DEF ChooseSourceChain, ChooseTargetChain, Click
<1>8. ASSUME NEW token \in Tokens, SelectOption(token) PROVE RestOK'
  <2>1. [chain |-> nft.sourceChain, token |-> token] \in Accounts
    BY <1>1, Fields DEF Accounts
  <2>2. picks' \subseteq Accounts
    BY <1>1, <1>8, <2>1 DEF SelectOption, RestOK
  <2> QED
    BY <1>1, <1>3, <1>8, <2>2 DEF SelectOption, RestOK, Counted
<1>9. ASSUME NEW a \in picks, OptionSelected(a) PROVE RestOK'
  <2>1. picks' \subseteq Accounts /\ nftSlipped' \in BOOLEAN
    BY <1>1, <1>9 DEF OptionSelected, RestOK, EffectsPending
  <2> QED
    BY <1>1, <1>9, <2>1 DEF OptionSelected, RestOK
<1>10. CASE Continue
  BY <1>3, <1>4, <1>5, <1>10 DEF Continue, Click
<1>11. ASSUME NEW n \in 0 .. 1, StepButton(n) PROVE RestOK'
  BY <1>3, <1>4, <1>5, <1>11 DEF StepButton, Click
<1>12. CASE FlushEffects
  BY <1>3, <1>4, <1>5, <1>12 DEF FlushEffects
<1>13. CASE WrappedAnswer \/ WrappedFails \/ AssetAnswer \/ AssetFails \/ AddressAnswer
  BY <1>6, <1>13 DEF WrappedAnswer, WrappedFails, AssetAnswer, AssetFails, AddressAnswer
<1>14. CASE TransferClick
  <2>1. nftSends' \in Seq(Calls) /\ Len(nftSends') <= MaxNFTSends
    BY <1>1, <1>14, SendGrows DEF RestOK
  <2> QED
    BY <1>1, <1>14, <2>1 DEF TransferClick, RestOK
<1>15. ASSUME NEW i \in DOMAIN nftSends, Sent(i) PROVE RestOK'
  <2>1. PICK p \in {"fetching", "landed", "failed"} :
          nftSends' = [nftSends EXCEPT ![i].phase = p]
    BY <1>15, SendMoves
  <2>2. nftSends' \in Seq(Calls) /\ Len(nftSends') = Len(nftSends)
    BY <1>1, <2>1, PhaseMoves DEF RestOK
  <2>3. unchangedBySend
    BY <1>15, SendMoves
  <2> QED
    BY <1>1, <2>2, <2>3 DEF unchangedBySend, RestOK
<1>16. CASE RedeemClick
  <2>1. [vaa |-> nft.signedVAA, chain |-> nft.targetChain, phase |-> "claim"] \in ClaimSet
    BY <1>1, <1>16, Fields DEF RedeemClick, ClaimSet
  <2>2. claims' \subseteq ClaimSet
    BY <1>1, <1>16, <2>1 DEF RedeemClick, RestOK
  <2> QED
    BY <1>1, <1>16, <2>2 DEF RedeemClick, RestOK
<1>17. ASSUME NEW r \in claims, Redeems(r) PROVE RestOK'
  <2>1. r \in ClaimSet /\ [r EXCEPT !.phase = "describe"] \in ClaimSet
    BY <1>1 DEF RestOK, ClaimSet
  <2>2. claims' \subseteq ClaimSet
    <3>1. claims' \in {claims \ {r}, (claims \ {r}) \cup {[r EXCEPT !.phase = "describe"]}}
      BY <1>17, ClaimMoves
    <3> QED
      BY <1>1, <2>1, <3>1 DEF RestOK
  <2>3. claimed' \subseteq VAAs /\ claimed \subseteq claimed'
    <3>1. claimed' \in {claimed, claimed \cup {r.vaa}}
      BY <1>17, ClaimMoves
    <3> QED
      BY <1>1, <2>1, <3>1 DEF RestOK, ClaimSet
  <2>4. described' \subseteq claimed'
    <3>1. /\ described' \in {described, described \cup {r.vaa}}
          /\ described' # described => r.phase = "describe"
      BY <1>17, ClaimMoves
    <3>2. r.phase = "describe" => r.vaa \in claimed
      BY <1>1 DEF ClaimsInv
    <3> QED
      BY <1>1, <2>3, <3>1, <3>2 DEF RestOK
  <2>5. unchangedByRedeem
    BY <1>17, ClaimMoves
  <2> QED
    BY <1>1, <2>2, <2>3, <2>4, <2>5 DEF unchangedByRedeem, RestOK
<1>18. CASE ResetClick
  <2>1. Flags
    BY <1>1, <1>18, Fields DEF ResetClick, Click, CallsRun, RestOK
  <2> QED
    BY <1>3, <1>4, <1>18, <2>1 DEF ResetClick, Click
<1>19. CASE Leave
  BY <1>3, <1>4, <1>5, <1>19 DEF Leave
<1>20. CASE Return
  BY <1>3, <1>4, <1>5, <1>20 DEF Return
<1>21. ASSUME NEW v \in VAAs, RecoverClick(v) PROVE RestOK'
  <2>1. Flags
    BY <1>1, <1>21, Fields DEF RecoverClick, CallsRun, RestOK
  <2> QED
    BY <1>3, <1>4, <1>21, <2>1 DEF RecoverClick
<1>22. ASSUME NEW c \in EVMChains, SwitchNetwork(c) PROVE RestOK'
  BY <1>1, <1>3, <1>22 DEF SwitchNetwork, RestOK, Counted
<1>23. CASE UNCHANGED nftVars
  BY <1>3, <1>4, <1>5, <1>23 DEF nftVars
<1> QED
  BY <1>7, <1>8, <1>9, <1>10, <1>11, <1>12, <1>13, <1>14, <1>15, <1>16, <1>17, <1>18, <1>19,
     <1>20, <1>21, <1>22, <1>23
  DEF Next

\* What a call was sent with.
SameCall(c, d) ==
    /\ c.sourceChain = d.sourceChain /\ c.account = d.account /\ c.origin = d.origin
    /\ c.targetChain = d.targetChain /\ c.recipient = d.recipient

\* What was sent stays, and only TransferClick sends.
LEMMA SendsStay ==
    ASSUME ConstantsOK, TypeInv, [Next]_nftVars
    PROVE  /\ DOMAIN nftSends \subseteq DOMAIN nftSends'
           /\ \A i \in DOMAIN nftSends : SameCall(nftSends'[i], nftSends[i])
           /\ TransferClick \/ DOMAIN nftSends' = DOMAIN nftSends
<1>1. nftSends \in Seq(Calls) /\ Good(nft)
  BY DEF TypeInv, RestOK, SliceOK
<1>2. CASE UNCHANGED nftSends
  BY <1>2 DEF SameCall
<1>3. CASE TransferClick
  BY <1>1, <1>3, SendGrows DEF SameCall
<1>4. ASSUME NEW i \in DOMAIN nftSends, Sent(i)
      PROVE  /\ DOMAIN nftSends' = DOMAIN nftSends
             /\ \A j \in DOMAIN nftSends : SameCall(nftSends'[j], nftSends[j])
  <2>1. PICK p \in {"fetching", "landed", "failed"} :
          nftSends' = [nftSends EXCEPT ![i].phase = p]
    BY <1>4, SendMoves
  <2>2. /\ DOMAIN nftSends' = DOMAIN nftSends
        /\ nftSends'[i] = [nftSends[i] EXCEPT !.phase = p]
        /\ \A j \in DOMAIN nftSends \ {i} : nftSends'[j] = nftSends[j]
    BY <1>1, <2>1, PhaseMoves
  <2>3. nftSends[i] \in Calls
    BY <1>1
  <2>4. SameCall(nftSends'[i], nftSends[i])
    BY <2>2, <2>3 DEF SameCall, Calls
  <2> QED
    BY <2>2, <2>4 DEF SameCall
<1>5. \/ UNCHANGED nftSends
      \/ TransferClick
      \/ \E i \in DOMAIN nftSends : Sent(i)
  <2>1. ASSUME NEW r, Redeems(r) PROVE UNCHANGED nftSends
    BY <2>1, ClaimMoves DEF unchangedByRedeem
  <2>2. CASE UNCHANGED nftVars
    BY <2>2 DEF nftVars
  <2>3. CASE Next
    <3>1. ASSUME NEW c, ChooseSourceChain(c) \/ ChooseTargetChain(c) PROVE UNCHANGED nftSends
      BY <3>1 DEF ChooseSourceChain, ChooseTargetChain, Click
    <3>2. ASSUME NEW c, SelectOption(c) \/ OptionSelected(c) PROVE UNCHANGED nftSends
      BY <3>2 DEF SelectOption, OptionSelected
    <3>3. ASSUME NEW c, StepButton(c) \/ RecoverClick(c) \/ SwitchNetwork(c)
          PROVE  UNCHANGED nftSends
      BY <3>3 DEF StepButton, Click, RecoverClick, SwitchNetwork
    <3>4. CASE \/ WrappedAnswer \/ WrappedFails \/ AssetAnswer \/ AssetFails
               \/ AddressAnswer \/ FlushEffects
      BY <3>4 DEF WrappedAnswer, WrappedFails, AssetAnswer, AssetFails, AddressAnswer,
                  FlushEffects, unchangedByAnswer
    <3>5. CASE Continue \/ RedeemClick \/ ResetClick \/ Leave \/ Return
      BY <3>5 DEF Continue, RedeemClick, ResetClick, Leave, Return, Click
    <3> QED
      BY <2>1, <2>3, <3>1, <3>2, <3>3, <3>4, <3>5 DEF Next
  <2> QED
    BY <2>2, <2>3
<1> QED
  BY <1>2, <1>3, <1>4, <1>5

LEMMA VAAsStay ==
    ASSUME ConstantsOK, TypeInv, [Next]_nftVars, NEW v \in Existing
    PROVE  v \in Existing' /\ TargetOf(v)' = TargetOf(v) /\ TokenOf(v)' = TokenOf(v)
<1>1. v # 0 => /\ v \in DOMAIN nftSends /\ v \in DOMAIN nftSends'
               /\ SameCall(nftSends'[v], nftSends[v])
  BY SendsStay DEF Existing
<1> QED
  BY <1>1 DEF Existing, TargetOf, TokenOf, SameCall

\* Rendering leaves the VAA and the locks alone.
LEMMA LocksRendered ==
    ASSUME NEW s, NEW f, Renders(s, f)
    PROVE  SameLocks(nft', s)
BY DEF Renders, Kept, SameLocks

\* Which steps change the VAA, the locks or what is called.
LEMMA LocksNext ==
    ASSUME ConstantsOK, TypeInv, [Next]_nftVars
    PROVE  \/ SameLocks(nft', nft) /\ UNCHANGED <<nftSends, claims, claimed, described>>
           \/ TransferClick \/ RedeemClick \/ ResetClick
           \/ \E i \in DOMAIN nftSends : Sent(i)
           \/ \E r \in claims : Redeems(r)
           \/ \E v \in VAAs : RecoverClick(v)
<1> DEFINE Calls0 == <<nftSends, claims, claimed, described>>
           Quiet == SameLocks(nft', nft) /\ UNCHANGED Calls0
<1>1. SliceOK /\ RestOK /\ Good(nft)
  BY DEF TypeInv, SliceOK
<1>2. ASSUME NEW s, Renders(s, effects), SameLocks(s, nft) PROVE SameLocks(nft', nft)
  BY <1>2, LocksRendered DEF SameLocks
<1>3. ASSUME UNCHANGED nft PROVE SameLocks(nft', nft)
  BY <1>3 DEF SameLocks
<1>4. ASSUME NEW c \in Chains, ChooseSourceChain(c) PROVE Quiet
  <2>1. SameLocks(setSourceChain(nft, c), nft)
    BY <1>1, SourceChainMoves
  <2> QED
    BY <1>4, <2>1 DEF ChooseSourceChain, Click
<1>5. ASSUME NEW c \in Chains, ChooseTargetChain(c) PROVE Quiet
  <2>1. SameLocks(setTargetChain(nft, c), nft)
    BY <1>1, <1>5, TargetChainMoves DEF ChooseTargetChain
  <2> QED
    BY <1>5, <2>1 DEF ChooseTargetChain, Click
<1>6. ASSUME NEW token, SelectOption(token) PROVE Quiet
  BY <1>3, <1>6 DEF SelectOption
<1>7. ASSUME NEW a \in picks, OptionSelected(a) PROVE Quiet
  <2>1. Good(setSourceParsedTokenAccount(nft, a)) /\ SameLocks(setSourceParsedTokenAccount(nft, a), nft)
    BY <1>1, AccountMoves DEF RestOK
  <2>2. SameLocks(nft', nft)
    BY <1>1, <1>2, <1>3, <1>7, <2>1, DispatchRenders DEF OptionSelected
  <2> QED
    BY <1>7, <2>2 DEF OptionSelected
<1>8. CASE Continue
  <2>1. SameLocks(incrementStep(nft), nft)
    BY <1>1, <1>8, ContinueMoves
  <2> QED
    BY <1>8, <2>1 DEF Continue, Click
<1>9. ASSUME NEW n \in 0 .. 1, StepButton(n) PROVE Quiet
  <2>1. SameLocks(setStep(nft, n), nft)
    BY <1>1, StepMoves
  <2> QED
    BY <1>9, <2>1 DEF StepButton, Click
<1>10. SameLocks(nft, nft)
  BY DEF SameLocks
<1>11. CASE FlushEffects
  <2>1. Dispatch(nft)
    BY <1>11 DEF FlushEffects, Dispatch, Rendered
  <2>2. SameLocks(nft', nft)
    BY <1>1, <1>2, <1>10, <2>1, DispatchRenders
  <2> QED
    BY <1>11, <2>2 DEF FlushEffects
<1>12. ASSUME NEW c, SwitchNetwork(c) PROVE Quiet
  <2>1. SameLocks(nft', nft)
    BY <1>1, <1>2, <1>10, <1>12, DispatchRenders DEF SwitchNetwork
  <2> QED
    BY <1>12, <2>1 DEF SwitchNetwork
<1>13. CASE WrappedAnswer \/ WrappedFails
  <2>1. SameLocks(WrappedSlice, nft)
    BY <1>1, <1>13, WrappedRenders, WrappedInfoType, OriginMoves DEF WrappedSlice
  <2>2. SameLocks(nft', nft)
    BY <1>1, <1>3, <1>13, <2>1, WrappedRenders, LocksRendered DEF SameLocks
  <2> QED
    BY <1>13, <2>2 DEF WrappedAnswer, WrappedFails, unchangedByAnswer
<1>14. CASE AssetAnswer \/ AssetFails
  <2>1. PICK a \in Unknown \cup AssetsOf : Renders(setTargetAsset(nft, a), AssetEnded)
    BY <1>1, <1>14, AssetRenders
  <2>2. SameLocks(nft', nft)
    BY <1>1, <2>1, AssetMoves, LocksRendered DEF SameLocks
  <2> QED
    BY <1>14, <2>2 DEF AssetAnswer, AssetFails, unchangedByAnswer
<1>15. CASE AddressAnswer
  <2>1. PICK a \in Addresses \cup {Nil} : Renders(setTargetAddressHex(nft, a), AddressEnded)
    BY <1>1, <1>15, AddressRenders
  <2>2. SameLocks(nft', nft)
    BY <1>1, <2>1, AddressMoves, LocksRendered DEF SameLocks
  <2> QED
    BY <1>15, <2>2 DEF AddressAnswer, unchangedByAnswer
<1>16. CASE Leave \/ Return
  BY <1>3, <1>16 DEF Leave, Return
<1>17. CASE UNCHANGED nftVars
  BY <1>3, <1>17 DEF nftVars
<1> QED
  BY <1>4, <1>5, <1>6, <1>7, <1>8, <1>9, <1>11, <1>12, <1>13, <1>14, <1>15, <1>16, <1>17
  DEF Next

LEMMA ClaimsNext == ConstantsOK /\ TypeInv /\ [Next]_nftVars => ClaimsInv'
<1> SUFFICES ASSUME ConstantsOK, TypeInv, [Next]_nftVars PROVE ClaimsInv'
  OBVIOUS
<1>1. SliceOK /\ RestOK /\ ClaimsInv /\ Good(nft)
  BY DEF TypeInv, SliceOK
<1> DEFINE Fine(r) == /\ r.vaa \in Existing
                      /\ r.phase = "describe" => r.vaa \in claimed /\ TargetOf(r.vaa) = r.chain
<1>2. ASSUME NEW v \in Existing PROVE v \in Existing' /\ TargetOf(v)' = TargetOf(v)
  BY <1>2, VAAsStay
<1>3. ASSUME claimed \subseteq claimed', NEW r, Fine(r)
      PROVE  /\ r.vaa \in Existing'
             /\ r.phase = "describe" => r.vaa \in claimed' /\ TargetOf(r.vaa)' = r.chain
  BY <1>2, <1>3
<1>4. SUFFICES /\ nft'.signedVAA \in Existing \cup {Nil}
               /\ claimed \subseteq claimed'
               /\ \A r \in claims' :
                    \/ Fine(r)
                    \/ /\ r.vaa \in Existing
                       /\ r.phase = "describe" => r.vaa \in claimed' /\ TargetOf(r.vaa) = r.chain
  <2>1. ASSUME NEW r \in claims',
               nft'.signedVAA \in Existing \cup {Nil}, claimed \subseteq claimed',
               \/ Fine(r)
               \/ /\ r.vaa \in Existing
                  /\ r.phase = "describe" => r.vaa \in claimed' /\ TargetOf(r.vaa) = r.chain
        PROVE  /\ r.vaa \in Existing'
               /\ r.phase = "describe" => r.vaa \in claimed' /\ TargetOf(r.vaa)' = r.chain
    BY <1>2, <1>3, <2>1
  <2> HIDE DEF Fine
  <2> QED
    BY <1>2, <2>1 DEF ClaimsInv
<1>5. nft.signedVAA \in Existing \cup {Nil} /\ \A r \in claims : Fine(r)
  BY <1>1 DEF ClaimsInv
<1>6. CASE SameLocks(nft', nft) /\ UNCHANGED <<nftSends, claims, claimed, described>>
  BY <1>5, <1>6 DEF SameLocks
<1>7. CASE TransferClick
  <2>1. nft'.signedVAA = nft.signedVAA
    BY <1>1, <1>7, SendingMoves DEF TransferClick
  <2> QED
    BY <1>5, <1>7, <2>1 DEF TransferClick
<1>8. CASE RedeemClick
  <2>1. nft'.signedVAA = nft.signedVAA /\ nft.signedVAA \in Existing
    BY <1>1, <1>5, <1>8, RedeemingMoves DEF RedeemClick, SameLocks
  <2> DEFINE new == [vaa |-> nft.signedVAA, chain |-> nft.targetChain, phase |-> "claim"]
  <2>2. claims' = claims \cup {new} /\ claimed' = claimed
    BY <1>8 DEF RedeemClick
  <2>3. Fine(new)
    BY <2>1
  <2> HIDE DEF new, Fine
  <2> QED
    BY <1>5, <2>1, <2>2, <2>3
<1>9. CASE ResetClick
  <2>1. nft'.signedVAA = Nil
    BY <1>1, <1>9, ResetMoves DEF ResetClick, Click
  <2> QED
    BY <1>5, <1>9, <2>1 DEF ResetClick, Click
<1>10. ASSUME NEW i \in DOMAIN nftSends, Sent(i)
       PROVE  nft'.signedVAA \in Existing \cup {Nil} /\ UNCHANGED <<claims, claimed>>
  <2>1. /\ UNCHANGED <<claims, claimed>>
        /\ \/ UNCHANGED <<nft, effects>>
           \/ Dispatch(setIsSending(nft, FALSE))
           \/ Dispatch(setSignedVAAHex(nft, i))
    BY <1>10, SendMoves DEF unchangedBySend
  <2>2. i \in VAAs /\ i \in Existing
    BY <1>1, VAAsOfSends DEF Existing
  <2>3. CASE Dispatch(setIsSending(nft, FALSE))
    <3>1. nft'.signedVAA = nft.signedVAA
      BY <1>1, <2>3, SendingMoves, DispatchRenders, LocksRendered DEF SameLocks
    <3> QED
      BY <1>5, <2>1, <3>1
  <2>4. CASE Dispatch(setSignedVAAHex(nft, i))
    <3> DEFINE s == setSignedVAAHex(nft, i)
    <3>a. Good(s) /\ s.signedVAA = i
      BY <1>1, <2>2, VAAMoves
    <3> HIDE DEF s
    <3>b. Renders(s, effects)
      BY <1>1, <2>4, <3>a, DispatchRenders DEF s
    <3>1. nft'.signedVAA = i
      BY <3>a, <3>b, LocksRendered DEF SameLocks
    <3> QED
      BY <2>1, <2>2, <3>1
  <2> QED
    BY <1>5, <2>1, <2>3, <2>4
<1>11. ASSUME NEW r \in claims, Redeems(r)
       PROVE  /\ nft'.signedVAA = nft.signedVAA /\ claimed \subseteq claimed'
              /\ \A q \in claims' : \/ q \in claims
                                    \/ /\ q.vaa \in Existing /\ q.vaa \in claimed'
                                       /\ TargetOf(q.vaa) = q.chain
  <2>1. nft'.signedVAA = nft.signedVAA
    <3>1. \/ UNCHANGED <<nft, effects>>
          \/ Dispatch(setRedeemTx(nft))
          \/ Dispatch(setIsRedeeming(nft, FALSE))
      BY <1>11, ClaimMoves
    <3>2. CASE Dispatch(setRedeemTx(nft))
      BY <1>1, <3>2, RedeemTxMoves, DispatchRenders, LocksRendered DEF SameLocks
    <3>3. CASE Dispatch(setIsRedeeming(nft, FALSE))
      BY <1>1, <3>3, RedeemingMoves, DispatchRenders, LocksRendered DEF SameLocks
    <3> QED
      BY <3>1, <3>2, <3>3
  <2>2. claimed \subseteq claimed'
    <3>1. claimed' \in {claimed, claimed \cup {r.vaa}}
      BY <1>11, ClaimMoves
    <3> QED
      BY <3>1
  <2>3. /\ claims' \in {claims \ {r}, (claims \ {r}) \cup {[r EXCEPT !.phase = "describe"]}}
        /\ claims' # claims \ {r} => r.vaa \in claimed' /\ TargetOf(r.vaa) = r.chain
    BY <1>11, ClaimMoves
  <2>4. r \in ClaimSet /\ r.vaa \in Existing
    BY <1>1, <1>5 DEF RestOK
  <2>5. /\ [r EXCEPT !.phase = "describe"].vaa = r.vaa
        /\ [r EXCEPT !.phase = "describe"].chain = r.chain
    BY <2>4 DEF ClaimSet
  <2> QED
    BY <2>1, <2>2, <2>3, <2>4, <2>5
<1>12. ASSUME NEW v \in VAAs, RecoverClick(v)
       PROVE  nft'.signedVAA \in Existing /\ UNCHANGED <<claims, claimed>>
  <2>1. v \in Existing
    BY <1>12 DEF RecoverClick, Existing
  <2>2. setRecoveryVaa(nft, v, TargetOf(v), TokenOf(v)).signedVAA = v
    BY <1>1, <2>1, TargetsOfVAAs, RecoveryMoves
  <2> QED
    BY <1>12, <2>1, <2>2 DEF RecoverClick
<1>13. CASE \E i \in DOMAIN nftSends : Sent(i)
  BY <1>5, <1>10, <1>13
<1>14. CASE \E r \in claims : Redeems(r)
  <2>1. PICK r \in claims : Redeems(r)
    BY <1>14
  <2>2. /\ nft'.signedVAA = nft.signedVAA /\ claimed \subseteq claimed'
        /\ \A q \in claims' : \/ q \in claims
                              \/ /\ q.vaa \in Existing /\ q.vaa \in claimed'
                                 /\ TargetOf(q.vaa) = q.chain
    BY <1>11, <2>1
  <2> HIDE DEF Fine
  <2> QED
    BY <1>5, <2>2
<1>15. CASE \E v \in VAAs : RecoverClick(v)
  BY <1>5, <1>12, <1>15
<1> QED
  BY <1>6, <1>7, <1>8, <1>9, <1>13, <1>14, <1>15, LocksNext

LEMMA TypeInit == ConstantsOK /\ Init => TypeInv
<1> SUFFICES ASSUME ConstantsOK, Init PROVE TypeInv
  OBVIOUS
<1>1. SliceOK
  BY InitialMoves, IdleOK DEF Init, SliceOK
<1>2. RestOK
  <2>1. nftSends \in Seq(Calls) /\ Len(nftSends) = 0
    BY DEF Init
  <2>2. MaxNFTSends \in Nat /\ MaxNFTChoices \in Nat
    BY DEF ConstantsOK
  <2>3. picks \subseteq Accounts /\ network \in EVMChains /\ claims \subseteq ClaimSet
    BY DEF Init
  <2>4. claimed \subseteq VAAs /\ described \subseteq claimed
    BY DEF Init
  <2>5. nftDisturbed \in BOOLEAN /\ nftSlipped \in BOOLEAN
    BY DEF Init
  <2>6. nftChoices \in 0 .. MaxNFTChoices
    BY <2>2 DEF Init
  <2> QED
    BY <2>1, <2>2, <2>3, <2>4, <2>5, <2>6 DEF RestOK
<1>3. ClaimsInv
  BY InitialMoves DEF Init, ClaimsInv
<1> QED
  BY <1>1, <1>2, <1>3 DEF TypeInv

LEMMA TypeNext == ConstantsOK /\ TypeInv /\ [Next]_nftVars => TypeInv'
BY SliceNext, RestNext, ClaimsNext DEF TypeInv

LEMMA TypeInvariant == ConstantsOK /\ Spec => []TypeInv
<1> SUFFICES ASSUME ConstantsOK PROVE Spec => []TypeInv
  OBVIOUS
<1>1. Init => TypeInv
  BY TypeInit
<1>2. TypeInv /\ [Next]_nftVars => TypeInv'
  BY TypeNext
<1> QED
  BY <1>1, <1>2, PTL DEF Spec

\* The variables keep their types, no step leaves the wizard with two equal
\* chains, and metadata exist only of NFTs that were released (the reducers of
\* nftSlice.ts, the guards of the steps' buttons, useHandleNFTRedeem).
THEOREM TypeCorrect == ConstantsOK /\ Spec => []TypeOK
<1>1. ConstantsOK /\ Spec => []TypeInv
  BY TypeInvariant
<1>2. TypeInv => TypeOK
  BY TypesFollow
<1> QED
  BY <1>1, <1>2, PTL

-----------------------------------------------------------------------------
(***************************************************************************)
(* What is sent                                                            *)
(***************************************************************************)

\* s has the chains, the token and the target that are shown.
Calm(s) ==
    /\ SameTarget(s, nft) /\ s.account = nft.account
    /\ s.sourceChain = nft.sourceChain /\ s.targetChain = nft.targetChain

\* In s nothing is known of the target, and nothing new of the token.  Another
\* target chain is chosen where the effects have run, and while an address may
\* be awaited only where it will be asked for again.
Fresh(s) ==
    /\ NoTarget(s)
    /\ \/ s.origin = Nil
       \/ /\ s.origin = nft.origin /\ s.account = nft.account
          /\ s.sourceChain = nft.sourceChain
    /\ \/ s.targetChain = nft.targetChain
       \/ ~EffectsPending /\ nft.activeStep # 1
       \/ ~EffectsPending /\ s.activeStep = 1 /\ SameLocks(s, nft)
    /\ EffectsPending => nftSlipped'

\* What the steps do to the store.
LEMMA StoreNext ==
    ASSUME ConstantsOK, TypeInv, [Next]_nftVars
    PROVE  \/ UNCHANGED <<nft, effects>>
           \/ \E s : Good(s) /\ (Calm(s) \/ Fresh(s)) /\ Renders(s, effects)
           \/ Leave
           \/ \E v \in VAAs : RecoverClick(v)
           \/ WrappedAnswer \/ WrappedFails \/ AssetAnswer \/ AssetFails \/ AddressAnswer
<1> DEFINE Known(s) == Good(s) /\ (Calm(s) \/ Fresh(s))
           Stored == \E s : Known(s) /\ Renders(s, effects)
<1>1. SliceOK /\ RestOK /\ Good(nft) /\ FxOK(effects)
  BY DEF TypeInv, SliceOK
<1>2. ASSUME NEW s, Known(s), ~EffectsPending, nft' = s, effects' = effects PROVE Stored
  <2>1. Renders(s, effects)
    BY <1>1, <1>2 DEF Renders
  <2> QED
    BY <1>2, <2>1
<1>3. ASSUME NEW s, Known(s), Dispatch(s) PROVE Stored
  <2>1. Renders(s, effects)
    BY <1>1, <1>3, DispatchRenders
  <2> QED
    BY <1>3, <2>1
<1>4. Known(nft)
  BY <1>1 DEF Calm, SameTarget
<1> HIDE DEF Stored
<1>5. ASSUME NEW s, Known(s), Click(s) PROVE Stored
  BY <1>2, <1>5 DEF Click, Clickable
<1>6. ASSUME NEW c \in Chains, ChooseSourceChain(c) PROVE Stored
  <2>1. Known(setSourceChain(nft, c))
    BY <1>1, <1>6, SourceChainMoves DEF ChooseSourceChain, Click, Clickable, Fresh, NoToken
  <2> QED
    BY <1>5, <1>6, <2>1 DEF ChooseSourceChain
<1>7. ASSUME NEW c \in Chains, ChooseTargetChain(c) PROVE Stored
  <2> DEFINE s == setTargetChain(nft, c)
  <2>1. /\ Good(s) /\ SameLocks(s, nft) /\ NoTarget(s) /\ s.activeStep = nft.activeStep
        /\ s.sourceChain = nft.sourceChain /\ s.account = nft.account /\ s.origin = nft.origin
    BY <1>1, <1>7, TargetChainMoves DEF ChooseTargetChain
  <2>2. nft.activeStep = 1 /\ ~EffectsPending /\ Click(s)
    BY <1>7 DEF ChooseTargetChain, Click, Clickable
  <2> HIDE DEF s
  <2>3. Known(s)
    BY <2>1, <2>2 DEF Fresh
  <2> QED
    BY <1>5, <2>2, <2>3
<1>8. ASSUME NEW a \in picks, OptionSelected(a) PROVE Stored \/ UNCHANGED <<nft, effects>>
  <2> DEFINE s == setSourceParsedTokenAccount(nft, a)
  <2>1. Good(s) /\ NoTarget(s) /\ s.origin = Nil /\ s.targetChain = nft.targetChain
    BY <1>1, AccountMoves DEF RestOK
  <2>2. /\ EffectsPending => nftSlipped'
        /\ Dispatch(s) \/ UNCHANGED <<nft, effects>>
    BY <1>8 DEF OptionSelected
  <2> HIDE DEF s
  <2>3. Known(s)
    BY <2>1, <2>2 DEF Fresh
  <2> QED
    BY <1>3, <2>2, <2>3
<1>9. ASSUME Continue PROVE Stored
  <2>1. Known(incrementStep(nft))
    BY <1>1, <1>9, ContinueMoves DEF Calm
  <2> QED
    BY <1>5, <1>9, <2>1 DEF Continue
<1>10. ASSUME NEW n \in 0 .. 1, StepButton(n) PROVE Stored
  <2>1. Known(setStep(nft, n))
    BY <1>1, StepMoves DEF Calm
  <2> QED
    BY <1>5, <1>10, <2>1 DEF StepButton
<1>11. ASSUME FlushEffects PROVE Stored
  <2>1. Dispatch(nft)
    BY <1>11 DEF FlushEffects, Dispatch, Rendered
  <2> QED
    BY <1>3, <1>4, <2>1
<1>12. ASSUME NEW c, SwitchNetwork(c) PROVE Stored
  BY <1>3, <1>4, <1>12 DEF SwitchNetwork
<1>13. ASSUME TransferClick PROVE Stored
  <2>1. Known(setIsSending(nft, TRUE))
    BY <1>1, SendingMoves DEF Calm, SameForm
  <2> QED
    BY <1>2, <1>13, <2>1 DEF TransferClick, Clickable
<1>14. ASSUME RedeemClick PROVE Stored
  <2>1. Known(setIsRedeeming(nft, TRUE))
    BY <1>1, RedeemingMoves DEF Calm, SameForm
  <2> QED
    BY <1>2, <1>14, <2>1 DEF RedeemClick, Clickable
<1>15. ASSUME NEW i \in DOMAIN nftSends, Sent(i) PROVE Stored \/ UNCHANGED <<nft, effects>>
  <2>1. Known(setIsSending(nft, FALSE))
    BY <1>1, SendingMoves DEF Calm, SameForm
  <2>2. Known(setSignedVAAHex(nft, i))
    <3>1. i \in VAAs
      BY <1>1, VAAsOfSends
    <3> QED
      BY <1>1, <3>1, VAAMoves DEF Calm
  <2> QED
    BY <1>3, <1>15, <2>1, <2>2, SendMoves
<1>16. ASSUME NEW r \in claims, Redeems(r) PROVE Stored \/ UNCHANGED <<nft, effects>>
  <2>1. Known(setRedeemTx(nft))
    BY <1>1, RedeemTxMoves DEF Calm, SameForm
  <2>2. Known(setIsRedeeming(nft, FALSE))
    BY <1>1, RedeemingMoves DEF Calm, SameForm
  <2> QED
    BY <1>3, <1>16, <2>1, <2>2, ClaimMoves
<1>17. ASSUME ResetClick PROVE Stored
  <2> DEFINE s == reset(nft)
  <2>1. Good(s) /\ NoTarget(s) /\ s.origin = Nil
    BY <1>1, ResetMoves DEF NoToken
  <2>2. nft.activeStep # 1 /\ ~EffectsPending /\ Click(s)
    BY <1>17 DEF ResetClick, Click, Clickable
  <2> HIDE DEF s
  <2>3. Known(s)
    BY <2>1, <2>2 DEF Fresh
  <2> QED
    BY <1>5, <2>2, <2>3
<1>18. ASSUME NEW token, SelectOption(token) PROVE UNCHANGED <<nft, effects>>
  BY <1>18 DEF SelectOption
<1>19. ASSUME Return PROVE UNCHANGED <<nft, effects>>
  BY <1>19 DEF Return
<1>20. CASE UNCHANGED nftVars
  BY <1>20 DEF nftVars
<1> QED
  BY <1>6, <1>7, <1>8, <1>9, <1>10, <1>11, <1>12, <1>13, <1>14, <1>15, <1>16, <1>17, <1>18,
     <1>19, <1>20
  DEF Next, Stored

\* A recipient is one of the target chain that is shown.  One that is awaited
\* will be one too, unless the effect is about to run again, which clears it.
AddressInv ==
    /\ nft.targetAddress # Nil => nft.targetAddress.kind = Kind[nft.targetChain]
    /\ effects.address.busy =>
          \/ Kind[nft.targetChain] = "solana"
          \/ /\ AddressOn(nft) \notin {effects.address.on, Nil}
             /\ ~ShouldLockFields(nft)

\* Where the effects have run, an address is awaited for what is shown.
LEMMA AddressSettled ==
    ASSUME ConstantsOK, TypeInv, ~EffectsPending, effects.address.busy
    PROVE  /\ nft.activeStep = 1 /\ ~ShouldLockFields(nft)
           /\ Kind[nft.targetChain] = "solana"
           /\ effects.address.on = AddressOn(nft)
           /\ effects.address.on[3] = TargetAsset(nft)
<1>1. SliceOK
  BY DEF TypeInv
<1>2. nftPage = "nft"
  BY <1>1, AwayIsIdle
<1>3. effects.address.on = AddressOn(nft) /\ AddressOK(effects.address) /\ Good(nft)
  BY <1>1, <1>2 DEF EffectsPending, SliceOK, FxOK
<1> QED
  BY <1>3, AddressAsked

\* AddressInv after a slice is rendered whose recipient is right or about to be
\* replaced.
LEMMA AddressRendered ==
    ASSUME ConstantsOK, TypeInv, NEW s, NEW f, Good(s), Renders(s, f),
           s.targetChain = nft.targetChain,
           \/ f.address = effects.address
           \/ f.address.on = effects.address.on /\ f.address.busy = FALSE,
           \/ s.targetAddress # Nil => s.targetAddress.kind = Kind[s.targetChain]
           \/ EffectsPending /\ SyncsAddress(nft, f) /\ ~DerivesAddress(nft)
    PROVE  AddressInv'
<1>1. Good(nft) /\ Good(nft') /\ FxOK(effects')
  BY DEF TypeInv, SliceOK, Renders
<1>2. CASE ~EffectsPending
  <2>1. nft' = s /\ effects'.address = f.address
    BY <1>2 DEF Renders
  <2>2. effects'.address.busy => Kind[nft.targetChain] = "solana"
    BY <1>2, <2>1, AddressSettled
  <2> QED
    BY <1>2, <2>1, <2>2 DEF AddressInv
<1>3. CASE EffectsPending
  <2>1. Kept(nft', s, nft, f) /\ effects'.address.on = AddressOn(nft)
    BY <1>3 DEF Renders
  <2>2. nft'.targetChain = nft.targetChain
    BY <2>1 DEF Kept, SameForm
  <2>3. effects'.address.busy => Kind[nft.targetChain] = "solana"
    BY <1>1, <2>1, AddressAsked DEF FxOK
  <2>4. nft'.targetAddress # Nil => nft'.targetAddress.kind = Kind[nft.targetChain]
    BY <2>1 DEF Kept
  <2> QED
    BY <2>2, <2>3, <2>4 DEF AddressInv
<1> QED
  BY <1>2, <1>3

LEMMA AddressNext ==
    ConstantsOK /\ TypeInv /\ AddressInv /\ [Next]_nftVars => AddressInv'
<1> SUFFICES ASSUME ConstantsOK, TypeInv, AddressInv, [Next]_nftVars PROVE AddressInv'
  OBVIOUS
<1>1. SliceOK /\ RestOK /\ Good(nft) /\ FxOK(effects)
  BY DEF TypeInv, SliceOK
<1>2. nft.targetAddress # Nil => nft.targetAddress.kind = Kind[nft.targetChain]
  BY DEF AddressInv
<1>3. CASE UNCHANGED <<nft, effects>>
  BY <1>3 DEF AddressInv, AddressOn, ShouldLockFields, TargetAsset
<1>4. ASSUME NEW s, Good(s), Calm(s), Renders(s, effects) PROVE AddressInv'
  BY <1>2, <1>4, AddressRendered DEF Calm, SameTarget
<1>5. ASSUME NEW s, Good(s), Fresh(s), Renders(s, effects) PROVE AddressInv'
  <2>1. s.targetAddress = Nil
    BY <1>5 DEF Fresh, NoTarget
  <2>2. CASE s.targetChain = nft.targetChain
    BY <1>5, <2>1, <2>2, AddressRendered
  <2>3. CASE ~EffectsPending /\ s.targetChain # nft.targetChain
    <3>1. nft' = s /\ effects'.address = effects.address
      BY <1>5, <2>3 DEF Renders
    <3>2. CASE ~effects.address.busy
      BY <2>1, <3>1, <3>2 DEF AddressInv
    <3>3. CASE effects.address.busy
      <4>1. /\ nft.activeStep = 1 /\ ~ShouldLockFields(nft)
            /\ effects.address.on = AddressOn(nft)
        BY <2>3, <3>3, AddressSettled
      <4>2. s.activeStep = 1 /\ SameLocks(s, nft)
        BY <1>5, <2>3, <4>1 DEF Fresh
      <4>3. /\ AddressOn(nft) = <<ShouldLockFields(nft), nft.targetChain, TargetAsset(nft)>>
            /\ AddressOn(s) = <<ShouldLockFields(s), s.targetChain, TargetAsset(s)>>
        BY <4>1, <4>2 DEF AddressOn
      <4>4. AddressOn(s) # AddressOn(nft)
        BY <2>3, <4>3
      <4>5. AddressOn(s) # Nil
        BY <1>5, <4>2, AddressShown
      <4>6. ~ShouldLockFields(s)
        BY <4>1, <4>2 DEF ShouldLockFields, SameLocks
      <4>7. AddressOn(nft)' = AddressOn(s) /\ ShouldLockFields(nft)' = ShouldLockFields(s)
        BY <3>1 DEF AddressOn, ShouldLockFields, TargetAsset
      <4> QED
        BY <2>1, <3>1, <4>1, <4>4, <4>5, <4>6, <4>7 DEF AddressInv
    <3> QED
      BY <3>2, <3>3
  <2> QED
    BY <1>5, <2>2, <2>3 DEF Fresh
<1>6. CASE Leave
  <2>1. nft' = nft /\ effects' = Idle
    BY <1>6 DEF Leave
  <2> QED
    BY <1>2, <2>1 DEF AddressInv, Idle
<1>7. ASSUME NEW v \in VAAs, RecoverClick(v) PROVE AddressInv'
  <2>1. v \in Existing
    BY <1>7 DEF RecoverClick, Existing
  <2>2. /\ nft'.targetChain = TargetOf(v) /\ nft'.targetAddress.kind = Kind[TargetOf(v)]
    BY <1>1, <1>7, <2>1, TargetsOfVAAs, RecoveryMoves DEF RecoverClick
  <2>3. effects' = Idle
    BY <1>1, <1>7 DEF RecoverClick, SliceOK
  <2> QED
    BY <2>2, <2>3 DEF AddressInv, Idle
<1>8. CASE WrappedAnswer \/ WrappedFails
  <2>1. WrappedEnded.address = effects.address
    BY <1>1, EndedParts
  <2>2. CASE Renders(WrappedSlice, WrappedEnded)
    <3>1. /\ Good(WrappedSlice) /\ WrappedSlice.targetChain = nft.targetChain
          /\ WrappedSlice.targetAddress = nft.targetAddress
      BY <1>1, <1>8, WrappedRenders, WrappedInfoType, OriginMoves DEF WrappedSlice, SameForm
    <3> HIDE DEF WrappedSlice, WrappedEnded
    <3> QED
      BY <1>2, <2>1, <2>2, <3>1, AddressRendered
  <2>3. CASE effects' = WrappedEnded /\ UNCHANGED nft
    BY <2>1, <2>3 DEF AddressInv, AddressOn, ShouldLockFields, TargetAsset
  <2> QED
    BY <1>1, <1>8, <2>2, <2>3, WrappedRenders
<1>9. CASE AssetAnswer \/ AssetFails
  <2>1. PICK a \in Unknown \cup AssetsOf : Renders(setTargetAsset(nft, a), AssetEnded)
    BY <1>1, <1>9, AssetRenders
  <2> DEFINE s == setTargetAsset(nft, a)
  <2>2. /\ Good(s) /\ s.targetChain = nft.targetChain /\ s.targetAddress = nft.targetAddress
    BY <1>1, AssetMoves DEF SameForm
  <2>3. AssetEnded.address = effects.address
    BY <1>1, EndedParts
  <2> HIDE DEF s, AssetEnded
  <2> QED
    BY <1>2, <2>1, <2>2, <2>3, AddressRendered DEF s
<1>10. CASE AddressAnswer
  <2>1. PICK a \in Addresses \cup {Nil} :
          /\ Renders(setTargetAddressHex(nft, a), AddressEnded)
          /\ a # Nil => a.kind = "solana"
    BY <1>1, <1>10, AddressRenders
  <2> DEFINE s == setTargetAddressHex(nft, a)
  <2>2. Good(s) /\ s.targetChain = nft.targetChain /\ s.targetAddress = a
    BY <1>1, AddressMoves DEF SameForm
  <2>3. AddressEnded.address.on = effects.address.on /\ AddressEnded.address.busy = FALSE
    BY <1>1, EndedParts
  <2>4. \/ s.targetAddress # Nil => s.targetAddress.kind = Kind[s.targetChain]
        \/ EffectsPending /\ SyncsAddress(nft, AddressEnded) /\ ~DerivesAddress(nft)
    <3>1. effects.address.busy /\ nftPage = "nft"
      BY <1>1, <1>10, AddressRenders
    <3>2. CASE Kind[nft.targetChain] = "solana"
      BY <2>1, <2>2, <3>2
    <3>3. CASE Kind[nft.targetChain] # "solana"
      <4>1. AddressOn(nft) \notin {effects.address.on, Nil} /\ ~ShouldLockFields(nft)
        BY <3>1, <3>3 DEF AddressInv
      <4>2. EffectsPending /\ SyncsAddress(nft, AddressEnded)
        BY <2>3, <3>1, <4>1 DEF EffectsPending, SyncsAddress
      <4> QED
        BY <3>3, <4>2 DEF DerivesAddress
    <3> QED
      BY <3>2, <3>3
  <2> HIDE DEF s, AddressEnded
  <2> QED
    BY <2>1, <2>2, <2>3, <2>4, AddressRendered DEF s
<1> QED
  BY <1>3, <1>4, <1>5, <1>6, <1>7, <1>8, <1>9, <1>10, StoreNext

\* What the page knows of the token belongs to the account that is selected, as
\* far as that is an account of the source chain.
NFTFits(s) ==
    s.account # Nil /\ s.account.chain = s.sourceChain =>
        /\ s.origin # Nil => s.origin.token = s.account.token
        /\ s.targetAsset \in AssetsOf => s.targetAsset.token = s.account.token
        /\ s.targetAddress # Nil => s.targetAddress.token \in {Nil, s.account.token}

FitInv == ~nftSlipped => NFTFits(nft)

LEMMA ToldIsNoAsset ==
    ASSUME ConstantsOK, NEW why
    PROVE  NoAsset(why) \notin AssetsOf
BY DEF ConstantsOK, NoAsset, AssetsOf

\* What slipped stays so, and no answer that counts slips.
LEMMA SlippedStays ==
    ASSUME ConstantsOK, TypeInv, [Next]_nftVars
    PROVE  /\ nftSlipped => nftSlipped'
           /\ WrappedAnswer \/ WrappedFails \/ AssetAnswer \/ AssetFails \/ AddressAnswer
                => nftSlipped' = (nftSlipped \/ EffectsPending)
<1>1. CASE \/ WrappedAnswer \/ WrappedFails \/ AssetAnswer \/ AssetFails \/ AddressAnswer
  BY <1>1 DEF WrappedAnswer, WrappedFails, AssetAnswer, AssetFails, AddressAnswer,
              unchangedByAnswer
<1>2. SUFFICES ASSUME ~(\/ WrappedAnswer \/ WrappedFails \/ AssetAnswer \/ AssetFails
                        \/ AddressAnswer)
               PROVE  nftSlipped => nftSlipped'
  BY <1>1
<1>3. ASSUME NEW c, ChooseSourceChain(c) \/ ChooseTargetChain(c) PROVE UNCHANGED nftSlipped
  BY <1>3 DEF ChooseSourceChain, ChooseTargetChain, Click
<1>4. ASSUME NEW c, SelectOption(c) PROVE UNCHANGED nftSlipped
  BY <1>4 DEF SelectOption
<1>5. ASSUME NEW a, OptionSelected(a) PROVE nftSlipped' = (nftSlipped \/ EffectsPending)
  BY <1>5 DEF OptionSelected
<1>6. ASSUME NEW c, StepButton(c) \/ RecoverClick(c) \/ SwitchNetwork(c)
      PROVE  UNCHANGED nftSlipped
  BY <1>6 DEF StepButton, Click, RecoverClick, SwitchNetwork
<1>7. CASE Continue \/ TransferClick \/ RedeemClick \/ ResetClick
  BY <1>7 DEF Continue, TransferClick, RedeemClick, ResetClick, Click
<1>8. CASE FlushEffects \/ Leave \/ Return
  BY <1>8 DEF FlushEffects, Leave, Return
<1>9. ASSUME NEW i, Sent(i) PROVE UNCHANGED nftSlipped
  BY <1>9, SendMoves DEF unchangedBySend
<1>10. ASSUME NEW r, Redeems(r) PROVE UNCHANGED nftSlipped
  BY <1>10, ClaimMoves DEF unchangedByRedeem
<1>11. CASE UNCHANGED nftVars
  BY <1>11 DEF nftVars
<1> QED
  BY <1>2, <1>3, <1>4, <1>5, <1>6, <1>7, <1>8, <1>9, <1>10, <1>11 DEF Next

\* A slice that fits, of the token that is shown, fits when it is rendered.
LEMMA FitRendered ==
    ASSUME ConstantsOK, TypeInv, NFTFits(nft), NEW s, NEW f, Renders(s, f), NFTFits(s),
           EffectsPending => /\ s.account = nft.account /\ s.sourceChain = nft.sourceChain
    PROVE  NFTFits(nft')
<1>1. CASE ~EffectsPending
  BY <1>1 DEF Renders
<1>2. CASE EffectsPending
  <2>1. Kept(nft', s, nft, f)
    BY <1>2 DEF Renders
  <2>2. /\ nft'.account = nft.account /\ nft'.sourceChain = nft.sourceChain
        /\ s.account = nft.account /\ s.sourceChain = nft.sourceChain
        /\ nft'.origin = s.origin
    BY <1>2, <2>1 DEF Kept, SameForm
  <2>3. SUFFICES ASSUME nft.account # Nil, nft.account.chain = nft.sourceChain
                 PROVE  /\ nft'.origin # Nil => nft'.origin.token = nft.account.token
                        /\ nft'.targetAsset \in AssetsOf =>
                              nft'.targetAsset.token = nft.account.token
                        /\ nft'.targetAddress # Nil =>
                              nft'.targetAddress.token \in {Nil, nft.account.token}
    BY <2>2 DEF NFTFits
  <2>4. /\ s.origin # Nil => s.origin.token = nft.account.token
        /\ s.targetAsset \in AssetsOf => s.targetAsset.token = nft.account.token
        /\ s.targetAddress # Nil => s.targetAddress.token \in {Nil, nft.account.token}
        /\ nft.origin # Nil => nft.origin.token = nft.account.token
    BY <2>2, <2>3 DEF NFTFits
  <2>5. nft'.targetAsset \in AssetsOf => nft'.targetAsset.token = nft.account.token
    BY <2>1, <2>4, ToldIsNoAsset DEF Kept
  <2>6. nft'.targetAddress # Nil => nft'.targetAddress.token \in {Nil, nft.account.token}
    BY <2>1, <2>4 DEF Kept
  <2> QED
    BY <2>2, <2>4, <2>5, <2>6
<1> QED
  BY <1>1, <1>2

LEMMA FitNext == ConstantsOK /\ TypeInv /\ FitInv /\ [Next]_nftVars => FitInv'
<1> SUFFICES ASSUME ConstantsOK, TypeInv, FitInv, [Next]_nftVars, ~nftSlipped'
             PROVE  NFTFits(nft')
  BY DEF FitInv, NFTFits
<1>1. SliceOK /\ Good(nft) /\ FxOK(effects)
  BY DEF TypeInv, SliceOK
<1>2. NFTFits(nft)
  BY SlippedStays DEF FitInv
<1>3. CASE UNCHANGED <<nft, effects>>
  BY <1>2, <1>3
<1>4. ASSUME NEW s, Calm(s), Renders(s, effects) PROVE NFTFits(nft')
  <2>1. NFTFits(s)
    BY <1>2, <1>4 DEF NFTFits, Calm, SameTarget
  <2> QED
    BY <1>2, <1>4, <2>1, FitRendered DEF Calm
<1>5. ASSUME NEW s, Good(s), Fresh(s), Renders(s, effects) PROVE NFTFits(nft')
  <2>1. nft' = s
    BY <1>5 DEF Fresh, Renders
  <2>2. s.targetAsset \notin AssetsOf /\ s.targetAddress = Nil
    BY <1>5, ToldIsNoAsset DEF Fresh, NoTarget
  <2>3. \/ s.origin = Nil
        \/ /\ s.origin = nft.origin /\ s.account = nft.account
           /\ s.sourceChain = nft.sourceChain
    BY <1>5 DEF Fresh
  <2>4. NFTFits(s)
    BY <1>2, <2>2, <2>3 DEF NFTFits
  <2> QED
    BY <2>1, <2>4
<1>6. CASE Leave
  BY <1>2, <1>6 DEF Leave
<1>7. ASSUME NEW v \in VAAs, RecoverClick(v) PROVE NFTFits(nft')
  <2>1. v \in Existing
    BY <1>7 DEF RecoverClick, Existing
  <2>2. RestOK
    BY DEF TypeInv
  <2>3. nft'.account = Nil
    BY <1>1, <1>7, <2>1, <2>2, TargetsOfVAAs, RecoveryMoves DEF RecoverClick
  <2> QED
    BY <2>3 DEF NFTFits
<1>8. CASE WrappedAnswer \/ WrappedFails
  <2>1. ~EffectsPending /\ nftPage = "nft"
    BY <1>1, <1>8, SlippedStays, WrappedRenders
  <2>2. effects.wrapped.on = <<nft.isRecovery, nft.sourceChain, nft.account>>
    BY <2>1 DEF EffectsPending, WrappedOn
  <2>3. /\ effects.wrapped.on[2] = nft.sourceChain /\ effects.wrapped.on[3] = nft.account
        /\ nft.sourceChain \in Chains /\ nft.account \in Accounts
    BY <1>1, <1>8, <2>2, WrappedRenders
  <2>4. CASE Renders(WrappedSlice, WrappedEnded)
    <3> DEFINE info == WrappedInfo(nft.sourceChain, nft.account)
    <3>1. WrappedSlice = setSourceWormholeWrappedInfo(nft, info)
      BY <2>3 DEF WrappedSlice
    <3>2. info \in Origins /\ (nft.account.chain = nft.sourceChain => info.token = nft.account.token)
      BY <2>3, WrappedInfoType
    <3> HIDE DEF info, WrappedSlice, WrappedEnded
    <3>3. nft' = WrappedSlice
      BY <2>1, <2>4 DEF Renders
    <3>4. /\ nft'.origin = info /\ SameForm(nft', nft)
          /\ nft'.targetAsset = nft.targetAsset /\ nft'.targetAddress = nft.targetAddress
      BY <1>1, <3>1, <3>2, <3>3, OriginMoves
    <3> QED
      BY <1>2, <3>2, <3>4 DEF NFTFits, SameForm
  <2>5. CASE UNCHANGED nft
    BY <1>2, <2>5
  <2> QED
    BY <1>1, <1>8, <2>4, <2>5, WrappedRenders
<1>9. CASE AssetAnswer \/ AssetFails
  <2>1. ~EffectsPending /\ nftPage = "nft" /\ effects.asset.on[1][1] # Nil
    BY <1>1, <1>9, SlippedStays, AssetRenders
  <2>2. effects.asset.on = <<AssetArgs(nft), network = nft.targetChain,
                             effects.asset.last = AssetArgs(nft)>>
    BY <2>1 DEF EffectsPending, AssetOn
  <2>3. effects.asset.on[1][1] = nft.origin
    BY <2>2 DEF AssetArgs
  <2>4. PICK a \in Unknown \cup AssetsOf :
          /\ Renders(setTargetAsset(nft, a), AssetEnded)
          /\ a \in AssetsOf => a.token = effects.asset.on[1][1].token
    BY <1>1, <1>9, AssetRenders
  <2>5. nft' = setTargetAsset(nft, a)
    BY <2>1, <2>4 DEF Renders
  <2>6. /\ SameForm(nft', nft) /\ nft'.origin = nft.origin /\ nft'.targetAsset = a
        /\ nft'.targetAddress = nft.targetAddress
    BY <1>1, <2>5, AssetMoves
  <2> QED
    BY <1>2, <2>1, <2>3, <2>4, <2>6 DEF NFTFits, SameForm
<1>10. CASE AddressAnswer
  <2>1. ~EffectsPending /\ effects.address.busy
    BY <1>1, <1>10, SlippedStays, AddressRenders
  <2>2. effects.address.on[3] = TargetAsset(nft)
    BY <2>1, AddressSettled
  <2>3. nft.targetAsset \in AssetsOf /\ TargetAsset(nft) = nft.targetAsset
    BY <1>1, <2>1, <2>2 DEF FxOK, AddressOK, TargetAsset
  <2>4. PICK a \in Addresses \cup {Nil} :
          /\ Renders(setTargetAddressHex(nft, a), AddressEnded)
          /\ a # Nil => a.token = effects.address.on[3].token
    BY <1>1, <1>10, AddressRenders
  <2>5. nft' = setTargetAddressHex(nft, a)
    BY <2>1, <2>4 DEF Renders
  <2>6. /\ SameForm(nft', nft) /\ nft'.origin = nft.origin
        /\ nft'.targetAsset = nft.targetAsset /\ nft'.targetAddress = a
    BY <1>1, <2>5, AddressMoves
  <2> QED
    BY <1>2, <2>2, <2>3, <2>4, <2>6 DEF NFTFits, SameForm
<1> QED
  BY <1>3, <1>4, <1>5, <1>6, <1>7, <1>8, <1>9, <1>10, StoreNext

\* What NFTSentIsConsistent says of one transfer.
Consistent(c) ==
    /\ Kind[c.account.chain] = Kind[c.sourceChain]
    /\ c.recipient.kind = Kind[c.targetChain]
    /\ ~nftSlipped /\ c.account.chain = c.sourceChain =>
         /\ c.origin # Nil => c.origin.token = c.account.token
         /\ c.recipient.token \in {Nil, c.account.token}

SentInv == AddressInv /\ FitInv /\ NFTSentIsConsistent

LEMMA SentNext == ConstantsOK /\ TypeInv /\ SentInv /\ [Next]_nftVars => SentInv'
<1> SUFFICES ASSUME ConstantsOK, TypeInv, SentInv, [Next]_nftVars PROVE SentInv'
  OBVIOUS
<1>1. AddressInv' /\ FitInv'
  BY AddressNext, FitNext DEF SentInv
<1>2. Good(nft) /\ nftSends \in Seq(Calls)
  BY DEF TypeInv, SliceOK, RestOK
<1>3. ASSUME NEW c, NEW d, SameCall(d, c), Consistent(c)
      PROVE  /\ Kind[d.account.chain] = Kind[d.sourceChain]
             /\ d.recipient.kind = Kind[d.targetChain]
             /\ ~nftSlipped' /\ d.account.chain = d.sourceChain =>
                  /\ d.origin # Nil => d.origin.token = d.account.token
                  /\ d.recipient.token \in {Nil, d.account.token}
  BY <1>3, SlippedStays DEF SameCall, Consistent
<1>4. ASSUME NEW i \in DOMAIN nftSends PROVE Consistent(nftSends[i])
  BY <1>4 DEF SentInv, NFTSentIsConsistent, Consistent
<1>5. CASE TransferClick
  <2>1. /\ DOMAIN nftSends' = DOMAIN nftSends \cup {Len(nftSends) + 1}
        /\ nftSends'[Len(nftSends) + 1] = Sending
        /\ \A j \in DOMAIN nftSends : nftSends'[j] = nftSends[j]
    BY <1>2, <1>5, SendGrows
  <2>2. /\ nft.account # Nil /\ nft.targetAddress # Nil
        /\ Kind[nft.account.chain] = Kind[nft.sourceChain]
    BY <1>5 DEF TransferClick, isWrongWallet, IsTargetComplete, IsSourceComplete
  <2>3. nft.targetAddress.kind = Kind[nft.targetChain]
    BY <2>2 DEF SentInv, AddressInv
  <2>4. ~nftSlipped /\ nft.account.chain = nft.sourceChain =>
          /\ nft.origin # Nil => nft.origin.token = nft.account.token
          /\ nft.targetAddress.token \in {Nil, nft.account.token}
    BY <2>2 DEF SentInv, FitInv, NFTFits
  <2>5. Consistent(Sending)
    BY <2>2, <2>3, <2>4 DEF Consistent, Sending
  <2>6. UNCHANGED nftSlipped
    BY <1>5 DEF TransferClick
  <2> HIDE DEF Sending
  <2>7. \A i \in DOMAIN nftSends' : Consistent(nftSends'[i])
    BY <1>4, <2>1, <2>5
  <2> QED
    BY <1>1, <2>6, <2>7 DEF SentInv, NFTSentIsConsistent, Consistent
<1>6. CASE DOMAIN nftSends' = DOMAIN nftSends
  <2>1. \A i \in DOMAIN nftSends : SameCall(nftSends'[i], nftSends[i])
    BY SendsStay
  <2> QED
    BY <1>1, <1>3, <1>4, <1>6, <2>1 DEF SentInv, NFTSentIsConsistent
<1> QED
  BY <1>5, <1>6, SendsStay

LEMMA SentInit == ConstantsOK /\ Init => SentInv
BY InitialMoves DEF Init, SentInv, AddressInv, FitInv, NFTFits, NFTSentIsConsistent,
                    NoTarget, NoToken, Idle

\* A transfer's account is one the wallet can hold on the source chain, its
\* recipient is of the target chain, and unless an answer slipped in before the
\* effects ran, origin and recipient are those of the NFT that is sent
\* (handleTransferClick of useHandleNFTTransfer.tsx with the reducers and hooks
\* that fill the slice).
THEOREM SendsConsistently == ConstantsOK /\ Spec => []NFTSentIsConsistent
<1> SUFFICES ASSUME ConstantsOK PROVE Spec => []NFTSentIsConsistent
  OBVIOUS
<1>1. Spec => []TypeInv
  BY TypeInvariant
<1>2. Init => SentInv
  BY SentInit
<1>3. TypeInv /\ SentInv /\ [Next]_nftVars => SentInv'
  BY SentNext
<1>4. SentInv => NFTSentIsConsistent
  BY DEF SentInv
<1> QED
  BY <1>1, <1>2, <1>3, <1>4, PTL DEF Spec

-----------------------------------------------------------------------------
(***************************************************************************)
(* What is redeemed                                                        *)
(***************************************************************************)

\* The call that sends i has not ended.
Unended(i) == nftSends[i].phase \in {"signing", "fetching"}

\* The target chain has released the NFT, with its metadata.
Received(v) == v \in claimed /\ (NeedsMetadata(v) => v \in described)

\* A send that runs locks the page, which has no VAA yet, and is the only one.
SendsLock ==
    /\ \A i \in DOMAIN nftSends : Unended(i) => nft.isSending
    /\ nft.isSending => nft.signedVAA = Nil
    /\ \A i, j \in DOMAIN nftSends : Unended(i) /\ Unended(j) => i = j

\* One call at a time: the calls that redeem are for the VAA that is shown, and
\* a redeem transaction is shown only of an NFT that was received.
Orderly ==
    /\ SendsLock
    /\ \A r \in claims : r.vaa = nft.signedVAA
    /\ nft.redeemTx => Received(nft.signedVAA)

OrderlyInv == ~nftDisturbed => Orderly

\* What was disturbed stays so.
LEMMA DisturbedStays ==
    ASSUME [Next]_nftVars
    PROVE  nftDisturbed => nftDisturbed'
<1>1. CASE \/ WrappedAnswer \/ WrappedFails \/ AssetAnswer \/ AssetFails \/ AddressAnswer
  BY <1>1 DEF WrappedAnswer, WrappedFails, AssetAnswer, AssetFails, AddressAnswer,
              unchangedByAnswer
<1>2. ASSUME NEW c, ChooseSourceChain(c) \/ ChooseTargetChain(c) PROVE UNCHANGED nftDisturbed
  BY <1>2 DEF ChooseSourceChain, ChooseTargetChain
<1>3. ASSUME NEW c, SelectOption(c) \/ OptionSelected(c) PROVE UNCHANGED nftDisturbed
  BY <1>3 DEF SelectOption, OptionSelected
<1>4. ASSUME NEW c, StepButton(c) \/ SwitchNetwork(c) PROVE UNCHANGED nftDisturbed
  BY <1>4 DEF StepButton, SwitchNetwork
<1>5. ASSUME NEW v, RecoverClick(v)
      PROVE  nftDisturbed' = (nftDisturbed \/ CallsRun \/ nft.redeemTx)
  BY <1>5 DEF RecoverClick
<1>6. CASE Continue \/ TransferClick \/ RedeemClick \/ ResetClick
  BY <1>6 DEF Continue, TransferClick, RedeemClick, ResetClick
<1>7. CASE FlushEffects \/ Leave \/ Return
  BY <1>7 DEF FlushEffects, Leave, Return
<1>8. ASSUME NEW i, Sent(i) PROVE UNCHANGED nftDisturbed
  BY <1>8, SendMoves DEF unchangedBySend
<1>9. ASSUME NEW r, Redeems(r) PROVE UNCHANGED nftDisturbed
  BY <1>9, ClaimMoves DEF unchangedByRedeem
<1>10. CASE UNCHANGED nftVars
  BY <1>10 DEF nftVars
<1> QED
  BY <1>1, <1>2, <1>3, <1>4, <1>5, <1>6, <1>7, <1>8, <1>9, <1>10 DEF Next

\* A redeem transaction is shown after the last of its transactions.
LEMMA RedeemShown ==
    ASSUME ConstantsOK, TypeInv, NEW r \in claims, Redeems(r)
    PROVE  \/ UNCHANGED <<nft, effects>>
           \/ Dispatch(setIsRedeeming(nft, FALSE))
           \/ /\ Dispatch(setRedeemTx(nft))
              /\ r.vaa \in claimed'
              /\ NeedsMetadata(r.vaa) => r.vaa \in described'
<1>1. CASE ClaimOnEVM(r)
  <2>1. Claimable(r) => ~NeedsMetadata(r.vaa)
    BY <1>1 DEF ClaimOnEVM, Claimable, NeedsMetadata
  <2> HIDE DEF Claimable, NeedsMetadata
  <2> QED
    BY <1>1, <2>1 DEF ClaimOnEVM
<1>2. CASE ClaimOnSolana(r)
  BY <1>2 DEF ClaimOnSolana
<1>3. CASE Describe(r)
  <2>1. r.vaa \in claimed
    BY <1>3 DEF Describe, TypeInv, ClaimsInv
  <2> QED
    BY <1>3, <2>1 DEF Describe
<1> QED
  BY <1>1, <1>2, <1>3 DEF Redeems

\* No VAA is the undefined one.
LEMMA VAAsAreNotNil ==
    ASSUME ConstantsOK, TypeInv
    PROVE  (\A r \in claims : r.vaa # Nil) /\ Nil \notin claimed
<1>1. RestOK /\ ClaimsInv
  BY DEF TypeInv
<1>2. Nil \notin VAAs /\ Existing \subseteq VAAs
  BY <1>1, VAAsOfSends
<1> QED
  BY <1>1, <1>2 DEF ClaimsInv, RestOK

\* What was received stays so.
LEMMA ReceivedStays ==
    ASSUME ConstantsOK, TypeInv, [Next]_nftVars, NEW v \in Existing, Received(v),
           claimed \subseteq claimed', described \subseteq described'
    PROVE  Received(v)'
<1>1. TargetOf(v)' = TargetOf(v) /\ TokenOf(v)' = TokenOf(v)
  BY VAAsStay
<1>2. NeedsMetadata(v)' = NeedsMetadata(v)
  BY <1>1 DEF NeedsMetadata
<1> QED
  BY <1>2 DEF Received

\* A redeem transaction that was shown is still that of an NFT received.
LEMMA ShownStays ==
    ASSUME ConstantsOK, TypeInv, [Next]_nftVars,
           nft.redeemTx => Received(nft.signedVAA),
           nft'.signedVAA = nft.signedVAA, nft'.redeemTx = nft.redeemTx,
           claimed \subseteq claimed', described \subseteq described'
    PROVE  (nft.redeemTx => Received(nft.signedVAA))'
<1> SUFFICES ASSUME nft.redeemTx PROVE Received(nft.signedVAA)'
  OBVIOUS
<1>1. PICK v : v = nft.signedVAA
  OBVIOUS
<1>2. v \in Existing
  BY <1>1, VAAsAreNotNil DEF Received, TypeInv, ClaimsInv
<1>3. Received(v)
  BY <1>1
<1>4. Received(v)'
  BY <1>2, <1>3, ReceivedStays
<1> QED
  BY <1>1, <1>4

\* Where no transfer is sent or ends.
LEMMA SendsLockStays ==
    ASSUME SendsLock, UNCHANGED nftSends, nft'.isSending = nft.isSending,
           nft'.signedVAA = nft.signedVAA
    PROVE  SendsLock'
BY DEF SendsLock, Unended

\* The one transfer that runs confirms, fails or lands.
LEMMA OrderlySent ==
    ASSUME ConstantsOK, TypeInv, Orderly, [Next]_nftVars,
           NEW i \in DOMAIN nftSends, Sent(i)
    PROVE  Orderly'
<1>1. SliceOK /\ RestOK /\ Good(nft) /\ nftSends \in Seq(Calls)
  BY DEF TypeInv, SliceOK, RestOK
<1>2. /\ nftSends[i].phase \in {"signing", "fetching"} /\ unchangedBySend
      /\ \E p \in {"fetching", "landed", "failed"} :
           nftSends' = [nftSends EXCEPT ![i].phase = p]
  BY SendMoves
<1>3. PICK p \in {"fetching", "landed", "failed"} :
        nftSends' = [nftSends EXCEPT ![i].phase = p]
  BY <1>2
<1>4. /\ DOMAIN nftSends' = DOMAIN nftSends
      /\ nftSends'[i] = [nftSends[i] EXCEPT !.phase = p]
      /\ \A j \in DOMAIN nftSends \ {i} : nftSends'[j] = nftSends[j]
  BY <1>1, <1>3, PhaseMoves
<1>5. nftSends'[i].phase = p
  <2>1. nftSends[i] \in Calls
    BY <1>1
  <2> QED
    BY <1>4, <2>1 DEF Calls
<1>6. nft.isSending /\ nft.signedVAA = Nil /\ \A j \in DOMAIN nftSends \ {i} : ~Unended(j)
  BY <1>2 DEF Orderly, SendsLock, Unended
<1>7. claims = {} /\ ~nft.redeemTx
  <2>1. (\A r \in claims : r.vaa # Nil) /\ Nil \notin claimed
    BY VAAsAreNotNil
  <2> QED
    BY <1>6, <2>1 DEF Orderly, Received
<1>8. \A j \in DOMAIN nftSends \ {i} : ~Unended(j)'
  BY <1>4, <1>6 DEF Unended
<1>9. SUFFICES /\ SameLocks(nft', nft) \/ (p # "fetching" /\ nft'.isSending = FALSE)
               /\ nft'.redeemTx = nft.redeemTx
  <2>1. ASSUME p # "fetching" PROVE \A j \in DOMAIN nftSends' : ~Unended(j)'
    BY <1>4, <1>5, <1>8, <2>1 DEF Unended
  <2>2. CASE p # "fetching" /\ nft'.isSending = FALSE
    BY <1>2, <1>7, <1>9, <2>1, <2>2 DEF Orderly, SendsLock, unchangedBySend
  <2>3. CASE SameLocks(nft', nft)
    BY <1>2, <1>4, <1>6, <1>7, <1>8, <1>9, <2>3
    DEF Orderly, SendsLock, unchangedBySend, SameLocks
  <2> QED
    BY <1>9, <2>2, <2>3
<1>10. CASE SendConfirmed(i)
  BY <1>10 DEF SendConfirmed, SameLocks
<1>11. ASSUME NEW q, nftSends' = [nftSends EXCEPT ![i].phase = q] PROVE p = q
  <2>1. nftSends'[i] = [nftSends[i] EXCEPT !.phase = q] /\ nftSends[i] \in Calls
    BY <1>1, <1>11
  <2> QED
    BY <1>5, <2>1 DEF Calls
<1>12. CASE SendFails(i)
  <2>1. PICK q \in {"failed", "landed"} : nftSends' = [nftSends EXCEPT ![i].phase = q]
    BY <1>12 DEF SendFails
  <2>2. p # "fetching"
    BY <1>11, <2>1
  <2> DEFINE s == setIsSending(nft, FALSE)
  <2>3. Good(s) /\ s.isSending = FALSE /\ s.redeemTx = nft.redeemTx
    BY <1>1, SendingMoves
  <2>4. Dispatch(s)
    BY <1>12 DEF SendFails
  <2> HIDE DEF s
  <2>5. SameLocks(nft', s)
    BY <1>1, <2>3, <2>4, DispatchRenders, LocksRendered
  <2> QED
    BY <2>2, <2>3, <2>5 DEF SameLocks
<1>13. CASE GotSignedVAA(i)
  <2>1. nftSends' = [nftSends EXCEPT ![i].phase = "landed"]
    BY <1>13 DEF GotSignedVAA
  <2>2. p # "fetching"
    BY <1>11, <2>1
  <2> DEFINE s == setSignedVAAHex(nft, i)
  <2>3. i \in VAAs
    BY <1>1, VAAsOfSends
  <2>4. Good(s) /\ s.isSending = FALSE /\ s.redeemTx = nft.redeemTx
    BY <1>1, <2>3, VAAMoves
  <2>5. Dispatch(s)
    BY <1>13 DEF GotSignedVAA
  <2> HIDE DEF s
  <2>6. SameLocks(nft', s)
    BY <1>1, <2>4, <2>5, DispatchRenders, LocksRendered
  <2> QED
    BY <2>2, <2>4, <2>6 DEF SameLocks
<1> QED
  BY <1>10, <1>12, <1>13 DEF Sent

\* A call that redeems is for the VAA that is shown.
LEMMA OrderlyRedeems ==
    ASSUME ConstantsOK, TypeInv, Orderly, [Next]_nftVars,
           NEW r \in claims, Redeems(r)
    PROVE  Orderly'
<1>1. SliceOK /\ RestOK /\ Good(nft)
  BY DEF TypeInv, SliceOK
<1>2. r.vaa = nft.signedVAA
  BY DEF Orderly
<1>3. UNCHANGED nftSends
  BY ClaimMoves DEF unchangedByRedeem
<1>4. claimed \subseteq claimed' /\ described \subseteq described'
  <2>1. /\ claimed' \in {claimed, claimed \cup {r.vaa}}
        /\ described' \in {described, described \cup {r.vaa}}
    BY ClaimMoves
  <2> QED
    BY <2>1
<1>5. \A q \in claims' : q.vaa = r.vaa
  <2>1. claims' \in {claims \ {r}, (claims \ {r}) \cup {[r EXCEPT !.phase = "describe"]}}
    BY ClaimMoves
  <2>2. [r EXCEPT !.phase = "describe"].vaa = r.vaa
    BY <1>1 DEF RestOK, ClaimSet
  <2> QED
    BY <1>2, <2>1, <2>2 DEF Orderly
<1>6. /\ nft'.signedVAA = nft.signedVAA /\ nft'.isSending = nft.isSending
      /\ \/ nft'.redeemTx = nft.redeemTx
         \/ /\ r.vaa \in claimed'
            /\ NeedsMetadata(r.vaa) => r.vaa \in described'
  <2>1. CASE UNCHANGED <<nft, effects>>
    BY <2>1
  <2>2. CASE Dispatch(setIsRedeeming(nft, FALSE))
    BY <1>1, <2>2, RedeemingMoves, DispatchRenders, LocksRendered DEF SameLocks
  <2>3. CASE /\ Dispatch(setRedeemTx(nft))
             /\ r.vaa \in claimed'
             /\ NeedsMetadata(r.vaa) => r.vaa \in described'
    BY <1>1, <2>3, RedeemTxMoves, DispatchRenders, LocksRendered DEF SameLocks
  <2> QED
    BY <2>1, <2>2, <2>3, RedeemShown
<1>7. SendsLock'
  BY <1>3, <1>6, SendsLockStays DEF Orderly
<1>8. (nft.redeemTx => Received(nft.signedVAA))'
  <2>1. CASE nft'.redeemTx = nft.redeemTx
    BY <1>4, <1>6, <2>1, ShownStays DEF Orderly
  <2>2. CASE /\ r.vaa \in claimed'
             /\ NeedsMetadata(r.vaa) => r.vaa \in described'
    <3>1. r.vaa \in Existing
      BY DEF TypeInv, ClaimsInv
    <3>2. PICK v : v = r.vaa
      OBVIOUS
    <3>3. TargetOf(v)' = TargetOf(v) /\ TokenOf(v)' = TokenOf(v)
      BY <3>1, <3>2, VAAsStay
    <3>4. NeedsMetadata(v)' = NeedsMetadata(v)
      BY <3>3 DEF NeedsMetadata
    <3>5. Received(v)'
      BY <2>2, <3>2, <3>4 DEF Received
    <3>6. nft'.signedVAA = v
      BY <1>2, <1>6, <3>2
    <3> QED
      BY <3>5, <3>6
  <2> QED
    BY <1>6, <2>1, <2>2
<1> QED
  BY <1>2, <1>5, <1>6, <1>7, <1>8 DEF Orderly

LEMMA OrderlyNext ==
    ConstantsOK /\ TypeInv /\ OrderlyInv /\ [Next]_nftVars => OrderlyInv'
<1> SUFFICES ASSUME ConstantsOK, TypeInv, OrderlyInv, [Next]_nftVars, ~nftDisturbed'
             PROVE  Orderly'
  BY DEF OrderlyInv
<1>1. SliceOK /\ RestOK /\ Good(nft) /\ nftSends \in Seq(Calls)
  BY DEF TypeInv, SliceOK, RestOK
<1>2. Orderly
  BY DisturbedStays DEF OrderlyInv
<1>3. (\A r \in claims : r.vaa # Nil) /\ Nil \notin claimed
  BY VAAsAreNotNil
<1>4. CASE SameLocks(nft', nft) /\ UNCHANGED <<nftSends, claims, claimed, described>>
  <2>1. /\ nft'.signedVAA = nft.signedVAA /\ nft'.isSending = nft.isSending
        /\ nft'.redeemTx = nft.redeemTx /\ UNCHANGED nftSends
        /\ claims' = claims /\ claimed \subseteq claimed' /\ described \subseteq described'
    BY <1>4 DEF SameLocks
  <2>2. SendsLock'
    BY <1>2, <2>1, SendsLockStays DEF Orderly
  <2>3. (nft.redeemTx => Received(nft.signedVAA))'
    BY <1>2, <2>1, ShownStays DEF Orderly
  <2> QED
    BY <1>2, <2>1, <2>2, <2>3 DEF Orderly
<1>5. CASE TransferClick
  <2>1. nft.isSending = FALSE /\ nft.signedVAA = Nil
    <3>1. ~ShouldLockFields(nft) /\ nft.isSending \in BOOLEAN
      BY <1>1, <1>5, Fields DEF TransferClick
    <3> QED
      BY <3>1 DEF ShouldLockFields
  <2>2. ~nft.redeemTx /\ claims = {} /\ \A i \in DOMAIN nftSends : ~Unended(i)
    BY <1>2, <1>3, <2>1 DEF Orderly, SendsLock, Received
  <2>3. /\ DOMAIN nftSends' = DOMAIN nftSends \cup {Len(nftSends) + 1}
        /\ \A j \in DOMAIN nftSends : nftSends'[j] = nftSends[j]
    BY <1>1, <1>5, SendGrows
  <2>4. \A j \in DOMAIN nftSends : ~Unended(j)'
    BY <2>2, <2>3 DEF Unended
  <2>5. /\ nft'.isSending = TRUE /\ nft'.signedVAA = nft.signedVAA
        /\ nft'.redeemTx = nft.redeemTx /\ claims' = claims
    BY <1>1, <1>5, SendingMoves DEF TransferClick
  <2>6. SendsLock'
    BY <2>1, <2>3, <2>4, <2>5 DEF SendsLock
  <2> QED
    BY <2>2, <2>5, <2>6 DEF Orderly
<1>6. CASE RedeemClick
  <2> DEFINE s == setIsRedeeming(nft, TRUE)
  <2>1. SameLocks(s, nft) /\ nft' = s
    BY <1>1, <1>6, RedeemingMoves DEF RedeemClick
  <2> HIDE DEF s
  <2>2. /\ nft'.signedVAA = nft.signedVAA /\ nft'.isSending = nft.isSending
        /\ nft'.redeemTx = nft.redeemTx
    BY <2>1 DEF SameLocks
  <2>3. UNCHANGED nftSends /\ claimed \subseteq claimed' /\ described \subseteq described'
    BY <1>6 DEF RedeemClick
  <2>4. SendsLock'
    BY <1>2, <2>2, <2>3, SendsLockStays DEF Orderly
  <2>5. (nft.redeemTx => Received(nft.signedVAA))'
    BY <1>2, <2>2, <2>3, ShownStays DEF Orderly
  <2>6. \A r \in claims' : r.vaa = nft.signedVAA
    BY <1>2, <1>6 DEF RedeemClick, Orderly
  <2> QED
    BY <2>2, <2>4, <2>5, <2>6 DEF Orderly
<1>7. CASE ResetClick
  <2>1. claims = {} /\ ~nft.isSending
    BY <1>7 DEF ResetClick, CallsRun
  <2>2. nft'.isSending = FALSE /\ nft'.signedVAA = Nil /\ nft'.redeemTx = FALSE
    BY <1>1, <1>7, ResetMoves DEF ResetClick, Click
  <2>3. UNCHANGED <<nftSends, claims>>
    BY <1>7 DEF ResetClick, Click
  <2>4. SendsLock'
    BY <1>2, <2>1, <2>2, <2>3 DEF Orderly, SendsLock, Unended
  <2> QED
    BY <2>1, <2>2, <2>3, <2>4 DEF Orderly
<1>8. ASSUME NEW v \in VAAs, RecoverClick(v) PROVE Orderly'
  <2>1. claims = {} /\ ~nft.isSending /\ ~nft.redeemTx
    BY <1>8 DEF RecoverClick, CallsRun
  <2>2. v \in Existing
    BY <1>8 DEF RecoverClick, Existing
  <2>3. nft'.isSending = nft.isSending /\ nft'.redeemTx = nft.redeemTx
    BY <1>1, <1>8, <2>2, TargetsOfVAAs, RecoveryMoves DEF RecoverClick
  <2>4. UNCHANGED <<nftSends, claims>>
    BY <1>8 DEF RecoverClick
  <2>5. SendsLock'
    BY <1>2, <2>1, <2>3, <2>4 DEF Orderly, SendsLock, Unended
  <2> QED
    BY <2>1, <2>3, <2>4, <2>5 DEF Orderly
<1> QED
  BY <1>2, <1>4, <1>5, <1>6, <1>7, <1>8, OrderlySent, OrderlyRedeems, LocksNext

\* An NFT that is shown as redeemed was released on the target chain, and has
\* its metadata where it needs them, as long as no reset or recovery came
\* between a call and its end (redeemTx of useHandleNFTRedeem.tsx).
THEOREM CompleteReceived == ConstantsOK /\ Spec => []NFTCompleteMeansReceived
<1> SUFFICES ASSUME ConstantsOK PROVE Spec => []NFTCompleteMeansReceived
  OBVIOUS
<1>1. Spec => []TypeInv
  BY TypeInvariant
<1>2. Init => OrderlyInv
  <2> SUFFICES ASSUME Init PROVE Orderly
    BY DEF OrderlyInv
  <2>1. nft.isSending = FALSE /\ nft.redeemTx = FALSE /\ nftSends = <<>> /\ claims = {}
    BY InitialMoves DEF Init
  <2>2. SendsLock
    BY <2>1 DEF SendsLock
  <2> QED
    BY <2>1, <2>2 DEF Orderly
<1>3. TypeInv /\ OrderlyInv /\ [Next]_nftVars => OrderlyInv'
  BY OrderlyNext
<1>4. OrderlyInv => NFTCompleteMeansReceived
  BY DEF OrderlyInv, Orderly, Received, NFTCompleteMeansReceived
<1> QED
  BY <1>1, <1>2, <1>3, <1>4, PTL DEF Spec
================================================================================
