----------------------------- MODULE TransferSlice -----------------------------
(***************************************************************************)
(* The state of the transfer wizard of the bridge's web interface          *)
(* (bridge_ui/src/store/transferSlice.ts) as a record, its reducers as     *)
(* functions of that record, and the selectors that the wizard's buttons   *)
(* ask.  One token is followed: an account of it is given by the chain the *)
(* account is on, and its wrapped asset on a chain by that chain.          *)
(***************************************************************************)
EXTENDS Naturals

CONSTANTS
    Chains,         \* the chains the wizard offers
    Kind,           \* chain -> "evm", "solana" or "terra"
    Home,           \* the chain the token is native to
    Registered,     \* the chains that have a wrapped asset of the token
    DefaultSource,  \* the source chain a fresh page selects
    DefaultTarget,  \* the target chain a fresh page selects
    Nil             \* undefined

\* What useFetchTargetAsset can put into targetAsset, besides the chain on
\* which it found the token's asset.
AssetStates == {"empty", "fetching", "error", "missing"}

Origins == [isWrapped : BOOLEAN \cup {Nil}, chain : Chains, isToken : BOOLEAN]

TransferState(VAAs) ==
    [activeStep   : 0 .. 3,
     sourceChain  : Chains,
     account      : Chains \cup {Nil},
     origin       : Origins \cup {Nil},
     targetChain  : Chains,
     targetAddress: {"evm", "solana", "terra", Nil},
     targetAsset  : AssetStates \cup Chains,
     signedVAA    : VAAs \cup {Nil},
     isSending    : BOOLEAN,
     isRedeeming  : BOOLEAN,
     redeemTx     : BOOLEAN,
     isRecovery   : BOOLEAN]

\* getEmptyDataWrapper, for the target asset.
EmptyWrapper == "empty"

initialState ==
    [activeStep |-> 0, sourceChain |-> DefaultSource, account |-> Nil,
     origin |-> Nil, targetChain |-> DefaultTarget, targetAddress |-> Nil,
     targetAsset |-> EmptyWrapper, signedVAA |-> Nil, isSending |-> FALSE,
     isRedeeming |-> FALSE, redeemTx |-> FALSE, isRecovery |-> FALSE]

-----------------------------------------------------------------------------
(* Reducers. *)

incrementStep(s) ==
    [s EXCEPT !.activeStep = IF @ < 3 THEN @ + 1 ELSE @]

setStep(s, n) == [s EXCEPT !.activeStep = n]

\* What the code clears whenever the token, or one of the chains, changes.
ClearTarget(s) ==
    [s EXCEPT !.targetAsset = EmptyWrapper, !.targetAddress = Nil]

ClearToken(s) == [s EXCEPT !.account = Nil, !.origin = Nil]

\* Mutant of setSourceChain: the target chain stays.
setSourceChainKeepTarget(s, c) ==
    [ClearToken(ClearTarget(s)) EXCEPT !.sourceChain = c]

setSourceChain(s, c) ==
    [ClearToken(ClearTarget(s)) EXCEPT
        !.sourceChain = c,
        !.targetChain = IF @ = c THEN s.sourceChain ELSE @]

\* Mutant of setTargetChain: the address of the other chain stays.
setTargetChainKeepAddress(s, c) ==
    LET t == [s EXCEPT !.targetAsset = EmptyWrapper, !.targetChain = c] IN
    IF s.sourceChain = c
    THEN [ClearToken(t) EXCEPT !.sourceChain = s.targetChain, !.activeStep = 0]
    ELSE t

setTargetChain(s, c) ==
    LET t == [ClearTarget(s) EXCEPT !.targetChain = c] IN
    IF s.sourceChain = c
    THEN [ClearToken(t) EXCEPT !.sourceChain = s.targetChain, !.activeStep = 0]
    ELSE t

setSourceWormholeWrappedInfo(s, info) == [s EXCEPT !.origin = info]

setSourceParsedTokenAccount(s, a) ==
    [ClearTarget(s) EXCEPT !.account = a, !.origin = Nil]

setTargetAddressHex(s, address) == [s EXCEPT !.targetAddress = address]

setTargetAsset(s, asset) == [s EXCEPT !.targetAsset = asset]

\* Mutant of setSignedVAAHex: the fields stay locked.
setSignedVAAHexSending(s, v) ==
    [s EXCEPT !.signedVAA = v, !.activeStep = 3]

setSignedVAAHex(s, v) ==
    [s EXCEPT !.signedVAA = v, !.isSending = FALSE, !.activeStep = 3]

setIsSending(s, b) == [s EXCEPT !.isSending = b]

setIsRedeeming(s, b) == [s EXCEPT !.isRedeeming = b]

setRedeemTx(s) == [s EXCEPT !.redeemTx = TRUE, !.isRedeeming = FALSE]

\* Mutant of reset: the redeem transaction is not forgotten.
resetKeepRedeemTx(s) ==
    [initialState EXCEPT !.sourceChain = s.sourceChain,
                         !.targetChain = s.targetChain,
                         !.redeemTx = s.redeemTx]

reset(s) ==
    [initialState EXCEPT !.sourceChain = s.sourceChain,
                         !.targetChain = s.targetChain]

\* Mutant of setRecoveryVaa: the chains stay as they were selected.
setRecoveryVaaKeepChains(s, v, target) ==
    [ClearToken(s) EXCEPT
        !.signedVAA = v,
        !.targetAsset = EmptyWrapper,
        !.targetAddress = Kind[target],
        !.origin = [isWrapped |-> Nil, chain |-> Home, isToken |-> TRUE],
        !.activeStep = 3,
        !.isRecovery = TRUE]

\* redeemTx, isSending and isRedeeming stay as they are.
setRecoveryVaa(s, v, target) ==
    [ClearToken(s) EXCEPT
        !.signedVAA = v,
        !.targetChain = target,
        !.sourceChain = IF @ = target THEN s.targetChain ELSE @,
        !.targetAsset = EmptyWrapper,
        !.targetAddress = Kind[target],
        !.origin = [isWrapped |-> Nil, chain |-> Home, isToken |-> TRUE],
        !.activeStep = 3,
        !.isRecovery = TRUE]

-----------------------------------------------------------------------------
(* Selectors. *)

\* The target asset, once there is one to send to.
TargetAsset(s) == IF s.targetAsset \in Chains THEN s.targetAsset ELSE Nil

\* The amount is left out: the form always holds a valid one.
IsSourceComplete(s) == s.account # Nil

IsTargetComplete(s) ==
    /\ IsSourceComplete(s)
    /\ s.sourceChain # s.targetChain
    /\ TargetAsset(s) # Nil
    /\ s.targetAddress # Nil

ShouldLockFields(s) == s.isSending \/ s.signedVAA # Nil

\* preventNavigation of Transfer/index.tsx.
PreventNavigation(s) ==
    (s.isSending \/ s.signedVAA # Nil \/ s.isRedeeming) /\ ~s.redeemTx
=============================================================================
