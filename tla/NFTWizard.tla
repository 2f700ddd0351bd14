------------------------------- MODULE NFTWizard -------------------------------
(***************************************************************************)
(* The NFT wizard of the bridge's web interface (bridge_ui/src:            *)
(* store/nftSlice, components/NFT and the hooks they use, with nft = true). *)
(* It is built like TransferWizard, whose treatment of React's effects it  *)
(* shares.  Here several tokens are followed, as what is sent names the    *)
(* token, its origin and, on Solana, an account derived from both; no      *)
(* dialog confirms the transfer, a wrapped asset need not exist, and       *)
(* redeeming on Solana takes several transactions.  Path params and        *)
(* reloads are those of TransferWizard and are left out.                   *)
(***************************************************************************)
EXTENDS Naturals, Sequences, FiniteSets

CONSTANTS
    Chains,         \* the chains the wizard offers
    Kind,           \* chain -> "evm" or "solana"
    Tokens,         \* the NFTs
    HomeOf,         \* NFT -> the chain it is native to
    DefaultSource,  \* the source chain a fresh page selects
    DefaultTarget,  \* the target chain a fresh page selects
    PastTarget,     \* the target chain of an earlier transfer, not redeemed here
    PastToken,      \* its NFT
    MaxNFTSends,    \* bound: number of transfers that are sent
    MaxNFTChoices,  \* bound: number of the user's choices (see Choice)
    Nil             \* undefined

VARIABLES
    nft,            \* the nft slice of the store
    nftPage,        \* "nft", or "away" on another page of the application
    effects,        \* the effects: what they ran on and the calls they await
    picks,          \* the accounts that token pickers are about to select
    network,        \* the chain the EVM wallet is connected to
    nftSends,       \* the transfers that were sent, with the call's arguments
    claims,         \* the calls of useHandleNFTRedeem that have not ended
    claimed,        \* the VAAs whose NFT the target chain has released
    described,      \* the VAAs whose NFT has its metadata on Solana
    nftDisturbed,   \* history: the slice was reset or recovered while a call ran
                    \* or a redeem transaction was shown
    nftSlipped,     \* history: see slipped of TransferWizard
    nftChoices      \* history: number of choices the user has made

nftVars == <<nft, nftPage, effects, picks, network, nftSends, claims, claimed,
             described, nftDisturbed, nftSlipped, nftChoices>>

EVMChains == {c \in Chains : Kind[c] = "evm"}

\* An account of an NFT, or its asset on a chain.  "other" is the NFT that a
\* wrong chain finds at the address.
Accounts == [chain : Chains, token : Tokens]
AssetsOf == [chain : Chains, token : Tokens \cup {"other"}]
NoAsset(why) == [chain |-> Nil, token |-> why]
Unknown == {NoAsset(why) : why \in {"empty", "fetching", "error"}}
Origins  == [isWrapped : BOOLEAN \cup {Nil}, chain : Chains,
             token : Tokens \cup {"other"}]

\* A wallet, or on Solana the account derived for an NFT.
Addresses == [kind : {"evm", "solana"}, token : Tokens \cup {"other", Nil}]

VAAs == 0 .. MaxNFTSends

NFTState ==
    [activeStep : 0 .. 3, sourceChain : Chains, account : Accounts \cup {Nil},
     origin : Origins \cup {Nil}, targetChain : Chains,
     targetAddress : Addresses \cup {Nil},
     targetAsset : Unknown \cup AssetsOf,
     signedVAA : VAAs \cup {Nil}, isSending : BOOLEAN, isRedeeming : BOOLEAN,
     redeemTx : BOOLEAN, isRecovery : BOOLEAN]

initialState ==
    [activeStep |-> 0, sourceChain |-> DefaultSource, account |-> Nil,
     origin |-> Nil, targetChain |-> DefaultTarget, targetAddress |-> Nil,
     targetAsset |-> NoAsset("empty"), signedVAA |-> Nil, isSending |-> FALSE,
     isRedeeming |-> FALSE, redeemTx |-> FALSE, isRecovery |-> FALSE]

-----------------------------------------------------------------------------
(* Reducers and selectors. *)

setStep(s, n) == [s EXCEPT !.activeStep = n]

incrementStep(s) == setStep(s, s.activeStep + 1)

setSourceChain(s, c) ==
    [s EXCEPT !.sourceChain = c, !.account = Nil, !.origin = Nil,
              !.targetAsset = NoAsset("empty"), !.targetAddress = Nil,
              !.targetChain = IF @ = c THEN s.sourceChain ELSE @]

setSourceWormholeWrappedInfo(s, info) == [s EXCEPT !.origin = info]

\* Mutant of setSourceParsedTokenAccount: the target of the last NFT stays.
setSourceParsedTokenAccountKeepTarget(s, a) ==
    [s EXCEPT !.account = a, !.origin = Nil]

setSourceParsedTokenAccount(s, a) ==
    [s EXCEPT !.account = a, !.origin = Nil, !.targetAsset = NoAsset("empty"),
              !.targetAddress = Nil]

setTargetChain(s, c) ==
    LET t == [s EXCEPT !.targetChain = c, !.targetAddress = Nil,
                       !.targetAsset = NoAsset("empty")]
    IN  IF s.sourceChain = c
        THEN [t EXCEPT !.sourceChain = s.targetChain, !.activeStep = 0,
                       !.account = Nil, !.origin = Nil]
        ELSE t

setTargetAddressHex(s, address) == [s EXCEPT !.targetAddress = address]

setTargetAsset(s, asset) == [s EXCEPT !.targetAsset = asset]

setSignedVAAHex(s, v) ==
    [s EXCEPT !.signedVAA = v, !.isSending = FALSE, !.activeStep = 3]

setIsSending(s, b) == [s EXCEPT !.isSending = b]

setIsRedeeming(s, b) == [s EXCEPT !.isRedeeming = b]

setRedeemTx(s) == [s EXCEPT !.redeemTx = TRUE, !.isRedeeming = FALSE]

reset(s) == [initialState EXCEPT !.sourceChain = s.sourceChain,
                                 !.targetChain = s.targetChain]

\* The address in the VAA is the one its sender derived.
setRecoveryVaa(s, v, target, token) ==
    [s EXCEPT !.signedVAA = v, !.targetChain = target,
              !.sourceChain = IF @ = target THEN s.targetChain ELSE @,
              !.account = Nil, !.targetAsset = NoAsset("empty"),
              !.targetAddress = [kind |-> Kind[target],
                  token |-> IF Kind[target] = "solana" THEN token ELSE Nil],
              !.origin = [isWrapped |-> Nil, chain |-> HomeOf[token], token |-> token],
              !.activeStep = 3, !.isRecovery = TRUE]

TargetAsset(s) == IF s.targetAsset \in AssetsOf THEN s.targetAsset ELSE Nil

IsSourceComplete(s) == s.account # Nil

\* Only Solana asks for the asset: its address is needed to derive the account.
IsTargetComplete(s) ==
    /\ IsSourceComplete(s)
    /\ s.sourceChain # s.targetChain
    /\ Kind[s.targetChain] = "solana" => TargetAsset(s) # Nil
    /\ s.targetAddress # Nil

ShouldLockFields(s) == s.isSending \/ s.signedVAA # Nil

PreventNavigation(s) ==
    (s.isSending \/ s.signedVAA # Nil \/ s.isRedeeming) /\ ~s.redeemTx

-----------------------------------------------------------------------------
(* Effects, as in TransferWizard. *)

isReady(c) == Kind[c] = "evm" => network = c

Idle == [address |-> [on |-> Nil, busy |-> FALSE],
         wrapped |-> [on |-> Nil, busy |-> FALSE],
         asset   |-> [on |-> Nil, busy |-> FALSE, last |-> Nil]]

AddressOn(r) ==
    IF r.activeStep = 1
    THEN <<ShouldLockFields(r), r.targetChain, TargetAsset(r)>> ELSE Nil

WrappedOn(r) == <<r.isRecovery, r.sourceChain, r.account>>

AssetArgs(r) == <<r.origin, r.targetChain>>

AssetOn(r, f) ==
    <<AssetArgs(r), network = r.targetChain, f.asset.last = AssetArgs(r)>>

SyncsAddress(r, f) ==
    AddressOn(r) \notin {f.address.on, Nil} /\ ~ShouldLockFields(r)

DerivesAddress(r) == Kind[r.targetChain] = "solana" /\ TargetAsset(r) # Nil

useSyncTargetAddress(r, f, s) ==
    IF SyncsAddress(r, f) /\ ~DerivesAddress(r)
    THEN setTargetAddressHex(s, IF Kind[r.targetChain] = "solana" THEN Nil
                                ELSE [kind |-> "evm", token |-> Nil])
    ELSE s

SearchesAsset(r, f) ==
    AssetOn(r, f) # f.asset.on /\ f.asset.last # AssetArgs(r)

GoesHome(r) ==
    r.origin # Nil /\ r.origin.isWrapped = TRUE /\ r.origin.chain = r.targetChain

FetchesAsset(r) == r.origin # Nil /\ isReady(r.targetChain)

useFetchTargetAsset(r, f, s) ==
    CASE SearchesAsset(r, f) /\ GoesHome(r) ->
            setTargetAsset(s, [chain |-> r.targetChain, token |-> r.origin.token])
      [] SearchesAsset(r, f) /\ ~GoesHome(r) /\ FetchesAsset(r) ->
            setTargetAsset(s, NoAsset("fetching"))
      [] OTHER -> s

Effects(r, f) ==
    [address |->
        IF AddressOn(r) = f.address.on THEN f.address
        ELSE [on |-> AddressOn(r), busy |-> SyncsAddress(r, f) /\ DerivesAddress(r)],
     wrapped |->
        IF WrappedOn(r) = f.wrapped.on THEN f.wrapped
        ELSE [on |-> WrappedOn(r), busy |-> ~r.isRecovery /\ r.account # Nil],
     asset |->
        CASE AssetOn(r, f) = f.asset.on -> f.asset
          [] SearchesAsset(r, f) ->
                [on |-> AssetOn(r, f), busy |-> ~GoesHome(r) /\ FetchesAsset(r),
                 last |-> IF GoesHome(r) THEN AssetArgs(r) ELSE Nil]
          [] OTHER -> [f.asset EXCEPT !.on = AssetOn(r, f), !.busy = FALSE]]

EffectsPending ==
    /\ nftPage = "nft"
    /\ \/ effects.address.on # AddressOn(nft)
       \/ effects.wrapped.on # WrappedOn(nft)
       \/ effects.asset.on # AssetOn(nft, effects)

RunEffects(s, f) ==
    [st |-> useFetchTargetAsset(nft, f, useSyncTargetAddress(nft, f, s)),
     fx |-> Effects(nft, f)]

\* The store becomes s: pending effects run before s is rendered.
Rendered(s, f) ==
    IF EffectsPending THEN RunEffects(s, f) ELSE [st |-> s, fx |-> f]

Becomes(p) == nft' = p.st /\ effects' = p.fx

Dispatch(s) == Becomes(Rendered(s, effects))

FlushEffects ==
    /\ EffectsPending
    /\ Becomes(RunEffects(nft, effects))
    /\ UNCHANGED <<nftPage, picks, network, nftSends, claims, claimed, described,
                   nftDisturbed, nftSlipped, nftChoices>>

unchangedByAnswer ==
    /\ nftSlipped' = (nftSlipped \/ EffectsPending)
    /\ UNCHANGED <<nftPage, picks, network, nftSends, claims, claimed, described,
                   nftDisturbed, nftChoices>>

\* On an EVM chain any contract is a collection; Solana knows its own accounts.
WrappedInfo(c, a) ==
    IF a.chain = c
    THEN [isWrapped |-> HomeOf[a.token] # c, chain |-> HomeOf[a.token],
          token |-> a.token]
    ELSE [isWrapped |-> FALSE, chain |-> c, token |-> "other"]

WrappedAnswer ==
    /\ effects.wrapped.busy
    /\ LET c == effects.wrapped.on[2]
           a == effects.wrapped.on[3]
           f == [effects EXCEPT !.wrapped.busy = FALSE]
       IN  IF a.chain = c \/ {Kind[c], Kind[a.chain]} = {"evm"}
           THEN Becomes(Rendered(
                  setSourceWormholeWrappedInfo(nft, WrappedInfo(c, a)), f))
           ELSE effects' = f /\ UNCHANGED nft
    /\ unchangedByAnswer

WrappedFails ==
    /\ effects.wrapped.busy
    /\ effects' = [effects EXCEPT !.wrapped.busy = FALSE]
    /\ UNCHANGED nft
    /\ unchangedByAnswer

\* The asset's address: derived on Solana, the registered one (or the zero
\* address) on an EVM chain.
AssetAnswer ==
    /\ effects.asset.busy
    /\ LET args == effects.asset.on[1]
           asset == [chain |-> args[2], token |-> args[1].token]
           p == Rendered(setTargetAsset(nft, asset),
                         [effects EXCEPT !.asset.busy = FALSE])
       IN  Becomes([p EXCEPT !.fx.asset.last = args])
    /\ unchangedByAnswer

AssetFails ==
    /\ effects.asset.busy
    /\ Becomes(Rendered(setTargetAsset(nft, NoAsset("error")),
                        [effects EXCEPT !.asset.busy = FALSE]))
    /\ unchangedByAnswer

AddressAnswer ==
    /\ effects.address.busy
    /\ LET asset == effects.address.on[3]
       IN  Becomes(Rendered(setTargetAddressHex(nft,
                     IF Kind[asset.chain] = "solana"
                     THEN [kind |-> "solana", token |-> asset.token] ELSE Nil),
                   [effects EXCEPT !.address.busy = FALSE]))
    /\ unchangedByAnswer

-----------------------------------------------------------------------------
(* The user's choices. *)

Choice == nftChoices < MaxNFTChoices /\ nftChoices' = nftChoices + 1

Clickable == nftPage = "nft" /\ ~EffectsPending

Click(s) ==
    /\ Clickable
    /\ nft' = s
    /\ UNCHANGED <<nftPage, effects, picks, network, nftSends, claims, claimed,
                   described, nftSlipped>>

ChooseSourceChain(c) ==
    /\ Choice
    /\ nft.activeStep = 0 /\ ~ShouldLockFields(nft)
    /\ c # nft.sourceChain
    /\ Click(setSourceChain(nft, c))
    /\ UNCHANGED nftDisturbed

\* The target chain is chosen in step 2, and is not locked there.
ChooseTargetChain(c) ==
    /\ Choice
    /\ nft.activeStep = 1
    /\ c \notin {nft.sourceChain, nft.targetChain}
    /\ Click(setTargetChain(nft, c))
    /\ UNCHANGED nftDisturbed

\* The picker awaits the NFT's data; more than one may be awaited.
SelectOption(token) ==
    /\ Choice
    /\ Clickable
    /\ nft.activeStep = 0 /\ ~ShouldLockFields(nft)
    /\ isReady(nft.sourceChain)
    /\ picks' = picks \cup {[chain |-> nft.sourceChain, token |-> token]}
    /\ UNCHANGED <<nft, nftPage, effects, network, nftSends, claims, claimed,
                   described, nftDisturbed, nftSlipped>>

OptionSelected(a) ==
    /\ picks' = picks \ {a}
    /\ \/ Dispatch(setSourceParsedTokenAccount(nft, a))
       \/ UNCHANGED <<nft, effects>>
    /\ nftSlipped' = (nftSlipped \/ EffectsPending)
    /\ UNCHANGED <<nftPage, network, nftSends, claims, claimed, described,
                   nftDisturbed, nftChoices>>

Continue ==
    /\ \/ nft.activeStep = 0 /\ IsSourceComplete(nft)
       \/ nft.activeStep = 1 /\ IsTargetComplete(nft)
    /\ Click(incrementStep(nft))
    /\ UNCHANGED <<nftDisturbed, nftChoices>>

StepButton(n) ==
    /\ Choice
    /\ n < nft.activeStep
    /\ ~PreventNavigation(nft) /\ ~nft.redeemTx
    /\ Click(setStep(nft, n))
    /\ UNCHANGED nftDisturbed

-----------------------------------------------------------------------------
(* Step 3: send.  Solana's call names the NFT's origin, if that is known.  *)

isWrongWallet(s) == s.account # Nil /\ Kind[s.account.chain] # Kind[s.sourceChain]

\* Whether the chain executes the call: a wrapped NFT is not native to Solana.
Executable(s) ==
    /\ s.account.chain = s.sourceChain
    /\ Kind[s.sourceChain] = "solana" =>
         IF s.origin = Nil \/ s.origin.chain = s.sourceChain
         THEN HomeOf[s.account.token] = s.sourceChain
         ELSE s.origin.token = s.account.token

TransferClick ==
    /\ Clickable
    /\ nft.activeStep = 2
    /\ isReady(nft.sourceChain) /\ ~isWrongWallet(nft)
    /\ IsTargetComplete(nft) /\ ~ShouldLockFields(nft)
    /\ Len(nftSends) < MaxNFTSends
    /\ nftSends' = Append(nftSends,
          [sourceChain |-> nft.sourceChain, account |-> nft.account,
           origin |-> nft.origin, targetChain |-> nft.targetChain,
           recipient |-> nft.targetAddress, reaches |-> Executable(nft),
           phase |-> "signing"])
    /\ nft' = setIsSending(nft, TRUE)
    /\ UNCHANGED <<nftPage, effects, picks, network, claims, claimed, described,
                   nftDisturbed, nftSlipped, nftChoices>>

unchangedBySend == UNCHANGED <<nftPage, picks, network, claims, claimed, described,
                               nftDisturbed, nftSlipped, nftChoices>>

SendConfirmed(i) ==
    /\ nftSends[i].phase = "signing" /\ nftSends[i].reaches
    /\ nftSends' = [nftSends EXCEPT ![i].phase = "fetching"]
    /\ UNCHANGED <<nft, effects>>
    /\ unchangedBySend

\* The catch, when nothing was sent, or when the record was not found.
SendFails(i) ==
    /\ nftSends[i].phase = "signing"
    /\ \E phase \in {"failed", "landed"} :
         /\ phase = "landed" => nftSends[i].reaches
         /\ nftSends' = [nftSends EXCEPT ![i].phase = phase]
    /\ Dispatch(setIsSending(nft, FALSE))
    /\ unchangedBySend

GotSignedVAA(i) ==
    /\ nftSends[i].phase = "fetching"
    /\ nftSends' = [nftSends EXCEPT ![i].phase = "landed"]
    /\ Dispatch(setSignedVAAHex(nft, i))
    /\ unchangedBySend

-----------------------------------------------------------------------------
(* Step 4: redeem. *)

TargetOf(v) == IF v = 0 THEN PastTarget ELSE nftSends[v].targetChain
TokenOf(v)  == IF v = 0 THEN PastToken ELSE nftSends[v].account.token

RedeemClick ==
    /\ Clickable
    /\ nft.activeStep = 3 /\ ~nft.redeemTx
    /\ isReady(nft.targetChain) /\ ~nft.isRedeeming
    /\ nft.signedVAA # Nil
    /\ claims' = claims \cup {[vaa |-> nft.signedVAA, chain |-> nft.targetChain,
                               phase |-> "claim"]}
    /\ nft' = setIsRedeeming(nft, TRUE)
    /\ UNCHANGED <<nftPage, effects, picks, network, nftSends, claimed, described,
                   nftDisturbed, nftSlipped, nftChoices>>

unchangedByRedeem == UNCHANGED <<nftPage, picks, network, nftSends, nftDisturbed,
                                 nftSlipped, nftChoices>>

Claimable(r) == TargetOf(r.vaa) = r.chain /\ r.vaa \notin claimed

NeedsMetadata(v) == Kind[TargetOf(v)] = "solana" /\ HomeOf[TokenOf(v)] # TargetOf(v)

\* One transaction, executed or not, that is seen to succeed or not.
ClaimOnEVM(r) ==
    /\ r.phase = "claim" /\ Kind[r.chain] = "evm"
    /\ claims' = claims \ {r}
    /\ \/ /\ Claimable(r)
          /\ claimed' = claimed \cup {r.vaa}
          /\ Dispatch(setRedeemTx(nft))
       \/ /\ Dispatch(setIsRedeeming(nft, FALSE))
          /\ \/ UNCHANGED claimed
             \/ Claimable(r) /\ claimed' = claimed \cup {r.vaa}
    /\ UNCHANGED described
    /\ unchangedByRedeem

\* Mutant of ClaimOnSolana: an NFT that was claimed needs nothing more.
ClaimOnSolanaDone(r) ==
    /\ r.phase = "claim" /\ Kind[r.chain] = "solana"
    /\ \/ /\ r.vaa \in claimed
          /\ claims' = claims \ {r}
          /\ Dispatch(setRedeemTx(nft)) /\ UNCHANGED claimed
       \/ /\ Claimable(r)
          /\ claimed' = claimed \cup {r.vaa}
          /\ \/ /\ claims' = (claims \ {r}) \cup {[r EXCEPT !.phase = "describe"]}
                /\ UNCHANGED <<nft, effects>>
             \/ /\ claims' = claims \ {r}
                /\ Dispatch(setIsRedeeming(nft, FALSE))
       \/ /\ claims' = claims \ {r} /\ UNCHANGED claimed
          /\ Dispatch(setIsRedeeming(nft, FALSE))
    /\ UNCHANGED described
    /\ unchangedByRedeem

\* What was claimed before is not claimed again.
ClaimOnSolana(r) ==
    /\ r.phase = "claim" /\ Kind[r.chain] = "solana"
    /\ \/ /\ r.vaa \in claimed /\ TargetOf(r.vaa) = r.chain
          /\ claims' = (claims \ {r}) \cup {[r EXCEPT !.phase = "describe"]}
          /\ UNCHANGED <<nft, effects, claimed>>
       \/ /\ Claimable(r)
          /\ claimed' = claimed \cup {r.vaa}
          /\ \/ /\ claims' = (claims \ {r}) \cup {[r EXCEPT !.phase = "describe"]}
                /\ UNCHANGED <<nft, effects>>
             \/ /\ claims' = claims \ {r}
                /\ Dispatch(setIsRedeeming(nft, FALSE))
       \/ /\ claims' = claims \ {r} /\ UNCHANGED claimed
          /\ Dispatch(setIsRedeeming(nft, FALSE))
    /\ UNCHANGED described
    /\ unchangedByRedeem

\* createMetaOnSolana, unless the NFT is native or has its metadata.
Describe(r) ==
    /\ r.phase = "describe"
    /\ claims' = claims \ {r}
    /\ \/ /\ described' = described \cup
               IF NeedsMetadata(r.vaa) THEN {r.vaa} ELSE {}
          /\ Dispatch(setRedeemTx(nft))
       \/ /\ Dispatch(setIsRedeeming(nft, FALSE))
          /\ described' \in {described, described \cup
                             IF NeedsMetadata(r.vaa) THEN {r.vaa} ELSE {}}
    /\ UNCHANGED claimed
    /\ unchangedByRedeem

CallsRun == claims # {} \/ nft.isSending

ResetClick ==
    /\ nft.activeStep = 3 /\ nft.redeemTx
    /\ Click(reset(nft))
    /\ nftDisturbed' = (nftDisturbed \/ CallsRun)
    /\ UNCHANGED nftChoices

-----------------------------------------------------------------------------
(* The rest of the page. *)

Leave ==
    /\ Choice
    /\ Clickable
    /\ nftPage' = "away" /\ effects' = Idle
    /\ UNCHANGED <<nft, picks, network, nftSends, claims, claimed, described,
                   nftDisturbed, nftSlipped>>

Return ==
    /\ nftPage = "away" /\ nftPage' = "nft"
    /\ UNCHANGED <<nft, effects, picks, network, nftSends, claims, claimed,
                   described, nftDisturbed, nftSlipped, nftChoices>>

\* handleRecoverClick of the recovery page, for a VAA that has been signed.
RecoverClick(v) ==
    /\ nftPage = "away" /\ nftPage' = "nft"
    /\ v # 0 => /\ v \in DOMAIN nftSends
                /\ nftSends[v].phase \in {"fetching", "landed"}
    /\ nft' = setRecoveryVaa(nft, v, TargetOf(v), TokenOf(v))
    /\ nftDisturbed' = (nftDisturbed \/ CallsRun \/ nft.redeemTx)
    /\ UNCHANGED <<effects, picks, network, nftSends, claims, claimed, described,
                   nftSlipped, nftChoices>>

SwitchNetwork(c) ==
    /\ Choice
    /\ network # c /\ network' = c
    /\ Dispatch(nft)
    /\ UNCHANGED <<nftPage, picks, nftSends, claims, claimed, described,
                   nftDisturbed, nftSlipped>>

Init ==
    /\ nft = initialState
    /\ nftPage = "nft"
    /\ effects = Idle
    /\ picks = {}
    /\ network \in EVMChains
    /\ nftSends = <<>>
    /\ claims = {}
    /\ claimed = {} /\ described = {}
    /\ nftDisturbed = FALSE /\ nftSlipped = FALSE
    /\ nftChoices = 0

Sent(i) == SendConfirmed(i) \/ SendFails(i) \/ GotSignedVAA(i)

Redeems(r) == ClaimOnEVM(r) \/ ClaimOnSolana(r) \/ Describe(r)

Next ==
    \/ \E c \in Chains : ChooseSourceChain(c) \/ ChooseTargetChain(c)
    \/ \E token \in Tokens : SelectOption(token)
    \/ \E a \in picks : OptionSelected(a)
    \/ Continue \/ \E n \in 0 .. 1 : StepButton(n)
    \/ FlushEffects
    \/ WrappedAnswer \/ WrappedFails \/ AssetAnswer \/ AssetFails \/ AddressAnswer
    \/ TransferClick \/ \E i \in DOMAIN nftSends : Sent(i)
    \/ RedeemClick \/ (\E r \in claims : Redeems(r)) \/ ResetClick
    \/ Leave \/ Return \/ \E v \in VAAs : RecoverClick(v)
    \/ \E c \in EVMChains : SwitchNetwork(c)

Spec == Init /\ [][Next]_nftVars

\* Wallets and chains answer, and the guardians sign what was sent.
Fairness ==
    /\ \A i \in 1 .. MaxNFTSends : WF_nftVars(i \in DOMAIN nftSends /\ Sent(i))
    /\ WF_nftVars(\E r \in claims : Redeems(r))

-----------------------------------------------------------------------------
(* What the wizard promises. *)

\* What the theorems of NFTWizardProofs take for granted of the constants; Nil
\* is none of the values it stands beside.
ConstantsOK ==
    /\ Kind \in [Chains -> {"evm", "solana"}] /\ HomeOf \in [Tokens -> Chains]
    /\ {DefaultSource, DefaultTarget, PastTarget} \subseteq Chains
    /\ DefaultSource # DefaultTarget /\ PastToken \in Tokens
    /\ MaxNFTSends \in Nat /\ MaxNFTChoices \in Nat
    /\ Nil \notin Chains \cup Nat \cup Accounts \cup AssetsOf \cup Addresses \cup Origins
    /\ Nil \notin BOOLEAN \X Chains \X (AssetsOf \cup {Nil})
    /\ Nil \notin ((Origins \cup {Nil}) \X Chains) \X BOOLEAN \X BOOLEAN

Calls == [sourceChain : Chains, account : Accounts, origin : Origins \cup {Nil},
          targetChain : Chains, recipient : Addresses, reaches : BOOLEAN,
          phase : {"signing", "fetching", "landed", "failed"}]

\* The types of all variables; no reducer selects one chain twice.
TypeOK ==
    /\ nft \in NFTState /\ nft.sourceChain # nft.targetChain
    /\ nftPage \in {"nft", "away"}
    /\ \A f \in {"address", "wrapped", "asset"} : effects[f].busy \in BOOLEAN
    /\ picks \subseteq Accounts
    /\ network \in EVMChains
    /\ nftSends \in Seq(Calls) /\ Len(nftSends) <= MaxNFTSends
    /\ claims \subseteq [vaa : VAAs, chain : Chains, phase : {"claim", "describe"}]
    /\ claimed \subseteq VAAs /\ described \subseteq claimed
    /\ nftDisturbed \in BOOLEAN /\ nftSlipped \in BOOLEAN
    /\ nftChoices \in 0 .. MaxNFTChoices

\* What is sent belongs together: an account that the wallet can hold on the
\* source chain, the NFT's own origin, and a recipient of the target chain that
\* on Solana was derived for this NFT and no other (setSourceParsedTokenAccount,
\* setTargetChain, the cancelled answers of the hooks).
NFTSentIsConsistent ==
    \A i \in DOMAIN nftSends :
        LET s == nftSends[i] IN
        /\ Kind[s.account.chain] = Kind[s.sourceChain]
        /\ s.recipient.kind = Kind[s.targetChain]
        /\ ~nftSlipped /\ s.account.chain = s.sourceChain =>
             /\ s.origin # Nil => s.origin.token = s.account.token
             /\ s.recipient.token \in {Nil, s.account.token}

\* An NFT that the wizard shows as redeemed was released, and on Solana it has
\* its metadata, also if an earlier attempt failed halfway (redeemTx of
\* useHandleNFTRedeem).
NFTCompleteMeansReceived ==
    nft.redeemTx /\ ~nftDisturbed =>
        /\ nft.signedVAA \in claimed
        /\ NeedsMetadata(nft.signedVAA) => nft.signedVAA \in described

\* Nothing is locked for ever (setIsSending and setIsRedeeming in every catch,
\* setSignedVAAHex, setRedeemTx).
LocksEnd ==
    /\ nft.isSending ~> ~nft.isSending
    /\ nft.isRedeeming ~> ~nft.isRedeeming
=============================================================================
