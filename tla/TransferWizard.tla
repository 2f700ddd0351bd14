---------------------------- MODULE TransferWizard ----------------------------
(***************************************************************************)
(* The transfer wizard of the bridge's web interface and the recovery page *)
(* that feeds it (bridge_ui/src: components/Transfer, components/Recovery, *)
(* components/TokenSelectors and the hooks they use).                      *)
(*                                                                         *)
(* The page runs on one thread.  What interleaves are the user's clicks,   *)
(* the answers of wallets, chains and guardians to calls that the page     *)
(* awaits, and React's effects.  A store change renders the page at once;  *)
(* the effects of that rendering run a little later (FlushEffects), before *)
(* the next click, or before the rendering that an answer causes.  An      *)
(* answer that comes in between is still welcome (its effect has not been  *)
(* cleaned up), and the effects then run with what was rendered before it. *)
(***************************************************************************)
EXTENDS TransferSlice, Sequences, FiniteSets

CONSTANTS
    PastTarget,     \* the target chain of an earlier transfer, not redeemed here
    Links,          \* the path params the page can be reached with
    MaxSends,       \* bound: number of transfers that are sent
    MaxChoices,     \* bound: number of the user's choices (see Choice)
    MaxReloads      \* bound: how often the page is reloaded

VARIABLES
    st,         \* the transfer slice of the store
    page,       \* "transfer", or "away" on another page of the same application
    fx,         \* the effects: what they ran on and the calls they await
    isConfirmOpen, \* the confirmation dialog of step 3 is open
    pick,       \* the token account a token picker is about to select
    network,    \* the chain the EVM wallet is connected to
    sends,      \* the transfers that were sent, each with the call's arguments
    redeems,    \* the calls of useHandleRedeem that have not ended
    released,   \* the VAAs whose tokens the target chain has released
    disturbed,  \* history: chains or VAA changed by something else than the
                \* form while a transfer was under way
    slipped,    \* history: an answer came after what it answers had changed, and
                \* before the effect that awaited it was cleaned up
    choices,    \* history: number of choices the user has made
    reloads     \* history: how often the page was reloaded

vars == <<st, page, fx, isConfirmOpen, pick, network, sends, redeems, released,
          disturbed, slipped, choices, reloads>>

EVMChains == {c \in Chains : Kind[c] = "evm"}

\* A VAA is named by the transfer it is for; 0 is the one of the past.
VAAs == 0 .. MaxSends

ASSUME ConstantsAssumption ==
    /\ Kind \in [Chains -> {"evm", "solana", "terra"}]
    /\ {Home, DefaultSource, DefaultTarget, PastTarget} \subseteq Chains
    /\ DefaultSource # DefaultTarget
    /\ \A link \in Links : {link.source, link.target} \subseteq Chains \cup {Nil}
    /\ MaxSends \in Nat /\ MaxChoices \in Nat /\ MaxReloads \in Nat

\* Nil is none of the values it stands beside, and no chain is called like a
\* state of the look-up of the target asset.
ASSUME NilAssumption ==
    /\ Nil \notin Chains \cup Nat \cup Origins \cup BOOLEAN \cup {"evm", "solana", "terra"}
    /\ Nil \notin BOOLEAN \X Chains \X (Chains \cup {Nil})
    /\ Nil \notin ((Origins \cup {Nil}) \X Chains) \X BOOLEAN \X BOOLEAN
    /\ Chains \cap AssetStates = {}

TargetOf(v) == IF v = 0 THEN PastTarget ELSE sends[v].targetChain

InFlight(i) == sends[i].phase \in {"signing", "fetching"}

\* The VAAs that exist: their transfer has been executed.
Signed == {0} \cup {i \in DOMAIN sends : sends[i].phase \in {"fetching", "landed"}}

\* A wallet that is not an EVM wallet is always ready.
isReady(c) == Kind[c] = "evm" => network = c

hasCorrectEvmNetwork(c) == Kind[c] = "evm" /\ network = c

-----------------------------------------------------------------------------
(* Effects.  For each: what it depends on, and what running it does to the *)
(* store s and to itself, given the rendered state r.  It runs when what it *)
(* depends on differs from what it last ran on; Nil is "not mounted".      *)

Idle == [address |-> [on |-> Nil, busy |-> FALSE],
         done    |-> [on |-> Nil, busy |-> FALSE, loading |-> FALSE,
                      completed |-> FALSE],
         wrapped |-> [on |-> Nil, busy |-> FALSE],
         asset   |-> [on |-> Nil, busy |-> FALSE, last |-> Nil],
         path    |-> Nil]

AddressOn(r) ==
    IF r.activeStep = 1
    THEN <<ShouldLockFields(r), r.targetChain, TargetAsset(r)>> ELSE Nil

DoneOn(r) ==
    IF r.activeStep = 3 /\ ~r.redeemTx
    THEN <<r.isRecovery, r.targetChain, r.targetAddress, r.signedVAA,
           isReady(r.targetChain), hasCorrectEvmNetwork(r.targetChain)>>
    ELSE Nil

WrappedOn(r) == <<r.isRecovery, r.sourceChain, r.account>>

AssetArgs(r) == <<r.origin, r.targetChain>>

AssetOn(r, f) ==
    <<AssetArgs(r), hasCorrectEvmNetwork(r.targetChain),
      f.asset.last = AssetArgs(r)>>

\* useSyncTargetAddress: the wallet's address, or on Solana the account of the
\* target asset, which is derived asynchronously.
SyncsAddress(r, f) ==
    AddressOn(r) \notin {f.address.on, Nil} /\ ~ShouldLockFields(r)

DerivesAddress(r) == Kind[r.targetChain] = "solana" /\ TargetAsset(r) # Nil

useSyncTargetAddress(r, f, s) ==
    IF SyncsAddress(r, f) /\ ~DerivesAddress(r)
    THEN setTargetAddressHex(s, IF Kind[r.targetChain] = "solana" THEN Nil
                                ELSE Kind[r.targetChain])
    ELSE s

AddressEffect(r, f) ==
    IF AddressOn(r) = f.address.on THEN f.address
    ELSE [on |-> AddressOn(r), busy |-> SyncsAddress(r, f) /\ DerivesAddress(r)]

\* useGetIsTransferCompleted.  A call that is cleaned up leaves "loading" to
\* the call that follows it.
AsksIfCompleted(r) ==
    /\ r.isRecovery
    /\ r.targetAddress # Nil /\ r.signedVAA # Nil
    /\ isReady(r.targetChain)

useGetIsTransferCompleted(r, f) ==
    CASE DoneOn(r) = Nil -> Idle.done
      [] DoneOn(r) # Nil /\ DoneOn(r) = f.done.on -> f.done
      [] OTHER -> [f.done EXCEPT !.on = DoneOn(r), !.busy = AsksIfCompleted(r),
                                 !.loading = @ \/ AsksIfCompleted(r)]

useCheckIfWormholeWrapped(r, f) ==
    IF WrappedOn(r) = f.wrapped.on THEN f.wrapped
    ELSE [on |-> WrappedOn(r), busy |-> ~r.isRecovery /\ r.account # Nil]

\* useFetchTargetAsset: nothing to do when the last success was for the same
\* arguments, a short cut when the token goes home, else a call.
SearchesAsset(r, f) ==
    AssetOn(r, f) # f.asset.on /\ f.asset.last # AssetArgs(r)

GoesHome(r) ==
    r.origin # Nil /\ r.origin.isWrapped = TRUE /\ r.origin.chain = r.targetChain

FetchesAsset(r) == r.origin # Nil /\ isReady(r.targetChain)

useFetchTargetAsset(r, f, s) ==
    CASE SearchesAsset(r, f) /\ GoesHome(r) -> setTargetAsset(s, r.targetChain)
      [] SearchesAsset(r, f) /\ ~GoesHome(r) /\ FetchesAsset(r) ->
            setTargetAsset(s, "fetching")
      [] OTHER -> s

AssetEffect(r, f) ==
    CASE AssetOn(r, f) = f.asset.on -> f.asset
      [] SearchesAsset(r, f) ->
            [on |-> AssetOn(r, f), busy |-> ~GoesHome(r) /\ FetchesAsset(r),
             last |-> IF GoesHome(r) THEN AssetArgs(r) ELSE Nil]
      [] OTHER -> [f.asset EXCEPT !.on = AssetOn(r, f), !.busy = FALSE]

\* The path params are dispatched whatever the state of the transfer.
initFromPath(link, s) ==
    IF link = Nil \/ link.source = link.target THEN s
    ELSE LET t == IF link.source = Nil THEN s ELSE setSourceChain(s, link.source)
         IN  IF link.target = Nil THEN t ELSE setTargetChain(t, link.target)

\* The effects of the rendered state r, on the store s.  The children's
\* effects run before those of the wizard.
RunEffects(r, s, f) ==
    [st |-> initFromPath(f.path,
                useFetchTargetAsset(r, f, useSyncTargetAddress(r, f, s))),
     fx |-> [address |-> AddressEffect(r, f),
             done    |-> useGetIsTransferCompleted(r, f),
             wrapped |-> useCheckIfWormholeWrapped(r, f),
             asset   |-> AssetEffect(r, f),
             path    |-> Nil]]

EffectsPending ==
    /\ page = "transfer"
    /\ \/ fx.path # Nil
       \/ fx.address.on # AddressOn(st)
       \/ fx.done.on # DoneOn(st)
       \/ fx.wrapped.on # WrappedOn(st)
       \/ fx.asset.on # AssetOn(st, fx)

\* The store becomes s: pending effects run before s is rendered.
Rendered(s, f) ==
    IF EffectsPending THEN RunEffects(st, s, f) ELSE [st |-> s, fx |-> f]

UnderWay == ShouldLockFields(st) \/ redeems # {}

\* Step 3 keeps its dialog only as long as it is shown.
Becomes(p) ==
    /\ st' = p.st
    /\ fx' = p.fx
    /\ isConfirmOpen' = (isConfirmOpen /\ st'.activeStep = 2)
    /\ disturbed' = (disturbed \/ (UnderWay /\ fx.path # fx'.path))

Dispatch(s) == Becomes(Rendered(s, fx))

\* What is bounded are the choices that do not just go on with the transfer.
Choice == choices < MaxChoices /\ choices' = choices + 1

\* A click finds no pending effects: React runs them before it.
Click(s) ==
    /\ page = "transfer" /\ ~EffectsPending
    /\ st' = s
    /\ isConfirmOpen' = (isConfirmOpen /\ s.activeStep = 2)
    /\ UNCHANGED <<page, fx, pick, network, sends, redeems,
                   released, slipped,
                   reloads>>

FlushEffects ==
    /\ EffectsPending
    /\ Becomes(RunEffects(st, st, fx))
    /\ UNCHANGED <<page, pick, network, sends, redeems, released, slipped, choices,
                   reloads>>

-----------------------------------------------------------------------------
(* The answers the effects await.  A call that was cleaned up dispatches   *)
(* nothing, and is left out.                                               *)

unchangedByAnswer ==
    /\ slipped' = (slipped \/ EffectsPending)
    /\ UNCHANGED <<page, pick, network, sends, redeems, released, choices, reloads>>

\* An account of another chain is a token nobody has registered, or no
\* address at all.
WrappedInfo(c, account) ==
    [isWrapped |-> account = c /\ c # Home,
     chain |-> IF account = c THEN Home ELSE c,
     isToken |-> account = c]

WrappedAnswer ==
    /\ fx.wrapped.busy
    /\ LET c == fx.wrapped.on[2]
           account == fx.wrapped.on[3]
           f == [fx EXCEPT !.wrapped.busy = FALSE]
       IN  IF account = c \/ {Kind[c], Kind[account]} = {"evm"}
           THEN Becomes(Rendered(
                  setSourceWormholeWrappedInfo(st, WrappedInfo(c, account)), f))
           ELSE fx' = f /\ UNCHANGED <<st, isConfirmOpen, disturbed>>
    /\ unchangedByAnswer

WrappedFails ==
    /\ fx.wrapped.busy
    /\ fx' = [fx EXCEPT !.wrapped.busy = FALSE]
    /\ UNCHANGED <<st, isConfirmOpen, disturbed>>
    /\ unchangedByAnswer

ForeignAsset(origin, c) ==
    IF origin.isToken /\ c \in Registered THEN c ELSE "missing"

\* setArgs comes after the rendering that the dispatch causes.
AssetAnswer ==
    /\ fx.asset.busy
    /\ LET args == fx.asset.on[1]
           p == Rendered(setTargetAsset(st, ForeignAsset(args[1], args[2])),
                         [fx EXCEPT !.asset.busy = FALSE])
       IN  Becomes([p EXCEPT !.fx.asset.last = args])
    /\ unchangedByAnswer

AssetFails ==
    /\ fx.asset.busy
    /\ Becomes(Rendered(setTargetAsset(st, "error"),
                        [fx EXCEPT !.asset.busy = FALSE]))
    /\ unchangedByAnswer

\* The associated token account of the asset; an asset of another kind of
\* chain makes the call fail.
AddressAnswer ==
    /\ fx.address.busy
    /\ LET asset == fx.address.on[3]
           address == IF Kind[asset] = "solana" THEN "solana" ELSE Nil
       IN  Becomes(Rendered(setTargetAddressHex(st, address),
                            [fx EXCEPT !.address.busy = FALSE]))
    /\ unchangedByAnswer

\* A call that fails counts as "not completed".
DoneAnswer ==
    /\ fx.done.busy
    /\ \E completed \in {FALSE, fx.done.on[4] \in released} :
         Becomes(Rendered(st, [fx EXCEPT !.done.busy = FALSE,
                                         !.done.loading = FALSE,
                                         !.done.completed = completed]))
    /\ unchangedByAnswer

-----------------------------------------------------------------------------
(* Step 1: source, and step 2: target. *)

ChooseSourceChain(c) ==
    /\ Choice
    /\ st.activeStep = 0 /\ ~ShouldLockFields(st)
    /\ c # st.sourceChain
    /\ Click(setSourceChain(st, c))
    /\ UNCHANGED disturbed

ChooseTargetChain(c) ==
    /\ Choice
    /\ st.activeStep = 0 /\ ~ShouldLockFields(st)
    /\ c \notin {st.sourceChain, st.targetChain}
    /\ Click(setTargetChain(st, c))
    /\ UNCHANGED disturbed

\* handleSelectOption of the token picker.  It awaits the token's data; the
\* dialog can be closed, and all else can happen, meanwhile.
SelectOption ==
    /\ Choice
    /\ page = "transfer" /\ ~EffectsPending
    /\ st.activeStep = 0 /\ ~ShouldLockFields(st)
    /\ isReady(st.sourceChain) /\ pick = Nil
    /\ pick' = st.sourceChain
    /\ UNCHANGED <<st, page, fx, isConfirmOpen, network, sends, redeems,
                   released, disturbed,
                   slipped, reloads>>

OptionSelected ==
    /\ pick # Nil
    /\ Dispatch(setSourceParsedTokenAccount(st, pick))
    /\ pick' = Nil
    /\ UNCHANGED <<page, network, sends, redeems, released, slipped, choices, reloads>>

OptionFails ==
    /\ pick # Nil
    /\ pick' = Nil
    /\ UNCHANGED <<st, page, fx, isConfirmOpen, network, sends, redeems,
                   released, disturbed,
                   slipped, choices, reloads>>

ClearOption ==
    /\ Choice
    /\ st.activeStep = 0 /\ ~ShouldLockFields(st)
    /\ st.account # Nil
    /\ Click(setSourceParsedTokenAccount(st, Nil))
    /\ UNCHANGED disturbed

SourceNext ==
    /\ st.activeStep = 0 /\ IsSourceComplete(st)
    /\ Click(incrementStep(st))
    /\ UNCHANGED <<disturbed, choices>>

TargetNext ==
    /\ st.activeStep = 1 /\ IsTargetComplete(st)
    /\ Click(incrementStep(st))
    /\ UNCHANGED <<disturbed, choices>>

\* The buttons of the steps.
StepButton(n) ==
    /\ Choice
    /\ n < st.activeStep
    /\ ~PreventNavigation(st) /\ ~st.redeemTx
    /\ Click(setStep(st, n))
    /\ UNCHANGED disturbed

RedeemStepButton ==
    /\ st.activeStep < 3
    /\ st.signedVAA # Nil /\ ~st.redeemTx
    /\ Click(setStep(st, 3))
    /\ UNCHANGED <<disturbed, choices>>

-----------------------------------------------------------------------------
(* Step 3: send. *)

\* The wallet of the account is that of its chain.
isWrongWallet(s) == s.account # Nil /\ Kind[s.account] # Kind[s.sourceChain]

TransferClick ==
    /\ page = "transfer" /\ ~EffectsPending
    /\ st.activeStep = 2
    /\ isReady(st.sourceChain) /\ ~isWrongWallet(st)
    /\ IsTargetComplete(st) /\ ~ShouldLockFields(st)
    /\ ~isConfirmOpen /\ isConfirmOpen' = TRUE
    /\ UNCHANGED <<st, page, fx, pick, network, sends, redeems, released,
                   disturbed, slipped, choices, reloads>>

CancelClick ==
    /\ Choice
    /\ page = "transfer" /\ ~EffectsPending
    /\ isConfirmOpen /\ isConfirmOpen' = FALSE
    /\ UNCHANGED <<st, page, fx, pick, network, sends, redeems, released,
                   disturbed, slipped, reloads>>

\* handleTransferClick: the dialog does not ask again what TransferClick
\* asked, and the call goes to the network the wallet is on.
ConfirmClick ==
    /\ page = "transfer" /\ ~EffectsPending
    /\ isConfirmOpen /\ isConfirmOpen' = FALSE
    /\ IF st.account # Nil /\ st.targetAddress # Nil
       THEN /\ Len(sends) < MaxSends
            /\ sends' = Append(sends,
                  [sourceChain |-> st.sourceChain, account |-> st.account,
                   targetChain |-> st.targetChain, recipient |-> st.targetAddress,
                   reaches |-> isReady(st.sourceChain), phase |-> "signing"])
            /\ st' = setIsSending(st, TRUE)
       ELSE UNCHANGED <<st, sends>>
    /\ UNCHANGED <<page, fx, pick, network, redeems, released, disturbed,
                   slipped, choices, reloads>>

unchangedBySend ==
    UNCHANGED <<page, pick, network, redeems, released, slipped, choices, reloads>>

\* The wallet's transaction is executed, and its record has been read.
SendConfirmed(i) ==
    /\ sends[i].phase = "signing" /\ sends[i].reaches
    /\ sends' = [sends EXCEPT ![i].phase = "fetching"]
    /\ UNCHANGED <<st, fx, isConfirmOpen, disturbed>>
    /\ unchangedBySend

\* The catch of evm, solana and terra, when nothing was sent.
SendFails(i) ==
    /\ sends[i].phase = "signing"
    /\ sends' = [sends EXCEPT ![i].phase = "failed"]
    /\ Dispatch(setIsSending(st, FALSE))
    /\ unchangedBySend

\* The transaction is executed, but waiting for it or reading its record
\* fails (on Solana it may not be found yet); the same catch.
SendNotFound(i) ==
    /\ sends[i].phase = "signing" /\ sends[i].reaches
    /\ sends' = [sends EXCEPT ![i].phase = "landed"]
    /\ Dispatch(setIsSending(st, FALSE))
    /\ unchangedBySend

\* getSignedVAAWithRetry asks until it gets the VAA.
GotSignedVAA(i) ==
    /\ sends[i].phase = "fetching"
    /\ sends' = [sends EXCEPT ![i].phase = "landed"]
    /\ Dispatch(setSignedVAAHex(st, i))
    /\ unchangedBySend

-----------------------------------------------------------------------------
(* Step 4: redeem. *)

RedeemClick ==
    /\ st.activeStep = 3 /\ ~st.redeemTx
    /\ isReady(st.targetChain) /\ ~st.isRedeeming
    /\ ~(st.isRecovery /\ (fx.done.loading \/ fx.done.completed))
    /\ st.signedVAA # Nil
    /\ page = "transfer" /\ ~EffectsPending
    /\ redeems' = redeems \cup {[vaa |-> st.signedVAA, chain |-> st.targetChain]}
    /\ st' = setIsRedeeming(st, TRUE)
    /\ UNCHANGED <<page, fx, isConfirmOpen, pick, network, sends, released,
                   disturbed, slipped, choices, reloads>>

\* The target chain's contract: once per VAA, and only its own.  Terra's
\* wallet answers when it has posted the transaction.
Redeemable(r) == TargetOf(r.vaa) = r.chain /\ r.vaa \notin released

RedeemEnds(r) ==
    /\ redeems' = redeems \ {r}
    /\ \/ /\ Redeemable(r)
          /\ released' = released \cup {r.vaa}
          /\ Dispatch(setRedeemTx(st))
       \/ /\ Kind[r.chain] = "terra"
          /\ Dispatch(setRedeemTx(st)) /\ UNCHANGED released
       \/ /\ Dispatch(setIsRedeeming(st, FALSE))
          /\ \/ UNCHANGED released
             \/ Redeemable(r) /\ released' = released \cup {r.vaa}
    /\ UNCHANGED <<page, pick, network, sends, slipped, choices, reloads>>

\* "Transfer More Tokens!", of RedeemPreview and of Redeem.
ResetClick ==
    /\ st.activeStep = 3
    /\ \/ st.redeemTx
       \/ st.isRecovery /\ isReady(st.targetChain) /\ fx.done.completed
    /\ Click(reset(st))
    /\ disturbed' = (disturbed \/ redeems # {} \/ \E i \in DOMAIN sends : InFlight(i))
    /\ UNCHANGED choices

-----------------------------------------------------------------------------
(* The rest of the page. *)

\* A tab of another page; calls that are awaited go on.
Leave ==
    /\ Choice
    /\ page = "transfer" /\ ~EffectsPending
    /\ page' = "away" /\ fx' = Idle /\ isConfirmOpen' = FALSE
    /\ UNCHANGED <<st, pick, network, sends, redeems, released, disturbed,
                   slipped, reloads>>

Return(link) ==
    /\ page = "away"
    /\ page' = "transfer" /\ fx' = [Idle EXCEPT !.path = link]
    /\ UNCHANGED <<st, isConfirmOpen, pick, network, sends, redeems, released,
                   disturbed, slipped, choices, reloads>>

\* handleRecoverClick of the recovery page.
RecoverClick(v) ==
    /\ page = "away" /\ v \in Signed
    /\ st' = setRecoveryVaa(st, v, TargetOf(v))
    /\ page' = "transfer" /\ fx' = Idle
    /\ disturbed' = (disturbed \/ redeems # {} \/ \E i \in DOMAIN sends : InFlight(i))
    /\ UNCHANGED <<isConfirmOpen, pick, network, sends, redeems, released, slipped,
                   choices, reloads>>

\* The EVM wallet's chainChanged.
SwitchNetwork(c) ==
    /\ Choice
    /\ network # c /\ network' = c
    /\ Dispatch(st)
    /\ UNCHANGED <<page, pick, sends, redeems, released, slipped, reloads>>

\* What the page awaited is lost; what a wallet was given may be executed.
Reload ==
    /\ reloads < MaxReloads /\ reloads' = reloads + 1
    /\ st' = initialState /\ page' = "transfer" /\ fx' = Idle
    /\ isConfirmOpen' = FALSE /\ pick' = Nil /\ redeems' = {}
    /\ \E executed \in SUBSET DOMAIN sends :
         sends' = [i \in DOMAIN sends |->
                     IF ~InFlight(i) THEN sends[i]
                     ELSE [sends[i] EXCEPT !.phase =
                             IF \/ @ = "fetching"
                                \/ i \in executed /\ sends[i].reaches
                             THEN "landed" ELSE "failed"]]
    /\ \E executed \in SUBSET {r \in redeems : Redeemable(r)} :
         released' = released \cup {r.vaa : r \in executed}
    /\ UNCHANGED <<network, disturbed, slipped, choices>>

Init ==
    /\ st = initialState
    /\ page = "transfer"
    /\ fx \in {[Idle EXCEPT !.path = link] : link \in Links \cup {Nil}}
    /\ isConfirmOpen = FALSE
    /\ pick = Nil
    /\ network \in EVMChains
    /\ sends = <<>>
    /\ redeems = {}
    /\ released \in SUBSET {0}
    /\ disturbed = FALSE
    /\ slipped = FALSE
    /\ choices = 0
    /\ reloads = 0

User ==
    \/ \E c \in Chains : ChooseSourceChain(c) \/ ChooseTargetChain(c)
    \/ SelectOption \/ ClearOption \/ SourceNext \/ TargetNext
    \/ \E n \in 0 .. 1 : StepButton(n)
    \/ RedeemStepButton
    \/ TransferClick \/ CancelClick \/ ConfirmClick
    \/ RedeemClick \/ ResetClick
    \/ Leave \/ \E link \in Links \cup {Nil} : Return(link)
    \/ \E v \in VAAs : RecoverClick(v)
    \/ \E c \in EVMChains : SwitchNetwork(c)
    \/ Reload

Answers ==
    \/ WrappedAnswer \/ WrappedFails \/ AssetAnswer \/ AssetFails
    \/ AddressAnswer \/ DoneAnswer
    \/ OptionSelected \/ OptionFails

Sent(i) == SendConfirmed(i) \/ SendFails(i) \/ SendNotFound(i) \/ GotSignedVAA(i)

Next ==
    \/ User \/ FlushEffects \/ Answers
    \/ \E i \in DOMAIN sends : Sent(i)
    \/ \E r \in redeems : RedeemEnds(r)

Spec == Init /\ [][Next]_vars

\* Wallets and chains answer, and the guardians sign what was sent.
Fairness ==
    /\ \A i \in 1 .. MaxSends : WF_vars(i \in DOMAIN sends /\ Sent(i))
    /\ WF_vars(\E r \in redeems : RedeemEnds(r))

FairSpec == Spec /\ Fairness

-----------------------------------------------------------------------------
(* What the wizard promises. *)

Calls(phases) ==
    [sourceChain : Chains, account : Chains, targetChain : Chains,
     recipient : {"evm", "solana", "terra"}, reaches : BOOLEAN, phase : phases]

\* The types of all variables; no reducer leaves the wizard in a step whose
\* chains are the same.
TypeOK ==
    /\ st \in TransferState(VAAs) /\ st.sourceChain # st.targetChain
    /\ page \in {"transfer", "away"}
    /\ fx.path \in Links \cup {Nil}
    /\ \A f \in {"address", "done", "wrapped", "asset"} : fx[f].busy \in BOOLEAN
    /\ isConfirmOpen \in BOOLEAN
    /\ isConfirmOpen => page = "transfer" /\ st.activeStep = 2
    /\ pick \in Chains \cup {Nil}
    /\ network \in EVMChains
    /\ sends \in Seq(Calls({"signing", "fetching", "landed", "failed"}))
    /\ Len(sends) <= MaxSends
    /\ redeems \subseteq [vaa : VAAs, chain : Chains]
    /\ released \subseteq VAAs
    /\ disturbed \in BOOLEAN /\ slipped \in BOOLEAN
    /\ choices \in 0 .. MaxChoices /\ reloads \in 0 .. MaxReloads

\* What is sent makes sense: the token account is one of the chain the call
\* is made on, and the recipient is an address of the target chain.  A token
\* picked late, for a chain that is no longer selected, must not get through
\* (SourceTokenSelector's handleOnChange, Send's isWrongWallet, the look-up of
\* the target asset), nor an address that the wizard kept from another chain.
SentIsConsistent ==
    \A i \in DOMAIN sends :
        /\ slipped \/ sends[i].account = sends[i].sourceChain
        /\ sends[i].recipient = Kind[sends[i].targetChain]

\* The VAA that step 4 offers is for the target chain that step 4 shows,
\* whatever was clicked while it was on its way (the locks of Source, of the
\* steps and of the redeem button).
VaaIsForTargetChain ==
    st.signedVAA # Nil /\ ~disturbed => TargetOf(st.signedVAA) = st.targetChain

\* Nothing is locked for ever: what is being sent or redeemed comes to an end,
\* and the wizard learns of it, whatever was clicked meanwhile (setIsSending and
\* setIsRedeeming in every catch, setSignedVAAHex, setRedeemTx).
LocksEnd ==
    /\ st.isSending ~> ~st.isSending
    /\ st.isRedeeming ~> ~st.isRedeeming

\* A transfer that the wizard shows as complete has its tokens released, unless
\* it was recovered or disturbed (setRedeemTx and reset).
CompleteUnlessRecovered ==
    st.redeemTx /\ ~disturbed /\ ~st.isRecovery /\ Kind[st.targetChain] # "terra"
        => st.signedVAA \in released

-----------------------------------------------------------------------------
(* What a text of the source says and the code does not do. *)

\* A transfer that the wizard shows as complete has its tokens released: one
\* that was sent but not redeemed can be resumed from the recovery page.
CompleteMeansReleased ==
    st.redeemTx /\ ~disturbed /\ Kind[st.targetChain] # "terra"
        => st.signedVAA \in released
=============================================================================
