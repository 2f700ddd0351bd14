----------------------------- MODULE AttestWizard -----------------------------
(***************************************************************************)
(* The token registration wizard of the bridge's web interface             *)
(* (bridge_ui/src: store/attestSlice, components/Attest, the hooks they    *)
(* use, and the "Register Now" button of other pages).  A token is attested *)
(* on its chain; the guardians sign the attestation, which fits any chain; *)
(* with it the token is created, or updated, on the target chain.          *)
(***************************************************************************)
EXTENDS Naturals, Sequences, FiniteSets

CONSTANTS
    Chains,         \* the chains the wizard offers
    Kind,           \* chain -> "evm", "solana" or "terra"
    DefaultSource,  \* the source chain a fresh page selects
    DefaultTarget,  \* the target chain a fresh page selects
    Assets,         \* the addresses that are typed into the form
    MaxAttests,     \* bound: number of attestations that are sent
    MaxEdits,       \* bound: number of the user's choices (see Edit)
    Nil             \* undefined

VARIABLES
    attest,         \* the attest slice of the store
    isShown,        \* the page is shown, not another one of the application
    lookup,         \* useFetchForeignAsset of step 4
    network,        \* the chain the EVM wallet is connected to
    calls,          \* the attestations that were sent
    creating,       \* the call of useHandleCreateWrapped, or Nil
    registered,     \* the tokens that have a wrapped asset, with its chain
    switched,       \* history: "Register Now" was clicked while one was sent
    edits           \* history: number of choices the user has made

attestVars == <<attest, isShown, lookup, network, calls, creating, registered,
                switched, edits>>

Tokens == [chain : Chains, asset : Assets]

\* The VAA of an attestation is named by its place in calls.
AttestState ==
    [activeStep : 0 .. 3, sourceChain : Chains, sourceAsset : Assets \cup {Nil},
     targetChain : Chains, signedVAA : 1 .. MaxAttests \cup {Nil},
     isSending : BOOLEAN, isCreating : BOOLEAN, createTx : BOOLEAN]

initialState ==
    [activeStep |-> 0, sourceChain |-> DefaultSource, sourceAsset |-> Nil,
     targetChain |-> DefaultTarget, signedVAA |-> Nil, isSending |-> FALSE,
     isCreating |-> FALSE, createTx |-> FALSE]

-----------------------------------------------------------------------------
(* Reducers and selectors. *)

incrementStep(a) == [a EXCEPT !.activeStep = IF @ < 3 THEN @ + 1 ELSE @]

setStep(a, n) == [a EXCEPT !.activeStep = n]

setSourceChain(a, c) ==
    [a EXCEPT !.sourceChain = c, !.sourceAsset = Nil,
              !.targetChain = IF @ = c THEN a.sourceChain ELSE @]

setSourceAsset(a, asset) == [a EXCEPT !.sourceAsset = asset]

setTargetChain(a, c) ==
    IF a.sourceChain = c
    THEN [a EXCEPT !.targetChain = c, !.sourceChain = a.targetChain,
                   !.activeStep = 0, !.sourceAsset = Nil]
    ELSE [a EXCEPT !.targetChain = c]

\* Mutant of setSignedVAAHex: the fields stay locked.
setSignedVAAHexSending(a, v) == [a EXCEPT !.signedVAA = v, !.activeStep = 3]

setSignedVAAHex(a, v) ==
    [a EXCEPT !.signedVAA = v, !.isSending = FALSE, !.activeStep = 3]

setIsSending(a, b) == [a EXCEPT !.isSending = b]

setIsCreating(a, b) == [a EXCEPT !.isCreating = b]

setCreateTx(a) == [a EXCEPT !.createTx = TRUE, !.isCreating = FALSE]

reset(a) == [initialState EXCEPT !.sourceChain = a.sourceChain,
                                 !.targetChain = a.targetChain]

IsSourceComplete(a) == a.sourceAsset # Nil

IsTargetComplete(a) == IsSourceComplete(a)

IsSendComplete(a) == a.signedVAA # Nil

ShouldLockFields(a) == a.isSending \/ IsSendComplete(a)

PreventNavigation(a) ==
    (a.isSending \/ IsSendComplete(a) \/ a.isCreating) /\ ~a.createTx

-----------------------------------------------------------------------------
(* useFetchForeignAsset, as step 4 uses it.  Its arguments do not change   *)
(* while the step is shown.  No call is ever cancelled: one that was made  *)
(* on the network of before may still answer.                              *)

EVMChains == {c \in Chains : Kind[c] = "evm"}

isReady(c, net) == Kind[c] = "evm" => net = c

Unmounted == [asks |-> 0, isFetching |-> FALSE, doesExist |-> Nil]

\* Step 4 with a form to create the token.
IsCreateShown(a, shown) == shown /\ a.activeStep = 3 /\ ~a.createTx

Asks(a, l, net) ==
    /\ a.sourceAsset # Nil
    /\ a.sourceChain # a.targetChain
    /\ isReady(a.targetChain, net)
    /\ l.doesExist = Nil

LookUp(a, l, net) ==
    IF Asks(a, l, net)
    THEN [asks |-> IF l.asks < 2 THEN l.asks + 1 ELSE 2,
          isFetching |-> TRUE, doesExist |-> Nil]
    ELSE l

\* The page is rendered with slice a.
Renders(a, shown) ==
    /\ attest' = a
    /\ isShown' = shown
    /\ lookup' = IF ~IsCreateShown(a, shown) THEN Unmounted
                 ELSE IF IsCreateShown(attest, isShown) THEN lookup
                 ELSE LookUp(a, Unmounted, network)

\* Wrapped assets are never removed, so an answer that was on its way for
\* long may miss one.
LookUpAnswer ==
    /\ lookup.asks > 0
    /\ \E exists \in {FALSE, <<[chain |-> attest.sourceChain,
                                asset |-> attest.sourceAsset],
                               attest.targetChain>> \in registered} :
         lookup' = [asks |-> lookup.asks - 1, isFetching |-> FALSE,
                    doesExist |-> exists]
    /\ UNCHANGED <<attest, isShown, network, calls, creating, registered, switched,
                   edits>>

LookUpFails ==
    /\ lookup.asks > 0
    /\ lookup' = [lookup EXCEPT !.asks = @ - 1, !.isFetching = FALSE]
    /\ UNCHANGED <<attest, isShown, network, calls, creating, registered, switched,
                   edits>>

-----------------------------------------------------------------------------
(* The form. *)

\* What is bounded are the choices that do not just go on.
Edit == edits < MaxEdits /\ edits' = edits + 1

Click(a) ==
    /\ isShown
    /\ Renders(a, TRUE)
    /\ UNCHANGED <<network, calls, creating, registered, switched>>

ChooseSourceChain(c) ==
    /\ Edit
    /\ attest.activeStep = 0 /\ ~ShouldLockFields(attest)
    /\ c # attest.sourceChain
    /\ Click(setSourceChain(attest, c))

TypeAsset(asset) ==
    /\ Edit
    /\ attest.activeStep = 0 /\ ~ShouldLockFields(attest)
    /\ asset # attest.sourceAsset
    /\ Click(setSourceAsset(attest, asset))

ChooseTargetChain(c) ==
    /\ Edit
    /\ attest.activeStep = 1 /\ ~ShouldLockFields(attest)
    /\ c \notin {attest.sourceChain, attest.targetChain}
    /\ Click(setTargetChain(attest, c))

Continue ==
    /\ \/ attest.activeStep = 0 /\ IsSourceComplete(attest)
       \/ attest.activeStep = 1 /\ IsTargetComplete(attest)
    /\ Click(incrementStep(attest))
    /\ UNCHANGED edits

\* Unlike in the other wizards, a step can be reached from an earlier one.
StepButton(n) ==
    /\ Edit
    /\ n # attest.activeStep
    /\ CASE n \in {0, 1} -> ~PreventNavigation(attest) /\ ~attest.createTx
         [] n = 2 -> ~IsSendComplete(attest)
         [] n = 3 -> IsSendComplete(attest)
    /\ Click(setStep(attest, n))

-----------------------------------------------------------------------------
(* Step 3: attest. *)

AttestClick ==
    /\ isShown /\ attest.activeStep = 2
    /\ isReady(attest.sourceChain, network)
    /\ IsTargetComplete(attest) /\ ~ShouldLockFields(attest)
    /\ Len(calls) < MaxAttests
    /\ calls' = Append(calls, [token |-> [chain |-> attest.sourceChain,
                                          asset |-> attest.sourceAsset],
                               phase |-> "signing"])
    /\ Renders(setIsSending(attest, TRUE), isShown)
    /\ UNCHANGED <<network, creating, registered, switched, edits>>

AttestConfirmed(i) ==
    /\ calls[i].phase = "signing"
    /\ calls' = [calls EXCEPT ![i].phase = "fetching"]
    /\ UNCHANGED <<attest, isShown, lookup, network, creating, registered, switched,
                   edits>>

\* Refused, failed, or executed without its record being found.
AttestFails(i) ==
    /\ calls[i].phase = "signing"
    /\ calls' = [calls EXCEPT ![i].phase = "ended"]
    /\ Renders(setIsSending(attest, FALSE), isShown)
    /\ UNCHANGED <<network, creating, registered, switched, edits>>

GotSignedVAA(i) ==
    /\ calls[i].phase = "fetching"
    /\ calls' = [calls EXCEPT ![i].phase = "ended"]
    /\ Renders(setSignedVAAHex(attest, i), isShown)
    /\ UNCHANGED <<network, creating, registered, switched, edits>>

-----------------------------------------------------------------------------
(* Step 4: create, or update when the look-up has found the token. *)

CreateClick ==
    /\ IsCreateShown(attest, isShown) /\ ~lookup.isFetching
    /\ isReady(attest.targetChain, network) /\ ~attest.isCreating
    /\ IsSendComplete(attest)
    /\ creating' = [vaa |-> attest.signedVAA, chain |-> attest.targetChain,
                    update |-> lookup.doesExist = TRUE]
    /\ Renders(setIsCreating(attest, TRUE), isShown)
    /\ UNCHANGED <<network, calls, registered, switched, edits>>

\* The token bridge of an EVM chain creates a token once and updates only what
\* it has; on the other chains the two are the same call.
Accepted(c) ==
    Kind[c.chain] = "evm" => (c.update <=> <<calls[c.vaa].token, c.chain>> \in registered)

\* Terra's wallet answers when it has posted the transaction.
CreateEnds ==
    /\ creating # Nil
    /\ creating' = Nil
    /\ \/ /\ Accepted(creating)
          /\ registered' = registered \cup {<<calls[creating.vaa].token, creating.chain>>}
          /\ Renders(setCreateTx(attest), isShown)
       \/ /\ Kind[creating.chain] = "terra"
          /\ Renders(setCreateTx(attest), isShown) /\ UNCHANGED registered
       \/ Renders(setIsCreating(attest, FALSE), isShown) /\ UNCHANGED registered
    /\ UNCHANGED <<network, calls, switched, edits>>

\* "Attest Another Token!", or "Return to Transfer".
ResetClick(shown) ==
    /\ isShown /\ attest.activeStep = 3 /\ attest.createTx
    /\ Renders(reset(attest), shown)
    /\ UNCHANGED <<network, calls, creating, registered, switched, edits>>

-----------------------------------------------------------------------------
(* The rest of the application. *)

Leave ==
    /\ Edit /\ isShown
    /\ Renders(attest, FALSE)
    /\ UNCHANGED <<network, calls, creating, registered, switched>>

Return ==
    /\ ~isShown
    /\ Renders(attest, TRUE)
    /\ UNCHANGED <<network, calls, creating, registered, switched, edits>>

\* Mutant of RegisterNow: the button is offered when a VAA is shown.
RegisterNowAlways(token, target) ==
    /\ ~isShown
    /\ token.chain # target
    /\ Renders(setStep(setTargetChain(setSourceAsset(
                 setSourceChain(attest, token.chain), token.asset), target), 2), TRUE)
    /\ switched' = (switched \/ attest.isSending)
    /\ UNCHANGED <<network, calls, creating, registered, edits>>

\* RegisterNowButtonCore, on another page, for a token it has looked up.
RegisterNow(token, target) ==
    /\ ~isShown /\ ~IsSendComplete(attest)
    /\ token.chain # target
    /\ Renders(setStep(setTargetChain(setSourceAsset(
                 setSourceChain(attest, token.chain), token.asset), target), 2), TRUE)
    /\ switched' = (switched \/ attest.isSending)
    /\ UNCHANGED <<network, calls, creating, registered, edits>>

\* The EVM wallet's chainChanged.
SwitchNetwork(c) ==
    /\ Edit
    /\ network # c /\ network' = c
    /\ lookup' = IF IsCreateShown(attest, isShown) THEN LookUp(attest, lookup, c)
                 ELSE lookup
    /\ UNCHANGED <<attest, isShown, calls, creating, registered, switched>>

\* Somebody else registers a token.
Register(token, target) ==
    /\ Edit
    /\ token.chain # target
    /\ registered' = registered \cup {<<token, target>>}
    /\ UNCHANGED <<attest, isShown, lookup, network, calls, creating, switched>>

Init ==
    /\ attest = initialState
    /\ isShown = TRUE
    /\ lookup = Unmounted
    /\ network \in EVMChains
    /\ calls = <<>>
    /\ creating = Nil
    /\ registered = {}
    /\ switched = FALSE
    /\ edits = 0

Called(i) == AttestConfirmed(i) \/ AttestFails(i) \/ GotSignedVAA(i)

Next ==
    \/ \E c \in Chains : ChooseSourceChain(c) \/ ChooseTargetChain(c)
    \/ \E asset \in Assets : TypeAsset(asset)
    \/ Continue
    \/ \E n \in 0 .. 3 : StepButton(n)
    \/ AttestClick \/ \E i \in DOMAIN calls : Called(i)
    \/ LookUpAnswer \/ LookUpFails
    \/ CreateClick \/ CreateEnds \/ \E shown \in BOOLEAN : ResetClick(shown)
    \/ Leave \/ Return
    \/ \E token \in Tokens, target \in Chains :
         RegisterNow(token, target) \/ Register(token, target)
    \/ \E c \in EVMChains : SwitchNetwork(c)

Spec == Init /\ [][Next]_attestVars

\* Wallets and chains answer, and the guardians sign what was sent.
Fairness ==
    /\ \A i \in 1 .. MaxAttests : WF_attestVars(i \in DOMAIN calls /\ Called(i))
    /\ WF_attestVars(CreateEnds)

-----------------------------------------------------------------------------
(* What the wizard promises. *)

\* What the theorems of WebAppProofs take for granted of the constants.
ConstantsOK ==
    /\ Kind \in [Chains -> {"evm", "solana", "terra"}]
    /\ {DefaultSource, DefaultTarget} \subseteq Chains
    /\ DefaultSource # DefaultTarget
    /\ MaxAttests \in Nat /\ MaxEdits \in Nat

\* The types of all variables; no reducer selects one chain twice.
TypeOK ==
    /\ attest \in AttestState /\ attest.sourceChain # attest.targetChain
    /\ isShown \in BOOLEAN
    /\ lookup \in [asks : 0 .. 2, isFetching : BOOLEAN, doesExist : BOOLEAN \cup {Nil}]
    /\ network \in EVMChains
    /\ calls \in Seq([token : Tokens, phase : {"signing", "fetching", "ended"}])
    /\ Len(calls) <= MaxAttests
    /\ creating \in [vaa : 1 .. MaxAttests, chain : Chains, update : BOOLEAN] \cup {Nil}
    /\ registered \subseteq Tokens \X Chains
    /\ switched \in BOOLEAN
    /\ edits \in 0 .. MaxEdits

\* A token that the wizard shows as created is registered on the chain that it
\* shows, unless "Register Now" has replaced it while its attestation was
\* being sent (the locks of Source and Target, canSwitch of RegisterNowButton).
CompleteMeansRegistered ==
    attest.createTx /\ ~switched /\ Kind[attest.targetChain] # "terra" =>
        <<[chain |-> attest.sourceChain, asset |-> attest.sourceAsset],
          attest.targetChain>> \in registered

\* Nothing is locked for ever (setIsSending and setIsCreating in every catch,
\* setSignedVAAHex, setCreateTx).
LocksEnd ==
    /\ attest.isSending ~> ~attest.isSending
    /\ attest.isCreating ~> ~attest.isCreating
=============================================================================
