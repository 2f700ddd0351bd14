------------------------------- MODULE MCWebApp -------------------------------
(***************************************************************************)
(* An instance of the web interface for TLC: since a behaviour is about    *)
(* one page, the state spaces of the pages are added and not multiplied.   *)
(***************************************************************************)
EXTENDS WebApp, MCTransferWizard

CONSTANTS x, y, n1, n2, e1, e2, s1, s2, terra

\* Terra, the verifier's other chain, needs no wallet to look a token up.
MCVerifierKind == Kind @@ terra :> "terra"

\* The hypotheses of the theorems about the pages hold of these constants.
ASSUME ConstantsHold ==
    /\ Attest!ConstantsOK /\ NFT!ConstantsOK /\ List!ConstantsOK
    /\ Verifier!ConstantsOK /\ Pool!ConstantsOK

\* An NFT of each of two chains.
MCHomeOf == n1 :> eth @@ n2 :> sol

MCWallets     == [evm |-> {e1, e2}, solana |-> {s1, s2}]
MCFirstWallet == [evm |-> e1, solana |-> s1]

\* A pool whose `from' token is the finer one, and one whose `to' token is.
MCUnits    == {[from |-> 2, to |-> 1], [from |-> 1, to |-> 2]}
MCHoldings == [lp |-> [from |-> 1, to |-> 2], swapper |-> [from |-> 3, to |-> 0]]

\* On every chain there is an x of its own, and y is a wrapped token of eth.
MCOriginOf ==
    [q \in [chain : VerifierChains, asset : Assets] |->
        IF q.asset = x THEN q ELSE [chain |-> eth, asset |-> y]]

\* The initial states of a page are combined with one of each other page.
MCInit ==
    /\ WebInit
    /\ app # "pool" => units.from > units.to
    /\ app # "transfer" => fx.path = Nil
    /\ app # "transfer" \/ fx.path # Nil => released = {} /\ network = eth

\* The fairness of the pages, one conjunct of each at a time: of a page that
\* is not shown nothing is enabled.
Fair1 == \/ OnTransfer /\ 1 \in DOMAIN sends /\ Sent(1)
         \/ OnAttest /\ 1 \in DOMAIN calls /\ Attest!Called(1)
         \/ OnNFT /\ 1 \in DOMAIN nftSends /\ NFT!Sent(1)
         \/ OnList /\ (List!CovalentAnswer \/ List!CovalentFails)
         \/ OnVerifier /\ Verifier!OriginEnds
         \/ OnPool /\ Pool!Mined

Fair2 == \/ OnTransfer /\ 2 \in DOMAIN sends /\ Sent(2)
         \/ OnAttest /\ 2 \in DOMAIN calls /\ Attest!Called(2)
         \/ OnList /\ List!NativeAnswer
         \/ OnVerifier /\ Verifier!ForeignEnds
         \/ OnPool /\ (Pool!Read \/ Pool!ReadFails)

Fair3 == \/ OnTransfer /\ \E r \in redeems : RedeemEnds(r)
         \/ OnAttest /\ Attest!CreateEnds
         \/ OnNFT /\ \E r \in claims : NFT!Redeems(r)
         \/ OnList /\ \E w \in solanaCalls : List!SolanaAnswer(w)
         \/ OnPool /\ Pool!PageAnswers

MCSpec ==
    /\ MCInit /\ [][WebNext]_webVars
    /\ WF_webVars(Fair1) /\ WF_webVars(Fair2) /\ WF_webVars(Fair3)

\* The list, the verifier or the pool's page waits for something, for the user
\* to see.
Loading == \/ app = "list" /\ List!IsLoading
           \/ app = "verifier" /\ Verifier!IsLoading
           \/ app = "pool" /\ Pool!IsWaiting

\* A lock of a wizard is held.
Locked == \/ st.isSending \/ attest.isSending \/ nft.isSending
          \/ st.isRedeeming \/ attest.isCreating \/ nft.isRedeeming

\* LocksEnd and LoadingEnds of the pages: whatever a page waits for comes to an
\* end (the locks of the wizards' slices, the wrappers of what is loaded).
WaitingEndsOnEveryPage == (Locked \/ Loading) ~> ~(Locked \/ Loading)
=============================================================================
