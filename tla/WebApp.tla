-------------------------------- MODULE WebApp --------------------------------
(***************************************************************************)
(* The pages of the web interface (bridge_ui/src/App.js), each of which    *)
(* keeps its state in a slice of the store and in components of its own.   *)
(* They share the wallets only, so a behaviour is about one page.  The     *)
(* token list of the transfer wizard is a page of its own here, and so is  *)
(* the page of the migration pool, with the pool, which belongs to another *)
(* interface.                                                              *)
(***************************************************************************)
EXTENDS TransferWizard

CONSTANTS
    AttestAssets, MaxAttests, MaxEdits,                      \* AttestWizard
    NFTs, HomeOf, PastToken, PastNFTTarget, MaxNFTSends, MaxNFTChoices, \* NFTWizard
    Wallets, FirstWallet, MaxClicks,                         \* SourceAccounts
    VerifierChains, VerifierKind, DefaultPrimary, DefaultSecondary,
    Assets, OriginOf, MaxChanges,                            \* OriginVerifier
    Users, Owner, Units, ShareUnit, Holdings, Amounts, MaxCalls \* MigrationPool

VARIABLES
    app,        \* the page a behaviour is about
    attest, isShown, lookup, calls, creating, registered, switched, edits,
    nft, nftPage, effects, picks, nftSends, claims, claimed, described,
    nftDisturbed, nftSlipped, nftChoices,
    source, selector, wallet, solanaCalls, awaited, isOpen, clicks,
    primary, secondary, origin, foreign, changes,
    units, pool, totalSupply, holds, allowance, txs, info, reading, processing,
    clickCount

Attest   == INSTANCE AttestWizard WITH Assets <- AttestAssets
NFT      == INSTANCE NFTWizard WITH Tokens <- NFTs, PastTarget <- PastNFTTarget
List     == INSTANCE SourceAccounts
Verifier == INSTANCE OriginVerifier WITH Chains <- VerifierChains, Kind <- VerifierKind
Pool     == INSTANCE MigrationPool

ownTransferVars == <<st, page, fx, isConfirmOpen, pick, sends, redeems, released,
                     disturbed, slipped, choices, reloads>>

ownAttestVars ==
    <<attest, isShown, lookup, calls, creating, registered, switched, edits>>

ownNFTVars == <<nft, nftPage, effects, picks, nftSends, claims, claimed, described,
                nftDisturbed, nftSlipped, nftChoices>>

ownListVars == <<source, selector, wallet, solanaCalls, awaited, isOpen, clicks>>

ownVerifierVars == <<primary, secondary, origin, foreign, changes>>

ownPoolVars == <<units, pool, totalSupply, holds, allowance, txs, info, reading,
                 processing, clickCount>>

webVars == <<app, vars, ownAttestVars, ownNFTVars, ownListVars, ownVerifierVars,
             ownPoolVars>>

WebInit ==
    /\ app \in {"transfer", "attest", "nft", "list", "verifier", "pool"}
    /\ Init /\ Attest!Init /\ NFT!Init /\ List!Init /\ Verifier!Init /\ Pool!Init

OnTransfer == /\ app = "transfer"
              /\ UNCHANGED <<app, ownAttestVars, ownNFTVars, ownListVars, ownVerifierVars,
                              ownPoolVars>>
OnAttest   == /\ app = "attest"
              /\ UNCHANGED <<app, ownTransferVars, ownNFTVars, ownListVars, ownVerifierVars,
                              ownPoolVars>>
OnNFT      == /\ app = "nft"
              /\ UNCHANGED <<app, ownTransferVars, ownAttestVars, ownListVars, ownVerifierVars,
                              ownPoolVars>>
OnList     == /\ app = "list"
              /\ UNCHANGED <<app, ownTransferVars, ownAttestVars, ownNFTVars, ownVerifierVars,
                              ownPoolVars>>
OnVerifier == /\ app = "verifier"
              /\ UNCHANGED <<app, ownTransferVars, ownAttestVars, ownNFTVars, ownListVars,
                              ownPoolVars>>
OnPool     == /\ app = "pool"
              /\ UNCHANGED <<app, vars, ownAttestVars, ownNFTVars, ownListVars,
                              ownVerifierVars>>

WebNext == \/ OnTransfer /\ Next
           \/ OnAttest /\ Attest!Next
           \/ OnNFT /\ NFT!Next
           \/ OnList /\ List!Next
           \/ OnVerifier /\ Verifier!Next
           \/ OnPool /\ Pool!Next

WebSpec == WebInit /\ [][WebNext]_webVars

-----------------------------------------------------------------------------
(* What the pages promise; of a page that is not shown they say that of its *)
(* fresh state.                                                            *)

\* The types of the page that is shown; the others rest as they were.
TypesOK ==
    /\ app = "transfer" => TypeOK
    /\ app = "attest" => Attest!TypeOK
    /\ app = "nft" => NFT!TypeOK
    /\ app = "list" => List!TypeOK
    /\ app = "verifier" => Verifier!TypeOK
    /\ app = "pool" => Pool!TypeOK

CompleteMeansRegistered == Attest!CompleteMeansRegistered
NFTSentIsConsistent == NFT!NFTSentIsConsistent
NFTCompleteMeansReceived == NFT!NFTCompleteMeansReceived
SelectionIsOfWallet == List!SelectionIsOfWallet
AnswerIsForQuestion == Verifier!AnswerIsForQuestion
PoolIsSolvent == Pool!PoolIsSolvent
=============================================================================
