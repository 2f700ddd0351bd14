--------------------------- MODULE MCTransferWizard ---------------------------
(* Instances of TransferWizard for TLC. *)
EXTENDS TransferWizard, TLC

CONSTANTS eth, bsc, sol

\* Two chains that share a wallet, and one that does not.
MCKind == eth :> "evm" @@ bsc :> "evm" @@ sol :> "solana"

MCLinks == {[source |-> eth, target |-> sol], [source |-> Nil, target |-> bsc]}
=============================================================================
