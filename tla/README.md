# Verification of the wormhole guardian node, of the Alephium bridge contracts and of the web interface

This directory holds TLA+ models of the programs in `src/`, the TLC
configurations that check them on small instances, and theorems proved by
TLAPS. `PROJECT.json` lists runs, mutants, findings, hazards and theorems, and
maps every definition to the lines it models. Paths below are relative to
`src/`; `pkg/` stands for `node/pkg/`.

## 1. The system

A *guardian* is a node that watches several chains, signs the messages that
contracts on them emit, and gossips the signatures. When a quorum (more than
two thirds) of the guardian set has signed a message, the signatures and the
message form a *VAA*, which anybody can submit to a contract on another chain.
This repository adds the chain Alephium: a watcher, and contracts in Ralph.

    chain node --> watcher --lockC--> processor --sendC--> p2p --> other guardians
       ^             ^                  ^   |    <-obsvC-----  p2p <-- other guardians
       |             |obsvReqC          |   +--> database (badger)
       |             +-- mux <----------+-- injectC (admin), setC (guardian sets)
    contracts <--- anybody submits the VAA <--- database, public RPC, spy

### 1.1 Inventory

| component | state | operations | interacts by |
|---|---|---|---|
| processor `pkg/processor` | guardian set, one aggregation entry per digest, database | one case of a select loop per input: guardian set, message, injected VAA, observation, VAA with quorum, cleanup tick | channels `lockC setC injectC obsvC signedInC sendC`, database |
| Ethereum watcher `pkg/ethereum` | pending messages by (tx, block, emitter, sequence), block number | log, header, re-observation, guardian set poll, restart | RPC and subscriptions; `lockC`, `setC`, `obsvReqC` |
| Alephium watcher `pkg/alephium` | heights read, pending events, validator's processed height, database of contracts | poll, check of confirmations, re-observation, validation, restart | REST; channel `confirmedC` of capacity 8 between its goroutines; `lockC` |
| Solana, Terra watchers | pending slots / none | log, re-observation | RPC, `lockC` |
| node start-up `node/cmd/guardiand` | channels, re-observation multiplexer | wires everything | bounded and unbuffered channels |
| p2p `pkg/p2p` | gossip subscription, heartbeats | send, receive, dispatch by type | `sendC obsvC signedInC obsvReqC` |
| guardian set state `pkg/common` | set, heartbeats per guardian and peer (bounded) | set, heartbeat, cleanup | mutex |
| supervisor `pkg/supervisor` | tree of runnables with a state each | schedule, died, kill, GC | contexts, one processor goroutine |
| database `pkg/db` | signed VAAs by id | store, get, find sequence gaps | badger transactions |
| reporter, notifier, telemetry, public RPC, readiness | subscriptions | publish, read | callbacks |
| spy `node/cmd/spy` | subscriptions with filters | subscribe, publish, unsubscribe | one mutex, one channel per subscription |
| Alephium contracts `alephium/contracts` | guardian sets, message fee, sequences executed, locked amounts | guardian set update, fee, attest, transfer, complete | contract calls, rolled back when an assertion fails |
| Ethereum contracts `ethereum/contracts` | guardian sets and expiry, consumed actions, completed transfers, outstanding amounts | publish, governance, transfer, complete | transactions |
| Solana programs, Terra contracts | the same roles | the same roles | transactions |
| web interface: transfer wizard `bridge_ui/src` | a slice of the store (step, chains, token, origin, target asset and address, VAA, flags), state of hooks and of the dialog | reducers, effects, buttons, recovery, reload | wallets and chains by calls that are awaited; guardians' RPC for the VAA |
| web interface: registration wizard | its slice, one lookup | the same; "Register Now" of other pages | as above, and the slice of another page |
| web interface: NFT wizard | its slice, state of hooks | the same; several transactions to redeem on Solana | as above |
| web interface: token list and picker | list in the slice, native coin and requests in a component | load, reset, reload, select | wallets, Covalent, chain nodes |
| web interface: origin verifier | two lookups with their arguments | enter, choose, answer | chain nodes |
| migration pool `Migrator.sol` and its page `lp_ui` | balances, shares, allowances; balances shown, one flag per button | add, remove, claim, migrate; refresh | transactions; the page reads balances one by one |
| SDK, clients, statistics, event database, explorer | none of the bridge | encode calls, display | - |

### 1.2 What is hard, and what correctness means

* **Processor.** Five inputs race: our own observation, those of others, VAAs
  from gossip, guardian set changes and the cleanup timer. An entry keeps the
  guardian set of its first observation, its own VAA keeps the index of its
  latest one. Correct: a VAA the node assembles verifies under the set it names,
  as the contracts verify it; a quorum that has been collected is acted on, once;
  the database only gains VAAs it has checked; what was observed is not forgotten before it is
  in the database; entries do expire.
* **Watchers.** They read a chain that moves on between any two calls, count
  confirmations by a height read earlier, forget everything at a restart.
  Correct: what is published is final, carries the right block time, the same
  message every time; nothing due is left out.
* **Replay protection.** VAAs of an emitter arrive in any order with gaps, and
  the state is compressed in two bitmaps and a list. Correct: each number is
  executed at most once, and is given up only when it lags far behind.
* **Node.** Everything is connected by channels with small capacities, and the
  goroutines send while others send to them. Correct: they cannot all wait.
* **Web interface.** One thread, but every call is awaited, and what the user
  clicked meanwhile is in the store when the answer comes. Effects run after the
  rendering they belong to, and an answer may come before them. Correct: what is
  sent to a contract belongs together (token, chain, recipient), what is shown
  answers the question on the screen, "complete" means that the other chain
  says so, and no flag locks the page for ever.
* **Migration pool.** Two tokens of different decimals, shares counted in units
  of one of them, division that rounds. Correct: the pool covers its shares.
* **Supervisor, spy, heartbeats.** Life cycle, lock held over a channel send,
  bounded table.
* **Token bridges and governance.** What is minted on one side is locked on the
  other; guardian sets follow each other by one and old ones expire.

## 2. Modules

| module | models | kind |
|---|---|---|
| `Quorums` | `processor/quorum.go` | operators |
| `Processor` | `pkg/processor` | component |
| `ProcessorProofs` | | theorems |
| `ReplayProtection` | what the replay protection promises | abstract specification |
| `AlephiumSequence` | `sequence.ral`, `undone_sequence.ral`, with sets for bitmaps and list | component, implements `ReplayProtection` |
| `SequenceContract` | the same contracts with integers, bytes and bisection | detailed component, implements `AlephiumSequence` |
| `AlephiumSequenceProofs`, `SequenceContractProofs` | | theorems |
| `EthWatcher`, `EthWatcherProofs` | `pkg/ethereum/watcher.go`, `by_transaction.go` | component, theorems |
| `AlephiumWatcher`, `AlephiumWatcherProofs` | `pkg/alephium` | component, theorems |
| `TransferSlice` | `store/transferSlice.ts` and its selectors | operators: one per reducer |
| `TransferWizard`, `TransferWizardProofs` | the transfer wizard and the recovery page, on `TransferSlice` | component, theorems |
| `AttestWizard` | the registration wizard | component |
| `NFTWizard`, `NFTWizardProofs` | the NFT wizard | component, theorems |
| `SourceAccounts` | the token list of step 1 | component |
| `OriginVerifier` | the token origin verifier | component |
| `MigrationPool` | the pool's contract, its page and its other users | component |
| `WebApp` | `App.js`: the pages side by side | composition |
| `WebAppProofs` | the pool, the verifier, the token list, the registration wizard and the composition | theorems |
| `MC...` | values of constants for TLC | |

Definitions called *Mutant of X* are X as a plausible bug would have left it.
They take no part in the specification; each shows that some property notices
the bug when X is replaced by it.

### 2.1 Processor

One action per case of `Processor.Run`'s select loop: `SetGuardianSet`,
`HandleMessage`, `HandleInjection`, `HandleRemoteObservation` and
`HandleOwnObservation` (both are `handleObservation`; our own observation comes
back through `obsvC`), `HandleInboundSignedVAAWithQuorum`, `HandleCleanup`; and
`Tick` for time, `EthereumUpgrade` for the contract that announces guardian
sets, and `Crash`, `CleanupPanic`, `CrashAfterStore`, `CrashAfterBroadcast` for
the process. An action is atomic because one goroutine runs all handlers; the
places where a crash leaves a trace, the database and the gossip network, have
crash actions of their own.

`vaaSignatures[d]` is `Processor.state.vaaSignatures` at a digest, with the
fields of `vaaState`; a signature is its signer. `db` is the database by VAA id,
`sent` the gossip that left the node (the network repeats, reorders and loses
it, so a set is enough), `obsvC` the own observations in the channel. `IdOf`
lets two digests share an id, as when the source block is mined again. A
governance VAA, injected by the operator, is a digest of `GovernanceDigests`; the
operator may write any guardian set index in it.

The signatures of a VAA are a list, as in the code: each entry is a position in the
guardian set and the key that made the signature. `SigsOf` is the loop of
`handleObservation` over the keys of the set. `VerifySignatures` and `HasQuorum`
are what `vaa/structs.go:280-305` and `observation.go:208` and `287` compute: the
list is no longer than the set, each entry is made by the key at its position, and
the length of the list is compared with the quorum. `GossipedVAAs` is what peers
may send to `handleInboundSignedVAAWithQuorum`. Nothing is assumed of it but its
type, because `p2p.go:386-387` forwards whatever arrives: any index, and any list,
with repetitions and in any order.

What the models show besides the properties: the inbound path establishes less than
the aggregation does. It counts entries and not signers, and does not compare the
index the VAA names with the set it verifies against, so of a VAA stored from gossip
the node knows only that enough entries of the list are right for a guardian set it
has held. The contracts ask for ascending positions and look the set up by the index
themselves. Therefore `QuorumOfNamedSet` speaks of the VAAs assembled here
(`AssembledVAAs`: those broadcast, and those stored that no peer sends), and
`VerifiedHere` claims different signers only of those.

### 2.2 Replay protection

`checkSequence` is one call with four outcomes: below the window (`ExecuteUndone`),
in its lower or upper half, or just beyond it, when `compact` moves the
unexecuted numbers of the lower half to the list and the window slides by half.
Calls are those of `token_bridge_for_chain.ral` with a sequence of a verified
VAA; a failed assertion rolls the call back, so it is a disabled action.
`SequenceContract` has the integers (`2^Window` bits), the byte vector with its
length and the bisection of `undone_sequence.ral`, over bytes of two bits, and
a refinement mapping to the sets of `AlephiumSequence`.

What the models show besides the properties: a number three bitmaps or more
above the window is refused until the gap is filled, and with the deployed
distance of 64 and bitmaps of 256 bits a number that leaves the window is at
once too old, so the list is always empty (theorem `NothingIsKept`).

### 2.3 Ethereum watcher

The chain is a sequence of blocks; a fork replaces a suffix. Logs, removed logs
and headers reach the watcher later than the chain changes, by up to `MaxLag`
headers. `TakeLog` reads the block time by height when the log is inserted,
`TakeHeader` opens the check of all pending entries for one header, `LookUp`
fetches one receipt (publish, drop on mismatch, or fail), `FinishHeader` closes
it. `LoadBlockNumber` and `Reobserve` are the two calls of a re-observation.
`Resubscribe` and `StartAgain` are a broken subscription and a new process. A
block that a fork replaced is assumed not to come back.

### 2.4 Alephium watcher

`Poll`, `Fetch` (one block), `Check` (one pending height; empty, shallow or
deep), `Refetch` (after a block turned out not canonical) and `EndCheck` are the
steps of `getEvents` between two calls to the chain node; `ReobserveLookUp` and
`ReobserveConfirm` those of `handleObsvRequest`; `Validate` one round of
`validator.run` with its batch; `Start` is `fetchContractAddresses` and the
start of the goroutines; `Stop`, `StopValidating` and `Fail` end them. A block
holds *events*: a message of the governance contract, or the creation of a
contract that transfers may come from (`addresses` in the database: chain or
token to contract). `confirmedC` is the channel with its capacity.

`published` and `skipped` are histories: what was sent to the processor, and the
heights a restart has jumped over.

### 2.5 Web interface

`TransferSlice` has an operator per reducer, from slice to slice, and the
selectors (`IsSourceComplete`, `ShouldLockFields`, ...). `TransferWizard` is
the page: an action per button or field of each step, and one per answer of a
call (`Sent(i)` is the i-th transfer confirmed, refused or not found, then its
VAA; `RedeemEnds`; `AddressAnswer`, `AssetAnswer`, `WrappedAnswer`, `DoneAnswer`
for the hooks). A call keeps the arguments it was made with.

`fx` holds, for each hook, the dependencies its effect last ran on and whether it
awaits a call. A store change renders at once; `FlushEffects` runs the effects
later, but before the next click or the rendering of an answer. An answer that
comes in between still has an effect that is not cleaned up: it is taken, and the
history `slipped` says so. Leaving the page unmounts the hooks but neither clears
the slice nor ends the calls; a reload clears all of it.

`disturbed` (and `switched`, `nftDisturbed`) is set when something other than
the form replaces chains or VAA while a call is under way: path params, a
recovery, a reset, "Register Now". The properties that these break by the design
of the page except them. `CompleteUnlessRecovered` excepts recovered transfers
too; what happens to one after a completed transfer is the finding
`wizard_recover`. What `CompleteMeansRegistered` excepts (`switched`) does happen:
`RegisterNowButton.tsx:32` tests for a VAA only, so an attestation that is in the
wallet can be replaced, and what is sent then, or shown as created, belongs to the
earlier token. The property says that nothing else does this, in particular not the
button when there is a VAA.

The EVM wallet stays connected. `EthereumProviderContext.tsx` gives a new `provider`
object only when the wallet is connected and takes it away when it is disconnected
(lines 59 and 125), not when the network changes (line 88), so the dependency of the
asset look-ups on it is left out, as is what they do without a wallet.

`AttestWizard` and `NFTWizard` are built alike. In the first an attestation fits
any target chain, and creating the token is asked of one. In the second several
tokens are followed, so that an account derived for one NFT can meet another;
`ClaimOnSolana` and `Describe` are the transactions of a redeem, each may fail.
`SourceAccounts` keeps what its effects ran on (`covalentOn`, `nativeOn`,
`mintsOn`) next to the store's list, with two wallets of each kind.
`OriginVerifier` keeps for each hook the answer, the arguments it is said to be
for (`prev`, of `argsEqual` and `setArgs`) and all calls under way.

### 2.6 Migration pool

`add`, `remove`, `claim` and `migrate` are the four calls with the ERC20 calls
they make; a call that would revert is `~Succeeds`. Units stand for `10 **
decimals`, so `adjustDecimals` divides or multiplies by their ratio. The page of
one user reads five balances with an await each (`Read`); a button sends an
approval and, without waiting for it to be mined, the call; `Mined` executes the
next transaction. The other users call whenever they like.

`WebApp` composes the pages. They have no state in common but the network the
wallet is connected to, so a behaviour concerns one of them (`app`), and the
page that is not shown does nothing: the state spaces add up instead of
multiplying. `MCWebApp` gives the constants their values, takes one initial state
of the other pages for each of the page shown, and states the fairness.

## 3. Runs

Every property has a mutant that TLC refutes under the same configuration.

| run | instance | shows |
|---|---|---|
| `processor_reorg` | 3 guardians, sets <<g1,g2>> then <<g3,g1>>, 2 digests of one id, 4 VAAs from peers | a VAA assembled here is signed by a quorum of the set it names (`QuorumOfNamedSet`), is stored first (`StoredBeforeBroadcast`); a stored one stays (`StoredVAAStays`) |
| `processor_growing` | 4 guardians, 2 then 4 of them, a governance VAA injected with either index, also before the first set, 3 VAAs from peers, failing database | stored VAAs were checked here (`VerifiedHere`), no quorum is overlooked (`QuorumNotMissed`), no double submission, no observation forgotten |
| `processor_injection` | 4 guardians, one governance VAA, 2 VAAs from peers, fair | a collected quorum is acted on; submitted and unobserved entries expire |
| `processor_retransmit` | violation | see 3.3 |
| `sequence_undone` | 12 numbers, bitmaps of 2, distance 5, fair | at most once, marks agree with what was executed, accepted when due, list short, implements `ReplayProtection`; a number submitted again and again is settled |
| `sequence_contract` | 14 numbers, bytes of 2 bits, 2 bytes, distance 9 | bytes and bisection implement the sets |
| `eth_reorg` | 2 transactions, height 5, a fork of 2, lag 2, new subscriptions | published is final, right time, one message per transaction |
| `eth_orphan` | violation | see 3.3 |
| `alph_watch` | a transfer and its contract, height 4, one fork of 1, one restart, fair | published is final; what is done is published; contracts are known; every message is published |
| `alph_fork` | violation | see 3.3 |
| `web` | three chains of two kinds of wallet (Terra for the verifier), two wallets of each kind, two NFTs, two pools; fair | what is sent fits together, what is shown is for what was asked, complete means released, registered or received, the pool covers its shares, nothing waits for ever |
| `wizard_recover` | violation | see 3.3 |

`CHECK_DEADLOCK FALSE` is used everywhere: the environment is bounded (chain
length, numbers, retries), so a system with nothing left to do may stop.

### 3.1 Bounds

* `SettlementTime`, `UnsubmittedTime`, `SubmittedTime` = 0, 1, 2 ticks for 30 s,
  5 min, 1 h: only their order matters, and an age is capped at the largest.
  Retry limits are 2 and 1 for 14400 and 10: zero, below and at the limit occur.
* Guardian sets of two to four keys have quorums 2, 3 and 3: one can be short of
  a quorum, at it and above it, remote signatures alone may suffice or not.
* VAAs from peers: among two to four per run are an honest one, one that names
  the other guardian set, one with a repeated signature, one with its signatures
  out of order, and one with a signature out of place. The theorems hold for
  any set of them.
* `processor_growing` stops after a second VAA has been broadcast
  (`MCOneBroadcast`); that state is still checked. Its message is a governance
  VAA because `HandleInjection` with the current index does all that
  `HandleMessage` does, and more: any index, and before the first guardian set.
* `MaxLoopback` = 1 own observation under way per message: a message can be
  observed again before the first came back only after it was taken, and two in
  the channel are the same observation.
* Bitmaps of 2 bits and 12 numbers slide the window several times, with gaps on
  both sides of the distance. In `SequenceContract` a list of several
  two-byte entries makes the bisection take both branches.
* Chains of 5 and 4 blocks contain a message, its confirmations, a fork and the
  blocks read after it; a lag of 2 lets headers overtake logs.
* `MaxForkHeight` = 1 for 100: a restart resumes, or jumps over a block.
  `ChannelSize` = 1 for 8 makes every sender wait at times.
* Web interface: `MaxSends` 2, `MaxAttests` 2 and `MaxNFTSends` 1 with the VAA of
  an earlier transfer let a page hold two VAAs; `MaxReloads` 1. The bounds on
  choices (`MaxChoices` 2, `MaxEdits` 3, `MaxNFTChoices` 3, `MaxClicks` 3,
  `MaxChanges` 3) count changes of mind only: choosing a chain or token again,
  switching network or account, leaving, recovering. What a form asks for, and
  every answer, is free. `MCInit` gives path params to the transfer page
  only, where they are used, and lets a VAA of the past be redeemed elsewhere,
  or the wallet start on another network, only in those behaviours: without path
  params the same states are reached by a click.
* Migration pool: `MaxCalls` 3 clicks or calls of others, units 2 to 1 and 1 to
  2, amounts 1 and 2: amounts that round, to zero or not, on either side.

### 3.2 Fairness

* `Processor`: the guardian set poll, the clock, the cleanup timer and the
  channel of own observations are served: a select loop whose cases stay ready
  is served by Go's random choice. Inputs from outside are not fair.
* `AlephiumSequence`: a VAA that keeps being submitted is executed if the
  contract accepts it (relayers retry).
* `AlephiumWatcher`: the 20 s ticker, the goroutines and the supervisor's
  restart. `Check` and `Refetch` are strongly fair: they wait to send on a
  channel that the re-observation loop uses too, and Go serves waiting senders
  in order. Blocks, forks, requests and crashes are not fair.
* Web interface: a call to a wallet, a chain or a service ends (each `Sent(i)`,
  the redeem calls, each request of the list and the verifier, the mining of a
  transaction, the reading of balances). `getSignedVAAWithRetry` retries without
  end, and the guardians sign what was executed. The user's clicks are not fair.
  In `MCWebApp` one conjunct serves one call of each page: only the page that is
  shown has calls, so this is the fairness of the pages. `WaitingEndsOnEveryPage`
  asks that a state without any lock and any loading comes, which is more than
  each of them ending (`LocksEnd`, `LoadingEnds`).
* `EthWatcher` has no liveness property: a subscription may lose what happened
  while it was down, and the code relies on re-observation.

### 3.3 Findings

* `processor_retransmit`: an own observation without quorum is never gossiped
  again. The first case of the switch in `cleanup.go` catches it on every pass
  and falls through into the second, so lines 169-188 never see it. The comment
  at lines 175-177 and `docs/assumptions.md` promise the retransmission.
* `eth_orphan`: `watcher.go:421` reads the receipt's status before line 444
  tests it for nil, so a transaction that a fork dropped, or any error of the
  call, ends the process instead of dropping or retrying the entry.
* `alph_fork`: only blocks that had events are looked up again after a fork; an
  empty block is final at once, and a message in its replacement is lost to the
  watcher (it can be re-observed).
* `wizard_recover`: `setRecoveryVaa` (`store/transferSlice.ts:228`) leaves
  `redeemTx` as it was. After a transfer was completed and not reset, a
  recovered one is shown as complete at once and cannot be redeemed on the page,
  which `components/Recovery.tsx:389` promises. `nftSlice.ts` has the same.

Observed while modelling, without a run because no document contradicts them:

* `alephium/validation.go:79` takes a re-sent empty block for a fork. As empty
  blocks stay in `pendings` and are sent on every tick, the processed height
  moves back without a fork and then waits for blocks already deleted; the
  stored height stalls, which only lengthens the scan of the next start.
  `pendings` never loses empty blocks and grows for as long as the node runs.
* A transfer in the block that creates its sender is dropped, since the batch is
  written after the messages were validated.
* A re-observation on Alephium loads the polled height after it looked the block
  up; a fork and a poll between the two would publish from an orphan.
* `processor/broadcast.go:59`: an entry raised by an injected VAA takes the
  current guardian set, whatever index the VAA names; hence governance digests
  are excepted in `QuorumOfNamedSet`.
* The token list: after a load that failed the list is not loaded again on its
  own, and the native coin kept by the component may be that of the wallet before.
* The origin verifier keeps the last answer under a question that cannot be
  asked, as when the network was switched away.
* The pool: shares have 18 decimals, but the contract counts them in units of
  `to`. The page parses and compares share amounts with 18 decimals
  (`MigrateEthereum.tsx:190-208`, `277-295`), so for a token of 6 decimals the
  numbers typed differ by 10^12 from those of the tokens received, although its
  texts say "an equal number". `useEthereumMigratorInformation.tsx:135` never
  clears its error once it was set. The approval is not awaited: if the wallet
  cannot estimate the call before the approval is mined, the call is not sent.

## 4. Theorems

All of them hold for every value of the constants that satisfies the named
assumptions of the module; nothing else is assumed. The components that
`WebApp` instantiates state theirs as `ConstantsOK`, a hypothesis of their
theorems; `MCWebApp` assumes it of its constants (`ConstantsHold`), so that the
run `web` shows it satisfied. It says that the constants are of their types, that
two default chains differ and that `Nil` is none of the values it stands beside.
The proofs are in the `...Proofs` modules, one step per action.

**ProcessorProofs.** `TypeCorrect`, `NamedSetSigned` (`QuorumOfNamedSet`),
`StoredVerified` (`VerifiedHere`), `NotMissed` (`QuorumNotMissed`),
`DatabaseKeeps` (`StoredVAAStays`), `StoreComesFirst` (`StoredBeforeBroadcast`),
`SubmitsOnce` (`SubmittedOnce`), `NotForgotten` (`ObservationNotForgotten`).
The invariants are not inductive as they stand. The strengthening is
`EntrySets`: the guardian set kept with the entry of a chain message is the one
its own VAA names, although the two are separate fields that several handlers
write, and every set in use was read from Ethereum. With it a lemma says of each
step that what it stores or broadcasts was either assembled now, from signatures
of the very set the VAA names, or received, and only stored, after the checks
against the current set; the theorems about the database and the gossip follow from
that one lemma (`NextSteps`). That the loop of `SigsOf` leaves a list in ascending
order of positions, each once, is proved by induction over the keys
(`SigsAggregated`).
`NotMissed` counts instead how an entry can come to hold a quorum. `SubmitsOnce`
follows from the lemma `NewMessage`, that a new VAA message was assembled in the
step, by the one handler that tests `submitted` first; `NotForgotten` from
`CleanedReasons`, the reasons for which `handleCleanup` deletes an entry.

Two theorems say what a quorum is worth. `QuorumIsLeast`: the two truncating
divisions of `CalculateQuorum` give, for every number of guardians, the least number
of signatures above two thirds. `VAAsShareSigner`: any two VAAs of chain messages
that the node assembled and that name one guardian set were both signed by a guardian
outside any given third of that set, so that they contradict each other only if a
guardian outside that third signed both. It combines `QuorumOfNamedSet` with a
count of places (`QuorumsMeet`): two quorums and the rest do not fit in one set.

**AlephiumSequenceProofs.** `TypeCorrect`, `ExecutedOnce`, `MarksTrue`,
`OldAreGivenUp`, `DueAreAccepted`, `ListIsShort`, and `KeepsPromise`: the
contract refines `ReplayProtection`. The inductive invariant says that the list
lies below the window and nothing above the window was executed, next to the two
facts that lean on each other: no number was executed twice, and the bits and
the list mark exactly the executed ones. A number is given up when it is below
the window and not in the list.
`NothingIsKept` is the consequence for the deployed distance.

**SequenceContractProofs.** `BisectionExact` (`BisectionIsExact`) and
`BytesImplementSets` (`ImplementsSets`): the integers, bytes and the bisected list
implement the sets of `AlephiumSequence`, for bytes and bitmaps of any width (those
of the contract are 8 and 256 bits; the run has 2 and 4), any distance and any set
of numbers. The bisection, the loops over a bitmap and the powers of two are
recursive functions. What they compute is shown by induction over sets: a set of
naturals that is not empty has a least element (`Least`, from the library's theorem
on minimal elements of well-founded sets), so the least counterexample of a
claim is refuted by the one before it. The lemmas build on each other:

* quotients, powers of two, and `Bit` and `Byte` of a word: adding a power of two
  to a word whose bit there is clear sets that bit and no other, which is what
  or-ing a flag into a byte and the byte into a word does;
* the list that `addToUndone` builds holds exactly the numbers whose bits are clear,
  in ascending order; skipping a full byte skips none of them;
* what `removeOldUndone` and the removal of one number leave is ascending too;
* in an ascending list the loop of `trySetDone` keeps the number it looks for between
  `begin` and `end`, and the interval shrinks: it ends, with -1 only if the number
  is not there.

The inductive invariant is that the bitmaps are words and the list is ascending; that
the first number `compact` adds is above the last of the list comes from the sets,
where the list lies below the window. With the refinement the theorems about the sets
hold of the bytes: `BytesExecuteOnce`, `BytesKeepPromise` (the contract implements
`ReplayProtection`) and `BytesAcceptDue` (no assertion of `checkSequence` fails for a
number that is due).

**EthWatcherProofs.** `TypeCorrect`, `FinalWhenPublished`, `RightTimestamp`,
`OneMessage`. The invariant says that no number under way (head, header
in hand, loaded block number) exceeds the height of the chain, that forks only
ever replace a suffix (`ForksGrow`), that a pending entry carries the time of its
block unless the block has been replaced (`TimeIsRead`), that the entries chosen
for a header are ready for it (`TodoReady`), and that what was published is so
deep that no fork reaches it (`PublishedSafe`). `FinalWhenPublished` concerns
messages that wait for at least `MaxReorg` confirmations.

**AlephiumWatcherProofs.** `TypeCorrect`, `PublishedStays` and
`PublishedIsFinalCorrect`, `DoneIsPublishedCorrect` (`DoneIsPublished`),
`ContractsAreKnownCorrect` (`ContractsAreKnown`). Two inductive invariants.
`FinalInv` says that a block is known by its height and fork, so that what was
read of a block is true of the main chain as long as that block is in it
(`Known`), that no height compared with exceeds the highest the chain ever had,
and that what is in the channel or published has its confirmations and is in the
main chain, for messages that wait as long as forks are deep (`Final`).
`PublishedStays` states this for every message by its own confirmations;
`PublishedIsFinal` follows if forks replace at most `MinConfirmations` blocks,
which is its hypothesis. `NoForkInv` holds while no fork has happened: an event
of a block that was read is in `pendings`, in the channel, or dealt with
(`Accounted`, `CreationsInv`); heights are checked in ascending order, so that the
creation of a contract is ahead of its transfers in the channel (`CheckedUpTo`,
`SendersFirst`); the entry that finishes a block comes after the last of its
events (`FinishedLast`); and every height that counts as done, in memory or in
the database, is (`DoneInv`). The order matters twice: a transfer
is dropped if its sender is not in the database when the validator takes it, and
the restart takes contracts below the stored height for known.

**TransferWizardProofs.** `TypeCorrect`, `SendsConsistently` (`SentIsConsistent`),
`RedeemsOnTarget` (`VaaIsForTargetChain`) and `ShowsCompletion`
(`CompleteUnlessRecovered`), for any chains, links, numbers of sends, choices and
reloads, from the assumptions that the constants are of their types, that the
chains a fresh page selects differ, and that `Nil` is none of the values it
stands beside. What makes the invariants long is that the effects of the hooks
ran on an earlier slice than the one on the screen.

* `TypeInv` adds to the types what each effect last ran on and that a page that
  is left has no effects; a busy call has a question.
* `AddressInv`: before there is a VAA, the recipient of a form with a token is one
  of its target chain, or none; a recipient that is awaited will be one too,
  unless its effect is about to run again, which clears it. A send is possible
  only after the effects have run.
* `TokenInv`: a token picked late is one of the source chain that is shown, or
  there was none before it; and unless `slipped`, what was looked up of the token
  was looked up on the source chain.
* `ConfirmInv`: the dialog that confirms a send asks nothing again, so what it
  was opened on still holds when it is confirmed: nothing is sent, no recipient is
  awaited, no path params are left to apply, the token is one of the source chain.
* `VaaInv`: unless `disturbed`, at most one transfer is under way, the fields
  are locked while it is, and its VAA, what is redeemed and the flags of the slice
  are about that one (`Orderly`). `VaaIsForTargetChain` and
  `CompleteUnlessRecovered` follow.

Every slice is followed through one lemma per reducer (`...Moves`), one per effect
(`...Runs`) and one that says which slice a rendering may leave (`Becomes`), so
that the proofs of the invariants have a step per action without repeating the
reducers.

**WebAppProofs, registration wizard.** `RegistrationTypes` and `RegistrationComplete`
(`CompleteMeansRegistered`). This invariant relates four things that
change apart: the token in the form, the VAA in the store, the call that creates
the wrapped token and what the target chain has registered. `RegOrderly` ties them
together: at most one attestation is on its way, of the token in the form, which is
locked meanwhile; the VAA in the store is that of the form's token; a call that
creates is for that VAA and the target chain shown. It is inductive as long as
"Register Now" of another wizard has not replaced the form while there was something
to replace (`switched`); that button is why it holds no longer after.

**NFTWizardProofs.** `TypeCorrect`, `SendsConsistently` (`NFTSentIsConsistent`) and
`CompleteReceived` (`NFTCompleteMeansReceived`).

* `TypeInv` adds to the types what each effect asked last, that the VAA in the store
  and those being redeemed are of transfers that exist, and that the metadata of an
  NFT are asked for after it was claimed, on its chain. `StoreNext` sorts all steps
  by what they leave of what is shown: all of it (`Calm`), nothing of the target and
  nothing new of the token (`Fresh`), a recovery, or the answer of a hook.
* `AddressInv`, as in the transfer wizard: the recipient is one of the target chain.
* `FitInv`: unless an answer slipped in before the effects of a change had run
  (`nftSlipped`), the origin, the asset on the target chain and the account derived
  on Solana are those of the NFT that is selected. They follow from one another
  through three hooks; each answer is for what is shown, because a change runs the
  effects again, which cancels the call.
* `Orderly`: unless `nftDisturbed`, at most one transfer is on its way and locks the
  page, which has no VAA yet; every call that redeems is for the VAA shown; and a
  redeem transaction is shown only of an NFT that was claimed and described.

**WebAppProofs, the other pages.** The three smaller pages, and all pages together.

* Migration pool: `PoolTypeCorrect` and `Solvent` (`PoolIsSolvent`), which is
  inductive with the types. The lemma `Conversions` says what `adjustDecimals` does
  in terms of the ratio of the units: in the finer of the two tokens what is paid
  out is never worth more than what was paid in. With it each call changes both
  sides of the inequality by the same amount, or leaves the rounding to the pool.
  The proof covers every ratio; that units are powers of ten is not needed.
* Origin verifier: `VerifierTypeCorrect` and `AnswersQuestion`
  (`AnswerIsForQuestion`). `VerifierInv` says that each of the two hooks follows what
  is asked of it (`Follows`): the answer it keeps is for the question it is said to
  answer, and a question that can be asked and is not answered was asked and has not
  ended, or has failed; calls of earlier questions may be under way. The second hook
  asks about the first one's answer, so a step that changes the first has to be
  followed by both.
* Token list: `SelectsOfWallet` (`SelectionIsOfWallet`) and `ListTypeCorrect`. `PageInv` says that the
  selection is one its owner can hold, that calls under way were made with a wallet of
  their chain's kind, and that while the step is shown the owner is the wallet that is
  connected, or there is none (`Fresh`);
  `PicksInv` that what a picker is about to select was read for the wallet it says.
  Only both together exclude that an answer of the wallet before is selected.
  The types say that the page that is shown has settled: `RenderTidies` follows what
  a rendering leaves to be done (the reset for another wallet, then the loads, then
  the mints of a list that the loads have changed), `StableIsFixed` says that a page
  without anything to do is rendered as it is, so three renderings always suffice
  (`SettledOK`) and the effects never set each other off for ever.
* All pages: a behaviour of `WebApp` is one of the page it is about, and leaves the
  others at rest (`PageSteps`), so what each page promises on its own carries over:
  `WebTypes` (`TypesOK`, of the page that is shown), `WebRegistered` (`CompleteMeansRegistered`), `WebSendsNFT`
  (`NFTSentIsConsistent`), `WebReceivesNFT` (`NFTCompleteMeansReceived`),
  `WebSelects` (`SelectionIsOfWallet`), `WebAnswers` (`AnswerIsForQuestion`) and
  `WebIsSolvent` (`PoolIsSolvent`) are what the run `web` checks. They use the
  theorems above, and those of `NFTWizardProofs` for the instance that `WebApp` has
  of the NFT wizard (`NFTIsSame`).

Only model-checked are the six liveness properties: `QuorumActedOn`,
`SubmittedExpires` and `UnobservedExpires` of the processor, `EveryVAASettled` of the
replay protection, `EveryMessagePublished` of the Alephium watcher and
`WaitingEndsOnEveryPage` of the web interface. They rest on fairness and on `ENABLED`,
which the proof system does not reason about. Every other invariant, action property
and refinement of a passing run is stated by a theorem.

## 5. Not modelled

`PROJECT.json` lists every component. Left out for good: rendering, statistics,
prices, metrics and read-only services, which keep no state of the bridge;
signatures and encodings, which are data to the properties; generated and
vendored code; SDKs and clients, which encode calls. Time is discrete, a ticker
ticks at any moment.

Of the web interface, amounts, allowances, fees and the balances of the target
are left out: they only enable buttons. So are the variants for NFTs of the
token list, the Terra wallet in the wizards and the Solana migration program.

The TypeScript of the repository is by far the larger part in lines, and most of
it declares layout, styles, tables of addresses and texts (`consts.ts`,
`brand.tsx`, `ExplorerStats.tsx`, `coinGecko.ts`, the explorer's pages, three
copies of the same metadata parser). These have no states to check, so the
lines the map names are a small share of it. What is left with states of its own
are the Solana migration pages and the variants named above.

## 6. Plan

In order of importance; the plan names what each is for.

1. `NodePipeline`: the channels of `node.go` and `p2p.go` with their capacities,
   the multiplexer of re-observations and the goroutines as senders and
   receivers. Property: no circular wait (processor on `sendC`, p2p on `obsvReqC`,
   multiplexer on a watcher, watcher on `lockC`), and no message that waits for
   ever; a channel without a reader (Solana's, whose watcher is not started).
2. `GuardianSets` and `TokenBridge`: guardian set update and expiry in
   `governance.ral` and `Governance.sol`; custody across two chains with
   `AlephiumSequence` for the replays: what is outstanding is covered.
3. `GuardianNetwork`: several processors and gossip implement an abstract
   consensus on messages; `QuorumsMeet` carries over from one node to several.
4. `Supervisor`, `Spy`, heartbeats, sequence gaps of the database.
5. The Solana migration program and its pages, next to `MigrationPool`.

The TLC runs are kept few; each ends within three minutes on two cores.
