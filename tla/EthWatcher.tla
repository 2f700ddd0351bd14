------------------------------ MODULE EthWatcher ------------------------------
(***************************************************************************)
(* The watcher of an Ethereum-like chain (node/pkg/ethereum/watcher.go and *)
(* by_transaction.go).  Three goroutines share the map of pending          *)
(* messages and the current block number: one takes the logs of the core   *)
(* contract, one takes the block headers and publishes the messages that   *)
(* have enough confirmations, one serves re-observation requests.  They    *)
(* read the chain by remote calls, and the chain moves between the calls.  *)
(*                                                                         *)
(* A block is the pair of its height and the fork that mined it, and       *)
(* stands for its hash and its timestamp.  A transaction publishes one     *)
(* message.  A block that has left the canonical chain does not come back. *)
(***************************************************************************)
EXTENDS Integers, Sequences, FiniteSets

CONSTANTS
    Txs,                \* transactions that publish a message
    ConsistencyLevel,   \* transaction -> confirmations its message asks for
    MinConfirmations,   \* the watcher's lower bound on confirmations
    MaxReorg,           \* the most blocks a fork replaces
    RPCMayFail,         \* whether a remote call may fail
    MayResubscribe,     \* whether a subscription may break
    MaxHeight,          \* bound: length of the chain
    MaxForks,           \* bound: number of forks
    MaxLag,             \* bound: headers and logs under way
    Nil                 \* nothing

Heights == Nat \ {0}
Blocks == Heights \X Nat

\* A message: message.TxHash and message.Timestamp.
Message == [tx : Txs, time : Blocks]

\* An entry of the map pending; tx and block are its key.
Pending == [tx : Txs, block : Blocks, time : Blocks]

\* A header being processed: its number, and the entries still to be looked at.
Header == [number : Heights, todo : SUBSET Pending]

\* A re-observation request, and the block number loaded for it.
Request == [tx : Txs, number : Heights]

ASSUME EthAssumption ==
    /\ ConsistencyLevel \in [Txs -> Nat]
    /\ MinConfirmations \in Nat
    /\ MaxReorg \in Nat
    /\ RPCMayFail \in BOOLEAN
    /\ MayResubscribe \in BOOLEAN
    /\ MaxHeight \in Nat /\ MaxForks \in Nat /\ MaxLag \in Nat
    /\ Nil \notin Heights \cup Pending \cup Header \cup Request

VARIABLES
    chain,      \* the canonical chain: at each height, the fork of its block
    mined,      \* transaction -> height of its canonical block, or Nil
    heads,      \* header numbers on their way to headSink
    logs,       \* the logs on their way to messageC
    inHand,     \* the pendingMessage the log goroutine is about to insert
    pending,    \* Watcher.pending
    header,     \* the header being processed, with pendingMu held
    current,    \* currentBlockNumber
    request,    \* the re-observation request being served
    published,  \* history: the messages sent to msgChan, with their blocks
    panicked    \* history: whether the process has panicked

vars == <<chain, mined, heads, logs, inHand, pending, header, current, request,
          published, panicked>>
chainVars == <<chain, mined>>

Init ==
    /\ chain = <<0>>
    /\ mined = [t \in Txs |-> Nil]
    /\ heads = <<>>
    /\ logs = <<>>
    /\ inHand = Nil
    /\ pending = {}
    /\ header = Nil
    /\ current = 0
    /\ request = Nil
    /\ published = {}
    /\ panicked = FALSE

BlockAt(h) == <<h, chain[h]>>
IsCanonical(b) == b[1] <= Len(chain) /\ chain[b[1]] = b[2]

-----------------------------------------------------------------------------
(* The chain and the subscriptions. *)

\* The log of the transaction in S, which has at most one, in block b.
LogsOf(S, b) == IF S = {} THEN <<>> ELSE << [tx |-> CHOOSE t \in S : TRUE, block |-> b] >>
AtMostOne(S) == { T \in SUBSET S : Cardinality(T) <= 1 }

\* The log of the transaction in R in the block it is dropped with.
RemovedLogs(R) ==
    IF R = {} THEN <<>> ELSE LogsOf(R, BlockAt(mined[CHOOSE t \in R : TRUE]))

\* A block with at most one of the transactions is mined on top.
Mine ==
    /\ Len(chain) < MaxHeight
    /\ Len(heads) < MaxLag /\ Len(logs) < MaxLag
    /\ \E S \in AtMostOne({ t \in Txs : mined[t] = Nil }) :
         LET h == Len(chain) + 1
             f == chain[Len(chain)]
         IN  /\ chain' = Append(chain, f)
             /\ mined' = [t \in Txs |-> IF t \in S THEN h ELSE mined[t]]
             /\ heads' = Append(heads, h)
             /\ logs' = logs \o LogsOf(S, <<h, f>>)
    /\ UNCHANGED <<inHand, pending, header, current, request, published, panicked>>

\* The blocks from height h on are replaced by a longer fork.  Its block k may
\* hold one of the transactions; those of the replaced blocks are otherwise in
\* the pool again.  The node sends the log of the new block and, marked as
\* removed (a mark the watcher does not look at), one of the replaced blocks.
Reorg(h, k) ==
    /\ h > 1 /\ h <= Len(chain)
    /\ Len(chain) - h + 1 <= MaxReorg
    /\ Len(chain) < MaxHeight
    /\ chain[Len(chain)] < MaxForks
    /\ Len(heads) < MaxLag /\ Len(logs) < MaxLag
    /\ LET f == chain[Len(chain)] + 1
           dropped == { t \in Txs : mined[t] # Nil /\ mined[t] >= h }
       IN  \E S \in AtMostOne({ t \in Txs : mined[t] = Nil \/ t \in dropped }),
              R \in AtMostOne(dropped) :
             /\ chain' = [n \in 1 .. Len(chain) + 1 |-> IF n < h THEN chain[n] ELSE f]
             /\ mined' = [t \in Txs |-> IF t \in S THEN k
                                        ELSE IF t \in dropped THEN Nil ELSE mined[t]]
             /\ heads' = Append(heads, Len(chain) + 1)
             /\ logs' = logs \o RemovedLogs(R) \o LogsOf(S, <<k, f>>)
    /\ UNCHANGED <<inHand, pending, header, current, request, published, panicked>>

-----------------------------------------------------------------------------
(* The watcher. *)

Confirmations(t) ==
    IF ConsistencyLevel[t] < MinConfirmations THEN MinConfirmations
                                              ELSE ConsistencyLevel[t]

\* The log goroutine takes a log and asks for the time of the block at its
\* height.
TakeLog ==
    /\ inHand = Nil
    /\ logs # <<>>
    /\ LET l == Head(logs)
       IN  /\ l.block[1] <= Len(chain)
           /\ inHand' = [tx |-> l.tx, block |-> l.block, time |-> BlockAt(l.block[1])]
    /\ logs' = Tail(logs)
    /\ UNCHANGED <<chain, mined, heads, pending, header, current, request, published, panicked>>

\* It locks pendingMu and inserts the entry, replacing one with its key.
InsertPending ==
    /\ inHand # Nil
    /\ header = Nil
    /\ pending' = { p \in pending : p.tx # inHand.tx \/ p.block # inHand.block } \cup {inHand}
    /\ inHand' = Nil
    /\ UNCHANGED <<chain, mined, heads, logs, header, current, request, published, panicked>>

TimedOut(p, n) == p.block[1] + 4 * Confirmations(p.tx) <= n

\* Mutant of Ready: one confirmation short.
ReadyEarly(p, n) == p.block[1] + Confirmations(p.tx) <= n + 1

Ready(p, n) == p.block[1] + Confirmations(p.tx) <= n

\* The header goroutine takes a header and locks pendingMu.  The entries that
\* have timed out are deleted, those that are ready are to be looked up.
TakeHeader ==
    /\ header = Nil
    /\ heads # <<>>
    /\ LET n == Head(heads)
       IN  /\ current' = n
           /\ pending' = { p \in pending : ~TimedOut(p, n) }
           /\ header' = [number |-> n, todo |-> { p \in pending' : Ready(p, n) }]
    /\ heads' = Tail(heads)
    /\ UNCHANGED <<chain, mined, logs, inHand, request, published, panicked>>

Publish(t, b, time) == published' = published \cup {[msg |-> [tx |-> t, time |-> time], block |-> b]}

\* Mutant of Confirm: the block hash is not compared.
ConfirmAnyBlock(p) ==
    /\ mined[p.tx] # Nil
    /\ Publish(p.tx, p.block, p.time)

\* The receipt names the block of the entry: the message is published.
Confirm(p) ==
    /\ mined[p.tx] # Nil
    /\ BlockAt(mined[p.tx]) = p.block
    /\ Publish(p.tx, p.block, p.time)

\* The receipt names another block: the transaction was mined again.
DropMismatch(p) ==
    /\ mined[p.tx] # Nil
    /\ BlockAt(mined[p.tx]) # p.block
    /\ UNCHANGED published

\* The receipt of entry p is fetched and found.
LookUp(p) ==
    /\ header # Nil
    /\ p \in header.todo
    /\ Confirm(p) \/ DropMismatch(p)
    /\ pending' = pending \ {p}
    /\ header' = [header EXCEPT !.todo = @ \ {p}]
    /\ UNCHANGED <<chain, mined, heads, logs, inHand, current, request, panicked>>

\* pendingMu is unlocked.
FinishHeader ==
    /\ header # Nil
    /\ header.todo = {}
    /\ header' = Nil
    /\ UNCHANGED <<chain, mined, heads, logs, inHand, pending, current, request, published, panicked>>

\* Mutant of StartAgain: the block number is not initialised.
StartWithoutNumber ==
    /\ heads' = <<>> /\ logs' = <<>> /\ inHand' = Nil /\ pending' = {}
    /\ header' = Nil /\ current' = Nil /\ request' = Nil

\* What is left in a new process: nothing was persisted.
StartAgain ==
    /\ heads' = <<>> /\ logs' = <<>> /\ inHand' = Nil /\ pending' = {}
    /\ header' = Nil /\ current' = 0 /\ request' = Nil

\* The transaction is not found, or the call fails (as it does once Run has
\* returned): there is no receipt, and reading its status panics.
LookUpFails(p) ==
    /\ header # Nil
    /\ p \in header.todo
    /\ RPCMayFail \/ MayResubscribe \/ mined[p.tx] = Nil
    /\ panicked' = TRUE
    /\ StartAgain
    /\ UNCHANGED <<chain, mined, published>>

\* A subscription fails, or the request for a block time: Run returns and is
\* started again, with new subscriptions and the pending messages it had.  A
\* goroutine that is past its last remote call still finishes what it does.
Resubscribe ==
    /\ MayResubscribe
    /\ current # 0
    /\ header # Nil => header.todo = {}
    /\ heads' = <<>>
    /\ logs' = <<>>
    /\ header' = Nil
    /\ current' = 0
    /\ UNCHANGED <<chain, mined, inHand, pending, request, published, panicked>>

\* Mutant of LoadBlockNumber: the number of the next block.
LoadNextNumber(t) ==
    /\ request = Nil
    /\ current # 0
    /\ request' = [tx |-> t, number |-> current + 1]
    /\ UNCHANGED <<chain, mined, heads, logs, inHand, pending, header, current, published, panicked>>

\* A re-observation request: the block number is loaded first.
LoadBlockNumber(t) ==
    /\ request = Nil
    /\ current # 0
    /\ request' = [tx |-> t, number |-> current]
    /\ UNCHANGED <<chain, mined, heads, logs, inHand, pending, header, current, published, panicked>>

\* Its receipt, and the block the receipt names, are fetched.
Reobserve ==
    /\ request # Nil
    /\ LET t == request.tx
           deep == mined[t] # Nil /\ mined[t] + Confirmations(t) <= request.number
       IN  \/ deep /\ Publish(t, BlockAt(mined[t]), BlockAt(mined[t]))
           \/ (~deep \/ RPCMayFail \/ MayResubscribe) /\ UNCHANGED published
    /\ request' = Nil
    /\ UNCHANGED <<chain, mined, heads, logs, inHand, pending, header, current, panicked>>

Next ==
    \/ Mine
    \/ \E h \in 1 .. Len(chain) : \E k \in h .. Len(chain) + 1 : Reorg(h, k)
    \/ TakeLog
    \/ InsertPending
    \/ TakeHeader
    \/ \E p \in pending : LookUp(p)
    \/ FinishHeader
    \/ \E p \in pending : LookUpFails(p)
    \/ Resubscribe
    \/ \E t \in Txs : LoadBlockNumber(t)
    \/ Reobserve

Spec == Init /\ [][Next]_vars

-----------------------------------------------------------------------------
(***************************************************************************)
(* Properties                                                              *)
(***************************************************************************)

\* The fields of Watcher and the locals of Run have their types.
TypeOK ==
    /\ chain \in Seq(Nat) /\ chain # <<>>
    /\ mined \in [Txs -> Heights \cup {Nil}]
    /\ heads \in Seq(Heights)
    /\ logs \in Seq([tx : Txs, block : Blocks])
    /\ inHand \in Pending \cup {Nil}
    /\ pending \subseteq Pending
    /\ header \in Header \cup {Nil}
    /\ current \in Nat
    /\ request \in Request \cup {Nil}
    /\ published \subseteq [msg : Message, block : Blocks]
    /\ panicked \in BOOLEAN

\* A message leaves the watcher only when the chain can no longer drop it: if a
\* fork never replaces more blocks than the message waits for, the block it was
\* published from stays canonical.  The header path compares with the number of
\* the header and the re-observation path with a number loaded before the
\* receipt is fetched; the chain moves on in between.
PublishedIsFinal ==
    \A p \in published :
        MaxReorg <= Confirmations(p.msg.tx) => IsCanonical(p.block)

\* The timestamp, which guardians sign, is that of the block that holds the
\* message, although the log goroutine asks for it by height.
TimestampIsOfBlock == \A p \in published : p.msg.time = p.block

\* A transaction is never published as two messages that guardians would sign
\* with different digests: neither before and after a fork, nor by the header
\* path and a re-observation, nor before and after a restart.
OneMessagePerTx ==
    \A p, q \in published :
        p.msg.tx = q.msg.tx /\ MaxReorg <= Confirmations(p.msg.tx) => p.msg = q.msg

-----------------------------------------------------------------------------
(***************************************************************************)
(* What comments of the source say and the code does not do                *)
(***************************************************************************)

\* watcher.go 436-444 and 459: an entry whose transaction is not found is
\* deleted, and one whose receipt cannot be fetched is tried again with the next
\* block.  The status of the missing receipt is read first.
LookUpSurvivesReorg == ~panicked
=============================================================================
