---------------------------- MODULE AlephiumWatcher ----------------------------
(***************************************************************************)
(* The watcher of the Alephium chain (node/pkg/alephium: watcher.go,       *)
(* validation.go, db.go).  One goroutine polls the chain, keeps the events *)
(* of every block it has read and hands them over when they are confirmed, *)
(* one serves re-observation requests, and one, the validator, publishes   *)
(* messages, checks that transfers come from a contract it knows, and      *)
(* stores these contracts with the height up to which it is done.          *)
(*                                                                         *)
(* An event is a message of the governance contract or the creation of a   *)
(* token bridge or token wrapper contract.  A block is given by its height *)
(* and the fork that mined it.                                             *)
(***************************************************************************)
EXTENDS Integers, Sequences, FiniteSets, FiniteSetsExt, Functions

CONSTANTS
    Messages,           \* messages of the governance contract
    Creations,          \* creations of contracts that send transfers
    Sender,             \* message -> creation of its sender, Nil if no transfer
    ConsistencyLevel,   \* message -> confirmations it asks for
    MinConfirmations,   \* the watcher's lower bound on confirmations
    MaxForkHeight,      \* how far behind the stored height stays, 100
    ChannelSize,        \* capacity of confirmedC, 8
    MaxReorg,           \* the most blocks a fork replaces
    MaxHeight,          \* bound: height of the chain
    MaxForks,           \* bound: number of forks
    MaxRestarts,        \* bound: number of restarts
    Nil                 \* nothing

Events == Messages \cup Creations

Heights == 0 .. MaxHeight

Work == [do : {"fetch", "check", "refetch"}, at : Nat, to : Heights]

Request == [message : Messages, height : Heights, fork : Nat]

ASSUME AlephiumAssumption ==
    /\ Messages \cap Creations = {}
    /\ Sender \in [Messages -> Creations \cup {Nil}]
    /\ ConsistencyLevel \in [Messages -> Nat]
    /\ MinConfirmations \in Nat /\ MaxForkHeight \in Nat
    /\ ChannelSize \in Nat \ {0}
    /\ MaxReorg \in Nat
    /\ MaxHeight \in Nat /\ MaxForks \in Nat /\ MaxRestarts \in Nat
    /\ Nil \notin Creations \cup Nat \cup Work \cup Request

VARIABLES
    chain,      \* the main chain from height 0 on: fork and events of its blocks
    highest,    \* the greatest height the chain ever had
    fork,       \* the fork that mines
    polled,     \* Watcher.currentHeight
    current,    \* currentHeight of getEvents, Nil while the watcher is down
    pendings,   \* pendings of getEvents: the events still to be confirmed
    work,       \* what getEvents is about to do before the next tick
    request,    \* the re-observation request being served
    confirmedC, \* the channel to the validator
    fromHeight, \* the height the validator waits for
    blocks,     \* the heights the validator has marked as finished
    lastHeight, \* database: the height up to which the validator is done
    addresses,  \* database: the creations it knows
    published,  \* history: the messages sent to msgC, with their blocks
    skipped,    \* history: the heights a restart has jumped over
    restarts    \* history: number of restarts

chainVars == <<chain, highest, fork>>
watchVars == <<polled, current, pendings, work>>
validatorVars == <<fromHeight, blocks>>
dbVars    == <<lastHeight, addresses>>
vars == <<chainVars, watchVars, request, confirmedC, validatorVars, dbVars,
          published, skipped, restarts>>

Tip == Len(chain) - 1
At(h) == chain[h + 1]
IsCanonical(h, f) == h <= Tip /\ At(h).fork = f
Mined == UNION { At(h).events : h \in 0 .. Tip }
HeightOf(e) == CHOOSE h \in 0 .. Tip : e \in At(h).events

Init ==
    /\ chain = << [fork |-> 0, events |-> {}] >>
    /\ highest = 0
    /\ fork = 0
    /\ polled = 0
    /\ current = Nil
    /\ pendings = <<>>
    /\ work = Nil
    /\ request = Nil
    /\ confirmedC = <<>>
    /\ fromHeight = 0
    /\ blocks = {}
    /\ lastHeight = Nil
    /\ addresses = {}
    /\ published = {}
    /\ skipped = {}
    /\ restarts = 0

-----------------------------------------------------------------------------
(* The chain. *)

\* What a block may hold on top of mined: one message and one creation, no
\* transfer before its sender exists.
Mineable(mined) ==
    { S \in SUBSET (Events \ mined) :
        /\ Cardinality(S \cap Messages) <= 1
        /\ Cardinality(S \cap Creations) <= 1
        /\ \A m \in S \cap Messages : Sender[m] \in mined \cup S \cup {Nil} }

Mine ==
    /\ Tip < MaxHeight
    /\ \E S \in Mineable(Mined) :
         chain' = Append(chain, [fork |-> fork, events |-> S])
    /\ highest' = IF Tip + 1 > highest THEN Tip + 1 ELSE highest
    /\ UNCHANGED <<fork, watchVars, request, confirmedC, validatorVars, dbVars,
                   published, skipped, restarts>>

\* The blocks from height h on are replaced; the new chain ends at height n, which
\* may be lower, and its block k may hold events that the blocks below h do not.
Reorg(h, k, n) ==
    /\ 0 < h /\ h <= Tip /\ highest - h + 1 <= MaxReorg
    /\ h <= k /\ h - 1 <= n /\ n <= MaxHeight
    /\ fork < MaxForks
    /\ fork' = fork + 1
    /\ LET kept == UNION { At(i).events : i \in 0 .. h - 1 }
       IN  \E S \in Mineable(kept) :
             chain' = [i \in 1 .. n + 1 |->
                         IF i <= h THEN chain[i]
                         ELSE [fork |-> fork', events |-> IF i = k + 1 THEN S ELSE {}]]
    /\ highest' = IF n > highest THEN n ELSE highest
    /\ UNCHANGED <<watchVars, request, confirmedC, validatorVars, dbVars,
                   published, skipped, restarts>>

-----------------------------------------------------------------------------
(* getEvents. *)

Confirmations(e) ==
    IF e \in Creations \/ ConsistencyLevel[e] < MinConfirmations
      THEN MinConfirmations ELSE ConsistencyLevel[e]

\* The ticker: the height is polled.  If it is not above the last one there is
\* nothing to do, otherwise the blocks in between are read and all are checked.
Poll ==
    /\ current # Nil /\ work = Nil
    /\ polled' = Tip
    /\ \/ Tip <= current /\ current' = Tip /\ UNCHANGED work
       \/ Tip > current /\ work' = [do |-> "fetch", at |-> current + 1, to |-> Tip]
                        /\ UNCHANGED current
    /\ UNCHANGED <<chainVars, pendings, request, confirmedC, validatorVars, dbVars,
                   published, skipped, restarts>>

Doing(what) == work # Nil /\ work.do = what

\* getMessagesFromBlock.
PendingAt(h) == [fork |-> At(h).fork, messages |-> At(h).events]

\* The pendings with p at height h.
Put(h, p) == [i \in DOMAIN pendings \cup {h} |-> IF i = h THEN p ELSE pendings[i]]

Fetch ==
    /\ Doing("fetch")
    /\ work.at <= Tip
    /\ pendings' = Put(work.at, PendingAt(work.at))
    /\ \/ work.at < work.to /\ work' = [work EXCEPT !.at = @ + 1] /\ UNCHANGED current
       \/ work.at = work.to /\ work' = [do |-> "check", at |-> 0, to |-> work.to]
                            /\ current' = work.to
    /\ UNCHANGED <<chainVars, polled, request, confirmedC, validatorVars, dbVars,
                   published, skipped, restarts>>

Unchecked == { h \in DOMAIN pendings : h >= work.at }

\* Mutant of Send: the channel takes any number of values.
SendUnbounded(c) == confirmedC' = Append(confirmedC, c)

Send(c) == Len(confirmedC) < ChannelSize /\ confirmedC' = Append(confirmedC, c)

Confirmed(h, p, messages, finished) ==
    [height |-> h, fork |-> p.fork, messages |-> messages,
     finished |-> finished, reObserved |-> FALSE]

CheckNext(h) == work' = [work EXCEPT !.do = "check", !.at = h + 1]

\* A block without events is handed over at once, and stays in pendings.
CheckEmpty(h) ==
    /\ pendings[h].messages = {}
    /\ Send(Confirmed(h, pendings[h], {}, TRUE))
    /\ CheckNext(h)
    /\ UNCHANGED pendings

\* Mutant of IsDeep: the minimum number of confirmations is not waited for.
IsDeepEarly(h, e) == h + Confirmations(e) <= work.to + 1

IsDeep(h, e) == h + Confirmations(e) <= work.to

\* Mutant of HandOver: the events that are not confirmed are not kept.
HandOverAll(h, p) ==
    LET deep == { e \in p.messages : IsDeep(h, e) }
    IN  /\ Send(Confirmed(h, p, deep, deep = p.messages))
        /\ pendings' = Restrict(pendings, DOMAIN pendings \ {h})
        /\ CheckNext(h)

\* The confirmed events of p are handed over, the others kept.
HandOver(h, p) ==
    LET deep == { e \in p.messages : IsDeep(h, e) }
    IN  /\ Send(Confirmed(h, p, deep, deep = p.messages))
        /\ pendings' = IF deep = p.messages
                         THEN Restrict(pendings, DOMAIN pendings \ {h})
                         ELSE Put(h, [p EXCEPT !.messages = @ \ deep])
        /\ CheckNext(h)

CheckShallow(h) ==
    /\ pendings[h].messages # {}
    /\ h + MinConfirmations > work.to
    /\ CheckNext(h)
    /\ UNCHANGED <<pendings, confirmedC>>

\* Mutant of CheckDeep: the block is not looked up in the main chain.
CheckDeepUnverified(h) ==
    /\ pendings[h].messages # {}
    /\ h + MinConfirmations <= work.to
    /\ HandOver(h, pendings[h])

CheckDeep(h) ==
    /\ pendings[h].messages # {}
    /\ h + MinConfirmations <= work.to
    /\ \/ IsCanonical(h, pendings[h].fork) /\ HandOver(h, pendings[h])
       \/ /\ ~IsCanonical(h, pendings[h].fork)
          /\ work' = [work EXCEPT !.do = "refetch", !.at = h]
          /\ UNCHANGED <<pendings, confirmedC>>

\* checkConfirmations, for the next height.
Check ==
    /\ Doing("check")
    /\ Unchecked # {}
    /\ LET h == Min(Unchecked)
       IN  CheckEmpty(h) \/ CheckShallow(h) \/ CheckDeep(h)
    /\ UNCHANGED <<chainVars, polled, current, request, validatorVars, dbVars,
                   published, skipped, restarts>>

\* The height is read again after a fork.
Refetch ==
    /\ Doing("refetch")
    /\ work.at <= Tip
    /\ HandOver(work.at, PendingAt(work.at))
    /\ UNCHANGED <<chainVars, polled, current, request, validatorVars, dbVars,
                   published, skipped, restarts>>

EndCheck ==
    /\ Doing("check")
    /\ Unchecked = {}
    /\ work' = Nil
    /\ UNCHANGED <<chainVars, polled, current, pendings, request, confirmedC,
                   validatorVars, dbVars, published, skipped, restarts>>
-----------------------------------------------------------------------------
(* handleObsvRequest. *)

\* The block of the transaction is looked up, and is in the main chain.
ReobserveLookUp(m) ==
    /\ current # Nil
    /\ request = Nil
    /\ m \in Mined
    /\ request' = [message |-> m, height |-> HeightOf(m), fork |-> At(HeightOf(m)).fork]
    /\ UNCHANGED <<chainVars, watchVars, confirmedC, validatorVars, dbVars,
                   published, skipped, restarts>>

\* Only then the height is loaded; a message that is not deep enough is ignored.
ReobserveConfirm ==
    /\ request # Nil
    /\ \/ /\ request.height + Confirmations(request.message) <= polled
          /\ Send([height |-> request.height, fork |-> request.fork,
                   messages |-> {request.message}, finished |-> TRUE, reObserved |-> TRUE])
       \/ /\ request.height + Confirmations(request.message) > polled
          /\ UNCHANGED confirmedC
    /\ request' = Nil
    /\ UNCHANGED <<chainVars, watchVars, validatorVars, dbVars, published, skipped, restarts>>

-----------------------------------------------------------------------------
(* validator.run. *)

\* validateTransferMessage: a transfer comes from a contract in the database.
IsKnownSender(m) == Sender[m] \in addresses \cup {Nil}

Behind(height) == IF height > MaxForkHeight THEN height - MaxForkHeight ELSE 0

\* The first height from fromHeight to height that is not finished.
Unfinished(done, height) == { h \in fromHeight .. height : h \notin done }

\* Mutant of updateProcessedHeight: unfinished heights are passed over.
updateProcessedHeightUnfinished(height, done) ==
    \/ /\ height < fromHeight
       /\ fromHeight' = height /\ blocks' = done
       /\ UNCHANGED lastHeight
    \/ /\ height >= fromHeight
       /\ blocks' = done \ (fromHeight .. height)
       /\ fromHeight' = height + 1
       /\ lastHeight' = Behind(height)

updateProcessedHeight(height, done) ==
    \/ /\ height < fromHeight
       /\ fromHeight' = height /\ blocks' = done
       /\ UNCHANGED lastHeight
    \/ /\ height >= fromHeight
       /\ Unfinished(done, height) # {}
       /\ blocks' = done \ (fromHeight .. Min(Unfinished(done, height)))
       /\ UNCHANGED <<fromHeight, lastHeight>>
    \/ /\ height >= fromHeight
       /\ Unfinished(done, height) = {}
       /\ blocks' = done \ (fromHeight .. height)
       /\ fromHeight' = height + 1
       /\ lastHeight' = Behind(height)

\* handleGovernanceEvent: the messages of c whose senders are known.
Publications(c) ==
    { [message |-> m, height |-> c.height, fork |-> c.fork, reObserved |-> c.reObserved] :
        m \in { m \in c.messages \cap Messages : IsKnownSender(m) } }

\* The messages of a block are published if their senders are known, and then the
\* contracts it creates are stored, in one batch with the height.
Validate ==
    /\ current # Nil
    /\ confirmedC # <<>>
    /\ LET c == Head(confirmedC)
       IN  /\ confirmedC' = Tail(confirmedC)
           /\ published' = published \cup Publications(c)
           /\ addresses' = addresses \cup (c.messages \cap Creations)
           /\ \/ c.reObserved
                 /\ UNCHANGED <<validatorVars, lastHeight>>
              \/ ~c.reObserved /\ ~c.finished
                 /\ blocks' = blocks \ {c.height}
                 /\ UNCHANGED <<fromHeight, lastHeight>>
              \/ ~c.reObserved /\ c.finished
                 /\ updateProcessedHeight(c.height, blocks \cup {c.height})
    /\ UNCHANGED <<chainVars, watchVars, request, skipped, restarts>>

-----------------------------------------------------------------------------
(* Run. *)

\* An error or a crash ends the three goroutines; the height that was polled
\* outlives an error, the database both.
Down ==
    /\ current # Nil
    /\ current' = Nil
    /\ pendings' = <<>>
    /\ work' = Nil
    /\ request' = Nil
    /\ confirmedC' = <<>>
    /\ fromHeight' = 0
    /\ blocks' = {}
    /\ polled' \in {polled, 0}
    /\ UNCHANGED <<chainVars, dbVars, skipped>>

Stop ==
    /\ restarts < MaxRestarts
    /\ restarts' = restarts + 1
    /\ Down
    /\ UNCHANGED published

\* The validator has published the messages of a block and fails before the batch
\* is written.
StopValidating ==
    /\ restarts < MaxRestarts
    /\ restarts' = restarts + 1
    /\ confirmedC # <<>>
    /\ published' = published \cup Publications(Head(confirmedC))
    /\ Down

\* There is no block of the height to read.
Fail ==
    /\ Doing("fetch") \/ Doing("refetch")
    /\ work.at > Tip
    /\ Down
    /\ UNCHANGED <<published, restarts>>

\* getEvents and the validator start at height h.
StartFrom(h) ==
    /\ current' = h
    /\ pendings' = [i \in {h} |-> PendingAt(h)]
    /\ fromHeight' = h

CreatedBetween(from, to) == UNION { At(h).events \cap Creations : h \in from .. to }

\* Mutant of fetchContractAddresses: the contracts of the heights it jumps over are
\* not fetched.
fetchContractAddressesNone ==
    \/ /\ lastHeight = Nil
       /\ StartFrom(0)
       /\ UNCHANGED <<dbVars, skipped>>
    \/ /\ lastHeight # Nil /\ lastHeight <= Tip
       /\ lastHeight + MaxForkHeight >= Tip
       /\ StartFrom(lastHeight)
       /\ UNCHANGED <<dbVars, skipped>>
    \/ /\ lastHeight # Nil
       /\ lastHeight + MaxForkHeight < Tip
       /\ StartFrom(Tip - MaxForkHeight)
       /\ lastHeight' = Tip - MaxForkHeight - 1
       /\ skipped' = skipped \cup (lastHeight + 1 .. lastHeight')
       /\ UNCHANGED addresses

fetchContractAddresses ==
    \/ /\ lastHeight = Nil
       /\ StartFrom(0)
       /\ UNCHANGED <<dbVars, skipped>>
    \/ /\ lastHeight # Nil /\ lastHeight <= Tip
       /\ lastHeight + MaxForkHeight >= Tip
       /\ StartFrom(lastHeight)
       /\ UNCHANGED <<dbVars, skipped>>
    \/ /\ lastHeight # Nil
       /\ lastHeight + MaxForkHeight < Tip
       /\ StartFrom(Tip - MaxForkHeight)
       /\ lastHeight' = Tip - MaxForkHeight - 1
       /\ skipped' = skipped \cup (lastHeight + 1 .. lastHeight')
       /\ addresses' = addresses \cup CreatedBetween(lastHeight + 1, lastHeight')

Start ==
    /\ current = Nil
    /\ fetchContractAddresses
    /\ UNCHANGED <<chainVars, polled, work, request, confirmedC, blocks, published, restarts>>

-----------------------------------------------------------------------------

Next ==
    \/ Mine
    \/ \E h, k \in 1 .. MaxHeight, n \in Tip - 1 .. Tip + 1 : Reorg(h, k, n)
    \/ Poll \/ Fetch \/ Check \/ Refetch \/ EndCheck
    \/ \E m \in Messages : ReobserveLookUp(m)
    \/ ReobserveConfirm
    \/ Validate
    \/ Stop \/ StopValidating \/ Fail \/ Start

Spec == Init /\ [][Next]_vars

\* The ticker ticks, the goroutines run, the supervisor restarts the watcher, and a
\* goroutine that waits to send on a channel is served in its turn.
Fairness ==
    /\ WF_vars(Poll) /\ WF_vars(Fetch) /\ SF_vars(Check) /\ SF_vars(Refetch)
    /\ WF_vars(EndCheck) /\ WF_vars(Validate) /\ WF_vars(Fail) /\ WF_vars(Start)

FairSpec == Spec /\ Fairness

-----------------------------------------------------------------------------
(* Properties. *)

PendingType ==
    /\ DOMAIN pendings \subseteq Heights
    /\ \A h \in DOMAIN pendings : pendings[h] \in [fork : Nat, messages : SUBSET Events]

ConfirmedType ==
    [height : Heights, fork : Nat, messages : SUBSET Events,
     finished : BOOLEAN, reObserved : BOOLEAN]

\* The types of the watcher's and the validator's state; the watcher works and
\* serves requests only while it runs.
TypeOK ==
    /\ chain \in Seq([fork : Nat, events : SUBSET Events])
    /\ Tip \in Heights /\ highest \in Heights /\ fork \in 0 .. MaxForks
    /\ polled \in Heights
    /\ current \in Heights \cup {Nil}
    /\ PendingType
    /\ work \in Work \cup {Nil}
    /\ request \in Request \cup {Nil}
    /\ confirmedC \in Seq(ConfirmedType) /\ Len(confirmedC) <= ChannelSize
    /\ fromHeight \in Nat /\ blocks \subseteq Heights
    /\ lastHeight \in Heights \cup {Nil} /\ addresses \subseteq Creations
    /\ published \subseteq [message : Messages, height : Heights, fork : Nat, reObserved : BOOLEAN]
    /\ skipped \subseteq Heights /\ restarts \in 0 .. MaxRestarts
    /\ current = Nil => (work = Nil /\ request = Nil /\ confirmedC = <<>>)

\* What the watcher publishes on its own is final: the block it comes from stays in
\* the main chain, if no fork replaces more than MinConfirmations blocks
\* (checkConfirmations looks the block up after it has counted confirmations).
PublishedIsFinal ==
    \A p \in published : ~p.reObserved => IsCanonical(p.height, p.fork)

CreatedEarlier(m) ==
    \/ Sender[m] = Nil
    \/ {m, Sender[m]} \subseteq Mined /\ HeightOf(Sender[m]) < HeightOf(m)

IsSkipped(m) == m \in Mined /\ HeightOf(m) \in skipped

IsPublished(m) == \E p \in published : p.message = m

\* On a chain without forks the validator counts a height as done, in memory or in
\* the database, only when every message of it has been published, except those a
\* restart has jumped over and transfers in the block that creates their sender.
DoneIsPublished ==
    fork = 0 =>
      \A m \in Messages \cap Mined :
        /\ HeightOf(m) \notin skipped
        /\ CreatedEarlier(m)
        /\ HeightOf(m) < fromHeight \/ (lastHeight # Nil /\ HeightOf(m) <= lastHeight)
        => IsPublished(m)

\* On a chain without forks every contract created at or below the stored height is
\* in the database, over restarts that jump over blocks too.
ContractsAreKnown ==
    (fork = 0 /\ lastHeight # Nil) =>
      \A c \in Creations \cap Mined : HeightOf(c) <= lastHeight => c \in addresses

IsDeepIn(m) == m \in Mined /\ HeightOf(m) + Confirmations(m) <= Tip

\* On a chain without forks every message with its confirmations is published at
\* last, over restarts, unless a restart jumps over it or its sender is in the
\* same block.
EveryMessagePublished ==
    \A m \in Messages :
      IsDeepIn(m) /\ CreatedEarlier(m) ~>
        IsPublished(m) \/ IsSkipped(m) \/ fork > 0

-----------------------------------------------------------------------------
(* What a comment of the source says and the code does not do. *)

\* watcher.go:395 "forked, we need to re-request events for the height": a message
\* that is in the main chain after a fork, with its confirmations, is published.
ForkedIsPublished ==
    \A m \in Messages :
      IsDeepIn(m) /\ CreatedEarlier(m) ~>
        IsPublished(m) \/ IsSkipped(m)
=============================================================================
