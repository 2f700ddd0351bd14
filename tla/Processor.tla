------------------------------ MODULE Processor ------------------------------
(***************************************************************************)
(* The processor of one guardian node (node/pkg/processor): the goroutine  *)
(* that signs the messages the chain watchers observed, aggregates the     *)
(* signatures of the other guardians, and stores and broadcasts a VAA once *)
(* a quorum of the guardian set has signed it.                             *)
(*                                                                         *)
(* Each case of the select loop in Processor.Run is one action.  The other *)
(* guardians, the watchers, the operator's admin socket and the guardian   *)
(* set contract on Ethereum are the environment.                           *)
(*                                                                         *)
(* A message is identified by its digest: vaaSignatures is keyed by it and *)
(* the digest covers neither the guardian set index nor the signatures     *)
(* (vaa.VAA.SigningMsg).  IdOf[d] is the (chain, emitter, sequence) triple *)
(* that keys the database; a source chain that reorganises can produce two *)
(* digests with one such id.                                               *)
(***************************************************************************)
EXTENDS Integers, Sequences, FiniteSets, Quorums

CONSTANTS
    Guardians,          \* the guardian keys
    Self,               \* this node's own key
    GuardianSets,       \* guardian set index -> sequence of keys
    Digests,            \* the messages
    VaaIDs,             \* (emitter chain, emitter address, sequence) triples
    IdOf,               \* digest -> VaaID
    Timestamp,          \* digest -> time of the block that holds the message
    GovernanceDigests,  \* the messages of the governance emitter
    SettlementTime,     \* 30 s, in ticks of the clock
    UnsubmittedTime,    \* 5 min
    SubmittedTime,      \* 1 h, the largest of the three
    OwnRetryLimit,      \* retries of a message we observed (14400)
    NilRetryLimit,      \* retries of a message we did not observe (10)
    DBMayFail,          \* whether BadgerDB may return an error
    GossipedVAAs,       \* the signed VAAs peers may send, of any content
    MaxLoopback,        \* bound: own observations queued per message
    Nil                 \* Go's nil

SetIndices == DOMAIN GuardianSets

Keys(i) == { GuardianSets[i][k] : k \in DOMAIN GuardianSets[i] }

\* One entry of the aggregation map.  ourVAA holds the guardian set index of
\* the VAA this node built, the only field of it the digest does not fix;
\* ourMsg is set and read together with it.
VaaState ==
    [ age        : 0 .. SubmittedTime,
      ourVAA     : SetIndices \cup {Nil},
      gs         : SetIndices \cup {Nil},
      signatures : SUBSET Guardians,
      submitted  : BOOLEAN,
      settled    : BOOLEAN,
      retryCount : Nat ]

\* A signed VAA.  sigs is the list of its signatures as it was unmarshalled, in
\* the order sent and with every repetition: the position each one claims in
\* the guardian set, and the key that made it.
SignedVAA ==
    [ digest   : Digests,
      gsIndex  : SetIndices,
      sigs     : Seq((Nat \ {0}) \X Guardians) ]

ASSUME ConstantsAssumption ==
    /\ Self \in Guardians
    /\ SetIndices \subseteq Nat
    /\ \A i \in SetIndices : GuardianSets[i] \in Seq(Guardians)
    /\ IdOf \in [Digests -> VaaIDs]
    /\ Timestamp \in [Digests -> Nat]
    /\ GovernanceDigests \subseteq Digests
    /\ DBMayFail \in BOOLEAN
    /\ OwnRetryLimit \in Nat
    /\ NilRetryLimit \in Nat
    /\ MaxLoopback \in Nat

\* A VAA of the governance emitter shares no id with a message of a chain.
ASSUME GovernanceAssumption ==
    \A d \in GovernanceDigests, e \in Digests \ GovernanceDigests : IdOf[d] # IdOf[e]

\* p2p forwards whatever VAA a peer sends.  Nothing is assumed of it: not the
\* index it names, nor the order, number or truth of its signatures.
ASSUME GossipAssumption == GossipedVAAs \subseteq SignedVAA

ASSUME TimeAssumption ==
    /\ SettlementTime \in Nat
    /\ UnsubmittedTime \in Nat
    /\ SubmittedTime \in Nat
    /\ SettlementTime < UnsubmittedTime
    /\ UnsubmittedTime < SubmittedTime

ASSUME NilAssumption ==
    /\ Nil \notin SetIndices
    /\ Nil \notin VaaState
    /\ Nil \notin SignedVAA

VARIABLES
    gs,             \* Processor.gs: the current guardian set, or nil
    vaaSignatures,  \* Processor.state: one vaaState per message, or nil
    db,             \* the signed VAAs in BadgerDB, by id
    obsvC,          \* own observations under way on obsvC, per message
    sent,           \* the gossip messages handed to sendC
    ethSet,         \* the guardian set index on Ethereum
    held            \* history: the guardian sets this node ever used

vars == <<gs, vaaSignatures, db, obsvC, sent, ethSet, held>>

GossipMessage ==
    [type : {"observation"}, digest : Digests] \cup [type : {"signedVAA"}, vaa : SignedVAA]

Observation(d) == [type |-> "observation", digest |-> d]
VAAMessage(v)  == [type |-> "signedVAA", vaa |-> v]

Init ==
    /\ gs = Nil
    /\ vaaSignatures = [d \in Digests |-> Nil]
    /\ db = [id \in VaaIDs |-> Nil]
    /\ obsvC = [d \in Digests |-> 0]
    /\ sent = {}
    /\ ethSet \in SetIndices
    /\ held = {}

\* Whether a call into the database succeeds.
DBResults == IF DBMayFail THEN BOOLEAN ELSE {TRUE}

Has(d) == vaaSignatures[d] # Nil

NewVaaState ==
    [ age |-> 0, ourVAA |-> Nil, gs |-> Nil, signatures |-> {},
      submitted |-> FALSE, settled |-> FALSE, retryCount |-> 0 ]

StateOf(d) == IF Has(d) THEN vaaSignatures[d] ELSE NewVaaState

-----------------------------------------------------------------------------
(***************************************************************************)
(* Signing                                                                 *)
(***************************************************************************)

\* The guardian set contract moves to a later set.
EthereumUpgrade ==
    /\ ethSet' \in { i \in SetIndices : i > ethSet }
    /\ UNCHANGED <<gs, vaaSignatures, db, obsvC, sent, held>>

\* The Ethereum watcher reports the current set on setC.
SetGuardianSet ==
    /\ gs' = ethSet
    /\ held' = held \cup {ethSet}
    /\ UNCHANGED <<vaaSignatures, db, obsvC, sent, ethSet>>

\* Mutant of BroadcastSignature: the observation is not sent to ourselves.
BroadcastWithoutLoopback(d, index) ==
    /\ obsvC[d] < MaxLoopback
    /\ sent' = sent \cup {Observation(d)}
    /\ vaaSignatures' =
         [vaaSignatures EXCEPT ![d] = [StateOf(d) EXCEPT !.ourVAA = index, !.gs = gs]]
    /\ UNCHANGED obsvC

\* broadcastSignature: gossip our observation, remember the VAA and the
\* current guardian set, and queue the observation to ourselves.
BroadcastSignature(d, index) ==
    /\ obsvC[d] < MaxLoopback
    /\ sent' = sent \cup {Observation(d)}
    /\ vaaSignatures' =
         [vaaSignatures EXCEPT ![d] = [StateOf(d) EXCEPT !.ourVAA = index, !.gs = gs]]
    /\ obsvC' = [obsvC EXCEPT ![d] = @ + 1]

\* The stored VAA handleMessage compares with, at the id of d.
AlreadyStored(d) ==
    /\ db[IdOf[d]] # Nil
    /\ Timestamp[d] - Timestamp[db[IdOf[d]].digest] > SettlementTime

\* A watcher reports message d on lockC.
HandleMessage(d) ==
    /\ gs # Nil
    /\ d \notin GovernanceDigests
    /\ \E ok \in DBResults : ~(ok /\ AlreadyStored(d))
    /\ BroadcastSignature(d, gs)
    /\ UNCHANGED <<gs, db, ethSet, held>>

\* The operator injects governance message d; the VAA carries the guardian set
\* index the operator wrote in the request.
HandleInjection(d, index) ==
    /\ d \in GovernanceDigests
    /\ BroadcastSignature(d, index)
    /\ UNCHANGED <<gs, db, ethSet, held>>

-----------------------------------------------------------------------------
(***************************************************************************)
(* Aggregating                                                             *)
(***************************************************************************)

\* Mutant of ApplicableSet: always the current set.
CurrentSet(d) == gs

\* The set an observation of d is checked against: that of our own
\* observation when there is one, the current one otherwise.
ApplicableSet(d) ==
    IF Has(d) /\ vaaSignatures[d].gs # Nil THEN vaaSignatures[d].gs ELSE gs

\* The list handleObservation aggregates, walking the keys of set i: the
\* signatures of the members that signed, in the order of the set.
SigsOf(i, signers) ==
    LET keys == GuardianSets[i]
        sigs[n \in 0 .. Len(keys)] ==
          IF n = 0 THEN <<>>
          ELSE IF keys[n] \in signers THEN Append(sigs[n - 1], <<n, keys[n]>>)
          ELSE sigs[n - 1]
    IN  sigs[Len(keys)]

\* Enough signatures for set i.  Both callers compare the length of the list.
HasQuorum(i, sigs) == Len(sigs) >= CalculateQuorum(Len(GuardianSets[i]))

Accepts(g, d) ==
    /\ ApplicableSet(d) # Nil
    /\ g \in Keys(ApplicableSet(d))

WithSignature(g, d) == [StateOf(d) EXCEPT !.signatures = @ \cup {g}]

\* Mutant of Completes: submitted is not looked at.
CompletesAgain(g, d) ==
    LET e == WithSignature(g, d)
    IN  /\ e.ourVAA # Nil
        /\ HasQuorum(ApplicableSet(d), SigsOf(ApplicableSet(d), e.signatures))

\* Whether g's signature on d makes handleObservation submit the VAA.
Completes(g, d) ==
    LET e == WithSignature(g, d)
    IN  /\ e.ourVAA # Nil
        /\ HasQuorum(ApplicableSet(d), SigsOf(ApplicableSet(d), e.signatures))
        /\ ~e.submitted

SignedBy(g, d) ==
    LET e == WithSignature(g, d)
    IN  [ digest |-> d, gsIndex |-> e.ourVAA,
          sigs |-> SigsOf(ApplicableSet(d), e.signatures) ]

\* db.StoreSignedVAA, which overwrites.
StoreSignedVAA(v, ok) ==
    db' = IF ok THEN [db EXCEPT ![IdOf[v.digest]] = v] ELSE db

RecordSignature(g, d) ==
    /\ ~Completes(g, d)
    /\ vaaSignatures' = [vaaSignatures EXCEPT ![d] = WithSignature(g, d)]
    /\ UNCHANGED <<db, sent>>

\* The store error is logged and otherwise ignored.
SubmitVAA(g, d) ==
    /\ Completes(g, d)
    /\ \E ok \in DBResults : StoreSignedVAA(SignedBy(g, d), ok)
    /\ sent' = sent \cup {VAAMessage(SignedBy(g, d))}
    /\ vaaSignatures' =
         [vaaSignatures EXCEPT ![d] = [WithSignature(g, d) EXCEPT !.submitted = TRUE]]

\* handleObservation, for an observation whose signature verified.
HandleObservation(g, d) ==
    /\ Accepts(g, d)
    /\ RecordSignature(g, d) \/ SubmitVAA(g, d)

\* An observation of another guardian arrives from gossip.
HandleRemoteObservation(g, d) ==
    /\ g # Self
    /\ HandleObservation(g, d)
    /\ UNCHANGED <<gs, obsvC, ethSet, held>>

\* Mutant of HandleOwnObservation: an observation nobody queued.
HandleOwnObservationTwice(d) ==
    /\ obsvC' = [obsvC EXCEPT ![d] = @ - 1]
    /\ \/ HandleObservation(Self, d)
       \/ ~Accepts(Self, d) /\ UNCHANGED <<vaaSignatures, db, sent>>
    /\ UNCHANGED <<gs, ethSet, held>>

\* Our own observation arrives from the goroutine broadcastSignature started;
\* it is dropped when this node is not in the set.
HandleOwnObservation(d) ==
    /\ obsvC[d] > 0
    /\ obsvC' = [obsvC EXCEPT ![d] = @ - 1]
    /\ \/ HandleObservation(Self, d)
       \/ ~Accepts(Self, d) /\ UNCHANGED <<vaaSignatures, db, sent>>
    /\ UNCHANGED <<gs, ethSet, held>>

\* VAA.VerifySignatures against the keys of set i: no more signatures than
\* keys, and each one made by the key at the position it claims.  Neither their
\* order nor the index the VAA names is looked at.
VerifySignatures(v, i) ==
    /\ Len(v.sigs) <= Len(GuardianSets[i])
    /\ \A k \in DOMAIN v.sigs :
         /\ v.sigs[k][1] <= Len(GuardianSets[i])
         /\ GuardianSets[i][v.sigs[k][1]] = v.sigs[k][2]

\* Mutant of HandleInboundSignedVAAWithQuorum: signatures are not verified.
HandleInboundUnverified(v) ==
    /\ gs # Nil
    /\ HasQuorum(gs, v.sigs)
    /\ db[IdOf[v.digest]] = Nil
    /\ StoreSignedVAA(v, TRUE)
    /\ UNCHANGED <<gs, vaaSignatures, obsvC, sent, ethSet, held>>

\* Mutant of HandleInboundSignedVAAWithQuorum: a stored VAA is replaced.
HandleInboundReplacing(v) ==
    /\ gs # Nil
    /\ VerifySignatures(v, gs)
    /\ HasQuorum(gs, v.sigs)
    /\ StoreSignedVAA(v, TRUE)
    /\ UNCHANGED <<gs, vaaSignatures, obsvC, sent, ethSet, held>>

\* handleInboundSignedVAAWithQuorum: verified against the current set whatever
\* set v names, and stored unless the database has a VAA with this id.
HandleInboundSignedVAAWithQuorum(v) ==
    /\ gs # Nil
    /\ VerifySignatures(v, gs)
    /\ HasQuorum(gs, v.sigs)
    /\ db[IdOf[v.digest]] = Nil
    /\ StoreSignedVAA(v, TRUE)
    /\ UNCHANGED <<gs, vaaSignatures, obsvC, sent, ethSet, held>>

-----------------------------------------------------------------------------
(***************************************************************************)
(* Cleanup, time and crashes                                               *)
(***************************************************************************)

\* The switch of handleCleanup, case by case, for entry e of message d; found
\* says whether the database lookup of the first case returned a VAA.  The
\* first case falls through into the body of the second when it found none.
IsPending(e) == ~e.submitted /\ e.ourVAA # Nil /\ e.age > SettlementTime

\* Mutant of IsLate: expired without looking into the database.
IsLateUnchecked(e, found) == IsPending(e)
IsLate(e, found) == IsPending(e) /\ found
Settles(e, found) ==
    \/ IsPending(e) /\ ~found
    \/ ~IsPending(e) /\ ~e.settled /\ e.age > SettlementTime
IsRest(e) == ~IsPending(e) /\ ~(~e.settled /\ e.age > SettlementTime)
IsDone(e) == IsRest(e) /\ e.submitted /\ e.age >= SubmittedTime
IsExhausted(e) ==
    /\ IsRest(e)
    /\ ~e.submitted
    /\ \/ e.ourVAA # Nil /\ e.retryCount >= OwnRetryLimit
       \/ e.ourVAA = Nil /\ e.retryCount >= NilRetryLimit

\* Mutant of IsOverdue: entries we have no observation for are skipped.
IsOverdueOwn(e) ==
    /\ IsRest(e) /\ ~e.submitted /\ ~IsExhausted(e) /\ e.age >= UnsubmittedTime
    /\ e.ourVAA # Nil
IsOverdue(e) ==
    IsRest(e) /\ ~e.submitted /\ ~IsExhausted(e) /\ e.age >= UnsubmittedTime
Resubmits(e) == IsOverdue(e) /\ e.ourVAA # Nil
IsUnobserved(e) == IsOverdue(e) /\ e.ourVAA = Nil

\* Mutant of Cleaned: settled is never set.
CleanedUnsettled(e, found) ==
    IF IsLate(e, found) \/ IsDone(e) \/ IsExhausted(e) \/ IsUnobserved(e)
      THEN Nil
      ELSE [e EXCEPT !.retryCount = IF Resubmits(e) THEN e.retryCount + 1
                                                    ELSE e.retryCount]

\* What a cleanup pass leaves of an entry.
Cleaned(e, found) ==
    IF IsLate(e, found) \/ IsDone(e) \/ IsExhausted(e) \/ IsUnobserved(e)
      THEN Nil
      ELSE [e EXCEPT !.settled = e.settled \/ Settles(e, found),
                     !.retryCount = IF Resubmits(e) THEN e.retryCount + 1
                                                    ELSE e.retryCount]

Entries == { d \in Digests : Has(d) }

\* The messages whose VAA the lookups of one cleanup pass return.
Lookups ==
    IF DBMayFail THEN SUBSET { d \in Entries : db[IdOf[d]] # Nil }
                 ELSE { { d \in Entries : db[IdOf[d]] # Nil } }

\* Counting the misses, or logging an unobserved message, reads the keys of a
\* guardian set; there may be none yet.
CleanupPanics(found) ==
    /\ gs = Nil
    /\ \E d \in Entries :
         \/ Settles(vaaSignatures[d], d \in found) /\ vaaSignatures[d].gs = Nil
         \/ IsUnobserved(vaaSignatures[d])

HandleCleanup ==
    \E found \in Lookups :
        /\ ~CleanupPanics(found)
        /\ vaaSignatures' =
             [d \in Digests |-> IF Has(d) THEN Cleaned(vaaSignatures[d], d \in found)
                                          ELSE Nil]
        /\ sent' = sent \cup { Observation(d) : d \in { x \in Entries : Resubmits(vaaSignatures[x]) } }
        /\ UNCHANGED <<gs, db, obsvC, ethSet, held>>

\* Time passes; no comparison distinguishes ages above SubmittedTime.
Older(e) == [e EXCEPT !.age = IF @ < SubmittedTime THEN @ + 1 ELSE @]

Tick ==
    /\ \E d \in Entries : vaaSignatures[d].age < SubmittedTime
    /\ vaaSignatures' =
         [d \in Digests |-> IF Has(d) THEN Older(vaaSignatures[d]) ELSE Nil]
    /\ UNCHANGED <<gs, db, obsvC, sent, ethSet, held>>

\* What a process that stops and starts again has forgotten.
LoseMemory ==
    /\ gs' = Nil
    /\ vaaSignatures' = [d \in Digests |-> Nil]
    /\ obsvC' = [d \in Digests |-> 0]
    /\ UNCHANGED <<ethSet, held>>

Crash ==
    /\ gs # Nil \/ Entries # {}
    /\ LoseMemory
    /\ UNCHANGED <<db, sent>>

\* A panic of the processor takes the process down (WithPropagatePanic).
CleanupPanic ==
    /\ \E found \in Lookups : CleanupPanics(found)
    /\ LoseMemory
    /\ UNCHANGED <<db, sent>>

\* Mutant of CrashAfterStore: the VAA is broadcast first and stored second.
CrashAfterBroadcast(g, d) ==
    /\ g = Self => obsvC[d] > 0
    /\ Accepts(g, d)
    /\ Completes(g, d)
    /\ sent' = sent \cup {VAAMessage(SignedBy(g, d))}
    /\ LoseMemory
    /\ UNCHANGED db

\* A crash after the quorum VAA was stored and before it was broadcast.
CrashAfterStore(g, d) ==
    /\ g = Self => obsvC[d] > 0
    /\ Accepts(g, d)
    /\ Completes(g, d)
    /\ StoreSignedVAA(SignedBy(g, d), TRUE)
    /\ LoseMemory
    /\ UNCHANGED sent

Next ==
    \/ EthereumUpgrade
    \/ SetGuardianSet
    \/ \E d \in Digests : HandleMessage(d)
    \/ \E d \in Digests, index \in SetIndices : HandleInjection(d, index)
    \/ \E g \in Guardians, d \in Digests : HandleRemoteObservation(g, d)
    \/ \E d \in Digests : HandleOwnObservation(d)
    \/ \E v \in GossipedVAAs : HandleInboundSignedVAAWithQuorum(v)
    \/ HandleCleanup
    \/ Tick
    \/ Crash
    \/ CleanupPanic
    \/ \E g \in Guardians, d \in Digests : CrashAfterStore(g, d)

Spec == Init /\ [][Next]_vars

\* Run takes the ready cases of its select in a random order, so a case that
\* stays ready is taken; the ticker and the clock never stop, and the watcher
\* polls the guardian set.  No message, crash or upgrade is promised.
FairSpec ==
    /\ Spec
    /\ WF_vars(SetGuardianSet)
    /\ WF_vars(Tick)
    /\ WF_vars(HandleCleanup)
    /\ \A d \in Digests : WF_vars(HandleOwnObservation(d))

-----------------------------------------------------------------------------
(***************************************************************************)
(* Properties                                                              *)
(***************************************************************************)

\* The fields of Processor, the rows of the database and the gossip messages
\* have the types the Go declarations give them.
TypeOK ==
    /\ gs \in SetIndices \cup {Nil}
    /\ vaaSignatures \in [Digests -> VaaState \cup {Nil}]
    /\ db \in [VaaIDs -> SignedVAA \cup {Nil}]
    /\ obsvC \in [Digests -> Nat]
    /\ sent \subseteq GossipMessage
    /\ ethSet \in SetIndices
    /\ held \subseteq SetIndices

\* What both paths of observation.go establish of v against guardian set i.
Checked(v, i) == VerifySignatures(v, i) /\ HasQuorum(i, v.sigs)

\* Each signature comes from a later position than the one before, as the
\* contracts demand (Messages.sol verifySignatures, governance.ral), so that no
\* guardian is counted twice.
InOrder(v) ==
    \A k, l \in DOMAIN v.sigs : k < l => v.sigs[k][1] < v.sigs[l][1]

\* The contracts take v as signed by a quorum of guardian set i.
ValidFor(v, i) == Checked(v, i) /\ InOrder(v)

StoredVAAs == { db[id] : id \in { x \in VaaIDs : db[x] # Nil } }

BroadcastVAAs == { m.vaa : m \in { x \in sent : x.type = "signedVAA" } }

\* The VAAs this node put together itself, by handleObservation.
AssembledVAAs == BroadcastVAAs \cup (StoredVAAs \ GossipedVAAs)

\* Whatever the order of guardian set updates, re-observations and gossip, a
\* VAA of a chain message that this node assembled is signed by a quorum of the
\* very set whose index it carries, in the order the contracts demand
\* (handleObservation reads ourVAA and gs of the entry separately).  Of a VAA
\* stored from gossip this is not claimed: the inbound path compares neither
\* the index nor the order.
QuorumOfNamedSet ==
    \A v \in AssembledVAAs : v.digest \notin GovernanceDigests => ValidFor(v, v.gsIndex)

\* Every VAA in the database, injected ones included, was checked against a
\* guardian set this node itself had read from Ethereum: neither the
\* aggregation nor the inbound path of observation.go stores on anybody else's
\* word.  The check is on the number of signatures; that they are of different
\* guardians is claimed only of VAAs assembled here.
VerifiedHere ==
    \A v \in StoredVAAs : \E i \in held :
        Checked(v, i) /\ (v \in GossipedVAAs \/ InOrder(v))

\* The own entry of d has a quorum of its set's signatures and is unsubmitted.
QuorumPending(d) ==
    LET e == vaaSignatures[d]
    IN  /\ Has(d)
        /\ e.ourVAA # Nil
        /\ e.gs # Nil
        /\ Self \in Keys(e.gs)
        /\ ~e.submitted
        /\ HasQuorum(e.gs, SigsOf(e.gs, e.signatures))

\* No quorum is overlooked: handleObservation is the only place that counts
\* signatures, so when our own observation comes after a quorum of remote ones,
\* or moves the entry to another guardian set, our observation must still be on
\* its way through obsvC to trigger the count.
QuorumNotMissed == \A d \in Digests : QuorumPending(d) => obsvC[d] > 0

\* With a database that does not fail, an entry is marked submitted and a VAA is
\* broadcast only after a VAA with its id was stored, even if the process dies
\* between the steps of handleObservation.
StoredBeforeBroadcast ==
    ~DBMayFail =>
        /\ \A v \in BroadcastVAAs : db[IdOf[v.digest]] # Nil
        /\ \A d \in Digests : Has(d) /\ vaaSignatures[d].submitted => db[IdOf[d]] # Nil

\* The database never loses a VAA, and a row once written changes only into a
\* VAA this node assembled itself: a VAA from gossip never replaces one.
StoredVAAStays ==
    [][\A id \in VaaIDs :
         db[id] # Nil =>
            \/ db'[id] = db[id]
            \/ /\ db'[id] # Nil
               /\ Has(db'[id].digest)
               /\ vaaSignatures[db'[id].digest].ourVAA # Nil]_vars

\* While an entry lives, its VAA is submitted at most once, late signatures,
\* re-observations and guardian set changes notwithstanding.
SubmittedOnce ==
    [][\A m \in sent' \ sent :
         m.type = "signedVAA" =>
            ~(Has(m.vaa.digest) /\ vaaSignatures[m.vaa.digest].submitted)]_vars

\* A running node gives up a message it observed only once the database holds a
\* VAA with its id, or after the retry limit.
ObservationNotForgotten ==
    [][\A d \in Digests :
         Has(d) /\ vaaSignatures[d].ourVAA # Nil /\ vaaSignatures'[d] = Nil =>
            \/ gs' = Nil
            \/ vaaSignatures[d].submitted
            \/ db[IdOf[d]] # Nil
            \/ vaaSignatures[d].retryCount >= OwnRetryLimit]_vars

\* A quorum of signatures on a message we observed is acted on: the VAA is
\* submitted, or the entry is gone or has moved to another guardian set.
QuorumActedOn == \A d \in Digests : QuorumPending(d) ~> ~QuorumPending(d)

\* The entry of a submitted VAA expires.
SubmittedExpires ==
    \A d \in Digests : Has(d) /\ vaaSignatures[d].submitted ~> ~Has(d)

\* An entry raised by other guardians' signatures on a message we never observe
\* expires, unless we observe the message after all.
UnobservedExpires ==
    \A d \in Digests :
        Has(d) /\ vaaSignatures[d].ourVAA = Nil
            ~> ~Has(d) \/ vaaSignatures[d].ourVAA # Nil

-----------------------------------------------------------------------------
(***************************************************************************)
(* What a comment of the source says and the code does not do              *)
(***************************************************************************)

\* cleanup.go 175-177: an unsubmitted VAA is helped "over the finish line by
\* rebroadcasting our sig".  The first case of the switch catches every
\* unsubmitted observation of ours and falls through into the second, so the
\* case that retransmits is never reached.
UnsubmittedIsRetransmitted ==
    \A d \in Digests :
        Has(d) /\ vaaSignatures[d].ourVAA # Nil
            ~> \/ ~Has(d)
               \/ vaaSignatures[d].submitted
               \/ vaaSignatures[d].retryCount > 0
=============================================================================
