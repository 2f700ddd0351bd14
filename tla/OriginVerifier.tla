---------------------------- MODULE OriginVerifier ----------------------------
(***************************************************************************)
(* The token origin verifier of the web interface (bridge_ui/src:          *)
(* components/TokenOriginVerifier with the hooks useOriginalAsset and      *)
(* useFetchForeignAsset).  The first hook looks the token's origin up, the *)
(* second what the token becomes on another chain.  Neither cancels a call *)
(* whose question was replaced: a late answer is recognised, if at all, by *)
(* the arguments that it says it is for.                                   *)
(***************************************************************************)
EXTENDS Naturals, FiniteSets

CONSTANTS
    Chains,             \* the chains the page offers
    Kind,               \* chain -> "evm" or another kind
    DefaultPrimary,     \* the chain a fresh page selects: Solana
    DefaultSecondary,   \* and its other chain: Terra
    Assets,             \* the addresses that are typed into the form
    OriginOf,           \* chain, address -> the original token, or Nil
    MaxChanges,         \* bound: number of the user's choices
    Nil                 \* undefined

VARIABLES
    primary,        \* the token that was entered
    secondary,      \* the other chain
    origin,         \* useOriginalAsset
    foreign,        \* useFetchForeignAsset
    network,        \* the chain the EVM wallet is connected to
    changes         \* history: number of choices the user has made

verifierVars == <<primary, secondary, origin, foreign, network, changes>>

Questions == [chain : Chains, asset : Assets \cup {Nil}]

Tokens == [chain : Chains, asset : Assets]

ForeignQuestions == [token : Tokens \cup {Nil}, chain : Chains]

isReady(c, net) == Kind[c] = "evm" => net = c

CanAskOrigin(q, net) == q.asset # Nil /\ isReady(q.chain, net)

CanAskForeign(q, net) ==
    q.token # Nil /\ q.chain # q.token.chain /\ isReady(q.chain, net)

-----------------------------------------------------------------------------
(* What both hooks do.  data is the question whose answer is kept, prev    *)
(* the arguments it is said to be for.                                     *)

Unasked == [prev |-> Nil, data |-> Nil, error |-> FALSE, isLoading |-> FALSE,
            on |-> Nil, calls |-> {}]

\* The effect, when the hook is rendered with question q.
Ask(h, q, canAsk, now) ==
    LET argsEqual == h.prev = q
        asks == canAsk /\ ~argsEqual
        on == <<q, ~asks, argsEqual>>
    IN  IF on = h.on THEN h
        ELSE [prev |-> IF argsEqual THEN q ELSE Nil,
              data |-> IF argsEqual THEN h.data ELSE Nil,
              error |-> h.error /\ argsEqual,
              isLoading |-> h.isLoading \/ asks,
              on |-> on,
              calls |-> h.calls \cup {c \in {[question |-> q, at |-> now]} : asks}]

\* The answer to c, while q is asked: it is kept whatever it is for, and the
\* effect runs before it is, if it is said to be for another question.
\* Mutant of Answered: it is said to be for the question that is now asked.
AnsweredNow(h, c, q, canAsk, now) ==
    [Ask([h EXCEPT !.prev = q, !.isLoading = FALSE, !.calls = @ \ {c}],
         q, canAsk, now) EXCEPT !.data = c.question]

Answered(h, c, q, canAsk, now) ==
    [Ask([h EXCEPT !.prev = c.question, !.isLoading = FALSE, !.calls = @ \ {c}],
         q, canAsk, now) EXCEPT !.data = c.question]

Failed(h, c) == [h EXCEPT !.error = TRUE, !.isLoading = FALSE, !.calls = @ \ {c}]

-----------------------------------------------------------------------------
(* The page. *)

\* What is looked up on the other chain: the token whose origin is shown.
ForeignQuestion(o, c) ==
    [token |-> IF o.data = Nil THEN Nil ELSE OriginOf[o.data], chain |-> c]

\* The page is rendered with the arguments given.
Renders(q, o, f, c, net, now) ==
    /\ primary' = q /\ secondary' = c /\ network' = net
    /\ \E asked \in {Ask(o, q, CanAskOrigin(q, net), now)} :
         LET fq == ForeignQuestion(asked, c)
         IN  /\ origin' = asked
             /\ foreign' = Ask(f, fq, CanAskForeign(fq, net), now)

Change == changes < MaxChanges /\ changes' = changes + 1

ChoosePrimaryChain(c) ==
    /\ Change
    /\ c # primary.chain
    /\ Renders([chain |-> c, asset |-> Nil], origin, foreign,
               IF secondary # c THEN secondary
               ELSE IF c = DefaultPrimary THEN DefaultSecondary ELSE DefaultPrimary,
               network, changes + 1)

TypePrimaryAsset(asset) ==
    /\ Change
    /\ asset # primary.asset
    /\ Renders([primary EXCEPT !.asset = asset], origin, foreign, secondary,
               network, changes + 1)

ChooseSecondaryChain(c) ==
    /\ Change
    /\ origin.data # Nil
    /\ c \notin {primary.chain, secondary}
    /\ Renders(primary, origin, foreign, c, network, changes + 1)

SwitchNetwork(c) ==
    /\ Change
    /\ c # network
    /\ Renders(primary, origin, foreign, secondary, c, changes + 1)

\* A token that does not exist is an error.
OriginAnswer(c) ==
    /\ OriginOf[c.question] # Nil
    /\ Renders(primary,
               Answered(origin, c, primary, CanAskOrigin(primary, network), changes),
               foreign, secondary, network, changes)
    /\ UNCHANGED changes

OriginFails(c) ==
    /\ Renders(primary, Failed(origin, c), foreign, secondary, network, changes)
    /\ UNCHANGED changes

ForeignAnswer(c) ==
    /\ LET q == ForeignQuestion(origin, secondary)
       IN  Renders(primary, origin,
               [Answered(foreign, c, q, CanAskForeign(q, network), changes)
                    EXCEPT !.isLoading = FALSE], secondary, network, changes)
    /\ UNCHANGED changes

ForeignFails(c) ==
    /\ Renders(primary, origin, Failed(foreign, c), secondary, network, changes)
    /\ UNCHANGED changes

Init ==
    /\ primary = [chain |-> DefaultPrimary, asset |-> Nil]
    /\ secondary = DefaultSecondary
    /\ network \in {c \in Chains : Kind[c] = "evm"}
    /\ origin = Ask(Unasked, primary, FALSE, 0)
    /\ foreign = Ask(Unasked, ForeignQuestion(origin, secondary), FALSE, 0)
    /\ changes = 0

OriginEnds == \E c \in origin.calls : OriginAnswer(c) \/ OriginFails(c)
ForeignEnds == \E c \in foreign.calls : ForeignAnswer(c) \/ ForeignFails(c)

Next ==
    \/ \E c \in Chains : ChoosePrimaryChain(c) \/ ChooseSecondaryChain(c)
    \/ \E asset \in Assets \cup {Nil} : TypePrimaryAsset(asset)
    \/ \E c \in {c \in Chains : Kind[c] = "evm"} : SwitchNetwork(c)
    \/ OriginEnds \/ ForeignEnds

Spec == Init /\ [][Next]_verifierVars

\* Each call is answered or fails; there are finitely many.
Fairness == WF_verifierVars(OriginEnds) /\ WF_verifierVars(ForeignEnds)

-----------------------------------------------------------------------------
(* What the page promises. *)

\* What the theorems of WebAppProofs take for granted of the constants.
ConstantsOK ==
    /\ {DefaultPrimary, DefaultSecondary} \subseteq Chains
    /\ DefaultPrimary # DefaultSecondary
    /\ OriginOf \in [Tokens -> Tokens \cup {Nil}]
    /\ MaxChanges \in Nat
    /\ Nil \notin Questions \cup ForeignQuestions

HookOK(h, questions) ==
    /\ h.prev \in questions \cup {Nil} /\ h.data \in questions \cup {Nil}
    /\ h.error \in BOOLEAN /\ h.isLoading \in BOOLEAN
    /\ h.calls \subseteq [question : questions, at : 0 .. MaxChanges]

\* The types of all variables; the two chains differ.
TypeOK ==
    /\ primary \in Questions /\ secondary \in Chains \ {primary.chain}
    /\ HookOK(origin, Questions) /\ HookOK(foreign, ForeignQuestions)
    /\ network \in Chains /\ changes \in 0 .. MaxChanges

\* When nothing is being looked up, what is shown without an error answers the
\* question that is asked, in whatever order answers came (argsEqual and
\* setArgs of the two hooks); a question that cannot be asked, as the wallet
\* is not ready or no token is entered, may have the last answer under it.
AnswerIsForQuestion ==
    LET q == ForeignQuestion(origin, secondary) IN
    /\ origin.calls = {} /\ origin.data # Nil /\ ~origin.error
         /\ CanAskOrigin(primary, network) => origin.data = primary
    /\ foreign.calls = {} /\ foreign.data # Nil /\ ~foreign.error
         /\ CanAskForeign(q, network) => foreign.data = q

\* The page shows that something is being looked up.
IsLoading == origin.isLoading \/ foreign.isLoading

\* Looking up comes to an end.
LoadingEnds == IsLoading ~> ~IsLoading
=============================================================================
