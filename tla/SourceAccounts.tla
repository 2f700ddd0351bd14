---------------------------- MODULE SourceAccounts ----------------------------
(***************************************************************************)
(* The token list of the transfer wizard's first step (bridge_ui/src:      *)
(* hooks/useGetSourceParsedTokenAccounts, components/TokenSelectors and    *)
(* the reducers they dispatch to).  The list in the store is loaded from   *)
(* two kinds of service, the balance of an EVM chain's own coin is kept by *)
(* the component, and all of it has to follow the source chain, the        *)
(* wallets and the network while calls are under way.  The effects of a    *)
(* rendering run with it here; that an answer may come in between is for   *)
(* TransferWizard to show.                                                 *)
(***************************************************************************)
EXTENDS Naturals, FiniteSets

CONSTANTS
    Chains,         \* the chains the wizard offers
    Kind,           \* chain -> "evm" or "solana"
    DefaultSource,  \* the source chain a fresh page selects
    Wallets,        \* kind -> the wallets of that kind the user may connect
    FirstWallet,    \* kind -> the one that is connected first
    MaxClicks,      \* bound: number of the user's choices (see Choice)
    Nil             \* undefined

VARIABLES
    source,         \* the slice: chain, selected account and its owner, list
    selector,       \* the component's state, and what its effects ran on
    wallet,         \* kind -> the connected wallet
    network,        \* the chain the EVM wallet is connected to
    solanaCalls,    \* the wallets whose Solana accounts are being loaded
    awaited,        \* the accounts that token pickers are about to select
    isOpen,         \* the wizard shows its first step
    clicks          \* history: number of choices the user has made

sourceVars ==
    <<source, selector, wallet, network, solanaCalls, awaited, isOpen, clicks>>

\* An account that can be selected; isNative is set for the coin of a chain.
AnyWallet == Wallets["evm"] \cup Wallets["solana"]
Accounts == [chain : Chains, wallet : AnyWallet, isNative : BOOLEAN]

\* The DataWrapper of the list; a list is that of a wallet on a chain.
Unloaded(why) == [is |-> why, chain |-> Nil, wallet |-> Nil]
ListOf(c, w)  == [is |-> "data", chain |-> c, wallet |-> w]
Lists == {Unloaded(why) : why \in {"empty", "fetching", "error"}} \cup
             [is : {"data"}, chain : Chains, wallet : AnyWallet]

setSourceChain(s, c) ==
    [s EXCEPT !.chain = c, !.selected = Nil, !.list = Unloaded("empty")]

\* A component that has just been mounted.
Mounting ==
    [covalent |-> FALSE, covalentOn |-> Nil, covalentBusy |-> FALSE,
     native |-> Nil, nativeOn |-> Nil, nativeBusy |-> FALSE,
     nativeLoading |-> FALSE, nativeFailed |-> FALSE,
     mints |-> Nil, mintsOn |-> Nil, mintsBusy |-> FALSE]

isEVM(c) == Kind[c] = "evm"

isReady(c, net) == isEVM(c) => net = c

IsShown(s, net, open) == open /\ (isReady(s.chain, net) \/ s.selected # Nil)

-----------------------------------------------------------------------------
(* The hook.  A page p is the slice, the component and the Solana calls    *)
(* under way; r is the page as it was rendered, w the wallets.             *)

resetSourceAccounts(p) ==
    [p EXCEPT !.st.owner = Nil, !.st.selected = Nil,
              !.st.list = Unloaded("empty"),
              !.loc.covalent = FALSE, !.loc.native = Nil,
              !.loc.nativeLoading = FALSE, !.loc.nativeFailed = FALSE]

\* Mutant of WalletChanged: the accounts of another wallet stay.
WalletChangedNever(r, w) == FALSE

WalletChanged(r, w) == r.st.owner \notin {Nil, w[Kind[r.st.chain]]}

LoadsSolana(r) == ~isEVM(r.st.chain) /\ r.st.list.is = "empty"

MintsOn(r)    == <<r.st.list, r.st.chain>>
NativeOn(r, w) == <<r.st.chain, w["evm"], r.loc.native>>
CovalentOn(r, w) == <<r.st.chain, w["evm"], r.loc.covalent>>

\* One effect per EVM chain; together they load the coin of the chain shown.
LoadsNative(r, w) ==
    NativeOn(r, w) # r.loc.nativeOn /\ isEVM(r.st.chain) /\ r.loc.native = Nil

LoadsCovalent(r, w) ==
    CovalentOn(r, w) # r.loc.covalentOn /\ isEVM(r.st.chain) /\ ~r.loc.covalent

\* The effects of a rendering r, after the one that resets the accounts.
EffectsOn(r, w, p) ==
    [st |-> [p.st EXCEPT !.list = IF LoadsSolana(r) \/ LoadsCovalent(r, w)
                                  THEN Unloaded("fetching") ELSE @],
     loc |-> [p.loc EXCEPT
         !.mintsOn = MintsOn(r),
         !.mintsBusy = IF MintsOn(r) = r.loc.mintsOn THEN @
                       ELSE ~isEVM(r.st.chain) /\ r.st.list.is = "data",
         !.nativeOn = NativeOn(r, w),
         !.nativeBusy = IF NativeOn(r, w) = r.loc.nativeOn THEN @
                        ELSE LoadsNative(r, w),
         !.nativeLoading = @ \/ LoadsNative(r, w),
         !.covalentOn = CovalentOn(r, w),
         !.covalentBusy = IF CovalentOn(r, w) = r.loc.covalentOn THEN @
                          ELSE LoadsCovalent(r, w)],
     calls |-> p.calls \cup {x \in {w["solana"]} : LoadsSolana(r)}]

\* One rendering with its effects; what they change is rendered again.
Render(r, w, net, open) ==
    IF ~IsShown(r.st, net, open) THEN [r EXCEPT !.loc = Mounting]
    ELSE EffectsOn(r, w, IF WalletChanged(r, w) THEN resetSourceAccounts(r) ELSE r)

\* Three renderings suffice (TypeOK).
Settled(p, w, net, open) ==
    LET Rendered(pages) == {Render(r, w, net, open) : r \in pages}
    IN  CHOOSE q \in Rendered(Rendered(Rendered({p}))) : TRUE

Becomes(p, w, net, open) ==
    /\ \E q \in {Settled(p, w, net, open)} :
         source' = q.st /\ selector' = q.loc /\ solanaCalls' = q.calls
    /\ wallet' = w /\ network' = net /\ isOpen' = open

Page(s, l, calls) == [st |-> s, loc |-> l, calls |-> calls]

Now == Page(source, selector, solanaCalls)

Shows(p) == Becomes(p, wallet, network, isOpen)

-----------------------------------------------------------------------------
(* Answers. *)

unchangedByAnswer == UNCHANGED <<awaited, clicks>>

CovalentAnswer ==
    /\ selector.covalentBusy
    /\ Shows([Now EXCEPT !.loc.covalent = TRUE, !.loc.covalentBusy = FALSE,
                  !.st.list = ListOf(selector.covalentOn[1], selector.covalentOn[2])])
    /\ unchangedByAnswer

\* Mutant of CovalentFails: the store is not told.
CovalentFailsSilently ==
    /\ selector.covalentBusy
    /\ Shows([Now EXCEPT !.loc.covalentBusy = FALSE])
    /\ unchangedByAnswer

CovalentFails ==
    /\ selector.covalentBusy
    /\ Shows([Now EXCEPT !.loc.covalentBusy = FALSE, !.st.list = Unloaded("error")])
    /\ unchangedByAnswer

NativeAnswer ==
    /\ selector.nativeBusy
    /\ \E fails \in BOOLEAN :
         Shows([Now EXCEPT !.loc.nativeBusy = FALSE, !.loc.nativeLoading = FALSE,
                  !.loc.nativeFailed = fails,
                  !.loc.native = IF fails THEN Nil ELSE
                      [chain |-> selector.nativeOn[1], wallet |-> selector.nativeOn[2],
                       isNative |-> TRUE]])
    /\ unchangedByAnswer

\* Nobody cancels the loading of Solana's accounts.
SolanaAnswer(w) ==
    /\ \E list \in {ListOf(c, w) : c \in {c \in Chains : ~isEVM(c)}} \cup
                       {Unloaded("error")} :
         Shows([Now EXCEPT !.calls = @ \ {w}, !.st.list = list])
    /\ unchangedByAnswer

MintsAnswer ==
    /\ selector.mintsBusy
    /\ \E mints \in {Nil, selector.mintsOn[1].wallet} :
         Shows([Now EXCEPT !.loc.mintsBusy = FALSE, !.loc.mints = mints])
    /\ unchangedByAnswer

-----------------------------------------------------------------------------
(* The user. *)

Choice == clicks < MaxClicks /\ clicks' = clicks + 1

ChooseSourceChain(c) ==
    /\ Choice
    /\ isOpen /\ c # source.chain
    /\ Shows([Now EXCEPT !.st = setSourceChain(source, c)])
    /\ UNCHANGED awaited

\* An EVM chain without its list, or its coin, has a button to reload instead.
fatalError == isEVM(source.chain) /\ (source.list.is = "error" \/ selector.nativeFailed)

IsPickerShown == IsShown(source, network, isOpen) /\ ~fatalError

\* A token of an EVM chain is read again, for the wallet, when it is selected,
\* or is typed in; a coin and an account of Solana are taken from the list.
Offered ==
    IF isEVM(source.chain)
    THEN {[chain |-> source.chain, wallet |-> wallet["evm"], isNative |-> FALSE]}
             \cup ({selector.native} \ {Nil})
    ELSE IF source.list.is = "data" /\ selector.mints = source.list.wallet
         THEN {[chain |-> source.list.chain, wallet |-> source.list.wallet,
                isNative |-> FALSE]}
         ELSE {}

SelectOption(a) ==
    /\ Choice
    /\ IsPickerShown /\ isReady(source.chain, network)
    /\ a \in Offered
    /\ awaited' = awaited \cup {[account |-> a, owner |-> wallet[Kind[source.chain]]]}
    /\ UNCHANGED <<source, selector, wallet, network, solanaCalls, isOpen>>

\* handleOnChange; the picker's call may also fail.
OptionSelected(p) ==
    /\ awaited' = awaited \ {p}
    /\ \/ Shows([Now EXCEPT !.st.selected = p.account, !.st.owner = p.owner])
       \/ Shows(Now)
    /\ UNCHANGED clicks

ClearOption ==
    /\ IsPickerShown /\ source.selected # Nil
    /\ Shows([Now EXCEPT !.st.selected = Nil, !.st.owner = Nil])
    /\ UNCHANGED <<awaited, clicks>>

Reload ==
    /\ Choice
    /\ IsShown(source, network, isOpen)
    /\ Shows(resetSourceAccounts(Now))
    /\ UNCHANGED awaited

Continue ==
    /\ Choice
    /\ isOpen /\ source.selected # Nil
    /\ Becomes(Now, wallet, network, FALSE)
    /\ UNCHANGED awaited

GoBack ==
    /\ ~isOpen
    /\ Becomes(Now, wallet, network, TRUE)
    /\ UNCHANGED <<awaited, clicks>>

SwitchAccount(kind, w) ==
    /\ Choice
    /\ w # wallet[kind]
    /\ Becomes(Now, [wallet EXCEPT ![kind] = w], network, isOpen)
    /\ UNCHANGED awaited

SwitchNetwork(c) ==
    /\ Choice
    /\ c # network
    /\ Becomes(Now, wallet, c, isOpen)
    /\ UNCHANGED awaited

FreshSlice == [chain |-> DefaultSource, selected |-> Nil, owner |-> Nil,
               list |-> Unloaded("empty")]

Init ==
    /\ network \in {c \in Chains : isEVM(c)}
    /\ wallet = FirstWallet
    /\ LET p == Settled(Page(FreshSlice, Mounting, {}), wallet, network, TRUE)
       IN  source = p.st /\ selector = p.loc /\ solanaCalls = p.calls
    /\ isOpen = TRUE
    /\ awaited = {}
    /\ clicks = 0

Answers == \/ CovalentAnswer \/ CovalentFails \/ NativeAnswer \/ MintsAnswer
           \/ \E w \in solanaCalls : SolanaAnswer(w)

Next ==
    \/ Answers
    \/ \E c \in Chains : ChooseSourceChain(c)
    \/ \E a \in Accounts : SelectOption(a)
    \/ \E p \in awaited : OptionSelected(p)
    \/ ClearOption \/ Reload \/ Continue \/ GoBack
    \/ \E kind \in {"evm", "solana"} : \E w \in Wallets[kind] : SwitchAccount(kind, w)
    \/ \E c \in {c \in Chains : isEVM(c)} : SwitchNetwork(c)

Spec == Init /\ [][Next]_sourceVars

\* Each service answers, or the call fails; there are finitely many calls.
Fairness ==
    /\ WF_sourceVars(CovalentAnswer \/ CovalentFails)
    /\ WF_sourceVars(NativeAnswer)
    /\ WF_sourceVars(\E w \in solanaCalls : SolanaAnswer(w))

-----------------------------------------------------------------------------
(* What the list promises. *)

\* What the theorems of WebAppProofs take for granted of the constants.
ConstantsOK ==
    /\ DefaultSource \in Chains /\ Kind \in [Chains -> {"evm", "solana"}]
    /\ FirstWallet \in [{"evm", "solana"} -> AnyWallet]
    /\ \A kind \in {"evm", "solana"} : FirstWallet[kind] \in Wallets[kind]
    /\ Wallets["evm"] \cap Wallets["solana"] = {} /\ Nil \notin AnyWallet
    /\ MaxClicks \in Nat

Shown == IsShown(source, network, isOpen)

\* The types of all variables; what is rendered has settled.
TypeOK ==
    /\ source \in [chain : Chains, selected : Accounts \cup {Nil},
                   owner : AnyWallet \cup {Nil}, list : Lists]
    /\ selector.native \in Accounts \cup {Nil}
    /\ selector.mints \in Wallets["solana"] \cup {Nil}
    /\ \A f \in {"covalent", "covalentBusy", "nativeBusy", "nativeLoading",
                 "nativeFailed", "mintsBusy"} : selector[f] \in BOOLEAN
    /\ Settled(Now, wallet, network, isOpen) = Now
    /\ \A kind \in {"evm", "solana"} : wallet[kind] \in Wallets[kind]
    /\ solanaCalls \subseteq Wallets["solana"]
    /\ awaited \subseteq [account : Accounts, owner : AnyWallet]
    /\ isOpen \in BOOLEAN /\ clicks \in 0 .. MaxClicks

\* While the first step is shown, what is selected is for the wallet that is
\* connected, and a token of an EVM chain is that wallet's, however the wallet
\* and the chain changed while it was being selected (the effect that resets
\* the accounts when the wallet changes).
SelectionIsOfWallet ==
    Shown /\ source.selected # Nil =>
        /\ Kind[source.selected.chain] = Kind[source.chain]
        /\ source.owner = wallet[Kind[source.chain]]
        /\ isEVM(source.chain) /\ ~source.selected.isNative =>
               source.selected.wallet = source.owner

\* The list and the coin are being loaded, for the user to see.
IsLoading == Shown /\ (\/ source.list.is = "fetching"
                       \/ isEVM(source.chain) /\ selector.nativeLoading)

\* Loading comes to an end: a call that is cancelled is made again (the
\* dependencies of the effects).
LoadingEnds == IsLoading ~> ~IsLoading
=============================================================================
