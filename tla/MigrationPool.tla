----------------------------- MODULE MigrationPool -----------------------------
(***************************************************************************)
(* The pool that exchanges tokens of the first Wormhole for those of this  *)
(* one (ethereum/contracts/bridge/utils/Migrator.sol), with the page that  *)
(* manages it (lp_ui/src/views/MigrateEthereum.tsx).  A provider deposits  *)
(* `to' tokens and gets shares for them; anyone exchanges `from' tokens    *)
(* for `to' tokens; a share buys either token back.  The two tokens differ *)
(* in their decimals.  The page of one user sends approvals and calls one  *)
(* after the other, reads balances one by one, and is not told what the    *)
(* other users do.                                                         *)
(***************************************************************************)
EXTENDS Integers, Sequences

CONSTANTS
    Users,          \* the holders of tokens
    Owner,          \* the user whose page is modelled
    Units,          \* the pairs of units (10 ** decimals) that pools may have
    ShareUnit,      \* the unit of a share: every ERC20 has 18 decimals
    Holdings,       \* user -> the tokens it holds at first
    Amounts,        \* the amounts that are typed into the page
    MaxCalls,       \* bound: number of clicks, and of others' calls
    Nil             \* undefined

VARIABLES
    units,          \* the contract: fromDecimals and toDecimals, as units
    pool,           \* its balances of both tokens
    totalSupply,    \* the shares that exist
    holds,          \* user -> its balances of both tokens and of shares
    allowance,      \* user -> what the contract may take of each token
    txs,            \* the transactions of the page, by nonce
    info,           \* the page: the balances it shows, or Nil
    reading,        \* the balances read so far, or Nil if none are being read
    processing,     \* operation -> what its button waits for, or Nil
    clickCount      \* history: number of clicks and of others' calls

contractVars == <<units, pool, totalSupply, holds, allowance>>
pageVars == <<txs, info, reading, processing, clickCount>>
poolVars == <<contractVars, pageVars>>

Operations == {"add", "remove", "claim", "migrate"}

Tx(op, u, a) == [op |-> op, user |-> u, amount |-> a]

-----------------------------------------------------------------------------
(* The contract. *)

adjustDecimals(from, to, amount) ==
    IF from > to THEN amount \div (from \div to) ELSE amount * (to \div from)

approve(u, token, a) ==
    /\ allowance' = [allowance EXCEPT ![u][token] = a]
    /\ UNCHANGED <<pool, totalSupply, holds>>

\* safeTransferFrom of a user to the contract.
CanTake(u, token, a) == a <= holds[u][token] /\ a <= allowance[u][token]

Takes(u, token, a) ==
    allowance' = [allowance EXCEPT ![u][token] = @ - a]

add(u, a) ==
    /\ CanTake(u, "to", a) /\ Takes(u, "to", a)
    /\ holds' = [holds EXCEPT ![u].to = @ - a, ![u].shares = @ + a]
    /\ pool' = [from |-> pool.from, to |-> pool.to + a]
    /\ totalSupply' = totalSupply + a

CanBurn(u, a) == a <= holds[u].shares /\ a <= totalSupply

remove(u, a) ==
    /\ CanBurn(u, a) /\ a <= pool.to
    /\ holds' = [holds EXCEPT ![u].to = @ + a, ![u].shares = @ - a]
    /\ pool' = [from |-> pool.from, to |-> pool.to - a]
    /\ totalSupply' = totalSupply - a
    /\ UNCHANGED allowance

Claimed(a) == adjustDecimals(units.to, units.from, a)

\* Mutant of claim: the shares are paid in the units of `to'.
claimUnadjusted(u, a) ==
    /\ CanBurn(u, a) /\ a <= pool.from
    /\ holds' = [holds EXCEPT ![u].from = @ + a, ![u].shares = @ - a]
    /\ pool' = [from |-> pool.from - a, to |-> pool.to]
    /\ totalSupply' = totalSupply - a
    /\ UNCHANGED allowance

claim(u, a) ==
    /\ CanBurn(u, a) /\ Claimed(a) <= pool.from
    /\ holds' = [holds EXCEPT ![u].from = @ + Claimed(a), ![u].shares = @ - a]
    /\ pool' = [from |-> pool.from - Claimed(a), to |-> pool.to]
    /\ totalSupply' = totalSupply - a
    /\ UNCHANGED allowance

Migrated(a) == adjustDecimals(units.from, units.to, a)

migrate(u, a) ==
    /\ CanTake(u, "from", a) /\ Migrated(a) <= pool.to /\ Takes(u, "from", a)
    /\ holds' = [holds EXCEPT ![u].from = @ - a, ![u].to = @ + Migrated(a)]
    /\ pool' = [from |-> pool.from + a, to |-> pool.to - Migrated(a)]
    /\ UNCHANGED totalSupply

Succeeds(tx) ==
    \/ tx.op \in {"approve to", "approve from"}
    \/ tx.op = "add" /\ CanTake(tx.user, "to", tx.amount)
    \/ tx.op = "remove" /\ CanBurn(tx.user, tx.amount) /\ tx.amount <= pool.to
    \/ tx.op = "claim" /\ CanBurn(tx.user, tx.amount) /\ Claimed(tx.amount) <= pool.from
    \/ tx.op = "migrate" /\ CanTake(tx.user, "from", tx.amount)
                         /\ Migrated(tx.amount) <= pool.to

Execute(tx) ==
    /\ \/ tx.op = "approve to" /\ approve(tx.user, "to", tx.amount)
       \/ tx.op = "approve from" /\ approve(tx.user, "from", tx.amount)
       \/ tx.op = "add" /\ add(tx.user, tx.amount)
       \/ tx.op = "remove" /\ remove(tx.user, tx.amount)
       \/ tx.op = "claim" /\ claim(tx.user, tx.amount)
       \/ tx.op = "migrate" /\ migrate(tx.user, tx.amount)
    /\ UNCHANGED units

-----------------------------------------------------------------------------
(* The page: the balances of getRequisiteData, in the order of its awaits. *)

Balances == <<holds[Owner].from, holds[Owner].to, pool.from, pool.to, holds[Owner].shares>>

InfoOf(b) == [fromWallet |-> b[1], toWallet |-> b[2], fromPool |-> b[3],
              toPool |-> b[4], shares |-> b[5]]

Read ==
    /\ reading # Nil
    /\ LET b == Append(reading, Balances[Len(reading) + 1])
       IN  IF Len(b) = 5 THEN reading' = Nil /\ info' = InfoOf(b)
                         ELSE reading' = b /\ UNCHANGED info
    /\ UNCHANGED <<contractVars, txs, processing, clickCount>>

\* What was read before stays on the page.
ReadFails ==
    /\ reading # Nil /\ reading' = Nil
    /\ UNCHANGED <<contractVars, txs, info, processing, clickCount>>

Click == clickCount < MaxCalls /\ clickCount' = clickCount + 1

forceRefresh ==
    /\ Click
    /\ info # Nil
    /\ reading' = <<>>
    /\ UNCHANGED <<contractVars, txs, info, processing>>

\* compareWithDecimalOffset: no more than what the page shows.
NoMore(a, unitA, b, unitB) == a * unitB <= b * unitA

IsReady(op, a) ==
    \/ op = "add" /\ a <= info.toWallet
    \/ op = "remove" /\ a <= info.shares /\ NoMore(a, ShareUnit, info.toPool, units.to)
    \/ op = "claim" /\ a <= info.shares /\ NoMore(a, ShareUnit, info.fromPool, units.from)
    \/ op = "migrate" /\ a <= info.fromWallet
                      /\ NoMore(a, units.from, info.toPool, units.to)

Approval == [add |-> "approve to", migrate |-> "approve from"]

Waits(for, tx) == [for |-> for, tx |-> tx]

OperationClick(op, a) ==
    /\ Click
    /\ info # Nil /\ processing[op] = Nil /\ IsReady(op, a)
    /\ processing' = [processing EXCEPT ![op] =
           Waits(IF op \in DOMAIN Approval THEN "approval" ELSE "call", Tx(op, Owner, a))]
    /\ UNCHANGED <<contractVars, txs, info, reading>>

\* The wallet rejects, or sends; that an approval is mined is not awaited.
ApprovalAnswer(op) ==
    LET p == processing[op] IN
    /\ op \in DOMAIN Approval /\ p # Nil /\ p.for = "approval"
    /\ \/ /\ txs' = Append(txs, Tx(Approval[op], Owner, p.tx.amount))
          /\ processing' = [processing EXCEPT ![op] = Waits("call", p.tx)]
       \/ processing' = [processing EXCEPT ![op] = Nil] /\ UNCHANGED txs
    /\ UNCHANGED <<contractVars, info, reading, clickCount>>

\* A call that would fail now is not sent: its gas cannot be estimated.
CallAnswer(op) ==
    LET p == processing[op] IN
    /\ p # Nil /\ p.for = "call"
    /\ \/ /\ Succeeds(p.tx)
          /\ txs' = Append(txs, p.tx)
          /\ processing' = [processing EXCEPT ![op] = Waits("receipt", p.tx)]
       \/ processing' = [processing EXCEPT ![op] = Nil] /\ UNCHANGED txs
    /\ UNCHANGED <<contractVars, info, reading, clickCount>>

\* The next transaction is mined, and the button that waits for it is told.
Mined ==
    /\ txs # <<>> /\ txs' = Tail(txs)
    /\ LET tx == Head(txs) IN
         /\ IF Succeeds(tx) THEN Execute(tx) ELSE UNCHANGED contractVars
         /\ IF tx.op \in Operations
            THEN /\ processing' = [processing EXCEPT ![tx.op] = Nil]
                 /\ reading' = IF Succeeds(tx) THEN <<>> ELSE reading
            ELSE UNCHANGED <<processing, reading>>
    /\ UNCHANGED <<info, clickCount>>

\* Another user's call.
OtherCalls(tx) ==
    /\ Click
    /\ Execute(tx)
    /\ UNCHANGED <<txs, info, reading, processing>>

Others == { Tx(op, u, a) : op \in Operations, u \in Users \ {Owner}, a \in Amounts }

Init ==
    /\ units \in Units
    /\ pool = [from |-> 0, to |-> 0]
    /\ totalSupply = 0
    /\ holds = [u \in Users |-> [from |-> Holdings[u].from, to |-> Holdings[u].to,
                                 shares |-> 0]]
    /\ allowance = [u \in Users |-> IF u = Owner THEN [from |-> 0, to |-> 0]
                                    ELSE Holdings[u]]
    /\ txs = <<>>
    /\ info = Nil
    /\ reading = <<>>
    /\ processing = [op \in Operations |-> Nil]
    /\ clickCount = 0

PageAnswers == \E op \in Operations : ApprovalAnswer(op) \/ CallAnswer(op)

Next ==
    \/ Read \/ ReadFails \/ forceRefresh
    \/ \E op \in Operations, a \in Amounts : OperationClick(op, a)
    \/ PageAnswers \/ Mined
    \/ \E tx \in Others : OtherCalls(tx)

Spec == Init /\ [][Next]_poolVars

-----------------------------------------------------------------------------
(* What the pool and its page promise. *)

\* What the constants are; a unit is a power of ten.
ConstantsOK ==
    /\ Units \subseteq [from : Nat \ {0}, to : Nat \ {0}]
    /\ Owner \in Users /\ Holdings \in [Users -> [from : Nat, to : Nat]]
    /\ Amounts \subseteq Nat /\ MaxCalls \in Nat

Txs == [op : Operations \cup {"approve to", "approve from"}, user : Users,
        amount : Amounts]

\* The types of the contract's state and of what the page sends.
TypeOK ==
    /\ units \in Units
    /\ pool \in [from : Nat, to : Nat] /\ totalSupply \in Nat
    /\ holds \in [Users -> [from : Nat, to : Nat, shares : Nat]]
    /\ allowance \in [Users -> [from : Nat, to : Nat]]
    /\ txs \in Seq(Txs)
    /\ processing \in
         [Operations -> [for : {"approval", "call", "receipt"}, tx : Txs] \cup {Nil}]
    /\ clickCount \in 0 .. MaxCalls

\* What one unit of the coarser token is worth in the finer one.
Ratio == IF units.from > units.to THEN units.from \div units.to
                                  ELSE units.to \div units.from

\* Counted in the finer of the two tokens, the pool holds at least what its
\* shares are worth, whatever was exchanged and however amounts were rounded
\* (adjustDecimals in claim and migrate).
PoolIsSolvent ==
    IF units.from > units.to
    THEN totalSupply * Ratio <= pool.to * Ratio + pool.from
    ELSE totalSupply <= pool.to + pool.from * Ratio

\* A button waits, or the balances are being read.
IsWaiting == reading # Nil \/ \E op \in Operations : processing[op] # Nil
=============================================================================
