------------------------------ MODULE WebAppProofs ------------------------------
(***************************************************************************)
(* What the pages of the web interface promise, for all values of the      *)
(* constants: the migration pool and its page, the origin verifier, the    *)
(* token list, the registration wizard, each as a component of its own;    *)
(* and all pages together, with what NFTWizardProofs proves of its wizard. *)
(***************************************************************************)
EXTENDS WebApp, TransferWizardProofs, TLAPS

-----------------------------------------------------------------------------
(***************************************************************************)
(* The migration pool: arithmetic                                          *)
(***************************************************************************)

\* Dividing and multiplying again gives no more than there was.
LEMMA DivBounds ==
    ASSUME NEW a \in Nat, NEW d \in Nat \ {0}
    PROVE  a \div d \in Nat /\ (a \div d) * d <= a
OBVIOUS

\* The ratio of two units is a positive number.
LEMMA DivIsPositive ==
    ASSUME NEW a \in Nat \ {0}, NEW d \in Nat \ {0}, d <= a
    PROVE  a \div d \in Nat \ {0} /\ (d = a => a \div d = 1)
OBVIOUS

LEMMA Products ==
    ASSUME NEW a \in Nat, NEW b \in Nat, NEW d \in Nat
    PROVE  /\ a * d \in Nat
           /\ (a + b) * d = a * d + b * d /\ (a - b) * d = a * d - b * d
OBVIOUS

-----------------------------------------------------------------------------
(* The conversion, in terms of the ratio. *)

\* What a share buys and what a token is exchanged for.
LEMMA Conversions ==
    ASSUME units \in [from : Nat \ {0}, to : Nat \ {0}], NEW a \in Nat
    PROVE  /\ Pool!Ratio \in Nat \ {0}
           /\ Pool!Claimed(a) \in Nat /\ Pool!Migrated(a) \in Nat
           /\ units.from > units.to =>
                Pool!Claimed(a) = a * Pool!Ratio /\ Pool!Migrated(a) * Pool!Ratio <= a
           /\ ~(units.from > units.to) =>
                Pool!Claimed(a) * Pool!Ratio <= a /\ Pool!Migrated(a) = a * Pool!Ratio
<1> DEFINE f == units.from
           t == units.to
<1>1. f \in Nat \ {0} /\ t \in Nat \ {0}
  OBVIOUS
<1>2. CASE f > t
  <2>1. Pool!Ratio = f \div t /\ Pool!Ratio \in Nat \ {0}
    BY <1>1, <1>2, DivIsPositive DEF Pool!Ratio
  <2>2. Pool!Claimed(a) = a * Pool!Ratio /\ Pool!Migrated(a) = a \div Pool!Ratio
    BY <1>1, <1>2, <2>1 DEF Pool!Claimed, Pool!Migrated, Pool!adjustDecimals
  <2> QED BY <1>2, <2>1, <2>2, DivBounds, Products
<1>3. CASE f < t
  <2>1. Pool!Ratio = t \div f /\ Pool!Ratio \in Nat \ {0}
    BY <1>1, <1>3, DivIsPositive DEF Pool!Ratio
  <2>2. Pool!Claimed(a) = a \div Pool!Ratio /\ Pool!Migrated(a) = a * Pool!Ratio
    BY <1>1, <1>3, <2>1 DEF Pool!Claimed, Pool!Migrated, Pool!adjustDecimals
  <2> QED BY <1>1, <1>3, <2>1, <2>2, DivBounds, Products
<1>4. CASE f = t
  <2>1. f \div t = 1 /\ t \div f = 1
    BY <1>1, <1>4, DivIsPositive
  <2>2. Pool!Ratio = 1 /\ Pool!Claimed(a) = a /\ Pool!Migrated(a) = a
    BY <1>1, <1>4, <2>1 DEF Pool!Ratio, Pool!Claimed, Pool!Migrated, Pool!adjustDecimals
  <2> QED BY <1>1, <1>4, <2>2
<1> QED BY <1>1, <1>2, <1>3, <1>4

-----------------------------------------------------------------------------
(* Types. *)

LEMMA InitTypeOK == Pool!ConstantsOK /\ Pool!Init => Pool!TypeOK
<1> SUFFICES ASSUME Pool!ConstantsOK, Pool!Init PROVE Pool!TypeOK
  OBVIOUS
<1>1. holds \in [Users -> [from : Nat, to : Nat, shares : Nat]]
  BY DEF Pool!ConstantsOK, Pool!Init
<1>2. allowance \in [Users -> [from : Nat, to : Nat]]
  BY DEF Pool!ConstantsOK, Pool!Init
<1>3. txs \in Seq(Pool!Txs)
  BY DEF Pool!Init
<1> QED BY <1>1, <1>2, <1>3 DEF Pool!ConstantsOK, Pool!Init, Pool!TypeOK

ContractOK ==
    /\ units \in Units
    /\ pool \in [from : Nat, to : Nat] /\ totalSupply \in Nat
    /\ holds \in [Users -> [from : Nat, to : Nat, shares : Nat]]
    /\ allowance \in [Users -> [from : Nat, to : Nat]]

\* A transaction preserves the types of the contract's state.
LEMMA ExecuteTypeOK ==
    ASSUME Pool!ConstantsOK, ContractOK, NEW tx \in Pool!Txs, Pool!Execute(tx)
    PROVE  ContractOK'
<1> DEFINE u == tx.user
           a == tx.amount
<1>1. u \in Users /\ a \in Nat
  BY DEF Pool!Txs, Pool!ConstantsOK
<1>2. units' \in Units /\ units \in [from : Nat \ {0}, to : Nat \ {0}]
  BY DEF Pool!Execute, ContractOK, Pool!ConstantsOK
<1>3. Pool!Claimed(a) \in Nat /\ Pool!Migrated(a) \in Nat
  BY <1>1, <1>2, Conversions
<1>h. /\ holds[u].from \in Nat /\ holds[u].to \in Nat /\ holds[u].shares \in Nat
      /\ allowance[u].from \in Nat /\ allowance[u].to \in Nat
      /\ pool.from \in Nat /\ pool.to \in Nat /\ totalSupply \in Nat
  BY <1>1 DEF ContractOK
<1>4. ASSUME NEW token \in {"from", "to"}, Pool!approve(u, token, a) PROVE ContractOK'
  BY <1>1, <1>2, <1>4 DEF ContractOK, Pool!approve
<1>5. CASE Pool!add(u, a)
  BY <1>1, <1>2, <1>5, <1>h DEF ContractOK, Pool!add, Pool!CanTake, Pool!Takes
<1>6. CASE Pool!remove(u, a)
  BY <1>1, <1>2, <1>6, <1>h DEF ContractOK, Pool!remove, Pool!CanBurn
<1>7. CASE Pool!claim(u, a)
  BY <1>1, <1>2, <1>3, <1>7, <1>h DEF ContractOK, Pool!claim, Pool!CanBurn
<1>8. CASE Pool!migrate(u, a)
  BY <1>1, <1>2, <1>3, <1>8, <1>h DEF ContractOK, Pool!migrate, Pool!CanTake, Pool!Takes
<1> QED BY <1>4, <1>5, <1>6, <1>7, <1>8 DEF Pool!Execute

\* What the page waits for is a transaction.
PoolPageOK ==
    /\ txs \in Seq(Pool!Txs)
    /\ processing \in
         [Pool!Operations -> [for : {"approval", "call", "receipt"}, tx : Pool!Txs]
                                  \cup {Nil}]
    /\ clickCount \in 0 .. MaxCalls

LEMMA ClickOK == Pool!ConstantsOK /\ clickCount \in 0 .. MaxCalls /\ Pool!Click =>
                     clickCount' \in 0 .. MaxCalls
BY DEF Pool!ConstantsOK, Pool!Click

\* Another user's call is a transaction too.
LEMMA OthersAreTxs == Pool!Others \subseteq Pool!Txs
<1> SUFFICES ASSUME NEW tx \in Pool!Others PROVE tx \in Pool!Txs
  OBVIOUS
<1>1. PICK op \in Pool!Operations, u \in Users \ {Owner}, a \in Amounts :
        tx = Pool!Tx(op, u, a)
  BY DEF Pool!Others
<1> QED BY <1>1 DEF Pool!Tx, Pool!Txs

LEMMA NextTypeOK ==
    Pool!ConstantsOK /\ Pool!TypeOK /\ [Pool!Next]_(Pool!poolVars) => Pool!TypeOK'
<1> SUFFICES ASSUME Pool!ConstantsOK, Pool!TypeOK, [Pool!Next]_(Pool!poolVars)
             PROVE  Pool!TypeOK'
  OBVIOUS
<1>c. ContractOK /\ PoolPageOK
  BY DEF Pool!TypeOK, ContractOK, PoolPageOK
<1>s. ASSUME UNCHANGED Pool!contractVars PROVE ContractOK'
  BY <1>c, <1>s DEF ContractOK, Pool!contractVars
<1>0. SUFFICES ContractOK' /\ PoolPageOK'
  BY DEF Pool!TypeOK, ContractOK, PoolPageOK
<1>1. CASE Pool!Read \/ Pool!ReadFails
  BY <1>1, <1>c, <1>s DEF Pool!Read, Pool!ReadFails, PoolPageOK
<1>2. CASE Pool!forceRefresh
  BY <1>2, <1>c, <1>s, ClickOK DEF Pool!forceRefresh, PoolPageOK
<1>3. ASSUME NEW op \in Pool!Operations, NEW a \in Amounts, Pool!OperationClick(op, a)
      PROVE  ContractOK' /\ PoolPageOK'
  <2> DEFINE for == IF op \in DOMAIN Pool!Approval THEN "approval" ELSE "call"
  <2>1. Pool!Waits(for, Pool!Tx(op, Owner, a)) \in
            [for : {"approval", "call", "receipt"}, tx : Pool!Txs]
    BY DEF Pool!Waits, Pool!Tx, Pool!Txs, Pool!ConstantsOK
  <2>2. processing' = [processing EXCEPT ![op] = Pool!Waits(for, Pool!Tx(op, Owner, a))]
    BY <1>3 DEF Pool!OperationClick
  <2> QED BY <1>3, <1>c, <1>s, <2>1, <2>2, ClickOK DEF Pool!OperationClick, PoolPageOK
<1>4. ASSUME NEW op \in Pool!Operations, Pool!ApprovalAnswer(op)
      PROVE ContractOK' /\ PoolPageOK'
  <2> DEFINE p == processing[op]
  <2>1. p \in [for : {"approval", "call", "receipt"}, tx : Pool!Txs] /\ p.tx \in Pool!Txs
    BY <1>4, <1>c DEF Pool!ApprovalAnswer, PoolPageOK
  <2>2. Pool!Tx(Pool!Approval[op], Owner, p.tx.amount) \in Pool!Txs
    <3>1. op \in {"add", "migrate"}
      BY <1>4 DEF Pool!ApprovalAnswer, Pool!Approval
    <3>2. Pool!Approval[op] \in {"approve to", "approve from"}
      <4>1. CASE op = "add"
        BY <4>1 DEF Pool!Approval
      <4>2. CASE op = "migrate"
        BY <4>2 DEF Pool!Approval
      <4> QED BY <3>1, <4>1, <4>2
    <3> QED BY <2>1, <3>2 DEF Pool!Tx, Pool!Txs, Pool!ConstantsOK
  <2>3. Pool!Waits("call", p.tx) \in [for : {"approval", "call", "receipt"}, tx : Pool!Txs]
    BY <2>1 DEF Pool!Waits
  <2>4. /\ txs' = Append(txs, Pool!Tx(Pool!Approval[op], Owner, p.tx.amount)) \/ txs' = txs
        /\ \/ processing' = [processing EXCEPT ![op] = Pool!Waits("call", p.tx)]
           \/ processing' = [processing EXCEPT ![op] = Nil]
        /\ UNCHANGED <<Pool!contractVars, clickCount>>
    BY <1>4 DEF Pool!ApprovalAnswer
  <2>5. txs' \in Seq(Pool!Txs)
    BY <1>c, <2>2, <2>4 DEF PoolPageOK
  <2> QED BY <1>c, <1>s, <2>3, <2>4, <2>5 DEF PoolPageOK
<1>5. ASSUME NEW op \in Pool!Operations, Pool!CallAnswer(op)
      PROVE ContractOK' /\ PoolPageOK'
  <2> DEFINE p == processing[op]
  <2>1. p \in [for : {"approval", "call", "receipt"}, tx : Pool!Txs] /\ p.tx \in Pool!Txs
    BY <1>5, <1>c DEF Pool!CallAnswer, PoolPageOK
  <2>2. Pool!Waits("receipt", p.tx)
          \in [for : {"approval", "call", "receipt"}, tx : Pool!Txs]
    BY <2>1 DEF Pool!Waits
  <2>3. /\ txs' = Append(txs, p.tx) \/ txs' = txs
        /\ \/ processing' = [processing EXCEPT ![op] = Pool!Waits("receipt", p.tx)]
           \/ processing' = [processing EXCEPT ![op] = Nil]
        /\ UNCHANGED <<Pool!contractVars, clickCount>>
    BY <1>5 DEF Pool!CallAnswer
  <2>4. txs' \in Seq(Pool!Txs)
    BY <1>c, <2>1, <2>3 DEF PoolPageOK
  <2> QED BY <1>c, <1>s, <2>2, <2>3, <2>4 DEF PoolPageOK
<1>6. CASE Pool!Mined
  <2>1. Head(txs) \in Pool!Txs /\ txs' \in Seq(Pool!Txs)
    BY <1>6, <1>c DEF Pool!Mined, PoolPageOK
  <2>2. ContractOK'
    BY <1>6, <1>c, <1>s, <2>1, ExecuteTypeOK DEF Pool!Mined
  <2> QED BY <1>6, <1>c, <2>1, <2>2 DEF Pool!Mined, PoolPageOK
<1>7. ASSUME NEW tx \in Pool!Others, Pool!OtherCalls(tx) PROVE ContractOK' /\ PoolPageOK'
  <2>1. ContractOK'
    BY <1>7, <1>c, ExecuteTypeOK, OthersAreTxs DEF Pool!OtherCalls
  <2> QED BY <1>7, <1>c, <2>1, ClickOK DEF Pool!OtherCalls, PoolPageOK
<1>8. CASE UNCHANGED Pool!poolVars
  BY <1>8, <1>c, <1>s DEF Pool!poolVars, Pool!pageVars, PoolPageOK
<1> QED BY <1>1, <1>2, <1>3, <1>4, <1>5, <1>6, <1>7, <1>8 DEF Pool!Next, Pool!PageAnswers

\* Every balance, allowance and transaction is of its type.
THEOREM PoolTypeCorrect == Pool!ConstantsOK => (Pool!Spec => []Pool!TypeOK)
<1> SUFFICES ASSUME Pool!ConstantsOK PROVE Pool!Spec => []Pool!TypeOK
  OBVIOUS
<1>1. Pool!Init => Pool!TypeOK
  BY InitTypeOK
<1>2. Pool!TypeOK /\ [Pool!Next]_(Pool!poolVars) => Pool!TypeOK'
  BY NextTypeOK
<1> QED BY <1>1, <1>2, PTL DEF Pool!Spec

-----------------------------------------------------------------------------
(* Solvency. *)

\* A pool without shares is solvent.
LEMMA InitSolvent == Pool!ConstantsOK /\ Pool!Init => Pool!PoolIsSolvent
<1> SUFFICES ASSUME Pool!ConstantsOK, Pool!Init PROVE Pool!PoolIsSolvent
  OBVIOUS
<1>1. Pool!Ratio \in Nat
  BY Conversions, 0 \in Nat DEF Pool!ConstantsOK, Pool!Init
<1> QED BY <1>1, Products DEF Pool!Init, Pool!PoolIsSolvent

\* Each transaction moves shares and tokens of the same worth, or leaves the
\* rounding to the pool.
LEMMA ExecuteSolvent ==
    ASSUME Pool!ConstantsOK, ContractOK, Pool!PoolIsSolvent, NEW tx \in Pool!Txs,
           Pool!Execute(tx)
    PROVE  Pool!PoolIsSolvent'
<1> DEFINE u == tx.user
           a == tx.amount
           R == Pool!Ratio
<1>1. a \in Nat /\ units \in [from : Nat \ {0}, to : Nat \ {0}] /\ units' = units
  BY DEF Pool!Txs, Pool!ConstantsOK, ContractOK, Pool!Execute
<1>2. R' = R
  BY <1>1 DEF Pool!Ratio
<1>3. /\ R \in Nat \ {0} /\ Pool!Claimed(a) \in Nat /\ Pool!Migrated(a) \in Nat
      /\ units.from > units.to => Pool!Claimed(a) = a * R /\ Pool!Migrated(a) * R <= a
      /\ ~(units.from > units.to) => Pool!Claimed(a) * R <= a /\ Pool!Migrated(a) = a * R
  BY <1>1, Conversions
<1>h. pool.from \in Nat /\ pool.to \in Nat /\ totalSupply \in Nat
  BY DEF ContractOK
<1>4. ASSUME NEW token, Pool!approve(u, token, a) PROVE Pool!PoolIsSolvent'
  BY <1>1, <1>2, <1>4 DEF Pool!approve, Pool!PoolIsSolvent
<1>5. CASE Pool!add(u, a)
  <2>1. pool'.from = pool.from /\ pool'.to = pool.to + a /\ totalSupply' = totalSupply + a
    BY <1>5 DEF Pool!add
  <2>2. (totalSupply + a) * R = totalSupply * R + a * R
        /\ (pool.to + a) * R = pool.to * R + a * R /\ a * R \in Nat
        /\ totalSupply * R \in Nat /\ pool.to * R \in Nat /\ pool.from * R \in Nat
    BY <1>1, <1>3, <1>h, Products
  <2> QED BY <1>1, <1>2, <1>3, <1>h, <2>1, <2>2 DEF Pool!PoolIsSolvent
<1>6. CASE Pool!remove(u, a)
  <2>1. pool'.from = pool.from /\ pool'.to = pool.to - a /\ totalSupply' = totalSupply - a
    BY <1>6 DEF Pool!remove
  <2>2. (totalSupply - a) * R = totalSupply * R - a * R
        /\ (pool.to - a) * R = pool.to * R - a * R /\ a * R \in Nat
        /\ totalSupply * R \in Nat /\ pool.to * R \in Nat /\ pool.from * R \in Nat
    BY <1>1, <1>3, <1>h, Products
  <2> QED BY <1>1, <1>2, <1>3, <1>h, <2>1, <2>2 DEF Pool!PoolIsSolvent
<1>7. CASE Pool!claim(u, a)
  <2> DEFINE c == Pool!Claimed(a)
  <2>1. pool'.from = pool.from - c /\ pool'.to = pool.to /\ totalSupply' = totalSupply - a
    BY <1>7 DEF Pool!claim
  <2>2. (totalSupply - a) * R = totalSupply * R - a * R
        /\ (pool.from - c) * R = pool.from * R - c * R
        /\ a * R \in Nat /\ c * R \in Nat
        /\ totalSupply * R \in Nat /\ pool.to * R \in Nat /\ pool.from * R \in Nat
    BY <1>1, <1>3, <1>h, Products
  <2> HIDE DEF c
  <2> QED BY <1>1, <1>2, <1>3, <1>h, <2>1, <2>2 DEF Pool!PoolIsSolvent, c
<1>8. CASE Pool!migrate(u, a)
  <2> DEFINE m == Pool!Migrated(a)
  <2>1. pool'.from = pool.from + a /\ pool'.to = pool.to - m /\ totalSupply' = totalSupply
    BY <1>8 DEF Pool!migrate
  <2>2. (pool.from + a) * R = pool.from * R + a * R
        /\ (pool.to - m) * R = pool.to * R - m * R
        /\ a * R \in Nat /\ m * R \in Nat
        /\ totalSupply * R \in Nat /\ pool.to * R \in Nat /\ pool.from * R \in Nat
    BY <1>1, <1>3, <1>h, Products
  <2> QED BY <1>1, <1>2, <1>3, <1>h, <2>1, <2>2 DEF Pool!PoolIsSolvent
<1> QED BY <1>4, <1>5, <1>6, <1>7, <1>8 DEF Pool!Execute

LEMMA NextSolvent ==
    Pool!ConstantsOK /\ Pool!TypeOK /\ Pool!PoolIsSolvent
        /\ [Pool!Next]_(Pool!poolVars)
      => Pool!PoolIsSolvent'
<1> SUFFICES ASSUME Pool!ConstantsOK, Pool!TypeOK, Pool!PoolIsSolvent,
                    [Pool!Next]_(Pool!poolVars)
             PROVE  Pool!PoolIsSolvent'
  OBVIOUS
<1>c. ContractOK
  BY DEF Pool!TypeOK, ContractOK
<1>s. ASSUME UNCHANGED Pool!contractVars PROVE Pool!PoolIsSolvent'
  BY <1>s DEF Pool!contractVars, Pool!PoolIsSolvent, Pool!Ratio
<1>1. CASE Pool!Mined
  <2>1. txs # <<>> /\ Head(txs) \in Pool!Txs
    BY <1>1 DEF Pool!Mined, Pool!TypeOK
  <2> QED BY <1>1, <1>c, <1>s, <2>1, ExecuteSolvent DEF Pool!Mined
<1>2. ASSUME NEW tx \in Pool!Others, Pool!OtherCalls(tx) PROVE Pool!PoolIsSolvent'
  BY <1>2, <1>c, ExecuteSolvent, OthersAreTxs DEF Pool!OtherCalls
<1>3. CASE UNCHANGED Pool!contractVars
  BY <1>3, <1>s
<1> QED BY <1>1, <1>2, <1>3 DEF Pool!Next, Pool!Read, Pool!ReadFails, Pool!forceRefresh,
      Pool!OperationClick,
        Pool!PageAnswers, Pool!ApprovalAnswer, Pool!CallAnswer, Pool!poolVars

\* The pool is worth at least its shares, for all decimals of the two tokens,
\* in whatever order its users deposit, exchange, remove and claim.
THEOREM Solvent == Pool!ConstantsOK => (Pool!Spec => []Pool!PoolIsSolvent)
<1> SUFFICES ASSUME Pool!ConstantsOK PROVE Pool!Spec => []Pool!PoolIsSolvent
  OBVIOUS
<1>1. Pool!Init => Pool!TypeOK /\ Pool!PoolIsSolvent
  BY InitTypeOK, InitSolvent
<1>2. (Pool!TypeOK /\ Pool!PoolIsSolvent) /\ [Pool!Next]_(Pool!poolVars)
      => (Pool!TypeOK /\ Pool!PoolIsSolvent)'
  BY NextTypeOK, NextSolvent
<1> QED BY <1>1, <1>2, PTL DEF Pool!Spec

-----------------------------------------------------------------------------
(***************************************************************************)
(* The origin verifier: one hook                                           *)
(***************************************************************************)

\* A hook that is rendered with questions of Q and asks those of A.
Hooks(Q, A) ==
    [prev : Q \cup {Nil}, data : A \cup {Nil}, error : BOOLEAN, isLoading : BOOLEAN,
     on : Q \X BOOLEAN \X BOOLEAN, calls : SUBSET [question : A, at : 0 .. MaxChanges]]

\* What the effect runs on while question q has an answer, and while it has none.
Answering(q) == <<q, TRUE, TRUE>>

Unanswered(q, canAsk) == IF canAsk THEN <<q, FALSE, FALSE>> ELSE <<q, TRUE, FALSE>>

\* A hook h that was rendered with question q has its effect run on q and on
\* what it is said to answer; the answer it keeps is for what it is said to be
\* for; and a question that can be asked and is not answered was asked and has
\* not ended, or has failed.
Follows(h, q, canAsk) ==
    /\ h.on = IF h.prev = q THEN Answering(q) ELSE Unanswered(q, canAsk)
    /\ h.data # Nil /\ h.prev # Nil => h.data = h.prev
    /\ canAsk /\ h.prev # q => h.error \/ \E c \in h.calls : c.question = q

LEMMA OnValues ==
    ASSUME NEW q, NEW can \in BOOLEAN
    PROVE  /\ \A Q : q \in Q => /\ Answering(q) \in Q \X BOOLEAN \X BOOLEAN
                              /\ Unanswered(q, can) \in Q \X BOOLEAN \X BOOLEAN
           /\ \A p : Answering(p) # Unanswered(q, can)
BY DEF Answering, Unanswered

LEMMA OnDiffers ==
    ASSUME NEW q, NEW p, NEW can \in BOOLEAN, NEW could \in BOOLEAN,
           Unanswered(q, can) = Unanswered(p, could)
    PROVE  q = p /\ can = could
BY DEF Unanswered

\* The two cases of the effect.
LEMMA AskAnswered ==
    ASSUME NEW Q, NEW A \in SUBSET Q, NEW h \in Hooks(Q, A), NEW q \in Q,
           NEW can \in BOOLEAN, NEW now, h.prev = q
    PROVE  LET a == Verifier!Ask(h, q, can, now)
           IN  /\ a \in Hooks(Q, A)
               /\ a.on = Answering(q) /\ a.prev = q /\ a.data = h.data
<1> DEFINE on == <<q, ~(can /\ h.prev # q), h.prev = q>>
           error == h.error /\ h.prev = q
           isLoading == h.isLoading \/ (can /\ h.prev # q)
           loads == h.calls \cup {c \in {[question |-> q, at |-> now]} :
                                     can /\ h.prev # q}
           new == [prev |-> q, data |-> h.data, error |-> error,
                   isLoading |-> isLoading, on |-> on, calls |-> loads]
<1>1. on = Answering(q)
  BY DEF Answering
<1>2. CASE on = h.on
  <2>1. Verifier!Ask(h, q, can, now) = h
    BY <1>2 DEF Verifier!Ask
  <2> QED
    BY <1>1, <1>2, <2>1
<1>3. CASE on # h.on
  <2>1. Verifier!Ask(h, q, can, now) = new
    BY <1>3 DEF Verifier!Ask
  <2>2. loads = h.calls /\ error \in BOOLEAN /\ isLoading \in BOOLEAN
    OBVIOUS
  <2>o. on \in Q \X BOOLEAN \X BOOLEAN
    BY <1>1, OnValues
  <2> HIDE DEF on, loads, error, isLoading
  <2>3. new \in Hooks(Q, A)
    BY <2>2, <2>o DEF Hooks
  <2>4. new.on = on /\ new.prev = q /\ new.data = h.data
    OBVIOUS
  <2> HIDE DEF new
  <2> QED
    BY <1>1, <2>1, <2>3, <2>4
<1> QED
  BY <1>2, <1>3

LEMMA AskOther ==
    ASSUME NEW Q, NEW A \in SUBSET Q, NEW h \in Hooks(Q, A), NEW q \in Q,
           NEW can \in BOOLEAN, NEW now \in 0 .. MaxChanges, can => q \in A, h.prev # q
    PROVE  LET a == Verifier!Ask(h, q, can, now)
           IN  /\ a \in Hooks(Q, A) /\ a.on = Unanswered(q, can)
               /\ \/ a = h
                  \/ /\ a.prev = Nil /\ a.data = Nil /\ h.on # Unanswered(q, can)
                     /\ can => [question |-> q, at |-> now] \in a.calls
<1> DEFINE on == <<q, ~(can /\ h.prev # q), h.prev = q>>
           error == h.error /\ h.prev = q
           isLoading == h.isLoading \/ (can /\ h.prev # q)
           loads == h.calls \cup {c \in {[question |-> q, at |-> now]} :
                                     can /\ h.prev # q}
           new == [prev |-> Nil, data |-> Nil, error |-> error,
                   isLoading |-> isLoading, on |-> on, calls |-> loads]
<1>1. on = Unanswered(q, can)
  BY DEF Unanswered
<1>2. CASE on = h.on
  <2>1. Verifier!Ask(h, q, can, now) = h
    BY <1>2 DEF Verifier!Ask
  <2> QED
    BY <1>1, <1>2, <2>1
<1>3. CASE on # h.on
  <2>1. Verifier!Ask(h, q, can, now) = new
    BY <1>3 DEF Verifier!Ask
  <2>2. error \in BOOLEAN /\ isLoading \in BOOLEAN
    OBVIOUS
  <2>3. /\ loads \subseteq [question : A, at : 0 .. MaxChanges]
        /\ can => [question |-> q, at |-> now] \in loads
    BY DEF Hooks
  <2>o. on \in Q \X BOOLEAN \X BOOLEAN
    BY <1>1, OnValues
  <2> HIDE DEF on, loads, error, isLoading
  <2>4. new \in Hooks(Q, A)
    BY <2>2, <2>3, <2>o DEF Hooks
  <2>5. new.on = on /\ new.prev = Nil /\ new.data = Nil /\ new.calls = loads
    OBVIOUS
  <2> HIDE DEF new
  <2> QED
    BY <1>1, <1>3, <2>1, <2>3, <2>4, <2>5
<1> QED
  BY <1>2, <1>3

\* What a rendering with another question, or another wallet, leaves.
LEMMA AskFollows ==
    ASSUME NEW Q, NEW A \in SUBSET Q, NEW h \in Hooks(Q, A), NEW q \in Q,
           NEW can \in BOOLEAN, NEW now \in 0 .. MaxChanges, can => q \in A,
           NEW p, NEW could \in BOOLEAN, Follows(h, p, could), Nil \notin Q
    PROVE  /\ Verifier!Ask(h, q, can, now) \in Hooks(Q, A)
           /\ Follows(Verifier!Ask(h, q, can, now), q, can)
<1> DEFINE a == Verifier!Ask(h, q, can, now)
<1>1. CASE h.prev = q
  <2>1. /\ a \in Hooks(Q, A)
        /\ a.on = Answering(q) /\ a.prev = q /\ a.data = h.data
    BY <1>1, AskAnswered
  <2> HIDE DEF a
  <2>2. Follows(a, q, can)
    BY <1>1, <2>1 DEF Follows
  <2> QED
    BY <2>1, <2>2 DEF a
<1>2. CASE h.prev # q
  <2>1. /\ a \in Hooks(Q, A) /\ a.on = Unanswered(q, can)
        /\ \/ a = h
           \/ /\ a.prev = Nil /\ a.data = Nil
              /\ can => [question |-> q, at |-> now] \in a.calls
    BY <1>2, AskOther
  <2> HIDE DEF a
  <2>2. CASE a = h
    <3>1. h.prev # p
      BY <2>1, <2>2, OnValues DEF Follows
    <3>2. q = p /\ (can => could)
      BY <2>1, <2>2, <3>1, OnDiffers DEF Follows
    <3> QED
      BY <1>2, <2>1, <2>2, <3>2 DEF Follows, a
  <2>3. CASE a.prev = Nil /\ a.data = Nil /\
             (can => [question |-> q, at |-> now] \in a.calls)
    <3>1. Follows(a, q, can)
      BY <2>1, <2>3 DEF Follows
    <3> QED
      BY <2>1, <3>1 DEF a
  <2> QED
    BY <2>1, <2>2, <2>3
<1> QED
  BY <1>1, <1>2

\* An answer, to whatever question it is; this is where a late one shows.
LEMMA AnsweredFollows ==
    ASSUME NEW Q, NEW A \in SUBSET Q, NEW h \in Hooks(Q, A), NEW q \in Q,
           NEW can \in BOOLEAN, NEW now \in 0 .. MaxChanges, can => q \in A,
           NEW c \in h.calls, Follows(h, q, can), Nil \notin Q
    PROVE  /\ Verifier!Answered(h, c, q, can, now) \in Hooks(Q, A)
           /\ Follows(Verifier!Answered(h, c, q, can, now), q, can)
<1> DEFINE h1 == [h EXCEPT !.prev = c.question, !.isLoading = FALSE, !.calls = @ \ {c}]
           a == Verifier!Ask(h1, q, can, now)
           r == [a EXCEPT !.data = c.question]
<1>c. c.question \in A
  BY DEF Hooks
<1>h. /\ h1 \in Hooks(Q, A) /\ h1.on = h.on /\ h1.prev = c.question
      /\ h1.calls = h.calls \ {c} /\ h1.error = h.error
  BY <1>c DEF Hooks
<1>r. Verifier!Answered(h, c, q, can, now) = r
  BY DEF Verifier!Answered
<1> HIDE DEF h1
<1>a. a \in Hooks(Q, A) =>
        /\ r \in Hooks(Q, A) /\ r.data = c.question /\ r.prev = a.prev
        /\ r.on = a.on /\ r.error = a.error /\ r.calls = a.calls
  <2> HIDE DEF a
  <2> QED
    BY <1>c DEF Hooks
<1>1. CASE c.question = q
  <2>1. /\ a \in Hooks(Q, A) /\ a.on = Answering(q) /\ a.prev = q
    BY <1>1, <1>h, AskAnswered
  <2> HIDE DEF a
  <2>2. r \in Hooks(Q, A) /\ r.data = q /\ r.prev = q /\ r.on = Answering(q)
    BY <1>1, <1>a, <2>1
  <2> HIDE DEF r
  <2> QED
    BY <1>r, <2>2 DEF Follows
<1>2. CASE c.question # q
  <2>1. /\ a \in Hooks(Q, A) /\ a.on = Unanswered(q, can)
        /\ \/ a = h1
           \/ /\ a.prev = Nil
              /\ can => [question |-> q, at |-> now] \in a.calls
    BY <1>2, <1>h, AskOther
  <2> HIDE DEF a
  <2>2. /\ r \in Hooks(Q, A) /\ r.data = c.question /\ r.prev = a.prev
        /\ r.on = Unanswered(q, can) /\ r.error = a.error /\ r.calls = a.calls
    BY <1>a, <2>1
  <2> HIDE DEF r
  <2>3. CASE a = h1
    <3>1. h.on = Unanswered(q, can)
      BY <1>h, <2>1, <2>3
    <3>2. h.prev # q
      BY <3>1, OnValues DEF Follows
    <3>3. can => h.error \/ \E x \in h.calls \ {c} : x.question = q
      BY <1>2, <3>2 DEF Follows
    <3> QED
      BY <1>2, <1>h, <1>r, <2>2, <2>3, <3>3 DEF Follows
  <2>4. CASE a.prev = Nil /\ (can => [question |-> q, at |-> now] \in a.calls)
    BY <1>r, <2>2, <2>4 DEF Follows
  <2> QED
    BY <2>1, <2>3, <2>4
<1> QED
  BY <1>1, <1>2

\* A call that fails.
LEMMA FailedFollows ==
    ASSUME NEW Q, NEW A \in SUBSET Q, NEW h \in Hooks(Q, A), NEW q, NEW can, NEW c,
           Follows(h, q, can)
    PROVE  /\ Verifier!Failed(h, c) \in Hooks(Q, A)
           /\ Follows(Verifier!Failed(h, c), q, can)
<1> DEFINE f == Verifier!Failed(h, c)
<1>1. /\ f \in Hooks(Q, A) /\ f.on = h.on /\ f.prev = h.prev /\ f.data = h.data
      /\ f.error = TRUE
  BY DEF Verifier!Failed, Hooks
<1> HIDE DEF f
<1>2. Follows(f, q, can)
  BY <1>1 DEF Follows
<1> QED
  BY <1>1, <1>2 DEF f

-----------------------------------------------------------------------------
(***************************************************************************)
(* The origin verifier: the page                                           *)
(***************************************************************************)

CanAskOrigin == Verifier!CanAskOrigin(primary, network)

ForeignQuestion == Verifier!ForeignQuestion(origin, secondary)

CanAskForeign == Verifier!CanAskForeign(ForeignQuestion, network)

OriginHooks == Hooks(Verifier!Questions, Verifier!Tokens)

ForeignHooks == Hooks(Verifier!ForeignQuestions, Verifier!ForeignQuestions)

\* Both hooks follow what is asked.
VerifierInv ==
    /\ primary \in Verifier!Questions /\ secondary \in VerifierChains \ {primary.chain}
    /\ network \in VerifierChains /\ changes \in 0 .. MaxChanges
    /\ origin \in OriginHooks /\ Follows(origin, primary, CanAskOrigin)
    /\ foreign \in ForeignHooks /\ Follows(foreign, ForeignQuestion, CanAskForeign)

LEMMA QuestionsOK ==
    ASSUME Verifier!ConstantsOK
    PROVE  /\ Verifier!Tokens \subseteq Verifier!Questions
           /\ \A q \in Verifier!Questions : \A net :
                /\ Verifier!CanAskOrigin(q, net) \in BOOLEAN
                /\ Verifier!CanAskOrigin(q, net) => q \in Verifier!Tokens
           /\ \A q, net : Verifier!CanAskForeign(q, net) \in BOOLEAN
           /\ \A o \in OriginHooks, c \in VerifierChains :
                Verifier!ForeignQuestion(o, c) \in Verifier!ForeignQuestions
           /\ Nil \notin Verifier!Questions /\ Nil \notin Verifier!ForeignQuestions
<1>1. Verifier!Tokens \subseteq Verifier!Questions
  BY DEF Verifier!Tokens, Verifier!Questions
<1>2. ASSUME NEW q \in Verifier!Questions, NEW net, Verifier!CanAskOrigin(q, net)
      PROVE  q \in Verifier!Tokens
  BY <1>2 DEF Verifier!Tokens, Verifier!Questions, Verifier!CanAskOrigin
<1>3. ASSUME NEW o \in OriginHooks, NEW c \in VerifierChains
      PROVE  Verifier!ForeignQuestion(o, c) \in Verifier!ForeignQuestions
  <2>1. o.data \in Verifier!Tokens \cup {Nil}
    BY DEF OriginHooks, Hooks
  <2>2. (IF o.data = Nil THEN Nil ELSE OriginOf[o.data]) \in Verifier!Tokens \cup {Nil}
    BY <2>1 DEF Verifier!ConstantsOK
  <2> QED
    BY <2>2 DEF Verifier!ForeignQuestion, Verifier!ForeignQuestions
<1>4. \A q, net : /\ Verifier!CanAskOrigin(q, net) \in BOOLEAN
                  /\ Verifier!CanAskForeign(q, net) \in BOOLEAN
  BY DEF Verifier!CanAskOrigin, Verifier!CanAskForeign
<1> QED
  BY <1>1, <1>2, <1>3, <1>4 DEF Verifier!ConstantsOK

\* A rendering.
LEMMA RendersFollows ==
    ASSUME Verifier!ConstantsOK, NEW q \in Verifier!Questions,
           NEW o \in OriginHooks, NEW p, NEW could \in BOOLEAN, Follows(o, p, could),
           NEW f \in ForeignHooks, NEW fp, NEW fcould \in BOOLEAN, Follows(f, fp, fcould),
           NEW c \in VerifierChains \ {q.chain}, NEW net \in VerifierChains,
           NEW now \in 0 .. MaxChanges,
           Verifier!Renders(q, o, f, c, net, now), changes' = now
    PROVE  VerifierInv'
<1> DEFINE asked == Verifier!Ask(o, q, Verifier!CanAskOrigin(q, net), now)
           fq == Verifier!ForeignQuestion(asked, c)
           fasked == Verifier!Ask(f, fq, Verifier!CanAskForeign(fq, net), now)
<1>1. asked \in OriginHooks /\ Follows(asked, q, Verifier!CanAskOrigin(q, net))
  <2> DEFINE can == Verifier!CanAskOrigin(q, net)
  <2>1. can \in BOOLEAN /\ (can => q \in Verifier!Tokens)
    BY QuestionsOK
  <2> HIDE DEF can
  <2> QED
    BY <2>1, QuestionsOK, AskFollows DEF OriginHooks
<1>2. primary' = q /\ secondary' = c /\ network' = net /\ origin' = asked
      /\ foreign' = fasked
  BY DEF Verifier!Renders
<1> HIDE DEF asked
<1>3. fq \in Verifier!ForeignQuestions
  BY <1>1, QuestionsOK
<1>4. fasked \in ForeignHooks /\ Follows(fasked, fq, Verifier!CanAskForeign(fq, net))
  <2> DEFINE can == Verifier!CanAskForeign(fq, net)
  <2>1. can \in BOOLEAN
    BY QuestionsOK
  <2> HIDE DEF can, fq
  <2> QED
    BY <1>3, <2>1, QuestionsOK, AskFollows DEF ForeignHooks
<1>5. CanAskOrigin' = Verifier!CanAskOrigin(q, net)
  BY <1>2 DEF CanAskOrigin, Verifier!CanAskOrigin, Verifier!isReady
<1>6. ForeignQuestion' = fq
  BY <1>2 DEF ForeignQuestion, Verifier!ForeignQuestion
<1>7. CanAskForeign' = Verifier!CanAskForeign(fq, net)
  BY <1>2, <1>6 DEF CanAskForeign, Verifier!CanAskForeign, Verifier!isReady
<1> HIDE DEF fq, fasked
<1> QED
  BY <1>1, <1>2, <1>4, <1>5, <1>6, <1>7 DEF VerifierInv, Follows, OriginHooks,
      ForeignHooks, Hooks

\* A hook that is rendered for the first time, with nothing to ask.
LEMMA UnaskedFollows ==
    ASSUME NEW Q, NEW A \in SUBSET Q, NEW q \in Q, NEW now, Nil \notin Q
    PROVE  LET a == Verifier!Ask(Verifier!Unasked, q, FALSE, now)
           IN  a \in Hooks(Q, A) /\ Follows(a, q, FALSE) /\ a.data = Nil
<1> DEFINE u == Verifier!Unasked
           a == Verifier!Ask(u, q, FALSE, now)
           on == Unanswered(q, FALSE)
<1>1. on \in Q \X BOOLEAN \X BOOLEAN
  BY OnValues
<1>2. u.prev = Nil /\ u.data = Nil /\ u.error = FALSE /\ u.isLoading = FALSE /\ u.calls = {}
  BY DEF Verifier!Unasked
<1>3. \/ a = u /\ u.on = on
      \/ a = [prev |-> Nil, data |-> Nil, error |-> FALSE, isLoading |-> FALSE,
              on |-> on, calls |-> {}]
  <2> HIDE DEF u
  <2> QED
    BY <1>2 DEF Verifier!Ask, Unanswered
<1>4. a = [prev |-> Nil, data |-> Nil, error |-> FALSE, isLoading |-> FALSE,
           on |-> on, calls |-> {}]
  <2> HIDE DEF a, on
  <2> QED
    BY <1>3 DEF Verifier!Unasked
<1> HIDE DEF a
<1>5. /\ a.prev = Nil /\ a.data = Nil /\ a.error = FALSE /\ a.on = on
      /\ a.calls = {}
  <2> HIDE DEF on
  <2> QED
    BY <1>4
<1>6. a \in Hooks(Q, A)
  <2> HIDE DEF on
  <2> QED
    BY <1>1, <1>4 DEF Hooks
<1>7. Follows(a, q, FALSE)
  <2> HIDE DEF on
  <2>1. a.on = Unanswered(q, FALSE)
    BY <1>5 DEF on
  <2> QED
    BY <1>5, <2>1 DEF Follows
<1> QED
  BY <1>5, <1>6, <1>7 DEF a

LEMMA VerifierInit ==
    ASSUME Verifier!ConstantsOK, Verifier!Init
    PROVE  VerifierInv
<1>1. primary \in Verifier!Questions /\ primary.asset = Nil
      /\ primary.chain = DefaultPrimary
  BY DEF Verifier!Init, Verifier!ConstantsOK, Verifier!Questions
<1>2. /\ secondary \in VerifierChains \ {primary.chain} /\ network \in VerifierChains
      /\ changes \in 0 .. MaxChanges
  BY <1>1 DEF Verifier!Init, Verifier!ConstantsOK
<1>3. origin \in OriginHooks /\ Follows(origin, primary, FALSE) /\ origin.data = Nil
  <2>1. origin = Verifier!Ask(Verifier!Unasked, primary, FALSE, 0)
    BY DEF Verifier!Init
  <2> QED
    BY <1>1, <2>1, QuestionsOK, UnaskedFollows DEF OriginHooks
<1>4. ForeignQuestion \in Verifier!ForeignQuestions /\ ForeignQuestion.token = Nil
  <2>1. ForeignQuestion \in Verifier!ForeignQuestions
    BY <1>2, <1>3, QuestionsOK DEF ForeignQuestion
  <2> QED
    BY <1>3, <2>1 DEF ForeignQuestion, Verifier!ForeignQuestion
<1>5. foreign \in ForeignHooks /\ Follows(foreign, ForeignQuestion, FALSE)
  <2>1. foreign = Verifier!Ask(Verifier!Unasked, ForeignQuestion, FALSE, 0)
    BY DEF Verifier!Init, ForeignQuestion
  <2> QED
    BY <1>4, <2>1, QuestionsOK, UnaskedFollows DEF ForeignHooks
<1>6. CanAskOrigin = FALSE /\ CanAskForeign = FALSE
  BY <1>1, <1>4 DEF CanAskOrigin, CanAskForeign, Verifier!CanAskOrigin,
      Verifier!CanAskForeign
<1> QED
  BY <1>1, <1>2, <1>3, <1>5, <1>6 DEF VerifierInv

\* Every step.
LEMMA VerifierNext ==
    ASSUME Verifier!ConstantsOK, VerifierInv, [Verifier!Next]_(Verifier!verifierVars)
    PROVE  VerifierInv'
<1> USE DEF VerifierInv
<1>b. CanAskOrigin \in BOOLEAN /\ CanAskForeign \in BOOLEAN
  BY QuestionsOK DEF CanAskOrigin, CanAskForeign
<1>q. ForeignQuestion \in Verifier!ForeignQuestions
  BY QuestionsOK DEF ForeignQuestion
<1>c. Verifier!Change => changes + 1 \in 0 .. MaxChanges /\ changes' = changes + 1
  BY DEF Verifier!Change, Verifier!ConstantsOK
<1>1. ASSUME NEW c \in VerifierChains, Verifier!ChoosePrimaryChain(c)
      PROVE  VerifierInv'
  <2> DEFINE q == [chain |-> c, asset |-> Nil]
             other == IF secondary # c THEN secondary
                      ELSE IF c = DefaultPrimary THEN DefaultSecondary ELSE DefaultPrimary
  <2>1. q \in Verifier!Questions /\ q.chain = c
    BY DEF Verifier!Questions
  <2>2. other \in VerifierChains \ {q.chain}
    BY DEF Verifier!ConstantsOK
  <2>3. Verifier!Renders(q, origin, foreign, other, network, changes + 1)
    BY <1>1 DEF Verifier!ChoosePrimaryChain
  <2>4. changes' = changes + 1 /\ changes + 1 \in 0 .. MaxChanges
    BY <1>1, <1>c DEF Verifier!ChoosePrimaryChain
  <2> HIDE DEF q, other
  <2> QED
    BY <1>b, <2>1, <2>2, <2>3, <2>4, RendersFollows
<1>2. ASSUME NEW asset \in Assets \cup {Nil}, Verifier!TypePrimaryAsset(asset)
      PROVE  VerifierInv'
  <2> DEFINE q == [primary EXCEPT !.asset = asset]
  <2>1. q \in Verifier!Questions /\ q.chain = primary.chain
    BY DEF Verifier!Questions
  <2>2. Verifier!Renders(q, origin, foreign, secondary, network, changes + 1)
    BY <1>2 DEF Verifier!TypePrimaryAsset
  <2>3. changes' = changes + 1 /\ changes + 1 \in 0 .. MaxChanges
    BY <1>2, <1>c DEF Verifier!TypePrimaryAsset
  <2> HIDE DEF q
  <2> QED
    BY <1>b, <2>1, <2>2, <2>3, RendersFollows
<1>3. ASSUME NEW c \in VerifierChains, Verifier!ChooseSecondaryChain(c)
      PROVE  VerifierInv'
  <2>1. Verifier!Renders(primary, origin, foreign, c, network, changes + 1)
    BY <1>3 DEF Verifier!ChooseSecondaryChain
  <2>2. c \in VerifierChains \ {primary.chain} /\ changes' = changes + 1
        /\ changes + 1 \in 0 .. MaxChanges
    BY <1>3, <1>c DEF Verifier!ChooseSecondaryChain
  <2> QED
    BY <1>b, <2>1, <2>2, RendersFollows
<1>4. ASSUME NEW c \in VerifierChains, Verifier!SwitchNetwork(c)
      PROVE  VerifierInv'
  <2>1. Verifier!Renders(primary, origin, foreign, secondary, c, changes + 1)
    BY <1>4 DEF Verifier!SwitchNetwork
  <2>2. changes' = changes + 1 /\ changes + 1 \in 0 .. MaxChanges
    BY <1>4, <1>c DEF Verifier!SwitchNetwork
  <2> QED
    BY <1>b, <2>1, <2>2, RendersFollows
<1>5. ASSUME NEW c \in origin.calls, Verifier!OriginAnswer(c)
      PROVE  VerifierInv'
  <2> DEFINE o == Verifier!Answered(origin, c, primary, CanAskOrigin, changes)
  <2>1. CanAskOrigin => primary \in Verifier!Tokens
    BY QuestionsOK DEF CanAskOrigin
  <2>2. o \in OriginHooks /\ Follows(o, primary, CanAskOrigin)
    BY <1>b, <2>1, QuestionsOK, AnsweredFollows DEF OriginHooks
  <2>3. Verifier!Renders(primary, o, foreign, secondary, network, changes)
        /\ changes' = changes
    BY <1>5 DEF Verifier!OriginAnswer, CanAskOrigin
  <2> HIDE DEF o
  <2> QED
    BY <1>b, <2>2, <2>3, RendersFollows
<1>6. ASSUME NEW c \in origin.calls, Verifier!OriginFails(c)
      PROVE  VerifierInv'
  <2> DEFINE o == Verifier!Failed(origin, c)
  <2>1. o \in OriginHooks /\ Follows(o, primary, CanAskOrigin)
    BY QuestionsOK, FailedFollows DEF OriginHooks
  <2>2. Verifier!Renders(primary, o, foreign, secondary, network, changes)
        /\ changes' = changes
    BY <1>6 DEF Verifier!OriginFails
  <2> HIDE DEF o
  <2> QED
    BY <1>b, <2>1, <2>2, RendersFollows
<1>7. ASSUME NEW c \in foreign.calls, Verifier!ForeignAnswer(c)
      PROVE  VerifierInv'
  <2> DEFINE g == Verifier!Answered(foreign, c, ForeignQuestion, CanAskForeign, changes)
             f == [g EXCEPT !.isLoading = FALSE]
  <2>1. g \in ForeignHooks /\ Follows(g, ForeignQuestion, CanAskForeign)
    BY <1>b, <1>q, QuestionsOK, AnsweredFollows DEF ForeignHooks
  <2>2. Verifier!Renders(primary, origin, f, secondary, network, changes)
        /\ changes' = changes
    BY <1>7 DEF Verifier!ForeignAnswer, ForeignQuestion, CanAskForeign
  <2> HIDE DEF g
  <2>3. /\ f \in ForeignHooks /\ f.on = g.on /\ f.prev = g.prev /\ f.data = g.data
        /\ f.error = g.error /\ f.calls = g.calls
    BY <2>1 DEF ForeignHooks, Hooks
  <2> HIDE DEF f
  <2>4. Follows(f, ForeignQuestion, CanAskForeign)
    BY <2>1, <2>3 DEF Follows
  <2> QED
    BY <1>b, <2>2, <2>3, <2>4, RendersFollows
<1>8. ASSUME NEW c \in foreign.calls, Verifier!ForeignFails(c)
      PROVE  VerifierInv'
  <2> DEFINE f == Verifier!Failed(foreign, c)
  <2>1. f \in ForeignHooks /\ Follows(f, ForeignQuestion, CanAskForeign)
    BY QuestionsOK, FailedFollows DEF ForeignHooks
  <2>2. Verifier!Renders(primary, origin, f, secondary, network, changes)
        /\ changes' = changes
    BY <1>8 DEF Verifier!ForeignFails
  <2> HIDE DEF f
  <2> QED
    BY <1>b, <2>1, <2>2, RendersFollows
<1>9. CASE UNCHANGED Verifier!verifierVars
  BY <1>9 DEF Verifier!verifierVars, CanAskOrigin, ForeignQuestion, CanAskForeign,
     Verifier!CanAskOrigin, Verifier!CanAskForeign, Verifier!ForeignQuestion,
     Verifier!isReady, Follows, OriginHooks, ForeignHooks, Hooks
<1> HIDE DEF VerifierInv
<1> QED
  BY <1>1, <1>2, <1>3, <1>4, <1>5, <1>6, <1>7, <1>8, <1>9
  DEF Verifier!Next, Verifier!OriginEnds, Verifier!ForeignEnds

-----------------------------------------------------------------------------
(***************************************************************************)
(* The origin verifier: what it promises                                   *)
(***************************************************************************)

LEMMA VerifierInvariance == Verifier!ConstantsOK => (Verifier!Spec => []VerifierInv)
<1> SUFFICES ASSUME Verifier!ConstantsOK
             PROVE  Verifier!Spec => []VerifierInv
  OBVIOUS
<1>1. Verifier!Init => VerifierInv
  BY VerifierInit
<1>2. VerifierInv /\ [Verifier!Next]_(Verifier!verifierVars) => VerifierInv'
  BY VerifierNext
<1> QED
  BY <1>1, <1>2, PTL DEF Verifier!Spec

LEMMA VerifierInvMeans ==
    ASSUME Verifier!ConstantsOK, VerifierInv
    PROVE  Verifier!TypeOK /\ Verifier!AnswerIsForQuestion
<1>1. Verifier!HookOK(origin, Verifier!Questions)
  BY QuestionsOK DEF VerifierInv, OriginHooks, Hooks, Verifier!HookOK
<1>2. Verifier!HookOK(foreign, Verifier!ForeignQuestions)
  BY DEF VerifierInv, ForeignHooks, Hooks, Verifier!HookOK
<1>3. Verifier!TypeOK
  BY <1>1, <1>2 DEF VerifierInv, Verifier!TypeOK
<1>4. ASSUME origin.calls = {}, origin.data # Nil, ~origin.error,
             Verifier!CanAskOrigin(primary, network)
      PROVE  origin.data = primary
  BY <1>4, QuestionsOK DEF VerifierInv, Follows, CanAskOrigin
<1>5. ASSUME foreign.calls = {}, foreign.data # Nil, ~foreign.error, CanAskForeign
      PROVE  foreign.data = ForeignQuestion
  <2>1. ForeignQuestion \in Verifier!ForeignQuestions
    BY QuestionsOK DEF VerifierInv, ForeignQuestion
  <2> QED
    BY <1>5, <2>1, QuestionsOK DEF VerifierInv, Follows
<1> QED
  BY <1>3, <1>4, <1>5 DEF Verifier!AnswerIsForQuestion, ForeignQuestion, CanAskForeign

\* The verifier's variables have their types, in every state, and its two
\* chains differ (handlePrimaryChainChange, handleSecondaryChainChange).
THEOREM VerifierTypeCorrect ==
    Verifier!ConstantsOK => (Verifier!Spec => []Verifier!TypeOK)
<1> SUFFICES ASSUME Verifier!ConstantsOK
             PROVE  Verifier!Spec => []Verifier!TypeOK
  OBVIOUS
<1>1. VerifierInv => Verifier!TypeOK
  BY VerifierInvMeans
<1>2. Verifier!Spec => []VerifierInv
  BY VerifierInvariance
<1> QED
  BY <1>1, <1>2, PTL

\* When nothing is being looked up, what the verifier shows without an error
\* answers the question that is asked, whatever order the answers came in and
\* however often the token, the chain and the network changed meanwhile
\* (argsEqual and setArgs of useOriginalAsset and useFetchForeignAsset).
THEOREM AnswersQuestion ==
    Verifier!ConstantsOK => (Verifier!Spec => []Verifier!AnswerIsForQuestion)
<1> SUFFICES ASSUME Verifier!ConstantsOK
             PROVE  Verifier!Spec => []Verifier!AnswerIsForQuestion
  OBVIOUS
<1>1. VerifierInv => Verifier!AnswerIsForQuestion
  BY VerifierInvMeans
<1>2. Verifier!Spec => []VerifierInv
  BY VerifierInvariance
<1> QED
  BY <1>1, <1>2, PTL

-----------------------------------------------------------------------------
(***************************************************************************)
(* The token list: a rendering                                             *)
(***************************************************************************)

EVMs    == {c \in Chains : Kind[c] = "evm"}
Solanas == {c \in Chains : Kind[c] = "solana"}

\* The coins that are kept, and the lists of a wallet on a chain of its kind.
Coins       == [chain : EVMs, wallet : Wallets["evm"], isNative : {TRUE}]
EVMLists    == [is : {"data"}, chain : EVMs, wallet : Wallets["evm"]]
SolanaLists == [is : {"data"}, chain : Solanas, wallet : Wallets["solana"]]
AllLists    == EVMLists \cup SolanaLists \cup
                   {List!Unloaded(why) : why \in {"empty", "fetching", "error"}}

Slices == [chain : Chains, selected : List!Accounts \cup {Nil},
           owner : List!AnyWallet \cup {Nil}, list : AllLists]

Components ==
    [covalent : BOOLEAN, covalentOn : (Chains \X Wallets["evm"] \X BOOLEAN) \cup {Nil},
     covalentBusy : BOOLEAN, native : Coins \cup {Nil},
     nativeOn : (Chains \X Wallets["evm"] \X (Coins \cup {Nil})) \cup {Nil},
     nativeBusy : BOOLEAN, nativeLoading : BOOLEAN, nativeFailed : BOOLEAN,
     mints : Wallets["solana"] \cup {Nil}, mintsOn : (AllLists \X Chains) \cup {Nil},
     mintsBusy : BOOLEAN]

Pages == [st : Slices, loc : Components, calls : SUBSET Wallets["solana"]]

Connected == {w \in [{"evm", "solana"} -> List!AnyWallet] :
                 w["evm"] \in Wallets["evm"] /\ w["solana"] \in Wallets["solana"]}

\* Account a is selected for wallet o.
IsFor(a, o) ==
    /\ o \in Wallets[Kind[a.chain]]
    /\ Kind[a.chain] = "evm" /\ ~a.isNative => a.wallet = o

\* What is selected is for its owner, whatever chain and wallet are current;
\* only an EVM chain has the list of one.
ListSliceOK(s) ==
    /\ s.selected # Nil => IsFor(s.selected, s.owner)
    /\ s.list \in EVMLists => s.chain \in EVMs

\* The calls under way that the component takes the answers of.
CallsOK(l) ==
    /\ l.covalentBusy => l.covalentOn \in EVMs \X Wallets["evm"] \X BOOLEAN
    /\ l.nativeBusy => l.nativeOn \in EVMs \X Wallets["evm"] \X (Coins \cup {Nil})
    /\ l.mintsBusy => l.mintsOn \in SolanaLists \X Chains

PageOK(p) == p \in Pages /\ ListSliceOK(p.st) /\ CallsOK(p.loc)

\* A page after its effects: the list that is awaited is of the chain shown,
\* and so is, while it is shown, the wallet that the selection is for.
Fresh(p, w, net, open) ==
    /\ p.loc.covalentBusy => p.st.chain \in EVMs
    /\ List!IsShown(p.st, net, open) => p.st.owner \in {Nil, w[Kind[p.st.chain]]}

LEMMA ResetOK ==
    ASSUME NEW p, PageOK(p)
    PROVE  LET q == List!resetSourceAccounts(p)
           IN  /\ PageOK(q) /\ q.st.chain = p.st.chain /\ q.st.owner = Nil
               /\ q.st.list = List!Unloaded("empty") /\ q.calls = p.calls
               /\ q.loc.covalentBusy = p.loc.covalentBusy
               /\ q.loc.covalentOn = p.loc.covalentOn
               /\ q.loc.nativeBusy = p.loc.nativeBusy /\ q.loc.nativeOn = p.loc.nativeOn
               /\ q.loc.mintsBusy = p.loc.mintsBusy /\ q.loc.mintsOn = p.loc.mintsOn
<1> DEFINE empty == List!Unloaded("empty")
           slice == [p.st EXCEPT !.owner = Nil, !.selected = Nil, !.list = empty]
           loc == [p.loc EXCEPT !.covalent = FALSE, !.native = Nil,
                                !.nativeLoading = FALSE, !.nativeFailed = FALSE]
           q == [p EXCEPT !.st = slice, !.loc = loc]
<1>0. p \in Pages /\ p.st \in Slices /\ p.loc \in Components
  BY DEF PageOK, Pages
<1>e. empty \in AllLists /\ empty \notin EVMLists
  BY DEF AllLists, EVMLists, List!Unloaded
<1>1. List!resetSourceAccounts(p) = q
  BY <1>0 DEF List!resetSourceAccounts, Pages
<1> HIDE DEF empty
<1>2. /\ slice \in Slices /\ slice.chain = p.st.chain /\ slice.owner = Nil
      /\ slice.selected = Nil /\ slice.list = empty
  BY <1>0, <1>e DEF Slices
<1>3. /\ loc \in Components
      /\ loc.covalentBusy = p.loc.covalentBusy /\ loc.covalentOn = p.loc.covalentOn
      /\ loc.nativeBusy = p.loc.nativeBusy /\ loc.nativeOn = p.loc.nativeOn
      /\ loc.mintsBusy = p.loc.mintsBusy /\ loc.mintsOn = p.loc.mintsOn
  BY <1>0 DEF Components
<1> HIDE DEF slice, loc
<1>4. q \in Pages /\ q.st = slice /\ q.loc = loc /\ q.calls = p.calls
  BY <1>0, <1>2, <1>3 DEF Pages
<1> HIDE DEF q
<1>5. PageOK(q)
  BY <1>2, <1>3, <1>4, <1>e DEF PageOK, ListSliceOK, CallsOK
<1> QED
  BY <1>1, <1>2, <1>3, <1>4, <1>5 DEF empty

\* The effects of the rendering r, on the page p that the first one left.
LEMMA EffectsOK ==
    ASSUME List!ConstantsOK, NEW r, PageOK(r), NEW p, PageOK(p), NEW w \in Connected,
           p.st.chain = r.st.chain, p.loc.covalentBusy = r.loc.covalentBusy,
           p.loc.nativeBusy = r.loc.nativeBusy, p.loc.mintsBusy = r.loc.mintsBusy
    PROVE  LET q == List!EffectsOn(r, w, p)
           IN  /\ PageOK(q) /\ q.st.chain = p.st.chain
               /\ q.st.owner = p.st.owner /\ q.st.selected = p.st.selected
               /\ q.loc.covalentBusy => q.st.chain \in EVMs
<1> DEFINE chain == r.st.chain
           fetches == List!LoadsSolana(r) \/ List!LoadsCovalent(r, w)
           list == IF fetches THEN List!Unloaded("fetching") ELSE p.st.list
           slice == [p.st EXCEPT !.list = list]
           mintsOn == List!MintsOn(r)
           mintsBusy == IF mintsOn = r.loc.mintsOn THEN p.loc.mintsBusy
                        ELSE ~List!isEVM(chain) /\ r.st.list.is = "data"
           nativeOn == List!NativeOn(r, w)
           nativeBusy == IF nativeOn = r.loc.nativeOn THEN p.loc.nativeBusy
                         ELSE List!LoadsNative(r, w)
           nativeLoading == p.loc.nativeLoading \/ List!LoadsNative(r, w)
           covalentOn == List!CovalentOn(r, w)
           covalentBusy == IF covalentOn = r.loc.covalentOn THEN p.loc.covalentBusy
                           ELSE List!LoadsCovalent(r, w)
           loc == [p.loc EXCEPT !.mintsOn = mintsOn, !.mintsBusy = mintsBusy,
                      !.nativeOn = nativeOn, !.nativeBusy = nativeBusy,
                      !.nativeLoading = nativeLoading, !.covalentOn = covalentOn,
                      !.covalentBusy = covalentBusy]
           loads == p.calls \cup {x \in {w["solana"]} : List!LoadsSolana(r)}
           q == [st |-> slice, loc |-> loc, calls |-> loads]
<1>0. /\ r.st \in Slices /\ r.loc \in Components /\ CallsOK(r.loc) /\ ListSliceOK(r.st)
      /\ p.st \in Slices /\ p.loc \in Components /\ CallsOK(p.loc) /\ ListSliceOK(p.st)
      /\ p.calls \subseteq Wallets["solana"] /\ chain \in Chains
  BY DEF PageOK, Pages, Slices
<1>w. w["evm"] \in Wallets["evm"] /\ w["solana"] \in Wallets["solana"]
  BY DEF Connected
<1>k. /\ List!isEVM(chain) <=> chain \in EVMs
      /\ ~List!isEVM(chain) <=> chain \in Solanas
  BY <1>0 DEF List!isEVM, EVMs, Solanas, List!ConstantsOK
<1>1. List!EffectsOn(r, w, p) = q
  BY <1>0 DEF List!EffectsOn, Components, Slices
<1>2. list \in AllLists /\ (list \in EVMLists => chain \in EVMs)
  <2>1. List!Unloaded("fetching") \in AllLists /\ List!Unloaded("fetching") \notin EVMLists
    BY DEF AllLists, EVMLists, List!Unloaded
  <2>2. p.st.list \in AllLists /\ (p.st.list \in EVMLists => chain \in EVMs)
    BY <1>0 DEF Slices, ListSliceOK
  <2> HIDE DEF fetches
  <2> QED
    BY <2>1, <2>2
<1>3. mintsOn = <<r.st.list, chain>> /\ mintsOn \in AllLists \X Chains
  BY <1>0 DEF List!MintsOn, Slices
<1>4. mintsBusy \in BOOLEAN /\ (mintsBusy => mintsOn \in SolanaLists \X Chains)
  <2>1. CASE mintsOn = r.loc.mintsOn
    <3>1. mintsBusy = r.loc.mintsBusy
      BY <2>1
    <3>2. r.loc.mintsBusy \in BOOLEAN
          /\ (r.loc.mintsBusy => r.loc.mintsOn \in SolanaLists \X Chains)
      BY <1>0 DEF Components, CallsOK
    <3> QED
      BY <2>1, <3>1, <3>2
  <2>2. CASE mintsOn # r.loc.mintsOn
    <3>1. mintsBusy = (~List!isEVM(chain) /\ r.st.list.is = "data")
      BY <2>2
    <3>2. ASSUME ~List!isEVM(chain), r.st.list.is = "data"
          PROVE  r.st.list \in SolanaLists
      <4>1. chain \notin EVMs /\ r.st.list \in AllLists
        BY <1>0, <1>k, <3>2 DEF Slices
      <4>2. r.st.list \notin EVMLists
        BY <1>0, <4>1 DEF ListSliceOK
      <4> QED
        BY <3>2, <4>1, <4>2 DEF AllLists, List!Unloaded
    <3> HIDE DEF mintsBusy
    <3>3. mintsBusy \in BOOLEAN
      BY <3>1
    <3>4. ASSUME mintsBusy
          PROVE  mintsOn \in SolanaLists \X Chains
      <4>1. ~List!isEVM(chain) /\ r.st.list.is = "data"
        BY <3>1, <3>4
      <4>2. r.st.list \in SolanaLists
        BY <3>2, <4>1
      <4> HIDE DEF mintsOn
      <4> QED
        BY <1>0, <1>3, <4>2
    <3> QED
      BY <3>3, <3>4
  <2> QED
    BY <2>1, <2>2
<1>5. /\ nativeOn = <<chain, w["evm"], r.loc.native>>
      /\ nativeOn \in Chains \X Wallets["evm"] \X (Coins \cup {Nil})
  BY <1>0, <1>w DEF List!NativeOn, Components
<1>6. nativeBusy \in BOOLEAN
      /\ (nativeBusy => nativeOn \in EVMs \X Wallets["evm"] \X (Coins \cup {Nil}))
  <2>1. CASE nativeOn = r.loc.nativeOn
    <3>1. nativeBusy = r.loc.nativeBusy
      BY <2>1
    <3>2. r.loc.nativeBusy \in BOOLEAN
          /\ (r.loc.nativeBusy =>
                 r.loc.nativeOn \in EVMs \X Wallets["evm"] \X (Coins \cup {Nil}))
      BY <1>0 DEF Components, CallsOK
    <3> QED
      BY <2>1, <3>1, <3>2
  <2>2. CASE nativeOn # r.loc.nativeOn
    <3>1. nativeBusy = List!LoadsNative(r, w)
      BY <2>2
    <3>2. List!LoadsNative(r, w) \in BOOLEAN
          /\ (List!LoadsNative(r, w) => List!isEVM(chain))
      BY DEF List!LoadsNative
    <3> HIDE DEF nativeBusy
    <3> QED
      BY <1>0, <1>w, <1>k, <1>5, <3>1, <3>2 DEF Components
  <2> QED
    BY <2>1, <2>2
<1>7. /\ covalentOn = <<chain, w["evm"], r.loc.covalent>>
      /\ covalentOn \in Chains \X Wallets["evm"] \X BOOLEAN
  BY <1>0, <1>w DEF List!CovalentOn, Components
<1>8. /\ covalentBusy \in BOOLEAN
      /\ covalentBusy => chain \in EVMs
                         /\ covalentOn \in EVMs \X Wallets["evm"] \X BOOLEAN
  <2>1. CASE covalentOn = r.loc.covalentOn
    <3>1. covalentBusy = r.loc.covalentBusy
      BY <2>1
    <3>2. r.loc.covalentBusy \in BOOLEAN
          /\ (r.loc.covalentBusy => covalentOn \in EVMs \X Wallets["evm"] \X BOOLEAN)
      BY <1>0, <2>1 DEF Components, CallsOK
    <3>3. r.loc.covalentBusy => chain \in EVMs
      BY <1>7, <3>2
    <3> QED
      BY <3>1, <3>2, <3>3
  <2>2. CASE covalentOn # r.loc.covalentOn
    <3>1. covalentBusy = List!LoadsCovalent(r, w)
      BY <2>2
    <3>2. List!LoadsCovalent(r, w) \in BOOLEAN
          /\ (List!LoadsCovalent(r, w) => List!isEVM(chain))
      BY DEF List!LoadsCovalent
    <3> HIDE DEF covalentBusy
    <3> QED
      BY <1>0, <1>w, <1>k, <1>7, <3>1, <3>2 DEF Components
  <2> QED
    BY <2>1, <2>2
<1>9. nativeLoading \in BOOLEAN
  OBVIOUS
<1>10. loads \subseteq Wallets["solana"]
  BY <1>0, <1>w
<1> HIDE DEF list, mintsOn, mintsBusy, nativeOn, nativeBusy, nativeLoading, covalentOn,
             covalentBusy, loads
<1>11. /\ slice \in Slices /\ slice.chain = p.st.chain /\ slice.owner = p.st.owner
       /\ slice.selected = p.st.selected /\ slice.list = list
  BY <1>0, <1>2 DEF Slices
<1>12. loc \in Components
  <2> DEFINE l1 == [p.loc EXCEPT !.mintsOn = mintsOn, !.mintsBusy = mintsBusy]
             l2 == [l1 EXCEPT !.nativeOn = nativeOn, !.nativeBusy = nativeBusy,
                              !.nativeLoading = nativeLoading]
             l3 == [l2 EXCEPT !.covalentOn = covalentOn, !.covalentBusy = covalentBusy]
  <2>1. l1 \in Components
    <3>1. mintsOn \in (AllLists \X Chains) \cup {Nil}
      BY <1>3
    <3>2. mintsBusy \in BOOLEAN /\ p.loc \in Components
      BY <1>0, <1>4
    <3> QED
      BY <3>1, <3>2, ZenonT(40) DEF Components
  <2>2. loc = l3
    OBVIOUS
  <2> HIDE DEF l1
  <2>3. l2 \in Components
    <3>1. nativeOn \in (Chains \X Wallets["evm"] \X (Coins \cup {Nil})) \cup {Nil}
      BY <1>5
    <3> DEFINE k1 == [l1 EXCEPT !.nativeOn = nativeOn]
               k2 == [k1 EXCEPT !.nativeBusy = nativeBusy]
    <3>2. k1 \in Components
      BY <2>1, <3>1 DEF Components
    <3>3. l2 = [k2 EXCEPT !.nativeLoading = nativeLoading]
      OBVIOUS
    <3> HIDE DEF k1, l2
    <3>4. k2 \in Components
      BY <1>6, <3>2 DEF Components
    <3> HIDE DEF k2
    <3> QED
      BY <1>9, <3>3, <3>4 DEF Components
  <2> HIDE DEF l2
  <2>4. l3 \in Components
    <3>1. covalentOn \in (Chains \X Wallets["evm"] \X BOOLEAN) \cup {Nil}
      BY <1>7
    <3> QED
      BY <1>8, <2>3, <3>1 DEF Components
  <2> QED
    BY <2>2, <2>4
<1>13. /\ loc.mintsOn = mintsOn /\ loc.mintsBusy = mintsBusy
       /\ loc.nativeOn = nativeOn /\ loc.nativeBusy = nativeBusy
       /\ loc.covalentOn = covalentOn /\ loc.covalentBusy = covalentBusy
  BY <1>0 DEF Components
<1> HIDE DEF slice, loc
<1>14. CallsOK(loc)
  BY <1>4, <1>6, <1>8, <1>13 DEF CallsOK
<1>15. ListSliceOK(slice)
  BY <1>0, <1>2, <1>11 DEF ListSliceOK
<1>16. q \in Pages /\ q.st = slice /\ q.loc = loc
  BY <1>10, <1>11, <1>12 DEF Pages
<1> QED
  BY <1>1, <1>8, <1>11, <1>13, <1>14, <1>15, <1>16 DEF PageOK

LEMMA MountingOK ==
    /\ List!Mounting \in Components /\ CallsOK(List!Mounting)
    /\ ~List!Mounting.covalentBusy
BY DEF List!Mounting, Components, CallsOK

\* One rendering.
LEMMA RenderOK ==
    ASSUME List!ConstantsOK, NEW r, PageOK(r), NEW w \in Connected, NEW net, NEW open
    PROVE  LET q == List!Render(r, w, net, open)
           IN  PageOK(q) /\ Fresh(q, w, net, open)
<1> DEFINE q == List!Render(r, w, net, open)
<1>0. r \in Pages /\ ListSliceOK(r.st) /\ CallsOK(r.loc) /\ r.st \in Slices
  BY DEF PageOK, Pages
<1>1. CASE ~List!IsShown(r.st, net, open)
  <2> DEFINE m == List!Mounting
  <2>1. q = [r EXCEPT !.loc = m]
    BY <1>1 DEF List!Render
  <2>2. m \in Components /\ CallsOK(m) /\ ~m.covalentBusy
    BY MountingOK
  <2> HIDE DEF q, m
  <2>3. q \in Pages /\ q.st = r.st /\ q.loc = m
    BY <1>0, <2>1, <2>2 DEF Pages
  <2>4. PageOK(q)
    BY <1>0, <2>2, <2>3 DEF PageOK
  <2>5. Fresh(q, w, net, open)
    BY <1>1, <2>2, <2>3 DEF Fresh
  <2> QED
    BY <2>4, <2>5 DEF q
<1>2. CASE List!IsShown(r.st, net, open)
  <2> DEFINE p == IF List!WalletChanged(r, w) THEN List!resetSourceAccounts(r) ELSE r
  <2>1. q = List!EffectsOn(r, w, p)
    BY <1>2 DEF List!Render
  <2>2. /\ PageOK(p) /\ p.st.chain = r.st.chain
        /\ p.loc.covalentBusy = r.loc.covalentBusy
        /\ p.loc.nativeBusy = r.loc.nativeBusy /\ p.loc.mintsBusy = r.loc.mintsBusy
        /\ p.st.owner \in {Nil, w[Kind[r.st.chain]]}
    <3>1. CASE List!WalletChanged(r, w)
      <4>1. p = List!resetSourceAccounts(r)
        BY <3>1
      <4> QED
        BY <4>1, ResetOK
    <3>2. CASE ~List!WalletChanged(r, w)
      <4>1. p = r /\ r.st.owner \in {Nil, w[Kind[r.st.chain]]}
        BY <3>2 DEF List!WalletChanged
      <4> QED
        BY <4>1
    <3> QED
      BY <3>1, <3>2
  <2> HIDE DEF p
  <2>3. /\ PageOK(q) /\ q.st.chain = p.st.chain /\ q.st.owner = p.st.owner
        /\ q.loc.covalentBusy => q.st.chain \in EVMs
    BY <2>1, <2>2, EffectsOK
  <2> HIDE DEF q
  <2>4. Fresh(q, w, net, open)
    BY <2>2, <2>3 DEF Fresh
  <2> QED
    BY <2>3, <2>4 DEF q
<1> QED
  BY <1>1, <1>2

-----------------------------------------------------------------------------
(***************************************************************************)
(* The token list: three renderings settle a page                          *)
(***************************************************************************)

\* No effect of the page has anything to do.
Stable(p, w, net, open) ==
    IF List!IsShown(p.st, net, open)
    THEN /\ ~List!WalletChanged(p, w) /\ ~List!LoadsSolana(p)
         /\ p.loc.mintsOn = List!MintsOn(p)
         /\ p.loc.nativeOn = List!NativeOn(p, w)
         /\ p.loc.covalentOn = List!CovalentOn(p, w)
    ELSE p.loc = List!Mounting

\* What the effects ran on, and what they leave of the page.
LEMMA EffectsRun ==
    ASSUME NEW r, PageOK(r), NEW p, PageOK(p), NEW w \in Connected
    PROVE  LET q == List!EffectsOn(r, w, p)
           IN  /\ q.st.chain = p.st.chain /\ q.st.owner = p.st.owner
               /\ q.st.selected = p.st.selected
               /\ q.st.list = IF List!LoadsSolana(r) \/ List!LoadsCovalent(r, w)
                              THEN List!Unloaded("fetching") ELSE p.st.list
               /\ q.loc.mintsOn = List!MintsOn(r)
               /\ q.loc.nativeOn = List!NativeOn(r, w)
               /\ q.loc.covalentOn = List!CovalentOn(r, w)
               /\ q.loc.native = p.loc.native /\ q.loc.covalent = p.loc.covalent
<1>1. p.st \in Slices /\ p.loc \in Components
  BY DEF PageOK, Pages
<1> DEFINE list == IF List!LoadsSolana(r) \/ List!LoadsCovalent(r, w)
                   THEN List!Unloaded("fetching") ELSE p.st.list
           mintsOn == List!MintsOn(r)
           nativeOn == List!NativeOn(r, w)
           covalentOn == List!CovalentOn(r, w)
           mintsBusy == IF mintsOn = r.loc.mintsOn THEN p.loc.mintsBusy
                        ELSE ~List!isEVM(r.st.chain) /\ r.st.list.is = "data"
           nativeBusy == IF nativeOn = r.loc.nativeOn THEN p.loc.nativeBusy
                         ELSE List!LoadsNative(r, w)
           nativeLoading == p.loc.nativeLoading \/ List!LoadsNative(r, w)
           covalentBusy == IF covalentOn = r.loc.covalentOn THEN p.loc.covalentBusy
                           ELSE List!LoadsCovalent(r, w)
           slice == [p.st EXCEPT !.list = list]
           loc == [p.loc EXCEPT !.mintsOn = mintsOn, !.mintsBusy = mintsBusy,
                      !.nativeOn = nativeOn, !.nativeBusy = nativeBusy,
                      !.nativeLoading = nativeLoading, !.covalentOn = covalentOn,
                      !.covalentBusy = covalentBusy]
           loads == p.calls \cup {x \in {w["solana"]} : List!LoadsSolana(r)}
<1>2. List!EffectsOn(r, w, p) = [st |-> slice, loc |-> loc, calls |-> loads]
  BY <1>1 DEF List!EffectsOn, Components, Slices
<1> HIDE DEF list, mintsOn, nativeOn, covalentOn, mintsBusy, nativeBusy, nativeLoading,
             covalentBusy, loads
<1>3. /\ slice.chain = p.st.chain /\ slice.owner = p.st.owner
      /\ slice.selected = p.st.selected
      /\ slice.list = list
  BY <1>1 DEF Slices
<1>4. /\ loc.mintsOn = mintsOn /\ loc.nativeOn = nativeOn /\ loc.covalentOn = covalentOn
      /\ loc.native = p.loc.native /\ loc.covalent = p.loc.covalent
  BY <1>1 DEF Components
<1> HIDE DEF slice, loc
<1> QED
  BY <1>2, <1>3, <1>4 DEF list, mintsOn, nativeOn, covalentOn

\* A stable page is rendered as it is.
LEMMA StableIsFixed ==
    ASSUME NEW r, PageOK(r), NEW w \in Connected, NEW net, NEW open,
           Stable(r, w, net, open)
    PROVE  List!Render(r, w, net, open) = r
<1>1. r \in Pages /\ r.st \in Slices /\ r.loc \in Components
  BY DEF PageOK, Pages
<1>2. r = [st |-> r.st, loc |-> r.loc, calls |-> r.calls]
  BY <1>1 DEF Pages
<1>3. CASE ~List!IsShown(r.st, net, open)
  <2>1. List!Render(r, w, net, open) = [r EXCEPT !.loc = List!Mounting]
    BY <1>3 DEF List!Render
  <2>2. r.loc = List!Mounting
    BY <1>3 DEF Stable
  <2>3. [r EXCEPT !.loc = r.loc] = r
    BY <1>1 DEF Pages
  <2> QED
    BY <2>1, <2>2, <2>3
<1>4. CASE List!IsShown(r.st, net, open)
  <2>1. /\ ~List!WalletChanged(r, w) /\ ~List!LoadsSolana(r)
        /\ r.loc.mintsOn = List!MintsOn(r)
        /\ r.loc.nativeOn = List!NativeOn(r, w)
        /\ r.loc.covalentOn = List!CovalentOn(r, w)
    BY <1>4 DEF Stable
  <2>2. List!Render(r, w, net, open) = List!EffectsOn(r, w, r)
    BY <1>4, <2>1 DEF List!Render
  <2>3. ~List!LoadsCovalent(r, w) /\ ~List!LoadsNative(r, w)
    BY <2>1 DEF List!LoadsCovalent, List!LoadsNative
  <2> DEFINE loc == [r.loc EXCEPT !.mintsOn = List!MintsOn(r), !.mintsBusy = @,
                        !.nativeOn = List!NativeOn(r, w), !.nativeBusy = @,
                        !.nativeLoading = @ \/ List!LoadsNative(r, w),
                        !.covalentOn = List!CovalentOn(r, w), !.covalentBusy = @]
  <2>4. loc = r.loc
    <3>1. (r.loc.nativeLoading \/ List!LoadsNative(r, w)) = r.loc.nativeLoading
      BY <1>1, <2>3 DEF Components
    <3>2. loc = [r.loc EXCEPT !.mintsOn = r.loc.mintsOn, !.mintsBusy = r.loc.mintsBusy,
                        !.nativeOn = r.loc.nativeOn, !.nativeBusy = r.loc.nativeBusy,
                        !.nativeLoading = r.loc.nativeLoading,
                        !.covalentOn = r.loc.covalentOn,
                        !.covalentBusy = r.loc.covalentBusy]
      BY <1>1, <2>1, <3>1 DEF Components
    <3> HIDE DEF loc
    <3> QED
      BY <1>1, <3>2 DEF Components
  <2>5. [r.st EXCEPT !.list = r.st.list] = r.st
    BY <1>1 DEF Slices
  <2>6. r.calls \cup {x \in {w["solana"]} : List!LoadsSolana(r)} = r.calls
    BY <2>1
  <2>7. List!EffectsOn(r, w, r)
          = [st |-> [r.st EXCEPT !.list = r.st.list], loc |-> loc,
             calls |-> r.calls \cup {x \in {w["solana"]} : List!LoadsSolana(r)}]
    BY <1>1, <2>1, <2>3 DEF List!EffectsOn, Components, Slices
  <2> HIDE DEF loc
  <2> QED
    BY <1>2, <2>2, <2>4, <2>5, <2>6, <2>7
<1> QED
  BY <1>3, <1>4

\* One rendering runs all effects but those that its own changes call for.
Half(q, w) ==
    /\ ~List!WalletChanged(q, w) /\ ~List!LoadsSolana(q)
    /\ q.loc.nativeOn = List!NativeOn(q, w)
    /\ q.loc.covalentOn = List!CovalentOn(q, w)

LEMMA RenderTidies ==
    ASSUME List!ConstantsOK, NEW r, PageOK(r), NEW w \in Connected, NEW net, NEW open
    PROVE  LET q == List!Render(r, w, net, open)
           IN  /\ ~List!IsShown(r.st, net, open) => Stable(q, w, net, open)
               /\ List!IsShown(r.st, net, open) => ~List!WalletChanged(q, w)
               /\ List!IsShown(r.st, net, open) /\ ~List!WalletChanged(r, w) =>
                     List!IsShown(q.st, net, open) /\ Half(q, w)
               /\ List!IsShown(r.st, net, open) /\ Half(r, w) => Stable(q, w, net, open)
<1> DEFINE q == List!Render(r, w, net, open)
           shown == List!IsShown(r.st, net, open)
<1>1. r \in Pages /\ r.st \in Slices /\ r.loc \in Components
  BY DEF PageOK, Pages
<1>2. PageOK(q) /\ Fresh(q, w, net, open)
  BY RenderOK
<1>3. ASSUME ~shown PROVE Stable(q, w, net, open)
  <2>1. q = [r EXCEPT !.loc = List!Mounting]
    BY <1>3 DEF List!Render
  <2>2. q.st = r.st /\ q.loc = List!Mounting
    BY <1>1, <2>1 DEF Pages
  <2> HIDE DEF q
  <2> QED
    BY <1>3, <2>2 DEF Stable
<1>4. ASSUME shown, ~List!WalletChanged(r, w)
      PROVE  /\ List!IsShown(q.st, net, open) /\ ~List!WalletChanged(q, w) /\ Half(q, w)
             /\ q.loc.mintsOn = List!MintsOn(r)
             /\ Half(r, w) => q.st.list = r.st.list
             /\ q.st.chain = r.st.chain
  <2>1. q = List!EffectsOn(r, w, r)
    BY <1>4 DEF List!Render
  <2> HIDE DEF q
  <2>2. /\ q.st.chain = r.st.chain /\ q.st.owner = r.st.owner
        /\ q.st.selected = r.st.selected
        /\ q.st.list = IF List!LoadsSolana(r) \/ List!LoadsCovalent(r, w)
                       THEN List!Unloaded("fetching") ELSE r.st.list
        /\ q.loc.mintsOn = List!MintsOn(r)
        /\ q.loc.nativeOn = List!NativeOn(r, w)
        /\ q.loc.covalentOn = List!CovalentOn(r, w)
        /\ q.loc.native = r.loc.native /\ q.loc.covalent = r.loc.covalent
    BY <2>1, EffectsRun
  <2>3. List!IsShown(q.st, net, open) /\ ~List!WalletChanged(q, w)
    BY <1>4, <2>2 DEF List!IsShown, List!WalletChanged
  <2>4. ~List!LoadsSolana(q)
    BY <2>2 DEF List!LoadsSolana, List!Unloaded
  <2>5. q.loc.nativeOn = List!NativeOn(q, w) /\ q.loc.covalentOn = List!CovalentOn(q, w)
    BY <2>2 DEF List!NativeOn, List!CovalentOn
  <2>6. Half(r, w) => q.st.list = r.st.list
    BY <2>2 DEF Half, List!LoadsCovalent
  <2> QED
    BY <2>2, <2>3, <2>4, <2>5, <2>6 DEF Half
<1>5. ASSUME shown PROVE ~List!WalletChanged(q, w)
  <2>1. CASE ~List!WalletChanged(r, w)
    BY <1>4, <1>5, <2>1
  <2>2. CASE List!WalletChanged(r, w)
    <3> DEFINE p == List!resetSourceAccounts(r)
    <3>1. q = List!EffectsOn(r, w, p)
      BY <1>5, <2>2 DEF List!Render
    <3>2. PageOK(p) /\ p.st.owner = Nil
      BY ResetOK
    <3> HIDE DEF q, p
    <3>3. q.st.owner = Nil
      BY <3>1, <3>2, EffectsRun
    <3> QED
      BY <3>3 DEF List!WalletChanged
  <2> QED
    BY <2>1, <2>2
<1>6. ASSUME shown, Half(r, w) PROVE Stable(q, w, net, open)
  <2>1. ~List!WalletChanged(r, w)
    BY <1>6 DEF Half
  <2>2. /\ List!IsShown(q.st, net, open) /\ Half(q, w)
        /\ q.loc.mintsOn = List!MintsOn(r) /\ q.st.list = r.st.list
        /\ q.st.chain = r.st.chain
    BY <1>4, <1>6, <2>1
  <2> HIDE DEF q
  <2>3. q.loc.mintsOn = List!MintsOn(q)
    BY <2>2 DEF List!MintsOn
  <2> QED
    BY <2>2, <2>3 DEF Stable, Half
<1> HIDE DEF q
<1> QED
  BY <1>3, <1>4, <1>5, <1>6 DEF q

\* What is rendered until nothing changes: one rendering for what was selected
\* for another wallet, one for the effects, one for the mints of a list that
\* the effects have changed.
LEMMA SettledOK ==
    ASSUME List!ConstantsOK, NEW r, PageOK(r), NEW w \in Connected, NEW net, NEW open
    PROVE  LET q == List!Settled(r, w, net, open)
           IN  /\ PageOK(q) /\ Fresh(q, w, net, open) /\ Stable(q, w, net, open)
               /\ Stable(r, w, net, open) => q = r
<1> DEFINE R(p) == List!Render(p, w, net, open)
           a == R(r)
           b == R(a)
           q == R(b)
<1>1. PageOK(a) /\ PageOK(b) /\ PageOK(q) /\ Fresh(q, w, net, open)
  <2>1. PageOK(a)
    BY RenderOK
  <2> HIDE DEF a
  <2>2. PageOK(b)
    BY <2>1, RenderOK
  <2> HIDE DEF b
  <2> QED
    BY <2>1, <2>2, RenderOK
<1>2. List!Settled(r, w, net, open) = CHOOSE p \in {q} : TRUE
  <2> HIDE DEF R
  <2>1. \A p : {R(x) : x \in {p}} = {R(p)}
    OBVIOUS
  <2>2. List!Settled(r, w, net, open)
          = CHOOSE p \in {R(y) : y \in {R(z) : z \in {R(x) : x \in {r}}}} : TRUE
    BY DEF List!Settled, R
  <2> QED
    BY <2>1, <2>2
<1>3. \A p : PageOK(p) /\ Stable(p, w, net, open) => R(p) = p
  BY StableIsFixed
<1>4. /\ ~List!IsShown(r.st, net, open) => Stable(a, w, net, open)
      /\ List!IsShown(r.st, net, open) => ~List!WalletChanged(a, w)
  BY RenderTidies
<1> HIDE DEF a
<1>5. /\ ~List!IsShown(a.st, net, open) => Stable(b, w, net, open)
      /\ List!IsShown(a.st, net, open) /\ ~List!WalletChanged(a, w) =>
            List!IsShown(b.st, net, open) /\ Half(b, w)
  BY <1>1, RenderTidies
<1> HIDE DEF b
<1>6. List!IsShown(b.st, net, open) /\ Half(b, w) => Stable(q, w, net, open)
  BY <1>1, RenderTidies
<1> HIDE DEF R
<1>7. Stable(a, w, net, open) => q = a
  BY <1>1, <1>3 DEF b
<1>8. Stable(b, w, net, open) => q = b
  BY <1>1, <1>3
<1>9. Stable(r, w, net, open) => q = r
  BY <1>1, <1>3 DEF a, b
<1> HIDE DEF q
<1>10. Stable(q, w, net, open)
  BY <1>4, <1>5, <1>6, <1>7, <1>8
<1>11. (CHOOSE p \in {q} : TRUE) = q
  OBVIOUS
<1> QED
  BY <1>1, <1>2, <1>9, <1>10, <1>11

-----------------------------------------------------------------------------
(***************************************************************************)
(* The token list: the steps                                               *)
(***************************************************************************)

PageInv ==
    /\ PageOK(List!Now) /\ Fresh(List!Now, wallet, network, isOpen)
    /\ Stable(List!Now, wallet, network, isOpen)
    /\ wallet \in Connected

\* What a picker is about to select is for the wallet it was read for.
PicksInv ==
    /\ awaited \subseteq [account : List!Accounts, owner : List!AnyWallet]
    /\ \A p \in awaited : IsFor(p.account, p.owner)

LEMMA BecomesOK ==
    ASSUME List!ConstantsOK, NEW p, PageOK(p), NEW w \in Connected, NEW net, NEW open,
           List!Becomes(p, w, net, open)
    PROVE  PageInv'
<1> DEFINE q == List!Settled(p, w, net, open)
<1>1. PageOK(q) /\ Fresh(q, w, net, open) /\ Stable(q, w, net, open)
  BY SettledOK
<1>2. /\ source' = q.st /\ selector' = q.loc /\ solanaCalls' = q.calls
      /\ wallet' = w /\ network' = net /\ isOpen' = open
  BY DEF List!Becomes
<1> HIDE DEF q
<1>3. (List!Now)' = q
  BY <1>1, <1>2 DEF List!Now, List!Page, PageOK, Pages
<1> QED
  BY <1>1, <1>2, <1>3 DEF PageInv, Fresh, Stable, PageOK, CallsOK, ListSliceOK,
      List!IsShown,
     List!isReady, List!isEVM, List!WalletChanged, List!LoadsSolana, List!MintsOn,
     List!NativeOn, List!CovalentOn, List!Mounting

LEMMA SameOK ==
    ASSUME PageInv, UNCHANGED <<source, selector, wallet, network, solanaCalls, isOpen>>
    PROVE  PageInv'
BY DEF PageInv, Fresh, Stable, PageOK, CallsOK, ListSliceOK, List!IsShown, List!isReady,
   List!isEVM, List!WalletChanged, List!LoadsSolana, List!MintsOn, List!NativeOn,
   List!CovalentOn, List!Mounting, List!Now, List!Page

\* The page as it is, and with its selection, its list or its calls changed.
LEMMA NowOK ==
    ASSUME PageInv
    PROVE  /\ PageOK(List!Now) /\ List!Now \in Pages
           /\ source \in Slices /\ selector \in Components
           /\ List!Now.st = source /\ List!Now.loc = selector
           /\ List!Now.calls = solanaCalls /\ solanaCalls \subseteq Wallets["solana"]
           /\ ListSliceOK(source) /\ CallsOK(selector)
           /\ selector.covalentBusy => source.chain \in EVMs
BY DEF PageInv, PageOK, Pages, Fresh, List!Now, List!Page

LEMMA ShowsOK ==
    ASSUME List!ConstantsOK, PageInv, NEW s \in Slices, ListSliceOK(s),
           NEW l \in Components, CallsOK(l), NEW k \in SUBSET Wallets["solana"],
           List!Shows([st |-> s, loc |-> l, calls |-> k])
    PROVE  PageInv'
<1> DEFINE p == [st |-> s, loc |-> l, calls |-> k]
<1>1. PageOK(p)
  BY DEF PageOK, Pages
<1>2. List!Becomes(p, wallet, network, isOpen) /\ wallet \in Connected
  BY DEF List!Shows, PageInv
<1> HIDE DEF p
<1> QED
  BY <1>1, <1>2, BecomesOK

LEMMA ListsOK ==
    /\ \A c \in EVMs, w \in Wallets["evm"] : List!ListOf(c, w) \in EVMLists
    /\ \A c \in Solanas, w \in Wallets["solana"] :
          List!ListOf(c, w) \in SolanaLists /\ List!ListOf(c, w) \notin EVMLists
    /\ \A why \in {"empty", "fetching", "error"} :
          List!Unloaded(why) \in AllLists /\ List!Unloaded(why) \notin EVMLists
    /\ EVMLists \subseteq AllLists /\ SolanaLists \subseteq AllLists
BY DEF EVMs, Solanas, EVMLists, SolanaLists, AllLists, List!ListOf, List!Unloaded

\* What the updates of the page come to.
LEMMA UpdatesOK ==
    ASSUME PageInv, NEW s, NEW l, NEW k
    PROVE  /\ [List!Now EXCEPT !.loc = l, !.st = s]
                = [st |-> s, loc |-> l, calls |-> solanaCalls]
           /\ [List!Now EXCEPT !.loc = l]
                = [st |-> source, loc |-> l, calls |-> solanaCalls]
           /\ [List!Now EXCEPT !.st = s]
                = [st |-> s, loc |-> selector, calls |-> solanaCalls]
           /\ [List!Now EXCEPT !.calls = k, !.st = s]
                = [st |-> s, loc |-> selector, calls |-> k]
<1> DEFINE now == [st |-> source, loc |-> selector, calls |-> solanaCalls]
<1>1. List!Now = now
  BY DEF List!Now, List!Page
<1>2. \A a, b, c, d, e :
        /\ [[st |-> a, loc |-> b, calls |-> c] EXCEPT !.st = d]
             = [st |-> d, loc |-> b, calls |-> c]
        /\ [[st |-> a, loc |-> b, calls |-> c] EXCEPT !.loc = d]
             = [st |-> a, loc |-> d, calls |-> c]
        /\ [[st |-> a, loc |-> b, calls |-> c] EXCEPT !.calls = d]
             = [st |-> a, loc |-> b, calls |-> d]
  OBVIOUS
<1>3. /\ [now EXCEPT !.loc = l] = [st |-> source, loc |-> l, calls |-> solanaCalls]
      /\ [now EXCEPT !.st = s] = [st |-> s, loc |-> selector, calls |-> solanaCalls]
  BY <1>2
<1>4. [now EXCEPT !.loc = l, !.st = s] = [st |-> s, loc |-> l, calls |-> solanaCalls]
  <2>1. [now EXCEPT !.loc = l, !.st = s] = [[now EXCEPT !.loc = l] EXCEPT !.st = s]
    OBVIOUS
  <2>2. [[st |-> source, loc |-> l, calls |-> solanaCalls] EXCEPT !.st = s]
          = [st |-> s, loc |-> l, calls |-> solanaCalls]
    BY <1>2
  <2> HIDE DEF now
  <2> QED
    BY <1>3, <2>1, <2>2
<1>5. [now EXCEPT !.calls = k, !.st = s] = [st |-> s, loc |-> selector, calls |-> k]
  <2>1. [now EXCEPT !.calls = k, !.st = s] = [[now EXCEPT !.calls = k] EXCEPT !.st = s]
    OBVIOUS
  <2>2. [now EXCEPT !.calls = k] = [st |-> source, loc |-> selector, calls |-> k]
    BY <1>2
  <2>3. [[st |-> source, loc |-> selector, calls |-> k] EXCEPT !.st = s]
          = [st |-> s, loc |-> selector, calls |-> k]
    BY <1>2
  <2> HIDE DEF now
  <2> QED
    BY <2>1, <2>2, <2>3
<1> HIDE DEF now
<1> QED
  BY <1>1, <1>3, <1>4, <1>5

\* The answers.
LEMMA CovalentOK ==
    ASSUME List!ConstantsOK, PageInv, List!CovalentAnswer \/ List!CovalentFails
    PROVE  PageInv'
<1> DEFINE l == [selector EXCEPT !.covalent = TRUE, !.covalentBusy = FALSE]
           m == [selector EXCEPT !.covalentBusy = FALSE]
<1>1. /\ source \in Slices /\ ListSliceOK(source) /\ selector \in Components
      /\ CallsOK(selector) /\ solanaCalls \subseteq Wallets["solana"]
  BY NowOK
<1>2. /\ l \in Components /\ CallsOK(l)
      /\ m \in Components /\ CallsOK(m)
  BY <1>1, ZenonT(40) DEF Components, CallsOK
<1>3. ASSUME NEW list \in AllLists, list \in EVMLists => source.chain \in EVMs
      PROVE  /\ [source EXCEPT !.list = list] \in Slices
             /\ ListSliceOK([source EXCEPT !.list = list])
  <2> DEFINE s == [source EXCEPT !.list = list]
  <2>1. /\ s \in Slices /\ s.chain = source.chain /\ s.selected = source.selected
        /\ s.owner = source.owner /\ s.list = list
    BY <1>1, <1>3 DEF Slices
  <2> HIDE DEF s
  <2>2. ListSliceOK(s)
    BY <1>1, <1>3, <2>1 DEF ListSliceOK
  <2> QED
    BY <2>1, <2>2 DEF s
<1>4. CASE List!CovalentAnswer
  <2> DEFINE list == List!ListOf(selector.covalentOn[1], selector.covalentOn[2])
             s == [source EXCEPT !.list = list]
  <2>1. list \in AllLists /\ source.chain \in EVMs
    <3>1. selector.covalentBusy
      BY <1>4 DEF List!CovalentAnswer
    <3>2. selector.covalentOn \in EVMs \X Wallets["evm"] \X BOOLEAN
      BY <1>1, <3>1 DEF CallsOK
    <3>3. source.chain \in EVMs
      BY <3>1, NowOK
    <3> QED
      BY <3>2, <3>3, ListsOK
  <2>2. s \in Slices /\ ListSliceOK(s)
    BY <1>3, <2>1
  <2>p. [List!Now EXCEPT !.loc.covalent = TRUE, !.loc.covalentBusy = FALSE,
                         !.st.list = list]
          = [List!Now EXCEPT !.loc = l, !.st = s]
    BY NowOK
  <2>c. List!Shows([List!Now EXCEPT !.loc.covalent = TRUE, !.loc.covalentBusy = FALSE,
                                    !.st.list = list])
    BY <1>4 DEF List!CovalentAnswer
  <2>3. List!Shows([st |-> s, loc |-> l, calls |-> solanaCalls])
    <3> HIDE DEF list, s, l
    <3> QED
      BY <2>c, <2>p, UpdatesOK
  <2> HIDE DEF s, l
  <2> QED
    BY <1>1, <1>2, <2>2, <2>3, ShowsOK
<1>5. CASE List!CovalentFails
  <2> DEFINE list == List!Unloaded("error")
             s == [source EXCEPT !.list = list]
  <2>1. s \in Slices /\ ListSliceOK(s)
    BY <1>3, ListsOK
  <2>p. [List!Now EXCEPT !.loc.covalentBusy = FALSE, !.st.list = list]
          = [List!Now EXCEPT !.loc = m, !.st = s]
    BY NowOK
  <2>2. List!Shows([st |-> s, loc |-> m, calls |-> solanaCalls])
    BY <1>5, <2>p, UpdatesOK DEF List!CovalentFails
  <2> HIDE DEF s, m
  <2> QED
    BY <1>1, <1>2, <2>1, <2>2, ShowsOK
<1> QED
  BY <1>4, <1>5

LEMMA NativeOK ==
    ASSUME List!ConstantsOK, PageInv, List!NativeAnswer
    PROVE  PageInv'
<1>1. /\ source \in Slices /\ ListSliceOK(source) /\ selector \in Components
      /\ CallsOK(selector) /\ solanaCalls \subseteq Wallets["solana"]
  BY NowOK
<1> DEFINE coin(fails) ==
               IF fails THEN Nil
               ELSE [chain |-> selector.nativeOn[1], wallet |-> selector.nativeOn[2],
                     isNative |-> TRUE]
           l(fails) == [selector EXCEPT !.nativeBusy = FALSE, !.nativeLoading = FALSE,
                            !.nativeFailed = fails, !.native = coin(fails)]
<1>2. PICK fails \in BOOLEAN :
        List!Shows([List!Now EXCEPT !.loc.nativeBusy = FALSE, !.loc.nativeLoading = FALSE,
                  !.loc.nativeFailed = fails,
                  !.loc.native = IF fails THEN Nil ELSE
                      [chain |-> selector.nativeOn[1], wallet |-> selector.nativeOn[2],
                       isNative |-> TRUE]])
  BY Zenon DEF List!NativeAnswer
<1>p. [List!Now EXCEPT !.loc.nativeBusy = FALSE, !.loc.nativeLoading = FALSE,
           !.loc.nativeFailed = fails, !.loc.native = coin(fails)]
        = [List!Now EXCEPT !.loc = l(fails)]
  <2> HIDE DEF coin
  <2> QED
    BY NowOK
<1>s. List!Shows([st |-> source, loc |-> l(fails), calls |-> solanaCalls])
  BY <1>2, <1>p, UpdatesOK
<1>3. coin(fails) \in Coins \cup {Nil}
  <2>1. selector.nativeOn \in EVMs \X Wallets["evm"] \X (Coins \cup {Nil})
    BY <1>1 DEF List!NativeAnswer, CallsOK
  <2> QED
    BY <2>1 DEF Coins
<1> HIDE DEF coin
<1>4. l(fails) \in Components /\ CallsOK(l(fails))
  <2> DEFINE m == [selector EXCEPT !.nativeBusy = FALSE, !.nativeLoading = FALSE]
             n == [m EXCEPT !.nativeFailed = fails]
             o == [n EXCEPT !.native = coin(fails)]
  <2>1. m \in Components /\ CallsOK(m)
    BY <1>1 DEF Components, CallsOK
  <2>2. l(fails) = o
    OBVIOUS
  <2> HIDE DEF m, l
  <2>3. n \in Components /\ CallsOK(n)
    BY <2>1, fails \in BOOLEAN DEF Components, CallsOK
  <2> HIDE DEF n
  <2>4. o \in Components /\ CallsOK(o)
    BY <1>3, <2>3 DEF Components, CallsOK
  <2> QED
    BY <2>2, <2>4
<1> HIDE DEF l
<1> QED
  BY <1>1, <1>s, <1>4, ShowsOK

LEMMA SolanaOK ==
    ASSUME List!ConstantsOK, PageInv, NEW w \in solanaCalls, List!SolanaAnswer(w)
    PROVE  PageInv'
<1>1. /\ source \in Slices /\ ListSliceOK(source) /\ selector \in Components
      /\ CallsOK(selector) /\ solanaCalls \subseteq Wallets["solana"]
  BY NowOK
<1>2. PICK list \in {List!ListOf(c, w) : c \in {c \in Chains : ~List!isEVM(c)}} \cup
                       {List!Unloaded("error")} :
        List!Shows([List!Now EXCEPT !.calls = @ \ {w}, !.st.list = list])
  BY Zenon DEF List!SolanaAnswer
<1> DEFINE s == [source EXCEPT !.list = list]
<1>p. [List!Now EXCEPT !.calls = @ \ {w}, !.st.list = list]
        = [List!Now EXCEPT !.calls = solanaCalls \ {w}, !.st = s]
  BY NowOK
<1>s. List!Shows([st |-> s, loc |-> selector, calls |-> solanaCalls \ {w}])
  BY <1>2, <1>p, UpdatesOK
<1>3. list \in AllLists /\ list \notin EVMLists
  <2>1. \A c \in Chains : ~List!isEVM(c) => c \in Solanas
    BY DEF List!isEVM, Solanas, List!ConstantsOK
  <2> QED
    BY <1>1, <2>1, ListsOK
<1>4. /\ s \in Slices /\ s.chain = source.chain /\ s.selected = source.selected
      /\ s.owner = source.owner /\ s.list = list
  BY <1>1, <1>3 DEF Slices
<1> HIDE DEF s
<1>5. ListSliceOK(s)
  BY <1>1, <1>3, <1>4 DEF ListSliceOK
<1> QED
  BY <1>1, <1>s, <1>4, <1>5, ShowsOK

LEMMA MintsOK ==
    ASSUME List!ConstantsOK, PageInv, List!MintsAnswer
    PROVE  PageInv'
<1>1. /\ source \in Slices /\ ListSliceOK(source) /\ selector \in Components
      /\ CallsOK(selector) /\ solanaCalls \subseteq Wallets["solana"]
  BY NowOK
<1> DEFINE l(mints) == [selector EXCEPT !.mintsBusy = FALSE, !.mints = mints]
<1>2. PICK mints \in {Nil, selector.mintsOn[1].wallet} :
        List!Shows([List!Now EXCEPT !.loc.mintsBusy = FALSE, !.loc.mints = mints])
  BY Zenon DEF List!MintsAnswer
<1>p. [List!Now EXCEPT !.loc.mintsBusy = FALSE, !.loc.mints = mints]
        = [List!Now EXCEPT !.loc = l(mints)]
  BY NowOK
<1>s. List!Shows([st |-> source, loc |-> l(mints), calls |-> solanaCalls])
  BY <1>2, <1>p, UpdatesOK
<1>3. mints \in Wallets["solana"] \cup {Nil}
  <2>1. selector.mintsOn \in SolanaLists \X Chains
    BY <1>1 DEF List!MintsAnswer, CallsOK
  <2> QED
    BY <2>1 DEF SolanaLists
<1>4. l(mints) \in Components /\ CallsOK(l(mints))
  BY <1>1, <1>3, ZenonT(40) DEF Components, CallsOK
<1> HIDE DEF l
<1> QED
  BY <1>1, <1>s, <1>4, ShowsOK

\* The user.
LEMMA ChooseChainOK ==
    ASSUME List!ConstantsOK, PageInv, NEW c \in Chains, List!ChooseSourceChain(c)
    PROVE  PageInv'
<1> DEFINE s == List!setSourceChain(source, c)
<1>1. /\ source \in Slices /\ selector \in Components
      /\ CallsOK(selector) /\ solanaCalls \subseteq Wallets["solana"]
  BY NowOK
<1>2. s \in Slices /\ s.selected = Nil /\ s.list = List!Unloaded("empty")
  <2> DEFINE empty == List!Unloaded("empty")
  <2>1. empty \in AllLists
    BY ListsOK
  <2>2. s = [source EXCEPT !.chain = c, !.selected = Nil, !.list = empty]
    BY DEF List!setSourceChain
  <2> HIDE DEF empty, s
  <2>3. s \in Slices /\ s.selected = Nil /\ s.list = empty
    BY <1>1, <2>1, <2>2 DEF Slices
  <2> QED
    BY <2>3 DEF empty
<1>3. List!Shows([List!Now EXCEPT !.st = s])
  BY DEF List!ChooseSourceChain
<1> HIDE DEF s
<1>4. ListSliceOK(s)
  BY <1>2, ListsOK DEF ListSliceOK
<1>5. List!Shows([st |-> s, loc |-> selector, calls |-> solanaCalls])
  BY <1>3, UpdatesOK
<1> QED
  BY <1>1, <1>2, <1>4, <1>5, ShowsOK

\* The account that is read is for the wallet that reads it.
LEMMA SelectOK ==
    ASSUME List!ConstantsOK, PageInv, PicksInv, NEW a \in List!Accounts,
           List!SelectOption(a)
    PROVE  PageInv' /\ PicksInv'
<1> DEFINE o == wallet[Kind[source.chain]]
           p == [account |-> a, owner |-> o]
<1>1. /\ source \in Slices /\ ListSliceOK(source) /\ selector \in Components
      /\ source.chain \in Chains /\ source.list \in AllLists
      /\ selector.native \in Coins \cup {Nil}
      /\ selector.mints \in Wallets["solana"] \cup {Nil}
  BY NowOK DEF Slices, Components
<1>2. wallet["evm"] \in Wallets["evm"] /\ wallet["solana"] \in Wallets["solana"]
  BY DEF PageInv, Connected
<1>3. a \in List!Offered /\ awaited' = awaited \cup {p}
      /\ UNCHANGED <<source, selector, wallet, network, solanaCalls, isOpen>>
  BY DEF List!SelectOption
<1>4. o \in List!AnyWallet /\ IsFor(a, o)
  <2>1. CASE Kind[source.chain] = "evm"
    <3>1. o = wallet["evm"]
      BY <2>1
    <3>2. \/ a = [chain |-> source.chain, wallet |-> wallet["evm"], isNative |-> FALSE]
          \/ a \in Coins
      BY <1>1, <1>3, <2>1 DEF List!Offered, List!isEVM
    <3>3. /\ Kind[a.chain] = "evm"
          /\ ~a.isNative => a.wallet = wallet["evm"]
      <4>1. CASE a = [chain |-> source.chain, wallet |-> wallet["evm"], isNative |-> FALSE]
        <5>1. a.chain = source.chain /\ a.wallet = wallet["evm"]
          BY <4>1
        <5> QED
          BY <2>1, <5>1
      <4>2. CASE a \in Coins
        <5>1. a.chain \in EVMs /\ a.isNative = TRUE
          BY <4>2 DEF Coins
        <5> QED
          BY <5>1 DEF EVMs
      <4> QED
        BY <3>2, <4>1, <4>2
    <3> HIDE DEF o
    <3> QED
      BY <1>2, <3>1, <3>3 DEF IsFor, List!AnyWallet
  <2>2. CASE Kind[source.chain] # "evm"
    <3>1. Kind[source.chain] = "solana" /\ o = wallet["solana"]
      BY <1>1, <2>2 DEF List!ConstantsOK
    <3>2. /\ source.list.is = "data"
          /\ a = [chain |-> source.list.chain, wallet |-> source.list.wallet,
                  isNative |-> FALSE]
      BY <1>3, <2>2 DEF List!Offered, List!isEVM
    <3>3. source.list \notin EVMLists
      BY <1>1, <2>2 DEF ListSliceOK, EVMs
    <3>4. source.list \in SolanaLists
      BY <1>1, <3>2, <3>3 DEF AllLists, List!Unloaded
    <3>5. Kind[a.chain] = "solana"
      BY <3>2, <3>4 DEF SolanaLists, Solanas
    <3> HIDE DEF o
    <3> QED
      BY <1>2, <3>1, <3>5 DEF IsFor, List!AnyWallet
  <2> QED
    BY <2>1, <2>2
<1> HIDE DEF o
<1>5. p \in [account : List!Accounts, owner : List!AnyWallet]
      /\ p.account = a /\ p.owner = o
  BY <1>4
<1> HIDE DEF p
<1>6. PicksInv'
  BY <1>3, <1>4, <1>5 DEF PicksInv, IsFor
<1>7. PageInv'
  BY <1>3, SameOK
<1> QED
  BY <1>6, <1>7

\* It is selected with its owner, on whatever chain the page then is.
LEMMA SelectedOK ==
    ASSUME List!ConstantsOK, PageInv, PicksInv, NEW p \in awaited, List!OptionSelected(p)
    PROVE  PageInv' /\ PicksInv'
<1> DEFINE s == [source EXCEPT !.selected = p.account, !.owner = p.owner]
<1>1. /\ source \in Slices /\ ListSliceOK(source) /\ selector \in Components
      /\ CallsOK(selector) /\ solanaCalls \subseteq Wallets["solana"]
  BY NowOK
<1>2. /\ p.account \in List!Accounts /\ p.owner \in List!AnyWallet
      /\ IsFor(p.account, p.owner)
  BY DEF PicksInv
<1>3. /\ s \in Slices /\ s.selected = p.account /\ s.owner = p.owner
      /\ s.list = source.list /\ s.chain = source.chain
  BY <1>1, <1>2 DEF Slices
<1>4. PageInv'
  <2>1. CASE List!Shows([List!Now EXCEPT !.st.selected = p.account,
                                         !.st.owner = p.owner])
    <3>1. [List!Now EXCEPT !.st.selected = p.account, !.st.owner = p.owner]
            = [List!Now EXCEPT !.st = s]
      BY NowOK
    <3> HIDE DEF s
    <3>2. ListSliceOK(s)
      BY <1>1, <1>2, <1>3 DEF ListSliceOK
    <3>3. List!Shows([st |-> s, loc |-> selector, calls |-> solanaCalls])
      BY <2>1, <3>1, UpdatesOK
    <3> QED
      BY <1>1, <1>3, <3>2, <3>3, ShowsOK
  <2>2. CASE List!Shows(List!Now)
    BY <2>2, BecomesOK, NowOK DEF List!Shows, PageInv
  <2> QED
    BY <2>1, <2>2 DEF List!OptionSelected
<1>5. PicksInv'
  BY DEF PicksInv, List!OptionSelected, IsFor
<1> QED
  BY <1>4, <1>5

LEMMA ClearOK ==
    ASSUME List!ConstantsOK, PageInv, List!ClearOption
    PROVE  PageInv'
<1> DEFINE s == [source EXCEPT !.selected = Nil, !.owner = Nil]
<1>1. /\ source \in Slices /\ ListSliceOK(source) /\ selector \in Components
      /\ CallsOK(selector) /\ solanaCalls \subseteq Wallets["solana"]
  BY NowOK
<1>2. /\ s \in Slices /\ s.selected = Nil
      /\ s.list = source.list /\ s.chain = source.chain
  BY <1>1 DEF Slices
<1>3. [List!Now EXCEPT !.st.selected = Nil, !.st.owner = Nil] = [List!Now EXCEPT !.st = s]
  BY NowOK
<1>4. List!Shows([List!Now EXCEPT !.st.selected = Nil, !.st.owner = Nil])
  BY DEF List!ClearOption
<1> HIDE DEF s
<1>5. ListSliceOK(s)
  BY <1>1, <1>2 DEF ListSliceOK
<1>6. List!Shows([st |-> s, loc |-> selector, calls |-> solanaCalls])
  BY <1>3, <1>4, UpdatesOK
<1> QED
  BY <1>1, <1>2, <1>5, <1>6, ShowsOK

LEMMA ReloadOK ==
    ASSUME List!ConstantsOK, PageInv, List!Reload
    PROVE  PageInv'
BY ResetOK, NowOK, BecomesOK DEF List!Reload, List!Shows, PageInv

\* The steps that change the wallet, the network or what is shown only.
LEMMA SwitchOK ==
    ASSUME List!ConstantsOK, PageInv, NEW w \in Connected, NEW net, NEW open,
           List!Becomes(List!Now, w, net, open)
    PROVE  PageInv'
BY NowOK, BecomesOK

LEMMA ListInit ==
    ASSUME List!ConstantsOK, List!Init
    PROVE  PageInv /\ PicksInv
<1> DEFINE empty == List!Unloaded("empty")
           s == [chain |-> DefaultSource, selected |-> Nil, owner |-> Nil, list |-> empty]
           m == List!Mounting
           first == [st |-> s, loc |-> m, calls |-> {}]
           p == List!Settled(first, wallet, network, TRUE)
<1>1. empty \in AllLists /\ empty \notin EVMLists
  BY ListsOK
<1>2. m \in Components /\ CallsOK(m)
  BY MountingOK
<1>3. wallet \in Connected
  BY DEF List!Init, List!ConstantsOK, Connected
<1>4. /\ source = p.st /\ selector = p.loc /\ solanaCalls = p.calls /\ isOpen = TRUE
      /\ awaited = {}
  BY DEF List!Init, List!FreshSlice, List!Page
<1> HIDE DEF empty, m, p
<1>5. s \in Slices /\ ListSliceOK(s)
  <2>1. s \in Slices /\ s.selected = Nil /\ s.list = empty
    BY <1>1 DEF Slices, List!ConstantsOK
  <2> HIDE DEF s
  <2> QED
    BY <1>1, <2>1 DEF ListSliceOK
<1> HIDE DEF s
<1>6. PageOK(first)
  BY <1>2, <1>5 DEF PageOK, Pages
<1> HIDE DEF first
<1>7. PageOK(p) /\ Fresh(p, wallet, network, TRUE) /\ Stable(p, wallet, network, TRUE)
  BY <1>3, <1>6, SettledOK DEF p
<1>8. List!Now = p
  BY <1>4, <1>7 DEF List!Now, List!Page, PageOK, Pages
<1>9. PicksInv
  BY <1>4 DEF PicksInv
<1> QED
  BY <1>3, <1>4, <1>7, <1>8, <1>9 DEF PageInv

\* Every step.
LEMMA ListNext ==
    ASSUME List!ConstantsOK, PageInv, PicksInv, [List!Next]_(List!sourceVars)
    PROVE  PageInv' /\ PicksInv'
<1>a. UNCHANGED awaited => PicksInv'
  BY DEF PicksInv, IsFor
<1>w. wallet \in Connected
  BY DEF PageInv
<1>1. ASSUME List!Answers
      PROVE  PageInv' /\ PicksInv'
  <2>1. UNCHANGED awaited
    BY <1>1 DEF List!Answers, List!CovalentAnswer, List!CovalentFails, List!NativeAnswer,
       List!MintsAnswer, List!SolanaAnswer, List!unchangedByAnswer
  <2> QED
    BY <1>1, <1>a, <2>1, CovalentOK, NativeOK, MintsOK, SolanaOK DEF List!Answers
<1>2. ASSUME NEW c \in Chains, List!ChooseSourceChain(c)
      PROVE  PageInv' /\ PicksInv'
  <2>1. UNCHANGED awaited
    BY <1>2 DEF List!ChooseSourceChain
  <2> QED
    BY <1>2, <1>a, <2>1, ChooseChainOK
<1>3. ASSUME NEW a \in List!Accounts, List!SelectOption(a)
      PROVE  PageInv' /\ PicksInv'
  BY <1>3, SelectOK
<1>4. ASSUME NEW p \in awaited, List!OptionSelected(p)
      PROVE  PageInv' /\ PicksInv'
  BY <1>4, SelectedOK
<1>5. CASE List!ClearOption
  <2>1. UNCHANGED awaited
    BY <1>5 DEF List!ClearOption
  <2> QED
    BY <1>5, <1>a, <2>1, ClearOK
<1>6. CASE List!Reload
  <2>1. UNCHANGED awaited
    BY <1>6 DEF List!Reload
  <2> QED
    BY <1>6, <1>a, <2>1, ReloadOK
<1>7. CASE List!Continue
  <2>1. List!Becomes(List!Now, wallet, network, FALSE) /\ UNCHANGED awaited
    BY <1>7 DEF List!Continue
  <2> QED
    BY <1>a, <1>w, <2>1, SwitchOK
<1>8. CASE List!GoBack
  <2>1. List!Becomes(List!Now, wallet, network, TRUE) /\ UNCHANGED awaited
    BY <1>8 DEF List!GoBack
  <2> QED
    BY <1>a, <1>w, <2>1, SwitchOK
<1>9. ASSUME NEW kind \in {"evm", "solana"}, NEW w \in Wallets[kind],
             List!SwitchAccount(kind, w)
      PROVE  PageInv' /\ PicksInv'
  <2> DEFINE other == [wallet EXCEPT ![kind] = w]
  <2>1. List!Becomes(List!Now, other, network, isOpen) /\ UNCHANGED awaited
    BY <1>9 DEF List!SwitchAccount
  <2>2. other \in Connected
    BY <1>w, <1>9 DEF Connected, List!AnyWallet
  <2> HIDE DEF other
  <2> QED
    BY <1>a, <2>1, <2>2, SwitchOK
<1>10. ASSUME NEW c, List!SwitchNetwork(c)
       PROVE  PageInv' /\ PicksInv'
  <2>1. List!Becomes(List!Now, wallet, c, isOpen) /\ UNCHANGED awaited
    BY <1>10 DEF List!SwitchNetwork
  <2> QED
    BY <1>a, <1>w, <2>1, SwitchOK
<1>11. CASE UNCHANGED List!sourceVars
  <2>1. UNCHANGED <<source, selector, wallet, network, solanaCalls, awaited, isOpen>>
    BY <1>11 DEF List!sourceVars
  <2> QED
    BY <1>a, <2>1, SameOK
<1> QED
  BY <1>1, <1>2, <1>3, <1>4, <1>5, <1>6, <1>7, <1>8, <1>9, <1>10, <1>11 DEF List!Next

-----------------------------------------------------------------------------
(***************************************************************************)
(* The token list: what it promises                                        *)
(***************************************************************************)

LEMMA ListInvMeans ==
    ASSUME List!ConstantsOK, PageInv
    PROVE  List!SelectionIsOfWallet
<1> SUFFICES ASSUME List!Shown, source.selected # Nil
             PROVE  /\ Kind[source.selected.chain] = Kind[source.chain]
                    /\ source.owner = wallet[Kind[source.chain]]
                    /\ List!isEVM(source.chain) /\ ~source.selected.isNative =>
                           source.selected.wallet = source.owner
  BY DEF List!SelectionIsOfWallet
<1> DEFINE a == source.selected
           o == source.owner
           k == Kind[source.chain]
<1>1. source \in Slices /\ ListSliceOK(source) /\ source.chain \in Chains
      /\ source.selected \in List!Accounts
  BY NowOK DEF Slices
<1>2. IsFor(a, o)
  BY <1>1 DEF ListSliceOK
<1>3. o \in {Nil, wallet[k]}
  BY NowOK DEF PageInv, Fresh, List!Shown
<1>4. k \in {"evm", "solana"} /\ Kind[a.chain] \in {"evm", "solana"}
  BY <1>1 DEF List!Accounts, List!ConstantsOK
<1>5. wallet[k] \in Wallets[k]
  BY <1>4 DEF PageInv, Connected
<1>6. o \in Wallets[Kind[a.chain]]
  BY <1>2 DEF IsFor
<1>7. o \in List!AnyWallet /\ o # Nil
  BY <1>4, <1>6 DEF List!AnyWallet, List!ConstantsOK
<1>8. o = wallet[k]
  BY <1>3, <1>7
<1>9. Kind[a.chain] = k
  BY <1>4, <1>5, <1>6, <1>8 DEF List!ConstantsOK
<1> QED
  BY <1>2, <1>8, <1>9 DEF IsFor, List!isEVM

\* While the token list is shown, what is selected is for the wallet that is
\* connected, and a token of an EVM chain is that wallet's, whatever the user
\* changed while lists, coins and accounts were being loaded or selected (the
\* effect of useGetSourceParsedTokenAccounts that resets the accounts).
THEOREM SelectsOfWallet ==
    List!ConstantsOK => (List!Spec => []List!SelectionIsOfWallet)
<1> SUFFICES ASSUME List!ConstantsOK
             PROVE  List!Spec => []List!SelectionIsOfWallet
  OBVIOUS
<1>1. List!Init => PageInv /\ PicksInv
  BY ListInit
<1>2. PageInv /\ PicksInv /\ [List!Next]_(List!sourceVars) => (PageInv /\ PicksInv)'
  BY ListNext
<1>3. PageInv => List!SelectionIsOfWallet
  BY ListInvMeans
<1> QED
  BY <1>1, <1>2, <1>3, PTL DEF List!Spec

\* What is shown is shown or not, and the user's choices are counted.
LEMMA ClickOrNot ==
    ASSUME List!ConstantsOK, isOpen \in BOOLEAN, clicks \in 0 .. MaxClicks,
           [List!Next]_(List!sourceVars)
    PROVE  isOpen' \in BOOLEAN /\ clicks' \in 0 .. MaxClicks
<1> USE DEF List!Shows, List!Becomes
<1>c. List!Choice => clicks' \in 0 .. MaxClicks
  BY DEF List!Choice, List!ConstantsOK
<1>1. ASSUME List!Answers
      PROVE  isOpen' = isOpen /\ clicks' = clicks
  BY <1>1 DEF List!Answers, List!CovalentAnswer, List!CovalentFails, List!NativeAnswer,
     List!MintsAnswer, List!SolanaAnswer, List!unchangedByAnswer
<1>2. ASSUME NEW c, List!ChooseSourceChain(c)
      PROVE  isOpen' = isOpen /\ List!Choice
  BY <1>2 DEF List!ChooseSourceChain
<1>3. ASSUME NEW a, List!SelectOption(a)
      PROVE  isOpen' = isOpen /\ List!Choice
  BY <1>3 DEF List!SelectOption
<1>4. ASSUME NEW p, List!OptionSelected(p)
      PROVE  isOpen' = isOpen /\ clicks' = clicks
  BY <1>4 DEF List!OptionSelected
<1>5. ASSUME List!ClearOption
      PROVE  isOpen' = isOpen /\ clicks' = clicks
  BY <1>5 DEF List!ClearOption
<1>6. ASSUME List!Reload
      PROVE  isOpen' = isOpen /\ List!Choice
  BY <1>6 DEF List!Reload
<1>7. ASSUME List!Continue
      PROVE  isOpen' = FALSE /\ List!Choice
  BY <1>7 DEF List!Continue
<1>8. ASSUME List!GoBack
      PROVE  isOpen' = TRUE /\ clicks' = clicks
  BY <1>8 DEF List!GoBack
<1>9. ASSUME NEW kind, NEW w, List!SwitchAccount(kind, w)
      PROVE  isOpen' = isOpen /\ List!Choice
  BY <1>9 DEF List!SwitchAccount
<1>10. ASSUME NEW c, List!SwitchNetwork(c)
       PROVE  isOpen' = isOpen /\ List!Choice
  BY <1>10 DEF List!SwitchNetwork
<1>11. ASSUME UNCHANGED List!sourceVars
       PROVE  isOpen' = isOpen /\ clicks' = clicks
  BY <1>11 DEF List!sourceVars
<1> QED
  BY <1>c, <1>1, <1>2, <1>3, <1>4, <1>5, <1>6, <1>7, <1>8, <1>9, <1>10, <1>11 DEF List!Next

\* What the proof knows of the page is more than its types.
LEMMA PageInvTypes ==
    ASSUME List!ConstantsOK, PageInv, PicksInv, isOpen \in BOOLEAN,
           clicks \in 0 .. MaxClicks
    PROVE  List!TypeOK
<1>1. source \in Slices /\ selector \in Components
      /\ solanaCalls \subseteq Wallets["solana"] /\ PageOK(List!Now)
  BY NowOK
<1>2. /\ \A c \in EVMs : c \in Chains
      /\ \A c \in Solanas : c \in Chains
      /\ Wallets["evm"] \subseteq List!AnyWallet
      /\ Wallets["solana"] \subseteq List!AnyWallet
  BY DEF EVMs, Solanas, List!AnyWallet
<1>3. Coins \subseteq List!Accounts
  BY <1>2 DEF Coins, List!Accounts
<1>4. AllLists \subseteq List!Lists
  BY <1>2 DEF AllLists, EVMLists, SolanaLists, List!Lists
<1>5. source \in [chain : Chains, selected : List!Accounts \cup {Nil},
                  owner : List!AnyWallet \cup {Nil}, list : List!Lists]
  BY <1>1, <1>4 DEF Slices
<1>6. /\ selector.native \in List!Accounts \cup {Nil}
      /\ selector.mints \in Wallets["solana"] \cup {Nil}
  BY <1>1, <1>3 DEF Components
<1>7. \A f \in {"covalent", "covalentBusy", "nativeBusy", "nativeLoading",
                 "nativeFailed", "mintsBusy"} : selector[f] \in BOOLEAN
  BY <1>1 DEF Components
<1>8. List!Settled(List!Now, wallet, network, isOpen) = List!Now
  BY <1>1, SettledOK DEF PageInv
<1>9. \A kind \in {"evm", "solana"} : wallet[kind] \in Wallets[kind]
  BY DEF PageInv, Connected
<1> QED
  BY <1>1, <1>5, <1>6, <1>7, <1>8, <1>9 DEF List!TypeOK, PicksInv

\* The slice, what the hook keeps, the calls and the pickers under way stay of
\* their types; and the page that is shown has always settled: however the
\* wallets, the network, the chain and the answers follow each other, three
\* renderings leave no effect that would run again, so the effects that
\* dispatch to the store they depend on never loop.
THEOREM ListTypeCorrect == List!ConstantsOK => (List!Spec => []List!TypeOK)
<1> DEFINE Inv == PageInv /\ PicksInv /\ isOpen \in BOOLEAN /\ clicks \in 0 .. MaxClicks
<1> SUFFICES ASSUME List!ConstantsOK
             PROVE  List!Spec => []List!TypeOK
  OBVIOUS
<1>1. List!Init => Inv
  <2>1. List!Init => isOpen \in BOOLEAN /\ clicks \in 0 .. MaxClicks
    BY DEF List!Init, List!ConstantsOK
  <2> QED
    BY <2>1, ListInit
<1>2. Inv /\ [List!Next]_(List!sourceVars) => Inv'
  BY ListNext, ClickOrNot
<1>3. Inv => List!TypeOK
  BY PageInvTypes
<1> QED
  BY <1>1, <1>2, <1>3, PTL DEF List!Spec

-----------------------------------------------------------------------------
(***************************************************************************)
(* The registration wizard: the reducers                                  *)
(***************************************************************************)

RegGood(a) == a \in Attest!AttestState /\ a.sourceChain # a.targetChain

\* a and b are at the same attestation and its VAA, and about the same token
\* and chain.
RegSameForm(a, b) ==
    /\ a.sourceChain = b.sourceChain /\ a.sourceAsset = b.sourceAsset
    /\ a.targetChain = b.targetChain

RegSameLocks(a, b) ==
    /\ a.signedVAA = b.signedVAA /\ a.isSending = b.isSending
    /\ a.isCreating = b.isCreating /\ a.createTx = b.createTx

\* The fields of a good slice.
LEMMA RegFields ==
    ASSUME NEW a, RegGood(a)
    PROVE  /\ a.activeStep \in 0 .. 3 /\ a.sourceChain \in Chains
           /\ a.sourceAsset \in AttestAssets \cup {Nil} /\ a.targetChain \in Chains
           /\ a.signedVAA \in 1 .. MaxAttests \cup {Nil} /\ a.isSending \in BOOLEAN
           /\ a.isCreating \in BOOLEAN /\ a.createTx \in BOOLEAN
           /\ a.sourceChain # a.targetChain
BY DEF RegGood, Attest!AttestState

LEMMA RegInitialMoves ==
    ASSUME Attest!ConstantsOK
    PROVE  /\ RegGood(Attest!initialState) /\ Attest!initialState.signedVAA = Nil
           /\ Attest!initialState.isSending = FALSE
           /\ Attest!initialState.createTx = FALSE
BY DEF Attest!ConstantsOK, Attest!initialState, RegGood, Attest!AttestState

LEMMA RegStepMoves ==
    ASSUME NEW a, RegGood(a), NEW n \in 0 .. 3
    PROVE  /\ RegGood(Attest!setStep(a, n)) /\ RegSameForm(Attest!setStep(a, n), a)
           /\ RegSameLocks(Attest!setStep(a, n), a)
BY DEF Attest!setStep, RegGood, Attest!AttestState, RegSameForm, RegSameLocks

LEMMA RegIncrementMoves ==
    ASSUME NEW a, RegGood(a)
    PROVE  /\ RegGood(Attest!incrementStep(a))
           /\ RegSameForm(Attest!incrementStep(a), a)
           /\ RegSameLocks(Attest!incrementStep(a), a)
<1>1. Attest!incrementStep(a) =
        Attest!setStep(a, IF a.activeStep < 3 THEN a.activeStep + 1 ELSE a.activeStep)
  BY DEF Attest!incrementStep, Attest!setStep
<1>2. (IF a.activeStep < 3 THEN a.activeStep + 1 ELSE a.activeStep) \in 0 .. 3
  BY RegFields
<1> QED
  BY <1>1, <1>2, RegStepMoves

LEMMA RegSourceChainMoves ==
    ASSUME NEW a, RegGood(a), NEW c \in Chains
    PROVE  /\ RegGood(Attest!setSourceChain(a, c))
           /\ RegSameLocks(Attest!setSourceChain(a, c), a)
           /\ Attest!setSourceChain(a, c).sourceChain = c
BY DEF Attest!setSourceChain, RegGood, Attest!AttestState, RegSameLocks

LEMMA RegSourceAssetMoves ==
    ASSUME NEW a, RegGood(a), NEW asset \in AttestAssets
    PROVE  /\ RegGood(Attest!setSourceAsset(a, asset))
           /\ RegSameLocks(Attest!setSourceAsset(a, asset), a)
           /\ Attest!setSourceAsset(a, asset).sourceChain = a.sourceChain
BY DEF Attest!setSourceAsset, RegGood, Attest!AttestState, RegSameLocks

LEMMA RegTargetChainMoves ==
    ASSUME NEW a, RegGood(a), NEW c \in Chains
    PROVE  /\ RegGood(Attest!setTargetChain(a, c))
           /\ RegSameLocks(Attest!setTargetChain(a, c), a)
<1>1. CASE a.sourceChain = c
  <2> DEFINE b == [a EXCEPT !.targetChain = c]
             d == [b EXCEPT !.sourceChain = a.targetChain]
             e == [d EXCEPT !.activeStep = 0]
             f == [e EXCEPT !.sourceAsset = Nil]
  <2>1. b \in Attest!AttestState /\ b.targetChain = c /\ RegSameLocks(b, a)
    BY DEF RegGood, Attest!AttestState, RegSameLocks
  <2>2. a.targetChain \in Chains /\ a.targetChain # c
    BY <1>1, RegFields
  <2>3. Attest!setTargetChain(a, c) = f
    BY <1>1 DEF Attest!setTargetChain
  <2> HIDE DEF b
  <2>4. RegGood(d) /\ RegSameLocks(d, a)
    BY <2>1, <2>2 DEF RegGood, Attest!AttestState, RegSameLocks
  <2> HIDE DEF d
  <2>5. RegGood(e) /\ RegSameLocks(e, a)
    BY <2>4 DEF RegGood, Attest!AttestState, RegSameLocks
  <2> HIDE DEF e
  <2>6. RegGood(f) /\ RegSameLocks(f, a)
    BY <2>5 DEF RegGood, Attest!AttestState, RegSameLocks
  <2> QED
    BY <2>3, <2>6
<1>2. CASE a.sourceChain # c
  BY <1>2 DEF Attest!setTargetChain, RegGood, Attest!AttestState, RegSameLocks
<1> QED
  BY <1>1, <1>2

LEMMA RegVAAMoves ==
    ASSUME NEW a, RegGood(a), NEW v \in 1 .. MaxAttests
    PROVE  LET b == Attest!setSignedVAAHex(a, v)
           IN  /\ RegGood(b) /\ RegSameForm(b, a) /\ b.signedVAA = v
               /\ b.isCreating = a.isCreating /\ b.createTx = a.createTx
<1> DEFINE b == [a EXCEPT !.signedVAA = v]
           c == [b EXCEPT !.isSending = FALSE]
           d == [c EXCEPT !.activeStep = 3]
           VAAKept(e) == RegSameForm(e, a) /\ e.signedVAA = v
                      /\ e.isCreating = a.isCreating /\ e.createTx = a.createTx
<1>1. RegGood(b) /\ VAAKept(b)
  BY DEF RegGood, Attest!AttestState, RegSameForm
<1>2. Attest!setSignedVAAHex(a, v) = d
  BY DEF Attest!setSignedVAAHex
<1> HIDE DEF b
<1>3. RegGood(c) /\ VAAKept(c)
  BY <1>1 DEF RegGood, Attest!AttestState, RegSameForm
<1> HIDE DEF c
<1>4. RegGood(d) /\ VAAKept(d)
  BY <1>3 DEF RegGood, Attest!AttestState, RegSameForm
<1> QED
  BY <1>2, <1>4

LEMMA RegSendingMoves ==
    ASSUME NEW a, RegGood(a), NEW b \in BOOLEAN
    PROVE  LET s == Attest!setIsSending(a, b)
           IN  /\ RegGood(s) /\ RegSameForm(s, a) /\ s.isSending = b
               /\ s.signedVAA = a.signedVAA /\ s.createTx = a.createTx
BY DEF Attest!setIsSending, RegGood, Attest!AttestState, RegSameForm

LEMMA RegCreatingMoves ==
    ASSUME NEW a, RegGood(a), NEW b \in BOOLEAN
    PROVE  LET s == Attest!setIsCreating(a, b)
           IN  /\ RegGood(s) /\ RegSameForm(s, a) /\ s.isSending = a.isSending
               /\ s.signedVAA = a.signedVAA /\ s.createTx = a.createTx
BY DEF Attest!setIsCreating, RegGood, Attest!AttestState, RegSameForm

LEMMA RegCreatedMoves ==
    ASSUME NEW a, RegGood(a)
    PROVE  LET s == Attest!setCreateTx(a)
           IN  /\ RegGood(s) /\ RegSameForm(s, a) /\ s.isSending = a.isSending
               /\ s.signedVAA = a.signedVAA /\ s.createTx = TRUE
BY DEF Attest!setCreateTx, RegGood, Attest!AttestState, RegSameForm

LEMMA RegResetMoves ==
    ASSUME Attest!ConstantsOK, NEW a, RegGood(a)
    PROVE  /\ RegGood(Attest!reset(a)) /\ Attest!reset(a).signedVAA = Nil
           /\ Attest!reset(a).isSending = FALSE /\ Attest!reset(a).createTx = FALSE
<1>1. /\ a.sourceChain \in Chains /\ a.targetChain \in Chains
      /\ a.sourceChain # a.targetChain
  BY RegFields
<1> DEFINE b == [Attest!initialState EXCEPT !.sourceChain = a.sourceChain]
           c == [b EXCEPT !.targetChain = a.targetChain]
           IsReset(s) == s.signedVAA = Nil /\ s.isSending = FALSE /\ s.createTx = FALSE
<1>2. Attest!initialState \in Attest!AttestState /\ IsReset(Attest!initialState)
  BY RegInitialMoves DEF RegGood
<1>3. Attest!reset(a) = c
  BY DEF Attest!reset
<1>4. b \in Attest!AttestState /\ b.sourceChain = a.sourceChain /\ IsReset(b)
  BY <1>1, <1>2 DEF Attest!AttestState
<1> HIDE DEF b
<1>5. RegGood(c) /\ IsReset(c)
  BY <1>1, <1>4 DEF RegGood, Attest!AttestState
<1> QED
  BY <1>3, <1>5

\* What "Register Now" leaves in the slice.
RegNow(a, token, target) ==
    Attest!setStep(Attest!setTargetChain(Attest!setSourceAsset(
        Attest!setSourceChain(a, token.chain), token.asset), target), 2)

LEMMA RegRegisterNowMoves ==
    ASSUME NEW a, RegGood(a), NEW token \in Attest!Tokens, NEW target \in Chains,
           token.chain # target
    PROVE  /\ RegGood(RegNow(a, token, target))
           /\ RegSameLocks(RegNow(a, token, target), a)
<1> DEFINE b == Attest!setSourceChain(a, token.chain)
           c == Attest!setSourceAsset(b, token.asset)
           d == Attest!setTargetChain(c, target)
<1>1. token.chain \in Chains /\ token.asset \in AttestAssets
  BY DEF Attest!Tokens
<1>2. RegGood(b) /\ RegSameLocks(b, a)
  BY <1>1, RegSourceChainMoves
<1> HIDE DEF b
<1>3. RegGood(c) /\ RegSameLocks(c, b)
  BY <1>1, <1>2, RegSourceAssetMoves
<1> HIDE DEF c
<1>4. RegGood(d) /\ RegSameLocks(d, c)
  BY <1>3, RegTargetChainMoves
<1> HIDE DEF d
<1>5. RegGood(Attest!setStep(d, 2)) /\ RegSameLocks(Attest!setStep(d, 2), d)
  BY <1>4, RegStepMoves
<1>6. RegNow(a, token, target) = Attest!setStep(d, 2)
  BY DEF RegNow, b, c, d
<1> QED
  BY <1>2, <1>3, <1>4, <1>5, <1>6 DEF RegSameLocks

-----------------------------------------------------------------------------
(***************************************************************************)
(* The registration wizard: types                                         *)
(***************************************************************************)

RegLookUps == [asks : 0 .. 2, isFetching : BOOLEAN, doesExist : BOOLEAN \cup {Nil}]

RegCallSet == [token : Attest!Tokens, phase : {"signing", "fetching", "ended"}]

RegCreations == [vaa : 1 .. MaxAttests, chain : Chains, update : BOOLEAN]

RegSliceOK == RegGood(attest) /\ isShown \in BOOLEAN /\ lookup \in RegLookUps

RegRestOK ==
    /\ network \in Attest!EVMChains
    /\ calls \in Seq(RegCallSet) /\ Len(calls) <= MaxAttests
    /\ creating \in RegCreations \cup {Nil}
    /\ registered \subseteq Attest!Tokens \X Chains
    /\ switched \in BOOLEAN
    /\ edits \in 0 .. MaxEdits

\* The VAA of the slice, and the one that is being used, are of attestations
\* that were sent.
RegVAAsExist ==
    /\ attest.signedVAA # Nil => attest.signedVAA \in DOMAIN calls
    /\ creating # Nil => creating.vaa \in DOMAIN calls

RegTypeInv == RegSliceOK /\ RegRestOK /\ RegVAAsExist

LEMMA RegTypeParts == Attest!TypeOK <=> RegSliceOK /\ RegRestOK
BY DEF Attest!TypeOK, RegSliceOK, RegRestOK, RegGood, RegLookUps, RegCallSet,
   RegCreations

LEMMA RegUnmountedOK == Attest!Unmounted \in RegLookUps
BY DEF Attest!Unmounted, RegLookUps

LEMMA RegLookUpOK ==
    ASSUME NEW l \in RegLookUps, NEW a, NEW net
    PROVE  Attest!LookUp(a, l, net) \in RegLookUps
<1>1. l.asks \in 0 .. 2 /\ (IF l.asks < 2 THEN l.asks + 1 ELSE 2) \in 0 .. 2
  BY DEF RegLookUps
<1> QED
  BY <1>1 DEF Attest!LookUp, RegLookUps

\* A rendering of a good slice.
LEMMA RegRendersOK ==
    ASSUME RegSliceOK, NEW a, RegGood(a), NEW shown \in BOOLEAN, Attest!Renders(a,
           shown)
    PROVE  RegSliceOK' /\ attest' = a
<1>1. attest' = a /\ isShown' = shown
  BY DEF Attest!Renders
<1>2. lookup' \in RegLookUps
  BY RegUnmountedOK, RegLookUpOK DEF Attest!Renders, RegSliceOK
<1> QED
  BY <1>1, <1>2 DEF RegSliceOK, RegGood

\* A call in the sequence.
LEMMA RegCallOK ==
    ASSUME Attest!ConstantsOK, RegRestOK, NEW i \in DOMAIN calls
    PROVE  /\ i \in 1 .. MaxAttests /\ i \in 1 .. Len(calls) /\ calls[i] \in RegCallSet
           /\ calls[i].token \in Attest!Tokens
           /\ calls[i].phase \in {"signing", "fetching", "ended"}
<1>1. /\ calls \in Seq(RegCallSet) /\ Len(calls) <= MaxAttests
      /\ Len(calls) \in Nat /\ DOMAIN calls = 1 .. Len(calls)
  BY DEF RegRestOK
<1>2. i \in Nat /\ 1 <= i /\ i <= Len(calls) /\ calls[i] \in RegCallSet
  BY <1>1
<1>3. Len(calls) <= MaxAttests /\ i <= MaxAttests
  BY <1>1, <1>2 DEF Attest!ConstantsOK
<1> QED
  BY <1>1, <1>2, <1>3 DEF RegCallSet, Attest!ConstantsOK

\* The end of a phase.
LEMMA RegPhaseMoves ==
    ASSUME Attest!ConstantsOK, RegRestOK, NEW i \in DOMAIN calls, NEW p \in {"signing",
           "fetching", "ended"},
           calls' = [calls EXCEPT ![i].phase = p]
    PROVE  /\ calls' \in Seq(RegCallSet) /\ Len(calls') <= MaxAttests
           /\ DOMAIN calls' = DOMAIN calls
           /\ calls'[i].phase = p
           /\ \A j \in DOMAIN calls : /\ calls'[j].token = calls[j].token
                                      /\ j # i => calls'[j] = calls[j]
<1> DEFINE e == [calls[i] EXCEPT !.phase = p]
<1>1. calls \in Seq(RegCallSet) /\ Len(calls) <= MaxAttests
  BY DEF RegRestOK
<1>2. e \in RegCallSet /\ e.phase = p /\ e.token = calls[i].token
  BY RegCallOK DEF RegCallSet
<1>3. calls' = [calls EXCEPT ![i] = e]
  OBVIOUS
<1> HIDE DEF e
<1>4. /\ calls' \in Seq(RegCallSet) /\ Len(calls') = Len(calls)
      /\ DOMAIN calls' = DOMAIN calls
  BY <1>1, <1>2, <1>3
<1> QED
  BY <1>1, <1>2, <1>3, <1>4

\* A new attestation.
LEMMA RegCallGrows ==
    ASSUME Attest!ConstantsOK, RegRestOK, NEW t \in Attest!Tokens,
           Len(calls) < MaxAttests,
           calls' = Append(calls, [token |-> t, phase |-> "signing"])
    PROVE  /\ calls' \in Seq(RegCallSet) /\ Len(calls') <= MaxAttests
           /\ DOMAIN calls' = DOMAIN calls \cup {Len(calls) + 1}
           /\ calls'[Len(calls) + 1] = [token |-> t, phase |-> "signing"]
           /\ \A j \in DOMAIN calls : calls'[j] = calls[j] /\ j # Len(calls) + 1
<1> DEFINE e == [token |-> t, phase |-> "signing"]
<1>1. calls \in Seq(RegCallSet) /\ Len(calls) \in Nat /\ DOMAIN calls = 1 .. Len(calls)
  BY DEF RegRestOK
<1>2. e \in RegCallSet
  BY DEF RegCallSet
<1> HIDE DEF e
<1>3. /\ calls' \in Seq(RegCallSet) /\ Len(calls') = Len(calls) + 1
      /\ calls'[Len(calls) + 1] = e /\ \A j \in 1 .. Len(calls) : calls'[j] = calls[j]
  BY <1>1, <1>2 DEF e
<1>4. Len(calls') <= MaxAttests
  BY <1>1, <1>3 DEF Attest!ConstantsOK
<1>5. DOMAIN calls' = 1 .. (Len(calls) + 1)
  BY <1>3
<1>6. \A j \in 1 .. Len(calls) : j # Len(calls) + 1
  BY <1>1
<1>7. 1 .. (Len(calls) + 1) = 1 .. Len(calls) \cup {Len(calls) + 1}
  BY <1>1
<1> QED
  BY <1>1, <1>3, <1>4, <1>5, <1>6, <1>7 DEF e

LEMMA RegEditOK ==
    Attest!ConstantsOK /\ edits \in 0 .. MaxEdits /\ Attest!Edit
      => edits' \in 0 .. MaxEdits
BY DEF Attest!ConstantsOK, Attest!Edit

LEMMA RegInitParts == Attest!ConstantsOK /\ Attest!Init => RegSliceOK /\ RegRestOK
<1> SUFFICES ASSUME Attest!ConstantsOK, Attest!Init PROVE RegSliceOK /\ RegRestOK
  OBVIOUS
<1>1. RegSliceOK
  BY RegInitialMoves, RegUnmountedOK DEF Attest!Init, RegSliceOK
<1>2. calls \in Seq(RegCallSet) /\ Len(calls) = 0
  BY DEF Attest!Init
<1>3. /\ network \in Attest!EVMChains /\ creating = Nil /\ registered = {}
      /\ switched \in BOOLEAN
  BY DEF Attest!Init
<1>4. Len(calls) <= MaxAttests /\ edits \in 0 .. MaxEdits
  BY <1>2 DEF Attest!Init, Attest!ConstantsOK
<1>5. RegRestOK
  BY <1>2, <1>3, <1>4 DEF RegRestOK
<1> QED
  BY <1>1, <1>5

\* What a click or an answer renders is a good slice.
LEMMA RegSliceNext ==
    Attest!ConstantsOK /\ RegSliceOK /\ RegRestOK /\ [Attest!Next]_(Attest!attestVars)
    => RegSliceOK'
<1> SUFFICES ASSUME Attest!ConstantsOK, RegSliceOK, RegRestOK,
                    [Attest!Next]_(Attest!attestVars)
             PROVE  RegSliceOK'
  OBVIOUS
<1>g. RegGood(attest) /\ isShown \in BOOLEAN /\ lookup \in RegLookUps
  BY DEF RegSliceOK
<1>c. ASSUME NEW s, RegGood(s), Attest!Click(s) PROVE RegSliceOK'
  BY <1>c, <1>g, RegRendersOK DEF Attest!Click
<1>1. ASSUME NEW c \in Chains, Attest!ChooseSourceChain(c) PROVE RegSliceOK'
  BY <1>1, <1>c, <1>g, RegSourceChainMoves DEF Attest!ChooseSourceChain
<1>2. ASSUME NEW c \in Chains, Attest!ChooseTargetChain(c) PROVE RegSliceOK'
  BY <1>2, <1>c, <1>g, RegTargetChainMoves DEF Attest!ChooseTargetChain
<1>3. ASSUME NEW asset \in AttestAssets, Attest!TypeAsset(asset) PROVE RegSliceOK'
  BY <1>3, <1>c, <1>g, RegSourceAssetMoves DEF Attest!TypeAsset
<1>4. CASE Attest!Continue
  BY <1>4, <1>c, <1>g, RegIncrementMoves DEF Attest!Continue
<1>5. ASSUME NEW n \in 0 .. 3, Attest!StepButton(n) PROVE RegSliceOK'
  BY <1>5, <1>c, <1>g, RegStepMoves DEF Attest!StepButton
<1>6. CASE Attest!AttestClick
  BY <1>6, <1>g, RegSendingMoves, RegRendersOK DEF Attest!AttestClick
<1>7. ASSUME NEW i \in DOMAIN calls, Attest!Called(i) PROVE RegSliceOK'
  <2>1. CASE Attest!AttestConfirmed(i)
    BY <2>1, <1>g DEF Attest!AttestConfirmed, RegSliceOK
  <2>2. CASE Attest!AttestFails(i)
    BY <2>2, <1>g, RegSendingMoves, RegRendersOK DEF Attest!AttestFails
  <2>3. CASE Attest!GotSignedVAA(i)
    <3>1. i \in 1 .. MaxAttests
      BY RegCallOK
    <3> QED
      BY <2>3, <3>1, <1>g, RegVAAMoves, RegRendersOK DEF Attest!GotSignedVAA
  <2> QED
    BY <1>7, <2>1, <2>2, <2>3 DEF Attest!Called
<1>8. CASE Attest!LookUpAnswer
  <2> DEFINE known == <<[chain |-> attest.sourceChain, asset |-> attest.sourceAsset],
                        attest.targetChain>> \in registered
  <2>0. PICK exists \in {FALSE, known} :
          lookup' = [asks |-> lookup.asks - 1, isFetching |-> FALSE, doesExist |-> exists]
    BY <1>8 DEF Attest!LookUpAnswer
  <2>1. exists \in BOOLEAN
    <3>1. known \in BOOLEAN
      OBVIOUS
    <3> HIDE DEF known
    <3> QED
      BY <3>1, Zenon
  <2>2. lookup.asks - 1 \in 0 .. 2
    BY <1>8, <1>g DEF Attest!LookUpAnswer, RegLookUps
  <2>3. lookup' \in RegLookUps
    BY <2>0, <2>1, <2>2 DEF RegLookUps
  <2> QED
    BY <1>8, <1>g, <2>3 DEF Attest!LookUpAnswer, RegSliceOK
<1>9. CASE Attest!LookUpFails
  <2>1. lookup' = [lookup EXCEPT !.asks = @ - 1, !.isFetching = FALSE]
    BY <1>9 DEF Attest!LookUpFails
  <2>2. lookup.asks - 1 \in 0 .. 2
    BY <1>9, <1>g DEF Attest!LookUpFails, RegLookUps
  <2>3. lookup' \in RegLookUps
    BY <1>g, <2>1, <2>2 DEF RegLookUps
  <2> QED
    BY <1>9, <1>g, <2>3 DEF Attest!LookUpFails, RegSliceOK
<1>10. CASE Attest!CreateClick
  BY <1>10, <1>g, RegCreatingMoves, RegRendersOK DEF Attest!CreateClick
<1>11. CASE Attest!CreateEnds
  BY <1>11, <1>g, RegCreatingMoves, RegCreatedMoves, RegRendersOK DEF Attest!CreateEnds
<1>12. ASSUME NEW shown \in BOOLEAN, Attest!ResetClick(shown) PROVE RegSliceOK'
  BY <1>12, <1>g, RegResetMoves, RegRendersOK DEF Attest!ResetClick
<1>13. CASE Attest!Leave \/ Attest!Return
  BY <1>13, <1>g, RegRendersOK DEF Attest!Leave, Attest!Return
<1>14. ASSUME NEW token \in Attest!Tokens, NEW target \in Chains,
              Attest!RegisterNow(token, target)
       PROVE  RegSliceOK'
  BY <1>14, <1>g, RegRegisterNowMoves, RegRendersOK DEF Attest!RegisterNow, RegNow
<1>15. ASSUME NEW token \in Attest!Tokens, NEW target \in Chains,
              Attest!Register(token, target)
       PROVE  RegSliceOK'
  BY <1>15, <1>g DEF Attest!Register, RegSliceOK
<1>16. ASSUME NEW c \in Attest!EVMChains, Attest!SwitchNetwork(c) PROVE RegSliceOK'
  <2>1. lookup' \in RegLookUps
    BY <1>16, <1>g, RegLookUpOK DEF Attest!SwitchNetwork
  <2> QED
    BY <1>16, <1>g, <2>1 DEF Attest!SwitchNetwork, RegSliceOK
<1>17. CASE UNCHANGED Attest!attestVars
  BY <1>17, <1>g DEF Attest!attestVars, RegSliceOK
<1> QED
  BY <1>1, <1>2, <1>3, <1>4, <1>5, <1>6, <1>7, <1>8, <1>9, <1>10, <1>11, <1>12, <1>13,
     <1>14, <1>15, <1>16, <1>17 DEF Attest!Next

LEMMA RegRestNext ==
    Attest!ConstantsOK /\ RegTypeInv /\ [Attest!Next]_(Attest!attestVars) => RegRestOK'
<1> SUFFICES ASSUME Attest!ConstantsOK, RegSliceOK, RegRestOK, RegVAAsExist,
                    [Attest!Next]_(Attest!attestVars)
             PROVE  RegRestOK'
  BY DEF RegTypeInv
<1>f. /\ attest.sourceChain \in Chains /\ attest.targetChain \in Chains
      /\ attest.sourceAsset \in AttestAssets \cup {Nil}
      /\ attest.signedVAA \in 1 .. MaxAttests \cup {Nil}
  BY RegFields DEF RegSliceOK
<1>e. Attest!Edit => edits' \in 0 .. MaxEdits
  BY RegEditOK DEF RegRestOK
<1>u. ASSUME UNCHANGED <<network, calls, creating, registered, switched>>,
             edits' \in 0 .. MaxEdits
      PROVE  RegRestOK'
  BY <1>u DEF RegRestOK
<1>k. edits \in 0 .. MaxEdits
  BY DEF RegRestOK
<1>1. ASSUME NEW c \in Chains, Attest!ChooseSourceChain(c) PROVE RegRestOK'
  BY <1>1, <1>e, <1>u DEF Attest!ChooseSourceChain, Attest!Click
<1>2. ASSUME NEW c \in Chains, Attest!ChooseTargetChain(c) PROVE RegRestOK'
  BY <1>2, <1>e, <1>u DEF Attest!ChooseTargetChain, Attest!Click
<1>3. ASSUME NEW asset \in AttestAssets, Attest!TypeAsset(asset) PROVE RegRestOK'
  BY <1>3, <1>e, <1>u DEF Attest!TypeAsset, Attest!Click
<1>4. CASE Attest!Continue
  BY <1>4, <1>k, <1>u DEF Attest!Continue, Attest!Click
<1>5. ASSUME NEW n \in 0 .. 3, Attest!StepButton(n) PROVE RegRestOK'
  BY <1>5, <1>e, <1>u DEF Attest!StepButton, Attest!Click
<1>6. CASE Attest!AttestClick
  <2> DEFINE t == [chain |-> attest.sourceChain, asset |-> attest.sourceAsset]
  <2>1. t \in Attest!Tokens
    BY <1>6, <1>f DEF Attest!AttestClick, Attest!IsTargetComplete,
       Attest!IsSourceComplete, Attest!Tokens
  <2>2. calls' \in Seq(RegCallSet) /\ Len(calls') <= MaxAttests
    BY <1>6, <2>1, RegCallGrows DEF Attest!AttestClick
  <2> QED
    BY <1>6, <2>2 DEF Attest!AttestClick, RegRestOK
<1>7. ASSUME NEW i \in DOMAIN calls, Attest!Called(i) PROVE RegRestOK'
  <2>1. PICK p \in {"signing", "fetching", "ended"} :
          /\ calls' = [calls EXCEPT ![i].phase = p]
          /\ UNCHANGED <<network, creating, registered, switched, edits>>
    BY <1>7 DEF Attest!Called, Attest!AttestConfirmed, Attest!AttestFails,
       Attest!GotSignedVAA
  <2>2. calls' \in Seq(RegCallSet) /\ Len(calls') <= MaxAttests
    BY <2>1, RegPhaseMoves
  <2> QED
    BY <2>1, <2>2 DEF RegRestOK
<1>8. CASE Attest!LookUpAnswer \/ Attest!LookUpFails
  BY <1>8, <1>k, <1>u DEF Attest!LookUpAnswer, Attest!LookUpFails
<1>9. CASE Attest!CreateClick
  <2> DEFINE r == [vaa |-> attest.signedVAA, chain |-> attest.targetChain,
                   update |-> lookup.doesExist = TRUE]
  <2>1. r \in RegCreations
    BY <1>9, <1>f DEF Attest!CreateClick, Attest!IsSendComplete, RegCreations
  <2>2. creating' = r
    BY <1>9 DEF Attest!CreateClick
  <2> HIDE DEF r
  <2> QED
    BY <1>9, <2>1, <2>2 DEF Attest!CreateClick, RegRestOK
<1>10. CASE Attest!CreateEnds
  <2> DEFINE new == <<calls[creating.vaa].token, creating.chain>>
  <2>1. creating' = Nil /\ UNCHANGED <<network, calls, switched, edits>>
    BY <1>10 DEF Attest!CreateEnds
  <2>2. registered' \in {registered, registered \cup {new}}
    BY <1>10 DEF Attest!CreateEnds
  <2>3. new \in Attest!Tokens \X Chains
    <3>1. creating \in RegCreations /\ creating.vaa \in DOMAIN calls
      BY <1>10 DEF Attest!CreateEnds, RegRestOK, RegVAAsExist
    <3>2. creating.chain \in Chains /\ calls[creating.vaa].token \in Attest!Tokens
      BY <3>1, RegCallOK DEF RegCreations
    <3> QED
      BY <3>2
  <2>4. registered' \subseteq Attest!Tokens \X Chains
    BY <2>2, <2>3 DEF RegRestOK
  <2> HIDE DEF new
  <2> QED
    BY <2>1, <2>4 DEF RegRestOK
<1>11. ASSUME NEW shown \in BOOLEAN, Attest!ResetClick(shown) PROVE RegRestOK'
  BY <1>11, <1>k, <1>u DEF Attest!ResetClick
<1>12. CASE Attest!Leave \/ Attest!Return
  BY <1>12, <1>e, <1>k, <1>u DEF Attest!Leave, Attest!Return
<1>13. ASSUME NEW token \in Attest!Tokens, NEW target \in Chains,
              Attest!RegisterNow(token, target)
       PROVE  RegRestOK'
  <2>1. switched' \in BOOLEAN
    BY <1>13 DEF Attest!RegisterNow
  <2> QED
    BY <1>13, <2>1 DEF Attest!RegisterNow, RegRestOK
<1>14. ASSUME NEW token \in Attest!Tokens, NEW target \in Chains,
              Attest!Register(token, target)
       PROVE  RegRestOK'
  <2>1. registered' = registered \cup {<<token, target>>}
    BY <1>14 DEF Attest!Register
  <2>2. registered' \subseteq Attest!Tokens \X Chains
    BY <2>1 DEF RegRestOK
  <2> QED
    BY <1>14, <1>e, <2>2 DEF Attest!Register, RegRestOK
<1>15. ASSUME NEW c \in Attest!EVMChains, Attest!SwitchNetwork(c) PROVE RegRestOK'
  BY <1>15, <1>e DEF Attest!SwitchNetwork, RegRestOK
<1>16. CASE UNCHANGED Attest!attestVars
  BY <1>16, <1>k, <1>u DEF Attest!attestVars
<1> QED
  BY <1>1, <1>2, <1>3, <1>4, <1>5, <1>6, <1>7, <1>8, <1>9, <1>10, <1>11, <1>12, <1>13,
     <1>14, <1>15, <1>16 DEF Attest!Next

LEMMA RegExistNext ==
    Attest!ConstantsOK /\ RegTypeInv /\ [Attest!Next]_(Attest!attestVars)
      => RegVAAsExist'
<1> SUFFICES ASSUME Attest!ConstantsOK, RegSliceOK, RegRestOK, RegVAAsExist,
                    [Attest!Next]_(Attest!attestVars)
             PROVE  RegVAAsExist'
  BY DEF RegTypeInv
<1>g. RegGood(attest)
  BY DEF RegSliceOK
<1>s. ASSUME attest'.signedVAA \in {attest.signedVAA, Nil}, creating' \in {creating,
             Nil},
             calls' = calls
      PROVE  RegVAAsExist'
  BY <1>s DEF RegVAAsExist
<1>1. ASSUME NEW c \in Chains, Attest!ChooseSourceChain(c) PROVE RegVAAsExist'
  BY <1>1, <1>g, <1>s, RegSourceChainMoves DEF Attest!ChooseSourceChain, Attest!Click,
     Attest!Renders, RegSameLocks
<1>2. ASSUME NEW c \in Chains, Attest!ChooseTargetChain(c) PROVE RegVAAsExist'
  BY <1>2, <1>g, <1>s, RegTargetChainMoves DEF Attest!ChooseTargetChain, Attest!Click,
     Attest!Renders, RegSameLocks
<1>3. ASSUME NEW asset \in AttestAssets, Attest!TypeAsset(asset) PROVE RegVAAsExist'
  BY <1>3, <1>g, <1>s, RegSourceAssetMoves DEF Attest!TypeAsset, Attest!Click,
     Attest!Renders, RegSameLocks
<1>4. CASE Attest!Continue
  BY <1>4, <1>g, <1>s, RegIncrementMoves DEF Attest!Continue, Attest!Click,
     Attest!Renders, RegSameLocks
<1>5. ASSUME NEW n \in 0 .. 3, Attest!StepButton(n) PROVE RegVAAsExist'
  BY <1>5, <1>g, <1>s, RegStepMoves DEF Attest!StepButton, Attest!Click, Attest!Renders,
     RegSameLocks
<1>6. CASE Attest!AttestClick
  <2> DEFINE t == [chain |-> attest.sourceChain, asset |-> attest.sourceAsset]
  <2>1. t \in Attest!Tokens
    BY <1>6, <1>g, RegFields DEF Attest!AttestClick, Attest!IsTargetComplete,
       Attest!IsSourceComplete, Attest!Tokens
  <2>2. DOMAIN calls \subseteq DOMAIN calls'
    BY <1>6, <2>1, RegCallGrows DEF Attest!AttestClick
  <2>3. attest'.signedVAA = attest.signedVAA /\ creating' = creating
    BY <1>6, <1>g, RegSendingMoves DEF Attest!AttestClick, Attest!Renders
  <2> QED
    BY <2>2, <2>3 DEF RegVAAsExist
<1>7. ASSUME NEW i \in DOMAIN calls, Attest!Called(i) PROVE RegVAAsExist'
  <2>1. creating' = creating /\ DOMAIN calls' = DOMAIN calls
    BY <1>7, RegPhaseMoves DEF Attest!Called, Attest!AttestConfirmed,
       Attest!AttestFails, Attest!GotSignedVAA
  <2>2. attest'.signedVAA \in {attest.signedVAA, i}
    <3>1. i \in 1 .. MaxAttests
      BY RegCallOK
    <3>2. CASE Attest!AttestConfirmed(i)
      BY <3>2 DEF Attest!AttestConfirmed
    <3>3. CASE Attest!AttestFails(i)
      BY <3>3, <1>g, RegSendingMoves DEF Attest!AttestFails, Attest!Renders
    <3>4. CASE Attest!GotSignedVAA(i)
      BY <3>1, <3>4, <1>g, RegVAAMoves DEF Attest!GotSignedVAA, Attest!Renders
    <3> QED
      BY <1>7, <3>2, <3>3, <3>4 DEF Attest!Called
  <2> QED
    BY <2>1, <2>2 DEF RegVAAsExist
<1>8. CASE Attest!LookUpAnswer \/ Attest!LookUpFails
  BY <1>8, <1>s DEF Attest!LookUpAnswer, Attest!LookUpFails
<1>9. CASE Attest!CreateClick
  <2>1. attest'.signedVAA = attest.signedVAA /\ calls' = calls
    BY <1>9, <1>g, RegCreatingMoves DEF Attest!CreateClick, Attest!Renders
  <2>2. creating'.vaa = attest.signedVAA /\ attest.signedVAA # Nil
    BY <1>9 DEF Attest!CreateClick, Attest!IsSendComplete
  <2> QED
    BY <2>1, <2>2 DEF RegVAAsExist
<1>10. CASE Attest!CreateEnds
  BY <1>10, <1>g, <1>s, RegCreatingMoves, RegCreatedMoves DEF Attest!CreateEnds,
     Attest!Renders
<1>11. ASSUME NEW shown \in BOOLEAN, Attest!ResetClick(shown) PROVE RegVAAsExist'
  BY <1>11, <1>g, <1>s, RegResetMoves DEF Attest!ResetClick, Attest!Renders
<1>12. CASE Attest!Leave \/ Attest!Return
  BY <1>12, <1>s DEF Attest!Leave, Attest!Return, Attest!Renders
<1>13. ASSUME NEW token \in Attest!Tokens, NEW target \in Chains,
              Attest!RegisterNow(token, target)
       PROVE  RegVAAsExist'
  BY <1>13, <1>g, <1>s, RegRegisterNowMoves DEF Attest!RegisterNow, RegNow,
     Attest!Renders, RegSameLocks
<1>14. ASSUME NEW token \in Attest!Tokens, NEW target \in Chains,
              Attest!Register(token, target)
       PROVE  RegVAAsExist'
  BY <1>14, <1>s DEF Attest!Register
<1>15. ASSUME NEW c \in Attest!EVMChains, Attest!SwitchNetwork(c) PROVE RegVAAsExist'
  BY <1>15, <1>s DEF Attest!SwitchNetwork
<1>16. CASE UNCHANGED Attest!attestVars
  BY <1>16, <1>s DEF Attest!attestVars
<1> QED
  BY <1>1, <1>2, <1>3, <1>4, <1>5, <1>6, <1>7, <1>8, <1>9, <1>10, <1>11, <1>12, <1>13,
     <1>14, <1>15, <1>16 DEF Attest!Next

LEMMA RegTypeInvariant == Attest!ConstantsOK => (Attest!Spec => []RegTypeInv)
<1> SUFFICES ASSUME Attest!ConstantsOK PROVE Attest!Spec => []RegTypeInv
  OBVIOUS
<1>1. Attest!Init => RegTypeInv
  <2> SUFFICES ASSUME Attest!Init PROVE RegTypeInv
    OBVIOUS
  <2>1. RegVAAsExist
    BY RegInitialMoves DEF Attest!Init, RegVAAsExist
  <2> QED
    BY <2>1, RegInitParts DEF RegTypeInv
<1>2. RegTypeInv /\ [Attest!Next]_(Attest!attestVars) => RegTypeInv'
  BY RegSliceNext, RegRestNext, RegExistNext DEF RegTypeInv
<1> QED
  BY <1>1, <1>2, PTL DEF Attest!Spec

\* The slice, the look-up, the calls and the registered tokens are of their
\* types, and no reducer selects one chain twice.
THEOREM RegistrationTypes == Attest!ConstantsOK => (Attest!Spec => []Attest!TypeOK)
<1> SUFFICES ASSUME Attest!ConstantsOK PROVE Attest!Spec => []Attest!TypeOK
  OBVIOUS
<1>1. Attest!Spec => []RegTypeInv
  BY RegTypeInvariant
<1>2. RegTypeInv => Attest!TypeOK
  BY RegTypeParts DEF RegTypeInv
<1> QED
  BY <1>1, <1>2, PTL

-----------------------------------------------------------------------------
(***************************************************************************)
(* The registration wizard: what is shown as created is registered        *)
(***************************************************************************)

RegToken(a) == [chain |-> a.sourceChain, asset |-> a.sourceAsset]

RegInFlight(i) == calls[i].phase \in {"signing", "fetching"}

\* As long as "Register Now" has not replaced it while it was sent, the wizard
\* follows one attestation: the one that is sent, its VAA, the call that uses it
\* and the token that is shown as created are about the form.
RegOrderly ==
    /\ \A i \in DOMAIN calls : RegInFlight(i) =>
          /\ attest.isSending /\ attest.signedVAA = Nil
          /\ calls[i].token = RegToken(attest)
          /\ \A j \in DOMAIN calls : RegInFlight(j) => j = i
    /\ attest.signedVAA # Nil => calls[attest.signedVAA].token = RegToken(attest)
    /\ creating # Nil =>
          /\ attest.signedVAA # Nil /\ creating.vaa = attest.signedVAA
          /\ creating.chain = attest.targetChain /\ ~attest.createTx
    /\ attest.createTx =>
          /\ attest.signedVAA # Nil
          /\ Kind[attest.targetChain] # "terra" =>
                <<RegToken(attest), attest.targetChain>> \in registered

RegOrderlyInv == ~switched => RegOrderly

\* Nothing that Orderly is about changes.
LEMMA RegOrderlyKept ==
    ASSUME RegOrderly, RegSameForm(attest', attest), RegSameLocks(attest', attest),
           UNCHANGED <<calls, creating>>, registered \subseteq registered'
    PROVE  RegOrderly'
<1>1. /\ /\ RegToken(attest)' = RegToken(attest)
      /\ attest'.targetChain = attest.targetChain
      /\ attest'.signedVAA = attest.signedVAA /\ attest'.isSending = attest.isSending
      /\ attest'.createTx = attest.createTx /\ calls' = calls /\ creating' = creating
  BY DEF RegSameForm, RegSameLocks, RegToken
<1> QED
  BY <1>1 DEF RegOrderly, RegInFlight

\* While the fields are not locked there is nothing it is about.
LEMMA RegOrderlyUnlocked ==
    ASSUME RegOrderly, ~Attest!ShouldLockFields(attest), RegSameLocks(attest', attest),
           UNCHANGED <<calls, creating>>
    PROVE  RegOrderly'
<1>1. /\ attest'.signedVAA = Nil /\ attest'.createTx = attest.createTx
      /\ attest.signedVAA = Nil /\ ~attest.isSending
      /\ calls' = calls /\ creating' = creating
  BY DEF RegSameLocks, Attest!ShouldLockFields, Attest!IsSendComplete
<1> QED
  BY <1>1 DEF RegOrderly, RegInFlight

\* An answer to an attestation, or a new one.
LEMMA RegOrderlyCalls ==
    ASSUME Attest!ConstantsOK, RegTypeInv, RegOrderly,
           Attest!AttestClick \/ \E i \in DOMAIN calls : Attest!Called(i)
    PROVE  RegOrderly'
<1>g. RegGood(attest) /\ RegRestOK /\ RegVAAsExist
  BY DEF RegTypeInv, RegSliceOK
<1>1. CASE Attest!AttestClick
  <2> DEFINE n == Len(calls) + 1
  <2>1. RegToken(attest) \in Attest!Tokens
    BY <1>1, <1>g, RegFields DEF Attest!AttestClick, Attest!IsTargetComplete,
       Attest!IsSourceComplete, Attest!Tokens, RegToken
  <2>2. /\ DOMAIN calls' = DOMAIN calls \cup {n}
        /\ calls'[n] = [token |-> RegToken(attest), phase |-> "signing"]
        /\ \A j \in DOMAIN calls : calls'[j] = calls[j] /\ j # n
    BY <1>1, <1>g, <2>1, RegCallGrows DEF Attest!AttestClick, RegToken
  <2>3. /\ RegToken(attest)' = RegToken(attest) /\ attest'.isSending = TRUE
        /\ attest'.signedVAA = attest.signedVAA /\ attest'.createTx = attest.createTx
        /\ creating' = creating
    BY <1>1, <1>g, RegSendingMoves DEF Attest!AttestClick, Attest!Renders, RegSameForm,
       RegToken
  <2>4. attest.signedVAA = Nil /\ ~attest.isSending
    BY <1>1 DEF Attest!AttestClick, Attest!ShouldLockFields, Attest!IsSendComplete
  <2>5. \A j \in DOMAIN calls : ~RegInFlight(j)
    BY <2>4 DEF RegOrderly
  <2>6. \A j \in DOMAIN calls' : RegInFlight(j)' => j = n
    BY <2>2, <2>5 DEF RegInFlight
  <2> HIDE DEF n
  <2>7. \A i \in DOMAIN calls' : RegInFlight(i)' =>
          /\ attest'.isSending /\ attest'.signedVAA = Nil
          /\ calls'[i].token = RegToken(attest)'
          /\ \A j \in DOMAIN calls' : RegInFlight(j)' => j = i
    BY <2>2, <2>3, <2>4, <2>6
  <2> QED
    BY <2>3, <2>4, <2>7 DEF RegOrderly
<1>2. ASSUME NEW i \in DOMAIN calls, NEW p \in {"signing", "fetching", "ended"},
             RegInFlight(i), calls' = [calls EXCEPT ![i].phase = p], creating' = creating,
             registered' = registered,
             RegSameForm(attest', attest), attest'.createTx = attest.createTx,
             \/ p = "fetching" /\ attest' = attest
             \/ p = "ended" /\ attest'.signedVAA \in {attest.signedVAA, i}
      PROVE  RegOrderly'
  <2>1. /\ DOMAIN calls' = DOMAIN calls /\ calls'[i].phase = p
        /\ \A j \in DOMAIN calls : /\ calls'[j].token = calls[j].token
                                   /\ j # i => calls'[j] = calls[j]
    BY <1>2, <1>g, RegPhaseMoves
  <2>2. /\ /\ attest.isSending /\ attest.signedVAA = Nil
        /\ calls[i].token = RegToken(attest)
        /\ \A j \in DOMAIN calls : RegInFlight(j) => j = i
    BY <1>2 DEF RegOrderly
  <2>3. /\ /\ RegToken(attest)' = RegToken(attest)
        /\ attest'.targetChain = attest.targetChain
        /\ ~attest'.createTx /\ creating = Nil /\ creating' = Nil
    BY <1>2, <2>2 DEF RegSameForm, RegToken, RegOrderly
  <2>4. \A j \in DOMAIN calls' : RegInFlight(j)' => j = i /\ p = "fetching"
    BY <1>2, <2>1, <2>2 DEF RegInFlight
  <2>5. attest'.signedVAA \in {Nil, i}
    BY <1>2, <2>2
  <2>6. \A j \in DOMAIN calls' : RegInFlight(j)' =>
          /\ attest'.isSending /\ attest'.signedVAA = Nil
          /\ calls'[j].token = RegToken(attest)'
          /\ \A k \in DOMAIN calls' : RegInFlight(k)' => k = j
    BY <1>2, <2>1, <2>2, <2>3, <2>4
  <2>7. attest'.signedVAA # Nil => calls'[attest'.signedVAA].token = RegToken(attest)'
    BY <2>1, <2>2, <2>3, <2>5
  <2> QED
    BY <2>3, <2>6, <2>7 DEF RegOrderly
<1>3. ASSUME NEW i \in DOMAIN calls, Attest!Called(i) PROVE RegOrderly'
  <2>0. i \in 1 .. MaxAttests
    BY <1>g, RegCallOK
  <2>1. CASE Attest!AttestConfirmed(i)
    BY <2>1, <1>2 DEF Attest!AttestConfirmed, RegInFlight, RegSameForm
  <2>2. CASE Attest!AttestFails(i)
    BY <2>2, <1>2, <1>g, RegSendingMoves DEF Attest!AttestFails, RegInFlight,
       Attest!Renders
  <2>3. CASE Attest!GotSignedVAA(i)
    BY <2>0, <2>3, <1>2, <1>g, RegVAAMoves DEF Attest!GotSignedVAA, RegInFlight,
       Attest!Renders
  <2> QED
    BY <1>3, <2>1, <2>2, <2>3 DEF Attest!Called
<1> QED
  BY <1>1, <1>3

\* The calls that use a VAA.
LEMMA RegOrderlyCreates ==
    ASSUME Attest!ConstantsOK, RegTypeInv, RegOrderly,
           Attest!CreateClick \/ Attest!CreateEnds
    PROVE  RegOrderly'
<1>g. RegGood(attest)
  BY DEF RegTypeInv, RegSliceOK
<1>1. /\ /\ RegToken(attest)' = RegToken(attest)
      /\ attest'.targetChain = attest.targetChain
      /\ attest'.signedVAA = attest.signedVAA /\ attest'.isSending = attest.isSending
      /\ calls' = calls
  <2> DEFINE Moves(s) == RegSameForm(s, attest) /\ s.signedVAA = attest.signedVAA
                         /\ s.isSending = attest.isSending
  <2>1. \A b \in BOOLEAN : Moves(Attest!setIsCreating(attest, b))
    BY <1>g, RegCreatingMoves
  <2>2. Moves(Attest!setCreateTx(attest))
    BY <1>g, RegCreatedMoves
  <2>3. /\ calls' = calls
        /\ \/ attest' = Attest!setCreateTx(attest)
           \/ \E b \in BOOLEAN : attest' = Attest!setIsCreating(attest, b)
    BY DEF Attest!CreateClick, Attest!CreateEnds, Attest!Renders
  <2>4. Moves(attest')
    BY <2>1, <2>2, <2>3
  <2> QED
    BY <2>3, <2>4 DEF RegSameForm, RegToken
<1>2. \A j \in DOMAIN calls' : RegInFlight(j)' <=> RegInFlight(j)
  BY <1>1 DEF RegInFlight
<1>3. CASE Attest!CreateClick
  <2>1. /\ creating'.vaa = attest.signedVAA /\ creating'.chain = attest.targetChain
        /\ attest.signedVAA # Nil /\ ~attest.createTx /\ registered' = registered
    BY <1>3 DEF Attest!CreateClick, Attest!IsSendComplete, Attest!IsCreateShown
  <2>2. ~attest'.createTx
    BY <1>3, <1>g, <2>1, RegCreatingMoves DEF Attest!CreateClick, Attest!Renders
  <2> QED
    BY <1>1, <1>2, <2>1, <2>2 DEF RegOrderly
<1>4. CASE Attest!CreateEnds
  <2>1. creating # Nil /\ creating' = Nil
    BY <1>4 DEF Attest!CreateEnds
  <2>2. /\ attest.signedVAA # Nil /\ creating.vaa = attest.signedVAA
        /\ creating.chain = attest.targetChain /\ ~attest.createTx
        /\ calls[creating.vaa].token = RegToken(attest)
    BY <2>1 DEF RegOrderly
  <2>3. attest'.createTx /\ Kind[attest'.targetChain] # "terra" =>
          <<RegToken(attest)', attest'.targetChain>> \in registered'
    <3>1. CASE registered' = registered \cup {<<calls[creating.vaa].token, creating.chain>>}
      BY <3>1, <1>1, <2>2
    <3>2. CASE Kind[creating.chain] = "terra"
      BY <3>2, <1>1, <2>2
    <3>3. CASE Attest!Renders(Attest!setIsCreating(attest, FALSE), isShown)
      BY <3>3, <1>g, <2>2, RegCreatingMoves DEF Attest!Renders
    <3> QED
      BY <1>4, <3>1, <3>2, <3>3 DEF Attest!CreateEnds
  <2> QED
    BY <1>1, <1>2, <2>1, <2>2, <2>3 DEF RegOrderly
<1> QED
  BY <1>3, <1>4

LEMMA RegOrderlyNext ==
    Attest!ConstantsOK /\ RegTypeInv /\ RegOrderlyInv /\ [Attest!Next]_(Attest!attestVars)
    => RegOrderlyInv'
<1> SUFFICES ASSUME Attest!ConstantsOK, RegTypeInv, RegOrderlyInv,
                    [Attest!Next]_(Attest!attestVars), ~switched'
             PROVE  RegOrderly'
  BY DEF RegOrderlyInv
<1>g. RegGood(attest)
  BY DEF RegTypeInv, RegSliceOK
<1>o. RegOrderly
  <2>1. switched => switched'
    BY DEF Attest!Next, Attest!ChooseSourceChain, Attest!ChooseTargetChain,
       Attest!TypeAsset, Attest!Continue, Attest!StepButton,
           Attest!Click, Attest!AttestClick, Attest!Called, Attest!AttestConfirmed,
           Attest!AttestFails, Attest!GotSignedVAA,
           Attest!LookUpAnswer, Attest!LookUpFails, Attest!CreateClick,
           Attest!CreateEnds, Attest!ResetClick, Attest!Leave, Attest!Return,
           Attest!RegisterNow, Attest!Register, Attest!SwitchNetwork, Attest!attestVars
  <2> QED
    BY <2>1 DEF RegOrderlyInv
<1>s. RegSameForm(attest, attest) /\ RegSameLocks(attest, attest)
  BY DEF RegSameForm, RegSameLocks
<1>1. ASSUME NEW c \in Chains, Attest!ChooseSourceChain(c) PROVE RegOrderly'
  BY <1>1, <1>g, <1>o, RegSourceChainMoves,
     RegOrderlyUnlocked DEF Attest!ChooseSourceChain, Attest!Click, Attest!Renders
<1>2. ASSUME NEW c \in Chains, Attest!ChooseTargetChain(c) PROVE RegOrderly'
  BY <1>2, <1>g, <1>o, RegTargetChainMoves,
     RegOrderlyUnlocked DEF Attest!ChooseTargetChain, Attest!Click, Attest!Renders
<1>3. ASSUME NEW asset \in AttestAssets, Attest!TypeAsset(asset) PROVE RegOrderly'
  BY <1>3, <1>g, <1>o, RegSourceAssetMoves, RegOrderlyUnlocked DEF Attest!TypeAsset,
     Attest!Click, Attest!Renders
<1>4. CASE Attest!Continue
  BY <1>4, <1>g, <1>o, RegIncrementMoves, RegOrderlyKept DEF Attest!Continue,
     Attest!Click, Attest!Renders
<1>5. ASSUME NEW n \in 0 .. 3, Attest!StepButton(n) PROVE RegOrderly'
  BY <1>5, <1>g, <1>o, RegStepMoves, RegOrderlyKept DEF Attest!StepButton, Attest!Click,
     Attest!Renders
<1>6. CASE Attest!AttestClick \/ \E i \in DOMAIN calls : Attest!Called(i)
  BY <1>6, <1>o, RegOrderlyCalls
<1>7. CASE Attest!LookUpAnswer \/ Attest!LookUpFails
  BY <1>7, <1>o, <1>s, RegOrderlyKept DEF Attest!LookUpAnswer, Attest!LookUpFails
<1>8. CASE Attest!CreateClick \/ Attest!CreateEnds
  BY <1>8, <1>o, RegOrderlyCreates
<1>9. ASSUME NEW shown \in BOOLEAN, Attest!ResetClick(shown) PROVE RegOrderly'
  <2>1. attest.createTx /\ UNCHANGED <<calls, creating, registered>>
    BY <1>9 DEF Attest!ResetClick
  <2>2. /\ attest.signedVAA # Nil /\ creating = Nil
        /\ \A i \in DOMAIN calls : ~RegInFlight(i)
    BY <1>o, <2>1 DEF RegOrderly
  <2>3. attest'.signedVAA = Nil /\ attest'.createTx = FALSE
    BY <1>9, <1>g, RegResetMoves DEF Attest!ResetClick, Attest!Renders
  <2> QED
    BY <2>1, <2>2, <2>3 DEF RegOrderly, RegInFlight
<1>10. CASE Attest!Leave \/ Attest!Return
  BY <1>10, <1>o, <1>s, RegOrderlyKept DEF Attest!Leave, Attest!Return, Attest!Renders
<1>11. ASSUME NEW token \in Attest!Tokens, NEW target \in Chains,
              Attest!RegisterNow(token, target)
       PROVE  RegOrderly'
  <2>1. ~Attest!ShouldLockFields(attest)
    BY <1>11 DEF Attest!RegisterNow, Attest!ShouldLockFields
  <2>2. RegSameLocks(attest', attest)
    BY <1>11, <1>g, RegRegisterNowMoves DEF Attest!RegisterNow, RegNow, Attest!Renders
  <2> QED
    BY <1>11, <1>o, <2>1, <2>2, RegOrderlyUnlocked DEF Attest!RegisterNow
<1>12. ASSUME NEW token \in Attest!Tokens, NEW target \in Chains,
              Attest!Register(token, target)
       PROVE  RegOrderly'
  BY <1>12, <1>o, <1>s, RegOrderlyKept DEF Attest!Register
<1>13. ASSUME NEW c \in Attest!EVMChains, Attest!SwitchNetwork(c) PROVE RegOrderly'
  BY <1>13, <1>o, <1>s, RegOrderlyKept DEF Attest!SwitchNetwork
<1>14. CASE UNCHANGED Attest!attestVars
  BY <1>14, <1>o, <1>s, RegOrderlyKept DEF Attest!attestVars
<1> QED
  BY <1>1, <1>2, <1>3, <1>4, <1>5, <1>6, <1>7, <1>8, <1>9, <1>10, <1>11, <1>12, <1>13,
     <1>14 DEF Attest!Next

\* A token that the wizard shows as created is registered on the chain that it
\* shows, unless "Register Now" has replaced it while its attestation was being
\* sent.
THEOREM RegistrationComplete ==
    Attest!ConstantsOK => (Attest!Spec => []Attest!CompleteMeansRegistered)
<1> SUFFICES ASSUME Attest!ConstantsOK
             PROVE  Attest!Spec => []Attest!CompleteMeansRegistered
  OBVIOUS
<1>1. Attest!Spec => []RegTypeInv
  BY RegTypeInvariant
<1>2. Attest!Init => RegOrderlyInv
  <2> SUFFICES ASSUME Attest!Init PROVE RegOrderly
    BY DEF RegOrderlyInv
  <2>1. attest.signedVAA = Nil /\ ~attest.createTx /\ creating = Nil
    BY RegInitialMoves DEF Attest!Init
  <2>2. calls = <<>>
    BY DEF Attest!Init
  <2>3. DOMAIN calls = {}
    BY <2>2
  <2> QED
    BY <2>1, <2>3 DEF RegOrderly
<1>3. RegTypeInv /\ RegOrderlyInv /\ [Attest!Next]_(Attest!attestVars) => RegOrderlyInv'
  BY RegOrderlyNext
<1>4. RegOrderlyInv => Attest!CompleteMeansRegistered
  BY DEF RegOrderlyInv, RegOrderly, Attest!CompleteMeansRegistered, RegToken
<1> QED
  BY <1>1, <1>2, <1>3, <1>4, PTL DEF Attest!Spec

-----------------------------------------------------------------------------
(***************************************************************************)
(* All pages together: a behaviour is one of the page that is shown        *)
(***************************************************************************)

NFTP == INSTANCE NFTWizardProofs WITH Tokens <- NFTs, PastTarget <- PastNFTTarget

\* This instance and that of WebApp are one and the same, whatever is defined in
\* them: the theorems about the wizard are about the wizard of WebApp.
LEMMA NFTIsSame ==
    /\ NFT!ConstantsOK <=> NFTP!ConstantsOK
    /\ NFT!Init <=> NFTP!Init
    /\ NFT!Next <=> NFTP!Next
    /\ NFT!nftVars = NFTP!nftVars
    /\ NFT!TypeOK <=> NFTP!TypeOK
    /\ NFT!NFTSentIsConsistent <=> NFTP!NFTSentIsConsistent
    /\ NFT!NFTCompleteMeansReceived <=> NFTP!NFTCompleteMeansReceived
BY ZenonT(60) DEF NFT!nftVars, NFTP!nftVars, NFT!EVMChains, NFTP!EVMChains, NFT!Accounts,
   NFTP!Accounts, NFT!AssetsOf, NFTP!AssetsOf, NFT!NoAsset, NFTP!NoAsset, NFT!Unknown,
   NFTP!Unknown, NFT!Origins, NFTP!Origins, NFT!Addresses, NFTP!Addresses, NFT!VAAs,
   NFTP!VAAs, NFT!NFTState, NFTP!NFTState, NFT!initialState, NFTP!initialState,
   NFT!setStep, NFTP!setStep, NFT!incrementStep, NFTP!incrementStep,
   NFT!setSourceChain, NFTP!setSourceChain, NFT!setSourceWormholeWrappedInfo,
   NFTP!setSourceWormholeWrappedInfo, NFT!setSourceParsedTokenAccount,
   NFTP!setSourceParsedTokenAccount, NFT!setTargetChain, NFTP!setTargetChain,
   NFT!setTargetAddressHex, NFTP!setTargetAddressHex, NFT!setTargetAsset,
   NFTP!setTargetAsset, NFT!setSignedVAAHex, NFTP!setSignedVAAHex, NFT!setIsSending,
   NFTP!setIsSending, NFT!setIsRedeeming, NFTP!setIsRedeeming, NFT!setRedeemTx,
   NFTP!setRedeemTx, NFT!reset, NFTP!reset, NFT!setRecoveryVaa, NFTP!setRecoveryVaa,
   NFT!TargetAsset, NFTP!TargetAsset, NFT!IsSourceComplete, NFTP!IsSourceComplete,
   NFT!IsTargetComplete, NFTP!IsTargetComplete, NFT!ShouldLockFields,
   NFTP!ShouldLockFields, NFT!PreventNavigation, NFTP!PreventNavigation, NFT!isReady,
   NFTP!isReady, NFT!Idle, NFTP!Idle, NFT!AddressOn, NFTP!AddressOn, NFT!WrappedOn,
   NFTP!WrappedOn, NFT!AssetArgs, NFTP!AssetArgs, NFT!AssetOn, NFTP!AssetOn,
   NFT!SyncsAddress, NFTP!SyncsAddress, NFT!DerivesAddress, NFTP!DerivesAddress,
   NFT!useSyncTargetAddress, NFTP!useSyncTargetAddress, NFT!SearchesAsset,
   NFTP!SearchesAsset, NFT!GoesHome, NFTP!GoesHome, NFT!FetchesAsset,
   NFTP!FetchesAsset, NFT!useFetchTargetAsset, NFTP!useFetchTargetAsset, NFT!Effects,
   NFTP!Effects, NFT!EffectsPending, NFTP!EffectsPending, NFT!RunEffects,
   NFTP!RunEffects, NFT!Rendered, NFTP!Rendered, NFT!Becomes, NFTP!Becomes,
   NFT!Dispatch, NFTP!Dispatch, NFT!FlushEffects, NFTP!FlushEffects,
   NFT!unchangedByAnswer, NFTP!unchangedByAnswer, NFT!WrappedInfo, NFTP!WrappedInfo,
   NFT!WrappedAnswer, NFTP!WrappedAnswer, NFT!WrappedFails, NFTP!WrappedFails,
   NFT!AssetAnswer, NFTP!AssetAnswer, NFT!AssetFails, NFTP!AssetFails,
   NFT!AddressAnswer, NFTP!AddressAnswer, NFT!Choice, NFTP!Choice, NFT!Clickable,
   NFTP!Clickable, NFT!Click, NFTP!Click, NFT!ChooseSourceChain,
   NFTP!ChooseSourceChain, NFT!ChooseTargetChain, NFTP!ChooseTargetChain,
   NFT!SelectOption, NFTP!SelectOption, NFT!OptionSelected, NFTP!OptionSelected,
   NFT!Continue, NFTP!Continue, NFT!StepButton, NFTP!StepButton, NFT!isWrongWallet,
   NFTP!isWrongWallet, NFT!Executable, NFTP!Executable, NFT!TransferClick,
   NFTP!TransferClick, NFT!unchangedBySend, NFTP!unchangedBySend, NFT!SendConfirmed,
   NFTP!SendConfirmed, NFT!SendFails, NFTP!SendFails, NFT!GotSignedVAA,
   NFTP!GotSignedVAA, NFT!TargetOf, NFTP!TargetOf, NFT!TokenOf, NFTP!TokenOf,
   NFT!RedeemClick, NFTP!RedeemClick, NFT!unchangedByRedeem, NFTP!unchangedByRedeem,
   NFT!Claimable, NFTP!Claimable, NFT!NeedsMetadata, NFTP!NeedsMetadata,
   NFT!ClaimOnEVM, NFTP!ClaimOnEVM, NFT!ClaimOnSolana, NFTP!ClaimOnSolana,
   NFT!Describe, NFTP!Describe, NFT!CallsRun, NFTP!CallsRun, NFT!ResetClick,
   NFTP!ResetClick, NFT!Leave, NFTP!Leave, NFT!Return, NFTP!Return, NFT!RecoverClick,
   NFTP!RecoverClick, NFT!SwitchNetwork, NFTP!SwitchNetwork, NFT!Init, NFTP!Init,
   NFT!Sent, NFTP!Sent, NFT!Redeems, NFTP!Redeems, NFT!Next, NFTP!Next,
   NFT!ConstantsOK, NFTP!ConstantsOK, NFT!Calls, NFTP!Calls, NFT!TypeOK, NFTP!TypeOK,
   NFT!NFTSentIsConsistent, NFTP!NFTSentIsConsistent, NFT!NFTCompleteMeansReceived,
   NFTP!NFTCompleteMeansReceived

\* A step is one of the page that is shown, and leaves the others alone.
LEMMA PageSteps ==
    ASSUME [WebNext]_webVars
    PROVE  /\ app' = app
           /\ app = "transfer" => [Next]_vars
           /\ app = "attest" => [Attest!Next]_(Attest!attestVars)
           /\ app = "nft" => [NFT!Next]_(NFT!nftVars)
           /\ app = "list" => [List!Next]_(List!sourceVars)
           /\ app = "verifier" => [Verifier!Next]_(Verifier!verifierVars)
           /\ app = "pool" => [Pool!Next]_(Pool!poolVars)
           /\ app # "attest" => UNCHANGED ownAttestVars
           /\ app # "nft" => UNCHANGED ownNFTVars
           /\ app # "list" => UNCHANGED ownListVars
           /\ app # "verifier" => UNCHANGED ownVerifierVars
           /\ app # "pool" => UNCHANGED ownPoolVars
<1>1. CASE UNCHANGED webVars
  <2>1. UNCHANGED <<app, vars, ownAttestVars, ownNFTVars, ownListVars, ownVerifierVars,
                    ownPoolVars>>
    BY <1>1 DEF webVars
  <2>2. /\ UNCHANGED Attest!attestVars /\ UNCHANGED NFT!nftVars
        /\ UNCHANGED List!sourceVars /\ UNCHANGED Verifier!verifierVars
        /\ UNCHANGED Pool!poolVars
    BY <2>1 DEF vars, ownAttestVars, ownNFTVars, ownListVars, ownVerifierVars, ownPoolVars,
       Attest!attestVars, NFT!nftVars, List!sourceVars, Verifier!verifierVars,
       Pool!poolVars, Pool!contractVars, Pool!pageVars
  <2> QED
    BY <2>1, <2>2
<1>2. CASE OnTransfer /\ Next
  BY <1>2 DEF OnTransfer
<1>3. CASE OnAttest /\ Attest!Next
  BY <1>3 DEF OnAttest
<1>4. CASE OnNFT /\ NFT!Next
  BY <1>4 DEF OnNFT
<1>5. CASE OnList /\ List!Next
  BY <1>5 DEF OnList
<1>6. CASE OnVerifier /\ Verifier!Next
  BY <1>6 DEF OnVerifier
<1>7. CASE OnPool /\ Pool!Next
  BY <1>7 DEF OnPool
<1> QED
  BY <1>1, <1>2, <1>3, <1>4, <1>5, <1>6, <1>7 DEF WebNext

\* The steps of the NFT wizard, as its theorems know them.
LEMMA NFTStep ==
    ASSUME app = "nft", [WebNext]_webVars
    PROVE  app' = "nft" /\ [NFTP!Next]_(NFTP!nftVars)
<1>1. app' = app /\ [NFT!Next]_(NFT!nftVars)
  BY PageSteps
<1>2. NFT!Next <=> NFTP!Next
  BY NFTIsSame
<1>3. UNCHANGED NFT!nftVars => UNCHANGED NFTP!nftVars
  BY DEF NFT!nftVars, NFTP!nftVars
<1> QED
  BY <1>1, <1>2, <1>3

\* A registration that is shown as complete was made on the target chain that
\* is shown, of the token shown, unless another page replaced them meanwhile
\* (setCreateTx, and RegisterNowButton): whichever page a behaviour is about.
THEOREM WebRegistered ==
    Attest!ConstantsOK => (WebSpec => []CompleteMeansRegistered)
<1> SUFFICES ASSUME Attest!ConstantsOK
             PROVE  WebSpec => []CompleteMeansRegistered
  OBVIOUS
<1> DEFINE Here == app = "attest"
           Rests == app # "attest" /\ attest.createTx = FALSE
<1>1. WebInit => Attest!Init /\ (Here \/ Rests)
  BY DEF WebInit, Attest!Init, Attest!initialState
<1>2. Here /\ [WebNext]_webVars => Here' /\ [Attest!Next]_(Attest!attestVars)
  BY PageSteps
<1>3. Rests /\ [WebNext]_webVars => Rests'
  BY PageSteps DEF ownAttestVars
<1>4. Attest!Spec => []Attest!CompleteMeansRegistered
  BY RegistrationComplete
<1>5. Attest!CompleteMeansRegistered => CompleteMeansRegistered
  BY DEF CompleteMeansRegistered
<1>6. Rests => CompleteMeansRegistered
  BY DEF CompleteMeansRegistered, Attest!CompleteMeansRegistered
<1> QED
  BY <1>1, <1>2, <1>3, <1>4, <1>5, <1>6, PTL DEF WebSpec, Attest!Spec

\* An NFT is sent with a recipient of the kind of its target chain from an
\* account that the wallet can hold, whichever page a behaviour is about.
THEOREM WebSendsNFT == NFT!ConstantsOK => (WebSpec => []NFTSentIsConsistent)
<1> SUFFICES ASSUME NFT!ConstantsOK
             PROVE  WebSpec => []NFTSentIsConsistent
  OBVIOUS
<1> DEFINE Here == app = "nft"
           Rests == app # "nft" /\ nftSends = <<>>
<1>1. WebInit => NFTP!Init /\ (Here \/ Rests)
  BY NFTIsSame DEF WebInit, NFT!Init, NFT!initialState
<1>2. Here /\ [WebNext]_webVars => Here' /\ [NFTP!Next]_(NFTP!nftVars)
  BY NFTStep
<1>3. Rests /\ [WebNext]_webVars => Rests'
  BY PageSteps DEF ownNFTVars
<1>4. NFTP!ConstantsOK
  BY NFTIsSame
<1>5. NFTP!Spec => []NFTP!NFTSentIsConsistent
  BY <1>4, NFTP!SendsConsistently
<1>6. NFTP!NFTSentIsConsistent => NFTSentIsConsistent
  BY NFTIsSame DEF NFTSentIsConsistent
<1>7. Rests => NFTSentIsConsistent
  BY DEF NFTSentIsConsistent, NFT!NFTSentIsConsistent
<1> QED
  BY <1>1, <1>2, <1>3, <1>5, <1>6, <1>7, PTL DEF WebSpec, NFTP!Spec

\* An NFT that is shown as redeemed was released and has its metadata where
\* it needs them (redeemTx of useHandleNFTRedeem).
THEOREM WebReceivesNFT == NFT!ConstantsOK => (WebSpec => []NFTCompleteMeansReceived)
<1> SUFFICES ASSUME NFT!ConstantsOK
             PROVE  WebSpec => []NFTCompleteMeansReceived
  OBVIOUS
<1> DEFINE Here == app = "nft"
           Rests == app # "nft" /\ nft.redeemTx = FALSE
<1>1. WebInit => NFTP!Init /\ (Here \/ Rests)
  BY NFTIsSame DEF WebInit, NFT!Init, NFT!initialState
<1>2. Here /\ [WebNext]_webVars => Here' /\ [NFTP!Next]_(NFTP!nftVars)
  BY NFTStep
<1>3. Rests /\ [WebNext]_webVars => Rests'
  BY PageSteps DEF ownNFTVars
<1>4. NFTP!ConstantsOK
  BY NFTIsSame
<1>5. NFTP!Spec => []NFTP!NFTCompleteMeansReceived
  BY <1>4, NFTP!CompleteReceived
<1>6. NFTP!NFTCompleteMeansReceived => NFTCompleteMeansReceived
  BY NFTIsSame DEF NFTCompleteMeansReceived
<1>7. Rests => NFTCompleteMeansReceived
  BY DEF NFTCompleteMeansReceived, NFT!NFTCompleteMeansReceived
<1> QED
  BY <1>1, <1>2, <1>3, <1>5, <1>6, <1>7, PTL DEF WebSpec, NFTP!Spec

\* What the origin verifier shows answers the question that is asked (argsEqual
\* and setArgs of the two hooks).
THEOREM WebAnswers == Verifier!ConstantsOK => (WebSpec => []AnswerIsForQuestion)
<1> SUFFICES ASSUME Verifier!ConstantsOK
             PROVE  WebSpec => []AnswerIsForQuestion
  OBVIOUS
<1> DEFINE Here == app = "verifier"
           Rests == app # "verifier" /\ origin.data = Nil /\ foreign.data = Nil
<1>1. WebInit => Verifier!Init /\ (Here \/ Rests)
  BY DEF WebInit, Verifier!Init, Verifier!Ask, Verifier!Unasked
<1>2. Here /\ [WebNext]_webVars => Here' /\ [Verifier!Next]_(Verifier!verifierVars)
  BY PageSteps
<1>3. Rests /\ [WebNext]_webVars => Rests'
  BY PageSteps DEF ownVerifierVars
<1>4. Verifier!Spec => []Verifier!AnswerIsForQuestion
  BY AnswersQuestion
<1>5. Verifier!AnswerIsForQuestion => AnswerIsForQuestion
  BY DEF AnswerIsForQuestion
<1>6. Rests => AnswerIsForQuestion
  BY DEF AnswerIsForQuestion, Verifier!AnswerIsForQuestion
<1> QED
  BY <1>1, <1>2, <1>3, <1>4, <1>5, <1>6, PTL DEF WebSpec, Verifier!Spec

\* What is selected in the token list is for the wallet that is connected (the
\* effect of useGetSourceParsedTokenAccounts that resets the accounts).
THEOREM WebSelects == List!ConstantsOK => (WebSpec => []SelectionIsOfWallet)
<1> SUFFICES ASSUME List!ConstantsOK
             PROVE  WebSpec => []SelectionIsOfWallet
  OBVIOUS
<1> DEFINE Here == app = "list"
           Selected ==
               isOpen /\ source.selected # Nil =>
                   /\ Kind[source.selected.chain] = Kind[source.chain]
                   /\ source.owner = wallet[Kind[source.chain]]
                   /\ Kind[source.chain] = "evm" /\ ~source.selected.isNative =>
                          source.selected.wallet = source.owner
           Rests == app # "list" /\ Selected
<1>1. List!SelectionIsOfWallet <=> Selected
  BY DEF List!SelectionIsOfWallet, List!Shown, List!IsShown, List!isEVM
<1>2. WebInit => List!Init /\ (Here \/ Rests)
  BY <1>1, ListInit, ListInvMeans DEF WebInit
<1>3. Here /\ [WebNext]_webVars => Here' /\ [List!Next]_(List!sourceVars)
  BY PageSteps
<1>4. Rests /\ [WebNext]_webVars => Rests'
  BY PageSteps DEF ownListVars
<1>5. List!Spec => []List!SelectionIsOfWallet
  BY SelectsOfWallet
<1>6. List!SelectionIsOfWallet => SelectionIsOfWallet
  BY DEF SelectionIsOfWallet
<1>7. Rests => SelectionIsOfWallet
  BY <1>1 DEF SelectionIsOfWallet
<1> QED
  BY <1>2, <1>3, <1>4, <1>5, <1>6, <1>7, PTL DEF WebSpec, List!Spec

\* The pool covers the shares of its holders, whatever the page does (addLiquidity,
\* removeLiquidity, migrate and claim of Migrator.sol).
THEOREM WebIsSolvent == Pool!ConstantsOK => (WebSpec => []PoolIsSolvent)
<1> SUFFICES ASSUME Pool!ConstantsOK
             PROVE  WebSpec => []PoolIsSolvent
  OBVIOUS
<1> DEFINE Here == app = "pool"
           Rests == app # "pool" /\ PoolIsSolvent
<1>1. WebInit => Pool!Init /\ (Here \/ Rests)
  BY InitSolvent DEF WebInit, PoolIsSolvent
<1>2. Here /\ [WebNext]_webVars => Here' /\ [Pool!Next]_(Pool!poolVars)
  BY PageSteps
<1>3. Rests /\ [WebNext]_webVars => Rests'
  BY PageSteps DEF ownPoolVars, PoolIsSolvent, Pool!PoolIsSolvent, Pool!Ratio
<1>4. Pool!Spec => []Pool!PoolIsSolvent
  BY Solvent
<1>5. Pool!PoolIsSolvent => PoolIsSolvent
  BY DEF PoolIsSolvent
<1>6. Rests => PoolIsSolvent
  BY DEF PoolIsSolvent, Pool!PoolIsSolvent
<1> QED
  BY <1>1, <1>2, <1>3, <1>4, <1>5, <1>6, PTL DEF WebSpec, Pool!Spec

\* The types of the page that is shown, for all its constants; the page of the
\* token list has settled whenever it is shown (the dependencies of its effects).
THEOREM WebTypes ==
    ASSUME Attest!ConstantsOK, NFT!ConstantsOK, List!ConstantsOK, Verifier!ConstantsOK,
           Pool!ConstantsOK
    PROVE  WebSpec => []TypesOK
<1>1. WebSpec => [](app = "transfer" => TypeOK)
  <2>1. app = "transfer" /\ [WebNext]_webVars => (app = "transfer")' /\ [Next]_vars
    BY PageSteps
  <2>2. ~(app = "transfer") /\ [WebNext]_webVars => ~(app = "transfer")'
    BY PageSteps
  <2>3. WebInit => Init
    BY DEF WebInit
  <2>4. Spec => []TypeOK
    BY TypeCorrect
  <2> QED
    BY <2>1, <2>2, <2>3, <2>4, PTL DEF WebSpec, Spec
<1>2. WebSpec => [](app = "attest" => Attest!TypeOK)
  <2>1. app = "attest" /\ [WebNext]_webVars
        => (app = "attest")' /\ [Attest!Next]_(Attest!attestVars)
    BY PageSteps
  <2>2. ~(app = "attest") /\ [WebNext]_webVars => ~(app = "attest")'
    BY PageSteps
  <2>3. WebInit => Attest!Init
    BY DEF WebInit
  <2>4. Attest!Spec => []Attest!TypeOK
    BY RegistrationTypes
  <2> QED
    BY <2>1, <2>2, <2>3, <2>4, PTL DEF WebSpec, Attest!Spec
<1>3. WebSpec => [](app = "nft" => NFT!TypeOK)
  <2>1. app = "nft" /\ [WebNext]_webVars => (app = "nft")' /\ [NFTP!Next]_(NFTP!nftVars)
    BY NFTStep
  <2>2. ~(app = "nft") /\ [WebNext]_webVars => ~(app = "nft")'
    BY PageSteps
  <2>3. WebInit => NFTP!Init
    BY NFTIsSame DEF WebInit
  <2>4. NFTP!ConstantsOK
    BY NFTIsSame
  <2>5. NFTP!Spec => []NFTP!TypeOK
    BY <2>4, NFTP!TypeCorrect
  <2>6. NFTP!TypeOK => NFT!TypeOK
    BY NFTIsSame
  <2> QED
    BY <2>1, <2>2, <2>3, <2>5, <2>6, PTL DEF WebSpec, NFTP!Spec
<1>4. WebSpec => [](app = "list" => List!TypeOK)
  <2>1. app = "list" /\ [WebNext]_webVars
        => (app = "list")' /\ [List!Next]_(List!sourceVars)
    BY PageSteps
  <2>2. ~(app = "list") /\ [WebNext]_webVars => ~(app = "list")'
    BY PageSteps
  <2>3. WebInit => List!Init
    BY DEF WebInit
  <2>4. List!Spec => []List!TypeOK
    BY ListTypeCorrect
  <2> QED
    BY <2>1, <2>2, <2>3, <2>4, PTL DEF WebSpec, List!Spec
<1>5. WebSpec => [](app = "verifier" => Verifier!TypeOK)
  <2>1. app = "verifier" /\ [WebNext]_webVars
        => (app = "verifier")' /\ [Verifier!Next]_(Verifier!verifierVars)
    BY PageSteps
  <2>2. ~(app = "verifier") /\ [WebNext]_webVars => ~(app = "verifier")'
    BY PageSteps
  <2>3. WebInit => Verifier!Init
    BY DEF WebInit
  <2>4. Verifier!Spec => []Verifier!TypeOK
    BY VerifierTypeCorrect
  <2> QED
    BY <2>1, <2>2, <2>3, <2>4, PTL DEF WebSpec, Verifier!Spec
<1>6. WebSpec => [](app = "pool" => Pool!TypeOK)
  <2>1. app = "pool" /\ [WebNext]_webVars => (app = "pool")' /\ [Pool!Next]_(Pool!poolVars)
    BY PageSteps
  <2>2. ~(app = "pool") /\ [WebNext]_webVars => ~(app = "pool")'
    BY PageSteps
  <2>3. WebInit => Pool!Init
    BY DEF WebInit
  <2>4. Pool!Spec => []Pool!TypeOK
    BY PoolTypeCorrect
  <2> QED
    BY <2>1, <2>2, <2>3, <2>4, PTL DEF WebSpec, Pool!Spec
<1> QED
  BY <1>1, <1>2, <1>3, <1>4, <1>5, <1>6, PTL DEF TypesOK
=============================================================================
