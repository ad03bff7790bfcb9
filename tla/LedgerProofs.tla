----------------------------- MODULE LedgerProofs -----------------------------
(***************************************************************************)
(* Proofs about Ledger, for any number of requests, accounts and           *)
(* transactions and all amounts: types, opening balances that settle, and, *)
(* with one editor, that it implements AtomicLedger and that a balance is  *)
(* the opening balance plus the movements.                                 *)
(***************************************************************************)
EXTENDS Ledger, FiniteSetTheorems, WellFoundedInduction, TLAPS

\* A live row names accounts that exist, a transfer two of them.
Sound(r) ==
  Live(r) =>
    /\ r.account \in Accounts /\ accounts[r.account].state # "absent"
    /\ IF r.type = "transfer"
       THEN /\ r.other \in Accounts \ {r.account}
            /\ accounts[r.other].state # "absent"
       ELSE r.other = None

(***************************************************************************)
(* What a request knows of the tables: the accounts of its adjustments     *)
(* exist, those it has locked are live, and so are the row of an edit and  *)
(* what a commit does to its row one of the changes of Lifecycle.          *)
(***************************************************************************)
RequestOK(c) ==
  LET q == request[c] IN
  /\ Len(q.todo) <= 2
  /\ \A i \in DOMAIN q.todo : accounts[q.todo[i].account].state # "absent"
  /\ \A a \in DOMAIN q.delta : Live(accounts[a])
  /\ q.pc \in {"idle", "restate"} => q.todo = <<>> /\ DOMAIN q.delta = {}
  /\ q.pc = "restate" => q.account \in Accounts
  /\ q.pc \in {"reverse", "apply"} => q.txn \in Txns /\ Sound(q.row)
  /\ q.pc = "reverse" =>
       c \in Editors /\ Live(q.row) /\ txns[q.txn].state # "absent"
  /\ q.pc = "apply" =>
       /\ <<txns[q.txn].state, q.row.state>> \in Book!Lifecycle
       /\ Live(q.row) /\ Live(txns[q.txn]) => c \in Editors

\* Two requests have locked different rows.
Apart(c, d) ==
  /\ ~(/\ request[c].pc = "apply" /\ request[d].pc = "apply"
       /\ request[c].txn = request[d].txn)
  /\ DOMAIN request[c].delta \cap DOMAIN request[d].delta = {}

IInv ==
  /\ TypeOK
  /\ \A t \in Txns : Sound(txns[t])
  /\ \A c \in Clients : RequestOK(c)
  /\ \A c, d \in Clients : c # d => Apart(c, d)

-----------------------------------------------------------------------------
(* Requests and what they hold.                                            *)

\* A member of Deltas is a function of some accounts to integers.
LEMMA DeltaType ==
  ASSUME NEW f
  PROVE  f \in Deltas <=> /\ DOMAIN f \subseteq Accounts
                          /\ f \in [DOMAIN f -> Int]
  BY DEF Deltas

\* Nothing locked, nothing adjusted.
LEMMA NoDelta == <<>> \in Deltas /\ DOMAIN <<>> = {}
<1>1. DOMAIN <<>> = {}
  OBVIOUS
<1>2. <<>> \in [{} -> Int]
  OBVIOUS
<1> QED BY <1>1, <1>2, DeltaType

\* No row yet.
LEMMA NoTxnType == NoTxn \in TxnRows /\ ~Live(NoTxn)
  BY DEF NoTxn, TxnRows, Types, Live, Book!Live

\* An idle request holds nothing.
LEMMA IdleType ==
  /\ Idle \in Requests /\ Idle.pc = "idle"
  /\ Idle.todo = <<>> /\ Idle.delta = <<>>
<1>1. Idle.todo = <<>> /\ Idle.delta = <<>> /\ Idle.pc = "idle"
  BY DEF Idle
<1> QED BY <1>1, NoTxnType, NoDelta DEF Idle, Requests

\* What a client sends is a row that is live.
LEMMA PayloadType ==
  ASSUME NEW r \in Payloads
  PROVE  /\ r \in TxnRows /\ Live(r) /\ r.amount \in Amounts
         /\ r.account \in Accounts
         /\ IF r.type = "transfer" THEN r.other \in Accounts \ {r.account}
                                   ELSE r.other = None
<1>1. /\ r \in [state : {"live"}, type : SentTypes, account : Accounts,
                other : Accounts \cup {None}, amount : Amounts]
      /\ IF r.type = "transfer" THEN r.other \in Accounts \ {r.account}
                                ELSE r.other = None
  BY DEF Payloads
<1>2. r \in TxnRows
  BY <1>1, LedgerAssumption DEF TxnRows
<1> QED BY <1>1, <1>2 DEF Live, Book!Live

\* One leg, or the two of a transfer.
LEMMA EffectsCases ==
  ASSUME NEW r, r.type \in Types, NEW sign
  PROVE  /\ r.type = "income" => Effects(r, sign) =
              <<[account |-> r.account, delta |-> sign * r.amount]>>
         /\ r.type = "expense" => Effects(r, sign) =
              <<[account |-> r.account, delta |-> sign * (-r.amount)]>>
         /\ r.type = "transfer" => Effects(r, sign) =
              <<[account |-> r.account, delta |-> sign * (-r.amount)],
                [account |-> r.other, delta |-> sign * r.amount]>>
  BY DEF Effects, Types

\* The adjustments of a sound row are two at most, of accounts that exist.
LEMMA EffectsType ==
  ASSUME NEW r \in TxnRows, Live(r), Sound(r), NEW sign \in {1, -1}
  PROVE  /\ Effects(r, sign) \in Seq(Legs) /\ Len(Effects(r, sign)) <= 2
         /\ \A i \in DOMAIN Effects(r, sign) :
              accounts[Effects(r, sign)[i].account].state # "absent"
<1>1. /\ r.type \in Types /\ r.amount \in Int
      /\ r.account \in Accounts /\ accounts[r.account].state # "absent"
      /\ r.type = "transfer" =>
           r.other \in Accounts /\ accounts[r.other].state # "absent"
  BY DEF TxnRows, Sound
<1>2. sign * r.amount \in Int /\ sign * (-r.amount) \in Int
  BY <1>1
<1>3. ASSUME NEW d \in {sign * r.amount, sign * (-r.amount)}
      PROVE  LET k == [account |-> r.account, delta |-> d]
             IN  /\ <<k>> \in Seq(Legs) /\ Len(<<k>>) <= 2
                 /\ \A i \in DOMAIN <<k>> :
                      accounts[<<k>>[i].account].state # "absent"
  <2> DEFINE k == [account |-> r.account, delta |-> d]
  <2>1. k \in Legs /\ k.account = r.account
    BY <1>1, <1>2 DEF Legs
  <2> HIDE DEF k
  <2>2. /\ <<k>> \in Seq(Legs) /\ Len(<<k>>) <= 2
        /\ \A i \in DOMAIN <<k>> : accounts[<<k>>[i].account].state # "absent"
    BY <1>1, <2>1
  <2> QED BY <2>2 DEF k
<1>4. CASE r.type = "transfer"
  <2> DEFINE k == [account |-> r.account, delta |-> sign * (-r.amount)]
             l == [account |-> r.other, delta |-> sign * r.amount]
  <2>1. /\ k \in Legs /\ k.account = r.account
        /\ l \in Legs /\ l.account = r.other
    BY <1>1, <1>2, <1>4 DEF Legs
  <2>2. Effects(r, sign) = <<k, l>>
    BY <1>1, <1>4, EffectsCases
  <2> HIDE DEF k, l
  <2> QED BY <1>1, <1>4, <2>1, <2>2
<1>5. CASE r.type \in {"income", "expense"}
  BY <1>1, <1>3, <1>5, EffectsCases
<1> QED BY <1>1, <1>4, <1>5 DEF Types

-----------------------------------------------------------------------------
(* Each step keeps the invariant.                                          *)

\* Request c becomes q, and the tables stay as they are.
LEMMA RequestStep ==
  ASSUME IInv, NEW c \in Clients, NEW q \in Requests,
         request' = [request EXCEPT ![c] = q], UNCHANGED <<accounts, txns>>,
         RequestOK(c)', \A d \in Clients \ {c} : Apart(c, d)'
  PROVE  IInv'
<1>1. TypeOK'
  BY DEF IInv, TypeOK
<1>2. \A d \in Clients : d # c => request'[d] = request[d]
  BY DEF IInv, TypeOK
<1>3. \A t \in Txns : Sound(txns[t])'
  BY DEF IInv, Sound
<1>4. \A d \in Clients : RequestOK(d)'
  BY <1>2 DEF IInv, RequestOK, Sound
<1>5. \A d, e \in Clients : d # e => Apart(d, e)'
  BY <1>2 DEF IInv, Apart
<1> QED BY <1>1, <1>3, <1>4, <1>5 DEF IInv

(***************************************************************************)
(* Requests end or stay as they are, accounts that exist go on existing    *)
(* and stay live while they are locked, and no request is surprised by a   *)
(* transaction that changes.                                               *)
(***************************************************************************)
LEMMA QuietStep ==
  ASSUME IInv, accounts' \in [Accounts -> AccountRows],
         txns' \in [Txns -> TxnRows], request' \in [Clients -> Requests],
         \A a \in Accounts :
           /\ accounts[a].state # "absent" => accounts'[a].state # "absent"
           /\ Live(accounts[a]) /\ ~Live(accounts'[a]) => ~AccountLocked(a),
         \A t \in Txns : Sound(txns[t])',
         \A d \in Clients :
           \/ request'[d] = Idle
           \/ /\ request'[d] = request[d]
              /\ request[d].pc = "apply" =>
                   txns'[request[d].txn] = txns[request[d].txn]
              /\ request[d].pc = "reverse" =>
                   txns'[request[d].txn].state # "absent"
  PROVE  IInv'
<1>1. TypeOK'
  BY DEF TypeOK
<1>2. ASSUME NEW d \in Clients
      PROVE  RequestOK(d)'
  <2>1. CASE request'[d] = Idle
    BY <2>1, IdleType, NoDelta DEF RequestOK
  <2>2. CASE request'[d] = request[d] /\ request'[d] # Idle
    <3>1. RequestOK(d)
      BY DEF IInv
    <3>2. request[d] \in Requests
      BY DEF IInv, TypeOK
    <3>3. Len(request[d].todo) <= 2
      BY <3>1 DEF RequestOK
    <3>4. ASSUME NEW i \in DOMAIN request[d].todo
          PROVE  accounts'[request[d].todo[i].account].state # "absent"
      <4>1. request[d].todo \in Seq(Legs)
        BY <3>2 DEF Requests
      <4>2. request[d].todo[i] \in Legs
        BY <4>1
      <4> QED BY <3>1, <4>2 DEF RequestOK, Legs
    <3>5. ASSUME NEW a \in DOMAIN request[d].delta
          PROVE  Live(accounts'[a])
      <4>1. a \in Accounts
        BY <3>2, DeltaType DEF Requests
      <4> QED BY <3>1, <4>1 DEF RequestOK, AccountLocked
    <3>6. Sound(request[d].row) => Sound(request[d].row)'
      BY <2>2 DEF Sound
    <3> QED BY <2>2, <3>1, <3>3, <3>4, <3>5, <3>6
            DEF RequestOK, Live, Book!Live
  <2> QED BY <2>1, <2>2
<1>3. \A d, e \in Clients : d # e => Apart(d, e)'
  BY IdleType, NoDelta DEF IInv, Apart
<1> QED BY <1>1, <1>2, <1>3 DEF IInv

\* Accounts and requests change, transactions do not.
LEMMA SoundStays ==
  ASSUME IInv, UNCHANGED txns,
         \A a \in Accounts :
           accounts[a].state # "absent" => accounts'[a].state # "absent"
  PROVE  \A t \in Txns : Sound(txns[t])'
  BY DEF IInv, Sound

\* A request rolls back.
LEMMA StepRollback ==
  ASSUME IInv, NEW c \in Clients, Rollback(c)
  PROVE  IInv'
<1>1. /\ UNCHANGED <<accounts, txns>>
      /\ request' = [request EXCEPT ![c] = Idle]
  BY DEF Rollback
<1>2. request' \in [Clients -> Requests]
  BY <1>1, IdleType DEF IInv, TypeOK
<1>3. \A d \in Clients : request'[d] = Idle \/ request'[d] = request[d]
  BY <1>1 DEF IInv, TypeOK
<1>4. /\ accounts' \in [Accounts -> AccountRows]
      /\ txns' \in [Txns -> TxnRows]
  BY <1>1 DEF IInv, TypeOK
<1>5. \A t \in Txns : Sound(txns[t])'
  BY <1>1, SoundStays
<1>6. \A d \in Clients :
        request[d].pc = "reverse" => txns'[request[d].txn].state # "absent"
  BY <1>1 DEF IInv, RequestOK
<1> QED BY <1>1, <1>2, <1>3, <1>4, <1>5, <1>6, QuietStep

\* Accounts change, nothing else does.
LEMMA AccountStep ==
  ASSUME IInv, accounts' \in [Accounts -> AccountRows],
         UNCHANGED <<txns, request>>,
         \A a \in Accounts :
           /\ accounts[a].state # "absent" => accounts'[a].state # "absent"
           /\ Live(accounts[a]) /\ ~Live(accounts'[a]) => ~AccountLocked(a)
  PROVE  IInv'
<1>1. /\ txns' \in [Txns -> TxnRows] /\ request' \in [Clients -> Requests]
      /\ \A d \in Clients : request'[d] = request[d]
  BY DEF IInv, TypeOK
<1>2. \A t \in Txns : Sound(txns[t])'
  BY SoundStays
<1>3. \A d \in Clients :
        request[d].pc = "reverse" => txns'[request[d].txn].state # "absent"
  BY DEF IInv, RequestOK
<1> QED BY <1>1, <1>2, <1>3, QuietStep

\* A new account has not been named yet.
LEMMA StepCreateAccount ==
  ASSUME IInv, NEW a \in Accounts, CreateAccount(a)
  PROVE  IInv'
<1>1. PICK v \in Openings :
        /\ accounts[a].state = "absent"
        /\ accounts' = [accounts EXCEPT
             ![a] = [state |-> "live", initial |-> v, balance |-> v]]
        /\ UNCHANGED <<txns, request>>
  BY DEF CreateAccount
<1>2. [state |-> "live", initial |-> v, balance |-> v] \in AccountRows
  BY LedgerAssumption DEF AccountRows
<1>3. accounts' \in [Accounts -> AccountRows]
  BY <1>1, <1>2 DEF IInv, TypeOK
<1>4. /\ accounts'[a].state = "live"
      /\ \A b \in Accounts : b # a => accounts'[b] = accounts[b]
  BY <1>1 DEF IInv, TypeOK
<1> QED BY <1>1, <1>3, <1>4, AccountStep DEF Live, Book!Live

\* An account whose row is locked is not deleted.
LEMMA StepDeleteAccount ==
  ASSUME IInv, NEW a \in Accounts, DeleteAccount(a)
  PROVE  IInv'
<1>1. /\ Live(accounts[a]) /\ ~AccountLocked(a)
      /\ accounts' = [accounts EXCEPT ![a].state = "deleted"]
      /\ UNCHANGED <<txns, request>>
  BY DEF DeleteAccount
<1>2. accounts[a] \in AccountRows
  BY DEF IInv, TypeOK
<1>3. [accounts[a] EXCEPT !.state = "deleted"] \in AccountRows
  BY <1>2 DEF AccountRows
<1>4. /\ accounts' \in [Accounts -> AccountRows]
      /\ accounts'[a] = [accounts[a] EXCEPT !.state = "deleted"]
      /\ \A b \in Accounts : b # a => accounts'[b] = accounts[b]
  BY <1>1, <1>3 DEF IInv, TypeOK
<1>5. accounts'[a].state = "deleted"
  BY <1>2, <1>4 DEF AccountRows
<1> QED BY <1>1, <1>4, <1>5, AccountStep DEF Live, Book!Live

(***************************************************************************)
(* What UpdateAccount does to its account: the opening balance and the     *)
(* balance move together, or the account has been deleted.                 *)
(***************************************************************************)
LEMMA Restated ==
  ASSUME IInv, NEW c \in Clients, UpdateAccount(c), NEW a \in Accounts,
         a = request[c].account
  PROVE  /\ accounts' \in [Accounts -> AccountRows]
         /\ \A b \in Accounts : b # a => accounts'[b] = accounts[b]
         /\ accounts'[a].state = accounts[a].state
         /\ ~Live(accounts[a]) => accounts'[a] = accounts[a]
         /\ accounts'[a].balance - accounts'[a].initial
              = accounts[a].balance - accounts[a].initial
<1>1. PICK acc \in AccountRows, v \in Int :
        acc = accounts[a] /\ v = request[c].opening
  BY DEF IInv, TypeOK, Requests
<1>2. acc.initial \in Int /\ acc.balance \in Int
  BY DEF AccountRows
<1>3. PICK b \in Int : b = acc.balance + v - acc.initial
  BY <1>2
<1>4. PICK new : new = [acc EXCEPT !.initial = v, !.balance = b]
  OBVIOUS
<1>5. accounts' = IF Live(acc) THEN [accounts EXCEPT ![a] = new] ELSE accounts
  <2>1. accounts' =
          IF Live(acc)
          THEN [accounts EXCEPT
                  ![a] = [acc EXCEPT !.initial = v,
                                     !.balance = acc.balance + v - acc.initial]]
          ELSE accounts
    BY <1>1, Zenon DEF UpdateAccount
  <2> QED BY <1>3, <1>4, <2>1, Zenon
<1>6. /\ new \in AccountRows /\ new.state = acc.state
      /\ new.initial = v /\ new.balance = b
  BY <1>4 DEF AccountRows
<1>7. new.balance - new.initial = acc.balance - acc.initial
  BY <1>2, <1>3, <1>6
<1> QED BY <1>1, <1>5, <1>6, <1>7 DEF IInv, TypeOK

\* A restatement changes no state of an account.
LEMMA StepUpdateAccount ==
  ASSUME IInv, NEW c \in Clients, UpdateAccount(c)
  PROVE  IInv'
<1>1. PICK a \in Accounts : a = request[c].account
  BY DEF IInv, RequestOK, UpdateAccount
<1>2. /\ accounts' \in [Accounts -> AccountRows]
      /\ \A b \in Accounts : accounts'[b].state = accounts[b].state
  BY <1>1, Restated
<1>3. request' = [request EXCEPT ![c] = Idle] /\ UNCHANGED txns
  BY DEF UpdateAccount
<1>4. /\ request' \in [Clients -> Requests]
      /\ \A d \in Clients : request'[d] = Idle \/ request'[d] = request[d]
      /\ txns' \in [Txns -> TxnRows]
  BY <1>3, IdleType DEF IInv, TypeOK
<1>5. \A t \in Txns : Sound(txns[t])'
  BY <1>2, <1>3, SoundStays
<1>6. \A d \in Clients :
        request[d].pc = "reverse" => txns'[request[d].txn].state # "absent"
  BY <1>3 DEF IInv, RequestOK
<1> QED BY <1>2, <1>3, <1>4, <1>5, <1>6, QuietStep DEF Live, Book!Live

\* The request that has counted no movements.
LEMMA StepCountMovements ==
  ASSUME IInv, NEW c \in Clients, NEW a \in Accounts, CountMovements(c, a)
  PROVE  IInv'
<1>1. PICK v \in Openings :
        request' = [request EXCEPT
                      ![c] = [Idle EXCEPT !.pc = "restate", !.account = a,
                                          !.opening = v]]
  BY DEF CountMovements
<1>2. PICK q : q = [Idle EXCEPT !.pc = "restate", !.account = a, !.opening = v]
  OBVIOUS
<1>3. /\ q.pc = "restate" /\ q.todo = <<>> /\ q.delta = <<>>
      /\ q.account = a /\ q \in Requests
  BY <1>2, IdleType, LedgerAssumption DEF Idle, Requests
<1>4. request' = [request EXCEPT ![c] = q] /\ UNCHANGED <<accounts, txns>>
  BY <1>1, <1>2 DEF CountMovements
<1>5. request'[c] = q
  BY <1>4 DEF IInv, TypeOK
<1>6. RequestOK(c)'
  BY <1>3, <1>5, NoDelta DEF RequestOK
<1>7. \A d \in Clients \ {c} : Apart(c, d)'
  BY <1>3, <1>5, NoDelta DEF Apart
<1> QED BY <1>3, <1>4, <1>6, <1>7, RequestStep

\* What Wrote makes of a request.
LEMMA WroteRequest ==
  ASSUME IInv, NEW c \in Clients, NEW t \in Txns, NEW r \in TxnRows,
         NEW effects \in Seq(Legs), Wrote(c, t, r, effects)
  PROVE  \E q \in Requests :
           /\ q.pc = "apply" /\ q.txn = t /\ q.row = r /\ q.todo = effects
           /\ q.delta = request[c].delta
           /\ request' = [request EXCEPT ![c] = q] /\ request'[c] = q
<1>1. PICK d \in Deltas : d = request[c].delta
  BY DEF IInv, TypeOK, Requests
<1>2. PICK q : q = [pc |-> "apply", txn |-> t, row |-> r, todo |-> effects,
                    delta |-> d, account |-> None, opening |-> 0]
  OBVIOUS
<1>3. /\ q.pc = "apply" /\ q.txn = t /\ q.row = r /\ q.todo = effects
      /\ q.delta = d /\ q \in Requests
  BY <1>2 DEF Requests
<1>4. request' = [request EXCEPT ![c] = q]
  BY <1>1, <1>2, Zenon DEF Wrote
<1>5. request'[c] = q
  BY <1>4 DEF IInv, TypeOK
<1> QED BY <1>1, <1>3, <1>4, <1>5

\* A row is written by a request that nobody else is writing it with.
LEMMA WroteStep ==
  ASSUME IInv, NEW c \in Clients, NEW t \in Txns, NEW r \in TxnRows,
         NEW effects \in Seq(Legs), Wrote(c, t, r, effects),
         UNCHANGED <<accounts, txns>>,
         Len(effects) <= 2,
         \A i \in DOMAIN effects :
           accounts[effects[i].account].state # "absent",
         Sound(r), <<txns[t].state, r.state>> \in Book!Lifecycle,
         Live(r) /\ Live(txns[t]) => c \in Editors,
         \A d \in Clients \ {c} : request[d].pc = "apply" => request[d].txn # t
  PROVE  IInv'
<1>1. PICK q \in Requests :
        /\ q.pc = "apply" /\ q.txn = t /\ q.row = r /\ q.todo = effects
        /\ q.delta = request[c].delta
        /\ request' = [request EXCEPT ![c] = q] /\ request'[c] = q
  BY WroteRequest
<1>2. \A a \in DOMAIN request[c].delta : Live(accounts[a])
  BY DEF IInv, RequestOK
<1>3. RequestOK(c)'
  BY <1>1, <1>2 DEF RequestOK, Sound, Live, Book!Live
<1>4. \A d \in Clients \ {c} : Apart(c, d)'
  BY <1>1 DEF IInv, TypeOK, Apart
<1> QED BY <1>1, <1>3, <1>4, RequestStep

\* A row of existing accounts is sound.
LEMMA PayloadSound ==
  ASSUME NEW r \in Payloads, accounts[r.account].state # "absent",
         r.type = "transfer" => accounts[r.other].state # "absent"
  PROVE  Sound(r)
  BY PayloadType DEF Sound

\* A row whose accounts the service has found live is sound.
LEMMA AccountsSound ==
  ASSUME NEW r \in Payloads, AccountsExist(r)
  PROVE  Sound(r)
<1>1. r.account \in Accounts /\ (r.type = "transfer" => r.other \in Accounts)
  BY PayloadType
<1>2. Live(accounts[r.account])
  BY <1>1, LedgerAssumption DEF AccountsExist
<1>3. r.type = "transfer" => Live(accounts[r.other])
  BY <1>1, LedgerAssumption DEF AccountsExist
<1> QED BY <1>2, <1>3, PayloadSound DEF Live, Book!Live

\* A row with a new id.
LEMMA StepNew ==
  ASSUME IInv, NEW c \in Clients, NEW t \in Txns, NEW r \in Payloads,
         txns[t].state = "absent", \A d \in Clients : request[d].txn # t,
         Sound(r), Wrote(c, t, r, Effects(r, 1)), UNCHANGED <<accounts, txns>>
  PROVE  IInv'
<1>1. r \in TxnRows /\ Live(r)
  BY PayloadType
<1>2. /\ Effects(r, 1) \in Seq(Legs) /\ Len(Effects(r, 1)) <= 2
      /\ \A i \in DOMAIN Effects(r, 1) :
           accounts[Effects(r, 1)[i].account].state # "absent"
  BY <1>1, EffectsType
<1>3. /\ <<txns[t].state, r.state>> \in Book!Lifecycle
      /\ ~Live(txns[t])
  BY <1>1 DEF Book!Lifecycle, Live, Book!Live
<1> QED BY <1>1, <1>2, <1>3, WroteStep

\* A client sends a new transaction.
LEMMA StepCreateTransaction ==
  ASSUME IInv, NEW c \in Clients, CreateTransaction(c)
  PROVE  IInv'
  BY AccountsSound, StepNew DEF CreateTransaction

\* The engine materialises an occurrence.
LEMMA StepMaterialise ==
  ASSUME IInv, NEW c \in Clients, MaterialiseRecurring(c)
  PROVE  IInv'
  BY PayloadSound, StepNew DEF MaterialiseRecurring

\* A row that is deleted is not live, whatever it names.
LEMMA StepSoftDelete ==
  ASSUME IInv, NEW c \in Clients, SoftDeleteTransaction(c)
  PROVE  IInv'
<1>1. PICK t \in Txns :
        /\ Live(txns[t]) /\ ~RowLocked(t)
        /\ Wrote(c, t, [txns[t] EXCEPT !.state = "deleted"],
                 Effects(txns[t], -1))
        /\ UNCHANGED <<accounts, txns>>
  BY DEF SoftDeleteTransaction
<1>2. txns[t] \in TxnRows /\ Sound(txns[t])
  BY DEF IInv, TypeOK
<1>3. PICK r : r = [txns[t] EXCEPT !.state = "deleted"]
  OBVIOUS
<1>4. r \in TxnRows /\ r.state = "deleted"
  BY <1>2, <1>3 DEF TxnRows
<1>5. PICK e : e = Effects(txns[t], -1)
  OBVIOUS
<1>6. /\ e \in Seq(Legs) /\ Len(e) <= 2
      /\ \A i \in DOMAIN e : accounts[e[i].account].state # "absent"
  BY <1>1, <1>2, <1>5, EffectsType
<1>7. Wrote(c, t, r, e)
  BY <1>1, <1>3, <1>5
<1>8. /\ <<txns[t].state, r.state>> \in Book!Lifecycle
      /\ Sound(r) /\ ~Live(r)
  BY <1>1, <1>4 DEF Book!Lifecycle, Sound, Live, Book!Live
<1>9. \A d \in Clients \ {c} : request[d].pc = "apply" => request[d].txn # t
  BY <1>1 DEF RowLocked
<1> QED BY <1>1, <1>4, <1>6, <1>7, <1>8, <1>9, WroteStep

\* An edit has read the row it is going to replace.
LEMMA StepReadOld ==
  ASSUME IInv, NEW c \in Editors, ReadOld(c)
  PROVE  IInv'
<1>1. PICK t \in Txns, r \in Payloads :
        /\ Live(txns[t]) /\ AccountsExist(r)
        /\ request' = [request EXCEPT
             ![c] = [Idle EXCEPT !.pc = "reverse", !.txn = t, !.row = r,
                                 !.todo = Effects(txns[t], -1)]]
        /\ UNCHANGED <<accounts, txns>>
  BY DEF ReadOld
<1>2. /\ txns[t] \in TxnRows /\ Sound(txns[t]) /\ c \in Clients
      /\ txns[t].state # "absent"
  BY <1>1, LedgerAssumption DEF IInv, TypeOK, Live, Book!Live
<1>3. PICK e : e = Effects(txns[t], -1)
  OBVIOUS
<1>4. /\ e \in Seq(Legs) /\ Len(e) <= 2
      /\ \A i \in DOMAIN e : accounts[e[i].account].state # "absent"
  BY <1>1, <1>2, <1>3, EffectsType
<1>5. r \in TxnRows /\ Live(r) /\ Sound(r)
  BY <1>1, PayloadType, AccountsSound
<1>6. PICK q : q = [Idle EXCEPT !.pc = "reverse", !.txn = t, !.row = r,
                                !.todo = e]
  OBVIOUS
<1>7. q = [pc |-> "reverse", txn |-> t, row |-> r, todo |-> e,
           delta |-> <<>>, account |-> None, opening |-> 0]
  BY <1>6 DEF Idle
<1>8. /\ q.pc = "reverse" /\ q.txn = t /\ q.row = r /\ q.todo = e
      /\ q.delta = <<>> /\ q \in Requests
  BY <1>4, <1>5, <1>7, NoDelta DEF Requests
<1>9. request' = [request EXCEPT ![c] = q] /\ request'[c] = q
  BY <1>1, <1>2, <1>3, <1>6 DEF IInv, TypeOK
<1>10. RequestOK(c)'
  BY <1>1, <1>2, <1>4, <1>5, <1>8, <1>9, NoDelta
     DEF RequestOK, Sound, Live, Book!Live
<1>11. \A d \in Clients \ {c} : Apart(c, d)'
  BY <1>8, <1>9, NoDelta DEF Apart
<1> QED BY <1>1, <1>2, <1>8, <1>9, <1>10, <1>11, RequestStep

\* An edit writes its row.
LEMMA StepRewrite ==
  ASSUME IInv, NEW c \in Clients, Rewrite(c)
  PROVE  IInv'
<1>1. PICK t, r : t = request[c].txn /\ r = request[c].row
  OBVIOUS
<1>2. /\ request[c].pc = "reverse" /\ Live(txns[t]) /\ ~RowLocked(t)
      /\ Wrote(c, t, r, Effects(r, 1)) /\ UNCHANGED <<accounts, txns>>
  BY <1>1 DEF Rewrite
<1>3. /\ t \in Txns /\ r \in TxnRows /\ Sound(r) /\ Live(r)
      /\ c \in Editors
  BY <1>1, <1>2 DEF IInv, TypeOK, RequestOK, Requests
<1>4. /\ Effects(r, 1) \in Seq(Legs) /\ Len(Effects(r, 1)) <= 2
      /\ \A i \in DOMAIN Effects(r, 1) :
           accounts[Effects(r, 1)[i].account].state # "absent"
  BY <1>3, EffectsType
<1>5. <<txns[t].state, r.state>> \in Book!Lifecycle
  BY <1>2, <1>3 DEF Book!Lifecycle, Live, Book!Live
<1>6. \A d \in Clients \ {c} : request[d].pc = "apply" => request[d].txn # t
  BY <1>2 DEF RowLocked
<1> QED BY <1>2, <1>3, <1>4, <1>5, <1>6, WroteStep

\* An adjustment locks its account, unless that is gone.
LEMMA AdjustedType ==
  ASSUME NEW delta \in Deltas, NEW leg \in Legs
  PROVE  /\ Adjusted(delta, leg) \in Deltas
         /\ ~Live(accounts[leg.account]) => Adjusted(delta, leg) = delta
         /\ Live(accounts[leg.account]) =>
              /\ DOMAIN Adjusted(delta, leg) = DOMAIN delta \cup {leg.account}
              /\ \A a \in DOMAIN Adjusted(delta, leg) :
                   Adjusted(delta, leg)[a] =
                     (IF a \in DOMAIN delta THEN delta[a] ELSE 0)
                     + (IF a = leg.account THEN leg.delta ELSE 0)
<1>1. leg.account \in Accounts /\ leg.delta \in Int
  BY DEF Legs
<1>2. DOMAIN delta \subseteq Accounts /\ delta \in [DOMAIN delta -> Int]
  BY DeltaType
<1>3. CASE ~Live(accounts[leg.account])
  BY <1>3 DEF Adjusted
<1>4. CASE Live(accounts[leg.account])
  <2>1. PICK f : f = Adjusted(delta, leg)
    OBVIOUS
  <2>2. f = [a \in DOMAIN delta \cup {leg.account} |->
               (IF a \in DOMAIN delta THEN delta[a] ELSE 0)
               + (IF a = leg.account THEN leg.delta ELSE 0)]
    BY <1>4, <2>1 DEF Adjusted
  <2>3. DOMAIN f \subseteq Accounts /\ f \in [DOMAIN f -> Int]
    BY <1>1, <1>2, <2>2
  <2>4. f \in Deltas
    BY <2>3, DeltaType
  <2> QED BY <1>4, <2>1, <2>2, <2>4
<1> QED BY <1>3, <1>4

\* What an adjustment makes of its request.
LEMMA AdjustRequest ==
  ASSUME IInv, NEW c \in Clients, Adjust(c)
  PROVE  /\ Head(request[c].todo) \in Legs
         /\ \E q \in Requests :
              /\ q.pc = request[c].pc /\ q.txn = request[c].txn
              /\ q.row = request[c].row /\ q.account = request[c].account
              /\ q.todo = Tail(request[c].todo)
              /\ q.delta = Adjusted(request[c].delta, Head(request[c].todo))
              /\ request' = [request EXCEPT ![c] = q] /\ request'[c] = q
<1>1. PICK old \in Requests : old = request[c]
  BY DEF IInv, TypeOK
<1>2. PICK todo, leg : todo = Tail(old.todo) /\ leg = Head(old.todo)
  OBVIOUS
<1>3. old.todo \in Seq(Legs) /\ old.todo # <<>> /\ old.delta \in Deltas
  BY <1>1 DEF Requests, Adjust
<1>4. todo \in Seq(Legs) /\ leg \in Legs
  BY <1>2, <1>3
<1>5. PICK delta \in Deltas : delta = Adjusted(old.delta, leg)
  BY <1>3, <1>4, AdjustedType
<1>6. PICK q : q = [old EXCEPT !.todo = todo, !.delta = delta]
  OBVIOUS
<1>7. /\ q \in Requests /\ q.pc = old.pc /\ q.txn = old.txn
      /\ q.row = old.row /\ q.account = old.account
      /\ q.todo = todo /\ q.delta = delta
  BY <1>4, <1>6 DEF Requests
<1>8. request' = [request EXCEPT ![c] = q]
  BY <1>1, <1>2, <1>5, <1>6, Zenon DEF Adjust
<1>9. request'[c] = q
  BY <1>8 DEF IInv, TypeOK
<1> QED BY <1>1, <1>2, <1>4, <1>5, <1>7, <1>8, <1>9

\* A request adjusts a balance nobody else has locked.
LEMMA StepAdjust ==
  ASSUME IInv, NEW c \in Clients, Adjust(c)
  PROVE  IInv'
<1>1. PICK leg \in Legs : leg = Head(request[c].todo)
  BY AdjustRequest
<1>2. PICK q \in Requests :
        /\ q.pc = request[c].pc /\ q.txn = request[c].txn
        /\ q.row = request[c].row /\ q.account = request[c].account
        /\ q.todo = Tail(request[c].todo)
        /\ q.delta = Adjusted(request[c].delta, leg)
        /\ request' = [request EXCEPT ![c] = q] /\ request'[c] = q
  BY <1>1, AdjustRequest
<1>3. /\ request[c] \in Requests /\ request[c].todo \in Seq(Legs)
      /\ request[c].todo # <<>> /\ request[c].delta \in Deltas
      /\ RequestOK(c) /\ UNCHANGED <<accounts, txns>>
      /\ \A d \in Clients \ {c} : leg.account \notin DOMAIN request[d].delta
  BY <1>1 DEF IInv, TypeOK, Requests, Adjust
<1>4. /\ Len(q.todo) <= 2
      /\ \A i \in DOMAIN q.todo : accounts[q.todo[i].account].state # "absent"
  BY <1>2, <1>3 DEF RequestOK
<1>5. /\ \A a \in DOMAIN q.delta :
           a \in DOMAIN request[c].delta \/ a = leg.account
      /\ \A a \in DOMAIN q.delta : Live(accounts[a])
  <2>1. \A a \in DOMAIN request[c].delta : Live(accounts[a])
    BY <1>3 DEF RequestOK
  <2>2. CASE ~Live(accounts[leg.account])
    <3>1. q.delta = request[c].delta
      BY <1>2, <1>3, <2>2, AdjustedType
    <3> QED BY <2>1, <3>1
  <2>3. CASE Live(accounts[leg.account])
    <3>1. PICK delta \in Deltas : delta = request[c].delta
      BY <1>3
    <3>2. DOMAIN Adjusted(delta, leg) = DOMAIN delta \cup {leg.account}
      BY <2>3, AdjustedType
    <3>3. q.delta = Adjusted(delta, leg)
      BY <1>2, <3>1
    <3> QED BY <2>1, <2>3, <3>1, <3>2, <3>3
  <2> QED BY <2>2, <2>3
<1>6. RequestOK(c)'
  BY <1>2, <1>3, <1>4, <1>5 DEF RequestOK, Sound, Live, Book!Live
<1>7. \A d \in Clients \ {c} : Apart(c, d)'
  <2> SUFFICES ASSUME NEW d \in Clients \ {c}
               PROVE  Apart(c, d)'
    OBVIOUS
  <2>1. request'[d] = request[d] /\ Apart(c, d)
    BY <1>2 DEF IInv, TypeOK
  <2> QED BY <1>2, <1>3, <1>5, <2>1 DEF Apart
<1> QED BY <1>2, <1>3, <1>6, <1>7, RequestStep

(***************************************************************************)
(* What a commit does to the tables.                                       *)
(***************************************************************************)
LEMMA Committed ==
  ASSUME IInv, NEW c \in Clients, Commit(c), NEW t \in Txns,
         t = request[c].txn
  PROVE  /\ txns' \in [Txns -> TxnRows] /\ txns'[t] = request[c].row
         /\ \A u \in Txns : u # t => txns'[u] = txns[u]
         /\ accounts' \in [Accounts -> AccountRows]
         /\ \A a \in Accounts :
              /\ accounts'[a].state = accounts[a].state
              /\ accounts'[a].initial = accounts[a].initial
              /\ accounts'[a] =
                   IF a \in DOMAIN request[c].delta
                   THEN [accounts[a] EXCEPT !.balance = @ + request[c].delta[a]]
                   ELSE accounts[a]
<1>1. PICK r \in TxnRows, delta \in Deltas :
        r = request[c].row /\ delta = request[c].delta
  BY DEF IInv, TypeOK, Requests
<1>2. /\ txns' = [txns EXCEPT ![t] = r]
      /\ accounts' = [a \in Accounts |->
           IF a \in DOMAIN delta
           THEN [accounts[a] EXCEPT !.balance = @ + delta[a]]
           ELSE accounts[a]]
  BY <1>1 DEF Commit
<1>3. ASSUME NEW a \in Accounts
      PROVE  /\ accounts'[a] \in AccountRows
             /\ accounts'[a].state = accounts[a].state
             /\ accounts'[a].initial = accounts[a].initial
  <2>1. PICK acc \in AccountRows : acc = accounts[a]
    BY DEF IInv, TypeOK
  <2>2. CASE a \in DOMAIN delta
    <3>1. acc.balance + delta[a] \in Int
      BY <2>1, <2>2, DeltaType DEF AccountRows
    <3>2. PICK new : new = [acc EXCEPT !.balance = acc.balance + delta[a]]
      OBVIOUS
    <3>3. /\ new \in AccountRows /\ new.state = acc.state
          /\ new.initial = acc.initial
      BY <3>1, <3>2 DEF AccountRows
    <3>4. accounts'[a] = new
      BY <1>2, <2>1, <2>2, <3>2
    <3> QED BY <2>1, <3>3, <3>4
  <2>3. CASE a \notin DOMAIN delta
    BY <1>2, <2>1, <2>3
  <2> QED BY <2>2, <2>3
<1>4. accounts' \in [Accounts -> AccountRows]
  BY <1>2, <1>3
<1>5. /\ txns' \in [Txns -> TxnRows] /\ txns'[t] = r
      /\ \A u \in Txns : u # t => txns'[u] = txns[u]
  BY <1>2 DEF IInv, TypeOK
<1> QED BY <1>1, <1>2, <1>3, <1>4, <1>5

\* A commit changes the row it has locked.
LEMMA StepCommit ==
  ASSUME IInv, NEW c \in Clients, Commit(c)
  PROVE  IInv'
<1>1. PICK t \in Txns : t = request[c].txn
  BY DEF IInv, RequestOK, Commit
<1>2. /\ txns' \in [Txns -> TxnRows] /\ txns'[t] = request[c].row
      /\ \A u \in Txns : u # t => txns'[u] = txns[u]
      /\ accounts' \in [Accounts -> AccountRows]
      /\ \A a \in Accounts : accounts'[a].state = accounts[a].state
  BY <1>1, Committed
<1>3. /\ request[c].pc = "apply" /\ request' = [request EXCEPT ![c] = Idle]
      /\ RequestOK(c)
  BY DEF Commit, IInv
<1>4. request' \in [Clients -> Requests]
  BY <1>3, IdleType DEF IInv, TypeOK
<1>5. /\ Sound(request[c].row) /\ request[c].row.state # "absent"
  BY <1>3 DEF RequestOK, Book!Lifecycle
<1>6. \A u \in Txns : Sound(txns[u])'
  BY <1>2, <1>5 DEF IInv, Sound
<1>7. ASSUME NEW d \in Clients
      PROVE  \/ request'[d] = Idle
             \/ /\ request'[d] = request[d]
                /\ request[d].pc = "apply" =>
                     txns'[request[d].txn] = txns[request[d].txn]
                /\ request[d].pc = "reverse" =>
                     txns'[request[d].txn].state # "absent"
  <2>1. CASE d = c
    BY <1>3, <2>1 DEF IInv, TypeOK
  <2>2. CASE d # c
    <3>1. request'[d] = request[d] /\ RequestOK(d) /\ Apart(c, d)
      BY <1>3, <2>2 DEF IInv, TypeOK
    <3> QED BY <1>1, <1>2, <1>3, <1>5, <3>1 DEF RequestOK, Apart
  <2> QED BY <2>1, <2>2
<1> QED BY <1>2, <1>4, <1>6, <1>7, QuietStep DEF Live, Book!Live

-----------------------------------------------------------------------------
(* Types and soundness, for any number of editors.                         *)

\* Nothing exists, nothing is under way.
LEMMA InitInvariant == Init => IInv
<1> SUFFICES ASSUME Init PROVE IInv
  OBVIOUS
<1>1. [state |-> "absent", initial |-> 0, balance |-> 0] \in AccountRows
  BY DEF AccountRows
<1>2. TypeOK
  BY <1>1, NoTxnType, IdleType DEF Init, TypeOK
<1>3. \A t \in Txns : Sound(txns[t])
  BY NoTxnType DEF Init, Sound
<1>4. \A c \in Clients : RequestOK(c)
  BY IdleType, NoDelta DEF Init, RequestOK
<1>5. \A c, d \in Clients : c # d => Apart(c, d)
  BY IdleType, NoDelta DEF Init, Apart
<1> QED BY <1>2, <1>3, <1>4, <1>5 DEF IInv

\* Every step, and a stutter, keeps the invariant.
LEMMA StepInvariant == IInv /\ [Next]_vars => IInv'
<1> SUFFICES ASSUME IInv, [Next]_vars PROVE IInv'
  OBVIOUS
<1>1. CASE \E a \in Accounts : CreateAccount(a) \/ DeleteAccount(a)
  BY <1>1, StepCreateAccount, StepDeleteAccount
<1>2. CASE \E c \in Clients :
             \/ \E a \in Accounts : CountMovements(c, a)
             \/ UpdateAccount(c) \/ CreateTransaction(c)
             \/ MaterialiseRecurring(c) \/ SoftDeleteTransaction(c)
  BY <1>2, StepCountMovements, StepUpdateAccount, StepCreateTransaction,
     StepMaterialise, StepSoftDelete
<1>3. CASE \E c \in Clients :
             \/ c \in Editors /\ ReadOld(c)
             \/ Rewrite(c) \/ Adjust(c) \/ Commit(c) \/ Rollback(c)
  BY <1>3, StepReadOld, StepRewrite, StepAdjust, StepCommit, StepRollback
<1>4. CASE UNCHANGED vars
  <2>1. TypeOK'
    BY <1>4 DEF vars, IInv, TypeOK
  <2>2. \A t \in Txns : Sound(txns[t])'
    BY <1>4 DEF vars, IInv, Sound
  <2>3. \A c \in Clients : RequestOK(c)'
    BY <1>4 DEF vars, IInv, RequestOK, Sound
  <2>4. \A c, d \in Clients : c # d => Apart(c, d)'
    BY <1>4 DEF vars, IInv, Apart
  <2> QED BY <2>1, <2>2, <2>3, <2>4 DEF IInv
<1> QED BY <1>1, <1>2, <1>3, <1>4 DEF Next

\* The invariant holds in every state.
LEMMA Invariant == Spec => []IInv
  BY InitInvariant, StepInvariant, PTL DEF Spec

(***************************************************************************)
(* Types: every account, transaction and request in flight holds values of *)
(* its column types (models.go, Account and Transaction).                  *)
(***************************************************************************)
THEOREM LedgerTypeCorrect == Spec => []TypeOK
<1>1. IInv => TypeOK
  BY DEF IInv
<1> QED BY <1>1, Invariant, PTL

-----------------------------------------------------------------------------
(* Opening balances.                                                       *)

\* No request begins to restate a, and its opening balance stays.
Untouched(a) ==
  /\ accounts'[a].initial = accounts[a].initial
  /\ \A d \in Clients :
       request'[d].pc = "restate" /\ request'[d].account = a =>
         request[d].pc = "restate" /\ request[d].account = a

\* A request that has written its row restates nothing.
LEMMA WroteUntouched ==
  ASSUME IInv, NEW c \in Clients, NEW t, NEW r, NEW effects,
         Wrote(c, t, r, effects), UNCHANGED accounts, NEW a \in Accounts
  PROVE  Untouched(a)
<1>1. /\ request'[c].pc = "apply"
      /\ \A d \in Clients : d # c => request'[d] = request[d]
  BY DEF IInv, TypeOK, Wrote
<1> QED BY <1>1 DEF Untouched

\* A request that ends restates nothing.
LEMMA EndUntouched ==
  ASSUME IInv, NEW c \in Clients, request' = [request EXCEPT ![c] = Idle],
         NEW a \in Accounts, accounts'[a].initial = accounts[a].initial
  PROVE  Untouched(a)
<1>1. /\ request'[c].pc = "idle"
      /\ \A d \in Clients : d # c => request'[d] = request[d]
  BY IdleType DEF IInv, TypeOK
<1> QED BY <1>1 DEF Untouched

\* Only a request that counted no movements, or had counted them, restates.
LEMMA MovementsUntouched ==
  ASSUME IInv, NEW a \in Accounts, HasMovements(a), ~Restating(a), Next
  PROVE  Untouched(a)
<1>1. accounts[a].state # "absent"
  <2>1. PICK t \in Txns : Touches(txns[t], a)
    BY DEF HasMovements
  <2>2. Sound(txns[t]) /\ Live(txns[t])
    BY <2>1 DEF IInv, Touches
  <2> QED BY <2>1, <2>2, LedgerAssumption DEF Touches, Sound
<1>2. ASSUME NEW b \in Accounts, CreateAccount(b)
      PROVE  Untouched(a)
  <2>1. accounts'[a] = accounts[a] /\ UNCHANGED request
    BY <1>1, <1>2 DEF IInv, TypeOK, CreateAccount
  <2> QED BY <2>1 DEF Untouched
<1>3. ASSUME NEW b \in Accounts, DeleteAccount(b)
      PROVE  Untouched(a)
  <2>1. PICK acc \in AccountRows : acc = accounts[b]
    BY DEF IInv, TypeOK
  <2>2. [acc EXCEPT !.state = "deleted"].initial = acc.initial
    BY DEF AccountRows
  <2>3. /\ accounts' = [accounts EXCEPT ![b] = [acc EXCEPT !.state = "deleted"]]
        /\ UNCHANGED request
    BY <1>3, <2>1 DEF DeleteAccount
  <2>4. accounts'[a].initial = accounts[a].initial
    BY <2>1, <2>2, <2>3 DEF IInv, TypeOK
  <2> QED BY <2>3, <2>4 DEF Untouched
<1>4. ASSUME NEW c \in Clients, NEW b \in Accounts, CountMovements(c, b)
      PROVE  Untouched(a)
  <2>1. a # b
    BY <1>4 DEF CountMovements, Movements, HasMovements
  <2>2. PICK v \in Openings :
          request' = [request EXCEPT
                        ![c] = [Idle EXCEPT !.pc = "restate", !.account = b,
                                            !.opening = v]]
    BY <1>4 DEF CountMovements
  <2>3. /\ request'[c].account = b
        /\ \A d \in Clients : d # c => request'[d] = request[d]
    BY <2>2 DEF IInv, TypeOK, Idle
  <2>4. UNCHANGED accounts
    BY <1>4 DEF CountMovements
  <2> QED BY <2>1, <2>3, <2>4 DEF Untouched
<1>5. ASSUME NEW c \in Clients, UpdateAccount(c)
      PROVE  Untouched(a)
  <2>1. PICK b \in Accounts : b = request[c].account
    BY <1>5 DEF IInv, RequestOK, UpdateAccount
  <2>2. a # b
    BY <1>5, <2>1 DEF Restating, UpdateAccount
  <2>3. accounts'[a] = accounts[a]
    BY <1>5, <2>1, <2>2, Restated
  <2> QED BY <1>5, <2>3, EndUntouched DEF UpdateAccount
<1>6. ASSUME NEW c \in Clients,
             \/ CreateTransaction(c) \/ MaterialiseRecurring(c)
             \/ SoftDeleteTransaction(c) \/ Rewrite(c)
      PROVE  Untouched(a)
  BY <1>6, WroteUntouched
     DEF CreateTransaction, MaterialiseRecurring, SoftDeleteTransaction, Rewrite
<1>7. ASSUME NEW c \in Clients, ReadOld(c)
      PROVE  Untouched(a)
  <2>1. PICK t \in Txns, r \in Payloads :
          request' = [request EXCEPT
             ![c] = [Idle EXCEPT !.pc = "reverse", !.txn = t, !.row = r,
                                 !.todo = Effects(txns[t], -1)]]
    BY <1>7 DEF ReadOld
  <2>2. /\ request'[c].pc = "reverse"
        /\ \A d \in Clients : d # c => request'[d] = request[d]
    BY <2>1 DEF IInv, TypeOK, Idle
  <2>3. UNCHANGED accounts
    BY <1>7 DEF ReadOld
  <2> QED BY <2>2, <2>3 DEF Untouched
<1>8. ASSUME NEW c \in Clients, Adjust(c)
      PROVE  Untouched(a)
  <2>1. PICK q \in Requests :
          /\ q.pc = request[c].pc /\ q.account = request[c].account
          /\ request' = [request EXCEPT ![c] = q] /\ request'[c] = q
    BY <1>8, AdjustRequest
  <2>2. UNCHANGED accounts
    BY <1>8 DEF Adjust
  <2> QED BY <2>1, <2>2 DEF IInv, TypeOK, Untouched
<1>9. ASSUME NEW c \in Clients, Commit(c)
      PROVE  Untouched(a)
  <2>1. PICK t \in Txns : t = request[c].txn
    BY <1>9 DEF IInv, RequestOK, Commit
  <2>2. accounts'[a].initial = accounts[a].initial
    BY <1>9, <2>1, Committed
  <2> QED BY <1>9, <2>2, EndUntouched DEF Commit
<1>10. ASSUME NEW c \in Clients, Rollback(c)
       PROVE  Untouched(a)
  BY <1>10, EndUntouched DEF Rollback
<1> QED BY <1>2, <1>3, <1>4, <1>5, <1>6, <1>7, <1>8, <1>9, <1>10 DEF Next

(***************************************************************************)
(* Once an account has movements, and no request that counted none is      *)
(* about to restate it, its opening balance stays as long as it has them   *)
(* (services/account.go, Update).                                          *)
(***************************************************************************)
THEOREM OpeningSettlesCorrect == Spec => OpeningSettles
<1>1. ASSUME IInv, [Next]_vars
      PROVE  [\A a \in Accounts :
                HasMovements(a) /\ ~Restating(a) =>
                  /\ accounts'[a].initial = accounts[a].initial
                  /\ HasMovements(a)' => ~Restating(a)']_vars
  <2> SUFFICES ASSUME Next, NEW a \in Accounts,
                      HasMovements(a), ~Restating(a)
               PROVE  /\ accounts'[a].initial = accounts[a].initial
                      /\ HasMovements(a)' => ~Restating(a)'
    BY <1>1
  <2>1. Untouched(a)
    BY <1>1, MovementsUntouched
  <2> QED BY <2>1 DEF Untouched, Restating
<1> QED BY <1>1, Invariant, PTL DEF Spec, OpeningSettles

-----------------------------------------------------------------------------
(* What a request owes the balances.                                       *)

\* What the first two adjustments of s add to the balance of a.
Due(s, a) ==
  (IF Len(s) >= 1 /\ s[1].account = a THEN s[1].delta ELSE 0)
  + (IF Len(s) >= 2 /\ s[2].account = a THEN s[2].delta ELSE 0)

Made(f, a) == IF a \in DOMAIN f THEN f[a] ELSE 0

(***************************************************************************)
(* What c has adjusted and has still to adjust is what its commit changes; *)
(* before its row is written, what taking the old row back changes.  An    *)
(* account that has been deleted meanwhile is left out.                    *)
(***************************************************************************)
OwedTo(c, a) ==
  LET q == request[c]
      owes == Made(q.delta, a) + Due(q.todo, a)
  IN  /\ q.pc = "apply" =>
           owes = Book!Effect(q.row, a) - Book!Effect(txns[q.txn], a)
      /\ q.pc = "reverse" /\ Live(txns[q.txn]) =>
           owes = -Book!Effect(txns[q.txn], a)

Owed(c) ==
  \A a \in Accounts : accounts[a].state # "deleted" => OwedTo(c, a)

OneEditor == \A c, d \in Editors : c = d

\* The adjustments of a row are its effect, or its effect taken back.
LEMMA EffectsDue ==
  ASSUME NEW r \in TxnRows, Live(r), Sound(r), NEW a \in Accounts
  PROVE  /\ Due(Effects(r, 1), a) = Book!Effect(r, a)
         /\ Due(Effects(r, -1), a) = -Book!Effect(r, a)
<1>1. /\ r.type \in Types /\ r.amount \in Int /\ r.account \in Accounts
      /\ r.type = "transfer" => r.other \in Accounts \ {r.account}
  BY DEF TxnRows, Sound
<1>2. ASSUME NEW sign \in {1, -1}
      PROVE  Due(Effects(r, sign), a) = sign * Book!Effect(r, a)
  <2>1. CASE r.type = "income"
    <3>1. Effects(r, sign) =
            <<[account |-> r.account, delta |-> sign * r.amount]>>
      BY <1>1, <2>1, EffectsCases
    <3>2. Book!Effect(r, a) = IF r.account = a THEN r.amount ELSE 0
      BY <2>1 DEF Book!Effect, Live
    <3> QED BY <1>1, <3>1, <3>2 DEF Due
  <2>2. CASE r.type = "expense"
    <3>1. Effects(r, sign) =
            <<[account |-> r.account, delta |-> sign * (-r.amount)]>>
      BY <1>1, <2>2, EffectsCases
    <3>2. Book!Effect(r, a) = IF r.account = a THEN -r.amount ELSE 0
      BY <2>2 DEF Book!Effect, Live
    <3> QED BY <1>1, <3>1, <3>2 DEF Due
  <2>3. CASE r.type = "transfer"
    <3>1. Effects(r, sign) =
            <<[account |-> r.account, delta |-> sign * (-r.amount)],
              [account |-> r.other, delta |-> sign * r.amount]>>
      BY <1>1, <2>3, EffectsCases
    <3>2. Book!Effect(r, a) = IF r.account = a THEN -r.amount
                              ELSE IF r.other = a THEN r.amount ELSE 0
      BY <2>3 DEF Book!Effect, Live
    <3> QED BY <1>1, <2>3, <3>1, <3>2 DEF Due
  <2> QED BY <1>1, <2>1, <2>2, <2>3 DEF Types
<1>3. Book!Effect(r, a) \in Int
  BY <1>1 DEF Book!Effect
<1>4. /\ Due(Effects(r, 1), a) = 1 * Book!Effect(r, a)
      /\ Due(Effects(r, -1), a) = (-1) * Book!Effect(r, a)
  BY <1>2
<1> QED BY <1>3, <1>4

\* The first adjustment and the rest.
LEMMA DueStep ==
  ASSUME NEW s \in Seq(Legs), s # <<>>, Len(s) <= 2, NEW a
  PROVE  Due(s, a) =
           (IF Head(s).account = a THEN Head(s).delta ELSE 0) + Due(Tail(s), a)
<1>1. PICK u : u = Tail(s)
  OBVIOUS
<1>2. /\ Len(s) \in {1, 2} /\ Len(u) = Len(s) - 1 /\ Head(s) = s[1]
      /\ Len(s) = 2 => u[1] = s[2]
  <2>1. Len(s) \in Nat /\ Len(s) # 0
    OBVIOUS
  <2>2. Len(u) = Len(s) - 1 /\ Head(s) = s[1]
    BY <1>1
  <2>3. ASSUME Len(s) = 2 PROVE u[1] = s[2]
    BY <1>1, <2>3
  <2> QED BY <2>1, <2>2, <2>3
<1>3. PICK m, n : m = s[1] /\ n = s[2]
  OBVIOUS
<1>4. m.delta \in Int /\ (Len(s) = 2 => n.delta \in Int)
  <2>1. m \in Legs /\ (Len(s) = 2 => n \in Legs)
    BY <1>2, <1>3
  <2> QED BY <2>1 DEF Legs
<1>5. Due(s, a) = (IF m.account = a THEN m.delta ELSE 0)
                  + (IF Len(s) = 2 /\ n.account = a THEN n.delta ELSE 0)
  BY <1>2, <1>3 DEF Due
<1>6. Due(u, a) = (IF Len(s) = 2 /\ n.account = a THEN n.delta ELSE 0)
  <2>1. CASE Len(s) = 1
    <3>1. Len(u) = 0
      BY <1>2, <2>1
    <3> QED BY <2>1, <3>1 DEF Due
  <2>2. CASE Len(s) = 2
    <3>1. Len(u) = 1 /\ u[1] = n
      BY <1>2, <1>3, <2>2
    <3>2. Due(u, a) = (IF n.account = a THEN n.delta ELSE 0) + 0
      BY <3>1 DEF Due
    <3> QED BY <1>4, <2>2, <3>2
  <2> QED BY <1>2, <2>1, <2>2
<1>7. Head(s) = m
  BY <1>2, <1>3
<1> QED BY <1>1, <1>4, <1>5, <1>6, <1>7

\* Sums are integers.
LEMMA OwesType ==
  /\ \A s \in Seq(Legs) : \A a : Due(s, a) \in Int
  /\ \A f \in Deltas : \A a : Made(f, a) \in Int
  /\ \A a : Due(<<>>, a) = 0 /\ Made(<<>>, a) = 0
  /\ \A r \in TxnRows : \A a : Book!Effect(r, a) \in Int
  /\ \A r, a : ~Live(r) => Book!Effect(r, a) = 0
<1>1. ASSUME NEW s \in Seq(Legs), NEW a
      PROVE  Due(s, a) \in Int
  <2>1. /\ Len(s) >= 1 => s[1] \in Legs
        /\ Len(s) >= 2 => s[2] \in Legs
    OBVIOUS
  <2>2. /\ Len(s) >= 1 => s[1].delta \in Int
        /\ Len(s) >= 2 => s[2].delta \in Int
    BY <2>1 DEF Legs
  <2> QED BY <2>2 DEF Due
<1>2. ASSUME NEW f \in Deltas, NEW a
      PROVE  Made(f, a) \in Int
  BY DeltaType DEF Made
<1>3. \A a : Due(<<>>, a) = 0 /\ Made(<<>>, a) = 0
  BY NoDelta DEF Due, Made
<1>4. \A r \in TxnRows : \A a : Book!Effect(r, a) \in Int
  BY DEF Book!Effect, TxnRows
<1>5. \A r, a : ~Live(r) => Book!Effect(r, a) = 0
  BY DEF Book!Effect, Live
<1> QED BY <1>1, <1>2, <1>3, <1>4, <1>5

\* Only request c changes.
LEMMA OwedRequest ==
  ASSUME IInv, \A d \in Clients : Owed(d), NEW c \in Clients, NEW q,
         request' = [request EXCEPT ![c] = q], UNCHANGED <<accounts, txns>>,
         Owed(c)'
  PROVE  \A d \in Clients : Owed(d)'
<1> SUFFICES ASSUME NEW d \in Clients, d # c PROVE Owed(d)'
  OBVIOUS
<1>1. request'[d] = request[d] /\ Owed(d)
  BY DEF IInv, TypeOK
<1> QED BY <1>1 DEF Owed, OwedTo

\* Requests end or stay, and see the rows they count on unchanged.
LEMMA OwedQuiet ==
  ASSUME \A d \in Clients : Owed(d),
         \A a \in Accounts :
           accounts[a].state = "deleted" => accounts'[a].state = "deleted",
         \A d \in Clients :
           \/ request'[d].pc \in {"idle", "restate"}
           \/ /\ request'[d] = request[d]
              /\ request[d].pc = "apply" \/ Live(txns'[request[d].txn]) =>
                   txns'[request[d].txn] = txns[request[d].txn]
  PROVE  \A d \in Clients : Owed(d)'
<1> SUFFICES ASSUME NEW d \in Clients, NEW a \in Accounts,
                    accounts'[a].state # "deleted"
             PROVE  OwedTo(d, a)'
  BY DEF Owed
<1>1. OwedTo(d, a)
  BY DEF Owed
<1>2. CASE request'[d].pc \in {"idle", "restate"}
  BY <1>2 DEF OwedTo
<1>3. CASE /\ request'[d] = request[d]
           /\ request[d].pc = "apply" \/ Live(txns'[request[d].txn]) =>
                txns'[request[d].txn] = txns[request[d].txn]
  <2>1. CASE request[d].pc = "apply"
    BY <1>1, <1>3, <2>1 DEF OwedTo
  <2>2. CASE request[d].pc # "apply"
    <3>1. SUFFICES ASSUME request[d].pc = "reverse",
                          Live(txns'[request[d].txn])
                   PROVE  OwedTo(d, a)'
      BY <1>3, <2>2 DEF OwedTo, Live, Book!Live
    <3> QED BY <1>1, <1>3, <2>2, <3>1 DEF OwedTo
  <2> QED BY <2>1, <2>2
<1> QED BY <1>2, <1>3

\* A row is written, and its adjustments are what it changes.
LEMMA WroteOwed ==
  ASSUME IInv, \A d \in Clients : Owed(d), NEW c \in Clients,
         NEW t \in Txns, NEW r \in TxnRows, NEW effects \in Seq(Legs),
         Wrote(c, t, r, effects), UNCHANGED <<accounts, txns>>,
         \A a \in Accounts : accounts[a].state # "deleted" =>
           Made(request[c].delta, a) + Due(effects, a)
             = Book!Effect(r, a) - Book!Effect(txns[t], a)
  PROVE  \A d \in Clients : Owed(d)'
<1>1. PICK q \in Requests :
        /\ q.pc = "apply" /\ q.txn = t /\ q.row = r /\ q.todo = effects
        /\ q.delta = request[c].delta
        /\ request' = [request EXCEPT ![c] = q] /\ request'[c] = q
  BY WroteRequest
<1>2. Owed(c)'
  <2> SUFFICES ASSUME NEW a \in Accounts, accounts[a].state # "deleted"
               PROVE  OwedTo(c, a)'
    BY DEF Owed
  <2> QED BY <1>1 DEF OwedTo
<1> QED BY <1>1, <1>2, OwedRequest

\* A row with a new id: all of its effect is due.
LEMMA OwedNew ==
  ASSUME IInv, \A d \in Clients : Owed(d), NEW c \in Clients,
         NEW t \in Txns, NEW r \in Payloads, request[c].pc = "idle",
         txns[t].state = "absent", Sound(r), Wrote(c, t, r, Effects(r, 1)),
         UNCHANGED <<accounts, txns>>
  PROVE  \A d \in Clients : Owed(d)'
<1>1. r \in TxnRows /\ Live(r)
  BY PayloadType
<1>2. PICK e \in Seq(Legs) : e = Effects(r, 1)
  BY <1>1, EffectsType
<1>3. ASSUME NEW a \in Accounts
      PROVE  Made(request[c].delta, a) + Due(e, a)
               = Book!Effect(r, a) - Book!Effect(txns[t], a)
  <2>1. Made(request[c].delta, a) = 0
    BY DEF Made, IInv, RequestOK
  <2>2. Due(e, a) = Book!Effect(r, a) /\ Book!Effect(r, a) \in Int
    BY <1>1, <1>2, EffectsDue, OwesType
  <2>3. Book!Effect(txns[t], a) = 0
    BY OwesType DEF Live, Book!Live
  <2> QED BY <2>1, <2>2, <2>3
<1> QED BY <1>1, <1>2, <1>3, WroteOwed

\* A row deleted: all of its effect is taken back.
LEMMA OwedSoftDelete ==
  ASSUME IInv, \A d \in Clients : Owed(d), NEW c \in Clients,
         SoftDeleteTransaction(c)
  PROVE  \A d \in Clients : Owed(d)'
<1>1. PICK t \in Txns :
        /\ request[c].pc = "idle" /\ Live(txns[t])
        /\ Wrote(c, t, [txns[t] EXCEPT !.state = "deleted"],
                 Effects(txns[t], -1))
        /\ UNCHANGED <<accounts, txns>>
  BY DEF SoftDeleteTransaction
<1>2. PICK old \in TxnRows : old = txns[t]
  BY DEF IInv, TypeOK
<1>3. Live(old) /\ Sound(old)
  BY <1>1, <1>2 DEF IInv
<1>4. PICK r : r = [old EXCEPT !.state = "deleted"]
  OBVIOUS
<1>5. r \in TxnRows /\ ~Live(r)
  BY <1>2, <1>4 DEF TxnRows, Live, Book!Live
<1>6. PICK e \in Seq(Legs) : e = Effects(old, -1)
  BY <1>3, EffectsType
<1>7. ASSUME NEW a \in Accounts
      PROVE  Made(request[c].delta, a) + Due(e, a)
               = Book!Effect(r, a) - Book!Effect(txns[t], a)
  <2>1. Made(request[c].delta, a) = 0
    BY <1>1 DEF Made, IInv, RequestOK
  <2>2. Due(e, a) = -Book!Effect(old, a) /\ Book!Effect(old, a) \in Int
    BY <1>3, <1>6, EffectsDue, OwesType
  <2>3. Book!Effect(r, a) = 0
    BY <1>5, OwesType
  <2> QED BY <1>2, <2>1, <2>2, <2>3
<1>8. Wrote(c, t, r, e)
  BY <1>1, <1>2, <1>4, <1>6
<1> QED BY <1>1, <1>5, <1>7, <1>8, WroteOwed

\* An edit that begins owes the taking back of the row it read.
LEMMA OwedReadOld ==
  ASSUME IInv, \A d \in Clients : Owed(d), NEW c \in Clients, ReadOld(c)
  PROVE  \A d \in Clients : Owed(d)'
<1>1. PICK t \in Txns, row \in Payloads :
        /\ Live(txns[t])
        /\ request' = [request EXCEPT
             ![c] = [Idle EXCEPT !.pc = "reverse", !.txn = t, !.row = row,
                                 !.todo = Effects(txns[t], -1)]]
        /\ UNCHANGED <<accounts, txns>>
  BY DEF ReadOld
<1>2. PICK old \in TxnRows : old = txns[t]
  BY DEF IInv, TypeOK
<1>3. Live(old) /\ Sound(old)
  BY <1>1, <1>2 DEF IInv
<1>4. PICK e \in Seq(Legs) : e = Effects(old, -1)
  BY <1>3, EffectsType
<1>5. PICK q : q = [Idle EXCEPT !.pc = "reverse", !.txn = t, !.row = row,
                                !.todo = e]
  OBVIOUS
<1>6. q.pc = "reverse" /\ q.txn = t /\ q.todo = e /\ q.delta = <<>>
  BY <1>5 DEF Idle
<1>7. request' = [request EXCEPT ![c] = q] /\ request'[c] = q
  BY <1>1, <1>2, <1>4, <1>5 DEF IInv, TypeOK
<1>8. ASSUME NEW a \in Accounts
      PROVE  OwedTo(c, a)'
  <2>1. Due(e, a) = -Book!Effect(old, a) /\ Book!Effect(old, a) \in Int
    BY <1>3, <1>4, EffectsDue, OwesType
  <2>2. Made(q.delta, a) + Due(q.todo, a) = -Book!Effect(old, a)
    BY <1>6, <2>1, OwesType
  <2> QED BY <1>1, <1>2, <1>6, <1>7, <2>2 DEF OwedTo
<1> QED BY <1>1, <1>7, <1>8, OwedRequest DEF Owed

\* The old effect is taken back, the new one is due.
LEMMA OwedRewrite ==
  ASSUME IInv, \A d \in Clients : Owed(d), NEW c \in Clients, Rewrite(c)
  PROVE  \A d \in Clients : Owed(d)'
<1>1. PICK t \in Txns, r \in TxnRows, old \in TxnRows :
        t = request[c].txn /\ r = request[c].row /\ old = txns[t]
  BY DEF IInv, TypeOK, RequestOK, Requests, Rewrite
<1>2. /\ request[c].pc = "reverse" /\ request[c].todo = <<>>
      /\ Live(txns[t]) /\ Wrote(c, t, r, Effects(r, 1))
      /\ UNCHANGED <<accounts, txns>>
  BY <1>1 DEF Rewrite
<1>3. Sound(r) /\ Live(r)
  BY <1>1, <1>2 DEF IInv, RequestOK
<1>4. PICK e \in Seq(Legs) : e = Effects(r, 1)
  BY <1>3, EffectsType
<1>5. ASSUME NEW a \in Accounts, accounts[a].state # "deleted"
      PROVE  Made(request[c].delta, a) + Due(e, a)
               = Book!Effect(r, a) - Book!Effect(txns[t], a)
  <2>1. Due(e, a) = Book!Effect(r, a) /\ Book!Effect(r, a) \in Int
    BY <1>3, <1>4, EffectsDue, OwesType
  <2>2. Made(request[c].delta, a) + Due(request[c].todo, a)
          = -Book!Effect(old, a)
    BY <1>1, <1>2, <1>5 DEF Owed, OwedTo
  <2>3. /\ Made(request[c].delta, a) \in Int
        /\ Due(request[c].todo, a) = 0 /\ Book!Effect(old, a) \in Int
    BY <1>2, OwesType DEF IInv, TypeOK, Requests
  <2>4. Made(request[c].delta, a) = -Book!Effect(old, a)
    BY <2>2, <2>3
  <2> QED BY <1>1, <2>1, <2>3, <2>4
<1>6. Wrote(c, t, r, e)
  BY <1>2, <1>4
<1> QED BY <1>2, <1>5, <1>6, WroteOwed

\* An adjustment made is one less to make, unless its account is deleted.
LEMMA OwedAdjust ==
  ASSUME IInv, \A d \in Clients : Owed(d), NEW c \in Clients, Adjust(c)
  PROVE  \A d \in Clients : Owed(d)'
<1>1. PICK leg \in Legs : leg = Head(request[c].todo)
  BY AdjustRequest
<1>2. PICK q \in Requests :
        /\ q.pc = request[c].pc /\ q.txn = request[c].txn
        /\ q.row = request[c].row
        /\ q.todo = Tail(request[c].todo)
        /\ q.delta = Adjusted(request[c].delta, leg)
        /\ request' = [request EXCEPT ![c] = q] /\ request'[c] = q
  BY <1>1, AdjustRequest
<1>3. PICK todo \in Seq(Legs), delta \in Deltas :
        todo = request[c].todo /\ delta = request[c].delta
  BY DEF IInv, TypeOK, Requests
<1>4. /\ todo # <<>> /\ Len(todo) <= 2 /\ UNCHANGED <<accounts, txns>>
      /\ accounts[leg.account].state # "absent"
  <2>1. todo # <<>> /\ UNCHANGED <<accounts, txns>> /\ RequestOK(c)
    BY <1>3 DEF Adjust, IInv
  <2>2. 1 \in DOMAIN todo /\ leg = todo[1]
    BY <1>1, <1>3, <2>1
  <2> QED BY <1>3, <2>1, <2>2 DEF RequestOK
<1>5. ASSUME NEW a \in Accounts, accounts[a].state # "deleted"
      PROVE  Made(q.delta, a) + Due(q.todo, a)
               = Made(delta, a) + Due(todo, a)
  <2>1. /\ Due(todo, a) = (IF leg.account = a THEN leg.delta ELSE 0)
                          + Due(q.todo, a)
        /\ Due(q.todo, a) \in Int /\ Made(delta, a) \in Int
        /\ leg.delta \in Int
    BY <1>1, <1>2, <1>3, <1>4, DueStep, OwesType DEF Requests, Legs
  <2>2. CASE ~Live(accounts[leg.account])
    <3>1. leg.account # a
      <4>1. accounts[leg.account].state \in {"absent", "live", "deleted"}
        BY DEF IInv, TypeOK, AccountRows, Legs
      <4> QED BY <1>4, <1>5, <2>2, <4>1 DEF Live, Book!Live
    <3>2. q.delta = delta
      BY <1>2, <1>3, <2>2, AdjustedType
    <3> QED BY <2>1, <3>1, <3>2
  <2>3. CASE Live(accounts[leg.account])
    <3>1. /\ DOMAIN q.delta = DOMAIN delta \cup {leg.account}
          /\ a \in DOMAIN q.delta =>
               q.delta[a] = (IF a \in DOMAIN delta THEN delta[a] ELSE 0)
                            + (IF a = leg.account THEN leg.delta ELSE 0)
      <4>1. q.delta = Adjusted(delta, leg)
        BY <1>2, <1>3
      <4>2. /\ DOMAIN Adjusted(delta, leg) = DOMAIN delta \cup {leg.account}
            /\ \A b \in DOMAIN Adjusted(delta, leg) :
                 Adjusted(delta, leg)[b] =
                   (IF b \in DOMAIN delta THEN delta[b] ELSE 0)
                   + (IF b = leg.account THEN leg.delta ELSE 0)
        BY <2>3, AdjustedType
      <4> QED BY <4>1, <4>2
    <3>2. Made(q.delta, a) =
            Made(delta, a) + (IF leg.account = a THEN leg.delta ELSE 0)
      BY <2>1, <3>1 DEF Made
    <3> QED BY <2>1, <3>2
  <2> QED BY <2>2, <2>3
<1>6. Owed(c)'
  <2> SUFFICES ASSUME NEW a \in Accounts, accounts[a].state # "deleted"
               PROVE  OwedTo(c, a)'
    BY <1>4 DEF Owed
  <2>1. OwedTo(c, a)
    BY DEF Owed
  <2> QED BY <1>2, <1>3, <1>4, <1>5, <2>1 DEF OwedTo
<1> QED BY <1>2, <1>4, <1>6, OwedRequest

\* With one editor, a commit leaves alone the rows the others count on.
LEMMA OwedCommit ==
  ASSUME OneEditor, IInv, \A d \in Clients : Owed(d), NEW c \in Clients,
         Commit(c)
  PROVE  \A d \in Clients : Owed(d)'
<1>1. PICK t \in Txns : t = request[c].txn
  BY DEF IInv, RequestOK, Commit
<1>2. /\ txns'[t] = request[c].row
      /\ \A u \in Txns : u # t => txns'[u] = txns[u]
      /\ \A a \in Accounts : accounts'[a].state = accounts[a].state
  BY <1>1, Committed
<1>3. /\ request[c].pc = "apply" /\ request' = [request EXCEPT ![c] = Idle]
      /\ RequestOK(c)
  BY DEF Commit, IInv
<1>4. ASSUME NEW d \in Clients
      PROVE  \/ request'[d].pc \in {"idle", "restate"}
             \/ /\ request'[d] = request[d]
                /\ request[d].pc = "apply" \/ Live(txns'[request[d].txn]) =>
                     txns'[request[d].txn] = txns[request[d].txn]
  <2>1. CASE d = c
    BY <1>3, <2>1, IdleType DEF IInv, TypeOK
  <2>2. CASE d # c
    <3>1. request'[d] = request[d] /\ RequestOK(d) /\ Apart(c, d)
      BY <1>3, <2>2 DEF IInv, TypeOK
    <3>2. request[d].pc \in {"idle", "reverse", "apply", "restate"}
      BY DEF IInv, TypeOK, Requests
    <3>3. CASE request[d].pc = "apply"
      <4>1. request[d].txn # t /\ request[d].txn \in Txns
        BY <1>1, <1>3, <3>1, <3>3 DEF Apart, RequestOK
      <4> QED BY <1>2, <3>1, <4>1
    <3>4. CASE request[d].pc = "reverse"
      <4>1. /\ request[d].txn \in Txns /\ d \in Editors
            /\ txns[request[d].txn].state # "absent"
        BY <3>1, <3>4 DEF RequestOK
      <4>2. CASE request[d].txn # t
        BY <1>2, <3>1, <4>1, <4>2
      <4>3. CASE request[d].txn = t
        <5>1. ~Live(txns'[t])
          <6> SUFFICES ASSUME Live(txns'[t]) PROVE FALSE
            OBVIOUS
          <6>1. Live(request[c].row) /\ Live(txns[t])
            BY <1>1, <1>2, <1>3, <4>1, <4>3
               DEF RequestOK, Book!Lifecycle, Live, Book!Live
          <6>2. c \in Editors
            BY <1>1, <1>3, <6>1 DEF RequestOK
          <6> QED BY <2>2, <4>1, <6>2 DEF OneEditor
        <5> QED BY <3>1, <3>4, <4>3, <5>1
      <4> QED BY <4>2, <4>3
    <3> QED BY <3>1, <3>2, <3>3, <3>4
  <2> QED BY <2>1, <2>2
<1> QED BY <1>2, <1>4, OwedQuiet

-----------------------------------------------------------------------------
(* Every step is one of the abstract ledger's, or a stutter.               *)

\* Before anything is done, nothing is owed.
LEMMA OwedInit ==
  ASSUME Init
  PROVE  \A c \in Clients : Owed(c)
  BY IdleType DEF Init, Owed, OwedTo

\* Requests owe what they change, as long as there is one editor.
LEMMA OwedNext ==
  ASSUME OneEditor, IInv, \A c \in Clients : Owed(c), [Next]_vars
  PROVE  \A c \in Clients : Owed(c)'
<1>1. ASSUME NEW a \in Accounts, CreateAccount(a) \/ DeleteAccount(a)
      PROVE  \A c \in Clients : Owed(c)'
  <2>1. /\ UNCHANGED <<txns, request>>
        /\ \A b \in Accounts :
             accounts[b].state = "deleted" => accounts'[b].state = "deleted"
    <3>1. CASE CreateAccount(a)
      <4>1. /\ \A b \in Accounts : b # a => accounts'[b] = accounts[b]
            /\ accounts[a].state # "deleted" /\ UNCHANGED <<txns, request>>
        BY <3>1 DEF CreateAccount, IInv, TypeOK
      <4> QED BY <4>1
    <3>2. CASE DeleteAccount(a)
      <4>1. PICK acc \in AccountRows : acc = accounts[a]
        BY DEF IInv, TypeOK
      <4>2. [acc EXCEPT !.state = "deleted"].state = "deleted"
        BY DEF AccountRows
      <4>3. /\ accounts' = [accounts EXCEPT
                              ![a] = [acc EXCEPT !.state = "deleted"]]
            /\ UNCHANGED <<txns, request>>
        BY <3>2, <4>1 DEF DeleteAccount
      <4> QED BY <4>2, <4>3 DEF IInv, TypeOK
    <3> QED BY <1>1, <3>1, <3>2
  <2>2. \A d \in Clients :
          /\ request'[d] = request[d]
          /\ txns'[request[d].txn] = txns[request[d].txn]
    BY <2>1
  <2> QED BY <2>1, <2>2, OwedQuiet
<1>2. ASSUME NEW c \in Clients, NEW a \in Accounts, CountMovements(c, a)
      PROVE  \A d \in Clients : Owed(d)'
  <2>1. PICK v \in Openings :
          /\ request' = [request EXCEPT
                          ![c] = [Idle EXCEPT !.pc = "restate", !.account = a,
                                              !.opening = v]]
          /\ UNCHANGED <<accounts, txns>>
    BY <1>2 DEF CountMovements
  <2>2. /\ request'[c].pc = "restate"
        /\ \A d \in Clients : d # c => request'[d] = request[d]
    BY <2>1 DEF IInv, TypeOK, Idle
  <2>3. \A d \in Clients :
          \/ request'[d].pc \in {"idle", "restate"}
          \/ /\ request'[d] = request[d]
             /\ txns'[request[d].txn] = txns[request[d].txn]
    BY <2>1, <2>2
  <2> QED BY <2>1, <2>3, OwedQuiet
<1>3. ASSUME NEW c \in Clients, UpdateAccount(c) \/ Rollback(c)
      PROVE  \A d \in Clients : Owed(d)'
  <2>1. request' = [request EXCEPT ![c] = Idle] /\ UNCHANGED txns
    BY <1>3 DEF UpdateAccount, Rollback
  <2>2. \A b \in Accounts :
          accounts[b].state = "deleted" => accounts'[b].state = "deleted"
    <3>1. CASE UpdateAccount(c)
      <4>1. PICK a \in Accounts : a = request[c].account
        BY <3>1 DEF IInv, RequestOK, UpdateAccount
      <4>2. \A b \in Accounts : accounts'[b].state = accounts[b].state
        BY <3>1, <4>1, Restated
      <4> QED BY <4>2
    <3>2. CASE Rollback(c)
      BY <3>2 DEF Rollback
    <3> QED BY <1>3, <3>1, <3>2
  <2>3. /\ request'[c].pc = "idle"
        /\ \A d \in Clients : d # c => request'[d] = request[d]
    BY <2>1, IdleType DEF IInv, TypeOK
  <2>4. \A d \in Clients :
          \/ request'[d].pc \in {"idle", "restate"}
          \/ /\ request'[d] = request[d]
             /\ txns'[request[d].txn] = txns[request[d].txn]
    BY <2>1, <2>3
  <2> QED BY <2>2, <2>4, OwedQuiet
<1>4. ASSUME NEW c \in Clients, CreateTransaction(c) \/ MaterialiseRecurring(c)
      PROVE  \A d \in Clients : Owed(d)'
  <2>1. CASE CreateTransaction(c)
    BY <2>1, AccountsSound, OwedNew DEF CreateTransaction
  <2>2. CASE MaterialiseRecurring(c)
    BY <2>2, PayloadSound, OwedNew DEF MaterialiseRecurring
  <2> QED BY <1>4, <2>1, <2>2
<1>5. CASE UNCHANGED vars
  BY <1>5 DEF vars, Owed, OwedTo
<1>6. CASE \E c \in Clients :
             \/ SoftDeleteTransaction(c) \/ ReadOld(c) \/ Rewrite(c)
             \/ Adjust(c) \/ Commit(c)
  BY <1>6, OwedSoftDelete, OwedReadOld, OwedRewrite, OwedAdjust, OwedCommit
<1> QED BY <1>1, <1>2, <1>3, <1>4, <1>5, <1>6 DEF Next

\* A commit records its row, and moves every live balance by what it owed.
LEMMA CommitRecords ==
  ASSUME IInv, \A d \in Clients : Owed(d), NEW c \in Clients, Commit(c)
  PROVE  \E t \in Txns : Book!Record(t)
<1>1. PICK t \in Txns, r \in TxnRows, old \in TxnRows, delta \in Deltas :
        /\ t = request[c].txn /\ r = request[c].row /\ old = txns[t]
        /\ delta = request[c].delta
  BY DEF IInv, TypeOK, RequestOK, Requests, Commit
<1>2. /\ request[c].pc = "apply" /\ request[c].todo = <<>>
      /\ RequestOK(c)
  BY DEF Commit, IInv
<1>3. /\ txns'[t] = r
      /\ \A u \in Txns : u # t => txns'[u] = txns[u]
      /\ \A a \in Accounts :
           accounts'[a] = IF a \in DOMAIN delta
                          THEN [accounts[a] EXCEPT !.balance = @ + delta[a]]
                          ELSE accounts[a]
  BY <1>1, Committed
<1>4. <<txns[t].state, txns'[t].state>> \in Book!Lifecycle
  BY <1>1, <1>2, <1>3 DEF RequestOK
<1>5. ASSUME NEW a \in Accounts
      PROVE  accounts'[a] =
               IF Live(accounts[a])
               THEN [accounts[a] EXCEPT
                       !.balance = @ + Book!Effect(txns'[t], a)
                                     - Book!Effect(txns[t], a)]
               ELSE accounts[a]
  <2>1. PICK acc \in AccountRows, x \in Int, y \in Int :
          /\ acc = accounts[a]
          /\ x = Book!Effect(r, a) /\ y = Book!Effect(old, a)
    BY <1>1, OwesType DEF IInv, TypeOK
  <2>2. acc.balance \in Int
    BY DEF AccountRows
  <2>3. a \in DOMAIN delta => Live(acc)
    BY <1>1, <1>2, <2>1 DEF RequestOK
  <2>4. CASE ~Live(acc)
    BY <1>3, <2>1, <2>3, <2>4
  <2>5. CASE Live(acc)
    <3>1. Made(delta, a) + Due(<<>>, a) = x - y
      BY <1>1, <1>2, <2>1, <2>5 DEF Owed, OwedTo, Live, Book!Live
    <3>2. Made(delta, a) = x - y
      BY <3>1, OwesType
    <3>3. CASE a \in DOMAIN delta
      <4>1. accounts'[a] = [acc EXCEPT !.balance = acc.balance + delta[a]]
        BY <1>3, <2>1, <3>3
      <4>2. delta[a] = x - y
        BY <3>2, <3>3 DEF Made
      <4>3. acc.balance + delta[a] = acc.balance + x - y
        BY <2>2, <4>2
      <4>4. accounts'[a] = [acc EXCEPT !.balance = acc.balance + x - y]
        BY <4>1, <4>3
      <4> QED BY <1>1, <1>3, <2>1, <2>5, <4>4
    <3>4. CASE a \notin DOMAIN delta
      <4>1. accounts'[a] = acc
        BY <1>3, <2>1, <3>4
      <4>2. acc.balance + x - y = acc.balance
        BY <2>2, <3>2, <3>4 DEF Made
      <4>3. acc = [acc EXCEPT !.balance = acc.balance + x - y]
        BY <4>2 DEF AccountRows
      <4> QED BY <1>1, <1>3, <2>1, <2>5, <4>1, <4>3
    <3> QED BY <3>3, <3>4
  <2> QED BY <2>4, <2>5
<1> QED BY <1>3, <1>4, <1>5 DEF Book!Record, Live

\* What happens to an account happens to it alone, transactions aside.
LEMMA AccountChanges ==
  ASSUME IInv, NEW a \in Accounts, UNCHANGED txns,
         \A b \in Accounts : b # a => accounts'[b] = accounts[b],
         Book!Open(a) \/ Book!Restate(a) \/ Book!Delete(a)
  PROVE  Book!Next
  BY DEF Book!Next, Book!AccountChange

\* A step of the ledger is a step of the abstract one.
LEMMA NextBook ==
  ASSUME IInv, \A c \in Clients : Owed(c), [Next]_vars
  PROVE  [Book!Next]_<<accounts, txns>>
<1>1. ASSUME NEW a \in Accounts, CreateAccount(a)
      PROVE  Book!Next
  <2>1. PICK v \in Openings :
          /\ accounts[a].state = "absent"
          /\ accounts' = [accounts EXCEPT
               ![a] = [state |-> "live", initial |-> v, balance |-> v]]
          /\ UNCHANGED <<txns, request>>
    BY <1>1 DEF CreateAccount
  <2>2. /\ accounts'[a] = [state |-> "live", initial |-> v, balance |-> v]
        /\ \A b \in Accounts : b # a => accounts'[b] = accounts[b]
    BY <2>1 DEF IInv, TypeOK
  <2>3. Book!Open(a)
    BY <2>1, <2>2 DEF Book!Open, Book!Live
  <2> QED BY <2>1, <2>2, <2>3, AccountChanges
<1>2. ASSUME NEW a \in Accounts, DeleteAccount(a)
      PROVE  Book!Next
  <2>1. PICK acc \in AccountRows : acc = accounts[a]
    BY DEF IInv, TypeOK
  <2>2. [acc EXCEPT !.state = "deleted"].state = "deleted"
    BY DEF AccountRows
  <2>3. /\ accounts' = [accounts EXCEPT ![a] = [acc EXCEPT !.state = "deleted"]]
        /\ UNCHANGED <<txns, request>> /\ Live(accounts[a])
    BY <1>2, <2>1 DEF DeleteAccount
  <2>4. /\ accounts'[a].state = "deleted"
        /\ \A b \in Accounts : b # a => accounts'[b] = accounts[b]
    BY <2>2, <2>3 DEF IInv, TypeOK
  <2>5. Book!Delete(a)
    BY <2>3, <2>4 DEF Book!Delete, Live
  <2> QED BY <2>3, <2>4, <2>5, AccountChanges
<1>3. ASSUME NEW c \in Clients, UpdateAccount(c)
      PROVE  Book!Next \/ UNCHANGED <<accounts, txns>>
  <2>1. PICK a \in Accounts : a = request[c].account
    BY <1>3 DEF IInv, RequestOK, UpdateAccount
  <2>2. /\ \A b \in Accounts : b # a => accounts'[b] = accounts[b]
        /\ accounts'[a].state = accounts[a].state
        /\ ~Live(accounts[a]) => accounts'[a] = accounts[a]
        /\ accounts'[a].balance - accounts'[a].initial
             = accounts[a].balance - accounts[a].initial
        /\ accounts' \in [Accounts -> AccountRows]
    BY <1>3, <2>1, Restated
  <2>3. UNCHANGED txns
    BY <1>3 DEF UpdateAccount
  <2>4. CASE Live(accounts[a])
    <3>1. Book!Restate(a)
      BY <2>2, <2>4 DEF Book!Restate, Live, Book!Live
    <3> QED BY <2>2, <2>3, <3>1, AccountChanges
  <2>5. CASE ~Live(accounts[a])
    <3>1. UNCHANGED accounts
      BY <2>2, <2>5 DEF IInv, TypeOK
    <3> QED BY <2>3, <3>1
  <2> QED BY <2>4, <2>5
<1>4. ASSUME NEW c \in Clients, Commit(c)
      PROVE  Book!Next
  BY <1>4, CommitRecords DEF Book!Next
<1>5. ASSUME NEW c \in Clients,
             \/ \E a \in Accounts : CountMovements(c, a)
             \/ CreateTransaction(c) \/ MaterialiseRecurring(c)
             \/ SoftDeleteTransaction(c) \/ ReadOld(c) \/ Rewrite(c)
             \/ Adjust(c) \/ Rollback(c)
      PROVE  UNCHANGED <<accounts, txns>>
  BY <1>5 DEF CountMovements, CreateTransaction, MaterialiseRecurring,
     SoftDeleteTransaction, ReadOld, Rewrite, Adjust, Rollback
<1>6. CASE UNCHANGED vars
  BY <1>6 DEF vars
<1> QED BY <1>1, <1>2, <1>3, <1>4, <1>5, <1>6 DEF Next

(***************************************************************************)
(* With one editor at a time, every change of a transaction that is        *)
(* committed moves the balances it touches at once and by exactly the      *)
(* difference it makes (store_transactions.go, applyBalanceEffect).        *)
(***************************************************************************)
THEOREM LedgerImplementsAtomicLedger ==
  ASSUME OneEditor
  PROVE  Spec => ImplementsAtomicLedger
<1> DEFINE Inv == IInv /\ \A c \in Clients : Owed(c)
<1>1. Init => Inv /\ Book!Init
  <2>1. Init => Book!Init
    BY DEF Init, Book!Init, NoTxn
  <2> QED BY <2>1, InitInvariant, OwedInit
<1>2. Inv /\ [Next]_vars => Inv'
  BY StepInvariant, OwedNext
<1>3. Inv /\ [Next]_vars => [Book!Next]_<<accounts, txns>>
  BY NextBook
<1> HIDE DEF Inv
<1> QED BY <1>1, <1>2, <1>3, PTL
        DEF Spec, ImplementsAtomicLedger, Book!Spec
-----------------------------------------------------------------------------
(* What a sum over a finite set does when one of its terms changes.        *)

Pick(s) == CHOOSE x \in s : TRUE

\* it[s] is the sum of f over s, for each part s of S.
Partial(f, S, it) ==
  it = [s \in SUBSET S |-> IF s = {} THEN 0 ELSE f[Pick(s)] + it[s \ {Pick(s)}]]

\* Among parts of a finite set, one has none of the others one element below it.
LEMMA LeastPart ==
  ASSUME NEW S, IsFiniteSet(S), NEW B \in SUBSET SUBSET S, B # {}
  PROVE  \E s \in B : \A x \in s : s \ {x} \notin B
<1> DEFINE N == {Cardinality(s) : s \in B}
<1>1. \A s \in B : IsFiniteSet(s) /\ Cardinality(s) \in Nat
  BY FS_Subset, FS_CardinalityType
<1>2. N \subseteq Nat /\ N # {}
  BY <1>1
<1>3. PICK n \in N : \A m \in N : ~(<<m, n>> \in OpToRel(<, Nat))
  <2> HIDE DEF N
  <2> QED BY <1>2, NatLessThanWellFounded, WFMin
<1>4. PICK s \in B : Cardinality(s) = n
  OBVIOUS
<1>5. ASSUME NEW x \in s, s \ {x} \in B
      PROVE  FALSE
  <2>1. Cardinality(s \ {x}) = n - 1 /\ n \in Nat /\ Cardinality(s \ {x}) \in Nat
    BY <1>1, <1>4, <1>5, FS_RemoveElement
  <2>2. <<n - 1, n>> \in OpToRel(<, Nat)
    BY <2>1 DEF OpToRel
  <2>3. n - 1 \in N
    BY <1>5, <2>1
  <2> QED BY <1>3, <2>2, <2>3
<1> QED BY <1>5

\* The element taken from a set that is not empty is one of its own.
LEMMA PickIn ==
  ASSUME NEW s, s # {}
  PROVE  Pick(s) \in s
  BY DEF Pick

\* Partial sums read equation by equation.
LEMMA PartialStep ==
  ASSUME NEW f, NEW S, NEW it, Partial(f, S, it)
  PROVE  /\ it[{}] = 0
         /\ \A s \in SUBSET S :
              s # {} => it[s] = f[Pick(s)] + it[s \ {Pick(s)}]
<1>1. {} \in SUBSET S
  OBVIOUS
<1> QED BY <1>1, Zenon DEF Partial

\* The partial sums of a finite set exist.
LEMMA PartialExists ==
  ASSUME NEW f, NEW S, IsFiniteSet(S)
  PROVE  \E it : Partial(f, S, it)
<1> DEFINE Small(n) == {s \in SUBSET S : Cardinality(s) <= n}
           UpTo(n, it) ==
             it = [s \in Small(n) |->
                     IF s = {} THEN 0 ELSE f[Pick(s)] + it[s \ {Pick(s)}]]
           Bad == {n \in Nat : ~\E it : UpTo(n, it)}
<1>1. \A s \in SUBSET S : IsFiniteSet(s) /\ Cardinality(s) \in Nat
  BY FS_Subset, FS_CardinalityType
<1>2. \A s \in SUBSET S : \A x \in s :
        /\ s \ {x} \in SUBSET S
        /\ Cardinality(s \ {x}) = Cardinality(s) - 1
  BY <1>1, FS_RemoveElement
<1>3. ASSUME Bad # {} PROVE FALSE
  <2>1. PICK n \in Bad : \A m \in Bad : ~(<<m, n>> \in OpToRel(<, Nat))
    <3>1. Bad \subseteq Nat
      OBVIOUS
    <3> HIDE DEF Bad
    <3> QED BY <1>3, <3>1, NatLessThanWellFounded, WFMin
  <2>2. n # 0
    <3> SUFFICES ASSUME n = 0 PROVE FALSE
      OBVIOUS
    <3>1. Small(0) = {{}}
      BY <1>1, FS_EmptySet
    <3>2. UpTo(0, [s \in {{}} |-> 0])
      BY <3>1
    <3> QED BY <3>2
  <2>3. n \in Nat /\ n - 1 \in Nat
    BY <2>2
  <2>4. <<n - 1, n>> \in OpToRel(<, Nat)
    BY <2>3 DEF OpToRel
  <2>5. n - 1 \notin Bad
    <3> HIDE DEF Bad
    <3> QED BY <2>1, <2>4
  <2>6. PICK it : UpTo(n - 1, it)
    BY <2>3, <2>5
  <2> DEFINE new == [s \in Small(n) |->
                       IF s \in Small(n - 1) THEN it[s]
                       ELSE f[Pick(s)] + it[s \ {Pick(s)}]]
  <2>7. \A s \in Small(n) : s # {} => s \ {Pick(s)} \in Small(n - 1)
    BY <1>1, <1>2, <2>3, PickIn
  <2>8. \A s \in Small(n - 1) : new[s] = it[s]
    BY <1>1, <2>3
  <2>9. {} \in Small(n - 1)
    BY <2>3, FS_EmptySet
  <2>10. ASSUME NEW s \in Small(n)
         PROVE  new[s] = IF s = {} THEN 0
                         ELSE f[Pick(s)] + new[s \ {Pick(s)}]
    <3>1. CASE s \in Small(n - 1)
      <4>1. new[s] = it[s]
        BY <2>8, <3>1
      <4>2. it[s] = IF s = {} THEN 0 ELSE f[Pick(s)] + it[s \ {Pick(s)}]
        BY <2>6, <3>1, Zenon
      <4>3. s # {} => new[s \ {Pick(s)}] = it[s \ {Pick(s)}]
        BY <2>7, <2>8
      <4> HIDE DEF new, Small
      <4> QED BY <4>1, <4>2, <4>3, Zenon
    <3>2. CASE s \notin Small(n - 1)
      <4>1. new[s] = f[Pick(s)] + it[s \ {Pick(s)}]
        BY <3>2
      <4>2. s # {}
        BY <2>9, <3>2
      <4>3. new[s \ {Pick(s)}] = it[s \ {Pick(s)}]
        BY <2>7, <2>8, <4>2
      <4> HIDE DEF new, Small
      <4> QED BY <4>1, <4>2, <4>3, Zenon
    <3> QED BY <3>1, <3>2
  <2>11. UpTo(n, new)
    <3>1. new = [s \in Small(n) |-> new[s]]
      OBVIOUS
    <3> HIDE DEF new, Small
    <3> QED BY <2>10, <3>1, Zenon
  <2> HIDE DEF new
  <2>12. n \notin Bad
    BY <2>11
  <2> QED BY <2>12
<1>4. PICK it : UpTo(Cardinality(S), it)
  BY <1>1, <1>3
<1>5. Small(Cardinality(S)) = SUBSET S
  BY FS_Subset, FS_CardinalityType
<1> QED BY <1>4, <1>5, Zenon DEF Partial

\* A sum over a finite set is one of the partial sums.
LEMMA SumIsPartial ==
  ASSUME NEW f, NEW S, IsFiniteSet(S)
  PROVE  \E it : Partial(f, S, it) /\ SumFunctionOnSet(f, S) = it[S]
<1>1. SumFunctionOnSet(f, S) = (CHOOSE it : Partial(f, S, it))[S]
  BY Zenon
     DEF SumFunctionOnSet, FoldFunctionOnSet, MapThenFoldSet, Partial, Pick
<1>2. Partial(f, S, CHOOSE it : Partial(f, S, it))
  BY PartialExists, Zenon
<1> QED BY <1>1, <1>2, Zenon

(***************************************************************************)
(* A sum of integers is an integer; of naturals it is not negative, and of *)
(* zeros it is zero.                                                       *)
(***************************************************************************)
LEMMA SumType ==
  ASSUME NEW S, IsFiniteSet(S), NEW f, \A x \in S : f[x] \in Int
  PROVE  /\ SumFunctionOnSet(f, S) \in Int
         /\ (\A x \in S : f[x] >= 0) => SumFunctionOnSet(f, S) >= 0
         /\ (\A x \in S : f[x] = 0) => SumFunctionOnSet(f, S) = 0
<1>1. PICK it : Partial(f, S, it) /\ SumFunctionOnSet(f, S) = it[S]
  BY SumIsPartial
<1> DEFINE Good(s) == /\ it[s] \in Int
                      /\ (\A x \in S : f[x] >= 0) => it[s] >= 0
                      /\ (\A x \in S : f[x] = 0) => it[s] = 0
           Bad == {s \in SUBSET S : ~Good(s)}
<1>2. ASSUME Bad # {} PROVE FALSE
  <2>1. PICK s \in Bad : \A x \in s : s \ {x} \notin Bad
    <3>1. Bad \in SUBSET SUBSET S
      OBVIOUS
    <3> HIDE DEF Bad
    <3> QED BY <1>2, <3>1, LeastPart
  <2>2. CASE s = {}
    <3>1. it[s] = 0
      BY <1>1, <2>2, PartialStep
    <3> QED BY <2>1, <3>1
  <2>3. CASE s # {}
    <3>1. PICK x \in s : x = Pick(s)
      BY <2>3, PickIn
    <3>2. it[s] = f[x] + it[s \ {x}]
      BY <1>1, <2>1, <2>3, <3>1, PartialStep
    <3>3. Good(s \ {x}) /\ f[x] \in Int /\ x \in S
      BY <2>1
    <3> QED BY <2>1, <3>2, <3>3
  <2> QED BY <2>2, <2>3
<1>3. Good(S)
  BY <1>2
<1> QED BY <1>1, <1>3

(***************************************************************************)
(* Two functions that differ at x alone have sums that differ by what they *)
(* differ there, if it is one of the elements added up.                    *)
(***************************************************************************)
LEMMA SumChange ==
  ASSUME NEW S, IsFiniteSet(S), NEW f, NEW g, NEW x,
         \A y \in S : f[y] \in Int /\ g[y] \in Int,
         \A y \in S \ {x} : g[y] = f[y]
  PROVE  SumFunctionOnSet(g, S) =
           SumFunctionOnSet(f, S) + (IF x \in S THEN g[x] - f[x] ELSE 0)
<1>1. PICK i : Partial(f, S, i) /\ SumFunctionOnSet(f, S) = i[S]
  BY SumIsPartial
<1>2. PICK j : Partial(g, S, j) /\ SumFunctionOnSet(g, S) = j[S]
  BY SumIsPartial
<1> DEFINE Good(s) == /\ i[s] \in Int /\ j[s] \in Int
                      /\ j[s] = i[s] + (IF x \in s THEN g[x] - f[x] ELSE 0)
           Bad == {s \in SUBSET S : ~Good(s)}
<1>3. ASSUME Bad # {} PROVE FALSE
  <2>1. PICK s \in Bad : \A y \in s : s \ {y} \notin Bad
    <3>1. Bad \in SUBSET SUBSET S
      OBVIOUS
    <3> HIDE DEF Bad
    <3> QED BY <1>3, <3>1, LeastPart
  <2>2. CASE s = {}
    <3>1. i[{}] = 0
      BY <1>1, PartialStep
    <3>2. j[{}] = 0
      BY <1>2, PartialStep
    <3> QED BY <2>1, <2>2, <3>1, <3>2
  <2>3. CASE s # {}
    <3>1. PICK y \in s : y = Pick(s)
      BY <2>3, PickIn
    <3>2. /\ i[s] = f[y] + i[s \ {y}]
          /\ j[s] = g[y] + j[s \ {y}]
      <4>1. i[s] = f[y] + i[s \ {y}]
        BY <1>1, <2>1, <2>3, <3>1, PartialStep
      <4>2. j[s] = g[y] + j[s \ {y}]
        BY <1>2, <2>1, <2>3, <3>1, PartialStep
      <4> QED BY <4>1, <4>2
    <3>3. Good(s \ {y}) /\ y \in S /\ f[y] \in Int /\ g[y] \in Int
      BY <2>1
    <3>4. CASE y = x
      BY <2>1, <3>2, <3>3, <3>4
    <3>5. CASE y # x
      <4>1. g[y] = f[y]
        BY <3>3, <3>5
      <4>2. x \in s => f[x] \in Int /\ g[x] \in Int
        BY <2>1
      <4> QED BY <2>1, <3>2, <3>3, <3>5, <4>1, <4>2
    <3> QED BY <3>4, <3>5
  <2> QED BY <2>2, <2>3
<1>4. Good(S)
  BY <1>3
<1> QED BY <1>1, <1>2, <1>4

-----------------------------------------------------------------------------
(* Balances.                                                               *)

\* What the transactions add up to for account a.
Moved(a) == SumFunctionOnSet([t \in Txns |-> Book!Effect(txns[t], a)], Txns)

\* Rows have integer effects, none on an account that does not exist.
LEMMA MovedType ==
  ASSUME IInv, NEW a \in Accounts
  PROVE  /\ \A t \in Txns : Book!Effect(txns[t], a) \in Int
         /\ Moved(a) \in Int
         /\ accounts[a].state = "absent" => Moved(a) = 0
<1> DEFINE f == [t \in Txns |-> Book!Effect(txns[t], a)]
<1>1. \A t \in Txns : f[t] \in Int
  BY OwesType DEF IInv, TypeOK
<1>2. accounts[a].state = "absent" => \A t \in Txns : f[t] = 0
  BY LedgerAssumption DEF IInv, Sound, Live, Book!Live, Book!Effect
<1>3. Moved(a) = SumFunctionOnSet(f, Txns)
  BY DEF Moved
<1>4. \A t \in Txns : f[t] = Book!Effect(txns[t], a)
  OBVIOUS
<1> HIDE DEF f
<1> QED BY <1>1, <1>2, <1>3, <1>4, SumType, LedgerAssumption

\* A change of one transaction moves the sum by the difference it makes.
LEMMA MovedRecord ==
  ASSUME IInv, IInv', NEW t \in Txns, NEW a \in Accounts,
         \A u \in Txns \ {t} : txns'[u] = txns[u]
  PROVE  Moved(a)' =
           Moved(a) + Book!Effect(txns'[t], a) - Book!Effect(txns[t], a)
<1> DEFINE f == [u \in Txns |-> Book!Effect(txns[u], a)]
           h == [u \in Txns |-> Book!Effect(txns'[u], a)]
<1>1. \A u \in Txns : f[u] \in Int /\ h[u] \in Int
  BY OwesType DEF IInv, TypeOK
<1>2. \A u \in Txns \ {t} : h[u] = f[u]
  OBVIOUS
<1>3. f[t] = Book!Effect(txns[t], a) /\ h[t] = Book!Effect(txns'[t], a)
  OBVIOUS
<1>4. Moved(a) = SumFunctionOnSet(f, Txns)
  BY DEF Moved
<1>5. Moved(a)' = SumFunctionOnSet(h, Txns)
  BY DEF Moved, Book!Effect, Book!Live
<1> HIDE DEF f, h
<1>6. SumFunctionOnSet(h, Txns) =
        SumFunctionOnSet(f, Txns) + (IF t \in Txns THEN h[t] - f[t] ELSE 0)
  BY <1>1, <1>2, SumChange, LedgerAssumption
<1>7. SumFunctionOnSet(f, Txns) \in Int
  BY <1>1, SumType, LedgerAssumption
<1> QED BY <1>1, <1>3, <1>4, <1>5, <1>6, <1>7

\* A step of the abstract ledger keeps the balances of accounts right.
LEMMA BalancedStep ==
  ASSUME IInv, IInv', Balanced, [Book!Next]_<<accounts, txns>>
  PROVE  Balanced'
<1> SUFFICES ASSUME NEW a \in Accounts, Live(accounts'[a])
             PROVE  accounts'[a].balance = accounts'[a].initial + Moved(a)'
  BY DEF Balanced, Moved, Live, Book!Live, Book!Effect
<1>1. /\ Live(accounts[a]) =>
           accounts[a].balance = accounts[a].initial + Moved(a)
      /\ Moved(a) \in Int
  BY MovedType DEF Balanced, Moved
<1>2. PICK old \in AccountRows, new \in AccountRows :
        old = accounts[a] /\ new = accounts'[a]
  BY DEF IInv, TypeOK
<1>3. /\ old.balance \in Int /\ old.initial \in Int
      /\ new.balance \in Int /\ new.initial \in Int
  BY DEF AccountRows
<1>4. UNCHANGED txns => Moved(a)' = Moved(a)
  BY DEF Moved
<1>5. ASSUME NEW t \in Txns, Book!Record(t)
      PROVE  new.balance = new.initial + Moved(a)'
  <2>1. PICK x \in Int, y \in Int :
          x = Book!Effect(txns'[t], a) /\ y = Book!Effect(txns[t], a)
    BY OwesType DEF IInv, TypeOK
  <2>2. Moved(a)' = Moved(a) + x - y
    BY <1>5, <2>1, MovedRecord DEF Book!Record
  <2>3. new = IF Live(old)
              THEN [old EXCEPT !.balance = old.balance + x - y] ELSE old
    BY <1>2, <1>5, <2>1 DEF Book!Record, Live
  <2>4. Live(old)
    BY <1>2, <2>3 DEF Live, Book!Live
  <2>5. new.balance = old.balance + x - y /\ new.initial = old.initial
    BY <2>3, <2>4 DEF AccountRows
  <2> QED BY <1>1, <1>2, <1>3, <2>2, <2>4, <2>5
<1>6. ASSUME NEW b \in Accounts, Book!AccountChange(b)
      PROVE  new.balance = new.initial + Moved(a)'
  <2>1. UNCHANGED txns
    BY <1>6 DEF Book!AccountChange
  <2>2. CASE b # a
    <3>1. new = old
      BY <1>2, <1>6, <2>2 DEF Book!AccountChange
    <3> QED BY <1>1, <1>2, <1>4, <2>1, <3>1
  <2>3. CASE b = a
    <3>1. CASE Book!Open(a)
      <4>1. Moved(a) = 0 /\ new.balance = new.initial
        BY <1>2, <3>1, MovedType DEF Book!Open
      <4> QED BY <1>3, <1>4, <2>1, <4>1
    <3>2. CASE Book!Restate(a)
      <4>1. /\ Live(old)
            /\ new.balance - new.initial = old.balance - old.initial
        BY <1>2, <3>2 DEF Book!Restate, Live
      <4> QED BY <1>1, <1>2, <1>3, <1>4, <2>1, <4>1
    <3>3. ~Book!Delete(a)
      BY DEF Book!Delete, Live, Book!Live
    <3> QED BY <1>6, <2>3, <3>1, <3>2, <3>3 DEF Book!AccountChange
  <2> QED BY <2>2, <2>3
<1>7. CASE UNCHANGED <<accounts, txns>>
  BY <1>1, <1>2, <1>4, <1>7
<1> QED BY <1>2, <1>5, <1>6, <1>7 DEF Book!Next

(***************************************************************************)
(* With one editor at a time, the balance of a live account is its opening *)
(* balance plus its live movements, "the invariant current_balance =       *)
(* initial_balance + movements" (accounts.sql:29-30).                      *)
(***************************************************************************)
THEOREM BalancedCorrect ==
  ASSUME OneEditor
  PROVE  Spec => []Balanced
<1> DEFINE Inv == /\ IInv /\ \A c \in Clients : Owed(c)
                  /\ Balanced
<1>1. Init => Inv
  <2>1. Init => Balanced
    BY DEF Init, Balanced, Live, Book!Live
  <2> QED BY <2>1, InitInvariant, OwedInit
<1>2. Inv /\ [Next]_vars => Inv'
  BY StepInvariant, OwedNext, NextBook, BalancedStep
<1>3. Inv => Balanced
  OBVIOUS
<1> HIDE DEF Inv
<1> QED BY <1>1, <1>2, <1>3, PTL DEF Spec
=============================================================================
