---------------------------- MODULE AtomicLedger ----------------------------
(***************************************************************************)
(* What the accounts and transactions of a user promise each other: every  *)
(* change of a transaction moves the balances of the accounts it touches   *)
(* in the same step, by exactly the difference it makes.                   *)
(***************************************************************************)
EXTENDS Integers

CONSTANTS Accounts, Txns

VARIABLES
  accounts,  \* [state, initial, balance] of each account
  txns       \* [state, type, account, other, amount] of each transaction

Live(x) == x.state = "live"

(***************************************************************************)
(* What transaction r contributes to the balance of account a: incomes are *)
(* added, expenses taken away, and a transfer moves its amount from its    *)
(* account to the other one.  A row that is not live contributes nothing.  *)
(***************************************************************************)
Effect(r, a) ==
  IF ~Live(r) THEN 0
  ELSE IF r.account = a
       THEN IF r.type = "income" THEN r.amount ELSE -r.amount
       ELSE IF r.type = "transfer" /\ r.other = a THEN r.amount ELSE 0

\* Rows come to be, are edited and go; they never come back.
Lifecycle == {<<"absent", "live">>, <<"live", "live">>, <<"live", "deleted">>}

Record(t) ==
  /\ <<txns[t].state, txns'[t].state>> \in Lifecycle
  /\ \A u \in Txns \ {t} : txns'[u] = txns[u]
  /\ \A a \in Accounts :
       accounts'[a] =
         IF Live(accounts[a])
         THEN [accounts[a] EXCEPT
                 !.balance = @ + Effect(txns'[t], a) - Effect(txns[t], a)]
         ELSE accounts[a]

(***************************************************************************)
(* Accounts are opened, restated (the opening balance and the balance move *)
(* together) and deleted, one at a time.                                   *)
(***************************************************************************)
Open(a) ==
  /\ accounts[a].state = "absent" /\ Live(accounts'[a])
  /\ accounts'[a].balance = accounts'[a].initial

Restate(a) ==
  /\ Live(accounts[a]) /\ Live(accounts'[a])
  /\ accounts'[a].balance - accounts'[a].initial
       = accounts[a].balance - accounts[a].initial

Delete(a) == Live(accounts[a]) /\ accounts'[a].state = "deleted"

AccountChange(a) ==
  /\ Open(a) \/ Restate(a) \/ Delete(a)
  /\ \A b \in Accounts \ {a} : accounts'[b] = accounts[b]
  /\ UNCHANGED txns

Init ==
  /\ \A a \in Accounts : accounts[a].state = "absent"
  /\ \A t \in Txns : txns[t].state = "absent"

Next ==
  \/ \E t \in Txns : Record(t)
  \/ \E a \in Accounts : AccountChange(a)

Spec == Init /\ [][Next]_<<accounts, txns>>
=============================================================================
