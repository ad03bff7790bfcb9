------------------------------- MODULE Ledger -------------------------------
(***************************************************************************)
(* The accounts of one user and the transactions that move their balances, *)
(* at the grain of SQL statements under PostgreSQL's READ COMMITTED.  A    *)
(* balance is kept in its account's row, never recomputed: it is right     *)
(* only if each write of a transaction applies exactly what it changes.    *)
(*                                                                         *)
(* The variables are the committed tables; what a database transaction has *)
(* not committed is in the request that runs it.  Periods and dates, which *)
(* also decide whether a write is accepted, are module TrackingPeriods'.   *)
(***************************************************************************)
EXTENDS Integers, Sequences, FiniteSetsExt

CONSTANTS
  Clients,   \* requests that may be in flight at the same time
  Editors,   \* those of them that may edit transactions
  Accounts,  \* account ids
  Txns,      \* transaction ids
  SentTypes, \* transaction types a client may send
  Amounts,   \* amounts a client may send
  Openings,  \* opening balances a client may send
  None       \* no account, no transaction

Types == {"income", "expense", "transfer"}

ASSUME LedgerAssumption ==
  /\ SentTypes \subseteq Types
  /\ Editors \subseteq Clients
  /\ Amounts \subseteq Nat \ {0}
  /\ Openings \subseteq Int
  /\ IsFiniteSet(Txns)
  /\ None \notin Accounts \cup Txns

VARIABLES
  accounts,  \* accounts
  txns,      \* transactions
  request    \* what each request in flight is doing

vars == <<accounts, txns, request>>

Book == INSTANCE AtomicLedger

Live(x) == Book!Live(x)

AccountRows ==
  [state : {"absent", "live", "deleted"}, initial : Int, balance : Int]

\* The rows a client may send: a transfer names another account, and only it.
Payloads ==
  {r \in [state : {"live"}, type : SentTypes, account : Accounts,
          other : Accounts \cup {None}, amount : Amounts] :
     IF r.type = "transfer" THEN r.other \in Accounts \ {r.account}
                            ELSE r.other = None}

TxnRows ==
  [state : {"absent", "live", "deleted"}, type : Types,
   account : Accounts \cup {None}, other : Accounts \cup {None}, amount : Nat]

NoTxn ==
  [state |-> "absent", type |-> "income", account |-> None, other |-> None,
   amount |-> 0]

(***************************************************************************)
(* A request: pc "reverse" while an edit takes back the old effect,        *)
(* "apply" once it has written its row (the row is locked until COMMIT),   *)
(* "restate" between the count and the write of AccountService.Update.     *)
(* todo holds the balance adjustments still to be made, delta those made   *)
(* and not yet committed: its domain is the account rows it has locked.    *)
(***************************************************************************)
Idle ==
  [pc |-> "idle", txn |-> None, row |-> NoTxn, todo |-> <<>>,
   delta |-> <<>>, account |-> None, opening |-> 0]

RowLocked(t) == \E c \in Clients : request[c].pc = "apply" /\ request[c].txn = t

AccountLocked(a) == \E c \in Clients : a \in DOMAIN request[c].delta

\* The adjustments of applyBalanceEffect, in the order it makes them.
Effects(r, sign) ==
  LET leg(a, d) == [account |-> a, delta |-> sign * d]
  IN  CASE r.type = "income"   -> <<leg(r.account, r.amount)>>
        [] r.type = "expense"  -> <<leg(r.account, -r.amount)>>
        [] r.type = "transfer" -> <<leg(r.account, -r.amount),
                                    leg(r.other, r.amount)>>

Touches(r, a) == Live(r) /\ (r.account = a \/ r.other = a)

\* Mutant of Movements: counts by account_id only, not the transfers received.
MovementsOut(a) == {t \in Txns : Live(txns[t]) /\ txns[t].account = a}

Movements(a) == {t \in Txns : Touches(txns[t], a)}

-----------------------------------------------------------------------------
Init ==
  /\ accounts = [a \in Accounts |->
                   [state |-> "absent", initial |-> 0, balance |-> 0]]
  /\ txns = [t \in Txns |-> NoTxn]
  /\ request = [c \in Clients |-> Idle]

CreateAccount(a) ==
  \E v \in Openings :
    /\ accounts[a].state = "absent"
    /\ accounts' = [accounts EXCEPT
                      ![a] = [state |-> "live", initial |-> v, balance |-> v]]
    /\ UNCHANGED <<txns, request>>

DeleteAccount(a) ==
  /\ Live(accounts[a]) /\ ~AccountLocked(a)
  /\ accounts' = [accounts EXCEPT ![a].state = "deleted"]
  /\ UNCHANGED <<txns, request>>

(***************************************************************************)
(* AccountService.Update with an opening balance: it is refused when the   *)
(* account has movements, counted in a statement before the write.         *)
(***************************************************************************)
CountMovements(c, a) ==
  \E v \in Openings :
    /\ request[c].pc = "idle"
    /\ Movements(a) = {}
    /\ request' = [request EXCEPT
                     ![c] = [Idle EXCEPT !.pc = "restate", !.account = a,
                                         !.opening = v]]
    /\ UNCHANGED <<accounts, txns>>

\* Mutant of UpdateAccount: the balance is set instead of shifted.
UpdateAccountAbsolute(c) ==
  LET q == request[c] IN
  /\ q.pc = "restate" /\ ~AccountLocked(q.account)
  /\ accounts' =
       IF Live(accounts[q.account])
       THEN [accounts EXCEPT ![q.account].initial = q.opening,
                             ![q.account].balance = q.opening]
       ELSE accounts
  /\ request' = [request EXCEPT ![c] = Idle]
  /\ UNCHANGED txns

UpdateAccount(c) ==
  LET q == request[c]  acc == accounts[q.account] IN
  /\ q.pc = "restate" /\ ~AccountLocked(q.account)
  /\ accounts' =
       IF Live(acc)
       THEN [accounts EXCEPT
               ![q.account] = [acc EXCEPT
                                 !.initial = q.opening,
                                 !.balance = @ + q.opening - acc.initial]]
       ELSE accounts
  /\ request' = [request EXCEPT ![c] = Idle]
  /\ UNCHANGED txns

-----------------------------------------------------------------------------
\* Both accounts of r must be live when the service checks them.
AccountsExist(r) ==
  \A a \in {r.account, r.other} \ {None} : Live(accounts[a])

\* The row is written and locked, and its effect is due.
Wrote(c, t, r, effects) ==
  request' = [request EXCEPT
                ![c] = [pc |-> "apply", txn |-> t, row |-> r, todo |-> effects,
                        delta |-> @.delta, account |-> None, opening |-> 0]]

CreateTransaction(c) ==
  \E t \in Txns, r \in Payloads :
    /\ request[c].pc = "idle"
    /\ txns[t].state = "absent" /\ \A d \in Clients : request[d].txn # t
    /\ AccountsExist(r)
    /\ Wrote(c, t, r, Effects(r, 1))
    /\ UNCHANGED <<accounts, txns>>

\* The recurring engine inserts without looking at the account.
MaterialiseRecurring(c) ==
  \E t \in Txns, r \in Payloads :
    /\ request[c].pc = "idle"
    /\ txns[t].state = "absent" /\ \A d \in Clients : request[d].txn # t
    /\ r.type # "transfer" /\ accounts[r.account].state # "absent"
    /\ Wrote(c, t, r, Effects(r, 1))
    /\ UNCHANGED <<accounts, txns>>

\* Mutant of SoftDeleteTransaction: without deleted_at IS NULL.
SoftDeleteAgain(c) ==
  \E t \in Txns :
    /\ request[c].pc = "idle"
    /\ txns[t].state # "absent" /\ ~RowLocked(t)
    /\ Wrote(c, t, [txns[t] EXCEPT !.state = "deleted"], Effects(txns[t], -1))
    /\ UNCHANGED <<accounts, txns>>

SoftDeleteTransaction(c) ==
  \E t \in Txns :
    /\ request[c].pc = "idle"
    /\ Live(txns[t]) /\ ~RowLocked(t)
    /\ Wrote(c, t, [txns[t] EXCEPT !.state = "deleted"], Effects(txns[t], -1))
    /\ UNCHANGED <<accounts, txns>>

(***************************************************************************)
(* UpdateTransactionTx reads the row without locking it, takes its effect  *)
(* back, and only then writes the new row.                                 *)
(***************************************************************************)
ReadOld(c) ==
  \E t \in Txns, r \in Payloads :
    /\ request[c].pc = "idle"
    /\ Live(txns[t]) /\ AccountsExist(r)
    /\ request' = [request EXCEPT
                     ![c] = [Idle EXCEPT !.pc = "reverse", !.txn = t,
                                         !.row = r,
                                         !.todo = Effects(txns[t], -1)]]
    /\ UNCHANGED <<accounts, txns>>

Rewrite(c) ==
  LET q == request[c] IN
  /\ q.pc = "reverse" /\ q.todo = <<>>
  /\ Live(txns[q.txn]) /\ ~RowLocked(q.txn)
  /\ Wrote(c, q.txn, q.row, Effects(q.row, 1))
  /\ UNCHANGED <<accounts, txns>>

\* AdjustAccountBalance finds no row if the account is deleted.
Adjusted(delta, leg) ==
  IF ~Live(accounts[leg.account]) THEN delta
  ELSE [a \in DOMAIN delta \cup {leg.account} |->
          (IF a \in DOMAIN delta THEN delta[a] ELSE 0)
          + (IF a = leg.account THEN leg.delta ELSE 0)]

\* The next adjustment: it waits for the row's lock.
Adjust(c) ==
  LET q == request[c] IN
  /\ q.todo # <<>>
  /\ \A d \in Clients \ {c} : Head(q.todo).account \notin DOMAIN request[d].delta
  /\ request' =
       [request EXCEPT
          ![c] = [@ EXCEPT !.todo = Tail(q.todo),
                           !.delta = Adjusted(q.delta, Head(q.todo))]]
  /\ UNCHANGED <<accounts, txns>>

Commit(c) ==
  LET q == request[c] IN
  /\ q.pc = "apply" /\ q.todo = <<>>
  /\ txns' = [txns EXCEPT ![q.txn] = q.row]
  /\ accounts' =
       [a \in Accounts |->
          IF a \in DOMAIN q.delta
          THEN [accounts[a] EXCEPT !.balance = @ + q.delta[a]]
          ELSE accounts[a]]
  /\ request' = [request EXCEPT ![c] = Idle]

(***************************************************************************)
(* execTx rolls back: a statement failed, the connection broke, Rewrite    *)
(* found its row deleted, or PostgreSQL chose c to break a deadlock.       *)
(***************************************************************************)
Rollback(c) ==
  /\ request[c].pc \in {"reverse", "apply"}
  /\ request' = [request EXCEPT ![c] = Idle]
  /\ UNCHANGED <<accounts, txns>>

Next ==
  \/ \E a \in Accounts : CreateAccount(a) \/ DeleteAccount(a)
  \/ \E c \in Clients :
       \/ \E a \in Accounts : CountMovements(c, a)
       \/ UpdateAccount(c)
       \/ CreateTransaction(c)
       \/ MaterialiseRecurring(c)
       \/ SoftDeleteTransaction(c)
       \/ c \in Editors /\ ReadOld(c)
       \/ Rewrite(c)
       \/ Adjust(c)
       \/ Commit(c)
       \/ Rollback(c)

Spec == Init /\ [][Next]_vars

-----------------------------------------------------------------------------
(* Type correctness.                                                       *)

Legs == [account : Accounts, delta : Int]

Deltas == UNION {[D -> Int] : D \in SUBSET Accounts}

Requests ==
  [pc : {"idle", "reverse", "apply", "restate"}, txn : Txns \cup {None},
   row : TxnRows, todo : Seq(Legs), delta : Deltas,
   account : Accounts \cup {None}, opening : Int]

\* Every row and every request in flight holds values of its column types.
TypeOK ==
  /\ accounts \in [Accounts -> AccountRows]
  /\ txns \in [Txns -> TxnRows]
  /\ request \in [Clients -> Requests]

-----------------------------------------------------------------------------
(* Properties.                                                             *)

(***************************************************************************)
(* The balance of a live account is its opening balance plus its live      *)
(* movements: "the invariant current_balance = initial_balance +           *)
(* movements" of accounts.sql:29-30.  Two edits of one transaction at a    *)
(* time break it (store_transactions.go:74 reads without a lock what       *)
(* line 82 takes back), so it holds with at most one of them in flight.    *)
(***************************************************************************)
Balanced ==
  \A a \in Accounts :
    Live(accounts[a]) =>
      accounts[a].balance =
        accounts[a].initial
        + SumFunctionOnSet([t \in Txns |-> Book!Effect(txns[t], a)], Txns)

HasMovements(a) == \E t \in Txns : Touches(txns[t], a)

Restating(a) ==
  \E c \in Clients : request[c].pc = "restate" /\ request[c].account = a

(***************************************************************************)
(* Once an account has movements and no restatement of it is under way,    *)
(* its opening balance stays as it is for as long as it has movements: no  *)
(* history is rewritten (services/account.go:81-92), except by a request   *)
(* that counted the movements before the first one was committed.          *)
(***************************************************************************)
OpeningSettles ==
  [][\A a \in Accounts :
       HasMovements(a) /\ ~Restating(a) =>
         /\ accounts'[a].initial = accounts[a].initial
         /\ HasMovements(a)' => ~Restating(a)']_vars

(***************************************************************************)
(* Every committed change of a transaction moves the balances it touches   *)
(* at once and by the difference it makes, also when an account is deleted *)
(* or restated, or another transaction runs, between its statements.       *)
(***************************************************************************)
ImplementsAtomicLedger == Book!Spec
=============================================================================
