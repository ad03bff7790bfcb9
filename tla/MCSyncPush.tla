------------------------------ MODULE MCSyncPush ------------------------------
(***************************************************************************)
(* SyncPush for TLC: outboxes of up to three items on five rows.           *)
(***************************************************************************)
EXTENDS SyncPush, TLC

MCKindOf ==
  "txn" :> "transaction" @@ "account" :> "account" @@ "budget" :> "budget"
    @@ "overall" :> "overall" @@ "contribution" :> "contribution"

Entry(op, row) == [op |-> op, row |-> row, stamped |-> TRUE]

Unstamped(op, row) == [op |-> op, row |-> row, stamped |-> FALSE]

Nothing == Entry("nothing", "account")

\* A create next to a malformed item; a transaction and an edit of its account;
\* budgets with and without a category; edits and deletes of rows with and
\* without a tracking period; an item that cannot be decoded; too many items.
MCOutboxes ==
  {<<Entry("malformed", "txn"), Entry("create", "contribution"), Nothing>>,
   <<Entry("create", "txn"), Entry("update", "account"), Nothing>>,
   <<Entry("create", "overall"), Entry("create", "budget"), Nothing>>,
   <<Entry("update", "contribution"), Entry("update", "txn"), Nothing>>,
   <<Unstamped("update", "budget"), Entry("delete", "account"), Nothing>>,
   <<Entry("delete", "txn"), Nothing, Nothing>>,
   <<Entry("untyped", "txn"), Entry("create", "txn"), Nothing>>,
   <<Entry("create", "txn"), Entry("update", "budget"),
     Entry("update", "account")>>}

ASSUME MCCreatesApart == CreatesApart
=============================================================================
