------------------------------- MODULE SyncPush -------------------------------
(***************************************************************************)
(* POST /sync/push: a device that was offline sends its outbox, the server *)
(* replays it item by item, and the device drops what has an answer and    *)
(* sends the rest again.  Answers get lost, so an item may run twice, even *)
(* while its first run is under way.  Other devices edit the same rows,    *)
(* and the tracking period may roll over in between.                       *)
(*                                                                         *)
(* A row stands for what an item is about: the row an update or a delete   *)
(* names, or the last one its create made (for a transaction, the one of   *)
(* its client_id; for a budget, the one of the active period).  Time is in *)
(* ticks, TicksPerSecond to a second.  "account" is the four entities with *)
(* soft deletes and no period: account, category, savings goal and         *)
(* recurring transaction; "overall" is a budget without a category.  A     *)
(* write and the checks the service makes right before it are one step;    *)
(* TrackingPeriods and Ledger take those apart.                            *)
(***************************************************************************)
EXTENDS Integers, FiniteSets, FiniteSetsExt

CONSTANTS
  Items,           \* of the outbox, numbers: the order they are sent in
  Rows,
  KindOf,          \* the entity_type of each row
  Account,         \* the row of the account transactions are booked on
  Outboxes,        \* outboxes there may be: [Items -> Entries]
  MaxBatch,        \* maxBatchSize
  Handlers,        \* the requests the server may be running
  TicksPerSecond,
  MaxNow,          \* bound: the last tick of the clock
  MaxEdits,        \* bound: edits and deletes of other devices
  MaxLosses,       \* bound: timeouts and crashes
  MaxFaults,       \* bound: statements that fail for no fault of the client
  NoHandler        \* no request is awaited

Budgets == {"budget", "overall"}

Entity == {"transaction", "account", "contribution"} \cup Budgets

\* Statuses of an item for the device.
Answers == {"applied", "skipped", "conflict", "rejected"}

\* malformed: entity_id or client_updated_at cannot be parsed.  untyped: a field
\* has not the type it is decoded into.  nothing: the outbox is shorter.
\* stamped: client_updated_at is sent.
Entries == [op : {"create", "update", "delete", "malformed", "untyped",
                  "nothing"},
            row : Rows, stamped : BOOLEAN]

ASSUME SyncPushAssumption ==
  /\ Items \subseteq Nat /\ IsFiniteSet(Items)
  /\ KindOf \in [Rows -> Entity]
  /\ Account \in Rows /\ KindOf[Account] = "account"
  /\ Outboxes \subseteq [Items -> Entries]
  /\ NoHandler \notin Handlers /\ IsFiniteSet(Handlers)
  /\ TicksPerSecond \in Nat \ {0}
  /\ {MaxBatch, MaxNow, MaxEdits, MaxLosses, MaxFaults} \subseteq Nat

VARIABLES
  now,
  period,     \* the active tracking period
  rows,       \* state, version, updated_at and tracking period of each row
  made,       \* rows each create has made
  outbox,
  status,     \* the answer the device has for each item, or "pending"
  requests,   \* what each handler is doing
  awaiting,   \* the request the device is waiting for
  raced,      \* history: creates that were made while being run twice
  deletions,  \* history: how often each row was deleted
  edits, losses, faults

vars == <<now, period, rows, made, outbox, status, requests, awaiting, raced,
          deletions, edits, losses, faults>>

\* What serves the bounds and the properties only.
extra == <<raced, deletions, edits, losses, faults>>

-----------------------------------------------------------------------------
Second(t) == t \div TicksPerSecond

Op(i) == outbox[i].op

Target(i) == outbox[i].row

Kind(i) == KindOf[Target(i)]

Live(r) == rows[r].state = "live"

\* The row belongs to a period that is closed.
Closed(r) ==
  KindOf[r] \in {"transaction"} \cup Budgets /\ rows[r].period < period

New(r, state, p) ==
  [state |-> state, version |-> rows[r].version + 1, at |-> now, period |-> p]

\* The second UPDATE of a row waits for the first: versions never fork.  What is
\* done to a transaction adjusts, and stamps, its account.
Touched(r, state) ==
  [s \in Rows |->
     CASE s = r -> New(r, state, period)
       [] s = Account /\ s # r /\ KindOf[r] = "transaction" /\ Live(s)
            -> New(s, "live", period)
       [] OTHER -> rows[s]]

\* What is made of row r: each delete counts.
Change(r, state) ==
  /\ rows' = Touched(r, state)
  /\ deletions' = IF state = "deleted" THEN [deletions EXCEPT ![r] = @ + 1]
                  ELSE deletions

\* The row of some create.
Creating(r) == \E i \in Items : Op(i) = "create" /\ Target(i) = r

-----------------------------------------------------------------------------
(* The device.                                                             *)

Free == [pc |-> "free", todo |-> {}, seen |-> 0,
         results |-> [i \in Items |-> "none"]]

Pending == {i \in Items : status[i] = "pending"}

Send(h) ==
  /\ awaiting = NoHandler /\ Pending # {} /\ requests[h].pc = "free"
  /\ requests' = [requests EXCEPT ![h] = [Free EXCEPT !.pc = "parse",
                                                      !.todo = Pending]]
  /\ awaiting' = h
  /\ UNCHANGED <<now, period, rows, made, outbox, status, extra>>

\* The server goes on with the request; nobody hears its answer.
Timeout ==
  /\ awaiting # NoHandler /\ losses < MaxLosses
  /\ awaiting' = NoHandler /\ losses' = losses + 1
  /\ UNCHANGED <<now, period, rows, made, outbox, status, requests, raced,
                 deletions, edits, faults>>

-----------------------------------------------------------------------------
(* The server: SyncHandler.Push and SyncService.Push.                      *)

\* The items of a batch are processed in its order.
Current(h) == Min(requests[h].todo)

\* Handler h is at item i, which is a op of one of kinds.
At(h, pc, op, kinds) ==
  /\ requests[h].pc = pc /\ requests[h].todo # {}
  /\ Op(Current(h)) = op /\ Kind(Current(h)) \in kinds

\* The current item is done and its result appended.
Answer(h, answer) ==
  requests' = [requests EXCEPT ![h] =
    [pc |-> "next", todo |-> @.todo \ {Current(h)}, seen |-> @.seen,
     results |-> [@.results EXCEPT ![Current(h)] = answer]]]

Malformed(h) == {i \in requests[h].todo : Op(i) = "malformed"}

\* The body cannot be decoded, or has too many items.
Unreadable(h) ==
  \/ \E i \in requests[h].todo : Op(i) = "untyped"
  \/ Cardinality(requests[h].todo) > MaxBatch

\* The whole batch is refused (400), and the device hears of no item.
Refuse(h) ==
  /\ requests[h].pc = "parse" /\ Unreadable(h)
  /\ requests' = [requests EXCEPT ![h] = Free]
  /\ awaiting' = IF awaiting = h THEN NoHandler ELSE awaiting
  /\ UNCHANGED <<now, period, rows, made, outbox, status, extra>>

\* Mutant of Parse: the batch with a malformed item is refused.
ParseAll(h) ==
  /\ requests[h].pc = "parse" /\ ~Unreadable(h)
  /\ IF Malformed(h) = {}
     THEN /\ requests' = [requests EXCEPT ![h].pc = "next"]
          /\ UNCHANGED awaiting
     ELSE /\ requests' = [requests EXCEPT ![h] = Free]
          /\ awaiting' = IF awaiting = h THEN NoHandler ELSE awaiting
  /\ UNCHANGED <<now, period, rows, made, outbox, status, extra>>

\* A malformed item becomes a result of its own, not an error of the batch.
Parse(h) ==
  /\ requests[h].pc = "parse" /\ ~Unreadable(h)
  /\ requests' = [requests EXCEPT ![h] =
       [pc |-> "next", todo |-> @.todo \ Malformed(h), seen |-> @.seen,
        results |-> [i \in Items |-> IF i \in Malformed(h)
                                     THEN "rejected" ELSE @.results[i]]]]
  /\ UNCHANGED <<now, period, rows, made, outbox, status, awaiting, extra>>

-----------------------------------------------------------------------------
(* create.                                                                 *)

\* The transaction of the item's client_id, unless it is deleted.
GetTransactionByClientID(i) == Live(Target(i))

\* Mutant of LookUp: whether the date fits the period is asked first.
LookUpLater(h) ==
  /\ At(h, "next", "create", {"transaction"})
  /\ IF period > 0 THEN Answer(h, "rejected")
     ELSE IF GetTransactionByClientID(Current(h)) THEN Answer(h, "skipped")
     ELSE requests' = [requests EXCEPT ![h].pc = "write"]
  /\ UNCHANGED <<now, period, rows, made, outbox, status, awaiting, extra>>

LookUp(h) ==
  /\ At(h, "next", "create", {"transaction"})
  /\ IF GetTransactionByClientID(Current(h))
     THEN Answer(h, "skipped")
     ELSE requests' = [requests EXCEPT ![h].pc = "write"]
  /\ UNCHANGED <<now, period, rows, made, outbox, status, awaiting, extra>>

\* Mutant of ClientIDTaken: an index over live rows only.
LiveClientID(i) == Live(Target(i))

\* uq_txn_client_id counts deleted rows.
ClientIDTaken(i) == rows[Target(i)].state # "none"

\* The transaction was made offline: its date is in the first period.
Create(h) ==
  LET i == Current(h) IN
  /\ At(h, "write", "create", {"transaction"})
  /\ IF period > 0 \/ ~Live(Account) \/ ClientIDTaken(i)
     THEN Answer(h, "rejected") /\ UNCHANGED <<rows, made, deletions>>
     ELSE /\ Answer(h, "applied") /\ Change(Target(i), "live")
          /\ made' = [made EXCEPT ![i] = @ + 1]
  /\ raced' = IF \E g \in Handlers \ {h} :
                   At(g, "write", "create", {"transaction"}) /\ Current(g) = i
              THEN raced \cup {i} ELSE raced
  /\ UNCHANGED <<now, period, outbox, status, awaiting, edits, losses, faults>>

\* Mutant of BudgetExists: the key of a category does not count.
BudgetForgotten(i) == FALSE

\* UNIQUE (tracking_period_id, category_id): the active period has a budget of
\* the category.  NULLs differ, so that an overall budget has no key.
BudgetExists(i) == Kind(i) = "budget" /\ Live(Target(i))

\* No other entity has a key of the client's; a budget has its category.
CreateOther(h) ==
  LET i == Current(h) IN
  /\ At(h, "next", "create", Entity \ {"transaction"})
  /\ IF BudgetExists(i)
     THEN Answer(h, "rejected") /\ UNCHANGED <<rows, made, deletions>>
     ELSE /\ Answer(h, "applied") /\ Change(Target(i), "live")
          /\ made' = [made EXCEPT ![i] = @ + 1]
  /\ UNCHANGED <<now, period, outbox, status, awaiting, raced, edits, losses,
                 faults>>

-----------------------------------------------------------------------------
(* update and delete.                                                      *)

\* Mutant of Newer: the sides of the comparison are swapped.
Older(i) == outbox[i].stamped /\ Second(0) > Second(rows[Target(i)].at)

\* The device last saw the row at tick 0.  Seconds are compared.
Newer(i) == outbox[i].stamped /\ Second(rows[Target(i)].at) > Second(0)

(***************************************************************************)
(* The row as it is decides on conflict; an item that passes waits for the *)
(* service to write.  A pushed delete of a transaction asks for no stamp.  *)
(***************************************************************************)
Fetch(h) ==
  LET i == Current(h)
      r == Target(i)
      txn == Kind(i) = "transaction"
  IN
  /\ \E op \in {"update", "delete"} :
       At(h, "next", op, Entity \ {"contribution"})
  /\ \/ /\ ~Live(r)
        /\ Answer(h, IF txn /\ Op(i) = "delete" THEN "skipped" ELSE "rejected")
     \/ /\ Live(r) /\ Newer(i) /\ ~(txn /\ Op(i) = "delete")
        /\ Answer(h, "conflict")
     \/ /\ Live(r) /\ (Newer(i) => txn /\ Op(i) = "delete")
        /\ IF txn /\ Closed(r)
           THEN Answer(h, "rejected")
           ELSE requests' = [requests EXCEPT ![h].pc = "write",
                                             ![h].seen = rows[r].version]
  /\ UNCHANGED <<now, period, rows, made, outbox, status, awaiting, extra>>

\* The account of a transaction that is updated must exist; one that is deleted
\* is not asked for it.
Unbooked(i) ==
  Kind(i) = "transaction" /\ Op(i) = "update" /\ ~Live(Account)

Write(h) ==
  LET i == Current(h)
      r == Target(i)
  IN
  /\ \E op \in {"update", "delete"} :
       At(h, "write", op, Entity \ {"contribution"})
  /\ \/ /\ ~Live(r) /\ UNCHANGED <<rows, deletions>>
        /\ Answer(h, IF Kind(i) = "transaction" /\ Op(i) = "delete"
                     THEN "skipped" ELSE "rejected")
     \/ /\ Live(r) /\ (Closed(r) \/ Unbooked(i))
        /\ Answer(h, "rejected") /\ UNCHANGED <<rows, deletions>>
     \/ /\ Live(r) /\ ~Closed(r) /\ ~Unbooked(i) /\ Answer(h, "applied")
        /\ Change(r, IF Op(i) = "update" THEN "live" ELSE "deleted")
  /\ UNCHANGED <<now, period, made, outbox, status, awaiting, raced, edits,
                 losses, faults>>

\* "Only supports create".
RejectContribution(h) ==
  /\ \E op \in {"update", "delete"} : At(h, "next", op, {"contribution"})
  /\ Answer(h, "rejected")
  /\ UNCHANGED <<now, period, rows, made, outbox, status, awaiting, extra>>

-----------------------------------------------------------------------------
\* serverError: the item fails for a reason of the server's; also "rejected".
Fault(h) ==
  /\ requests[h].pc \in {"next", "write"} /\ requests[h].todo # {}
  /\ faults < MaxFaults /\ faults' = faults + 1
  /\ Answer(h, "rejected")
  /\ UNCHANGED <<now, period, rows, made, outbox, status, awaiting, raced,
                 deletions, edits, losses>>

\* The response; the device drops what it has an answer for.
Respond(h) ==
  /\ requests[h].pc = "next" /\ requests[h].todo = {}
  /\ requests' = [requests EXCEPT ![h] = Free]
  /\ IF awaiting = h
     THEN /\ awaiting' = NoHandler
          /\ status' = [i \in Items |-> IF requests[h].results[i] = "none"
                                        THEN status[i]
                                        ELSE requests[h].results[i]]
     ELSE UNCHANGED <<awaiting, status>>
  /\ UNCHANGED <<now, period, rows, made, outbox, extra>>

\* Each item committed by itself: a batch may end half way.
Crash ==
  /\ \E h \in Handlers : requests[h] # Free
  /\ losses < MaxLosses /\ losses' = losses + 1
  /\ requests' = [h \in Handlers |-> Free] /\ awaiting' = NoHandler
  /\ UNCHANGED <<now, period, rows, made, outbox, status, raced, deletions,
                 edits, faults>>

-----------------------------------------------------------------------------
(* Everything else that goes on.                                           *)

\* Another device, through the REST endpoints.  There is none that changes a
\* contribution, and rows no item is about make no difference.
Edit ==
  /\ edits < MaxEdits /\ edits' = edits + 1
  /\ \E r \in {Target(i) : i \in Items} \cup {Account},
        state \in {"live", "deleted"} :
       /\ Live(r) /\ ~Closed(r) /\ KindOf[r] # "contribution"
       /\ KindOf[r] = "transaction" /\ state = "live" => Live(Account)
       /\ Change(r, state)
  /\ UNCHANGED <<now, period, made, outbox, status, requests, awaiting, raced,
                 losses, faults>>

\* ClosePeriodTx copies the budgets: what a create has made goes on.
RollOver ==
  /\ period = 0 /\ period' = 1
  /\ rows' = [r \in Rows |->
       IF KindOf[r] \in Budgets /\ Live(r) /\ Creating(r)
       THEN New(r, "live", 1) ELSE rows[r]]
  /\ UNCHANGED <<now, made, outbox, status, requests, awaiting, extra>>

Tick ==
  /\ now < MaxNow /\ now' = now + 1
  /\ UNCHANGED <<period, rows, made, outbox, status, requests, awaiting,
                 extra>>

-----------------------------------------------------------------------------
\* What updates and deletes name exists and is as the device last saw it.
Init ==
  /\ now = 0 /\ period = 0 /\ outbox \in Outboxes
  /\ rows = [r \in Rows |->
       [state |-> IF Creating(r) THEN "none" ELSE "live",
        version |-> 1, at |-> 0, period |-> 0]]
  /\ made = [i \in Items |-> 0]
  /\ status = [i \in Items |-> IF Op(i) = "nothing" THEN "none" ELSE "pending"]
  /\ requests = [h \in Handlers |-> Free] /\ awaiting = NoHandler
  /\ raced = {} /\ deletions = [r \in Rows |-> 0]
  /\ edits = 0 /\ losses = 0 /\ faults = 0

\* The steps of a request.
Serve(h) ==
  \/ Refuse(h) \/ Parse(h)
  \/ LookUp(h) \/ Create(h) \/ CreateOther(h)
  \/ Fetch(h) \/ Write(h) \/ RejectContribution(h)
  \/ Respond(h)

Next ==
  \/ \E h \in Handlers : Send(h) \/ Serve(h) \/ Fault(h)
  \/ Timeout \/ Crash
  \/ Edit \/ RollOver \/ Tick

Spec == Init /\ [][Next]_vars

\* Requests run to their end, and the device goes on sending.
Fairness ==
  /\ WF_vars(\E h \in Handlers : Send(h))
  /\ \A h \in Handlers : WF_vars(Serve(h))

FairSpec == Spec /\ Fairness

-----------------------------------------------------------------------------
(* Properties.                                                             *)

(***************************************************************************)
(* A transaction is created once, whatever is retried, overlaps, crashes   *)
(* or was deleted meanwhile (uq_txn_client_id, sync.go:426-446).  Any other*)
(* create runs once more for each answer that was lost, and never          *)
(* otherwise: a retried contribution, or a budget without a category,      *)
(* counts twice (sync_push_entities.go:530-565).  A budget of a category   *)
(* also needs to have been deleted before each time it is made again; that *)
(* it was copied to the next period in between makes no second one.        *)
(***************************************************************************)
CreatedOnce ==
  \A i \in Items :
    /\ made[i] <= 1 + losses
    /\ Kind(i) = "transaction" => made[i] <= 1
    /\ Kind(i) = "budget" => made[i] <= 1 + deletions[Target(i)]

\* A client_id or a category is of one create, and an item that is still to be
\* made has no id yet by which to delete it or to book on it.
CreatesApart ==
  \A o \in Outboxes : \A i, j \in Items :
    o[i].op = "create" =>
      /\ o[i].row # Account
      /\ o[j].op \in {"create", "delete"} /\ o[i].row = o[j].row => i = j

(***************************************************************************)
(* What the device is told is so.  A create that was applied or skipped    *)
(* made its row; one that was rejected made none, unless it is of a        *)
(* transaction that has been deleted or whose first run was still under    *)
(* way, a statement failed, or it is a budget, whose retry is told that it *)
(* exists.  A conflict means the row changed.  A delete that was applied   *)
(* or skipped left no live row.                                            *)
(***************************************************************************)
ToldTruly ==
  \A i \in Items :
    LET r == rows[Target(i)] IN
    /\ Op(i) = "create" /\ status[i] \in {"applied", "skipped"} => made[i] > 0
    /\ Op(i) = "create" /\ status[i] = "rejected" /\ faults = 0 =>
         \/ made[i] = 0 \/ i \in raced
         \/ Kind(i) = "transaction" /\ r.state = "deleted"
         \/ Kind(i) = "budget" /\ losses > 0
    /\ status[i] = "conflict" => r.version > 1
    /\ Op(i) = "delete" /\ status[i] \in {"applied", "skipped"} =>
         r.state = "deleted"

(***************************************************************************)
(* An item changes a row its device has not seen only if it says nothing of*)
(* what the device saw, both versions are of one second, or the other one  *)
(* was written between the check and the write (sync.go:476-490,           *)
(* sync_push_entities.go:118-133); a transaction's delete always does.     *)
(***************************************************************************)
NoBlindOverwrite ==
  [][\A h \in Handlers :
       requests[h].pc = "write" /\ requests'[h].pc = "next" =>
         LET i == Current(h)
             r == Target(i)
         IN  rows'[r] # rows[r] /\ rows[r].version > 1 =>
               \/ ~outbox[i].stamped
               \/ Second(rows[r].at) = Second(0)
               \/ rows[r].version > requests[h].seen
               \/ Kind(i) = "transaction" /\ Op(i) = "delete"]_vars

(***************************************************************************)
(* Every item of an outbox that can be read has an answer in the end, also *)
(* those that came with a malformed one: "an aborted batch leaves every    *)
(* other (valid) outbox row on the client stuck in 'pending' forever"      *)
(* (handlers/sync.go:95-97).  What is said there of any malformed item is  *)
(* not so of one with a field of a wrong type, which is no result of its   *)
(* own but an error of the body (83-85); nor does a device get on that     *)
(* sends more than the limit (90-93).                                      *)
(***************************************************************************)
OutboxDrains ==
  \/ \E i \in Items : Op(i) = "untyped"
  \/ Cardinality({i \in Items : Op(i) # "nothing"}) > MaxBatch
  \/ \A i \in Items : <>(status[i] # "pending")
=============================================================================
