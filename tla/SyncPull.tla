------------------------------- MODULE SyncPull -------------------------------
(***************************************************************************)
(* GET /sync/pull: one device keeps a copy of the user's rows by asking    *)
(* for those with updated_at after the time of its last pull, page by      *)
(* page, while transactions of other devices and of the schedulers commit. *)
(*                                                                         *)
(* Time is in ticks, TicksPerSecond of them to a second: PostgreSQL keeps  *)
(* fractions, the wire (RFC 3339) does not.  updated_at is NOW(), the time *)
(* a transaction began, and a transaction commits later.  A soft delete is *)
(* a write like any other; a hard delete leaves nothing to pull.  API and  *)
(* database are taken to share a clock.  The client is the one of          *)
(* docs/API_CONTRACT.md:320-326.                                           *)
(***************************************************************************)
EXTENDS Integers, FiniteSets, FiniteSetsExt

CONSTANTS
  Rows,            \* ids of rows, numbers: the second sort key
  Kinds,           \* the collections, in the order Pull queries them
  KindOf,          \* the collection of each row
  HardDeleted,     \* collections whose rows are deleted without a tombstone
  PageSize,        \* page_size
  TicksPerSecond,
  Stamps,          \* updated_at of the rows there may be to begin with
  Start,           \* the tick the clock starts at
  MaxNow,          \* bound: the last tick of the clock
  MaxWrites        \* bound: transactions that write

ASSUME SyncPullAssumption ==
  /\ Rows \subseteq Nat /\ IsFiniteSet(Rows)
  /\ KindOf \in [Rows -> 1 .. Kinds] /\ Kinds \in Nat \ {0}
  /\ HardDeleted \subseteq 1 .. Kinds
  /\ PageSize \in Nat \ {0} /\ TicksPerSecond \in Nat \ {0}
  /\ Start \in Nat
  /\ Stamps \subseteq [Rows -> -1 .. Start]
  /\ MaxNow \in Nat /\ MaxWrites \in Nat

VARIABLES
  now,        \* the clock
  rows,       \* committed rows: version (0 for no row) and updated_at
  writes,     \* transactions begun so far
  open,       \* when the open transactions began; no two at one tick
  passed,     \* history: how far the pulls have come in each collection
  overtaken,  \* history: rows behind that and not returned since
  pull,       \* the request under way
  cursor,     \* the client's persisted since
  local       \* the client's copy: the version it holds of each row

vars == <<now, rows, writes, open, passed, overtaken, pull, cursor, local>>

NoRow == [version |-> 0, at |-> -1]

\* Deleted for good: an id is not used again.
Gone == [version |-> 0, at |-> -2]

\* The zero time of an initial pull is before every row.
Beginning == -1

Truncate(t) == IF t < 0 THEN t ELSE t - (t % TicksPerSecond)

-----------------------------------------------------------------------------
(* The server's data.                                                      *)

Tick ==
  /\ now < MaxNow /\ now' = now + 1
  /\ UNCHANGED <<rows, writes, open, passed, overtaken, pull, cursor, local>>

Begin ==
  /\ now \notin open /\ writes < MaxWrites
  /\ writes' = writes + 1 /\ open' = open \cup {now}
  /\ UNCHANGED <<now, rows, passed, overtaken, pull, cursor, local>>

\* Row r as a transaction that began at t leaves it.
Written(t, r) == [version |-> rows[r].version + 1, at |-> t]

(***************************************************************************)
(* Insert, update or soft delete; the row is visible from the COMMIT on.   *)
(* It is overtaken if the transaction began no later than the pulls have   *)
(* come in its collection.                                                 *)
(***************************************************************************)
Commit ==
  \E t \in open, r \in Rows :
    /\ rows[r] # Gone
    /\ rows' = [rows EXCEPT ![r] = Written(t, r)]
    /\ overtaken' = IF t <= passed[KindOf[r]] THEN overtaken \cup {r}
                                              ELSE overtaken \ {r}
    /\ open' = open \ {t}
    /\ UNCHANGED <<now, writes, passed, pull, cursor, local>>

HardDelete ==
  \E t \in open, r \in Rows :
    /\ KindOf[r] \in HardDeleted /\ rows[r] \notin {NoRow, Gone}
    /\ rows' = [rows EXCEPT ![r] = Gone]
    /\ open' = open \ {t}
    /\ UNCHANGED <<now, writes, passed, overtaken, pull, cursor, local>>

-----------------------------------------------------------------------------
(* SyncService.Pull.                                                       *)

Idle == [pc |-> "idle", since |-> Beginning, serverTime |-> 0, kind |-> 0,
         page |-> {}, truncated |-> {}]

\* The rows a query may return, ordered by updated_at and id.
Changed(k, since) == {r \in Rows : KindOf[r] = k /\ rows[r].at > since}

Precedes(q, r) ==
  rows[q].at < rows[r].at \/ (rows[q].at = rows[r].at /\ q < r)

\* The first n rows of S.
First(n, S) == {r \in S : Cardinality({q \in S : Precedes(q, r)}) < n}

\* Mutant of Truncated: the rows are counted once they are trimmed.
TrimmedFirst(S) == Cardinality(First(PageSize, S)) > PageSize

\* The extra row of the limit tells that there are more.
Truncated(S) == Cardinality(First(PageSize + 1, S)) > PageSize

Pull(since) ==
  pull' = [Idle EXCEPT !.pc = "query", !.since = since, !.kind = 1,
                       !.serverTime = Truncate(now)]

StartPull ==
  /\ pull.pc \in {"idle", "failed"} /\ Pull(cursor)
  /\ UNCHANGED <<now, rows, writes, open, passed, overtaken, cursor, local>>

Row(r) == [id |-> r, version |-> rows[r].version, at |-> rows[r].at]

(***************************************************************************)
(* One query, with a snapshot of its own: a page of the rows of a kind.    *)
(* The pulls have come to its second.                                      *)
(***************************************************************************)
Query ==
  LET S == Changed(pull.kind, pull.since)
      page == First(PageSize, S)
  IN
  /\ pull.pc = "query"
  /\ pull' = [pull EXCEPT
       !.kind = @ + 1, !.pc = IF pull.kind = Kinds THEN "receive" ELSE @,
       !.page = @ \cup {Row(r) : r \in page},
       !.truncated = IF Truncated(S)
                     THEN @ \cup {Max({rows[r].at : r \in page})} ELSE @]
  /\ passed' = [passed EXCEPT ![pull.kind] = Truncate(now)]
  /\ overtaken' = overtaken \ page
  /\ UNCHANGED <<now, rows, writes, open, cursor, local>>

-----------------------------------------------------------------------------
(* The client.                                                             *)

Apply ==
  [r \in Rows |->
     IF \E x \in pull.page : x.id = r
     THEN (CHOOSE x \in pull.page : x.id = r).version ELSE local[r]]

HasMore == pull.truncated # {}

\* The oldest of the last rows of the truncated collections, as on the wire.
\* "The same since value" (sync.go:74) would return the same page for ever.
NextSince == Truncate(Min(pull.truncated))

\* Mutant of ServerTime: taken after the queries.
ResponseTime == Truncate(now)

\* Taken before the queries.
ServerTime == pull.serverTime

(***************************************************************************)
(* It overtakes what was written after its collection was queried, if that *)
(* is no later than since: the oldest last row may be of a collection that *)
(* was queried later.  And it goes past the rows that lie after the oldest *)
(* last row at the same time, if nothing of that time is cut off.          *)
(***************************************************************************)
Passes(r) ==
  \/ rows[r].at \in passed[KindOf[r]] + 1 .. NextSince
  \/ rows[r].at = NextSince /\ NextSince \in pull.truncated

NextPage ==
  /\ Pull(NextSince)
  /\ passed' = [k \in 1 .. Kinds |-> Max({passed[k], NextSince})]
  /\ overtaken' = overtaken \cup
                    {r \in Rows : Passes(r) /\ Row(r) \notin pull.page}
  /\ UNCHANGED cursor

\* The cursor moves with the last page only.
Receive ==
  /\ pull.pc = "receive"
  /\ local' = Apply
  /\ \/ HasMore /\ NextPage
     \/ /\ ~HasMore /\ pull' = Idle /\ cursor' = ServerTime
        /\ UNCHANGED <<passed, overtaken>>
  /\ UNCHANGED <<now, rows, writes, open>>

\* A timeout, or the app is closed: the next pull starts from the cursor.
Abandon ==
  /\ pull.pc \notin {"idle", "failed"} /\ pull' = [Idle EXCEPT !.pc = "failed"]
  /\ UNCHANGED <<now, rows, writes, open, passed, overtaken, cursor, local>>

-----------------------------------------------------------------------------
Init ==
  /\ now = Start /\ writes = 0
  /\ \E stamp \in Stamps :
       rows = [r \in Rows |-> [version |-> IF stamp[r] < 0 THEN 0 ELSE 1,
                              at |-> stamp[r]]]
  /\ open = {} /\ overtaken = {}
  /\ passed = [k \in 1 .. Kinds |-> Beginning]
  /\ pull = Idle /\ cursor = Beginning
  /\ local = [r \in Rows |-> 0]

Next ==
  \/ Tick
  \/ Begin \/ Commit \/ HardDelete
  \/ StartPull \/ Query \/ Receive \/ Abandon

Spec == Init /\ [][Next]_vars

(***************************************************************************)
(* The device goes on pulling, and from some time on no pull times out.    *)
(***************************************************************************)
Fairness ==
  /\ WF_vars(StartPull) /\ WF_vars(Query) /\ WF_vars(Receive)
  /\ <>[][~Abandon]_vars

FairSpec == Spec /\ Fairness

-----------------------------------------------------------------------------
(* Properties.                                                             *)

\* Rows the client has another version of, or none, or too many.
Behind(r) == local[r] # rows[r].version

\* No pull will bring the row again.
Lost(r) == Behind(r) /\ rows[r].at <= cursor

(***************************************************************************)
(* Between pulls, what the client does not have will come with the next    *)
(* one, or was lost in one of three ways.  The row was deleted for good.   *)
(* It was overtaken: by a query, as its transaction committed later with   *)
(* an earlier updated_at (sync.go:238-240: server_time is "at least as     *)
(* late as any row we return"), or by the next page: it was written after  *)
(* its collection was queried and before a later one was cut, or the page  *)
(* ended between two rows of one updated_at, and that is a whole second.   *)
(* Other ties, truncation to the second, rows that change between two      *)
(* pages and updated_at moving backwards lose nothing.                     *)
(***************************************************************************)
LostOnlyIfOvertaken ==
  pull.pc \in {"idle", "failed"} =>
    \A r \in Rows :
      Lost(r) => rows[r] = Gone \/ r \in overtaken

\* PageSize rows of one kind within one second, past its first instant.
Crowded ==
  \E r \in Rows :
    Cardinality({q \in Rows :
                   /\ KindOf[q] = KindOf[r] /\ rows[q] \notin {NoRow, Gone}
                   /\ Truncate(rows[q].at) = Truncate(rows[r].at)
                   /\ rows[q].at # Truncate(rows[q].at)}) >= PageSize

(***************************************************************************)
(* A client that goes on pulling gets every row in the end.  The exceptions*)
(* are those above, and a page that one second fills: since is cut to the  *)
(* second, the page that follows is the same one and has_more stays true   *)
(* for ever (handlers/sync.go:411-440, docs/API_CONTRACT.md:325).          *)
(***************************************************************************)
CatchesUp ==
  \A r \in Rows :
    Behind(r) ~> ~Behind(r) \/ Crowded \/ rows[r] = Gone \/ r \in overtaken
=============================================================================
