---------------------------- MODULE SyncPushProofs ----------------------------
(***************************************************************************)
(* Proofs about SyncPush, for any outboxes, handlers, rows and bounds: how *)
(* often creates run, that answers are true, and that no write is blind.   *)
(***************************************************************************)
EXTENDS SyncPush, FiniteSetTheorems, WellFoundedInduction, TLAPS

RowType ==
  [state : {"none", "live", "deleted"}, version : Nat, at : Nat, period : Nat]

RequestType ==
  [pc : {"free", "parse", "next", "write"}, todo : SUBSET Items, seen : Nat,
   results : [Items -> Answers \cup {"none"}]]

TypeOK ==
  /\ now \in Nat /\ period \in {0, 1}
  /\ rows \in [Rows -> RowType]
  /\ made \in [Items -> Nat] /\ deletions \in [Rows -> Nat]
  /\ outbox \in Outboxes
  /\ status \in [Items -> Answers \cup {"pending", "none"}]
  /\ requests \in [Handlers -> RequestType]
  /\ awaiting \in Handlers \cup {NoHandler}
  /\ losses \in Nat /\ faults \in Nat

\* A row changes with its version; one that is still to be made has its first.
RowOK(r) ==
  /\ rows[r].version >= 1
  /\ rows[r].at # 0 => rows[r].version > 1
  /\ rows[r].state = "none" => rows[r].version = 1

\* client_id is unique; of the budgets of one category made so far, all but the
\* one that is live have been deleted.
MadeOK(i) ==
  /\ Kind(i) = "transaction" =>
       made[i] <= 1 /\ (made[i] > 0 => rows[Target(i)].state # "none")
  /\ Kind(i) = "budget" =>
       /\ made[i] <= 1 + deletions[Target(i)]
       /\ ~Live(Target(i)) => made[i] <= deletions[Target(i)]

\* The requests that have item i still to do.
Tries(i) == {h \in Handlers : i \in requests[h].todo}

\* 1 if the device is going to send i again.
Unanswered(i) == IF status[i] = "pending" /\ awaiting = NoHandler THEN 1 ELSE 0

(***************************************************************************)
(* The device never sends an item again while it waits for its answer, so  *)
(* what has been made of it and may yet be made of it is one, and one more *)
(* for each answer it gave up.                                             *)
(***************************************************************************)
TriesOK(i) == made[i] + Cardinality(Tries(i)) + Unanswered(i) <= 1 + losses

(***************************************************************************)
(* The request awaited has, or will have, an answer to all that is pending.*)
(* One about to write to a row that is as it was when it looked was right  *)
(* to find no conflict.                                                    *)
(***************************************************************************)
RequestOK(h) ==
  LET q == requests[h] IN
  /\ q.pc = "free" => q.todo = {}
  /\ q.pc = "write" => q.todo # {}
  /\ q.pc = "parse" => \A i \in Items : q.results[i] = "none"
  /\ awaiting = h =>
       \A i \in Items :
         status[i] = "pending" => i \in q.todo \/ q.results[i] # "none"

SeenOK(h) ==
  LET i == Current(h)
      q == requests[h]
      r == rows[Target(i)]
  IN  q.pc = "write" /\ Op(i) \in {"update", "delete"} =>
        /\ q.seen <= r.version
        /\ q.seen = r.version /\ Newer(i) =>
             Kind(i) = "transaction" /\ Op(i) = "delete"

IInv ==
  /\ TypeOK
  /\ \A r \in Rows : RowOK(r)
  /\ \A i \in Items : MadeOK(i) /\ TriesOK(i)
  /\ \A h \in Handlers : RequestOK(h) /\ SeenOK(h)

-----------------------------------------------------------------------------
(* Items, rows and requests.                                               *)

\* A set of naturals that is not empty has a least element.
LEMMA MinIn ==
  ASSUME NEW S \in SUBSET Nat, S # {}
  PROVE  Min(S) \in S
<1>1. PICK x \in S : \A y \in S : ~(<<y, x>> \in OpToRel(<, Nat))
  BY NatLessThanWellFounded, WFMin
<1>2. ASSUME NEW y \in S
      PROVE  x <= y
  <2>1. y < x => <<y, x>> \in OpToRel(<, Nat)
    BY DEF OpToRel
  <2>2. ~(y < x)
    BY <1>1, <2>1, Zenon
  <2> QED BY <2>2
<1> QED BY <1>1, <1>2 DEF Min

\* The item at hand is one of those to do.
LEMMA CurrentIn ==
  ASSUME TypeOK, NEW h \in Handlers, requests[h].todo # {}
  PROVE  Current(h) \in requests[h].todo /\ Current(h) \in Items
<1>1. requests[h].todo \in SUBSET Items
  BY DEF TypeOK, RequestType
<1>2. Current(h) \in requests[h].todo
  BY <1>1, MinIn, SyncPushAssumption DEF Current
<1> QED BY <1>1, <1>2

\* Items have an operation, a row and its kind.
LEMMA ItemType ==
  ASSUME TypeOK, NEW i \in Items
  PROVE  /\ Target(i) \in Rows /\ Kind(i) \in Entity
         /\ made[i] \in Nat
<1>1. outbox \in [Items -> Entries]
  BY SyncPushAssumption DEF TypeOK
<1>2. outbox[i] \in Entries
  BY <1>1
<1>3. Target(i) \in Rows
  BY <1>2 DEF Entries, Target
<1>4. Kind(i) \in Entity
  BY <1>3, SyncPushAssumption DEF Kind
<1> QED BY <1>3, <1>4 DEF TypeOK

\* A handler with nothing to do.
LEMMA FreeType ==
  /\ Free \in RequestType /\ Free.pc = "free" /\ Free.todo = {}
  BY DEF Free, RequestType, Answers

\* The requests that try an item are finitely many.
LEMMA TriesType ==
  ASSUME NEW i
  PROVE  /\ IsFiniteSet(Tries(i)) /\ Cardinality(Tries(i)) \in Nat
         /\ Unanswered(i) \in {0, 1}
<1>1. Tries(i) \subseteq Handlers
  BY DEF Tries
<1>2. IsFiniteSet(Tries(i))
  BY <1>1, FS_Subset, SyncPushAssumption
<1> QED BY <1>2, FS_CardinalityType DEF Unanswered

\* A row stays as it is or has a new version, for all that may happen to it.
\* Only a create makes anew what was deleted, and no transaction.
RowStep(r, state) ==
  \E p \in {0, 1} :
    /\ rows'[r] = New(r, state, p)
    /\ rows[r].state = "deleted" => KindOf[r] # "transaction" /\ Creating(r)
    /\ deletions'[r] = IF state = "deleted" THEN deletions[r] + 1
                       ELSE deletions[r]

RowChange ==
  /\ rows' = [r \in Rows |-> rows'[r]] /\ deletions' \in [Rows -> Nat]
  /\ \A r \in Rows :
       \/ rows'[r] = rows[r] /\ deletions'[r] = deletions[r]
       \/ \E state \in {"live", "deleted"} : RowStep(r, state)

\* Nothing happens to any row.
LEMMA RowsSame ==
  ASSUME TypeOK, UNCHANGED <<rows, deletions>>
  PROVE  RowChange
  BY DEF RowChange, TypeOK

\* One row changes, and the account of a transaction with it.
LEMMA OneRow ==
  ASSUME TypeOK, NEW r \in Rows, NEW state \in {"live", "deleted"},
         Change(r, state),
         rows[r].state = "deleted" => KindOf[r] # "transaction" /\ Creating(r)
  PROVE  RowChange /\ rows'[r].state = state
<1>1. /\ rows' = Touched(r, state) /\ period \in {0, 1}
      /\ deletions \in [Rows -> Nat]
      /\ deletions' = IF state = "deleted"
                      THEN [deletions EXCEPT ![r] = @ + 1] ELSE deletions
  BY DEF Change, TypeOK
<1>2. deletions' \in [Rows -> Nat] /\ rows' = [s \in Rows |-> rows'[s]]
  BY <1>1 DEF Touched
<1>3. rows'[r] = New(r, state, period) /\ rows'[r].state = state
  BY <1>1 DEF Touched, New
<1>4. RowStep(r, state)
  BY <1>1, <1>3 DEF RowStep
<1>5. ASSUME NEW s \in Rows, s # r
      PROVE  \/ rows'[s] = rows[s] /\ deletions'[s] = deletions[s]
             \/ RowStep(s, "live")
  <2>1. deletions'[s] = deletions[s]
    BY <1>1, <1>5
  <2>2. \/ rows'[s] = rows[s]
        \/ rows'[s] = New(s, "live", period) /\ Live(s)
    BY <1>1, <1>5 DEF Touched
  <2> QED BY <1>1, <2>1, <2>2 DEF RowStep, Live
<1> QED BY <1>2, <1>3, <1>4, <1>5 DEF RowChange

\* A row that changes has a new version; one that is deleted stays so, unless it
\* is created again; and it takes a delete to be no longer live.
LEMMA RowsStep ==
  ASSUME TypeOK, \A r \in Rows : RowOK(r), RowChange
  PROVE  /\ rows' \in [Rows -> RowType] /\ deletions' \in [Rows -> Nat]
         /\ \A r \in Rows :
              /\ RowOK(r)' /\ rows'[r].version >= rows[r].version
              /\ rows'[r].version = rows[r].version => rows'[r] = rows[r]
              /\ rows'[r].state = "none" => rows[r].state = "none"
              /\ rows[r].state = "deleted" /\ rows'[r].state # "deleted" =>
                   KindOf[r] # "transaction" /\ Creating(r)
              /\ deletions[r] \in Nat /\ deletions'[r] >= deletions[r]
              /\ Live(r) /\ ~Live(r)' => deletions'[r] = deletions[r] + 1
<1>1. deletions' \in [Rows -> Nat] /\ rows' = [r \in Rows |-> rows'[r]]
  BY DEF RowChange
<1>2. ASSUME NEW r \in Rows
      PROVE  /\ rows'[r] \in RowType
             /\ RowOK(r)' /\ rows'[r].version >= rows[r].version
             /\ rows'[r].version = rows[r].version => rows'[r] = rows[r]
             /\ rows'[r].state = "none" => rows[r].state = "none"
             /\ rows[r].state = "deleted" /\ rows'[r].state # "deleted" =>
                  KindOf[r] # "transaction" /\ Creating(r)
             /\ deletions[r] \in Nat /\ deletions'[r] >= deletions[r]
             /\ Live(r) /\ ~Live(r)' => deletions'[r] = deletions[r] + 1
  <2>1. /\ rows[r] \in RowType /\ RowOK(r) /\ deletions[r] \in Nat
        /\ now \in Nat /\ rows[r].version \in Nat
    BY DEF TypeOK, RowType
  <2>2. CASE rows'[r] = rows[r] /\ deletions'[r] = deletions[r]
    BY <2>1, <2>2 DEF RowOK, Live
  <2>3. CASE \E state \in {"live", "deleted"} : RowStep(r, state)
    <3>1. PICK state \in {"live", "deleted"}, p \in {0, 1} :
            /\ rows'[r] = New(r, state, p)
            /\ rows[r].state = "deleted" =>
                 KindOf[r] # "transaction" /\ Creating(r)
            /\ deletions'[r] = IF state = "deleted" THEN deletions[r] + 1
                               ELSE deletions[r]
      BY <2>3 DEF RowStep
    <3>2. /\ rows'[r].state = state /\ rows'[r].at = now
          /\ rows'[r].version = rows[r].version + 1
          /\ rows'[r] \in RowType
      BY <2>1, <3>1 DEF New, RowType
    <3>3. RowOK(r)'
      BY <2>1, <3>2 DEF RowOK
    <3> QED BY <2>1, <3>1, <3>2, <3>3 DEF Live
  <2> QED BY <2>2, <2>3 DEF RowChange
<1>3. rows' \in [Rows -> RowType]
  BY <1>1, <1>2
<1> QED BY <1>1, <1>2, <1>3

\* What a request saw stays true of a row that has not changed.
LEMMA SeenStays ==
  ASSUME IInv, RowChange, outbox' = outbox, NEW h \in Handlers,
         requests'[h] = requests[h]
  PROVE  SeenOK(h)'
<1>1. SUFFICES ASSUME requests[h].pc = "write",
                      Op(Current(h)) \in {"update", "delete"}
               PROVE  SeenOK(h)'
  BY DEF SeenOK, Op, Current
<1>2. PICK i \in Items, r \in Rows :
        /\ i = Current(h) /\ r = Target(i)
  BY <1>1, CurrentIn, ItemType DEF IInv, RequestOK
<1>3. /\ requests[h].seen <= rows[r].version
      /\ requests[h].seen = rows[r].version /\ Newer(i) =>
           Kind(i) = "transaction" /\ Op(i) = "delete"
  BY <1>1, <1>2 DEF IInv, SeenOK
<1>4. /\ rows'[r].version >= rows[r].version
      /\ rows'[r].version = rows[r].version => rows'[r] = rows[r]
      /\ rows'[r].version \in Nat /\ rows[r].version \in Nat
      /\ requests[h].seen \in Nat
  BY RowsStep DEF IInv, TypeOK, RowType, RequestType
<1>5. /\ requests'[h].seen <= rows'[r].version
      /\ requests'[h].seen = rows'[r].version =>
           rows'[r] = rows[r] /\ requests[h].seen = rows[r].version
  BY <1>3, <1>4
<1>6. i = Current(h)'
  BY <1>2 DEF Current
<1>7. Target(i)' = r /\ Op(i)' = Op(i) /\ Kind(i)' = Kind(i)
  BY <1>2 DEF Target, Op, Kind
<1>8. rows'[r] = rows[r] => (Newer(i)' <=> Newer(i))
  BY <1>2, <1>7 DEF Newer
<1> QED BY <1>2, <1>3, <1>5, <1>6, <1>7, <1>8 DEF SeenOK

\* Fewer requests try an item, or as many.
LEMMA FewerTries ==
  ASSUME NEW i, \A h \in Handlers :
           i \in requests'[h].todo => i \in requests[h].todo
  PROVE  /\ Cardinality(Tries(i)') <= Cardinality(Tries(i))
         /\ Cardinality(Tries(i)') \in Nat
<1>1. IsFiniteSet(Tries(i))
  BY TriesType
<1>2. Tries(i)' \subseteq Tries(i)
  BY DEF Tries
<1> QED BY <1>1, <1>2, FS_Subset, FS_CardinalityType

\* Nothing is made: what has been made goes on being all right.
LEMMA MadeStays ==
  ASSUME IInv, RowChange, UNCHANGED <<made, outbox>>, NEW i \in Items
  PROVE  MadeOK(i)' /\ made'[i] = made[i]
<1>1. Target(i) \in Rows /\ MadeOK(i)
  BY ItemType DEF IInv
<1>2. PICK r \in Rows : r = Target(i)
  BY <1>1
<1>3. Target(i)' = r /\ Kind(i)' = Kind(i)
  BY <1>2 DEF Kind, Target
<1>4. /\ rows'[r].state = "none" => rows[r].state = "none"
      /\ deletions[r] \in Nat /\ deletions'[r] \in Nat
      /\ deletions'[r] >= deletions[r]
      /\ Live(r) /\ ~Live(r)' => deletions'[r] = deletions[r] + 1
  BY RowsStep DEF IInv
<1>5. made[i] \in Nat
  BY ItemType DEF IInv
<1>6. CASE Kind(i) = "transaction"
  BY <1>1, <1>2, <1>3, <1>4, <1>6 DEF MadeOK
<1>7. CASE Kind(i) = "budget"
  <2>1. /\ made[i] <= 1 + deletions[r]
        /\ ~Live(r) => made[i] <= deletions[r]
    BY <1>1, <1>2, <1>7 DEF MadeOK
  <2>2. /\ made[i] <= 1 + deletions'[r]
        /\ ~Live(r)' => made[i] <= deletions'[r]
    BY <1>4, <1>5, <2>1
  <2> QED BY <1>3, <1>7, <2>2 DEF MadeOK, Live
<1> QED BY <1>3, <1>6, <1>7 DEF MadeOK

(***************************************************************************)
(* A step of request h that is neither its first nor its last: what it is  *)
(* done with has a result, and what it makes it tries no more.             *)
(***************************************************************************)
LEMMA HandlerStep ==
  ASSUME IInv, NEW h \in Handlers, NEW q \in RequestType,
         requests' = [requests EXCEPT ![h] = q],
         q.todo \subseteq requests[h].todo, q.pc \in {"next", "write"},
         q.pc = "write" => q.todo # {},
         \A i \in Items :
           i \in requests[h].todo \ q.todo \/ requests[h].results[i] # "none"
             => q.results[i] # "none",
         UNCHANGED <<now, period, outbox, status, awaiting, losses>>,
         faults' \in Nat, RowChange, made' \in [Items -> Nat],
         \A i \in Items :
           /\ MadeOK(i)'
           /\ made'[i] + Cardinality(Tries(i)')
                <= made[i] + Cardinality(Tries(i)),
         SeenOK(h)'
  PROVE  IInv'
<1>1. /\ requests' \in [Handlers -> RequestType] /\ requests'[h] = q
      /\ \A d \in Handlers \ {h} : requests'[d] = requests[d]
  BY DEF IInv, TypeOK
<1>2. /\ rows' \in [Rows -> RowType] /\ deletions' \in [Rows -> Nat]
      /\ \A r \in Rows : RowOK(r)'
  BY RowsStep DEF IInv
<1>3. TypeOK'
  BY <1>1, <1>2 DEF IInv, TypeOK
<1>4. ASSUME NEW i \in Items
      PROVE  TriesOK(i)'
  <2>1. Unanswered(i)' = Unanswered(i) /\ Unanswered(i) \in Nat
    BY DEF Unanswered
  <2>2. Cardinality(Tries(i)') \in Nat /\ Cardinality(Tries(i)) \in Nat
    BY <1>1, FewerTries, TriesType
  <2>3. made[i] \in Nat /\ made'[i] \in Nat
    BY ItemType DEF IInv
  <2>4. /\ made[i] + Cardinality(Tries(i)) + Unanswered(i) <= 1 + losses
        /\ losses \in Nat /\ losses' = losses
    BY DEF IInv, TypeOK, TriesOK
  <2>5. made'[i] + Cardinality(Tries(i)') <= made[i] + Cardinality(Tries(i))
    OBVIOUS
  <2>6. made'[i] + Cardinality(Tries(i)') + Unanswered(i)' <= 1 + losses'
    BY <2>1, <2>2, <2>3, <2>4, <2>5
  <2> QED BY <2>6 DEF TriesOK
<1>5. ASSUME NEW d \in Handlers
      PROVE  RequestOK(d)' /\ SeenOK(d)'
  <2>1. CASE d = h
    <3>1. RequestOK(h)
      BY DEF IInv
    <3>2. RequestOK(h)'
      BY <1>1, <3>1 DEF RequestOK
    <3> QED BY <2>1, <3>2
  <2>2. CASE d # h
    <3>1. requests'[d] = requests[d] /\ RequestOK(d)
      BY <1>1, <2>2 DEF IInv
    <3> QED BY <3>1, SeenStays DEF RequestOK
  <2> QED BY <2>1, <2>2
<1> QED BY <1>2, <1>3, <1>4, <1>5 DEF IInv

\* What Answer makes of a request.
LEMMA AnswerRequest ==
  ASSUME IInv, NEW h \in Handlers, requests[h].todo # {},
         NEW answer \in Answers, Answer(h, answer), NEW i, i = Current(h)
  PROVE  \E q \in RequestType :
           /\ q.pc = "next" /\ q.todo = requests[h].todo \ {i}
           /\ \A j \in Items :
                q.results[j] = IF j = i THEN answer ELSE requests[h].results[j]
           /\ requests' = [requests EXCEPT ![h] = q]
           /\ i \in Items /\ i \in requests[h].todo
<1>1. PICK old \in RequestType : old = requests[h]
  BY DEF IInv, TypeOK
<1>2. i \in Items /\ i \in requests[h].todo
  BY CurrentIn DEF IInv
<1>3. PICK q : q = [pc |-> "next", todo |-> old.todo \ {i}, seen |-> old.seen,
                    results |-> [old.results EXCEPT ![i] = answer]]
  OBVIOUS
<1>4. /\ old.todo \in SUBSET Items /\ old.seen \in Nat
      /\ old.results \in [Items -> Answers \cup {"none"}]
  BY DEF RequestType
<1>5. /\ q.pc = "next" /\ q.todo = old.todo \ {i}
      /\ q.results = [old.results EXCEPT ![i] = answer] /\ q.seen = old.seen
      /\ q.results \in [Items -> Answers \cup {"none"}]
      /\ q \in RequestType
  BY <1>2, <1>3, <1>4 DEF RequestType
<1>6. requests' = [requests EXCEPT ![h] = q]
  BY <1>1, <1>3, Zenon DEF Answer
<1>7. \A j \in Items :
        q.results[j] = IF j = i THEN answer ELSE old.results[j]
  BY <1>4, <1>5
<1> QED BY <1>1, <1>2, <1>5, <1>6, <1>7

\* An item is answered, and nothing is made.
LEMMA AnswerStep ==
  ASSUME IInv, NEW h \in Handlers, requests[h].todo # {},
         NEW answer \in Answers, Answer(h, answer), RowChange,
         UNCHANGED <<now, period, made, outbox, status, awaiting, losses>>,
         faults' \in Nat
  PROVE  IInv'
<1>1. PICK i : i = Current(h)
  OBVIOUS
<1>2. PICK q \in RequestType :
        /\ q.pc = "next" /\ q.todo = requests[h].todo \ {i}
        /\ \A j \in Items :
             q.results[j] = IF j = i THEN answer ELSE requests[h].results[j]
        /\ requests' = [requests EXCEPT ![h] = q]
  BY <1>1, AnswerRequest
<1>3. /\ requests'[h] = q
      /\ \A d \in Handlers \ {h} : requests'[d] = requests[d]
  BY <1>2 DEF IInv, TypeOK
<1>4. ASSUME NEW j \in Items
      PROVE  /\ MadeOK(j)'
             /\ made'[j] + Cardinality(Tries(j)')
                  <= made[j] + Cardinality(Tries(j))
  <2>1. Cardinality(Tries(j)') <= Cardinality(Tries(j))
    BY <1>2, <1>3, FewerTries
  <2>2. MadeOK(j)' /\ made'[j] = made[j] /\ made[j] \in Nat
    BY MadeStays, ItemType DEF IInv
  <2>3. Cardinality(Tries(j)') \in Nat /\ Cardinality(Tries(j)) \in Nat
    BY <1>2, <1>3, FewerTries, TriesType
  <2> QED BY <2>1, <2>2, <2>3
<1>5. SeenOK(h)'
  BY <1>2, <1>3 DEF SeenOK
<1>6. /\ answer # "none" /\ made' \in [Items -> Nat]
      /\ q.todo \subseteq requests[h].todo
  BY <1>2 DEF Answers, IInv, TypeOK
<1>7. \A j \in Items :
        j \in requests[h].todo \ q.todo \/ requests[h].results[j] # "none"
          => q.results[j] # "none"
  BY <1>2, <1>6
<1> QED BY <1>2, <1>4, <1>5, <1>6, <1>7, HandlerStep

-----------------------------------------------------------------------------
(* Each step keeps the invariant.                                          *)

\* The device or a crash: requests begin and end, rows stay as they are.
LEMMA DeviceStep ==
  ASSUME IInv, UNCHANGED <<now, period, rows, deletions, made, outbox, faults>>,
         requests' \in [Handlers -> RequestType],
         status' \in [Items -> Answers \cup {"pending", "none"}],
         awaiting' \in Handlers \cup {NoHandler}, losses' \in Nat,
         \A i \in Items : TriesOK(i)',
         \A h \in Handlers :
           /\ RequestOK(h)'
           /\ requests'[h] = requests[h] \/ requests'[h].pc # "write"
  PROVE  IInv'
<1>1. TypeOK' /\ \A r \in Rows : RowOK(r)'
  BY DEF IInv, TypeOK, RowOK
<1>2. RowChange
  BY RowsSame DEF IInv
<1>3. \A i \in Items : MadeOK(i)'
  BY <1>2, MadeStays
<1>4. ASSUME NEW h \in Handlers
      PROVE  SeenOK(h)'
  <2>1. CASE requests'[h] = requests[h]
    BY <1>2, <2>1, SeenStays
  <2>2. CASE requests'[h].pc # "write"
    BY <2>2 DEF SeenOK
  <2> QED BY <2>1, <2>2
<1> QED BY <1>1, <1>3, <1>4 DEF IInv

\* Another device, the clock or the period.
LEMMA WorldStep ==
  ASSUME IInv, RowChange, now' \in Nat, period' \in {0, 1},
         UNCHANGED <<made, outbox, status, requests, awaiting, losses, faults>>
  PROVE  IInv'
<1>1. /\ rows' \in [Rows -> RowType] /\ deletions' \in [Rows -> Nat]
      /\ \A r \in Rows : RowOK(r)'
  BY RowsStep DEF IInv
<1>2. TypeOK'
  BY <1>1 DEF IInv, TypeOK
<1>3. \A i \in Items : MadeOK(i)' /\ TriesOK(i)'
  BY MadeStays DEF IInv, TriesOK, Tries, Unanswered
<1>4. \A h \in Handlers : RequestOK(h)' /\ SeenOK(h)'
  BY SeenStays DEF IInv, RequestOK
<1> QED BY <1>1, <1>2, <1>3, <1>4 DEF IInv

\* The pending items are tried once more, and the device waits.
LEMMA StepSend ==
  ASSUME IInv, NEW h \in Handlers, Send(h)
  PROVE  IInv'
<1>1. PICK q : q = [Free EXCEPT !.pc = "parse", !.todo = Pending]
  OBVIOUS
<1>2. /\ q.pc = "parse" /\ q.todo = Pending /\ q \in RequestType
      /\ \A i \in Items : q.results[i] = "none"
  <2>1. q = [pc |-> "parse", todo |-> Pending, seen |-> 0,
             results |-> [i \in Items |-> "none"]]
    BY <1>1 DEF Free
  <2> QED BY <2>1 DEF RequestType, Pending
<1>3. /\ requests' = [requests EXCEPT ![h] = q] /\ awaiting' = h
      /\ awaiting = NoHandler /\ requests[h].pc = "free"
      /\ UNCHANGED <<now, period, rows, deletions, made, outbox, status, losses,
                     faults>>
  BY <1>1 DEF Send, extra
<1>4. /\ requests' \in [Handlers -> RequestType] /\ requests'[h] = q
      /\ \A d \in Handlers \ {h} : requests'[d] = requests[d]
  BY <1>2, <1>3 DEF IInv, TypeOK
<1>5. h # NoHandler
  BY SyncPushAssumption
<1>6. ASSUME NEW i \in Items
      PROVE  TriesOK(i)'
  <2>1. /\ TriesOK(i) /\ made[i] \in Nat /\ losses \in Nat
        /\ Cardinality(Tries(i)) \in Nat /\ IsFiniteSet(Tries(i))
    BY ItemType, TriesType DEF IInv, TypeOK
  <2>2. made'[i] = made[i] /\ losses' = losses /\ Unanswered(i)' = 0
    BY <1>3, <1>5 DEF Unanswered
  <2>3. CASE status[i] = "pending"
    <3>1. Tries(i)' = Tries(i) \cup {h} /\ h \notin Tries(i)
      BY <1>2, <1>3, <1>4, <2>3 DEF Tries, Pending, IInv, RequestOK
    <3>2. Cardinality(Tries(i)') = Cardinality(Tries(i)) + 1
      BY <2>1, <3>1, FS_AddElement
    <3>3. Unanswered(i) = 1
      BY <1>3, <2>3 DEF Unanswered
    <3>4. made'[i] + Cardinality(Tries(i)') + Unanswered(i)' <= 1 + losses'
      BY <2>1, <2>2, <3>2, <3>3 DEF TriesOK
    <3> QED BY <3>4 DEF TriesOK
  <2>4. CASE status[i] # "pending"
    <3>1. /\ Cardinality(Tries(i)') <= Cardinality(Tries(i))
          /\ Cardinality(Tries(i)') \in Nat
      BY <1>2, <1>4, <2>4, FewerTries DEF Pending
    <3>2. Unanswered(i) = 0
      BY <2>4 DEF Unanswered
    <3>3. made'[i] + Cardinality(Tries(i)') + Unanswered(i)' <= 1 + losses'
      BY <2>1, <2>2, <3>1, <3>2 DEF TriesOK
    <3> QED BY <3>3 DEF TriesOK
  <2> QED BY <2>3, <2>4
<1>7. ASSUME NEW d \in Handlers
      PROVE  RequestOK(d)'
  <2>1. CASE d = h
    BY <1>2, <1>3, <1>4, <2>1 DEF RequestOK, Pending
  <2>2. CASE d # h
    BY <1>3, <1>4, <2>2 DEF RequestOK, IInv
  <2> QED BY <2>1, <2>2
<1>8. \A d \in Handlers :
        requests'[d] = requests[d] \/ requests'[d].pc # "write"
  BY <1>2, <1>4
<1>9. /\ status' \in [Items -> Answers \cup {"pending", "none"}]
      /\ awaiting' \in Handlers \cup {NoHandler} /\ losses' \in Nat
  BY <1>3 DEF IInv, TypeOK
<1> QED BY <1>3, <1>4, <1>6, <1>7, <1>8, <1>9, DeviceStep

\* The device gives up an answer: what is pending will be tried again.
LEMMA StepTimeout ==
  ASSUME IInv, Timeout
  PROVE  IInv'
<1>1. /\ awaiting # NoHandler /\ awaiting' = NoHandler /\ losses' = losses + 1
      /\ UNCHANGED <<now, period, rows, deletions, made, outbox, status,
                     requests, faults>>
  BY DEF Timeout
<1>2. ASSUME NEW i \in Items
      PROVE  TriesOK(i)'
  <2>1. /\ made'[i] = made[i] /\ Tries(i)' = Tries(i)
        /\ Unanswered(i)' \in {0, 1} /\ Unanswered(i) = 0
    BY <1>1 DEF Tries, Unanswered
  <2>2. /\ TriesOK(i) /\ made[i] \in Nat /\ losses \in Nat
        /\ Cardinality(Tries(i)) \in Nat
    BY ItemType, TriesType DEF IInv, TypeOK
  <2>3. made'[i] + Cardinality(Tries(i)') + Unanswered(i)' <= 1 + losses'
    BY <1>1, <2>1, <2>2 DEF TriesOK
  <2> QED BY <2>3 DEF TriesOK
<1>3. \A h \in Handlers : RequestOK(h)'
  BY <1>1, SyncPushAssumption DEF IInv, RequestOK
<1>4. /\ requests' \in [Handlers -> RequestType]
      /\ status' \in [Items -> Answers \cup {"pending", "none"}]
      /\ losses' \in Nat
  BY <1>1 DEF IInv, TypeOK
<1> QED BY <1>1, <1>2, <1>3, <1>4, DeviceStep

\* The server stops: nothing is tried any more, all that is pending will be.
LEMMA StepCrash ==
  ASSUME IInv, Crash
  PROVE  IInv'
<1>1. /\ requests' = [h \in Handlers |-> Free] /\ awaiting' = NoHandler
      /\ losses' = losses + 1
      /\ UNCHANGED <<now, period, rows, deletions, made, outbox, status,
                     faults>>
  BY DEF Crash
<1>2. ASSUME NEW i \in Items
      PROVE  TriesOK(i)'
  <2>1. made'[i] = made[i] /\ Tries(i)' = {} /\ Unanswered(i)' \in {0, 1}
    BY <1>1, FreeType DEF Tries, Unanswered
  <2>2. Cardinality(Tries(i)') = 0
    BY <2>1, FS_EmptySet
  <2>3. /\ TriesOK(i) /\ made[i] \in Nat /\ losses \in Nat
        /\ Cardinality(Tries(i)) \in Nat /\ Unanswered(i) \in Nat
    BY ItemType, TriesType DEF IInv, TypeOK
  <2>4. made'[i] + Cardinality(Tries(i)') + Unanswered(i)' <= 1 + losses'
    BY <1>1, <2>1, <2>2, <2>3 DEF TriesOK
  <2> QED BY <2>4 DEF TriesOK
<1>3. \A h \in Handlers : RequestOK(h)' /\ requests'[h].pc # "write"
  BY <1>1, FreeType, SyncPushAssumption DEF RequestOK
<1>4. /\ requests' \in [Handlers -> RequestType]
      /\ status' \in [Items -> Answers \cup {"pending", "none"}]
      /\ losses' \in Nat
  BY <1>1, FreeType DEF IInv, TypeOK
<1> QED BY <1>1, <1>2, <1>3, <1>4, DeviceStep

\* The answer arrives, and with it one for each pending item, or it does not.
LEMMA StepRespond ==
  ASSUME IInv, NEW h \in Handlers, Respond(h)
  PROVE  IInv'
<1>1. /\ requests' = [requests EXCEPT ![h] = Free] /\ requests[h].todo = {}
      /\ UNCHANGED <<now, period, rows, deletions, made, outbox, losses,
                     faults>>
      /\ IF awaiting = h
         THEN /\ awaiting' = NoHandler
              /\ status' = [i \in Items |-> IF requests[h].results[i] = "none"
                                            THEN status[i]
                                            ELSE requests[h].results[i]]
         ELSE UNCHANGED <<awaiting, status>>
  BY DEF Respond, extra
<1>2. /\ requests' \in [Handlers -> RequestType] /\ requests'[h] = Free
      /\ \A d \in Handlers \ {h} : requests'[d] = requests[d]
  BY <1>1, FreeType DEF IInv, TypeOK
<1>3. requests[h].results \in [Items -> Answers \cup {"none"}]
  BY DEF IInv, TypeOK, RequestType
<1>4. /\ status' \in [Items -> Answers \cup {"pending", "none"}]
      /\ awaiting' \in Handlers \cup {NoHandler} /\ losses' \in Nat
  BY <1>1, <1>3 DEF IInv, TypeOK
<1>5. ASSUME NEW i \in Items
      PROVE  Unanswered(i)' <= Unanswered(i)
  <2>1. CASE awaiting = h
    <3>1. status[i] = "pending" => requests[h].results[i] # "none"
      BY <1>1, <2>1 DEF IInv, RequestOK
    <3>2. status'[i] # "pending"
      BY <1>1, <1>3, <2>1, <3>1 DEF Answers
    <3> QED BY <3>2 DEF Unanswered
  <2>2. CASE awaiting # h
    BY <1>1, <2>2 DEF Unanswered
  <2> QED BY <2>1, <2>2
<1>6. ASSUME NEW i \in Items
      PROVE  TriesOK(i)'
  <2>1. /\ Cardinality(Tries(i)') <= Cardinality(Tries(i))
        /\ Cardinality(Tries(i)') \in Nat
    BY <1>1, <1>2, FreeType, FewerTries
  <2>2. /\ TriesOK(i) /\ made[i] \in Nat /\ losses \in Nat
        /\ Cardinality(Tries(i)) \in Nat /\ Unanswered(i) \in Nat
    BY ItemType, TriesType DEF IInv, TypeOK
  <2>3. made'[i] = made[i] /\ losses' = losses /\ Unanswered(i)' \in Nat
    BY <1>1 DEF Unanswered
  <2>4. made'[i] + Cardinality(Tries(i)') + Unanswered(i)' <= 1 + losses'
    BY <1>5, <2>1, <2>2, <2>3 DEF TriesOK
  <2> QED BY <2>4 DEF TriesOK
<1>7. ASSUME NEW d \in Handlers
      PROVE  /\ RequestOK(d)'
             /\ requests'[d] = requests[d] \/ requests'[d].pc # "write"
  <2>1. CASE d = h
    <3>1. awaiting' # h
      BY <1>1, SyncPushAssumption
    <3> QED BY <1>2, <2>1, <3>1, FreeType DEF RequestOK
  <2>2. CASE d # h
    <3>1. requests'[d] = requests[d] /\ RequestOK(d)
      BY <1>2, <2>2 DEF IInv
    <3>2. awaiting' = d => awaiting = d /\ status' = status
      BY <1>1, <2>2, SyncPushAssumption
    <3> QED BY <3>1, <3>2 DEF RequestOK
  <2> QED BY <2>1, <2>2
<1> QED BY <1>1, <1>2, <1>4, <1>6, <1>7, DeviceStep

\* The batch is refused: its items stay pending, and will be tried again.
LEMMA StepRefuse ==
  ASSUME IInv, NEW h \in Handlers, Refuse(h)
  PROVE  IInv'
<1>1. /\ requests' = [requests EXCEPT ![h] = Free] /\ requests[h].pc = "parse"
      /\ UNCHANGED <<now, period, rows, deletions, made, outbox, status, losses,
                     faults>>
      /\ awaiting' = IF awaiting = h THEN NoHandler ELSE awaiting
  BY DEF Refuse, extra
<1>2. /\ requests' \in [Handlers -> RequestType] /\ requests'[h] = Free
      /\ \A d \in Handlers \ {h} : requests'[d] = requests[d]
  BY <1>1, FreeType DEF IInv, TypeOK
<1>3. /\ awaiting' \in Handlers \cup {NoHandler} /\ losses' \in Nat
      /\ status' \in [Items -> Answers \cup {"pending", "none"}]
  BY <1>1 DEF IInv, TypeOK
<1>4. ASSUME NEW i \in Items
      PROVE  TriesOK(i)'
  <2>1. /\ TriesOK(i) /\ made[i] \in Nat /\ losses \in Nat
        /\ Cardinality(Tries(i)) \in Nat /\ IsFiniteSet(Tries(i))
        /\ Unanswered(i) \in {0, 1}
    BY ItemType, TriesType DEF IInv, TypeOK
  <2>2. Tries(i)' = Tries(i) \ {h}
    BY <1>2, FreeType DEF Tries
  <2>3. CASE awaiting = h /\ status[i] = "pending"
    <3>1. h \in Tries(i)
      BY <1>1, <2>3 DEF IInv, RequestOK, Tries
    <3>2. Cardinality(Tries(i)') = Cardinality(Tries(i)) - 1
      BY <2>1, <2>2, <3>1, FS_RemoveElement
    <3>3. Unanswered(i)' \in {0, 1}
      BY DEF Unanswered
    <3>4. Unanswered(i) = 0
      BY <2>3, SyncPushAssumption DEF Unanswered
    <3> QED BY <1>1, <2>1, <3>2, <3>3, <3>4 DEF TriesOK
  <2>4. CASE ~(awaiting = h /\ status[i] = "pending")
    <3>1. /\ Cardinality(Tries(i)') <= Cardinality(Tries(i))
          /\ Cardinality(Tries(i)') \in Nat
      BY <1>2, FreeType, FewerTries
    <3>2. Unanswered(i)' = Unanswered(i)
      BY <1>1, <2>4 DEF Unanswered
    <3> QED BY <1>1, <2>1, <3>1, <3>2 DEF TriesOK
  <2> QED BY <2>3, <2>4
<1>5. ASSUME NEW d \in Handlers
      PROVE  /\ RequestOK(d)'
             /\ requests'[d] = requests[d] \/ requests'[d].pc # "write"
  <2>1. CASE d = h
    <3>1. awaiting' # h
      BY <1>1, SyncPushAssumption
    <3> QED BY <1>2, <2>1, <3>1, FreeType DEF RequestOK
  <2>2. CASE d # h
    <3>1. requests'[d] = requests[d] /\ RequestOK(d)
      BY <1>2, <2>2 DEF IInv
    <3>2. awaiting' = d => awaiting = d /\ status' = status
      BY <1>1, <2>2, SyncPushAssumption
    <3> QED BY <3>1, <3>2 DEF RequestOK
  <2> QED BY <2>1, <2>2
<1> QED BY <1>1, <1>2, <1>3, <1>4, <1>5, DeviceStep

\* Malformed items are answered at once.
LEMMA StepParse ==
  ASSUME IInv, NEW h \in Handlers, Parse(h)
  PROVE  IInv'
<1>1. PICK old \in RequestType, bad \in SUBSET Items :
        old = requests[h] /\ bad = Malformed(h)
  BY DEF IInv, TypeOK, RequestType, Malformed
<1>2. PICK q : q = [pc |-> "next", todo |-> old.todo \ bad, seen |-> old.seen,
                    results |-> [i \in Items |-> IF i \in bad THEN "rejected"
                                                 ELSE old.results[i]]]
  OBVIOUS
<1>3. /\ q.pc = "next" /\ q.todo = old.todo \ bad /\ q \in RequestType
      /\ \A i \in Items : q.results[i] = IF i \in bad THEN "rejected"
                                         ELSE old.results[i]
  BY <1>2 DEF RequestType, Answers
<1>4. requests' = [requests EXCEPT ![h] = q]
  BY <1>1, <1>2, Zenon DEF Parse
<1>5. /\ UNCHANGED <<now, period, rows, deletions, made, outbox, status,
                     awaiting, losses, faults>>
  BY DEF Parse, extra
<1>6. RowChange /\ faults' \in Nat /\ made' \in [Items -> Nat]
  BY <1>5, RowsSame DEF IInv, TypeOK
<1>7. /\ requests'[h] = q
      /\ \A d \in Handlers \ {h} : requests'[d] = requests[d]
  BY <1>4 DEF IInv, TypeOK
<1>8. ASSUME NEW i \in Items
      PROVE  /\ MadeOK(i)'
             /\ made'[i] + Cardinality(Tries(i)')
                  <= made[i] + Cardinality(Tries(i))
  <2>1. /\ Cardinality(Tries(i)') <= Cardinality(Tries(i))
        /\ Cardinality(Tries(i)') \in Nat
    BY <1>1, <1>3, <1>7, FewerTries
  <2>2. /\ MadeOK(i)' /\ made'[i] = made[i] /\ made[i] \in Nat
        /\ Cardinality(Tries(i)) \in Nat
    BY <1>5, <1>6, MadeStays, ItemType, TriesType DEF IInv
  <2> QED BY <2>1, <2>2
<1>9. SeenOK(h)'
  BY <1>3, <1>7 DEF SeenOK
<1>10. \A i \in Items :
         i \in requests[h].todo \ q.todo \/ requests[h].results[i] # "none"
           => q.results[i] # "none"
  BY <1>1, <1>3
<1>11. q.todo \subseteq requests[h].todo
  BY <1>1, <1>3
<1> QED BY <1>3, <1>4, <1>5, <1>6, <1>8, <1>9, <1>10, <1>11, HandlerStep

\* The item at hand passes its check and waits to be written.
LEMMA PassStep ==
  ASSUME IInv, NEW h \in Handlers, NEW q \in RequestType,
         q.pc = "write", q.todo = requests[h].todo, q.todo # {},
         q.results = requests[h].results,
         requests' = [requests EXCEPT ![h] = q],
         UNCHANGED <<now, period, rows, deletions, made, outbox, status,
                     awaiting, losses, faults>>,
         NEW i \in Items, i = Current(h),
         Op(i) \in {"update", "delete"} =>
           /\ q.seen = rows[Target(i)].version
           /\ Newer(i) => Kind(i) = "transaction" /\ Op(i) = "delete"
  PROVE  IInv'
<1>1. RowChange /\ faults' \in Nat /\ made' \in [Items -> Nat]
  BY RowsSame DEF IInv, TypeOK
<1>2. /\ requests'[h] = q
      /\ \A d \in Handlers \ {h} : requests'[d] = requests[d]
  BY DEF IInv, TypeOK
<1>3. ASSUME NEW j \in Items
      PROVE  /\ MadeOK(j)'
             /\ made'[j] + Cardinality(Tries(j)')
                  <= made[j] + Cardinality(Tries(j))
  <2>1. /\ Cardinality(Tries(j)') <= Cardinality(Tries(j))
        /\ Cardinality(Tries(j)') \in Nat
    BY <1>2, FewerTries
  <2>2. /\ MadeOK(j)' /\ made'[j] = made[j] /\ made[j] \in Nat
        /\ Cardinality(Tries(j)) \in Nat
    BY <1>1, MadeStays, ItemType, TriesType DEF IInv
  <2> QED BY <2>1, <2>2
<1>4. SeenOK(h)'
  <2>1. i = Current(h)'
    BY <1>2 DEF Current
  <2>2. PICK r \in Rows : r = Target(i) /\ rows[r].version \in Nat
    BY ItemType DEF IInv, TypeOK, RowType
  <2>3. Target(i)' = r /\ Op(i)' = Op(i) /\ Kind(i)' = Kind(i)
    BY <2>2 DEF Target, Op, Kind
  <2>4. Newer(i)' <=> Newer(i)
    BY <2>2, <2>3 DEF Newer
  <2> QED BY <1>2, <2>1, <2>2, <2>3, <2>4 DEF SeenOK
<1>5. \A j \in Items :
        j \in requests[h].todo \ q.todo \/ requests[h].results[j] # "none"
          => q.results[j] # "none"
  OBVIOUS
<1> QED BY <1>1, <1>3, <1>4, <1>5, HandlerStep

\* A transaction is looked up.
LEMMA StepLookUp ==
  ASSUME IInv, NEW h \in Handlers, LookUp(h)
  PROVE  IInv'
<1>1. /\ requests[h].todo # {} /\ Op(Current(h)) = "create"
      /\ UNCHANGED <<now, period, rows, deletions, made, outbox, status,
                     awaiting, losses, faults>>
      /\ \/ Answer(h, "skipped")
         \/ requests' = [requests EXCEPT ![h].pc = "write"]
  BY DEF LookUp, At, extra
<1>2. RowChange /\ faults' \in Nat /\ "skipped" \in Answers
  BY <1>1, RowsSame DEF IInv, TypeOK, Answers
<1>3. CASE Answer(h, "skipped")
  BY <1>1, <1>2, <1>3, AnswerStep
<1>4. CASE requests' = [requests EXCEPT ![h].pc = "write"]
  <2>1. PICK old \in RequestType : old = requests[h]
    BY DEF IInv, TypeOK
  <2>2. PICK q : q = [old EXCEPT !.pc = "write"]
    OBVIOUS
  <2>3. /\ q \in RequestType /\ q.pc = "write" /\ q.todo = old.todo
        /\ q.results = old.results
    BY <2>2 DEF RequestType
  <2>4. requests' = [requests EXCEPT ![h] = q]
    BY <1>4, <2>1, <2>2, Zenon DEF IInv, TypeOK
  <2>5. PICK i \in Items : i = Current(h)
    BY <1>1, CurrentIn DEF IInv
  <2> QED BY <1>1, <2>1, <2>3, <2>4, <2>5, PassStep
<1> QED BY <1>1, <1>3, <1>4

\* An update or a delete is checked against the row as it is.
LEMMA StepFetch ==
  ASSUME IInv, NEW h \in Handlers, Fetch(h)
  PROVE  IInv'
<1>1. /\ requests[h].todo # {}
      /\ UNCHANGED <<now, period, rows, deletions, made, outbox, status,
                     awaiting, losses, faults>>
  BY DEF Fetch, At, extra
<1>2. PICK i \in Items, r \in Rows : i = Current(h) /\ r = Target(i)
  BY <1>1, CurrentIn, ItemType DEF IInv
<1>3. RowChange /\ faults' \in Nat
  BY <1>1, RowsSame DEF IInv, TypeOK
<1>4. \/ \E answer \in Answers : Answer(h, answer)
      \/ /\ Newer(i) => Kind(i) = "transaction" /\ Op(i) = "delete"
         /\ requests' = [requests EXCEPT ![h].pc = "write",
                                         ![h].seen = rows[r].version]
  BY <1>2 DEF Fetch, Answers
<1>5. CASE \E answer \in Answers : Answer(h, answer)
  BY <1>1, <1>3, <1>5, AnswerStep
<1>6. CASE /\ Newer(i) => Kind(i) = "transaction" /\ Op(i) = "delete"
           /\ requests' = [requests EXCEPT ![h].pc = "write",
                                           ![h].seen = rows[r].version]
  <2>1. PICK old \in RequestType, version \in Nat :
          old = requests[h] /\ version = rows[r].version
    BY DEF IInv, TypeOK, RowType
  <2>2. PICK q : q = [old EXCEPT !.pc = "write", !.seen = version]
    OBVIOUS
  <2>3. /\ q \in RequestType /\ q.pc = "write" /\ q.todo = old.todo
        /\ q.results = old.results /\ q.seen = version
    BY <2>2 DEF RequestType
  <2>4. requests' = [requests EXCEPT ![h] = q]
    BY <1>6, <2>1, <2>2, Zenon DEF IInv, TypeOK
  <2>5. /\ q.todo = requests[h].todo /\ q.todo # {}
        /\ q.results = requests[h].results
        /\ q.seen = rows[Target(i)].version
    BY <1>1, <1>2, <2>1, <2>3
  <2>6. /\ Newer(i) => Kind(i) = "transaction" /\ Op(i) = "delete"
        /\ i = Current(h)
    BY <1>2, <1>6
  <2> QED BY <1>1, <2>3, <2>4, <2>5, <2>6, PassStep
<1> QED BY <1>4, <1>5, <1>6

\* The write of an update or a delete, if its row is still live and open.
LEMMA StepWrite ==
  ASSUME IInv, NEW h \in Handlers, Write(h)
  PROVE  IInv'
<1>1. /\ requests[h].todo # {}
      /\ UNCHANGED <<now, period, made, outbox, status, awaiting, losses,
                     faults>>
  BY DEF Write, At, extra
<1>2. PICK i \in Items, r \in Rows : i = Current(h) /\ r = Target(i)
  BY <1>1, CurrentIn, ItemType DEF IInv
<1>3. \E answer \in Answers : Answer(h, answer)
  BY DEF Write, Answers
<1>4. \/ UNCHANGED <<rows, deletions>>
      \/ Live(r) /\ \E state \in {"live", "deleted"} : Change(r, state)
  BY <1>2 DEF Write
<1>5. RowChange
  BY <1>2, <1>4, RowsSame, OneRow DEF IInv, Live
<1>6. faults' \in Nat
  BY <1>1 DEF IInv, TypeOK
<1> QED BY <1>1, <1>3, <1>5, <1>6, AnswerStep

\* An answer that changes nothing.
LEMMA StepReject ==
  ASSUME IInv, NEW h \in Handlers, RejectContribution(h) \/ Fault(h)
  PROVE  IInv'
<1>1. /\ requests[h].todo # {} /\ Answer(h, "rejected")
      /\ UNCHANGED <<now, period, rows, deletions, made, outbox, status,
                     awaiting, losses>>
      /\ faults' \in {faults, faults + 1}
  BY DEF RejectContribution, Fault, At, extra
<1>2. RowChange /\ faults' \in Nat /\ "rejected" \in Answers
  BY <1>1, RowsSame DEF IInv, TypeOK, Answers
<1> QED BY <1>1, <1>2, AnswerStep

(***************************************************************************)
(* A create makes what its item is about once more, and the request that   *)
(* made it tries it no more.                                               *)
(***************************************************************************)
LEMMA MakeStep ==
  ASSUME IInv, NEW h \in Handlers, requests[h].todo # {},
         NEW i \in Items, i = Current(h), Answer(h, "applied"), RowChange,
         made' = [made EXCEPT ![i] = @ + 1],
         UNCHANGED <<now, period, outbox, status, awaiting, losses, faults>>,
         Kind(i) = "transaction" =>
           made[i] = 0 /\ rows'[Target(i)].state # "none",
         Kind(i) = "budget" =>
           ~Live(Target(i)) /\ rows'[Target(i)].state = "live"
  PROVE  IInv'
<1>1. PICK q \in RequestType :
        /\ q.pc = "next" /\ q.todo = requests[h].todo \ {i}
        /\ \A j \in Items :
             q.results[j] = IF j = i THEN "applied" ELSE requests[h].results[j]
        /\ requests' = [requests EXCEPT ![h] = q]
        /\ i \in requests[h].todo
  BY AnswerRequest DEF Answers
<1>2. /\ requests'[h] = q
      /\ \A d \in Handlers \ {h} : requests'[d] = requests[d]
  BY <1>1 DEF IInv, TypeOK
<1>3. PICK r \in Rows : r = Target(i) /\ made[i] \in Nat
  BY ItemType DEF IInv
<1>4. /\ made' \in [Items -> Nat] /\ made'[i] = made[i] + 1
      /\ \A j \in Items \ {i} : made'[j] = made[j]
  BY <1>3 DEF IInv, TypeOK
<1>5. /\ \A s \in Rows :
           /\ rows'[s].state = "none" => rows[s].state = "none"
           /\ deletions[s] \in Nat /\ deletions'[s] \in Nat
           /\ deletions'[s] >= deletions[s]
           /\ Live(s) /\ ~Live(s)' => deletions'[s] = deletions[s] + 1
  BY RowsStep DEF IInv
<1>6. \A j \in Items : Kind(j)' = Kind(j) /\ Target(j)' = Target(j)
  BY DEF Kind, Target
<1>7. ASSUME NEW j \in Items
      PROVE  MadeOK(j)'
  <2>1. PICK s \in Rows : s = Target(j) /\ made[j] \in Nat /\ MadeOK(j)
    BY ItemType DEF IInv
  <2>2. CASE j = i
    <3>1. ASSUME Kind(i) = "transaction"
          PROVE  made'[i] <= 1 /\ rows'[r].state # "none"
      BY <1>3, <1>4, <3>1
    <3>2. ASSUME Kind(i) = "budget"
          PROVE  made'[i] <= 1 + deletions'[r] /\ rows'[r].state = "live"
      <4>1. made[i] <= deletions[r]
        BY <1>3, <2>1, <2>2, <3>2 DEF MadeOK
      <4> QED BY <1>3, <1>4, <1>5, <3>2, <4>1
    <3> QED BY <1>3, <1>6, <2>2, <3>1, <3>2 DEF MadeOK, Live
  <2>3. CASE j # i
    <3>1. made'[j] = made[j]
      BY <1>4, <2>3
    <3>2. CASE Kind(j) = "transaction"
      BY <1>5, <1>6, <2>1, <3>1, <3>2 DEF MadeOK
    <3>3. CASE Kind(j) = "budget"
      <4>1. /\ made[j] <= 1 + deletions[s]
            /\ ~Live(s) => made[j] <= deletions[s]
        BY <2>1, <3>3 DEF MadeOK
      <4>2. /\ made[j] <= 1 + deletions'[s]
            /\ ~Live(s)' => made[j] <= deletions'[s]
        BY <1>5, <2>1, <4>1
      <4> QED BY <1>6, <2>1, <3>1, <3>3, <4>2 DEF MadeOK, Live
    <3> QED BY <1>6, <3>2, <3>3 DEF MadeOK
  <2> QED BY <2>2, <2>3
<1>8. ASSUME NEW j \in Items
       PROVE  made'[j] + Cardinality(Tries(j)')
                <= made[j] + Cardinality(Tries(j))
  <2>1. CASE j = i
    <3>1. Tries(i)' = Tries(i) \ {h} /\ h \in Tries(i)
      BY <1>1, <1>2 DEF Tries
    <3>2. IsFiniteSet(Tries(i)) /\ Cardinality(Tries(i)) \in Nat
      BY TriesType
    <3>3. Cardinality(Tries(i)') = Cardinality(Tries(i)) - 1
      BY <3>1, <3>2, FS_RemoveElement
    <3> QED BY <1>3, <1>4, <2>1, <3>2, <3>3
  <2>2. CASE j # i
    <3>1. /\ Cardinality(Tries(j)') <= Cardinality(Tries(j))
          /\ Cardinality(Tries(j)') \in Nat
      BY <1>1, <1>2, FewerTries
    <3>2. made'[j] = made[j] /\ made[j] \in Nat
      BY <1>4, <2>2, ItemType DEF IInv
    <3> QED BY <3>1, <3>2, TriesType
  <2> QED BY <2>1, <2>2
<1>9. SeenOK(h)'
  BY <1>1, <1>2 DEF SeenOK
<1>10. \A j \in Items :
         j \in requests[h].todo \ q.todo \/ requests[h].results[j] # "none"
           => q.results[j] # "none"
  BY <1>1
<1>11. faults' \in Nat /\ q.todo \subseteq requests[h].todo
  BY <1>1 DEF IInv, TypeOK
<1> QED BY <1>1, <1>4, <1>7, <1>8, <1>9, <1>10, <1>11, HandlerStep

\* A transaction is created, unless its client_id is taken.
LEMMA StepCreate ==
  ASSUME IInv, NEW h \in Handlers, Create(h)
  PROVE  IInv'
<1>1. /\ requests[h].todo # {} /\ Kind(Current(h)) = "transaction"
      /\ UNCHANGED <<now, period, outbox, status, awaiting, losses, faults>>
  BY DEF Create, At
<1>2. PICK i \in Items, r \in Rows : i = Current(h) /\ r = Target(i)
  BY <1>1, CurrentIn, ItemType DEF IInv
<1>3. faults' \in Nat /\ "rejected" \in Answers
  BY <1>1 DEF IInv, TypeOK, Answers
<1>4. CASE Answer(h, "rejected") /\ UNCHANGED <<rows, made, deletions>>
  <2>1. RowChange
    BY <1>4, RowsSame DEF IInv
  <2> QED BY <1>1, <1>3, <1>4, <2>1, AnswerStep
<1>5. CASE /\ ~ClientIDTaken(i) /\ Answer(h, "applied")
           /\ Change(r, "live")
           /\ made' = [made EXCEPT ![i] = @ + 1]
  <2>1. rows[r].state = "none"
    BY <1>2, <1>5 DEF ClientIDTaken
  <2>2. RowChange /\ rows'[r].state = "live"
    BY <1>2, <1>5, <2>1, OneRow DEF IInv
  <2>3. made[i] = 0
    <3>1. MadeOK(i) /\ made[i] \in Nat
      BY ItemType DEF IInv
    <3> QED BY <1>1, <1>2, <2>1, <3>1 DEF MadeOK
  <2>4. Target(i) = r
    BY <1>2
  <2>5. Kind(i) # "budget"
    BY <1>1, <1>2
  <2> QED BY <1>1, <1>2, <1>5, <2>2, <2>3, <2>4, <2>5, MakeStep
<1> QED BY <1>2, <1>4, <1>5 DEF Create

\* Any other entity is created, unless it is a budget that exists.
LEMMA StepCreateOther ==
  ASSUME IInv, NEW h \in Handlers, CreateOther(h)
  PROVE  IInv'
<1>1. /\ requests[h].todo # {} /\ Kind(Current(h)) # "transaction"
      /\ Op(Current(h)) = "create"
      /\ UNCHANGED <<now, period, outbox, status, awaiting, losses, faults>>
  BY DEF CreateOther, At
<1>2. PICK i \in Items, r \in Rows : i = Current(h) /\ r = Target(i)
  BY <1>1, CurrentIn, ItemType DEF IInv
<1>3. faults' \in Nat /\ "rejected" \in Answers
  BY <1>1 DEF IInv, TypeOK, Answers
<1>4. CASE Answer(h, "rejected") /\ UNCHANGED <<rows, made, deletions>>
  <2>1. RowChange
    BY <1>4, RowsSame DEF IInv
  <2> QED BY <1>1, <1>3, <1>4, <2>1, AnswerStep
<1>5. CASE /\ ~BudgetExists(i) /\ Answer(h, "applied") /\ Change(r, "live")
           /\ made' = [made EXCEPT ![i] = @ + 1]
  <2>1. Creating(r) /\ KindOf[r] # "transaction"
    BY <1>1, <1>2 DEF Creating, Kind
  <2>2. RowChange /\ rows'[r].state = "live"
    BY <1>5, <2>1, OneRow DEF IInv
  <2>3. /\ Kind(i) = "budget" => ~Live(r)
        /\ Kind(i) # "transaction" /\ Target(i) = r
    BY <1>1, <1>2, <1>5 DEF BudgetExists
  <2> QED BY <1>1, <1>2, <1>5, <2>2, <2>3, MakeStep
<1> QED BY <1>2, <1>4, <1>5 DEF CreateOther

\* Another device changes a row that is live.
LEMMA EditRows ==
  ASSUME TypeOK, Edit
  PROVE  RowChange
<1>1. PICK r \in {Target(i) : i \in Items} \cup {Account},
           state \in {"live", "deleted"} : Live(r) /\ Change(r, state)
  BY DEF Edit
<1>2. r \in Rows
  BY <1>1, ItemType, SyncPushAssumption
<1> QED BY <1>1, <1>2, OneRow DEF Live

\* A rollover makes new versions of the budgets it copies.
LEMMA RollOverRows ==
  ASSUME TypeOK, RollOver
  PROVE  RowChange
<1>1. /\ rows' = [r \in Rows |->
            IF KindOf[r] \in Budgets /\ Live(r) /\ Creating(r)
            THEN New(r, "live", 1) ELSE rows[r]]
      /\ deletions' = deletions
  BY DEF RollOver, extra
<1>2. ASSUME NEW r \in Rows
      PROVE  rows'[r] = rows[r] \/ RowStep(r, "live")
  <2>1. CASE KindOf[r] \in Budgets /\ Live(r) /\ Creating(r)
    BY <1>1, <2>1 DEF RowStep, Live
  <2>2. CASE ~(KindOf[r] \in Budgets /\ Live(r) /\ Creating(r))
    BY <1>1, <2>2
  <2> QED BY <2>1, <2>2
<1>3. deletions' \in [Rows -> Nat]
  BY <1>1 DEF TypeOK
<1> QED BY <1>1, <1>2, <1>3 DEF RowChange

\* What the world does meanwhile.
LEMMA StepWorld ==
  ASSUME IInv, Edit \/ RollOver \/ Tick
  PROVE  IInv'
<1>1. CASE Edit
  <2>1. RowChange
    BY <1>1, EditRows DEF IInv
  <2>2. /\ now' \in Nat /\ period' \in {0, 1}
        /\ UNCHANGED <<made, outbox, status, requests, awaiting, losses,
                       faults>>
    BY <1>1 DEF Edit, IInv, TypeOK
  <2> QED BY <2>1, <2>2, WorldStep
<1>2. CASE RollOver
  <2>1. RowChange
    BY <1>2, RollOverRows DEF IInv
  <2>2. /\ now' \in Nat /\ period' \in {0, 1}
        /\ UNCHANGED <<made, outbox, status, requests, awaiting, losses,
                       faults>>
    BY <1>2 DEF RollOver, IInv, TypeOK, extra
  <2> QED BY <2>1, <2>2, WorldStep
<1>3. CASE Tick
  <2>1. RowChange
    BY <1>3, RowsSame DEF Tick, IInv, extra
  <2>2. /\ now' \in Nat /\ period' \in {0, 1}
        /\ UNCHANGED <<made, outbox, status, requests, awaiting, losses,
                       faults>>
    BY <1>3 DEF Tick, IInv, TypeOK, extra
  <2> QED BY <2>1, <2>2, WorldStep
<1> QED BY <1>1, <1>2, <1>3

\* Nothing is made and nothing is tried, and everything will be.
LEMMA InitInvariant == Init => IInv
<1> SUFFICES ASSUME Init PROVE IInv
  OBVIOUS
<1>1. TypeOK
  <2>1. now = 0 /\ period = 0 /\ outbox \in Outboxes /\ losses = 0 /\ faults = 0
    BY DEF Init
  <2>2. /\ rows \in [Rows -> RowType] /\ made \in [Items -> Nat]
        /\ deletions \in [Rows -> Nat]
    BY DEF Init, RowType
  <2>3. /\ status \in [Items -> Answers \cup {"pending", "none"}]
        /\ requests \in [Handlers -> RequestType]
        /\ awaiting \in Handlers \cup {NoHandler}
    BY FreeType DEF Init
  <2> QED BY <2>1, <2>2, <2>3 DEF TypeOK
<1>2. \A r \in Rows : RowOK(r)
  BY DEF Init, RowOK
<1>3. ASSUME NEW i \in Items
      PROVE  MadeOK(i) /\ TriesOK(i)
  <2>1. Target(i) \in Rows
    BY <1>1, ItemType
  <2>2. made[i] = 0 /\ deletions[Target(i)] = 0
    BY <2>1 DEF Init
  <2>3. Tries(i) = {}
    BY FreeType DEF Init, Tries
  <2>4. Cardinality(Tries(i)) = 0
    BY <2>3, FS_EmptySet
  <2>5. Unanswered(i) \in {0, 1} /\ losses = 0
    BY DEF Unanswered, Init
  <2> QED BY <2>2, <2>4, <2>5 DEF MadeOK, TriesOK
<1>4. \A h \in Handlers : RequestOK(h) /\ SeenOK(h)
  BY FreeType, SyncPushAssumption DEF Init, RequestOK, SeenOK
<1> QED BY <1>1, <1>2, <1>3, <1>4 DEF IInv

\* Every step, and a stutter, keeps the invariant.
LEMMA StepInvariant == IInv /\ [Next]_vars => IInv'
<1> SUFFICES ASSUME IInv, [Next]_vars PROVE IInv'
  OBVIOUS
<1>1. CASE \E h \in Handlers : Serve(h)
  BY <1>1, StepRefuse, StepParse, StepLookUp, StepCreate, StepCreateOther,
     StepFetch, StepWrite, StepReject, StepRespond DEF Serve
<1>2. CASE \E h \in Handlers : Send(h) \/ Fault(h)
  BY <1>2, StepSend, StepReject
<1>3. CASE Timeout \/ Crash
  BY <1>3, StepTimeout, StepCrash
<1>4. CASE Edit \/ RollOver \/ Tick
  BY <1>4, StepWorld
<1>5. CASE UNCHANGED vars
  <2>1. RowChange
    BY <1>5, RowsSame DEF vars, IInv
  <2>2. /\ now' \in Nat /\ period' \in {0, 1}
        /\ UNCHANGED <<made, outbox, status, requests, awaiting, losses,
                       faults>>
    BY <1>5 DEF vars, IInv, TypeOK
  <2> QED BY <2>1, <2>2, WorldStep
<1> QED BY <1>1, <1>2, <1>3, <1>4, <1>5 DEF Next

\* The invariant holds in every state.
LEMMA Invariant == Spec => []IInv
  BY InitInvariant, StepInvariant, PTL DEF Spec

(***************************************************************************)
(* A transaction is created once, any other item once more for each answer *)
(* that was lost, and a budget of a category only if it was deleted before *)
(* it is made again, however requests overlap, time out, crash and are     *)
(* retried, and whatever other devices edit and delete (sync.go:426-446,   *)
(* sync_push_entities.go:530-565).                                         *)
(***************************************************************************)
THEOREM CreatedOnceCorrect == Spec => []CreatedOnce
<1>1. ASSUME IInv, NEW i \in Items
      PROVE  /\ made[i] <= 1 + losses
             /\ Kind(i) = "transaction" => made[i] <= 1
             /\ Kind(i) = "budget" => made[i] <= 1 + deletions[Target(i)]
  <2>1. /\ TriesOK(i) /\ made[i] \in Nat /\ losses \in Nat
        /\ Cardinality(Tries(i)) \in Nat /\ Unanswered(i) \in Nat
    BY <1>1, ItemType, TriesType DEF IInv, TypeOK
  <2>2. MadeOK(i)
    BY <1>1 DEF IInv
  <2> QED BY <2>1, <2>2 DEF TriesOK, MadeOK
<1>2. IInv => CreatedOnce
  BY <1>1 DEF CreatedOnce
<1> QED BY <1>2, Invariant, PTL

-----------------------------------------------------------------------------
(* No blind overwrite.                                                     *)

\* A handler changes no request but its own.
LEMMA OwnRequest ==
  ASSUME IInv, NEW h \in Handlers, NEW g \in Handlers, g # h,
         Send(g) \/ Serve(g) \/ Fault(g)
  PROVE  requests'[h] = requests[h]
<1>1. requests \in [Handlers -> RequestType]
  BY DEF IInv, TypeOK
<1>2. CASE Send(g)
  BY <1>1, <1>2 DEF Send
<1>3. CASE Refuse(g) \/ Parse(g) \/ Respond(g)
  BY <1>1, <1>3 DEF Refuse, Parse, Respond
<1>4. CASE \E answer \in Answers : Answer(g, answer)
  BY <1>1, <1>4 DEF Answer
<1>5. CASE LookUp(g)
  BY <1>1, <1>5 DEF LookUp, Answer
<1>6. CASE Create(g) \/ CreateOther(g)
  BY <1>1, <1>6 DEF Create, CreateOther, Answer
<1>7. CASE Fetch(g)
  BY <1>1, <1>7 DEF Fetch, Answer
<1>8. CASE Write(g)
  BY <1>1, <1>8 DEF Write, Answer
<1>9. CASE RejectContribution(g) \/ Fault(g)
  BY <1>1, <1>9 DEF RejectContribution, Fault, Answer
<1> QED BY <1>2, <1>3, <1>5, <1>6, <1>7, <1>8, <1>9 DEF Serve

\* A request ends its write by a create, by a write, or without touching rows.
LEMMA EndOfWrite ==
  ASSUME IInv, [Next]_vars, NEW h \in Handlers,
         requests[h].pc = "write", requests'[h].pc = "next"
  PROVE  Create(h) \/ Write(h) \/ rows' = rows
<1>1. CASE UNCHANGED vars
  BY <1>1 DEF vars
<1>2. CASE Timeout \/ Crash \/ Edit \/ RollOver \/ Tick
  BY <1>2, FreeType DEF Timeout, Crash, Edit, RollOver, Tick, extra
<1>3. CASE \E g \in Handlers : Send(g) \/ Serve(g) \/ Fault(g)
  <2>1. PICK g \in Handlers : Send(g) \/ Serve(g) \/ Fault(g)
    BY <1>3
  <2>2. g = h
    BY <2>1, OwnRequest
  <2>3. CASE Create(h) \/ Write(h)
    BY <2>3
  <2>4. CASE Send(h) \/ Refuse(h) \/ Parse(h) \/ LookUp(h) \/ Fetch(h)
             \/ RejectContribution(h) \/ Respond(h) \/ Fault(h)
    BY <2>4 DEF Send, Refuse, Parse, LookUp, Fetch, RejectContribution, Respond,
                Fault, extra
  <2>5. CASE CreateOther(h)
    BY <2>5 DEF CreateOther, At
  <2> QED BY <2>1, <2>2, <2>3, <2>4, <2>5 DEF Serve
<1> QED BY <1>1, <1>2, <1>3 DEF Next

\* A time that is not of a later second than tick 0 is of its second.
LEMMA FirstSecond ==
  ASSUME NEW at \in Nat, ~(Second(at) > Second(0))
  PROVE  Second(at) = Second(0)
<1>1. TicksPerSecond \in Nat \ {0}
  BY SyncPushAssumption
<1>2. Second(at) \in Nat /\ Second(0) = 0
  BY <1>1 DEF Second
<1> QED BY <1>2

(***************************************************************************)
(* Only an item without a stamp, of the same second, overtaken between its *)
(* check and its write, or the delete of a transaction changes a row its   *)
(* device has not seen (sync.go:476-490, sync_push_entities.go:118-133).   *)
(***************************************************************************)
THEOREM NoBlindOverwriteCorrect == Spec => NoBlindOverwrite
<1> DEFINE Blind(h) ==
      LET i == Current(h)
          r == Target(i)
      IN  /\ rows'[r] # rows[r] /\ rows[r].version > 1
          /\ outbox[i].stamped
          /\ Second(rows[r].at) # Second(0)
          /\ ~(rows[r].version > requests[h].seen)
          /\ ~(Kind(i) = "transaction" /\ Op(i) = "delete")
<1>1. ASSUME IInv, [Next]_vars, NEW h \in Handlers,
             requests[h].pc = "write", requests'[h].pc = "next"
      PROVE  ~Blind(h)
  <2>1. SUFFICES ASSUME Blind(h)
                 PROVE  FALSE
    OBVIOUS
  <2>2. PICK i \in Items, r \in Rows : i = Current(h) /\ r = Target(i)
    BY <1>1, CurrentIn, ItemType DEF IInv, RequestOK
  <2>3. /\ rows'[r] # rows[r] /\ rows[r].version > 1
        /\ outbox[i].stamped
        /\ Second(rows[r].at) # Second(0)
        /\ ~(rows[r].version > requests[h].seen)
        /\ ~(Kind(i) = "transaction" /\ Op(i) = "delete")
    BY <2>1, <2>2
  <2>4. /\ rows[r].version \in Nat /\ rows[r].at \in Nat
        /\ requests[h].seen \in Nat
    BY <1>1 DEF IInv, TypeOK, RowType, RequestType
  <2>5. CASE Create(h)
    <3>1. rows' = rows \/ ~ClientIDTaken(i)
      BY <2>2, <2>5 DEF Create
    <3>2. rows[r].state = "none"
      BY <2>2, <2>3, <3>1 DEF ClientIDTaken
    <3>3. rows[r].version = 1
      BY <1>1, <3>2 DEF IInv, RowOK
    <3> QED BY <2>3, <3>3
  <2>6. CASE Write(h)
    <3>1. Op(i) \in {"update", "delete"}
      BY <2>2, <2>6 DEF Write, At
    <3>2. /\ requests[h].seen <= rows[r].version
          /\ requests[h].seen = rows[r].version /\ Newer(i) =>
               Kind(i) = "transaction" /\ Op(i) = "delete"
      BY <1>1, <2>2, <3>1 DEF IInv, SeenOK
    <3>3. requests[h].seen = rows[r].version
      BY <2>3, <2>4, <3>2
    <3>4. ~Newer(i)
      BY <2>3, <3>2, <3>3
    <3>5. ~(Second(rows[r].at) > Second(0))
      BY <2>2, <2>3, <3>4 DEF Newer
    <3> QED BY <2>3, <2>4, <3>5, FirstSecond
  <2>7. CASE rows' = rows
    BY <2>3, <2>7
  <2> QED BY <1>1, <2>5, <2>6, <2>7, EndOfWrite
<1>2. IInv /\ [Next]_vars =>
        [\A h \in Handlers :
           requests[h].pc = "write" /\ requests'[h].pc = "next" =>
             LET i == Current(h)
                 r == Target(i)
             IN  rows'[r] # rows[r] /\ rows[r].version > 1 =>
                   \/ ~outbox[i].stamped
                   \/ Second(rows[r].at) = Second(0)
                   \/ rows[r].version > requests[h].seen
                   \/ Kind(i) = "transaction" /\ Op(i) = "delete"]_vars
  BY <1>1, Zenon
<1> QED BY <1>2, Invariant, PTL DEF Spec, NoBlindOverwrite

-----------------------------------------------------------------------------
(* What the device is told.                                                *)

\* Why a create may have been rejected.  Each reason stays one.
Refused(i) ==
  \/ faults > 0
  \/ i \in raced
  \/ Kind(i) = "budget" /\ losses > 0
  \/ /\ Kind(i) = "transaction"
     /\ \/ rows[Target(i)].state = "deleted"
        \/ made[i] = 0 /\ (period > 0 \/ rows[Account].state = "deleted")

Told(i, answer) ==
  /\ Op(i) = "create" /\ answer \in {"applied", "skipped"} => made[i] > 0
  /\ Op(i) = "create" /\ answer = "rejected" => Refused(i)
  /\ answer = "conflict" => rows[Target(i)].version > 1
  /\ Op(i) = "delete" /\ answer \in {"applied", "skipped"} =>
       rows[Target(i)].state = "deleted"

\* The result of item i so far, in request h.
Heard(h, i) == Told(i, requests[h].results[i])

\* A row there is none of yet is one of a create; if there is one, it made it.
RowsMade ==
  /\ \A r \in Rows : rows[r].state = "none" =>
       \E i \in Items : Target(i) = r /\ Op(i) = "create"
  /\ \A i \in Items :
       Op(i) = "create" /\ rows[Target(i)].state # "none" => made[i] > 0

\* If the row of a create appeared since it was looked up, another run made it.
LookedUp(h) ==
  LET i == Current(h) IN
  requests[h].pc = "write" /\ Op(i) = "create" =>
    /\ Kind(i) = "transaction"
    /\ rows[Target(i)].state \in {"none", "deleted"} \/ i \in raced

(***************************************************************************)
(* Every answer is true when it is given, on the way and when it arrives.  *)
(***************************************************************************)
TInv ==
  /\ RowsMade
  /\ \A h \in Handlers : LookedUp(h)
  /\ \A i \in Items :
       /\ Told(i, status[i])
       /\ \A h \in Handlers : Heard(h, i)

\* What a step never takes back.
Forward ==
  /\ outbox' = outbox /\ RowChange
  /\ raced \subseteq raced' /\ losses' >= losses /\ faults' >= faults
  /\ period' >= period
  /\ \A i \in Items :
       /\ made'[i] \in Nat /\ made'[i] >= made[i]
       /\ Kind(i) = "transaction" /\ (period > 0 \/ ~Live(Account)) =>
            made'[i] = made[i]

\* A create makes one more of its item and of no other.
LEMMA OneMore ==
  ASSUME IInv, NEW i \in Items, made' = [made EXCEPT ![i] = @ + 1]
  PROVE  /\ made'[i] = made[i] + 1
         /\ \A j \in Items \ {i} : made'[j] = made[j]
  BY DEF IInv, TypeOK

\* Every step goes forward.
LEMMA StepForward ==
  ASSUME IInv, [Next]_vars
  PROVE  Forward
<1>1. ASSUME UNCHANGED made
      PROVE  \A i \in Items :
               /\ made'[i] \in Nat /\ made'[i] >= made[i]
               /\ Kind(i) = "transaction" /\ (period > 0 \/ ~Live(Account)) =>
                    made'[i] = made[i]
  BY <1>1, ItemType DEF IInv
<1>2. /\ losses \in Nat /\ faults \in Nat /\ period \in {0, 1}
  BY DEF IInv, TypeOK
<1>3. CASE UNCHANGED vars
  <2>1. UNCHANGED <<made, rows, deletions, outbox, raced, losses, faults,
                    period>>
    BY <1>3 DEF vars
  <2> QED BY <1>1, <1>2, <2>1, RowsSame DEF Forward, IInv
<1>4. CASE Timeout \/ Crash \/ Tick
  <2>1. /\ UNCHANGED <<made, rows, deletions, outbox, raced, faults, period>>
        /\ losses' \in {losses, losses + 1}
    BY <1>4 DEF Timeout, Crash, Tick, extra
  <2> QED BY <1>1, <1>2, <2>1, RowsSame DEF Forward, IInv
<1>5. CASE Edit \/ RollOver
  <2>1. /\ UNCHANGED <<made, outbox, raced, losses, faults>>
        /\ period' \in {period, 1}
    BY <1>5 DEF Edit, RollOver, extra
  <2>2. RowChange
    BY <1>5, EditRows, RollOverRows DEF IInv
  <2> QED BY <1>1, <1>2, <2>1, <2>2 DEF Forward
<1>6. ASSUME NEW h \in Handlers,
             \/ Send(h) \/ Refuse(h) \/ Parse(h) \/ LookUp(h) \/ Fetch(h)
             \/ RejectContribution(h) \/ Respond(h) \/ Fault(h)
      PROVE  Forward
  <2>1. /\ UNCHANGED <<made, rows, deletions, outbox, raced, losses, period>>
        /\ faults' \in {faults, faults + 1}
    BY <1>6 DEF Send, Refuse, Parse, LookUp, Fetch, RejectContribution, Respond,
                Fault, extra
  <2> QED BY <1>1, <1>2, <2>1, RowsSame DEF Forward, IInv
<1>7. ASSUME NEW h \in Handlers, Write(h)
      PROVE  Forward
  <2>1. /\ UNCHANGED <<made, outbox, raced, losses, faults, period>>
        /\ requests[h].todo # {}
    BY <1>7 DEF Write, At
  <2>2. PICK i \in Items, r \in Rows : i = Current(h) /\ r = Target(i)
    BY <2>1, CurrentIn, ItemType DEF IInv
  <2>3. \/ UNCHANGED <<rows, deletions>>
        \/ Live(r) /\ \E state \in {"live", "deleted"} : Change(r, state)
    BY <1>7, <2>2 DEF Write
  <2>4. RowChange
    BY <2>2, <2>3, RowsSame, OneRow DEF IInv, Live
  <2> QED BY <1>1, <1>2, <2>1, <2>4 DEF Forward
<1>8. ASSUME NEW h \in Handlers, Create(h) \/ CreateOther(h)
      PROVE  Forward
  <2>1. /\ UNCHANGED <<outbox, losses, faults, period>>
        /\ raced \subseteq raced'
        /\ requests[h].todo # {}
    BY <1>8 DEF Create, CreateOther, At
  <2>2. PICK i \in Items, r \in Rows : i = Current(h) /\ r = Target(i)
    BY <2>1, CurrentIn, ItemType DEF IInv
  <2>3. \/ UNCHANGED <<rows, made, deletions>>
        \/ /\ Change(r, "live") /\ made' = [made EXCEPT ![i] = @ + 1]
           /\ \/ rows[r].state = "none" /\ ~(period > 0) /\ Live(Account)
              \/ Kind(i) # "transaction" /\ Creating(r)
    BY <1>8, <2>2 DEF Create, CreateOther, ClientIDTaken, At, Creating
  <2>4. RowChange
    <3>1. Kind(i) = KindOf[r]
      BY <2>2 DEF Kind
    <3> QED BY <2>2, <2>3, <3>1, RowsSame, OneRow DEF IInv
  <2>5. ASSUME NEW j \in Items
        PROVE  /\ made'[j] \in Nat /\ made'[j] >= made[j]
               /\ Kind(j) = "transaction" /\ (period > 0 \/ ~Live(Account)) =>
                    made'[j] = made[j]
    <3>1. CASE UNCHANGED made
      BY <1>1, <3>1
    <3>2. CASE /\ made' = [made EXCEPT ![i] = @ + 1]
               /\ Kind(i) # "transaction" \/ (~(period > 0) /\ Live(Account))
      <4>1. /\ made'[i] = made[i] + 1
            /\ \A k \in Items \ {i} : made'[k] = made[k]
        BY <3>2, OneMore
      <4>2. made[j] \in Nat
        BY ItemType DEF IInv
      <4>3. CASE j = i
        BY <3>2, <4>1, <4>2, <4>3
      <4>4. CASE j # i
        BY <4>1, <4>2, <4>4
      <4> QED BY <4>3, <4>4
    <3> QED BY <2>3, <3>1, <3>2
  <2> QED BY <1>2, <2>1, <2>4, <2>5 DEF Forward
<1> QED BY <1>3, <1>4, <1>5, <1>6, <1>7, <1>8 DEF Next, Serve

\* The account of the transactions and what is to be deleted are not created, so
\* that what has been deleted of them stays so.
LEMMA StaysDeleted ==
  ASSUME CreatesApart, IInv, Forward, NEW r \in Rows,
         \/ r = Account \/ KindOf[r] = "transaction"
         \/ \E i \in Items : Op(i) = "delete" /\ Target(i) = r,
         rows[r].state = "deleted"
  PROVE  rows'[r].state = "deleted"
<1>1. CASE KindOf[r] = "transaction"
  BY <1>1, RowsStep DEF IInv, Forward
<1>2. CASE r = Account \/ \E i \in Items : Op(i) = "delete" /\ Target(i) = r
  <2>1. outbox \in Outboxes
    BY DEF IInv, TypeOK
  <2>2. ~Creating(r)
    BY <1>2, <2>1 DEF CreatesApart, Creating, Op, Target
  <2> QED BY <2>2, RowsStep DEF IInv, Forward
<1> QED BY <1>1, <1>2

\* What an answer says stays true.
LEMMA ToldStays ==
  ASSUME CreatesApart, IInv, IInv', Forward, NEW i \in Items, NEW answer,
         Told(i, answer)
  PROVE  Told(i, answer)'
<1>1. PICK r \in Rows : r = Target(i)
  BY ItemType DEF IInv
<1>2. /\ Op(i)' = Op(i) /\ Target(i)' = r /\ Kind(i)' = Kind(i)
  BY <1>1 DEF Forward, Op, Target, Kind
<1>3. /\ rows'[r].version >= rows[r].version
      /\ rows'[r].version \in Nat /\ rows[r].version \in Nat
  BY RowsStep DEF IInv, TypeOK, RowType, Forward
<1>4. /\ Kind(i) = "transaction" \/ Op(i) = "delete" =>
           (rows[r].state = "deleted" => rows'[r].state = "deleted")
      /\ rows[Account].state = "deleted" => rows'[Account].state = "deleted"
  BY <1>1, StaysDeleted, SyncPushAssumption DEF Kind
<1>5. /\ made[i] \in Nat /\ made'[i] \in Nat /\ made'[i] >= made[i]
      /\ Kind(i) = "transaction" /\ (period > 0 \/ ~Live(Account)) =>
           made'[i] = made[i]
  BY ItemType DEF IInv, Forward
<1>6. /\ losses \in Nat /\ faults \in Nat /\ period \in Nat
      /\ losses' \in Nat /\ faults' \in Nat /\ period' \in Nat
      /\ losses' >= losses /\ faults' >= faults /\ period' >= period
      /\ i \in raced => i \in raced'
  BY DEF IInv, TypeOK, Forward
<1>7. Refused(i) => Refused(i)'
  BY <1>1, <1>2, <1>3, <1>5, <1>6, <1>4 DEF Refused, Live
<1> QED BY <1>1, <1>2, <1>3, <1>5, <1>7, <1>4 DEF Told

\* The results of other items than the one answered are as they were.
LEMMA AnswerTold ==
  ASSUME IInv, NEW h \in Handlers, requests[h].todo # {},
         NEW answer \in Answers, Answer(h, answer),
         NEW i, i = Current(h), Told(i, answer)', NEW j \in Items
  PROVE  \/ requests'[h].results[j] = requests[h].results[j]
         \/ Heard(h, j)'
<1>1. PICK q \in RequestType :
        /\ \A k \in Items :
             q.results[k] = IF k = i THEN answer ELSE requests[h].results[k]
        /\ requests' = [requests EXCEPT ![h] = q]
  BY AnswerRequest
<1>2. requests'[h] = q
  BY <1>1 DEF IInv, TypeOK
<1>3. CASE j = i
  <2>1. requests'[h].results[j] = answer
    BY <1>1, <1>2, <1>3
  <2> QED BY <1>3, <2>1 DEF Heard, Told
<1>4. CASE j # i
  BY <1>1, <1>2, <1>4
<1> QED BY <1>3, <1>4

\* What there is to say of the result of a create, or of none.
LEMMA CreateTold ==
  ASSUME IInv, TInv, IInv', Forward, NEW i \in Items, Op(i) = "create",
         NEW answer \in Answers, answer # "conflict",
         answer \in {"applied", "skipped"} => made'[i] > 0,
         answer = "rejected" => Refused(i)'
  PROVE  Told(i, answer)'
<1>1. Op(i)' = "create"
  BY DEF Forward, Op
<1> QED BY <1>1 DEF Told

\* An account there is not has been deleted.
LEMMA NoAccount ==
  ASSUME CreatesApart, IInv, TInv, ~Live(Account)
  PROVE  rows[Account].state = "deleted"
<1>1. rows[Account].state \in {"none", "deleted"}
  BY SyncPushAssumption DEF IInv, TypeOK, RowType, Live
<1>2. ASSUME rows[Account].state = "none"
      PROVE  FALSE
  <2>1. PICK i \in Items : Target(i) = Account /\ Op(i) = "create"
    BY <1>2, SyncPushAssumption DEF TInv, RowsMade
  <2>2. outbox \in Outboxes
    BY DEF IInv, TypeOK
  <2> QED BY <2>1, <2>2 DEF CreatesApart, Op, Target
<1> QED BY <1>1, <1>2

\* The result of a transaction's create.
LEMMA CreateAnswer ==
  ASSUME CreatesApart, IInv, TInv, IInv', Forward, NEW h \in Handlers,
         LookUp(h) \/ Create(h), NEW j \in Items
  PROVE  \/ requests'[h].results[j] = requests[h].results[j]
         \/ Heard(h, j)'
<1>1. /\ requests[h].todo # {} /\ Op(Current(h)) = "create"
      /\ Kind(Current(h)) = "transaction"
  BY DEF LookUp, Create, At
<1>2. PICK i \in Items, r \in Rows : i = Current(h) /\ r = Target(i)
  BY <1>1, CurrentIn, ItemType DEF IInv
<1>3. Target(i)' = r /\ Kind(i)' = Kind(i)
  BY <1>2 DEF Forward, Target, Kind
<1>4. made[i] \in Nat /\ made'[i] \in Nat /\ made'[i] >= made[i]
  BY ItemType DEF IInv, Forward
<1>5. CASE LookUp(h) /\ Answer(h, "skipped") /\ Live(r)
  <2>1. made[i] > 0
    BY <1>1, <1>2, <1>5 DEF TInv, RowsMade, Live
  <2>2. Told(i, "skipped")'
    BY <1>1, <1>2, <1>4, <2>1, CreateTold DEF Answers
  <2> QED BY <1>1, <1>2, <1>5, <2>2, AnswerTold DEF Answers
<1>6. CASE LookUp(h) /\ requests' = [requests EXCEPT ![h].pc = "write"]
  BY <1>6 DEF IInv, TypeOK, RequestType
<1>7. CASE /\ Create(h) /\ Answer(h, "applied")
           /\ made' = [made EXCEPT ![i] = @ + 1]
  <2>1. made'[i] = made[i] + 1
    BY <1>7, OneMore
  <2>2. Told(i, "applied")'
    BY <1>1, <1>2, <1>4, <2>1, CreateTold DEF Answers
  <2> QED BY <1>1, <1>2, <1>7, <2>2, AnswerTold DEF Answers
<1>8. CASE /\ Create(h) /\ Answer(h, "rejected")
           /\ period > 0 \/ ~Live(Account) \/ rows[r].state # "none"
           /\ UNCHANGED <<rows, made, deletions>>
  <2>1. rows[r].state \in {"none", "deleted"} \/ i \in raced
    BY <1>1, <1>2, <1>8 DEF TInv, LookedUp, Create, At
  <2>2. made[i] > 0 => rows[r].state # "none"
    BY <1>1, <1>2 DEF IInv, MadeOK
  <2>3. \/ rows[r].state = "deleted" \/ i \in raced
        \/ (period > 0 \/ ~Live(Account)) /\ made[i] = 0
    BY <1>4, <1>8, <2>1, <2>2
  <2>4. ~Live(Account) => rows[Account].state = "deleted"
    BY NoAccount
  <2>5. made'[i] = made[i] /\ period' = period /\ rows' = rows
    BY <1>8 DEF Create
  <2>6. i \in raced => i \in raced'
    BY DEF Forward
  <2>7. Refused(i)'
    BY <1>1, <1>2, <1>3, <2>3, <2>5, <2>6, <2>4 DEF Refused
  <2>8. Told(i, "rejected")'
    BY <1>1, <1>2, <2>7, CreateTold DEF Answers
  <2> QED BY <1>1, <1>2, <1>8, <2>8, AnswerTold DEF Answers
<1>9. \/ LookUp(h) /\ Answer(h, "skipped") /\ Live(r)
      \/ LookUp(h) /\ requests' = [requests EXCEPT ![h].pc = "write"]
      \/ /\ Create(h) /\ Answer(h, "applied")
         /\ made' = [made EXCEPT ![i] = @ + 1]
      \/ /\ Create(h) /\ Answer(h, "rejected")
         /\ period > 0 \/ ~Live(Account) \/ rows[r].state # "none"
         /\ UNCHANGED <<rows, made, deletions>>
  BY <1>2 DEF LookUp, GetTransactionByClientID, Create, ClientIDTaken
<1> QED BY <1>5, <1>6, <1>7, <1>8, <1>9

\* The result of any other create.
LEMMA OtherAnswer ==
  ASSUME IInv, TInv, IInv', Forward, NEW h \in Handlers, CreateOther(h),
         NEW j \in Items
  PROVE  \/ requests'[h].results[j] = requests[h].results[j]
         \/ Heard(h, j)'
<1>1. requests[h].todo # {} /\ Op(Current(h)) = "create"
  BY DEF CreateOther, At
<1>2. PICK i \in Items : i = Current(h) /\ i \in requests[h].todo
  BY <1>1, CurrentIn DEF IInv
<1>3. made[i] \in Nat /\ Kind(i)' = Kind(i)
  BY ItemType DEF IInv, Forward, Kind, Target
<1>4. CASE /\ Answer(h, "applied")
           /\ made' = [made EXCEPT ![i] = @ + 1]
  <2>1. made'[i] = made[i] + 1
    BY <1>4, OneMore
  <2>2. Told(i, "applied")'
    BY <1>1, <1>2, <1>3, <2>1, CreateTold DEF Answers
  <2> QED BY <1>1, <1>2, <1>4, <2>2, AnswerTold DEF Answers
<1>5. CASE Answer(h, "rejected") /\ BudgetExists(i)
  <2>1. made[i] > 0
    BY <1>1, <1>2, <1>5 DEF TInv, RowsMade, BudgetExists, Live
  <2>2. Cardinality(Tries(i)) > 0
    <3>1. Tries(i) # {}
      BY <1>2 DEF Tries
    <3>2. Cardinality(Tries(i)) # 0
      BY <3>1, TriesType, FS_EmptySet
    <3> QED BY <3>2, TriesType
  <2>3. losses > 0
    <3>1. /\ made[i] + Cardinality(Tries(i)) + Unanswered(i) <= 1 + losses
          /\ losses \in Nat
      BY DEF IInv, TypeOK, TriesOK
    <3>2. Cardinality(Tries(i)) \in Nat /\ Unanswered(i) \in Nat
      BY TriesType
    <3> QED BY <1>3, <2>1, <2>2, <3>1, <3>2
  <2>4. losses' = losses
    BY DEF CreateOther
  <2>5. Refused(i)'
    BY <1>3, <1>5, <2>3, <2>4 DEF Refused, BudgetExists
  <2>6. Told(i, "rejected")'
    BY <1>1, <1>2, <2>5, CreateTold DEF Answers
  <2> QED BY <1>1, <1>2, <1>5, <2>6, AnswerTold DEF Answers
<1> QED BY <1>2, <1>4, <1>5 DEF CreateOther

\* A row that is to be deleted and is not live has been deleted.
LEMMA GoneIsDeleted ==
  ASSUME CreatesApart, IInv, TInv, NEW i \in Items, Op(i) = "delete",
         ~Live(Target(i))
  PROVE  rows[Target(i)].state = "deleted"
<1>1. PICK r \in Rows : r = Target(i) /\ rows[r].state # "live"
  BY ItemType DEF IInv, Live
<1>2. rows[r].state \in {"none", "deleted"}
  BY <1>1 DEF IInv, TypeOK, RowType
<1>3. ASSUME rows[r].state = "none"
      PROVE  FALSE
  <2>1. PICK k \in Items : Target(k) = r /\ Op(k) = "create"
    BY <1>3 DEF TInv, RowsMade
  <2>2. outbox \in Outboxes
    BY DEF IInv, TypeOK
  <2>3. k = i
    BY <1>1, <2>1, <2>2 DEF CreatesApart, Op, Target
  <2> QED BY <2>1, <2>3
<1> QED BY <1>1, <1>2, <1>3

\* What there is to say of the result of an update or a delete.
LEMMA ChangeTold ==
  ASSUME Forward, NEW i \in Items, Op(i) \in {"update", "delete"},
         NEW answer \in Answers,
         answer = "conflict" => rows'[Target(i)].version > 1,
         Op(i) = "delete" /\ answer \in {"applied", "skipped"} =>
           rows'[Target(i)].state = "deleted"
  PROVE  Told(i, answer)'
<1>1. Op(i)' = Op(i) /\ Target(i)' = Target(i)
  BY DEF Forward, Op, Target
<1> QED BY <1>1 DEF Told

\* The result of an update or a delete.
LEMMA ChangeAnswer ==
  ASSUME CreatesApart, IInv, TInv, IInv', Forward, NEW h \in Handlers,
         Fetch(h) \/ Write(h) \/ RejectContribution(h), NEW j \in Items
  PROVE  \/ requests'[h].results[j] = requests[h].results[j]
         \/ Heard(h, j)'
<1>1. requests[h].todo # {} /\ Op(Current(h)) \in {"update", "delete"}
  BY DEF Fetch, Write, RejectContribution, At
<1>2. PICK i \in Items, r \in Rows : i = Current(h) /\ r = Target(i)
  BY <1>1, CurrentIn, ItemType DEF IInv
<1>3. ~Live(r) /\ Op(i) = "delete" => rows[r].state = "deleted"
  BY <1>2, GoneIsDeleted
<1>4. ASSUME NEW answer \in Answers, Answer(h, answer),
             answer = "conflict" => rows'[r].version > 1,
             Op(i) = "delete" /\ answer \in {"applied", "skipped"} =>
               rows'[r].state = "deleted"
      PROVE  \/ requests'[h].results[j] = requests[h].results[j]
             \/ Heard(h, j)'
  <2>1. Told(i, answer)'
    BY <1>1, <1>2, <1>4, ChangeTold
  <2> QED BY <1>1, <1>2, <1>4, <2>1, AnswerTold
<1>5. CASE Fetch(h)
  <2>1. \/ requests' = [requests EXCEPT ![h].pc = "write",
                                        ![h].seen = rows[r].version]
        \/ ~Live(r) /\ Op(i) = "delete" /\ Answer(h, "skipped")
        \/ Answer(h, "rejected")
        \/ Newer(i) /\ Answer(h, "conflict")
    BY <1>2, <1>5 DEF Fetch
  <2>2. rows' = rows
    BY <1>5 DEF Fetch
  <2>3. CASE requests' = [requests EXCEPT ![h].pc = "write",
                                          ![h].seen = rows[r].version]
    BY <2>3 DEF IInv, TypeOK, RequestType
  <2>4. CASE ~Live(r) /\ Op(i) = "delete" /\ Answer(h, "skipped")
    BY <1>3, <1>4, <2>2, <2>4 DEF Answers
  <2>5. CASE Answer(h, "rejected")
    BY <1>4, <2>5 DEF Answers
  <2>6. CASE Newer(i) /\ Answer(h, "conflict")
    <3>1. rows[r].at # 0
      <4>1. ~(Second(0) > Second(0))
        BY SyncPushAssumption DEF Second
      <4> QED BY <1>2, <2>6, <4>1 DEF Newer
    <3>2. rows[r].version > 1
      BY <3>1 DEF IInv, RowOK
    <3> QED BY <1>4, <2>2, <2>6, <3>2 DEF Answers
  <2> QED BY <2>1, <2>3, <2>4, <2>5, <2>6
<1>6. CASE Write(h)
  <2>1. \/ rows' = rows /\ ~Live(r) /\ Op(i) = "delete" /\ Answer(h, "skipped")
        \/ Answer(h, "rejected")
        \/ /\ Answer(h, "applied") /\ Live(r)
           /\ Change(r, IF Op(i) = "update" THEN "live" ELSE "deleted")
    BY <1>2, <1>6 DEF Write
  <2>2. CASE rows' = rows /\ ~Live(r) /\ Op(i) = "delete"
               /\ Answer(h, "skipped")
    BY <1>3, <1>4, <2>2 DEF Answers
  <2>3. CASE Answer(h, "rejected")
    BY <1>4, <2>3 DEF Answers
  <2>4. CASE /\ Answer(h, "applied") /\ Live(r)
             /\ Change(r, IF Op(i) = "update" THEN "live" ELSE "deleted")
    <3>1. Op(i) = "delete" => rows'[r].state = "deleted"
      BY <1>2, <2>4, OneRow DEF IInv, Live
    <3> QED BY <1>4, <2>4, <3>1 DEF Answers
  <2> QED BY <2>1, <2>2, <2>3, <2>4
<1>7. CASE RejectContribution(h)
  BY <1>4, <1>7 DEF RejectContribution, Answers
<1> QED BY <1>5, <1>6, <1>7

\* A request begins, and ends, with no results.
LEMMA Restart ==
  ASSUME IInv, NEW h \in Handlers, Send(h) \/ Refuse(h) \/ Respond(h)
  PROVE  /\ requests'[h].pc # "write"
         /\ \A i \in Items : requests'[h].results[i] = "none"
<1>1. PICK q : q = [Free EXCEPT !.pc = "parse", !.todo = Pending]
  OBVIOUS
<1>2. /\ q.pc = "parse" /\ q.results = [i \in Items |-> "none"]
      /\ Free.pc = "free" /\ Free.results = [i \in Items |-> "none"]
  BY <1>1 DEF Free
<1>3. requests' = [requests EXCEPT ![h] = q]
        \/ requests' = [requests EXCEPT ![h] = Free]
  BY <1>1 DEF Send, Refuse, Respond
<1>4. requests'[h] = q \/ requests'[h] = Free
  BY <1>3 DEF IInv, TypeOK
<1> QED BY <1>2, <1>4

\* Results of every request stay true, and new ones are.
LEMMA StepHeard ==
  ASSUME CreatesApart, IInv, TInv, IInv', Forward, [Next]_vars,
         NEW h \in Handlers, NEW i \in Items
  PROVE  Heard(h, i)'
<1>1. Heard(h, i)
  BY DEF TInv
<1>2. CASE requests'[h].results[i] = requests[h].results[i]
  <2>1. PICK answer : answer = requests[h].results[i]
    OBVIOUS
  <2>2. Told(i, answer)'
    BY <1>1, <2>1, ToldStays DEF Heard
  <2> QED BY <1>2, <2>1, <2>2 DEF Heard, Told
<1>3. CASE requests'[h].results[i] = "none"
  BY <1>3 DEF Heard, Told
<1>4. CASE UNCHANGED vars \/ Timeout \/ Edit \/ RollOver \/ Tick
  BY <1>2, <1>4 DEF vars, Timeout, Edit, RollOver, Tick, extra
<1>5. CASE Crash
  BY <1>3, <1>5 DEF Crash, Free
<1>6. ASSUME NEW g \in Handlers, Send(g) \/ Serve(g) \/ Fault(g)
      PROVE  Heard(h, i)'
  <2>1. CASE g # h
    BY <1>2, <1>6, <2>1, OwnRequest
  <2>2. CASE Send(h) \/ Refuse(h) \/ Respond(h)
    BY <1>3, <2>2, Restart
  <2>3. CASE Parse(h)
    <3>1. requests'[h].results[i] =
            IF i \in Malformed(h) THEN "rejected" ELSE requests[h].results[i]
      BY <2>3 DEF Parse, IInv, TypeOK
    <3>2. i \in Malformed(h) => Op(i)' = "malformed"
      BY DEF Malformed, Forward, Op
    <3>3. CASE i \in Malformed(h)
      BY <3>1, <3>2, <3>3 DEF Heard, Told
    <3> QED BY <1>2, <3>1, <3>3
  <2>4. CASE LookUp(h) \/ Create(h)
    BY <1>2, <2>4, CreateAnswer
  <2>5. CASE CreateOther(h)
    BY <1>2, <2>5, OtherAnswer
  <2>6. CASE Fetch(h) \/ Write(h) \/ RejectContribution(h)
    BY <1>2, <2>6, ChangeAnswer
  <2>7. CASE Fault(h)
    <3>1. /\ requests[h].todo # {} /\ Answer(h, "rejected")
          /\ faults' = faults + 1
      BY <2>7 DEF Fault
    <3>2. PICK j \in Items : j = Current(h)
      BY <3>1, CurrentIn DEF IInv
    <3>3. faults' > 0
      BY <3>1 DEF IInv, TypeOK
    <3>4. Told(j, "rejected")'
      BY <3>3 DEF Told, Refused
    <3> QED BY <1>2, <3>1, <3>2, <3>4, AnswerTold DEF Answers
  <2> QED BY <1>6, <2>1, <2>2, <2>3, <2>4, <2>5, <2>6, <2>7 DEF Serve
<1> QED BY <1>4, <1>5, <1>6 DEF Next

\* The device takes over what it was told.
LEMMA StepStatus ==
  ASSUME CreatesApart, IInv, TInv, IInv', Forward, [Next]_vars, NEW i \in Items
  PROVE  Told(i, status[i])'
<1>1. \/ status'[i] = status[i]
      \/ \E h \in Handlers : status'[i] = requests[h].results[i]
  <2>1. CASE UNCHANGED vars \/ Timeout \/ Crash \/ Edit \/ RollOver \/ Tick
    BY <2>1 DEF vars, Timeout, Crash, Edit, RollOver, Tick, extra
  <2>2. ASSUME NEW h \in Handlers, Respond(h)
        PROVE  \/ status'[i] = status[i]
               \/ status'[i] = requests[h].results[i]
    BY <2>2 DEF Respond
  <2>3. ASSUME NEW h \in Handlers,
               \/ Send(h) \/ Refuse(h) \/ Parse(h) \/ LookUp(h) \/ Create(h)
               \/ CreateOther(h) \/ Fetch(h) \/ Write(h)
               \/ RejectContribution(h) \/ Fault(h)
        PROVE  status' = status
    BY <2>3 DEF Send, Refuse, Parse, LookUp, Create, CreateOther, Fetch, Write,
                RejectContribution, Fault, extra
  <2> QED BY <2>1, <2>2, <2>3 DEF Next, Serve
<1>2. PICK answer : answer = status'[i] /\ Told(i, answer)
  BY <1>1 DEF TInv, Heard
<1>3. Told(i, answer)'
  BY <1>2, ToldStays
<1> QED BY <1>2, <1>3 DEF Told

\* Only a create lets a row appear, and its item is the one that made it.
LEMMA Appears ==
  ASSUME CreatesApart, IInv, Forward, [Next]_vars, NEW i \in Items,
         Op(i) = "create", rows[Target(i)].state = "none",
         rows'[Target(i)].state # "none"
  PROVE  \E h \in Handlers :
           (Create(h) \/ CreateOther(h)) /\ Current(h) = i /\ made'[i] > 0
<1>1. PICK r \in Rows : r = Target(i)
  BY ItemType DEF IInv
<1>2. rows'[r] # rows[r] /\ rows[r].state = "none"
  BY <1>1
<1>3. CASE UNCHANGED vars \/ Timeout \/ Crash \/ RollOver \/ Tick
  BY <1>2, <1>3 DEF vars, Timeout, Crash, RollOver, Tick, Live, extra
<1>4. ASSUME NEW s \in Rows, NEW state, Change(s, state)
       PROVE  s = r
  BY <1>2, <1>4 DEF Change, Touched, Live
<1>5. ASSUME NEW s \in Rows, Live(s), NEW state, Change(s, state)
      PROVE  FALSE
  BY <1>2, <1>5, <1>4 DEF Live
<1>6. CASE Edit
  <2>1. PICK s \in {Target(j) : j \in Items} \cup {Account},
             state \in {"live", "deleted"} :
          Live(s) /\ Change(s, state)
    BY <1>6 DEF Edit
  <2>2. s \in Rows
    BY <2>1, ItemType, SyncPushAssumption DEF IInv
  <2> QED BY <1>5, <2>1, <2>2
<1>7. ASSUME NEW h \in Handlers, Write(h)
      PROVE  FALSE
  <2>1. requests[h].todo # {}
    BY <1>7 DEF Write, At
  <2>2. PICK s \in Rows : s = Target(Current(h))
    BY <2>1, CurrentIn, ItemType DEF IInv
  <2>3. \/ rows' = rows
        \/ \E state : Live(s) /\ Change(s, state)
    BY <1>7, <2>2 DEF Write
  <2> QED BY <1>2, <1>5, <2>3
<1>8. ASSUME NEW h \in Handlers,
             \/ Send(h) \/ Refuse(h) \/ Parse(h) \/ LookUp(h) \/ Fetch(h)
             \/ RejectContribution(h) \/ Respond(h) \/ Fault(h)
      PROVE  rows' = rows
  BY <1>8 DEF Send, Refuse, Parse, LookUp, Fetch, RejectContribution, Respond,
              Fault, extra
<1>9. ASSUME NEW h \in Handlers, Create(h) \/ CreateOther(h)
      PROVE  Current(h) = i /\ made'[i] > 0
  <2>1. requests[h].todo # {} /\ Op(Current(h)) = "create"
    BY <1>9 DEF Create, CreateOther, At
  <2>2. PICK k \in Items, s \in Rows : k = Current(h) /\ s = Target(k)
    BY <2>1, CurrentIn, ItemType DEF IInv
  <2>3. Change(s, "live") /\ made' = [made EXCEPT ![k] = @ + 1]
    BY <1>2, <1>9, <2>2 DEF Create, CreateOther
  <2>4. s = r
    BY <1>4, <2>3
  <2>5. k = i
    BY <1>1, <2>1, <2>2, <2>4 DEF CreatesApart, Op, Target, IInv, TypeOK
  <2>6. made'[k] = made[k] + 1 /\ made[k] \in Nat
    BY <2>3, OneMore, ItemType DEF IInv
  <2> QED BY <2>2, <2>5, <2>6
<1>10. PICK h \in Handlers : Create(h) \/ CreateOther(h)
  BY <1>2, <1>3, <1>6, <1>7, <1>8 DEF Next, Serve
<1> QED BY <1>9, <1>10

\* Rows there are none of are still to be made.
LEMMA StepRowsMade ==
  ASSUME CreatesApart, IInv, TInv, IInv', Forward, [Next]_vars
  PROVE  RowsMade'
<1>1. outbox' = outbox
  BY DEF Forward
<1>2. ASSUME NEW r \in Rows, rows'[r].state = "none"
      PROVE  \E i \in Items : Target(i)' = r /\ Op(i)' = "create"
  <2>1. rows[r].state = "none"
    BY <1>2, RowsStep DEF IInv, Forward
  <2>2. PICK i \in Items : Target(i) = r /\ Op(i) = "create"
    BY <2>1 DEF TInv, RowsMade
  <2> QED BY <1>1, <2>2 DEF Target, Op
<1>3. ASSUME NEW i \in Items, Op(i) = "create",
             rows'[Target(i)].state # "none"
      PROVE  made'[i] > 0
  <2>1. CASE rows[Target(i)].state = "none"
    BY <1>3, <2>1, Appears
  <2>2. CASE rows[Target(i)].state # "none"
    <3>1. made[i] > 0 /\ made[i] \in Nat /\ made'[i] \in Nat
      BY <1>3, <2>2, ItemType DEF TInv, RowsMade, IInv, Forward
    <3> QED BY <3>1 DEF Forward
  <2> QED BY <2>1, <2>2
<1>4. ASSUME NEW i \in Items
      PROVE  Op(i)' = Op(i) /\ rows'[Target(i)] = rows'[Target(i)']
  BY <1>1 DEF Op, Target
<1> QED BY <1>2, <1>3, <1>4 DEF RowsMade

\* A create that is about to write was looked up.
LEMMA StepLookedUp ==
  ASSUME CreatesApart, IInv, TInv, IInv', Forward, [Next]_vars,
         NEW h \in Handlers
  PROVE  LookedUp(h)'
<1>1. SUFFICES ASSUME requests'[h].pc = "write",
                      outbox[Current(h)'].op = "create"
               PROVE  LookedUp(h)'
  BY DEF LookedUp, Op, Forward
<1>2. requests'[h].todo # {}
  BY <1>1 DEF IInv, RequestOK
<1>3. PICK i \in Items : i = Current(h)'
  <2>1. requests'[h].todo \in SUBSET Nat
    BY SyncPushAssumption DEF IInv, TypeOK, RequestType
  <2>2. Current(h)' \in requests'[h].todo
    BY <1>2, <2>1, MinIn DEF Current
  <2> QED BY <2>2 DEF IInv, TypeOK, RequestType
<1>4. PICK r \in Rows : r = Target(i) /\ r = Target(i)' /\ Op(i) = "create"
  BY <1>1, <1>3, ItemType DEF IInv, Target, Op, Forward
<1>5. SUFFICES /\ Kind(i) = "transaction"
               /\ rows'[r].state \in {"none", "deleted"} \/ i \in raced'
  BY <1>1, <1>3, <1>4 DEF LookedUp, Kind
<1>6. ASSUME Kind(i) = "transaction", rows[r].state = "deleted"
      PROVE  rows'[r].state = "deleted"
  BY <1>4, <1>6, StaysDeleted DEF Kind
<1>7. CASE requests'[h] = requests[h]
  <2>1. i = Current(h) /\ requests[h].pc = "write" /\ requests[h].todo # {}
    BY <1>1, <1>2, <1>3, <1>7 DEF Current
  <2>2. /\ Kind(i) = "transaction"
        /\ rows[r].state \in {"none", "deleted"} \/ i \in raced
    BY <1>4, <2>1 DEF TInv, LookedUp
  <2>3. CASE rows[r].state = "none" /\ rows'[r].state # "none"
    <3>1. PICK g \in Handlers : Create(g) /\ Current(g) = i
      BY <1>4, <2>2, <2>3, Appears DEF CreateOther, At
    <3>2. h # g
      <4>1. requests'[g].pc = "next"
        BY <3>1 DEF Create, Answer, IInv, TypeOK
      <4> QED BY <1>1, <4>1
    <3>3. At(h, "write", "create", {"transaction"})
      BY <1>4, <2>1, <2>2 DEF At
    <3>4. i \in raced'
      BY <2>1, <3>1, <3>2, <3>3 DEF Create
    <3> QED BY <2>2, <3>4
  <2>4. i \in raced => i \in raced'
    BY DEF Forward
  <2> QED BY <1>6, <2>2, <2>3, <2>4
<1>8. CASE LookUp(h)
  <2>1. /\ requests' = [requests EXCEPT ![h].pc = "write"]
        /\ ~Live(Target(Current(h))) /\ rows' = rows
        /\ Kind(Current(h)) = "transaction"
    BY <1>1, <1>8 DEF LookUp, At, Answer, GetTransactionByClientID, IInv,
       TypeOK
  <2>2. requests'[h].todo = requests[h].todo
    BY <2>1 DEF IInv, TypeOK, RequestType
  <2>3. i = Current(h)
    BY <1>3, <2>2 DEF Current
  <2>4. rows[r].state \in {"none", "live", "deleted"}
    BY DEF IInv, TypeOK, RowType
  <2> QED BY <1>4, <2>1, <2>3, <2>4 DEF Live
<1>9. CASE Fetch(h)
  <2>1. ~ \E answer \in Answers : Answer(h, answer)
    BY <1>1 DEF Answer, IInv, TypeOK
  <2>2. requests'[h].todo = requests[h].todo
    <3>1. PICK s \in Rows : s = Target(Current(h))
      BY <1>9, CurrentIn, ItemType DEF Fetch, At, IInv
    <3>2. requests' = [requests EXCEPT ![h].pc = "write",
                                       ![h].seen = rows[s].version]
      BY <1>9, <2>1, <3>1 DEF Fetch, Answers
    <3> QED BY <3>2 DEF IInv, TypeOK, RequestType
  <2>3. i = Current(h)
    BY <1>3, <2>2 DEF Current
  <2> QED BY <1>4, <1>9, <2>3 DEF Fetch, At
<1>10. CASE UNCHANGED vars \/ Timeout \/ Edit \/ RollOver \/ Tick
  BY <1>7, <1>10 DEF vars, Timeout, Edit, RollOver, Tick, extra
<1>11. CASE Crash
  BY <1>1, <1>11, FreeType DEF Crash
<1>12. ASSUME NEW g \in Handlers, Send(g) \/ Serve(g) \/ Fault(g), g # h
       PROVE  requests'[h] = requests[h]
  BY <1>12, OwnRequest
<1>13. ASSUME \/ Send(h) \/ Refuse(h) \/ Parse(h) \/ Create(h)
              \/ CreateOther(h) \/ Write(h)
              \/ RejectContribution(h) \/ Respond(h) \/ Fault(h)
       PROVE  requests'[h].pc # "write"
  <2>1. CASE Send(h) \/ Refuse(h) \/ Parse(h) \/ Respond(h)
    BY <2>1, Restart DEF Parse, IInv, TypeOK
  <2>2. CASE \E answer \in Answers : Answer(h, answer)
    BY <2>2 DEF Answer, IInv, TypeOK
  <2>3. CASE Create(h) \/ CreateOther(h) \/ Write(h)
             \/ RejectContribution(h) \/ Fault(h)
    BY <2>2, <2>3 DEF Create, CreateOther, Write, RejectContribution, Fault,
                      Answers
  <2> QED BY <1>13, <2>1, <2>3
<1> QED BY <1>1, <1>7, <1>8, <1>9, <1>10, <1>11, <1>12, <1>13 DEF Next, Serve

\* At first nothing has been told and nothing made.
LEMMA InitTold == Init => TInv
<1> SUFFICES ASSUME Init PROVE TInv
  OBVIOUS
<1>1. IInv
  BY InitInvariant
<1>2. RowsMade
  BY <1>1, ItemType DEF IInv, Init, RowsMade, Creating
<1>3. \A h \in Handlers : LookedUp(h)
  BY FreeType DEF Init, LookedUp
<1>4. \A i \in Items, h \in Handlers : Told(i, status[i]) /\ Heard(h, i)
  BY DEF Init, Free, Told, Heard
<1>5. \A i \in Items : Told(i, status[i])
  BY DEF Init, Told
<1> QED BY <1>2, <1>3, <1>4, <1>5 DEF TInv

(***************************************************************************)
(* What a device is told of an item is so, when it is told and from then   *)
(* on: what was applied or skipped is there, what was rejected was not     *)
(* made or for a reason, a conflict is one (sync_push_entities.go,         *)
(* sync.go:426-490).                                                       *)
(***************************************************************************)
THEOREM ToldTrulyCorrect ==
  ASSUME CreatesApart
  PROVE  Spec => []ToldTruly
<1>1. ASSUME IInv, TInv, [Next]_vars
      PROVE  TInv'
  <2>1. IInv'
    BY <1>1, StepInvariant
  <2>2. Forward
    BY <1>1, StepForward
  <2> QED BY <1>1, <2>1, <2>2, StepRowsMade, StepLookedUp, StepStatus, StepHeard
          DEF TInv
<1>2. ASSUME IInv, TInv
      PROVE  ToldTruly
  <2>1. ASSUME NEW i \in Items
        PROVE  Told(i, status[i])
    BY <1>2 DEF TInv
  <2>2. losses \in Nat /\ faults \in Nat
    BY <1>2 DEF IInv, TypeOK
  <2> QED BY <2>1, <2>2 DEF ToldTruly, Told, Refused
<1> QED BY <1>1, <1>2, Invariant, InitTold, PTL DEF Spec
=============================================================================
