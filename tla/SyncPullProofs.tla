--------------------------- MODULE SyncPullProofs ---------------------------
(***************************************************************************)
(* Proof that a device loses no row but in the ways LostOnlyIfOvertaken    *)
(* names, for any number of collections, rows and transactions, pages of   *)
(* any size, any fraction of a second and pulls abandoned anywhere.        *)
(***************************************************************************)
EXTENDS SyncPull, FiniteSetTheorems, WellFoundedInduction, TLAPS

\* A request is under way.
Active == pull.pc \in {"query", "receive"}

\* A time as it is on the wire.
Whole(t) == Truncate(t) = t

Entries == [id : Rows, version : Nat, at : Int]

Requests ==
  [pc : {"idle", "failed", "query", "receive"}, since : Int, serverTime : Int,
   kind : Nat, page : SUBSET Entries, truncated : SUBSET Int]

Typed ==
  /\ now \in Nat
  /\ rows \in [Rows -> [version : Nat, at : Int]]
  /\ \A r \in Rows : rows[r].at <= now
  /\ open \in SUBSET (0 .. now)
  /\ passed \in [1 .. Kinds -> Int]
  /\ overtaken \in SUBSET Rows
  /\ pull \in Requests
  /\ cursor \in Int
  /\ local \in [Rows -> Nat]

\* No pull has come further than the clock, none starts later than it has come.
Reached ==
  /\ Whole(cursor)
  /\ \A k \in 1 .. Kinds :
       Whole(passed[k]) /\ cursor <= passed[k] /\ passed[k] <= now

(***************************************************************************)
(* A request starts at the cursor or after it, and no later than the pulls *)
(* have come; server_time is no later than any of its queries.             *)
(***************************************************************************)
Asked ==
  Active =>
    /\ Whole(pull.since) /\ cursor <= pull.since
    /\ Whole(pull.serverTime) /\ pull.serverTime <= now
    /\ \A k \in 1 .. Kinds :
         /\ pull.since <= passed[k]
         /\ k < pull.kind => pull.serverTime <= passed[k]
    /\ \A l \in pull.truncated : pull.since < l /\ l <= now
    /\ pull.pc = "query" => pull.kind \in 1 .. Kinds
    /\ pull.pc = "receive" => pull.kind = Kinds + 1

\* Deleted for good, or overtaken.
Exempt(r) == rows[r] = Gone \/ r \in overtaken

\* A pull from this time on brings the row, or it is one of the exceptions.
Safe(r, since) ==
  Behind(r) => rows[r].at > since \/ Exempt(r)

\* Written where no pull has come yet.
Later(r) == rows[r].at > passed[KindOf[r]]

\* What a page returned of a row is still so, or the row was written since.
Accounted(x) ==
  x.version = rows[x.id].version \/ Later(x.id) \/ Exempt(x.id)

Returned(r) == \E x \in pull.page : x.id = r

(***************************************************************************)
(* A row that its query did not return is not behind, was written since,   *)
(* or comes after the last row of a page that was cut.                     *)
(***************************************************************************)
LeftOut(r) ==
  Behind(r) => \/ Later(r) \/ Exempt(r)
               \/ \E l \in pull.truncated : rows[r].at >= l

Paged ==
  Active =>
    /\ \A x, y \in pull.page : x.id = y.id => x = y
    /\ \A x \in pull.page : KindOf[x.id] < pull.kind /\ Accounted(x)
    /\ \A r \in Rows : KindOf[r] < pull.kind /\ ~Returned(r) => LeftOut(r)

\* Between pulls and during one.
Kept ==
  \A r \in Rows : Safe(r, cursor) /\ (Active => Safe(r, pull.since))

PullInv == Typed /\ Reached /\ Asked /\ Paged /\ Kept

-----------------------------------------------------------------------------
(* Times, and least elements.                                              *)

LEMMA Numbers ==
  /\ Kinds \in Nat /\ Kinds >= 1 /\ PageSize \in Nat /\ PageSize >= 1
  /\ TicksPerSecond \in Nat /\ TicksPerSecond >= 1
  /\ Start \in Nat /\ Rows \subseteq Nat /\ IsFiniteSet(Rows)
  /\ KindOf \in [Rows -> 1 .. Kinds] /\ Stamps \subseteq [Rows -> -1 .. Start]
BY SyncPullAssumption

\* Truncation gives a whole second, no later.
LEMMA TruncateFacts ==
  ASSUME NEW t \in Int
  PROVE  Truncate(t) \in Int /\ Truncate(t) <= t /\ Whole(Truncate(t))
<1>1. CASE t < 0
  BY <1>1 DEF Truncate, Whole
<1>2. CASE t >= 0
  <2> DEFINE T == TicksPerSecond
             m == t % T
             q == t \div T
  <2>1. /\ T \in Nat /\ T >= 1 /\ m \in 0 .. T - 1 /\ q \in Nat
        /\ t = T * q + m
    BY <1>2, Numbers
  <2>2. Truncate(t) = t - m
    BY <1>2 DEF Truncate
  <2>3. t - m \in Nat /\ t - m <= t
    <3> HIDE DEF m, q, T
    <3>1. T * q \in Nat
      BY <2>1
    <3> QED BY <2>1, <3>1, <1>2
  <2>4. (t - m) % T = 0
    <3>1. t - m = T * q
      <4> HIDE DEF m, q, T
      <4> QED BY <2>1, <1>2
    <3>2. (T * q) % T = 0
      <4> HIDE DEF m, q, T
      <4> QED BY <2>1
    <3> QED BY <3>1, <3>2
  <2>5. Truncate(t - m) = t - m
    <3> HIDE DEF m, q
    <3> QED BY <2>3, <2>4 DEF Truncate
  <2> QED BY <2>2, <2>3, <2>5 DEF Whole
<1> QED BY <1>1, <1>2

\* A whole second that is no later than a time is no later once that is cut.
LEMMA WholeBefore ==
  ASSUME NEW t \in Int, NEW u \in Int, Whole(t), t <= u
  PROVE  t <= Truncate(u)
<1>1. CASE u < 0
  BY <1>1 DEF Truncate
<1>2. CASE t < 0 /\ u >= 0
  <2>1. u % TicksPerSecond \in 0 .. TicksPerSecond - 1
    BY <1>2, Numbers
  <2>2. u % TicksPerSecond <= u
    BY <1>2, Numbers
  <2> QED BY <1>2, <2>1, <2>2 DEF Truncate
<1>3. CASE t >= 0 /\ u >= 0
  <2> DEFINE T == TicksPerSecond
             m == u % T
             q == u \div T
             n == t \div T
  <2>1. T \in Nat /\ T >= 1 /\ q \in Nat /\ n \in Nat /\ m \in 0 .. T - 1
    BY <1>3, Numbers
  <2>2. u = T * q + m
    BY <1>3, Numbers
  <2>3. t = T * n
    <3>1. t % T = 0
      BY <1>3, Numbers DEF Whole, Truncate
    <3>2. t = (T * n) + (t % T)
      BY <1>3, Numbers
    <3> HIDE DEF n, T
    <3> QED BY <2>1, <3>1, <3>2
  <2>4. n <= q
    <3> HIDE DEF m, n, q, T
    <3> QED BY <1>3, <2>1, <2>2, <2>3
  <2>5. T * n <= T * q
    <3> HIDE DEF m, n, q, T
    <3> QED BY <2>1, <2>4
  <2>6. Truncate(u) = u - m
    BY <1>3 DEF Truncate
  <2> HIDE DEF m, n, q, T
  <2> QED BY <1>3, <2>1, <2>2, <2>3, <2>5, <2>6
<1> QED BY <1>1, <1>2, <1>3

\* A set of naturals has a least element.
LEMMA LeastNat ==
  ASSUME NEW S \in SUBSET Nat, S # {}
  PROVE  \E n \in S : \A m \in S : n <= m
<1>1. PICK n \in S : \A m \in S : ~(<<m, n>> \in OpToRel(<, Nat))
  BY NatLessThanWellFounded, WFMin
<1>2. \A m \in S : ~(m < n)
  BY <1>1 DEF OpToRel
<1> QED BY <1>2

\* A set of integers with a lower bound has a minimum.
LEMMA MinFacts ==
  ASSUME NEW S \in SUBSET Int, S # {}, NEW b \in Int, \A x \in S : b <= x
  PROVE  Min(S) \in S /\ \A x \in S : Min(S) <= x
<1> DEFINE D == {x - b : x \in S}
<1>1. D \in SUBSET Nat
  OBVIOUS
<1>2. PICK n \in D : \A m \in D : n <= m
  <2>1. D # {}
    OBVIOUS
  <2> HIDE DEF D
  <2> QED BY <1>1, <2>1, LeastNat
<1>3. PICK x \in S : n = x - b
  BY <1>2
<1>4. \A y \in S : x <= y
  BY <1>2, <1>3
<1> QED BY <1>3, <1>4 DEF Min

\* A set of integers with an upper bound has a maximum.
LEMMA MaxFacts ==
  ASSUME NEW S \in SUBSET Int, S # {}, NEW b \in Int, \A x \in S : x <= b
  PROVE  Max(S) \in S /\ \A x \in S : x <= Max(S)
<1> DEFINE D == {b - x : x \in S}
<1>1. D \in SUBSET Nat
  OBVIOUS
<1>2. PICK n \in D : \A m \in D : n <= m
  <2>1. D # {}
    OBVIOUS
  <2> HIDE DEF D
  <2> QED BY <1>1, <2>1, LeastNat
<1>3. PICK x \in S : n = b - x
  BY <1>2
<1>4. \A y \in S : y <= x
  BY <1>2, <1>3
<1> QED BY <1>3, <1>4 DEF Max

-----------------------------------------------------------------------------
(* Pages.                                                                  *)

\* The rows of S before r in the order of a query.
Before(S, r) == {q \in S : Precedes(q, r)}

\* What is before a row has fewer rows before it.
LEMMA BeforeFacts ==
  ASSUME NEW S \in SUBSET Rows, Typed
  PROVE  /\ \A r \in S : IsFiniteSet(Before(S, r))
                       /\ Cardinality(Before(S, r)) \in Nat
         /\ \A q, r \in S :
              Precedes(q, r) => Cardinality(Before(S, q)) < Cardinality(Before(S, r))
<1>1. IsFiniteSet(S)
  BY Numbers, FS_Subset
<1>2. \A r \in S : IsFiniteSet(Before(S, r)) /\ Cardinality(Before(S, r)) \in Nat
  <2>1. \A r \in S : Before(S, r) \subseteq S
    BY DEF Before
  <2> QED BY <1>1, <2>1, FS_Subset, FS_CardinalityType
<1>3. ASSUME NEW q \in S, NEW r \in S, Precedes(q, r)
      PROVE  Cardinality(Before(S, q)) < Cardinality(Before(S, r))
  <2>1. \A p \in S : p \in Nat /\ rows[p].at \in Int
    BY Numbers DEF Typed
  <2>2. Before(S, q) \subseteq Before(S, r) \ {q}
    BY <1>3, <2>1 DEF Before, Precedes
  <2>3. q \in Before(S, r)
    BY <1>3 DEF Before
  <2>4. /\ IsFiniteSet(Before(S, r) \ {q})
        /\ Cardinality(Before(S, r) \ {q}) = Cardinality(Before(S, r)) - 1
    BY <1>2, <2>3, FS_RemoveElement
  <2>5. Cardinality(Before(S, q)) <= Cardinality(Before(S, r) \ {q})
    BY <2>2, <2>4, FS_Subset
  <2> QED BY <1>2, <2>4, <2>5
<1> QED BY <1>2, <1>3

\* Of some rows, one has none of the others before it.
LEMMA Earliest ==
  ASSUME NEW S \in SUBSET Rows, Typed, NEW B \in SUBSET S, B # {}
  PROVE  \E r \in B : \A q \in B : ~Precedes(q, r)
<1> DEFINE N == {Cardinality(Before(S, r)) : r \in B}
<1>1. \A r \in S : Cardinality(Before(S, r)) \in Nat
  BY BeforeFacts
<1>2. N \in SUBSET Nat /\ N # {}
  BY <1>1
<1>3. PICK n \in N : \A m \in N : n <= m
  <2> HIDE DEF N
  <2> QED BY <1>2, LeastNat
<1>4. PICK r \in B : n = Cardinality(Before(S, r))
  BY <1>3
<1>5. ASSUME NEW q \in B, Precedes(q, r) PROVE FALSE
  <2>1. Cardinality(Before(S, q)) < Cardinality(Before(S, r))
    BY <1>5, BeforeFacts
  <2>2. Cardinality(Before(S, r)) <= Cardinality(Before(S, q))
    BY <1>3, <1>4, <1>5
  <2> QED BY <1>1, <1>5, <2>1, <2>2
<1> QED BY <1>5

LEMMA FirstDef ==
  ASSUME NEW S, NEW n
  PROVE  First(n, S) = {r \in S : Cardinality(Before(S, r)) < n}
BY DEF First, Before

\* The first page of some rows is not empty.
LEMMA PageNotEmpty ==
  ASSUME NEW S \in SUBSET Rows, Typed, S # {}
  PROVE  First(PageSize, S) # {}
<1>1. PICK r \in S : \A q \in S : ~Precedes(q, r)
  BY Earliest
<1>2. Before(S, r) = {}
  BY <1>1 DEF Before
<1> QED BY <1>2, FirstDef, FS_EmptySet, Numbers

\* What is left for later pages is no older than what the first has.
LEMMA PageInOrder ==
  ASSUME NEW S \in SUBSET Rows, Typed,
         NEW q \in First(PageSize, S), NEW r \in S \ First(PageSize, S)
  PROVE  rows[q].at <= rows[r].at
<1>1. q \in S /\ Cardinality(Before(S, q)) < PageSize
  BY FirstDef
<1>2. ~(Cardinality(Before(S, r)) < PageSize)
  BY FirstDef
<1>3. rows[q].at \in Int /\ rows[r].at \in Int
  BY <1>1 DEF Typed
<1>4. SUFFICES ASSUME rows[r].at < rows[q].at PROVE FALSE
  BY <1>3
<1>5. Precedes(r, q)
  BY <1>4 DEF Precedes
<1>6. Cardinality(Before(S, r)) < Cardinality(Before(S, q))
  BY <1>1, <1>5, BeforeFacts
<1>7. Cardinality(Before(S, q)) \in Nat /\ Cardinality(Before(S, r)) \in Nat
  BY <1>1, BeforeFacts
<1> QED BY <1>1, <1>2, <1>6, <1>7, Numbers

\* Without an extra row, the page has them all.
LEMMA AllUnlessTruncated ==
  ASSUME NEW S \in SUBSET Rows, Typed, ~Truncated(S)
  PROVE  First(PageSize, S) = S
<1> DEFINE B == S \ First(PageSize, S)
           F == First(PageSize + 1, S)
<1>1. First(PageSize, S) \subseteq S /\ F \subseteq S /\ IsFiniteSet(F)
  <2>1. First(PageSize, S) \subseteq S /\ F \subseteq S
    BY FirstDef
  <2> QED BY <2>1, Numbers, FS_Subset
<1>2. SUFFICES ASSUME B # {} PROVE FALSE
  BY <1>1
<1>3. PICK r \in B : \A q \in B : ~Precedes(q, r)
  <2> HIDE DEF B
  <2>1. B \in SUBSET S
    BY DEF B
  <2> QED BY <1>2, <2>1, Earliest
<1> DEFINE P == Before(S, r)
<1>4. IsFiniteSet(P) /\ Cardinality(P) \in Nat /\ Cardinality(P) >= PageSize
  <2>1. IsFiniteSet(P) /\ Cardinality(P) \in Nat
    BY BeforeFacts
  <2>2. ~(Cardinality(P) < PageSize)
    BY FirstDef
  <2> QED BY <2>1, <2>2, Numbers
<1>5. P \subseteq F
  <2> SUFFICES ASSUME NEW q \in P PROVE q \in F
    OBVIOUS
  <2>1. q \in S /\ q \notin B
    BY <1>3 DEF Before
  <2>2. Cardinality(Before(S, q)) < PageSize
    BY <2>1, FirstDef
  <2>3. Cardinality(Before(S, q)) \in Nat
    BY <2>1, BeforeFacts
  <2>4. Cardinality(Before(S, q)) < PageSize + 1
    BY <2>2, <2>3, Numbers
  <2> QED BY <2>1, <2>4, FirstDef
<1>6. Cardinality(F) \in Nat /\ Cardinality(F) <= PageSize
  <2>1. Cardinality(F) \in Nat
    BY <1>1, FS_CardinalityType
  <2> QED BY <2>1, Numbers DEF Truncated
<1>7. Cardinality(P) <= Cardinality(F)
  BY <1>1, <1>5, FS_Subset
<1>8. Cardinality(P) = PageSize
  BY <1>4, <1>6, <1>7, Numbers
<1>9. r \in F
  <2>1. Cardinality(P) < PageSize + 1
    BY <1>8, Numbers
  <2> QED BY <2>1, FirstDef
<1>10. r \notin P
  <2>1. rows[r].at \in Int /\ r \in Nat
    BY Numbers DEF Typed
  <2> QED BY <2>1 DEF Before, Precedes
<1>11. IsFiniteSet(P \cup {r}) /\ Cardinality(P \cup {r}) = PageSize + 1
  <2> HIDE DEF P
  <2> QED BY <1>4, <1>8, <1>10, FS_AddElement
<1>12. Cardinality(P \cup {r}) <= Cardinality(F)
  <2>1. P \cup {r} \subseteq F
    BY <1>5, <1>9
  <2> QED BY <1>1, <2>1, FS_Subset
<1> QED BY <1>6, <1>11, <1>12, Numbers

-----------------------------------------------------------------------------
(* Each step keeps the invariant.                                          *)

LEMMA InitInvariant == Init => PullInv
<1> SUFFICES ASSUME Init PROVE PullInv
  OBVIOUS
<1>1. PICK stamp \in Stamps :
        rows = [r \in Rows |-> [version |-> IF stamp[r] < 0 THEN 0 ELSE 1,
                               at |-> stamp[r]]]
  BY DEF Init
<1>2. stamp \in [Rows -> -1 .. Start]
  BY Numbers
<1>3. \A r \in Rows : /\ rows[r].at = stamp[r] /\ stamp[r] \in -1 .. Start
                      /\ rows[r].version = IF stamp[r] < 0 THEN 0 ELSE 1
  BY <1>1, <1>2
<1>4. rows \in [Rows -> [version : Nat, at : Int]]
  BY <1>1, <1>2
<1>5. pull \in Requests /\ ~Active /\ cursor = -1
  BY DEF Init, Idle, Requests, Active, Beginning
<1>6. Typed
  BY <1>3, <1>4, <1>5, Numbers DEF Init, Typed, Beginning
<1>7. Reached
  BY <1>5, Numbers DEF Init, Reached, Whole, Truncate, Beginning
<1>8. Kept
  BY <1>3, <1>5, Numbers DEF Init, Kept, Safe, Behind
<1> QED BY <1>5, <1>6, <1>7, <1>8 DEF PullInv, Asked, Paged

\* The clock moves, or a transaction begins.
LEMMA Unmoved ==
  ASSUME PullInv, now' \in Nat, now <= now',
         UNCHANGED <<rows, passed, overtaken, pull, cursor, local>>
  PROVE  /\ rows' \in [Rows -> [version : Nat, at : Int]]
         /\ \A r \in Rows : rows'[r].at <= now'
         /\ Reached' /\ Asked' /\ Paged' /\ Kept'
<1>1. /\ \A r \in Rows : rows[r].at \in Int /\ rows[r].at <= now
      /\ \A k \in 1 .. Kinds : passed[k] \in Int
      /\ now \in Nat /\ pull.serverTime \in Int /\ pull.truncated \in SUBSET Int
  BY DEF PullInv, Typed, Requests
<1>2. \A r \in Rows : rows'[r].at <= now'
  BY <1>1
<1>3. Reached'
  BY <1>1 DEF PullInv, Reached, Whole
<1>4. Asked'
  BY <1>1 DEF PullInv, Asked, Active, Whole
<1>5. Paged'
  BY DEF PullInv, Paged, Active, Accounted, Returned, LeftOut, Later, Exempt, Behind
<1>6. Kept'
  BY DEF PullInv, Kept, Active, Safe, Exempt, Behind
<1> QED BY <1>2, <1>3, <1>4, <1>5, <1>6 DEF PullInv, Typed

(***************************************************************************)
(* One row is written, at a time where no pull has come yet or to be       *)
(* exempt.                                                                 *)
(***************************************************************************)
LEMMA RowWritten ==
  ASSUME PullInv, NEW r \in Rows, rows' \in [Rows -> [version : Nat, at : Int]],
         UNCHANGED <<now, passed, pull, cursor, local>>,
         \A q \in Rows \ {r} : rows'[q] = rows[q],
         \A q \in Rows \ {r} : q \in overtaken => q \in overtaken',
         Later(r)' \/ Exempt(r)'
  PROVE  Reached' /\ Asked' /\ Paged' /\ Kept'
<1>1. Reached'
  BY DEF PullInv, Reached, Whole
<1>2. Asked'
  BY DEF PullInv, Asked, Active, Whole
<1>3. ASSUME NEW q \in Rows \ {r}
      PROVE  /\ Behind(q)' = Behind(q)
             /\ Later(q)' = Later(q) /\ (Exempt(q) => Exempt(q)')
  <2>1. rows'[q] = rows[q]
    OBVIOUS
  <2>2. Behind(q)' = Behind(q)
    BY <2>1 DEF Behind
  <2>4. Later(q)' = Later(q)
    BY <2>1 DEF Later
  <2>5. Exempt(q) => Exempt(q)'
    BY <2>1 DEF Exempt
  <2> QED BY <2>2, <2>4, <2>5
<1>4. Paged'
  <2> SUFFICES ASSUME Active' PROVE Paged'
    BY DEF Paged
  <2>1. Active /\ Paged
    BY DEF PullInv, Active
  <2>2. \A x \in pull.page : x.id \in Rows
    BY DEF PullInv, Typed, Requests, Entries
  <2>3. ASSUME NEW x \in pull.page PROVE Accounted(x)'
    <3>1. Accounted(x)
      BY <2>1 DEF Paged
    <3>2. CASE x.id = r
      BY <3>2 DEF Accounted
    <3>3. CASE x.id # r
      BY <1>3, <2>2, <3>1, <3>3 DEF Accounted
    <3> QED BY <3>2, <3>3
  <2>4. ASSUME NEW q \in Rows, LeftOut(q) PROVE LeftOut(q)'
    <3>1. CASE q = r
      BY <3>1 DEF LeftOut
    <3>2. CASE q # r
      <4>1. rows'[q] = rows[q]
        BY <3>2
      <4> QED BY <1>3, <2>4, <3>2, <4>1 DEF LeftOut
    <3> QED BY <3>1, <3>2
  <2>5. \A q \in Rows : Returned(q)' = Returned(q)
    BY DEF Returned
  <2> QED BY <2>1, <2>3, <2>4, <2>5 DEF Paged
<1>5. Kept'
  <2>1. ASSUME NEW c \in Int, \A k \in 1 .. Kinds : c <= passed[k],
               NEW q \in Rows, Safe(q, c)
        PROVE  Safe(q, c)'
    <3>1. CASE q = r
      <4>1. KindOf[r] \in 1 .. Kinds /\ rows'[r].at \in Int /\ passed[KindOf[r]] \in Int
        BY Numbers DEF PullInv, Typed
      <4>2. Later(r)' => rows'[r].at > c
        BY <2>1, <4>1 DEF Later
      <4> QED BY <3>1, <4>2 DEF Safe
    <3>2. CASE q # r
      <4>1. rows'[q] = rows[q]
        BY <3>2
      <4> QED BY <1>3, <2>1, <3>2, <4>1 DEF Safe
    <3> QED BY <3>1, <3>2
  <2>2. cursor \in Int /\ pull.since \in Int
    BY DEF PullInv, Typed, Requests
  <2>3. \A k \in 1 .. Kinds : cursor <= passed[k]
    BY DEF PullInv, Reached
  <2>4. Active => \A k \in 1 .. Kinds : pull.since <= passed[k]
    BY DEF PullInv, Asked
  <2>5. ASSUME NEW q \in Rows
        PROVE  Safe(q, cursor)' /\ (Active' => Safe(q, pull.since)')
    <3>1. Safe(q, cursor) /\ (Active => Safe(q, pull.since))
      BY DEF PullInv, Kept
    <3>2. Safe(q, cursor)'
      <4>1. PICK c \in Int : c = cursor
        BY <2>2
      <4>2. Safe(q, c)'
        BY <2>1, <2>3, <3>1, <4>1
      <4> QED BY <4>1, <4>2 DEF Safe
    <3>3. ASSUME Active' PROVE Safe(q, pull.since)'
      <4>1. PICK c \in Int : c = pull.since
        BY <2>2
      <4>2. Active
        BY <3>3 DEF Active
      <4>3. Safe(q, c)'
        BY <2>1, <2>4, <3>1, <4>1, <4>2
      <4> QED BY <4>1, <4>3 DEF Safe
    <3> QED BY <3>2, <3>3
  <2> QED BY <2>5 DEF Kept
<1> QED BY <1>1, <1>2, <1>4, <1>5

LEMMA TickStep == PullInv /\ Tick => PullInv'
<1> SUFFICES ASSUME PullInv, Tick PROVE PullInv'
  OBVIOUS
<1>1. now' \in Nat /\ now <= now' /\ now \in Nat
  BY DEF PullInv, Typed, Tick
<1>2. /\ \A r \in Rows : rows'[r].at <= now'
      /\ Reached' /\ Asked' /\ Paged' /\ Kept'
  BY <1>1, Unmoved DEF Tick
<1>3. Typed'
  BY <1>1, <1>2 DEF PullInv, Typed, Tick
<1> QED BY <1>2, <1>3 DEF PullInv

LEMMA BeginStep == PullInv /\ Begin => PullInv'
<1> SUFFICES ASSUME PullInv, Begin PROVE PullInv'
  OBVIOUS
<1>1. now' \in Nat /\ now <= now'
  BY DEF PullInv, Typed, Begin
<1>2. Reached' /\ Asked' /\ Paged' /\ Kept'
  BY <1>1, Unmoved DEF Begin
<1>3. Typed'
  BY DEF PullInv, Typed, Begin
<1> QED BY <1>2, <1>3 DEF PullInv

LEMMA CommitStep == PullInv /\ Commit => PullInv'
<1> SUFFICES ASSUME PullInv, Commit PROVE PullInv'
  OBVIOUS
<1>1. PICK t \in open, r \in Rows :
        /\ rows' = [rows EXCEPT ![r] = Written(t, r)]
        /\ overtaken' = IF t <= passed[KindOf[r]] THEN overtaken \cup {r}
                                                  ELSE overtaken \ {r}
        /\ open' = open \ {t}
        /\ UNCHANGED <<now, passed, pull, cursor, local>>
  BY DEF Commit
<1>2. t \in Int /\ t <= now /\ passed[KindOf[r]] \in Int
  BY Numbers DEF PullInv, Typed
<1>3. Written(t, r) \in [version : Nat, at : Int] /\ Written(t, r).at = t
  BY <1>2 DEF PullInv, Typed, Written
<1>4. /\ rows' \in [Rows -> [version : Nat, at : Int]]
      /\ rows'[r] = Written(t, r)
      /\ \A q \in Rows \ {r} : rows'[q] = rows[q]
  BY <1>1, <1>3 DEF PullInv, Typed
<1>5. \A q \in Rows \ {r} : q \in overtaken => q \in overtaken'
  BY <1>1
<1>6. Later(r)' \/ Exempt(r)'
  BY <1>1, <1>2, <1>3, <1>4 DEF Later, Exempt
<1>7. Reached' /\ Asked' /\ Paged' /\ Kept'
  BY <1>1, <1>4, <1>5, <1>6, RowWritten
<1>8. \A q \in Rows : rows'[q].at <= now'
  BY <1>1, <1>2, <1>3, <1>4 DEF PullInv, Typed
<1>9. Typed'
  BY <1>1, <1>4, <1>8 DEF PullInv, Typed
<1> QED BY <1>7, <1>9 DEF PullInv

LEMMA HardDeleteStep == PullInv /\ HardDelete => PullInv'
<1> SUFFICES ASSUME PullInv, HardDelete PROVE PullInv'
  OBVIOUS
<1>1. PICK t \in open, r \in Rows :
        /\ rows' = [rows EXCEPT ![r] = Gone]
        /\ open' = open \ {t}
        /\ UNCHANGED <<now, overtaken, passed, pull, cursor, local>>
  BY DEF HardDelete
<1>2. Gone \in [version : Nat, at : Int] /\ Gone.at = -2
  BY DEF Gone
<1>3. /\ rows' \in [Rows -> [version : Nat, at : Int]]
      /\ rows'[r] = Gone
      /\ \A q \in Rows \ {r} : rows'[q] = rows[q]
  BY <1>1, <1>2 DEF PullInv, Typed
<1>4. Exempt(r)'
  BY <1>3 DEF Exempt
<1>5. Reached' /\ Asked' /\ Paged' /\ Kept'
  BY <1>1, <1>3, <1>4, RowWritten
<1>6. \A q \in Rows : rows'[q].at <= now'
  BY <1>1, <1>2, <1>3 DEF PullInv, Typed
<1>7. Typed'
  BY <1>1, <1>3, <1>6 DEF PullInv, Typed
<1> QED BY <1>5, <1>7 DEF PullInv

\* A request for the rows after a time has no page yet.
LEMMA Requested ==
  ASSUME PullInv, NEW since \in Int, Pull(since), Whole(since), now' = now,
         cursor' <= since, \A k \in 1 .. Kinds : since <= passed'[k]
  PROVE  /\ pull' \in Requests /\ pull'.since = since
         /\ Asked' /\ Paged'
<1>1. /\ Truncate(now) \in Int /\ Truncate(now) <= now
      /\ Whole(Truncate(now))
  BY TruncateFacts DEF PullInv, Typed
<1>2. /\ pull' \in Requests
      /\ pull'.pc = "query" /\ pull'.since = since /\ pull'.kind = 1
      /\ pull'.serverTime = Truncate(now)
      /\ pull'.page = {} /\ pull'.truncated = {}
  BY <1>1 DEF Pull, Idle, Requests, Beginning
<1>3. Asked'
  BY <1>1, <1>2, Numbers DEF Asked, Whole, Truncate
<1>4. Paged'
  <2>1. \A r \in Rows : ~(KindOf[r] < 1)
    BY Numbers
  <2> QED BY <1>2, <2>1 DEF Paged
<1> QED BY <1>2, <1>3, <1>4

LEMMA StartPullStep == PullInv /\ StartPull => PullInv'
<1> SUFFICES ASSUME PullInv, StartPull PROVE PullInv'
  OBVIOUS
<1>1. /\ Pull(cursor)
      /\ UNCHANGED <<now, rows, open, passed, overtaken, cursor, local>>
  BY DEF StartPull
<1>2. /\ cursor \in Int /\ Whole(cursor)
      /\ \A k \in 1 .. Kinds : cursor <= passed[k]
  BY DEF PullInv, Typed, Reached
<1>3. pull' \in Requests /\ pull'.since = cursor /\ Asked' /\ Paged'
  BY <1>1, <1>2, Requested
<1>4. Typed'
  BY <1>1, <1>3 DEF PullInv, Typed
<1>5. Reached'
  BY <1>1 DEF PullInv, Reached, Whole
<1>6. Kept'
  BY <1>1, <1>3 DEF PullInv, Kept, Safe, Behind, Exempt
<1> QED BY <1>3, <1>4, <1>5, <1>6 DEF PullInv

LEMMA AbandonStep == PullInv /\ Abandon => PullInv'
<1> SUFFICES ASSUME PullInv, Abandon PROVE PullInv'
  OBVIOUS
<1>1. /\ pull' = [Idle EXCEPT !.pc = "failed"]
      /\ UNCHANGED <<now, rows, open, passed, overtaken, cursor, local>>
  BY DEF Abandon
<1>2. pull' \in Requests /\ ~Active'
  BY <1>1 DEF Idle, Requests, Active, Beginning
<1>3. Typed'
  BY <1>1, <1>2 DEF PullInv, Typed
<1>4. Reached'
  BY <1>1 DEF PullInv, Reached, Whole
<1>5. Kept'
  BY <1>1, <1>2 DEF PullInv, Kept, Safe, Behind, Exempt
<1> QED BY <1>2, <1>3, <1>4, <1>5 DEF PullInv, Asked, Paged

\* What the next query selects.
Queried == Changed(pull.kind, pull.since)

(***************************************************************************)
(* The page of a query is of its collection and after since; if it was cut *)
(* what it left out is no older than its last row, else there is nothing.  *)
(***************************************************************************)
LEMMA PageFacts ==
  ASSUME Typed, Active
  PROVE  LET page == First(PageSize, Queried)
             last == Max({rows[r].at : r \in page})
         IN  /\ page \in SUBSET Rows
             /\ \A r \in page : KindOf[r] = pull.kind /\ rows[r].at > pull.since
             /\ Truncated(Queried) =>
                  /\ last \in Int /\ pull.since < last /\ last <= now
                  /\ \A r \in Queried \ page : last <= rows[r].at
             /\ ~Truncated(Queried) => page = Queried
<1> DEFINE page == First(PageSize, Queried)
           times == {rows[r].at : r \in page}
           last == Max(times)
<1>1. /\ Queried \in SUBSET Rows
      /\ \A r \in Queried : KindOf[r] = pull.kind /\ rows[r].at > pull.since
  BY DEF Queried, Changed
<1>2. page \subseteq Queried
  BY FirstDef
<1>3. ASSUME Truncated(Queried)
      PROVE  /\ last \in Int /\ pull.since < last /\ last <= now
             /\ \A r \in Queried \ page : last <= rows[r].at
  <2>1. Queried # {}
    <3> SUFFICES ASSUME Queried = {} PROVE FALSE
      OBVIOUS
    <3>1. First(PageSize + 1, Queried) = {}
      BY FirstDef
    <3> QED BY <1>3, <3>1, FS_EmptySet, Numbers DEF Truncated
  <2>2. page # {}
    BY <1>1, <2>1, PageNotEmpty
  <2>3. /\ times \in SUBSET Int /\ times # {} /\ now \in Int
        /\ \A t \in times : t <= now /\ pull.since < t
    BY <1>1, <1>2, <2>2 DEF Typed
  <2>4. last \in times
    <3> HIDE DEF times
    <3> QED BY <2>3, MaxFacts
  <2>5. PICK q \in page : last = rows[q].at
    BY <2>4
  <2>6. \A r \in Queried \ page : last <= rows[r].at
    BY <1>1, <2>5, PageInOrder
  <2> QED BY <2>3, <2>4, <2>6
<1>4. ~Truncated(Queried) => page = Queried
  BY <1>1, AllUnlessTruncated
<1> QED BY <1>1, <1>2, <1>3, <1>4

LEMMA QueryStep == PullInv /\ Query => PullInv'
<1> SUFFICES ASSUME PullInv, Query PROVE PullInv'
  OBVIOUS
<1> DEFINE page == First(PageSize, Queried)
           last == Max({rows[r].at : r \in page})
           k == pull.kind
<1>1. /\ pull.pc = "query"
      /\ pull' = [pull EXCEPT
           !.kind = @ + 1, !.pc = IF pull.kind = Kinds THEN "receive" ELSE @,
           !.page = @ \cup {Row(r) : r \in page},
           !.truncated = IF Truncated(Queried) THEN @ \cup {last} ELSE @]
      /\ passed' = [passed EXCEPT ![k] = Truncate(now)]
      /\ overtaken' = overtaken \ page
      /\ UNCHANGED <<now, rows, open, cursor, local>>
  BY DEF Query, Queried
<1>2. /\ Active /\ k \in 1 .. Kinds /\ pull \in Requests /\ now \in Nat
      /\ Typed /\ Reached /\ Asked /\ Paged /\ Kept
  BY <1>1 DEF PullInv, Typed, Active, Asked
<1>3. /\ page \in SUBSET Rows
      /\ \A r \in page : KindOf[r] = k /\ rows[r].at > pull.since
      /\ Truncated(Queried) =>
           /\ last \in Int /\ pull.since < last /\ last <= now
           /\ \A r \in Queried \ page : last <= rows[r].at
      /\ ~Truncated(Queried) => page = Queried
  BY <1>2, PageFacts
<1>4. PICK p \in SUBSET Rows : p = page
  BY <1>3
<1>5. PICK l : l = last
  OBVIOUS
<1>6. \A r \in Rows : Row(r) \in Entries /\ Row(r).id = r
                      /\ Row(r).version = rows[r].version
  BY <1>2 DEF Row, Entries, Typed
<1> HIDE DEF page, last
<1>7. /\ pull' \in Requests /\ pull'.since = pull.since
      /\ pull'.serverTime = pull.serverTime
      /\ pull'.kind = k + 1
      /\ pull'.pc = IF k = Kinds THEN "receive" ELSE "query"
      /\ pull'.page = pull.page \cup {Row(r) : r \in p}
      /\ pull'.truncated =
           IF Truncated(Queried) THEN pull.truncated \cup {l} ELSE pull.truncated
  <2>1. k + 1 \in Nat
    BY <1>2 DEF Requests
  <2>2. pull.page \cup {Row(r) : r \in p} \in SUBSET Entries
    BY <1>2, <1>6 DEF Requests
  <2>3. (IF Truncated(Queried) THEN pull.truncated \cup {l} ELSE pull.truncated)
          \in SUBSET Int
    BY <1>2, <1>3, <1>5 DEF Requests
  <2> QED BY <1>1, <1>2, <1>4, <1>5, <2>1, <2>2, <2>3 DEF Requests
<1>8. /\ Truncate(now) \in Int /\ Truncate(now) <= now
      /\ Whole(Truncate(now))
      /\ \A t \in Int : Whole(t) /\ t <= now => t <= Truncate(now)
  BY <1>2, TruncateFacts, WholeBefore
<1>9. /\ passed' \in [1 .. Kinds -> Int] /\ passed'[k] = Truncate(now)
      /\ \A j \in 1 .. Kinds : j # k => passed'[j] = passed[j]
  BY <1>1, <1>2, <1>8 DEF Typed
<1>10. Typed'
  BY <1>1, <1>2, <1>7, <1>9 DEF Typed
<1>11. Reached'
  <2>1. cursor <= Truncate(now)
    BY <1>2, <1>8 DEF Reached, Typed
  <2> QED BY <1>1, <1>2, <1>8, <1>9, <2>1 DEF Reached, Whole
<1>12. Asked'
  <2>1. /\ Whole(pull.since) /\ cursor <= pull.since
        /\ Whole(pull.serverTime) /\ pull.serverTime <= now
        /\ pull.since \in Int /\ pull.serverTime \in Int
    BY <1>2 DEF Asked, Requests
  <2>2. pull.since <= Truncate(now)
    <3>1. pull.since <= passed[k] /\ passed[k] <= now /\ passed[k] \in Int
      BY <1>2 DEF Asked, Reached, Typed
    <3> QED BY <1>2, <1>8, <2>1, <3>1
  <2>3. pull.serverTime <= Truncate(now)
    BY <1>8, <2>1
  <2>4. \A j \in 1 .. Kinds :
          /\ pull'.since <= passed'[j]
          /\ j < pull'.kind => pull'.serverTime <= passed'[j]
    <3> SUFFICES ASSUME NEW j \in 1 .. Kinds
                 PROVE  /\ pull'.since <= passed'[j]
                        /\ j < k + 1 => pull'.serverTime <= passed'[j]
      BY <1>7
    <3>1. CASE j = k
      BY <1>7, <1>9, <2>2, <2>3, <3>1
    <3>2. CASE j # k
      <4>1. j < k + 1 => j < k
        BY <1>2, <3>2
      <4> QED BY <1>2, <1>7, <1>9, <3>2, <4>1 DEF Asked
    <3> QED BY <3>1, <3>2
  <2>5. \A m \in pull'.truncated : pull'.since < m /\ m <= now'
    BY <1>1, <1>2, <1>3, <1>5, <1>7 DEF Asked
  <2>6. /\ pull'.pc = "query" => pull'.kind \in 1 .. Kinds
        /\ pull'.pc = "receive" => pull'.kind = Kinds + 1
    BY <1>2, <1>7, Numbers
  <2>7. Whole(pull.since)' /\ Whole(pull.serverTime)'
    BY <1>7, <2>1 DEF Whole, Truncate
  <2> QED BY <1>1, <1>7, <2>1, <2>4, <2>5, <2>6, <2>7 DEF Asked
<1>13. \A r \in Rows : Behind(r)' = Behind(r)
  BY <1>1 DEF Behind
<1>14. \A r \in Rows : Exempt(r) => Exempt(r)' \/ r \in p
  BY <1>1, <1>4 DEF Exempt
<1>15. \A r \in Rows : KindOf[r] # k => Later(r)' = Later(r)
  BY <1>1, <1>9, Numbers DEF Later
<1>16. Kept'
  <2> SUFFICES ASSUME NEW r \in Rows
               PROVE  Safe(r, cursor)' /\ Safe(r, pull.since)'
    BY DEF Kept
  <2>1. Safe(r, cursor) /\ Safe(r, pull.since)
    BY <1>2 DEF Kept
  <2>2. r \in p => rows[r].at > pull.since /\ rows[r].at > cursor
    <3>1. pull.since \in Int /\ cursor \in Int /\ rows[r].at \in Int
          /\ cursor <= pull.since
      BY <1>2 DEF Typed, Requests, Asked
    <3> QED BY <1>3, <1>4, <3>1
  <2> QED BY <1>1, <1>7, <1>13, <1>14, <2>1, <2>2 DEF Safe
<1>17. Paged'
  <2>1. \A x \in pull.page : x.id \in Rows /\ KindOf[x.id] < k /\ Accounted(x)
    BY <1>2 DEF Requests, Entries, Paged
  <2>2. \A r \in p : KindOf[r] = k
    BY <1>3, <1>4
  <2>3. \A x, y \in pull'.page : x.id = y.id => x = y
    <3>1. \A x, y \in pull.page : x.id = y.id => x = y
      BY <1>2 DEF Paged
    <3>2. \A x \in pull.page : x.id \notin p
      BY <1>2, <2>1, <2>2
    <3> QED BY <1>6, <1>7, <3>1, <3>2
  <2>4. ASSUME NEW x \in pull'.page
        PROVE  KindOf[x.id] < pull'.kind /\ Accounted(x)'
    <3>1. CASE x \in pull.page
      <4>1. x.id \in Rows /\ KindOf[x.id] < k /\ Accounted(x) /\ x.id \notin p
        BY <1>2, <2>1, <2>2, <3>1
      <4>2. KindOf[x.id] < k + 1 /\ KindOf[x.id] # k
        <5>1. \A r \in Rows : KindOf[r] \in Int
          BY Numbers
        <5>2. KindOf[x.id] \in Int /\ k \in Int
          BY <1>2, <4>1, <5>1
        <5> HIDE DEF k
        <5> QED BY <4>1, <5>2
      <4> QED BY <1>1, <1>7, <1>14, <1>15, <4>1, <4>2 DEF Accounted
    <3>2. CASE x \notin pull.page
      <4>1. PICK r \in p : x = Row(r)
        BY <1>7, <3>2
      <4>2. x.id = r /\ x.version = rows[r].version
        BY <1>6, <4>1
      <4> QED BY <1>1, <1>2, <1>7, <2>2, <4>2 DEF Accounted
    <3> QED BY <3>1, <3>2
  <2>5. ASSUME NEW r \in Rows, KindOf[r] < pull'.kind, ~Returned(r)'
        PROVE  LeftOut(r)'
    <3>1. r \notin p /\ ~Returned(r)
      BY <1>6, <1>7, <2>5 DEF Returned
    <3>2. CASE KindOf[r] # k
      <4>1. KindOf[r] < k
        BY <1>2, <1>7, <2>5, <3>2, Numbers
      <4>2. LeftOut(r)
        BY <1>2, <3>1, <4>1 DEF Paged
      <4> QED BY <1>1, <1>7, <1>13, <1>14, <1>15, <3>1, <3>2, <4>2 DEF LeftOut
    <3>3. CASE KindOf[r] = k /\ r \in Queried
      <4>1. Truncated(Queried) /\ rows[r].at >= l
        BY <1>3, <1>4, <1>5, <1>2, <3>1, <3>3 DEF Typed
      <4>2. l \in pull'.truncated
        BY <1>7, <4>1
      <4> QED BY <1>1, <4>1, <4>2 DEF LeftOut
    <3>4. CASE KindOf[r] = k /\ r \notin Queried
      <4>1. ~(rows[r].at > pull.since)
        BY <3>4 DEF Queried, Changed
      <4>2. Safe(r, pull.since)
        BY <1>2 DEF Kept
      <4>3. Behind(r) => Exempt(r)
        BY <4>1, <4>2 DEF Safe
      <4> QED BY <1>13, <1>14, <3>1, <4>3 DEF LeftOut
    <3> QED BY <3>2, <3>3, <3>4
  <2> QED BY <2>3, <2>4, <2>5 DEF Paged
<1> QED BY <1>10, <1>11, <1>12, <1>16, <1>17 DEF PullInv

\* What the client has of a row once it has applied the page.
LEMMA Applied ==
  ASSUME PullInv, Active, local' = Apply, rows' = rows,
         NEW r \in Rows, KindOf[r] < pull.kind, Behind(r)'
  PROVE  /\ Later(r) \/ Exempt(r)
            \/ \E l \in pull.truncated : rows[r].at >= l
         /\ Row(r) \notin pull.page
<1>1. /\ \A x, y \in pull.page : x.id = y.id => x = y
      /\ \A x \in pull.page : Accounted(x)
      /\ ~Returned(r) => LeftOut(r)
  BY DEF PullInv, Paged
<1>2. Row(r).id = r /\ Row(r).version = rows[r].version
  BY DEF Row
<1>3. local'[r] # rows[r].version
  BY DEF Behind
<1>4. CASE Returned(r)
  <2>1. PICK y \in pull.page : y.id = r
    BY <1>4 DEF Returned
  <2>2. local'[r] = y.version
    <3>1. y = CHOOSE x \in pull.page : x.id = r
      BY <1>1, <2>1
    <3> QED BY <2>1, <3>1 DEF Apply
  <2>3. Later(r) \/ Exempt(r)
    BY <1>1, <1>3, <2>1, <2>2 DEF Accounted
  <2>4. Row(r) \notin pull.page
    BY <1>1, <1>2, <1>3, <2>1, <2>2
  <2> QED BY <2>3, <2>4
<1>5. CASE ~Returned(r)
  <2>1. local'[r] = local[r]
    BY <1>5 DEF Apply, Returned
  <2>2. Behind(r)
    BY <1>3, <2>1 DEF Behind
  <2>3. Row(r) \notin pull.page
    BY <1>2, <1>5 DEF Returned
  <2> QED BY <1>1, <1>5, <2>2, <2>3 DEF LeftOut
<1> QED BY <1>4, <1>5

\* A response arrives when every collection has been queried.
LEMMA ReceiveFacts ==
  ASSUME PullInv, Receive
  PROVE  /\ Active /\ local' = Apply /\ UNCHANGED <<now, rows, open>>
         /\ pull.kind = Kinds + 1
         /\ local' \in [Rows -> Nat]
         /\ \A r \in Rows : KindOf[r] < pull.kind
<1>1. Active /\ local' = Apply /\ UNCHANGED <<now, rows, open>> /\ pull.pc = "receive"
  BY DEF Receive, Active
<1>2. pull.kind = Kinds + 1
  BY <1>1 DEF PullInv, Asked
<1>3. local' \in [Rows -> Nat]
  <2>1. \A x \in pull.page : x.version \in Nat
    BY DEF PullInv, Typed, Requests, Entries
  <2>2. \A r \in Rows : local[r] \in Nat
    BY DEF PullInv, Typed
  <2> QED BY <1>1, <2>1, <2>2 DEF Apply
<1>4. \A r \in Rows : KindOf[r] < pull.kind
  BY <1>2, Numbers
<1> QED BY <1>1, <1>2, <1>3, <1>4

(***************************************************************************)
(* After the last page no collection was cut: a row that is behind was     *)
(* written after its query, which server_time precedes.                    *)
(***************************************************************************)
LEMMA LastPageStep ==
  ASSUME PullInv, Receive, ~HasMore, pull' = Idle, cursor' = ServerTime,
         UNCHANGED <<passed, overtaken>>
  PROVE  PullInv'
<1>1. /\ Active /\ local' = Apply /\ UNCHANGED <<now, rows, open>>
      /\ pull.kind = Kinds + 1
      /\ local' \in [Rows -> Nat]
      /\ \A r \in Rows : KindOf[r] < pull.kind
  BY ReceiveFacts
<1>2. pull' \in Requests /\ ~Active'
  BY DEF Idle, Requests, Active, Beginning
<1>3. /\ cursor' \in Int /\ Whole(cursor')
      /\ \A k \in 1 .. Kinds : cursor' <= passed[k]
  <2>1. \A k \in 1 .. Kinds : k < pull.kind
    BY <1>1, Numbers
  <2> QED BY <1>1, <2>1 DEF PullInv, Typed, Requests, Asked, ServerTime
<1>4. Typed'
  BY <1>1, <1>2, <1>3 DEF PullInv, Typed
<1>5. Reached'
  BY <1>1, <1>3 DEF PullInv, Reached, Whole, Truncate
<1>6. Kept'
  <2> SUFFICES ASSUME NEW r \in Rows, Behind(r)'
               PROVE  rows[r].at > cursor' \/ Exempt(r)
    BY <1>1, <1>2 DEF Kept, Safe, Exempt, Truncate
  <2>1. Later(r) \/ Exempt(r)
    BY <1>1, Applied DEF HasMore
  <2>2. Later(r) => rows[r].at > cursor'
    <3>1. KindOf[r] \in 1 .. Kinds /\ rows[r].at \in Int /\ passed[KindOf[r]] \in Int
      BY Numbers DEF PullInv, Typed
    <3> QED BY <1>3, <3>1 DEF Later
  <2> QED BY <2>1, <2>2
<1> QED BY <1>2, <1>4, <1>5, <1>6 DEF PullInv, Asked, Paged

(***************************************************************************)
(* The next page starts at the oldest last row or before it, so that it    *)
(* brings what the queries cut off; what was written meanwhile comes with  *)
(* it or is overtaken.                                                     *)
(***************************************************************************)
LEMMA NextPageStep ==
  ASSUME PullInv, Receive, HasMore, NextPage
  PROVE  PullInv'
<1> DEFINE oldest == Min(pull.truncated)
           since == Truncate(oldest)
<1>1. /\ Active /\ local' = Apply /\ UNCHANGED <<now, rows, open>>
      /\ \A r \in Rows : KindOf[r] < pull.kind
      /\ local' \in [Rows -> Nat]
  BY ReceiveFacts
<1>2. /\ Pull(since)
      /\ passed' = [k \in 1 .. Kinds |-> Max({passed[k], since})]
      /\ overtaken' = overtaken \cup
           {r \in Rows : /\ \/ rows[r].at \in passed[KindOf[r]] + 1 .. since
                            \/ rows[r].at = since /\ since \in pull.truncated
                         /\ Row(r) \notin pull.page}
      /\ cursor' = cursor
  BY DEF NextPage, Passes, NextSince
<1>3. /\ oldest \in pull.truncated /\ \A l \in pull.truncated : oldest <= l
      /\ oldest \in Int /\ pull.since < oldest /\ oldest <= now
  <2>1. /\ pull.truncated \in SUBSET Int /\ pull.truncated # {} /\ pull.since \in Int
        /\ \A l \in pull.truncated : pull.since < l /\ l <= now
    BY <1>1 DEF PullInv, Typed, Requests, Asked, HasMore
  <2>2. \A l \in pull.truncated : pull.since <= l
    BY <2>1
  <2>3. oldest \in pull.truncated /\ \A l \in pull.truncated : oldest <= l
    BY <2>1, <2>2, MinFacts
  <2> HIDE DEF oldest
  <2> QED BY <2>1, <2>3
<1>4. /\ since \in Int /\ since <= oldest /\ Whole(since)
      /\ pull.since <= since /\ cursor <= since
  <2>1. /\ pull.since \in Int /\ Whole(pull.since) /\ cursor <= pull.since
        /\ cursor \in Int
    BY <1>1 DEF PullInv, Typed, Requests, Asked
  <2>2. pull.since <= oldest
    BY <1>3, <2>1
  <2>3. pull.since <= since
    BY <1>3, <2>1, <2>2, WholeBefore
  <2>4. since \in Int /\ since <= oldest /\ Whole(since)
    BY <1>3, TruncateFacts
  <2> HIDE DEF since, oldest
  <2> QED BY <2>1, <2>3, <2>4
<1> HIDE DEF oldest, since
<1>5. /\ passed' \in [1 .. Kinds -> Int]
      /\ \A k \in 1 .. Kinds :
           /\ passed'[k] = passed[k] \/ passed'[k] = since
           /\ passed[k] <= passed'[k] /\ since <= passed'[k]
  <2> SUFFICES ASSUME NEW k \in 1 .. Kinds
               PROVE  /\ Max({passed[k], since}) \in {passed[k], since}
                      /\ passed[k] <= Max({passed[k], since})
                      /\ since <= Max({passed[k], since})
                      /\ passed[k] \in Int
    BY <1>2, <1>4
  <2>1. passed[k] \in Int
    BY DEF PullInv, Typed
  <2> DEFINE S == {passed[k], since}
  <2>2. /\ S \in SUBSET Int /\ S # {}
        /\ \E b \in Int : \A x \in S : x <= b
    BY <1>4, <2>1
  <2>3. Max(S) \in S /\ \A x \in S : x <= Max(S)
    <3> HIDE DEF S
    <3> QED BY <2>2, MaxFacts
  <2> QED BY <2>1, <2>3
<1>6. /\ pull' \in Requests /\ pull'.since = since
      /\ Asked' /\ Paged'
  BY <1>1, <1>2, <1>4, <1>5, Requested
<1>7. Typed'
  <2>1. overtaken' \in SUBSET Rows
    BY <1>2 DEF PullInv, Typed
  <2> QED BY <1>1, <1>2, <1>5, <1>6, <2>1 DEF PullInv, Typed
<1>8. Reached'
  <2>1. since <= now /\ now \in Nat
    BY <1>3, <1>4 DEF PullInv, Typed
  <2>2. \A k \in 1 .. Kinds :
          Whole(passed'[k]) /\ cursor <= passed'[k] /\ passed'[k] <= now
    BY <1>4, <1>5, <2>1 DEF PullInv, Reached
  <2>3. Whole(cursor)
    BY DEF PullInv, Reached
  <2> QED BY <1>1, <1>2, <2>2, <2>3 DEF Reached, Whole, Truncate
<1>9. Kept'
  <2> SUFFICES ASSUME NEW r \in Rows, Behind(r)'
               PROVE  rows[r].at > since \/ Exempt(r)'
    <3>1. ASSUME NEW r \in Rows,
                 Behind(r)' =>
                   rows[r].at > since \/ Exempt(r)'
          PROVE  Safe(r, cursor)' /\ Safe(r, pull.since)'
      <4>1. /\ rows[r].at \in Int /\ cursor \in Int
            /\ rows'[r] = rows[r]
        BY <1>1 DEF PullInv, Typed
      <4>2. rows[r].at > since => rows[r].at > cursor
        BY <1>4, <4>1
      <4> QED BY <1>2, <1>6, <3>1, <4>1, <4>2 DEF Safe
    <3> QED BY <3>1 DEF Kept
  <2>1. /\ rows[r].at \in Int /\ KindOf[r] \in 1 .. Kinds
        /\ passed[KindOf[r]] \in Int
    BY Numbers DEF PullInv, Typed
  <2>2. /\ Later(r) \/ Exempt(r)
           \/ \E l \in pull.truncated : rows[r].at >= l
        /\ Row(r) \notin pull.page
    BY <1>1, Applied
  <2>3. CASE Later(r)
    <3>1. CASE rows[r].at > since
      BY <3>1
    <3>2. CASE ~(rows[r].at > since)
      <4>1. rows[r].at \in passed[KindOf[r]] + 1 .. since
        BY <1>4, <2>1, <2>3, <3>2 DEF Later
      <4> QED BY <1>2, <2>2, <4>1 DEF Exempt
    <3> QED BY <3>1, <3>2
  <2>4. CASE Exempt(r)
    BY <1>1, <1>2, <2>4 DEF Exempt
  <2>5. CASE \E l \in pull.truncated : rows[r].at >= l
    <3>1. PICK l \in pull.truncated : rows[r].at >= l
      BY <2>5
    <3>2. l \in Int /\ oldest <= l
      BY <1>3 DEF PullInv, Typed, Requests
    <3>3. rows[r].at >= oldest
      BY <1>3, <2>1, <3>1, <3>2
    <3>4. CASE rows[r].at = since
      <4>1. oldest = since
        BY <1>3, <1>4, <3>3, <3>4
      <4> QED BY <1>2, <1>3, <2>2, <3>4, <4>1 DEF Exempt
    <3> QED BY <1>3, <1>4, <2>1, <3>3, <3>4
  <2> QED BY <2>2, <2>3, <2>4, <2>5
<1> QED BY <1>6, <1>7, <1>8, <1>9 DEF PullInv

LEMMA ReceiveStep == PullInv /\ Receive => PullInv'
<1> SUFFICES ASSUME PullInv, Receive PROVE PullInv'
  OBVIOUS
<1>1. CASE HasMore /\ NextPage
  BY <1>1, NextPageStep
<1>2. CASE ~HasMore /\ pull' = Idle /\ cursor' = ServerTime
           /\ UNCHANGED <<passed, overtaken>>
  BY <1>2, LastPageStep
<1> QED BY <1>1, <1>2 DEF Receive

-----------------------------------------------------------------------------
(***************************************************************************)
(* Types, and the invariant: whatever the device does not have will come,  *)
(* in what is left of this pull or in the next (services/sync.go, Pull).   *)
(***************************************************************************)
THEOREM PullInvariant == Spec => []PullInv
<1>1. PullInv /\ [Next]_vars => PullInv'
  <2> SUFFICES ASSUME PullInv, [Next]_vars PROVE PullInv'
    OBVIOUS
  <2>1. CASE UNCHANGED vars
    <3>1. now' \in Nat /\ now <= now'
      BY <2>1 DEF PullInv, Typed, vars
    <3>2. Reached' /\ Asked' /\ Paged' /\ Kept'
      BY <2>1, <3>1, Unmoved DEF vars
    <3>3. Typed'
      BY <2>1 DEF PullInv, Typed, vars
    <3> QED BY <3>2, <3>3 DEF PullInv
  <2> QED BY <2>1, TickStep, BeginStep, CommitStep, HardDeleteStep, StartPullStep,
             QueryStep, ReceiveStep, AbandonStep DEF Next
<1> QED BY InitInvariant, <1>1, PTL DEF Spec

(***************************************************************************)
(* Between pulls, what the device does not have and no pull will bring was *)
(* deleted for good, or overtaken by a query or a page                     *)
(* (services/sync.go:238-240 and 321-345).                                 *)
(***************************************************************************)
THEOREM LostOnlyIfOvertakenCorrect == Spec => []LostOnlyIfOvertaken
<1>1. PullInv => LostOnlyIfOvertaken
  <2> SUFFICES ASSUME PullInv, NEW r \in Rows, Lost(r)
               PROVE  rows[r] = Gone \/ r \in overtaken
    BY DEF LostOnlyIfOvertaken
  <2>1. Safe(r, cursor) /\ rows[r].at \in Int /\ cursor \in Int
    BY DEF PullInv, Kept, Typed
  <2> QED BY <2>1 DEF Lost, Safe, Exempt
<1> QED BY <1>1, PullInvariant, PTL
=============================================================================
