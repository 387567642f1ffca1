---------------------------- MODULE ScreenProofs ----------------------------
(* Proofs about Screen: for any history, any messages and any size of page.  *)
EXTENDS Screen, FiniteSetTheorems, WellFoundedInduction, TLAPS

Row == {Recorded(m) : m \in Messages}
Mark == [group : Conversations, cursor : Nat]
Read == [group : Conversations \cup {None}, rows : SUBSET Nat, next : Nat, oldest : Nat,
         by : {"none", "refresh", "select"}]

TypeOK ==
    /\ events \in Seq(Row)
    /\ markers \in [Conversations -> Nat] /\ seen \in [Conversations -> Nat]
    /\ mail \in Seq(Messages)
    /\ selected \in Conversations \cup {None}
    /\ marks \in Seq(Mark)
    /\ read \in Read

\* Of all the rows of a conversation these are a stretch with nothing missing
\* inside it, and next is its first row if an older one is left, 0 otherwise.
Whole(all, rows, next) ==
    /\ rows \subseteq all
    /\ \A a, b \in rows, c \in all : a <= c /\ c <= b => c \in rows
    /\ IF rows # {} /\ \E c \in all : \A a \in rows : c < a
       THEN next \in rows /\ \A a \in rows : next <= a
       ELSE next = 0

\* The window is whole, and so is what a read has put together so far; a read
\* that goes on has more to read.  An older page is awaited where the window
\* ends, and no read is in force beside it.
WindowInv ==
    /\ Whole(Rows(selected), shown, before)
    /\ older # 0 => older = before /\ read = NoRead
    /\ read # NoRead =>
           /\ read.group = selected
           /\ Whole(Rows(selected), read.rows, read.next)
           /\ read.rows # {} => read.next # 0

\* No mark, under way or made, goes beyond what a frame showed.
MarksInv ==
    /\ \A i \in DOMAIN marks : marks[i].cursor <= seen[marks[i].group]
    /\ \A g \in Conversations : markers[g] <= seen[g]

ScreenInv == TypeOK /\ WindowInv /\ MarksInv

-----------------------------------------------------------------------------
(* Sets of cursors: the least, the greatest, and how many lie above one.     *)

\* Every set of numbers that is not empty has a least one.
LEMMA LeastNat ==
    ASSUME NEW S \in SUBSET Nat, S # {}
    PROVE  \E x \in S : \A y \in S : x <= y
  <1>1. PICK x \in S : \A y \in S : ~(<<y, x>> \in OpToRel(<, Nat))
    BY NatLessThanWellFounded, WFMin
  <1>2. \A y \in S : ~(y < x)
    BY <1>1 DEF OpToRel
  <1> QED BY <1>2

\* Min names it.
LEMMA MinIs ==
    ASSUME NEW S \in SUBSET Nat, S # {}
    PROVE  Min(S) \in S /\ \A y \in S : Min(S) <= y
  BY LeastNat DEF Min

\* A bounded set has a greatest one, and Max names it.
LEMMA MaxIs ==
    ASSUME NEW n \in Nat, NEW S \in SUBSET (0..n), S # {}
    PROVE  Max(S) \in S /\ \A y \in S : y <= Max(S)
  <1> DEFINE T == {t \in Nat : n - t \in S}
  <1>1. \A y \in S : n - y \in T
    OBVIOUS
  <1>2. T # {}
    BY <1>1
  <1>3. PICK t \in T : \A u \in T : t <= u
    BY <1>2, LeastNat
  <1>4. n - t \in S /\ \A y \in S : y <= n - t
    BY <1>1, <1>3
  <1> QED BY <1>4 DEF Max

LEMMA MaxOfTwo ==
    ASSUME NEW a \in Nat, NEW b \in Nat
    PROVE  /\ Max({a, b}) \in {a, b} /\ Max({a, b}) \in Nat
           /\ a <= Max({a, b}) /\ b <= Max({a, b})
  <1>1. {a, b} \in SUBSET (0 .. (a + b)) /\ {a, b} # {} /\ a + b \in Nat
    OBVIOUS
  <1> QED BY <1>1, MaxIs

Above(S, c) == {d \in S : d > c}

LEMMA AboveLess ==
    ASSUME NEW S \in SUBSET Nat, NEW a \in Nat, NEW c \in Nat, a <= c
    PROVE  Above(S, c) \in SUBSET Above(S, a)
  <1>1. \A d \in S : d > c => d > a
    OBVIOUS
  <1> QED BY <1>1 DEF Above

\* The least cursor above c, or the least of all, is one more.
LEMMA AboveNext ==
    ASSUME NEW S \in SUBSET Nat, NEW T \in SUBSET S, NEW d \in T,
           \A y \in T : d <= y, \A y \in S : y > d => y \in T
    PROVE  T = Above(S, d) \cup {d} /\ d \notin Above(S, d)
  <1>1. d \in Nat /\ \A y \in T : y \in S /\ y \in Nat
    OBVIOUS
  <1>2. \A y \in T : y = d \/ y > d
    BY <1>1
  <1>3. ~(d > d)
    BY <1>1
  <1> QED BY <1>1, <1>2, <1>3 DEF Above

LEMMA AboveFinite ==
    ASSUME NEW S, IsFiniteSet(S), NEW c
    PROVE  IsFiniteSet(Above(S, c)) /\ Cardinality(Above(S, c)) \in Nat
  BY FS_Subset, FS_CardinalityType DEF Above

\* Newest takes from the top.
LEMMA NewestUpper ==
    ASSUME NEW S \in SUBSET Nat, IsFiniteSet(S), NEW n \in Nat,
           NEW a \in Newest(S, n), NEW c \in S, a <= c
    PROVE  c \in Newest(S, n)
  <1>1. Above(S, c) \in SUBSET Above(S, a)
    BY AboveLess DEF Newest
  <1>2. Cardinality(Above(S, c)) <= Cardinality(Above(S, a))
    BY <1>1, AboveFinite, FS_Subset
  <1>3. Cardinality(Above(S, a)) < n /\ Cardinality(Above(S, a)) \in Nat /\ Cardinality(Above(S, c)) \in Nat
    BY AboveFinite DEF Newest, Above
  <1> QED BY <1>2, <1>3 DEF Newest, Above

\* The greatest cursor is always among them.
LEMMA NewestSome ==
    ASSUME NEW m \in Nat, NEW S \in SUBSET (0..m), S # {}, NEW n \in Nat \ {0}
    PROVE  Newest(S, n) # {}
  <1>1. Max(S) \in S /\ \A y \in S : y <= Max(S)
    BY MaxIs
  <1>2. \A y \in S : ~(y > Max(S))
    <2>1. \A y \in S : y \in Nat
      OBVIOUS
    <2>2. Max(S) \in Nat
      BY <1>1, <2>1
    <2> QED BY <1>1, <2>1, <2>2
  <1>3. Above(S, Max(S)) = {}
    BY <1>2 DEF Above
  <1>4. Cardinality(Above(S, Max(S))) < n
    BY <1>3, FS_EmptySet
  <1> QED BY <1>1, <1>4 DEF Newest, Above

\* One cursor more than the page: the page is its newest part, and there is one
\* more exactly if the page is not everything.
LEMMA OneBeyond ==
    ASSUME NEW m \in Nat, NEW S \in SUBSET (0..m), NEW n \in Nat \ {0}
    PROVE  LET beyond == Newest(S, n + 1)
           IN  /\ Newest(beyond, n) = Newest(S, n)
               /\ Cardinality(beyond) > n <=> Newest(S, n) # S
  <1> DEFINE beyond == Newest(S, n + 1)
             kept == Newest(S, n)
  <1>1. IsFiniteSet(S) /\ S \in SUBSET Nat
    <2>1. IsFiniteSet(0..m)
      BY FS_Interval
    <2>2. IsFiniteSet(S)
      BY <2>1, FS_Subset
    <2>3. \A y \in S : y \in Nat
      OBVIOUS
    <2> QED BY <2>2, <2>3
  <1>2. beyond \subseteq S /\ kept \subseteq S /\ IsFiniteSet(beyond) /\ Cardinality(beyond) \in Nat
    BY <1>1, FS_Subset, FS_CardinalityType DEF Newest
  <1>3. \A c \in beyond : Above(beyond, c) = Above(S, c)
    <2>1. ASSUME NEW c \in beyond, NEW d \in S, d > c PROVE d \in beyond
      <3>1. c \in Nat /\ d \in Nat
        BY <1>1, <1>2
      <3>2. c <= d
        BY <2>1, <3>1
      <3> QED BY <1>1, <3>2, NewestUpper
    <2> QED BY <1>2, <2>1 DEF Above
  <1>4. kept \subseteq beyond
    BY <1>1, AboveFinite DEF Newest, Above
  <1>5. Newest(beyond, n) = kept
    <2>1. \A c \in beyond : c \in Newest(beyond, n) <=> Cardinality(Above(beyond, c)) < n
      BY DEF Newest, Above
    <2>2. \A c \in S : c \in kept <=> Cardinality(Above(S, c)) < n
      BY DEF Newest, Above
    <2>3. Newest(beyond, n) \subseteq beyond
      BY DEF Newest
    <2> QED BY <1>2, <1>3, <1>4, <2>1, <2>2, <2>3
  <1>6. ASSUME kept = S PROVE ~(Cardinality(beyond) > n)
    <2>1. CASE S = {}
      <3>1. beyond = {}
        BY <1>2, <2>1
      <3> QED BY <3>1, FS_EmptySet
    <2>2. CASE S # {}
      <3>1. Min(S) \in S /\ \A y \in S : Min(S) <= y
        BY <2>2, MinIs
      <3>2. S = Above(S, Min(S)) \cup {Min(S)} /\ Min(S) \notin Above(S, Min(S))
        BY <1>1, <3>1, AboveNext
      <3>3. Cardinality(S) = Cardinality(Above(S, Min(S))) + 1
        BY <1>1, <3>2, AboveFinite, FS_AddElement
      <3>4. Cardinality(Above(S, Min(S))) < n
        BY <1>6, <3>1 DEF Newest, Above
      <3>5. Cardinality(beyond) <= Cardinality(S)
        BY <1>1, <1>2, FS_Subset
      <3> QED BY <1>1, <1>2, <3>3, <3>4, <3>5, AboveFinite, FS_CardinalityType
    <2> QED BY <2>1, <2>2
  <1>7. ASSUME kept # S PROVE Cardinality(beyond) > n
    <2> DEFINE left == S \ kept
               c == Max(left)
    <2>1. c \in left /\ \A y \in left : y <= c
      BY <1>2, <1>7, MaxIs
    <2>2. Cardinality(Above(S, c)) \in Nat /\ Cardinality(Above(S, c)) >= n
      <3>1. ~(Cardinality(Above(S, c)) < n)
        BY <2>1 DEF Newest, Above
      <3>2. Cardinality(Above(S, c)) \in Nat
        BY <1>1, AboveFinite
      <3> QED BY <3>1, <3>2
    <2>3. Above(S, c) # {} /\ Above(S, c) \subseteq kept
      <3>1. Above(S, c) # {}
        BY <2>2, FS_EmptySet
      <3>2. ASSUME NEW y \in Above(S, c) PROVE y \in kept
        <4>1. y \in S /\ y > c /\ c \in Nat
          BY <1>1, <2>1 DEF Above
        <4>2. ~(y <= c)
          BY <1>1, <4>1
        <4> QED BY <2>1, <4>1, <4>2
      <3> QED BY <3>1, <3>2
    <2> DEFINE d == Min(Above(S, c))
    <2>4. d \in Above(S, c) /\ \A y \in Above(S, c) : d <= y
      <3>1. Above(S, c) \in SUBSET Nat
        BY <1>1 DEF Above
      <3> QED BY <2>3, <3>1, MinIs
    <2>5. Above(S, c) = Above(S, d) \cup {d} /\ d \notin Above(S, d)
      <3>1. d \in Nat /\ c \in Nat /\ d > c
        BY <1>1, <2>1, <2>4 DEF Above
      <3>2. \A y \in S : y > d => y > c
        BY <1>1, <3>1
      <3>3. \A y \in S : y > d => y \in Above(S, c)
        BY <3>2 DEF Above
      <3>4. Above(S, c) \in SUBSET S
        BY DEF Above
      <3> HIDE DEF d, c
      <3> QED BY <1>1, <2>4, <3>3, <3>4, AboveNext
    <2>6. Cardinality(Above(S, c)) = Cardinality(Above(S, d)) + 1
      BY <1>1, <2>5, AboveFinite, FS_AddElement
    <2>7. Cardinality(Above(S, d)) \in Nat /\ Cardinality(Above(S, d)) < n
      BY <1>1, <2>3, <2>4, AboveFinite DEF Newest, Above
    <2>8. c \in beyond
      BY <2>1, <2>6, <2>7 DEF Newest, Above
    <2>9. Above(S, c) \cup {c} \in SUBSET beyond /\ c \notin Above(S, c)
      BY <1>4, <2>1, <2>3, <2>8 DEF Above
    <2>10. Cardinality(Above(S, c) \cup {c}) = Cardinality(Above(S, c)) + 1
      BY <1>1, <2>9, AboveFinite, FS_AddElement
    <2>11. Cardinality(Above(S, c) \cup {c}) <= Cardinality(beyond)
      BY <1>2, <2>9, FS_Subset
    <2> QED BY <1>2, <2>2, <2>10, <2>11
  <1> QED BY <1>5, <1>6, <1>7
-----------------------------------------------------------------------------
(* Pages and stretches of a conversation.                                    *)

RowsIn(log, g) == {c \in DOMAIN log : GroupOf[log[c].id] = g}

LEMMA RowsAre ==
    ASSUME NEW g
    PROVE  Rows(g) = RowsIn(events, g)
  BY DEF Rows, RowsIn

LEMMA RowsBounded ==
    ASSUME NEW log \in Seq(Row), NEW g
    PROVE  RowsIn(log, g) \in SUBSET (1 .. Len(log)) /\ Len(log) \in Nat
  BY DEF RowsIn

\* What is recorded comes after everything there is.
LEMMA RowsGrow ==
    ASSUME NEW log \in Seq(Row), NEW row, NEW g
    PROVE  /\ RowsIn(log, g) \subseteq RowsIn(Append(log, row), g)
           /\ \A c \in RowsIn(Append(log, row), g) :
                  c \in RowsIn(log, g) \/ \A a \in RowsIn(log, g) : a < c
  <1>1. DOMAIN log = 1 .. Len(log) /\ Len(log) \in Nat
    OBVIOUS
  <1>2. /\ DOMAIN Append(log, row) = 1 .. (Len(log) + 1)
        /\ \A c \in 1 .. Len(log) : Append(log, row)[c] = log[c]
    OBVIOUS
  <1>3. RowsIn(log, g) \subseteq RowsIn(Append(log, row), g)
    BY <1>1, <1>2 DEF RowsIn
  <1>4. ASSUME NEW c \in RowsIn(Append(log, row), g), c \notin RowsIn(log, g),
               NEW a \in RowsIn(log, g)
        PROVE  a < c
    <2>1. c \in 1 .. (Len(log) + 1) /\ a \in 1 .. Len(log)
      BY <1>1, <1>2 DEF RowsIn
    <2>2. c \notin 1 .. Len(log)
      BY <1>1, <1>2, <1>4 DEF RowsIn
    <2> QED BY <1>1, <2>1, <2>2
  <1> QED BY <1>3, <1>4

\* A page is the newest part of what it was asked for, never empty if there is
\* anything, and continues at its first row if that is not all.
LEMMA PageIs ==
    ASSUME NEW m \in Nat, NEW S \in SUBSET (1 .. m), NEW limit \in Nat \ {0}
    PROVE  LET page == Page(Newest(S, limit + 1), limit)
           IN  /\ page.rows \in SUBSET S
               /\ \A a \in page.rows, c \in S : a <= c => c \in page.rows
               /\ S # {} => page.rows # {}
               /\ IF page.rows = S THEN page.next = 0
                  ELSE page.next \in page.rows /\ \A a \in page.rows : page.next <= a
  <1> DEFINE kept == Newest(S, limit)
             page == Page(Newest(S, limit + 1), limit)
  <1>1. S \in SUBSET (0 .. m) /\ S \in SUBSET Nat
    <2>1. \A y \in S : y \in Nat /\ y \in 0 .. m
      OBVIOUS
    <2> QED BY <2>1
  <1>2. IsFiniteSet(S)
    <2>1. IsFiniteSet(0 .. m)
      BY FS_Interval
    <2> QED BY <1>1, <2>1, FS_Subset
  <1>3. kept \in SUBSET S
    BY DEF Newest
  <1>4. page.rows = kept /\ page.next = IF kept # S THEN Min(kept) ELSE 0
    BY <1>1, OneBeyond DEF Page
  <1>5. S # {} => kept # {}
    BY <1>1, NewestSome
  <1>6. \A a \in kept, c \in S : a <= c => c \in kept
    BY <1>1, <1>2, NewestUpper
  <1>7. kept # S => Min(kept) \in kept /\ \A a \in kept : Min(kept) <= a
    <2>1. kept \in SUBSET Nat
      BY <1>1, <1>3
    <2> QED BY <1>3, <1>5, <2>1, MinIs
  <1> QED BY <1>3, <1>4, <1>5, <1>6, <1>7

LEMMA HistoryPageIs ==
    ASSUME TypeOK, NEW g, NEW b
    PROVE  LET page == HistoryPage(g, b, PageLimit)
               S == Before(Rows(g), b)
           IN  /\ page.rows \in SUBSET S
               /\ \A a \in page.rows, c \in S : a <= c => c \in page.rows
               /\ S # {} => page.rows # {}
               /\ IF page.rows = S THEN page.next = 0
                  ELSE page.next \in page.rows /\ \A a \in page.rows : page.next <= a
  <1>1. Clamp(PageLimit, 1, PageMax) \in Nat \ {0}
    BY ScreenAssumption DEF Clamp
  <1>2. Before(Rows(g), b) \in SUBSET (1 .. Len(events)) /\ Len(events) \in Nat
    BY RowsAre, RowsBounded DEF TypeOK, Before
  <1> QED BY <1>1, <1>2, PageIs DEF HistoryPage, EventsPage

LEMMA WholeEmpty == ASSUME NEW all PROVE Whole(all, {}, 0)
  BY DEF Whole

\* A stretch stays one when something newer is recorded.
LEMMA WholeGrows ==
    ASSUME NEW all \in SUBSET Nat, NEW more \in SUBSET Nat, NEW rows, NEW next,
           Whole(all, rows, next), all \subseteq more,
           \A c \in more : c \in all \/ \A a \in all : a < c
    PROVE  Whole(more, rows, next)
  <1>1. rows \in SUBSET all /\ rows \in SUBSET Nat
    BY DEF Whole
  <1>2. ASSUME NEW c \in more, NEW b \in rows, c <= b PROVE c \in all
    <2>1. b \in all /\ b \in Nat /\ c \in Nat
      BY <1>1
    <2> QED BY <1>2, <2>1
  <1>3. \A a, b \in rows, c \in more : a <= c /\ c <= b => c \in rows
    BY <1>2 DEF Whole
  <1>4. ASSUME rows # {}, NEW c \in more, \A a \in rows : c < a PROVE c \in all
    <2>1. PICK b \in rows : TRUE
      BY <1>4
    <2>2. c <= b
      BY <1>1, <1>4, <2>1
    <2> QED BY <1>2, <2>1, <2>2
  <1>5. (rows # {} /\ \E c \in more : \A a \in rows : c < a)
            <=> (rows # {} /\ \E c \in all : \A a \in rows : c < a)
    BY <1>4
  <1> QED BY <1>1, <1>3, <1>5 DEF Whole

\* The first page of a conversation is a stretch of it.
LEMMA FirstPage ==
    ASSUME TypeOK, NEW g
    PROVE  LET page == HistoryPage(g, 0, PageLimit) IN Whole(Rows(g), page.rows, page.next)
  <1> DEFINE page == HistoryPage(g, 0, PageLimit)
             all == Rows(g)
  <1>1. Before(all, 0) = all
    BY DEF Before
  <1>2. /\ page.rows \in SUBSET all
        /\ \A a \in page.rows, c \in all : a <= c => c \in page.rows
        /\ all # {} => page.rows # {}
        /\ IF page.rows = all THEN page.next = 0
           ELSE page.next \in page.rows /\ \A a \in page.rows : page.next <= a
    BY <1>1, HistoryPageIs
  <1>3. all \in SUBSET Nat
    <2>1. all \in SUBSET (1 .. Len(events)) /\ Len(events) \in Nat
      BY RowsAre, RowsBounded DEF TypeOK
    <2>2. \A c \in 1 .. Len(events) : c \in Nat
      BY <2>1
    <2> QED BY <2>1, <2>2
  <1>4. \A c \in all, a \in page.rows : c \notin page.rows => c < a
    BY <1>2, <1>3
  <1>5. \A c \in all : ~(c < c)
    BY <1>3
  <1> HIDE DEF page, all
  <1>6. page.rows # all => \E c \in all : \A a \in page.rows : c < a
    BY <1>2, <1>4
  <1>7. page.rows = all => ~\E c \in all : \A a \in page.rows : c < a
    BY <1>5
  <1>8. page.rows # all => page.rows # {}
    BY <1>2
  <1>9. \A a, b \in page.rows, c \in all : a <= c /\ c <= b => c \in page.rows
    BY <1>2
  <1>10. Whole(all, page.rows, page.next)
    BY <1>2, <1>6, <1>7, <1>8, <1>9 DEF Whole
  <1> QED BY <1>10 DEF page, all

\* The page before a stretch makes a longer one with it.
LEMMA NextPage ==
    ASSUME TypeOK, NEW g, NEW rows, NEW next, Whole(Rows(g), rows, next), next # 0
    PROVE  LET page == HistoryPage(g, next, PageLimit)
           IN  Whole(Rows(g), rows \cup page.rows, page.next)
  <1> DEFINE page == HistoryPage(g, next, PageLimit)
             all == Rows(g)
             S == Before(all, next)
             both == rows \cup page.rows
  <1>1. all \in SUBSET Nat
    <2>1. all \in SUBSET (1 .. Len(events)) /\ Len(events) \in Nat
      BY RowsAre, RowsBounded DEF TypeOK
    <2>2. \A c \in 1 .. Len(events) : c \in Nat
      BY <2>1
    <2> QED BY <2>1, <2>2
  <1>2. /\ rows \in SUBSET all /\ next \in rows /\ \A a \in rows : next <= a
        /\ \E c \in all : \A a \in rows : c < a
        /\ \A a, b \in rows, c \in all : a <= c /\ c <= b => c \in rows
    BY DEF Whole
  <1>3. S = {c \in all : c < next} /\ S # {}
    BY <1>2 DEF Before
  <1>4. /\ page.rows \in SUBSET S
        /\ \A a \in page.rows, c \in S : a <= c => c \in page.rows
        /\ page.rows # {}
        /\ IF page.rows = S THEN page.next = 0
           ELSE page.next \in page.rows /\ \A a \in page.rows : page.next <= a
    BY <1>3, HistoryPageIs
  <1> HIDE DEF page, all, S
  <1>5. /\ next \in Nat /\ \A c \in all : c \in Nat
        /\ \A c \in S : c \in all /\ c < next /\ c \in Nat
        /\ \A c \in all : c < next => c \in S
    BY <1>1, <1>2, <1>3
  <1>6. ASSUME NEW a \in rows, NEW c \in S PROVE c < a
    <2>1. a \in Nat /\ c \in Nat /\ c < next /\ next <= a
      BY <1>2, <1>5
    <2> QED BY <1>5, <2>1
  <1>7. both \in SUBSET all
    BY <1>2, <1>4, <1>5
  <1>8. ASSUME NEW a \in both, NEW b \in both, NEW c \in all, a <= c, c <= b
        PROVE  c \in both
    <2>1. CASE c < next
      <3>1. c \in S
        BY <1>5, <2>1
      <3>2. a \in page.rows
        <4>1. a \notin rows
          BY <1>2, <1>5, <1>7, <1>8, <2>1
        <4> QED BY <4>1
      <3> QED BY <1>4, <1>8, <3>1, <3>2
    <2>2. CASE ~(c < next)
      <3>1. b \in rows
        <4>1. b \notin page.rows
          BY <1>4, <1>5, <1>7, <1>8, <2>2
        <4> QED BY <4>1
      <3>2. next <= c
        BY <1>5, <2>2
      <3> QED BY <1>2, <1>8, <3>1, <3>2
    <2> QED BY <2>1, <2>2
  <1>9. ASSUME NEW c \in all, \A a \in both : c < a
        PROVE  page.rows # S /\ \A a \in both : page.next <= a
    <2>1. c \in S
      BY <1>2, <1>5, <1>9
    <2>2. c \notin page.rows
      BY <1>5, <1>9
    <2>3. page.next \in page.rows /\ \A a \in page.rows : page.next <= a
      BY <1>4, <2>1, <2>2
    <2>4. ASSUME NEW a \in rows PROVE page.next <= a
      <3>1. page.next \in S
        BY <1>4, <2>3
      <3>2. a \in Nat /\ page.next \in Nat /\ page.next < a
        BY <1>2, <1>5, <1>6, <3>1
      <3> QED BY <3>2
    <2> QED BY <2>1, <2>2, <2>3, <2>4
  <1>10. ASSUME ~\E c \in all : \A a \in both : c < a PROVE page.next = 0
    <2>1. ASSUME NEW c \in S, c \notin page.rows PROVE FALSE
      <3>1. \A a \in page.rows : c < a
        BY <1>4, <1>5, <2>1
      <3>2. \A a \in both : c < a
        BY <1>6, <3>1
      <3> QED BY <1>5, <1>10, <3>2
    <2>2. page.rows = S
      BY <1>4, <2>1
    <2> QED BY <1>4, <2>2
  <1>11. both # {} /\ (page.rows # S => page.next \in both)
    BY <1>2, <1>4
  <1>12. \A a, b \in both, c \in all : a <= c /\ c <= b => c \in both
    <2> HIDE DEF both
    <2> QED BY <1>8
  <1>13. (\E c \in all : \A a \in both : c < a)
             => page.next \in both /\ \A a \in both : page.next <= a
    <2>1. ASSUME NEW c \in all, \A a \in both : c < a
          PROVE  page.next \in both /\ \A a \in both : page.next <= a
      BY <1>9, <1>11, <2>1
    <2> QED BY <2>1
  <1>14. Whole(all, both, page.next)
    <2> HIDE DEF both
    <2> QED BY <1>7, <1>10, <1>11, <1>12, <1>13 DEF Whole
  <1> QED BY <1>14 DEF page, all

-----------------------------------------------------------------------------
(* The invariant.                                                            *)

LEMMA CursorsAreNat ==
    ASSUME TypeOK, NEW g
    PROVE  Rows(g) \in SUBSET Nat /\ Rows(g) \in SUBSET (0 .. Len(events)) /\ Len(events) \in Nat
  <1>1. Rows(g) \in SUBSET (1 .. Len(events)) /\ Len(events) \in Nat
    BY RowsAre, RowsBounded DEF TypeOK
  <1>2. \A c \in 1 .. Len(events) : c \in Nat /\ c \in 0 .. Len(events)
    BY <1>1
  <1> QED BY <1>1, <1>2

LEMMA WholeNat ==
    ASSUME NEW all \in SUBSET Nat, NEW rows, NEW next, Whole(all, rows, next)
    PROVE  rows \in SUBSET Nat /\ next \in Nat
  <1>1. rows \in SUBSET all /\ (next \in rows \/ next = 0)
    BY DEF Whole
  <1>2. rows \in SUBSET Nat
    BY <1>1
  <1>3. CASE next = 0
    <2>1. 0 \in Nat
      OBVIOUS
    <2> QED BY <1>2, <1>3, <2>1, Zenon
  <1>4. CASE next \in rows
    BY <1>2, <1>4
  <1> QED BY <1>1, <1>3, <1>4

LEMMA ScreenInit == Init => ScreenInv
  <1> SUFFICES ASSUME Init PROVE ScreenInv
    OBVIOUS
  <1>1. events \in Seq(Row)
    <2>1. \A i \in DOMAIN Past : Past[i] \in Messages
      BY ScreenAssumption
    <2>2. \A i \in DOMAIN Past : Recorded(Past[i]) \in Row
      BY <2>1 DEF Row
    <2>3. DOMAIN Past = 1 .. Len(Past) /\ Len(Past) \in Nat
      BY ScreenAssumption
    <2> QED BY <2>2, <2>3 DEF Init, HistoryInit
  <1>2. NoRead \in Read
    BY DEF NoRead, Read
  <1>3. TypeOK
    BY <1>1, <1>2 DEF TypeOK, Init, HistoryInit
  <1>4. WindowInv
    BY WholeEmpty DEF WindowInv, Init
  <1>5. MarksInv
    BY DEF MarksInv, Init, HistoryInit
  <1> QED BY <1>3, <1>4, <1>5 DEF ScreenInv

\* Steps that leave the history and the window alone, and those that leave the
\* marks alone.
LEMMA WindowKept ==
    ASSUME WindowInv, UNCHANGED <<events, windowVars>>
    PROVE  WindowInv'
  BY DEF WindowInv, windowVars, Rows, NoRead

LEMMA MarksKept ==
    ASSUME MarksInv, UNCHANGED <<markers, marks, seen>>
    PROVE  MarksInv'
  BY DEF MarksInv

\* A read that starts has nothing yet.
LEMMA ReadStarts ==
    ASSUME TypeOK, Whole(Rows(selected)', shown', before'), UNCHANGED events, NEW by \in {"refresh", "select"},
           selected' \in Conversations, older' = 0, ReadSelected(by)
    PROVE  read' \in Read /\ WindowInv'
  <1>1. Rows(selected)' \in SUBSET Nat
    <2>1. Rows(selected)' = RowsIn(events, selected')
      BY DEF Rows, RowsIn
    <2>2. RowsIn(events, selected') = Rows(selected')
      BY DEF Rows, RowsIn
    <2> QED BY <2>1, <2>2, CursorsAreNat
  <1>2. shown' \in SUBSET Nat
    BY <1>1, WholeNat
  <1>3. (IF shown' = {} THEN 0 ELSE Min(shown')) \in Nat
    BY <1>2, MinIs
  <1>4. /\ read' \in Read
        /\ read'.group = selected' /\ read'.rows = {} /\ read'.next = 0
    BY <1>3 DEF ReadSelected, NoRead, Read
  <1>5. Whole(Rows(selected)', read'.rows, read'.next)
    BY <1>4, WholeEmpty
  <1> QED BY <1>4, <1>5 DEF WindowInv

-----------------------------------------------------------------------------
(* One action at a time.                                                     *)

\* Refreshes, syncs, the frame and the relay leave the window and the marks.
LEMMA QuietSteps ==
    ASSUME ScreenInv, UNCHANGED <<events, markers, windowVars, marks, seen>>, mail' \in Seq(Messages)
    PROVE  ScreenInv'
  <1>1. WindowInv'
    BY WindowKept DEF ScreenInv
  <1>2. MarksInv'
    BY MarksKept DEF ScreenInv
  <1>3. TypeOK'
    BY DEF ScreenInv, TypeOK, windowVars
  <1> QED BY <1>1, <1>2, <1>3 DEF ScreenInv

\* A step that only moves the window.
LEMMA WindowSteps ==
    ASSUME ScreenInv, UNCHANGED <<events, markers, mail, marks, seen>>,
           selected' \in Conversations \cup {None}, read' \in Read, WindowInv'
    PROVE  ScreenInv'
  <1>1. MarksInv'
    BY MarksKept DEF ScreenInv
  <1>2. TypeOK'
    BY DEF ScreenInv, TypeOK
  <1> QED BY <1>1, <1>2 DEF ScreenInv

LEMMA GotListKeeps == ScreenInv /\ GotList => ScreenInv'
  <1> SUFFICES ASSUME ScreenInv, GotList PROVE ScreenInv'
    OBVIOUS
  <1>1. UNCHANGED <<events, markers, mail, marks, seen, selected, shown, before, older>>
    BY DEF GotList, historyVars, markVars
  <1>2. CASE selected = None \/ older # 0
    <2>1. UNCHANGED windowVars
      BY <1>1, <1>2 DEF GotList, windowVars
    <2> QED BY <1>1, <2>1, QuietSteps DEF ScreenInv, TypeOK
  <1>3. CASE ~(selected = None \/ older # 0)
    <2>1. ReadSelected("refresh")
      BY <1>3 DEF GotList
    <2>2. Whole(Rows(selected)', shown', before')
      BY <1>1 DEF ScreenInv, WindowInv, Rows
    <2>3. selected' \in Conversations /\ older' = 0
      BY <1>1, <1>3 DEF ScreenInv, TypeOK
    <2>4. read' \in Read /\ WindowInv'
      BY <1>1, <2>1, <2>2, <2>3, ReadStarts DEF ScreenInv
    <2> QED BY <1>1, <2>3, <2>4, WindowSteps
  <1> QED BY <1>2, <1>3

LEMMA SelectKeeps ==
    ASSUME ScreenInv, NEW g \in Conversations \cup {None}, Select(g) PROVE ScreenInv'
  <1>1. UNCHANGED <<events, markers, mail, marks, seen>> /\ selected' = g
    BY DEF Select, historyVars, markVars
  <1>2. shown' = {} /\ before' = 0 /\ older' = 0
    BY DEF Select
  <1>3. Whole(Rows(selected)', shown', before')
    BY <1>2, WholeEmpty
  <1>4. CASE g = None
    <2>1. read' = NoRead /\ NoRead \in Read
      BY <1>4 DEF Select, NoRead, Read
    <2>2. WindowInv'
      BY <1>2, <1>3, <2>1 DEF WindowInv, NoRead
    <2> QED BY <1>1, <2>1, <2>2, WindowSteps
  <1>5. CASE g # None
    <2>1. read' \in Read /\ WindowInv'
      BY <1>1, <1>2, <1>3, <1>5, ReadStarts DEF Select, ScreenInv
    <2> QED BY <1>1, <2>1, WindowSteps
  <1> QED BY <1>4, <1>5

\* A read that ends, fails or is given up leaves the window as it was.
LEMMA ReadEnds ==
    ASSUME ScreenInv, UNCHANGED <<events, selected, shown, before>>, read' \in {NoRead, read},
           older' = 0 \/ older' = older \/ (older' = before /\ read' = NoRead)
    PROVE  read' \in Read /\ WindowInv'
  <1>1. NoRead \in Read
    BY DEF NoRead, Read
  <1>2. Rows(selected)' = Rows(selected) /\ NoRead' = NoRead
    BY DEF Rows, NoRead
  <1>3. older' # 0 => older' = before' /\ read' = NoRead
    BY DEF ScreenInv, WindowInv
  <1> QED BY <1>1, <1>2, <1>3 DEF ScreenInv, TypeOK, WindowInv

LEMMA ReadEndsKeeps ==
    ScreenInv /\ (RefreshFail \/ SelectFail \/ Older \/ OlderFail) => ScreenInv'
  <1> SUFFICES ASSUME ScreenInv, RefreshFail \/ SelectFail \/ Older \/ OlderFail PROVE ScreenInv'
    OBVIOUS
  <1>1. /\ UNCHANGED <<events, markers, mail, marks, seen, selected, shown, before>>
        /\ read' \in {NoRead, read}
        /\ older' = 0 \/ older' = older \/ (older' = before /\ read' = NoRead)
    BY DEF RefreshFail, SelectFail, Older, OlderFail, historyVars, markVars
  <1>2. read' \in Read /\ WindowInv'
    BY <1>1, ReadEnds
  <1> QED BY <1>1, <1>2, WindowSteps DEF ScreenInv, TypeOK

LEMMA OlderDoneKeeps == ScreenInv /\ OlderDone => ScreenInv'
  <1> SUFFICES ASSUME ScreenInv, OlderDone PROVE ScreenInv'
    OBVIOUS
  <1> DEFINE page == HistoryPage(selected, before, PageLimit)
  <1>1. UNCHANGED <<events, markers, mail, marks, seen, selected, read>>
    BY DEF OlderDone, historyVars, markVars
  <1>2. older # 0 /\ older = before /\ read = NoRead
    BY DEF OlderDone, ScreenInv, WindowInv
  <1>3. shown' = shown \cup page.rows /\ before' = page.next /\ older' = 0
    BY <1>2 DEF OlderDone
  <1>4. Whole(Rows(selected), shown \cup page.rows, page.next)
    BY <1>2, NextPage DEF ScreenInv, WindowInv
  <1>5. WindowInv'
    <2> HIDE DEF page
    <2>1. Rows(selected)' = Rows(selected)
      BY <1>1 DEF Rows
    <2> QED BY <1>1, <1>2, <1>3, <1>4, <2>1 DEF WindowInv, NoRead
  <1> QED BY <1>1, <1>5, WindowSteps DEF ScreenInv, TypeOK

LEMMA ReadPageKeeps == ScreenInv /\ ReadPage => ScreenInv'
  <1> SUFFICES ASSUME ScreenInv, ReadPage PROVE ScreenInv'
    OBVIOUS
  <1> DEFINE page == HistoryPage(read.group, read.next, PageLimit)
             rows == read.rows \cup page.rows
             more == read.oldest # 0 /\ page.next # 0 /\ rows # {} /\ Min(rows) > read.oldest
  <1>1. UNCHANGED <<events, markers, mail, marks, seen, selected, older>>
    BY DEF ReadPage, historyVars, markVars
  <1>2. /\ read # NoRead /\ read \in Read /\ read.group = selected
        /\ Whole(Rows(selected), read.rows, read.next) /\ (read.rows # {} => read.next # 0)
    BY DEF ReadPage, ScreenInv, WindowInv, TypeOK
  <1>3. older = 0 /\ Rows(selected)' = Rows(selected)
    BY <1>1, <1>2 DEF ScreenInv, WindowInv, Rows
  <1>4. Whole(Rows(selected), rows, page.next)
    <2>1. CASE read.rows = {}
      <3>1. read.next = 0
        BY <1>2, <2>1 DEF Whole
      <3>2. rows = page.rows
        BY <2>1
      <3> QED BY <1>2, <3>1, <3>2, FirstPage DEF ScreenInv
    <2>2. CASE read.rows # {}
      BY <1>2, <2>2, NextPage DEF ScreenInv
    <2> QED BY <2>1, <2>2
  <1>5. rows \in SUBSET Nat /\ page.next \in Nat
    <2> HIDE DEF rows, page
    <2> QED BY <1>4, WholeNat, CursorsAreNat DEF ScreenInv
  <1>6. CASE more
    <2>1. read' = [read EXCEPT !.rows = rows, !.next = page.next] /\ UNCHANGED <<shown, before>>
      BY <1>6 DEF ReadPage
    <2>2. page.next # 0
      BY <1>6
    <2> HIDE DEF rows, page, more
    <2>3. /\ read' \in Read /\ read'.group = selected /\ read'.rows = rows
          /\ read'.next = page.next
      BY <1>2, <1>5, <2>1 DEF Read
    <2>4. WindowInv'
      BY <1>1, <1>3, <1>4, <2>1, <2>2, <2>3 DEF ScreenInv, WindowInv
    <2> QED BY <1>1, <2>3, <2>4, WindowSteps DEF ScreenInv, TypeOK
  <1>7. CASE ~more
    <2>1. shown' = rows /\ before' = page.next /\ read' = NoRead
      BY <1>7 DEF ReadPage
    <2> HIDE DEF rows, page, more
    <2>2. NoRead \in Read
      BY DEF NoRead, Read
    <2>3. WindowInv'
      BY <1>1, <1>3, <1>4, <2>1 DEF WindowInv, NoRead
    <2> QED BY <1>1, <2>1, <2>2, <2>3, WindowSteps DEF ScreenInv, TypeOK
  <1> QED BY <1>6, <1>7

\* What is recorded is newer than any window.
LEMMA RecordKeeps ==
    ASSUME ScreenInv, NEW m \in Messages, Record(m), UNCHANGED <<windowVars, marks, seen>>,
           mail' \in Seq(Messages)
    PROVE  ScreenInv'
  <1>1. events \in Seq(Row) /\ Recorded(m) \in Row
    BY DEF ScreenInv, TypeOK, Row
  <1>2. events' = Append(events, Recorded(m)) /\ UNCHANGED <<markers, windowVars>>
    BY DEF Record
  <1>3. events' \in Seq(Row)
    BY <1>1, <1>2
  <1>4. UNCHANGED <<selected, shown, before, older, read>>
    BY DEF windowVars
  <1> DEFINE all == RowsIn(events, selected)
             grown == RowsIn(Append(events, Recorded(m)), selected)
  <1>5. Rows(selected) = all /\ Rows(selected)' = grown
    BY <1>2, <1>4 DEF Rows, RowsIn
  <1>6. all \in SUBSET Nat /\ grown \in SUBSET Nat
    <2>1. all \in SUBSET (1 .. Len(events)) /\ Len(events) \in Nat
      BY <1>1, RowsBounded
    <2>2. grown \in SUBSET (1 .. Len(events')) /\ Len(events') \in Nat
      BY <1>2, <1>3, RowsBounded
    <2> HIDE DEF all, grown
    <2> QED BY <2>1, <2>2
  <1>7. all \subseteq grown /\ \A c \in grown : c \in all \/ \A a \in all : a < c
    BY <1>1, RowsGrow
  <1>8. \A rows, next : Whole(all, rows, next) => Whole(grown, rows, next)
    <2> HIDE DEF all, grown
    <2> QED BY <1>6, <1>7, WholeGrows
  <1>9. WindowInv'
    <2> HIDE DEF all, grown
    <2> QED BY <1>4, <1>5, <1>8 DEF ScreenInv, WindowInv, NoRead
  <1>10. MarksInv'
    BY <1>2, MarksKept DEF ScreenInv
  <1>11. TypeOK'
    BY <1>2, <1>3, <1>4 DEF ScreenInv, TypeOK
  <1> QED BY <1>9, <1>10, <1>11 DEF ScreenInv

LEMMA ReceiveKeeps == ScreenInv /\ Receive => ScreenInv'
  <1> SUFFICES ASSUME ScreenInv, Receive PROVE ScreenInv'
    OBVIOUS
  <1>1. mail \in Seq(Messages) /\ mail # <<>>
    BY DEF ScreenInv, TypeOK, Receive
  <1>2. Head(mail) \in Messages /\ Tail(mail) \in Seq(Messages)
    BY <1>1
  <1> QED BY <1>2, RecordKeeps DEF Receive, markVars

LEMMA SendKeeps ==
    ASSUME ScreenInv, NEW m \in Messages, Send(m) PROVE ScreenInv'
  BY RecordKeeps DEF Send, markVars, ScreenInv, TypeOK

LEMMA MarkVisibleKeeps == ScreenInv /\ MarkVisible => ScreenInv'
  <1> SUFFICES ASSUME ScreenInv, MarkVisible PROVE ScreenInv'
    OBVIOUS
  <1>1. UNCHANGED <<events, markers, mail, windowVars>>
    BY DEF MarkVisible, historyVars
  <1> DEFINE g == selected
             newest == Max(shown)
             later == Max({seen[g], newest})
  <1>2. g \in Conversations /\ seen \in [Conversations -> Nat] /\ markers \in [Conversations -> Nat]
    BY DEF MarkVisible, ScreenInv, TypeOK
  <1>3. newest \in Nat
    <2>1. shown \in SUBSET (0 .. Len(events)) /\ shown # {} /\ Len(events) \in Nat
      BY CursorsAreNat DEF ScreenInv, WindowInv, Whole, MarkVisible
    <2>2. newest \in shown
      BY <2>1, MaxIs
    <2> HIDE DEF newest
    <2> QED BY <2>1, <2>2
  <1>4. later \in Nat /\ seen[g] <= later /\ newest <= later
    <2> HIDE DEF newest
    <2>1. seen[g] \in Nat
      BY <1>2
    <2> QED BY <1>3, <2>1, MaxOfTwo
  <1>5. /\ marks' = Append(marks, [group |-> g, cursor |-> newest])
        /\ seen' = [seen EXCEPT ![g] = later]
    BY DEF MarkVisible
  <1> HIDE DEF newest, later
  <1>6. seen' \in [Conversations -> Nat] /\ \A h \in Conversations : seen[h] <= seen'[h]
    BY <1>2, <1>4, <1>5
  <1>7. [group |-> g, cursor |-> newest] \in Mark /\ marks \in Seq(Mark)
    BY <1>2, <1>3 DEF Mark, ScreenInv, TypeOK
  <1>8. MarksInv'
    <2>1. ASSUME NEW h \in Conversations PROVE markers'[h] <= seen'[h]
      <3>1. markers[h] <= seen[h] /\ seen[h] <= seen'[h] /\ markers' = markers
        BY <1>1, <1>6 DEF ScreenInv, MarksInv
      <3>2. markers[h] \in Nat /\ seen[h] \in Nat /\ seen'[h] \in Nat
        BY <1>2, <1>6
      <3> QED BY <3>1, <3>2
    <2>2. ASSUME NEW i \in DOMAIN marks' PROVE marks'[i].cursor <= seen'[marks'[i].group]
      <3>1. CASE i \in DOMAIN marks
        <4>1. marks'[i] = marks[i] /\ marks[i] \in Mark
          BY <1>5, <1>7, <3>1
        <4>2. marks[i].group \in Conversations /\ marks[i].cursor \in Nat
          BY <4>1 DEF Mark
        <4>3. marks[i].cursor <= seen[marks[i].group]
          BY <3>1 DEF ScreenInv, MarksInv
        <4>4. /\ seen[marks[i].group] \in Nat /\ seen'[marks[i].group] \in Nat
              /\ seen[marks[i].group] <= seen'[marks[i].group]
          BY <1>2, <1>6, <4>2
        <4> QED BY <4>1, <4>2, <4>3, <4>4
      <3>2. CASE i \notin DOMAIN marks
        <4>1. marks'[i] = [group |-> g, cursor |-> newest]
          BY <1>5, <1>7, <3>2
        <4>2. seen'[g] = later
          BY <1>2, <1>5
        <4> QED BY <1>4, <4>1, <4>2
      <3> QED BY <3>1, <3>2
    <2> QED BY <2>1, <2>2 DEF MarksInv
  <1>9. WindowInv'
    BY <1>1, WindowKept DEF ScreenInv
  <1>10. TypeOK'
    <2>1. marks' \in Seq(Mark)
      BY <1>5, <1>7
    <2> QED BY <1>1, <1>6, <2>1 DEF ScreenInv, TypeOK, windowVars
  <1> QED BY <1>8, <1>9, <1>10 DEF ScreenInv

\* What is left when the first mark has been taken.
LEMMA MarksTail ==
    ASSUME ScreenInv, marks # <<>>, marks' = Tail(marks), UNCHANGED seen,
           \A g \in Conversations : markers'[g] <= seen[g]
    PROVE  marks' \in Seq(Mark) /\ MarksInv'
  <1>1. marks \in Seq(Mark)
    BY DEF ScreenInv, TypeOK
  <1>2. \A i \in DOMAIN marks' : i + 1 \in DOMAIN marks /\ marks'[i] = marks[i + 1]
    BY <1>1
  <1> QED BY <1>1, <1>2 DEF ScreenInv, MarksInv

LEMMA MarkReadKeeps == ScreenInv /\ MarkRead => ScreenInv'
  <1> SUFFICES ASSUME ScreenInv, MarkRead PROVE ScreenInv'
    OBVIOUS
  <1> DEFINE g == Head(marks).group
             cursor == Head(marks).cursor
  <1>1. /\ UNCHANGED <<events, mail, windowVars, seen>> /\ marks # <<>> /\ marks' = Tail(marks)
        /\ markers' = [markers EXCEPT ![g] = Marked(g, cursor)]
    BY DEF MarkRead, MarkReadRow
  <1>2. /\ marks \in Seq(Mark) /\ seen \in [Conversations -> Nat]
        /\ markers \in [Conversations -> Nat]
    BY DEF ScreenInv, TypeOK
  <1>3. g \in Conversations /\ cursor \in Nat
    <2>1. Head(marks) \in Mark
      BY <1>1, <1>2
    <2> QED BY <2>1 DEF Mark
  <1>4. cursor <= seen[g]
    <2>1. 1 \in DOMAIN marks /\ Head(marks) = marks[1]
      BY <1>1, <1>2
    <2> QED BY <2>1 DEF ScreenInv, MarksInv
  <1>5. Marked(g, cursor) \in Nat /\ Marked(g, cursor) <= seen[g]
    <2> HIDE DEF g, cursor
    <2>1. markers[g] \in Nat /\ seen[g] \in Nat /\ markers[g] <= seen[g]
      BY <1>2, <1>3 DEF ScreenInv, MarksInv
    <2>2. CASE Rows(g) = {} \/ cursor = 0
      BY <2>1, <2>2 DEF Marked
    <2>3. CASE ~(Rows(g) = {} \/ cursor = 0)
      <3> DEFINE last == Max(Rows(g))
                 low == Min({cursor, last})
      <3>1. last \in Nat
        <4>1. Max(Rows(g)) \in Rows(g) /\ Rows(g) \in SUBSET Nat
          BY <2>3, MaxIs, CursorsAreNat DEF ScreenInv
        <4> QED BY <4>1
      <3>2. low \in Nat /\ low <= cursor
        <4> HIDE DEF last
        <4>1. {cursor, last} \in SUBSET Nat /\ {cursor, last} # {}
          BY <1>3, <3>1
        <4>2. low \in {cursor, last} /\ \A y \in {cursor, last} : low <= y
          BY <4>1, MinIs
        <4> QED BY <1>3, <3>1, <4>2
      <3>3. Marked(g, cursor) = Max({markers[g], low})
        BY <2>3 DEF Marked
      <3> HIDE DEF last, low
      <3>4. Max({markers[g], low}) \in {markers[g], low}
        BY <2>1, <3>2, MaxOfTwo
      <3> QED BY <1>3, <1>4, <2>1, <3>2, <3>3, <3>4
    <2> QED BY <2>2, <2>3
  <1> HIDE DEF g, cursor
  <1>6. /\ markers' \in [Conversations -> Nat]
        /\ \A h \in Conversations : markers'[h] <= seen[h]
    BY <1>1, <1>2, <1>3, <1>5 DEF ScreenInv, MarksInv
  <1>7. marks' \in Seq(Mark) /\ MarksInv'
    BY <1>1, <1>6, MarksTail
  <1>8. WindowInv'
    BY <1>1, WindowKept DEF ScreenInv
  <1>9. TypeOK'
    BY <1>1, <1>6, <1>7 DEF ScreenInv, TypeOK, windowVars
  <1> QED BY <1>7, <1>8, <1>9 DEF ScreenInv

LEMMA MarkFailKeeps == ScreenInv /\ MarkFail => ScreenInv'
  <1> SUFFICES ASSUME ScreenInv, MarkFail PROVE ScreenInv'
    OBVIOUS
  <1>1. UNCHANGED <<events, markers, mail, windowVars, seen>> /\ marks # <<>> /\ marks' = Tail(marks)
    BY DEF MarkFail, historyVars
  <1>2. marks' \in Seq(Mark) /\ MarksInv'
    BY <1>1, MarksTail DEF ScreenInv, MarksInv
  <1>3. WindowInv'
    BY <1>1, WindowKept DEF ScreenInv
  <1>4. TypeOK'
    BY <1>1, <1>2 DEF ScreenInv, TypeOK, windowVars
  <1> QED BY <1>2, <1>3, <1>4 DEF ScreenInv

LEMMA ScreenStep == ScreenInv /\ [Next]_vars => ScreenInv'
  <1> SUFFICES ASSUME ScreenInv, [Next]_vars PROVE ScreenInv'
    OBVIOUS
  <1>1. mail \in Seq(Messages)
    BY DEF ScreenInv, TypeOK
  <1>2. CASE GotList
    BY <1>2, GotListKeeps
  <1>3. CASE ReadPage
    BY <1>3, ReadPageKeeps
  <1>4. CASE RefreshFail \/ SelectFail \/ Older \/ OlderFail
    BY <1>4, ReadEndsKeeps
  <1>5. CASE \E g \in Conversations \cup {None} : Select(g)
    BY <1>5, SelectKeeps
  <1>6. CASE OlderDone
    BY <1>6, OlderDoneKeeps
  <1>7. ASSUME NEW m \in Messages, Arrive(m) PROVE ScreenInv'
    <2>1. mail' \in Seq(Messages)
      BY <1>1, <1>7 DEF Arrive
    <2> QED BY <1>7, <2>1, QuietSteps DEF Arrive, historyVars, markVars
  <1>8. ASSUME NEW m \in Messages, Send(m) PROVE ScreenInv'
    BY <1>8, SendKeeps
  <1>9. CASE Receive
    BY <1>9, ReceiveKeeps
  <1>10. CASE ReadStale \/ Poll \/ Notice \/ SyncTurn
    BY <1>1, <1>10, QuietSteps DEF ReadStale, Poll, Notice, SyncTurn, historyVars, markVars
  <1>11. CASE SyncDone \/ SyncFail \/ HearProgress \/ Hide
    BY <1>1, <1>11, QuietSteps DEF SyncDone, SyncFail, HearProgress, Hide, historyVars, markVars
  <1>12. CASE \E p \in {"front", "behind"} : Show(p)
    BY <1>1, <1>12, QuietSteps DEF Show, historyVars, markVars
  <1>13. CASE MarkVisible
    BY <1>13, MarkVisibleKeeps
  <1>14. CASE MarkRead
    BY <1>14, MarkReadKeeps
  <1>15. CASE MarkFail
    BY <1>15, MarkFailKeeps
  <1>16. CASE UNCHANGED vars
    BY <1>1, <1>16, QuietSteps DEF vars, historyVars, windowVars, markVars
  <1> QED BY <1>2, <1>3, <1>4, <1>5, <1>6, <1>7, <1>8, <1>9, <1>10, <1>11, <1>12, <1>13, <1>14,
             <1>15, <1>16 DEF Next

\* Whatever reads, selections, pages and marks overlap, the window and the
\* marks stay as ScreenInv says.
THEOREM ScreenInvariance == Spec => []ScreenInv
  BY ScreenInit, ScreenStep, PTL DEF Spec

LEMMA WindowHolds == ScreenInv => WindowWhole
  <1> SUFFICES ASSUME ScreenInv, shown # {}
               PROVE  /\ shown = {c \in Rows(selected) : c >= Min(shown) /\ c <= Max(shown)}
                      /\ before = IF \E c \in Rows(selected) : c < Min(shown) THEN Min(shown) ELSE 0
    BY DEF WindowWhole
  <1> DEFINE all == Rows(selected)
  <1>1. Whole(all, shown, before) /\ all \in SUBSET Nat /\ all \in SUBSET (0 .. Len(events)) /\ Len(events) \in Nat
    BY CursorsAreNat DEF ScreenInv, WindowInv
  <1> HIDE DEF all
  <1>2. shown \in SUBSET all
    BY <1>1 DEF Whole
  <1>3. shown \in SUBSET Nat /\ shown \in SUBSET (0 .. Len(events))
    BY <1>1, <1>2
  <1>4. Min(shown) \in shown /\ \A y \in shown : Min(shown) <= y
    BY <1>3, MinIs
  <1>5. Max(shown) \in shown /\ \A y \in shown : y <= Max(shown)
    BY <1>1, <1>3, MaxIs
  <1> DEFINE lo == Min(shown)
             hi == Max(shown)
  <1>6. lo \in shown /\ hi \in shown /\ \A y \in shown : lo <= y /\ y <= hi
    BY <1>4, <1>5
  <1> HIDE DEF lo, hi
  <1>7. \A c \in all : lo <= c /\ c <= hi => c \in shown
    BY <1>1, <1>6 DEF Whole
  <1>8. \A c \in all : c \in shown <=> c >= lo /\ c <= hi
    BY <1>1, <1>3, <1>6, <1>7
  <1>9. shown = {c \in all : c >= lo /\ c <= hi}
    BY <1>2, <1>8
  <1>10. (\E c \in all : \A a \in shown : c < a) <=> \E c \in all : c < lo
    <2>1. ASSUME NEW c \in all, c < lo, NEW a \in shown PROVE c < a
      BY <1>1, <1>3, <1>6, <2>1
    <2> QED BY <1>6, <2>1
  <1>11. before = IF \E c \in all : c < lo THEN lo ELSE 0
    <2>1. CASE \E c \in all : c < lo
      <3>1. before \in shown /\ \A a \in shown : before <= a
        BY <1>1, <1>10, <2>1 DEF Whole
      <3>2. before <= lo /\ lo <= before /\ before \in Nat /\ lo \in Nat
        BY <1>3, <1>6, <3>1
      <3>3. before = lo
        BY <3>2
      <3> QED BY <2>1, <3>3
    <2>2. CASE ~\E c \in all : c < lo
      BY <1>1, <1>10, <2>2 DEF Whole
    <2> QED BY <2>1, <2>2
  <1> QED BY <1>9, <1>11 DEF all, lo, hi

\* The window is a stretch of the open conversation with nothing missing and
\* `before` continues where it stops, for any history and any size of page.
THEOREM WindowIsWhole == Spec => []WindowWhole
  BY ScreenInvariance, WindowHolds, PTL

LEMMA UnreadHolds == ScreenInv => UnreadHonest
  <1> SUFFICES ASSUME ScreenInv, NEW g \in Conversations
               PROVE  Cardinality({c \in Unread(g, 0) : c > seen[g]}) <= ConversationSummary(g).unread
    BY DEF UnreadHonest
  <1> DEFINE unseen == {c \in Unread(g, 0) : c > seen[g]}
             counted == Unread(g, markers[g])
  <1>1. markers[g] \in Nat /\ seen[g] \in Nat /\ markers[g] <= seen[g]
    BY DEF ScreenInv, TypeOK, MarksInv
  <1>2. Rows(g) \in SUBSET (0 .. Len(events)) /\ Len(events) \in Nat /\ Rows(g) \in SUBSET Nat
    BY CursorsAreNat DEF ScreenInv
  <1>3. \A c \in Rows(g) : c > seen[g] => c > markers[g]
    BY <1>1, <1>2
  <1>4. unseen \subseteq counted
    BY <1>3 DEF Unread
  <1>5. IsFiniteSet(counted)
    <2>1. IsFiniteSet(0 .. Len(events))
      BY <1>2, FS_Interval
    <2>2. counted \subseteq 0 .. Len(events)
      BY <1>2 DEF Unread
    <2> QED BY <2>1, <2>2, FS_Subset
  <1>6. Cardinality(unseen) <= Cardinality(counted)
    BY <1>4, <1>5, FS_Subset
  <1> QED BY <1>6 DEF ConversationSummary

\* What no frame has shown yet is still counted as unread.
THEOREM UnreadStaysHonest == Spec => []UnreadHonest
  BY ScreenInvariance, UnreadHolds, PTL
=============================================================================
