----------------------------- MODULE PagingProofs -----------------------------
(***************************************************************************)
(* What a client that reads a listing page by page is shown: the two         *)
(* properties of Paging, for every number of rows, every clock, every page   *)
(* size the handler can be configured with and every one a client may ask   *)
(* for.                                                                      *)
(***************************************************************************)
EXTENDS Paging, FiniteSetTheorems, SequenceTheorems, TLAPS

----------------------------------------------------------------------------
(* Types *)

Pages == [page : Int, pageSize : Int]

Readers == [at : {"count", "find", "done"}, asked : Pages,
            until : {"short", "total"}, total : Int, shown : [Ids -> Nat]]

Pasts == [present : SUBSET Ids, moved : SUBSET Ids, removed : BOOLEAN, gap : BOOLEAN]

TypeOK ==
    /\ listing \in {"records", "audits"}
    /\ state \in [Ids -> {"absent", "live", "deleted"}]
    /\ stamp \in [Ids -> Int]
    /\ now \in Int
    /\ reader \in Readers
    /\ since \in Pasts

(* A page that can be fetched. *)
Askable(q) == q \in Pages /\ 1 <= q.page /\ 1 <= q.pageSize

(* The page the client is about to read, and the rows in front of it. *)
Current == bindPage(reader.asked)
Skipped(q) == (q.page - 1) * q.pageSize
Covered(q) == q.page * q.pageSize

(* The rows that come before u, and where u stands if nothing ties with it. *)
Preceding(u) == {v \in Live : Before(v, u)}
Rank(u)      == Cardinality(Preceding(u)) + 1

----------------------------------------------------------------------------
(* The page that is fetched and the one that is announced *)

(* Handler and repository bind the same page: a size the handler lets pass  *)
(* is one the repository leaves alone, so an answer says what was fetched.  *)
LEMMA BoundPage ==
    ASSUME NEW q \in Pages
    PROVE  /\ Askable(bindPage(q))
           /\ Fetched(q) = bindPage(q)
           /\ Announced(q) = bindPage(q)
           /\ Askable(q) /\ q.pageSize <= MaxSize => bindPage(q) = q
           /\ bindPage(q).pageSize <= MaxSize
  <1> DEFINE b == bindPage(q)
  <1>1. b = [page |-> b.page, pageSize |-> b.pageSize]
    BY DEF bindPage
  <1>2. b.page \in Int /\ b.pageSize \in Int /\ 1 <= b.page /\ 1 <= b.pageSize
        /\ b.pageSize <= MaxSize
    BY SizesAssumption DEF bindPage, Pages
  <1>3. b \in Pages
    BY <1>1, <1>2 DEF Pages
  <1>4. Askable(b)
    BY <1>2, <1>3 DEF Askable
  <1>5. normalizePage(b) = b
    <2> HIDE DEF b
    <2>1. normalizePage(b) = [page |-> b.page, pageSize |-> b.pageSize]
      BY <1>2, SizesAssumption DEF normalizePage
    <2> QED
      BY <2>1, <1>1
  <1>6. Fetched(q) = b /\ Announced(q) = b
    BY <1>5 DEF Fetched, Announced
  <1>7. ASSUME Askable(q), q.pageSize <= MaxSize
        PROVE  b = q
    <2>1. b.page = q.page /\ b.pageSize = q.pageSize
      BY <1>7, SizesAssumption DEF Askable, Pages, bindPage
    <2>2. q = [page |-> q.page, pageSize |-> q.pageSize]
      BY DEF Pages
    <2> HIDE DEF b
    <2> QED
      BY <2>1, <2>2, <1>1
  <1> QED
    BY <1>2, <1>4, <1>6, <1>7

(* Pages lie one behind the other. *)
LEMMA PageExtent ==
    ASSUME NEW q, Askable(q)
    PROVE  /\ Skipped(q) \in Int /\ Covered(q) \in Int
           /\ Covered(q) = Skipped(q) + q.pageSize
           /\ Skipped([q EXCEPT !.page = @ + 1]) = Covered(q)
           /\ q.page = 1 => Skipped(q) = 0
  <1>1. ASSUME NEW p \in Int, NEW z \in Int
        PROVE  /\ (p - 1) * z \in Int /\ p * z \in Int
               /\ p * z = (p - 1) * z + z
               /\ (p + 1 - 1) * z = p * z
               /\ (1 - 1) * z = 0
    OBVIOUS
  <1>2. q.page \in Int /\ q.pageSize \in Int
    BY DEF Askable, Pages
  <1>3. [q EXCEPT !.page = @ + 1].page = q.page + 1
        /\ [q EXCEPT !.page = @ + 1].pageSize = q.pageSize
    BY DEF Askable, Pages
  <1> QED
    BY <1>1, <1>2, <1>3 DEF Skipped, Covered

----------------------------------------------------------------------------
(* Orderings and ranks *)

(* Sets of rows are finite, and grow with their members. *)
LEMMA RowsFinite ==
    ASSUME NEW S \in SUBSET Ids
    PROVE  /\ IsFiniteSet(S) /\ Cardinality(S) \in Nat
           /\ \A T \in SUBSET S : IsFiniteSet(T) /\ Cardinality(T) \in Nat
                                 /\ Cardinality(T) <= Cardinality(S)
  <1>1. IsFiniteSet(Ids)
    BY BoundsAssumption, FS_Interval DEF Ids
  <1>2. IsFiniteSet(S)
    BY <1>1, FS_Subset
  <1> QED
    BY <1>2, FS_Subset, FS_CardinalityType

LEMMA LiveFinite ==
    /\ IsFiniteSet(Live) /\ Cardinality(Live) \in Nat
    /\ \A T \in SUBSET Live : IsFiniteSet(T) /\ Cardinality(T) \in Nat
                              /\ Cardinality(T) <= Cardinality(Live)
  BY RowsFinite DEF Live

(* No row comes before itself; a settled row and another are always ordered. *)
LEMMA BeforeOrders ==
    ASSUME TypeOK, NEW u \in Live
    PROVE  /\ ~ Before(u, u)
           /\ Settled(u) => \A v \in Live : v # u => Before(v, u) \/ Before(u, v)
           /\ \A v \in Live : ~ (Before(v, u) /\ Before(u, v))
  BY DEF TypeOK, Live, Ids, Before, Settled

LEMMA RankBounds ==
    ASSUME TypeOK, NEW u \in Live
    PROVE  Rank(u) \in Int /\ 1 <= Rank(u) /\ Rank(u) <= Cardinality(Live)
  <1> DEFINE P == Preceding(u)
  <1>1. P \subseteq Live /\ u \notin P
    BY BeforeOrders DEF Preceding
  <1>2. IsFiniteSet(P) /\ Cardinality(P) \in Nat
    BY <1>1, LiveFinite
  <1>3. Cardinality(P \cup {u}) = Cardinality(P) + 1
    BY <1>1, <1>2, FS_AddElement
  <1>4. Cardinality(P \cup {u}) <= Cardinality(Live)
    BY <1>1, LiveFinite
  <1> QED
    BY <1>2, <1>3, <1>4, LiveFinite DEF Rank

(* An ordering lists every live row once. *)
LEMMA OrderingShape ==
    ASSUME NEW s \in Orderings
    PROVE  /\ s \in [1 .. Cardinality(Live) -> Live]
           /\ s \in Seq(Live) /\ Len(s) = Cardinality(Live)
           /\ \A i, j \in 1 .. Cardinality(Live) : i # j => s[i] # s[j]
           /\ \A u \in Live : \E i \in 1 .. Cardinality(Live) : s[i] = u
           /\ \A i, j \in 1 .. Cardinality(Live) : Before(s[j], s[i]) => j < i
  <1> DEFINE n == Cardinality(Live)
             D == 1 .. n
  <1>1. n \in Nat
    BY LiveFinite
  <1>2. /\ s \in [D -> Live]
        /\ \A i, j \in D : i # j => s[i] # s[j]
        /\ \A i, j \in DOMAIN s : Before(s[j], s[i]) => j < i
    BY DEF Orderings, SetToSeqs
  <1>3. IsFiniteSet(D) /\ Cardinality(D) = n
    BY <1>1, FS_Interval
  <1>4. s \in Injection(D, Live)
    BY <1>2 DEF Injection, IsInjective
  <1>5. s \in Surjection(D, Live)
    BY <1>3, <1>4, FS_Injection, LiveFinite
  <1>6. \A u \in Live : \E i \in D : s[i] = u
    BY <1>5 DEF Surjection
  <1>7. s \in Seq(Live) /\ Len(s) = n
    BY <1>1, <1>2, SeqDef
  <1> QED
    BY <1>2, <1>6, <1>7

(* A settled row stands at its rank, whatever the order of those that tie.  *)
LEMMA SettledAtRank ==
    ASSUME TypeOK, NEW s \in Orderings, NEW i \in 1 .. Cardinality(Live), Settled(s[i])
    PROVE  i = Rank(s[i])
  <1> DEFINE n == Cardinality(Live)
             u == s[i]
             f == [j \in 1 .. i - 1 |-> s[j]]
  <1>1. /\ s \in [1 .. n -> Live] /\ n \in Nat
        /\ \A k, j \in 1 .. n : k # j => s[k] # s[j]
        /\ \A v \in Live : \E k \in 1 .. n : s[k] = v
        /\ \A k, j \in 1 .. n : Before(s[j], s[k]) => j < k
    BY OrderingShape, LiveFinite
  <1>2. u \in Live
    BY <1>1
  <1>3. /\ \A v \in Live : v # u => Before(v, u) \/ Before(u, v)
        /\ ~ Before(u, u)
    BY <1>2, BeforeOrders
  <1>4. ASSUME NEW j \in 1 .. n
        PROVE  j < i <=> Before(s[j], u)
    <2>1. ASSUME j < i
          PROVE  Before(s[j], u)
      <3>1. s[j] # u /\ s[j] \in Live
        BY <1>1, <2>1
      <3>2. Before(s[j], u) \/ Before(u, s[j])
        BY <1>3, <3>1
      <3>3. Before(u, s[j]) => i < j
        BY <1>1
      <3> QED
        BY <2>1, <3>2, <3>3
    <2>2. Before(s[j], u) => j < i
      BY <1>1
    <2> QED
      BY <2>1, <2>2
  <1>5. f \in [1 .. i - 1 -> Preceding(u)]
    BY <1>1, <1>4 DEF Preceding
  <1>6. f \in Injection(1 .. i - 1, Preceding(u))
    <2>1. \A k, j \in 1 .. i - 1 : f[k] = f[j] => k = j
      BY <1>1
    <2> HIDE DEF f, u
    <2> QED
      BY <1>5, <2>1 DEF Injection, IsInjective
  <1>7. f \in Surjection(1 .. i - 1, Preceding(u))
    <2>1. ASSUME NEW v \in Preceding(u)
          PROVE  \E j \in 1 .. i - 1 : f[j] = v
      <3>1. v \in Live /\ Before(v, u)
        BY DEF Preceding
      <3>2. PICK j \in 1 .. n : s[j] = v
        BY <1>1, <3>1
      <3>3. j < i
        BY <1>4, <3>1, <3>2
      <3> QED
        BY <3>2, <3>3
    <2> HIDE DEF f, u
    <2> QED
      BY <1>5, <2>1 DEF Surjection
  <1>8. ExistsBijection(1 .. i - 1, Preceding(u))
    BY <1>6, <1>7 DEF ExistsBijection, Bijection
  <1>9. IsFiniteSet(1 .. i - 1) /\ Cardinality(1 .. i - 1) = i - 1
    <2>1. i \in Int /\ i >= 1
      BY <1>1
    <2>2. i - 1 \in Int /\ (1 > i - 1 => i - 1 = 0)
      BY <2>1
    <2> DEFINE m == i - 1
    <2> HIDE DEF m
    <2>3. m \in Int => IsFiniteSet(1 .. m) /\ Cardinality(1 .. m) = IF 1 > m THEN 0 ELSE m - 1 + 1
      BY FS_Interval
    <2>4. m \in Int /\ (1 > m => m = 0)
      BY <2>2 DEF m
    <2>5. IsFiniteSet(1 .. m) /\ Cardinality(1 .. m) = m
      BY <2>3, <2>4
    <2> QED
      BY <2>5 DEF m
  <1>10. Cardinality(Preceding(u)) = i - 1
    BY <1>8, <1>9, FS_Bijection
  <1> QED
    BY <1>10, <1>1 DEF Rank

----------------------------------------------------------------------------
(* Pages of an ordering *)

LEMMA WindowShape ==
    ASSUME NEW s \in Orderings, NEW q, Askable(q)
    PROVE  /\ Len(Window(s, q)) < q.pageSize => Cardinality(Live) < Covered(q)
           /\ Window(s, q) \in Seq(Live) /\ Len(Window(s, q)) <= q.pageSize
           /\ \A u : u \in ToSet(Window(s, q)) <=>
                 \E i \in 1 .. Cardinality(Live) :
                    Skipped(q) < i /\ i <= Covered(q) /\ s[i] = u
  <1> DEFINE n    == Cardinality(Live)
             from == Skipped(q) + 1
             to   == IF Covered(q) < n THEN Covered(q) ELSE n
             w    == Window(s, q)
  <1>1. /\ n \in Nat /\ s \in [1 .. n -> Live] /\ Len(s) = n
    BY OrderingShape, LiveFinite
  <1>2. /\ Skipped(q) \in Int /\ Covered(q) \in Int /\ q.pageSize \in Int
        /\ Covered(q) = Skipped(q) + q.pageSize /\ 1 <= q.pageSize
    BY PageExtent DEF Askable, Pages
  <1>3. 0 <= Skipped(q)
    <2>1. \A p, z \in Int : 1 <= p /\ 1 <= z => 0 <= (p - 1) * z
      OBVIOUS
    <2> QED
      BY <2>1 DEF Skipped, Askable, Pages
  <1>4. w = SubSeq(s, from, to)
    BY <1>1 DEF Window, Skipped, Covered
  <1>5. from \in Int /\ to \in Int /\ 1 <= from /\ to <= n /\ to <= Covered(q)
        /\ (to = n \/ to = Covered(q))
    BY <1>1, <1>2, <1>3
  <1> HIDE DEF n, from, to, w
  <1>6. \A i \in from .. to : s[i] \in Live
    BY <1>1, <1>5
  <1>7. /\ w \in Seq(Live)
        /\ Len(w) = IF from <= to THEN to - from + 1 ELSE 0
        /\ \A i \in 1 .. to - from + 1 : w[i] = s[from + i - 1]
    BY <1>4, <1>5, <1>6, SubSeqProperties
  <1>8. DOMAIN w = 1 .. Len(w)
    BY <1>7, LenProperties
  <1>9. ASSUME Len(w) < q.pageSize
        PROVE  n < Covered(q)
    <2>1. from = Skipped(q) + 1
      BY DEF from
    <2>2. to # Covered(q)
      BY <1>2, <1>5, <1>7, <1>9, <2>1
    <2>3. to = n /\ to <= Covered(q)
      BY <1>5, <2>2
    <2> QED
      BY <2>2, <2>3, <1>1, <1>2
  <1>10. \A i \in Int : i \in from .. to <=> i \in 1 .. n /\ Skipped(q) < i /\ i <= Covered(q)
    BY <1>1, <1>2, <1>3, <1>5 DEF from, to
  <1>11. ASSUME NEW u
         PROVE  u \in ToSet(w) <=> \E i \in from .. to : s[i] = u
    <2>1. ToSet(w) = {w[i] : i \in 1 .. Len(w)}
      BY <1>8 DEF ToSet
    <2>2. ASSUME u \in ToSet(w)
          PROVE  \E i \in from .. to : s[i] = u
      <3>1. PICK k \in 1 .. Len(w) : w[k] = u
        BY <2>1, <2>2
      <3>2. k \in 1 .. to - from + 1 /\ from + k - 1 \in from .. to
        BY <1>5, <1>7
      <3>3. s[from + k - 1] = u
        BY <1>7, <3>1, <3>2
      <3> QED
        BY <3>2, <3>3
    <2>3. ASSUME NEW i \in from .. to, s[i] = u
          PROVE  u \in ToSet(w)
      <3>1. i - from + 1 \in 1 .. to - from + 1 /\ i - from + 1 \in 1 .. Len(w)
            /\ from + (i - from + 1) - 1 = i
        BY <1>5, <1>7
      <3>2. w[i - from + 1] = s[i]
        BY <1>7, <3>1
      <3> QED
        BY <2>1, <2>3, <3>1, <3>2
    <2> QED
      BY <2>2, <2>3
  <1>12. ASSUME NEW u
         PROVE  u \in ToSet(w) <=>
                   \E i \in 1 .. n : Skipped(q) < i /\ i <= Covered(q) /\ s[i] = u
    <2>1. \A i \in from .. to : i \in Int
      BY <1>5
    <2>2. \A i \in 1 .. n : i \in Int
      BY <1>1
    <2> QED
      BY <1>10, <1>11, <2>1, <2>2
  <1>13. Len(w) <= q.pageSize
    BY <1>2, <1>5, <1>7 DEF from
  <1> QED
    BY <1>7, <1>9, <1>12, <1>13 DEF n, w

(* A page has no more rows than its size. *)
LEMMA WindowBounded ==
    ASSUME NEW s \in Orderings, NEW q, Askable(q)
    PROVE  /\ IsFiniteSet(ToSet(Window(s, q)))
           /\ Cardinality(ToSet(Window(s, q))) <= q.pageSize
  <1> DEFINE w == Window(s, q)
  <1>1. w \in Seq(Live) /\ Len(w) <= q.pageSize
    BY WindowShape
  <1> HIDE DEF w
  <1>2. Len(w) \in Nat /\ w \in [1 .. Len(w) -> Live]
    BY <1>1, LenProperties
  <1>3. ToSet(w) = {w[i] : i \in 1 .. Len(w)}
    BY <1>2 DEF ToSet
  <1>4. w \in Surjection(1 .. Len(w), ToSet(w))
    BY <1>2, <1>3 DEF Surjection
  <1>5. Cardinality(ToSet(w)) <= Len(w)
    BY <1>2, <1>4, FS_SurjCardinalityBound DEF ExistsSurjection
  <1>6. IsFiniteSet(ToSet(w)) /\ Cardinality(ToSet(w)) \in Nat
    <2>1. ToSet(w) \in SUBSET Live
      BY <1>2, <1>3
    <2> QED
      BY <2>1, LiveFinite
  <1>7. q.pageSize \in Int
    BY DEF Askable, Pages
  <1> QED
    BY <1>1, <1>2, <1>5, <1>6, <1>7 DEF w

(* A settled row is on a page if and only if its rank is.                    *)
LEMMA OnPage ==
    ASSUME TypeOK, NEW s \in Orderings, NEW q, Askable(q),
           NEW u \in Live, Settled(u)
    PROVE  u \in ToSet(Window(s, q)) <=> Skipped(q) < Rank(u) /\ Rank(u) <= Covered(q)
  <1>1. PICK i \in 1 .. Cardinality(Live) : s[i] = u
    BY OrderingShape
  <1>2. \A j \in 1 .. Cardinality(Live) : s[j] = u => j = Rank(u)
    BY SettledAtRank
  <1> QED
    BY <1>1, <1>2, WindowShape

----------------------------------------------------------------------------
(* The invariants *)

(* A row that was there at the start and has not moved is either shown or   *)
(* still lies behind the pages read; the total is what a fetch sees unless   *)
(* a row moved in between; and who has finished has seen what it should.     *)
NothingMissedSoFar ==
    ~ since.removed =>
      /\ since.present \ since.moved \subseteq Live
      /\ reader.at = "find" /\ ~ since.gap => reader.total = Cardinality(Live)
      /\ \A u \in since.present \ since.moved : Settled(u) =>
           /\ reader.at # "done" /\ reader.shown[u] = 0 => Skipped(Current) < Rank(u)
           /\ /\ reader.at = "done"
              /\ reader.until = "total" => ~ since.gap
              => reader.shown[u] > 0

(* As long as no row was inserted or touched, what has been shown lies in    *)
(* the pages already read, and was shown once.                               *)
NothingRepeatedSoFar ==
    since.moved = {} =>
      \A u \in Live : Settled(u) =>
        /\ reader.shown[u] <= 1
        /\ reader.shown[u] > 0 => Rank(u) <= Skipped(Current)

LEMMA CurrentAskable ==
    ASSUME TypeOK
    PROVE  /\ Askable(Current) /\ Current.pageSize <= MaxSize
           /\ Fetched(reader.asked) = Current /\ Announced(reader.asked) = Current
  BY BoundPage DEF TypeOK, Readers, Current

----------------------------------------------------------------------------
(* What the steps do *)

LEMMA TypeInit == Init => TypeOK
  <1> SUFFICES ASSUME Init
               PROVE  TypeOK
    OBVIOUS
  <1>1. listing \in {"records", "audits"} /\ now \in Int
    BY DEF Init
  <1>2. state \in [Ids -> {"absent", "live", "deleted"}]
    BY DEF Init
  <1>3. stamp \in [Ids -> Int]
    BY DEF Init
  <1>4. reader \in Readers
    BY BoundsAssumption DEF Init, Readers, Pages
  <1>5. since \in Pasts
    BY DEF Init, Pasts, Live
  <1> QED
    BY <1>1, <1>2, <1>3, <1>4, <1>5 DEF TypeOK

(* A page that is read: the client moves on by one page, and each settled    *)
(* row was shown once more if its rank is on the page.                       *)
LEMMA FindStep ==
    ASSUME TypeOK, Find
    PROVE  /\ UNCHANGED <<listing, state, stamp, now, since>>
           /\ reader.at = "find" /\ reader'.at \in {"count", "done"} /\ reader' \in Readers
           /\ reader'.until = reader.until /\ reader'.total = reader.total
           /\ Skipped(Current') = Covered(Current)
           /\ Skipped(Current) \in Int /\ Covered(Current) \in Int
           /\ Skipped(Current) <= Covered(Current)
           /\ \A u \in Live : Settled(u) =>
                /\ Skipped(Current) < Rank(u) /\ Rank(u) <= Covered(Current) =>
                      reader'.shown[u] = reader.shown[u] + 1
                /\ ~ (Skipped(Current) < Rank(u) /\ Rank(u) <= Covered(Current)) =>
                      reader'.shown[u] = reader.shown[u]
           /\ reader'.at = "done" =>
                /\ reader.until = "short" => Cardinality(Live) < Covered(Current)
                /\ reader.until = "total" => reader.total <= Covered(Current)
  <1> DEFINE b == Current
             b2 == [b EXCEPT !.page = @ + 1]
  <1>1. Askable(b) /\ b.pageSize <= MaxSize /\ b \in Pages
        /\ b.page \in Int /\ b.pageSize \in Int
    BY CurrentAskable DEF Askable, Pages
  <1>2. Fetched(reader.asked) = b /\ Announced(reader.asked) = b
    BY CurrentAskable
  <1>3. /\ reader \in Readers /\ reader.asked \in Pages
        /\ reader.shown \in [Ids -> Nat] /\ reader.until \in {"short", "total"}
    BY DEF TypeOK, Readers
  <1>4. PICK s \in Orderings :
           reader' = [reader EXCEPT
              !.at    = IF IsLast(Window(s, b), b) THEN "done" ELSE "count",
              !.asked = b2,
              !.shown = [u \in Ids |-> @[u] + IF u \in ToSet(Window(s, b)) THEN 1 ELSE 0]]
    BY <1>2 DEF Find
  <1> DEFINE w == Window(s, b)
             sh == [u \in Ids |-> reader.shown[u] + IF u \in ToSet(w) THEN 1 ELSE 0]
             last == IsLast(w, b)
  <1>5. reader' = [reader EXCEPT !.at = IF last THEN "done" ELSE "count",
                                 !.asked = b2, !.shown = sh]
    BY <1>4
  <1>6. /\ b2 \in Pages /\ b2.pageSize = b.pageSize /\ b2.page = b.page + 1
        /\ Askable(b2) /\ b2.pageSize <= MaxSize
    BY <1>1 DEF Askable, Pages
  <1>7. sh \in [Ids -> Nat]
    BY <1>3
  <1>8. last <=> IF reader.until = "short" THEN Len(w) < b.pageSize
                 ELSE reader.total <= Covered(b)
    BY DEF IsLast, Covered
  <1>9. /\ Len(w) < b.pageSize => Cardinality(Live) < Covered(b)
        /\ \A u \in Live : Settled(u) =>
             (u \in ToSet(w) <=> Skipped(b) < Rank(u) /\ Rank(u) <= Covered(b))
    BY <1>1, WindowShape, OnPage
  <1>10. /\ Skipped(b) \in Int /\ Covered(b) \in Int /\ Skipped(b) <= Covered(b)
         /\ Skipped(b2) = Covered(b)
    BY <1>1, PageExtent DEF Askable
  <1>11. bindPage(b2) = b2
    BY <1>6, BoundPage
  <1>12. reader.at = "find" /\ UNCHANGED <<listing, state, stamp, now, since>>
    BY DEF Find
  <1>13. \A u \in Live : u \in Ids
    BY DEF Live
  <1> HIDE DEF sh, last, b2, w
  <1>14. /\ reader'.at = IF last THEN "done" ELSE "count"
         /\ reader'.asked = b2 /\ reader'.shown = sh
         /\ reader'.until = reader.until /\ reader'.total = reader.total
    BY <1>3, <1>5 DEF Readers
  <1>15. reader' \in Readers
    BY <1>3, <1>5, <1>6, <1>7 DEF Readers
  <1>16. Current' = b2
    BY <1>11, <1>14 DEF Current
  <1>17. \A u \in Live : sh[u] = reader.shown[u] + IF u \in ToSet(w) THEN 1 ELSE 0
    BY <1>13 DEF sh
  <1>18. \A u \in Live : reader.shown[u] \in Nat
    BY <1>3, <1>13
  <1> QED
    BY <1>3, <1>8, <1>9, <1>10, <1>12, <1>14, <1>15, <1>16, <1>17, <1>18

(* Rows only come in front of a row, as long as none is withdrawn; and a     *)
(* row that is settled after such a step was settled before it.              *)
LEMMA InsertStep ==
    ASSUME TypeOK, Insert
    PROVE  /\ reader' = reader /\ listing' = listing /\ now' = now
           /\ state' \in [Ids -> {"absent", "live", "deleted"}] /\ stamp' \in [Ids -> Int]
           /\ \E w \in Ids : since' = Moved(w)
           /\ Live \subseteq Live'
           /\ \A u \in Live : /\ Settled(u)' => Settled(u)
                              /\ Preceding(u) \subseteq Preceding(u)'
  <1>1. PICK w \in Ids, t \in Stamps(0) :
           /\ state[w] = "absent"
           /\ state' = [state EXCEPT ![w] = "live"]
           /\ stamp' = [stamp EXCEPT ![w] = t]
           /\ since' = Moved(w)
    BY DEF Insert
  <1>2. t \in Int
    BY BoundsAssumption DEF Stamps, TypeOK
  <1>3. reader' = reader /\ listing' = listing /\ now' = now
    BY DEF Insert
  <1>4. state' \in [Ids -> {"absent", "live", "deleted"}] /\ stamp' \in [Ids -> Int]
    BY <1>1, <1>2 DEF TypeOK
  <1>5. Live \subseteq Live' /\ w \notin Live
    BY <1>1 DEF TypeOK, Live
  <1>6. \A u \in Live : stamp'[u] = stamp[u]
    BY <1>1, <1>5 DEF TypeOK, Live
  <1>7. \A u \in Live : Settled(u)' => Settled(u)
    BY <1>3, <1>5, <1>6 DEF Settled
  <1>8. \A u \in Live : Preceding(u) \subseteq Preceding(u)'
    BY <1>3, <1>5, <1>6 DEF Preceding, Before
  <1> QED
    BY <1>1, <1>3, <1>4, <1>5, <1>7, <1>8

LEMMA TouchStep ==
    ASSUME TypeOK, Touch
    PROVE  /\ reader' = reader /\ listing' = listing /\ now' = now /\ state' = state
           /\ stamp' \in [Ids -> Int]
           /\ listing = "records"
           /\ \E w \in Ids : /\ since' = Moved(w)
                             /\ \A u \in Live \ {w} : Preceding(u) \subseteq Preceding(u)'
  <1>0. PICK w \in Live : \E t \in Stamps(stamp[w]) :
           stamp' = [stamp EXCEPT ![w] = t] /\ since' = Moved(w)
    BY DEF Touch
  <1>1. PICK t \in Stamps(stamp[w]) :
           stamp' = [stamp EXCEPT ![w] = t] /\ since' = Moved(w)
    BY <1>0
  <1>2. w \in Ids /\ stamp[w] \in Int
    BY DEF Live, TypeOK
  <1>3. t \in Int /\ stamp[w] <= t
    BY <1>2, BoundsAssumption DEF Stamps, TypeOK
  <1>4. reader' = reader /\ listing' = listing /\ now' = now /\ state' = state
        /\ listing = "records"
    BY DEF Touch
  <1>5. stamp' \in [Ids -> Int]
    BY <1>1, <1>2, <1>3 DEF TypeOK
  <1>6. Live' = Live
    BY <1>4 DEF Live
  <1>7. \A u \in Live : stamp[u] <= stamp'[u] /\ (u # w => stamp'[u] = stamp[u])
                       /\ stamp[u] \in Int /\ stamp'[u] \in Int /\ u \in Int
    BY <1>1, <1>2, <1>3 DEF TypeOK, Live, Ids
  <1>8. ASSUME NEW u \in Live, u # w, NEW v \in Live, Before(v, u)
        PROVE  Before(v, u)'
    BY <1>4, <1>7, <1>8 DEF Before
  <1>9. \A u \in Live \ {w} : Preceding(u) \subseteq Preceding(u)'
    BY <1>6, <1>8 DEF Preceding
  <1> QED
    BY <1>1, <1>2, <1>4, <1>5, <1>9

LEMMA WithdrawStep ==
    ASSUME TypeOK, Withdraw
    PROVE  /\ reader' = reader /\ listing' = listing /\ now' = now /\ stamp' = stamp
           /\ state' \in [Ids -> {"absent", "live", "deleted"}]
           /\ listing = "records"
           /\ since' = [since EXCEPT !.removed = TRUE]
           /\ Live' \subseteq Live
           /\ \A u \in Live' : Preceding(u)' \subseteq Preceding(u)
  <1>1. PICK w \in Live : state' = [state EXCEPT ![w] = "deleted"]
    BY DEF Withdraw
  <1>2. Live' \subseteq Live
    BY <1>1 DEF TypeOK, Live
  <1>3. /\ reader' = reader /\ listing' = listing /\ now' = now /\ stamp' = stamp
        /\ listing = "records" /\ since' = [since EXCEPT !.removed = TRUE]
    BY DEF Withdraw
  <1>4. \A u \in Live' : Preceding(u)' \subseteq Preceding(u)
    BY <1>2, <1>3 DEF Preceding, Before
  <1> QED
    BY <1>1, <1>2, <1>3, <1>4 DEF TypeOK, Live

LEMMA MovedShape ==
    ASSUME TypeOK, NEW w \in Ids
    PROVE  /\ Moved(w) \in Pasts
           /\ Moved(w).present = since.present /\ Moved(w).moved = since.moved \cup {w}
           /\ Moved(w).removed = since.removed
           /\ Moved(w).gap <=> since.gap \/ reader.at = "find"
  <1>1. since \in Pasts
    BY DEF TypeOK
  <1> QED
    BY <1>1 DEF Moved, Pasts

LEMMA CountStep ==
    ASSUME TypeOK, Count
    PROVE  /\ UNCHANGED <<listing, state, stamp, now>>
           /\ reader' \in Readers /\ since' \in Pasts
           /\ reader.at = "count" /\ reader'.at = "find"
           /\ reader'.total = Cardinality(Live) /\ reader'.shown = reader.shown
           /\ reader'.asked = reader.asked /\ reader'.until = reader.until
           /\ since'.present = since.present /\ since'.moved = since.moved
           /\ since'.removed = since.removed
  <1>1. reader \in Readers /\ since \in Pasts
    BY DEF TypeOK
  <1>2. Cardinality(Live) \in Int
    BY LiveFinite
  <1> QED
    BY <1>1, <1>2 DEF Count, Readers, Pasts

(* Every step keeps every variable in its type. *)
LEMMA TypeStep ==
    ASSUME TypeOK, [Next]_vars
    PROVE  TypeOK'
  <1>1. CASE Tick
    BY <1>1 DEF Tick, TypeOK
  <1>2. CASE Insert
    BY <1>2, InsertStep, MovedShape DEF TypeOK
  <1>3. CASE Touch
    BY <1>3, TouchStep, MovedShape DEF TypeOK
  <1>4. CASE Withdraw
    <2>1. since' \in Pasts
      BY <1>4, WithdrawStep DEF TypeOK, Pasts
    <2> QED
      BY <1>4, <2>1, WithdrawStep DEF TypeOK
  <1>5. CASE Count
    BY <1>5, CountStep DEF TypeOK
  <1>6. CASE Find
    BY <1>6, FindStep DEF TypeOK
  <1>7. CASE Finished \/ UNCHANGED vars
    BY <1>7 DEF Finished, vars, TypeOK
  <1> QED
    BY <1>1, <1>2, <1>3, <1>4, <1>5, <1>6, <1>7 DEF Next

LEMMA TypeCorrect == Spec => []TypeOK
  <1>1. TypeOK /\ [Next]_vars => TypeOK'
    BY TypeStep
  <1> QED
    BY <1>1, TypeInit, PTL DEF Spec

----------------------------------------------------------------------------
(* How much is answered *)

(* The rows a step shows the client. *)
ShownNow == {u \in Ids : reader'.shown[u] # reader.shown[u]}

AnswersBounded ==
    [][LET size == Announced(reader.asked).pageSize IN
       /\ 1 <= size /\ size <= MaxSize
       /\ Cardinality(ShownNow) <= size]_vars

LEMMA StepBounded ==
    ASSUME TypeOK, [Next]_vars
    PROVE  LET size == Announced(reader.asked).pageSize IN
           /\ 1 <= size /\ size <= MaxSize
           /\ Cardinality(ShownNow) <= size
  <1> DEFINE b == Current
  <1>1. /\ Fetched(reader.asked) = b /\ Announced(reader.asked) = b
        /\ Askable(b) /\ b.pageSize <= MaxSize /\ b.pageSize \in Int /\ 1 <= b.pageSize
    BY CurrentAskable DEF Askable, Pages
  <1> HIDE DEF b
  <1>2. CASE Find
    <2>1. PICK s \in Orderings :
             reader'.shown = [u \in Ids |-> reader.shown[u]
                                + IF u \in ToSet(Window(s, b)) THEN 1 ELSE 0]
      BY <1>1, <1>2 DEF Find, TypeOK, Readers
    <2> DEFINE rows == ToSet(Window(s, b))
    <2>2. IsFiniteSet(rows) /\ Cardinality(rows) <= b.pageSize
      BY <1>1, WindowBounded
    <2>3. reader.shown \in [Ids -> Nat]
      BY DEF TypeOK, Readers
    <2> HIDE DEF rows
    <2>4. \A u \in Ids : reader'.shown[u] = reader.shown[u] + IF u \in rows THEN 1 ELSE 0
      BY <2>1 DEF rows
    <2>5. ShownNow \in SUBSET rows
      BY <2>3, <2>4 DEF ShownNow
    <2>6. /\ Cardinality(ShownNow) <= Cardinality(rows)
          /\ Cardinality(ShownNow) \in Nat /\ Cardinality(rows) \in Nat
      BY <2>2, <2>5, FS_Subset, FS_CardinalityType
    <2> QED
      BY <1>1, <2>2, <2>6
  <1>3. CASE ~Find
    <2>1. reader'.shown = reader.shown
      BY <1>3, CountStep
         DEF Next, Tick, Insert, Touch, Withdraw, Finished, vars
    <2>2. ShownNow = {}
      BY <2>1 DEF ShownNow
    <2> QED
      BY <1>1, <2>2, FS_EmptySet
  <1> QED
    BY <1>2, <1>3

(* No answer holds more rows than the page size it announces, and no page    *)
(* size above MaxSize is announced, whatever page and size are asked for:    *)
(* the handler and the repository bound the same page, one after the other   *)
(* (bindPage, normalizePage, List, ListAudits).                              *)
THEOREM AnswersAreBounded == Spec => AnswersBounded
  <1>1. TypeOK /\ [Next]_vars =>
           [LET size == Announced(reader.asked).pageSize IN
            /\ 1 <= size /\ size <= MaxSize
            /\ Cardinality(ShownNow) <= size]_vars
    BY StepBounded
  <1> QED
    BY <1>1, TypeCorrect, PTL DEF Spec, AnswersBounded

----------------------------------------------------------------------------
(* Nothing is missed *)

LEMMA SameRows ==
    ASSUME UNCHANGED <<listing, state, stamp>>
    PROVE  Live' = Live /\ \A u : Rank(u)' = Rank(u) /\ (Settled(u)' <=> Settled(u))
  BY DEF Live, Rank, Preceding, Before, Settled

LEMMA RankGrows ==
    ASSUME NEW u, Preceding(u) \subseteq Preceding(u)'
    PROVE  Rank(u) <= Rank(u)' /\ Rank(u) \in Int /\ Rank(u)' \in Int
  <1>1. Preceding(u) \in SUBSET Ids /\ Preceding(u)' \in SUBSET Ids
    BY DEF Preceding, Live
  <1>2. /\ Cardinality(Preceding(u)) \in Nat /\ Cardinality(Preceding(u)') \in Nat
        /\ Cardinality(Preceding(u)) <= Cardinality(Preceding(u)')
    BY <1>1, RowsFinite
  <1> QED
    BY <1>2 DEF Rank

LEMMA RankShrinks ==
    ASSUME NEW u, Preceding(u)' \subseteq Preceding(u)
    PROVE  Rank(u)' <= Rank(u) /\ Rank(u) \in Int /\ Rank(u)' \in Int
  <1>1. Preceding(u) \in SUBSET Ids /\ Preceding(u)' \in SUBSET Ids
    BY DEF Preceding, Live
  <1>2. /\ Cardinality(Preceding(u)) \in Nat /\ Cardinality(Preceding(u)') \in Nat
        /\ Cardinality(Preceding(u)') <= Cardinality(Preceding(u))
    BY <1>1, RowsFinite
  <1> QED
    BY <1>2 DEF Rank

LEMMA MissedInit ==
    ASSUME Init, \A p \in AskedPages : p <= 1
    PROVE  NothingMissedSoFar
  <1>1. TypeOK
    BY TypeInit
  <1>2. /\ since = [present |-> Live, moved |-> {}, removed |-> FALSE, gap |-> FALSE]
        /\ reader.at = "count"
    BY DEF Init
  <1>3. Current.page = 1
    BY BoundsAssumption DEF Init, Current, bindPage
  <1>4. Skipped(Current) = 0
    BY <1>1, <1>3, CurrentAskable, PageExtent
  <1>5. \A u \in Live : Skipped(Current) < Rank(u)
    BY <1>1, <1>4, RankBounds
  <1> QED
    BY <1>2, <1>5 DEF NothingMissedSoFar

(* A row may only move behind the reader. *)
LEMMA MissedInsertTouch ==
    ASSUME TypeOK, NothingMissedSoFar, Insert \/ Touch
    PROVE  NothingMissedSoFar'
  <1>1. PICK w \in Ids :
           /\ since' = Moved(w) /\ reader' = reader
           /\ Live \subseteq Live'
           /\ \A u \in Live \ {w} : /\ Settled(u)' => Settled(u)
                                   /\ Preceding(u) \subseteq Preceding(u)'
    <2>1. CASE Insert
      BY <2>1, InsertStep
    <2>2. CASE Touch
      <3>1. PICK w \in Ids : since' = Moved(w)
              /\ \A u \in Live \ {w} : Preceding(u) \subseteq Preceding(u)'
        BY <2>2, TouchStep
      <3>2. Live' = Live /\ reader' = reader /\ \A u : Settled(u)
        BY <2>2, TouchStep DEF Live, Settled
      <3> QED
        BY <3>1, <3>2
    <2> QED
      BY <2>1, <2>2
  <1>2. /\ since'.present = since.present /\ since'.moved = since.moved \cup {w}
        /\ since'.removed = since.removed
        /\ since'.gap <=> since.gap \/ reader.at = "find"
    BY <1>1, MovedShape
  <1> SUFFICES ASSUME ~ since.removed
               PROVE  NothingMissedSoFar'
    BY <1>2 DEF NothingMissedSoFar
  <1>3. since'.present \ since'.moved \subseteq (since.present \ since.moved) \ {w}
    BY <1>2
  <1>4. since.present \ since.moved \subseteq Live
    BY DEF NothingMissedSoFar
  <1>5. Current' = Current
    BY <1>1 DEF Current
  <1>6. ASSUME NEW u \in since'.present \ since'.moved, Settled(u)'
        PROVE  /\ reader'.at # "done" /\ reader'.shown[u] = 0 => Skipped(Current') < Rank(u)'
               /\ /\ reader'.at = "done"
                  /\ reader'.until = "total" => ~ since'.gap
                  => reader'.shown[u] > 0
    <2>1. u \in Live \ {w} /\ u \in since.present \ since.moved
      BY <1>3, <1>4
    <2>2. Settled(u) /\ Preceding(u) \subseteq Preceding(u)'
      BY <1>1, <1>6, <2>1
    <2>3. Rank(u) <= Rank(u)' /\ Rank(u) \in Int /\ Rank(u)' \in Int
      BY <2>2, RankGrows
    <2>4. Skipped(Current) \in Int
      BY CurrentAskable, PageExtent
    <2>5. /\ reader.at # "done" /\ reader.shown[u] = 0 => Skipped(Current) < Rank(u)
          /\ reader.at = "done" /\ (reader.until = "total" => ~ since.gap)
             => reader.shown[u] > 0
      BY <2>1, <2>2 DEF NothingMissedSoFar
    <2>6. Skipped(Current') = Skipped(Current)
      BY <1>5
    <2>7. reader.at # "done" /\ reader.shown[u] = 0 => Skipped(Current') < Rank(u)'
      BY <2>3, <2>4, <2>5, <2>6
    <2> QED
      BY <1>1, <1>2, <2>5, <2>7
  <1>7. ~ (reader'.at = "find" /\ ~ since'.gap)
    BY <1>1, <1>2
  <1>8. since'.present \ since'.moved \subseteq Live'
    BY <1>1, <1>3, <1>4
  <1> QED
    BY <1>6, <1>7, <1>8 DEF NothingMissedSoFar

LEMMA MissedCount ==
    ASSUME TypeOK, NothingMissedSoFar, Count
    PROVE  NothingMissedSoFar'
  <1>1. Live' = Live /\ \A u : Rank(u)' = Rank(u) /\ (Settled(u)' <=> Settled(u))
    BY CountStep, SameRows
  <1>2. Current' = Current
    BY CountStep DEF Current
  <1>3. Skipped(Current') = Skipped(Current)
    BY <1>2
  <1> QED
    BY <1>1, <1>3, CountStep DEF NothingMissedSoFar

(* Who has read the last page has come to the end of the rows. *)
LEMMA MissedFind ==
    ASSUME TypeOK, NothingMissedSoFar, Find
    PROVE  NothingMissedSoFar'
  <1>1. Live' = Live /\ \A u : Rank(u)' = Rank(u) /\ (Settled(u)' <=> Settled(u))
    BY FindStep, SameRows
  <1> SUFFICES ASSUME ~ since.removed
               PROVE  NothingMissedSoFar'
    BY FindStep DEF NothingMissedSoFar
  <1>2. since' = since /\ reader.at = "find" /\ reader'.at \in {"count", "done"}
    BY FindStep
  <1>3. since.present \ since.moved \subseteq Live
    BY DEF NothingMissedSoFar
  <1>4. ASSUME NEW u \in since.present \ since.moved, Settled(u)
        PROVE  /\ reader'.at # "done" /\ reader'.shown[u] = 0 => Skipped(Current') < Rank(u)
               /\ /\ reader'.at = "done"
                  /\ reader.until = "total" => ~ since.gap
                  => reader'.shown[u] > 0
    <2>1. u \in Live /\ u \in Ids
      BY <1>3 DEF Live
    <2>2. Rank(u) \in Int /\ Rank(u) <= Cardinality(Live) /\ Cardinality(Live) \in Int
      BY <2>1, RankBounds, LiveFinite
    <2>3. reader.shown[u] \in Nat /\ reader'.shown[u] \in Nat /\ reader.total \in Int
          /\ reader.until \in {"short", "total"}
      BY <2>1, FindStep DEF TypeOK, Readers
    <2>4. reader.shown[u] = 0 => Skipped(Current) < Rank(u)
      BY <1>2, <1>4 DEF NothingMissedSoFar
    <2>5. reader'.shown[u] = 0 => Covered(Current) < Rank(u)
      <3>1. /\ Skipped(Current) \in Int /\ Covered(Current) \in Int
            /\ Skipped(Current) < Rank(u) /\ Rank(u) <= Covered(Current) =>
                  reader'.shown[u] = reader.shown[u] + 1
            /\ ~ (Skipped(Current) < Rank(u) /\ Rank(u) <= Covered(Current)) =>
                  reader'.shown[u] = reader.shown[u]
        BY <1>4, <2>1, FindStep
      <3> QED
        BY <3>1, <2>2, <2>3, <2>4
    <2>6. Skipped(Current') = Covered(Current) /\ Covered(Current) \in Int
      BY FindStep
    <2>7. ASSUME reader'.at = "done", reader.until = "total" => ~ since.gap
          PROVE  Cardinality(Live) <= Covered(Current)
      <3>1. CASE reader.until = "short"
        BY <2>2, <2>6, <2>7, <3>1, FindStep
      <3>2. CASE reader.until = "total"
        <4>1. reader.total = Cardinality(Live)
          BY <1>2, <2>7, <3>2 DEF NothingMissedSoFar
        <4> QED
          BY <2>7, <3>2, <4>1, FindStep
      <3> QED
        BY <2>3, <3>1, <3>2
    <2>8. ASSUME reader'.at = "done", reader.until = "total" => ~ since.gap
          PROVE  reader'.shown[u] > 0
      <3>1. Rank(u) <= Covered(Current)
        BY <2>2, <2>6, <2>7, <2>8
      <3> QED
        BY <2>2, <2>3, <2>5, <2>6, <3>1
    <2>9. reader'.shown[u] = 0 => Skipped(Current') < Rank(u)
      BY <2>5, <2>6
    <2> QED
      BY <2>8, <2>9
  <1>5. reader'.until = reader.until
    BY FindStep
  <1>6. \A u \in since'.present \ since'.moved : Settled(u)' =>
           /\ reader'.at # "done" /\ reader'.shown[u] = 0 => Skipped(Current') < Rank(u)'
           /\ reader'.at = "done" /\ (reader'.until = "total" => ~ since'.gap)
              => reader'.shown[u] > 0
    BY <1>1, <1>2, <1>4, <1>5
  <1> QED
    BY <1>1, <1>2, <1>3, <1>6 DEF NothingMissedSoFar

LEMMA MissedStep ==
    ASSUME TypeOK, NothingMissedSoFar, [Next]_vars
    PROVE  NothingMissedSoFar'
  <1>1. CASE Withdraw
    <2>1. since'.removed
      BY <1>1, WithdrawStep DEF TypeOK, Pasts
    <2> QED
      BY <2>1 DEF NothingMissedSoFar
  <1>2. CASE Tick \/ Finished \/ UNCHANGED vars
    <2>1. UNCHANGED <<listing, state, stamp, reader, since>>
      BY <1>2 DEF Tick, Finished, vars
    <2>2. Live' = Live /\ \A u : Rank(u)' = Rank(u) /\ (Settled(u)' <=> Settled(u))
      BY <2>1, SameRows
    <2>3. Skipped(Current') = Skipped(Current)
      BY <2>1 DEF Current
    <2> QED
      BY <2>1, <2>2, <2>3 DEF NothingMissedSoFar
  <1> QED
    BY <1>1, <1>2, MissedInsertTouch, MissedCount, MissedFind DEF Next

(* A client that begins with the first page and reads to the end has been   *)
(* shown every row that was there all the time and did not move, as long as  *)
(* nothing was removed and, if it goes by the total, nothing moved between   *)
(* the last count and the last fetch: for every number of rows, every page  *)
(* size and every interleaving of writers (List, ListAudits, bindPage).      *)
THEOREM ReadingMissesNothing ==
    ASSUME \A p \in AskedPages : p <= 1
    PROVE  Spec => []NothingMissed
  <1>1. Init => NothingMissedSoFar
    BY MissedInit
  <1>2. TypeOK /\ NothingMissedSoFar /\ [Next]_vars => NothingMissedSoFar'
    BY MissedStep
  <1>3. NothingMissedSoFar => NothingMissed
    BY DEF NothingMissedSoFar, NothingMissed
  <1> QED
    BY <1>1, <1>2, <1>3, TypeCorrect, PTL DEF Spec

----------------------------------------------------------------------------
(* Nothing is repeated *)

LEMMA RepeatedStep ==
    ASSUME TypeOK, NothingRepeatedSoFar, [Next]_vars
    PROVE  NothingRepeatedSoFar'
  <1>1. CASE Insert \/ Touch
    <2>1. \E w \in Ids : since' = Moved(w)
      BY <1>1, InsertStep, TouchStep
    <2>2. since'.moved # {}
      BY <2>1, MovedShape
    <2> QED
      BY <2>2 DEF NothingRepeatedSoFar
  <1>2. CASE Withdraw
    <2>1. since'.moved = since.moved /\ reader' = reader /\ Live' \subseteq Live
      BY <1>2, WithdrawStep DEF TypeOK, Pasts
    <2>2. \A u : Settled(u)
      BY <1>2, WithdrawStep DEF Settled
    <2>3. \A u \in Live' : Rank(u)' <= Rank(u) /\ Rank(u) \in Int /\ Rank(u)' \in Int
      BY <1>2, WithdrawStep, RankShrinks
    <2>4. Skipped(Current') = Skipped(Current) /\ Skipped(Current) \in Int
      BY <2>1, CurrentAskable, PageExtent DEF Current
    <2>5. ASSUME since.moved = {}, NEW u \in Live'
          PROVE  /\ reader'.shown[u] <= 1
                 /\ reader'.shown[u] > 0 => Rank(u)' <= Skipped(Current')
      <3>1. /\ reader.shown[u] <= 1
            /\ reader.shown[u] > 0 => Rank(u) <= Skipped(Current)
        BY <2>1, <2>2, <2>5 DEF NothingRepeatedSoFar
      <3> QED
        BY <2>1, <2>3, <2>4, <3>1
    <2> QED
      BY <2>1, <2>5 DEF NothingRepeatedSoFar
  <1>3. CASE Find
    <2>1. Live' = Live /\ \A u : Rank(u)' = Rank(u) /\ (Settled(u)' <=> Settled(u))
      BY <1>3, FindStep, SameRows
    <2>2. ASSUME since.moved = {}, NEW u \in Live, Settled(u)
          PROVE  /\ reader'.shown[u] <= 1
                 /\ reader'.shown[u] > 0 => Rank(u) <= Skipped(Current')
      <3>1. /\ reader.shown[u] <= 1
            /\ reader.shown[u] > 0 => Rank(u) <= Skipped(Current)
        BY <2>2 DEF NothingRepeatedSoFar
      <3>2. reader.shown[u] \in Nat /\ Rank(u) \in Int
        BY RankBounds DEF TypeOK, Readers, Live
      <3>3. /\ Skipped(Current') = Covered(Current)
            /\ Skipped(Current) \in Int /\ Covered(Current) \in Int
            /\ Skipped(Current) <= Covered(Current)
            /\ Skipped(Current) < Rank(u) /\ Rank(u) <= Covered(Current) =>
                  reader'.shown[u] = reader.shown[u] + 1
            /\ ~ (Skipped(Current) < Rank(u) /\ Rank(u) <= Covered(Current)) =>
                  reader'.shown[u] = reader.shown[u]
        BY <1>3, <2>2, FindStep
      <3>4. CASE Skipped(Current) < Rank(u) /\ Rank(u) <= Covered(Current)
        BY <3>1, <3>2, <3>3, <3>4
      <3>5. CASE ~ (Skipped(Current) < Rank(u) /\ Rank(u) <= Covered(Current))
        BY <3>1, <3>2, <3>3, <3>5
      <3> QED
        BY <3>4, <3>5
    <2>3. since' = since
      BY <1>3, FindStep
    <2> QED
      BY <2>1, <2>2, <2>3 DEF NothingRepeatedSoFar
  <1>4. CASE Count \/ Tick \/ Finished \/ UNCHANGED vars
    <2>1. UNCHANGED <<listing, state, stamp>> /\ since'.moved = since.moved
          /\ reader'.shown = reader.shown /\ reader'.asked = reader.asked
      BY <1>4, CountStep DEF Tick, Finished, vars
    <2>2. Live' = Live /\ \A u : Rank(u)' = Rank(u) /\ (Settled(u)' <=> Settled(u))
      BY <2>1, SameRows
    <2>3. Skipped(Current') = Skipped(Current)
      BY <2>1 DEF Current
    <2> QED
      BY <2>1, <2>2, <2>3 DEF NothingRepeatedSoFar
  <1> QED
    BY <1>1, <1>2, <1>3, <1>4 DEF Next

(* No row is shown twice as long as none is inserted or touched, wherever   *)
(* the client begins: removals only pull rows forward, to pages already read *)
(* (List, ListAudits).                                                       *)
THEOREM ReadingRepeatsNothing == Spec => []NothingRepeated
  <1>1. Init => NothingRepeatedSoFar
    BY DEF Init, NothingRepeatedSoFar, Live
  <1>2. TypeOK /\ NothingRepeatedSoFar /\ [Next]_vars => NothingRepeatedSoFar'
    BY RepeatedStep
  <1>3. NothingRepeatedSoFar => NothingRepeated
    BY DEF NothingRepeatedSoFar, NothingRepeated
  <1> QED
    BY <1>1, <1>2, <1>3, TypeCorrect, PTL DEF Spec
============================================================================
