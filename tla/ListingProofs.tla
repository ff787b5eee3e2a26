--------------------------- MODULE ListingProofs ---------------------------
(* Theorems about Listing, for every set of rows, page size and number of    *)
(* status changes: what a walk through the pages has missed or repeated is   *)
(* accounted for by the rows that changed sides while it went on.            *)
EXTENDS Listing, FiniteSetTheorems, TLAPS

\* The place of r among the rows M.
PlaceIn(M, r) == Cardinality({x \in M : x <= r})

\* Of the rows S among M, those a client that was shown D has passed by when
\* it asks from offset o on; the rows of D that it will be shown again.
Passed(M, S, D, o) == {r \in S \ D : PlaceIn(M, r) <= o}
Ahead(M, D, o) == {r \in M \intersect D : PlaceIn(M, r) > o}

\* Every row passed by is paid for by one that left, every surplus delivery
\* there was (k) or will be by one that joined.
Fair(D, o, k) ==
  /\ Cardinality(Passed(matching, standing, D, o)) <= left
  /\ k + Cardinality(Ahead(matching, D, o)) <= joined

\* Between its two statements a page may still fail, or be answered.
IInv ==
  /\ ListingTypeOK
  /\ IsFiniteSet(table)
  /\ left + joined + changes <= MaxChanges + Cardinality(table)
  /\ walk = "before" =>
       /\ left = 0 /\ joined = 0 /\ repeated = 0
       /\ seen = {} /\ items = {} /\ standing = {} /\ page = 1
  /\ walk \in {"select", "count"} => Fair(seen, Offset(page), repeated)
  /\ walk = "select" => items = {}
  /\ walk = "count" =>
       Fair(seen \union items, Offset(page) + PageSize,
            repeated + Cardinality(items \intersect seen))
  /\ WalkAccounted

-----------------------------------------------------------------------------
(* Places.                                                                  *)

LEMMA PlaceBounds ==
  ASSUME NEW M, IsFiniteSet(M), M \subseteq Int, NEW r \in Int
  PROVE  /\ IsFiniteSet({x \in M : x <= r})
         /\ PlaceIn(M, r) \in Nat
         /\ Cardinality(M) \in Nat /\ PlaceIn(M, r) <= Cardinality(M)
         /\ r \in M => PlaceIn(M, r) >= 1
<1> DEFINE below == {x \in M : x <= r}
<1>1. below \in SUBSET M
  OBVIOUS
<1>2. r \in M => r \in below
  OBVIOUS
<1> HIDE DEF below
<1>3. IsFiniteSet(below) /\ Cardinality(below) <= Cardinality(M)
  BY <1>1, FS_Subset
<1>4. Cardinality(below) \in Nat /\ Cardinality(M) \in Nat
  BY <1>3, FS_CardinalityType
<1>5. r \in M => Cardinality(below) # 0
  BY <1>2, <1>3, FS_EmptySet
<1> QED
  BY <1>3, <1>4, <1>5 DEF PlaceIn, below

\* One more row moves the rows from it on by one place.
LEMMA PlaceMoves ==
  ASSUME NEW M, IsFiniteSet(M), M \subseteq Int, NEW x \in Int, x \notin M, NEW r \in Int
  PROVE  PlaceIn(M \union {x}, r) = IF x <= r THEN PlaceIn(M, r) + 1 ELSE PlaceIn(M, r)
<1> DEFINE old == {y \in M : y <= r}
           new == {y \in M \union {x} : y <= r}
<1>1. IsFiniteSet(old) /\ x \notin old
  BY PlaceBounds
<1>2. CASE x <= r
  <2>1. new = old \union {x}
    BY <1>2
  <2> HIDE DEF old, new
  <2>2. Cardinality(new) = Cardinality(old) + 1
    BY <1>1, <2>1, FS_AddElement
  <2> QED
    BY <1>2, <2>2 DEF PlaceIn, old, new
<1>3. CASE ~(x <= r)
  <2>1. new = old
    BY <1>3
  <2> QED
    BY <1>3, <2>1 DEF PlaceIn
<1> QED
  BY <1>2, <1>3

\* Two rows have two places, in their order.
LEMMA PlacesDiffer ==
  ASSUME NEW M, IsFiniteSet(M), M \subseteq Int,
         NEW r \in Int, NEW s \in Int, r \in M, s \in M, r < s
  PROVE  PlaceIn(M, r) < PlaceIn(M, s)
<1> DEFINE low == {x \in M : x <= r}
           high == {x \in M : x <= s}
<1>0. ~(s <= r) /\ s <= s /\ \A x \in Int : x <= r => x <= s
  OBVIOUS
<1>1. IsFiniteSet(low) /\ IsFiniteSet(high) /\ s \notin low
  BY <1>0, PlaceBounds, Zenon
<1>2. low \union {s} \in SUBSET high
  <2>1. \A x \in low \union {s} : x \in high
    BY <1>0, Zenon
  <2> QED
    BY <2>1, Zenon
<1> HIDE DEF low, high
<1>3. Cardinality(low \union {s}) = Cardinality(low) + 1
  BY <1>1, FS_AddElement
<1>4. Cardinality(low \union {s}) <= Cardinality(high)
  BY <1>1, <1>2, FS_Subset
<1>5. Cardinality(low) \in Nat /\ Cardinality(high) \in Nat
  BY <1>1, FS_CardinalityType
<1>6. Cardinality(low) < Cardinality(high)
  BY <1>3, <1>4, <1>5
<1> QED
  BY <1>6 DEF PlaceIn, low, high

LEMMA SamePlace ==
  ASSUME NEW M, IsFiniteSet(M), M \subseteq Int, NEW r \in M, NEW s \in M,
         PlaceIn(M, r) = PlaceIn(M, s)
  PROVE  r = s
<1>1. r \in Int /\ s \in Int
  OBVIOUS
<1>2. PlaceIn(M, r) \in Nat /\ PlaceIn(M, s) \in Nat
  BY <1>1, PlaceBounds
<1> DEFINE i == PlaceIn(M, r)
           j == PlaceIn(M, s)
<1>3. ~(i < j) /\ ~(j < i)
  BY <1>2
<1>4. ~(r < s) /\ ~(s < r)
  BY <1>1, <1>3, PlacesDiffer, Zenon
<1> QED
  BY <1>1, <1>4

\* A window of n places holds at most n rows.
LEMMA WindowSize ==
  ASSUME NEW M, IsFiniteSet(M), M \subseteq Int, NEW o \in Int, NEW n \in Nat
  PROVE  Cardinality({r \in M : PlaceIn(M, r) \in o + 1 .. o + n}) <= n
<1> DEFINE W == {r \in M : PlaceIn(M, r) \in o + 1 .. o + n}
           places == o + 1 .. o + n
           f == [r \in W |-> PlaceIn(M, r)]
<1>1. f \in Injection(W, places)
  <2>1. f \in [W -> places]
    OBVIOUS
  <2>2. \A r, s \in W : f[r] = f[s] => r = s
    BY SamePlace
  <2> QED
    BY <2>1, <2>2 DEF Injection, IsInjective
<1>2. IsFiniteSet(places) /\ Cardinality(places) = n
  <2>1. o + 1 \in Int /\ o + n \in Int
    OBVIOUS
  <2>2. IsFiniteSet(places)
        /\ Cardinality(places) = IF o + 1 > o + n THEN 0 ELSE (o + n) - (o + 1) + 1
    BY <2>1, FS_Interval
  <2> QED
    BY <2>2
<1>3. Cardinality(W) <= Cardinality(places)
  <2> HIDE DEF f, W, places
  <2> QED
    BY <1>1, <1>2, FS_Injection
<1> QED
  BY <1>2, <1>3

\* A set that has gained at most one element.
LEMMA OneMore ==
  ASSUME NEW A, IsFiniteSet(A), NEW B, \A a, b \in B \ A : a = b
  PROVE  Cardinality(B) \in Nat /\ Cardinality(A) \in Nat
         /\ Cardinality(B) <= Cardinality(A) + 1
<1>1. PICK x : B \in SUBSET (A \union {x})
  <2>1. CASE B \ A = {}
    BY <2>1
  <2>2. CASE B \ A # {}
    BY <2>2
  <2> QED
    BY <2>1, <2>2
<1>2. IsFiniteSet(A \union {x}) /\ Cardinality(A \union {x}) <= Cardinality(A) + 1
  BY FS_AddElement, FS_CardinalityType
<1>3. IsFiniteSet(B) /\ Cardinality(B) <= Cardinality(A \union {x})
  BY <1>1, <1>2, FS_Subset
<1>4. Cardinality(A) \in Nat /\ Cardinality(B) \in Nat /\ Cardinality(A \union {x}) \in Nat
  BY <1>2, <1>3, FS_CardinalityType
<1> QED
  BY <1>2, <1>3, <1>4

LEMMA NoMore ==
  ASSUME NEW A, IsFiniteSet(A), NEW B, B \subseteq A
  PROVE  Cardinality(B) \in Nat /\ Cardinality(A) \in Nat
         /\ Cardinality(B) <= Cardinality(A)
<1>1. B \in SUBSET A
  OBVIOUS
<1> QED
  BY <1>1, FS_Subset, FS_CardinalityType

-----------------------------------------------------------------------------
(* A row changes sides while a client walks.                                *)

LEMMA Countable ==
  ASSUME NEW M, IsFiniteSet(M), NEW S, S \subseteq M, NEW D, NEW o
  PROVE  IsFiniteSet(Passed(M, S, D, o)) /\ IsFiniteSet(Ahead(M, D, o))
<1>1. Passed(M, S, D, o) \in SUBSET M /\ Ahead(M, D, o) \in SUBSET M
  BY DEF Passed, Ahead
<1> QED
  BY <1>1, FS_Subset

\* A row leaves: the rows after it move up, one of them past the offset.
LEMMA RowLeaves ==
  ASSUME NEW M, IsFiniteSet(M), M \subseteq Int, NEW S, S \subseteq M,
         NEW D, NEW o \in Int, NEW x \in M
  PROVE  /\ Cardinality(Passed(M \ {x}, S \ {x}, D, o)) <= Cardinality(Passed(M, S, D, o)) + 1
         /\ Cardinality(Ahead(M \ {x}, D, o)) <= Cardinality(Ahead(M, D, o))
<1> DEFINE N == M \ {x}
<1>1. IsFiniteSet(N) /\ N \subseteq Int /\ x \notin N /\ N \union {x} = M /\ x \in Int
  BY FS_RemoveElement
<1>2. IsFiniteSet(Passed(M, S, D, o)) /\ IsFiniteSet(Ahead(M, D, o))
  BY Countable
<1> HIDE DEF N
<1>3. ASSUME NEW r \in N
      PROVE  /\ PlaceIn(M, r) = IF x <= r THEN PlaceIn(N, r) + 1 ELSE PlaceIn(N, r)
             /\ PlaceIn(M, r) \in Nat /\ PlaceIn(N, r) \in Nat
  <2>1. r \in Int
    BY <1>1
  <2>2. PlaceIn(N \union {x}, r) = IF x <= r THEN PlaceIn(N, r) + 1 ELSE PlaceIn(N, r)
    BY <1>1, <2>1, PlaceMoves
  <2>3. PlaceIn(M, r) \in Nat /\ PlaceIn(N, r) \in Nat
    BY <1>1, <2>1, PlaceBounds
  <2> QED
    BY <1>1, <2>2, <2>3
<1>4. ASSUME NEW a \in Passed(N, S \ {x}, D, o) \ Passed(M, S, D, o),
             NEW b \in Passed(N, S \ {x}, D, o) \ Passed(M, S, D, o)
      PROVE  a = b
  <2>1. a \in N /\ b \in N /\ a \in M /\ b \in M
    BY DEF Passed, N
  <2>2. PlaceIn(M, a) = o + 1 /\ PlaceIn(M, b) = o + 1
    BY <1>3, <2>1 DEF Passed
  <2> QED
    BY <2>1, <2>2, SamePlace
<1>5. Cardinality(Passed(N, S \ {x}, D, o)) <= Cardinality(Passed(M, S, D, o)) + 1
  BY <1>2, <1>4, OneMore
<1>6. Ahead(N, D, o) \subseteq Ahead(M, D, o)
  <2> SUFFICES ASSUME NEW a \in Ahead(N, D, o) PROVE a \in Ahead(M, D, o)
    OBVIOUS
  <2>1. a \in N /\ a \in M
    BY <1>1 DEF Ahead
  <2> QED
    BY <1>3, <2>1 DEF Ahead
<1> QED
  BY <1>2, <1>5, <1>6, NoMore DEF N

\* A row joins: it is ahead itself, or moves one of those after it there.
LEMMA RowJoins ==
  ASSUME NEW M, IsFiniteSet(M), M \subseteq Int, NEW S, S \subseteq M,
         NEW D, NEW o \in Int, NEW x \in Int, x \notin M
  PROVE  /\ Cardinality(Passed(M \union {x}, S, D, o)) <= Cardinality(Passed(M, S, D, o))
         /\ Cardinality(Ahead(M \union {x}, D, o)) <= Cardinality(Ahead(M, D, o)) + 1
<1> DEFINE N == M \union {x}
<1>1. IsFiniteSet(N) /\ N \subseteq Int
  BY FS_AddElement
<1>2. IsFiniteSet(Passed(M, S, D, o)) /\ IsFiniteSet(Ahead(M, D, o))
  BY Countable
<1>3. ASSUME NEW r \in M
      PROVE  /\ PlaceIn(N, r) = IF x <= r THEN PlaceIn(M, r) + 1 ELSE PlaceIn(M, r)
             /\ PlaceIn(M, r) \in Nat /\ PlaceIn(N, r) \in Nat
  <2>1. r \in Int
    OBVIOUS
  <2> HIDE DEF N
  <2>2. PlaceIn(M, r) \in Nat /\ PlaceIn(N, r) \in Nat
    BY <1>1, <2>1, PlaceBounds
  <2> QED
    BY <2>1, <2>2, PlaceMoves DEF N
<1>4. Passed(N, S, D, o) \subseteq Passed(M, S, D, o)
  <2> SUFFICES ASSUME NEW a \in Passed(N, S, D, o) PROVE a \in Passed(M, S, D, o)
    OBVIOUS
  <2>1. a \in M
    BY DEF Passed
  <2> QED
    BY <1>3, <2>1 DEF Passed
<1>5. ASSUME NEW a \in Ahead(N, D, o) \ Ahead(M, D, o), a # x
      PROVE  a \in M /\ x < a /\ PlaceIn(N, a) = o + 1
  <2>1. a \in M
    BY <1>5 DEF Ahead
  <2> QED
    BY <1>3, <1>5, <2>1 DEF Ahead
<1>6. ASSUME NEW a \in Ahead(N, D, o) \ Ahead(M, D, o), a # x
      PROVE  x \notin Ahead(N, D, o)
  <2>1. PlaceIn(N, x) < PlaceIn(N, a)
    BY <1>1, <1>5, <1>6, PlacesDiffer
  <2>2. PlaceIn(N, x) \in Nat /\ PlaceIn(N, a) = o + 1
    BY <1>1, <1>5, <1>6, PlaceBounds
  <2> QED
    BY <2>1, <2>2 DEF Ahead
<1>7. ASSUME NEW a \in Ahead(N, D, o) \ Ahead(M, D, o),
             NEW b \in Ahead(N, D, o) \ Ahead(M, D, o)
      PROVE  a = b
  <2>1. CASE a = x \/ b = x
    BY <1>6, <2>1
  <2>2. CASE a # x /\ b # x
    <3>1. a \in N /\ b \in N /\ PlaceIn(N, a) = PlaceIn(N, b)
      BY <1>5, <2>2
    <3> HIDE DEF N
    <3> QED
      BY <1>1, <3>1, SamePlace
  <2> QED
    BY <2>1, <2>2
<1> HIDE DEF N
<1>8. Cardinality(Ahead(N, D, o)) <= Cardinality(Ahead(M, D, o)) + 1
  BY <1>2, <1>7, OneMore
<1>9. Cardinality(Passed(N, S, D, o)) <= Cardinality(Passed(M, S, D, o))
  BY <1>2, <1>4, NoMore
<1> QED
  BY <1>8, <1>9 DEF N

-----------------------------------------------------------------------------
(* The table and the offsets.                                               *)

LEMMA Tables ==
  ASSUME ListingTypeOK, IsFiniteSet(table)
  PROVE  /\ IsFiniteSet(matching) /\ matching \subseteq Int
         /\ IsFiniteSet(standing) /\ standing \subseteq matching
         /\ IsFiniteSet(items) /\ IsFiniteSet(seen)
         /\ Cardinality(table) \in Nat
         /\ table \subseteq Int
<1>1. /\ matching \in SUBSET table /\ items \in SUBSET table /\ seen \in SUBSET table
      /\ standing \in SUBSET table /\ standing \subseteq matching
  BY DEF ListingTypeOK
<1>2. table \subseteq Int
  BY ListingAssumption DEF ListingTypeOK
<1> QED
  BY <1>1, <1>2, FS_Subset, FS_CardinalityType

LEMMA Offsets ==
  ASSUME NEW n \in Nat \ {0}
  PROVE  /\ Offset(n) \in Int
         /\ Offset(n) + PageSize = Offset(n + 1)
         /\ Offset(n) + PageSize = n * PageSize
         /\ Offset(n) + PageSize \in Int
         /\ Offset(1) = 0
BY ListingAssumption DEF Offset

\* Without a next page the pages so far have room for every row.
LEMMA PagesCover ==
  ASSUME NEW total \in Nat, NEW n \in Nat \ {0}, ~(n < TotalPages(total))
  PROVE  total <= n * PageSize
<1>1. PICK p \in Nat \ {0} : p = PageSize
  BY ListingAssumption
<1>2. PICK a \in Nat : a = total + p - 1
  OBVIOUS
<1>3. PICK d \in Int : d = a \div p
  OBVIOUS
<1>4. a < p * d + p
  BY <1>3
<1>5. d <= n
  BY <1>1, <1>2, <1>3 DEF TotalPages
<1>6. p * d <= p * n
  BY <1>5
<1>7. total <= p * n
  BY <1>2, <1>4, <1>6
<1> QED
  BY <1>1, <1>7

-----------------------------------------------------------------------------
(* A row leaves or joins: what the client holds stays paid for.             *)

FairKept == \A D : \A o \in Int, k \in Nat : Fair(D, o, k) => Fair(D, o, k)'

LEMMA LeavingPaid ==
  ASSUME ListingTypeOK, IsFiniteSet(table), NEW r \in matching,
         matching' = matching \ {r}, standing' = standing \ {r},
         left' = left + 1, joined' = joined
  PROVE  FairKept
<1> SUFFICES ASSUME NEW D, NEW o \in Int, NEW k \in Nat, Fair(D, o, k)
             PROVE  Fair(D, o, k)'
  BY DEF FairKept
<1> DEFINE oldP == Passed(matching, standing, D, o)
           oldA == Ahead(matching, D, o)
           newP == Passed(matching \ {r}, standing \ {r}, D, o)
           newA == Ahead(matching \ {r}, D, o)
<1>1. Cardinality(newP) <= Cardinality(oldP) + 1 /\ Cardinality(newA) <= Cardinality(oldA)
  BY Tables, RowLeaves
<1>2. /\ Cardinality(oldP) \in Nat /\ Cardinality(oldA) \in Nat
      /\ Cardinality(newP) \in Nat /\ Cardinality(newA) \in Nat
  <2>1. IsFiniteSet(oldP) /\ IsFiniteSet(oldA)
    BY Tables, Countable
  <2>2. IsFiniteSet(matching \ {r}) /\ standing \ {r} \subseteq matching \ {r}
    BY Tables, FS_RemoveElement
  <2>3. IsFiniteSet(newP) /\ IsFiniteSet(newA)
    BY <2>2, Countable
  <2> QED
    BY <2>1, <2>3, FS_CardinalityType
<1>3. Cardinality(oldP) <= left /\ k + Cardinality(oldA) <= joined
  BY DEF Fair
<1>4. left \in Nat /\ joined \in Nat
  BY DEF ListingTypeOK
<1>5. Cardinality(newP) <= left' /\ k + Cardinality(newA) <= joined'
  <2> HIDE DEF oldP, oldA, newP, newA
  <2> QED
    BY <1>1, <1>2, <1>3, <1>4
<1> QED
  BY <1>5 DEF Fair

LEMMA JoiningPaid ==
  ASSUME ListingTypeOK, IsFiniteSet(table), NEW r \in Rows, r \notin matching,
         matching' = matching \union {r}, standing' = standing,
         left' = left, joined' = joined + 1
  PROVE  FairKept
<1> SUFFICES ASSUME NEW D, NEW o \in Int, NEW k \in Nat, Fair(D, o, k)
             PROVE  Fair(D, o, k)'
  BY DEF FairKept
<1> DEFINE oldP == Passed(matching, standing, D, o)
           oldA == Ahead(matching, D, o)
           newP == Passed(matching \union {r}, standing, D, o)
           newA == Ahead(matching \union {r}, D, o)
<1>1. Cardinality(newP) <= Cardinality(oldP) /\ Cardinality(newA) <= Cardinality(oldA) + 1
  <2>1. r \in Int
    BY ListingAssumption
  <2> QED
    BY <2>1, Tables, RowJoins
<1>2. /\ Cardinality(oldP) \in Nat /\ Cardinality(oldA) \in Nat
      /\ Cardinality(newP) \in Nat /\ Cardinality(newA) \in Nat
  <2>1. IsFiniteSet(oldP) /\ IsFiniteSet(oldA)
    BY Tables, Countable
  <2>2. IsFiniteSet(matching \union {r}) /\ standing \subseteq matching \union {r}
    BY Tables, FS_AddElement
  <2>3. IsFiniteSet(newP) /\ IsFiniteSet(newA)
    BY <2>2, Countable
  <2> QED
    BY <2>1, <2>3, FS_CardinalityType
<1>3. Cardinality(oldP) <= left /\ k + Cardinality(oldA) <= joined
  BY DEF Fair
<1>4. left \in Nat /\ joined \in Nat
  BY DEF ListingTypeOK
<1>5. Cardinality(newP) <= left' /\ k + Cardinality(newA) <= joined'
  <2> HIDE DEF oldP, oldA, newP, newA
  <2> QED
    BY <1>1, <1>2, <1>3, <1>4
<1> QED
  BY <1>5 DEF Fair

\* While another request writes, a walk keeps its place and what it was shown.
LEMMA WritesKeep ==
  ASSUME IInv, walk # "over", ListingTypeOK', IsFiniteSet(table)',
         left' + joined' + changes' <= MaxChanges + Cardinality(table'),
         walk = "before" => left' = 0 /\ joined' = 0 /\ standing' = {},
         Walking => FairKept,
         UNCHANGED <<walk, page, items, seen, repeated>>
  PROVE  IInv'
<1>1. Offset(page) \in Int /\ Offset(page) + PageSize \in Int
  BY Offsets DEF IInv, ListingTypeOK
<1>2. repeated \in Nat /\ repeated + Cardinality(items \intersect seen) \in Nat
  <2>1. IsFiniteSet(items) /\ items \intersect seen \in SUBSET items
    BY Tables DEF IInv
  <2>2. Cardinality(items \intersect seen) \in Nat
    BY <2>1, FS_Subset, FS_CardinalityType
  <2> QED
    BY <2>2 DEF IInv, ListingTypeOK
<1>3. walk \in {"select", "count"} => Fair(seen, Offset(page), repeated)'
  <2> SUFFICES ASSUME walk \in {"select", "count"}
               PROVE  Fair(seen, Offset(page), repeated)'
    OBVIOUS
  <2>1. PICK D : D = seen
    OBVIOUS
  <2>2. PICK o \in Int, k \in Nat : o = Offset(page) /\ k = repeated
    BY <1>1, <1>2
  <2>3. Fair(D, o, k)'
    BY <2>1, <2>2 DEF IInv, FairKept, Walking
  <2> QED
    BY <2>1, <2>2, <2>3 DEF Fair, Offset
<1>4. walk = "count" =>
        Fair(seen \union items, Offset(page) + PageSize,
             repeated + Cardinality(items \intersect seen))'
  <2> SUFFICES ASSUME walk = "count"
               PROVE  Fair(seen \union items, Offset(page) + PageSize,
                           repeated + Cardinality(items \intersect seen))'
    OBVIOUS
  <2>1. PICK D : D = seen \union items
    OBVIOUS
  <2>2. PICK o \in Int, k \in Nat :
          o = Offset(page) + PageSize /\ k = repeated + Cardinality(items \intersect seen)
    BY <1>1, <1>2
  <2>3. Fair(D, o, k)'
    BY <2>1, <2>2 DEF IInv, FairKept, Walking
  <2> QED
    BY <2>1, <2>2, <2>3 DEF Fair, Offset
<1>5. WalkAccounted'
  BY DEF WalkAccounted
<1> QED
  BY <1>3, <1>4, <1>5 DEF IInv

-----------------------------------------------------------------------------
(* The steps.                                                               *)

LEMMA InsertKeeps ==
  ASSUME IInv, walk # "over", NEW r \in Rows, NEW matches \in BOOLEAN, Insert(r, matches)
  PROVE  IInv'
<1>1. ListingTypeOK /\ IsFiniteSet(table) /\ r \notin table /\ table' = table \union {r}
  BY DEF IInv, Insert
<1>2. IsFiniteSet(table') /\ Cardinality(table') = Cardinality(table) + 1
      /\ Cardinality(table) \in Nat
  BY <1>1, FS_AddElement, FS_CardinalityType
<1>3. UNCHANGED <<walk, page, items, seen, repeated, standing, left, changes>>
  BY DEF Insert
<1>4. CASE matches
  <2>1. matching' = matching \union {r} /\ joined' = joined + (IF Walking THEN 1 ELSE 0)
    BY <1>4 DEF Insert, Join
  <2>2. ListingTypeOK' /\ left' + joined' + changes' <= MaxChanges + Cardinality(table')
    <3>1. joined' \in Nat /\ joined' <= joined + 1 /\ left + joined + changes \in Nat
      BY <1>1, <2>1 DEF ListingTypeOK
    <3>2. left' + joined' + changes' <= MaxChanges + Cardinality(table')
      BY <1>1, <1>2, <1>3, <3>1, ListingAssumption DEF IInv, ListingTypeOK
    <3>3. left' + joined' <= MaxChanges + Cardinality(table')
      BY <1>1, <1>2, <1>3, <3>1, ListingAssumption DEF IInv, ListingTypeOK
    <3> QED
      BY <1>1, <1>3, <2>1, <3>1, <3>2, <3>3 DEF ListingTypeOK
  <2>3. Walking => FairKept
    <3>1. r \notin matching
      BY <1>1 DEF ListingTypeOK
    <3> QED
      BY <1>1, <1>3, <2>1, <3>1, JoiningPaid
  <2> QED
    BY <1>2, <1>3, <2>1, <2>2, <2>3, WritesKeep DEF IInv, Walking
<1>5. CASE ~matches
  <2>1. UNCHANGED <<matching, joined>>
    BY <1>5 DEF Insert
  <2>2. ListingTypeOK' /\ left' + joined' + changes' <= MaxChanges + Cardinality(table')
    <3>1. left' + joined' + changes' <= MaxChanges + Cardinality(table')
      BY <1>1, <1>2, <1>3, <2>1, ListingAssumption DEF IInv, ListingTypeOK
    <3>2. left' + joined' <= MaxChanges + Cardinality(table')
      BY <1>1, <1>2, <1>3, <2>1, ListingAssumption DEF ListingTypeOK
    <3> QED
      BY <1>1, <1>3, <2>1, <3>1, <3>2 DEF ListingTypeOK
  <2>3. FairKept
    BY <1>3, <2>1 DEF FairKept, Fair
  <2> QED
    BY <1>2, <1>3, <2>1, <2>2, <2>3, WritesKeep DEF IInv
<1> QED
  BY <1>4, <1>5

LEMMA ChangeStatusKeeps ==
  ASSUME IInv, walk # "over", NEW r \in Rows, ChangeStatus(r)
  PROVE  IInv'
<1>1. /\ ListingTypeOK /\ IsFiniteSet(table) /\ r \in table /\ table' = table
      /\ Cardinality(table) \in Nat
      /\ changes > 0 /\ changes' = changes - 1
  BY FS_CardinalityType DEF IInv, ChangeStatus
<1>2. UNCHANGED <<walk, page, items, seen, repeated>>
  BY DEF ChangeStatus
<1>3. left \in Nat /\ joined \in Nat /\ changes \in Nat /\ changes' \in 0 .. MaxChanges
      /\ MaxChanges \in Nat
      /\ left + joined + changes <= MaxChanges + Cardinality(table)
  BY <1>1, ListingAssumption DEF ListingTypeOK, IInv
<1>4. CASE r \in matching
  <2>1. /\ matching' = matching \ {r} /\ standing' = standing \ {r} /\ joined' = joined
        /\ left' = left + (IF Walking THEN 1 ELSE 0)
    BY <1>4 DEF ChangeStatus
  <2>2. /\ left' \in Nat
        /\ left' + joined' + changes' <= MaxChanges + Cardinality(table')
        /\ left' + joined' <= MaxChanges + Cardinality(table')
    BY <1>1, <1>3, <2>1
  <2>3. ListingTypeOK'
    BY <1>1, <1>2, <1>3, <2>1, <2>2 DEF ListingTypeOK
  <2>4. Walking => FairKept
    BY <1>1, <1>4, <2>1, LeavingPaid
  <2>5. walk = "before" => left' = 0 /\ joined' = 0 /\ standing' = {}
    BY <2>1 DEF IInv, Walking
  <2>6. IsFiniteSet(table)'
    BY <1>1
  <2> QED
    BY <1>2, <2>2, <2>3, <2>4, <2>5, <2>6, WritesKeep
<1>5. CASE r \notin matching
  <2>1. /\ matching' = matching \union {r} /\ joined' = joined + (IF Walking THEN 1 ELSE 0)
        /\ standing' = standing /\ left' = left
    BY <1>5 DEF ChangeStatus, Join
  <2>2. /\ joined' \in Nat
        /\ left' + joined' + changes' <= MaxChanges + Cardinality(table')
        /\ left' + joined' <= MaxChanges + Cardinality(table')
    BY <1>1, <1>3, <2>1
  <2>3. ListingTypeOK'
    BY <1>1, <1>2, <1>3, <2>1, <2>2 DEF ListingTypeOK
  <2>4. Walking => FairKept
    BY <1>1, <1>5, <2>1, JoiningPaid
  <2>5. walk = "before" => left' = 0 /\ joined' = 0 /\ standing' = {}
    BY <2>1 DEF IInv, Walking
  <2>6. IsFiniteSet(table)'
    BY <1>1
  <2> QED
    BY <1>2, <2>2, <2>3, <2>4, <2>5, <2>6, WritesKeep
<1> QED
  BY <1>4, <1>5

LEMMA StartWalkKeeps ==
  ASSUME IInv, StartWalk
  PROVE  IInv'
<1>1. /\ ListingTypeOK /\ IsFiniteSet(table) /\ walk = "before" /\ walk' = "select"
      /\ standing' = matching
      /\ UNCHANGED <<table, matching, page, items, seen, repeated, left, joined, changes>>
  BY DEF StartWalk, IInv
<1>2. left = 0 /\ joined = 0 /\ repeated = 0 /\ seen = {} /\ items = {} /\ page = 1
  BY <1>1 DEF IInv
<1>3. ListingTypeOK'
  BY <1>1 DEF ListingTypeOK
<1>4. Passed(matching, matching, {}, 0) = {} /\ Ahead(matching, {}, 0) = {}
  <2>1. ASSUME NEW r \in matching PROVE PlaceIn(matching, r) \in Nat /\ PlaceIn(matching, r) >= 1
    <3>1. r \in Int
      BY <1>1, Tables
    <3> QED
      BY <1>1, <3>1, Tables, PlaceBounds
  <2>2. Passed(matching, matching, {}, 0) = {}
    BY <2>1 DEF Passed
  <2> QED
    BY <2>2 DEF Ahead
<1>5. Fair(seen, Offset(page), repeated)'
  <2>1. Offset(1) = 0
    BY Offsets
  <2>2. Cardinality({}) = 0
    BY FS_EmptySet
  <2>3. Fair(seen, Offset(page), repeated)' <=>
          /\ Cardinality(Passed(matching, matching, {}, 0)) <= 0
          /\ 0 + Cardinality(Ahead(matching, {}, 0)) <= 0
    BY <1>1, <1>2, <2>1 DEF Fair, Offset
  <2> QED
    BY <1>4, <2>2, <2>3
<1> QED
  BY <1>1, <1>2, <1>3, <1>5 DEF IInv, WalkAccounted

\* What a SELECT finds is nothing it has passed by, and pays for what of it
\* has been shown before.
LEMMA SelectKeeps ==
  ASSUME IInv, Select
  PROVE  IInv'
<1>1. /\ ListingTypeOK /\ IsFiniteSet(table) /\ walk = "select" /\ walk' = "count"
      /\ items' = Limited(Offset(page))
      /\ UNCHANGED <<table, matching, page, seen, repeated, standing, left, joined, changes>>
  BY DEF Select, IInv
<1>0. PICK D : D = seen
  OBVIOUS
<1>2. PICK o \in Int, k \in Nat : o = Offset(page) /\ k = repeated
  BY <1>1, Offsets DEF ListingTypeOK
<1>3. PICK n \in Nat : n = PageSize
  BY ListingAssumption
<1> DEFINE found == {r \in matching : PlaceIn(matching, r) \in o + 1 .. o + n}
           oldP == Passed(matching, standing, D, o)
           oldA == Ahead(matching, D, o)
           newP == Passed(matching, standing, D \union found, o + n)
           newA == Ahead(matching, D \union found, o + n)
           again == found \intersect D
<1>4. items' = found
  BY <1>1, <1>2, <1>3 DEF Limited, Place, PlaceIn
<1>5. Cardinality(found) <= PageSize
  BY <1>1, <1>3, Tables, WindowSize
<1>6. ListingTypeOK'
  <2>1. items' \subseteq table
    BY <1>1, <1>4 DEF ListingTypeOK
  <2> QED
    BY <1>1, <1>4, <1>5, <2>1 DEF ListingTypeOK
<1>7. \A r \in matching : PlaceIn(matching, r) \in Nat
  <2> TAKE r \in matching
  <2>1. r \in Int
    BY <1>1, Tables
  <2> QED
    BY <1>1, <2>1, Tables, PlaceBounds
<1>8. IsFiniteSet(oldP) /\ IsFiniteSet(oldA) /\ IsFiniteSet(newA)
  BY <1>1, Tables, Countable
<1>9. newP \subseteq oldP
  <2> SUFFICES ASSUME NEW r \in newP PROVE r \in oldP
    OBVIOUS
  <2>1. r \in standing /\ r \in matching /\ r \notin D /\ r \notin found
        /\ PlaceIn(matching, r) <= o + n
    BY <1>1 DEF Passed, ListingTypeOK
  <2>2. PlaceIn(matching, r) <= o
    BY <1>7, <2>1
  <2> QED
    BY <2>1, <2>2 DEF Passed
<1>10. again \union newA \in SUBSET oldA /\ again \intersect newA = {}
  <2>1. ASSUME NEW r \in again PROVE r \in oldA /\ r \notin newA
    BY <1>7 DEF Ahead
  <2>2. ASSUME NEW r \in newA PROVE r \in oldA
    BY <1>7 DEF Ahead
  <2> QED
    BY <2>1, <2>2
<1>11. Cardinality(oldP) <= left /\ k + Cardinality(oldA) <= joined
  BY <1>0, <1>1, <1>2 DEF IInv, Fair
<1> HIDE DEF oldP, oldA, newP, newA, again
<1>12. IsFiniteSet(again)
  <2>1. again \in SUBSET oldA
    BY <1>10
  <2> QED
    BY <1>8, <2>1, FS_Subset
<1>13. Cardinality(newP) <= left
  BY <1>1, <1>8, <1>9, <1>11, NoMore DEF ListingTypeOK
<1>14. k + Cardinality(again) + Cardinality(newA) <= joined
  <2>1. Cardinality(again \union newA)
          = Cardinality(again) + Cardinality(newA) - Cardinality(again \intersect newA)
    BY <1>8, <1>12, FS_Union
  <2>2. Cardinality(again \intersect newA) = 0
    BY <1>10, FS_EmptySet
  <2>3. Cardinality(again \union newA) <= Cardinality(oldA)
    BY <1>8, <1>10, FS_Subset
  <2>4. /\ Cardinality(again) \in Nat /\ Cardinality(newA) \in Nat
        /\ Cardinality(oldA) \in Nat /\ joined \in Nat
    BY <1>1, <1>8, <1>12, FS_CardinalityType DEF ListingTypeOK
  <2> QED
    BY <1>11, <2>1, <2>2, <2>3, <2>4
<1>15. Fair(seen \union items, Offset(page) + PageSize,
            repeated + Cardinality(items \intersect seen))'
  BY <1>0, <1>1, <1>2, <1>3, <1>4, <1>13, <1>14 DEF Fair, Offset, newP, newA, again
<1>16. Fair(seen, Offset(page), repeated)'
  BY <1>0, <1>1, <1>2, <1>11 DEF Fair, Offset, oldP, oldA
<1> QED
  BY <1>1, <1>6, <1>15, <1>16 DEF IInv, WalkAccounted

\* An answer without a next page has reached the last row.
LEMMA CountKeeps ==
  ASSUME IInv, Count
  PROVE  IInv'
<1>1. /\ ListingTypeOK /\ IsFiniteSet(table) /\ walk = "count" /\ items' = {}
      /\ seen' = seen \union items
      /\ repeated' = repeated + Cardinality(items \intersect seen)
      /\ UNCHANGED <<table, matching, standing, left, joined, changes>>
  BY DEF Count, IInv
<1>2. Cardinality({}) = 0 /\ repeated' \in Nat
  <2>1. IsFiniteSet(items) /\ items \intersect seen \in SUBSET items
    BY <1>1, Tables
  <2>2. Cardinality(items \intersect seen) \in Nat
    BY <2>1, FS_Subset, FS_CardinalityType
  <2> QED
    BY <1>1, <2>2, FS_EmptySet DEF ListingTypeOK
<1>3. Fair(seen \union items, Offset(page) + PageSize,
           repeated + Cardinality(items \intersect seen))
  BY <1>1 DEF IInv
<1>4. page \in Nat \ {0}
  BY <1>1 DEF ListingTypeOK
<1>5. CASE HasNext(Cardinality(matching))
  <2>1. walk' = "select" /\ page' = page + 1
    BY <1>5 DEF Count
  <2>2. ListingTypeOK'
    BY <1>1, <1>2, <1>4, <2>1, ListingAssumption DEF ListingTypeOK
  <2>3. Offset(page + 1) = Offset(page) + PageSize
    BY <1>4, Offsets
  <2>4. Fair(seen, Offset(page), repeated)'
    BY <1>1, <1>3, <2>1, <2>3 DEF Fair, Offset
  <2> QED
    BY <1>1, <2>1, <2>2, <2>4 DEF IInv, WalkAccounted
<1>6. CASE ~HasNext(Cardinality(matching))
  <2>1. walk' = "over" /\ page' = page
    BY <1>6 DEF Count
  <2>2. ListingTypeOK'
    BY <1>1, <1>2, <2>1, ListingAssumption DEF ListingTypeOK
  <2> DEFINE D == seen \union items
             o == Offset(page) + PageSize
             P == Passed(matching, standing, D, o)
             A == Ahead(matching, D, o)
  <2>3. Cardinality(matching) <= o
    <3>1. Cardinality(matching) \in Nat
      BY <1>1, Tables, FS_CardinalityType
    <3> QED
      BY <1>4, <1>6, <3>1, PagesCover, Offsets DEF HasNext
  <2>4. standing \ D \subseteq P
    <3> SUFFICES ASSUME NEW r \in standing \ D PROVE PlaceIn(matching, r) <= o
      BY DEF Passed
    <3>1. r \in Int
      BY <1>1, Tables
    <3>2. /\ PlaceIn(matching, r) \in Nat /\ Cardinality(matching) \in Nat
          /\ PlaceIn(matching, r) <= Cardinality(matching)
      BY <1>1, <3>1, Tables, PlaceBounds
    <3>3. o \in Int
      BY <1>4, Offsets
    <3> HIDE DEF o
    <3> QED
      BY <2>3, <3>2, <3>3
  <2>5. IsFiniteSet(P) /\ IsFiniteSet(A)
    BY <1>1, Tables, Countable
  <2>6. Cardinality(P) <= left /\ repeated' + Cardinality(A) <= joined
    BY <1>1, <1>3 DEF Fair
  <2>7. Missed' = standing \ D
    BY <1>1 DEF Missed
  <2> HIDE DEF P, A, D
  <2>8. Cardinality(standing \ D) <= left /\ repeated' <= joined
    <3>1. left \in Nat /\ joined \in Nat /\ Cardinality(A) \in Nat
      BY <1>1, <2>5, FS_CardinalityType DEF ListingTypeOK
    <3> QED
      BY <1>2, <2>4, <2>5, <2>6, <3>1, NoMore
  <2>9. WalkAccounted'
    BY <1>1, <2>7, <2>8 DEF WalkAccounted
  <2> QED
    BY <1>1, <2>1, <2>2, <2>9 DEF IInv
<1> QED
  BY <1>5, <1>6

LEMMA RequestFailsKeeps ==
  ASSUME IInv, RequestFails
  PROVE  IInv'
<1>1. /\ ListingTypeOK /\ IsFiniteSet(table) /\ walk \in {"select", "count"}
      /\ walk' = "select" /\ items' = {}
      /\ UNCHANGED <<table, matching, page, seen, repeated, standing, left, joined, changes>>
  BY DEF RequestFails, Walking, IInv
<1>2. ListingTypeOK'
  BY <1>1, FS_EmptySet, ListingAssumption DEF ListingTypeOK
<1>3. Fair(seen, Offset(page), repeated)'
  BY <1>1 DEF IInv, Fair, Offset
<1> QED
  BY <1>1, <1>2, <1>3 DEF IInv, WalkAccounted

-----------------------------------------------------------------------------
(* The theorems.                                                            *)

LEMMA ListingStarts == ListingInit => IInv
BY FS_EmptySet, ListingAssumption DEF ListingInit, IInv, ListingTypeOK, WalkAccounted

LEMMA ListingNextKeeps ==
  ASSUME IInv, [ListingNext]_vars
  PROVE  IInv'
<1>1. CASE UNCHANGED vars
  BY <1>1 DEF vars, IInv, ListingTypeOK, Fair, Offset, WalkAccounted, Missed
<1>2. CASE StartWalk
  BY <1>2, StartWalkKeeps
<1>3. CASE Select
  BY <1>3, SelectKeeps
<1>4. CASE Count
  BY <1>4, CountKeeps
<1>5. CASE RequestFails
  BY <1>5, RequestFailsKeeps
<1>6. ASSUME NEW r \in Rows, walk # "over", NEW matches \in BOOLEAN, Insert(r, matches)
      PROVE  IInv'
  BY <1>6, InsertKeeps
<1>7. ASSUME NEW r \in Rows, walk # "over", ChangeStatus(r)
      PROVE  IInv'
  BY <1>7, ChangeStatusKeeps
<1> QED
  BY <1>1, <1>2, <1>3, <1>4, <1>5, <1>6, <1>7 DEF ListingNext

LEMMA ListingInvariant == ListingSpec => []IInv
<1>1. IInv /\ [ListingNext]_vars => IInv'
  BY ListingNextKeeps
<1> QED
  BY <1>1, ListingStarts, PTL DEF ListingSpec

\* Rows and counts stay within their domains, and a page within its size.
THEOREM ListingTypeCorrect == ListingSpec => []ListingTypeOK
<1>1. IInv => ListingTypeOK
  BY DEF IInv
<1> QED
  BY <1>1, ListingInvariant, PTL

\* A walk that is over has missed at most one row for every row that left the
\* filter meanwhile, and repeated at most one for every row that joined: for
\* tables, pages and walks of any size, pages that fail, and writes between
\* the two statements of a page.
THEOREM WalkIsAccounted == ListingSpec => []WalkAccounted
<1>1. IInv => WalkAccounted
  BY DEF IInv
<1> QED
  BY <1>1, ListingInvariant, PTL
=============================================================================
