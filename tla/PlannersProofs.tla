---------------------------- MODULE PlannersProofs ----------------------------
(***************************************************************************)
(* Lemmas about the planners and the page orders, for lists of pages of    *)
(* any length: every plan is finite, its sheets are numbers, its pages are *)
(* those of the list, and no two placements have the same slot.            *)
(***************************************************************************)
EXTENDS Planners, PageOrders, FiniteSetTheorems, SequenceTheorems, TLAPS

-----------------------------------------------------------------------------
\* Quotient and remainder.
LEMMA QuotientFacts ==
    ASSUME NEW L \in Nat, L > 0, NEW n \in Nat
    PROVE  /\ n \div L \in Nat /\ n % L \in 0 .. L - 1
           /\ n = (n \div L) * L + (n % L)
           /\ \A k \in Nat : n < k * L => n \div L < k
<1> DEFINE q == n \div L
           r == n % L
<1>1. q \in Nat /\ r \in 0 .. L - 1 /\ n = q * L + r
  OBVIOUS
<1> HIDE DEF q, r
<1>2. ASSUME NEW k \in Nat, n < k * L, q >= k
      PROVE  FALSE
  <2> PICK d \in Nat : q = k + d
    BY <1>1, <1>2
  <2>1. q * L = k * L + d * L /\ d * L \in Nat /\ k * L \in Nat
    OBVIOUS
  <2> QED BY <2>1, <1>1, <1>2
<1> QED BY <1>1, <1>2 DEF q, r

\* A number is a multiple of L and a remainder in one way only.
LEMMA SameParts ==
    ASSUME NEW L \in Nat \ {0}, NEW p \in Nat, NEW q \in Nat,
           NEW x \in 0 .. L - 1, NEW y \in 0 .. L - 1, p * L + x = q * L + y
    PROVE  p = q /\ x = y
<1>1. ASSUME NEW a \in Nat, NEW b \in Nat, NEW u \in 0 .. L - 1, NEW v \in 0 .. L - 1,
             a < b, a * L + u = b * L + v
      PROVE  FALSE
  <2> PICK d \in Nat : b = a + 1 + d
    BY <1>1
  <2> DEFINE c == a * L
             e == d * L
  <2>1. c \in Nat /\ e \in Nat /\ b * L = c + L + e
    OBVIOUS
  <2> HIDE DEF c, e
  <2>2. c + u = c + L + e + v
    BY <1>1, <2>1 DEF c
  <2> QED BY <2>1, <2>2
<1>2. p = q
  BY <1>1
<1> DEFINE c == p * L
<1>3. c \in Nat /\ c + x = c + y
  BY <1>2
<1> HIDE DEF c
<1> QED BY <1>2, <1>3

\* The k-th index, for every k, is all of the indices, each for one k.
LEMMA NthFacts ==
    ASSUME NEW P \in SUBSET Nat, IsFiniteSet(P)
    PROVE  /\ Cardinality(P) \in Nat
           /\ [k \in 1 .. Cardinality(P) |-> Nth(P, k)]
                 \in Bijection(1 .. Cardinality(P), P)
           /\ \A k \in 1 .. Cardinality(P) :
                 Cardinality({j \in P : j <= Nth(P, k)}) = k
<1> DEFINE upTo(i) == {j \in P : j <= i}
           rank == [i \in P |-> Cardinality(upTo(i))]
           c == Cardinality(P)
<1>1. IsFiniteSet(P) /\ c \in Nat
  BY FS_CardinalityType
<1>2. \A i \in P : IsFiniteSet(upTo(i)) /\ Cardinality(upTo(i)) \in 1 .. c
  <2> SUFFICES ASSUME NEW i \in P
               PROVE  IsFiniteSet(upTo(i)) /\ Cardinality(upTo(i)) \in 1 .. c
    OBVIOUS
  <2>1. upTo(i) \in SUBSET P /\ i \in upTo(i)
    OBVIOUS
  <2> HIDE DEF upTo
  <2>2. IsFiniteSet(upTo(i)) /\ Cardinality(upTo(i)) <= c
    BY <1>1, <2>1, FS_Subset
  <2>3. Cardinality(upTo(i)) \in Nat /\ Cardinality(upTo(i)) # 0
    BY <2>1, <2>2, FS_CardinalityType, FS_EmptySet
  <2> QED BY <1>1, <2>2, <2>3
<1>3. \A i, j \in P : i < j => Cardinality(upTo(i)) < Cardinality(upTo(j))
  <2> SUFFICES ASSUME NEW i \in P, NEW j \in P, i < j
               PROVE  Cardinality(upTo(i)) < Cardinality(upTo(j))
    OBVIOUS
  <2>1. upTo(i) \in SUBSET upTo(j) /\ j \in upTo(j) /\ j \notin upTo(i)
    <3>1. \A k \in P : k \in Nat
      OBVIOUS
    <3>2. \A k \in P : k <= i => k <= j
      BY <3>1
    <3>3. upTo(i) \subseteq upTo(j)
      BY <3>2
    <3>4. j \in upTo(j) /\ j \notin upTo(i)
      BY <3>1
    <3> QED BY <3>3, <3>4
  <2>2. IsFiniteSet(upTo(j)) /\ Cardinality(upTo(j)) \in Nat /\ Cardinality(upTo(i)) \in Nat
    BY <1>1, <1>2
  <2> HIDE DEF upTo
  <2>3. /\ Cardinality(upTo(i)) <= Cardinality(upTo(j))
        /\ Cardinality(upTo(i)) # Cardinality(upTo(j))
    BY <2>1, <2>2, FS_Subset
  <2> QED BY <2>2, <2>3
<1> HIDE DEF upTo, c
<1>4. rank \in [P -> 1 .. c] /\ \A i, j \in P : rank[i] = rank[j] => i = j
  <2>1. \A i \in P : i \in Nat /\ rank[i] \in Nat
    BY <1>1, <1>2
  <2>2. \A i, j \in P : i < j => rank[i] < rank[j]
    BY <1>3
  <2>3. rank \in [P -> 1 .. c]
    BY <1>2
  <2> HIDE DEF rank
  <2> QED BY <2>1, <2>2, <2>3
<1>5. \A k \in 1 .. c : \E i \in P : rank[i] = k
  <2>1. rank \in Injection(P, 1 .. c)
    BY <1>4 DEF Injection, IsInjective
  <2>2. IsFiniteSet(1 .. c) /\ Cardinality(1 .. c) = c
    BY <1>1, FS_Interval
  <2>3. rank \in Surjection(P, 1 .. c)
    <3> HIDE DEF rank
    <3> QED BY <2>1, <2>2, FS_Injection DEF c
  <2> HIDE DEF rank
  <2> QED BY <2>3 DEF Surjection
<1>6. \A k \in 1 .. c : /\ Nth(P, k) \in P /\ rank[Nth(P, k)] = k
                        /\ Cardinality({j \in P : j <= Nth(P, k)}) = k
  <2> SUFFICES ASSUME NEW k \in 1 .. c
               PROVE  /\ Nth(P, k) \in P /\ rank[Nth(P, k)] = k
                      /\ Cardinality({j \in P : j <= Nth(P, k)}) = k
    OBVIOUS
  <2>1. \E i \in P : Cardinality({j \in P : j <= i}) = k
    BY <1>5 DEF upTo
  <2>2. Nth(P, k) \in P /\ Cardinality({j \in P : j <= Nth(P, k)}) = k
    BY <2>1 DEF Nth
  <2> QED BY <2>2 DEF upTo
<1> DEFINE f == [k \in 1 .. c |-> Nth(P, k)]
<1> HIDE DEF rank
<1>7. f \in [1 .. c -> P]
  BY <1>6
<1>8. \A k, l \in 1 .. c : f[k] = f[l] => k = l
  BY <1>6
<1>9. \A i \in P : \E k \in 1 .. c : f[k] = i
  <2> SUFFICES ASSUME NEW i \in P PROVE f[rank[i]] = i /\ rank[i] \in 1 .. c
    OBVIOUS
  <2>1. rank[i] \in 1 .. c
    BY <1>4
  <2>2. /\ Nth(P, rank[i]) \in P /\ rank[Nth(P, rank[i])] = rank[i]
        /\ f[rank[i]] = Nth(P, rank[i])
    BY <2>1, <1>6
  <2>3. Nth(P, rank[i]) = i
    BY <2>2, <1>4
  <2> QED BY <2>1, <2>2, <2>3
<1>10. f \in Bijection(1 .. c, P)
  BY <1>7, <1>8, <1>9 DEF Bijection, Injection, Surjection, IsInjective
<1> QED BY <1>1, <1>6, <1>10 DEF c

\* A finite set of numbers has a largest one.
LEMMA MaxFacts ==
    ASSUME NEW T \in SUBSET Nat, IsFiniteSet(T), T # {}
    PROVE  Max(T) \in T /\ \A y \in T : y <= Max(T)
<1> DEFINE c == Cardinality(T)
           m == Nth(T, c)
           below == {j \in T : j <= m}
<1>1. c \in Nat \ {0} /\ [k \in 1 .. c |-> Nth(T, k)] \in Bijection(1 .. c, T)
      /\ Cardinality(below) = c
  <2>1. c \in Nat /\ c # 0
    BY FS_EmptySet, FS_CardinalityType
  <2> QED BY <2>1, NthFacts
<1>2. m \in T
  BY <1>1 DEF Bijection, Injection
<1>3. below \in SUBSET T
  OBVIOUS
<1> HIDE DEF m
<1>4. below = T
  <2> HIDE DEF below
  <2> QED BY <1>1, <1>3, FS_Subset
<1>5. \A y \in T : m >= y
  <2>1. \A y \in T : y <= m
    BY <1>4
  <2> QED BY <1>2, <2>1
<1>6. Max(T) \in T /\ \A y \in T : Max(T) >= y
  BY <1>2, <1>5 DEF Max
<1> QED BY <1>6

\* The values of a function of finitely many arguments.
LEMMA ImageFinite ==
    ASSUME NEW I, IsFiniteSet(I), NEW f, f = [i \in I |-> f[i]]
    PROVE  IsFiniteSet({f[i] : i \in I})
<1> DEFINE T == {f[i] : i \in I}
<1>1. f \in Surjection(I, T)
  BY DEF Surjection
<1> QED BY <1>1, FS_Surjection

-----------------------------------------------------------------------------
\* Lists of pages of a document that has n.
Lists(n) == Seq((0 .. n - 1) \union {Blank})

\* What every plan for a document of n pages is like.
LaidOut(placed, n) ==
    /\ IsFiniteSet(placed)
    /\ \A p \in placed : /\ {"sheet", "slot", "page", "shift"} \subseteq DOMAIN p
                         /\ p.sheet \in Nat
                         /\ p.page = Blank \/ p.page \in 0 .. n - 1

\* No slot of a sheet is used twice.
Apart(placed) == \A p, q \in placed : p.sheet = q.sheet /\ p.slot = q.slot => p = q

\* One placement for each page of a list, which holds that page.
Follows(placed, s) ==
    \E f : placed = {f[i] : i \in DOMAIN s} /\ \A i \in DOMAIN s : f[i].page = s[i]

LEMMA ListFacts ==
    ASSUME NEW n, NEW s \in Lists(n)
    PROVE  /\ Len(s) \in Nat /\ DOMAIN s = 1 .. Len(s)
           /\ \A i \in 1 .. Len(s) : s[i] = Blank \/ s[i] \in 0 .. n - 1
<1>1. Len(s) \in Nat /\ DOMAIN s = 1 .. Len(s)
      /\ s \in [1 .. Len(s) -> (0 .. n - 1) \union {Blank}]
  BY LenProperties DEF Lists
<1> QED BY <1>1

LEMMA PlaceFields ==
    ASSUME NEW sheet, NEW slot, NEW page, NEW cell, NEW turned
    PROVE  LET p == Place(sheet, slot, page, cell, turned) IN
           /\ DOMAIN p = {"sheet", "slot", "page", "cell", "turned", "shift"}
           /\ p.sheet = sheet /\ p.slot = slot /\ p.page = page
BY DEF Place

\* A plan that has one placement for each page of a list.
LEMMA OneEach ==
    ASSUME NEW n, NEW s \in Lists(n), NEW f, f = [i \in DOMAIN s |-> f[i]],
           \A i \in DOMAIN s : /\ {"sheet", "slot", "page", "shift"} \subseteq DOMAIN f[i]
                               /\ f[i].sheet \in Nat /\ f[i].page = s[i]
    PROVE  /\ LaidOut({f[i] : i \in DOMAIN s}, n)
           /\ Follows({f[i] : i \in DOMAIN s}, s)
           /\ (\A i, j \in DOMAIN s : f[i].sheet = f[j].sheet /\ f[i].slot = f[j].slot => i = j)
                 => Apart({f[i] : i \in DOMAIN s})
<1>1. /\ Len(s) \in Nat /\ DOMAIN s = 1 .. Len(s)
      /\ \A i \in 1 .. Len(s) : s[i] = Blank \/ s[i] \in 0 .. n - 1
  BY ListFacts
<1>2. IsFiniteSet(DOMAIN s)
  <2> DEFINE k == Len(s)
  <2>1. 1 \in Int /\ k \in Int /\ DOMAIN s = 1 .. k
    BY <1>1
  <2> HIDE DEF k
  <2>2. IsFiniteSet(1 .. k)
    BY ONLY <2>1, FS_Interval
  <2> QED BY <2>1, <2>2
<1>3. IsFiniteSet({f[i] : i \in DOMAIN s})
  BY <1>2, ImageFinite
<1>4. Follows({f[i] : i \in DOMAIN s}, s)
  BY DEF Follows
<1> QED BY <1>1, <1>3, <1>4 DEF LaidOut, Apart

LEMMA TwoUpLaidOut ==
    ASSUME NEW n, NEW s \in Lists(n), NEW sheet
    PROVE  LaidOut(TwoUp(s, sheet), n) /\ Apart(TwoUp(s, sheet)) /\ Follows(TwoUp(s, sheet), s)
<1> DEFINE half == Size(sheet.w \div 2, sheet.h)
           side(i) == (i - 1) \div 2
           slot(i) == (i - 1) % 2
           cell(i) == Rect(((i - 1) % 2) * half.w, 0, half)
           f == [i \in DOMAIN s |-> Place(side(i), slot(i), s[i], cell(i), FALSE)]
<1>1. TwoUp(s, sheet) = {f[i] : i \in DOMAIN s}
  BY DEF TwoUp
<1>2. f = [i \in DOMAIN s |-> f[i]]
  OBVIOUS
<1>3. \A i \in DOMAIN s : /\ {"sheet", "slot", "page", "shift"} \subseteq DOMAIN f[i]
                          /\ f[i].sheet = side(i) /\ f[i].slot = slot(i)
                          /\ f[i].page = s[i]
  <2> HIDE DEF side, slot, cell
  <2> SUFFICES ASSUME NEW i \in DOMAIN s
               PROVE  /\ {"sheet", "slot", "page", "shift"} \subseteq DOMAIN f[i]
                      /\ f[i].sheet = side(i) /\ f[i].slot = slot(i)
                      /\ f[i].page = s[i]
    OBVIOUS
  <2>1. f[i] = Place(side(i), slot(i), s[i], cell(i), FALSE)
    OBVIOUS
  <2> QED BY <2>1 DEF Place
<1> HIDE DEF f
<1>4. \A i \in DOMAIN s : i \in Nat \ {0}
  BY ListFacts
<1>5. \A i, j \in Nat \ {0} : (i - 1) \div 2 = (j - 1) \div 2 /\ (i - 1) % 2 = (j - 1) % 2
         => i = j
  OBVIOUS
<1>6. \A i \in DOMAIN s : f[i].sheet \in Nat
  BY <1>3, <1>4
<1>7. \A i, j \in DOMAIN s : f[i].sheet = f[j].sheet /\ f[i].slot = f[j].slot => i = j
  BY <1>3, <1>4, <1>5
<1> QED BY <1>1, <1>2, <1>3, <1>6, <1>7, OneEach

\* The code divides by the number of slots, which is 0 when it wraps.
LEMMA DivisionFacts ==
    ASSUME NEW m \in Nat, NEW i \in Nat
    PROVE  /\ Quotient(i, m) \in Nat
           /\ \A j \in Nat : Quotient(i, m) = Quotient(j, m) /\ Remainder(i, m) = Remainder(j, m)
                 => i = j
<1>1. CASE m = 0
  <2>1. \A k \in Nat : Quotient(k, m) = 0 /\ Remainder(k, m) = k
    BY <1>1 DEF Quotient, Remainder
  <2> QED BY <2>1
<1>2. CASE m # 0
  <2>1. \A k \in Nat : Quotient(k, m) \in Nat
    <3>1. \A k \in Nat : k \div m \in Nat
      BY <1>2, QuotientFacts
    <3> QED BY <1>2, <3>1 DEF Quotient
  <2>2. ASSUME NEW j \in Nat, Quotient(i, m) = Quotient(j, m), Remainder(i, m) = Remainder(j, m)
        PROVE  i = j
    <3> DEFINE a == Quotient(i, m) * m
    <3>1. a \in Nat
      BY <2>1
    <3>2. i - a = j - a
      BY <2>2 DEF Remainder
    <3> HIDE DEF a
    <3> QED BY <3>1, <3>2
  <2> QED BY <2>1, <2>2
<1> QED BY <1>1, <1>2

LEMMA NUpLaidOut ==
    ASSUME NEW n, NEW s \in Lists(n), NEW sheet, NEW columns \in Nat, NEW rows \in Nat,
           NEW options
    PROVE  /\ LaidOut(NUp(s, sheet, columns, rows, options), n)
           /\ Apart(NUp(s, sheet, columns, rows, options))
           /\ Follows(NUp(s, sheet, columns, rows, options), s)
<1> DEFINE m == SlotsPerSheet(columns, rows)
           slot(i) == Remainder(i - 1, m)
           cell(i) == Cell(slot(i), columns, rows, sheet)
           f == [i \in DOMAIN s |->
                   Place(Quotient(i - 1, m), slot(i), s[i], cell(i), Turned(cell(i), options))]
<1>1. NUp(s, sheet, columns, rows, options) = {f[i] : i \in DOMAIN s}
  BY DEF NUp
<1>2. f = [i \in DOMAIN s |-> f[i]]
  OBVIOUS
<1>3. \A i \in DOMAIN s : /\ {"sheet", "slot", "page", "shift"} \subseteq DOMAIN f[i]
                          /\ f[i].sheet = Quotient(i - 1, m)
                          /\ f[i].slot = Remainder(i - 1, m)
                          /\ f[i].page = s[i]
  <2> HIDE DEF slot, cell
  <2> SUFFICES ASSUME NEW i \in DOMAIN s
               PROVE  /\ {"sheet", "slot", "page", "shift"} \subseteq DOMAIN f[i]
                      /\ f[i].sheet = Quotient(i - 1, m)
                      /\ f[i].slot = slot(i)
                      /\ f[i].page = s[i]
    BY DEF slot
  <2>1. f[i] = Place(Quotient(i - 1, m), slot(i), s[i], cell(i), Turned(cell(i), options))
    OBVIOUS
  <2> QED BY <2>1 DEF Place
<1> HIDE DEF f
<1>4. \A i \in DOMAIN s : i \in Nat /\ i - 1 \in Nat
  BY ListFacts
<1>5. m \in Nat
  <2> DEFINE a == columns * rows
  <2>1. a \in Nat
    OBVIOUS
  <2> HIDE DEF a
  <2>2. a % Word \in Nat
    BY <2>1, PagesAssumption
  <2> QED BY <2>2 DEF a, SlotsPerSheet
<1> HIDE DEF m
<1> HIDE DEF cell
<1>6. \A i \in DOMAIN s : f[i].sheet \in Nat
  <2>1. \A k \in Nat : Quotient(k, m) \in Nat
    BY <1>5, DivisionFacts
  <2> QED BY <1>3, <1>4, <2>1
<1>7. ASSUME NEW i \in DOMAIN s, NEW j \in DOMAIN s,
             f[i].sheet = f[j].sheet, f[i].slot = f[j].slot
      PROVE  i = j
  <2>1. \A k, l \in Nat : Quotient(k, m) = Quotient(l, m) /\ Remainder(k, m) = Remainder(l, m)
           => k = l
    BY <1>5, DivisionFacts
  <2>2. /\ Quotient(i - 1, m) = Quotient(j - 1, m)
        /\ Remainder(i - 1, m) = Remainder(j - 1, m)
    BY <1>3, <1>7
  <2>3. i - 1 = j - 1
    BY <1>4, <2>1, <2>2
  <2> QED BY <1>4, <2>3
<1> DEFINE all == {f[i] : i \in DOMAIN s}
<1>8. LaidOut(all, n) /\ Apart(all) /\ Follows(all, s)
  <2>1. \A i \in DOMAIN s : /\ {"sheet", "slot", "page", "shift"} \subseteq DOMAIN f[i]
                            /\ f[i].sheet \in Nat /\ f[i].page = s[i]
    BY <1>3, <1>6
  <2> QED BY ONLY s \in Lists(n), <2>1, <1>2, <1>7, OneEach
<1> QED BY <1>1, <1>8

-----------------------------------------------------------------------------
\* The cells of step and repeat that lie on the sheet are cells of the grid.
LEMMA RepeatsFacts ==
    ASSUME NEW config, NEW sheet, config.columns \in Nat, config.rows \in Nat
    PROVE  /\ IsFiniteSet(Repeats(config, sheet))
           /\ \A c \in Repeats(config, sheet) : c \in Nat /\ c < config.columns * config.rows
<1> DEFINE columns == config.columns
           rows == config.rows
           grid == (0 .. columns - 1) \X (0 .. rows - 1)
           onSheet == {c \in grid :
                          /\ ~Outside(c[1], config.stepX, config.seed.w, sheet.w)
                          /\ ~Outside(c[2], config.stepY, config.seed.h, sheet.h)}
           g == [c \in onSheet |-> c[2] * columns + c[1]]
           cells == {g[c] : c \in onSheet}
<1>1. Repeats(config, sheet) = cells
  BY DEF Repeats
<1>2. onSheet \in SUBSET grid
  OBVIOUS
<1>3. g = [c \in onSheet |-> g[c]]
  OBVIOUS
<1> HIDE DEF onSheet
<1>4. \A c \in onSheet : /\ g[c] = c[2] * columns + c[1]
                         /\ c[1] \in 0 .. columns - 1 /\ c[2] \in 0 .. rows - 1
  BY <1>2
<1> HIDE DEF g
<1>5. IsFiniteSet(onSheet)
  <2>1. columns \in Nat /\ rows \in Nat
    OBVIOUS
  <2> HIDE DEF columns, rows
  <2>2. IsFiniteSet(0 .. columns - 1) /\ IsFiniteSet(0 .. rows - 1)
    BY ONLY <2>1, FS_Interval
  <2>3. IsFiniteSet(grid)
    BY ONLY <2>2, FS_Product DEF grid
  <2> QED BY ONLY <1>2, <2>3, FS_Subset
<1>6. IsFiniteSet(cells)
  BY ONLY <1>3, <1>5, ImageFinite DEF cells
<1>7. ASSUME NEW c \in cells
      PROVE  c \in Nat /\ c < columns * rows
  <2>1. PICK d \in onSheet : c = g[d]
    OBVIOUS
  <2>2. columns \in Nat /\ rows \in Nat /\ d[1] \in 0 .. columns - 1 /\ d[2] \in 0 .. rows - 1
    BY <1>4
  <2> DEFINE x == d[1]
             y == d[2]
  <2>3. c = y * columns + x
    BY <1>4, <2>1
  <2> HIDE DEF x, y, columns, rows
  <2>4. x \in Nat /\ y \in Nat /\ x < columns /\ columns \in Nat /\ rows \in Nat
        /\ rows - 1 - y \in Nat
    BY <2>2 DEF x, y
  <2> DEFINE k == rows - 1 - y
             a == y * columns
             b == k * columns
  <2>5. rows = y + k + 1 /\ k \in Nat
    BY <2>4
  <2> HIDE DEF k
  <2>6. a \in Nat /\ b \in Nat /\ columns * rows = a + b + columns
    BY <2>4, <2>5
  <2> HIDE DEF a, b
  <2> QED BY <2>3, <2>4, <2>6 DEF a
<1> QED BY <1>1, <1>6, <1>7

\* The number of a slot is kept in 32 bits; no cell has the slot of another
\* one as long as the grid has no more cells than that.
LEMMA StepAndRepeatLaidOut ==
    ASSUME NEW n, NEW s \in Lists(n), NEW sheet, NEW config,
           config.columns \in Nat, config.rows \in Nat, NEW options
    PROVE  /\ LaidOut(StepAndRepeat(s, sheet, config, options), n)
           /\ StepAndRepeat(s, sheet, config, options) # {}
                 => Follows(StepAndRepeat(s, sheet, config, options), s)
           /\ config.columns * config.rows <= Word
                 => Apart(StepAndRepeat(s, sheet, config, options))
<1> DEFINE cells == Repeats(config, sheet)
           perSheet == Cardinality(cells)
           place(i) == Nth(cells, ((i - 1) % perSheet) + 1)
           cell(i) == Rect((place(i) % config.columns) * config.stepX,
                           (place(i) \div config.columns) * config.stepY, config.seed)
           f == [i \in DOMAIN s |-> Place((i - 1) \div perSheet, place(i) % Word, s[i],
                                          cell(i), Turned(cell(i), options))]
           all == {f[i] : i \in DOMAIN s}
<1>1. /\ IsFiniteSet(cells)
      /\ \A c \in cells : c \in Nat /\ c < config.columns * config.rows
  BY RepeatsFacts
<1>2. StepAndRepeat(s, sheet, config, options) = IF cells = {} THEN {} ELSE all
  BY DEF StepAndRepeat
<1>3. LaidOut({}, n) /\ Apart({})
  BY FS_EmptySet DEF LaidOut, Apart
<1>4. CASE cells # {}
  <2>1. perSheet \in Nat \ {0}
    <3> HIDE DEF cells
    <3> QED BY <1>1, <1>4, FS_EmptySet, FS_CardinalityType
  <2>2. f = [i \in DOMAIN s |-> f[i]]
    OBVIOUS
  <2>3. \A i \in DOMAIN s : /\ {"sheet", "slot", "page", "shift"} \subseteq DOMAIN f[i]
                            /\ f[i].sheet = (i - 1) \div perSheet
                            /\ f[i].slot = place(i) % Word
                            /\ f[i].page = s[i]
    <3> HIDE DEF place, cell, perSheet
    <3> SUFFICES ASSUME NEW i \in DOMAIN s
                 PROVE  /\ {"sheet", "slot", "page", "shift"} \subseteq DOMAIN f[i]
                        /\ f[i].sheet = (i - 1) \div perSheet
                        /\ f[i].slot = place(i) % Word
                        /\ f[i].page = s[i]
      OBVIOUS
    <3>1. f[i] = Place((i - 1) \div perSheet, place(i) % Word, s[i], cell(i),
                       Turned(cell(i), options))
      OBVIOUS
    <3> QED BY <3>1 DEF Place
  <2> HIDE DEF f, cells, cell
  <2>4. \A i \in DOMAIN s : i \in Nat /\ i - 1 \in Nat
    BY ListFacts
  <2>5. [k \in 1 .. perSheet |-> Nth(cells, k)] \in Bijection(1 .. perSheet, cells)
    BY <1>1, NthFacts
  <2> HIDE DEF perSheet
  <2>6. \A i \in DOMAIN s : (i - 1) \div perSheet \in Nat /\ (i - 1) % perSheet \in 0 .. perSheet - 1
    <3>1. \A k \in Nat : k \div perSheet \in Nat /\ k % perSheet \in 0 .. perSheet - 1
      BY <2>1, QuotientFacts
    <3> QED BY <2>4, <3>1
  <2>7. \A i \in DOMAIN s : place(i) \in cells
    <3>1. \A k \in 1 .. perSheet : Nth(cells, k) \in cells
      BY <2>5 DEF Bijection, Injection
    <3>2. \A i \in DOMAIN s : ((i - 1) % perSheet) + 1 \in 1 .. perSheet
      BY <2>1, <2>6
    <3> QED BY <3>1, <3>2
  <2>8. \A i \in DOMAIN s : /\ {"sheet", "slot", "page", "shift"} \subseteq DOMAIN f[i]
                            /\ f[i].sheet \in Nat /\ f[i].page = s[i]
    BY <2>3, <2>6
  <2>9. ASSUME config.columns * config.rows <= Word,
               NEW i \in DOMAIN s, NEW j \in DOMAIN s,
               f[i].sheet = f[j].sheet, f[i].slot = f[j].slot
        PROVE  i = j
    <3>1. place(i) % Word = place(i) /\ place(j) % Word = place(j)
      <4> DEFINE w == config.columns * config.rows
      <4>1. \A c \in cells : c \in Nat /\ c < w
        BY <1>1
      <4>2. w \in Nat /\ w <= Word /\ Word \in Nat
        BY <2>9, PagesAssumption
      <4> HIDE DEF w
      <4>3. \A c \in cells : c \in Nat /\ c < Word
        BY <4>1, <4>2
      <4>4. \A c \in cells : c % Word = c
        BY <4>2, <4>3
      <4> QED BY <2>7, <4>4
    <3>2. place(i) = place(j)
      BY <2>3, <2>9, <3>1
    <3> DEFINE a == (i - 1) % perSheet
               b == (j - 1) % perSheet
    <3>3. a \in 0 .. perSheet - 1 /\ b \in 0 .. perSheet - 1
      BY <2>6
    <3>4. Nth(cells, a + 1) = Nth(cells, b + 1)
      BY <3>2
    <3> HIDE DEF a, b, place
    <3>5. \A k, l \in 1 .. perSheet : Nth(cells, k) = Nth(cells, l) => k = l
      <4> DEFINE g == [k \in 1 .. perSheet |-> Nth(cells, k)]
      <4>1. \A k, l \in 1 .. perSheet : g[k] = g[l] => k = l
        <5> HIDE DEF g
        <5> QED BY <2>5 DEF g, Bijection, Injection, IsInjective
      <4> QED BY <4>1
    <3>6. a = b
      <4>1. a + 1 \in 1 .. perSheet /\ b + 1 \in 1 .. perSheet /\ a \in Nat /\ b \in Nat
        BY <2>1, <3>3
      <4>2. a + 1 = b + 1
        BY <3>4, <3>5, <4>1
      <4> QED BY <4>1, <4>2
    <3>7. (i - 1) \div perSheet = (j - 1) \div perSheet
      BY <2>3, <2>9
    <3>8. /\ i - 1 = ((i - 1) \div perSheet) * perSheet + a
          /\ j - 1 = ((j - 1) \div perSheet) * perSheet + b
      <4>1. \A k \in Nat : k = (k \div perSheet) * perSheet + (k % perSheet)
        BY <2>1, QuotientFacts
      <4> QED BY <2>4, <4>1 DEF a, b
    <3>9. i - 1 = j - 1
      BY <3>6, <3>7, <3>8
    <3> QED BY <2>4, <3>9
  <2>10. /\ LaidOut(all, n) /\ Follows(all, s)
         /\ config.columns * config.rows <= Word => Apart(all)
    <3>1. LaidOut(all, n) /\ Follows(all, s)
      BY ONLY s \in Lists(n), <2>2, <2>8, OneEach
    <3>2. ASSUME config.columns * config.rows <= Word
          PROVE  Apart(all)
      <4>1. \A i, j \in DOMAIN s : f[i].sheet = f[j].sheet /\ f[i].slot = f[j].slot => i = j
        BY <2>9, <3>2
      <4> QED BY ONLY s \in Lists(n), <2>2, <2>8, <4>1, OneEach
    <3> QED BY <3>1, <3>2
  <2> QED BY <1>2, <1>4, <2>10
<1> QED BY <1>2, <1>3, <1>4

\* Every tile of every page has a slot of its own on the sheet of the page.
LEMMA TilesLaidOut ==
    ASSUME NEW n \in Nat, NEW columns \in Nat, NEW rows \in Nat, NEW page
    PROVE  /\ LaidOut(BuildTilePlan(n, columns, rows, page), n)
           /\ Apart(BuildTilePlan(n, columns, rows, page))
<1> DEFINE cell == Rect(0, 0, TileSheet(columns, rows, page))
           last == columns * rows - 1
           both == (0 .. n - 1) \X (0 .. last)
           put(p, slot) == Place(p, slot, p, cell, FALSE)
           f == [t \in both |-> put(t[1], t[2])]
           all == {f[t] : t \in both}
<1>1. last \in Int /\ n - 1 \in Int
  OBVIOUS
<1> HIDE DEF last, cell
<1>2. BuildTilePlan(n, columns, rows, page) = all
  <2>1. BuildTilePlan(n, columns, rows, page)
          = {put(p, slot) : p \in 0 .. n - 1, slot \in 0 .. last}
    BY DEF BuildTilePlan, cell, last
  <2> HIDE DEF put
  <2>2. \A p \in 0 .. n - 1, slot \in 0 .. last :
           <<p, slot>> \in both /\ f[<<p, slot>>] = put(p, slot)
    OBVIOUS
  <2>3. \A t \in both : /\ t[1] \in 0 .. n - 1 /\ t[2] \in 0 .. last
                        /\ f[t] = put(t[1], t[2])
    OBVIOUS
  <2> HIDE DEF f, both
  <2>4. \A p \in 0 .. n - 1, slot \in 0 .. last : put(p, slot) \in all
    BY <2>2
  <2>5. \A t \in both : f[t] \in BuildTilePlan(n, columns, rows, page)
    BY <2>1, <2>3
  <2>6. BuildTilePlan(n, columns, rows, page) \subseteq all
    <3> HIDE DEF all
    <3> QED BY <2>1, <2>4
  <2>7. all \subseteq BuildTilePlan(n, columns, rows, page)
    BY <2>5
  <2> QED BY <2>6, <2>7
<1>3. IsFiniteSet(both)
  <2>1. 0 \in Int /\ n - 1 \in Int /\ last \in Int
    BY <1>1
  <2>2. IsFiniteSet(0 .. n - 1) /\ IsFiniteSet(0 .. last)
    BY ONLY <2>1, FS_Interval
  <2> QED BY ONLY <2>2, FS_Product DEF both
<1>4. f = [t \in both |-> f[t]]
  OBVIOUS
<1>5. \A t \in both : /\ {"sheet", "slot", "page", "shift"} \subseteq DOMAIN f[t]
                      /\ f[t].sheet = t[1] /\ f[t].slot = t[2] /\ f[t].page = t[1]
                      /\ t[1] \in 0 .. n - 1 /\ t = <<t[1], t[2]>>
  BY DEF Place
<1> HIDE DEF f, both
<1>6. IsFiniteSet(all)
  BY ONLY <1>3, <1>4, ImageFinite DEF all
<1>7. LaidOut(all, n)
  BY <1>5, <1>6 DEF LaidOut
<1>8. Apart(all)
  <2> SUFFICES ASSUME NEW t \in both, NEW u \in both,
                      f[t].sheet = f[u].sheet, f[t].slot = f[u].slot
               PROVE  f[t] = f[u]
    BY DEF Apart
  <2>1. t = u
    BY <1>5
  <2> QED BY <2>1
<1> QED BY <1>2, <1>7, <1>8

\* A reordered document has one page on a sheet.
LEMMA ReorderLaidOut ==
    ASSUME NEW n, NEW s \in Lists(n), NEW page
    PROVE  /\ LaidOut(BuildReorderPlan(s, page), n) /\ Apart(BuildReorderPlan(s, page))
           /\ Follows(BuildReorderPlan(s, page), s)
<1> DEFINE f == [i \in DOMAIN s |-> Place(i - 1, 0, s[i], Rect(0, 0, page), FALSE)]
           all == {f[i] : i \in DOMAIN s}
<1>1. BuildReorderPlan(s, page) = all
  BY DEF BuildReorderPlan
<1>2. f = [i \in DOMAIN s |-> f[i]]
  OBVIOUS
<1>3. \A i \in DOMAIN s : /\ {"sheet", "slot", "page", "shift"} \subseteq DOMAIN f[i]
                          /\ f[i].sheet = i - 1 /\ f[i].page = s[i]
  BY DEF Place
<1> HIDE DEF f
<1>4. \A i \in DOMAIN s : i \in Nat /\ i - 1 \in Nat
  BY ListFacts
<1>5. \A i \in DOMAIN s : /\ {"sheet", "slot", "page", "shift"} \subseteq DOMAIN f[i]
                          /\ f[i].sheet \in Nat /\ f[i].page = s[i]
  BY <1>3, <1>4
<1>6. \A i, j \in DOMAIN s : f[i].sheet = f[j].sheet /\ f[i].slot = f[j].slot => i = j
  <2>1. \A i, j \in DOMAIN s : i - 1 = j - 1 => i = j
    BY <1>4
  <2> QED BY <1>3, <2>1
<1>7. LaidOut(all, n) /\ Apart(all) /\ Follows(all, s)
  BY ONLY s \in Lists(n), <1>2, <1>5, <1>6, OneEach
<1> QED BY <1>1, <1>7

-----------------------------------------------------------------------------
\* Padding gives a list of the same pages, and blanks behind them.
LEMMA PaddingFacts ==
    ASSUME NEW S, Blank \in S, NEW s \in Seq(S), NEW multiple \in Nat
    PROVE  LET p == PaddedTo(s, multiple) IN
           /\ p \in Seq(S) /\ Len(p) \in Nat /\ Len(p) >= Len(s)
           /\ multiple # 0 => Len(p) % multiple = 0
           /\ DOMAIN p = 1 .. Len(p)
           /\ \A i \in 1 .. Len(p) : p[i] = IF i <= Len(s) THEN s[i] ELSE Blank
<1> DEFINE n == Len(s)
<1>1. n \in Nat /\ DOMAIN s = 1 .. n
  BY LenProperties
<1>2. CASE multiple = 0 \/ n % multiple = 0
  <2>1. PaddedTo(s, multiple) = s
    BY <1>2 DEF PaddedTo
  <2> QED BY <1>1, <1>2, <2>1
<1>3. CASE ~(multiple = 0 \/ n % multiple = 0)
  <2> DEFINE r == n % multiple
             d == multiple - r
             b == Blanks(d)
             p == s \o b
  <2>1. r \in 0 .. multiple - 1 /\ multiple # 0 /\ d \in Nat
    BY <1>1, <1>3, QuotientFacts
  <2>2. PaddedTo(s, multiple) = p
    BY <1>3 DEF PaddedTo
  <2> HIDE DEF d
  <2>3. b \in Seq(S) /\ Len(b) = d /\ \A k \in 1 .. d : b[k] = Blank
    <3>1. b = [i \in 1 .. d |-> Blank]
      BY DEF Blanks
    <3>2. b \in [1 .. d -> S]
      BY <3>1
    <3>3. b \in Seq(S)
      BY <2>1, <3>2, SeqDef
    <3>4. Len(b) = d
      BY <2>1, <3>1, <3>3, LenProperties
    <3> QED BY <3>1, <3>3, <3>4
  <2> HIDE DEF n, b
  <2>4. p \in Seq(S) /\ Len(p) = n + d /\ DOMAIN p = 1 .. n + d
    <3>1. p \in Seq(S) /\ Len(p) = n + d
      BY <2>3, ConcatProperties DEF n
    <3> QED BY <3>1, LenProperties
  <2>5. \A i \in 1 .. n + d : p[i] = IF i <= n THEN s[i] ELSE Blank
    <3>1. \A i \in 1 .. n + d : p[i] = IF i <= n THEN s[i] ELSE b[i - n]
      BY <2>3, ConcatProperties DEF n
    <3> QED BY <1>1, <2>1, <2>3, <3>1
  <2>6. (n + d) % multiple = 0
    <3>1. n % multiple = r /\ multiple \in Nat \ {0} /\ n \in Nat
      BY <1>1, <2>1 DEF r
    <3> DEFINE q == n \div multiple
    <3>2. q \in Nat /\ n = q * multiple + r
      BY <3>1, QuotientFacts
    <3> HIDE DEF q, r
    <3>3. n + d = (q + 1) * multiple
      BY <2>1, <3>1, <3>2 DEF d
    <3> DEFINE k == q + 1
    <3>4. k \in Nat /\ n + d = k * multiple
      BY <3>2, <3>3
    <3> HIDE DEF k
    <3>5. (k * multiple) % multiple = 0
      BY <3>1, <3>4
    <3> QED BY <3>4, <3>5
  <2> HIDE DEF p
  <2>7. n + d \in Nat /\ n + d >= n
    BY <1>1, <2>1
  <2> QED BY <2>2, <2>4, <2>5, <2>6, <2>7 DEF n
<1> QED BY <1>2, <1>3 DEF n

LEMMA PaddedList ==
    ASSUME NEW n, NEW s \in Lists(n), NEW multiple \in Nat
    PROVE  PaddedTo(s, multiple) \in Lists(n)
BY PaddingFacts DEF Lists

-----------------------------------------------------------------------------
\* The four halves of a sheet lie apart and hold pages of the signature.
LEMMA SidesFacts ==
    ASSUME NEW n, NEW s \in Lists(n), NEW k \in Nat, Len(s) = 4 * k, NEW t \in 0 .. k - 1
    PROVE  /\ IsFiniteSet(SheetSides(s, t))
           /\ \A q \in SheetSides(s, t) : /\ q.side \in {0, 1} /\ q.slot \in {0, 1}
                                          /\ q.page = Blank \/ q.page \in 0 .. n - 1
           /\ \A q, r \in SheetSides(s, t) : q.side = r.side /\ q.slot = r.slot => q = r
<1> DEFINE half(side, slot, index) ==
              [side |-> side, slot |-> slot, page |-> s[index + 1]]
           last == Len(s) - 1
           a == half(0, 0, last - 2 * t)
           b == half(0, 1, 2 * t)
           c == half(1, 0, 2 * t + 1)
           d == half(1, 1, last - 1 - 2 * t)
<1>1. SheetSides(s, t) = {a, b, c, d}
  BY DEF SheetSides
<1>2. IsFiniteSet({a, b, c, d})
  <2> HIDE DEF a, b, c, d
  <2>1. IsFiniteSet({a})
    BY FS_Singleton
  <2>2. IsFiniteSet({a} \cup {b})
    BY ONLY <2>1, FS_AddElement
  <2>3. IsFiniteSet(({a} \cup {b}) \cup {c})
    BY ONLY <2>2, FS_AddElement
  <2>4. IsFiniteSet((({a} \cup {b}) \cup {c}) \cup {d})
    BY ONLY <2>3, FS_AddElement
  <2>5. (({a} \cup {b}) \cup {c}) \cup {d} = {a, b, c, d}
    OBVIOUS
  <2> QED BY <2>4, <2>5
<1>3. \A i \in 1 .. Len(s) : s[i] = Blank \/ s[i] \in 0 .. n - 1
  BY ListFacts
<1>4. /\ last - 2 * t + 1 \in 1 .. Len(s) /\ 2 * t + 1 \in 1 .. Len(s)
      /\ 2 * t + 1 + 1 \in 1 .. Len(s) /\ last - 1 - 2 * t + 1 \in 1 .. Len(s)
  OBVIOUS
<1>5. /\ a.side = 0 /\ a.slot = 0 /\ (a.page = Blank \/ a.page \in 0 .. n - 1)
      /\ b.side = 0 /\ b.slot = 1 /\ (b.page = Blank \/ b.page \in 0 .. n - 1)
      /\ c.side = 1 /\ c.slot = 0 /\ (c.page = Blank \/ c.page \in 0 .. n - 1)
      /\ d.side = 1 /\ d.slot = 1 /\ (d.page = Blank \/ d.page \in 0 .. n - 1)
  BY <1>3, <1>4
<1> HIDE DEF a, b, c, d
<1>6. \A q \in {a, b, c, d} : /\ q.side \in {0, 1} /\ q.slot \in {0, 1}
                              /\ q.page = Blank \/ q.page \in 0 .. n - 1
  BY <1>5
<1>7. \A q, r \in {a, b, c, d} : q.side = r.side /\ q.slot = r.slot => q = r
  BY <1>5
<1> QED BY <1>1, <1>2, <1>6, <1>7

LEMMA BookletLaidOut ==
    ASSUME NEW n, NEW s \in Lists(n), NEW sheet, NEW creep
    PROVE  LaidOut(Booklet(s, sheet, creep), n) /\ Apart(Booklet(s, sheet, creep))
<1> DEFINE signature == PaddedTo(s, 4)
           k == Len(signature) \div 4
           half == Size(sheet.w \div 2, sheet.h)
           placed(t, q) == [Place(2 * t + q.side, q.slot, q.page,
                                  Rect(q.slot * half.w, 0, half), FALSE)
                              EXCEPT !.shift = Inwards(q.slot, CreepMagnitude(t, creep))]
           sides(t) == SheetSides(signature, t)
           on(t) == {placed(t, q) : q \in sides(t)}
           sheets == {on(t) : t \in 0 .. k - 1}
<1>1. Booklet(s, sheet, creep) = UNION sheets
  BY DEF Booklet
<1>2. signature \in Lists(n) /\ k \in Nat /\ Len(signature) = 4 * k
  <2> DEFINE c == Len(signature)
  <2>1. signature \in Lists(n) /\ c \in Nat /\ c % 4 = 0
    BY PaddingFacts DEF Lists
  <2> HIDE DEF signature, c
  <2>2. c \div 4 \in Nat /\ c = 4 * (c \div 4)
    BY <2>1
  <2> QED BY <2>1, <2>2 DEF c
<1> HIDE DEF signature, k
<1>3. \A t \in 0 .. k - 1 :
         /\ IsFiniteSet(sides(t))
         /\ \A q \in sides(t) : /\ q.side \in {0, 1} /\ q.slot \in {0, 1}
                                /\ q.page = Blank \/ q.page \in 0 .. n - 1
         /\ \A q, r \in sides(t) : q.side = r.side /\ q.slot = r.slot => q = r
  BY <1>2, SidesFacts
<1>4. \A t, q : /\ DOMAIN placed(t, q) = {"sheet", "slot", "page", "cell", "turned", "shift"}
                /\ placed(t, q).sheet = 2 * t + q.side /\ placed(t, q).slot = q.slot
                /\ placed(t, q).page = q.page
  BY DEF Place
<1> HIDE DEF placed, sides
<1>5. \A t \in 0 .. k - 1 : IsFiniteSet(on(t))
  <2> SUFFICES ASSUME NEW t \in 0 .. k - 1 PROVE IsFiniteSet(on(t))
    OBVIOUS
  <2> DEFINE g == [q \in sides(t) |-> placed(t, q)]
  <2>1. g = [q \in sides(t) |-> g[q]] /\ on(t) = {g[q] : q \in sides(t)}
    OBVIOUS
  <2>2. IsFiniteSet(sides(t))
    BY <1>3
  <2> HIDE DEF g, on
  <2>3. IsFiniteSet({g[q] : q \in sides(t)})
    BY ONLY <2>1, <2>2, ImageFinite
  <2> QED BY <2>1, <2>3
<1>6. IsFiniteSet(UNION sheets)
  <2> DEFINE g == [t \in 0 .. k - 1 |-> on(t)]
  <2> HIDE DEF on
  <2>1. g = [t \in 0 .. k - 1 |-> g[t]] /\ sheets = {g[t] : t \in 0 .. k - 1}
    OBVIOUS
  <2>2. \A T \in sheets : IsFiniteSet(T)
    BY <1>5
  <2>3. 0 \in Int /\ k - 1 \in Int
    BY <1>2
  <2> HIDE DEF g, sheets
  <2>4. IsFiniteSet(0 .. k - 1)
    BY ONLY <2>3, FS_Interval
  <2>5. IsFiniteSet({g[t] : t \in 0 .. k - 1})
    BY ONLY <2>1, <2>4, ImageFinite
  <2>6. IsFiniteSet(sheets)
    BY <2>1, <2>5
  <2> QED BY ONLY <2>2, <2>6, FS_UNION
<1>7. \A p \in UNION sheets : \E t \in 0 .. k - 1 : \E q \in sides(t) : p = placed(t, q)
  OBVIOUS
<1>8. LaidOut(UNION sheets, n)
  <2>1. ASSUME NEW p \in UNION sheets
        PROVE  /\ {"sheet", "slot", "page", "shift"} \subseteq DOMAIN p
               /\ p.sheet \in Nat
               /\ p.page = Blank \/ p.page \in 0 .. n - 1
    <3>1. PICK t \in 0 .. k - 1 : \E q \in sides(t) : p = placed(t, q)
      BY <1>7
    <3>2. PICK q \in sides(t) : p = placed(t, q)
      BY <3>1
    <3>3. q.side \in {0, 1} /\ (q.page = Blank \/ q.page \in 0 .. n - 1) /\ t \in Nat
      BY <1>2, <1>3
    <3>4. p.sheet = 2 * t + q.side /\ p.page = q.page
          /\ DOMAIN p = {"sheet", "slot", "page", "cell", "turned", "shift"}
      BY <1>4, <3>2
    <3> QED BY <3>3, <3>4
  <2> HIDE DEF sheets
  <2> QED BY <1>6, <2>1 DEF LaidOut
<1>9. Apart(UNION sheets)
  <2> SUFFICES ASSUME NEW p \in UNION sheets, NEW r \in UNION sheets,
                      p.sheet = r.sheet, p.slot = r.slot
               PROVE  p = r
    BY DEF Apart
  <2>1. PICK t \in 0 .. k - 1 : \E q \in sides(t) : p = placed(t, q)
    BY <1>7
  <2>2. PICK q \in sides(t) : p = placed(t, q)
    BY <2>1
  <2>3. PICK u \in 0 .. k - 1 : \E o \in sides(u) : r = placed(u, o)
    BY <1>7
  <2>4. PICK o \in sides(u) : r = placed(u, o)
    BY <2>3
  <2>5. 2 * t + q.side = 2 * u + o.side /\ q.slot = o.slot
    BY <1>4, <2>2, <2>4
  <2>6. q.side \in {0, 1} /\ o.side \in {0, 1} /\ t \in Nat /\ u \in Nat
    BY <1>2, <1>3
  <2>7. t = u /\ q.side = o.side
    BY <2>5, <2>6
  <2>8. q = o
    BY <1>3, <2>5, <2>7
  <2> QED BY <2>2, <2>4, <2>7, <2>8
<1> QED BY <1>1, <1>8, <1>9

\* Signatures are of whole sheets, in 32 bits, too (NormalizeSignatureSize).
LEMMA SignatureSizes ==
    ASSUME NEW size \in Nat
    PROVE  NormalizeSignatureSize(size) \in Nat /\ NormalizeSignatureSize(size) % 4 = 0
<1>1. CASE size = 0
  BY <1>1 DEF NormalizeSignatureSize
<1>2. CASE size \in 1 .. 3
  BY <1>2 DEF NormalizeSignatureSize
<1>3. CASE size > 3
  <2> DEFINE whole == ((size + 3) \div 4) * 4
  <2>1. NormalizeSignatureSize(size) = whole % Word
    BY <1>3 DEF NormalizeSignatureSize
  <2>2. whole \in Nat /\ whole % 4 = 0
    BY <1>3
  <2>3. Word \in Nat \ {0} /\ Word % 4 = 0
    BY PagesAssumption
  <2> HIDE DEF whole
  <2> DEFINE q == whole \div Word
             r == whole % Word
  <2>4. q \in Nat /\ r \in Nat /\ whole = q * Word + r
    <3>1. q \in Nat /\ r \in 0 .. Word - 1 /\ whole = q * Word + r
      BY <2>2, <2>3, QuotientFacts
    <3> QED BY <2>3, <3>1
  <2> HIDE DEF q, r
  <2>5. PICK w \in Nat : Word = 4 * w
    <3>1. Word \div 4 \in Nat /\ Word = 4 * (Word \div 4)
      BY <2>3
    <3> QED BY <3>1
  <2>6. q * Word = 4 * (q * w) /\ q * w \in Nat
    BY <2>4, <2>5
  <2> DEFINE m == q * w
  <2>7. m \in Nat /\ whole = 4 * m + r
    BY <2>4, <2>6
  <2> HIDE DEF m
  <2>8. r % 4 = 0
    BY <2>2, <2>4, <2>7
  <2> QED BY <2>1, <2>4, <2>8 DEF r
<1> QED BY <1>1, <1>2, <1>3

\* The creep shift moves placements and leaves them in their slots.
LEMMA ShiftLaidOut ==
    ASSUME NEW n, NEW placed, LaidOut(placed, n), NEW creep, NEW total
    PROVE  /\ LaidOut(ApplyCreepShiftToPlan(placed, creep, total), n)
           /\ Apart(placed) => Apart(ApplyCreepShiftToPlan(placed, creep, total))
<1> DEFINE offset(p) == Inwards(p.slot, ComputeCreepOffset(PhysicalSheet(p.sheet, placed),
                                          SheetsInSignature(total, placed), creep))
           f == [p \in placed |-> [p EXCEPT !.shift = @ + offset(p)]]
           all == {f[p] : p \in placed}
<1>1. CASE creep <= 0
  BY <1>1 DEF ApplyCreepShiftToPlan
<1>2. CASE ~(creep <= 0)
  <2>1. ApplyCreepShiftToPlan(placed, creep, total) = all
    BY <1>2 DEF ApplyCreepShiftToPlan
  <2>2. f = [p \in placed |-> f[p]]
    OBVIOUS
  <2>3. \A p \in placed : /\ {"sheet", "slot", "page", "shift"} \subseteq DOMAIN p
                          /\ p.sheet \in Nat
                          /\ p.page = Blank \/ p.page \in 0 .. n - 1
    BY DEF LaidOut
  <2> HIDE DEF offset
  <2>4. \A p \in placed : /\ {"sheet", "slot", "page", "shift"} \subseteq DOMAIN f[p]
                          /\ f[p].sheet = p.sheet /\ f[p].slot = p.slot /\ f[p].page = p.page
    BY <2>3
  <2> HIDE DEF f
  <2>5. IsFiniteSet(placed)
    BY DEF LaidOut
  <2>6. IsFiniteSet(all)
    BY ONLY <2>2, <2>5, ImageFinite DEF all
  <2>7. LaidOut(all, n)
    BY <2>3, <2>4, <2>6 DEF LaidOut
  <2>8. Apart(placed) => Apart(all)
    <3> SUFFICES ASSUME Apart(placed), NEW p \in placed, NEW q \in placed,
                        f[p].sheet = f[q].sheet, f[p].slot = f[q].slot
                 PROVE  f[p] = f[q]
      BY DEF Apart
    <3>1. p = q
      BY <2>4 DEF Apart
    <3> QED BY <3>1
  <2> QED BY <2>1, <2>7, <2>8
<1> QED BY <1>1, <1>2

-----------------------------------------------------------------------------
\* Splitting a list and interlacing the halves gives the list again.
LEMMA InterlacedFacts ==
    ASSUME NEW S, NEW s \in Seq(S)
    PROVE  /\ MergeInterlace(SplitEvenOdd(s)[1], SplitEvenOdd(s)[2]) \in Seq(S)
           /\ Len(MergeInterlace(SplitEvenOdd(s)[1], SplitEvenOdd(s)[2])) = Len(s)
           /\ \A i \in 1 .. Len(s) :
                 MergeInterlace(SplitEvenOdd(s)[1], SplitEvenOdd(s)[2])[i] = s[i]
<1> DEFINE n == Len(s)
           p == (n + 1) \div 2
           q == n \div 2
           evens == [i \in 1 .. p |-> s[2 * i - 1]]
           odds == [i \in 1 .. q |-> s[2 * i]]
           both == IF Len(evens) < Len(odds) THEN Len(evens) ELSE Len(odds)
           front == [i \in 1 .. 2 * both |->
                       IF i % 2 = 1 THEN evens[(i + 1) \div 2] ELSE odds[i \div 2]]
           restE == SubSeq(evens, both + 1, Len(evens))
           restO == SubSeq(odds, both + 1, Len(odds))
<1> DEFINE merged == MergeInterlace(SplitEvenOdd(s)[1], SplitEvenOdd(s)[2])
<1>1. merged = (front \o restE) \o restO
  <2>1. SplitEvenOdd(s)[1] = evens /\ SplitEvenOdd(s)[2] = odds
    BY DEF SplitEvenOdd
  <2>2. merged = MergeInterlace(evens, odds)
    BY <2>1
  <2> HIDE DEF evens, odds, merged
  <2>3. MergeInterlace(evens, odds) = (front \o restE) \o restO
    BY DEF MergeInterlace
  <2> QED BY <2>2, <2>3
<1> HIDE DEF merged
<1>2. n \in Nat /\ \A i \in 1 .. n : s[i] \in S
  BY LenProperties, ElementOfSeq
<1> HIDE DEF n
<1>3. p \in Nat /\ q \in Nat /\ p + q = n /\ q <= p /\ 2 * p - 1 <= n /\ 2 * q <= n
  BY <1>2
<1> HIDE DEF p, q
<1>4. /\ evens \in Seq(S) /\ Len(evens) = p
      /\ \A i \in 1 .. p : evens[i] \in S
  <2>1. \A i \in 1 .. p : 2 * i - 1 \in 1 .. n
    BY <1>2, <1>3
  <2>2. evens \in [1 .. p -> S]
    BY <1>2, <2>1
  <2>3. evens \in Seq(S)
    BY <1>3, <2>2, SeqDef
  <2>4. DOMAIN evens = 1 .. p
    OBVIOUS
  <2> HIDE DEF evens
  <2> QED BY <1>3, <2>2, <2>3, <2>4, LenProperties
<1>5. /\ odds \in Seq(S) /\ Len(odds) = q
      /\ \A i \in 1 .. q : odds[i] \in S
  <2>1. \A i \in 1 .. q : 2 * i \in 1 .. n
    BY <1>2, <1>3
  <2>2. odds \in [1 .. q -> S]
    BY <1>2, <2>1
  <2>3. odds \in Seq(S)
    BY <1>3, <2>2, SeqDef
  <2>4. DOMAIN odds = 1 .. q
    OBVIOUS
  <2> HIDE DEF odds
  <2> QED BY <1>3, <2>2, <2>3, <2>4, LenProperties
<1>6. both = q
  BY <1>3, <1>4, <1>5
<1>6a. (\A i \in 1 .. p : evens[i] = s[2 * i - 1]) /\ (\A i \in 1 .. q : odds[i] = s[2 * i])
  OBVIOUS
<1> HIDE DEF evens, odds, both
<1>7. front \in Seq(S) /\ Len(front) = 2 * q
  <2>1. \A i \in 1 .. 2 * q : /\ i % 2 = 1 => (i + 1) \div 2 \in 1 .. p
                              /\ i % 2 # 1 => i \div 2 \in 1 .. q
    BY <1>3
  <2>2. front \in [1 .. 2 * q -> S]
    BY <1>4, <1>5, <1>6, <2>1
  <2>3. 2 * q \in Nat /\ DOMAIN front = 1 .. 2 * q
    BY <1>3, <1>6
  <2> HIDE DEF front
  <2> DEFINE k == 2 * q
  <2>4. k \in Nat /\ front \in [1 .. k -> S] /\ DOMAIN front = 1 .. k
    BY <2>2, <2>3
  <2> HIDE DEF k
  <2>5. front \in Seq(S)
    BY <2>4, SeqDef
  <2> QED BY <2>4, <2>5, LenProperties DEF k
<1>7a. \A i \in 1 .. 2 * q : front[i] = s[i]
  <2> SUFFICES ASSUME NEW i \in 1 .. 2 * q
               PROVE  front[i] = s[i]
    OBVIOUS
  <2>1. i % 2 = 1 => (i + 1) \div 2 \in 1 .. p /\ 2 * ((i + 1) \div 2) - 1 = i
    BY <1>3
  <2>2. i % 2 # 1 => i \div 2 \in 1 .. q /\ 2 * (i \div 2) = i
    BY <1>3
  <2>3. front[i] = IF i % 2 = 1 THEN evens[(i + 1) \div 2] ELSE odds[i \div 2]
    BY <1>6
  <2>4. CASE i % 2 = 1
    BY <1>6a, <2>1, <2>3, <2>4
  <2>5. CASE i % 2 # 1
    BY <1>6a, <2>2, <2>3, <2>5
  <2> QED BY <2>4, <2>5
<1> HIDE DEF front
<1>8. restE \in Seq(S) /\ Len(restE) = p - q /\ (q < p => restE[1] = evens[q + 1])
  <2>1. q + 1 \in Int /\ p \in Int /\ \A i \in q + 1 .. p : evens[i] \in S
    BY <1>3, <1>4
  <2>2. /\ SubSeq(evens, q + 1, p) \in Seq(S)
        /\ Len(SubSeq(evens, q + 1, p)) = IF q + 1 <= p THEN p - (q + 1) + 1 ELSE 0
        /\ \A i \in 1 .. p - (q + 1) + 1 : SubSeq(evens, q + 1, p)[i] = evens[(q + 1) + i - 1]
    BY ONLY <2>1, SubSeqProperties
  <2>3. q < p => 1 \in 1 .. p - (q + 1) + 1 /\ (q + 1) + 1 - 1 = q + 1
    BY <1>3
  <2>4. restE = SubSeq(evens, q + 1, p)
    BY <1>4, <1>6
  <2>5. q < p => SubSeq(evens, q + 1, p)[1] = evens[q + 1]
    <3> SUFFICES ASSUME q < p PROVE SubSeq(evens, q + 1, p)[1] = evens[q + 1]
      OBVIOUS
    <3>1. SubSeq(evens, q + 1, p)[1] = evens[(q + 1) + 1 - 1]
      BY <2>2, <2>3
    <3> QED BY <2>3, <3>1
  <2>6. Len(SubSeq(evens, q + 1, p)) = p - q
    BY <1>3, <2>2
  <2> HIDE DEF restE
  <2> QED BY <2>2, <2>4, <2>5, <2>6
<1>9. restO \in Seq(S) /\ Len(restO) = 0
  <2>1. q + 1 \in Int /\ q \in Int /\ \A i \in q + 1 .. q : odds[i] \in S
    BY <1>3
  <2>2. /\ SubSeq(odds, q + 1, q) \in Seq(S)
        /\ Len(SubSeq(odds, q + 1, q)) = IF q + 1 <= q THEN q - (q + 1) + 1 ELSE 0
    BY ONLY <2>1, SubSeqProperties
  <2> QED BY <1>3, <1>5, <1>6, <2>2
<1> HIDE DEF restE, restO
<1>10. front \o restE \in Seq(S) /\ Len(front \o restE) = 2 * q + (p - q)
  BY <1>7, <1>8, ConcatProperties
<1>10a. \A i \in 1 .. 2 * q + (p - q) : (front \o restE)[i] = s[i]
  <2> SUFFICES ASSUME NEW i \in 1 .. 2 * q + (p - q)
               PROVE  (front \o restE)[i] = s[i]
    OBVIOUS
  <2>1. (front \o restE)[i] = IF i <= 2 * q THEN front[i] ELSE restE[i - 2 * q]
    BY <1>7, <1>8, ConcatProperties
  <2>2. CASE i <= 2 * q
    BY <1>3, <1>7a, <2>1, <2>2
  <2>3. CASE ~(i <= 2 * q)
    <3>1. q < p /\ i - 2 * q = 1 /\ q + 1 \in 1 .. p /\ 2 * (q + 1) - 1 = i
      BY <1>3, <2>3
    <3> QED BY <1>6a, <1>8, <2>1, <2>3, <3>1
  <2> QED BY <2>2, <2>3
<1>11. /\ (front \o restE) \o restO \in Seq(S)
       /\ Len((front \o restE) \o restO) = 2 * q + (p - q) + 0
       /\ \A i \in 1 .. 2 * q + (p - q) : ((front \o restE) \o restO)[i] = s[i]
  <2> DEFINE a == front \o restE
  <2>1. /\ a \in Seq(S) /\ Len(a) = 2 * q + (p - q)
        /\ \A i \in 1 .. 2 * q + (p - q) : a[i] = s[i]
    BY <1>10, <1>10a
  <2> HIDE DEF a
  <2>2. /\ a \o restO \in Seq(S) /\ Len(a \o restO) = Len(a) + Len(restO)
        /\ \A i \in 1 .. Len(a) + Len(restO) :
              (a \o restO)[i] = IF i <= Len(a) THEN a[i] ELSE restO[i - Len(a)]
    BY ONLY <2>1, <1>9, ConcatProperties
  <2>3. \A i \in 1 .. 2 * q + (p - q) : (a \o restO)[i] = a[i]
    <3> DEFINE l == 2 * q + (p - q)
    <3>1. l \in Nat /\ Len(a) = l /\ Len(restO) = 0
      BY <1>3, <1>9, <2>1
    <3> HIDE DEF l
    <3> QED BY <2>2, <3>1 DEF l
  <2> QED BY <1>9, <2>1, <2>2, <2>3 DEF a
<1>12. merged \in Seq(S) /\ Len(merged) = n /\ \A i \in 1 .. n : merged[i] = s[i]
  <2>1. 2 * q + (p - q) + 0 = n /\ 2 * q + (p - q) = n
    BY <1>3
  <2> QED BY <1>1, <1>11, <2>1
<1> QED BY <1>12 DEF n, merged

LEMMA SigSizeFacts ==
    ASSUME NEW size \in Nat
    PROVE  \E h \in Nat \ {0} : SigSize(size) = 4 * h
<1>1. CASE size < 4
  BY <1>1 DEF SigSize
<1>2. CASE ~(size < 4)
  <2>1. size \div 4 \in Nat \ {0} /\ SigSize(size) = 4 * (size \div 4)
    BY <1>2 DEF SigSize
  <2> QED BY <2>1
<1> QED BY <1>1, <1>2

LEMMA IndexFacts ==
    ASSUME NEW i, NEW L
    PROVE  /\ i % 4 = 0 => ShuffledIndex(i, L) = 2 * (i \div 4)
           /\ i % 4 = 1 => ShuffledIndex(i, L) = L - 1 - 2 * (i \div 4)
           /\ i % 4 = 2 => ShuffledIndex(i, L) = 2 * (i \div 4) + 1
           /\ i % 4 = 3 => ShuffledIndex(i, L) = L - 2 - 2 * (i \div 4)
BY DEF ShuffledIndex

\* Every page of a shuffled signature comes from the same signature, and from
\* a place of its own.
LEMMA ShuffledFacts ==
    ASSUME NEW S, NEW s \in Seq(S), NEW h \in Nat \ {0}, Len(s) % (4 * h) = 0
    PROVE  /\ Shuffled(s, 4 * h) \in Seq(S) /\ Len(Shuffled(s, 4 * h)) = Len(s)
           /\ \E g \in Bijection(1 .. Len(s), 1 .. Len(s)) :
                 \A k \in 1 .. Len(s) : Shuffled(s, 4 * h)[k] = s[g[k]]
<1> DEFINE L == 4 * h
           n == Len(s)
           m == n \div L
           at(k) == (k - 1) - ((k - 1) % L) + ShuffledIndex((k - 1) % L, L) + 1
<1>1. n \in Nat /\ DOMAIN s = 1 .. n /\ \A i \in 1 .. n : s[i] \in S
  BY LenProperties, ElementOfSeq
<1>2. L \in Nat \ {0}
  OBVIOUS
<1>3. \A i \in 0 .. L - 1 : ShuffledIndex(i, L) \in 0 .. L - 1
  <2> SUFFICES ASSUME NEW i \in 0 .. L - 1
               PROVE  ShuffledIndex(i, L) \in 0 .. L - 1
    OBVIOUS
  <2> DEFINE t == i \div 4
  <2>1. i % 4 \in {0, 1, 2, 3} /\ t \in Nat /\ t < h /\ L = 4 * h
    OBVIOUS
  <2>2. ShuffledIndex(i, L) \in {2 * t, L - 1 - 2 * t, 2 * t + 1, L - 2 - 2 * t}
    BY <2>1 DEF ShuffledIndex
  <2> HIDE DEF t
  <2>3. \A x \in {2 * t, L - 1 - 2 * t, 2 * t + 1, L - 2 - 2 * t} : x \in 0 .. L - 1
    BY <2>1
  <2> QED BY <2>2, <2>3
<1>3a. \A i, j \in 0 .. L - 1 : ShuffledIndex(i, L) = ShuffledIndex(j, L) => i = j
  <2> SUFFICES ASSUME NEW i \in 0 .. L - 1, NEW j \in 0 .. L - 1,
                      ShuffledIndex(i, L) = ShuffledIndex(j, L)
               PROVE  i = j
    OBVIOUS
  <2> DEFINE t == i \div 4
             u == j \div 4
             x == ShuffledIndex(i, L)
             y == ShuffledIndex(j, L)
  <2>1. /\ i % 4 \in {0, 1, 2, 3} /\ t \in Nat /\ t < h /\ i = 4 * t + (i % 4)
        /\ j % 4 \in {0, 1, 2, 3} /\ u \in Nat /\ u < h /\ j = 4 * u + (j % 4)
    OBVIOUS
  <2>2. /\ i % 4 = 0 => x = 2 * t
        /\ i % 4 = 1 => x = 4 * h - 1 - 2 * t
        /\ i % 4 = 2 => x = 2 * t + 1
        /\ i % 4 = 3 => x = 4 * h - 2 - 2 * t
    BY <2>1, IndexFacts
  <2>3. /\ j % 4 = 0 => y = 2 * u
        /\ j % 4 = 1 => y = 4 * h - 1 - 2 * u
        /\ j % 4 = 2 => y = 2 * u + 1
        /\ j % 4 = 3 => y = 4 * h - 2 - 2 * u
    BY <2>1, IndexFacts
  <2>4. x = y
    OBVIOUS
  <2> DEFINE a == i % 4
             b == j % 4
  <2> HIDE DEF t, u, x, y, a, b
  <2>5. t = u /\ a = b
    BY <2>1, <2>2, <2>3, <2>4 DEF a, b
  <2> QED BY <2>1, <2>5 DEF a, b
<1>4. n = m * L /\ m \in Nat
  <2>1. n % L = 0
    BY DEF n, L
  <2> HIDE DEF n, L
  <2>2. n = m * L + (n % L) /\ m \in Nat
    BY <1>1, <1>2, QuotientFacts
  <2> HIDE DEF m
  <2> DEFINE a == m * L
  <2>3. a \in Nat /\ n = a + 0
    BY <1>2, <2>1, <2>2
  <2> HIDE DEF a
  <2> QED BY <2>2, <2>3 DEF a
<1> HIDE DEF n, L, m
<1>5. \A k \in 1 .. n : at(k) \in 1 .. n
  <2> SUFFICES ASSUME NEW k \in 1 .. n
               PROVE  at(k) \in 1 .. n
    OBVIOUS
  <2> DEFINE j == k - 1
             r == j % L
             q == j \div L
             x == ShuffledIndex(r, L)
  <2>1. j \in Nat /\ j < m * L
    BY <1>1, <1>4
  <2>2. q \in Nat /\ r \in 0 .. L - 1 /\ j = q * L + r /\ q < m
    <3> HIDE DEF j
    <3> QED BY <1>2, <1>4, <2>1, QuotientFacts
  <2>3. x \in 0 .. L - 1
    BY <1>3, <2>2
  <2>4. at(k) = j - r + x + 1
    OBVIOUS
  <2> HIDE DEF j, r, q, x, at
  <2> DEFINE a == q * L
             d == m - q - 1
             b == d * L
  <2>5. d \in Nat /\ m = q + d + 1
    BY <1>4, <2>2
  <2> HIDE DEF d
  <2>6. a \in Nat /\ b \in Nat /\ m * L = a + b + L
    BY <1>2, <2>2, <2>5
  <2>7. j = a + r
    BY <2>2
  <2> HIDE DEF a, b
  <2>8. at(k) = a + x + 1 /\ n = a + b + L
    BY <1>4, <2>1, <2>2, <2>3, <2>4, <2>6, <2>7
  <2> QED BY <1>2, <2>3, <2>6, <2>8
<1>5a. \A k, l \in 1 .. n : at(k) = at(l) => k = l
  <2> SUFFICES ASSUME NEW k \in 1 .. n, NEW l \in 1 .. n, at(k) = at(l)
               PROVE  k = l
    OBVIOUS
  <2> DEFINE a == k - 1
             b == l - 1
             x == ShuffledIndex(a % L, L)
             y == ShuffledIndex(b % L, L)
  <2>1. a \in Nat /\ b \in Nat
    BY <1>1
  <2>2. (a - (a % L)) + x + 1 = (b - (b % L)) + y + 1
    OBVIOUS
  <2> HIDE DEF at
  <2>3. /\ a \div L \in Nat /\ a % L \in 0 .. L - 1 /\ a = (a \div L) * L + (a % L)
        /\ b \div L \in Nat /\ b % L \in 0 .. L - 1 /\ b = (b \div L) * L + (b % L)
    <3> HIDE DEF a, b
    <3> QED BY <1>2, <2>1, QuotientFacts
  <2>4. x \in 0 .. L - 1 /\ y \in 0 .. L - 1
    BY <1>3, <2>3
  <2> DEFINE p == a \div L
             q == b \div L
             i == a % L
             j == b % L
  <2>5. x = y => i = j
    BY <1>3a, <2>3
  <2> HIDE DEF a, b, p, q, i, j, x, y
  <2>6. p * L + x = q * L + y
    <3> DEFINE c == p * L
               e == q * L
    <3>1. c \in Nat /\ e \in Nat /\ a = c + i /\ b = e + j
      <4>1. p \in Nat /\ q \in Nat
        BY <2>3 DEF p, q
      <4>2. a = p * L + i /\ b = q * L + j
        BY <2>3 DEF p, q, i, j
      <4> QED BY <1>2, <4>1, <4>2
    <3>2. (a - i) + x + 1 = (b - j) + y + 1
      BY <2>2 DEF i, j
    <3>3. i \in Nat /\ j \in Nat /\ x \in Nat /\ y \in Nat
      BY <1>2, <2>3, <2>4 DEF i, j
    <3> HIDE DEF c, e
    <3>4. c + x = e + y
      BY <3>1, <3>2, <3>3
    <3> QED BY <3>4 DEF c, e
  <2>7. p \in Nat /\ q \in Nat
    BY <2>3 DEF p, q
  <2>8. p = q /\ x = y
    BY ONLY <1>2, <2>4, <2>6, <2>7, SameParts
  <2>9. a = b
    BY <2>3, <2>5, <2>8 DEF p, q, i, j
  <2> QED BY <1>1, <2>9 DEF a, b
<1> DEFINE g == [k \in 1 .. n |-> at(k)]
<1>5b. g \in Bijection(1 .. n, 1 .. n)
  <2>1. g \in Injection(1 .. n, 1 .. n)
    <3> HIDE DEF at
    <3> QED BY <1>5, <1>5a DEF Injection, IsInjective
  <2>2. IsFiniteSet(1 .. n)
    BY <1>1, FS_Interval
  <2> HIDE DEF g
  <2>3. g \in Surjection(1 .. n, 1 .. n)
    BY <2>1, <2>2, FS_Injection
  <2> QED BY <2>1, <2>3 DEF Bijection
<1> DEFINE f == [k \in 1 .. n |-> s[at(k)]]
<1>5c. \A k \in 1 .. n : f[k] = s[g[k]]
  BY DEF g
<1> HIDE DEF g
<1>6. Shuffled(s, L) = f
  BY <1>1 DEF Shuffled
<1> HIDE DEF at
<1>7. f \in [1 .. n -> S] /\ DOMAIN f = 1 .. n
  BY <1>1, <1>5
<1> HIDE DEF f
<1>8. f \in Seq(S)
  BY <1>1, <1>7, SeqDef
<1>9. Len(f) = n
  BY <1>1, <1>7, <1>8, LenProperties
<1> QED BY <1>5b, <1>5c, <1>6, <1>8, <1>9 DEF L, n

\* A shuffled list is not shorter than the one it is made of, and holds no
\* other pages.
LEMMA ShufflePagesFacts ==
    ASSUME NEW S, Blank \in S, NEW s \in Seq(S), NEW mode \in ShuffleModes, NEW size \in Nat
    PROVE  LET p == ShufflePages(s, mode, size) IN p \in Seq(S) /\ Len(p) >= Len(s)
<1>1. PICK h \in Nat \ {0} : SigSize(size) = 4 * h
  BY SigSizeFacts
<1> DEFINE n == Len(s)
           padded == PaddedTo(s, 4 * h)
<1>2. n \in Nat
  BY LenProperties
<1>3. /\ padded \in Seq(S) /\ Len(padded) \in Nat /\ Len(padded) >= n
      /\ Len(padded) % (4 * h) = 0
  BY PaddingFacts
<1>4. CASE mode = "evenodd"
  <2>1. LET split == SplitEvenOdd(s) IN
        ShufflePages(s, mode, size) = MergeInterlace(split[1], split[2])
    BY <1>4 DEF ShufflePages
  <2> QED BY <1>2, <2>1, InterlacedFacts
<1>5. CASE mode = "interleave"
  <2>1. ShufflePages(s, mode, size) = s
    BY <1>5 DEF ShufflePages
  <2> QED BY <1>2, <2>1
<1>6. CASE mode = "perfect"
  <2>1. ShufflePages(s, mode, size) = padded
    BY <1>1, <1>6 DEF ShufflePages
  <2> QED BY <1>3, <2>1
<1>7. CASE mode = "signature"
  <2>1. ShufflePages(s, mode, size) = Shuffled(padded, 4 * h)
    BY <1>1, <1>7 DEF ShufflePages
  <2> HIDE DEF padded
  <2>2. Shuffled(padded, 4 * h) \in Seq(S) /\ Len(Shuffled(padded, 4 * h)) = Len(padded)
    BY <1>3, ShuffledFacts
  <2> QED BY <1>2, <1>3, <2>1, <2>2
<1> QED BY <1>4, <1>5, <1>6, <1>7 DEF ShuffleModes

LEMMA ReverseFacts ==
    ASSUME NEW S, NEW s \in Seq(S)
    PROVE  /\ Reverse(s) \in Seq(S) /\ Len(Reverse(s)) = Len(s)
           /\ \A i \in 1 .. Len(s) : Reverse(s)[i] = s[(Len(s) - i) + 1]
<1> DEFINE n == Len(s)
           f == [i \in 1 .. n |-> s[(n - i) + 1]]
<1>1. n \in Nat /\ \A i \in 1 .. n : s[i] \in S
  BY LenProperties, ElementOfSeq
<1>2. Reverse(s) = f
  BY DEF Reverse
<1> HIDE DEF n
<1>3. \A i \in 1 .. n : (n - i) + 1 \in 1 .. n
  BY <1>1
<1>4. /\ f \in [1 .. n -> S] /\ DOMAIN f = 1 .. n
      /\ \A i \in 1 .. n : f[i] = s[(n - i) + 1]
  BY <1>1, <1>3
<1> HIDE DEF f
<1>5. f \in Seq(S)
  BY <1>1, <1>4, SeqDef
<1>6. Len(f) = n
  BY <1>1, <1>4, <1>5, LenProperties
<1> QED BY <1>2, <1>4, <1>5, <1>6 DEF n
-----------------------------------------------------------------------------
\* Every page of a document of n pages is in the list at one place.
Once(s, n) ==
    \A page \in 0 .. n - 1 :
        \E i \in DOMAIN s : s[i] = page /\ \A j \in DOMAIN s : s[j] = page => j = i

\* Every page of the document has one placement in the plan.
OnceEach(placed, n) ==
    \A page \in 0 .. n - 1 :
        \E q \in placed : q.page = page /\ \A p \in placed : p.page = page => p = q

LEMMA FollowedOnce ==
    ASSUME NEW n, NEW s, Once(s, n), NEW placed, Follows(placed, s)
    PROVE  OnceEach(placed, n)
<1>1. PICK f : placed = {f[i] : i \in DOMAIN s} /\ \A i \in DOMAIN s : f[i].page = s[i]
  BY DEF Follows
<1> SUFFICES ASSUME NEW page \in 0 .. n - 1
             PROVE  \E q \in placed : q.page = page /\ \A p \in placed : p.page = page => p = q
  BY DEF OnceEach
<1>2. PICK i \in DOMAIN s : s[i] = page /\ \A j \in DOMAIN s : s[j] = page => j = i
  BY DEF Once
<1>3. f[i] \in placed /\ f[i].page = page
  BY <1>1, <1>2
<1>4. \A p \in placed : p.page = page => p = f[i]
  BY <1>1, <1>2
<1> QED BY <1>3, <1>4

\* Blanks are no pages.
LEMMA PaddedOnce ==
    ASSUME NEW n \in Nat, NEW s \in Lists(n), Once(s, n), NEW multiple \in Nat
    PROVE  Once(PaddedTo(s, multiple), n)
<1> DEFINE p == PaddedTo(s, multiple)
           c == Len(s)
<1>1. c \in Nat /\ DOMAIN s = 1 .. c
  BY ListFacts
<1>2. /\ Len(p) \in Nat /\ Len(p) >= c /\ DOMAIN p = 1 .. Len(p)
      /\ \A i \in 1 .. Len(p) : p[i] = IF i <= c THEN s[i] ELSE Blank
  BY PaddingFacts DEF Lists
<1> HIDE DEF p, c
<1>3. \A page \in 0 .. n - 1 : page # Blank
  BY PagesAssumption
<1>4. \A i \in 1 .. c : i \in 1 .. Len(p) /\ p[i] = s[i]
  BY <1>1, <1>2
<1>5. \A j \in 1 .. Len(p) : j \in 1 .. c \/ p[j] = Blank
  BY <1>1, <1>2
<1>6. Once(p, n)
  <2> SUFFICES ASSUME NEW page \in 0 .. n - 1
               PROVE  \E i \in 1 .. Len(p) :
                         p[i] = page /\ \A j \in 1 .. Len(p) : p[j] = page => j = i
    BY <1>2 DEF Once
  <2>1. PICK i \in 1 .. c : s[i] = page /\ \A j \in 1 .. c : s[j] = page => j = i
    BY <1>1 DEF Once
  <2>2. i \in 1 .. Len(p) /\ p[i] = page
    BY <1>4, <2>1
  <2>3. ASSUME NEW j \in 1 .. Len(p), p[j] = page PROVE j = i
    BY <1>3, <1>4, <1>5, <2>1, <2>3
  <2> QED BY <2>2, <2>3
<1> QED BY <1>6 DEF p

\* A list that is put into another order.
LEMMA RearrangedOnce ==
    ASSUME NEW n, NEW s, NEW r, Once(s, n), NEW g \in Bijection(DOMAIN r, DOMAIN s),
           \A k \in DOMAIN r : r[k] = s[g[k]]
    PROVE  Once(r, n)
<1> SUFFICES ASSUME NEW page \in 0 .. n - 1
             PROVE  \E i \in DOMAIN r : r[i] = page /\ \A j \in DOMAIN r : r[j] = page => j = i
  BY DEF Once
<1>1. PICK i \in DOMAIN s : s[i] = page /\ \A j \in DOMAIN s : s[j] = page => j = i
  BY DEF Once
<1>2. /\ \A k \in DOMAIN r : g[k] \in DOMAIN s
      /\ \A k, l \in DOMAIN r : g[k] = g[l] => k = l
      /\ \A m \in DOMAIN s : \E k \in DOMAIN r : g[k] = m
  BY DEF Bijection, Injection, Surjection, IsInjective
<1>3. PICK k \in DOMAIN r : g[k] = i
  BY <1>2
<1>4. r[k] = page
  BY <1>1, <1>3
<1>5. \A j \in DOMAIN r : r[j] = page => j = k
  BY <1>1, <1>2, <1>3
<1> QED BY <1>4, <1>5

LEMMA ReverseOnce ==
    ASSUME NEW n, NEW s \in Lists(n), Once(s, n)
    PROVE  Once(Reverse(s), n)
<1> DEFINE c == Len(s)
           r == Reverse(s)
           g == [i \in 1 .. c |-> (c - i) + 1]
           S == (0 .. n - 1) \union {Blank}
<1>1. c \in Nat /\ DOMAIN s = 1 .. c
  BY ListFacts
<1>2. r \in Seq(S) /\ Len(r) = c /\ \A i \in 1 .. c : r[i] = s[(c - i) + 1]
  <2>1. s \in Seq(S)
    BY DEF Lists
  <2> HIDE DEF S
  <2> QED BY <2>1, ReverseFacts
<1> HIDE DEF S, r, c
<1>3. DOMAIN r = 1 .. c
  BY <1>1, <1>2, LenProperties
<1>4. g \in Bijection(1 .. c, 1 .. c)
  <2>1. \A i \in 1 .. c : g[i] = (c - i) + 1 /\ g[i] \in 1 .. c
    BY <1>1
  <2>2. g \in [1 .. c -> 1 .. c]
    BY <2>1
  <2> HIDE DEF g
  <2>3. \A i, j \in 1 .. c : g[i] = g[j] => i = j
    BY <1>1, <2>1
  <2>4. \A m \in 1 .. c : (c - m) + 1 \in 1 .. c /\ g[(c - m) + 1] = m
    BY <1>1, <2>1
  <2> QED BY <2>2, <2>3, <2>4 DEF Bijection, Injection, Surjection, IsInjective
<1>5. \A k \in 1 .. c : r[k] = s[g[k]]
  BY <1>2
<1> HIDE DEF g
<1>6. Once(r, n)
  <2>1. g \in Bijection(DOMAIN r, DOMAIN s) /\ \A k \in DOMAIN r : r[k] = s[g[k]]
    BY <1>1, <1>3, <1>4, <1>5
  <2> QED BY <2>1, RearrangedOnce
<1> QED BY <1>6 DEF r

\* The halves of a list interlaced.
LEMMA InterlacedOnce ==
    ASSUME NEW n, NEW s \in Lists(n), Once(s, n)
    PROVE  Once(MergeInterlace(SplitEvenOdd(s)[1], SplitEvenOdd(s)[2]), n)
<1> DEFINE r == MergeInterlace(SplitEvenOdd(s)[1], SplitEvenOdd(s)[2])
           S == (0 .. n - 1) \union {Blank}
<1>1. Len(s) \in Nat /\ DOMAIN s = 1 .. Len(s)
  BY ListFacts
<1>2. r \in Seq(S) /\ Len(r) = Len(s) /\ \A i \in 1 .. Len(s) : r[i] = s[i]
  <2>1. s \in Seq(S)
    BY DEF Lists
  <2> HIDE DEF S
  <2> QED BY <2>1, InterlacedFacts
<1> HIDE DEF S, r
<1>3. DOMAIN r = DOMAIN s
  BY <1>1, <1>2, LenProperties
<1>4. Once(r, n)
  BY <1>1, <1>2, <1>3 DEF Once
<1> QED BY <1>4 DEF r

\* No shuffle loses a page or repeats one.
LEMMA ShufflePagesOnce ==
    ASSUME NEW n \in Nat, NEW s \in Lists(n), Once(s, n), NEW mode \in ShuffleModes,
           NEW size \in Nat
    PROVE  Once(ShufflePages(s, mode, size), n)
<1>1. PICK h \in Nat \ {0} : SigSize(size) = 4 * h
  BY SigSizeFacts
<1> DEFINE padded == PaddedTo(s, 4 * h)
           shuffled == Shuffled(padded, 4 * h)
           S == (0 .. n - 1) \union {Blank}
           c == Len(padded)
<1>2. Once(padded, n)
  BY PaddedOnce
<1>3. padded \in Seq(S) /\ c \in Nat /\ c % (4 * h) = 0
  BY PaddingFacts DEF Lists
<1>4. CASE mode = "evenodd"
  <2>1. ShufflePages(s, mode, size) = MergeInterlace(SplitEvenOdd(s)[1], SplitEvenOdd(s)[2])
    BY <1>4 DEF ShufflePages
  <2> QED BY <2>1, InterlacedOnce
<1>5. CASE mode = "interleave"
  BY <1>5 DEF ShufflePages
<1>6. CASE mode = "perfect"
  <2>1. ShufflePages(s, mode, size) = padded
    BY <1>1, <1>6 DEF ShufflePages
  <2> QED BY <1>2, <2>1
<1>7. CASE mode = "signature"
  <2>1. ShufflePages(s, mode, size) = shuffled
    BY <1>1, <1>7 DEF ShufflePages
  <2> HIDE DEF padded, S
  <2>2. /\ shuffled \in Seq(S) /\ Len(shuffled) = c
        /\ \E g \in Bijection(1 .. c, 1 .. c) : \A k \in 1 .. c : shuffled[k] = padded[g[k]]
    BY <1>3, ShuffledFacts
  <2>3. DOMAIN shuffled = 1 .. c /\ DOMAIN padded = 1 .. c
    <3> HIDE DEF shuffled
    <3> QED BY <1>3, <2>2, LenProperties
  <2> HIDE DEF shuffled, c
  <2>4. Once(shuffled, n)
    BY <1>2, <2>2, <2>3, RearrangedOnce
  <2> QED BY <2>1, <2>4
<1> QED BY <1>4, <1>5, <1>6, <1>7 DEF ShuffleModes

-----------------------------------------------------------------------------
\* The place in the signature of the page on a half of sheet t of k.
HalfFrom(q, t, k) ==
    CASE q.side = 0 /\ q.slot = 0 -> 4 * k - 2 * t
      [] q.side = 0 /\ q.slot = 1 -> 2 * t + 1
      [] q.side = 1 /\ q.slot = 0 -> 2 * t + 2
      [] q.side = 1 /\ q.slot = 1 -> 4 * k - 1 - 2 * t

LEMMA HalfFromFacts ==
    ASSUME NEW q, NEW t, NEW k
    PROVE  /\ q.side = 0 /\ q.slot = 0 => HalfFrom(q, t, k) = 4 * k - 2 * t
           /\ q.side = 0 /\ q.slot = 1 => HalfFrom(q, t, k) = 2 * t + 1
           /\ q.side = 1 /\ q.slot = 0 => HalfFrom(q, t, k) = 2 * t + 2
           /\ q.side = 1 /\ q.slot = 1 => HalfFrom(q, t, k) = 4 * k - 1 - 2 * t
BY DEF HalfFrom

\* The halves of the sheets of a signature are its places, each once.
LEMMA HalvesFacts ==
    ASSUME NEW s, NEW k \in Nat, Len(s) = 4 * k
    PROVE  /\ \A t \in 0 .. k - 1 : \A q \in SheetSides(s, t) :
                 HalfFrom(q, t, k) \in 1 .. 4 * k /\ q.page = s[HalfFrom(q, t, k)]
           /\ \A i \in 1 .. 4 * k : \E t \in 0 .. k - 1 : \E q \in SheetSides(s, t) :
                 HalfFrom(q, t, k) = i
           /\ \A t, u \in 0 .. k - 1 : \A q \in SheetSides(s, t), r \in SheetSides(s, u) :
                 HalfFrom(q, t, k) = HalfFrom(r, u, k) => t = u /\ q = r
<1> DEFINE half(side, slot, index) ==
              [side |-> side, slot |-> slot, page |-> s[index + 1]]
           last == Len(s) - 1
           a(t) == half(0, 0, last - 2 * t)
           b(t) == half(0, 1, 2 * t)
           c(t) == half(1, 0, 2 * t + 1)
           d(t) == half(1, 1, last - 1 - 2 * t)
<1>1. \A t : SheetSides(s, t) = {a(t), b(t), c(t), d(t)}
  BY DEF SheetSides
<1>2. \A t \in 0 .. k - 1 :
         /\ HalfFrom(a(t), t, k) = 4 * k - 2 * t /\ a(t).page = s[4 * k - 2 * t]
         /\ HalfFrom(b(t), t, k) = 2 * t + 1     /\ b(t).page = s[2 * t + 1]
         /\ HalfFrom(c(t), t, k) = 2 * t + 2     /\ c(t).page = s[2 * t + 2]
         /\ HalfFrom(d(t), t, k) = 4 * k - 1 - 2 * t /\ d(t).page = s[4 * k - 1 - 2 * t]
  <2> SUFFICES ASSUME NEW t \in 0 .. k - 1
               PROVE  /\ HalfFrom(a(t), t, k) = 4 * k - 2 * t /\ a(t).page = s[4 * k - 2 * t]
                      /\ HalfFrom(b(t), t, k) = 2 * t + 1     /\ b(t).page = s[2 * t + 1]
                      /\ HalfFrom(c(t), t, k) = 2 * t + 2     /\ c(t).page = s[2 * t + 2]
                      /\ HalfFrom(d(t), t, k) = 4 * k - 1 - 2 * t
                      /\ d(t).page = s[4 * k - 1 - 2 * t]
    OBVIOUS
  <2>1. /\ a(t).side = 0 /\ a(t).slot = 0 /\ a(t).page = s[4 * k - 2 * t]
        /\ b(t).side = 0 /\ b(t).slot = 1 /\ b(t).page = s[2 * t + 1]
        /\ c(t).side = 1 /\ c(t).slot = 0 /\ c(t).page = s[2 * t + 2]
        /\ d(t).side = 1 /\ d(t).slot = 1 /\ d(t).page = s[4 * k - 1 - 2 * t]
    <3>1. /\ last - 2 * t + 1 = 4 * k - 2 * t /\ 2 * t + 1 + 1 = 2 * t + 2
          /\ last - 1 - 2 * t + 1 = 4 * k - 1 - 2 * t
      OBVIOUS
    <3> QED BY <3>1
  <2> HIDE DEF a, b, c, d
  <2> QED BY <2>1, HalfFromFacts
<1> HIDE DEF a, b, c, d
<1>3. \A t \in 0 .. k - 1 : \A q \in SheetSides(s, t) :
         HalfFrom(q, t, k) \in 1 .. 4 * k /\ q.page = s[HalfFrom(q, t, k)]
  BY <1>1, <1>2
<1>4. ASSUME NEW i \in 1 .. 4 * k
      PROVE  \E t \in 0 .. k - 1 : \E q \in SheetSides(s, t) : HalfFrom(q, t, k) = i
  <2> DEFINE l == (i - 1) \div 2
             u == (4 * k - i) \div 2
  <2>1. CASE i <= 2 * k
    <3>1. l \in 0 .. k - 1 /\ (2 * l + 1 = i \/ 2 * l + 2 = i)
      BY <2>1
    <3> HIDE DEF l
    <3> QED BY <1>1, <1>2, <3>1
  <2>2. CASE ~(i <= 2 * k)
    <3>1. u \in 0 .. k - 1 /\ (4 * k - 2 * u = i \/ 4 * k - 1 - 2 * u = i)
      BY <2>2
    <3> HIDE DEF u
    <3> QED BY <1>1, <1>2, <3>1
  <2> QED BY <2>1, <2>2
<1>5. ASSUME NEW t \in 0 .. k - 1, NEW u \in 0 .. k - 1,
             NEW q \in SheetSides(s, t), NEW r \in SheetSides(s, u),
             HalfFrom(q, t, k) = HalfFrom(r, u, k)
      PROVE  t = u /\ q = r
  <2>1. q \in {a(t), b(t), c(t), d(t)} /\ r \in {a(u), b(u), c(u), d(u)}
    BY <1>1
  <2>2. t = u
    BY <1>2, <1>5, <2>1
  <2>3. CASE q = a(t)
    BY <1>2, <1>5, <2>1, <2>2, <2>3
  <2>4. CASE q = b(t)
    BY <1>2, <1>5, <2>1, <2>2, <2>4
  <2>5. CASE q = c(t)
    BY <1>2, <1>5, <2>1, <2>2, <2>5
  <2>6. CASE q = d(t)
    BY <1>2, <1>5, <2>1, <2>2, <2>6
  <2> QED BY <2>1, <2>2, <2>3, <2>4, <2>5, <2>6
<1> QED BY <1>3, <1>4, <1>5

\* A booklet has every page of its list.
LEMMA BookletOnce ==
    ASSUME NEW n \in Nat, NEW s \in Lists(n), Once(s, n), NEW sheet, NEW creep
    PROVE  OnceEach(Booklet(s, sheet, creep), n)
<1> DEFINE signature == PaddedTo(s, 4)
           k == Len(signature) \div 4
           half == Size(sheet.w \div 2, sheet.h)
           placed(t, q) == [Place(2 * t + q.side, q.slot, q.page,
                                  Rect(q.slot * half.w, 0, half), FALSE)
                              EXCEPT !.shift = Inwards(q.slot, CreepMagnitude(t, creep))]
           on(t) == {placed(t, q) : q \in SheetSides(signature, t)}
           sheets == {on(t) : t \in 0 .. k - 1}
<1>1. Booklet(s, sheet, creep) = UNION sheets
  BY DEF Booklet
<1>2. signature \in Lists(n) /\ k \in Nat /\ Len(signature) = 4 * k
  <2> DEFINE c == Len(signature)
  <2>1. signature \in Lists(n) /\ c \in Nat /\ c % 4 = 0
    BY PaddingFacts DEF Lists
  <2> HIDE DEF signature, c
  <2>2. c \div 4 \in Nat /\ c = 4 * (c \div 4)
    BY <2>1
  <2> QED BY <2>1, <2>2 DEF c
<1>3. Once(signature, n)
  BY PaddedOnce
<1> HIDE DEF signature, k
<1>4. \A t, q : placed(t, q).page = q.page
  BY DEF Place
<1> HIDE DEF placed
<1>5. /\ DOMAIN signature = 1 .. 4 * k
      /\ \A t \in 0 .. k - 1 : \A q \in SheetSides(signature, t) :
            HalfFrom(q, t, k) \in 1 .. 4 * k /\ q.page = signature[HalfFrom(q, t, k)]
      /\ \A i \in 1 .. 4 * k : \E t \in 0 .. k - 1 : \E q \in SheetSides(signature, t) :
            HalfFrom(q, t, k) = i
      /\ \A t, u \in 0 .. k - 1 :
            \A q \in SheetSides(signature, t), r \in SheetSides(signature, u) :
               HalfFrom(q, t, k) = HalfFrom(r, u, k) => t = u /\ q = r
  <2>1. DOMAIN signature = 1 .. 4 * k
    BY <1>2, ListFacts
  <2>2. k \in Nat /\ Len(signature) = 4 * k
    BY <1>2
  <2> QED BY ONLY <2>1, <2>2, HalvesFacts
<1> DEFINE all == UNION sheets
<1>6. \A p \in all : \E t \in 0 .. k - 1 : \E q \in SheetSides(signature, t) : p = placed(t, q)
  OBVIOUS
<1>7. \A t \in 0 .. k - 1 : \A q \in SheetSides(signature, t) : placed(t, q) \in all
  OBVIOUS
<1> HIDE DEF all
<1>8. ASSUME NEW page \in 0 .. n - 1
      PROVE  \E o \in all : o.page = page /\ \A p \in all : p.page = page => p = o
  <2>1. PICK i \in 1 .. 4 * k :
          signature[i] = page /\ \A j \in 1 .. 4 * k : signature[j] = page => j = i
    BY <1>3, <1>5 DEF Once
  <2>2. PICK t \in 0 .. k - 1 : \E q \in SheetSides(signature, t) : HalfFrom(q, t, k) = i
    BY <1>5
  <2>3. PICK q \in SheetSides(signature, t) : HalfFrom(q, t, k) = i
    BY <2>2
  <2>4. q.page = page
    BY <1>5, <2>1, <2>3
  <2>5. placed(t, q) \in all /\ placed(t, q).page = page
    BY <1>4, <1>7, <2>4
  <2>6. ASSUME NEW p \in all, p.page = page PROVE p = placed(t, q)
    <3>1. PICK u \in 0 .. k - 1 : \E r \in SheetSides(signature, u) : p = placed(u, r)
      BY <1>6
    <3>2. PICK r \in SheetSides(signature, u) : p = placed(u, r)
      BY <3>1
    <3>3. HalfFrom(r, u, k) \in 1 .. 4 * k /\ signature[HalfFrom(r, u, k)] = page
      BY <1>4, <1>5, <2>6, <3>2
    <3>4. HalfFrom(r, u, k) = HalfFrom(q, t, k)
      BY <2>1, <2>3, <3>3
    <3>5. u = t /\ r = q
      BY <1>5, <3>4
    <3> QED BY <3>2, <3>5
  <2> QED BY <2>5, <2>6
<1> QED BY <1>1, <1>8 DEF OnceEach, all

\* The creep shift loses and doubles nothing.
LEMMA ShiftOnce ==
    ASSUME NEW n, NEW m, NEW placed, LaidOut(placed, m), OnceEach(placed, n), NEW creep, NEW total
    PROVE  OnceEach(ApplyCreepShiftToPlan(placed, creep, total), n)
<1> DEFINE offset(p) == Inwards(p.slot, ComputeCreepOffset(PhysicalSheet(p.sheet, placed),
                                          SheetsInSignature(total, placed), creep))
           f == [p \in placed |-> [p EXCEPT !.shift = @ + offset(p)]]
           all == {f[p] : p \in placed}
<1>1. CASE creep <= 0
  BY <1>1 DEF ApplyCreepShiftToPlan
<1>2. CASE ~(creep <= 0)
  <2>1. ApplyCreepShiftToPlan(placed, creep, total) = all
    BY <1>2 DEF ApplyCreepShiftToPlan
  <2>2. \A p \in placed : {"sheet", "slot", "page", "shift"} \subseteq DOMAIN p
    BY DEF LaidOut
  <2> HIDE DEF offset
  <2>3. \A p \in placed : f[p].page = p.page
    BY <2>2
  <2> HIDE DEF f
  <2>4. OnceEach(all, n)
    <3> SUFFICES ASSUME NEW page \in 0 .. n - 1
                 PROVE  \E q \in all : q.page = page /\ \A p \in all : p.page = page => p = q
      BY DEF OnceEach
    <3>1. PICK q \in placed : q.page = page /\ \A p \in placed : p.page = page => p = q
      BY DEF OnceEach
    <3>2. f[q] \in all /\ f[q].page = page
      BY <2>3, <3>1
    <3>3. \A p \in all : p.page = page => p = f[q]
      BY <2>3, <3>1
    <3> QED BY <3>2, <3>3
  <2> QED BY <2>1, <2>4
<1> QED BY <1>1, <1>2

\* A page has as many tiles as the grid has cells.
LEMMA TilesOfPage ==
    ASSUME NEW n \in Nat, NEW columns \in Nat \ {0}, NEW rows \in Nat \ {0}, NEW size,
           NEW page \in 0 .. n - 1, NEW tiles,
           \A p : p \in tiles <=>
                    p \in BuildTilePlan(n, columns, rows, size) /\ p.page = page
    PROVE  Cardinality(tiles) = columns * rows
<1> DEFINE cell == Rect(0, 0, TileSheet(columns, rows, size))
           c == columns * rows
           put(p, slot) == Place(p, slot, p, cell, FALSE)
           g == [slot \in 0 .. c - 1 |-> put(page, slot)]
           plan == BuildTilePlan(n, columns, rows, size)
<1>1. c \in Nat \ {0}
  BY SMT
<1>2. plan = {put(p, slot) : p \in 0 .. n - 1, slot \in 0 .. c - 1}
  BY DEF BuildTilePlan
<1>3. \A p, slot : put(p, slot).page = p /\ put(p, slot).slot = slot
  BY DEF Place
<1> HIDE DEF c, put
<1>4. \A p \in tiles : \E slot \in 0 .. c - 1 : p = put(page, slot)
  BY <1>2, <1>3
<1>5. \A slot \in 0 .. c - 1 : put(page, slot) \in tiles
  BY <1>2, <1>3
<1>6. g \in Bijection(0 .. c - 1, tiles)
  <2>1. \A slot \in 0 .. c - 1 : g[slot] = put(page, slot)
    OBVIOUS
  <2>2. g \in [0 .. c - 1 -> tiles]
    BY <1>5
  <2> HIDE DEF g
  <2>3. \A i, j \in 0 .. c - 1 : g[i] = g[j] => i = j
    BY <1>3, <2>1
  <2>4. \A p \in tiles : \E i \in 0 .. c - 1 : g[i] = p
    BY <1>4, <2>1
  <2> QED BY <2>2, <2>3, <2>4 DEF Bijection, Injection, Surjection, IsInjective
<1>7. IsFiniteSet(0 .. c - 1) /\ Cardinality(0 .. c - 1) = c
  <2>1. 0 \in Int /\ c - 1 \in Int /\ 0 <= c - 1 /\ (c - 1) - 0 + 1 = c
    BY <1>1
  <2> HIDE DEF c
  <2>2. IsFiniteSet(0 .. c - 1) /\ Cardinality(0 .. c - 1) = (c - 1) - 0 + 1
    BY <2>1, FS_Interval
  <2> QED BY <2>1, <2>2
<1> HIDE DEF g
<1>8. Cardinality(tiles) = c
  <2>1. IsFiniteSet(tiles) /\ Cardinality(0 .. c - 1) = Cardinality(tiles)
    BY ONLY <1>6, <1>7, FS_Surjection DEF Bijection
  <2> QED BY <1>7, <2>1
<1> QED BY <1>8 DEF c

-----------------------------------------------------------------------------
\* The k-th index grows with k.
LEMMA NthGrows ==
    ASSUME NEW P \in SUBSET Nat, IsFiniteSet(P),
           NEW k \in 1 .. Cardinality(P), NEW l \in 1 .. Cardinality(P), k < l
    PROVE  Nth(P, k) < Nth(P, l)
<1> DEFINE x == Nth(P, k)
           y == Nth(P, l)
           A == {j \in P : j <= x}
           B == {j \in P : j <= y}
<1>1. x \in Nat /\ y \in Nat /\ Cardinality(A) = k /\ Cardinality(B) = l
  <2>1. /\ [m \in 1 .. Cardinality(P) |-> Nth(P, m)] \in Bijection(1 .. Cardinality(P), P)
        /\ \A m \in 1 .. Cardinality(P) : Cardinality({j \in P : j <= Nth(P, m)}) = m
    BY NthFacts
  <2>2. \A m \in 1 .. Cardinality(P) : Nth(P, m) \in P
    BY <2>1 DEF Bijection, Injection
  <2> QED BY <2>1, <2>2
<1>2. A \in SUBSET P
  OBVIOUS
<1> HIDE DEF x, y
<1>3. ASSUME y <= x PROVE FALSE
  <2>1. B \in SUBSET A
    <3>1. \A j \in P : j \in Nat
      OBVIOUS
    <3>2. \A j \in P : j <= y => j <= x
      BY <1>1, <1>3, <3>1
    <3> QED BY <3>2
  <2>2. IsFiniteSet(A)
    BY <1>2, FS_Subset
  <2> HIDE DEF A, B
  <2>3. Cardinality(B) <= Cardinality(A)
    BY <2>1, <2>2, FS_Subset
  <2>4. k \in Nat /\ l \in Nat
    BY FS_CardinalityType
  <2> QED BY <1>1, <2>3, <2>4
<1>4. x < y
  BY <1>1, <1>3
<1> QED BY <1>4 DEF x, y

\* Of two numbers the larger one has the larger quotient, or the same one and
\* the larger remainder.
LEMMA DivisionGrows ==
    ASSUME NEW c \in Nat \ {0}, NEW a \in Nat, NEW b \in Nat, a < b
    PROVE  /\ a \div c \in Nat /\ b \div c \in Nat /\ a % c \in Nat /\ b % c \in Nat
           /\ a \div c < b \div c \/ (a \div c = b \div c /\ a % c < b % c)
<1> DEFINE p == a \div c
           q == b \div c
           r == a % c
           t == b % c
<1>1. /\ p \in Nat /\ r \in 0 .. c - 1 /\ a = p * c + r
      /\ q \in Nat /\ t \in 0 .. c - 1 /\ b = q * c + t
      /\ \A k \in Nat : b < k * c => q < k
  BY QuotientFacts
<1> HIDE DEF p, q, r, t
<1>2. CASE p = q
  <2> DEFINE m == p * c
  <2>1. m \in Nat /\ a = m + r /\ b = m + t
    BY <1>1, <1>2
  <2> HIDE DEF m
  <2>2. r < t
    BY <1>1, <2>1
  <2> QED BY <1>1, <1>2, <2>2 DEF p, q, r, t
<1>3. CASE q < p
  <2> PICK d \in Nat : p = q + 1 + d
    BY <1>1, <1>3
  <2> DEFINE m == q * c
             e == d * c
  <2>1. m \in Nat /\ e \in Nat /\ p * c = m + c + e
    BY <1>1
  <2>2. b = m + t
    BY <1>1
  <2> HIDE DEF m, e
  <2> QED BY <1>1, <2>1, <2>2
<1>4. CASE p < q
  BY <1>1, <1>4 DEF p, q, r, t
<1> QED BY <1>1, <1>2, <1>3, <1>4

\* A row or column ends where the next one begins, or before.
LEMMA StepsApart ==
    ASSUME NEW a \in Nat, NEW b \in Nat, a < b, NEW step \in Nat, NEW size \in Nat, size <= step
    PROVE  a * step + size <= b * step
<1> PICK d \in Nat : b = a + 1 + d
  OBVIOUS
<1> DEFINE m == a * step
           e == d * step
<1>1. m \in Nat /\ e \in Nat /\ b * step = m + step + e
  OBVIOUS
<1> HIDE DEF m, e
<1>2. m + size <= b * step
  BY <1>1
<1> QED BY <1>2 DEF m

\* How a page that comes before another one lies to it.
Before(p, q) ==
    \/ p.sheet < q.sheet
    \/ p.sheet = q.sheet /\ p.cell.y + p.cell.h <= q.cell.y
    \/ p.sheet = q.sheet /\ p.cell.y = q.cell.y /\ p.cell.x + p.cell.w <= q.cell.x

ReadInOrder(placed) == \A p, q \in placed : p.page < q.page => Before(p, q)

\* Pages in the order of their numbers.
Rising(s) == \A i, j \in DOMAIN s : s[i] < s[j] => i < j

\* Of two cells of a grid the one with the smaller number comes before.
LEMMA CellsInOrder ==
    ASSUME NEW p, NEW q, p.sheet = q.sheet,
           NEW columns \in Nat \ {0}, NEW a \in Nat, NEW b \in Nat, a < b,
           NEW stepX \in Nat, NEW stepY \in Nat, NEW size,
           size.w \in Nat, size.h \in Nat, size.w <= stepX, size.h <= stepY,
           p.cell = Rect((a % columns) * stepX, (a \div columns) * stepY, size),
           q.cell = Rect((b % columns) * stepX, (b \div columns) * stepY, size)
    PROVE  Before(p, q)
<1> DEFINE r == a \div columns
           t == b \div columns
           c == a % columns
           d == b % columns
<1>1. r \in Nat /\ t \in Nat /\ c \in Nat /\ d \in Nat /\ (r < t \/ (r = t /\ c < d))
  BY DivisionGrows
<1>2. /\ p.cell.y = r * stepY /\ p.cell.x = c * stepX /\ p.cell.w = size.w /\ p.cell.h = size.h
      /\ q.cell.y = t * stepY /\ q.cell.x = d * stepX
  BY DEF Rect
<1> HIDE DEF r, t, c, d
<1>3. CASE r < t
  <2>1. r * stepY + size.h <= t * stepY
    BY <1>1, <1>3, StepsApart
  <2> QED BY <1>2, <2>1 DEF Before
<1>4. CASE r = t /\ c < d
  <2>1. c * stepX + size.w <= d * stepX
    BY <1>1, <1>4, StepsApart
  <2> QED BY <1>2, <1>4, <2>1 DEF Before
<1> QED BY <1>1, <1>3, <1>4

LEMMA QuotientGrows ==
    ASSUME NEW m \in Nat, NEW i \in Nat, NEW j \in Nat, i < j
    PROVE  /\ Quotient(i, m) \in Nat /\ Quotient(j, m) \in Nat
           /\ Remainder(i, m) \in Nat /\ Remainder(j, m) \in Nat
           /\ \/ Quotient(i, m) < Quotient(j, m)
              \/ Quotient(i, m) = Quotient(j, m) /\ Remainder(i, m) < Remainder(j, m)
<1>1. CASE m = 0
  <2>1. \A k \in Nat : Quotient(k, m) = 0 /\ Remainder(k, m) = k
    BY <1>1 DEF Quotient, Remainder
  <2> QED BY <2>1
<1>2. CASE m # 0
  <2>1. \A k \in Nat : Quotient(k, m) = k \div m /\ Remainder(k, m) = k % m
    <3> SUFFICES ASSUME NEW k \in Nat
                 PROVE  Quotient(k, m) = k \div m /\ Remainder(k, m) = k % m
      OBVIOUS
    <3> DEFINE e == (k \div m) * m
    <3>1. k \div m \in Nat /\ k % m \in 0 .. m - 1 /\ k = e + (k % m)
      BY <1>2, QuotientFacts
    <3> DEFINE r == k % m
               q == k \div m
    <3>2. q \in Nat /\ r \in Nat
      BY <3>1
    <3> HIDE DEF q, r
    <3>3. e \in Nat
      <4>1. q * m \in Nat
        BY <3>2
      <4> QED BY <4>1 DEF q
    <3>4. Quotient(k, m) = q /\ Remainder(k, m) = k - e
      BY <1>2 DEF Quotient, Remainder, q
    <3> HIDE DEF e
    <3>5. k - e = r
      BY <3>1, <3>2, <3>3 DEF r
    <3> QED BY <3>4, <3>5 DEF q, r
  <2>2. m \in Nat \ {0}
    BY <1>2
  <2>3. /\ i \div m \in Nat /\ j \div m \in Nat /\ i % m \in Nat /\ j % m \in Nat
        /\ i \div m < j \div m \/ (i \div m = j \div m /\ i % m < j % m)
    BY ONLY <2>2, i \in Nat, j \in Nat, i < j, DivisionGrows
  <2>4. /\ Quotient(i, m) = i \div m /\ Remainder(i, m) = i % m
        /\ Quotient(j, m) = j \div m /\ Remainder(j, m) = j % m
    BY <2>1
  <2> QED BY ONLY <2>3, <2>4
<1> QED BY <1>1, <1>2

\* Sheets n-up are read in the order of the pages, also where the number of
\* slots wraps.
LEMMA NUpReadsInOrder ==
    ASSUME NEW n, NEW s \in Lists(n), Rising(s), NEW sheet, sheet.w \in Nat, sheet.h \in Nat,
           NEW columns \in Nat \ {0}, NEW rows \in Nat \ {0}, NEW options
    PROVE  ReadInOrder(NUp(s, sheet, columns, rows, options))
<1> DEFINE m == SlotsPerSheet(columns, rows)
           size == Size(sheet.w \div columns, sheet.h \div rows)
           slot(i) == Remainder(i - 1, m)
           cell(i) == Cell(slot(i), columns, rows, sheet)
           put(i) == Place(Quotient(i - 1, m), slot(i), s[i], cell(i), Turned(cell(i), options))
<1>1. NUp(s, sheet, columns, rows, options) = {put(i) : i \in DOMAIN s}
  BY DEF NUp
<1>2. \A i : /\ put(i).sheet = Quotient(i - 1, m) /\ put(i).page = s[i]
             /\ put(i).cell = cell(i)
  BY DEF Place
<1>3. \A i : cell(i) = Rect((slot(i) % columns) * size.w, (slot(i) \div columns) * size.h, size)
  BY DEF Cell
<1>4. size.w \in Nat /\ size.h \in Nat
  <2>1. sheet.w \div columns \in Nat /\ sheet.h \div rows \in Nat
    BY QuotientFacts
  <2> QED BY <2>1 DEF Size
<1>5. m \in Nat
  <2> DEFINE a == columns * rows
  <2>1. a \in Nat
    OBVIOUS
  <2> HIDE DEF a
  <2>2. a % Word \in Nat
    BY <2>1, PagesAssumption
  <2> QED BY <2>2 DEF a, SlotsPerSheet
<1> HIDE DEF put, cell, size, m
<1>6. \A i \in DOMAIN s : i \in Nat /\ i - 1 \in Nat
  BY ListFacts
<1>7. ASSUME NEW i \in DOMAIN s, NEW j \in DOMAIN s, s[i] < s[j]
      PROVE  Before(put(i), put(j))
  <2> DEFINE a == i - 1
             b == j - 1
  <2>1. a \in Nat /\ b \in Nat /\ a < b
    BY <1>6, <1>7 DEF Rising
  <2> HIDE DEF a, b
  <2>2. /\ Quotient(a, m) \in Nat /\ Quotient(b, m) \in Nat
        /\ Remainder(a, m) \in Nat /\ Remainder(b, m) \in Nat
        /\ \/ Quotient(a, m) < Quotient(b, m)
           \/ Quotient(a, m) = Quotient(b, m) /\ Remainder(a, m) < Remainder(b, m)
    BY <1>5, <2>1, QuotientGrows
  <2> DEFINE p == put(i)
             q == put(j)
             x == Remainder(a, m)
             y == Remainder(b, m)
  <2>3. /\ p.sheet = Quotient(a, m) /\ q.sheet = Quotient(b, m)
        /\ p.cell = Rect((x % columns) * size.w, (x \div columns) * size.h, size)
        /\ q.cell = Rect((y % columns) * size.w, (y \div columns) * size.h, size)
    BY <1>2, <1>3 DEF a, b
  <2> HIDE DEF p, q, x, y
  <2>4. CASE Quotient(a, m) < Quotient(b, m)
    BY <2>3, <2>4 DEF Before, p, q
  <2>5. CASE Quotient(a, m) = Quotient(b, m) /\ Remainder(a, m) < Remainder(b, m)
    <3>1. /\ p.sheet = q.sheet /\ x \in Nat /\ y \in Nat /\ x < y
          /\ size.w <= size.w /\ size.h <= size.h
      BY <1>4, <2>2, <2>3, <2>5 DEF x, y
    <3>2. Before(p, q)
      BY ONLY <1>4, <2>3, <3>1, columns \in Nat \ {0}, CellsInOrder
    <3> QED BY <3>2 DEF p, q
  <2> QED BY <2>2, <2>4, <2>5
<1>8. ReadInOrder({put(i) : i \in DOMAIN s})
  BY <1>2, <1>7 DEF ReadInOrder
<1> QED BY <1>1, <1>8

\* So are copies that are at least their own size apart, whichever of the
\* cells the sheet has no room for.
LEMMA StepAndRepeatReadsInOrder ==
    ASSUME NEW n, NEW s \in Lists(n), Rising(s), NEW sheet, NEW config,
           config.columns \in Nat \ {0}, config.rows \in Nat,
           config.stepX \in Nat, config.stepY \in Nat,
           config.seed.w \in Nat, config.seed.h \in Nat,
           config.seed.w <= config.stepX, config.seed.h <= config.stepY, NEW options
    PROVE  ReadInOrder(StepAndRepeat(s, sheet, config, options))
<1> DEFINE cells == Repeats(config, sheet)
           perSheet == Cardinality(cells)
           place(i) == Nth(cells, ((i - 1) % perSheet) + 1)
           cell(i) == Rect((place(i) % config.columns) * config.stepX,
                           (place(i) \div config.columns) * config.stepY, config.seed)
           put(i) == Place((i - 1) \div perSheet, place(i) % Word, s[i],
                           cell(i), Turned(cell(i), options))
<1>1. cells \in SUBSET Nat /\ IsFiniteSet(cells)
  BY RepeatsFacts
<1>2. StepAndRepeat(s, sheet, config, options)
         = IF cells = {} THEN {} ELSE {put(i) : i \in DOMAIN s}
  BY DEF StepAndRepeat
<1>3. CASE cells # {}
  <2>1. perSheet \in Nat \ {0}
    <3> HIDE DEF cells
    <3> QED BY <1>1, <1>3, FS_EmptySet, FS_CardinalityType
  <2>2. \A i : /\ put(i).sheet = (i - 1) \div perSheet /\ put(i).page = s[i]
               /\ put(i).cell = cell(i)
    BY DEF Place
  <2> HIDE DEF put
  <2>3. \A i \in DOMAIN s : i \in Nat /\ i - 1 \in Nat
    BY ListFacts
  <2>4. ASSUME NEW i \in DOMAIN s, NEW j \in DOMAIN s, s[i] < s[j]
        PROVE  Before(put(i), put(j))
    <3> DEFINE a == i - 1
               b == j - 1
    <3>1. a \in Nat /\ b \in Nat /\ a < b
      BY <2>3, <2>4 DEF Rising
    <3>2. /\ put(i).sheet = a \div perSheet /\ put(j).sheet = b \div perSheet
          /\ put(i).cell = cell(i) /\ put(j).cell = cell(j)
          /\ place(i) = Nth(cells, (a % perSheet) + 1)
          /\ place(j) = Nth(cells, (b % perSheet) + 1)
      BY <2>2
    <3> DEFINE p == put(i)
               q == put(j)
               x == place(i)
               y == place(j)
    <3>3. /\ p.cell = Rect((x % config.columns) * config.stepX,
                           (x \div config.columns) * config.stepY, config.seed)
          /\ q.cell = Rect((y % config.columns) * config.stepX,
                           (y \div config.columns) * config.stepY, config.seed)
      BY <3>2
    <3>4. p.sheet = a \div perSheet /\ q.sheet = b \div perSheet
      BY <3>2
    <3> HIDE DEF a, b, p, q, x, y, place, cell, cells
    <3>5. /\ a \div perSheet \in Nat /\ b \div perSheet \in Nat
          /\ a % perSheet \in 0 .. perSheet - 1 /\ b % perSheet \in 0 .. perSheet - 1
          /\ \/ a \div perSheet < b \div perSheet
             \/ a \div perSheet = b \div perSheet /\ a % perSheet < b % perSheet
      <4> HIDE DEF perSheet
      <4>1. a % perSheet \in 0 .. perSheet - 1 /\ b % perSheet \in 0 .. perSheet - 1
        BY <2>1, <3>1, QuotientFacts
      <4>2. /\ a \div perSheet \in Nat /\ b \div perSheet \in Nat
            /\ \/ a \div perSheet < b \div perSheet
               \/ a \div perSheet = b \div perSheet /\ a % perSheet < b % perSheet
        BY ONLY <2>1, <3>1, DivisionGrows
      <4> QED BY <4>1, <4>2
    <3>6. CASE a \div perSheet < b \div perSheet
      BY <3>4, <3>6 DEF Before, p, q
    <3>7. CASE a \div perSheet = b \div perSheet /\ a % perSheet < b % perSheet
      <4> DEFINE k == (a % perSheet) + 1
                 l == (b % perSheet) + 1
      <4>1. k \in 1 .. perSheet /\ l \in 1 .. perSheet /\ k < l
        BY <2>1, <3>5, <3>7
      <4>2. x = Nth(cells, k) /\ y = Nth(cells, l)
        BY <3>2 DEF x, y
      <4> HIDE DEF k, l
      <4>3. x < y
        BY <1>1, <4>1, <4>2, NthGrows
      <4>4. x \in Nat /\ y \in Nat
        <5>1. \A m \in 1 .. perSheet : Nth(cells, m) \in cells
          <6>1. [m \in 1 .. perSheet |-> Nth(cells, m)] \in Bijection(1 .. perSheet, cells)
            BY <1>1, NthFacts
          <6> QED BY <6>1 DEF Bijection, Injection
        <5> QED BY <1>1, <4>1, <4>2, <5>1
      <4>5. p.sheet = q.sheet
        BY <3>4, <3>7
      <4> DEFINE columns == config.columns
                 stepX == config.stepX
                 stepY == config.stepY
                 size == config.seed
      <4>6. /\ columns \in Nat \ {0} /\ stepX \in Nat /\ stepY \in Nat
            /\ size.w \in Nat /\ size.h \in Nat /\ size.w <= stepX /\ size.h <= stepY
            /\ p.cell = Rect((x % columns) * stepX, (x \div columns) * stepY, size)
            /\ q.cell = Rect((y % columns) * stepX, (y \div columns) * stepY, size)
        BY <3>3
      <4> HIDE DEF columns, stepX, stepY, size
      <4>7. Before(p, q)
        BY ONLY <4>3, <4>4, <4>5, <4>6, CellsInOrder
      <4> QED BY <4>7 DEF p, q
    <3> QED BY <3>5, <3>6, <3>7
  <2>5. ReadInOrder({put(i) : i \in DOMAIN s})
    <3> HIDE DEF cell
    <3> QED BY <2>2, <2>4 DEF ReadInOrder
  <2> QED BY <1>2, <1>3, <2>5
<1>4. ReadInOrder({})
  BY DEF ReadInOrder
<1> QED BY <1>2, <1>3, <1>4

===============================================================================
