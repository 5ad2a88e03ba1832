---------------------------- MODULE TrimShiftProofs ----------------------------
(***************************************************************************)
(* Theorems about the booklet planner and the creep shift, for documents   *)
(* and signatures of any length and for any explicit page sequence: the    *)
(* folded sheets read in order, every page is placed as often as it is     *)
(* asked for, and creep keeps leaves and sheets together.                  *)
(***************************************************************************)
EXTENDS TrimShift, PlannersProofs

\* Pages and sheets of a signature.  When no size is asked for, the only
\* signature holds all pages.
SignatureLength ==
    IF signatureSize = 0 THEN ((Len(pages) + 3) \div 4) * 4 ELSE signatureSize

Sheets == SignatureLength \div 4

\* Page n of the book, counted from 0.
Content(n) == IF n < Len(pages) THEN pages[n + 1] ELSE Blank

\* What the creep shift has moved the pages of a sheet by, and the number of
\* sheets it takes a signature to have.
Limit == IF config.total > 0 THEN config.total \div 2 ELSE paddedPageCount \div 4

Shifted(sheet) == ComputeCreepOffset(sheet, Limit, config.creep)

\* The placement of page m of signature k.
BookPlacement(k, m) ==
    LET depth == SideOf(m, SignatureLength) \div 2 IN
    Placement(k * (2 * Sheets) + SideOf(m, SignatureLength), SlotOf(m),
              Content(k * SignatureLength + m),
              Inwards(SlotOf(m), depth * options.creep + Shifted(k * Sheets + depth)))

\* Of the last of n signatures only the sheets that are done are placed.
PlacedOf(n) ==
    {c \in (0 .. n - 1) \X (0 .. SignatureLength - 1) :
        stage = "sheets" /\ c[1] = n - 1
            => SideOf(c[2], SignatureLength) < 2 * signatureSheet}

\* The plan, when n signatures are cut off the pages.
PlanOf(n) ==
    /\ paddedPageCount = n * SignatureLength
    /\ sourcePos = Least(n * SignatureLength, Len(pages))
    /\ sheetIndexOffset = (IF stage = "sheets" THEN n - 1 ELSE n) * (2 * Sheets)
    /\ placements = {BookPlacement(c[1], c[2]) : c \in PlacedOf(n)}
    /\ signatureSize = 0 => n <= 1
    /\ stage = "idle" => n = 0
    /\ stage = "sheets" =>
          /\ n > 0
          /\ signature = [i \in 1 .. SignatureLength |->
                             Content((n - 1) * SignatureLength + i - 1)]
          /\ signatureSheet \in 0 .. Sheets

InputOK ==
    /\ stage \in {"idle", "signatures", "sheets", "done"}
    /\ options \in OptionSets
    /\ sourcePageCount \in Nat
    /\ signatureSize \in Nat /\ signatureSize % 4 = 0
    /\ caller \in {"cli", "plugin"}
    /\ caller = "plugin" => options = PluginOptions
    /\ config \in [creep : Nat, total : Nat, applied : BOOLEAN]
    /\ pages = IF stage = "idle" \/ sourcePageCount = 0 THEN <<>>
               ELSE BuildSourcePages(sourcePageCount, options)
    /\ pages = <<>> => stage \in {"idle", "done"}
    /\ stage = "idle" => signatureSize = 0
    /\ stage # "idle" => signatureSize = NormalizeSignatureSize(options.signatureSize)
    /\ config.applied => stage = "done"
    /\ ~config.applied => config = NotApplied
    /\ stage = "done" => sourcePos >= Len(pages)

PlanInv == InputOK /\ \E n \in Nat : PlanOf(n)
-----------------------------------------------------------------------------
\* A signature of whole sheets has two sides and four pages to each, and its
\* m-th page is on one of its sides.
LEMMA SignatureFacts ==
    ASSUME NEW L \in Nat, L % 4 = 0, NEW m \in 0 .. L - 1
    PROVE  /\ L = 4 * (L \div 4) /\ L \div 4 \in Nat /\ L \div 4 > 0
           /\ SideOf(m, L) \in 0 .. 2 * (L \div 4) - 1
           /\ SideOf(m, L) \div 2 \in 0 .. (L \div 4) - 1
           /\ SlotOf(m) \in {0, 1}
BY DEF SideOf, SlotOf, Least

\* No two pages of a signature share a half of a side.
LEMMA PageOnHalf ==
    ASSUME NEW L \in Nat, L % 4 = 0, NEW m \in 0 .. L - 1, NEW n \in 0 .. L - 1,
           SideOf(m, L) = SideOf(n, L), SlotOf(m) = SlotOf(n)
    PROVE  m = n
BY DEF SideOf, SlotOf, Least

\* Sheets are counted through the book, signature after signature.
LEMMA SheetOfBook ==
    ASSUME NEW S \in Nat, S > 0, NEW k \in Nat, NEW side \in 0 .. 2 * S - 1
    PROVE  LET sheet == k * (2 * S) + side IN
           /\ sheet \in Nat
           /\ k * S \in Nat
           /\ sheet \div 2 = k * S + side \div 2
           /\ sheet % 2 = side % 2
           /\ (sheet \div 2) % S = side \div 2
           /\ (sheet \div 2) \div S = k
<1> DEFINE a == k * S
           j == side \div 2
<1>1. a \in Nat /\ j \in 0 .. S - 1 /\ k * (2 * S) = 2 * a
  OBVIOUS
<1>2. (a + j) \div S = k /\ (a + j) % S = j
  BY <1>1
<1>3. (2 * a + side) \div 2 = a + j /\ (2 * a + side) % 2 = side % 2
  <2> HIDE DEF a
  <2> QED BY <1>1
<1>4. 2 * a + side \in Nat
  BY <1>1
<1> DEFINE sheet == k * (2 * S) + side
<1>5. sheet = 2 * a + side
  BY <1>1
<1> HIDE DEF a, j, sheet
<1>6. /\ sheet \in Nat /\ a \in Nat
      /\ sheet \div 2 = a + j /\ sheet % 2 = side % 2
      /\ (sheet \div 2) % S = j /\ (sheet \div 2) \div S = k
  BY <1>1, <1>2, <1>3, <1>4, <1>5
<1> QED BY ONLY <1>6, Zenon DEF a, j, sheet

-----------------------------------------------------------------------------
\* The bijection g from A to B takes the members of D to those of E.
Carries(g, A, B, D, E) ==
    /\ g \in Bijection(A, B)
    /\ D \subseteq A /\ E \subseteq B
    /\ \A x \in A : x \in D <=> g[x] \in E

\* Then the one has as many members as the other.
LEMMA CountThrough ==
    ASSUME NEW A, NEW B, NEW g, NEW D, NEW E, IsFiniteSet(A), Carries(g, A, B, D, E)
    PROVE  IsFiniteSet(D) /\ IsFiniteSet(E) /\ Cardinality(D) = Cardinality(E)
<1> DEFINE h == [x \in D |-> g[x]]
<1>1. /\ g \in [A -> B]
      /\ \A x, y \in A : g[x] = g[y] => x = y
      /\ \A y \in B : \E x \in A : g[x] = y
  BY DEF Bijection, Injection, Surjection, IsInjective, Carries
<1>2. h \in Bijection(D, E)
  <2>1. h \in [D -> E]
    BY <1>1 DEF Carries
  <2>2. \A x, y \in D : h[x] = h[y] => x = y
    BY <1>1 DEF Carries
  <2>3. \A y \in E : \E x \in D : h[x] = y
    BY <1>1 DEF Carries
  <2> QED BY <2>1, <2>2, <2>3 DEF Bijection, Injection, Surjection, IsInjective
<1>3. IsFiniteSet(D) /\ ExistsBijection(D, E)
  BY <1>2, FS_Subset DEF ExistsBijection, Carries
<1> QED BY <1>3, FS_Bijection

\* How often a list has a page.
Times(s, page) == Cardinality({i \in DOMAIN s : s[i] = page})

\* The filter keeps or drops a page wherever it is.
LEMMA FilteredFacts ==
    ASSUME NEW s \in Seq(Pages), NEW filter
    PROVE  /\ Filtered(s, filter) \in Seq(Pages)
           /\ \A page : Times(Filtered(s, filter), page) =
                           IF Passes(page, filter) THEN Times(s, page) ELSE 0
<1> DEFINE P == {i \in DOMAIN s : Passes(s[i], filter)}
           c == Cardinality(P)
           g == [k \in 1 .. c |-> Nth(P, k)]
           f == Filtered(s, filter)
<1>1. Len(s) \in Nat /\ DOMAIN s = 1 .. Len(s) /\ P \in SUBSET (1 .. Len(s))
  BY LenProperties
<1>2. IsFiniteSet(P) /\ c \in Nat /\ g \in Bijection(1 .. c, P)
  <2> DEFINE n == Len(s)
  <2>1. 1 \in Int /\ n \in Int /\ P \in SUBSET (1 .. n)
    BY <1>1
  <2> HIDE DEF P, n
  <2>2. IsFiniteSet(1 .. n)
    BY ONLY <2>1, FS_Interval
  <2>3. IsFiniteSet(P)
    BY ONLY <2>1, <2>2, FS_Subset
  <2>4. P \in SUBSET Nat
    BY <2>1
  <2> QED BY ONLY <2>3, <2>4, NthFacts DEF c, g
<1>3. f = [k \in 1 .. c |-> s[Nth(P, k)]]
  BY DEF Filtered, Subsequence
<1> HIDE DEF P, c, f
<1>4. \A k \in 1 .. c : g[k] = Nth(P, k) /\ Nth(P, k) \in P
  BY <1>2 DEF Bijection, Injection
<1>5. f \in Seq(Pages)
  <2>1. \A i \in P : s[i] \in Pages
    BY <1>1, ElementOfSeq DEF P
  <2>2. f \in [1 .. c -> Pages]
    BY <1>3, <1>4, <2>1
  <2> QED BY <1>2, <2>2, SeqDef
<1>6. ASSUME NEW page
      PROVE  Times(f, page) = IF Passes(page, filter) THEN Times(s, page) ELSE 0
  <2> DEFINE D == {k \in 1 .. c : f[k] = page}
             E == {i \in P : s[i] = page}
  <2>1. IsFiniteSet(1 .. c) /\ DOMAIN f = 1 .. c
    BY <1>2, <1>3, FS_Interval
  <2>2. \A k \in 1 .. c : k \in D <=> g[k] \in E
    BY <1>3, <1>4
  <2>3. Cardinality(D) = Cardinality(E)
    <3>1. Carries(g, 1 .. c, P, D, E)
      BY <1>2, <2>2 DEF Carries
    <3> HIDE DEF D, E, g
    <3> QED BY ONLY <2>1, <3>1, CountThrough
  <2>4. Times(f, page) = Cardinality(E)
    <3>1. {k \in DOMAIN f : f[k] = page} = D
      BY <2>1
    <3> HIDE DEF D, E
    <3> QED BY <2>3, <3>1 DEF Times
  <2>5. CASE Passes(page, filter)
    <3>1. E = {i \in DOMAIN s : s[i] = page}
      BY <2>5 DEF P
    <3> QED BY <2>4, <2>5, <3>1 DEF Times
  <2>6. CASE ~Passes(page, filter)
    <3>1. E = {}
      BY <2>6 DEF P
    <3> QED BY <2>4, <2>6, <3>1, FS_EmptySet
  <2> QED BY <2>5, <2>6
<1> QED BY <1>5, <1>6 DEF f

\* Turning the list round changes only the order.
LEMMA OrderedFacts ==
    ASSUME NEW s \in Seq(Pages), NEW reverse \in BOOLEAN
    PROVE  /\ Ordered(s, reverse) \in Seq(Pages)
           /\ \A page : Times(Ordered(s, reverse), page) = Times(s, page)
<1>1. CASE ~reverse
  BY <1>1 DEF Ordered
<1>2. CASE reverse
  <2> DEFINE n == Len(s)
             r == Reverse(s)
             g == [k \in 1 .. n |-> n - k + 1]
  <2>1. n \in Nat /\ DOMAIN s = 1 .. n /\ \A i \in 1 .. n : s[i] \in Pages
    BY LenProperties, ElementOfSeq
  <2>2. r = [k \in 1 .. n |-> s[(n - k) + 1]] /\ Ordered(s, reverse) = r
    BY <1>2 DEF Reverse, Ordered
  <2> HIDE DEF n, r
  <2>3. \A k \in 1 .. n : n - k + 1 \in 1 .. n /\ r[k] = s[n - k + 1]
    BY <2>1, <2>2
  <2>4. r \in Seq(Pages)
    <3>1. r \in [1 .. n -> Pages]
      BY <2>1, <2>2, <2>3
    <3> QED BY <2>1, <3>1, SeqDef
  <2>5. g \in Bijection(1 .. n, 1 .. n)
    <3>1. g \in [1 .. n -> 1 .. n]
      BY <2>3
    <3>2. \A k, l \in 1 .. n : g[k] = g[l] => k = l
      BY <2>1
    <3>3. \A k \in 1 .. n : g[n - k + 1] = k
      BY <2>1, <2>3
    <3> HIDE DEF g
    <3> QED BY <2>3, <3>1, <3>2, <3>3 DEF Bijection, Injection, Surjection, IsInjective
  <2>6. ASSUME NEW page
        PROVE  Times(r, page) = Times(s, page)
    <3> DEFINE D == {k \in 1 .. n : r[k] = page}
               E == {i \in 1 .. n : s[i] = page}
    <3>1. IsFiniteSet(1 .. n) /\ DOMAIN r = 1 .. n
      BY <2>1, <2>2, FS_Interval
    <3>2. \A k \in 1 .. n : k \in D <=> g[k] \in E
      BY <2>3
    <3>3. Cardinality(D) = Cardinality(E)
      <4>1. Carries(g, 1 .. n, 1 .. n, D, E)
        BY <2>5, <3>2 DEF Carries
      <4> HIDE DEF D, E, g
      <4> QED BY ONLY <3>1, <4>1, CountThrough
    <3>4. {k \in DOMAIN r : r[k] = page} = D /\ {i \in DOMAIN s : s[i] = page} = E
      BY <2>1, <3>1
    <3> HIDE DEF D, E
    <3> QED BY <3>3, <3>4 DEF Times
  <2> QED BY <2>2, <2>4, <2>6
<1> QED BY <1>1, <1>2

\* Padding adds nothing but blanks.
LEMMA PaddedFacts ==
    ASSUME NEW s \in Seq(Pages), NEW multiple \in Nat
    PROVE  /\ PaddedTo(s, multiple) \in Seq(Pages)
           /\ \A page \in Nat : Times(PaddedTo(s, multiple), page) = Times(s, page)
<1> DEFINE p == PaddedTo(s, multiple)
           n == Len(s)
<1>1. /\ p \in Seq(Pages) /\ Len(p) \in Nat /\ Len(p) >= n /\ DOMAIN p = 1 .. Len(p)
      /\ \A i \in 1 .. Len(p) : p[i] = IF i <= n THEN s[i] ELSE Blank
  <2>1. Blank \in Pages
    BY DEF Pages
  <2> QED BY <2>1, PaddingFacts
<1>2. n \in Nat /\ DOMAIN s = 1 .. n
  BY LenProperties
<1> HIDE DEF p, n
<1>3. ASSUME NEW page \in Nat
      PROVE  Times(p, page) = Times(s, page)
  <2>1. page # Blank
    BY PagesAssumption
  <2>2. {i \in DOMAIN p : p[i] = page} = {i \in DOMAIN s : s[i] = page}
    BY <1>1, <1>2, <2>1
  <2> QED BY <2>2 DEF Times
<1> QED BY <1>1, <1>3 DEF p

\* How often the options ask for a page of the document.
Asked(explicit, page) == IF explicit = <<>> THEN 1 ELSE Times(explicit, page)

\* The list begins with the pages of the document that are asked for.
LEMMA ChosenFacts ==
    ASSUME NEW n \in Nat, NEW explicit \in Seq(Pages)
    PROVE  /\ ChosenPages(n, explicit) \in Seq(Pages)
           /\ \A page \in Nat : Times(ChosenPages(n, explicit), page) =
                                   IF page < n THEN Asked(explicit, page) ELSE 0
<1> DEFINE chosen == ChosenPages(n, explicit)
<1> USE PagesAssumption
<1>1. CASE explicit = <<>>
  <2>1. chosen = [i \in 1 .. n |-> i - 1]
    BY <1>1 DEF ChosenPages
  <2> HIDE DEF chosen
  <2>2. chosen \in Seq(Pages)
    <3>1. chosen \in [1 .. n -> Pages]
      BY <2>1 DEF Pages
    <3> QED BY <3>1, SeqDef
  <2>3. ASSUME NEW page \in Nat
        PROVE  Times(chosen, page) = IF page < n THEN 1 ELSE 0
    <3> DEFINE D == {i \in DOMAIN chosen : chosen[i] = page}
    <3>1. page < n => D = {page + 1}
      BY <2>1
    <3>2. ~(page < n) => D = {}
      BY <2>1
    <3> HIDE DEF D
    <3>3. Cardinality(D) = IF page < n THEN 1 ELSE 0
      <4>1. CASE page < n
        BY <3>1, <4>1, FS_Singleton
      <4>2. CASE ~(page < n)
        BY <3>2, <4>2, FS_EmptySet
      <4> QED BY <4>1, <4>2
    <3>4. Times(chosen, page) = Cardinality(D)
      BY DEF D, Times
    <3> QED BY <3>3, <3>4
  <2> QED BY <1>1, <2>2, <2>3 DEF Asked, chosen
<1>2. CASE explicit # <<>>
  <2> DEFINE c == Len(explicit)
  <2>1. c \in Nat /\ DOMAIN explicit = 1 .. c /\ \A i \in 1 .. c : explicit[i] \in Pages
    BY LenProperties, ElementOfSeq
  <2>2. chosen = [i \in 1 .. c |-> PageOrBlank(explicit[i], n)]
    BY <1>2, <2>1 DEF ChosenPages
  <2> HIDE DEF chosen, c
  <2>3. \A i \in 1 .. c :
           chosen[i] = IF explicit[i] # Blank /\ explicit[i] < n THEN explicit[i] ELSE Blank
    BY <2>2 DEF PageOrBlank
  <2>4. chosen \in Seq(Pages)
    <3>1. chosen \in [1 .. c -> Pages]
      BY <2>1, <2>2, <2>3 DEF Pages
    <3> QED BY <2>1, <3>1, SeqDef
  <2>5. ASSUME NEW page \in Nat
        PROVE  Times(chosen, page) = IF page < n THEN Times(explicit, page) ELSE 0
    <3> DEFINE D == {i \in DOMAIN chosen : chosen[i] = page}
               E == {i \in DOMAIN explicit : explicit[i] = page}
    <3>1. \A i \in 1 .. c : chosen[i] = page <=> page < n /\ explicit[i] = page
      BY <2>1, <2>3 DEF Pages
    <3>2. DOMAIN chosen = 1 .. c
      BY <2>2
    <3>3. IF page < n THEN D = E ELSE D = {}
      BY <2>1, <3>1, <3>2
    <3> HIDE DEF D, E
    <3>4. Cardinality(D) = IF page < n THEN Cardinality(E) ELSE 0
      BY <3>3, FS_EmptySet
    <3>5. Times(chosen, page) = Cardinality(D) /\ Times(explicit, page) = Cardinality(E)
      BY DEF D, E, Times
    <3> QED BY <3>4, <3>5
  <2> QED BY <1>2, <2>4, <2>5 DEF Asked, chosen
<1> QED BY <1>1, <1>2

\* What the planners start from has every page of the document that passes the
\* filter as often as it is asked for, and no other page.
LEMMA SourcePagesFacts ==
    ASSUME NEW n \in Nat, NEW o \in OptionSets
    PROVE  /\ BuildSourcePages(n, o) \in Seq(Pages)
           /\ \A page \in Nat :
                 Times(BuildSourcePages(n, o), page) =
                    IF page < n /\ Passes(page, o.filter) THEN Asked(o.explicit, page) ELSE 0
<1> DEFINE s1 == ChosenPages(n, o.explicit)
           s2 == Filtered(s1, o.filter)
           s3 == Ordered(s2, o.reverse)
           s4 == PaddedTo(s3, o.padToMultiple)
<1>1. o.explicit \in Seq(Pages) /\ o.reverse \in BOOLEAN /\ o.padToMultiple \in Nat
  BY BookletAssumption
<1>2. s4 = BuildSourcePages(n, o)
  BY DEF BuildSourcePages
<1>3. /\ s1 \in Seq(Pages)
      /\ \A page \in Nat : Times(s1, page) = IF page < n THEN Asked(o.explicit, page) ELSE 0
  BY <1>1, ChosenFacts
<1> HIDE DEF s1
<1>4. /\ s2 \in Seq(Pages)
      /\ \A page : Times(s2, page) = IF Passes(page, o.filter) THEN Times(s1, page) ELSE 0
  BY <1>3, FilteredFacts
<1> HIDE DEF s2
<1>5. s3 \in Seq(Pages) /\ \A page : Times(s3, page) = Times(s2, page)
  BY <1>1, <1>4, OrderedFacts
<1> HIDE DEF s3
<1>6. s4 \in Seq(Pages) /\ \A page \in Nat : Times(s4, page) = Times(s3, page)
  BY <1>1, <1>5, PaddedFacts
<1> HIDE DEF s4
<1> QED BY <1>2, <1>3, <1>4, <1>5, <1>6

-----------------------------------------------------------------------------
\* The lengths the planner works with.
LEMMA InputFacts ==
    ASSUME InputOK
    PROVE  /\ pages \in Seq(Pages) /\ Len(pages) \in Nat
           /\ options.creep \in Nat
           /\ SignatureLength \in Nat /\ SignatureLength % 4 = 0
           /\ Sheets \in Nat /\ SignatureLength = 4 * Sheets
           /\ stage \in {"signatures", "sheets"} => Len(pages) > 0
           /\ Len(pages) > 0 => Sheets > 0
           /\ signatureSize = 0 => Len(pages) <= SignatureLength
<1>1. pages \in Seq(Pages) /\ Len(pages) \in Nat
  <2>1. pages = <<>> \/ pages = BuildSourcePages(sourcePageCount, options)
    BY DEF InputOK
  <2>2. BuildSourcePages(sourcePageCount, options) \in Seq(Pages)
    BY SourcePagesFacts DEF InputOK
  <2> QED BY <2>1, <2>2, EmptySeq, LenProperties
<1>2. options.creep \in Nat
  BY BookletAssumption DEF InputOK
<1>3. /\ SignatureLength \in Nat /\ SignatureLength % 4 = 0
      /\ Len(pages) > 0 => SignatureLength > 0
      /\ signatureSize = 0 => Len(pages) <= SignatureLength
  <2> DEFINE n == Len(pages)
  <2>1. n \in Nat /\ signatureSize \in Nat /\ signatureSize % 4 = 0
    BY <1>1 DEF InputOK
  <2>2. /\ ((n + 3) \div 4) * 4 \in Nat /\ (((n + 3) \div 4) * 4) % 4 = 0
        /\ ((n + 3) \div 4) * 4 >= n
    <3> HIDE DEF n
    <3> QED BY <2>1
  <2> HIDE DEF n
  <2>3. CASE signatureSize = 0
    BY <2>1, <2>2, <2>3 DEF SignatureLength, n
  <2>4. CASE signatureSize # 0
    BY <2>1, <2>4 DEF SignatureLength, n
  <2> QED BY <2>3, <2>4
<1>4. pages # <<>> => Len(pages) > 0
  BY <1>1, EmptySeq
<1> QED BY <1>1, <1>2, <1>3, <1>4 DEF InputOK, Sheets

\* Where a page of the book is.
LEMMA BookPlacementFacts ==
    ASSUME InputOK, NEW k \in Nat, NEW m \in 0 .. SignatureLength - 1
    PROVE  LET p == BookPlacement(k, m)
               depth == SideOf(m, SignatureLength) \div 2 IN
           /\ Sheets > 0 /\ depth \in 0 .. Sheets - 1
           /\ SideOf(m, SignatureLength) \in 0 .. 2 * Sheets - 1
           /\ p.sheet = k * (2 * Sheets) + SideOf(m, SignatureLength)
           /\ p.sheet \in Nat /\ p.slot \in {0, 1}
           /\ p.slot = SlotOf(m) /\ p.page = Content(k * SignatureLength + m)
           /\ p.sheet \div 2 = k * Sheets + depth /\ k * Sheets \in Nat
           /\ p.sheet % 2 = SideOf(m, SignatureLength) % 2
           /\ (p.sheet \div 2) % Sheets = depth
           /\ (p.sheet \div 2) \div Sheets = k
           /\ p.shift = Inwards(p.slot, depth * options.creep + Shifted(p.sheet \div 2))
<1> DEFINE L == SignatureLength
           S == Sheets
           side == SideOf(m, L)
           depth == side \div 2
           sheet == k * (2 * S) + side
           slot == SlotOf(m)
           p == BookPlacement(k, m)
<1>1. L \in Nat /\ L % 4 = 0 /\ S = L \div 4
  BY InputFacts DEF Sheets
<1>2. /\ S \in Nat /\ S > 0 /\ side \in 0 .. 2 * S - 1
      /\ depth \in 0 .. S - 1 /\ slot \in {0, 1}
  <2> HIDE DEF L, S
  <2>1. m \in 0 .. L - 1
    BY DEF L
  <2> QED BY ONLY <1>1, <2>1, m \in 0 .. L - 1, SignatureFacts DEF side, depth, slot
<1>3. /\ sheet \in Nat /\ k * S \in Nat /\ sheet \div 2 = k * S + depth
      /\ sheet % 2 = side % 2 /\ (sheet \div 2) % S = depth /\ (sheet \div 2) \div S = k
  <2> HIDE DEF S, side
  <2> QED BY ONLY <1>2, k \in Nat, SheetOfBook DEF depth, sheet
<1>4. p = [sheet |-> sheet, slot |-> slot, page |-> Content(k * L + m),
           shift |-> Inwards(slot, depth * options.creep + Shifted(k * S + depth))]
  BY DEF BookPlacement, Placement
<1> HIDE DEF S, L, side, depth, sheet, slot, p
<1>5. /\ p.sheet = sheet /\ p.slot = slot /\ p.page = Content(k * L + m)
      /\ p.shift = Inwards(slot, depth * options.creep + Shifted(k * S + depth))
  BY <1>4
<1>6. Shifted(p.sheet \div 2) = Shifted(k * S + depth)
  BY <1>3, <1>5
<1> QED BY <1>2, <1>3, <1>5, <1>6 DEF S, L, side, depth, sheet, slot, p

\* Nothing is shifted before the shift is applied.
LEMMA NotShifted ==
    ASSUME config = NotApplied, NEW j
    PROVE  Shifted(j) = 0
BY DEF NotApplied, Shifted, ComputeCreepOffset

\* A finished plan has every side there is, and a sheet for every two.
LEMMA SidesOfPlan ==
    ASSUME InputOK, NEW n \in Nat, PlanOf(n), stage = "done"
    PROVE  /\ n * Sheets \in Nat /\ paddedPageCount \div 4 = n * Sheets
           /\ Cardinality(SidesOf(placements)) = 2 * (n * Sheets)
           /\ \A p \in placements : PhysicalSheet(p.sheet, placements) = p.sheet \div 2
           /\ \A total \in Nat : SheetsInSignature(total, placements) =
                 IF total > 0 THEN total \div 2 ELSE paddedPageCount \div 4
<1> DEFINE N == n * Sheets
           sides == SidesOf(placements)
<1>1. /\ SignatureLength \in Nat /\ Sheets \in Nat /\ SignatureLength = 4 * Sheets
      /\ SignatureLength % 4 = 0
  BY InputFacts
<1>2. N \in Nat /\ paddedPageCount \div 4 = N /\ n * (2 * Sheets) = 2 * N
  <2>1. N \in Nat /\ n * SignatureLength = 4 * N /\ n * (2 * Sheets) = 2 * N
    BY <1>1
  <2> HIDE DEF N
  <2> QED BY <2>1 DEF PlanOf
<1>3. sides = 0 .. 2 * N - 1
  <2>1. ASSUME NEW p \in placements
        PROVE  p.sheet \in 0 .. 2 * N - 1
    <3>1. PICK k \in 0 .. n - 1, m \in 0 .. SignatureLength - 1 : p = BookPlacement(k, m)
      BY DEF PlanOf, PlacedOf
    <3>2. /\ p.sheet \in Nat /\ p.sheet = k * (2 * Sheets) + SideOf(m, SignatureLength)
          /\ SideOf(m, SignatureLength) \in 0 .. 2 * Sheets - 1
      BY <3>1, BookPlacementFacts
    <3>3. PICK d \in Nat : n = k + 1 + d
      OBVIOUS
    <3>4. k * (2 * Sheets) \in Nat /\ n * (2 * Sheets) = k * (2 * Sheets) + 2 * Sheets + d * (2 * Sheets)
          /\ d * (2 * Sheets) \in Nat
      BY <1>1, <3>3
    <3> HIDE DEF N
    <3> QED BY <1>1, <1>2, <3>2, <3>4
  <2>2. ASSUME NEW t \in 0 .. 2 * N - 1
        PROVE  \E p \in placements : p.sheet = t
    <3> DEFINE k == t \div (2 * Sheets)
               m == t % (2 * Sheets)
    <3>1. 2 * Sheets \in Nat /\ 2 * Sheets > 0 /\ t \in Nat /\ t < n * (2 * Sheets)
      <4>1. Sheets > 0
        BY <1>1
      <4> QED BY <1>1, <1>2, <4>1
    <3>2. k \in Nat /\ k < n /\ m \in 0 .. 2 * Sheets - 1 /\ t = k * (2 * Sheets) + m
      <4> DEFINE h == 2 * Sheets
      <4>1. /\ t \div h \in Nat /\ t % h \in 0 .. h - 1
            /\ t = (t \div h) * h + (t % h)
            /\ \A i \in Nat : t < i * h => t \div h < i
        <5> HIDE DEF h
        <5> QED BY <3>1, QuotientFacts DEF h
      <4> QED BY <3>1, <4>1
    <3> HIDE DEF k, m
    <3>3. m \in 0 .. SignatureLength - 1 /\ SideOf(m, SignatureLength) = m
      BY <1>1, <3>2 DEF SideOf, Least
    <3>4. BookPlacement(k, m) \in placements
      <4>1. <<k, m>> \in PlacedOf(n)
        BY <3>2, <3>3 DEF PlacedOf
      <4> QED BY <4>1 DEF PlanOf
    <3>5. BookPlacement(k, m).sheet = t
      BY <3>2, <3>3, BookPlacementFacts
    <3> QED BY <3>4, <3>5
  <2> QED BY <2>1, <2>2 DEF SidesOf
<1> HIDE DEF N, sides
<1>4. Cardinality(sides) = 2 * N
  BY <1>2, <1>3, FS_Interval
<1>5. ASSUME NEW p \in placements
      PROVE  PhysicalSheet(p.sheet, placements) = p.sheet \div 2
  <2>1. p.sheet \in 0 .. 2 * N - 1
    BY <1>3 DEF sides, SidesOf
  <2>2. {t \in sides : t < p.sheet} = 0 .. p.sheet - 1
    BY <1>2, <1>3, <2>1
  <2>3. Cardinality(0 .. p.sheet - 1) = p.sheet
    <3> DEFINE b == p.sheet - 1
    <3>1. b \in Int /\ b >= -1 /\ p.sheet = b + 1
      BY <1>2, <2>1
    <3> HIDE DEF b
    <3>2. Cardinality(0 .. b) = b + 1
      BY <3>1, FS_Interval
    <3> QED BY <3>1, <3>2 DEF b
  <2> QED BY <2>2, <2>3 DEF PhysicalSheet, sides
<1>6. ASSUME NEW total \in Nat
      PROVE  SheetsInSignature(total, placements) =
                 IF total > 0 THEN total \div 2 ELSE paddedPageCount \div 4
  BY <1>2, <1>4 DEF SheetsInSignature, sides
<1> QED BY <1>2, <1>4, <1>5, <1>6 DEF N, sides

-----------------------------------------------------------------------------
\* A step of the planner leaves the pages it has placed where they are.
LEMMA PlacedStays ==
    ASSUME UNCHANGED planInput
    PROVE  /\ SignatureLength' = SignatureLength /\ Sheets' = Sheets
           /\ \A j : Content(j)' = Content(j)
           /\ config = NotApplied /\ config' = NotApplied =>
                 \A k, m : BookPlacement(k, m)' = BookPlacement(k, m)
<1>1. /\ SignatureLength' = SignatureLength /\ Sheets' = Sheets
      /\ \A j : Content(j)' = Content(j)
  BY DEF planInput, SignatureLength, Sheets, Content
<1>2. ASSUME config = NotApplied, config' = NotApplied, NEW k, NEW m
      PROVE  BookPlacement(k, m)' = BookPlacement(k, m)
  <2>1. \A j : Shifted(j) = 0 /\ Shifted(j)' = 0
    BY <1>2 DEF NotApplied, Shifted, ComputeCreepOffset
  <2>2. options' = options
    BY DEF planInput
  <2> QED BY <1>1, <2>1, <2>2 DEF BookPlacement
<1> QED BY <1>1, <1>2

\* A signature is cut off the pages.
LEMMA SignatureIsCut ==
    ASSUME InputOK, NEW n \in Nat, PlanOf(n), NextSignature, UNCHANGED <<caller, config>>
    PROVE  InputOK' /\ PlanOf(n + 1)'
<1> DEFINE L == SignatureLength
           c == Len(pages)
           a == n * L
<1>1. /\ stage = "signatures" /\ stage' = "sheets" /\ sourcePos < c
      /\ UNCHANGED <<planInput, caller, config, placements, sheetIndexOffset>>
      /\ signatureSheet' = 0 /\ sourcePos' = sourcePos + Taken
      /\ paddedPageCount' = paddedPageCount + PaddedLength
      /\ signature' = [i \in 1 .. PaddedLength |->
                         IF i <= Taken THEN pages[sourcePos + i] ELSE Blank]
  BY DEF NextSignature
<1>2. config = NotApplied /\ config' = NotApplied
  BY <1>1 DEF InputOK
<1>3. L \in Nat /\ Sheets \in Nat /\ Sheets > 0 /\ L = 4 * Sheets /\ L > 0 /\ c \in Nat
  BY <1>1, InputFacts
<1>4. a \in Nat /\ (n + 1) * L = a + L /\ paddedPageCount = a /\ sourcePos = a /\ a < c
  <2>1. a \in Nat /\ (n + 1) * L = a + L
    BY <1>3
  <2>2. paddedPageCount = a /\ sourcePos = Least(a, c)
    BY DEF PlanOf
  <2> HIDE DEF a
  <2> QED BY <1>1, <1>3, <2>1, <2>2 DEF Least
<1>5. signatureSize = 0 => n = 0 /\ a = 0 /\ c <= L
  <2> SUFFICES ASSUME signatureSize = 0 PROVE n = 0 /\ a = 0 /\ c <= L
    OBVIOUS
  <2>1. c <= L /\ n <= 1
    BY InputFacts DEF PlanOf
  <2>2. n # 1
    BY <1>3, <1>4, <2>1
  <2> QED BY <1>3, <2>1, <2>2
<1>6. PaddedLength = L /\ Taken = Least(L, c - a) /\ Taken \in Nat
  <2>1. CASE signatureSize = 0
    <3>1. Taken = c
      BY <1>3, <1>4, <1>5, <2>1 DEF Taken
    <3>2. PaddedLength = L
      BY <2>1, <3>1 DEF PaddedLength, SignatureLength
    <3> QED BY <1>3, <1>4, <1>5, <2>1, <3>1, <3>2 DEF Least
  <2>2. CASE signatureSize # 0
    <3>1. L = signatureSize
      BY <2>2 DEF SignatureLength
    <3> HIDE DEF a, c, L
    <3> QED BY <1>3, <1>4, <2>2, <3>1 DEF Taken, PaddedLength, Least, c
  <2> QED BY <2>1, <2>2
<1>7. InputOK'
  BY <1>1 DEF InputOK, planInput
<1>8. L' = L /\ Sheets' = Sheets /\ Len(pages') = c /\ signatureSize' = signatureSize
      /\ \A j : Content(j)' = Content(j)
  BY <1>1, PlacedStays DEF planInput
<1> HIDE DEF a, c, L
<1>9. sourcePos' = Least(a + L, c)
  BY <1>1, <1>3, <1>4, <1>6 DEF Least
<1>10. signature' = [i \in 1 .. L |-> Content(a + i - 1)]
  <2>1. ASSUME NEW i \in 1 .. L
        PROVE  (IF i <= Taken THEN pages[sourcePos + i] ELSE Blank) = Content(a + i - 1)
    <3>1. i <= Taken <=> a + i - 1 < c
      BY <1>3, <1>4, <1>6 DEF Least
    <3>2. a + i - 1 + 1 = sourcePos + i
      BY <1>3, <1>4
    <3> QED BY <3>1, <3>2 DEF Content, c
  <2> QED BY <1>1, <1>6, <2>1
<1>11. placements' = {BookPlacement(c1[1], c1[2])' : c1 \in PlacedOf(n + 1)'}
  <2>1. PlacedOf(n) = (0 .. n - 1) \X (0 .. L - 1)
    BY <1>1 DEF PlacedOf, L
  <2>2. PlacedOf(n + 1)' = (0 .. n - 1) \X (0 .. L - 1)
    <3>1. \A i \in 0 .. n + 1 - 1, m \in 0 .. L - 1 :
             (i = n + 1 - 1 => SideOf(m, L) < 2 * signatureSheet') <=> i \in 0 .. n - 1
      <4>1. \A m \in 0 .. L - 1 : ~(SideOf(m, L) < 2 * signatureSheet')
        BY <1>1, <1>3 DEF SideOf, Least
      <4> QED BY <4>1
    <3>2. PlacedOf(n + 1)' = {p \in (0 .. n + 1 - 1) \X (0 .. L - 1) :
                                p[1] = n + 1 - 1 => SideOf(p[2], L) < 2 * signatureSheet'}
      BY <1>1, <1>8 DEF PlacedOf, L
    <3> QED BY <3>1, <3>2
  <2>3. placements = {BookPlacement(c1[1], c1[2]) : c1 \in PlacedOf(n)}
    BY DEF PlanOf
  <2>4. \A k, m : BookPlacement(k, m)' = BookPlacement(k, m)
    BY <1>1, <1>2, PlacedStays
  <2> QED BY <1>1, <2>1, <2>2, <2>3, <2>4
<1>12. sheetIndexOffset' = (n + 1 - 1) * (2 * Sheets)
  BY <1>1 DEF PlanOf
<1>13. PlanOf(n + 1)'
  <2>1. paddedPageCount' = (n + 1) * L
    BY <1>1, <1>4, <1>6
  <2>2. signature' = [i \in 1 .. SignatureLength |-> Content((n + 1 - 1) * SignatureLength + i - 1)]'
    <3>1. (n + 1 - 1) * L = a
      BY <1>3 DEF a
    <3>2. SignatureLength' = L
      BY <1>8 DEF L
    <3>3. \A i \in 1 .. L :
             Content((n + 1 - 1) * SignatureLength + i - 1)' = Content(a + i - 1)
      BY <1>8, <3>1, <3>2
    <3> QED BY <1>10, <3>2, <3>3
  <2>3. signatureSize' = 0 => n + 1 <= 1
    BY <1>5, <1>8
  <2>4. n + 1 > 0 /\ signatureSheet' \in 0 .. Sheets
    BY <1>1, <1>3
  <2>5. SignatureLength' = L
    BY <1>8 DEF L
  <2>6. sourcePos' = Least((n + 1) * L, Len(pages')) /\ stage' = "sheets"
    BY <1>1, <1>4, <1>8, <1>9
  <2>7. sheetIndexOffset' = (n + 1 - 1) * (2 * Sheets')
    BY <1>8, <1>12
  <2>8. signatureSheet' \in 0 .. Sheets' /\ n + 1 > 0
    BY <1>8, <2>4
  <2> QED BY ONLY <1>11, <2>1, <2>2, <2>3, <2>5, <2>6, <2>7, <2>8 DEF PlanOf
<1> QED BY <1>7, <1>13

\* A page of a signature is on one of its sheets: the front of the sheet has a
\* page on either half, and so has its back.
LEMMA PagesOfSheet ==
    ASSUME NEW S \in Nat, NEW s \in 0 .. S - 1, NEW m \in 0 .. 4 * S - 1
    PROVE  /\ SideOf(m, 4 * S) < 2 * (s + 1) <=>
                 \/ SideOf(m, 4 * S) < 2 * s
                 \/ m \in {4 * S - 1 - 2 * s, 2 * s, 2 * s + 1, 4 * S - 2 - 2 * s}
           /\ m = 4 * S - 1 - 2 * s => SideOf(m, 4 * S) = 2 * s /\ SlotOf(m) = 0
           /\ m = 2 * s => SideOf(m, 4 * S) = 2 * s /\ SlotOf(m) = 1
           /\ m = 2 * s + 1 => SideOf(m, 4 * S) = 2 * s + 1 /\ SlotOf(m) = 0
           /\ m = 4 * S - 2 - 2 * s => SideOf(m, 4 * S) = 2 * s + 1 /\ SlotOf(m) = 1
BY DEF SideOf, SlotOf, Least

\* The halves PlaceSheet fills are those of the pages of the sheet.
LEMMA SheetIsFilled ==
    ASSUME InputOK, NEW n \in Nat, PlanOf(n), stage = "sheets", config = NotApplied,
           NEW s \in 0 .. Sheets - 1
    PROVE  {Placement(sheetIndexOffset + 2 * s + q.side, q.slot, q.page,
                      Inwards(q.slot, s * options.creep)) : q \in SheetSides(signature, s)}
             = {BookPlacement(n - 1, m) :
                  m \in {SignatureLength - 1 - 2 * s, 2 * s, 2 * s + 1,
                         SignatureLength - 2 - 2 * s}}
<1> DEFINE L == SignatureLength
           a == (n - 1) * L
           o == (n - 1) * (2 * Sheets)
           q1 == [side |-> 0, slot |-> 0, page |-> Content(a + (L - 1 - 2 * s))]
           q2 == [side |-> 0, slot |-> 1, page |-> Content(a + 2 * s)]
           q3 == [side |-> 1, slot |-> 0, page |-> Content(a + (2 * s + 1))]
           q4 == [side |-> 1, slot |-> 1, page |-> Content(a + (L - 2 - 2 * s))]
           placed(q) == Placement(sheetIndexOffset + 2 * s + q.side, q.slot, q.page,
                                  Inwards(q.slot, s * options.creep))
<1>1. /\ Sheets \in Nat /\ Sheets > 0 /\ L = 4 * Sheets /\ L \in Nat /\ n > 0
      /\ options.creep \in Nat
  BY InputFacts DEF PlanOf
<1>2. a \in Nat /\ o \in Nat /\ sheetIndexOffset = o
  BY <1>1 DEF PlanOf
<1>3. signature = [i \in 1 .. L |-> Content(a + i - 1)] /\ Len(signature) = L
  BY <1>1 DEF PlanOf
<1> HIDE DEF a, o, L
<1>4. SheetSides(signature, s) = {q1, q2, q3, q4}
  <2>1. /\ signature[L - 1 - 2 * s + 1] = Content(a + (L - 1 - 2 * s))
        /\ signature[2 * s + 1] = Content(a + 2 * s)
        /\ signature[2 * s + 1 + 1] = Content(a + (2 * s + 1))
        /\ signature[L - 1 - 1 - 2 * s + 1] = Content(a + (L - 2 - 2 * s))
    <3>1. \A m \in 0 .. L - 1 : signature[m + 1] = Content(a + m)
      <4> SUFFICES ASSUME NEW m \in 0 .. L - 1
                   PROVE  signature[m + 1] = Content(a + m)
        OBVIOUS
      <4>1. m + 1 \in 1 .. L /\ a + (m + 1) - 1 = a + m
        BY <1>1, <1>2
      <4> QED BY <1>3, <4>1
    <3>2. /\ L - 1 - 2 * s \in 0 .. L - 1 /\ 2 * s \in 0 .. L - 1
          /\ 2 * s + 1 \in 0 .. L - 1 /\ L - 2 - 2 * s \in 0 .. L - 1
          /\ L - 1 - 1 - 2 * s = L - 2 - 2 * s
      BY <1>1
    <3> QED BY <3>1, <3>2
  <2> QED BY <1>3, <2>1 DEF SheetSides
<1>5. ASSUME NEW m \in 0 .. L - 1, NEW side \in {0, 1}, SideOf(m, L) = 2 * s + side,
             NEW q, q = [side |-> side, slot |-> SlotOf(m), page |-> Content(a + m)]
      PROVE  placed(q) = BookPlacement(n - 1, m)
  <2>1. SideOf(m, L) \div 2 = s
    BY <1>5
  <2>2. Shifted((n - 1) * Sheets + s) = 0
    BY NotShifted
  <2>3. BookPlacement(n - 1, m) =
           Placement(o + SideOf(m, L), SlotOf(m), Content(a + m),
                     Inwards(SlotOf(m), s * options.creep + 0))
    BY <2>1, <2>2 DEF BookPlacement, o, a, L
  <2>4. s * options.creep + 0 = s * options.creep
    BY <1>1
  <2>5. placed(q) = Placement(o + 2 * s + side, SlotOf(m), Content(a + m),
                              Inwards(SlotOf(m), s * options.creep))
    BY <1>2, <1>5
  <2>6. o + 2 * s + side = o + SideOf(m, L)
    BY <1>2, <1>5
  <2> HIDE DEF placed
  <2> QED BY <2>3, <2>4, <2>5, <2>6
<1>6. /\ placed(q1) = BookPlacement(n - 1, L - 1 - 2 * s)
      /\ placed(q2) = BookPlacement(n - 1, 2 * s)
      /\ placed(q3) = BookPlacement(n - 1, 2 * s + 1)
      /\ placed(q4) = BookPlacement(n - 1, L - 2 - 2 * s)
  <2>1. \A m \in 0 .. L - 1 :
           /\ m = L - 1 - 2 * s => SideOf(m, L) = 2 * s + 0 /\ SlotOf(m) = 0
           /\ m = 2 * s => SideOf(m, L) = 2 * s + 0 /\ SlotOf(m) = 1
           /\ m = 2 * s + 1 => SideOf(m, L) = 2 * s + 1 /\ SlotOf(m) = 0
           /\ m = L - 2 - 2 * s => SideOf(m, L) = 2 * s + 1 /\ SlotOf(m) = 1
    BY <1>1, PagesOfSheet
  <2>2. /\ L - 1 - 2 * s \in 0 .. L - 1 /\ 2 * s \in 0 .. L - 1
        /\ 2 * s + 1 \in 0 .. L - 1 /\ L - 2 - 2 * s \in 0 .. L - 1
    BY <1>1
  <2> HIDE DEF placed
  <2>3. placed(q1) = BookPlacement(n - 1, L - 1 - 2 * s)
    BY <1>5, <2>1, <2>2
  <2>4. placed(q2) = BookPlacement(n - 1, 2 * s)
    BY <1>5, <2>1, <2>2
  <2>5. placed(q3) = BookPlacement(n - 1, 2 * s + 1)
    BY <1>5, <2>1, <2>2
  <2>6. placed(q4) = BookPlacement(n - 1, L - 2 - 2 * s)
    BY <1>5, <2>1, <2>2
  <2> QED BY <2>3, <2>4, <2>5, <2>6
<1> HIDE DEF q1, q2, q3, q4, placed
<1>7. {placed(q) : q \in SheetSides(signature, s)} =
         {BookPlacement(n - 1, m) : m \in {L - 1 - 2 * s, 2 * s, 2 * s + 1, L - 2 - 2 * s}}
  BY <1>4, <1>6
<1> QED BY <1>7 DEF placed, L

\* One more sheet of the signature is placed.
LEMMA SheetIsPlaced ==
    ASSUME InputOK, NEW n \in Nat, PlanOf(n), PlaceSheet, UNCHANGED <<caller, config>>
    PROVE  InputOK' /\ PlanOf(n)'
<1> DEFINE L == SignatureLength
           s == signatureSheet
           four == {L - 1 - 2 * s, 2 * s, 2 * s + 1, L - 2 - 2 * s}
<1>1. /\ stage = "sheets" /\ s < Len(signature) \div 4 /\ signatureSheet' = s + 1
      /\ UNCHANGED <<stage, planInput, caller, config, signature, sourcePos,
                     sheetIndexOffset, paddedPageCount>>
      /\ placements' = placements \union
            {Placement(sheetIndexOffset + 2 * s + q.side, q.slot, q.page,
                       Inwards(q.slot, s * options.creep)) : q \in SheetSides(signature, s)}
  BY DEF PlaceSheet
<1>2. config = NotApplied /\ config' = NotApplied
  BY <1>1 DEF InputOK
<1>3. L \in Nat /\ Sheets \in Nat /\ Sheets > 0 /\ L = 4 * Sheets /\ n > 0
  BY <1>1, InputFacts DEF PlanOf
<1>4. s \in 0 .. Sheets - 1
  <2>1. Len(signature) = L /\ s \in Nat
    BY <1>1, <1>3 DEF PlanOf
  <2> QED BY <1>1, <1>3, <2>1
<1>5. placements' = placements \union {BookPlacement(n - 1, m) : m \in four}
  BY <1>1, <1>2, <1>4, SheetIsFilled
<1>6. InputOK'
  BY <1>1 DEF InputOK, planInput
<1>7. /\ L' = L /\ Sheets' = Sheets /\ UNCHANGED <<pages, signatureSize>>
      /\ \A j : Content(j)' = Content(j)
      /\ \A k, m : BookPlacement(k, m)' = BookPlacement(k, m)
  BY <1>1, <1>2, PlacedStays DEF planInput
<1>8. PlacedOf(n)' = PlacedOf(n) \union {<<n - 1, m>> : m \in four}
  <2>1. PlacedOf(n) = {c \in (0 .. n - 1) \X (0 .. L - 1) :
                          c[1] = n - 1 => SideOf(c[2], L) < 2 * s}
    BY <1>1 DEF PlacedOf
  <2>2. PlacedOf(n)' = {c \in (0 .. n - 1) \X (0 .. L - 1) :
                           c[1] = n - 1 => SideOf(c[2], L) < 2 * (s + 1)}
    BY <1>1, <1>7 DEF PlacedOf
  <2> HIDE DEF L, s, four
  <2>3. four \subseteq 0 .. L - 1
    BY <1>3, <1>4 DEF four
  <2>4. \A m \in 0 .. L - 1 :
           SideOf(m, L) < 2 * (s + 1) <=> SideOf(m, L) < 2 * s \/ m \in four
    BY <1>3, <1>4, PagesOfSheet DEF four
  <2>5. n - 1 \in 0 .. n - 1
    BY <1>3
  <2>6. ASSUME NEW c \in (0 .. n - 1) \X (0 .. L - 1)
        PROVE  c \in PlacedOf(n)' <=> c \in PlacedOf(n) \/ c \in {<<n - 1, m>> : m \in four}
    <3>1. c[1] \in 0 .. n - 1 /\ c[2] \in 0 .. L - 1 /\ c = <<c[1], c[2]>>
      OBVIOUS
    <3>2. c \in {<<n - 1, m>> : m \in four} <=> c[1] = n - 1 /\ c[2] \in four
      BY <3>1
    <3> QED BY <2>1, <2>2, <2>4, <3>1, <3>2
  <2>7. \A m \in four : <<n - 1, m>> \in (0 .. n - 1) \X (0 .. L - 1)
    BY <2>3, <2>5
  <2> QED BY <2>1, <2>2, <2>6, <2>7
<1> HIDE DEF L, s, four
<1>9. placements' = {BookPlacement(c[1], c[2])' : c \in PlacedOf(n)'}
  <2>1. placements = {BookPlacement(c[1], c[2]) : c \in PlacedOf(n)}
    BY DEF PlanOf
  <2>2. {BookPlacement(n - 1, m) : m \in four} =
           {BookPlacement(c[1], c[2]) : c \in {<<n - 1, m>> : m \in four}}
    <3> DEFINE F(c) == BookPlacement(c[1], c[2])
    <3>1. \A m : F(<<n - 1, m>>) = BookPlacement(n - 1, m)
      OBVIOUS
    <3> HIDE DEF F
    <3>2. {BookPlacement(n - 1, m) : m \in four} = {F(c) : c \in {<<n - 1, m>> : m \in four}}
      BY <3>1
    <3> QED BY <3>2 DEF F
  <2> QED BY <1>5, <1>7, <1>8, <2>1, <2>2
<1>10. PlanOf(n)'
  <2>1. /\ paddedPageCount = n * L /\ sourcePos = Least(n * L, Len(pages))
        /\ sheetIndexOffset = (n - 1) * (2 * Sheets)
        /\ signatureSize = 0 => n <= 1
        /\ signature = [i \in 1 .. L |-> Content((n - 1) * L + i - 1)]
    BY <1>1 DEF PlanOf, L
  <2>2. SignatureLength' = L
    BY <1>7 DEF L
  <2>3. signature' = [i \in 1 .. SignatureLength |->
                        Content((n - 1) * SignatureLength + i - 1)]'
    <3>1. \A i \in 1 .. L :
             Content((n - 1) * SignatureLength + i - 1)' = Content((n - 1) * L + i - 1)
      BY <1>7, <2>2
    <3> QED BY <1>1, <2>1, <2>2, <3>1
  <2>4. signatureSheet' \in 0 .. Sheets' /\ n > 0
    BY <1>1, <1>3, <1>4, <1>7
  <2>5. /\ paddedPageCount' = n * L /\ sourcePos' = Least(n * L, Len(pages'))
        /\ sheetIndexOffset' = (n - 1) * (2 * Sheets') /\ stage' = "sheets"
        /\ signatureSize' = 0 => n <= 1
    BY <1>1, <1>7, <2>1
  <2> QED BY ONLY <1>9, <2>2, <2>3, <2>4, <2>5 DEF PlanOf
<1> QED BY <1>6, <1>10

\* The book of n signatures stays as it is when the planner goes on to the next
\* signature or returns.
LEMMA BookIsKept ==
    ASSUME InputOK, NEW n \in Nat, PlanOf(n), stage \in {"signatures", "sheets"},
           UNCHANGED <<planInput, sourcePos, paddedPageCount, placements, caller, config>>,
           stage' \in {"signatures", "done"}, sheetIndexOffset' = n * (2 * Sheets),
           stage = "sheets" => signatureSheet = Sheets
    PROVE  PlanOf(n)'
<1> DEFINE L == SignatureLength
<1>1. config = NotApplied /\ config' = NotApplied
  BY DEF InputOK
<1>2. L \in Nat /\ Sheets \in Nat /\ L = 4 * Sheets
  BY InputFacts
<1>3. /\ SignatureLength' = L /\ Sheets' = Sheets /\ UNCHANGED <<pages, signatureSize>>
      /\ \A k, m : BookPlacement(k, m)' = BookPlacement(k, m)
  BY <1>1, PlacedStays DEF planInput
<1>4. PlacedOf(n) = (0 .. n - 1) \X (0 .. L - 1)
  <2>1. \A m \in 0 .. L - 1 : SideOf(m, L) < 2 * Sheets
    BY <1>2 DEF SideOf, Least
  <2> QED BY <2>1 DEF PlacedOf
<1>5. PlacedOf(n)' = (0 .. n - 1) \X (0 .. L - 1)
  BY <1>3 DEF PlacedOf
<1> HIDE DEF L
<1>6. placements' = {BookPlacement(c[1], c[2])' : c \in PlacedOf(n)'}
  <2>1. placements = {BookPlacement(c[1], c[2]) : c \in PlacedOf(n)}
    BY DEF PlanOf
  <2> QED BY <1>3, <1>4, <1>5, <2>1
<1>7. /\ paddedPageCount' = n * L /\ sourcePos' = Least(n * L, Len(pages'))
      /\ signatureSize' = 0 => n <= 1
  BY <1>3 DEF PlanOf, L
<1>8. sheetIndexOffset' = n * (2 * Sheets')
  BY <1>3
<1> QED BY <1>3, <1>6, <1>7, <1>8 DEF PlanOf

\* The planning begins with an empty book.
LEMMA BookIsBegun ==
    ASSUME InputOK, NEW n \in Nat, PlanOf(n), NEW pageCount \in PageCounts,
           Build(pageCount), UNCHANGED <<caller, config>>
    PROVE  InputOK' /\ PlanOf(0)'
<1>1. /\ stage = "idle" /\ options' = options /\ sourcePageCount' = pageCount
      /\ pages' = IF pageCount = 0 THEN <<>> ELSE BuildSourcePages(pageCount, options)
      /\ signatureSize' = NormalizeSignatureSize(options.signatureSize)
      /\ stage' = IF pages' = <<>> THEN "done" ELSE "signatures"
      /\ UNCHANGED <<sourcePos, sheetIndexOffset, paddedPageCount, placements, caller, config>>
  BY DEF Build
<1>2. pageCount \in Nat /\ options \in OptionSets /\ options.signatureSize \in 0 .. Word - 1
  BY BookletAssumption DEF InputOK
<1>3. signatureSize' \in Nat /\ signatureSize' % 4 = 0
  <2>1. options.signatureSize \in Nat
    BY <1>2, PagesAssumption
  <2> QED BY <1>1, <2>1, SignatureSizes
<1>4. n = 0 /\ pages = <<>>
  BY <1>1 DEF InputOK, PlanOf
<1>5. /\ paddedPageCount = 0 /\ sourcePos = 0 /\ sheetIndexOffset = 0 /\ placements = {}
  <2>1. SignatureLength \in Nat /\ Sheets \in Nat /\ Len(pages) = 0
    BY <1>4, InputFacts, EmptySeq
  <2>2. PlacedOf(0) = {}
    BY DEF PlacedOf
  <2> QED BY <1>1, <1>4, <2>1, <2>2 DEF PlanOf, Least
<1>6. pages' \in Seq(Pages) /\ Len(pages') \in Nat /\ (pages' = <<>> => Len(pages') = 0)
  <2>1. BuildSourcePages(pageCount, options) \in Seq(Pages)
    BY <1>2, SourcePagesFacts
  <2>2. pages' \in Seq(Pages)
    BY <1>1, <2>1, EmptySeq
  <2> QED BY <2>2, EmptySeq, LenProperties
<1>7. InputOK'
  <2>1. pages' = IF stage' = "idle" \/ sourcePageCount' = 0 THEN <<>>
                 ELSE BuildSourcePages(sourcePageCount', options')
    BY <1>1
  <2>2. /\ stage' \in {"signatures", "done"} /\ (pages' = <<>> => stage' = "done")
        /\ stage' = "done" => sourcePos' >= Len(pages')
    BY <1>1, <1>5, <1>6
  <2>3. signatureSize' = NormalizeSignatureSize(options'.signatureSize)
    BY <1>1
  <2>4. options' \in OptionSets /\ sourcePageCount' \in Nat
    BY <1>1, <1>2
  <2>5. config' = config /\ caller' = caller /\ ~config.applied /\ config = NotApplied
        /\ caller \in {"cli", "plugin"} /\ config \in [creep : Nat, total : Nat, applied : BOOLEAN]
        /\ (caller = "plugin" => options' = PluginOptions)
    BY <1>1 DEF InputOK
  <2> QED BY ONLY <1>3, <2>1, <2>2, <2>3, <2>4, <2>5 DEF InputOK
<1>8. SignatureLength' \in Nat /\ Sheets' \in Nat
  BY <1>3, <1>6 DEF SignatureLength, Sheets
<1>9. PlacedOf(0)' = {}
  BY DEF PlacedOf
<1>10. PlanOf(0)'
  <2>1. 0 * SignatureLength' = 0 /\ 0 * (2 * Sheets') = 0
    <3>1. \A x \in Nat : 0 * x = 0 /\ 2 * x \in Nat
      OBVIOUS
    <3> QED BY <1>8, <3>1
  <2>2. Least(0, Len(pages')) = 0
    BY <1>6 DEF Least
  <2>3. stage' # "sheets"
    BY <1>1
  <2> QED BY <1>1, <1>5, <1>9, <2>1, <2>2, <2>3 DEF PlanOf
<1> QED BY <1>7, <1>10

\* The shift moves every page of the finished book by the creep of its sheet.
LEMMA BookIsShifted ==
    ASSUME InputOK, NEW n \in Nat, PlanOf(n), NEW creep \in Nat, NEW total \in Nat,
           Apply(creep, total)
    PROVE  InputOK' /\ PlanOf(n)'
<1> DEFINE L == SignatureLength
           limit == IF total > 0 THEN total \div 2 ELSE paddedPageCount \div 4
           more(sheet) == ComputeCreepOffset(sheet, limit, creep)
           moved(p) == [p EXCEPT !.shift = @ + Inwards(p.slot, more(p.sheet \div 2))]
<1>1. /\ stage = "done" /\ config = NotApplied
      /\ placements' = ApplyCreepShiftToPlan(placements, creep, total)
      /\ config' = [creep |-> creep, total |-> total, applied |-> TRUE]
      /\ UNCHANGED <<stage, planInput, sourcePos, signature, signatureSheet,
                     sheetIndexOffset, paddedPageCount, caller>>
  BY DEF Apply, Config, InputOK
<1>2. InputOK'
  BY <1>1 DEF InputOK, planInput
<1>3. /\ L' = L /\ Sheets' = Sheets /\ UNCHANGED <<pages, signatureSize, options>>
      /\ \A j : Content(j)' = Content(j)
  BY <1>1, PlacedStays DEF planInput
<1>4. Limit' = limit /\ config'.creep = creep
  BY <1>1 DEF Limit
<1>5. \A j : Shifted(j)' = more(j)
  BY <1>4 DEF Shifted
<1>6. PlacedOf(n) = (0 .. n - 1) \X (0 .. L - 1) /\ PlacedOf(n)' = (0 .. n - 1) \X (0 .. L - 1)
  BY <1>1, <1>3 DEF PlacedOf
<1>7. /\ L \in Nat /\ Sheets \in Nat /\ options.creep \in Nat /\ paddedPageCount \in Nat
      /\ L = 4 * Sheets
  BY <1>1, InputFacts DEF PlanOf
<1>8. \A j \in Nat : more(j) \in Int
  <2>1. limit \in Nat
    BY <1>7
  <2> HIDE DEF limit
  <2>2. ASSUME NEW j \in Nat, limit > 0, creep > 0
        PROVE  Least(j, limit - 1) * creep \in Int
    <3>1. Least(j, limit - 1) \in Int
      BY <2>1 DEF Least
    <3> QED BY <3>1
  <2> QED BY <2>1, <2>2 DEF ComputeCreepOffset
<1>9. ASSUME NEW k \in 0 .. n - 1, NEW m \in 0 .. L - 1
      PROVE  /\ moved(BookPlacement(k, m)) = BookPlacement(k, m)'
             /\ creep = 0 => BookPlacement(k, m) = BookPlacement(k, m)'
  <2> DEFINE p == BookPlacement(k, m)
             depth == SideOf(m, L) \div 2
  <2>1. /\ p.sheet \div 2 = k * Sheets + depth /\ p.sheet \in Nat
        /\ p.slot = SlotOf(m) /\ depth \in Nat /\ k * Sheets \in Nat
    BY BookPlacementFacts
  <2>2. p = Placement(k * (2 * Sheets) + SideOf(m, L), SlotOf(m), Content(k * L + m),
                      Inwards(SlotOf(m), depth * options.creep))
    <3>1. Shifted(k * Sheets + depth) = 0 /\ depth * options.creep + 0 = depth * options.creep
      BY <1>1, <1>7, <2>1, NotShifted
    <3> QED BY <3>1 DEF BookPlacement
  <2>3. p' = Placement(k * (2 * Sheets) + SideOf(m, L), SlotOf(m), Content(k * L + m),
                       Inwards(SlotOf(m), depth * options.creep + more(k * Sheets + depth)))
    BY <1>3, <1>5 DEF BookPlacement
  <2> HIDE DEF p, depth, more
  <2>4. more(k * Sheets + depth) \in Int /\ depth * options.creep \in Int
    <3>1. k * Sheets + depth \in Nat
      BY <2>1
    <3> QED BY <1>7, <1>8, <2>1, <3>1
  <2>5. moved(p) = p'
    <3>1. Inwards(SlotOf(m), depth * options.creep) + Inwards(SlotOf(m), more(p.sheet \div 2))
             = Inwards(SlotOf(m), depth * options.creep + more(k * Sheets + depth))
      BY <2>1, <2>4 DEF Inwards
    <3> QED BY <2>1, <2>2, <2>3, <3>1 DEF Placement
  <2>6. ASSUME creep = 0
        PROVE  p = p'
    <3>1. more(k * Sheets + depth) = 0
      BY <2>6 DEF more, ComputeCreepOffset
    <3>2. depth * options.creep + 0 = depth * options.creep
      BY <2>4
    <3> QED BY <2>2, <2>3, <3>1, <3>2
  <2> QED BY <2>5, <2>6 DEF p
<1>10. placements' = {BookPlacement(c[1], c[2])' : c \in PlacedOf(n)'}
  <2>1. placements = {BookPlacement(c[1], c[2]) : c \in PlacedOf(n)}
    BY DEF PlanOf
  <2>2. CASE creep = 0
    <3>1. placements' = placements
      BY <1>1, <2>2 DEF ApplyCreepShiftToPlan
    <3> QED BY <1>6, <1>9, <2>1, <2>2, <3>1
  <2>3. CASE creep > 0
    <3>1. placements' = {moved(p) : p \in placements}
      <4>1. /\ SheetsInSignature(total, placements) = limit
            /\ \A p \in placements : PhysicalSheet(p.sheet, placements) = p.sheet \div 2
        BY <1>1, SidesOfPlan
      <4> QED BY <1>1, <2>3, <4>1 DEF ApplyCreepShiftToPlan
    <3> HIDE DEF moved
    <3>2. placements' = {moved(BookPlacement(c[1], c[2])) : c \in PlacedOf(n)}
      BY <2>1, <3>1
    <3> QED BY <1>6, <1>9, <3>2
  <2> QED BY <2>2, <2>3
<1> HIDE DEF L
<1>11. PlanOf(n)'
  <2>1. /\ paddedPageCount' = n * L /\ sourcePos' = Least(n * L, Len(pages'))
        /\ sheetIndexOffset' = n * (2 * Sheets')
        /\ signatureSize' = 0 => n <= 1
    BY <1>1, <1>3 DEF PlanOf, L
  <2>2. SignatureLength' = L /\ stage' = "done"
    BY <1>1, <1>3 DEF L
  <2> QED BY <1>10, <2>1, <2>2 DEF PlanOf
<1> QED BY <1>2, <1>11

\* The invariant holds initially and is kept by the planner and by the shift.
LEMMA PlanInvInductive ==
    /\ TrimInit => PlanInv
    /\ PlanInv /\ [TrimNext]_trimVars => PlanInv'
<1>1. TrimInit => PlanInv
  <2> SUFFICES ASSUME TrimInit PROVE InputOK /\ PlanOf(0)
    BY DEF PlanInv
  <2>1. InputOK
    BY DEF TrimInit, BookletInit, InputOK, NotApplied
  <2>2. SignatureLength \in Nat /\ Sheets \in Nat /\ Len(pages) = 0
    BY <2>1, InputFacts, EmptySeq DEF TrimInit, BookletInit
  <2>3. PlacedOf(0) = {}
    BY DEF PlacedOf
  <2>4. 0 * SignatureLength = 0 /\ 0 * (2 * Sheets) = 0
    <3>1. \A x \in Nat : 0 * x = 0 /\ 2 * x \in Nat
      OBVIOUS
    <3> QED BY <2>2, <3>1
  <2> QED BY <2>1, <2>2, <2>3, <2>4 DEF PlanOf, TrimInit, BookletInit, Least
<1>2. PlanInv /\ [TrimNext]_trimVars => PlanInv'
  <2> SUFFICES ASSUME PlanInv, [TrimNext]_trimVars
               PROVE  \E n \in Nat : InputOK' /\ PlanOf(n)'
    BY DEF PlanInv
  <2>1. InputOK
    BY DEF PlanInv
  <2>2. PICK n \in Nat : PlanOf(n)
    BY DEF PlanInv
  <2>3. ASSUME NEW pageCount \in PageCounts, Build(pageCount), UNCHANGED <<caller, config>>
        PROVE  InputOK' /\ PlanOf(0)'
    BY <2>1, <2>2, <2>3, BookIsBegun
  <2>4. ASSUME NextSignature, UNCHANGED <<caller, config>>
        PROVE  n + 1 \in Nat /\ InputOK' /\ PlanOf(n + 1)'
    BY <2>1, <2>2, <2>4, SignatureIsCut
  <2>5. ASSUME PlaceSheet, UNCHANGED <<caller, config>>
        PROVE  InputOK' /\ PlanOf(n)'
    BY <2>1, <2>2, <2>5, SheetIsPlaced
  <2>6. ASSUME EndSignature, UNCHANGED <<caller, config>>
        PROVE  InputOK' /\ PlanOf(n)'
    <3>1. /\ stage = "sheets" /\ stage' = "signatures"
          /\ signatureSheet = Len(signature) \div 4
          /\ sheetIndexOffset' = sheetIndexOffset + 2 * signatureSheet
          /\ UNCHANGED <<planInput, sourcePos, paddedPageCount, placements, caller, config>>
      BY <2>6 DEF EndSignature
    <3>2. InputOK'
      BY <2>1, <3>1 DEF InputOK, planInput
    <3>3. Sheets \in Nat /\ SignatureLength = 4 * Sheets /\ n > 0
      BY <2>1, <2>2, <3>1, InputFacts DEF PlanOf
    <3>4. signatureSheet = Sheets
      <4>1. Len(signature) = SignatureLength
        BY <2>2, <3>1, <3>3 DEF PlanOf
      <4> QED BY <3>1, <3>3, <4>1
    <3>5. sheetIndexOffset' = n * (2 * Sheets)
      <4>1. sheetIndexOffset = (n - 1) * (2 * Sheets)
        BY <2>2, <3>1 DEF PlanOf
      <4> QED BY <3>1, <3>3, <3>4, <4>1
    <3> QED BY <2>1, <2>2, <3>1, <3>2, <3>4, <3>5, BookIsKept
  <2>7. ASSUME EndBuild, UNCHANGED <<caller, config>>
        PROVE  InputOK' /\ PlanOf(n)'
    <3>1. /\ stage = "signatures" /\ stage' = "done" /\ sourcePos >= Len(pages)
          /\ UNCHANGED <<planInput, sourcePos, paddedPageCount, placements,
                         sheetIndexOffset, caller, config>>
      BY <2>7 DEF EndBuild
    <3>2. InputOK'
      BY <2>1, <3>1 DEF InputOK, planInput
    <3>3. sheetIndexOffset' = n * (2 * Sheets)
      BY <2>2, <3>1 DEF PlanOf
    <3> QED BY <2>1, <2>2, <3>1, <3>2, <3>3, BookIsKept
  <2>8. ASSUME CliTrimShift \/ PluginTrimShift
        PROVE  InputOK' /\ PlanOf(n)'
    <3>1. \E creep \in Nat, total \in Nat : Apply(creep, total)
      BY <2>1, <2>8, BookletAssumption, TrimAssumption
         DEF CliTrimShift, PluginTrimShift, InputOK
    <3> QED BY <2>1, <2>2, <3>1, BookIsShifted
  <2>9. ASSUME UNCHANGED trimVars
        PROVE  InputOK' /\ PlanOf(n)'
    <3>1. InputOK'
      BY <2>1, <2>9 DEF trimVars, bookletVars, InputOK
    <3>2. /\ SignatureLength' = SignatureLength /\ Sheets' = Sheets
          /\ \A j : Content(j)' = Content(j) /\ Shifted(j)' = Shifted(j)
      BY <2>9 DEF trimVars, bookletVars, SignatureLength, Sheets, Content, Shifted, Limit
    <3>3. \A k, m : BookPlacement(k, m)' = BookPlacement(k, m)
      BY <2>9, <3>2 DEF trimVars, bookletVars, BookPlacement
    <3>4. PlacedOf(n)' = PlacedOf(n)
      BY <2>9, <3>2 DEF trimVars, bookletVars, PlacedOf
    <3>5. UNCHANGED <<paddedPageCount, sourcePos, pages, sheetIndexOffset, stage,
                      placements, signatureSize, signature, signatureSheet>>
      BY <2>9 DEF trimVars, bookletVars
    <3>6. PlanOf(n)'
      BY <2>2, <3>2, <3>3, <3>4, <3>5 DEF PlanOf
    <3> QED BY <3>1, <3>6
  <2> QED BY <2>3, <2>4, <2>5, <2>6, <2>7, <2>8, <2>9 DEF TrimNext, BookletNext
<1> QED BY <1>1, <1>2

\* The invariant holds in every state.
THEOREM PlanSafety == TrimSpec => []PlanInv
BY PlanInvInductive, PTL DEF TrimSpec

-----------------------------------------------------------------------------
\* Signature after signature, each folded, the finished plan reads as the
\* source pages in their order: the loops of BookletPlanner::Build, whatever
\* the number of pages and the signature size.
THEOREM BooksReadInOrder == TrimSpec => []BookReadsInOrder
<1>1. PlanInv => BookReadsInOrder
  <2> SUFFICES ASSUME PlanInv, stage = "done", NEW i \in 0 .. paddedPageCount - 1
               PROVE  LET length == IF signatureSize = 0 THEN paddedPageCount
                                    ELSE signatureSize IN
                      Holds((i \div length) * (length \div 2) + SideOf(i % length, length),
                            SlotOf(i % length),
                            IF i < Len(pages) THEN pages[i + 1] ELSE Blank)
    BY DEF BookReadsInOrder
  <2> DEFINE L == SignatureLength
  <2>1. InputOK
    BY DEF PlanInv
  <2>2. PICK n \in Nat : PlanOf(n)
    BY DEF PlanInv
  <2>3. L \in Nat /\ Sheets \in Nat /\ L = 4 * Sheets
    BY <2>1, InputFacts
  <2>4. n * L \in Nat /\ i \in Nat /\ i < n * L /\ paddedPageCount = n * L
    <3>1. paddedPageCount = n * L
      BY <2>2 DEF PlanOf
    <3> HIDE DEF L
    <3>2. n * L \in Nat
      BY <2>3
    <3> QED BY <3>1, <3>2
  <2>5. L > 0 /\ n > 0
    <3>1. \A x \in Nat : 0 * x = 0 /\ x * 0 = 0
      OBVIOUS
    <3> HIDE DEF L
    <3>2. n * L > 0 /\ L \in Nat
      BY ONLY <2>3, <2>4
    <3>3. CASE L = 0
      BY ONLY n \in Nat, <3>1, <3>2, <3>3
    <3>4. CASE n = 0
      BY ONLY <3>1, <3>2, <3>4
    <3> QED BY <3>2, <3>3, <3>4
  <2>6. (IF signatureSize = 0 THEN paddedPageCount ELSE signatureSize) = L
    <3>1. CASE signatureSize = 0
      <4>1. n = 1
        BY <2>2, <2>5, <3>1 DEF PlanOf
      <4> QED BY <2>3, <2>4, <3>1, <4>1
    <3>2. CASE signatureSize # 0
      BY <3>2 DEF SignatureLength
    <3> QED BY <3>1, <3>2
  <2> DEFINE k == i \div L
             m == i % L
             p == BookPlacement(k, m)
  <2> HIDE DEF L
  <2>7. k \in Nat /\ k < n /\ m \in 0 .. L - 1 /\ i = k * L + m
    BY <2>3, <2>4, <2>5, QuotientFacts
  <2> HIDE DEF k, m
  <2>8. p \in placements
    <3>1. <<k, m>> \in PlacedOf(n)
      BY <2>7 DEF PlacedOf, L
    <3> QED BY <2>2, <3>1 DEF PlanOf
  <2>9. p.sheet = k * (L \div 2) + SideOf(m, L) /\ p.slot = SlotOf(m) /\ p.page = Content(i)
    <3>1. L \div 2 = 2 * Sheets
      BY <2>3
    <3> QED BY <2>1, <2>7, <3>1, BookPlacementFacts DEF L
  <2>10. Holds(k * (L \div 2) + SideOf(m, L), SlotOf(m), Content(i))
    BY <2>8, <2>9 DEF Holds
  <2> QED BY <2>6, <2>10 DEF Content, k, m
<1> QED BY <1>1, PlanSafety, PTL

\* A page of a plan, with the place of its sheet in the book.
LEMMA PageOfPlan ==
    ASSUME PlanInv, NEW p \in placements
    PROVE  /\ p.sheet \in Nat /\ p.slot \in {0, 1}
           /\ Sheets \in Nat /\ Sheets > 0
           /\ (p.sheet \div 2) % Sheets \in Nat
           /\ p.shift = Inwards(p.slot, ((p.sheet \div 2) % Sheets) * options.creep
                                           + Shifted(p.sheet \div 2))
           /\ p.sheet \div 2 = ((p.sheet \div 2) \div Sheets) * Sheets
                                 + ((p.sheet \div 2) % Sheets)
           /\ ((p.sheet \div 2) \div Sheets) * Sheets \in Nat
           /\ paddedPageCount > 0
<1>1. InputOK
  BY DEF PlanInv
<1>2. PICK n \in Nat : PlanOf(n)
  BY DEF PlanInv
<1>3. PICK k \in 0 .. n - 1, m \in 0 .. SignatureLength - 1 : p = BookPlacement(k, m)
  BY <1>2 DEF PlanOf, PlacedOf
<1>4. SignatureLength \in Nat /\ Sheets \in Nat /\ SignatureLength = 4 * Sheets
  BY <1>1, InputFacts
<1> DEFINE depth == SideOf(m, SignatureLength) \div 2
<1>5. /\ Sheets > 0 /\ depth \in 0 .. Sheets - 1 /\ p.sheet \in Nat /\ p.slot \in {0, 1}
      /\ p.sheet \div 2 = k * Sheets + depth /\ k * Sheets \in Nat
      /\ (p.sheet \div 2) % Sheets = depth /\ (p.sheet \div 2) \div Sheets = k
      /\ p.shift = Inwards(p.slot, depth * options.creep + Shifted(p.sheet \div 2))
  BY <1>1, <1>3, BookPlacementFacts
<1>6. paddedPageCount > 0
  <2>1. paddedPageCount = n * SignatureLength /\ n > 0 /\ SignatureLength > 0
    <3>1. paddedPageCount = n * SignatureLength
      BY <1>2 DEF PlanOf
    <3>2. n > 0
      BY <1>3
    <3> QED BY ONLY <1>4, <1>5, <3>1, <3>2
  <2>2. \A x, y \in Nat : x > 0 /\ y > 0 => x * y > 0
    OBVIOUS
  <2> QED BY <1>4, <2>1, <2>2
<1> HIDE DEF depth
<1> QED BY <1>4, <1>5, <1>6

\* The creep shift moves no sheet less than one before it.
LEMMA ShiftedFacts ==
    ASSUME PlanInv
    PROVE  /\ \A i \in Nat : Shifted(i) \in Nat
           /\ \A i, j \in Nat : i <= j => Shifted(i) <= Shifted(j)
<1>1. InputOK
  BY DEF PlanInv
<1>2. PICK n \in Nat : PlanOf(n)
  BY DEF PlanInv
<1> DEFINE c == config.creep
<1>3. c \in Nat /\ Limit \in Nat
  <2>1. config.total \in Nat /\ c \in Nat
    BY <1>1 DEF InputOK
  <2>2. paddedPageCount \in Nat
    BY <1>1, <1>2, InputFacts DEF PlanOf
  <2> QED BY <2>1, <2>2 DEF Limit
<1>4. CASE Limit = 0 \/ c = 0
  BY <1>3, <1>4 DEF Shifted, ComputeCreepOffset
<1>5. CASE Limit > 0 /\ c > 0
  <2>1. \A i \in Nat : Shifted(i) = Least(i, Limit - 1) * c
    BY <1>3, <1>5 DEF Shifted, ComputeCreepOffset
  <2>2. \A i \in Nat : Least(i, Limit - 1) \in Nat
    BY <1>3, <1>5 DEF Least
  <2>3. \A i, j \in Nat : i <= j => Least(i, Limit - 1) <= Least(j, Limit - 1)
    BY <1>3, <1>5 DEF Least
  <2>4. \A x, y \in Nat : x * c \in Nat /\ (x <= y => x * c <= y * c)
    <3> SUFFICES ASSUME NEW x \in Nat, NEW y \in Nat
                 PROVE  x * c \in Nat /\ (x <= y => x * c <= y * c)
      OBVIOUS
    <3> HIDE DEF c
    <3>1. ASSUME x <= y
          PROVE  x * c <= y * c
      <4> PICK d \in Nat : y = x + d
        BY <3>1
      <4>1. y * c = x * c + d * c /\ d * c \in Nat /\ x * c \in Nat
        BY <1>3
      <4> QED BY <4>1
    <3> QED BY <1>3, <3>1
  <2> QED BY <2>1, <2>2, <2>3, <2>4
<1> QED BY <1>3, <1>4, <1>5

\* The two sides of a leaf are moved by the same distance, by the planner and
\* by the shift after it: what is left in front is right behind.
THEOREM LeavesAreAligned == TrimSpec => []LeavesStayAligned
<1>1. PlanInv => LeavesStayAligned
  <2> SUFFICES ASSUME PlanInv, NEW p \in placements, NEW q \in placements,
                      p.sheet % 2 = 0, q.sheet = p.sheet + 1, q.slot # p.slot
               PROVE  q.shift = - p.shift
    BY DEF LeavesStayAligned
  <2> DEFINE j == p.sheet \div 2
             x == (j % Sheets) * options.creep + Shifted(j)
  <2>1. /\ p.sheet \in Nat /\ p.slot \in {0, 1} /\ q.slot \in {0, 1}
        /\ j % Sheets \in Nat /\ p.shift = Inwards(p.slot, x)
    BY PageOfPlan
  <2>2. q.sheet \div 2 = j
    BY <2>1
  <2>3. q.shift = Inwards(q.slot, x)
    BY <2>2, PageOfPlan
  <2>4. x \in Int
    <3>1. j \in Nat /\ options.creep \in Nat
      <4>1. InputOK
        BY DEF PlanInv
      <4>2. options.creep \in Nat
        BY <4>1, InputFacts
      <4> QED BY <2>1, <4>2
    <3>2. Shifted(j) \in Nat
      BY <3>1, ShiftedFacts
    <3> HIDE DEF j
    <3> QED BY <2>1, <3>1, <3>2
  <2> HIDE DEF j, x
  <2> QED BY <2>1, <2>3, <2>4 DEF Inwards
<1> QED BY <1>1, PlanSafety, PTL

\* A page's distance from the outside, and how far it has been moved inward.
LEMMA InwardOfPage ==
    ASSUME PlanInv, NEW p \in placements
    PROVE  /\ SignatureSheets = Sheets /\ Sheets \in Nat /\ Sheets > 0
           /\ p.sheet \div 2 \in Nat /\ Depth(p) \in Nat
           /\ options.creep \in Nat /\ Depth(p) * options.creep \in Nat
           /\ Depth(p) = (p.sheet \div 2) % Sheets
           /\ Inward(p) = Depth(p) * options.creep + Shifted(p.sheet \div 2)
<1>1. InputOK
  BY DEF PlanInv
<1>2. PICK n \in Nat : PlanOf(n)
  BY DEF PlanInv
<1> DEFINE j == p.sheet \div 2
           d == j % Sheets
           x == d * options.creep + Shifted(j)
<1>3. /\ p.sheet \in Nat /\ p.slot \in {0, 1} /\ Sheets \in Nat /\ Sheets > 0
      /\ d \in Nat /\ p.shift = Inwards(p.slot, x) /\ paddedPageCount > 0
  BY PageOfPlan
<1>4. SignatureSheets = Sheets
  <2>1. CASE signatureSize = 0
    <3>1. n = 1
      <4>1. n <= 1 /\ paddedPageCount = n * SignatureLength
        BY <1>2, <2>1 DEF PlanOf
      <4>2. SignatureLength \in Nat /\ 0 * SignatureLength = 0
        <5>1. \A y \in Nat : 0 * y = 0
          OBVIOUS
        <5> QED BY <1>1, <5>1, InputFacts
      <4> QED BY <1>3, <4>1, <4>2
    <3>2. paddedPageCount = SignatureLength
      <4>1. SignatureLength \in Nat
        BY <1>1, InputFacts
      <4>2. \A y \in Nat : 1 * y = y
        OBVIOUS
      <4> QED BY <1>2, <3>1, <4>1, <4>2 DEF PlanOf
    <3> QED BY <2>1, <3>2 DEF SignatureSheets, Sheets
  <2>2. CASE signatureSize # 0
    BY <2>2 DEF SignatureSheets, Sheets, SignatureLength
  <2> QED BY <2>1, <2>2
<1>5. Depth(p) = d
  BY <1>4 DEF Depth
<1>6. options.creep \in Nat /\ j \in Nat /\ Shifted(j) \in Nat
  <2>1. options.creep \in Nat
    BY <1>1, InputFacts
  <2>2. j \in Nat
    BY <1>3
  <2> QED BY <2>1, <2>2, ShiftedFacts
<1>7. d * options.creep \in Nat /\ x \in Int
  <2> HIDE DEF d, j
  <2>1. d * options.creep \in Nat
    BY <1>3, <1>6
  <2> QED BY <1>6, <2>1
<1>8. Inward(p) = x
  <2> HIDE DEF x
  <2> QED BY <1>3, <1>7 DEF Inward, Inwards
<1> HIDE DEF d
<1> QED BY <1>3, <1>4, <1>5, <1>6, <1>7, <1>8 DEF d

\* However the planner's creep and the shift's add up, an inner sheet is never
\* moved less than an outer one of its signature.
THEOREM InnerSheetsAreMovedFurther == TrimSpec => []InnerSheetsMoveFurther
<1>1. PlanInv => InnerSheetsMoveFurther
  <2> SUFFICES ASSUME PlanInv, NEW p \in placements, NEW q \in placements,
                      SameSignature(p, q), Depth(p) < Depth(q)
               PROVE  Inward(p) <= Inward(q)
    BY DEF InnerSheetsMoveFurther
  <2> DEFINE i == p.sheet \div 2
             j == q.sheet \div 2
             c == options.creep
  <2>1. /\ i \in Nat /\ j \in Nat /\ Sheets \in Nat
        /\ Inward(p) = Depth(p) * c + Shifted(i) /\ Inward(q) = Depth(q) * c + Shifted(j)
        /\ Depth(p) * c \in Nat /\ Depth(q) * c \in Nat
        /\ Depth(p) \in Nat /\ Depth(q) \in Nat /\ c \in Nat
        /\ Depth(p) = i % Sheets /\ Depth(q) = j % Sheets /\ SignatureSheets = Sheets
    BY InwardOfPage
  <2>2. i <= j
    <3>1. i \div Sheets = j \div Sheets
      BY <2>1 DEF SameSignature
    <3>2. /\ i = (i \div Sheets) * Sheets + (i % Sheets)
          /\ j = (j \div Sheets) * Sheets + (j % Sheets)
          /\ (i \div Sheets) * Sheets \in Nat
      BY PageOfPlan
    <3> HIDE DEF i, j
    <3> DEFINE b == (i \div Sheets) * Sheets
    <3>3. i = b + Depth(p) /\ j = b + Depth(q) /\ b \in Nat
      BY <2>1, <3>1, <3>2
    <3> HIDE DEF b
    <3> QED BY <2>1, <3>3
  <2>3. Shifted(i) <= Shifted(j) /\ Shifted(i) \in Nat /\ Shifted(j) \in Nat
    BY <2>1, <2>2, ShiftedFacts
  <2>4. Depth(p) * c <= Depth(q) * c
    <3> HIDE DEF c
    <3> DEFINE d == Depth(q) - Depth(p)
    <3>1. d \in Nat /\ Depth(q) = Depth(p) + d
      BY <2>1
    <3> HIDE DEF d
    <3>2. (Depth(p) + d) * c = Depth(p) * c + d * c /\ d * c \in Nat
      BY <2>1, <3>1
    <3> QED BY <2>1, <3>1, <3>2
  <2> HIDE DEF i, j, c
  <2> QED BY <2>1, <2>3, <2>4
<1> QED BY <1>1, PlanSafety, PTL

\* With a limit that is not below the number of sheets, the plugin's shift of a
\* plain booklet gives the distances the planner would have given.
THEOREM ShiftReplacesPlanner == TrimSpec => []ShiftStandsInForPlanner
<1>1. PlanInv => ShiftStandsInForPlanner
  <2> SUFFICES ASSUME PlanInv, caller = "plugin", config.applied, NEW p \in placements,
                      \/ config.total = 0
                      \/ config.total \div 2 >= Cardinality(SidesOf(placements)) \div 2
               PROVE  Inward(p) = Depth(p) * config.creep
    BY DEF ShiftStandsInForPlanner
  <2>1. InputOK
    BY DEF PlanInv
  <2>2. PICK n \in Nat : PlanOf(n)
    BY DEF PlanInv
  <2>3. /\ stage = "done" /\ options.creep = 0 /\ signatureSize = 0
        /\ config.total \in Nat /\ config.creep \in Nat
    <3>1. stage = "done" /\ options = PluginOptions /\ config.total \in Nat /\ config.creep \in Nat
      BY <2>1 DEF InputOK
    <3>2. options.creep = 0 /\ options.signatureSize = 0
      BY <3>1 DEF PluginOptions
    <3>3. signatureSize = NormalizeSignatureSize(0)
      BY <2>1, <3>1, <3>2 DEF InputOK
    <3>4. NormalizeSignatureSize(0) = 0
      BY DEF NormalizeSignatureSize
    <3> QED BY <3>1, <3>2, <3>3, <3>4
  <2>4. PICK k \in 0 .. n - 1, m \in 0 .. SignatureLength - 1 : p = BookPlacement(k, m)
    BY <2>2 DEF PlanOf, PlacedOf
  <2> DEFINE d == SideOf(m, SignatureLength) \div 2
  <2>5. Sheets \in Nat /\ Sheets > 0 /\ d \in 0 .. Sheets - 1
        /\ p.sheet \div 2 = k * Sheets + d
    <3>1. d \in 0 .. Sheets - 1 /\ BookPlacement(k, m).sheet \div 2 = k * Sheets + d
      BY <2>1, BookPlacementFacts
    <3> QED BY <2>4, <3>1, InwardOfPage
  <2>6. n = 1 /\ k = 0
    BY <2>2, <2>3 DEF PlanOf
  <2> HIDE DEF d
  <2>7. p.sheet \div 2 = d
    <3>1. \A x \in Nat : 0 * x = 0
      OBVIOUS
    <3> QED BY <2>5, <2>6, <3>1
  <2>8. Depth(p) = d /\ Inward(p) = Shifted(d)
    <3>1. Depth(p) = d % Sheets /\ Inward(p) = Depth(p) * 0 + Shifted(d) /\ Depth(p) \in Nat
      BY <2>3, <2>7, InwardOfPage
    <3>2. d % Sheets = d /\ d \in Nat
      BY <2>5
    <3>3. Shifted(d) \in Nat
      BY <3>2, ShiftedFacts
    <3> QED BY <3>1, <3>2, <3>3
  <2>9. Limit \in Nat /\ Limit >= Sheets
    <3>1. /\ n * Sheets = Sheets /\ Cardinality(SidesOf(placements)) = 2 * (n * Sheets)
          /\ paddedPageCount \div 4 = n * Sheets
      <4>1. \A x \in Nat : 1 * x = x
        OBVIOUS
      <4> QED BY <2>1, <2>2, <2>3, <2>5, <2>6, <4>1, SidesOfPlan
    <3> QED BY <2>3, <2>5, <3>1 DEF Limit
  <2>10. CASE config.creep = 0
    <3>1. Shifted(d) = 0 /\ d * 0 = 0
      BY <2>5, <2>10 DEF Shifted, ComputeCreepOffset
    <3> QED BY <2>8, <2>10, <3>1
  <2>11. CASE config.creep > 0
    <3>1. Least(d, Limit - 1) = d
      BY <2>5, <2>9 DEF Least
    <3>2. Limit # 0 /\ ~(config.creep <= 0)
      BY <2>3, <2>5, <2>9, <2>11
    <3>3. Shifted(d) = d * config.creep
      BY <3>1, <3>2 DEF Shifted, ComputeCreepOffset
    <3> QED BY <2>8, <3>3
  <2> QED BY <2>3, <2>10, <2>11
<1> QED BY <1>1, PlanSafety, PTL

\* Every place of a finished book has one page: page i of the book is page
\* i % SignatureLength of signature i \div SignatureLength, and no other.
LEMMA PagesOfBook ==
    ASSUME InputOK, NEW n \in Nat, PlanOf(n), stage = "done"
    PROVE  /\ paddedPageCount \in Nat /\ Len(pages) <= paddedPageCount
           /\ [i \in 0 .. paddedPageCount - 1 |->
                 BookPlacement(i \div SignatureLength, i % SignatureLength)]
                 \in Bijection(0 .. paddedPageCount - 1, placements)
           /\ \A i \in 0 .. paddedPageCount - 1 :
                 BookPlacement(i \div SignatureLength, i % SignatureLength).page = Content(i)
<1> DEFINE L == SignatureLength
           N == paddedPageCount
           g == [i \in 0 .. N - 1 |-> BookPlacement(i \div L, i % L)]
<1>1. L \in Nat /\ L % 4 = 0 /\ Sheets \in Nat /\ L = 4 * Sheets /\ Len(pages) \in Nat
  BY InputFacts
<1>2. N = n * L /\ N \in Nat /\ Len(pages) <= N
  <2>1. N = n * L /\ sourcePos = Least(n * L, Len(pages)) /\ sourcePos >= Len(pages)
    BY DEF PlanOf, InputOK
  <2> HIDE DEF N, L
  <2>2. N \in Nat
    BY <1>1, <2>1
  <2> QED BY <1>1, <2>1, <2>2 DEF Least
<1>3. placements = {BookPlacement(c[1], c[2]) : c \in (0 .. n - 1) \X (0 .. L - 1)}
  BY DEF PlanOf, PlacedOf
<1> HIDE DEF L, N
<1>4. ASSUME NEW i \in 0 .. N - 1
      PROVE  /\ L > 0 /\ i \div L \in 0 .. n - 1 /\ i % L \in 0 .. L - 1
             /\ i = (i \div L) * L + (i % L)
  <2>1. L > 0
    <3>1. n * 0 = 0
      OBVIOUS
    <3>2. L # 0
      BY <1>2, <3>1
    <3> QED BY <1>1, <3>2
  <2>2. i \in Nat /\ i < n * L
    BY <1>2
  <2> QED BY <1>1, <2>1, <2>2, QuotientFacts
<1>5. \A i \in 0 .. N - 1 : g[i] \in placements
  <2>1. \A k \in 0 .. n - 1, m \in 0 .. L - 1 : BookPlacement(k, m) \in placements
    <3> SUFFICES ASSUME NEW k \in 0 .. n - 1, NEW m \in 0 .. L - 1
                 PROVE  BookPlacement(k, m) \in placements
      OBVIOUS
    <3>1. <<k, m>> \in (0 .. n - 1) \X (0 .. L - 1)
      OBVIOUS
    <3> QED BY <1>3, <3>1
  <2>2. \A i \in 0 .. N - 1 : i \div L \in 0 .. n - 1 /\ i % L \in 0 .. L - 1
    BY <1>4
  <2> QED BY <2>1, <2>2
<1>6. ASSUME NEW i \in 0 .. N - 1, NEW j \in 0 .. N - 1, g[i] = g[j]
      PROVE  i = j
  <2> DEFINE k == i \div L
             l == j \div L
             a == i % L
             b == j % L
  <2>1. /\ k \in Nat /\ l \in Nat /\ a \in 0 .. L - 1 /\ b \in 0 .. L - 1
        /\ i = k * L + a /\ j = l * L + b
    BY <1>4
  <2>2. BookPlacement(k, a) = BookPlacement(l, b)
    BY <1>6
  <2> HIDE DEF k, l, a, b
  <2> DEFINE p == BookPlacement(k, a)
             q == BookPlacement(l, b)
  <2>3. /\ p.sheet = k * (2 * Sheets) + SideOf(a, L) /\ p.slot = SlotOf(a)
        /\ (p.sheet \div 2) \div Sheets = k /\ SideOf(a, L) \in Nat
    BY <2>1, BookPlacementFacts DEF L
  <2>4. /\ q.sheet = l * (2 * Sheets) + SideOf(b, L) /\ q.slot = SlotOf(b)
        /\ (q.sheet \div 2) \div Sheets = l /\ SideOf(b, L) \in Nat
    BY <2>1, BookPlacementFacts DEF L
  <2>5. p.sheet = q.sheet /\ p.slot = q.slot
    BY <2>2
  <2> HIDE DEF p, q
  <2>6. k = l
    BY <2>3, <2>4, <2>5
  <2>7. SideOf(a, L) = SideOf(b, L)
    <3>1. k * (2 * Sheets) \in Nat
      BY <1>1, <2>1
    <3> QED BY <2>3, <2>4, <2>5, <2>6, <3>1
  <2>8. a = b
    BY <1>1, <2>1, <2>3, <2>4, <2>5, <2>7, PageOnHalf
  <2> QED BY <2>1, <2>6, <2>8
<1>7. ASSUME NEW p \in placements
      PROVE  \E i \in 0 .. N - 1 : g[i] = p
  <2>1. PICK k \in 0 .. n - 1, m \in 0 .. L - 1 : p = BookPlacement(k, m)
    BY <1>3
  <2> DEFINE i == k * L + m
  <2>2. i \in Nat /\ i \div L = k /\ i % L = m
    BY <1>1
  <2>3. i < N
    <3> DEFINE d == n - 1 - k
    <3>1. d \in Nat /\ n = k + 1 + d
      OBVIOUS
    <3> HIDE DEF d
    <3>2. n * L = k * L + L + d * L /\ d * L \in Nat /\ k * L \in Nat
      BY <1>1, <3>1
    <3> QED BY <1>1, <1>2, <3>2
  <2> HIDE DEF i
  <2>4. i \in 0 .. N - 1
    BY <1>2, <2>2, <2>3
  <2> QED BY <2>1, <2>2, <2>4
<1>8. \A i \in 0 .. N - 1 : BookPlacement(i \div L, i % L).page = Content(i)
  <2> SUFFICES ASSUME NEW i \in 0 .. N - 1
               PROVE  BookPlacement(i \div L, i % L).page = Content(i)
    OBVIOUS
  <2> DEFINE k == i \div L
             m == i % L
  <2>1. k \in Nat /\ m \in 0 .. L - 1 /\ i = k * L + m
    BY <1>4
  <2> HIDE DEF k, m
  <2>2. BookPlacement(k, m).page = Content(k * L + m)
    BY <2>1, BookPlacementFacts DEF L
  <2> QED BY <2>1, <2>2 DEF k, m
<1>9. g \in Bijection(0 .. N - 1, placements)
  <2>1. g \in [0 .. N - 1 -> placements]
    BY <1>5
  <2> HIDE DEF g
  <2> QED BY <1>6, <1>7, <2>1 DEF Bijection, Injection, Surjection, IsInjective
<1> QED BY <1>2, <1>8, <1>9 DEF N, L, g

\* A finished plan has a page as often as the list of source pages.
LEMMA PagesCounted ==
    ASSUME InputOK, NEW n \in Nat, PlanOf(n), stage = "done", NEW page \in Nat
    PROVE  /\ IsFiniteSet({p \in placements : p.page = page})
           /\ Cardinality({p \in placements : p.page = page}) = Times(pages, page)
<1> DEFINE N == paddedPageCount
           A == 0 .. N - 1
           g == [i \in A |-> BookPlacement(i \div SignatureLength, i % SignatureLength)]
           h == [i \in A |-> i + 1]
           C == {i \in A : Content(i) = page}
           D == {p \in placements : p.page = page}
           E == {i \in DOMAIN pages : pages[i] = page}
<1>1. N \in Nat /\ Len(pages) <= N /\ Len(pages) \in Nat /\ DOMAIN pages = 1 .. Len(pages)
  <2>1. pages \in Seq(Pages)
    BY InputFacts
  <2> QED BY <2>1, PagesOfBook, LenProperties
<1>2. g \in Bijection(A, placements) /\ \A i \in A : g[i].page = Content(i)
  BY PagesOfBook
<1>3. IsFiniteSet(A)
  BY <1>1, FS_Interval
<1>4. page # Blank
  BY PagesAssumption
<1> HIDE DEF N
<1>5. Carries(g, A, placements, C, D)
  <2>1. \A i \in A : g[i] \in placements
    BY <1>2 DEF Bijection, Injection
  <2> HIDE DEF g
  <2> QED BY <1>2, <2>1 DEF Carries
<1>6. Carries(h, A, 1 .. N, C, E)
  <2>1. h \in Bijection(A, 1 .. N)
    <3>1. h \in [A -> 1 .. N]
      BY <1>1
    <3>2. \A i, j \in A : h[i] = h[j] => i = j
      BY <1>1
    <3>3. \A j \in 1 .. N : j - 1 \in A /\ h[j - 1] = j
      BY <1>1
    <3> HIDE DEF h
    <3> QED BY <3>1, <3>2, <3>3 DEF Bijection, Injection, Surjection, IsInjective
  <2>2. E \subseteq 1 .. N
    BY <1>1
  <2>3. \A i \in A : i \in C <=> h[i] \in E
    <3> SUFFICES ASSUME NEW i \in A
                 PROVE  Content(i) = page <=> i + 1 \in E
      OBVIOUS
    <3>1. i < Len(pages) <=> i + 1 \in DOMAIN pages
      BY <1>1
    <3> QED BY <1>4, <3>1 DEF Content
  <2> HIDE DEF h
  <2> QED BY <2>1, <2>2, <2>3 DEF Carries
<1> HIDE DEF A, C, D, E, g, h
<1>7. IsFiniteSet(D) /\ Cardinality(C) = Cardinality(D)
  BY ONLY <1>3, <1>5, CountThrough
<1>8. Cardinality(C) = Cardinality(E)
  BY ONLY <1>3, <1>6, CountThrough
<1>9. Cardinality(E) = Times(pages, page)
  BY DEF E, Times
<1> QED BY <1>7, <1>8, <1>9 DEF D

\* Every page of the document that passes the filter is in the finished plan as
\* often as it is asked for, and nothing else but blanks is: BuildSourcePages
\* and the padding of signatures lose and invent no page.
THEOREM PagesAreAsAsked == TrimSpec => []PagesAsAsked
<1>1. PlanInv => PagesAsAsked
  <2> SUFFICES ASSUME PlanInv, stage = "done"
               PROVE  /\ \A page \in 0 .. sourcePageCount - 1 :
                            Cardinality({p \in placements : p.page = page})
                               = IF Passes(page, options.filter)
                                 THEN Asked(options.explicit, page) ELSE 0
                      /\ \A p \in placements : p.page = Blank \/ p.page < sourcePageCount
    BY DEF PagesAsAsked, Asked, Times
  <2>1. InputOK
    BY DEF PlanInv
  <2>2. PICK n \in Nat : PlanOf(n)
    BY DEF PlanInv
  <2>3. /\ sourcePageCount \in Nat /\ options \in OptionSets
        /\ pages = IF sourcePageCount = 0 THEN <<>>
                   ELSE BuildSourcePages(sourcePageCount, options)
    BY <2>1 DEF InputOK
  <2>4. \A page \in Nat :
           Times(pages, page) =
              IF page < sourcePageCount /\ Passes(page, options.filter)
              THEN Asked(options.explicit, page) ELSE 0
    <3>1. CASE sourcePageCount = 0
      <4>1. \A page : {i \in DOMAIN pages : pages[i] = page} = {}
        BY <2>3, <3>1
      <4>2. \A page : Times(pages, page) = 0
        BY <4>1, FS_EmptySet DEF Times
      <4> QED BY <3>1, <4>2
    <3>2. CASE sourcePageCount # 0
      BY <2>3, <3>2, SourcePagesFacts
    <3> QED BY <3>1, <3>2
  <2>5. ASSUME NEW page \in 0 .. sourcePageCount - 1
        PROVE  Cardinality({p \in placements : p.page = page})
                  = IF Passes(page, options.filter) THEN Asked(options.explicit, page) ELSE 0
    <3>1. page \in Nat /\ page < sourcePageCount
      BY <2>3
    <3>2. Cardinality({p \in placements : p.page = page}) = Times(pages, page)
      BY <2>1, <2>2, <3>1, PagesCounted
    <3> QED BY <2>4, <3>1, <3>2
  <2>6. ASSUME NEW p \in placements, p.page # Blank
        PROVE  p.page < sourcePageCount
    <3> DEFINE page == p.page
               D == {q \in placements : q.page = page}
    <3>1. page \in Nat
      <4>1. PICK k \in 0 .. n - 1, m \in 0 .. SignatureLength - 1 : p = BookPlacement(k, m)
        BY <2>2 DEF PlanOf, PlacedOf
      <4> DEFINE i == k * SignatureLength + m
      <4>2. page = Content(i) /\ i \in Nat
        <5>1. SignatureLength \in Nat
          BY <2>1, InputFacts
        <5>2. BookPlacement(k, m).page = Content(i)
          BY <2>1, <4>1, BookPlacementFacts
        <5>3. i \in Nat
          BY <5>1
        <5> QED BY <4>1, <5>2, <5>3
      <4> HIDE DEF i
      <4>3. pages \in Seq(Pages) /\ Len(pages) \in Nat
        BY <2>1, InputFacts
      <4>4. i < Len(pages) /\ page = pages[i + 1]
        BY <2>6, <4>2 DEF Content
      <4>5. i + 1 \in 1 .. Len(pages)
        BY <4>2, <4>3, <4>4
      <4>6. page \in Pages
        BY <4>3, <4>4, <4>5, ElementOfSeq
      <4> QED BY <2>6, <4>6 DEF Pages
    <3> HIDE DEF page
    <3>2. IsFiniteSet(D) /\ Cardinality(D) = Times(pages, page)
      BY <2>1, <2>2, <3>1, PagesCounted
    <3>3. p \in D
      BY DEF page
    <3> HIDE DEF D
    <3>4. Cardinality(D) # 0
      BY <3>2, <3>3, FS_EmptySet
    <3> QED BY <2>4, <3>1, <3>2, <3>4 DEF page
  <2> QED BY <2>5, <2>6
<1> QED BY <1>1, PlanSafety, PTL

===============================================================================
