------------------------------ MODULE PageOrders ------------------------------
(***************************************************************************)
(* The page orders of the plugin's reorder commands: ShufflePages and its  *)
(* helpers (src/src/Shuffle.cpp) and the reversed document (ImposePlugin). *)
(***************************************************************************)
EXTENDS SourcePages

\* The pages at even and at odd places, counted from 0.
SplitEvenOdd(pages) ==
    <<[i \in 1 .. (Len(pages) + 1) \div 2 |-> pages[2 * i - 1]],
      [i \in 1 .. Len(pages) \div 2 |-> pages[2 * i]]>>

\* One of each in turn; what is left of the longer one follows.
MergeInterlace(evens, odds) ==
    LET both == IF Len(evens) < Len(odds) THEN Len(evens) ELSE Len(odds) IN
    [i \in 1 .. 2 * both |-> IF i % 2 = 1 THEN evens[(i + 1) \div 2] ELSE odds[i \div 2]]
        \o SubSeq(evens, both + 1, Len(evens)) \o SubSeq(odds, both + 1, Len(odds))

\* Whole sheets of four pages, at least one.
SigSize(size) == IF size < 4 THEN 4 ELSE (size \div 4) * 4

\* Mutation of ShuffledIndex: the back of a sheet turns with its front.
ShuffledIndex_SheetByTwo(i, sigSize) ==
    LET sheet == i \div 4 IN
    CASE i % 4 = 0 -> sheet
      [] i % 4 = 1 -> sigSize - 1 - sheet
      [] i % 4 = 2 -> sheet + 1
      [] i % 4 = 3 -> sigSize - 2 - sheet

\* Where in its signature the page is found that comes i-th, both from 0:
\* outer left, outer right, inner left, inner right of sheet after sheet.
ShuffledIndex(i, sigSize) ==
    LET sheet == i \div 4 IN
    CASE i % 4 = 0 -> 2 * sheet
      [] i % 4 = 1 -> sigSize - 1 - 2 * sheet
      [] i % 4 = 2 -> 2 * sheet + 1
      [] i % 4 = 3 -> sigSize - 2 - 2 * sheet

\* Signature after signature; no caller reverses signatures.
Shuffled(pages, sigSize) ==
    [k \in DOMAIN pages |->
        LET i == (k - 1) % sigSize IN
        pages[(k - 1) - i + ShuffledIndex(i, sigSize) + 1]]

ShuffleModes == {"evenodd", "interleave", "perfect", "signature"}

ShufflePages(pages, mode, size) ==
    LET split == SplitEvenOdd(pages) IN
    CASE mode = "evenodd"    -> MergeInterlace(split[1], split[2])
      [] mode = "interleave" -> pages
      [] mode = "perfect"    -> PaddedTo(pages, SigSize(size))
      [] mode = "signature"  -> Shuffled(PaddedTo(pages, SigSize(size)), SigSize(size))
===============================================================================
