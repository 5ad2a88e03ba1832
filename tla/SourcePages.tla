----------------------------- MODULE SourcePages ------------------------------
(***************************************************************************)
(* The page sequence every planner of src/src/ImpositionPlan.cpp starts    *)
(* from (BuildSourcePages): the pages of the document or an explicit       *)
(* sequence, filtered, reversed and padded with blanks, in that order.     *)
(***************************************************************************)
EXTENDS Naturals, SequencesExt, FiniteSets

CONSTANTS
    Blank,  \* kBlankPageIndex
    Word    \* 2^32: std::uint32_t counts modulo Word

ASSUME PagesAssumption == Blank \notin Nat /\ Word \in Nat \ {0} /\ Word % 4 = 0

Filters == {"all", "even", "odd"}

\* Mutation of PageOrBlank: the number of the last page is taken for its index.
PageOrBlank_CountsFromOne(page, pageCount) ==
    IF page # Blank /\ page <= pageCount THEN page ELSE Blank

\* An index the document does not have becomes a blank page.
PageOrBlank(page, pageCount) ==
    IF page # Blank /\ page < pageCount THEN page ELSE Blank

\* The explicit sequence, or all pages of the document.
ChosenPages(pageCount, explicit) ==
    IF explicit = <<>>
    THEN [i \in 1 .. pageCount |-> i - 1]
    ELSE [i \in DOMAIN explicit |-> PageOrBlank(explicit[i], pageCount)]

\* Blank pages pass every filter; the others are judged by their number as
\* people count, from 1.
Passes(page, filter) ==
    \/ page = Blank
    \/ filter = "all"
    \/ filter = "even" /\ (page + 1) % 2 = 0
    \/ filter = "odd" /\ (page + 1) % 2 # 0

\* The k-th of a set of indices.
Nth(indices, k) == CHOOSE i \in indices : Cardinality({j \in indices : j <= i}) = k

\* The elements of a sequence at some of its places, in their order.
Subsequence(s, places) == [k \in 1 .. Cardinality(places) |-> s[Nth(places, k)]]

\* The pages that pass, in their order.
Filtered(pages, filter) ==
    Subsequence(pages, {i \in DOMAIN pages : Passes(pages[i], filter)})

Blanks(n) == [i \in 1 .. n |-> Blank]

PaddedTo(pages, multiple) ==
    IF multiple = 0 \/ Len(pages) % multiple = 0 THEN pages
    ELSE pages \o Blanks(multiple - (Len(pages) % multiple))

Ordered(pages, reverse) == IF reverse THEN Reverse(pages) ELSE pages

BuildSourcePages(pageCount, options) ==
    PaddedTo(Ordered(Filtered(ChosenPages(pageCount, options.explicit),
                              options.filter),
                     options.reverse),
             options.padToMultiple)

\* The signature size in whole sheets of four pages; 0 asks for a single
\* signature, which is also what a size within 3 of the largest number gives.
NormalizeSignatureSize(size) ==
    CASE size = 0           -> 0
      [] size \in 1 .. 3    -> 4
      [] size > 3           -> (((size + 3) \div 4) * 4) % Word
===============================================================================
