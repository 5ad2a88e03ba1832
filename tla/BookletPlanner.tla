---------------------------- MODULE BookletPlanner ----------------------------
(***************************************************************************)
(* BookletPlanner::Build of src/src/ImpositionPlan.cpp.  The source pages  *)
(* are cut into signatures; the pages of a signature are laid out so that  *)
(* its sheets, printed on both sides, nested and folded, read in order.    *)
(* The two loops, over signatures and over the sheets of a signature, are  *)
(* one action each.  A placement keeps its side (sheetIndex: the front of  *)
(* a sheet is even, its back odd), its slot (0 left, 1 right), its page    *)
(* and the distance creep has moved it to the right, in units of the creep *)
(* per sheet; the rest of the geometry is left out.                        *)
(***************************************************************************)
EXTENDS Planners

CONSTANTS
    PageCounts,  \* page counts of the documents explored
    OptionSets   \* build options explored

\* What a page sequence of the options may name.
Pages == Nat \union {Blank}

\* The fields of BuildOptions the planner reads: unsigned numbers, and a creep
\* that is not negative (a negative one is taken as 0, and the command line
\* refuses it).
ASSUME BookletAssumption ==
    /\ PageCounts \subseteq Nat
    /\ OptionSets \subseteq [explicit : Seq(Pages), filter : Filters, reverse : BOOLEAN,
                             padToMultiple : Nat, signatureSize : 0 .. Word - 1, creep : Nat]

VARIABLES
    stage,             \* "idle", "signatures", "sheets" or "done"
    options,           \* options of the plan being built
    sourcePageCount,   \* pages of the document
    pages,             \* sourcePages
    signatureSize,     \* normalizedSignatureSize
    sourcePos,         \* pages taken by signatures so far
    signature,         \* signaturePages, padded
    signatureSheet,    \* sheets of the signature placed so far
    sheetIndexOffset,
    paddedPageCount,
    placements

bookletVars == <<stage, options, sourcePageCount, pages, signatureSize, sourcePos,
                 signature, signatureSheet, sheetIndexOffset, paddedPageCount,
                 placements>>

\* What is settled when the planning begins.
planInput == <<options, sourcePageCount, pages, signatureSize>>

Placement(sheet, slot, page, shift) ==
    [sheet |-> sheet, slot |-> slot, page |-> page, shift |-> shift]

BookletInit ==
    /\ stage = "idle"
    /\ options \in OptionSets
    /\ sourcePageCount = 0 /\ pages = <<>> /\ signatureSize = 0
    /\ sourcePos = 0 /\ signature = <<>> /\ signatureSheet = 0
    /\ sheetIndexOffset = 0 /\ paddedPageCount = 0 /\ placements = {}

-----------------------------------------------------------------------------
\* Build is called.  The plan stays empty when there is nothing to place.
Build(pageCount) ==
    LET source == IF pageCount = 0 THEN <<>>
                  ELSE BuildSourcePages(pageCount, options) IN
    /\ stage = "idle"
    /\ sourcePageCount' = pageCount
    /\ pages' = source
    /\ signatureSize' = NormalizeSignatureSize(options.signatureSize)
    /\ stage' = IF source = <<>> THEN "done" ELSE "signatures"
    /\ UNCHANGED <<options, sourcePos, signature, signatureSheet,
                   sheetIndexOffset, paddedPageCount, placements>>

\* Mutation of Taken: size 0 is taken literally, as if it were no wish for a
\* single signature.
Taken_SizeLiterally == Least(signatureSize, Len(pages) - sourcePos)

\* Pages the next signature takes, and pages it has when it is padded.
Taken == IF signatureSize = 0 THEN Len(pages) - sourcePos
         ELSE Least(signatureSize, Len(pages) - sourcePos)

PaddedLength == IF signatureSize = 0 THEN ((Taken + 3) \div 4) * 4
                ELSE signatureSize

\* The next signature is cut off and filled up with blanks.
NextSignature ==
    /\ stage = "signatures"
    /\ sourcePos < Len(pages)
    /\ signature' = [i \in 1 .. PaddedLength |->
                       IF i <= Taken THEN pages[sourcePos + i] ELSE Blank]
    /\ sourcePos' = sourcePos + Taken
    /\ paddedPageCount' = paddedPageCount + PaddedLength
    /\ signatureSheet' = 0
    /\ stage' = "sheets"
    /\ UNCHANGED <<planInput, sheetIndexOffset, placements>>

\* Mutation of PlaceSheet: creep moves the pages of the back as seen through
\* the sheet.
PlaceSheet_BackMirrored ==
    LET s == signatureSheet
        distance(q) == IF (q.slot = 0) = (q.side = 0)
                       THEN s * options.creep ELSE -(s * options.creep) IN
    /\ stage = "sheets"
    /\ s < Len(signature) \div 4
    /\ placements' = placements \union
          {Placement(sheetIndexOffset + 2 * s + q.side, q.slot, q.page,
                     distance(q)) : q \in SheetSides(signature, s)}
    /\ signatureSheet' = s + 1
    /\ UNCHANGED <<stage, planInput, sourcePos, signature, sheetIndexOffset,
                   paddedPageCount>>

\* One sheet of the signature is laid out, its front and its back.
PlaceSheet ==
    LET s == signatureSheet IN
    /\ stage = "sheets"
    /\ s < Len(signature) \div 4
    /\ placements' = placements \union
          {Placement(sheetIndexOffset + 2 * s + q.side, q.slot, q.page,
                     Inwards(q.slot, s * options.creep)) :
              q \in SheetSides(signature, s)}
    /\ signatureSheet' = s + 1
    /\ UNCHANGED <<stage, planInput, sourcePos, signature, sheetIndexOffset,
                   paddedPageCount>>

\* All sheets are placed: the next signature starts on a new sheet.
EndSignature ==
    /\ stage = "sheets"
    /\ signatureSheet = Len(signature) \div 4
    /\ sheetIndexOffset' = sheetIndexOffset + 2 * signatureSheet
    /\ stage' = "signatures"
    /\ UNCHANGED <<planInput, sourcePos, signature, signatureSheet,
                   paddedPageCount, placements>>

\* No pages are left: the plan is returned.
EndBuild ==
    /\ stage = "signatures"
    /\ sourcePos >= Len(pages)
    /\ stage' = "done"
    /\ UNCHANGED <<planInput, sourcePos, signature, signatureSheet,
                   sheetIndexOffset, paddedPageCount, placements>>

BookletNext ==
    \/ \E pageCount \in PageCounts : Build(pageCount)
    \/ NextSignature \/ PlaceSheet \/ EndSignature \/ EndBuild

BookletSpec == BookletInit /\ [][BookletNext]_bookletVars

-----------------------------------------------------------------------------
BookletTypeOK ==
    /\ stage \in {"idle", "signatures", "sheets", "done"}
    /\ sourcePageCount \in Nat
    /\ pages \in Seq(Pages)
    /\ signature \in Seq(Pages)
    /\ Len(signature) % 4 = 0
    /\ signatureSize \in Nat /\ signatureSize % 4 = 0
    /\ sourcePos \in 0 .. Len(pages)
    /\ signatureSheet \in 0 .. Len(signature) \div 4
    /\ sheetIndexOffset \in Nat
    /\ paddedPageCount \in Nat
    /\ placements \subseteq [sheet : Nat, slot : {0, 1},
                             page : Pages, shift : Int]

Holds(sheet, slot, page) ==
    \E p \in placements : p.sheet = sheet /\ p.slot = slot /\ p.page = page

\* Reference for folding: in a folded signature of length pages, page m is on
\* the side as deep as its distance from the nearer end, and on the right when
\* m is even, as in any book that begins with a right-hand page.
SideOf(m, length) == Least(m, length - 1 - m)
SlotOf(m) == 1 - (m % 2)

\* The book: signature after signature, each folded, the plan reads as the
\* source pages in their order, with blanks behind them to fill up.
BookReadsInOrder ==
    LET length == IF signatureSize = 0 THEN paddedPageCount ELSE signatureSize IN
    stage = "done" =>
        \A n \in 0 .. paddedPageCount - 1 :
            Holds((n \div length) * (length \div 2) + SideOf(n % length, length),
                  SlotOf(n % length),
                  IF n < Len(pages) THEN pages[n + 1] ELSE Blank)

\* Every page of the document that passes the filter is placed once, or as
\* often as the explicit sequence asks for it; what is asked for and does not
\* exist is not placed.
PagesAsAsked ==
    LET asked(page) == IF options.explicit = <<>> THEN 1
                       ELSE Cardinality({i \in DOMAIN options.explicit :
                                            options.explicit[i] = page}) IN
    stage = "done" =>
        /\ \A page \in 0 .. sourcePageCount - 1 :
              Cardinality({p \in placements : p.page = page})
                  = IF Passes(page, options.filter) THEN asked(page) ELSE 0
        /\ \A p \in placements : p.page = Blank \/ p.page < sourcePageCount

\* The two sides of a leaf move by the same distance: what is the left half
\* of a sheet in front is its right half behind.
LeavesStayAligned ==
    \A p, q \in placements :
        p.sheet % 2 = 0 /\ q.sheet = p.sheet + 1 /\ q.slot # p.slot
            => q.shift = - p.shift

\* Build returns, whatever the signature size and the sequence.
EveryBuildEnds == stage # "idle" ~> stage = "done"
===============================================================================
