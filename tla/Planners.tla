------------------------------- MODULE Planners -------------------------------
(***************************************************************************)
(* The planners of the Acrobat plugin as functions of their inputs:        *)
(* TwoUpPlanner, NUpPlanner, StepAndRepeatPlanner and one signature of     *)
(* BookletPlanner (src/src/ImpositionPlan.cpp), BuildTilePlan (TilePages), *)
(* BuildReorderPlan (ImposePlugin) and the creep shift (TrimShift).  A     *)
(* plan is a set of placements; the order in which the code lists them is  *)
(* that of their sheets and slots.  Lengths are whole units.  A page that  *)
(* is scaled to fit its cell is centred in it; a placement keeps the cell, *)
(* whether the page is turned by 90 degrees in it, and the distance creep  *)
(* has moved it to the right.                                              *)
(***************************************************************************)
EXTENDS SourcePages, Integers, FiniteSets

CONSTANT
    RoundedUp  \* numbers of columns or rows n for which, in doubles,
               \* (n - 1) * size + size > n * size

ASSUME PlannersAssumption == RoundedUp \subseteq Nat

Least(a, b) == IF a < b THEN a ELSE b

Size(w, h) == [w |-> w, h |-> h]

Rect(x, y, size) == [x |-> x, y |-> y, w |-> size.w, h |-> size.h]

Place(sheet, slot, page, cell, turned) ==
    [sheet |-> sheet, slot |-> slot, page |-> page, cell |-> cell,
     turned |-> turned, shift |-> 0]

\* BuildPlacementGeometry turns a page when that lets it be larger: the
\* smaller one of the two ratios decides, here without the division.
Turned(cell, options) ==
    /\ options.scaleToFit /\ options.autoRotate
    /\ Least(cell.w * options.page.w, cell.h * options.page.h)
         > Least(cell.w * options.page.h, cell.h * options.page.w)

-----------------------------------------------------------------------------
TwoUp(pages, sheet) ==
    LET half == Size(sheet.w \div 2, sheet.h) IN
    {Place((i - 1) \div 2, (i - 1) % 2, pages[i],
           Rect(((i - 1) % 2) * half.w, 0, half), FALSE) : i \in DOMAIN pages}

\* std::uint32_t slotsPerSheet.
SlotsPerSheet(columns, rows) == (columns * rows) % Word

\* Division by zero, where it does not end the program, gives 0.
Quotient(i, n) == IF n = 0 THEN 0 ELSE i \div n
Remainder(i, n) == i - Quotient(i, n) * n

\* Mutation of Cell: the row is found with the number of rows.
Cell_RowByRows(slot, columns, rows, sheet) ==
    LET size == Size(sheet.w \div columns, sheet.h \div rows) IN
    Rect((slot % columns) * size.w, (slot \div rows) * size.h, size)

Cell(slot, columns, rows, sheet) ==
    LET size == Size(sheet.w \div columns, sheet.h \div rows) IN
    Rect((slot % columns) * size.w, (slot \div columns) * size.h, size)

NUp(pages, sheet, columns, rows, options) ==
    LET perSheet == SlotsPerSheet(columns, rows)
        slot(i) == Remainder(i - 1, perSheet)
        cell(i) == Cell(slot(i), columns, rows, sheet) IN
    {Place(Quotient(i - 1, perSheet), slot(i), pages[i], cell(i),
           Turned(cell(i), options)) : i \in DOMAIN pages}

\* IsRectOutsideSheet for the n-th copy in one direction; a copy that ends
\* exactly at the edge of the sheet is lost to rounding for some n.
Outside(n, step, size, limit) ==
    \/ n * step + size > limit
    \/ n * step + size = limit /\ n + 1 \in RoundedUp

\* The cells of a sheet that lie on it, numbered row by row.
Repeats(config, sheet) ==
    LET onSheet == {c \in (0 .. config.columns - 1) \X (0 .. config.rows - 1) :
                      /\ ~Outside(c[1], config.stepX, config.seed.w, sheet.w)
                      /\ ~Outside(c[2], config.stepY, config.seed.h, sheet.h)} IN
    {c[2] * config.columns + c[1] : c \in onSheet}

\* Page after page takes the next cell; nothing is placed when no cell is on
\* the sheet.  The number of a slot is kept in 32 bits.
StepAndRepeat(pages, sheet, config, options) ==
    LET cells == Repeats(config, sheet)
        perSheet == Cardinality(cells)
        place(i) == Nth(cells, ((i - 1) % perSheet) + 1)
        cell(i) == Rect((place(i) % config.columns) * config.stepX,
                        (place(i) \div config.columns) * config.stepY, config.seed) IN
    IF cells = {} THEN {}
    ELSE {Place((i - 1) \div perSheet, place(i) % Word, pages[i], cell(i),
                Turned(cell(i), options)) : i \in DOMAIN pages}

\* Every tile of a page is put on one sheet of the size of a tile.
TileSheet(columns, rows, page) == Size(page.w \div columns, page.h \div rows)

BuildTilePlan(pageCount, columns, rows, page) ==
    {Place(p, slot, p, Rect(0, 0, TileSheet(columns, rows, page)), FALSE) :
        p \in 0 .. pageCount - 1, slot \in 0 .. columns * rows - 1}

BuildReorderPlan(order, page) ==
    {Place(i - 1, 0, order[i], Rect(0, 0, page), FALSE) : i \in DOMAIN order}

-----------------------------------------------------------------------------
\* Mutation of SheetSides: the back is laid out like the front.
SheetSides_BackLikeFront(signature, s) ==
    LET half(side, slot, index) ==
            [side |-> side, slot |-> slot, page |-> signature[index + 1]]
        last == Len(signature) - 1 IN
    {half(0, 0, last - 2 * s), half(0, 1, 2 * s),
     half(1, 0, last - 1 - 2 * s), half(1, 1, 2 * s + 1)}

\* Sheet s of a signature: two pages in front, two behind.
SheetSides(signature, s) ==
    LET half(side, slot, index) ==
            [side |-> side, slot |-> slot, page |-> signature[index + 1]]
        last == Len(signature) - 1 IN
    {half(0, 0, last - 2 * s), half(0, 1, 2 * s),
     half(1, 0, 2 * s + 1), half(1, 1, last - 1 - 2 * s)}

\* Creep moves the left half of a side to the right, the right one to the left.
Inwards(slot, distance) == IF slot = 0 THEN distance ELSE -distance

\* The distance creep moves the sheet at this depth; creep is not negative.
CreepMagnitude(s, creep) == IF creep > 0 THEN s * creep ELSE 0

\* A booklet of one signature.
Booklet(pages, sheet, creep) ==
    LET signature == PaddedTo(pages, 4)
        half == Size(sheet.w \div 2, sheet.h)
        placed(s, q) == [Place(2 * s + q.side, q.slot, q.page,
                               Rect(q.slot * half.w, 0, half), FALSE)
                           EXCEPT !.shift = Inwards(q.slot, CreepMagnitude(s, creep))] IN
    UNION {{placed(s, q) : q \in SheetSides(signature, s)} :
              s \in 0 .. (Len(signature) \div 4) - 1}

-----------------------------------------------------------------------------
\* Mutation of ComputeCreepOffset: sheets are counted from the inside.
ComputeCreepOffset_FromInside(sheetFromOutside, total, creep) ==
    IF total = 0 \/ creep <= 0 THEN 0
    ELSE (total - 1 - Least(sheetFromOutside, total - 1)) * creep

ComputeCreepOffset(sheetFromOutside, total, creep) ==
    IF total = 0 \/ creep <= 0 THEN 0
    ELSE Least(sheetFromOutside, total - 1) * creep

SidesOf(placed) == {p.sheet : p \in placed}

\* Mutation of PhysicalSheet: sides are not paired.
PhysicalSheet_EverySide(side, placed) == Cardinality({t \in SidesOf(placed) : t < side})

\* Two sides in the order of their numbers are one sheet, counted from 0
\* through the whole plan.
PhysicalSheet(side, placed) == Cardinality({t \in SidesOf(placed) : t < side}) \div 2

SheetsInSignature(total, placed) ==
    IF total > 0 THEN total \div 2 ELSE (Cardinality(SidesOf(placed)) + 1) \div 2

\* Every placement moves inward by the creep of its sheet.
ApplyCreepShiftToPlan(placed, creep, total) ==
    IF creep <= 0 THEN placed
    ELSE {[p EXCEPT !.shift = @ + Inwards(p.slot,
             ComputeCreepOffset(PhysicalSheet(p.sheet, placed),
                                SheetsInSignature(total, placed), creep))] :
            p \in placed}
===============================================================================
