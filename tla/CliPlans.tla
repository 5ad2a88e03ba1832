------------------------------- MODULE CliPlans --------------------------------
(***************************************************************************)
(* The plan main (src/src/CliMain.cpp) builds in each of its modes, from   *)
(* the settings, with the planners of ImpositionPlan.cpp that only the     *)
(* command line uses, the changes of AdjustPages.cpp and PageTools.cpp,    *)
(* and the two checks of a plan: ValidatePlan and                          *)
(* ValidatePrepressReadiness (PdfComposer.cpp).                            *)
(***************************************************************************)
EXTENDS VariableData, StickOn

\* outputSheet, sourcePageCount and placements of an ImpositionPlan.
PlanOf(sheet, count, placed) == [sheet |-> sheet, count |-> count, placed |-> placed]

Has(sheet) == sheet.w > 0 /\ sheet.h > 0

BuildOptions(s) ==
    [explicit |-> Setting(s, "explicit"),
     filter |-> Setting(s, "--filter"),
     reverse |-> On(s, "--reverse"),
     padToMultiple |-> Setting(s, "--pad-multiple"),
     scaleToFit |-> /\ On(s, "--fit-to-slot")
                    /\ Setting(s, "--source-page-width") > 0
                    /\ Setting(s, "--source-page-height") > 0,
     autoRotate |-> On(s, "--rotate-to-fit"),
     page |-> Size(Setting(s, "--source-page-width"), Setting(s, "--source-page-height"))]

SheetOf(s) == Size(Setting(s, "--sheet-width"), Setting(s, "--sheet-height"))

SourcePagesOf(s, count) ==
    IF count = 0 \/ ~Has(SheetOf(s)) THEN <<>> ELSE BuildSourcePages(count, BuildOptions(s))

-----------------------------------------------------------------------------
\* Mutation of BookletSignatures: every signature starts on sheet 0.
BookletSignatures_OneSheetRange(pages, size, sheet, creep) ==
    IF size = 0 THEN Booklet(pages, sheet, creep)
    ELSE UNION {Booklet(PaddedTo(SubSeq(pages, k * size + 1, Least((k + 1) * size, Len(pages))),
                                 size), sheet, creep) :
                   k \in 0 .. ((Len(pages) + size - 1) \div size) - 1}

\* BookletPlanner: signature after signature, the last one filled up.
BookletSignatures(pages, size, sheet, creep) ==
    LET signature(k) == PaddedTo(SubSeq(pages, k * size + 1, Least((k + 1) * size, Len(pages))),
                                 size) IN
    IF size = 0 THEN Booklet(pages, sheet, creep)
    ELSE UNION {{[p EXCEPT !.sheet = @ + k * (size \div 2)] :
                    p \in Booklet(signature(k), sheet, creep)} :
                   k \in 0 .. ((Len(pages) + size - 1) \div size) - 1}

\* ManualPlanner: the pages in the order given, without filter or padding.
Manual(count, order, sheet, columns, rows, options) ==
    IF count = 0 \/ ~Has(sheet) \/ columns = 0 \/ rows = 0 THEN {}
    ELSE NUp([i \in DOMAIN order |-> PageOrBlank(order[i], count)],
             sheet, columns, rows, options)

\* The cells of TilePlanner: columns and rows that overlap.
TileCell(column, row, columns, rows, overlap, sheet) ==
    LET size == Size((sheet.w + overlap * (columns - 1)) \div columns,
                     (sheet.h + overlap * (rows - 1)) \div rows) IN
    Rect(column * (size.w - overlap), row * (size.h - overlap), size)

\* TilePlanner: every page on a sheet of its own, once in every cell.
Tiles(pages, sheet, columns, rows, overlap, options) ==
    LET cell(c, r) == TileCell(c, r, columns, rows, overlap, sheet)
        placed(i, c, r) == Place(i - 1, r * columns + c, pages[i], cell(c, r),
                                 Turned(cell(c, r), options)) IN
    IF columns = 0 \/ rows = 0 \/ cell(0, 0).w < overlap \/ cell(0, 0).h < overlap THEN {}
    ELSE {placed(i, c, r) : i \in DOMAIN pages, c \in 0 .. columns - 1, r \in 0 .. rows - 1}

-----------------------------------------------------------------------------
Inserted(pages, at, blanks) == SubSeq(pages, 1, at) \o blanks \o SubSeq(pages, at + 1, Len(pages))

AllPagesOf(s) == [i \in 1 .. Setting(s, "--pages") |-> i - 1]

\* InsertBlankPages: beyond the end means at the end.
InsertBlankPages(pages, at, count) == Inserted(pages, Least(at, Len(pages)), Blanks(count))

\* insert-file: one iterator per page, undefined beyond the end.
InsertFile(pages, at, count) == Inserted(pages, at, Blanks(count))

\* insert-conditional without padding: before page at, if its index is even
\* (odd under the filter odd).
InsertConditional(pages, at, count, filter) ==
    IF at < Len(pages) /\ ((at % 2 = 0) = (filter # "odd"))
    THEN Inserted(pages, at, Blanks(count)) ELSE pages

\* The explicit sequence the insert modes give to the planner.
InsertSequence(mode, s) ==
    LET at == Setting(s, "--insert-at")
        count == Setting(s, "--insert-count")
        multiple == Setting(s, "--pad-multiple") IN
    CASE mode = "insert-blank" -> InsertBlankPages(AllPagesOf(s), at, count)
      [] mode = "insert-file" -> InsertFile(AllPagesOf(s), at, count)
      [] mode = "insert-conditional" ->
            IF multiple > 0 THEN PaddedTo(AllPagesOf(s), multiple)
            ELSE InsertConditional(AllPagesOf(s), at, count, Setting(s, "--filter"))

\* ApplyAdjustSpec to every placement: what counts is what the mode asks for.
\* Only of plans without --fit-to-slot, where the page fills its cell.
Adjusted(cell, s) ==
    LET mode == Setting(s, "--adjust-mode")
        value(key) == Setting(s, key)
        target == Size(value("--target-width"), value("--target-height"))
        ByWidth == target.w * cell.h <= target.h * cell.w
        scaled(byWidth) == IF byWidth THEN Size(target.w, (cell.h * target.w) \div cell.w)
                           ELSE Size((cell.w * target.h) \div cell.h, target.h) IN
    CASE mode \in {Empty, Text("scale")} ->
            Rect(cell.x, cell.y, Size(cell.w * value("--scale-x"), cell.h * value("--scale-y")))
      [] mode = Text("crop") ->
            IF value("--crop-w") > 0 /\ value("--crop-h") > 0
            THEN Rect(cell.x + value("--crop-x"), cell.y + value("--crop-y"),
                      Size(Least(cell.w - value("--crop-x"), value("--crop-w")),
                           Least(cell.h - value("--crop-y"), value("--crop-h"))))
            ELSE cell
      [] mode = Text("extend") ->
            Rect(cell.x - value("--extend-left"), cell.y - value("--extend-bottom"),
                 Size(cell.w + value("--extend-left") + value("--extend-right"),
                      cell.h + value("--extend-bottom") + value("--extend-top")))
      [] mode \in {Text("scale-to-fit"), Text("scale-to-fill")} ->
            IF target.w > 0 /\ target.h > 0 /\ cell.w > 0 /\ cell.h > 0
            THEN Rect(cell.x, cell.y, scaled(ByWidth = (mode = Text("scale-to-fit"))))
            ELSE cell

AdjustModes == {Empty} \union {Text(mode) : mode \in
                   {"scale", "crop", "extend", "scale-to-fit", "scale-to-fill"}}

ApplyAdjustSpec(placed, s) == {[p EXCEPT !.cell = Adjusted(p.cell, s)] : p \in placed}

-----------------------------------------------------------------------------
StickModes == {"stick-text", "stick-fields", "stick-bates", "stick-pdf", "stick-tape", "peel-off"}

InsertModes == {"insert-blank", "insert-file", "insert-conditional"}

\* These modes make a plan and go through the common output.
PlanModes ==
    {"two-up", "preset", "n-up", "booklet", "step-repeat", "manual", "tile", "trim-shift",
     "adjust-pages", "variable-data"} \union InsertModes \union StickModes

\* These end with what they have written themselves.
EarlyModes == {"sample-doc", "imposition-info", "shuffle-assistant", "peel-off-remove"}

ModuleModes ==
    {"trim-shift", "adjust-pages", "insert-file", "variable-data", "imposition-info",
     "shuffle-assistant", "peel-off-remove"} \union StickModes

HasGrid(s) == Setting(s, "--columns") > 0 /\ Setting(s, "--rows") > 0

\* What a mode asks for; main ends with 1 without it.
Given(mode, s) ==
    CASE mode = "n-up" -> HasGrid(s)
      [] mode = "tile" -> HasGrid(s) /\ Setting(s, "--tile-overlap") >= 0
      [] mode = "manual" ->
            /\ HasGrid(s)
            /\ IF IsSet(s, "--manual-sequence") THEN IsPageSequence(Setting(s, "--manual-sequence"))
               ELSE Setting(s, "manual") # <<>>
      [] mode = "step-repeat" ->
            \A key \in {"--repeat-x", "--repeat-y", "--slot-width", "--slot-height"} :
               Setting(s, key) > 0
      [] mode = "adjust-pages" -> Setting(s, "--adjust-mode") \in AdjustModes
      [] mode \in {"stick-fields", "variable-data"} -> DataSetLoads(Setting(s, "--variable-csv"))
      [] mode = "stick-pdf" -> IsSet(s, "--source-pdf")
      [] mode = "sample-doc" -> IsSet(s, "--pdf-out")
      [] mode = "shuffle-assistant" -> Setting(s, "--pages") > 0
      [] OTHER -> mode \in PlanModes \union EarlyModes

\* The sequences main reads into the settings before it plans.
Sequenced(mode, s) ==
    LET read == (IF mode \in InsertModes \/ IsSet(s, "--page-sequence") THEN {"explicit"} ELSE {})
                \union (IF mode = "manual" /\ IsSet(s, "--manual-sequence") THEN {"manual"} ELSE {}) IN
    [key \in DOMAIN s \union read |->
        IF key \notin read THEN s[key]
        ELSE IF key = "manual" THEN PageSequence(Setting(s, "--manual-sequence"))
        ELSE IF mode \in InsertModes THEN InsertSequence(mode, s)
        ELSE PageSequence(Setting(s, "--page-sequence"))]

\* Pages that are turned to fit, for the planners that are not given options.
Fitted(placed, options) == {[p EXCEPT !.turned = Turned(p.cell, options)] : p \in placed}

TwoUpOf(pages, s) == Fitted(TwoUp(pages, SheetOf(s)), BuildOptions(s))

PageCountOf(mode, s) ==
    IF mode \in InsertModes THEN Len(Setting(s, "explicit")) ELSE Setting(s, "--pages")

BookletOf(pages, s) ==
    Fitted(BookletSignatures(pages, NormalizeSignatureSize(Setting(s, "--signature-size")),
                             SheetOf(s), Setting(s, "--creep")),
           BuildOptions(s))

StepRepeatConfig(s) ==
    [columns |-> Setting(s, "--repeat-x"), rows |-> Setting(s, "--repeat-y"),
     stepX |-> Setting(s, "--step-x"), stepY |-> Setting(s, "--step-y"),
     seed |-> Size(Setting(s, "--slot-width"), Setting(s, "--slot-height"))]

Placed(mode, s) ==
    LET pages == SourcePagesOf(s, PageCountOf(mode, s))
        sheet == SheetOf(s)
        columns == Setting(s, "--columns")
        rows == Setting(s, "--rows") IN
    CASE mode = "n-up" -> NUp(pages, sheet, columns, rows, BuildOptions(s))
      [] mode = "booklet" -> BookletOf(pages, s)
      [] mode = "step-repeat" ->
            StepAndRepeat(pages, sheet, StepRepeatConfig(s), BuildOptions(s))
      [] mode = "manual" ->
            Manual(Setting(s, "--pages"), Setting(s, "manual"), sheet, columns, rows,
                   BuildOptions(s))
      [] mode = "tile" ->
            Tiles(pages, sheet, columns, rows, Setting(s, "--tile-overlap"), BuildOptions(s))
      [] mode = "trim-shift" ->
            ApplyCreepShiftToPlan(BookletOf(pages, s), Setting(s, "shiftCreep"),
                                  Setting(s, "--signature-size"))
      [] mode = "adjust-pages" -> ApplyAdjustSpec(TwoUpOf(pages, s), s)
      [] OTHER -> TwoUpOf(pages, s)

PlanFor(mode, s) == PlanOf(SheetOf(s), PageCountOf(mode, s), Placed(mode, s))

-----------------------------------------------------------------------------
\* Of the whole cell, which a page that is scaled to fit need not fill.
OffSheet(p, sheet) ==
    \/ p.cell.x + p.shift < 0 \/ p.cell.x + p.shift + p.cell.w > sheet.w
    \/ p.cell.y < 0 \/ p.cell.y + p.cell.h > sheet.h

\* The codes of the issues ValidatePlan finds.
ValidatePlan(plan) ==
    {code \in {"invalid-sheet", "invalid-rect", "out-of-bounds", "invalid-source-page"} :
        CASE code = "invalid-sheet" -> ~Has(plan.sheet)
          [] code = "invalid-rect" -> \E p \in plan.placed : p.cell.w <= 0 \/ p.cell.h <= 0
          [] code = "out-of-bounds" -> \E p \in plan.placed : OffSheet(p, plan.sheet)
          [] OTHER -> \E p \in plan.placed : p.page # Blank /\ p.page >= plan.count}

\* ValidatePrepressReadiness finds an error; its warnings stop nothing.
PreflightErrors(plan, s) ==
    LET marks == On(s, "--pdf-trim-marks")
        bleedBox == On(s, "--pdf-bleed-box")
        bleed == Setting(s, "--pdf-bleed") > 0 IN
    \/ ~Has(plan.sheet)
    \/ marks /\ Setting(s, "--pdf-trim-length") <= 0
    \/ Setting(s, "--pdf-trim-offset") < 0
    \/ bleedBox /\ ~bleed
    \/ Setting(s, "--pdfx-profile") # "none" /\ ~(marks /\ bleedBox /\ bleed)
===============================================================================
