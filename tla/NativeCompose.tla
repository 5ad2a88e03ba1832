----------------------------- MODULE NativeCompose ----------------------------
(***************************************************************************)
(* The imposition commands of the Acrobat plugin (src/src/ImposePlugin.cpp,*)
(* Execute..., NativeComposePlan, TryRunExperimentalSdkComposer).  A       *)
(* command plans, writes the plan as operations to a file in the temporary *)
(* directory, reads the file back, checks it against the plan and composes *)
(* the output page by page.  Every running instance of Acrobat uses the    *)
(* same file, and the same file for the last action.  Steps of a command   *)
(* are the places where another instance or a fault can come between.      *)
(* Lengths are in half points.  Output names, messages and page content    *)
(* are left out; so is the printed precision of numbers, which is enough   *)
(* for sheets of less than 10000 points.                                   *)
(***************************************************************************)
EXTENDS Planners, PageOrders

CONSTANTS
    Instances,  \* running instances of Acrobat
    Documents,  \* page counts of the documents in front
    PageSize,   \* size of the first page
    Dialogs,    \* what the user may have entered
    MaxRuns,    \* commands given, by all instances
    MaxFaults   \* calls that fail or give nothing

Kinds == {"booklet", "nup", "steprepeat", "join2", "shuffle", "evenodd",
          "reverse", "trimshift", "creep", "tile"}

\* What of a dialog the shape of a plan rests on.  Columns and rows are at least
\* 1 when they are read; that a large number may be 0 in 32 bits is left out.
\* A document has a page (GetActiveDocOrError), which has an area, and a sheet has
\* both lengths or is the one that fits (SheetFromPopup).
ASSUME NativeAssumption ==
    /\ Documents \subseteq Nat \ {0}
    /\ PageSize.w \in Nat \ {0} /\ PageSize.h \in Nat \ {0}
    /\ \A d \in Dialogs :
          /\ d.kind \in Kinds
          /\ d.kind \in {"nup", "steprepeat", "tile"}
                => d.columns \in 1 .. Word - 1 /\ d.rows \in 1 .. Word - 1
          /\ d.kind \in {"nup", "steprepeat"} => d.sheet.w \in Nat /\ d.sheet.h \in Nat
          /\ d.kind \in {"booklet", "nup", "steprepeat"} =>
                (d.sheet.w > 0 => d.sheet.h > 0)
          /\ d.kind = "steprepeat" => d.stepX \in Nat /\ d.stepY \in Nat
          /\ d.kind = "shuffle" => d.mode \in ShuffleModes /\ d.size \in Nat

VARIABLES
    job,         \* of each instance, the command it is at or was at last, and
                 \* its step: idle, planned, writing, written, composing, saved,
                 \* failed or crashed
    opsFile,     \* imposr-sdk-ops-tmp.json
    lastAction,  \* aimp-last-action.json: a kind, or "none"
    runs,
    faults

pluginVars == <<job, opsFile, lastAction, runs, faults>>

NoDialog == [kind |-> "none"]

NoPlan == [pageCount |-> 0, placements |-> {}]

NoJob == [step |-> "idle", dialog |-> NoDialog, pages |-> 0, plan |-> NoPlan,
          ops |-> {}, out |-> <<>>,
          disturbed |-> FALSE,  \* another instance changed the file meanwhile
          faulty |-> FALSE]     \* a call of this command failed

\* The file is missing, holds the operations of one plan, or something that
\* is not valid JSON (nothing, a part, one plan over the end of a longer one).
NoFile == [holds |-> "nothing", ops |-> {}]
Garbled == [holds |-> "garbage", ops |-> {}]
Holding(ops) == [holds |-> "ops", ops |-> ops]

PluginInit ==
    /\ job = [i \in Instances |-> NoJob]
    /\ opsFile = NoFile
    /\ lastAction = "none"
    /\ runs = 0 /\ faults = 0

-----------------------------------------------------------------------------
\* A sheet size chosen in a dialog, or the one that fits the pages.
SheetOf(d, default) == IF d.sheet.w > 0 THEN d.sheet ELSE default

Grid(d) == Size(PageSize.w * d.columns, PageSize.h * d.rows)
Spread == Size(2 * PageSize.w, PageSize.h)
AllPages(n) == [i \in 1 .. n |-> i - 1]

Fitted(scaled, turned) ==
    [scaleToFit |-> scaled, autoRotate |-> turned, page |-> PageSize]

Plan(n, placements) == [pageCount |-> n, placements |-> placements]

\* What the dialog says of binding and signature size is not used.
BookletPlan(d, n) ==
    Plan(n, Booklet(PaddedTo(AllPages(n), IF d.autoPad THEN 4 ELSE 0),
                    SheetOf(d, Spread), d.creep))

NUpPlan(d, n) ==
    Plan(n, NUp(AllPages(n), SheetOf(d, Grid(d)), d.columns, d.rows,
                Fitted(d.scaleToFit, d.autoRotate)))

StepAndRepeatPlan(d, n) ==
    LET config == [columns |-> d.columns, rows |-> d.rows, seed |-> PageSize,
                   stepX |-> d.stepX, stepY |-> d.stepY] IN
    Plan(n, StepAndRepeat(AllPages(n), SheetOf(d, Grid(d)), config, Fitted(TRUE, FALSE)))

Join2Plan(d, n) == Plan(n, TwoUp(PaddedTo(AllPages(n), 2), Spread))

\* A reorder plan counts the places of the new order, its blanks with them.
ReorderPlan(order) == Plan(Len(order), BuildReorderPlan(order, PageSize))

ShufflePlan(d, n) == ReorderPlan(ShufflePages(AllPages(n), d.mode, d.size))

EvenOddPlan(d, n) ==
    LET split == SplitEvenOdd(AllPages(n)) IN
    ReorderPlan(MergeInterlace(split[1], split[2]))

ReversePlan(d, n) == ReorderPlan(Reverse(AllPages(n)))

CreepPlan(d, n) ==
    Plan(n, ApplyCreepShiftToPlan(Booklet(AllPages(n), Spread, 0), d.creep, d.total))

\* Three half points a sheet, limited at eight.
TrimShiftPlan(d, n) ==
    Plan(n, ApplyCreepShiftToPlan(Booklet(AllPages(n), Spread, 0), 3, 8))

TilePlan(d, n) == Plan(n, BuildTilePlan(n, d.columns, d.rows, PageSize))

PlanOf(d, n) ==
    CASE d.kind = "booklet"    -> BookletPlan(d, n)
      [] d.kind = "nup"        -> NUpPlan(d, n)
      [] d.kind = "steprepeat" -> StepAndRepeatPlan(d, n)
      [] d.kind = "join2"      -> Join2Plan(d, n)
      [] d.kind = "shuffle"    -> ShufflePlan(d, n)
      [] d.kind = "evenodd"    -> EvenOddPlan(d, n)
      [] d.kind = "reverse"    -> ReversePlan(d, n)
      [] d.kind = "trimshift"  -> TrimShiftPlan(d, n)
      [] d.kind = "creep"      -> CreepPlan(d, n)
      [] d.kind = "tile"       -> TilePlan(d, n)

Free(i) == job[i].step \in {"idle", "saved", "failed"}

Goto(i, step) == job' = [job EXCEPT ![i].step = step]

\* Execute...: a document of n pages is in front, the dialog is confirmed and
\* the plan is made.  A grid whose slots are 0 modulo 2^32 divides by zero,
\* which ends the program on some processors.
Execute(i, d, n) ==
    LET dividesByZero == d.kind = "nup" /\ SlotsPerSheet(d.columns, d.rows) = 0 IN
    /\ Free(i)
    /\ runs < MaxRuns
    /\ runs' = runs + 1
    /\ \/ job' = [job EXCEPT ![i] = [NoJob EXCEPT !.step = "planned", !.dialog = d,
                                       !.pages = n, !.plan = PlanOf(d, n)]]
       \/ dividesByZero /\ job' = [job EXCEPT ![i] = [NoJob EXCEPT !.step = "crashed"]]
    /\ UNCHANGED <<opsFile, lastAction, faults>>

\* A command of the menu, or ExecutePlayback: the command that was remembered,
\* with its dialog again.
Command(i) == \E d \in Dialogs, n \in Documents : Execute(i, d, n)

ExecutePlayback(i) ==
    \E d \in Dialogs, n \in Documents : d.kind = lastAction /\ Execute(i, d, n)

\* What an instance does to the file disturbs those that have opened it for
\* writing and have not read it back.
AfterChangeBy(i) ==
    [j \in Instances |->
        IF j # i /\ job[j].step \in {"writing", "written"}
        THEN [job[j] EXCEPT !.disturbed = TRUE] ELSE job[j]]

\* NativeComposePlan opens the file, which empties it.
OpenOps(i) ==
    /\ job[i].step = "planned"
    /\ opsFile' = Garbled
    /\ job' = [AfterChangeBy(i) EXCEPT ![i].step = "writing"]
    /\ UNCHANGED <<lastAction, runs, faults>>

\* The operations reach the file when the stream is closed.  If another
\* instance has written since, its end may stay behind.
Flush(i) ==
    /\ job[i].step = "writing"
    /\ opsFile' \in IF opsFile.holds = "ops" \/ job[i].disturbed
                    THEN {Holding(job[i].plan.placements), Garbled}
                    ELSE {Holding(job[i].plan.placements)}
    /\ job' = [AfterChangeBy(i) EXCEPT ![i].step = "written"]
    /\ UNCHANGED <<lastAction, runs, faults>>

\* ParseAcrobatSdkOpsJson takes a file with at least one operation.
Parsed == opsFile.holds = "ops" /\ opsFile.ops # {}

\* Mutation of SheetCount: the number of the last sheet.
SheetCount_LastNumber(plan) == Max({p.sheet : p \in plan.placements} \union {0})

\* One more than the number of the last sheet.
SheetCount(plan) == Max({p.sheet + 1 : p \in plan.placements} \union {0})

Key(p) == <<p.sheet, p.slot>>
Keys(ps) == {Key(p) : p \in ps}

\* Mutation of Valid: operations are only counted.
Valid_CountsOnly(ops, plan) == Cardinality(ops) = Cardinality(plan.placements)

\* ValidateAcrobatSdkOps: as many operations as placements, no slot twice,
\* none missing and none unexpected, and no page the plan does not know.
\* Neither the pages nor the rectangles are compared with those of the plan.  What
\* else is checked holds of every operation a planner prints, and is left out:
\* rectangles with an area, one scale above 0, whole quarter turns, a matrix that
\* fits the rectangle, a blank's own page number and no missing document.
Valid(ops, plan) ==
    /\ Cardinality(ops) = Cardinality(plan.placements)
    /\ Cardinality(Keys(ops)) = Cardinality(ops)
    /\ Keys(ops) = Keys(plan.placements)
    /\ \A op \in ops : op.page # Blank => op.page < plan.pageCount

\* BuildSheetComposeBuckets checks once more, and that every operation is on a
\* sheet of the plan.
Sortable(ops, plan) ==
    Valid(ops, plan) /\ \A op \in ops : op.sheet < SheetCount(plan)

\* The file is read back, checked and sorted into sheets.
Load(i) ==
    /\ job[i].step = "written"
    /\ job' = [job EXCEPT ![i] =
                  IF Parsed /\ Sortable(opsFile.ops, @.plan)
                  THEN [@ EXCEPT !.step = "composing", !.ops = opsFile.ops]
                  ELSE [@ EXCEPT !.step = "failed"]]
    /\ UNCHANGED <<opsFile, lastAction, runs, faults>>

\* Mutation of Drawn: a blank ends its sheet.
Drawn_StopsAtBlank(ops, s) ==
    {op \in ops : op.sheet = s /\ op.page # Blank
                    /\ ~\E b \in ops : b.sheet = s /\ b.page = Blank /\ b.slot < op.slot}

\* Operations of a sheet that are drawn: blanks are passed over.
Drawn(ops, s) == {op \in ops : op.sheet = s /\ op.page # Blank}

\* The next page of the output is made; a page the document does not have
\* ends the command.
ComposeSheet(i) ==
    LET s == Len(job[i].out) IN
    /\ job[i].step = "composing"
    /\ s < SheetCount(job[i].plan)
    /\ job' = [job EXCEPT ![i] =
                  IF \A op \in Drawn(@.ops, s) : op.page < @.pages
                  THEN [@ EXCEPT !.out = Append(job[i].out, Drawn(job[i].ops, s))]
                  ELSE [@ EXCEPT !.step = "failed"]]
    /\ UNCHANGED <<opsFile, lastAction, runs, faults>>

Remembered == {"booklet", "nup", "steprepeat", "shuffle"}

\* The output is saved, and the command remembered if it is one of four.
Save(i) ==
    /\ job[i].step = "composing"
    /\ Len(job[i].out) = SheetCount(job[i].plan)
    /\ Goto(i, "saved")
    /\ lastAction' = IF job[i].dialog.kind \in Remembered
                     THEN job[i].dialog.kind ELSE lastAction
    /\ UNCHANGED <<opsFile, runs, faults>>

-----------------------------------------------------------------------------
\* The file cannot be opened, to write it or to read it back, or a call of the
\* SDK fails or raises.
CallFails(i) ==
    /\ job[i].step \in {"planned", "written", "composing"}
    /\ job' = [job EXCEPT ![i].step = "failed", ![i].faulty = TRUE]
    /\ UNCHANGED <<opsFile, lastAction, runs>>

\* The disk is full: what is missing in the file is not noticed.
WriteFails(i) ==
    /\ job[i].step = "writing"
    /\ opsFile' = Garbled
    /\ job' = [AfterChangeBy(i) EXCEPT ![i].step = "written", ![i].faulty = TRUE]
    /\ UNCHANGED <<lastAction, runs>>

\* The content of a page, or the form made of it, is not available: the page
\* is left out and the command goes on.
ContentMissing(i) ==
    LET s == Len(job[i].out) IN
    /\ job[i].step = "composing"
    /\ s < SheetCount(job[i].plan)
    /\ \A op \in Drawn(job[i].ops, s) : op.page < job[i].pages
    /\ \E op \in Drawn(job[i].ops, s) :
          job' = [job EXCEPT ![i].out = Append(@, Drawn(job[i].ops, s) \ {op}),
                             ![i].faulty = TRUE]
    /\ UNCHANGED <<opsFile, lastAction, runs>>

\* The output is saved, and the last action is not: its file cannot be opened
\* and stays, or a part of it is written, which names no command.  Nobody is told.
ActionIsLost(i) ==
    /\ job[i].step = "composing"
    /\ Len(job[i].out) = SheetCount(job[i].plan)
    /\ job[i].dialog.kind \in Remembered
    /\ Goto(i, "saved")
    /\ lastAction' \in {lastAction, "none"}
    /\ UNCHANGED <<opsFile, runs>>

Fault(i) ==
    /\ faults < MaxFaults
    /\ faults' = faults + 1
    /\ CallFails(i) \/ WriteFails(i) \/ ContentMissing(i) \/ ActionIsLost(i)

PluginNext ==
    \E i \in Instances :
        \/ Command(i) \/ ExecutePlayback(i)
        \/ OpenOps(i) \/ Flush(i) \/ Load(i)
        \/ ComposeSheet(i) \/ Save(i)
        \/ Fault(i)

PluginSpec == PluginInit /\ [][PluginNext]_pluginVars

-----------------------------------------------------------------------------
Saved(i) == job[i].step = "saved"

\* Nothing came between this command's file and its output.
OnItsOwn(i) == ~job[i].disturbed /\ ~job[i].faulty

\* Whatever the file held when it was read back, a saved document has the
\* sheets of the plan, on each of them only slots of the plan, each at most
\* once, and pages of the document (ValidateAcrobatSdkOps).
SavedSheetsArePlanned ==
    \A i \in Instances : Saved(i) =>
        /\ Len(job[i].out) = SheetCount(job[i].plan)
        /\ \A s \in DOMAIN job[i].out :
              LET drawn == job[i].out[s] IN
              /\ Keys(drawn) \subseteq Keys({p \in job[i].plan.placements : p.sheet = s - 1})
              /\ Cardinality(Keys(drawn)) = Cardinality(drawn)
              /\ \A op \in drawn : op.page < job[i].pages

\* A saved document is the plan of its command, with the blanks left empty, if
\* no other instance changed the file between and no call failed.
OwnPlanIsComposed ==
    \A i \in Instances : Saved(i) /\ OnItsOwn(i) =>
        UNION {job[i].out[s] : s \in DOMAIN job[i].out}
            = {p \in job[i].plan.placements : p.page # Blank}

\* It has every page of the document once, or once for each tile.
EveryPageAsOften ==
    \A i \in Instances :
        LET d == job[i].dialog
            copies == IF d.kind = "tile" THEN d.columns * d.rows ELSE 1
            drawn == UNION {job[i].out[s] : s \in DOMAIN job[i].out} IN
        Saved(i) /\ OnItsOwn(i) =>
            \A page \in 0 .. job[i].pages - 1 :
                Cardinality({op \in drawn : op.page = page}) = copies

\* In a grid whose cells do not overlap, pages follow each other from left to
\* right, row over row and sheet after sheet (NUpPlanner and
\* StepAndRepeatPlanner), whatever the grid leaves out or wraps.
GridsReadInOrder ==
    \A i \in Instances :
        LET d == job[i].dialog
            spaced == (d.stepX >= PageSize.w) /\ (d.stepY >= PageSize.h) IN
        job[i].step # "idle" /\ job[i].step # "crashed"
          /\ (d.kind = "nup" \/ (d.kind = "steprepeat" /\ spaced)) =>
            \A p, q \in job[i].plan.placements :
                p.page < q.page =>
                    \/ p.sheet < q.sheet
                    \/ p.sheet = q.sheet /\ p.cell.y + p.cell.h <= q.cell.y
                    \/ p.sheet = q.sheet /\ p.cell.y = q.cell.y
                         /\ p.cell.x + p.cell.w <= q.cell.x

\* A command that was left alone fails only when there was nothing to place:
\* what the planners give passes the checks of ValidateAcrobatSdkOps.
FailsOnlyWithCause ==
    \A i \in Instances :
        job[i].step = "failed" /\ OnItsOwn(i) => job[i].plan.placements = {}
===============================================================================
