-------------------------------- MODULE CliRuns --------------------------------
(***************************************************************************)
(* What src/src/CliMain.cpp does when it runs: a call plans and writes its *)
(* outputs one after the other; the modes batch and sequence run a call in *)
(* a process of its own for every line of a file and count what they       *)
(* return; the mode watch-dir plans for every PDF that is dropped in a     *)
(* folder.                                                                 *)
(*                                                                         *)
(* A user makes the calls of a session one after the other.  Files cannot  *)
(* be opened or are written short, processes cannot be started, are killed *)
(* or interrupted, as often as the session allows.  All outputs go to one  *)
(* directory, so that an output file has a stem and, for its ending, the   *)
(* option it belongs to.  The time that --stamp-output adds to a stem is   *)
(* left out.                                                               *)
(***************************************************************************)
EXTENDS CliPlans

CONSTANTS
    Sessions,       \* records of calls, the number of faults and of files dropped
    SequenceFiles,  \* the files of the mode sequence: name to lines of arguments
    Droppings       \* the files that are dropped in the watched folder

ASSUME ArgumentsAssumption ==
    /\ \A s \in Sessions :
          /\ DOMAIN s = {"calls", "faults", "drops"} /\ IsSequence(s.calls)
          /\ \A i \in DOMAIN s.calls : AreArguments(s.calls[i].words)
    /\ \A name \in DOMAIN SequenceFiles :
          LET lines == SequenceFiles[name] IN
          IsSequence(lines) /\ \A i \in DOMAIN lines : AreArguments(lines[i])

VARIABLES
    session,  \* calls the user still makes, faults and droppings still to come
    parent,   \* the process of a batch or a sequence
    child,    \* the process that plans, of the parent or of the user
    jobs,     \* how many of those there have been
    disk,     \* the files in the output directory
    folder,   \* the files in the watched folder
    watch     \* the process of the mode watch-dir

cliVars == <<session, parent, child, jobs, disk, folder, watch>>

File(stem, option) == [kind |-> "file", stem |-> stem, option |-> option]

Content(job, whole, data) == [job |-> job, whole |-> whole, data |-> data]

Unended == -1
NoProcess == [id |-> 0]
NoRun == [mode |-> "none"]
NotWatching == [on |-> FALSE, seen |-> {}, taken |-> {}, settings |-> <<>>]

CliInit ==
    /\ session \in Sessions
    /\ parent = NoRun /\ child = NoProcess /\ jobs = 0
    /\ disk = <<>> /\ folder = {} /\ watch = NotWatching

Write(path, content) ==
    disk' = [file \in DOMAIN disk \union {path} |-> IF file = path THEN content ELSE disk[file]]

Fault == session.faults > 0 /\ session' = [session EXCEPT !.faults = @ - 1]

-----------------------------------------------------------------------------
\* Paths main fills in below the output directory.
DefaultOutputs ==
    {"--out", "--audit-out", "--manifest-out", "--acrobat-js-out", "--sdk-ops-out",
     "--composition-out", "--pdf-out", "--preflight-out", "--job-out", "--module-out"}

Shown(value) == IF value.kind = "number" THEN ToString(value.number) ELSE value.text

BuildDefaultOutputStem(mode, pages) == mode \o "_" \o Shown(pages) \o "p"

StemOf(mode, s) ==
    IF IsSet(s, "--output-stem") THEN Shown(Setting(s, "--output-stem"))
    ELSE BuildDefaultOutputStem(mode, Number(Setting(s, "--pages")))

Scaffolded(mode, s) ==
    IF ~IsSet(s, "--output-dir") THEN s
    ELSE [option \in DOMAIN s \union DefaultOutputs |->
             IF option \in DefaultOutputs /\ ~IsSet(s, option) THEN File(StemOf(mode, s), option)
             ELSE Setting(s, option)]

\* Mutation of OutputOrder: the job report is written before the PDF.
OutputOrder_ReportBeforePdf ==
    <<"--module-out", "--out", "--audit-out", "--manifest-out", "--acrobat-js-out",
      "--sdk-ops-out", "--composition-out", "--job-out", "--pdf-out", "--save-preset",
      "--preflight-out">>

\* The order in which main writes, the job report last.
OutputOrder ==
    <<"--module-out", "--out", "--audit-out", "--manifest-out", "--acrobat-js-out",
      "--sdk-ops-out", "--composition-out", "--pdf-out", "--save-preset", "--preflight-out",
      "--job-out">>

\* The options for which a mode writes a file.
WrittenIn(mode, option) ==
    CASE option = "--module-out" -> mode \in ModuleModes
      [] option = "--pdf-out"    -> mode \in PlanModes \union {"sample-doc"}
      [] OTHER                   -> mode \in PlanModes

OutputsOf(mode, s) ==
    LET written == {i \in DOMAIN OutputOrder :
                       WrittenIn(mode, OutputOrder[i]) /\ IsSet(s, OutputOrder[i])}
        option(k) == OutputOrder[Nth(written, k)] IN
    [k \in 1 .. Cardinality(written) |-> [option |-> option(k), path |-> Setting(s, option(k))]]

\* Validation and preflight are only done when they are asked for.
IssuesOf(plan, s) ==
    IF \E key \in {"--validate", "--fail-on-validation", "--fail-on-quality-gate"} : On(s, key)
    THEN ValidatePlan(plan) ELSE {}

HasPreflightErrors(plan, s) ==
    /\ \/ \E key \in {"--preflight", "--fail-on-preflight", "--fail-on-quality-gate"} : On(s, key)
       \/ IsSet(s, "--preflight-out")
    /\ PreflightErrors(plan, s)

\* qualityGate.status of BuildJobReportJson.
GateStatus(plan, s) == IF IssuesOf(plan, s) = {} /\ ~HasPreflightErrors(plan, s) THEN "pass" ELSE "fail"

\* The return value of main when everything has been written.
ExitCode(plan, s) ==
    CASE On(s, "--fail-on-validation") /\ IssuesOf(plan, s) # {} -> 2
      [] On(s, "--fail-on-preflight") /\ HasPreflightErrors(plan, s) -> 3
      [] On(s, "--fail-on-quality-gate") /\ GateStatus(plan, s) = "fail" -> 4
      [] OTHER -> 0

-----------------------------------------------------------------------------
\* In the modes preset and sequence the word after the mode is part of it.
SubMode(mode, words) ==
    IF mode \in {"preset", "sequence"} /\ words # <<>> THEN words[1] ELSE Empty

Arguments(mode, words) == IF SubMode(mode, words) = Empty THEN words ELSE Tail(words)

\* A process that plans, at its first output.
Process(id, mode, s, plan, outputs, exit) ==
    [id |-> id, mode |-> mode, settings |-> s, plan |-> plan, todo |-> outputs,
     outputs |-> outputs, exit |-> exit]

Ended(id, exit) == Process(id, "none", <<>>, PlanOf(Size(0, 0), 0, {}), <<>>, exit)

SequenceFits(s) == IsSet(s, "--page-sequence") => IsPageSequence(Setting(s, "--page-sequence"))

\* preset list shows what is in --preset-dir and plans nothing.
ListsPresets(mode, words) == mode = "preset" /\ SubMode(mode, words) = Text("list")

Stops(mode, words, s) ==
    \/ mode = "preset" /\ SubMode(mode, words) \notin {Empty, Text("apply")}
    \/ ~SequenceFits(s)
    \/ ~Given(mode, s)

\* main from its arguments to its first output.
Main(id, mode, words, preset) ==
    LET args == Arguments(mode, words) IN
    IF ~Readable(args) THEN Ended(id, 1)
    ELSE IF ListsPresets(mode, words) THEN Ended(id, 0)
    ELSE LET s == Scaffolded(mode, Settings(args, preset)) IN
         IF Stops(mode, words, s) THEN Ended(id, 1)
         ELSE IF mode \in EarlyModes
              THEN Process(id, mode, s, PlanOf(SheetOf(s), 0, {}), OutputsOf(mode, s), 0)
              ELSE LET known == Sequenced(mode, s)
                       plan == PlanFor(mode, known) IN
                   Process(id, mode, known, plan, OutputsOf(mode, known), ExitCode(plan, known))

\* What can be loaded from a preset: of one that was cut off nothing, or what
\* comes before the cut.
PresetsAt(path) ==
    IF path = Empty THEN {<<>>}
    ELSE IF path \notin DOMAIN disk \/ ~IsPreset(disk[path].data) THEN {}
    ELSE LET saved == disk[path].data IN
         IF disk[path].whole THEN {LoadPreset(saved)}
         ELSE {LoadPreset(CutOff(saved, lines)) : lines \in 0 .. Len(LaterKeys)}

MayNotLoad(path) ==
    path # Empty /\ (path \in DOMAIN disk => ~(IsPreset(disk[path].data) /\ disk[path].whole))

StartMain(mode, words) ==
    /\ jobs' = jobs + 1
    /\ \/ MayNotLoad(LoadPresetPath(words)) /\ child' = Ended(jobs + 1, 1)
       \/ \E preset \in PresetsAt(LoadPresetPath(words)) :
             child' = Main(jobs + 1, mode, words, preset)

-----------------------------------------------------------------------------
Writing == child # NoProcess /\ child.todo # <<>>

Output == Head(child.todo)

\* Functions that look at their stream when they have written it.
Checked(option) == option \in {"--pdf-out", "--save-preset"}

\* The marks of the modes that stick something on.
MarksOf(process) ==
    LET s == process.settings
        template == Setting(s, "--overlay-template")
        content == CASE process.mode = "stick-text"   -> Setting(s, "--text")
                     [] process.mode = "stick-fields" -> IF template = Empty THEN Field("page")
                                                         ELSE template
                     [] process.mode = "stick-bates"  -> Number(Setting(s, "--bates-start"))
                     [] process.mode = "stick-pdf"    -> Setting(s, "--source-pdf")
                     [] OTHER                         -> Empty IN
    ResolveStickOnItems(process.plan.placed, process.mode, content,
                        IF process.mode = "stick-text" THEN Setting(s, "--apply-to-pages")
                        ELSE Empty,
                        process.plan.count)

DataOf(option) ==
    CASE option = "--save-preset" -> SavePreset(child.settings)
      [] option = "--job-out" -> [gate |-> GateStatus(child.plan, child.settings)]
      [] option = "--module-out" /\ child.mode \in StickModes -> [marks |-> MarksOf(child)]
      [] OTHER -> <<>>

Leave(whole) == Write(Output.path, Content(child.id, whole, DataOf(Output.option)))

Continue == child' = [child EXCEPT !.todo = Tail(@)]

EndWith(exit) == child' = [child EXCEPT !.todo = <<>>, !.exit = exit]

\* ComposePlanPdf has opened its file when it finds the variable data unusable.
PdfLacksData ==
    /\ Output.option = "--pdf-out" /\ child.mode \in PlanModes
    /\ ~CsvLoads(Setting(child.settings, "--pdf-variable-csv"))

WriteOutput ==
    /\ Writing /\ ~PdfLacksData
    /\ Leave(TRUE) /\ Continue
    /\ UNCHANGED <<session, parent, jobs, folder, watch>>

WriteNoPdf ==
    /\ Writing /\ PdfLacksData
    /\ Leave(FALSE) /\ EndWith(1)
    /\ UNCHANGED <<session, parent, jobs, folder, watch>>

\* Mutation of OpenFails: the call goes on without the file.
OpenFails_GoesOn ==
    /\ Fault /\ Writing
    /\ Continue
    /\ UNCHANGED <<parent, jobs, disk, folder, watch>>

OpenFails ==
    /\ Fault /\ Writing
    /\ EndWith(1)
    /\ UNCHANGED <<parent, jobs, disk, folder, watch>>

\* The disk is full: WriteFile does not see it, the others may.
WriteShort ==
    /\ Fault /\ Writing /\ ~PdfLacksData
    /\ Leave(FALSE)
    /\ Continue \/ (Checked(Output.option) /\ EndWith(1))
    /\ UNCHANGED <<parent, jobs, folder, watch>>

Killed ==
    /\ Fault /\ Writing
    /\ Leave(FALSE) \/ UNCHANGED disk
    /\ EndWith(137)
    /\ UNCHANGED <<parent, jobs, folder, watch>>

WriteStep == WriteOutput \/ WriteNoPdf \/ OpenFails \/ WriteShort \/ Killed

-----------------------------------------------------------------------------
\* The value of a cell, or the fallback where the row does not reach it.
Get(table, row, name, fallback) ==
    LET columns == ColumnsNamed(table, name) IN
    IF columns = {} THEN fallback
    ELSE IF Max(columns) > Len(row) THEN fallback ELSE row[Max(columns)]

\* Options a job gets in any case, with the column and what stands in for it.
StandardColumns ==
    <<<<"--pages", "pages", Empty>>, <<"--sheet-width", "sheet_width", Empty>>,
      <<"--sheet-height", "sheet_height", Empty>>,
      <<"--pdfx-profile", "pdfx_profile", Text("none")>>,
      <<"--pdf-trim-marks", "trim_marks", Number(0)>>,
      <<"--pdf-bleed-box", "bleed_box", Number(0)>>, <<"--pdf-bleed", "bleed", Number(0)>>,
      <<"--preflight", "preflight", Number(1)>>>>

\* Options a job gets when their cell is not empty.
OptionalColumns ==
    <<<<"--columns", "columns">>, <<"--rows", "rows">>, <<"--signature-size", "signature_size">>,
      <<"--manual-sequence", "manual_sequence">>, <<"--page-sequence", "page_sequence">>,
      <<"--reverse", "reverse">>, <<"--filter", "filter">>, <<"--pad-multiple", "pad_multiple">>,
      <<"--creep", "creep">>, <<"--fit-to-slot", "fit_to_slot">>,
      <<"--rotate-to-fit", "rotate_to_fit">>, <<"--source-page-width", "source_page_width">>,
      <<"--source-page-height", "source_page_height">>,
      <<"--pdf-overlay-template", "pdf_overlay_template">>,
      <<"--pdf-variable-csv", "pdf_variable_csv">>, <<"--summary", "summary">>,
      <<"--validate", "validate">>, <<"--fail-on-validation", "fail_on_validation">>,
      <<"--fail-on-preflight", "fail_on_preflight">>>>

\* A line of the batch as a mode and the words after it.
BatchJob(table, row, gate) ==
    LET get(name) == Get(table, row, name, Empty)
        mode == Shown(get("mode"))
        stem == Get(table, row, "output_stem", Text(BuildDefaultOutputStem(mode, get("pages"))))
        given == Subsequence(OptionalColumns,
                             {i \in DOMAIN OptionalColumns : get(OptionalColumns[i][2]) # Empty}) IN
    [mode |-> mode,
     words |-> AsArguments(
        [i \in DOMAIN StandardColumns |->
           LET column == StandardColumns[i] IN
           <<Text(column[1]), Get(table, row, column[2], column[3])>>]
        \o <<<<Text("--output-dir"), Text("out")>>, <<Text("--output-stem"), stem>>,
             <<Text("--job-out"), File(Shown(stem), "--job-out")>>>>
        \o [i \in DOMAIN given |-> <<Text(given[i][1]), get(given[i][2])>>]
        \o (IF gate THEN <<<<Text("--fail-on-quality-gate"), Number(1)>>>> ELSE <<>>))]

BatchJobs(s) ==
    LET table == Tables[Setting(s, "--batch-csv").text]
        rows == RowsOf(table) IN
    [i \in DOMAIN rows |-> BatchJob(table, rows[i], On(s, "--fail-on-quality-gate"))]

\* RunBatchMode has its file with the columns it needs.
BatchStarts(s) ==
    /\ IsSet(s, "--output-dir") /\ IsTable(Setting(s, "--batch-csv"))
    /\ {"mode", "pages", "sheet_width", "sheet_height"}
          \subseteq Range(Tables[Setting(s, "--batch-csv").text].header)

\* A line of a sequence; what is empty between its commas is dropped.
SequenceJob(line, s) ==
    LET words == Without(line, Empty)
                 \o (IF IsSet(s, "--output-dir")
                     THEN <<Text("--output-dir"), Setting(s, "--output-dir")>> ELSE <<>>) IN
    [mode |-> IF words = <<>> THEN "" ELSE Shown(words[1]), words |-> SubSeq(words, 2, Len(words))]

SequenceJobs(s) ==
    LET lines == Without(SequenceFiles[Setting(s, "--sequence-file").text], <<>>) IN
    [i \in DOMAIN lines |-> SequenceJob(lines[i], s)]

SequenceStarts(words, s) ==
    LET file == Setting(s, "--sequence-file") IN
    /\ SubMode("sequence", words) = Text("run")
    /\ file.kind = "text" /\ file.text \in DOMAIN SequenceFiles

-----------------------------------------------------------------------------
\* codes, what every process returned, and stopped are not kept by the code.
Run(mode, s, lines) ==
    [mode |-> mode, settings |-> s, lines |-> lines, total |-> 0, ok |-> 0, failed |-> 0,
     entries |-> <<>>, codes |-> <<>>, stopped |-> FALSE, exit |-> Unended]

Quiet == parent = NoRun /\ child = NoProcess /\ ~watch.on

Calls(modes) ==
    /\ Quiet /\ session.calls # <<>>
    /\ Head(session.calls).mode \in modes
    /\ session' = [session EXCEPT !.calls = Tail(@)]

CallOf == Head(session.calls)

\* What main has read, nothing if it refuses an argument.
CallSettings ==
    LET args == Arguments(CallOf.mode, CallOf.words) IN
    IF Readable(args) THEN Settings(args, <<>>) ELSE <<>>

\* main of a batch or a sequence; what cannot start returns 1.  That these and
\* the mode watch-dir can load a preset is left out.
CallBatch ==
    /\ Calls({"batch"})
    /\ parent' = IF BatchStarts(CallSettings)
                 THEN Run("batch", CallSettings, BatchJobs(CallSettings)) ELSE NoRun
    /\ UNCHANGED <<child, jobs, disk, folder, watch>>

CallSequence ==
    /\ Calls({"sequence"})
    /\ parent' = IF SequenceStarts(CallOf.words, CallSettings)
                 THEN Run("sequence", CallSettings, SequenceJobs(CallSettings)) ELSE NoRun
    /\ UNCHANGED <<child, jobs, disk, folder, watch>>

CallMain ==
    /\ Calls(PlanModes \union EarlyModes)
    /\ StartMain(CallOf.mode, CallOf.words)
    /\ UNCHANGED <<parent, disk, folder, watch>>

Running == parent # NoRun /\ parent.exit = Unended /\ child = NoProcess

Ready == Running /\ ~parent.stopped /\ parent.total < Len(parent.lines)

\* The next line is run in a process of its own.
RunLine ==
    /\ Ready
    /\ parent' = [parent EXCEPT !.total = @ + 1]
    /\ LET line == parent.lines[parent.total + 1] IN StartMain(line.mode, line.words)
    /\ UNCHANGED <<session, disk, folder, watch>>

\* Only a batch stops at the first failure.
StopsAt(run, code) ==
    code # 0 /\ run.mode = "batch" /\ On(run.settings, "--batch-stop-on-error")

Gated(run) == run.mode = "batch" /\ On(run.settings, "--fail-on-quality-gate")

\* The id and the outputs of the process, and the gate, are not in the report.
EntryOf(run, id, code, outputs) ==
    [line |-> run.total, exit |-> code, id |-> id, outputs |-> outputs,
     gated |-> Gated(run)]

\* Mutation of Counted: no failure gets its entry.
Counted_OnlyOkEntries(run, id, code, outputs) ==
    [run EXCEPT
        !.ok = IF code = 0 THEN @ + 1 ELSE @,
        !.failed = IF code = 0 THEN @ ELSE @ + 1,
        !.codes = Append(@, code),
        !.stopped = StopsAt(run, code),
        !.entries = IF code # 0 THEN @
                    ELSE Append(@, EntryOf(run, id, code, outputs))]

\* After RunProcess: the failure that stops a batch gets no entry.
Counted(run, id, code, outputs) ==
    [run EXCEPT
        !.ok = IF code = 0 THEN @ + 1 ELSE @,
        !.failed = IF code = 0 THEN @ ELSE @ + 1,
        !.codes = Append(@, code),
        !.stopped = StopsAt(run, code),
        !.entries = IF StopsAt(run, code) THEN @
                    ELSE Append(@, EntryOf(run, id, code, outputs))]

\* RunProcess cannot fork, or not execute the program.
RunLineFails ==
    /\ Fault /\ Ready
    /\ \E code \in {1, 127} :
          parent' = Counted([parent EXCEPT !.total = @ + 1], 0, code, <<>>)
    /\ UNCHANGED <<child, jobs, disk, folder, watch>>

\* The process has ended.
Wait ==
    /\ child # NoProcess /\ child.todo = <<>>
    /\ child' = NoProcess
    /\ parent' = IF parent = NoRun THEN NoRun
                 ELSE Counted(parent, child.id, child.exit, child.outputs)
    /\ UNCHANGED <<session, jobs, disk, folder, watch>>

Report(run) ==
    [total |-> run.total, ok |-> run.ok, failed |-> run.failed, entries |-> run.entries]

ReportPath(run) ==
    IF run.mode = "batch" THEN Setting(run.settings, "--batch-report-out") ELSE Empty

AllRun == Running /\ (parent.stopped \/ parent.total = Len(parent.lines))

Finish(exit) == parent' = [parent EXCEPT !.exit = exit]

EndCode == IF parent.failed = 0 THEN 0 ELSE 5

\* The end of RunBatchMode and RunSequenceFile.
EndRun ==
    /\ AllRun
    /\ Finish(EndCode)
    /\ IF ReportPath(parent) = Empty THEN UNCHANGED disk
       ELSE Write(ReportPath(parent), Content(jobs, TRUE, Report(parent)))
    /\ UNCHANGED <<session, child, jobs, folder, watch>>

EndRunFails ==
    /\ Fault /\ AllRun /\ ReportPath(parent) # Empty
    /\ \/ Finish(1) /\ UNCHANGED disk
       \/ /\ Finish(EndCode)
          /\ Write(ReportPath(parent), Content(jobs, FALSE, Report(parent)))
    /\ UNCHANGED <<child, jobs, folder, watch>>

Return ==
    /\ parent # NoRun /\ parent.exit # Unended
    /\ parent' = NoRun
    /\ UNCHANGED <<session, child, jobs, disk, folder, watch>>

\* Ctrl-C ends every process of the call.
Interrupt ==
    /\ Fault /\ ~Quiet
    /\ (Writing /\ Leave(FALSE)) \/ UNCHANGED disk
    /\ parent' = NoRun /\ child' = NoProcess /\ watch' = NotWatching
    /\ UNCHANGED <<jobs, folder>>

-----------------------------------------------------------------------------
WatchStarts(s) == IsSet(s, "--watch-dir") /\ Setting(s, "--pages") > 0 /\ SequenceFits(s)

CallWatch ==
    /\ Calls({"watch-dir"})
    /\ watch' = IF WatchStarts(CallSettings)
                THEN [NotWatching EXCEPT !.on = TRUE,
                                         !.settings = Sequenced("watch-dir", CallSettings)]
                ELSE NotWatching
    /\ UNCHANGED <<parent, child, jobs, disk, folder>>

IsPdf(file) == file.extension \in {".pdf", ".PDF"}

\* Mutation of Unseen: a file is known by its stem.
Unseen_ByStem(file) == \A other \in watch.seen : other.stem # file.stem

Unseen(file) == file \notin watch.seen

\* A file is marked before it is planned for.
WatchTake ==
    /\ watch.on /\ watch.taken = {}
    /\ \E file \in folder :
          /\ IsPdf(file) /\ Unseen(file)
          /\ watch' = [watch EXCEPT !.seen = @ \union {file}, !.taken = {file}]
    /\ UNCHANGED <<session, parent, child, jobs, disk, folder>>

PlanWatched(s) == PlanFor(IF HasGrid(s) THEN "n-up" ELSE "two-up", s)

\* The plan is written beside the file, whether that is still there or not.
WatchPlan ==
    /\ watch.taken # {}
    /\ watch' = [watch EXCEPT !.taken = {}]
    /\ \E file \in watch.taken :
          Write(File(file.stem, "watched"), Content(jobs, TRUE, PlanWatched(watch.settings)))
    /\ UNCHANGED <<session, parent, child, jobs, folder>>

\* What fails is reported and not tried again.
WatchFails ==
    /\ Fault /\ watch.taken # {}
    /\ watch' = [watch EXCEPT !.taken = {}]
    /\ UNCHANGED <<parent, child, jobs, disk, folder>>

Drop ==
    /\ session.drops > 0 /\ session' = [session EXCEPT !.drops = @ - 1]
    /\ \E file \in Droppings \ folder : folder' = folder \union {file}
    /\ UNCHANGED <<parent, child, jobs, disk, watch>>

TakeAway ==
    /\ \E file \in folder : folder' = folder \ {file}
    /\ UNCHANGED <<session, parent, child, jobs, disk, watch>>

-----------------------------------------------------------------------------
RunStep == RunLine \/ RunLineFails \/ Wait \/ EndRun \/ EndRunFails \/ Return \/ Interrupt

WatchStep == WatchTake \/ WatchPlan \/ WatchFails

UserStep == CallBatch \/ CallSequence \/ CallMain \/ CallWatch \/ Drop \/ TakeAway

CliNext == WriteStep \/ RunStep \/ WatchStep \/ UserStep

CliSpec == CliInit /\ [][CliNext]_cliVars

\* The watching process runs on.
FairCliSpec == CliSpec /\ WF_cliVars(WatchTake) /\ WF_cliVars(WatchPlan)

-----------------------------------------------------------------------------
\* When all has been run the totals and the return value agree with what the
\* processes returned; nothing is run after the failure that stops a batch, and
\* nothing is left out without one; entries are in the order of the lines, and
\* none is missing of a line that went well or of a run that does not stop
\* (RunBatchMode, RunSequenceFile).
ReportAccounts ==
    parent # NoRun /\ parent.exit # Unended =>
        LET failures == {i \in DOMAIN parent.codes : parent.codes[i] # 0}
            stop == parent.mode = "batch" /\ On(parent.settings, "--batch-stop-on-error") IN
        /\ parent.total = Len(parent.codes)
        /\ parent.failed = Cardinality(failures) /\ parent.ok + parent.failed = parent.total
        /\ stop => failures \subseteq {parent.total}
        /\ parent.total < Len(parent.lines) => stop /\ failures # {}
        /\ \A i \in DOMAIN parent.entries :
              parent.entries[i].line = i /\ parent.entries[i].exit = parent.codes[i]
        /\ (1 .. parent.total) \ failures \subseteq DOMAIN parent.entries
        /\ ~stop => Len(parent.entries) = parent.total
        /\ parent.exit = 0 => failures = {}
        /\ parent.exit = 5 => failures # {}

\* The report of a batch records the exit status of every row that was run
\* (docs/MVP_SCORECARD_2026-04-17.md).  RunBatchMode leaves its loop at the
\* failure that stops it, before the entry is made.
EveryRowIsRecorded ==
    parent # NoRun /\ parent.exit # Unended /\ parent.mode = "batch" =>
        \A i \in 1 .. parent.total :
            \E entry \in Range(parent.entries) :
                entry.line = i /\ entry.exit = parent.codes[i]

\* The reports there are, of the running batch and of those before.
Entries ==
    (UNION {Range(disk[file].data.entries) : file \in {f \in DOMAIN disk : f.option = "report"}})
        \union (IF parent = NoRun THEN {} ELSE Range(parent.entries))

\* A job that is reported as ok has left every output it was to write, unless a
\* later job of the same stem has replaced it; and under the quality gate its
\* own report says that it passed (main, RunBatchMode).
OkJobsDeliver ==
    \A entry \in Entries : entry.exit = 0 =>
        \A output \in Range(entry.outputs) :
            /\ output.path \in DOMAIN disk
            /\ LET found == disk[output.path] IN
               /\ found.job >= entry.id
               /\ output.option = "--job-out" /\ found.job = entry.id /\ entry.gated
                     => found.data = [gate |-> "pass"]

\* Outputs a mode that plans puts beside its job report.
PlanOutputs == DefaultOutputs \ {"--module-out"}

\* Whatever fails or is repeated, no output of a stem is older than the job
\* report that describes it (the order in which main writes).
NothingOlderThanReport ==
    \A report, other \in DOMAIN disk :
        report.option = "--job-out" /\ other.stem = report.stem /\ other.option \in PlanOutputs
            => disk[other].job >= disk[report].job

\* What a job report is about, besides itself.
Described == PlanOutputs \ {"--job-out"}

\* A process that writes a job report names an output directory and leaves its
\* files under the report's stem, or the stem has no other file.
OutputsTogether ==
    child # NoProcess =>
        LET path(option) == Setting(child.settings, option)
            given(option) == IsSet(child.settings, option) IN
        /\ \A option \in PlanOutputs :
              given(option) => path(option) = File(path(option).stem, option)
        /\ \A option \in {"--module-out", "--save-preset"} :
              given(option) => path(option).option \notin PlanOutputs \union {"report"}
        /\ given("--job-out") =>
              \/ /\ given("--output-dir")
                 /\ \A option \in PlanOutputs :
                       given(option) => path(option).stem = path("--job-out").stem
              \/ \A file \in DOMAIN disk :
                    file.option \in Described => file.stem # path("--job-out").stem

\* The report of a batch has a file of its own.
ReportsApart ==
    parent # NoRun /\ ReportPath(parent) # Empty => ReportPath(parent).option = "report"

\* The last argument of a batch's line counts, which turns the gate on.
GateIsPassedOn ==
    child # NoProcess /\ parent # NoRun /\ Gated(parent) /\ child.exit = 0
        => On(child.settings, "--fail-on-quality-gate")

\* What the theorems about outputs expect of a session: whatever rows, presets
\* and defaults say, the files of a job carry the stem of its report, or nothing
\* else has that stem, and a batch with the quality gate turns it on in each of
\* its jobs (main, RunBatchMode).
CallsFitTogether == OutputsTogether /\ ReportsApart /\ GateIsPassedOn

Planned == child # NoProcess /\ child.mode \in PlanModes /\ child.todo = child.outputs
           /\ child.exit \in {0, 2, 3, 4}

\* In no mode are two placements printed on top of each other because they have
\* the same slot of a sheet: not the signatures of a booklet, of which the last
\* is filled up, not the copies of a page, nor its tiles (the planners).
SlotsHoldOnePage ==
    Planned => \A p, q \in child.plan.placed : p.sheet = q.sheet /\ p.slot = q.slot => p = q

\* The modes that plan from nothing but the settings a preset keeps and the
\* number of pages.
PresetModes == {"two-up", "preset", "n-up", "booklet", "step-repeat", "manual", "tile"}

\* The modes in which no length decides how many pages a sheet has.
GridModes == PresetModes \ {"step-repeat", "tile"}

\* All lengths of a preset are short enough for their stream.
LengthsFit(s) == \A key \in LengthKeys : -Precision < Setting(s, key) /\ Setting(s, key) < Precision

PagesInSlots(plan) == {<<p.sheet, p.slot, p.page>> : p \in plan.placed}

\* Loading the preset a job saves, with the same mode and pages, repeats what
\* preflight says of the job, in the grid modes the page in each slot, and, if
\* no length has more digits than a stream writes, the plan (SavePreset,
\* LoadPreset and their callers in main).
PresetRepeatsPlan ==
    Planned /\ child.mode \in PresetModes /\ IsPreset(child.settings) =>
        LET again == Each({"--pages"}, Setting(child.settings, "--pages"))
                     ++ LoadPreset(SavePreset(child.settings))
            plan == PlanFor(child.mode, again) IN
        /\ PreflightErrors(plan, again) = PreflightErrors(child.plan, child.settings)
        /\ child.mode \in GridModes => PagesInSlots(plan) = PagesInSlots(child.plan)
        /\ LengthsFit(child.settings) => plan = child.plan

\* The cell of a page, of the columns after the first: that of the last row
\* with its number.
CellFor(table, page, name) ==
    LET rows == RowsOf(table)
        ofPage == {k \in DOMAIN rows : rows[k][1] = Number(page + 1)}
        columns == ColumnsNamed(table, name) \ {1} IN
    IF ofPage = {} \/ columns = {} \/ name = "" THEN Empty
    ELSE LET row == rows[Max(ofPage)] IN
         IF Max(columns) > Len(row) THEN Empty ELSE row[Max(columns)]

BuiltIn == {"sheet", "slot", "page", "doc"}

FieldsFit(overlay, template, table, page) ==
    \A i \in DOMAIN template.items :
        LET item == template.items[i] IN
        item.kind = "field" /\ item.text \notin BuiltIn
            => overlay[i] = CellFor(table, page, item.text)

\* Wherever a page is placed, the proof PDF and the production composition show
\* on it the record of its own row, and so does the merge without a plan
\* (ComposePlanPdf, ToProductionCompositionJson, MergeVariableData).
PagesKeepTheirRecord ==
    Planned =>
        /\ LET template == Setting(child.settings, "--pdf-overlay-template")
               path == Setting(child.settings, "--pdf-variable-csv") IN
           template # Empty /\ path # Empty /\ CsvLoads(path) =>
               \A p \in child.plan.placed : p.page # Blank =>
                   /\ FieldsFit(CompositionOverlay(p, template, path), template,
                                Tables[path.text], p.page)
                   /\ FieldsFit(PdfOverlay(p, template, path), template,
                                Tables[path.text], p.page)
        /\ LET template == Setting(child.settings, "--overlay-template")
               path == Setting(child.settings, "--variable-csv")
               merged == MergeVariableData(template, path, child.plan.count) IN
           child.mode = "variable-data" /\ template # Empty =>
               \A page \in DOMAIN merged : merged[page] # <<>> =>
                   FieldsFit(merged[page], template, Tables[path.text], page)

Handled(file) == file \in watch.seen /\ file \notin watch.taken

\* A PDF that stays in the watched folder is planned for, or its failure is
\* reported, as long as nobody stops the watching (watch-dir).
DroppedPdfIsHandled ==
    \A file \in Droppings :
        (watch.on /\ file \in folder /\ IsPdf(file))
            ~> (Handled(file) \/ file \notin folder \/ ~watch.on)
===============================================================================
