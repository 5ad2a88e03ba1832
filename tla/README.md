# Specifications of Imposr

Imposr arranges the pages of PDF documents on printing sheets.  The repository
holds two programs that share this purpose and no code:

* a C++ library with a command line and an Acrobat plugin (`src/*.cpp`,
  `include/aimp/*.h`): planners that turn page counts and options into
  placements, tools that change page sequences, and the composition of PDF;
* a TypeScript service (`src/licensing`, `src/core`, `src/api`, `src/cli`,
  `src/main`): licenses bound to machines, payment webhooks, batches of jobs,
  and a smaller set of layouts.

The modules here model what is stateful, concurrent or index arithmetic in
them.  TLC checks the modules on small instances; TLAPS proves theorems for
all values of the constants.  Source paths below are relative to the repository.

## Inventory

| part | state | operations | hard because | correct when |
|---|---|---|---|---|
| `licensing/FileLock.ts` | one lock file, its age | `withFileLock` | several processes; crash with the file in place; age and name are looked at and acted on in different steps | two operations never overlap; every call ends; leftovers are removed |
| `licensing/FileActivationStore.ts` | store file, temporary file | look up, save, delete a record | read-modify-write, crash between write and rename, formats of old versions | every operation is atomic or fails without effect or, if it fails late, with its whole effect |
| `licensing/ActivationService.ts` | one record per license, audit log | `activate`, `deactivate`, `getActivation` | look up and save lock separately; the log may fail after the store has succeeded | an activation is kept until it is removed; one machine per license; activations are audited |
| `licensing/PaymentHandler.ts`, `WebhookReplayStore.ts` | ids of processed events, in memory | `processWebhookEvent` | duplicated, overlapping and repeated deliveries; restarts; each of apply, mark and log can fail | an event is accepted once; what is marked has been applied; retries succeed in the end |
| `licensing/LicenseAuditLogger.ts` | log file, temporary file | `log`, `readRecent` | an encrypted log is read and written back whole, under a lock; plain logs are migrated while they are read | no event is lost, recent ones are found |
| `licensing/LicenseManager.ts`, `OfflineValidator.ts`, `FeatureGate.ts`, `MachineId.ts`, `EncryptedFileCodec.ts`, `LicensingFactory.ts` | none of their own | issue, verify, gate | expiry and grace at boundaries | an expired license opens no feature |
| `core/batch/WorkerPool.ts` | shared index, results | `run` | workers interleave at every await; handlers settle in any order | each item is handled once and its result is in its place |
| `core/batch/BatchProcessor.ts`, `JobQueue.ts` | queue, running batches | `addJob`, `processAll` | jobs are added while batches run | every job is reported once, in order |
| `core/imposition/*` | none | page orders and grids | index arithmetic | every page once, in reading order |
| `core/templates/*` | template files | `load`, `save` | written in place | a template is whole |
| `core/pdf/*`, `api/*`, `cli/*`, `main/*` | none that matters | adapters | | |
| `commercial/*` | evidence files | readiness gates | many conditions | a release needs all gates |
| `ImpositionPlan.cpp` | the plan being built | planners, SDK operations, validation | index arithmetic over signatures, sheets and slots; 32-bit counts | every page asked for once, in its place; sheets fold into reading order |
| `TrimShift.cpp` | the plan being changed | `ApplyCreepShiftToPlan` | counts sheets through the plan, limits them by signature; called after a planner that shifts too | both sides of a leaf move together; inner sheets further |
| `Shuffle.cpp`, `TilePages.cpp` | none | page orders, tiles | index arithmetic over padded signatures | every page once, or once a tile |
| `PageTools.cpp`, `SplitMerge.cpp`, `AdjustPages.cpp`, `Bleed.cpp` | page sequences, the plan being changed | insert, adjust, move, delete, split, merge | positions shift while they are used | no page lost or doubled |
| `StickOn.cpp` | none | marks for the placements of a plan | pages, places and numbers of marks are three ways to count | the pages that are asked for get a mark, and no others |
| `PdfComposer.cpp`, `VariableData.cpp` | output file | load records, fill in overlays, compose, prepress checks | fails after the output is opened; three copies of the overlay | pages get their own record |
| `PrinterMarks.cpp`, `PdfX.cpp`, `Annotations.cpp` | none | drawing | | |
| `Preset.cpp`, `PanelState.cpp` | text files | save, load | what is kept is listed in four places; files that were cut off | what is saved is loaded |
| `ImposePlugin.cpp` | the temporary file of operations and the remembered action, shared by all instances of Acrobat; output documents | a command plans, writes, reads back, checks, composes; playback | instances use the same files; failures between the steps, some unnoticed | what is saved is the plan of the command; it fails only with a cause |
| `CliMain.cpp` | settings of a call; output files; counts of a batch; files seen | one call in one of 26 modes, batch, sequence, watched directory | one option feeds several stages; up to eleven outputs fail one by one; processes fail or are killed; files are marked before they are done | reports agree with what happened and with the files there are; settings give the same plan wherever they come from |

Parts interact through calls: the HTTP controllers and the command line call
`ActivationService` and `PaymentHandler`; both lead through the store and the
audit log to `withFileLock`, which is the only thing processes share besides
files.  `BatchProcessor` runs its executor in a `WorkerPool`.  All C++ planners
begin with `BuildSourcePages`; the command line and the plugin pass their plans
through tools such as the creep shift before composition.  The plugin hands a
plan to its composer through a file in the temporary directory.

`PROJECT.json` lists, under `hazards`, what in this code is hard to test, with
the line where it bites and the properties that watch it.

## Modules

    FileLock          withFileLock; every await is a step
      ActivationStore   the store over the lock        implements AtomicStore
        ActivationStoreProofs    the lock and the store
    AtomicStore         what the store promises
    ActivationService   calls of users on a store that is atomic
      ActivationServiceProofs
      PaymentWebhook      webhooks that deactivate through the service
        PaymentWebhookProofs     (extends ActivationServiceProofs, too)
    WorkerPool          the pool
      BatchProcessor      the queue and the batches
        BatchProcessorProofs     the pool and the batches
    SourcePages         BuildSourcePages, NormalizeSignatureSize
      PageOrders          shuffled and reversed orders
      Planners            the planners and the creep shift as functions
        PlannersProofs           plans of any planner (extends PageOrders, too)
        BookletPlanner      BookletPlanner::Build, its loops as steps
          TrimShift           ApplyCreepShiftToPlan after the planner
            TrimShiftProofs      (extends PlannersProofs, too)
        NativeCompose       the plugin's commands (extends PageOrders, too)
          NativeComposeProofs    (extends PlannersProofs, too)
      CliOptions          arguments, settings and presets
        VariableData        records of pages and their overlays
        StickOn             marks on a plan (extends Planners, too)
          CliPlans            the plan of every mode; its checks (extends both)
            CliRuns             calls, outputs, batches, sequences, watching
              CliRunsProofs          (extends PlannersProofs, too)

An indented module extends the one above it.  MCActivationStore, MCPaymentWebhook,
MCTrimShift, MCNativeCompose and MCCliRuns hold the instances whose constants, symmetry or
condition a configuration cannot write down; the theorems are in the modules whose names end in Proofs.
Definitions named `Definition_Something` next to a definition are *mutations*
of it: plausible mistakes in that piece of code, each of which makes a property
of a run fail.  They are not part of any specification.

**FileLock.** `pc` says where each caller is in `withFileLock`; `lock` names the
caller that created the lock file.  Opening with `wx` and closing, `stat`,
`rm` of a stale file and the `rm` at the end are separate steps, because each is
awaited.  The answer of `stat` and its comparison with the clock are one step: a
continuation that waits for a whole tick, so that the file it has looked at
has gone and become stale meanwhile, is left out.  Only ages are kept of time: of the file (`lockAge`), of the wait
(`waited`), of the hold (`held`); they stop growing once they exceed their
limit.  `MaxHoldTicks` bounds how long a holder lasts from creating the file to
removing it.  Faults are `Crash`, `CallFails`, `ReclaimFails` and a `Tick` with
which a holder outlives the stale limit; `MaxFaults` bounds them together.

**ActivationStore.** Extends the lock with the file, the temporary file and the
local state of an operation.  Files keep their records and one of three
formats: the `array` shape of old versions, plain JSON, and encrypted; `Torn` is a file of
which only part has been written.  A look-up that finds an old
format writes the store back, as `readStore` does.  `EncryptionEnabled` says
whether this installation has a secret.

**AtomicStore.** The promise: an operation takes effect once between its call
and its answer; it may fail before or after.  `ImplementsAtomicStore`
in ActivationStore instantiates it with the file's records.

**ActivationService.** The calls take the store as atomic, which is what
ActivationStore is shown to implement, but look-up, save, delete and log are
steps of their own.  `SharedDir` says that store and log live in one directory,
as `LicensingFactory` has it; the directory matters because the lock file
cannot be made without it.  Ids of activations are numbered, not random.

**PaymentWebhook.** A request validates, checks the replay store, deactivates
through the service, marks and logs.  The provider may deliver any event at any
time; `Restart` forgets the replay store and all requests.

**WorkerPool, BatchProcessor.** A worker between two awaits runs alone, so that
storing a result and taking the next index is one step.  The executor's outcome
is the environment's choice.  The batch runs its jobs through the pool's
variables and turns its results into a report.

**SourcePages, BookletPlanner.** Pages are numbers from 0, `Blank` stands for
`kBlankPageIndex`.  The loops of `Build` over signatures and sheets are the
actions `NextSignature`, `PlaceSheet`, `EndSignature`.  A placement keeps side,
slot, page and how far creep has moved it, in whole units; scale, rotation and
sizes are left out.  `Word` stands for 2^32 in the rounding of signature sizes.

**Planners, PageOrders.** Each planner of the plugin is a function from its
inputs to a set of placements, whose sheets and slots carry the order the code
lists them in.  Lengths are whole units; a placement keeps its cell, whether the
page is turned in it, and its shift.  Two things depend on the width of numbers:
`SlotsPerSheet` wraps at `Word`, and `RoundedUp` names the numbers of copies
whose last one ends beyond the sheet in doubles only.

**NativeCompose.** One action for each place where something can come between
the steps of a command: `Execute` (dialog and plan), `OpenOps` (the file is
emptied), `Flush` (the operations arrive), `Load` (parse, validate, sort),
`ComposeSheet` for each page of the output, `Save`.  `opsFile` is the file all
instances use.  A write over a file that another instance has filled since may
leave the end of the longer text, which the parser refuses: `Flush` allows
both.  A job records whether another instance changed the file between its
opening and its reading (`disturbed`) and whether one of its calls failed
(`faulty`).  A division by the wrapped number of slots is undefined in C++: it
ends the program or gives 0, and both are possible.  Of the checks of
`ValidateAcrobatSdkOps`, `Valid` keeps those of counts, sheets and slots; those of
rectangles, scale, rotation, blanks and the document hold for whatever the planners put
out on sheets and for documents that have a size (`NativeAssumption`).
The file cannot be opened to be written or to be read back in `CallFails`; that the
remembered action is not written, or not wholly, which nobody is told, is
`ActionIsLost`.  Names of outputs count seconds; two commands in one second would
write to one file, which is left out: every output is its command's own.  The operations are kept as
the placements they are made of, because neither the printing nor the checks
tell them apart on sheets below 10000 points.

**TrimShift.** After the planner is done, `CliTrimShift` or `PluginTrimShift`
applies the shift once.  The command line passes `--creep` and
`--signature-size` to both stages; the plugin passes its own values and plans
without creep.

**CliOptions.** `Options` is the table of options that main's loop over the
arguments spells out, with what each accepts; `Settings` is what a list of
arguments makes of the settings of a preset.  An argument is a number, a text
or a list; how long a text is and where it has blanks is left out, and lengths
are whole units.  `SavePreset` and `LoadPreset` keep the two ways to count
pages and the lines a preset may lack; `CutOff` is a preset cut off at the end
of a line.  A length is streamed with six digits: `Streamed` rounds what has more, to the
nearest multiple of a member of `Units`.  `Precision` stands for the first number that has
more, which is 10^6.

**VariableData, StickOn.** Reading a table is abstracted to its rows, in
which cells may be missing, doubled or empty.  The three fillings of an
overlay are three operators, as they are in the code.  Of a mark its placement
and its content are kept.

**CliPlans.** `PlanFor` is the plan of a mode under its settings, through the
planners of `Planners` and two more, with what the mode does to it afterwards;
`Given` is what each mode insists on.  Left out: `--repeat-rotation`, the
clipping of cells that `--fit-to-slot` leaves partly empty (in `Adjusted` and
`OffSheet`), and `insert-file` beyond the last page, which is undefined in C++.

**CliRuns.** A *process* is one call of main that plans: what it still has to
write (`todo`, in the order of the code) and what it will return.  Every output
is a step, because the file system can fail and the process be killed at each.
`parent` is a batch or a sequence, which starts a process for every line and waits
for it; it keeps what the code keeps and, for the properties, the return values
(`codes`) and what each process was to write.  `disk` maps a file, which is a
stem and the option it belongs to, to the process that wrote it last, whether
it is whole, and the data a later call or a property reads.  A preset that was cut off
before the lines it must have does not load; one cut off behind them
does.  `watch` is the loop of watch-dir: a file is taken, then planned for.
Left out: lines of batches and sequences that are themselves batches,
sequences or watch-dir, presets loaded by those, more than one output
directory, and `--stamp-output`.

## Runs

| run | question | bounds |
|---|---|---|
| `lock` | does a live holder keep its lock file, does every call end, are leftovers removed? | two callers, two faults, holders up to one tick over the stale limit |
| `lock_robbed` (violation) | does an operation run only while its lock file exists? | two callers, one fault, holders within the limit |
| `store` | is the store atomic for several processes, is the file always whole, is the format kept? | two callers of which one is in its operation at a time, one fault, two licenses, no secret |
| `activation` | do activations keep their identity, does the log know them? | two callers, four calls, one fault, one license, two machines |
| `activation_rebind` (violation) | is a license on another machine refused? | two callers, two calls |
| `webhooks` | do retries succeed, is an event accepted and effective once, has what is marked been applied? | two requests at a time, one fault, one restart, a user with one call |
| `batch` | is every item handled once, with its result in place, and every job reported once? | four jobs, four ids, two workers |
| `booklet` | does the folded plan read as asked, do leaves and their order survive the shift? | up to 17 pages, all signature sizes up to 9 and near the word limit, limits of the shift around them |
| `plugin` | is what is saved planned by its command, whatever other instances do, and does every page come out as often and in the order it should? | two instances, two commands, 19 dialogs, 3 to 5 pages, one fault |
| `cli` | do reports agree with what happened and with the files there are, does every mode plan what its settings say, wherever they come from, is every dropped file handled? | about 2000 sessions of up to four calls; plans of up to 9 pages; batches of up to three jobs; up to two faults; three files dropped |
| `batch_report` (violation) | has every row that was run its exit status in the report? | one batch of three jobs that stops at its second |
| `trim_shift_twice` (violation) | is the creep per sheet what was given? | one signature |

The bounds are the smallest at which the cases meet: two callers and one fault
suffice for one to remove the other's file, and a second fault lets one fall on
what the first has left; the section on proofs names the properties that are
proved for every number of callers, workers, jobs, pages and faults.  The limits of 1 and 2 ticks keep the order of
the real ones (5 s before 30 s).  Two licenses show that one record's operation
leaves the other alone.  In `store` a second operation does not begin while one runs
(`ExclusiveSpec`): the lock sees to that until the first fault, and what a fault
does to the lock is the matter of `lock` and `lock_robbed`.  The one fault falls on every step
of an operation, with the other caller waiting or coming later.  Without a secret an
encrypted file cannot be read, and must not be replaced; that the format also improves under a secret is proved.  Four jobs for two workers let a worker take three, two,
one or no further job, and leave a job for a second batch.  Seventeen pages make
five sheets of one signature or five signatures of one sheet, the last partly
filled; `Word` is 16, so that sizes 13 to 15 round up to it, as those just below
2^32 do.  In `plugin` documents of 3 and 4 pages meet in plans of equal shape,
where the operations of the one pass the checks of the other, and 5 pages make
two sheets of a booklet and two of a signature of eight; two commands let one
instance come between any two steps of the other, or a playback follow a
command.

In `cli` most sessions are one call that only plans: every mode with every kind
of setting it looks at, among them sequences with blanks, with pages twice and
with pages that do not exist.  `Precision` is 100 there, so that lengths of three digits are rounded in a
preset; 100 is more than any default, as 10^6 is.  The other sessions are the shortest in which the cases meet: a batch in
which a job fails by itself (its creep moves pages off the sheet, its
table cannot be read, its grid is missing), two jobs of one stem, a batch
repeated under the quality gate after a fault in either, a preset saved, loaded,
saved over and loaded again, and a folder where a file is taken away and dropped again.

The runs `booklet`, `trim_shift_twice`, `plugin` and `cli` end where the program does,
without a deadlock check: once a plan has been returned and shifted, or the
users give no more commands, nothing is left to do.  All other systems can
always go on.

Some properties hold under a condition that belongs to them.  Until the first
fault: mutual exclusion and what it rests on (`lock_robbed` shows what one
fault does).  Until calls overlap: that activations keep their identity
(`activation_rebind`).  Until the server restarts: that an event is accepted
once, because the replay store is in memory; and until two deliveries of one
event overlap (`doubled`), because it is asked and told in different steps.

The runs marked *violation* are disagreements between a comment, a document or a
test and the code, listed under `findings` in `PROJECT.json`:

* after a crash two callers may both judge the lock file stale, and the slower
  one removes the file the quicker one has just made (`lock_robbed`);
* two machines that activate at once are both told that they succeeded, since
  the look-up and the save lock the store separately (`activation_rebind`);
* a batch that stops at its first failure leaves this failure out of the entries of its
  report, although `docs/MVP_SCORECARD_2026-04-17.md:102` has the exit status of every row
  recorded (`batch_report`); totals and return value do count it, which `ReportAccounts`
  checks, so that a reader can tell;
* in the mode `trim-shift` the creep is applied twice, by the planner and by the
  shift (`trim_shift_twice`).

The type invariants (`TypeOK` and its like) are checked or proved where a
proof rests on them; they are not part of every run.

More things the modules show are not findings of their own.  Two overlapping
deliveries of one event are both accepted, since the replay store is asked before
the event is applied and told after (`doubled` in `AcceptedAtMostOnce`).
And the creep shift does not begin again at each signature: with several
signatures their outermost sheets move, all but the first
(`ShiftStandsInForPlanner` is about one signature for that reason).
It halves its limit: the comment `8 sheets` (`ImposePlugin.cpp:1499`) and the field "Sheets
in signature:" (`ImposePlugin.cpp:1085`) of the plugin take it for a number of sheets, so
that from the fifth of eight sheets on none is moved further than the fourth.
`ShiftStandsInForPlanner` asks for a limit that is high enough when halved.
And a command of the plugin can save the plan of another instance: the checks
compare the operations with the slots of the plan and not with its pages, so
that `OwnPlanIsComposed` needs `OnItsOwn` where `SavedSheetsArePlanned` does not.
The very first activation of an installation fails, since the lock file is to be made
in a directory that only exists once the lock is held (`StoreFails` while `storeDir` is false);
`ActivationService.ts:74` names other reasons only.

At the command line: a wrong item in `--apply-to-pages`, which
`docs/CLI_REFERENCE.md:134` describes as `all` or indices, is not refused (`ApplyToPages`): the pages before it
are marked, and every page when there are none.  `WriteFile` does not look at its stream
after writing: an output that was cut short (`WriteShort`) is reported as written, and main
returns 0.  A length with more than six digits comes back rounded from a preset
(`Streamed`): then what preflight says is repeated, and in the modes with a fixed grid the
page in each slot, but not each position (`PresetRepeatsPlan`).
`insert-conditional` looks at the filter for the place of the insertion
and leaves it on for the planner, which filters the pages again.  `--creep` is in
a preset for the planner only, so that `trim-shift` is not among `PresetModes`.
A file of the watched folder whose plan could not be written, or
that was dropped again with other content, is not planned for again.

## Fairness

* `FairLockSpec`: a caller that is somewhere in `withFileLock` takes its next
  step (the event loop continues it), operations end, and time passes.  Nothing
  makes callers come: `AbandonedLockIsReclaimed` assumes that they keep looking
  at the file.
* `FairWebhookSpec`: requests continue, and the provider repeats
  an event until it is accepted.  `RevocationTakesEffect` excuses events that
  have grown too old and licenses that have expired, which the code refuses.
* `FairPoolSpec` and `FairSpec` of the batch: handlers settle some time (they
  have no timeout in the code, so that is an assumption on the executor), and
  promises that are settled are continued.
* `FairTrimSpec`: a running loop goes on.
* `FairCliSpec`: the loop of watch-dir goes on as long as the process runs, so that
  a file that stays in the folder is taken and what is taken is planned for or reported.
  Nothing makes users call, batches end or processes live.

## Proofs

TLAPS proves the theorems for every value of the constants.  What it takes for
granted is the named assumption of each module: markers such as `NoLock`, `Missing` or
`Blank` are none of the values they stand apart from, counts and limits are natural
numbers, `MaxJobs <= MaxItems`, and

* `PagesAssumption`: `Word` is a multiple of four, as 2^32 is.  Rounding a size up to
  whole sheets would not end at 0 otherwise.
* `BookletAssumption`, `TrimAssumption`: creeps and paddings are not negative,
  sizes of signatures fit in a word, page sequences hold pages and blanks.  The
  command line refuses other arguments (`ParseUInt`, `ParseDouble`, and `< 0.0` at `CliMain.cpp:1143`).
* `NativeAssumption`: the dialogs of the plugin give numbers that are not
  negative and one of the shuffles there are, which are what its edit fields and
  lists return.  Sheets are those of its list or the size of the page, and a step that is not
  greater than 0 is replaced by the size of the page, so that steps are not negative either; pages and documents have a size, and a sheet with a
  width has a height.
* `PresetAssumption`: `Precision` is more than the defaults of a preset, of which 12 is the longest,
  and 1 is a unit.

* `ArgumentsAssumption`, `TablesAssumption`: arguments, and cells of tables, are
  numbers, texts and lists with at least one item, which is how the model writes a
  word of a command line or of a file (`List`); lists and rows are
  sequences.  Nothing is assumed of how many there are or which options they
  name, nor that they are accepted.

Each invariant a run checks is strengthened until every step keeps it; TLC
checked the strengthened invariants on the instances of the runs first.

**The lock** (ActivationStoreProofs).  `HoldersAreNeverRobbed` is inductive together
with the types: the age of the lock file equals the age of its holder's
hold, so that a file older than the stale limit would belong to an overdue holder,
which is a fault.  `LockMutualExclusion` and `OperationsHoldTheLock` follow from
it without further induction.  Their condition, that nothing has failed yet, is
needed: `lock_robbed` shows what one fault does.

**The store** (ActivationStoreProofs).  `StageOK` ties the local state of an
operation to its stage and `FormatOK` the file to the installation;
`FormatsOnlyImprove` follows for any callers and faults.  What an operation does
inside its section needs the section: `SectionOK` says that the operation that runs has
in memory the file as it is, changed by its request, and `Exclusive`, that no two
run at once, is a condition of `WholeWhileExclusive` and of the refinement
`AtomicWhileExclusive`.  Both allow crashes and failing calls between
all steps.  The condition is met until the first fault, by the lock
(`AtomicWithoutFaults`), and with one caller for good
(`OneCallerNeverTorn`, `OneCallerAtomic`).  The refinement maps the file's
records to those of AtomicStore; `Rename` is the step that takes effect
there, a look-up takes effect when it loads, everything else is a call, an
answer or a stutter.

**The service** (ActivationServiceProofs).  `IdsGiven` says that new
ids are in no record, and `AloneOK` that the only call in progress
has looked up what is still there; without them a call could store the
record of an activation that was taken away.  `ActivationsAreKept` and
`NewActivationsAreFresh` follow until calls overlap, `StoredActivationsAreAudited` until one fails.

**The webhooks** (PaymentWebhookProofs).  `AppliedOK` follows a deactivation through the
service's steps: it has applied its event as soon as the record is gone, even if
its audit event fails, so that only applied events are marked
(`OnlyAppliedIsMarked`).  `DeliveredOnce` says that requests about one event do not meet and
that what was accepted is marked, until a restart or an overlap;
`EventsAreAcceptedOnce` follows.  The proof reuses the lemmas about the service, whose users act in between.

**The pool and the batches** (BatchProcessorProofs).  `PoolInv` joins the invariants
the run checks with `NoSharedItem` and one more part: what a worker has in hand has an
index below the shared one and within the run.  Without it a worker could take an
item twice in a state nobody reaches.  `BatchRunsThePool` shows that the
batch is a refinement of the pool, which gives it the pool's theorems.
`PlacesOK` says of sets of job numbers what `EveryJobInOnePlace` says by
counting; it needs that jobs have numbers of their own although their ids may
be used again.  `FirstComeFirstServed` is inductive next to it: what is added has the highest number,
and what is taken out leaves the others in their order.

**Plans** (PlannersProofs).  `LaidOut` says that a set of placements is finite, has
sheets and slots that are natural numbers and pages of the document; `Apart` that no two placements
have the same slot of a sheet.  `Once` says that a list has each page of the document at one place,
and `OnceEach` that each page has one placement.  The lemmas show
all of these for every planner, the shuffles and the shift: a shuffle is a bijection of places,
a planner puts one placement down for each place of its list (`Follows`), or, as
the booklet, one for each half of a sheet.  `CellsInOrder` and `Rising` say that a grid
is read as its slots are numbered, and that pages rise with them.  `NthFacts` and `PaddingFacts` are about filtering and
padding a sequence of pages, `QuotientFacts` and `DivisionFacts` about quotients, which the
provers know little of.

**The booklet** (TrimShiftProofs).  The run sees single books; `PlanInv` is the plan as a
formula: after n signatures it holds exactly the pages of those, each where
folding takes it, moved by what its sheet and the shift ask for.  The steps of
the loops keep it for any number of pages, and the properties are read off it:
`BooksReadInOrder`, `PagesAreAsAsked`, `LeavesAreAligned`,
`InnerSheetsAreMovedFurther`, `ShiftReplacesPlanner`.  `PagesAreAsAsked` counts,
by a bijection between pages of the book and places in the sequence.

**The plugin** (NativeComposeProofs).  `PluginInv` has three parts for every instance:
`PlanOK`, what the planner made is laid out; `OutputOK`, the sheets made so far are drawn
from operations that have passed the checks; `OwnOK`, the plan of a command
that is left alone is in the file, then in memory.  `SavedSheetsAreOfThePlan` needs
the first two, whatever other instances and faults do;
`OwnPlanIsSaved` and `FailuresHaveACause` need the third.  The last one also needs `GridsFit`:
a step-and-repeat grid has at most 2^32 cells.  With more the numbers of its
slots wrap, two copies share one, and the checks refuse a plan its own command has
made.  `PlannedInv` (`CommandsCarryTheirPlan`) remembers where a plan comes from: an instance that has begun
has in memory what its planner makes for one of the dialogs and documents.  With it
`EveryPageIsComposed` and `GridsAreReadInOrder` are about planners only, and follow from
`PlanOnce` and `PlanReadsInOrder`, which have one step for each of them.

**Calls, batches and sequences** (CliRunsProofs).  `RunInv` says what has been
counted when n processes have ended: as many codes, entries for all of them but the
failure that stopped the run, and the process in progress is the
line after those.  `ReportsAccount` follows for any lines, faults and interruptions.
`OutputInv` adds the files: the process in progress has written an initial
part of its outputs, in the order of `main`, and these are still there (`WritesOK`);
every file is of a process there has been (`DiskOK`); and what an entry promises
(`EntryOK`) is kept when a later process writes over it.  `NothingIsOlder`
and `OkIsDelivered` follow while the calls fit together (`CallsFitTogether`):
files that a user sends to the path of another kind of file, or a job report whose stem
has files that the call does not write, break both, and nothing in `main` looks
for that.  The sessions of the run `cli` fit together: TLC finds `CallsFitTogether`
true in all their states when it is added to the configuration.  It is no
property of that run because it says what users and batches ask for, not what
`main` makes of it.

**Plans of the command line** (CliRunsProofs).  `SettingsInv` says of every place settings
come from, that is the calls to come, the lines of a batch or a sequence, the presets on
the disk and the process that runs, that plans can be made with them: what pages are counted with
is a natural number, a page sequence holds pages and blanks.  It says too that a process has
the plan of its own settings (`PlannedOK`).  A preset hands settings from one process
to a later one, and a table becomes the arguments of a job, so that this
takes an induction over the steps (`SettingsSafety`); three properties are
read off it:

* `SlotsAreHeldOnce` has one lemma for each way to fill sheets (`SignaturesLaidOut`,
  `CellsLaidOut`, `ManualLaidOut`, the planners of PlannersProofs), and shows that what modes
  do to a plan afterwards keeps slots apart (`KeptLaidOut`).
* `PresetsRepeatTheirPlan` compares settings as they are written and read back.  A list
  that is read back is the one that was written because its blanks have a form of their own.
  A length that was rounded keeps its sign (`SamePreflight`), and the planners of the
  grid modes count pages and not lengths (`SameSlots`); lengths that are short enough are the same.
* `PagesAreGivenTheirRecord` compares the record of a placement, by its page, with the
  last row of the file that has this number, for each of the three overlays and the
  forms of numbers they are looked up by.

Their condition is `InputsInRange`, of processes that plan: `insert-file` is not asked to insert
beyond the end of the pages, which is undefined in the code (the iterator it
inserts at is past the end), and the cells of `step-repeat` can be numbered in 32
bits, as for the plugin; with more two copies share a slot.  TLC finds
`InputsInRange` and `SettingsInv` true in all states of the run `cli` when they are added
to the configuration.

With these every safety invariant that a passing run checks is stated by a theorem.
TLC only: liveness (every property with `~>`), which with fairness is out of the
prover's reach, and what a recursive definition computes for every input.

## Not modelled

Signatures, ciphers and hashes (pure computations of `node:crypto`), PDF
drawing, geometry, wording, and the scripts around the program.  `PROJECT.json`
names the reason for each component.  Of the command line what the lists of
presets and of sequences show, the console, and the formats of the outputs are left
out.  `PageTools` (but for inserted blanks) and `SplitMerge` have no caller but
their tests.  Left for later, in this order:

1. `AuditLog`: appending to a plain log, reading and rewriting an encrypted one, and migrating a
   plain one, over the lock and with crashes; abstract promise: an append-only log.  Its
   `readRecent` returns the promise of the locked read without awaiting it inside its `try`.
2. `LicenseVerify`: issue, expiry, grace, feature gate.  Ids of licenses are made
   from the current millisecond.
3. `PageArranger`: the layouts of the TypeScript service against the reading
   order that BookletPlanner is checked with.
4. `PageTools`: page operations, split and merge as steps on sequences.
5. `Templates` (written in place and without a lock), `PanelState`, `BetaRelease`.
