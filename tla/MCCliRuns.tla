------------------------------- MODULE MCCliRuns -------------------------------
(***************************************************************************)
(* A small instance of CliRuns: calls of every mode over many settings,    *)
(* which only plan, and sessions in which batches, sequences, presets and  *)
(* watched folders meet faults.                                            *)
(***************************************************************************)
EXTENDS CliRuns

Numbers(ns) == List([i \in DOMAIN ns |-> Number(ns[i])])

Words(options) ==
    FoldSet(LAMBDA key, words : words \o <<Text(key), options[key]>>, <<>>, DOMAIN options)

Call(mode, options) == [mode |-> mode, words |-> Words(options)]

Session(calls, faults) == [calls |-> calls, faults |-> faults, drops |-> 0]

-----------------------------------------------------------------------------
Sheet == "--sheet-width" :> Number(24) @@ "--sheet-height" :> Number(12)

Template == List(<<Text("for "), Field("name"), Field("slot"), Field("page"), Field("town")>>)

PageOptions ==
    {"--filter" :> Text(filter) @@ "--reverse" :> Number(reverse) @@ "--pad-multiple" :> Number(pad) :
        filter \in Filters, reverse \in {0, 1}, pad \in {0, 3}}
 \union {"--page-sequence" :> Numbers(<<3, 0, 1, 9, 3>>), "--page-sequence" :> Number(2)}

Grids == {"--columns" :> Number(c) @@ "--rows" :> Number(r) : c \in {1, 2}, r \in {1, 3}}

Fits ==
    "--fit-to-slot" :> Number(1) @@ "--rotate-to-fit" :> Number(1)
 @@ "--source-page-width" :> Number(5) @@ "--source-page-height" :> Number(3)

Proofs ==
    {"--pdf-trim-marks" :> Number(1) @@ "--pdf-bleed-box" :> Number(1)
        @@ "--pdf-bleed" :> Number(bleed) @@ "--pdfx-profile" :> Text("pdfx-4")
        @@ "--fail-on-preflight" :> Number(1) : bleed \in {0, 3}}

\* Options of one mode, each with a proper value at least once.
ModeOptions ==
    ("two-up" :> {<<>>, Fits} \union Proofs)
 @@ ("preset" :> {Fits})
 @@ ("n-up" :> Grids \union {Fits @@ grid : grid \in Grids})
 @@ ("booklet" :> {"--signature-size" :> Number(size) @@ "--creep" :> Number(creep) :
                      size \in {0, 4, 6, 8}, creep \in {0, 1}})
 @@ ("step-repeat" :> {"--repeat-x" :> Number(3) @@ "--repeat-y" :> Number(2)
                         @@ "--step-x" :> Number(step) @@ "--step-y" :> Number(6)
                         @@ "--slot-width" :> Number(8) @@ "--slot-height" :> Number(5) :
                         step \in {8, 9}})
 @@ ("manual" :> {"--manual-sequence" :> Numbers(<<2, 1, 0, 7, 2>>) @@ grid : grid \in Grids})
 @@ ("tile" :> {"--tile-overlap" :> Number(overlap) @@ grid : overlap \in {0, 2}, grid \in Grids})

Plain(n) == "--pages" :> Number(n) @@ Sheet

PlannerCalls ==
    UNION {{Call(mode, options @@ pages @@ Plain(n)) :
               options \in ModeOptions[mode], pages \in PageOptions, n \in {1, 4, 9}} :
              mode \in PresetModes \ {"preset"}}

\* Lengths that are rounded when a preset is saved, some of them halfway.
Large ==
    "--sheet-width" :> Number(1255) @@ "--sheet-height" :> Number(125)
 @@ "--source-page-width" :> Number(101) @@ "--source-page-height" :> Number(1106)
 @@ "--pdf-trim-offset" :> Number(-115)

LargeCalls ==
    UNION {{Call(mode, Large @@ options @@ "--pages" :> Number(5)) :
               options \in ModeOptions[mode]} : mode \in PresetModes}

Stick ==
    {Call("stick-text", "--apply-to-pages" :> spec @@ pages @@ Plain(5)) :
        spec \in {Text("all"), Number(1), Number(7), Numbers(<<0, 3>>), Numbers(<<4, 7>>)},
        pages \in PageOptions}
 \union {Call(mode, "--bates-start" :> Number(14) @@ "--source-pdf" :> Text("stamp")
                     @@ "--variable-csv" :> Text("people") @@ Plain(5)) : mode \in StickModes}

Records ==
    {Call(mode, "--pdf-overlay-template" :> Template @@ "--overlay-template" :> Template
                 @@ "--pdf-variable-csv" :> Text(file) @@ "--variable-csv" :> Text(file)
                 @@ "--columns" :> Number(2) @@ "--rows" :> Number(2)
                 @@ pages @@ Plain(n)) :
        mode \in {"n-up", "booklet", "variable-data"}, n \in {3, 6}, pages \in PageOptions,
        file \in {"people", "people-in-capitals", "people-without-pages"}}

Others ==
    {Call(mode, options @@ Plain(4)) :
        mode \in InsertModes \union EarlyModes \union {"trim-shift"},
        options \in {"--insert-at" :> Number(at) @@ "--insert-count" :> Number(2)
                       @@ "--creep" :> Number(creep) @@ "--filter" :> Text(filter)
                       @@ "--pad-multiple" :> Number(pad) :
                       at \in {0, 1, 4}, creep \in {0, 9}, filter \in Filters, pad \in {0, 3}}}
 \union {Call("adjust-pages", "--adjust-mode" :> adjust @@ "--scale-x" :> Number(2)
                @@ "--target-width" :> Number(8) @@ "--target-height" :> Number(8)
                @@ "--crop-x" :> Number(2) @@ "--crop-w" :> Number(20) @@ "--crop-h" :> Number(6)
                @@ "--extend-top" :> Number(1) @@ "--fail-on-validation" :> Number(1) @@ Plain(3)) :
            adjust \in AdjustModes \union {Text("turn")}}

\* What main refuses, and a list of presets.
Refused ==
    {Call("n-up", Plain(4)), Call("two-up", "--columns" :> Text("two")),
     Call("two-up", "--size" :> Number(1)), [mode |-> "two-up", words |-> <<Text("--pages")>>],
     Call("two-up", "--page-sequence" :> Text("1-3") @@ Plain(4)),
     Call("two-up", "--load-preset" :> File("house", "preset")),
     [mode |-> "preset", words |-> <<Text("remove")>>],
     [mode |-> "preset", words |-> <<Text("list")>>],
     Call("manual", "--columns" :> Number(2) @@ "--rows" :> Number(2) @@ Plain(4))}

-----------------------------------------------------------------------------
Header == <<"mode", "pages", "sheet_width", "sheet_height", "creep", "pdf_overlay_template",
            "pdf_variable_csv", "columns", "rows", "output_stem">>

Row(mode, n, more) == <<Text(mode), Number(n), Number(24), Number(12)>> \o more

\* Cut off before the stem; with a stem; off the sheet by its creep; with
\* variable data that cannot be read; without its grid; with an empty stem.
PlainRow == Row("two-up", 2, <<>>)
NamedRow(mode) == Row(mode, 4, <<Empty, Empty, Empty, Number(2), Number(1), Text("cover")>>)
WideRow == Row("booklet", 8, <<Number(13)>>)
RecordRow(file) == Row("booklet", 4, <<Empty, Template, Text(file)>>)
GridlessRow == Row("n-up", 2, <<>>)
StemlessRow == Row("two-up", 2, <<Empty, Empty, Empty, Empty, Empty, Empty>>)

Jobs(rows) == [header |-> Header, rows |-> rows]

People(page, rows) == [header |-> <<page, "name", "town">>, rows |-> rows]

PeopleRows ==
    <<<<Number(1), Text("Ann"), Text("Delft")>>, <<>>, <<Number(3), Text("Bo")>>,
      <<Number(2), Text("Cas"), Text("Ede")>>, <<Number(3), Text("Dirk"), Text("Goes")>>>>

MCTables ==
    "people" :> People("page", PeopleRows)
 @@ "people-in-capitals" :> People("PAGE", PeopleRows)
 @@ "people-without-pages" :> People("page", <<<<Number(0), Text("Ann")>>>>)
 @@ "mixed" :> Jobs(<<PlainRow, <<>>, WideRow, GridlessRow>>)
 @@ "twins" :> Jobs(<<NamedRow("two-up"), NamedRow("n-up")>>)
 @@ "records" :> Jobs(<<RecordRow("people"), RecordRow("missing")>>)
 @@ "stemless" :> Jobs(<<StemlessRow>>)
 @@ "single" :> Jobs(<<PlainRow>>)
 @@ "headless" :> [header |-> <<"mode", "pages">>, rows |-> <<>>]

Batch(file, stop, gate) ==
    Call("batch", "--batch-csv" :> Text(file) @@ "--output-dir" :> Text("out")
                  @@ "--batch-report-out" :> File("batch", "report")
                  @@ "--batch-stop-on-error" :> Number(stop)
                  @@ "--fail-on-quality-gate" :> Number(gate))

Sequence(file) ==
    [mode |-> "sequence",
     words |-> <<Text("run"), Text("--sequence-file"), Text(file),
                 Text("--output-dir"), Text("out")>>]

\* The second line has lost a value, and its options have moved.
MCSequenceFiles ==
    "steps" :> <<<<Text("stick-text")>> \o Words("--module-out" :> File("marks", "--module-out")
                                                   @@ Plain(1)), <<>>,
                 <<Text("two-up"), Text("--text"), Empty, Text("--pages"), Number(2)>>,
                 <<Text("sample-doc")>> \o Words(Plain(1))>>

Saving == Call("booklet", "--save-preset" :> File("house", "preset")
                          @@ "--pdf-trim-marks" :> Number(1) @@ "--creep" :> Number(1)
                          @@ "--sheet-width" :> Number(125) @@ Plain(8))
Loading == [mode |-> "preset",
            words |-> <<Text("apply")>> \o Words("--load-preset" :> File("house", "preset")
                        @@ "--pages" :> Number(8) @@ "--job-out" :> File("house", "--job-out"))]

Watch(grid) == Call("watch-dir", "--watch-dir" :> Text("in") @@ grid @@ Plain(4))

MCDroppings ==
    {[stem |-> "a", extension |-> ".pdf"], [stem |-> "a", extension |-> ".PDF"],
     [stem |-> "b", extension |-> ".txt"]}

MCSessions ==
    {Session(<<call>>, 0) : call \in PlannerCalls \union LargeCalls \union Stick
                                     \union Records \union Others \union Refused}
 \union {Session(<<Batch(file, stop, gate)>>, 1) :
            file \in {"mixed", "records"}, stop \in {0, 1}, gate \in {0, 1}}
 \union {Session(<<Batch("single", 0, 0), Batch("single", 0, 1)>>, 2),
         Session(<<Batch("twins", 0, 1)>>, 1), Session(<<Batch("stemless", 0, 0)>>, 0),
         Session(<<Batch("headless", 0, 0)>>, 0), Session(<<Batch("nowhere", 0, 0)>>, 0),
         Session(<<Batch("mixed", 1, 1), Batch("twins", 0, 1)>>, 1),
         Session(<<Sequence("steps"), Batch("twins", 1, 1)>>, 2),
         Session(<<Sequence("steps")>>, 1), Session(<<Sequence("nowhere")>>, 0),
         Session(<<Saving, Loading, Saving, Loading>>, 2),
         [calls |-> <<Watch("--rows" :> Number(0)), Watch("--columns" :> Number(2) @@ "--rows" :> Number(1))>>,
          faults |-> 2, drops |-> 3]}

\* A batch that stops at a line, for the run in which the program and its
\* documents disagree.
MCStoppedBatch == {Session(<<Batch("mixed", 1, 0)>>, 0)}
===============================================================================
