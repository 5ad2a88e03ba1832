------------------------------ MODULE CliOptions -------------------------------
(***************************************************************************)
(* The arguments of the command line tool, src/src/CliMain.cpp: the table  *)
(* of options main knows and what it accepts for each, the settings that a *)
(* list of arguments makes, and what SavePreset and LoadPreset             *)
(* (src/src/Preset.cpp) carry from one call to the next.                   *)
(*                                                                         *)
(* An argument is a number, a text or a list of numbers separated by       *)
(* commas.  Lengths are multiples of a unit, a power of ten.  Settings are *)
(* a function from the options that have been set to their values; the     *)
(* others have their defaults.                                             *)
(***************************************************************************)
EXTENDS SourcePages, Integers

CONSTANTS
    Precision,  \* a stream writes smaller lengths with all their digits: 10^6
    Units       \* the powers of ten that longer ones can be rounded to

\* The defaults of a preset, of which 12 is the longest, are written in full.
ASSUME PresetAssumption ==
    /\ Precision \in Nat /\ Precision > 12
    /\ Units \subseteq Nat \ {0} /\ IsFiniteSet(Units) /\ 1 \in Units

Number(n) == [kind |-> "number", number |-> n]
Text(text) == [kind |-> "text", text |-> text]
List(items) == [kind |-> "list", items |-> items]

Empty == Text("")

IsSequence(s) == s \in Seq(Range(s))

\* What is called a number is one, and nothing besides; a list has items.
IsNumeral(value) ==
    value.kind = "number" => value.number \in Int /\ value = Number(value.number)

IsArgument(value) ==
    /\ IsNumeral(value)
    /\ value.kind = "list" =>
          /\ IsSequence(value.items) /\ value.items # <<>>
          /\ \A i \in DOMAIN value.items : IsNumeral(value.items[i])

AreArguments(words) == IsSequence(words) /\ \A i \in DOMAIN words : IsArgument(words[i])

Each(keys, kind) == [key \in keys |-> kind]

\* Two functions in one, the first one counting where both have a value.
f ++ g ==
    [x \in DOMAIN f \union DOMAIN g |-> IF x \in DOMAIN f THEN f[x] ELSE g[x]]

-----------------------------------------------------------------------------
\* The branches of main's loop over the arguments.
BasicOptions ==
    {Each({"--pages", "--columns", "--rows"}, "uint"),
     Each({"--sheet-width", "--sheet-height"}, "positive"),
     Each({"--out", "--audit-out", "--manifest-out", "--acrobat-js-out", "--sdk-ops-out",
           "--composition-out", "--job-out", "--load-preset", "--save-preset", "--pdf-out",
           "--output-dir", "--output-stem", "--batch-csv", "--batch-report-out"}, "text"),
     Each({"--batch-stop-on-error", "--stamp-output"}, "flag")}

ProofOptions ==
    {Each({"--pdf-header", "--pdf-footer", "--pdf-bates-prefix", "--pdf-overlay-template",
           "--pdf-variable-csv"}, "text"),
     Each({"--pdf-sheet-number", "--pdf-bates-enable", "--pdf-trim-marks", "--pdf-bleed-box"},
          "flag"),
     Each({"--pdf-bates-start"}, "uint"),
     Each({"--pdf-trim-length", "--pdf-trim-offset", "--pdf-bleed"}, "length"),
     Each({"--pdfx-profile"}, "profile")}

CheckOptions ==
    {Each({"--preflight", "--fail-on-preflight", "--fail-on-quality-gate", "--summary",
           "--validate", "--fail-on-validation"}, "flag"),
     Each({"--preflight-out"}, "text"),
     Each({"--inspect-source-page", "--inspect-sheet", "--inspect-slot"}, "uint")}

PlannerOptions ==
    {Each({"--repeat-x", "--repeat-y", "--pad-multiple", "--signature-size"}, "uint"),
     Each({"--step-x", "--step-y", "--repeat-rotation", "--slot-width", "--slot-height",
           "--tile-overlap", "--source-page-width", "--source-page-height"}, "length"),
     Each({"--watch-interval"}, "positive"),
     Each({"--watch-dir", "--manual-sequence", "--page-sequence"}, "text"),
     Each({"--reverse", "--fit-to-slot", "--rotate-to-fit"}, "flag"),
     Each({"--creep"}, "notNegative"),
     Each({"--filter"}, "filter")}

AdjustOptions ==
    {Each({"--adjust-mode", "--insert-doc", "--text", "--anchor"}, "text"),
     Each({"--scale-x", "--scale-y", "--target-width", "--target-height", "--crop-x",
           "--crop-y", "--crop-w", "--crop-h", "--extend-top", "--extend-bottom",
           "--extend-left", "--extend-right"}, "length"),
     Each({"--insert-at"}, "uint"),
     Each({"--insert-count"}, "atLeastOne"),
     Each({"--font-size"}, "positive"),
     Each({"--opacity"}, "share")}

StickOptions ==
    {Each({"--color-r", "--color-g", "--color-b", "--stick-rect-x", "--stick-rect-y"}, "length"),
     Each({"--stick-rect-w", "--stick-rect-h", "--sample-page-width", "--sample-page-height"},
          "positive"),
     Each({"--apply-to-pages", "--bates-prefix", "--bates-suffix", "--source-pdf",
           "--overlay-template", "--variable-csv", "--preset-dir", "--sequence-dir",
           "--sequence-file", "--module-out"}, "text"),
     Each({"--bates-start", "--bates-pad", "--source-pdf-page"}, "uint"),
     Each({"--sample-diagonals", "--peel-all", "--peel-text", "--peel-bates",
           "--peel-page-number", "--peel-pdf-page", "--peel-tape"}, "flag"),
     Each({"--assistant-sig-size"}, "atLeastFour")}

\* Several functions as one, where no two have a value for the same.
Together(functions) ==
    [x \in UNION {DOMAIN f : f \in functions} |->
        (CHOOSE f \in functions : x \in DOMAIN f)[x]]

\* The kind of every option.
Options == Together(BasicOptions \union ProofOptions \union CheckOptions
                    \union PlannerOptions \union AdjustOptions \union StickOptions)

Profiles == {"none", "pdfx-1a", "pdfx-1a:2001", "pdfx-4", "pdfx-4:2010"}

\* ParseUInt takes digits only, ParseDouble also a sign.
LowestOf == [uint |-> 0, flag |-> 0, share |-> 0, notNegative |-> 0,
             positive |-> 1, atLeastOne |-> 1, atLeastFour |-> 4]

IsNumber(value, kind) ==
    /\ value.kind = "number"
    /\ kind \in DOMAIN LowestOf => value.number >= LowestOf[kind]
    /\ kind \in {"flag", "share"} => value.number <= 1
    /\ kind \in {"uint", "atLeastOne", "atLeastFour"} => value.number < Word

Accepts(kind, value) ==
    CASE kind = "text"    -> TRUE
      [] kind = "filter"  -> value.kind = "text" /\ value.text \in Filters
      [] kind = "profile" -> value.kind = "text" /\ value.text \in Profiles
      [] OTHER            -> IsNumber(value, kind)

\* The value as main keeps it.
Held(kind, value) ==
    CASE kind = "text"                -> value
      [] kind \in {"filter", "profile"} -> value.text
      [] OTHER                        -> value.number

-----------------------------------------------------------------------------
\* The arguments are read in pairs.
Pairs(args) == [i \in 1 .. Len(args) \div 2 |-> <<args[2 * i - 1], args[2 * i]>>]

Known(key) == key.kind = "text" /\ key.text \in DOMAIN Options

\* Pairs as a list of arguments.
AsArguments(pairs) ==
    [i \in 1 .. 2 * Len(pairs) |-> pairs[(i + 1) \div 2][IF i % 2 = 1 THEN 1 ELSE 2]]

\* What is left of a list of arguments, or of lines, without the empty ones.
Without(s, empty) == Subsequence(s, {i \in DOMAIN s : s[i] # empty})

\* main reads all arguments without an error.
Readable(args) ==
    /\ Len(args) % 2 = 0
    /\ \A pair \in Range(Pairs(args)) :
          Known(pair[1]) /\ Accepts(Options[pair[1].text], pair[2])

\* What one option sets.  A prefix turns Bates numbers on, and --creep sets
\* the creep of the planner and that of the creep shift.
Sets(key, value) ==
    Each({key}, value)
 ++ (CASE key = "--pdf-bates-prefix" -> Each({"--pdf-bates-enable"}, 1)
       [] key = "--creep"            -> Each({"shiftCreep"}, value)
       [] OTHER                      -> <<>>)

\* The settings when the arguments have been read: the last pair that sets a
\* key counts, then the preset.
Settings(args, preset) ==
    LET pairs == Pairs(args)
        set(i) == Sets(pairs[i][1].text, Held(Options[pairs[i][1].text], pairs[i][2]))
        setting(key) == {i \in DOMAIN pairs : key \in DOMAIN set(i)} IN
    [key \in UNION {DOMAIN set(i) : i \in DOMAIN pairs} |-> set(Max(setting(key)))[key]]
    ++ preset

\* The two page sequences a preset holds, as pages.
SequenceKeys == {"explicit", "manual"}

\* Defaults: 0, no text, all pages.
Default(key) ==
    IF key = "shiftCreep" THEN 0
    ELSE IF key \in SequenceKeys THEN <<>>
    ELSE
    CASE key \in {"--inspect-source-page", "--inspect-sheet", "--inspect-slot"} -> Blank
      [] key \in {"--insert-count", "--pdf-sheet-number", "--pdf-bates-start", "--scale-x",
                  "--scale-y", "--bates-start", "--opacity"} -> 1
      [] key = "--watch-interval" -> 2
      [] key \in {"--assistant-sig-size", "--bates-pad"} -> 4
      [] key = "--pdf-trim-offset" -> 6
      [] key \in {"--pdf-trim-length", "--font-size"} -> 12
      [] key = "--stick-rect-h" -> 20
      [] key = "--stick-rect-w" -> 200
      [] key = "--sample-page-width" -> 595
      [] key = "--sample-page-height" -> 841
      [] Options[key] = "text" -> Empty
      [] Options[key] = "filter" -> "all"
      [] Options[key] = "profile" -> "none"
      [] OTHER -> 0

Setting(s, key) == IF key \in DOMAIN s THEN s[key] ELSE Default(key)

IsSet(s, key) == Setting(s, key) # Empty

On(s, key) == Setting(s, key) = 1

\* The preset to load is looked for at every place but the mode and the last
\* argument, before the arguments are read in pairs.
PresetArguments(args) == {i \in 1 .. Len(args) - 1 : args[i] = Text("--load-preset")}

LoadPresetPath(args) ==
    LET at == PresetArguments(args) IN
    IF at = {} THEN Empty ELSE args[Max(at) + 1]

-----------------------------------------------------------------------------
\* The items of a list of pages as people count, 0 being a blank page.
PageOfItem(item) == IF item = 0 THEN Blank ELSE item - 1

\* ParsePageSequenceCsv: digits and commas, and at least one page.
IsPageSequence(value) ==
    \/ value.kind = "number" /\ value.number \in 0 .. Word - 1
    \/ /\ value.kind = "list" /\ value.items # <<>>
       /\ \A item \in Range(value.items) :
             item.kind = "number" /\ item.number \in 0 .. Word - 1

PageSequence(value) ==
    IF value.kind = "number" THEN <<PageOfItem(value.number)>>
    ELSE [i \in DOMAIN value.items |-> PageOfItem(value.items[i].number)]

ItemOfPage(page) == IF page = Blank THEN 0 ELSE page + 1

-----------------------------------------------------------------------------
\* What a preset must have, up to pdfBatesStart in the file, and what follows
\* in this order and may be missing.
RequiredKeys ==
    {"--sheet-width", "--sheet-height", "--columns", "--rows", "--tile-overlap", "--repeat-x",
     "--repeat-y", "--step-x", "--step-y", "--repeat-rotation", "--slot-width",
     "--slot-height", "--reverse", "--filter", "--pad-multiple", "--signature-size",
     "--fit-to-slot", "--rotate-to-fit", "--source-page-width", "--source-page-height",
     "--creep", "--pdf-sheet-number", "--pdf-header", "--pdf-footer", "--pdf-bates-enable",
     "--pdf-bates-prefix", "--pdf-bates-start"}

LaterKeys ==
    <<"--pdf-trim-marks", "--pdf-trim-length", "--pdf-trim-offset", "--pdf-bleed-box",
      "--pdf-bleed", "--pdf-overlay-template", "--pdf-variable-csv", "--pdfx-profile">>

PresetKeys == RequiredKeys \union Range(LaterKeys) \union SequenceKeys

\* What a preset keeps as a double.
LengthKeys ==
    {"--sheet-width", "--sheet-height", "--tile-overlap", "--step-x", "--step-y",
     "--repeat-rotation", "--slot-width", "--slot-height", "--source-page-width",
     "--source-page-height", "--creep", "--pdf-trim-length", "--pdf-trim-offset", "--pdf-bleed"}

\* The multiple of a unit that is nearest, the even one if two are.
Nearest(n, unit) ==
    LET below == n \div unit
        rest == 2 * (n % unit) IN
    unit * (IF rest > unit \/ (rest = unit /\ below % 2 = 1) THEN below + 1 ELSE below)

\* The unit of the last digit a stream writes of a positive length.
LastDigit(n) == Max({unit \in Units : (Precision \div 10) * unit <= n})

Rounded(n) == IF n < Precision THEN n ELSE Nearest(n, LastDigit(n))

\* A double as a stream with its default precision writes it.
Streamed(n) == IF n < 0 THEN -Rounded(-n) ELSE Rounded(n)

\* The lines of a preset: lengths are streamed, pages are as people count them.
Written(saved) ==
    [key \in DOMAIN saved |->
        IF key \in SequenceKeys THEN [i \in DOMAIN saved[key] |-> ItemOfPage(saved[key][i])]
        ELSE IF key \in LengthKeys THEN Streamed(saved[key])
        ELSE saved[key]]

\* ParseDouble reads what was streamed; the sequences are pages again.
ReadBack(saved) ==
    [key \in DOMAIN saved |->
        IF key \in SequenceKeys THEN [i \in DOMAIN saved[key] |-> PageOfItem(saved[key][i])]
        ELSE saved[key]]

\* Mutation of SavePreset: the signature size is not written.
SavePreset_NoSignatureSize(s) ==
    Written(Restrict(s, DOMAIN s \intersect (PresetKeys \ {"--signature-size"})))

\* The lines of a preset; what has its default is left out here.
SavePreset(s) == Written(Restrict(s, DOMAIN s \intersect PresetKeys))

\* A preset that was cut off after the lines LoadPreset needs.
CutOff(saved, lines) ==
    Restrict(saved, DOMAIN saved \ Range(SubSeq(LaterKeys, lines + 1, Len(LaterKeys))))

\* LoadPreset needs a sheet with a size.
IsPreset(saved) == Setting(saved, "--sheet-width") > 0 /\ Setting(saved, "--sheet-height") > 0

\* What LoadPreset and the first lines of main make of it.
LoadPreset(saved) == ReadBack(saved)
===============================================================================
