------------------------------ MODULE TrimShift -------------------------------
(***************************************************************************)
(* ApplyCreepShiftToPlan (src/src/TrimShift.cpp) after the planner, on the *)
(* two ways to it: the CLI mode trim-shift, which builds the booklet with  *)
(* the options of the command line first, and the plugin, which builds a   *)
(* plain booklet of one signature.  All callers shift inward and both      *)
(* slots, as the defaults of TrimShiftConfig have it.                      *)
(***************************************************************************)
EXTENDS BookletPlanner

CONSTANTS
    PluginCreeps,  \* creep per sheet the plugin passes
    PluginTotals   \* totalSheetsInSignature the plugin passes

ASSUME TrimAssumption == PluginCreeps \subseteq Nat /\ PluginTotals \subseteq Nat

VARIABLES
    caller,  \* "cli" or "plugin"
    config   \* the TrimShiftConfig applied, or NotApplied

trimVars == <<bookletVars, caller, config>>

NotApplied == [creep |-> 0, total |-> 0, applied |-> FALSE]

Config(creep, total) == [creep |-> creep, total |-> total, applied |-> TRUE]

PluginOptions ==
    [explicit |-> <<>>, filter |-> "all", reverse |-> FALSE,
     padToMultiple |-> 0, signatureSize |-> 0, creep |-> 0]

TrimInit ==
    /\ BookletInit
    /\ caller \in {"cli", "plugin"}
    /\ caller = "plugin" => options = PluginOptions
    /\ config = NotApplied

-----------------------------------------------------------------------------
Apply(creep, total) ==
    /\ stage = "done"
    /\ ~config.applied
    /\ placements' = ApplyCreepShiftToPlan(placements, creep, total)
    /\ config' = Config(creep, total)
    /\ UNCHANGED <<stage, planInput, sourcePos, signature, signatureSheet,
                   sheetIndexOffset, paddedPageCount, caller>>

\* --creep and --signature-size are given to the planner and to the shift.
CliTrimShift == caller = "cli" /\ Apply(options.creep, options.signatureSize)

PluginTrimShift ==
    /\ caller = "plugin"
    /\ \E creep \in PluginCreeps, total \in PluginTotals : Apply(creep, total)

TrimNext ==
    \/ BookletNext /\ UNCHANGED <<caller, config>>
    \/ CliTrimShift
    \/ PluginTrimShift

TrimSpec == TrimInit /\ [][TrimNext]_trimVars

\* The planner and the shift run to their end.
FairTrimSpec == TrimSpec /\ WF_trimVars(TrimNext)

-----------------------------------------------------------------------------
TrimTypeOK ==
    /\ BookletTypeOK
    /\ caller \in {"cli", "plugin"}
    /\ config \in [creep : Nat, total : Nat, applied : BOOLEAN]

\* Sheets of a signature of the plan, and a placement's sheet in its
\* signature, counted from 0 on the outside.
SignatureSheets ==
    (IF signatureSize = 0 THEN paddedPageCount ELSE signatureSize) \div 4

Depth(p) == (p.sheet \div 2) % SignatureSheets

SameSignature(p, q) ==
    (p.sheet \div 2) \div SignatureSheets = (q.sheet \div 2) \div SignatureSheets

\* How far a placement has been moved towards the spine.
Inward(p) == IF p.slot = 0 THEN p.shift ELSE - p.shift

\* However the shift and the planner's creep add up, in one signature an inner
\* sheet is never moved less than an outer one (ComputeCreepOffset counts
\* sheets from the outside, and its limit keeps the order).
InnerSheetsMoveFurther ==
    \A p, q \in placements :
        SameSignature(p, q) /\ Depth(p) < Depth(q) => Inward(p) <= Inward(q)

\* The plugin's booklets have one signature and no creep of the planner's: if
\* the limit is not below the number of sheets, the shift gives what the
\* planner would have given with the same creep (CreepMagnitude in
\* BookletPlanner::Build).
ShiftStandsInForPlanner ==
    LET enough == config.total = 0
                    \/ config.total \div 2 >= Cardinality(SidesOf(placements)) \div 2 IN
    caller = "plugin" /\ config.applied /\ enough =>
        \A p \in placements : Inward(p) = Depth(p) * config.creep

\* docs/CLI_REFERENCE.md: --creep is the "Booklet creep per sheet", so from a
\* sheet to the next one the pages move that much further.
CreepIsPerSheet ==
    config.applied => \A p \in placements : Inward(p) <= Depth(p) * config.creep
===============================================================================
