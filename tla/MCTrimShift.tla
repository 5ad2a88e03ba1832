------------------------------ MODULE MCTrimShift -----------------------------
(***************************************************************************)
(* Small instances of TrimShift and of the planner it extends.  The page   *)
(* counts reach several signatures, the last one partly filled; the        *)
(* signature sizes include all remainders, and the sizes just below Word   *)
(* that round up to 0.                                                     *)
(***************************************************************************)
EXTENDS TrimShift

\* Options with their defaults, but for the signature size and the creep.
PlainOptions(size, creep) ==
    [PluginOptions EXCEPT !.signatureSize = size, !.creep = creep]

\* Options that change the page sequence.
SequenceOptions ==
    [explicit : {<<>>, <<4, Blank, 0, 9>>, <<7, 6, 5, 4, 3, 2, 1, 0, 0>>},
     filter : Filters, reverse : BOOLEAN, padToMultiple : {0, 3},
     signatureSize : {0, 4}, creep : {1}]

MCOptionSets ==
    {PlainOptions(size, creep) :
        size \in (0 .. 9) \union (12 .. Word - 1), creep \in {0, 2}}
        \union SequenceOptions

\* One signature: --signature-size is left at 0.
MCOneSignature == {PlainOptions(0, creep) : creep \in {0, 1}}
===============================================================================
