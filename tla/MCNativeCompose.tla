---------------------------- MODULE MCNativeCompose ---------------------------
(***************************************************************************)
(* Two instances of Acrobat and the dialogs worth combining.  A page is    *)
(* 12 x 18 units, and the sheets are divisible by all grids.  With         *)
(* Word = 16 the grid of 4 x 4 wraps to no slots at all and the one of     *)
(* 6 x 3 to two.  Three copies in a row or column lose the last one to     *)
(* rounding.                                                               *)
(***************************************************************************)
EXTENDS NativeCompose, TLC

MCPageSize == Size(12, 18)
Landscape == Size(36, 24)

Default ==
    [kind |-> "reverse", columns |-> 2, rows |-> 2, sheet |-> Size(0, 0),
     stepX |-> 12, stepY |-> 18, scaleToFit |-> TRUE, autoRotate |-> TRUE,
     creep |-> 0, total |-> 8, autoPad |-> TRUE, mode |-> "signature", size |-> 4]

Only(kind) == [Default EXCEPT !.kind = kind]

GridOf(kind, columns, rows, sheet) ==
    [Only(kind) EXCEPT !.columns = columns, !.rows = rows, !.sheet = sheet]

MCDialogs ==
    {Only(kind) : kind \in Kinds \ {"booklet", "creep"}}
    \union {GridOf("nup", 4, 4, Size(0, 0)), GridOf("nup", 6, 3, Size(0, 0)),
            GridOf("nup", 2, 3, Landscape)}
    \union {GridOf("steprepeat", 3, 2, Size(0, 0)),
            GridOf("steprepeat", 2, 1, Size(10, 30)),
            [GridOf("steprepeat", 3, 2, Size(40, 50)) EXCEPT !.stepX = 14],
            [GridOf("steprepeat", 2, 3, Landscape) EXCEPT !.stepX = 6, !.stepY = 3]}
    \union {[Only("booklet") EXCEPT !.creep = 1, !.autoPad = FALSE],
            [Only("shuffle") EXCEPT !.mode = "perfect"],
            [Only("shuffle") EXCEPT !.size = 8],
            [Only("creep") EXCEPT !.creep = 2, !.total = 2]}

\* The instances are alike.
Symmetry == Permutations(Instances)
===============================================================================
