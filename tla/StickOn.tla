-------------------------------- MODULE StickOn --------------------------------
(***************************************************************************)
(* Marks stuck on a plan: which placements the option --apply-to-pages of  *)
(* src/src/CliMain.cpp means, and the marks that ResolveStickOnItems       *)
(* (src/src/StickOn.cpp) makes for one item.  Where in its placement a     *)
(* mark lies, its size and its colour are left out.                        *)
(***************************************************************************)
EXTENDS CliOptions, Planners

\* The place of a placement in the plan, from 0.
PlaceInPlan(p, placed) ==
    Cardinality({q \in placed : \/ q.sheet < p.sheet
                                \/ q.sheet = p.sheet /\ q.slot < p.slot})

\* ParseApplyToPages: indices of pages, up to the first one that is wrong.
IsIndex(item, count) == item.kind = "number" /\ item.number \in 0 .. count - 1

IndicesOf(spec) ==
    CASE spec.kind = "list"   -> spec.items
      [] spec.kind = "number" -> <<spec>>
      [] OTHER                -> <<Empty>>

ApplyToAll(spec) == spec \in {Empty, Text("all")}

ApplyToPages(spec, count) ==
    LET items == IndicesOf(spec) IN
    {items[i].number : i \in {j \in DOMAIN items : \A k \in 1 .. j : IsIndex(items[k], count)}}

\* By the page of the document; no page at all means every placement.
Targeted(p, spec, count) ==
    \/ ApplyToAll(spec) \/ ApplyToPages(spec, count) = {}
    \/ p.page \in ApplyToPages(spec, count)

\* ResolveStickOnItems with one item: its text, its file, or the next number.
ResolveStickOnItems(placed, type, content, spec, count) ==
    LET marked == {p \in placed : Targeted(p, spec, count)}
        shown(p) == IF type = "stick-bates"
                    THEN Number((content.number + PlaceInPlan(p, marked)) % Word)
                    ELSE content IN
    {[sheet |-> p.sheet, slot |-> p.slot, type |-> type, content |-> shown(p)] : p \in marked}
===============================================================================
