-------------------------- MODULE NativeComposeProofs --------------------------
(***************************************************************************)
(* Theorems about the commands of the plugin, for any number of instances  *)
(* of Acrobat and of commands, all documents, dialogs and faults.          *)
(***************************************************************************)
EXTENDS NativeCompose, PlannersProofs

Steps == {"idle", "planned", "writing", "written", "composing", "saved", "failed", "crashed"}

\* What the commands plan, and the operations a file may hold.
Plans == {PlanOf(d, n) : d \in Dialogs, n \in Documents} \union {NoPlan}
Contents == {p.placements : p \in Plans}

Jobs == [step : Steps, dialog : Dialogs \union {NoDialog}, pages : Nat, plan : Plans,
         ops : Contents, out : Seq(SUBSET UNION Contents),
         disturbed : BOOLEAN, faulty : BOOLEAN]

Files == [holds : {"nothing", "garbage", "ops"}, ops : Contents]

\* The type invariant.
PluginTypeOK ==
    /\ job \in [Instances -> Jobs]
    /\ opsFile \in Files
    /\ lastAction \in Kinds \union {"none"}
    /\ runs \in Nat /\ faults \in Nat

\* No dialog asks for more cells than 32 bits number.
GridsFit == \A d \in Dialogs : d.kind = "steprepeat" => d.columns * d.rows <= Word

\* The plan knows the pages of the document and no others.
PlanOK(j) ==
    /\ LaidOut(j.plan.placements, j.pages)
    /\ j.plan.pageCount \in Nat /\ j.pages <= j.plan.pageCount
    /\ GridsFit => Apart(j.plan.placements)

\* What has been read back has passed the checks, and every sheet made so far
\* has operations of that sheet, all of them unless a call failed.
OutputOK(j) ==
    /\ j.step \in {"composing", "saved"} => Sortable(j.ops, j.plan)
    /\ j.step \in {"planned", "writing", "written"} => j.out = <<>>
    /\ \A s \in DOMAIN j.out :
          /\ j.out[s] \subseteq Drawn(j.ops, s - 1)
          /\ \A op \in j.out[s] : op.page < j.pages
          /\ ~j.faulty => j.out[s] = Drawn(j.ops, s - 1)
    /\ j.step = "saved" => Len(j.out) = SheetCount(j.plan)

\* How the plan of a command that is left alone comes through the file.
OwnOK(j, file) ==
    ~j.disturbed /\ ~j.faulty =>
        /\ j.step = "writing" => file.holds # "ops"
        /\ j.step = "written" => file = Holding(j.plan.placements)
        /\ j.step \in {"composing", "saved"} => j.ops = j.plan.placements
        /\ GridsFit /\ j.step = "failed" => j.plan.placements = {}

PluginInv ==
    /\ PluginTypeOK
    /\ \A i \in Instances : PlanOK(job[i]) /\ OutputOK(job[i]) /\ OwnOK(job[i], opsFile)

-----------------------------------------------------------------------------
LEMMA AllPagesFacts ==
    ASSUME NEW n \in Nat
    PROVE  AllPages(n) \in Lists(n) /\ Len(AllPages(n)) = n
<1> DEFINE S == (0 .. n - 1) \union {Blank}
           f == [i \in 1 .. n |-> i - 1]
<1>1. f \in [1 .. n -> S] /\ DOMAIN f = 1 .. n
  OBVIOUS
<1> HIDE DEF f
<1>2. f \in Seq(S)
  BY <1>1, SeqDef
<1>3. Len(f) = n
  <2> HIDE DEF S
  <2> QED BY <1>1, <1>2, LenProperties
<1> QED BY <1>2, <1>3 DEF f, AllPages, Lists

\* A reorder plan counts the places of its order.
LEMMA ReorderPlanFacts ==
    ASSUME NEW n \in Nat, NEW order \in Lists(n), Len(order) >= n
    PROVE  /\ LaidOut(ReorderPlan(order).placements, n)
           /\ ReorderPlan(order).pageCount \in Nat
           /\ n <= ReorderPlan(order).pageCount
           /\ Apart(ReorderPlan(order).placements)
<1>1. LaidOut(BuildReorderPlan(order, PageSize), n) /\ Apart(BuildReorderPlan(order, PageSize))
  BY ReorderLaidOut
<1>2. Len(order) \in Nat
  BY ListFacts
<1>3. /\ ReorderPlan(order).placements = BuildReorderPlan(order, PageSize)
      /\ ReorderPlan(order).pageCount = Len(order)
  BY DEF ReorderPlan, Plan
<1> QED BY <1>1, <1>2, <1>3

LEMMA DialogFacts ==
    ASSUME NEW d \in Dialogs, NEW n \in Documents
    PROVE  /\ n \in Nat /\ d.kind \in Kinds
           /\ d.kind \in {"nup", "steprepeat", "tile"} =>
                 d.columns \in Nat \ {0} /\ d.rows \in Nat \ {0}
           /\ d.kind = "shuffle" => d.mode \in ShuffleModes /\ d.size \in Nat
<1>1. \A k \in 1 .. Word - 1 : k \in Nat \ {0}
  BY PagesAssumption
<1> QED BY <1>1, NativeAssumption

\* Every command plans the pages of its document, each in a slot of its own.
LEMMA PlanFacts ==
    ASSUME NEW d \in Dialogs, NEW n \in Documents
    PROVE  /\ n \in Nat
           /\ LaidOut(PlanOf(d, n).placements, n)
           /\ PlanOf(d, n).pageCount \in Nat /\ n <= PlanOf(d, n).pageCount
           /\ GridsFit => Apart(PlanOf(d, n).placements)
<1> DEFINE S == (0 .. n - 1) \union {Blank}
           a == AllPages(n)
           Good(p) == /\ LaidOut(p.placements, n)
                      /\ p.pageCount \in Nat /\ n <= p.pageCount
                      /\ GridsFit => Apart(p.placements)
<1>1. n \in Nat /\ d.kind \in Kinds
      /\ (d.kind \in {"nup", "steprepeat", "tile"} => d.columns \in Nat /\ d.rows \in Nat)
      /\ (d.kind = "shuffle" => d.mode \in ShuffleModes /\ d.size \in Nat)
  BY DialogFacts
<1>2. a \in Lists(n) /\ Len(a) = n
  BY <1>1, AllPagesFacts
<1>3. a \in Seq(S) /\ Lists(n) = Seq(S) /\ Blank \in S
  BY <1>2 DEF Lists
<1> HIDE DEF a, S
<1>4. ASSUME NEW placements, LaidOut(placements, n), GridsFit => Apart(placements)
      PROVE  Good(Plan(n, placements))
  BY <1>1, <1>4 DEF Plan
<1>5. ASSUME NEW order \in Lists(n), Len(order) >= n
      PROVE  Good(ReorderPlan(order))
  BY <1>1, <1>5, ReorderPlanFacts
<1> SUFFICES Good(PlanOf(d, n))
  BY <1>1
<1> HIDE DEF Good
<1>6. CASE d.kind = "booklet"
  <2>1. PlanOf(d, n) = BookletPlan(d, n)
    BY <1>6 DEF PlanOf
  <2> DEFINE s == PaddedTo(a, IF d.autoPad THEN 4 ELSE 0)
  <2>2. s \in Lists(n)
    BY <1>2, PaddedList
  <2>3. BookletPlan(d, n) = Plan(n, Booklet(s, SheetOf(d, Spread), d.creep))
    BY DEF BookletPlan, a
  <2> HIDE DEF s
  <2>4. /\ LaidOut(Booklet(s, SheetOf(d, Spread), d.creep), n)
        /\ Apart(Booklet(s, SheetOf(d, Spread), d.creep))
    BY ONLY <2>2, BookletLaidOut
  <2> QED BY <1>4, <2>1, <2>3, <2>4
<1>7. CASE d.kind = "nup"
  <2> DEFINE sheet == SheetOf(d, Grid(d))
             options == Fitted(d.scaleToFit, d.autoRotate)
             placed == NUp(a, sheet, d.columns, d.rows, options)
  <2>1. PlanOf(d, n) = Plan(n, placed)
    BY <1>7 DEF PlanOf, NUpPlan, a
  <2>2. d.columns \in Nat /\ d.rows \in Nat
    BY <1>1, <1>7
  <2> HIDE DEF sheet, options
  <2>3. LaidOut(placed, n) /\ Apart(placed)
    BY ONLY <1>2, <2>2, NUpLaidOut DEF placed
  <2> QED BY <1>4, <2>1, <2>3
<1>8. CASE d.kind = "steprepeat"
  <2> DEFINE config == [columns |-> d.columns, rows |-> d.rows, seed |-> PageSize,
                        stepX |-> d.stepX, stepY |-> d.stepY]
             sheet == SheetOf(d, Grid(d))
             options == Fitted(TRUE, FALSE)
             placed == StepAndRepeat(a, sheet, config, options)
  <2>1. PlanOf(d, n) = Plan(n, placed)
    BY <1>8 DEF PlanOf, StepAndRepeatPlan, a
  <2>2. /\ config.columns = d.columns /\ config.rows = d.rows
        /\ config.columns \in Nat /\ config.rows \in Nat
    BY <1>1, <1>8
  <2> HIDE DEF config, sheet, options
  <2>3. LaidOut(placed, n) /\ (config.columns * config.rows <= Word => Apart(placed))
    BY ONLY <1>2, <2>2, StepAndRepeatLaidOut DEF placed
  <2>4. GridsFit => config.columns * config.rows <= Word
    BY <1>8, <2>2 DEF GridsFit
  <2> HIDE DEF placed
  <2> QED BY <1>4, <2>1, <2>3, <2>4
<1>9. CASE d.kind = "join2"
  <2> DEFINE s == PaddedTo(a, 2)
  <2>1. PlanOf(d, n) = Plan(n, TwoUp(s, Spread))
    BY <1>9 DEF PlanOf, Join2Plan, a
  <2>2. s \in Lists(n)
    BY <1>2, PaddedList
  <2> HIDE DEF s
  <2>3. LaidOut(TwoUp(s, Spread), n) /\ Apart(TwoUp(s, Spread))
    BY ONLY <2>2, TwoUpLaidOut
  <2> QED BY <1>4, <2>1, <2>3
<1>10. CASE d.kind = "shuffle"
  <2> DEFINE s == ShufflePages(a, d.mode, d.size)
  <2>1. PlanOf(d, n) = ReorderPlan(s)
    BY <1>10 DEF PlanOf, ShufflePlan, a
  <2>2. s \in Lists(n) /\ Len(s) >= n
    BY <1>1, <1>2, <1>3, <1>10, ShufflePagesFacts
  <2> HIDE DEF s
  <2> QED BY <1>5, <2>1, <2>2
<1>11. CASE d.kind = "evenodd"
  <2> DEFINE s == MergeInterlace(SplitEvenOdd(a)[1], SplitEvenOdd(a)[2])
  <2>1. PlanOf(d, n) = ReorderPlan(s)
    BY <1>11 DEF PlanOf, EvenOddPlan, a
  <2>2. s \in Lists(n) /\ Len(s) >= n
    BY <1>1, <1>2, <1>3, InterlacedFacts
  <2> HIDE DEF s
  <2> QED BY <1>5, <2>1, <2>2
<1>12. CASE d.kind = "reverse"
  <2> DEFINE s == Reverse(a)
  <2>1. PlanOf(d, n) = ReorderPlan(s)
    BY <1>12 DEF PlanOf, ReversePlan, a
  <2>2. s \in Lists(n) /\ Len(s) >= n
    BY <1>1, <1>2, <1>3, ReverseFacts
  <2> HIDE DEF s
  <2> QED BY <1>5, <2>1, <2>2
<1>13. ASSUME NEW creep, NEW total
       PROVE  Good(Plan(n, ApplyCreepShiftToPlan(Booklet(a, Spread, 0), creep, total)))
  <2> DEFINE b == Booklet(a, Spread, 0)
  <2>1. LaidOut(b, n) /\ Apart(b)
    BY ONLY <1>2, BookletLaidOut DEF b
  <2> HIDE DEF b
  <2>2. /\ LaidOut(ApplyCreepShiftToPlan(b, creep, total), n)
        /\ Apart(ApplyCreepShiftToPlan(b, creep, total))
    BY ONLY <2>1, ShiftLaidOut
  <2> QED BY <1>4, <2>2 DEF b
<1>14. CASE d.kind = "trimshift"
  <2>1. PlanOf(d, n) = Plan(n, ApplyCreepShiftToPlan(Booklet(a, Spread, 0), 3, 8))
    BY <1>14 DEF PlanOf, TrimShiftPlan, a
  <2> QED BY <1>13, <2>1
<1>15. CASE d.kind = "creep"
  <2>1. PlanOf(d, n) = Plan(n, ApplyCreepShiftToPlan(Booklet(a, Spread, 0), d.creep, d.total))
    BY <1>15 DEF PlanOf, CreepPlan, a
  <2> QED BY <1>13, <2>1
<1>16. CASE d.kind = "tile"
  <2> DEFINE placed == BuildTilePlan(n, d.columns, d.rows, PageSize)
  <2>1. PlanOf(d, n) = Plan(n, placed)
    BY <1>16 DEF PlanOf, TilePlan
  <2>2. d.columns \in Nat /\ d.rows \in Nat
    BY <1>1, <1>16
  <2>3. LaidOut(placed, n) /\ Apart(placed)
    BY ONLY <1>1, <2>2, TilesLaidOut DEF placed
  <2> HIDE DEF placed
  <2> QED BY <1>4, <2>1, <2>3
<1> QED BY <1>1, <1>6, <1>7, <1>8, <1>9, <1>10, <1>11, <1>12, <1>14, <1>15, <1>16 DEF Kinds

LEMMA PlansAreFinite ==
    /\ \A p \in Plans : IsFiniteSet(p.placements)
    /\ \A c \in Contents : IsFiniteSet(c)
<1>1. ASSUME NEW p \in Plans PROVE IsFiniteSet(p.placements)
  <2>1. CASE p = NoPlan
    BY <2>1, FS_EmptySet DEF NoPlan
  <2>2. CASE p # NoPlan
    <3>1. \E d \in Dialogs, n \in Documents : p = PlanOf(d, n)
      BY <2>2 DEF Plans
    <3> QED BY <3>1, PlanFacts DEF LaidOut
  <2> QED BY <2>1, <2>2
<1> QED BY <1>1 DEF Contents

LEMMA ContentsFacts ==
    /\ NoPlan \in Plans /\ {} \in Contents /\ <<>> \in Seq(SUBSET UNION Contents)
    /\ \A d \in Dialogs, n \in Documents : PlanOf(d, n) \in Plans
    /\ \A p \in Plans : p.placements \in Contents
    /\ Garbled \in Files /\ NoFile \in Files
    /\ \A c \in Contents : Holding(c) \in Files
<1>1. NoPlan \in Plans /\ \A d \in Dialogs, n \in Documents : PlanOf(d, n) \in Plans
  BY DEF Plans
<1>2. \A p \in Plans : p.placements \in Contents
  BY DEF Contents
<1>3. NoPlan.placements = {}
  BY DEF NoPlan
<1>4. {} \in Contents
  BY <1>1, <1>2, <1>3
<1>5. Garbled \in Files /\ NoFile \in Files /\ \A c \in Contents : Holding(c) \in Files
  BY <1>4 DEF Garbled, NoFile, Holding, Files
<1>6. <<>> \in Seq(SUBSET UNION Contents)
  <2> DEFINE S == SUBSET UNION Contents
  <2> HIDE DEF S
  <2>1. <<>> \in Seq(S)
    BY EmptySeq
  <2> QED BY <2>1 DEF S
<1> QED BY <1>1, <1>2, <1>4, <1>5, <1>6

-----------------------------------------------------------------------------
\* Every placement is on one of the sheets that are counted.
LEMMA SheetCountFacts ==
    ASSUME NEW plan, NEW n, LaidOut(plan.placements, n)
    PROVE  SheetCount(plan) \in Nat /\ \A p \in plan.placements : p.sheet < SheetCount(plan)
<1> DEFINE P == plan.placements
           f == [p \in P |-> p.sheet + 1]
           sheets == {f[p] : p \in P}
           T == sheets \cup {0}
<1>1. \A p \in P : f[p] = p.sheet + 1 /\ f[p] \in Nat
  BY DEF LaidOut
<1>2. f = [p \in P |-> f[p]] /\ IsFiniteSet(P)
  BY DEF LaidOut
<1>3. SheetCount(plan) = Max(T)
  BY DEF SheetCount
<1> HIDE DEF f, P
<1>4. IsFiniteSet(sheets)
  BY ONLY <1>2, ImageFinite DEF sheets
<1>5. T \in SUBSET Nat /\ 0 \in T
  BY <1>1
<1>6. \A p \in P : p.sheet + 1 \in T
  BY <1>1
<1> HIDE DEF sheets
<1>7. IsFiniteSet(T)
  BY ONLY <1>4, FS_AddElement DEF T
<1> HIDE DEF T
<1>8. Max(T) \in T /\ \A y \in T : y <= Max(T)
  BY <1>5, <1>7, MaxFacts
<1>9. \A p \in P : p.sheet \in Nat
  BY DEF LaidOut, P
<1> DEFINE m == Max(T)
<1>10. m \in Nat /\ \A p \in P : p.sheet + 1 <= m
  BY <1>5, <1>6, <1>8
<1> HIDE DEF m
<1>11. \A p \in P : p.sheet < m
  BY <1>9, <1>10
<1> QED BY <1>3, <1>10, <1>11 DEF P, m

\* The check counts the keys; as many keys as operations are there exactly if
\* no slot of a sheet is used twice.
LEMMA KeysFacts ==
    ASSUME NEW P, IsFiniteSet(P)
    PROVE  Cardinality(Keys(P)) = Cardinality(P) <=> Apart(P)
<1> DEFINE f == [p \in P |-> Key(p)]
<1>1. f \in Surjection(P, Keys(P)) /\ \A p \in P : f[p] = Key(p)
  BY DEF Surjection, Keys
<1> HIDE DEF f
<1>2. Cardinality(Keys(P)) = Cardinality(P) <=> f \in Injection(P, Keys(P))
  BY <1>1, FS_Surjection
<1>3. f \in Injection(P, Keys(P)) <=> \A p, q \in P : Key(p) = Key(q) => p = q
  BY <1>1 DEF Injection, IsInjective, Surjection
<1>4. Apart(P) <=> \A p, q \in P : Key(p) = Key(q) => p = q
  BY DEF Apart, Key
<1> QED BY <1>2, <1>3, <1>4

\* A plan passes the checks that its operations are put to.
LEMMA PlanIsSortable ==
    ASSUME NEW plan, NEW n \in Nat, LaidOut(plan.placements, n), Apart(plan.placements),
           plan.pageCount \in Nat, n <= plan.pageCount
    PROVE  Sortable(plan.placements, plan)
<1> DEFINE P == plan.placements
<1>1. IsFiniteSet(P) /\ \A p \in P : p.page = Blank \/ p.page \in 0 .. n - 1
  BY DEF LaidOut
<1>2. Cardinality(Keys(P)) = Cardinality(P)
  BY <1>1, KeysFacts
<1>3. \A op \in P : op.page # Blank => op.page < plan.pageCount
  BY <1>1
<1>4. \A op \in P : op.sheet < SheetCount(plan)
  BY SheetCountFacts
<1> QED BY <1>2, <1>3, <1>4 DEF Sortable, Valid

-----------------------------------------------------------------------------
\* What another instance does to the file takes a command out of the promise
\* as long as its operations are in the file, and changes nothing else.
LEMMA AfterChangeFacts ==
    ASSUME PluginInv, NEW i \in Instances
    PROVE  /\ AfterChangeBy(i) \in [Instances -> Jobs]
           /\ AfterChangeBy(i)[i] = job[i]
           /\ \A k \in Instances \ {i} :
                 LET j == AfterChangeBy(i)[k] IN
                 PlanOK(j) /\ OutputOK(j) /\ \A file : OwnOK(j, file)
<1>1. job \in [Instances -> Jobs]
  BY DEF PluginInv, PluginTypeOK
<1>2. \A j \in Jobs : [j EXCEPT !.disturbed = TRUE] \in Jobs
  BY DEF Jobs
<1>3. AfterChangeBy(i) \in [Instances -> Jobs] /\ AfterChangeBy(i)[i] = job[i]
  BY <1>1, <1>2 DEF AfterChangeBy
<1>4. ASSUME NEW k \in Instances \ {i}
      PROVE  LET j == AfterChangeBy(i)[k] IN
             PlanOK(j) /\ OutputOK(j) /\ \A file : OwnOK(j, file)
  <2>1. job[k] \in Jobs /\ PlanOK(job[k]) /\ OutputOK(job[k]) /\ OwnOK(job[k], opsFile)
    BY <1>1 DEF PluginInv
  <2>2. CASE job[k].step \in {"writing", "written"}
    <3> DEFINE j == [job[k] EXCEPT !.disturbed = TRUE]
    <3>1. AfterChangeBy(i)[k] = j
      BY <2>2 DEF AfterChangeBy
    <3>2. /\ j.step = job[k].step /\ j.pages = job[k].pages /\ j.plan = job[k].plan
          /\ j.ops = job[k].ops /\ j.out = job[k].out /\ j.faulty = job[k].faulty
          /\ j.disturbed
      BY <2>1 DEF Jobs
    <3> HIDE DEF j
    <3> QED BY <2>1, <3>1, <3>2 DEF PlanOK, OutputOK, OwnOK
  <2>3. CASE job[k].step \notin {"writing", "written"}
    <3>1. AfterChangeBy(i)[k] = job[k]
      BY <2>3 DEF AfterChangeBy
    <3> QED BY <2>1, <2>3, <3>1 DEF OwnOK
  <2> QED BY <2>2, <2>3
<1> QED BY <1>3, <1>4

\* A step of one instance that leaves the file alone.
LEMMA KeepsTheFile ==
    ASSUME PluginInv, NEW i \in Instances, NEW j \in Jobs,
           job' = [job EXCEPT ![i] = j], opsFile' = opsFile,
           lastAction' \in Kinds \union {"none"}, runs' \in Nat, faults' \in Nat,
           PlanOK(j), OutputOK(j), OwnOK(j, opsFile)
    PROVE  PluginInv'
<1>1. PluginTypeOK'
  BY DEF PluginInv, PluginTypeOK
<1>2. ASSUME NEW k \in Instances
      PROVE  PlanOK(job'[k]) /\ OutputOK(job'[k]) /\ OwnOK(job'[k], opsFile')
  <2>1. job'[k] = IF k = i THEN j ELSE job[k]
    BY DEF PluginInv, PluginTypeOK
  <2>2. PlanOK(job[k]) /\ OutputOK(job[k]) /\ OwnOK(job[k], opsFile)
    BY DEF PluginInv
  <2>3. CASE k = i
    BY <2>1, <2>3
  <2>4. CASE k # i
    BY <2>1, <2>2, <2>4
  <2> QED BY <2>3, <2>4
<1> QED BY <1>1, <1>2 DEF PluginInv

\* A step of one instance that changes the file.
LEMMA ChangesTheFile ==
    ASSUME PluginInv, NEW i \in Instances, NEW j \in Jobs,
           job' = [AfterChangeBy(i) EXCEPT ![i] = j], opsFile' \in Files,
           lastAction' = lastAction, runs' = runs, faults' \in Nat,
           PlanOK(j), OutputOK(j), OwnOK(j, opsFile')
    PROVE  PluginInv'
<1>1. /\ AfterChangeBy(i) \in [Instances -> Jobs]
      /\ \A k \in Instances \ {i} :
            LET r == AfterChangeBy(i)[k] IN
            PlanOK(r) /\ OutputOK(r) /\ \A file : OwnOK(r, file)
  BY AfterChangeFacts
<1>2. PluginTypeOK'
  BY <1>1 DEF PluginInv, PluginTypeOK
<1>3. ASSUME NEW k \in Instances
      PROVE  PlanOK(job'[k]) /\ OutputOK(job'[k]) /\ OwnOK(job'[k], opsFile')
  <2>1. job'[k] = IF k = i THEN j ELSE AfterChangeBy(i)[k]
    BY <1>1
  <2>2. CASE k = i
    BY <2>1, <2>2
  <2>3. CASE k # i
    BY <1>1, <2>1, <2>3
  <2> QED BY <2>2, <2>3
<1> QED BY <1>2, <1>3 DEF PluginInv

-----------------------------------------------------------------------------
LEMMA InvAtStart == PluginInit => PluginInv
<1> SUFFICES ASSUME PluginInit PROVE PluginInv
  OBVIOUS
<1>3. NoJob \in Jobs /\ NoFile \in Files
  BY ContentsFacts DEF NoJob, Jobs, Steps
<1>4. PluginTypeOK
  BY <1>3 DEF PluginInit, PluginTypeOK
<1>5. PlanOK(NoJob)
  BY FS_EmptySet DEF PlanOK, LaidOut, Apart, NoJob, NoPlan
<1>6. OutputOK(NoJob) /\ OwnOK(NoJob, opsFile)
  BY DEF OutputOK, OwnOK, NoJob
<1> QED BY <1>4, <1>5, <1>6 DEF PluginInit, PluginInv

LEMMA ExecuteKeepsInv ==
    ASSUME PluginInv, NEW i \in Instances, NEW d \in Dialogs, NEW n \in Documents,
           Execute(i, d, n)
    PROVE  PluginInv'
<1> DEFINE planned == [NoJob EXCEPT !.step = "planned", !.dialog = d,
                                    !.pages = n, !.plan = PlanOf(d, n)]
           crashed == [NoJob EXCEPT !.step = "crashed"]
<1>1. /\ NoPlan \in Plans /\ {} \in Contents /\ PlanOf(d, n) \in Plans
      /\ <<>> \in Seq(SUBSET UNION Contents)
  BY ContentsFacts
<1>2. n \in Nat
  BY PlanFacts
<1>3. planned \in Jobs /\ crashed \in Jobs
  BY <1>1, <1>2 DEF NoJob, Jobs, Steps
<1>4. /\ opsFile' = opsFile /\ lastAction' \in Kinds \union {"none"}
      /\ runs' \in Nat /\ faults' \in Nat
  BY DEF Execute, PluginInv, PluginTypeOK
<1>5. PlanOK(planned)
  <2>1. planned.plan = PlanOf(d, n) /\ planned.pages = n
    BY DEF NoJob
  <2> HIDE DEF planned
  <2> QED BY <2>1, PlanFacts DEF PlanOK
<1>6. OutputOK(planned) /\ OwnOK(planned, opsFile)
  BY DEF OutputOK, OwnOK, NoJob
<1>7. PlanOK(crashed)
  BY FS_EmptySet DEF PlanOK, LaidOut, Apart, NoJob, NoPlan
<1>8. OutputOK(crashed) /\ OwnOK(crashed, opsFile)
  BY DEF OutputOK, OwnOK, NoJob
<1>9. job' = [job EXCEPT ![i] = planned] \/ job' = [job EXCEPT ![i] = crashed]
  BY DEF Execute
<1> HIDE DEF planned, crashed
<1>10. CASE job' = [job EXCEPT ![i] = planned]
  BY <1>3, <1>4, <1>5, <1>6, <1>10, KeepsTheFile
<1>11. CASE job' = [job EXCEPT ![i] = crashed]
  BY <1>3, <1>4, <1>7, <1>8, <1>11, KeepsTheFile
<1> QED BY <1>9, <1>10, <1>11

LEMMA OpenOpsKeepsInv ==
    ASSUME PluginInv, NEW i \in Instances, OpenOps(i)
    PROVE  PluginInv'
<1> DEFINE j == [job[i] EXCEPT !.step = "writing"]
<1>1. job[i] \in Jobs /\ PlanOK(job[i]) /\ OutputOK(job[i]) /\ job[i].step = "planned"
  BY DEF PluginInv, PluginTypeOK, OpenOps
<1>2. j \in Jobs
  BY <1>1 DEF Jobs, Steps
<1>3. /\ j.step = "writing" /\ j.pages = job[i].pages /\ j.plan = job[i].plan
      /\ j.ops = job[i].ops /\ j.out = job[i].out /\ j.faulty = job[i].faulty
      /\ j.disturbed = job[i].disturbed
  BY <1>1 DEF Jobs
<1>4. job' = [AfterChangeBy(i) EXCEPT ![i] = j]
  <2>1. AfterChangeBy(i)[i] = job[i]
    BY AfterChangeFacts
  <2> QED BY <2>1 DEF OpenOps
<1>5. opsFile' \in Files /\ opsFile' = Garbled
  BY ContentsFacts DEF OpenOps
<1>6. lastAction' = lastAction /\ runs' = runs /\ faults' \in Nat
  BY DEF OpenOps, PluginInv, PluginTypeOK
<1> HIDE DEF j
<1>7. PlanOK(j) /\ OutputOK(j)
  BY <1>1, <1>3 DEF PlanOK, OutputOK
<1>8. OwnOK(j, opsFile')
  BY <1>3, <1>5 DEF OwnOK, Garbled
<1> QED BY <1>2, <1>4, <1>5, <1>6, <1>7, <1>8, ChangesTheFile

LEMMA FlushKeepsInv ==
    ASSUME PluginInv, NEW i \in Instances, Flush(i)
    PROVE  PluginInv'
<1> DEFINE j == [job[i] EXCEPT !.step = "written"]
<1>1. /\ job[i] \in Jobs /\ PlanOK(job[i]) /\ OutputOK(job[i]) /\ OwnOK(job[i], opsFile)
      /\ job[i].step = "writing"
  BY DEF PluginInv, PluginTypeOK, Flush
<1>2. j \in Jobs
  BY <1>1 DEF Jobs, Steps
<1>3. /\ j.step = "written" /\ j.pages = job[i].pages /\ j.plan = job[i].plan
      /\ j.ops = job[i].ops /\ j.out = job[i].out /\ j.faulty = job[i].faulty
      /\ j.disturbed = job[i].disturbed
  BY <1>1 DEF Jobs
<1>4. job' = [AfterChangeBy(i) EXCEPT ![i] = j]
  <2>1. AfterChangeBy(i)[i] = job[i]
    BY AfterChangeFacts
  <2> QED BY <2>1 DEF Flush
<1>5. /\ opsFile' \in {Holding(job[i].plan.placements), Garbled}
      /\ opsFile.holds # "ops" /\ ~job[i].disturbed
            => opsFile' = Holding(job[i].plan.placements)
  BY DEF Flush
<1>6. opsFile' \in Files
  <2>1. {} \in Contents /\ job[i].plan.placements \in Contents
    BY <1>1, ContentsFacts DEF Jobs
  <2> QED BY <1>5, <2>1, ContentsFacts
<1>7. lastAction' = lastAction /\ runs' = runs /\ faults' \in Nat
  BY DEF Flush, PluginInv, PluginTypeOK
<1> HIDE DEF j
<1>8. PlanOK(j) /\ OutputOK(j)
  BY <1>1, <1>3 DEF PlanOK, OutputOK
<1>9. OwnOK(j, opsFile')
  BY <1>1, <1>3, <1>5 DEF OwnOK
<1> QED BY <1>2, <1>4, <1>6, <1>7, <1>8, <1>9, ChangesTheFile

LEMMA WriteFailsKeepsInv ==
    ASSUME PluginInv, NEW i \in Instances, WriteFails(i), faults' = faults + 1
    PROVE  PluginInv'
<1> DEFINE j == [job[i] EXCEPT !.step = "written", !.faulty = TRUE]
<1>1. job[i] \in Jobs /\ PlanOK(job[i]) /\ OutputOK(job[i]) /\ job[i].step = "writing"
  BY DEF PluginInv, PluginTypeOK, WriteFails
<1>2. j \in Jobs
  BY <1>1 DEF Jobs, Steps
<1>3. /\ j.step = "written" /\ j.pages = job[i].pages /\ j.plan = job[i].plan
      /\ j.ops = job[i].ops /\ j.out = job[i].out /\ j.faulty
  BY <1>1 DEF Jobs
<1>4. job' = [AfterChangeBy(i) EXCEPT ![i] = j]
  <2>1. AfterChangeBy(i)[i] = job[i] /\ AfterChangeBy(i) \in [Instances -> Jobs]
    BY AfterChangeFacts
  <2> QED BY <1>1, <2>1 DEF WriteFails, Jobs
<1>5. opsFile' \in Files
  BY ContentsFacts DEF WriteFails
<1>6. lastAction' = lastAction /\ runs' = runs /\ faults' \in Nat
  BY DEF WriteFails, PluginInv, PluginTypeOK
<1> HIDE DEF j
<1>7. PlanOK(j) /\ OutputOK(j) /\ OwnOK(j, opsFile')
  BY <1>1, <1>3 DEF PlanOK, OutputOK, OwnOK
<1> QED BY <1>2, <1>4, <1>5, <1>6, <1>7, ChangesTheFile

LEMMA LoadKeepsInv ==
    ASSUME PluginInv, NEW i \in Instances, Load(i)
    PROVE  PluginInv'
<1> DEFINE r == job[i]
           loaded == [r EXCEPT !.step = "composing", !.ops = opsFile.ops]
           refused == [r EXCEPT !.step = "failed"]
           passes == Parsed /\ Sortable(opsFile.ops, r.plan)
<1>1. /\ r \in Jobs /\ PlanOK(r) /\ OutputOK(r) /\ OwnOK(r, opsFile)
      /\ r.step = "written" /\ opsFile \in Files
  BY DEF PluginInv, PluginTypeOK, Load
<1>2. loaded \in Jobs /\ refused \in Jobs
  BY <1>1 DEF Jobs, Files, Steps
<1>3. /\ loaded.step = "composing" /\ loaded.ops = opsFile.ops /\ loaded.plan = r.plan
      /\ loaded.pages = r.pages /\ loaded.out = r.out /\ loaded.faulty = r.faulty
      /\ loaded.disturbed = r.disturbed
      /\ refused.step = "failed" /\ refused.ops = r.ops /\ refused.plan = r.plan
      /\ refused.pages = r.pages /\ refused.out = r.out /\ refused.faulty = r.faulty
      /\ refused.disturbed = r.disturbed
  BY <1>1 DEF Jobs
<1>4. job' = [job EXCEPT ![i] = IF passes THEN loaded ELSE refused]
  BY DEF Load
<1>5. /\ opsFile' = opsFile /\ lastAction' \in Kinds \union {"none"}
      /\ runs' \in Nat /\ faults' \in Nat
  BY DEF Load, PluginInv, PluginTypeOK
<1> HIDE DEF loaded, refused, r
<1>6. r.out = <<>>
  BY <1>1 DEF OutputOK
<1>7. CASE passes
  <2>1. job' = [job EXCEPT ![i] = loaded]
    BY <1>4, <1>7
  <2>2. PlanOK(loaded)
    BY <1>1, <1>3 DEF PlanOK
  <2>3. OutputOK(loaded)
    <3>1. DOMAIN loaded.out = {}
      BY <1>3, <1>6
    <3> QED BY <1>3, <1>7, <3>1 DEF OutputOK
  <2>4. OwnOK(loaded, opsFile)
    BY <1>1, <1>3 DEF OwnOK, Holding
  <2> QED BY <1>2, <1>5, <2>1, <2>2, <2>3, <2>4, KeepsTheFile
<1>8. CASE ~passes
  <2>1. job' = [job EXCEPT ![i] = refused]
    BY <1>4, <1>8
  <2>2. PlanOK(refused)
    BY <1>1, <1>3 DEF PlanOK
  <2>3. OutputOK(refused)
    <3>1. DOMAIN refused.out = {}
      BY <1>3, <1>6
    <3> QED BY <1>3, <3>1 DEF OutputOK
  <2>4. OwnOK(refused, opsFile)
    <3> DEFINE P == r.plan.placements
    <3> SUFFICES ASSUME ~r.disturbed, ~r.faulty, GridsFit, P # {}
                 PROVE  FALSE
      BY <1>3 DEF OwnOK
    <3>1. opsFile = Holding(P)
      BY <1>1 DEF OwnOK
    <3>2. opsFile.holds = "ops" /\ opsFile.ops = P
      BY <3>1 DEF Holding
    <3>3. Sortable(P, r.plan)
      BY <1>1, PlanIsSortable DEF PlanOK, Jobs
    <3> QED BY <1>8, <3>2, <3>3 DEF Parsed
  <2> QED BY <1>2, <1>5, <2>1, <2>2, <2>3, <2>4, KeepsTheFile
<1> QED BY <1>7, <1>8

\* One more sheet of an output.
LEMMA OneMoreSheet ==
    ASSUME NEW r \in Jobs, OutputOK(r), r.step = "composing",
           NEW drawn, drawn \subseteq Drawn(r.ops, Len(r.out)),
           \A op \in Drawn(r.ops, Len(r.out)) : op.page < r.pages,
           NEW f \in BOOLEAN, ~f => ~r.faulty /\ drawn = Drawn(r.ops, Len(r.out))
    PROVE  LET j == [r EXCEPT !.out = Append(@, drawn), !.faulty = f] IN
           j \in Jobs /\ OutputOK(j)
<1> DEFINE j == [r EXCEPT !.out = Append(@, drawn), !.faulty = f]
           n == Len(r.out)
           S == SUBSET UNION Contents
<1>1. r.out \in Seq(S) /\ r.ops \in Contents
  BY DEF Jobs
<1>2. drawn \in S
  BY <1>1 DEF Drawn
<1> HIDE DEF S
<1>3. /\ Append(r.out, drawn) \in Seq(S) /\ n \in Nat
      /\ DOMAIN Append(r.out, drawn) = 1 .. n + 1 /\ DOMAIN r.out = 1 .. n
      /\ \A s \in 1 .. n : Append(r.out, drawn)[s] = r.out[s]
      /\ Append(r.out, drawn)[n + 1] = drawn
  <2>1. /\ Append(r.out, drawn) \in Seq(S) /\ Len(Append(r.out, drawn)) = n + 1
        /\ \A s \in 1 .. n : Append(r.out, drawn)[s] = r.out[s]
        /\ Append(r.out, drawn)[n + 1] = drawn
    BY <1>1, <1>2, AppendProperties
  <2> QED BY <1>1, <2>1, LenProperties
<1>4. j \in Jobs
  BY <1>3 DEF Jobs, S
<1>5. /\ j.step = "composing" /\ j.plan = r.plan /\ j.ops = r.ops /\ j.pages = r.pages
      /\ j.out = Append(r.out, drawn) /\ j.faulty = f
  BY DEF Jobs
<1> HIDE DEF j
<1>6. ASSUME NEW s \in DOMAIN j.out
      PROVE  /\ j.out[s] \subseteq Drawn(j.ops, s - 1)
             /\ \A op \in j.out[s] : op.page < j.pages
             /\ ~j.faulty => j.out[s] = Drawn(j.ops, s - 1)
  <2>1. CASE s \in 1 .. n
    <3>1. j.out[s] = r.out[s] /\ s \in DOMAIN r.out
      BY <1>3, <1>5, <2>1
    <3> QED BY <1>5, <3>1 DEF OutputOK
  <2>2. CASE s = n + 1
    <3>1. j.out[s] = drawn /\ s - 1 = n
      BY <1>3, <1>5, <2>2
    <3> QED BY <1>5, <3>1 DEF n
  <2> QED BY <1>3, <1>5, <2>1, <2>2
<1>7. OutputOK(j)
  <2>1. Sortable(j.ops, j.plan)
    BY <1>5 DEF OutputOK
  <2> QED BY <1>5, <1>6, <2>1 DEF OutputOK
<1> QED BY <1>4, <1>7 DEF j

LEMMA ComposeSheetKeepsInv ==
    ASSUME PluginInv, NEW i \in Instances, ComposeSheet(i)
    PROVE  PluginInv'
<1> DEFINE r == job[i]
           drawn == Drawn(r.ops, Len(r.out))
           made == [r EXCEPT !.out = Append(@, drawn), !.faulty = r.faulty]
           ended == [r EXCEPT !.step = "failed"]
           known == \A op \in drawn : op.page < r.pages
<1>1. /\ r \in Jobs /\ PlanOK(r) /\ OutputOK(r) /\ OwnOK(r, opsFile)
      /\ r.step = "composing"
  BY DEF PluginInv, PluginTypeOK, ComposeSheet
<1>2. ended \in Jobs
  BY <1>1 DEF Jobs, Steps
<1>3. /\ made.step = "composing" /\ made.ops = r.ops /\ made.plan = r.plan
      /\ made.pages = r.pages /\ made.faulty = r.faulty /\ made.disturbed = r.disturbed
      /\ ended.step = "failed" /\ ended.ops = r.ops /\ ended.plan = r.plan
      /\ ended.pages = r.pages /\ ended.out = r.out /\ ended.faulty = r.faulty
      /\ ended.disturbed = r.disturbed
  BY <1>1 DEF Jobs
<1>4. job' = [job EXCEPT ![i] = IF known THEN made ELSE ended]
  <2>1. made = [r EXCEPT !.out = Append(r.out, drawn)]
    BY <1>1 DEF Jobs
  <2> HIDE DEF made
  <2>2. job' = [job EXCEPT ![i] = IF known THEN [r EXCEPT !.out = Append(r.out, drawn)]
                                  ELSE ended]
    BY DEF ComposeSheet
  <2> QED BY <2>1, <2>2
<1>5. /\ opsFile' = opsFile /\ lastAction' \in Kinds \union {"none"}
      /\ runs' \in Nat /\ faults' \in Nat
  BY DEF ComposeSheet, PluginInv, PluginTypeOK
<1>6. CASE known
  <2>1. made \in Jobs /\ OutputOK(made)
    <3>1. r.faulty \in BOOLEAN
      BY <1>1 DEF Jobs
    <3> HIDE DEF r
    <3> QED BY <1>1, <1>6, <3>1, OneMoreSheet
  <2> HIDE DEF made, ended, r
  <2>2. job' = [job EXCEPT ![i] = made]
    BY <1>4, <1>6
  <2>3. PlanOK(made) /\ OwnOK(made, opsFile)
    BY <1>1, <1>3 DEF PlanOK, OwnOK
  <2> QED BY <1>5, <2>1, <2>2, <2>3, KeepsTheFile
<1>7. CASE ~known
  <2> HIDE DEF made, ended, r
  <2>1. job' = [job EXCEPT ![i] = ended]
    BY <1>4, <1>7
  <2>2. PlanOK(ended) /\ OutputOK(ended)
    BY <1>1, <1>3 DEF PlanOK, OutputOK
  <2>3. OwnOK(ended, opsFile)
    <3> SUFFICES ASSUME ~r.disturbed, ~r.faulty
                 PROVE  FALSE
      BY <1>3 DEF OwnOK
    <3>1. r.ops = r.plan.placements
      BY <1>1 DEF OwnOK
    <3>2. \A op \in drawn : op.page \in 0 .. r.pages - 1
      BY <1>1, <3>1 DEF PlanOK, LaidOut, Drawn
    <3>3. r.pages \in Nat
      BY <1>1 DEF Jobs
    <3> QED BY <1>7, <3>2, <3>3
  <2> QED BY <1>2, <1>5, <2>1, <2>2, <2>3, KeepsTheFile
<1> QED BY <1>6, <1>7

LEMMA SaveKeepsInv ==
    ASSUME PluginInv, NEW i \in Instances,
           Save(i) \/ (ActionIsLost(i) /\ faults' = faults + 1)
    PROVE  PluginInv'
<1> DEFINE r == job[i]
           j == [r EXCEPT !.step = "saved"]
<1>1. /\ r \in Jobs /\ PlanOK(r) /\ OutputOK(r) /\ OwnOK(r, opsFile)
      /\ r.step = "composing" /\ Len(r.out) = SheetCount(r.plan)
  BY DEF PluginInv, PluginTypeOK, Save, ActionIsLost
<1>2. j \in Jobs
  BY <1>1 DEF Jobs, Steps
<1>3. /\ j.step = "saved" /\ j.ops = r.ops /\ j.plan = r.plan /\ j.pages = r.pages
      /\ j.out = r.out /\ j.faulty = r.faulty /\ j.disturbed = r.disturbed
  BY <1>1 DEF Jobs
<1>4. job' = [job EXCEPT ![i] = j]
  BY DEF Save, ActionIsLost, Goto
<1>5. /\ opsFile' = opsFile /\ lastAction' \in Kinds \union {"none"}
      /\ runs' \in Nat /\ faults' \in Nat
  <2>1. CASE Save(i)
    BY <2>1 DEF Save, PluginInv, PluginTypeOK, Remembered, Kinds
  <2>2. CASE ActionIsLost(i) /\ faults' = faults + 1
    BY <2>2 DEF ActionIsLost, PluginInv, PluginTypeOK
  <2> QED BY <2>1, <2>2
<1> HIDE DEF j, r
<1>6. PlanOK(j) /\ OutputOK(j) /\ OwnOK(j, opsFile)
  BY <1>1, <1>3 DEF PlanOK, OutputOK, OwnOK
<1> QED BY <1>2, <1>4, <1>5, <1>6, KeepsTheFile

LEMMA CallFailsKeepsInv ==
    ASSUME PluginInv, NEW i \in Instances, CallFails(i), faults' = faults + 1
    PROVE  PluginInv'
<1> DEFINE r == job[i]
           j == [r EXCEPT !.step = "failed", !.faulty = TRUE]
<1>1. r \in Jobs /\ PlanOK(r) /\ OutputOK(r)
  BY DEF PluginInv, PluginTypeOK
<1>2. j \in Jobs
  BY <1>1 DEF Jobs, Steps
<1>3. /\ j.step = "failed" /\ j.ops = r.ops /\ j.plan = r.plan /\ j.pages = r.pages
      /\ j.out = r.out /\ j.faulty
  BY <1>1 DEF Jobs
<1>4. job' = [job EXCEPT ![i] = j]
  <2>1. job \in [Instances -> Jobs]
    BY DEF PluginInv, PluginTypeOK
  <2> QED BY <1>1, <2>1 DEF CallFails, Jobs
<1>5. /\ opsFile' = opsFile /\ lastAction' \in Kinds \union {"none"}
      /\ runs' \in Nat /\ faults' \in Nat
  BY DEF CallFails, PluginInv, PluginTypeOK
<1> HIDE DEF j, r
<1>6. PlanOK(j) /\ OutputOK(j) /\ OwnOK(j, opsFile)
  BY <1>1, <1>3 DEF PlanOK, OutputOK, OwnOK
<1> QED BY <1>2, <1>4, <1>5, <1>6, KeepsTheFile

LEMMA ContentMissingKeepsInv ==
    ASSUME PluginInv, NEW i \in Instances, ContentMissing(i), faults' = faults + 1
    PROVE  PluginInv'
<1> DEFINE r == job[i]
           drawn == Drawn(r.ops, Len(r.out))
<1>1. /\ r \in Jobs /\ PlanOK(r) /\ OutputOK(r) /\ r.step = "composing"
      /\ \A op \in drawn : op.page < r.pages
  BY DEF PluginInv, PluginTypeOK, ContentMissing
<1>2. PICK op \in drawn :
        job' = [job EXCEPT ![i].out = Append(@, drawn \ {op}), ![i].faulty = TRUE]
  BY DEF ContentMissing
<1> DEFINE j == [r EXCEPT !.out = Append(@, drawn \ {op}), !.faulty = TRUE]
<1>3. j \in Jobs /\ OutputOK(j)
  <2> HIDE DEF r
  <2> QED BY <1>1, OneMoreSheet
<1>4. j.plan = r.plan /\ j.pages = r.pages /\ j.faulty
  BY <1>1 DEF Jobs
<1>5. job' = [job EXCEPT ![i] = j]
  <2>1. job \in [Instances -> Jobs]
    BY DEF PluginInv, PluginTypeOK
  <2> HIDE DEF drawn
  <2> QED BY <1>1, <1>2, <2>1 DEF Jobs
<1>6. /\ opsFile' = opsFile /\ lastAction' \in Kinds \union {"none"}
      /\ runs' \in Nat /\ faults' \in Nat
  BY DEF ContentMissing, PluginInv, PluginTypeOK
<1> HIDE DEF j, r
<1>7. PlanOK(j) /\ OwnOK(j, opsFile)
  BY <1>1, <1>4 DEF PlanOK, OwnOK
<1> QED BY <1>3, <1>5, <1>6, <1>7, KeepsTheFile

LEMMA PluginInvInductive == PluginInv /\ [PluginNext]_pluginVars => PluginInv'
<1> SUFFICES ASSUME PluginInv, [PluginNext]_pluginVars PROVE PluginInv'
  OBVIOUS
<1>1. CASE UNCHANGED pluginVars
  BY <1>1 DEF pluginVars, PluginInv, PluginTypeOK
<1>2. ASSUME NEW i \in Instances,
             \/ Command(i) \/ ExecutePlayback(i)
             \/ OpenOps(i) \/ Flush(i) \/ Load(i)
             \/ ComposeSheet(i) \/ Save(i)
             \/ Fault(i)
      PROVE  PluginInv'
  <2>1. CASE Command(i) \/ ExecutePlayback(i)
    <3>1. \E d \in Dialogs, n \in Documents : Execute(i, d, n)
      BY <2>1 DEF Command, ExecutePlayback
    <3> QED BY <3>1, ExecuteKeepsInv
  <2>2. CASE OpenOps(i) \/ Flush(i) \/ Load(i) \/ ComposeSheet(i) \/ Save(i)
    BY <2>2, OpenOpsKeepsInv, FlushKeepsInv, LoadKeepsInv, ComposeSheetKeepsInv, SaveKeepsInv
  <2>3. CASE Fault(i)
    <3>1. faults' = faults + 1 /\ (\/ CallFails(i) \/ WriteFails(i)
                                \/ ContentMissing(i) \/ ActionIsLost(i))
      BY <2>3 DEF Fault
    <3> QED BY <3>1, CallFailsKeepsInv, WriteFailsKeepsInv, ContentMissingKeepsInv,
               SaveKeepsInv
  <2> QED BY <1>2, <2>1, <2>2, <2>3
<1> QED BY <1>1, <1>2 DEF PluginNext

-----------------------------------------------------------------------------
\* The invariant of the plugin: types, plans, files and outputs.
THEOREM PluginSafety == PluginSpec => []PluginInv
<1> QED BY InvAtStart, PluginInvInductive, PTL DEF PluginSpec

\* Whatever other instances do to the file and whatever fails, a document that
\* is saved has the sheets of its plan, on them only slots of the plan, each at
\* most once, and pages of the document (ValidateAcrobatSdkOps,
\* BuildSheetComposeBuckets).
THEOREM SavedSheetsAreOfThePlan == PluginSpec => []SavedSheetsArePlanned
<1>1. PluginInv => SavedSheetsArePlanned
  <2> SUFFICES ASSUME PluginInv, NEW i \in Instances, Saved(i)
               PROVE  LET r == job[i] IN
                      /\ Len(r.out) = SheetCount(r.plan)
                      /\ \A s \in DOMAIN r.out :
                            LET drawn == r.out[s] IN
                            /\ Keys(drawn) \subseteq
                                 Keys({p \in r.plan.placements : p.sheet = s - 1})
                            /\ Cardinality(Keys(drawn)) = Cardinality(drawn)
                            /\ \A op \in drawn : op.page < r.pages
    BY DEF SavedSheetsArePlanned
  <2> DEFINE r == job[i]
             P == r.plan.placements
  <2>1. r \in Jobs /\ OutputOK(r) /\ r.step = "saved"
    BY DEF PluginInv, PluginTypeOK, Saved
  <2> HIDE DEF r
  <2>2. Sortable(r.ops, r.plan) /\ Len(r.out) = SheetCount(r.plan)
    BY <2>1 DEF OutputOK
  <2>3. IsFiniteSet(r.ops) /\ Apart(r.ops) /\ Keys(r.ops) = Keys(P)
    <3>1. IsFiniteSet(r.ops)
      BY <2>1, PlansAreFinite DEF Jobs
    <3>2. Cardinality(Keys(r.ops)) = Cardinality(r.ops) /\ Keys(r.ops) = Keys(P)
      BY <2>2 DEF Sortable, Valid
    <3> QED BY <3>1, <3>2, KeysFacts
  <2>4. ASSUME NEW s \in DOMAIN r.out
        PROVE  LET drawn == r.out[s] IN
               /\ Keys(drawn) \subseteq Keys({p \in P : p.sheet = s - 1})
               /\ Cardinality(Keys(drawn)) = Cardinality(drawn)
               /\ \A op \in drawn : op.page < r.pages
    <3> DEFINE drawn == r.out[s]
    <3>1. drawn \subseteq Drawn(r.ops, s - 1) /\ \A op \in drawn : op.page < r.pages
      BY <2>1 DEF OutputOK
    <3> HIDE DEF drawn
    <3>2. drawn \in SUBSET r.ops /\ \A op \in drawn : op.sheet = s - 1
      BY <3>1 DEF Drawn
    <3>3. IsFiniteSet(drawn) /\ Apart(drawn)
      BY <2>3, <3>2, FS_Subset DEF Apart
    <3>4. Cardinality(Keys(drawn)) = Cardinality(drawn)
      BY <3>3, KeysFacts
    <3>5. Keys(drawn) \subseteq Keys({p \in P : p.sheet = s - 1})
      <4> SUFFICES ASSUME NEW op \in drawn
                   PROVE  Key(op) \in Keys({p \in P : p.sheet = s - 1})
        BY DEF Keys
      <4>1. Key(op) \in Keys(P)
        BY <2>3, <3>2 DEF Keys
      <4>2. PICK p \in P : Key(op) = Key(p)
        BY <4>1 DEF Keys
      <4>3. p.sheet = s - 1
        BY <3>2, <4>2 DEF Key
      <4> QED BY <4>2, <4>3 DEF Keys
    <3> QED BY <3>1, <3>4, <3>5 DEF drawn
  <2> QED BY <2>2, <2>4 DEF r
<1> QED BY <1>1, PluginSafety, PTL

\* A command that no other instance disturbed and none of whose calls failed
\* saves exactly its plan, with the blanks left empty (NativeComposePlan).
THEOREM OwnPlanIsSaved == PluginSpec => []OwnPlanIsComposed
<1>1. PluginInv => OwnPlanIsComposed
  <2> SUFFICES ASSUME PluginInv, NEW i \in Instances, Saved(i), OnItsOwn(i)
               PROVE  UNION {job[i].out[s] : s \in DOMAIN job[i].out}
                         = {p \in job[i].plan.placements : p.page # Blank}
    BY DEF OwnPlanIsComposed
  <2> DEFINE r == job[i]
             P == r.plan.placements
             n == SheetCount(r.plan)
  <2>1. /\ r \in Jobs /\ PlanOK(r) /\ OutputOK(r) /\ OwnOK(r, opsFile)
        /\ r.step = "saved" /\ ~r.disturbed /\ ~r.faulty
    BY DEF PluginInv, PluginTypeOK, Saved, OnItsOwn
  <2> HIDE DEF r
  <2>2. r.ops = P /\ Len(r.out) = n
    BY <2>1 DEF OwnOK, OutputOK
  <2>3. DOMAIN r.out = 1 .. n
    BY <2>1, <2>2, LenProperties DEF Jobs
  <2>4. n \in Nat /\ \A p \in P : p.sheet < n /\ p.sheet \in Nat
    BY <2>1, SheetCountFacts DEF PlanOK, LaidOut
  <2>5. \A s \in 1 .. n : r.out[s] = Drawn(P, s - 1)
    BY <2>1, <2>2, <2>3 DEF OutputOK
  <2>6. ASSUME NEW p \in P, p.page # Blank
        PROVE  p.sheet + 1 \in 1 .. n /\ p \in r.out[p.sheet + 1]
    <3> HIDE DEF P, n
    <3>1. p.sheet + 1 \in 1 .. n /\ (p.sheet + 1) - 1 = p.sheet
      BY <2>4
    <3>2. r.out[p.sheet + 1] = Drawn(P, p.sheet)
      BY <2>5, <3>1
    <3> QED BY <2>6, <3>1, <3>2 DEF Drawn
  <2>7. \A s \in 1 .. n : \A op \in r.out[s] : op \in P /\ op.page # Blank
    BY <2>5 DEF Drawn
  <2> HIDE DEF P, n
  <2>8. UNION {r.out[s] : s \in 1 .. n} = {p \in P : p.page # Blank}
    BY <2>6, <2>7
  <2> QED BY <2>3, <2>8 DEF r, P
<1> QED BY <1>1, PluginSafety, PTL

\* As long as the cells of every grid can be numbered in 32 bits, a command
\* that is left alone fails only when its plan is empty: all planners give
\* plans that pass the checks of ValidateAcrobatSdkOps.
THEOREM FailuresHaveACause ==
    ASSUME GridsFit
    PROVE  PluginSpec => []FailsOnlyWithCause
<1>1. PluginInv => FailsOnlyWithCause
  BY DEF PluginInv, OwnOK, FailsOnlyWithCause, OnItsOwn
<1> QED BY <1>1, PluginSafety, PTL
-----------------------------------------------------------------------------
LEMMA AllPagesOnce ==
    ASSUME NEW n \in Nat
    PROVE  Once(AllPages(n), n)
<1> DEFINE f == [i \in 1 .. n |-> i - 1]
<1>1. DOMAIN f = 1 .. n /\ \A i \in 1 .. n : f[i] = i - 1
  OBVIOUS
<1> HIDE DEF f
<1>2. ASSUME NEW page \in 0 .. n - 1
      PROVE  \E i \in DOMAIN f : f[i] = page /\ \A j \in DOMAIN f : f[j] = page => j = i
  <2>1. page + 1 \in 1 .. n /\ f[page + 1] = page
    BY <1>1
  <2>2. \A j \in 1 .. n : f[j] = page => j = page + 1
    BY <1>1
  <2> QED BY <1>1, <2>1, <2>2
<1>3. Once(f, n)
  BY <1>2 DEF Once
<1> QED BY <1>3 DEF f, AllPages

\* Every command but the one that makes tiles plans every page once, unless it
\* plans nothing.
LEMMA PlanOnce ==
    ASSUME NEW d \in Dialogs, NEW n \in Documents, d.kind # "tile",
           PlanOf(d, n).placements # {}
    PROVE  OnceEach(PlanOf(d, n).placements, n)
<1> DEFINE a == AllPages(n)
           P == PlanOf(d, n).placements
<1>1. n \in Nat /\ d.kind \in Kinds
      /\ (d.kind \in {"nup", "steprepeat", "tile"} => d.columns \in Nat /\ d.rows \in Nat)
      /\ (d.kind = "shuffle" => d.mode \in ShuffleModes /\ d.size \in Nat)
  BY DialogFacts
<1>2. a \in Lists(n) /\ Once(a, n)
  BY <1>1, AllPagesFacts, AllPagesOnce
<1> HIDE DEF a
<1>3. ASSUME NEW placements PROVE Plan(n, placements).placements = placements
  BY DEF Plan
<1>4. ASSUME NEW order \in Lists(n), Once(order, n)
      PROVE  OnceEach(ReorderPlan(order).placements, n)
  <2>1. ReorderPlan(order).placements = BuildReorderPlan(order, PageSize)
    BY DEF ReorderPlan, Plan
  <2>2. Follows(BuildReorderPlan(order, PageSize), order)
    BY ReorderLaidOut
  <2> QED BY <1>4, <2>1, <2>2, FollowedOnce
<1>5. CASE d.kind = "booklet"
  <2> DEFINE s == PaddedTo(a, IF d.autoPad THEN 4 ELSE 0)
             b == Booklet(s, SheetOf(d, Spread), d.creep)
  <2>1. PlanOf(d, n) = Plan(n, b)
    BY <1>5 DEF PlanOf, BookletPlan, a
  <2>2. s \in Lists(n) /\ Once(s, n)
    BY <1>1, <1>2, PaddedList, PaddedOnce
  <2> HIDE DEF s
  <2>3. OnceEach(b, n)
    BY ONLY <1>1, <2>2, BookletOnce
  <2> QED BY <1>3, <2>1, <2>3
<1>6. CASE d.kind = "nup"
  <2> DEFINE sheet == SheetOf(d, Grid(d))
             options == Fitted(d.scaleToFit, d.autoRotate)
             placed == NUp(a, sheet, d.columns, d.rows, options)
  <2>1. PlanOf(d, n) = Plan(n, placed)
    BY <1>6 DEF PlanOf, NUpPlan, a
  <2>2. d.columns \in Nat /\ d.rows \in Nat
    BY <1>1, <1>6
  <2> HIDE DEF sheet, options
  <2>3. Follows(placed, a)
    BY ONLY <1>2, <2>2, NUpLaidOut DEF placed
  <2> QED BY <1>2, <1>3, <2>1, <2>3, FollowedOnce
<1>7. CASE d.kind = "steprepeat"
  <2> DEFINE config == [columns |-> d.columns, rows |-> d.rows, seed |-> PageSize,
                        stepX |-> d.stepX, stepY |-> d.stepY]
             sheet == SheetOf(d, Grid(d))
             options == Fitted(TRUE, FALSE)
             placed == StepAndRepeat(a, sheet, config, options)
  <2>1. PlanOf(d, n) = Plan(n, placed)
    BY <1>7 DEF PlanOf, StepAndRepeatPlan, a
  <2>2. config.columns \in Nat /\ config.rows \in Nat
    BY <1>1, <1>7
  <2> HIDE DEF config, sheet, options
  <2>3. placed # {} => Follows(placed, a)
    BY ONLY <1>2, <2>2, StepAndRepeatLaidOut DEF placed
  <2> HIDE DEF placed
  <2>4. Follows(placed, a)
    BY <1>3, <2>1, <2>3
  <2> QED BY <1>2, <1>3, <2>1, <2>4, FollowedOnce
<1>8. CASE d.kind = "join2"
  <2> DEFINE s == PaddedTo(a, 2)
  <2>1. PlanOf(d, n) = Plan(n, TwoUp(s, Spread))
    BY <1>8 DEF PlanOf, Join2Plan, a
  <2>2. s \in Lists(n) /\ Once(s, n)
    BY <1>1, <1>2, PaddedList, PaddedOnce
  <2> HIDE DEF s
  <2>3. Follows(TwoUp(s, Spread), s)
    BY ONLY <2>2, TwoUpLaidOut
  <2> QED BY <1>3, <2>1, <2>2, <2>3, FollowedOnce
<1>9. CASE d.kind = "shuffle"
  <2> DEFINE s == ShufflePages(a, d.mode, d.size)
             S == (0 .. n - 1) \union {Blank}
  <2>1. PlanOf(d, n) = ReorderPlan(s)
    BY <1>9 DEF PlanOf, ShufflePlan, a
  <2>2. Once(s, n)
    BY <1>1, <1>2, <1>9, ShufflePagesOnce
  <2>3. a \in Seq(S) /\ Blank \in S /\ Lists(n) = Seq(S)
    BY <1>2 DEF Lists
  <2> HIDE DEF S
  <2>4. s \in Seq(S)
    BY <1>1, <1>9, <2>3, ShufflePagesFacts
  <2> HIDE DEF s
  <2> QED BY <1>4, <2>1, <2>2, <2>3, <2>4
<1>10. CASE d.kind = "evenodd"
  <2> DEFINE s == MergeInterlace(SplitEvenOdd(a)[1], SplitEvenOdd(a)[2])
             S == (0 .. n - 1) \union {Blank}
  <2>1. PlanOf(d, n) = ReorderPlan(s)
    BY <1>10 DEF PlanOf, EvenOddPlan, a
  <2>2. Once(s, n)
    BY <1>2, InterlacedOnce
  <2>3. a \in Seq(S) /\ Lists(n) = Seq(S)
    BY <1>2 DEF Lists
  <2> HIDE DEF S
  <2>4. s \in Seq(S)
    BY <2>3, InterlacedFacts
  <2> HIDE DEF s
  <2> QED BY <1>4, <2>1, <2>2, <2>3, <2>4
<1>11. CASE d.kind = "reverse"
  <2> DEFINE s == Reverse(a)
             S == (0 .. n - 1) \union {Blank}
  <2>1. PlanOf(d, n) = ReorderPlan(s)
    BY <1>11 DEF PlanOf, ReversePlan, a
  <2>2. Once(s, n)
    BY <1>2, ReverseOnce
  <2>3. a \in Seq(S) /\ Lists(n) = Seq(S)
    BY <1>2 DEF Lists
  <2> HIDE DEF S
  <2>4. s \in Seq(S)
    BY <2>3, ReverseFacts
  <2> HIDE DEF s
  <2> QED BY <1>4, <2>1, <2>2, <2>3, <2>4
<1>12. ASSUME NEW creep, NEW total
       PROVE  OnceEach(Plan(n, ApplyCreepShiftToPlan(Booklet(a, Spread, 0),
                                                     creep, total)).placements, n)
  <2> DEFINE b == Booklet(a, Spread, 0)
  <2>1. LaidOut(b, n) /\ OnceEach(b, n)
    BY ONLY <1>1, <1>2, BookletLaidOut, BookletOnce DEF b
  <2> HIDE DEF b
  <2>2. OnceEach(ApplyCreepShiftToPlan(b, creep, total), n)
    BY ONLY <2>1, ShiftOnce
  <2> QED BY <1>3, <2>2 DEF b
<1>13. CASE d.kind = "trimshift"
  <2>1. PlanOf(d, n) = Plan(n, ApplyCreepShiftToPlan(Booklet(a, Spread, 0), 3, 8))
    BY <1>13 DEF PlanOf, TrimShiftPlan, a
  <2> QED BY <1>12, <2>1
<1>14. CASE d.kind = "creep"
  <2>1. PlanOf(d, n) = Plan(n, ApplyCreepShiftToPlan(Booklet(a, Spread, 0), d.creep, d.total))
    BY <1>14 DEF PlanOf, CreepPlan, a
  <2> QED BY <1>12, <2>1
<1> QED BY <1>1, <1>5, <1>6, <1>7, <1>8, <1>9, <1>10, <1>11, <1>13, <1>14 DEF Kinds

-----------------------------------------------------------------------------
\* A command carries the plan of its dialog and document, and what it composes
\* is not empty.
PlannedOK(j) ==
    /\ j.step \notin {"idle", "crashed"} =>
          \E d \in Dialogs, n \in Documents :
              j.dialog = d /\ j.pages = n /\ j.plan = PlanOf(d, n)
    /\ j.step \in {"composing", "saved"} => j.ops # {}

PlannedInv == \A i \in Instances : PlannedOK(job[i])

\* What no step but the one that plans changes in a command.
SameCommand(j, k) ==
    /\ k.dialog = j.dialog /\ k.pages = j.pages /\ k.plan = j.plan
    /\ k.step \notin {"idle", "crashed"} => j.step \notin {"idle", "crashed"}
    /\ k.step \in {"composing", "saved"} =>
          \/ k.ops # {}
          \/ j.step \in {"composing", "saved"} /\ k.ops = j.ops

LEMMA SameCommandStaysPlanned ==
    ASSUME NEW j, NEW k, PlannedOK(j), SameCommand(j, k)
    PROVE  PlannedOK(k)
BY DEF PlannedOK, SameCommand

LEMMA StepsKeepCommands ==
    ASSUME PluginInv, PluginNext, NEW k \in Instances
    PROVE  \/ SameCommand(job[k], job'[k])
           \/ PlannedOK(job'[k])
<1>1. job \in [Instances -> Jobs]
  BY DEF PluginInv, PluginTypeOK
<1>2. PICK i \in Instances :
         \/ Command(i) \/ ExecutePlayback(i)
         \/ OpenOps(i) \/ Flush(i) \/ Load(i)
         \/ ComposeSheet(i) \/ Save(i)
         \/ Fault(i)
  BY DEF PluginNext
<1> DEFINE j == job[k]
<1>3. j \in Jobs /\ SameCommand(j, j)
  BY <1>1 DEF SameCommand
<1>4. CASE Command(i) \/ ExecutePlayback(i)
  <2>1. PICK d \in Dialogs, n \in Documents : Execute(i, d, n)
    BY <1>4 DEF Command, ExecutePlayback
  <2> DEFINE planned == [NoJob EXCEPT !.step = "planned", !.dialog = d,
                                      !.pages = n, !.plan = PlanOf(d, n)]
             crashed == [NoJob EXCEPT !.step = "crashed"]
  <2>2. PlannedOK(planned) /\ PlannedOK(crashed)
    BY DEF PlannedOK, NoJob
  <2>3. job' = [job EXCEPT ![i] = planned] \/ job' = [job EXCEPT ![i] = crashed]
    BY <2>1 DEF Execute
  <2> HIDE DEF planned, crashed
  <2>4. job'[k] \in {planned, crashed, j}
    BY <1>1, <2>3
  <2> QED BY <1>3, <2>2, <2>4
<1>5. \A m \in Jobs : SameCommand(m, [m EXCEPT !.disturbed = TRUE])
  BY DEF Jobs, SameCommand
<1>6. /\ AfterChangeBy(i) \in [Instances -> Jobs] /\ AfterChangeBy(i)[i] = job[i]
      /\ SameCommand(j, AfterChangeBy(i)[k])
  <2>1. AfterChangeBy(i) \in [Instances -> Jobs] /\ AfterChangeBy(i)[i] = job[i]
    BY AfterChangeFacts
  <2>2. AfterChangeBy(i)[k] \in {[j EXCEPT !.disturbed = TRUE], j}
    BY DEF AfterChangeBy
  <2> HIDE DEF j
  <2> QED BY <1>3, <1>5, <2>1, <2>2
<1>7. ASSUME NEW m, SameCommand(job[i], m),
             job' = [job EXCEPT ![i] = m] \/ job' = [AfterChangeBy(i) EXCEPT ![i] = m]
      PROVE  SameCommand(job[k], job'[k])
  BY <1>1, <1>3, <1>6, <1>7
<1> DEFINE r == job[i]
<1>8. r \in Jobs
  BY <1>1
<1>9. CASE OpenOps(i)
  <2>1. SameCommand(r, [r EXCEPT !.step = "writing"])
    BY <1>8, <1>9 DEF OpenOps, SameCommand, Jobs
  <2>2. job' = [AfterChangeBy(i) EXCEPT ![i] = [r EXCEPT !.step = "writing"]]
    BY <1>6, <1>9 DEF OpenOps
  <2> QED BY <1>7, <2>1, <2>2
<1>10. CASE Flush(i)
  <2>1. SameCommand(r, [r EXCEPT !.step = "written"])
    BY <1>8, <1>10 DEF Flush, SameCommand, Jobs
  <2>2. job' = [AfterChangeBy(i) EXCEPT ![i] = [r EXCEPT !.step = "written"]]
    BY <1>6, <1>10 DEF Flush
  <2> QED BY <1>7, <2>1, <2>2
<1>11. CASE Load(i)
  <2> DEFINE loaded == [r EXCEPT !.step = "composing", !.ops = opsFile.ops]
             refused == [r EXCEPT !.step = "failed"]
             passes == Parsed /\ Sortable(opsFile.ops, r.plan)
  <2>1. passes => SameCommand(r, loaded)
    BY <1>8, <1>11 DEF Load, Parsed, SameCommand, Jobs
  <2>2. SameCommand(r, refused)
    BY <1>8, <1>11 DEF Load, SameCommand, Jobs
  <2>3. job' = [job EXCEPT ![i] = IF passes THEN loaded ELSE refused]
    BY <1>11 DEF Load
  <2> HIDE DEF passes, loaded, refused
  <2> QED BY <1>7, <2>1, <2>2, <2>3
<1>12. CASE ComposeSheet(i)
  <2> DEFINE drawn == Drawn(r.ops, Len(r.out))
             known == \A op \in drawn : op.page < r.pages
             made == [r EXCEPT !.out = Append(r.out, drawn)]
             ended == [r EXCEPT !.step = "failed"]
  <2>1. SameCommand(r, made) /\ SameCommand(r, ended)
    BY <1>8, <1>12 DEF ComposeSheet, SameCommand, Jobs
  <2>2. job' = [job EXCEPT ![i] = IF known THEN made ELSE ended]
    BY <1>12 DEF ComposeSheet
  <2> HIDE DEF known, made, ended
  <2> QED BY <1>7, <2>1, <2>2
<1>13. CASE Save(i)
  <2>1. SameCommand(r, [r EXCEPT !.step = "saved"])
    BY <1>8, <1>13 DEF Save, SameCommand, Jobs
  <2>2. job' = [job EXCEPT ![i] = [r EXCEPT !.step = "saved"]]
    BY <1>13 DEF Save, Goto
  <2> QED BY <1>7, <2>1, <2>2
<1>14. CASE Fault(i)
  <2>1. CASE CallFails(i)
    <3> DEFINE m == [r EXCEPT !.step = "failed", !.faulty = TRUE]
    <3>1. SameCommand(r, m)
      BY <1>8, <2>1 DEF CallFails, SameCommand, Jobs
    <3>2. job' = [job EXCEPT ![i] = m]
      BY <1>1, <1>8, <2>1 DEF CallFails, Jobs
    <3> QED BY <1>7, <3>1, <3>2
  <2>2. CASE WriteFails(i)
    <3> DEFINE m == [r EXCEPT !.step = "written", !.faulty = TRUE]
    <3>1. SameCommand(r, m)
      BY <1>8, <2>2 DEF WriteFails, SameCommand, Jobs
    <3>2. job' = [AfterChangeBy(i) EXCEPT ![i] = m]
      BY <1>6, <1>8, <2>2 DEF WriteFails, Jobs
    <3> QED BY <1>7, <3>1, <3>2
  <2>3. CASE ContentMissing(i)
    <3> DEFINE drawn == Drawn(r.ops, Len(r.out))
    <3>1. PICK op \in drawn :
            job' = [job EXCEPT ![i].out = Append(@, drawn \ {op}), ![i].faulty = TRUE]
      BY <2>3 DEF ContentMissing
    <3> HIDE DEF drawn
    <3> DEFINE m == [r EXCEPT !.out = Append(@, drawn \ {op}), !.faulty = TRUE]
    <3>2. SameCommand(r, m)
      BY <1>8, <2>3 DEF ContentMissing, SameCommand, Jobs
    <3>3. job' = [job EXCEPT ![i] = m]
      BY <1>1, <1>8, <3>1 DEF Jobs
    <3> QED BY <1>7, <3>2, <3>3
  <2>4. CASE ActionIsLost(i)
    <3>1. SameCommand(r, [r EXCEPT !.step = "saved"])
      BY <1>8, <2>4 DEF ActionIsLost, SameCommand, Jobs
    <3>2. job' = [job EXCEPT ![i] = [r EXCEPT !.step = "saved"]]
      BY <2>4 DEF ActionIsLost, Goto
    <3> QED BY <1>7, <3>1, <3>2
  <2> QED BY <1>14, <2>1, <2>2, <2>3, <2>4 DEF Fault
<1> QED BY <1>2, <1>4, <1>9, <1>10, <1>11, <1>12, <1>13, <1>14

\* A command carries the plan of its dialog through all its steps.
THEOREM CommandsCarryTheirPlan == PluginSpec => []PlannedInv
<1>1. PluginInit => PlannedInv
  BY DEF PluginInit, PlannedInv, PlannedOK, NoJob
<1>2. PluginInv /\ PlannedInv /\ [PluginNext]_pluginVars => PlannedInv'
  <2> SUFFICES ASSUME PluginInv, PlannedInv, [PluginNext]_pluginVars, NEW k \in Instances
               PROVE  PlannedOK(job'[k])
    BY DEF PlannedInv
  <2>1. PlannedOK(job[k])
    BY DEF PlannedInv
  <2>2. CASE PluginNext
    BY <2>1, <2>2, StepsKeepCommands, SameCommandStaysPlanned
  <2>3. CASE UNCHANGED pluginVars
    BY <2>1, <2>3 DEF pluginVars
  <2> QED BY <2>2, <2>3
<1> QED BY <1>1, <1>2, PluginSafety, PTL DEF PluginSpec

\* A document that was saved undisturbed has every page of the document in
\* front once, or once for each tile: no command loses a page or doubles one
\* (the planners, ShufflePages, ApplyCreepShiftToPlan, NativeComposePlan).
THEOREM EveryPageIsComposed == PluginSpec => []EveryPageAsOften
<1>1. PluginInv /\ PlannedInv /\ OwnPlanIsComposed => EveryPageAsOften
  <2> SUFFICES ASSUME PluginInv, PlannedInv, OwnPlanIsComposed,
                      NEW i \in Instances, Saved(i), OnItsOwn(i),
                      NEW page \in 0 .. job[i].pages - 1
               PROVE  LET d == job[i].dialog
                          copies == IF d.kind = "tile" THEN d.columns * d.rows ELSE 1
                          drawn == UNION {job[i].out[s] : s \in DOMAIN job[i].out} IN
                      Cardinality({op \in drawn : op.page = page}) = copies
    BY DEF EveryPageAsOften
  <2> DEFINE drawn == UNION {job[i].out[s] : s \in DOMAIN job[i].out}
             P == job[i].plan.placements
             d == job[i].dialog
             n == job[i].pages
             found == {op \in drawn : op.page = page}
  <2>1. drawn = {p \in P : p.page # Blank}
    BY DEF OwnPlanIsComposed
  <2>2. d \in Dialogs /\ n \in Documents /\ P = PlanOf(d, n).placements
    BY DEF PlannedInv, PlannedOK, Saved
  <2>3. P # {}
    <3>1. OwnOK(job[i], opsFile) /\ job[i].step = "saved"
      BY DEF PluginInv, Saved
    <3>2. job[i].ops = P
      BY <3>1 DEF OwnOK, OnItsOwn
    <3> QED BY <3>1, <3>2 DEF PlannedInv, PlannedOK
  <2> HIDE DEF drawn, P, d, n
  <2>4. n \in Nat
    BY <2>2, PlanFacts
  <2>5. page # Blank /\ page \in 0 .. n - 1
    BY <2>4, PagesAssumption DEF n
  <2>6. found = {p \in P : p.page = page}
    BY <2>1, <2>5
  <2> HIDE DEF found
  <2>7. CASE d.kind = "tile"
    <3>1. P = BuildTilePlan(n, d.columns, d.rows, PageSize)
      BY <2>2, <2>7 DEF PlanOf, TilePlan, Plan
    <3>2. d.columns \in Nat \ {0} /\ d.rows \in Nat \ {0}
      BY <2>2, <2>7, DialogFacts
    <3> DEFINE columns == d.columns
               rows == d.rows
    <3>3. columns \in Nat \ {0} /\ rows \in Nat \ {0}
      BY <3>2
    <3> HIDE DEF columns, rows
    <3>4. \A p : p \in found <=>
                  p \in BuildTilePlan(n, columns, rows, PageSize) /\ p.page = page
      BY <2>6, <3>1 DEF columns, rows
    <3>5. Cardinality(found) = columns * rows
      BY ONLY <2>4, <2>5, <3>3, <3>4, TilesOfPage
    <3> QED BY <2>7, <3>5 DEF found, drawn, d, columns, rows
  <2>8. CASE d.kind # "tile"
    <3>1. OnceEach(P, n)
      BY <2>2, <2>3, <2>8, PlanOnce
    <3>2. PICK q \in P : q.page = page /\ \A p \in P : p.page = page => p = q
      BY <2>5, <3>1 DEF OnceEach
    <3>3. found = {q}
      BY <2>6, <3>2
    <3>4. Cardinality(found) = 1
      BY <3>3, FS_Singleton
    <3> QED BY <2>8, <3>4 DEF found, drawn, d
  <2> QED BY <2>7, <2>8
<1> QED BY <1>1, PluginSafety, OwnPlanIsSaved, CommandsCarryTheirPlan, PTL

-----------------------------------------------------------------------------
\* The plans of the two commands that fill grids.
LEMMA PlanReadsInOrder ==
    ASSUME NEW d \in Dialogs, NEW n \in Documents,
           \/ d.kind = "nup"
           \/ d.kind = "steprepeat" /\ d.stepX >= PageSize.w /\ d.stepY >= PageSize.h
    PROVE  ReadInOrder(PlanOf(d, n).placements)
<1> DEFINE a == AllPages(n)
           sheet == SheetOf(d, Grid(d))
<1>1. n \in Nat /\ d.columns \in Nat \ {0} /\ d.rows \in Nat \ {0}
  BY DialogFacts
<1>2. a \in Lists(n)
  BY <1>1, AllPagesFacts
<1>3. Rising(a)
  <2>1. \A i \in DOMAIN a : i \in Nat /\ a[i] = i - 1
    BY <1>1 DEF AllPages
  <2> HIDE DEF a
  <2> QED BY <2>1 DEF Rising
<1>4. /\ PageSize.w \in Nat /\ PageSize.h \in Nat
      /\ d.sheet.w \in Nat /\ d.sheet.h \in Nat
      /\ d.kind = "steprepeat" => d.stepX \in Nat /\ d.stepY \in Nat
  BY NativeAssumption
<1>5. sheet.w \in Nat /\ sheet.h \in Nat
  <2> DEFINE columns == d.columns
             rows == d.rows
             w == PageSize.w
             h == PageSize.h
             grid == Grid(d)
  <2>1. columns \in Nat /\ rows \in Nat /\ w \in Nat /\ h \in Nat
    BY <1>1, <1>4
  <2>2. grid.w = w * columns /\ grid.h = h * rows
    BY DEF Grid, Size
  <2> HIDE DEF columns, rows, w, h, grid
  <2>3. grid.w \in Nat /\ grid.h \in Nat
    BY <2>1, <2>2
  <2>4. sheet \in {d.sheet, grid}
    BY DEF SheetOf, grid
  <2> HIDE DEF sheet
  <2> QED BY <1>4, <2>3, <2>4
<1> HIDE DEF a, sheet
<1>6. CASE d.kind = "nup"
  <2> DEFINE options == Fitted(d.scaleToFit, d.autoRotate)
  <2>1. PlanOf(d, n).placements = NUp(a, sheet, d.columns, d.rows, options)
    BY <1>6 DEF PlanOf, NUpPlan, Plan, a, sheet
  <2> HIDE DEF options
  <2>2. ReadInOrder(NUp(a, sheet, d.columns, d.rows, options))
    BY ONLY <1>1, <1>2, <1>3, <1>5, NUpReadsInOrder
  <2> QED BY <2>1, <2>2
<1>7. CASE d.kind = "steprepeat"
  <2> DEFINE config == [columns |-> d.columns, rows |-> d.rows, seed |-> PageSize,
                        stepX |-> d.stepX, stepY |-> d.stepY]
             options == Fitted(TRUE, FALSE)
  <2>1. PlanOf(d, n).placements = StepAndRepeat(a, sheet, config, options)
    BY <1>7 DEF PlanOf, StepAndRepeatPlan, Plan, a, sheet
  <2>2. /\ config.columns = d.columns /\ config.rows = d.rows /\ config.seed = PageSize
        /\ config.stepX = d.stepX /\ config.stepY = d.stepY
    OBVIOUS
  <2> HIDE DEF config, options
  <2>3. /\ config.columns \in Nat \ {0} /\ config.rows \in Nat
        /\ config.stepX \in Nat /\ config.stepY \in Nat
        /\ config.seed.w \in Nat /\ config.seed.h \in Nat
        /\ config.seed.w <= config.stepX /\ config.seed.h <= config.stepY
    BY <1>1, <1>4, <1>7, <2>2
  <2>4. ReadInOrder(StepAndRepeat(a, sheet, config, options))
    BY ONLY <1>2, <1>3, <2>3, StepAndRepeatReadsInOrder
  <2> QED BY <2>1, <2>4
<1> QED BY <1>6, <1>7

\* In an n-up plan, and in a step-and-repeat plan whose copies are at least
\* their own size apart, pages follow each other from left to right, row over
\* row and sheet after sheet, whichever cells the sheet has no room for and
\* wherever the number of slots wraps (NUpPlanner, StepAndRepeatPlanner).
THEOREM GridsAreReadInOrder == PluginSpec => []GridsReadInOrder
<1>1. PlannedInv => GridsReadInOrder
  <2> SUFFICES ASSUME PlannedInv, NEW i \in Instances,
                      job[i].step # "idle", job[i].step # "crashed",
                      \/ job[i].dialog.kind = "nup"
                      \/ /\ job[i].dialog.kind = "steprepeat"
                         /\ job[i].dialog.stepX >= PageSize.w
                         /\ job[i].dialog.stepY >= PageSize.h,
                      NEW p \in job[i].plan.placements, NEW q \in job[i].plan.placements,
                      p.page < q.page
               PROVE  Before(p, q)
    BY DEF GridsReadInOrder, Before
  <2>1. PICK d \in Dialogs, n \in Documents :
           job[i].dialog = d /\ job[i].plan = PlanOf(d, n)
    BY DEF PlannedInv, PlannedOK
  <2>2. ReadInOrder(PlanOf(d, n).placements)
    BY <2>1, PlanReadsInOrder
  <2> QED BY <2>1, <2>2 DEF ReadInOrder
<1> QED BY <1>1, CommandsCarryTheirPlan, PTL

===============================================================================
