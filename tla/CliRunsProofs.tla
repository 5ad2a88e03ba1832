---------------------------- MODULE CliRunsProofs -----------------------------
(***************************************************************************)
(* Theorems about CliRuns, for every session of calls, any files and any   *)
(* number of faults.  First the counts and the report of a batch or a      *)
(* sequence, which agree with what its processes returned and, while the   *)
(* calls fit together, with the files the processes have left.  Then the   *)
(* settings a process plans with, wherever they come from, and what holds  *)
(* of every plan made from them: its slots hold one page, pages keep their *)
(* record, and a preset repeats it as far as its numbers are written.      *)
(***************************************************************************)
EXTENDS CliRuns, PlannersProofs

RunFields ==
    {"mode", "settings", "lines", "total", "ok", "failed", "entries", "codes", "stopped", "exit"}

\* The processes that have failed, and whether a failure is the end of it.
Failures(run) == {i \in DOMAIN run.codes : run.codes[i] # 0}

StopsOnError(run) == run.mode = "batch" /\ On(run.settings, "--batch-stop-on-error")

\* What RunBatchMode and RunSequenceFile have counted when n processes have
\* ended.
CountsOK(run, n) ==
    /\ DOMAIN run = RunFields
    /\ n \in Nat /\ IsSequence(run.codes) /\ Len(run.codes) = n
    /\ run.ok \in Nat /\ run.failed \in Nat
    /\ run.failed = Cardinality(Failures(run)) /\ run.ok + run.failed = n
    /\ run.stopped = (StopsOnError(run) /\ Failures(run) # {})
    /\ StopsOnError(run) => Failures(run) \subseteq {n}
    /\ IsSequence(run.entries)
    /\ Len(run.entries) = IF run.stopped THEN n - 1 ELSE n
    /\ \A i \in 1 .. Len(run.entries) :
          run.entries[i].line = i /\ run.entries[i].exit = run.codes[i]

\* A process in progress is the last line that was started.  A run that has
\* ended has returned what its counts say.
RunOK ==
    parent # NoRun =>
        /\ child = NoProcess => parent.total = Len(parent.codes)
        /\ child # NoProcess => /\ parent.total = Len(parent.codes) + 1
                                /\ parent.exit = Unended /\ ~parent.stopped
        /\ CountsOK(parent, Len(parent.codes))
        /\ parent.exit # Unended =>
              /\ child = NoProcess
              /\ parent.stopped \/ parent.total = Len(parent.lines)
              /\ parent.exit \in {1, EndCode}

ChildOK == child # NoProcess => "todo" \in DOMAIN child

RunInv == RunOK /\ ChildOK

-----------------------------------------------------------------------------
\* A sequence with one more element at its end.
LEMMA AppendFacts ==
    ASSUME NEW s, IsSequence(s), NEW e
    PROVE  LET t == Append(s, e) IN
           /\ IsSequence(t) /\ Len(s) \in Nat /\ Len(t) = Len(s) + 1
           /\ DOMAIN s = 1 .. Len(s) /\ DOMAIN t = 1 .. Len(s) + 1
           /\ \A i \in 1 .. Len(s) : t[i] = s[i]
           /\ t[Len(s) + 1] = e
<1> DEFINE S == Range(s) \union {e}
           t == Append(s, e)
<1>1. s \in Seq(S) /\ Len(s) \in Nat /\ DOMAIN s = 1 .. Len(s)
  BY LenProperties, SeqMonotonic DEF IsSequence
<1>2. t \in Seq(S) /\ Len(t) = Len(s) + 1
      /\ (\A i \in 1 .. Len(s) : t[i] = s[i]) /\ t[Len(s) + 1] = e
  BY <1>1, AppendProperties
<1> HIDE DEF t, S
<1>3. Len(t) \in Nat /\ DOMAIN t = 1 .. Len(t) /\ t \in [1 .. Len(t) -> S]
  BY <1>2, LenProperties
<1>4. t \in [1 .. Len(t) -> Range(t)]
  BY <1>3 DEF Range
<1>5. IsSequence(t)
  BY <1>3, <1>4, SeqDef DEF IsSequence
<1> QED BY <1>1, <1>2, <1>3, <1>5 DEF t

\* What Counted does to the counts and to the report.
LEMMA CountedFields ==
    ASSUME NEW run, DOMAIN run = RunFields, NEW id, NEW code, NEW outputs
    PROVE  LET c == Counted(run, id, code, outputs) IN
           /\ DOMAIN c = RunFields
           /\ c.mode = run.mode /\ c.settings = run.settings /\ c.lines = run.lines
           /\ c.total = run.total /\ c.exit = run.exit
           /\ c.ok = IF code = 0 THEN run.ok + 1 ELSE run.ok
           /\ c.failed = IF code = 0 THEN run.failed ELSE run.failed + 1
           /\ c.codes = Append(run.codes, code)
           /\ c.stopped = StopsAt(run, code)
           /\ c.entries = IF StopsAt(run, code) THEN run.entries
                          ELSE Append(run.entries, EntryOf(run, id, code, outputs))
BY DEF Counted, RunFields

\* One more process has ended.
LEMMA CountsAreKept ==
    ASSUME NEW run, NEW n, CountsOK(run, n), ~run.stopped,
           NEW next, DOMAIN next = RunFields, next.total = n + 1,
           \A f \in RunFields \ {"total"} : next[f] = run[f],
           NEW id, NEW code, NEW outputs
    PROVE  CountsOK(Counted(next, id, code, outputs), n + 1)
<1> DEFINE c == Counted(next, id, code, outputs)
           entry == EntryOf(next, id, code, outputs)
<1>1. /\ next.mode = run.mode /\ next.settings = run.settings
      /\ next.ok = run.ok /\ next.failed = run.failed
      /\ next.codes = run.codes /\ next.entries = run.entries
  BY DEF RunFields
<1>2. entry.line = n + 1 /\ entry.exit = code
  BY DEF EntryOf
<1>3. /\ DOMAIN c = RunFields
      /\ c.mode = run.mode /\ c.settings = run.settings
      /\ c.ok = IF code = 0 THEN run.ok + 1 ELSE run.ok
      /\ c.failed = IF code = 0 THEN run.failed ELSE run.failed + 1
      /\ c.codes = Append(run.codes, code)
      /\ c.stopped = StopsAt(next, code)
      /\ c.entries = IF StopsAt(next, code) THEN run.entries ELSE Append(run.entries, entry)
  BY <1>1, CountedFields
<1>4. StopsAt(next, code) <=> code # 0 /\ StopsOnError(run)
  BY <1>1 DEF StopsAt, StopsOnError
<1>5. StopsOnError(c) <=> StopsOnError(run)
  BY <1>3 DEF StopsOnError
<1> HIDE DEF c, entry
<1>6. /\ n \in Nat /\ Len(run.codes) = n /\ IsSequence(run.codes) /\ IsSequence(run.entries)
      /\ run.ok \in Nat /\ run.failed \in Nat /\ run.ok + run.failed = n
      /\ run.failed = Cardinality(Failures(run))
      /\ StopsOnError(run) => Failures(run) = {}
      /\ Len(run.entries) = n
      /\ \A i \in 1 .. n : run.entries[i].line = i /\ run.entries[i].exit = run.codes[i]
  BY DEF CountsOK
<1>7. /\ IsSequence(c.codes) /\ Len(c.codes) = n + 1
      /\ DOMAIN run.codes = 1 .. n /\ DOMAIN c.codes = 1 .. n + 1
      /\ \A i \in 1 .. n : c.codes[i] = run.codes[i]
      /\ c.codes[n + 1] = code
  BY <1>3, <1>6, AppendFacts
<1>8. Failures(c) = IF code = 0 THEN Failures(run) ELSE Failures(run) \union {n + 1}
  BY <1>6, <1>7 DEF Failures
<1>9. IsFiniteSet(Failures(run)) /\ Cardinality(Failures(run)) \in Nat /\ n + 1 \notin Failures(run)
  <2>1. Failures(run) \subseteq 1 .. n /\ IsFiniteSet(1 .. n)
    BY <1>6, <1>7, FS_Interval DEF Failures
  <2> QED BY <2>1, <1>6, FS_Subset, FS_CardinalityType
<1>10. Cardinality(Failures(run) \union {n + 1}) = run.failed + 1
  <2> DEFINE F == Failures(run)
             m == n + 1
  <2>1. IsFiniteSet(F) /\ m \notin F /\ Cardinality(F) = run.failed
    BY <1>6, <1>9
  <2> HIDE DEF F, m
  <2>2. Cardinality(F \union {m}) = Cardinality(F) + 1
    BY ONLY <2>1, FS_AddElement
  <2> QED BY <2>1, <2>2 DEF F, m
<1>11. /\ c.ok \in Nat /\ c.failed \in Nat
       /\ c.failed = Cardinality(Failures(c)) /\ c.ok + c.failed = n + 1
  <2>1. CASE code = 0
    <3>1. c.ok = run.ok + 1 /\ c.failed = run.failed /\ Failures(c) = Failures(run)
      BY <1>3, <1>8, <2>1
    <3> QED BY <1>6, <3>1
  <2>2. CASE code # 0
    <3>1. c.ok = run.ok /\ c.failed = run.failed + 1
          /\ Failures(c) = Failures(run) \union {n + 1}
      BY <1>3, <1>8, <2>2
    <3> QED BY <1>6, <1>10, <3>1
  <2> QED BY <2>1, <2>2
<1>12. /\ c.stopped = (StopsOnError(c) /\ Failures(c) # {})
       /\ StopsOnError(c) => Failures(c) \subseteq {n + 1}
  BY <1>3, <1>4, <1>5, <1>6, <1>8 DEF StopsAt
<1>13. CASE StopsAt(next, code)
  <2>1. c.entries = run.entries /\ c.stopped
    BY <1>3, <1>13
  <2> QED BY <1>3, <1>6, <1>7, <1>11, <1>12, <2>1 DEF CountsOK, c
<1>14. CASE ~StopsAt(next, code)
  <2>1. c.entries = Append(run.entries, entry) /\ ~c.stopped
    BY <1>3, <1>14
  <2>2. /\ IsSequence(c.entries) /\ Len(c.entries) = n + 1
        /\ \A i \in 1 .. n : c.entries[i] = run.entries[i]
        /\ c.entries[n + 1] = entry
    BY <1>6, <2>1, AppendFacts
  <2>3. \A i \in 1 .. n + 1 : c.entries[i].line = i /\ c.entries[i].exit = c.codes[i]
    BY <1>2, <1>6, <1>7, <2>2
  <2> QED BY <1>3, <1>6, <1>7, <1>11, <1>12, <2>1, <2>2, <2>3 DEF CountsOK, c
<1> QED BY <1>13, <1>14

\* The counts do not depend on which line is next, nor on what is returned.
LEMMA CountsOfTheSame ==
    ASSUME NEW run, NEW n, CountsOK(run, n), NEW other, DOMAIN other = RunFields,
           \A f \in RunFields \ {"total", "exit"} : other[f] = run[f]
    PROVE  CountsOK(other, n)
<1>1. /\ other.mode = run.mode /\ other.settings = run.settings
      /\ other.ok = run.ok /\ other.failed = run.failed /\ other.stopped = run.stopped
      /\ other.codes = run.codes /\ other.entries = run.entries
  BY DEF RunFields
<1>2. Failures(other) = Failures(run) /\ (StopsOnError(other) <=> StopsOnError(run))
  BY <1>1 DEF Failures, StopsOnError
<1> QED BY <1>1, <1>2 DEF CountsOK

\* Nothing is counted before the first line.
LEMMA NothingIsCounted ==
    ASSUME NEW mode, NEW s, NEW lines
    PROVE  LET run == Run(mode, s, lines) IN
           /\ CountsOK(run, 0) /\ run # NoRun
           /\ run.exit = Unended /\ run.total = 0 /\ Len(run.codes) = 0
<1> DEFINE run == Run(mode, s, lines)
<1>1. /\ DOMAIN run = RunFields /\ run.exit = Unended /\ run.total = 0
      /\ run.ok = 0 /\ run.failed = 0 /\ run.codes = <<>> /\ run.entries = <<>>
      /\ run.stopped = FALSE
  BY DEF Run, RunFields
<1>2. DOMAIN NoRun = {"mode"} /\ "total" \in RunFields
  BY DEF NoRun, RunFields
<1> HIDE DEF run
<1>3. IsSequence(<<>>) /\ Len(<<>>) = 0 /\ DOMAIN <<>> = {}
  BY EmptySeq DEF IsSequence
<1>4. Failures(run) = {}
  BY <1>1, <1>3 DEF Failures
<1>5. Cardinality({}) = 0
  BY FS_EmptySet
<1>6. CountsOK(run, 0)
  <2>1. IsSequence(run.codes) /\ Len(run.codes) = 0
        /\ IsSequence(run.entries) /\ Len(run.entries) = 0
    BY <1>1, <1>3
  <2>2. run.failed = Cardinality(Failures(run)) /\ run.ok + run.failed = 0
    BY <1>1, <1>4, <1>5
  <2>3. run.stopped = (StopsOnError(run) /\ Failures(run) # {}) /\ ~run.stopped
    BY <1>1, <1>4
  <2>4. 0 \in Nat /\ run.ok \in Nat /\ run.failed \in Nat
    BY <1>1
  <2>5. \A i \in 1 .. Len(run.entries) : FALSE
    BY <2>1
  <2> QED BY <1>1, <1>4, <2>1, <2>2, <2>3, <2>4, <2>5 DEF CountsOK
<1> QED BY <1>1, <1>2, <1>3, <1>6 DEF run

\* A process that is started is a process.
LEMMA Started ==
    ASSUME NEW mode, NEW words, StartMain(mode, words)
    PROVE  child' # NoProcess /\ "todo" \in DOMAIN child'
<1>1. \A id, m, s, plan, outputs, exit :
         LET process == Process(id, m, s, plan, outputs, exit) IN
         process # NoProcess /\ "todo" \in DOMAIN process
  BY DEF Process, NoProcess
<1>2. \A id, exit : Ended(id, exit) # NoProcess /\ "todo" \in DOMAIN Ended(id, exit)
  BY <1>1 DEF Ended
<1>3. ASSUME NEW id, NEW preset
      PROVE  \/ \E exit : Main(id, mode, words, preset) = Ended(id, exit)
             \/ \E s, plan, outputs, exit :
                   Main(id, mode, words, preset) = Process(id, mode, s, plan, outputs, exit)
  BY DEF Main
<1>4. \A id, preset : LET process == Main(id, mode, words, preset) IN
         process # NoProcess /\ "todo" \in DOMAIN process
  BY <1>1, <1>2, <1>3
<1> QED BY <1>2, <1>4 DEF StartMain

-----------------------------------------------------------------------------
\* The invariant holds initially, and the steps of processes, of batches and
\* sequences, and of the user keep it.
LEMMA RunInvInductive ==
    /\ CliInit => RunInv
    /\ RunInv /\ [CliNext]_cliVars => RunInv'
<1>1. CliInit => RunInv
  BY DEF CliInit, RunInv, RunOK, ChildOK
<1>2. RunInv /\ [CliNext]_cliVars => RunInv'
  <2> SUFFICES ASSUME RunInv, [CliNext]_cliVars
               PROVE  RunInv'
    OBVIOUS
  <2>1. UNCHANGED <<parent, child>> => RunInv'
    BY DEF RunInv, RunOK, ChildOK, EndCode
  <2>2. parent' = NoRun /\ ChildOK' => RunInv'
    BY DEF RunInv, RunOK
  <2>3. UNCHANGED child => ChildOK'
    BY DEF RunInv, ChildOK
  <2>4. CASE UNCHANGED cliVars
    BY <2>1, <2>4 DEF cliVars
  <2>5. CASE WriteStep
    <3>1. child # NoProcess /\ UNCHANGED parent
      BY <2>5 DEF WriteStep, WriteOutput, WriteNoPdf, OpenFails, WriteShort, Killed, Writing
    <3>2. \/ child' = [child EXCEPT !.todo = Tail(@)]
          \/ \E exit : child' = [child EXCEPT !.todo = <<>>, !.exit = exit]
      BY <2>5 DEF WriteStep, WriteOutput, WriteNoPdf, OpenFails, WriteShort, Killed,
                  Continue, EndWith
    <3>3. "todo" \in DOMAIN child /\ "todo" \notin DOMAIN NoProcess
      BY <3>1 DEF RunInv, ChildOK, NoProcess
    <3>4. DOMAIN child' = DOMAIN child
      BY <3>2
    <3> QED BY <3>1, <3>3, <3>4 DEF RunInv, RunOK, ChildOK, EndCode
  <2>6. CASE RunLine
    <3>1. /\ Running /\ ~parent.stopped
          /\ parent' = [parent EXCEPT !.total = @ + 1]
          /\ child' # NoProcess /\ "todo" \in DOMAIN child'
      BY <2>6, Started DEF RunLine, Ready
    <3>2. /\ parent # NoRun /\ parent.exit = Unended /\ child = NoProcess
          /\ CountsOK(parent, Len(parent.codes)) /\ parent.total = Len(parent.codes)
          /\ DOMAIN parent = RunFields
      BY <3>1 DEF Running, RunInv, RunOK, CountsOK
    <3>3. /\ DOMAIN parent' = RunFields /\ parent'.total = parent.total + 1
          /\ \A f \in RunFields \ {"total"} : parent'[f] = parent[f]
      BY <3>1, <3>2 DEF RunFields
    <3>4. CountsOK(parent', Len(parent.codes))
      BY <3>2, <3>3, CountsOfTheSame
    <3>5. parent'.codes = parent.codes /\ parent'.exit = Unended /\ ~parent'.stopped
      BY <3>1, <3>2, <3>3 DEF RunFields
    <3> QED BY <3>1, <3>2, <3>3, <3>4, <3>5 DEF RunInv, RunOK, ChildOK
  <2>7. CASE RunLineFails
    <3> DEFINE next == [parent EXCEPT !.total = @ + 1]
    <3>1. Running /\ ~parent.stopped /\ UNCHANGED child
      BY <2>7 DEF RunLineFails, Ready
    <3>2. PICK code : parent' = Counted(next, 0, code, <<>>)
      BY <2>7 DEF RunLineFails
    <3>3. /\ parent # NoRun /\ parent.exit = Unended /\ child = NoProcess
          /\ CountsOK(parent, Len(parent.codes)) /\ parent.total = Len(parent.codes)
          /\ DOMAIN parent = RunFields
      BY <3>1 DEF Running, RunInv, RunOK, CountsOK
    <3>4. /\ DOMAIN next = RunFields /\ next.total = Len(parent.codes) + 1
          /\ \A f \in RunFields \ {"total"} : next[f] = parent[f]
      BY <3>3 DEF RunFields
    <3> HIDE DEF next
    <3>5. CountsOK(parent', Len(parent.codes) + 1)
      BY <3>1, <3>2, <3>3, <3>4, CountsAreKept
    <3>6. parent'.total = next.total /\ parent'.exit = next.exit
      BY <3>2, <3>4, CountedFields
    <3>7. next.exit = parent.exit
      BY <3>4 DEF RunFields
    <3>8. Len(parent'.codes) = Len(parent.codes) + 1
      BY <3>5 DEF CountsOK
    <3> QED BY <2>3, <3>1, <3>3, <3>4, <3>5, <3>6, <3>7, <3>8 DEF RunInv, RunOK, Unended
  <2>8. CASE Wait
    <3>1. CASE parent = NoRun
      BY <2>2, <2>8, <3>1 DEF Wait, ChildOK
    <3>2. CASE parent # NoRun
      <4>1. /\ child # NoProcess /\ child' = NoProcess
            /\ parent' = Counted(parent, child.id, child.exit, child.outputs)
        BY <2>8, <3>2 DEF Wait
      <4>2. /\ CountsOK(parent, Len(parent.codes)) /\ parent.total = Len(parent.codes) + 1
            /\ DOMAIN parent = RunFields /\ parent.exit = Unended /\ ~parent.stopped
        BY <3>2, <4>1 DEF RunInv, RunOK, CountsOK
      <4>3. CountsOK(parent', Len(parent.codes) + 1)
        BY <4>1, <4>2, CountsAreKept
      <4>4. parent'.total = parent.total /\ parent'.exit = parent.exit
        BY <4>1, <4>2, CountedFields
      <4>5. Len(parent'.codes) = Len(parent.codes) + 1
        BY <4>3 DEF CountsOK
      <4> QED BY <4>1, <4>2, <4>3, <4>4, <4>5 DEF RunInv, RunOK, ChildOK, Unended
    <3> QED BY <3>1, <3>2
  <2>9. CASE EndRun \/ EndRunFails
    <3>1. PICK exit \in {1, EndCode} : parent' = [parent EXCEPT !.exit = exit]
      BY <2>9 DEF EndRun, EndRunFails, Finish
    <3>2. /\ Running /\ UNCHANGED child
          /\ parent.stopped \/ parent.total = Len(parent.lines)
      BY <2>9 DEF EndRun, EndRunFails, AllRun
    <3>3. /\ parent # NoRun /\ child = NoProcess
          /\ CountsOK(parent, Len(parent.codes)) /\ parent.total = Len(parent.codes)
          /\ DOMAIN parent = RunFields
      BY <3>2 DEF Running, RunInv, RunOK, CountsOK
    <3>4. /\ DOMAIN parent' = RunFields /\ parent'.exit = exit
          /\ \A f \in RunFields \ {"exit"} : parent'[f] = parent[f]
      BY <3>1, <3>3 DEF RunFields
    <3>5. CountsOK(parent', Len(parent.codes))
      BY <3>3, <3>4, CountsOfTheSame
    <3>6. /\ parent'.codes = parent.codes /\ parent'.total = parent.total
          /\ parent'.stopped = parent.stopped /\ parent'.lines = parent.lines
          /\ EndCode' = EndCode
      BY <3>4 DEF RunFields, EndCode
    <3> QED BY <2>3, <3>1, <3>2, <3>3, <3>4, <3>5, <3>6 DEF RunInv, RunOK
  <2>10. CASE Return
    BY <2>2, <2>3, <2>10 DEF Return
  <2>11. CASE Interrupt
    BY <2>2, <2>11 DEF Interrupt, ChildOK
  <2>12. CASE WatchStep
    BY <2>1, <2>12 DEF WatchStep, WatchTake, WatchPlan, WatchFails
  <2>13. CASE CallBatch \/ CallSequence
    <3>1. child = NoProcess /\ UNCHANGED child
      BY <2>13 DEF CallBatch, CallSequence, Calls, Quiet
    <3>2. parent' = NoRun \/ \E mode, s, lines : parent' = Run(mode, s, lines)
      BY <2>13 DEF CallBatch, CallSequence
    <3>3. CASE \E mode, s, lines : parent' = Run(mode, s, lines)
      <4>1. /\ CountsOK(parent', 0) /\ parent'.exit = Unended /\ parent'.total = 0
            /\ Len(parent'.codes) = 0
        BY <3>3, NothingIsCounted
      <4> QED BY <2>3, <3>1, <4>1 DEF RunInv, RunOK
    <3> QED BY <2>2, <2>3, <3>1, <3>2, <3>3
  <2>14. CASE CallMain
    <3>1. parent' = NoRun
      BY <2>14 DEF CallMain, Calls, Quiet
    <3>2. ChildOK'
      BY <2>14, Started DEF CallMain, ChildOK
    <3> QED BY <2>2, <3>1, <3>2
  <2>15. CASE CallWatch \/ Drop \/ TakeAway
    BY <2>1, <2>15 DEF CallWatch, Drop, TakeAway
  <2> QED
    BY <2>4, <2>5, <2>6, <2>7, <2>8, <2>9, <2>10, <2>11, <2>12, <2>13, <2>14, <2>15
    DEF CliNext, RunStep, UserStep
<1> QED BY <1>1, <1>2

\* In every state what is counted of a batch or a sequence is what its
\* processes returned.
THEOREM RunSafety == CliSpec => []RunInv
BY RunInvInductive, PTL DEF CliSpec

\* The totals, the entries and the return value of a batch or a sequence that
\* has ended agree with what its processes returned, for any number of lines
\* and whatever cannot be started, is killed or fails (RunBatchMode,
\* RunSequenceFile).
THEOREM ReportsAccount == CliSpec => []ReportAccounts
<1>1. RunInv => ReportAccounts
  <2> SUFFICES ASSUME RunInv, parent # NoRun, parent.exit # Unended
               PROVE  ReportAccounts
    BY DEF ReportAccounts
  <2> DEFINE n == Len(parent.codes)
             F == Failures(parent)
             stop == StopsOnError(parent)
  <2>1. /\ CountsOK(parent, n) /\ parent.total = n
        /\ parent.stopped \/ parent.total = Len(parent.lines)
        /\ parent.exit \in {1, EndCode}
    BY DEF RunInv, RunOK
  <2>2. /\ n \in Nat /\ parent.failed = Cardinality(F) /\ parent.ok + parent.failed = n
        /\ parent.failed \in Nat
        /\ parent.stopped <=> stop /\ F # {}
        /\ stop => F \subseteq {n}
        /\ Len(parent.entries) = IF parent.stopped THEN n - 1 ELSE n
        /\ \A i \in 1 .. Len(parent.entries) :
              parent.entries[i].line = i /\ parent.entries[i].exit = parent.codes[i]
        /\ IsSequence(parent.codes)
    BY <2>1 DEF CountsOK
  <2>3. F \subseteq 1 .. n /\ IsFiniteSet(1 .. n)
    <3>1. DOMAIN parent.codes = 1 .. n
      BY <2>2, AppendFacts
    <3> QED BY <2>2, <3>1, FS_Interval DEF Failures
  <2>4. F = {} <=> parent.failed = 0
    BY <2>2, <2>3, FS_Subset, FS_EmptySet
  <2>5. parent.exit = 0 => F = {}
    BY <2>1, <2>4 DEF EndCode
  <2>6. parent.exit = 5 => F # {}
    BY <2>1, <2>4 DEF EndCode
  <2>7. parent.total < Len(parent.lines) => stop /\ F # {}
    BY <2>1, <2>2
  <2>8. /\ F = {i \in DOMAIN parent.codes : parent.codes[i] # 0}
        /\ stop <=> parent.mode = "batch" /\ On(parent.settings, "--batch-stop-on-error")
    BY DEF Failures, StopsOnError
  <2>9. /\ parent.total = Len(parent.codes) /\ parent.failed = Cardinality(F)
        /\ parent.ok + parent.failed = parent.total
        /\ stop => F \subseteq {parent.total}
    BY <2>1, <2>2
  <2>10. IsSequence(parent.entries) /\ DOMAIN parent.entries = 1 .. Len(parent.entries)
    BY <2>1, AppendFacts DEF CountsOK
  <2>11. \A i \in DOMAIN parent.entries :
            parent.entries[i].line = i /\ parent.entries[i].exit = parent.codes[i]
    BY <2>2, <2>10
  <2>13. (1 .. parent.total) \ F \subseteq DOMAIN parent.entries
    BY <2>1, <2>2, <2>10
  <2>14. ~stop => Len(parent.entries) = parent.total
    BY <2>1, <2>2
  <2> HIDE DEF n, F, stop
  <2>12. /\ parent.total = Len(parent.codes)
         /\ parent.failed = Cardinality(F) /\ parent.ok + parent.failed = parent.total
         /\ stop => F \subseteq {parent.total}
         /\ parent.total < Len(parent.lines) => stop /\ F # {}
         /\ \A i \in DOMAIN parent.entries :
               parent.entries[i].line = i /\ parent.entries[i].exit = parent.codes[i]
         /\ (1 .. parent.total) \ F \subseteq DOMAIN parent.entries
         /\ ~stop => Len(parent.entries) = parent.total
         /\ parent.exit = 0 => F = {}
         /\ parent.exit = 5 => F # {}
    BY <2>5, <2>6, <2>7, <2>9, <2>11, <2>13, <2>14
  <2> QED BY ONLY <2>12, ZenonT(60) DEF ReportAccounts, StopsOnError, Failures, n, F, stop
<1> QED BY <1>1, RunSafety, PTL

-----------------------------------------------------------------------------
\* Files are of the processes there have been.
DiskOK ==
    /\ jobs \in Nat
    /\ \A file \in DOMAIN disk :
          /\ disk[file].job \in 0 .. jobs
          /\ file.option \in PlanOutputs => file = File(file.stem, file.option)

ProcessFields == {"id", "mode", "settings", "plan", "todo", "outputs", "exit"}

\* What the running process has written is still there.
Left(output) ==
    /\ output.path \in DOMAIN disk /\ disk[output.path].job = jobs
    /\ output.option = "--job-out"
          => disk[output.path].data = [gate |-> GateStatus(child.plan, child.settings)]

\* The running process writes the outputs of its settings one after the other.
WritesOK ==
    child # NoProcess =>
        /\ DOMAIN child = ProcessFields /\ child.id = jobs
        /\ child.outputs # <<>> =>
              /\ child.outputs = OutputsOf(child.mode, child.settings)
              /\ IsSet(child.settings, "--output-dir")
                    => \A option \in DefaultOutputs : IsSet(child.settings, option)
        /\ child.exit = 0 /\ child.mode \in PlanModes
           /\ On(child.settings, "--fail-on-quality-gate")
              => GateStatus(child.plan, child.settings) = "pass"
        /\ \/ child.todo = <<>> /\ child.exit # 0
           \/ \E n \in 0 .. Len(child.outputs) :
                 /\ child.todo = SubSeq(child.outputs, n + 1, Len(child.outputs))
                 /\ \A i \in 1 .. n : Left(child.outputs[i])

\* What OkJobsDeliver says of an entry, whose process is an earlier one than
\* that which runs.
EntryOK(entry) ==
    /\ entry.id \in 0 .. jobs /\ (child # NoProcess => entry.id < jobs)
    /\ entry.exit = 0 => \A output \in Range(entry.outputs) :
          /\ output.path \in DOMAIN disk /\ disk[output.path].job >= entry.id
          /\ output.option = "--job-out" =>
                /\ output.path.option = "--job-out"
                /\ disk[output.path].job = entry.id /\ entry.gated
                      => disk[output.path].data = [gate |-> "pass"]

\* While a folder is watched nothing else runs.
WatchOK ==
    /\ DOMAIN watch = {"on", "seen", "taken", "settings"}
    /\ watch.taken # {} => watch.on
    /\ watch.on => child = NoProcess /\ parent = NoRun

OutputInv ==
    /\ RunInv /\ WatchOK
    /\ DiskOK /\ WritesOK /\ NothingOlderThanReport
    /\ \A entry \in Entries : EntryOK(entry)

-----------------------------------------------------------------------------
\* A process writes, in the order of main, the outputs that are asked for.
LEMMA OutputsFacts ==
    ASSUME NEW mode, NEW s
    PROVE  LET outs == OutputsOf(mode, s) IN
           /\ IsSequence(outs)
           /\ \A k \in 1 .. Len(outs) :
                 /\ outs[k].option \in Range(OutputOrder)
                 /\ outs[k].path = Setting(s, outs[k].option)
                 /\ WrittenIn(mode, outs[k].option) /\ IsSet(s, outs[k].option)
                 /\ outs[k].option = "--job-out" => k = Len(outs)
           /\ \A option \in Range(OutputOrder) :
                 WrittenIn(mode, option) /\ IsSet(s, option)
                    => \E k \in 1 .. Len(outs) : outs[k].option = option
<1> DEFINE P == {i \in DOMAIN OutputOrder :
                    WrittenIn(mode, OutputOrder[i]) /\ IsSet(s, OutputOrder[i])}
           c == Cardinality(P)
           g == [k \in 1 .. c |-> Nth(P, k)]
           out(k) == [option |-> OutputOrder[Nth(P, k)],
                      path |-> Setting(s, OutputOrder[Nth(P, k)])]
           outs == OutputsOf(mode, s)
<1>1. DOMAIN OutputOrder = 1 .. 11 /\ OutputOrder[11] = "--job-out"
      /\ \A i \in 1 .. 10 : OutputOrder[i] # "--job-out"
  BY DEF OutputOrder
<1>2. P \in SUBSET (1 .. 11) /\ IsFiniteSet(P)
  <2>1. P \in SUBSET (1 .. 11)
    BY <1>1
  <2>2. IsFiniteSet(1 .. 11)
    <3>1. \A a, b \in Int : IsFiniteSet(a .. b)
      BY FS_Interval
    <3>2. 1 \in Int /\ 11 \in Int
      OBVIOUS
    <3> QED BY <3>1, <3>2, Zenon
  <2> HIDE DEF P
  <2> QED BY <2>1, <2>2, FS_Subset
<1>3. outs = [k \in 1 .. c |-> out(k)]
  BY DEF OutputsOf
<1>4. /\ c \in Nat /\ g \in Bijection(1 .. c, P)
      /\ \A k \in 1 .. c : Cardinality({j \in P : j <= Nth(P, k)}) = k
  <2>1. P \in SUBSET Nat
    BY <1>2
  <2> HIDE DEF P
  <2> QED BY <1>2, <2>1, NthFacts DEF c, g
<1>5. /\ \A k \in 1 .. c : Nth(P, k) \in P
      /\ \A i \in P : \E k \in 1 .. c : Nth(P, k) = i
  <2> HIDE DEF P, c
  <2> QED BY <1>4 DEF g, Bijection, Injection, Surjection
<1>6. \A k \in 1 .. c : Nth(P, k) = 11 => k = c
  <2> SUFFICES ASSUME NEW k \in 1 .. c, Nth(P, k) = 11 PROVE k = c
    OBVIOUS
  <2>1. {j \in P : j <= 11} = P
    BY <1>2
  <2> HIDE DEF P, c
  <2> QED BY <1>4, <2>1 DEF c
<1>7. \A k \in 1 .. c : Nth(P, k) \in 1 .. 11
                        /\ WrittenIn(mode, OutputOrder[Nth(P, k)]) /\ IsSet(s, OutputOrder[Nth(P, k)])
  BY <1>1, <1>5
<1>8. \A i \in 1 .. 11 : WrittenIn(mode, OutputOrder[i]) /\ IsSet(s, OutputOrder[i]) => i \in P
  BY <1>1
<1>9. Range(OutputOrder) = {OutputOrder[i] : i \in 1 .. 11}
  BY <1>1 DEF Range
<1> HIDE DEF P, c
<1>10. IsSequence(outs) /\ Len(outs) = c
  <2>1. outs \in [1 .. c -> Range(outs)]
    BY <1>3 DEF Range
  <2> QED BY <1>4, <2>1, SeqDef, LenProperties DEF IsSequence
<1>11. \A k \in 1 .. c : /\ outs[k].option = OutputOrder[Nth(P, k)]
                         /\ outs[k].path = Setting(s, OutputOrder[Nth(P, k)])
  BY <1>3
<1> HIDE DEF outs
<1>12. \A k \in 1 .. c :
          /\ outs[k].option \in Range(OutputOrder)
          /\ outs[k].path = Setting(s, outs[k].option)
          /\ WrittenIn(mode, outs[k].option) /\ IsSet(s, outs[k].option)
          /\ outs[k].option = "--job-out" => k = c
  BY <1>1, <1>6, <1>7, <1>9, <1>11
<1>13. \A option \in Range(OutputOrder) :
          WrittenIn(mode, option) /\ IsSet(s, option) => \E k \in 1 .. c : outs[k].option = option
  BY <1>5, <1>8, <1>9, <1>11
<1> QED BY <1>10, <1>12, <1>13 DEF outs

\* What is still to be written is the end of what there was.
LEMMA RestFacts ==
    ASSUME NEW s, IsSequence(s), NEW n \in 0 .. Len(s)
    PROVE  LET rest == SubSeq(s, n + 1, Len(s)) IN
           /\ rest # <<>> <=> n < Len(s)
           /\ n < Len(s) => Head(rest) = s[n + 1] /\ Tail(rest) = SubSeq(s, n + 2, Len(s))
           /\ SubSeq(s, 1, Len(s)) = s /\ Len(s) \in Nat
<1>1. s \in Seq(Range(s)) /\ Len(s) \in Nat
  BY LenProperties DEF IsSequence
<1>2. SubSeq(s, 1, Len(s)) = s
  BY <1>1, SubSeqFull
<1>3. n = Len(s) => SubSeq(s, n + 1, Len(s)) = <<>>
  BY <1>1, SubSeqEmpty
<1>4. n < Len(s) => Head(SubSeq(s, n + 1, Len(s))) = s[n + 1]
                    /\ Tail(SubSeq(s, n + 1, Len(s))) = SubSeq(s, n + 2, Len(s))
  <2> SUFFICES ASSUME n < Len(s)
               PROVE  /\ Head(SubSeq(s, n + 1, Len(s))) = s[n + 1]
                      /\ Tail(SubSeq(s, n + 1, Len(s))) = SubSeq(s, n + 2, Len(s))
    OBVIOUS
  <2>1. n + 1 \in 1 .. Len(s) /\ Len(s) \in n + 1 .. Len(s) /\ (n + 1) + 1 = n + 2
    BY <1>1
  <2> QED BY <1>1, <2>1, HeadTailOfSubSeq
<1>5. n < Len(s) => SubSeq(s, n + 1, Len(s)) # <<>>
  <2> SUFFICES ASSUME n < Len(s) PROVE SubSeq(s, n + 1, Len(s)) # <<>>
    OBVIOUS
  <2> DEFINE rest == SubSeq(s, n + 1, Len(s))
  <2>1. \A i \in n + 1 .. Len(s) : s[i] \in Range(s)
    BY <1>1 DEF Range
  <2>2. Len(rest) = Len(s) - (n + 1) + 1
    BY <1>1, <2>1, SubSeqProperties
  <2> HIDE DEF rest
  <2>3. rest # <<>>
    BY <1>1, <2>2
  <2> QED BY <2>3 DEF rest
<1>6. n < Len(s) \/ n = Len(s)
  BY <1>1
<1> DEFINE rest == SubSeq(s, n + 1, Len(s))
<1>7. rest # <<>> <=> n < Len(s)
  BY <1>1, <1>3, <1>5, <1>6
<1> QED BY <1>1, <1>2, <1>4, <1>7

-----------------------------------------------------------------------------
\* With an output directory all outputs main knows are set.
LEMMA ScaffoldedFacts ==
    ASSUME NEW mode, NEW s, IsSet(Scaffolded(mode, s), "--output-dir"),
           NEW option \in DefaultOutputs
    PROVE  IsSet(Scaffolded(mode, s), option)
<1> DEFINE t == Scaffolded(mode, s)
<1>1. CASE ~IsSet(s, "--output-dir")
  BY <1>1 DEF Scaffolded
<1>2. CASE IsSet(s, "--output-dir")
  <2>1. option \in DOMAIN t
        /\ t[option] = IF ~IsSet(s, option) THEN File(StemOf(mode, s), option)
                       ELSE Setting(s, option)
    BY <1>2 DEF Scaffolded
  <2>2. File(StemOf(mode, s), option) # Empty
    BY DEF File, Empty, Text
  <2> HIDE DEF t
  <2>3. IsSet(t, option)
    BY <2>1, <2>2 DEF IsSet, Setting
  <2> QED BY <2>3 DEF t
<1> QED BY <1>1, <1>2

\* Reading the sequences leaves the other settings alone.
LEMMA SequencedFacts ==
    ASSUME NEW mode, NEW s, NEW option, option \notin {"explicit", "manual"}
    PROVE  Setting(Sequenced(mode, s), option) = Setting(s, option)
<1> DEFINE read == (IF mode \in InsertModes \/ IsSet(s, "--page-sequence") THEN {"explicit"} ELSE {})
                   \union (IF mode = "manual" /\ IsSet(s, "--manual-sequence")
                           THEN {"manual"} ELSE {})
           t == Sequenced(mode, s)
<1>1. read \subseteq {"explicit", "manual"}
  OBVIOUS
<1>2. DOMAIN t = DOMAIN s \union read /\ \A key \in DOMAIN s \ read : t[key] = s[key]
  BY DEF Sequenced
<1> HIDE DEF read, t
<1>3. Setting(t, option) = Setting(s, option)
  BY <1>1, <1>2 DEF Setting
<1> QED BY <1>3 DEF t

\* A process as main starts it.
StartedOK(process, id) ==
    /\ DOMAIN process = ProcessFields /\ process.id = id /\ process.todo = process.outputs
    /\ process.outputs = <<>> \/
          /\ process.outputs = OutputsOf(process.mode, process.settings)
          /\ IsSet(process.settings, "--output-dir")
                => \A option \in DefaultOutputs : IsSet(process.settings, option)
    /\ process.exit = 0 /\ process.mode \in PlanModes
       /\ On(process.settings, "--fail-on-quality-gate")
          => GateStatus(process.plan, process.settings) = "pass"

\* The fields of a process.
LEMMA ProcessFacts ==
    ASSUME NEW id, NEW mode, NEW s, NEW plan, NEW outputs, NEW exit
    PROVE  LET process == Process(id, mode, s, plan, outputs, exit) IN
           /\ DOMAIN process = ProcessFields
           /\ process.id = id /\ process.mode = mode /\ process.settings = s
           /\ process.plan = plan /\ process.todo = outputs /\ process.outputs = outputs
           /\ process.exit = exit
BY DEF Process, ProcessFields

\* A process that ends at once is started as it should be.
LEMMA EndedOK ==
    ASSUME NEW id, NEW exit
    PROVE  StartedOK(Ended(id, exit), id)
<1> DEFINE plan == PlanOf(Size(0, 0), 0, {})
           process == Process(id, "none", <<>>, plan, <<>>, exit)
<1>1. /\ DOMAIN process = ProcessFields /\ process.id = id /\ process.mode = "none"
      /\ process.todo = <<>> /\ process.outputs = <<>>
  BY ProcessFacts
<1>2. Ended(id, exit) = process
  BY DEF Ended
<1>3. "none" \notin PlanModes
  BY DEF PlanModes, InsertModes, StickModes
<1> HIDE DEF process
<1> QED BY <1>1, <1>2, <1>3 DEF StartedOK

\* So is one that plans (main).
LEMMA MainOK ==
    ASSUME NEW id, NEW mode, NEW words, NEW preset
    PROVE  StartedOK(Main(id, mode, words, preset), id)
<1> DEFINE s == Scaffolded(mode, Settings(Arguments(mode, words), preset))
           known == Sequenced(mode, s)
           plan == PlanFor(mode, known)
           early == Process(id, mode, s, PlanOf(SheetOf(s), 0, {}), OutputsOf(mode, s), 0)
           planned == Process(id, mode, known, plan, OutputsOf(mode, known), ExitCode(plan, known))
           main == Main(id, mode, words, preset)
<1>1. \/ main = Ended(id, 1) \/ main = Ended(id, 0)
      \/ mode \in EarlyModes /\ main = early
      \/ main = planned
  BY DEF Main
<1>2. IsSet(s, "--output-dir") => \A option \in DefaultOutputs : IsSet(s, option)
  BY ScaffoldedFacts
<1>3. \A option \in DefaultOutputs \union {"--output-dir"} :
         Setting(known, option) = Setting(s, option)
  <2>1. \A option \in DefaultOutputs \union {"--output-dir"} : option \notin {"explicit", "manual"}
    BY DEF DefaultOutputs
  <2> HIDE DEF s
  <2> QED BY <2>1, SequencedFacts DEF known
<1>4. IsSet(known, "--output-dir") => \A option \in DefaultOutputs : IsSet(known, option)
  <2> HIDE DEF s, known
  <2> QED BY <1>2, <1>3 DEF IsSet
<1>5. ExitCode(plan, known) = 0 /\ On(known, "--fail-on-quality-gate")
         => GateStatus(plan, known) = "pass"
  <2> HIDE DEF plan, known
  <2>1. GateStatus(plan, known) \in {"pass", "fail"}
    BY DEF GateStatus
  <2> QED BY <2>1 DEF ExitCode
<1>6. mode \in EarlyModes => mode \notin PlanModes
  BY DEF EarlyModes, PlanModes, InsertModes, StickModes
<1>7. mode \in EarlyModes => StartedOK(early, id)
  <2>1. /\ DOMAIN early = ProcessFields /\ early.id = id /\ early.mode = mode
        /\ early.settings = s /\ early.todo = OutputsOf(mode, s)
        /\ early.outputs = OutputsOf(mode, s)
    BY ProcessFacts
  <2> HIDE DEF early, s
  <2> QED BY <1>2, <1>6, <2>1 DEF StartedOK
<1>8. StartedOK(planned, id)
  <2>1. /\ DOMAIN planned = ProcessFields /\ planned.id = id /\ planned.mode = mode
        /\ planned.settings = known /\ planned.plan = plan /\ planned.todo = OutputsOf(mode, known)
        /\ planned.outputs = OutputsOf(mode, known) /\ planned.exit = ExitCode(plan, known)
    BY ProcessFacts
  <2> HIDE DEF planned, known, plan
  <2> QED BY <1>4, <1>5, <2>1 DEF StartedOK
<1> HIDE DEF early, planned, main
<1>9. StartedOK(main, id)
  BY <1>1, <1>7, <1>8, EndedOK
<1> QED BY <1>9 DEF main

\* A process that has been started has written nothing.
LEMMA StartedWrites ==
    ASSUME NEW mode, NEW words, jobs \in Nat, StartMain(mode, words)
    PROVE  WritesOK' /\ jobs' = jobs + 1
<1>1. jobs' = jobs + 1 /\ StartedOK(child', jobs + 1)
  BY EndedOK, MainOK DEF StartMain
<1>2. IsSequence(<<>>) /\ Len(<<>>) = 0
  BY EmptySeq DEF IsSequence
<1> DEFINE outs == child'.outputs
<1>3. IsSequence(outs)
  BY <1>1, <1>2, OutputsFacts DEF StartedOK
<1>4. child'.todo = SubSeq(outs, 1, Len(outs)) /\ Len(outs) \in Nat
  <2>1. Len(outs) \in Nat
    BY <1>3, LenProperties DEF IsSequence
  <2>2. 0 \in 0 .. Len(outs)
    BY <2>1
  <2>3. SubSeq(outs, 1, Len(outs)) = outs
    BY <1>3, <2>2, RestFacts
  <2> QED BY <1>1, <2>1, <2>3 DEF StartedOK
<1>5. (\E n \in 0 .. Len(child.outputs) :
          /\ child.todo = SubSeq(child.outputs, n + 1, Len(child.outputs))
          /\ \A i \in 1 .. n : Left(child.outputs[i]))'
  <2>1. 0 \in 0 .. Len(child'.outputs) /\ 0 + 1 = 1
    BY <1>4
  <2>2. (\A i \in 1 .. 0 : Left(child.outputs[i]))'
    OBVIOUS
  <2> QED BY <1>4, <2>1, <2>2
<1>6. /\ DOMAIN child' = ProcessFields /\ child'.id = jobs'
      /\ child'.outputs # <<>> =>
            /\ child'.outputs = OutputsOf(child'.mode, child'.settings)
            /\ IsSet(child'.settings, "--output-dir")
                  => \A option \in DefaultOutputs : IsSet(child'.settings, option)
      /\ child'.exit = 0 /\ child'.mode \in PlanModes
         /\ On(child'.settings, "--fail-on-quality-gate")
            => GateStatus(child'.plan, child'.settings) = "pass"
  BY <1>1 DEF StartedOK
<1> QED BY <1>1, <1>5, <1>6 DEF WritesOK

-----------------------------------------------------------------------------
\* The next output of the running process, the n + 1st of its outputs.
NextIs(n) ==
    /\ n \in 0 .. Len(child.outputs) /\ n < Len(child.outputs)
    /\ Output = child.outputs[n + 1]
    /\ Tail(child.todo) = SubSeq(child.outputs, n + 2, Len(child.outputs))
    /\ \A i \in 1 .. n : Left(child.outputs[i])

\* What a process is at while it writes.
LEMMA NextFacts ==
    ASSUME OutputInv, Writing
    PROVE  /\ DOMAIN child = ProcessFields /\ child.id = jobs /\ jobs \in Nat
           /\ IsSequence(child.outputs) /\ Len(child.outputs) \in Nat
           /\ child.outputs = OutputsOf(child.mode, child.settings)
           /\ IsSet(child.settings, "--output-dir")
                 => \A option \in DefaultOutputs : IsSet(child.settings, option)
           /\ \E n \in Nat : NextIs(n)
<1> DEFINE outs == child.outputs
<1>1. child # NoProcess /\ child.todo # <<>>
  BY DEF Writing
<1>2. /\ DOMAIN child = ProcessFields /\ child.id = jobs /\ jobs \in Nat
      /\ outs # <<>> =>
            /\ outs = OutputsOf(child.mode, child.settings)
            /\ IsSet(child.settings, "--output-dir")
                  => \A option \in DefaultOutputs : IsSet(child.settings, option)
  BY <1>1 DEF OutputInv, WritesOK, DiskOK
<1>3. PICK n \in 0 .. Len(outs) :
         child.todo = SubSeq(outs, n + 1, Len(outs)) /\ \A i \in 1 .. n : Left(outs[i])
  BY <1>1 DEF OutputInv, WritesOK
<1>4. IsSequence(outs)
  <2>1. IsSequence(<<>>)
    BY EmptySeq DEF IsSequence
  <2>2. IsSequence(OutputsOf(child.mode, child.settings))
    BY OutputsFacts
  <2> HIDE DEF outs
  <2> QED BY <1>2, <2>1, <2>2
<1> HIDE DEF outs
<1>5. /\ n < Len(outs) /\ Head(child.todo) = outs[n + 1]
      /\ Tail(child.todo) = SubSeq(outs, n + 2, Len(outs)) /\ Len(outs) \in Nat
  BY <1>1, <1>3, <1>4, RestFacts
<1>6. outs # <<>>
  BY <1>3, <1>5
<1>7. NextIs(n) /\ n \in Nat
  BY <1>3, <1>5 DEF NextIs, Output, outs
<1> QED BY <1>2, <1>4, <1>5, <1>6, <1>7 DEF outs

\* Where the next output goes.
LEMMA NextPath ==
    ASSUME OutputInv, OutputsTogether, Writing
    PROVE  /\ Output.path.option # "report"
           /\ Output.path.option \in PlanOutputs =>
                 /\ Output.path = File(Output.path.stem, Output.option)
                 /\ Output.path.option = Output.option
           /\ Output.option = "--job-out" =>
                 /\ Output.path.option = "--job-out"
                 /\ DataOf(Output.option) = [gate |-> GateStatus(child.plan, child.settings)]
           /\ \A n \in Nat : NextIs(n) /\ Output.option = "--job-out" => n + 1 = Len(child.outputs)
<1> DEFINE outs == child.outputs
           path(option) == Setting(child.settings, option)
           given(option) == IsSet(child.settings, option)
<1>1. PICK n \in Nat : NextIs(n)
  BY NextFacts
<1>2. outs = OutputsOf(child.mode, child.settings) /\ Len(outs) \in Nat
  BY NextFacts
<1>3. \A k \in 1 .. Len(outs) :
         /\ outs[k].option \in Range(OutputOrder)
         /\ outs[k].path = path(outs[k].option) /\ given(outs[k].option)
         /\ outs[k].option = "--job-out" => k = Len(outs)
  <2> HIDE DEF outs
  <2> QED BY <1>2, OutputsFacts
<1>4. /\ \A option \in PlanOutputs : given(option) => path(option) = File(path(option).stem, option)
      /\ \A option \in {"--module-out", "--save-preset"} :
            given(option) => path(option).option \notin PlanOutputs \union {"report"}
  BY DEF OutputsTogether, Writing
<1>5. /\ Range(OutputOrder) = PlanOutputs \union {"--module-out", "--save-preset"}
      /\ "--job-out" \in PlanOutputs /\ "report" \notin PlanOutputs
  <2>1. Range(OutputOrder) = {OutputOrder[i] : i \in 1 .. 11}
    BY DEF Range, OutputOrder
  <2> QED BY <2>1 DEF OutputOrder, PlanOutputs, DefaultOutputs
<1>6. \A m \in Nat : NextIs(m) => m + 1 \in 1 .. Len(outs) /\ Output = outs[m + 1]
  BY <1>2 DEF NextIs
<1> HIDE DEF outs
<1>7. Output.option \in Range(OutputOrder) /\ Output.path = path(Output.option) /\ given(Output.option)
  BY <1>1, <1>3, <1>6
<1>8. \A stem, option : File(stem, option).option = option
  BY DEF File
<1> HIDE DEF path, given
<1>9. /\ Output.option \in PlanOutputs =>
            Output.path = File(Output.path.stem, Output.option) /\ Output.path.option = Output.option
      /\ Output.option \notin PlanOutputs => Output.path.option \notin PlanOutputs \union {"report"}
  BY <1>4, <1>5, <1>7, <1>8
<1>10. Output.option = "--job-out"
         => DataOf(Output.option) = [gate |-> GateStatus(child.plan, child.settings)]
  BY DEF DataOf
<1>11. \A m \in Nat : NextIs(m) /\ Output.option = "--job-out" => m + 1 = Len(child.outputs)
  BY <1>3, <1>6 DEF outs
<1> QED BY <1>5, <1>9, <1>10, <1>11

\* The files a report is about have been written before it.
LEMMA DescribedFirst ==
    ASSUME OutputInv, OutputsTogether, Writing, Output.option = "--job-out",
           NEW file \in DOMAIN disk, file.option \in Described, file.stem = Output.path.stem
    PROVE  disk[file].job = jobs
<1> DEFINE outs == child.outputs
           path(option) == Setting(child.settings, option)
           given(option) == IsSet(child.settings, option)
<1>1. PICK n \in Nat : NextIs(n)
  BY NextFacts
<1>2. outs = OutputsOf(child.mode, child.settings) /\ Len(outs) \in Nat
  BY NextFacts
<1>3. n + 1 = Len(outs) /\ Output = outs[n + 1] /\ \A i \in 1 .. n : Left(outs[i])
  BY <1>1, NextPath DEF NextIs
<1>4. /\ \A k \in 1 .. Len(outs) : outs[k].path = path(outs[k].option)
      /\ \A option \in Range(OutputOrder) : WrittenIn(child.mode, option) /\ given(option)
            => \E k \in 1 .. Len(outs) : outs[k].option = option
      /\ outs[Len(outs)].option = "--job-out"
            => WrittenIn(child.mode, "--job-out") /\ given("--job-out")
               /\ outs[Len(outs)].path = path("--job-out")
  <2>1. Len(outs) \in 1 .. Len(outs)
    BY <1>2, <1>3
  <2> HIDE DEF outs
  <2> QED BY <1>2, <2>1, OutputsFacts
<1>5. given("--job-out") /\ path("--job-out") = Output.path /\ WrittenIn(child.mode, "--job-out")
  BY <1>3, <1>4
<1>6. /\ given("--output-dir")
      /\ \A option \in PlanOutputs : given(option) =>
            path(option).stem = path("--job-out").stem /\ path(option) = File(path(option).stem, option)
  BY <1>5 DEF OutputsTogether, Writing
<1> DEFINE option == file.option
<1>7. option \in PlanOutputs /\ option \in Range(OutputOrder) /\ option # "--job-out"
      /\ option \in DefaultOutputs
  <2>1. Range(OutputOrder) = {OutputOrder[i] : i \in 1 .. 11}
    BY DEF Range, OutputOrder
  <2> QED BY <2>1 DEF OutputOrder, Described, PlanOutputs, DefaultOutputs
<1>8. given(option)
  BY <1>6, <1>7, NextFacts
<1>9. WrittenIn(child.mode, option)
  BY <1>5, <1>7 DEF WrittenIn, PlanOutputs
<1>10. PICK k \in 1 .. Len(outs) : outs[k].option = option
  BY <1>4, <1>7, <1>8, <1>9
<1>11. k \in 1 .. n
  BY <1>2, <1>3, <1>7, <1>10
<1>12. disk[outs[k].path].job = jobs
  BY <1>3, <1>11 DEF Left
<1>13. outs[k].path = path(option)
  BY <1>4, <1>10
<1>14. path(option) = File(file.stem, option)
  BY <1>5, <1>6, <1>7, <1>8
<1>15. file = File(file.stem, file.option)
  BY <1>7 DEF OutputInv, DiskOK
<1> QED BY <1>12, <1>13, <1>14, <1>15

-----------------------------------------------------------------------------
\* The reports on the disk.
Reported ==
    UNION {Range(disk[file].data.entries) : file \in {f \in DOMAIN disk : f.option = "report"}}

EntriesOf(run) == IF run = NoRun THEN {} ELSE Range(run.entries)

\* The entries there are, in reports and of the running batch.
LEMMA EntriesFacts == Entries = Reported \union EntriesOf(parent)
BY DEF Entries, Reported, EntriesOf

\* What EntryOK says of the files of an entry.
FilesOK(entry) ==
    entry.exit = 0 => \A output \in Range(entry.outputs) :
        /\ output.path \in DOMAIN disk /\ disk[output.path].job >= entry.id
        /\ output.option = "--job-out" =>
              /\ output.path.option = "--job-out"
              /\ disk[output.path].job = entry.id /\ entry.gated
                    => disk[output.path].data = [gate |-> "pass"]

\* The fields of an entry.
LEMMA EntryParts ==
    ASSUME NEW entry
    PROVE  EntryOK(entry) <=>
              /\ entry.id \in 0 .. jobs /\ (child # NoProcess => entry.id < jobs)
              /\ FilesOK(entry)
BY DEF EntryOK, FilesOK

\* A file that is no job report may be written, over whatever there is, if no
\* job report is left with older files; a job report by a process that is in no
\* entry yet.
LEMMA WriteKeepsFiles ==
    ASSUME DiskOK, NothingOlderThanReport, NEW path, NEW whole, NEW data,
           Write(path, Content(jobs, whole, data)), jobs' = jobs,
           path.option \in PlanOutputs => path = File(path.stem, path.option),
           path.option = "--job-out" => \A file \in DOMAIN disk :
               file.option \in Described /\ file.stem = path.stem => disk[file].job = jobs
    PROVE  /\ DiskOK' /\ NothingOlderThanReport'
           /\ path.option # "report" => Reported' = Reported
           /\ \A entry : FilesOK(entry) /\ entry.id \in 0 .. jobs
                         /\ (path.option = "--job-out" => entry.id < jobs) => FilesOK(entry)'
<1>1. /\ DOMAIN disk' = DOMAIN disk \union {path}
      /\ disk'[path].job = jobs
      /\ \A file \in DOMAIN disk : file # path => disk'[file] = disk[file]
  BY DEF Write, Content
<1>2. jobs \in Nat /\ \A file \in DOMAIN disk : disk[file].job \in 0 .. jobs
  BY DEF DiskOK
<1>3. DiskOK'
  BY <1>1, <1>2 DEF DiskOK
<1>4. NothingOlderThanReport'
  <2> SUFFICES ASSUME NEW report \in DOMAIN disk', NEW other \in DOMAIN disk',
                      report.option = "--job-out", other.stem = report.stem,
                      other.option \in PlanOutputs
               PROVE  disk'[other].job >= disk'[report].job
    BY DEF NothingOlderThanReport
  <2>1. disk'[report].job \in 0 .. jobs
    BY <1>1, <1>2
  <2>2. CASE other = path
    BY <1>1, <1>2, <2>1, <2>2
  <2>3. CASE other # path /\ report # path
    BY <1>1, <2>3 DEF NothingOlderThanReport
  <2>4. CASE other # path /\ report = path
    <3>1. other.option # "--job-out"
      <4>1. other = File(other.stem, other.option)
        BY <1>1, <2>4 DEF DiskOK
      <4>2. path = File(path.stem, path.option)
        BY <2>4 DEF Described, PlanOutputs, DefaultOutputs
      <4> QED BY <2>4, <4>1, <4>2
    <3>2. disk[other].job = jobs
      BY <1>1, <2>4, <3>1 DEF Described
    <3> QED BY <1>1, <1>2, <2>4, <3>2
  <2> QED BY <2>2, <2>3, <2>4
<1>5. path.option # "report" => Reported' = Reported
  <2> SUFFICES ASSUME path.option # "report" PROVE Reported' = Reported
    OBVIOUS
  <2>1. {f \in DOMAIN disk' : f.option = "report"} = {f \in DOMAIN disk : f.option = "report"}
    BY <1>1
  <2>2. \A f \in DOMAIN disk : f.option = "report" => disk'[f] = disk[f]
    BY <1>1
  <2>3. {Range(disk'[file].data.entries) : file \in {f \in DOMAIN disk' : f.option = "report"}}
        = {Range(disk[file].data.entries) : file \in {f \in DOMAIN disk : f.option = "report"}}
    BY <2>1, <2>2
  <2> QED BY <2>3 DEF Reported
<1>6. ASSUME NEW entry, FilesOK(entry), entry.id \in 0 .. jobs,
             path.option = "--job-out" => entry.id < jobs
      PROVE  FilesOK(entry)'
  <2> SUFFICES ASSUME entry.exit = 0, NEW output \in Range(entry.outputs)
               PROVE  /\ output.path \in DOMAIN disk' /\ disk'[output.path].job >= entry.id
                      /\ output.option = "--job-out" =>
                            /\ output.path.option = "--job-out"
                            /\ disk'[output.path].job = entry.id /\ entry.gated
                                  => disk'[output.path].data = [gate |-> "pass"]
    BY DEF FilesOK
  <2>1. /\ output.path \in DOMAIN disk /\ disk[output.path].job >= entry.id
        /\ output.option = "--job-out" =>
              /\ output.path.option = "--job-out"
              /\ disk[output.path].job = entry.id /\ entry.gated
                    => disk[output.path].data = [gate |-> "pass"]
    BY <1>6 DEF FilesOK
  <2>2. CASE output.path # path
    BY <1>1, <2>1, <2>2
  <2>3. CASE output.path = path
    <3>1. disk'[output.path].job >= entry.id
      BY <1>1, <1>2, <1>6, <2>3
    <3>2. output.option = "--job-out" => disk'[output.path].job # entry.id
      BY <1>1, <1>2, <1>6, <2>1, <2>3
    <3> QED BY <1>1, <2>1, <2>3, <3>1, <3>2
  <2> QED BY <2>2, <2>3
<1> QED BY <1>3, <1>4, <1>5, <1>6

\* The same of a process that writes its next output.
LEMMA LeaveKeepsFiles ==
    ASSUME OutputInv, OutputsTogether, Writing, NEW whole, Leave(whole), jobs' = jobs
    PROVE  /\ DiskOK' /\ NothingOlderThanReport' /\ Reported' = Reported
           /\ \A entry \in Entries : FilesOK(entry)'
           /\ \A n \in Nat : NextIs(n) =>
                 \A i \in 1 .. n + 1 :
                    LET output == child.outputs[i] IN
                    /\ output.path \in DOMAIN disk' /\ disk'[output.path].job = jobs
                    /\ output.option = "--job-out"
                          => disk'[output.path].data = [gate |-> GateStatus(child.plan, child.settings)]
<1> DEFINE path == Output.path
           data == DataOf(Output.option)
           content == Content(jobs, whole, data)
<1>1. child.id = jobs /\ child # NoProcess /\ jobs \in Nat
  BY NextFacts DEF Writing
<1>2. Write(path, content)
  BY <1>1 DEF Leave
<1>3. /\ path.option # "report"
      /\ path.option \in PlanOutputs => path = File(path.stem, path.option)
      /\ path.option = "--job-out" => Output.option = "--job-out"
  <2>1. "--job-out" \in PlanOutputs
    BY DEF PlanOutputs, DefaultOutputs
  <2> QED BY <2>1, NextPath
<1>4. path.option = "--job-out" => \A file \in DOMAIN disk :
         file.option \in Described /\ file.stem = path.stem => disk[file].job = jobs
  BY <1>3, DescribedFirst
<1>5. DiskOK /\ NothingOlderThanReport
  BY DEF OutputInv
<1>6. \A entry \in Entries : FilesOK(entry) /\ entry.id \in 0 .. jobs /\ entry.id < jobs
  BY <1>1, EntryParts DEF OutputInv
<1>7. /\ DOMAIN disk' = DOMAIN disk \union {path}
      /\ disk'[path].job = jobs /\ disk'[path].data = data
      /\ \A file \in DOMAIN disk : file # path => disk'[file] = disk[file]
  BY <1>2 DEF Write, Content
<1>8. ASSUME NEW n \in Nat, NextIs(n), NEW i \in 1 .. n + 1
      PROVE  LET output == child.outputs[i] IN
             /\ output.path \in DOMAIN disk' /\ disk'[output.path].job = jobs
             /\ output.option = "--job-out"
                   => disk'[output.path].data = [gate |-> GateStatus(child.plan, child.settings)]
  <2> DEFINE output == child.outputs[i]
  <2>1. CASE i = n + 1
    <3>1. output = Output
      BY <1>8, <2>1 DEF NextIs
    <3>2. output.option = "--job-out" => data = [gate |-> GateStatus(child.plan, child.settings)]
      BY <3>1, NextPath
    <3> QED BY <1>7, <3>1, <3>2
  <2>2. CASE i \in 1 .. n
    <3>1. /\ output.path \in DOMAIN disk /\ disk[output.path].job = jobs
          /\ n < Len(child.outputs) /\ Len(child.outputs) \in Nat
      BY <1>8, <2>2, NextFacts DEF NextIs, Left
    <3>2. output.option # "--job-out"
      <4>1. \A k \in 1 .. Len(child.outputs) :
               child.outputs[k].option = "--job-out" => k = Len(child.outputs)
        <5>1. child.outputs = OutputsOf(child.mode, child.settings)
          BY NextFacts
        <5> QED BY <5>1, OutputsFacts
      <4> QED BY <2>2, <3>1, <4>1
    <3> QED BY <1>7, <3>1, <3>2
  <2> QED BY <2>1, <2>2
<1> HIDE DEF path, data
<1>9. /\ DiskOK' /\ NothingOlderThanReport'
      /\ path.option # "report" => Reported' = Reported
      /\ \A entry : FilesOK(entry) /\ entry.id \in 0 .. jobs
                    /\ (path.option = "--job-out" => entry.id < jobs) => FilesOK(entry)'
  BY <1>2, <1>3, <1>4, <1>5, WriteKeepsFiles DEF content
<1> QED BY <1>3, <1>6, <1>8, <1>9

-----------------------------------------------------------------------------
\* A process writes, or fails.
LEMMA WriteStepKeepsInv ==
    ASSUME OutputInv, OutputsTogether, WriteStep
    PROVE  WatchOK' /\ DiskOK' /\ WritesOK' /\ NothingOlderThanReport'
           /\ \A entry \in Entries' : EntryOK(entry)'
<1>1. Writing /\ UNCHANGED <<parent, jobs, watch>>
  BY DEF WriteStep, WriteOutput, WriteNoPdf, OpenFails, WriteShort, Killed
<1>2. \/ Continue /\ \E whole : Leave(whole)
      \/ /\ \E exit : exit # 0 /\ EndWith(exit)
         /\ UNCHANGED disk \/ \E whole : Leave(whole)
  <2>1. /\ Leave(TRUE) => \E whole : Leave(whole)
        /\ Leave(FALSE) => \E whole : Leave(whole)
    OBVIOUS
  <2>2. /\ EndWith(1) => \E exit : exit # 0 /\ EndWith(exit)
        /\ EndWith(137) => \E exit : exit # 0 /\ EndWith(exit)
    <3>1. 1 # 0 /\ 137 # 0
      OBVIOUS
    <3> QED BY <3>1, Zenon
  <2>3. \/ Leave(TRUE) /\ Continue
        \/ Leave(FALSE) /\ Continue
        \/ Leave(FALSE) /\ (EndWith(1) \/ EndWith(137))
        \/ UNCHANGED disk /\ (EndWith(1) \/ EndWith(137))
    BY Zenon DEF WriteStep, WriteOutput, WriteNoPdf, OpenFails, WriteShort, Killed
  <2> QED BY <2>1, <2>2, <2>3, Zenon
<1>3. /\ DOMAIN child = ProcessFields /\ child.id = jobs /\ jobs \in Nat /\ child # NoProcess
      /\ Len(child.outputs) \in Nat
  BY <1>1, NextFacts DEF Writing
<1>4. PICK n \in Nat : NextIs(n)
  BY <1>1, NextFacts
<1>5. /\ DOMAIN child' = ProcessFields /\ child'.id = jobs /\ child'.mode = child.mode
      /\ child'.settings = child.settings /\ child'.plan = child.plan
      /\ child'.outputs = child.outputs
  BY <1>2, <1>3 DEF Continue, EndWith, ProcessFields
<1>6. child' # NoProcess
  <2>1. DOMAIN NoProcess = {"id"} /\ "mode" \in ProcessFields
    BY DEF NoProcess, ProcessFields
  <2> QED BY <1>5, <2>1
<1>7. WatchOK'
  BY <1>1, <1>3 DEF OutputInv, WatchOK
<1>8. /\ DiskOK' /\ NothingOlderThanReport' /\ Reported' = Reported
      /\ \A entry \in Entries : FilesOK(entry)'
      /\ (\E whole : Leave(whole)) =>
            \A i \in 1 .. n + 1 :
               LET output == child.outputs[i] IN
               /\ output.path \in DOMAIN disk' /\ disk'[output.path].job = jobs
               /\ output.option = "--job-out"
                     => disk'[output.path].data = [gate |-> GateStatus(child.plan, child.settings)]
  <2>1. CASE \E whole : Leave(whole)
    BY <1>1, <1>4, <2>1, LeaveKeepsFiles
  <2>2. CASE UNCHANGED disk /\ ~ \E whole : Leave(whole)
    <3>1. DiskOK' /\ NothingOlderThanReport' /\ Reported' = Reported
      BY <1>1, <2>2 DEF OutputInv, DiskOK, NothingOlderThanReport, Reported
    <3>2. \A entry \in Entries : FilesOK(entry)'
      BY <2>2, EntryParts DEF OutputInv, FilesOK
    <3> QED BY <2>2, <3>1, <3>2
  <2> QED BY <1>2, <2>1, <2>2
<1>9. WritesOK'
  <2>1. /\ DOMAIN child' = ProcessFields /\ child'.id = jobs'
        /\ child'.outputs # <<>> =>
              /\ child'.outputs = OutputsOf(child'.mode, child'.settings)
              /\ IsSet(child'.settings, "--output-dir")
                    => \A option \in DefaultOutputs : IsSet(child'.settings, option)
    BY <1>1, <1>5, NextFacts
  <2>2. CASE Continue /\ \E whole : Leave(whole)
    <3>1. /\ child'.exit = child.exit
          /\ child'.todo = SubSeq(child.outputs, n + 2, Len(child.outputs))
      BY <1>3, <1>4, <2>2 DEF Continue, ProcessFields, NextIs
    <3>2. child.exit = 0 /\ child.mode \in PlanModes /\ On(child.settings, "--fail-on-quality-gate")
             => GateStatus(child.plan, child.settings) = "pass"
      BY <1>3 DEF OutputInv, WritesOK
    <3>3. n + 1 \in 0 .. Len(child'.outputs) /\ (n + 1) + 1 = n + 2
      BY <1>3, <1>4, <1>5 DEF NextIs
    <3>4. (\A i \in 1 .. n + 1 : Left(child.outputs[i]))'
      BY <1>1, <1>5, <1>8, <2>2 DEF Left
    <3>5. (\E m \in 0 .. Len(child.outputs) :
              /\ child.todo = SubSeq(child.outputs, m + 1, Len(child.outputs))
              /\ \A i \in 1 .. m : Left(child.outputs[i]))'
      BY <1>5, <3>1, <3>3, <3>4
    <3> QED BY <1>5, <2>1, <3>1, <3>2, <3>5 DEF WritesOK
  <2>3. CASE \E exit : exit # 0 /\ EndWith(exit)
    <3>1. child'.todo = <<>> /\ child'.exit # 0
      BY <1>3, <2>3 DEF EndWith, ProcessFields
    <3> QED BY <2>1, <3>1 DEF WritesOK
  <2> QED BY <1>2, <2>2, <2>3
<1>10. Entries' = Entries
  BY <1>1, <1>8 DEF Entries, Reported
<1>11. \A entry \in Entries : EntryOK(entry)'
  <2>1. \A entry \in Entries : entry.id \in 0 .. jobs /\ entry.id < jobs
    BY <1>3, EntryParts DEF OutputInv
  <2> QED BY <1>1, <1>8, <2>1 DEF EntryOK, FilesOK
<1> QED BY <1>7, <1>8, <1>9, <1>10, <1>11

\* A process is started.
LEMMA StartKeepsInv ==
    ASSUME OutputInv, NEW mode, NEW words, StartMain(mode, words),
           child = NoProcess, ~watch.on, UNCHANGED <<disk, watch>>, EntriesOf(parent)' = EntriesOf(parent)
    PROVE  WatchOK' /\ DiskOK' /\ WritesOK' /\ NothingOlderThanReport'
           /\ \A entry \in Entries' : EntryOK(entry)'
<1>1. jobs \in Nat /\ jobs' = jobs + 1 /\ WritesOK'
  BY StartedWrites DEF OutputInv, DiskOK
<1>2. WatchOK'
  BY DEF OutputInv, WatchOK
<1>3. DiskOK' /\ NothingOlderThanReport'
  BY <1>1 DEF OutputInv, DiskOK, NothingOlderThanReport
<1>4. Entries' = Entries
  BY DEF Entries, EntriesOf
<1>5. \A entry \in Entries : EntryOK(entry)'
  <2>1. \A entry \in Entries : entry.id \in 0 .. jobs /\ FilesOK(entry)
    BY EntryParts DEF OutputInv
  <2> QED BY <1>1, <2>1 DEF EntryOK, FilesOK
<1> QED BY <1>1, <1>2, <1>3, <1>4, <1>5

\* Nothing is written and no process runs afterwards.
LEMMA QuietStepKeepsInv ==
    ASSUME OutputInv, UNCHANGED <<disk, jobs>>, child' = NoProcess, WatchOK',
           \A entry \in EntriesOf(parent)' \ Entries :
              entry.id \in 0 .. jobs /\ FilesOK(entry)
    PROVE  DiskOK' /\ WritesOK' /\ NothingOlderThanReport'
           /\ \A entry \in Entries' : EntryOK(entry)'
<1>1. DiskOK' /\ NothingOlderThanReport' /\ WritesOK'
  BY DEF OutputInv, DiskOK, NothingOlderThanReport, WritesOK
<1>2. Entries' \subseteq Entries \union EntriesOf(parent)'
  BY DEF Entries, EntriesOf
<1>3. \A entry \in Entries' : entry.id \in 0 .. jobs /\ FilesOK(entry)
  BY <1>2, EntryParts DEF OutputInv
<1>4. \A entry \in Entries' : EntryOK(entry)'
  BY <1>3 DEF EntryOK, FilesOK
<1> QED BY <1>1, <1>4

\* The report of a batch is written, or the plan of a watched file.
LEMMA ReportKeepsInv ==
    ASSUME OutputInv, child = NoProcess, UNCHANGED <<child, jobs>>, WatchOK',
           NEW path, path.option \in {"report", "watched"}, NEW whole, NEW data,
           Write(path, Content(jobs, whole, data)),
           path.option = "report" => Range(data.entries) \subseteq Entries,
           EntriesOf(parent)' \subseteq Entries
    PROVE  DiskOK' /\ WritesOK' /\ NothingOlderThanReport'
           /\ \A entry \in Entries' : EntryOK(entry)'
<1>1. path.option \notin PlanOutputs /\ path.option # "--job-out"
  BY DEF PlanOutputs, DefaultOutputs
<1>2. DiskOK /\ NothingOlderThanReport /\ jobs' = jobs
  BY DEF OutputInv
<1>3. /\ DiskOK' /\ NothingOlderThanReport'
      /\ \A entry : FilesOK(entry) /\ entry.id \in 0 .. jobs => FilesOK(entry)'
  BY <1>1, <1>2, WriteKeepsFiles
<1>4. Reported' \subseteq Entries
  <2>1. /\ DOMAIN disk' = DOMAIN disk \union {path}
        /\ disk'[path].data = data
        /\ \A file \in DOMAIN disk : file # path => disk'[file] = disk[file]
    BY DEF Write, Content
  <2> SUFFICES ASSUME NEW file \in DOMAIN disk', file.option = "report"
               PROVE  Range(disk'[file].data.entries) \subseteq Entries
    BY DEF Reported
  <2>2. CASE file = path
    BY <2>1, <2>2
  <2>3. CASE file # path
    <3>1. file \in DOMAIN disk /\ disk'[file] = disk[file]
      BY <2>1, <2>3
    <3>2. Range(disk[file].data.entries) \subseteq Reported
      BY <3>1 DEF Reported
    <3> QED BY <3>1, <3>2, EntriesFacts
  <2> QED BY <2>2, <2>3
<1>5. Entries' \subseteq Entries
  <2>1. Entries' = Reported' \union EntriesOf(parent)'
    BY DEF Entries, Reported, EntriesOf
  <2> QED BY <1>4, <2>1
<1>6. \A entry \in Entries' : FilesOK(entry) /\ entry.id \in 0 .. jobs
  BY <1>5, EntryParts DEF OutputInv
<1>7. \A entry \in Entries' : FilesOK(entry)' /\ entry.id \in 0 .. jobs
  BY <1>3, <1>6
<1>8. \A entry \in Entries' : EntryOK(entry)'
  BY <1>2, <1>7 DEF EntryOK, FilesOK
<1>9. WritesOK'
  BY DEF WritesOK
<1> QED BY <1>3, <1>8, <1>9

-----------------------------------------------------------------------------
\* What a sequence holds with one more element at its end.
LEMMA AppendRange ==
    ASSUME NEW s, IsSequence(s), NEW e
    PROVE  Range(Append(s, e)) = Range(s) \union {e}
<1> DEFINE t == Append(s, e)
<1>1. /\ Len(s) \in Nat /\ DOMAIN s = 1 .. Len(s) /\ DOMAIN t = 1 .. Len(s) + 1
      /\ \A i \in 1 .. Len(s) : t[i] = s[i]
      /\ t[Len(s) + 1] = e
  BY AppendFacts
<1> HIDE DEF t
<1>2. Range(t) = Range(s) \union {e}
  BY <1>1 DEF Range
<1> QED BY <1>2 DEF t

\* When a process has ended without an error its files are what EntryOK says.
LEMMA EndedFiles ==
    ASSUME OutputInv, OutputsTogether, GateIsPassedOn, child # NoProcess, child.todo = <<>>, parent # NoRun,
           NEW entry, entry.id = child.id, entry.exit = child.exit,
           entry.outputs = child.outputs, entry.gated = Gated(parent)
    PROVE  FilesOK(entry)
<1> SUFFICES ASSUME child.exit = 0, NEW output \in Range(child.outputs)
             PROVE  /\ output.path \in DOMAIN disk /\ disk[output.path].job >= entry.id
                    /\ output.option = "--job-out" =>
                          /\ output.path.option = "--job-out"
                          /\ disk[output.path].job = entry.id /\ entry.gated
                                => disk[output.path].data = [gate |-> "pass"]
  BY DEF FilesOK
<1> DEFINE outs == child.outputs
<1>1. /\ child.id = jobs /\ jobs \in Nat
      /\ outs # <<>> => outs = OutputsOf(child.mode, child.settings)
      /\ child.mode \in PlanModes /\ On(child.settings, "--fail-on-quality-gate")
            => GateStatus(child.plan, child.settings) = "pass"
  BY DEF OutputInv, WritesOK, DiskOK
<1>2. PICK n \in 0 .. Len(outs) :
         child.todo = SubSeq(outs, n + 1, Len(outs)) /\ \A i \in 1 .. n : Left(outs[i])
  BY DEF OutputInv, WritesOK
<1>3. outs # <<>>
  <2>1. Range(<<>>) = {}
    BY DEF Range
  <2> QED BY <2>1
<1> DEFINE made == OutputsOf(child.mode, child.settings)
<1>4. /\ IsSequence(made)
      /\ \A k \in 1 .. Len(made) :
            /\ made[k].path = Setting(child.settings, made[k].option)
            /\ WrittenIn(child.mode, made[k].option) /\ IsSet(child.settings, made[k].option)
  BY OutputsFacts
<1> HIDE DEF outs, made
<1>5. outs = made
  BY <1>1, <1>3 DEF made
<1>6. n = Len(outs) /\ Len(outs) \in Nat
  BY <1>2, <1>4, <1>5, RestFacts
<1>7. DOMAIN outs = 1 .. Len(outs)
  BY <1>4, <1>5, LenProperties DEF IsSequence
<1>8. PICK k \in 1 .. Len(outs) : output = outs[k]
  BY <1>7 DEF Range, outs
<1>9. Left(output)
  BY <1>2, <1>6, <1>8
<1>10. output.option = "--job-out" => output.path.option = "--job-out" /\ child.mode \in PlanModes
  <2> SUFFICES ASSUME output.option = "--job-out"
               PROVE  output.path.option = "--job-out" /\ child.mode \in PlanModes
    OBVIOUS
  <2>1. /\ output.path = Setting(child.settings, "--job-out")
        /\ WrittenIn(child.mode, "--job-out") /\ IsSet(child.settings, "--job-out")
    BY <1>4, <1>5, <1>8
  <2>2. "--job-out" \in PlanOutputs
    BY DEF PlanOutputs, DefaultOutputs
  <2>3. output.path = File(output.path.stem, "--job-out")
    BY <2>1, <2>2 DEF OutputsTogether
  <2>4. child.mode \in PlanModes
    BY <2>1 DEF WrittenIn
  <2> QED BY <2>3, <2>4 DEF File
<1>11. entry.gated => On(child.settings, "--fail-on-quality-gate")
  BY DEF GateIsPassedOn
<1> QED BY <1>1, <1>9, <1>10, <1>11 DEF Left

\* The invariant holds initially, and every step keeps it while files are
\* told apart.
LEMMA OutputInvInductive ==
    /\ CliInit => OutputInv
    /\ OutputInv /\ CallsFitTogether /\ [CliNext]_cliVars
          => OutputInv'
<1>1. CliInit => OutputInv
  <2> SUFFICES ASSUME CliInit PROVE OutputInv
    OBVIOUS
  <2>1. /\ DOMAIN disk = {} /\ jobs = 0 /\ parent = NoRun /\ child = NoProcess
        /\ watch = NotWatching
    BY DEF CliInit
  <2>2. Entries = {} /\ DiskOK /\ WritesOK /\ NothingOlderThanReport
    BY <2>1 DEF Entries, DiskOK, WritesOK, NothingOlderThanReport
  <2>3. WatchOK
    BY <2>1 DEF WatchOK, NotWatching
  <2> QED BY <2>2, <2>3, RunInvInductive DEF OutputInv
<1>2. ASSUME OutputInv, CallsFitTogether, [CliNext]_cliVars
      PROVE  OutputInv'
  <2> DEFINE Kept == /\ WatchOK' /\ DiskOK' /\ WritesOK' /\ NothingOlderThanReport'
                     /\ \A entry \in Entries' : EntryOK(entry)'
  <2>1. RunInv'
    BY <1>2, RunInvInductive DEF OutputInv
  <2>2. RunInv /\ WatchOK /\ jobs \in Nat
    BY <1>2 DEF OutputInv, DiskOK
  <2> OutputInv /\ OutputsTogether /\ ReportsApart /\ GateIsPassedOn
    BY <1>2 DEF CallsFitTogether
  <2> SUFFICES Kept
    BY <2>1 DEF OutputInv
  <2>3. UNCHANGED <<parent, child, jobs, disk>> /\ WatchOK' => Kept
    <3> SUFFICES ASSUME UNCHANGED <<parent, child, jobs, disk>>, WatchOK'
                 PROVE  Kept
      OBVIOUS
    <3>1. DiskOK' /\ WritesOK' /\ NothingOlderThanReport'
      BY DEF OutputInv, DiskOK, WritesOK, NothingOlderThanReport, Left
    <3>2. Entries' = Entries
      BY DEF Entries
    <3>3. \A entry \in Entries' : EntryOK(entry)'
      BY <3>2 DEF OutputInv, EntryOK
    <3> QED BY <3>1, <3>3
  <2>4. CASE UNCHANGED cliVars
    BY <2>2, <2>3, <2>4 DEF cliVars, WatchOK
  <2>5. CASE WriteStep
    BY <1>2, <2>5, WriteStepKeepsInv
  <2>6. CASE RunLine
    <3>1. /\ parent # NoRun /\ child = NoProcess /\ UNCHANGED <<disk, watch>>
          /\ parent' = [parent EXCEPT !.total = @ + 1]
          /\ \E mode, words : StartMain(mode, words)
      BY <2>6 DEF RunLine, Ready, Running
    <3>2. DOMAIN parent = RunFields
      BY <2>2, <3>1 DEF RunInv, RunOK, CountsOK
    <3>3. parent'.entries = parent.entries /\ parent' # NoRun
      <4>1. DOMAIN parent' = RunFields /\ DOMAIN NoRun = {"mode"} /\ "total" \in RunFields
        BY <3>1, <3>2 DEF NoRun, RunFields
      <4> QED BY <3>1, <3>2, <4>1 DEF RunFields
    <3>4. EntriesOf(parent)' = EntriesOf(parent)
      BY <3>1, <3>3 DEF EntriesOf
    <3>5. ~watch.on
      BY <2>2, <3>1 DEF WatchOK
    <3> QED BY <1>2, <3>1, <3>4, <3>5, StartKeepsInv
  <2>7. CASE RunLineFails
    <3> DEFINE next == [parent EXCEPT !.total = @ + 1]
    <3>1. /\ parent # NoRun /\ child = NoProcess /\ UNCHANGED <<child, jobs, disk, watch>>
      BY <2>7 DEF RunLineFails, Ready, Running
    <3>2. PICK code \in {1, 127} : parent' = Counted(next, 0, code, <<>>)
      BY <2>7 DEF RunLineFails
    <3>3. DOMAIN parent = RunFields /\ IsSequence(parent.entries)
      BY <2>2, <3>1 DEF RunInv, RunOK, CountsOK
    <3>4. DOMAIN next = RunFields /\ next.entries = parent.entries
      BY <3>3 DEF RunFields
    <3> DEFINE e == EntryOf(next, 0, code, <<>>)
    <3>5. /\ DOMAIN parent' = RunFields
          /\ parent'.entries = parent.entries \/ parent'.entries = Append(parent.entries, e)
      <4> DEFINE c == Counted(next, 0, code, <<>>)
      <4> HIDE DEF next, e
      <4>1. /\ DOMAIN c = RunFields
            /\ c.entries = IF StopsAt(next, code) THEN next.entries
                           ELSE Append(next.entries, EntryOf(next, 0, code, <<>>))
        BY ONLY <3>4, CountedFields
      <4> HIDE DEF c
      <4>2. parent' = c
        BY <3>2 DEF c
      <4> QED BY <3>4, <4>1, <4>2 DEF e
    <3>6. e.id = 0 /\ e.exit = code
      BY DEF EntryOf
    <3> HIDE DEF e, next
    <3>7. Range(Append(parent.entries, e)) = Range(parent.entries) \union {e}
      BY <3>3, AppendRange
    <3>8. EntriesOf(parent)' \subseteq Entries \union {e}
      BY <3>1, <3>5, <3>7, EntriesFacts DEF EntriesOf
    <3>9. e.id \in 0 .. jobs /\ FilesOK(e)
      BY <2>2, <3>2, <3>6 DEF FilesOK
    <3>10. WatchOK'
      BY <2>2, <3>1 DEF WatchOK
    <3> QED BY <1>2, <3>1, <3>8, <3>9, <3>10, QuietStepKeepsInv
  <2>8. CASE Wait
    <3>1. /\ child # NoProcess /\ child.todo = <<>> /\ child' = NoProcess
          /\ UNCHANGED <<jobs, disk, watch>>
          /\ parent' = IF parent = NoRun THEN NoRun
                       ELSE Counted(parent, child.id, child.exit, child.outputs)
      BY <2>8 DEF Wait
    <3>2. WatchOK'
      BY <2>2, <3>1 DEF WatchOK
    <3>3. CASE parent = NoRun
      <4>1. EntriesOf(parent)' = {}
        BY <3>1, <3>3 DEF EntriesOf
      <4> QED BY <1>2, <3>1, <3>2, <4>1, QuietStepKeepsInv
    <3>4. CASE parent # NoRun
      <4> DEFINE e == EntryOf(parent, child.id, child.exit, child.outputs)
      <4>1. DOMAIN parent = RunFields /\ IsSequence(parent.entries)
        BY <2>2, <3>4 DEF RunInv, RunOK, CountsOK
      <4>2. parent'.entries = parent.entries \/ parent'.entries = Append(parent.entries, e)
        <5> DEFINE c == Counted(parent, child.id, child.exit, child.outputs)
        <5> HIDE DEF e
        <5>1. c.entries = IF StopsAt(parent, child.exit) THEN parent.entries
                          ELSE Append(parent.entries,
                                      EntryOf(parent, child.id, child.exit, child.outputs))
          BY ONLY <4>1, CountedFields
        <5> HIDE DEF c
        <5>2. parent' = c
          BY <3>1, <3>4 DEF c
        <5> QED BY <5>1, <5>2 DEF e
      <4>3. /\ e.id = child.id /\ e.exit = child.exit /\ e.outputs = child.outputs
            /\ e.gated = Gated(parent)
        BY DEF EntryOf, Gated
      <4> HIDE DEF e
      <4>4. Range(Append(parent.entries, e)) = Range(parent.entries) \union {e}
        BY <4>1, AppendRange
      <4>5. EntriesOf(parent)' \subseteq Entries \union {e}
        BY <3>4, <4>2, <4>4, EntriesFacts DEF EntriesOf
      <4>6. e.id \in 0 .. jobs
        BY <1>2, <2>2, <3>1, <4>3 DEF OutputInv, WritesOK
      <4>7. FilesOK(e)
        BY <1>2, <3>1, <3>4, <4>3, EndedFiles DEF Gated
      <4> QED BY <1>2, <3>1, <3>2, <4>5, <4>6, <4>7, QuietStepKeepsInv
    <3> QED BY <3>3, <3>4
  <2>9. CASE EndRun \/ EndRunFails
    <3>1. /\ parent # NoRun /\ child = NoProcess /\ UNCHANGED <<child, jobs, watch>>
          /\ \E exit : parent' = [parent EXCEPT !.exit = exit]
      BY <2>9 DEF EndRun, EndRunFails, AllRun, Running, Finish
    <3>2. \/ UNCHANGED disk
          \/ /\ ReportPath(parent) # Empty
             /\ \E whole : Write(ReportPath(parent), Content(jobs, whole, Report(parent)))
      <4>1. /\ Write(ReportPath(parent), Content(jobs, TRUE, Report(parent)))
                  => \E whole : Write(ReportPath(parent), Content(jobs, whole, Report(parent)))
            /\ Write(ReportPath(parent), Content(jobs, FALSE, Report(parent)))
                  => \E whole : Write(ReportPath(parent), Content(jobs, whole, Report(parent)))
        OBVIOUS
      <4> QED BY <2>9, <4>1, Zenon DEF EndRun, EndRunFails
    <3>3. WatchOK'
      <4>1. ~watch.on
        BY <2>2, <3>1 DEF WatchOK
      <4> QED BY <2>2, <3>1, <4>1 DEF WatchOK
    <3>4. EntriesOf(parent)' = EntriesOf(parent)
      <4>1. DOMAIN parent = RunFields
        BY <2>2, <3>1 DEF RunInv, RunOK, CountsOK
      <4>2. DOMAIN parent' = RunFields /\ parent'.entries = parent.entries
        BY <3>1, <4>1 DEF RunFields
      <4>3. parent' # NoRun
        BY <4>2 DEF NoRun, RunFields
      <4> QED BY <3>1, <4>2, <4>3 DEF EntriesOf
    <3>5. EntriesOf(parent) \subseteq Entries /\ Report(parent).entries = parent.entries
      BY EntriesFacts DEF Report
    <3>6. CASE UNCHANGED disk
      BY <1>2, <3>1, <3>3, <3>4, <3>5, <3>6, QuietStepKeepsInv
    <3>7. CASE /\ ReportPath(parent) # Empty
               /\ \E whole : Write(ReportPath(parent), Content(jobs, whole, Report(parent)))
      <4>1. ReportPath(parent).option = "report"
        BY <1>2, <3>1, <3>7 DEF ReportsApart
      <4>2. Range(Report(parent).entries) \subseteq Entries
        BY <3>1, <3>5 DEF EntriesOf
      <4> DEFINE path == ReportPath(parent)
                 data == Report(parent)
      <4>3. PICK whole : Write(path, Content(jobs, whole, data))
        BY <3>7
      <4> HIDE DEF path, data
      <4>4. path.option = "report" /\ Range(data.entries) \subseteq Entries
        BY <4>1, <4>2 DEF path, data
      <4> QED BY <1>2, <3>1, <3>3, <3>4, <3>5, <4>3, <4>4, ReportKeepsInv
    <3> QED BY <3>2, <3>6, <3>7
  <2>10. CASE Return
    <3>1. /\ parent # NoRun /\ parent' = NoRun /\ parent.exit # Unended
          /\ UNCHANGED <<child, jobs, disk, watch>>
      BY <2>10 DEF Return
    <3>2. child = NoProcess
      BY <2>2, <3>1 DEF RunInv, RunOK
    <3>3. EntriesOf(parent)' = {}
      BY <3>1 DEF EntriesOf
    <3>4. WatchOK'
      BY <2>2, <3>1 DEF WatchOK
    <3> QED BY <1>2, <3>1, <3>2, <3>3, <3>4, QuietStepKeepsInv
  <2>11. CASE Interrupt
    <3>1. /\ parent' = NoRun /\ child' = NoProcess /\ watch' = NotWatching /\ UNCHANGED jobs
          /\ UNCHANGED disk \/ (Writing /\ \E whole : Leave(whole))
      <4>1. Leave(FALSE) => \E whole : Leave(whole)
        OBVIOUS
      <4> QED BY <2>11, <4>1, Zenon DEF Interrupt
    <3>2. WatchOK'
      BY <3>1 DEF WatchOK, NotWatching
    <3>3. EntriesOf(parent)' = {}
      BY <3>1 DEF EntriesOf
    <3>4. CASE UNCHANGED disk
      BY <1>2, <3>1, <3>2, <3>3, <3>4, QuietStepKeepsInv
    <3>5. CASE Writing /\ \E whole : Leave(whole)
      <4>1. /\ DiskOK' /\ NothingOlderThanReport' /\ Reported' = Reported
            /\ \A entry \in Entries : FilesOK(entry)'
        BY <1>2, <3>1, <3>5, LeaveKeepsFiles
      <4>2. Entries' = Reported' \union EntriesOf(parent)'
        BY DEF Entries, Reported, EntriesOf
      <4>3. Entries' \subseteq Entries
        BY <3>3, <4>1, <4>2, EntriesFacts
      <4>4. \A entry \in Entries' : EntryOK(entry)'
        <5>1. \A entry \in Entries : entry.id \in 0 .. jobs
          BY <1>2, EntryParts DEF OutputInv
        <5> QED BY <3>1, <4>1, <4>3, <5>1 DEF EntryOK, FilesOK
      <4> QED BY <3>1, <3>2, <4>1, <4>4 DEF WritesOK
    <3> QED BY <3>1, <3>4, <3>5
  <2>12. CASE WatchTake \/ WatchFails \/ CallWatch \/ Drop \/ TakeAway
    <3>1. UNCHANGED <<parent, child, jobs, disk>>
      BY <2>12 DEF WatchTake, WatchFails, CallWatch, Drop, TakeAway
    <3>2. WatchOK'
      <4>1. CASE WatchTake
        BY <2>2, <4>1 DEF WatchTake, WatchOK
      <4>2. CASE WatchFails
        BY <2>2, <4>2 DEF WatchFails, WatchOK
      <4>3. CASE CallWatch
        BY <4>3 DEF CallWatch, Calls, Quiet, WatchOK, NotWatching
      <4>4. CASE Drop \/ TakeAway
        BY <2>2, <4>4 DEF Drop, TakeAway, WatchOK
      <4> QED BY <2>12, <4>1, <4>2, <4>3, <4>4
    <3> QED BY <2>3, <3>1, <3>2
  <2>13. CASE WatchPlan
    <3>1. /\ watch.taken # {} /\ watch' = [watch EXCEPT !.taken = {}]
          /\ UNCHANGED <<parent, child, jobs>>
          /\ \E file : Write(File(file.stem, "watched"),
                             Content(jobs, TRUE, PlanWatched(watch.settings)))
      BY <2>13 DEF WatchPlan
    <3>2. watch.on /\ child = NoProcess /\ parent = NoRun
      BY <2>2, <3>1 DEF WatchOK
    <3>3. WatchOK'
      BY <2>2, <3>1, <3>2 DEF WatchOK
    <3> DEFINE data == PlanWatched(watch.settings)
               whole == TRUE
    <3>4. PICK file : Write(File(file.stem, "watched"), Content(jobs, whole, data))
      BY <3>1
    <3> DEFINE path == File(file.stem, "watched")
    <3>5. path.option = "watched"
      BY DEF File
    <3>6. Write(path, Content(jobs, whole, data))
      BY <3>4
    <3> HIDE DEF path, whole, data
    <3>7. EntriesOf(parent)' \subseteq Entries
      BY <3>1, <3>2 DEF EntriesOf
    <3> QED BY <1>2, <3>1, <3>2, <3>3, <3>5, <3>6, <3>7, ReportKeepsInv
  <2>14. CASE CallBatch \/ CallSequence
    <3>1. /\ child = NoProcess /\ ~watch.on /\ UNCHANGED <<child, jobs, disk, watch>>
          /\ parent' = NoRun \/ \E mode, s, lines : parent' = Run(mode, s, lines)
      BY <2>14 DEF CallBatch, CallSequence, Calls, Quiet
    <3>2. EntriesOf(parent)' = {}
      <4>1. Range(<<>>) = {}
        BY DEF Range
      <4> QED BY <3>1, <4>1 DEF EntriesOf, Run
    <3>3. WatchOK'
      BY <2>2, <3>1 DEF WatchOK
    <3> QED BY <1>2, <3>1, <3>2, <3>3, QuietStepKeepsInv
  <2>15. CASE CallMain
    <3>1. /\ child = NoProcess /\ ~watch.on /\ UNCHANGED <<parent, disk, watch>>
          /\ StartMain(CallOf.mode, CallOf.words)
      BY <2>15 DEF CallMain, Calls, Quiet
    <3>2. EntriesOf(parent)' = EntriesOf(parent)
      BY <3>1 DEF EntriesOf
    <3> QED BY <1>2, <3>1, <3>2, StartKeepsInv
  <2> HIDE DEF Kept
  <2> QED BY <1>2, <2>4, <2>5, <2>6, <2>7, <2>8, <2>9, <2>10, <2>11, <2>12, <2>13, <2>14, <2>15
      DEF CliNext, RunStep, WatchStep, UserStep
<1> QED BY <1>1, <1>2

\* While the calls fit together, whatever fails or is killed, what a process has
\* written stays or is replaced by a later one, and every job reported as ok by
\* a batch or a sequence has left its outputs (main, RunBatchMode,
\* RunSequenceFile), for every session and any files.
THEOREM OutputSafety == CliSpec /\ []CallsFitTogether => []OutputInv
<1> QED BY OutputInvInductive, PTL DEF CliSpec

\* No output of a stem is ever older than the job report that describes it,
\* for every session, any number of batches, faults and kills (the order in
\* which main writes).
THEOREM NothingIsOlder == CliSpec /\ []CallsFitTogether => []NothingOlderThanReport
<1>1. OutputInv => NothingOlderThanReport
  BY DEF OutputInv
<1> QED BY <1>1, OutputSafety, PTL

\* What is reported as ok is on the disk, as the job or a later one has written
\* it, and under the quality gate with its own report that says it passed.
THEOREM OkIsDelivered == CliSpec /\ []CallsFitTogether => []OkJobsDeliver
<1>1. OutputInv => OkJobsDeliver
  <2> SUFFICES ASSUME OutputInv, NEW entry \in Entries, entry.exit = 0,
                      NEW output \in Range(entry.outputs)
               PROVE  /\ output.path \in DOMAIN disk /\ disk[output.path].job >= entry.id
                      /\ output.option = "--job-out" /\ disk[output.path].job = entry.id
                         /\ entry.gated => disk[output.path].data = [gate |-> "pass"]
    BY DEF OkJobsDeliver
  <2> QED BY DEF OutputInv, EntryOK
<1> QED BY <1>1, OutputSafety, PTL

-----------------------------------------------------------------------------
\* Of two functions in one the first one counts, where it has a value.
LEMMA FirstCounts ==
    \A f, g, x : x \in DOMAIN f => x \in DOMAIN (f ++ g) /\ (f ++ g)[x] = f[x]
BY DEF ++

\* Where it has none, the second one counts.
LEMMA SecondCounts ==
    \A f, g, x : x \notin DOMAIN f /\ x \in DOMAIN g => x \in DOMAIN (f ++ g) /\ (f ++ g)[x] = g[x]
BY DEF ++

\* Where neither has a value, both in one have none.
LEMMA NoneCounts ==
    \A f, g, x : x \notin DOMAIN f /\ x \notin DOMAIN g => x \notin DOMAIN (f ++ g)
BY DEF ++

\* Numbers that plans are counted with.
CountKeys ==
    {"--pages", "--columns", "--rows", "--repeat-x", "--repeat-y", "--pad-multiple",
     "--signature-size", "--insert-at", "--insert-count"}

\* Texts that are read again.
TextKeys == {"--apply-to-pages", "--output-dir", "--page-sequence", "--manual-sequence"}

\* The kinds of options that are lengths or angles.
LengthKinds == {"length", "positive", "notNegative"}

\* What main accepts for the options that plans are counted with, for lengths and
\* for those that are read again; the page sequences are no options (main).
LEMMA OptionFacts ==
    /\ \A key \in CountKeys : key \in DOMAIN Options /\ Options[key] \in {"uint", "atLeastOne"}
    /\ \A key \in TextKeys : key \in DOMAIN Options /\ Options[key] = "text"
    /\ \A key \in LengthKeys : key \in DOMAIN Options /\ Options[key] \in LengthKinds
    /\ "--sheet-width" \in DOMAIN Options /\ Options["--sheet-width"] = "positive"
    /\ \A key \in SequenceKeys : key \notin DOMAIN Options
<1> DEFINE Fits(kind) ==
              /\ \A key \in CountKeys :
                    key \in DOMAIN kind => kind[key] \in {"uint", "atLeastOne"}
              /\ \A key \in TextKeys : key \in DOMAIN kind => kind[key] = "text"
              /\ \A key \in LengthKeys : key \in DOMAIN kind => kind[key] \in LengthKinds
              /\ "--sheet-width" \in DOMAIN kind => kind["--sheet-width"] = "positive"
              /\ \A key \in SequenceKeys : key \notin DOMAIN kind
           kinds == BasicOptions \union ProofOptions \union CheckOptions
                    \union PlannerOptions \union AdjustOptions \union StickOptions
<1>1. \A kind \in BasicOptions : Fits(kind)
  BY DEF BasicOptions, Each, CountKeys, TextKeys, LengthKeys, LengthKinds, SequenceKeys
<1>2. \A kind \in ProofOptions : Fits(kind)
  BY DEF ProofOptions, Each, CountKeys, TextKeys, LengthKeys, LengthKinds, SequenceKeys
<1>3. \A kind \in CheckOptions : Fits(kind)
  BY DEF CheckOptions, Each, CountKeys, TextKeys, LengthKeys, LengthKinds, SequenceKeys
<1>4. \A kind \in PlannerOptions : Fits(kind)
  BY DEF PlannerOptions, Each, CountKeys, TextKeys, LengthKeys, LengthKinds, SequenceKeys
<1>5. \A kind \in AdjustOptions : Fits(kind)
  BY DEF AdjustOptions, Each, CountKeys, TextKeys, LengthKeys, LengthKinds, SequenceKeys
<1>6. \A kind \in StickOptions : Fits(kind)
  BY DEF StickOptions, Each, CountKeys, TextKeys, LengthKeys, LengthKinds, SequenceKeys
<1>7. /\ \A key \in {"--pages", "--columns", "--rows", "--sheet-width", "--sheet-height",
                      "--output-dir"} :
            \E kind \in BasicOptions : key \in DOMAIN kind
      /\ \A key \in {"--pdf-trim-length", "--pdf-trim-offset", "--pdf-bleed"} :
            \E kind \in ProofOptions : key \in DOMAIN kind
      /\ \A key \in {"--repeat-x", "--repeat-y", "--pad-multiple", "--signature-size",
                      "--manual-sequence", "--page-sequence", "--tile-overlap", "--step-x",
                      "--step-y", "--repeat-rotation", "--slot-width", "--slot-height",
                      "--source-page-width", "--source-page-height", "--creep"} :
            \E kind \in PlannerOptions : key \in DOMAIN kind
      /\ \A key \in {"--insert-at", "--insert-count"} :
            \E kind \in AdjustOptions : key \in DOMAIN kind
      /\ \E kind \in StickOptions : "--apply-to-pages" \in DOMAIN kind
  BY DEF BasicOptions, ProofOptions, PlannerOptions, AdjustOptions, StickOptions, Each
<1>8. \A key \in CountKeys \union TextKeys \union LengthKeys :
         \E kind \in kinds : key \in DOMAIN kind
  BY <1>7 DEF CountKeys, TextKeys, LengthKeys
<1>9. /\ \A kind \in kinds : Fits(kind)
      /\ Options = Together(kinds)
  BY <1>1, <1>2, <1>3, <1>4, <1>5, <1>6 DEF Options
<1>10. "--sheet-width" \in LengthKeys
  BY DEF LengthKeys
<1> HIDE DEF kinds
<1> QED BY <1>8, <1>9, <1>10 DEF Together

\* Lists of pages and blanks.
PageLists == Seq(Nat \union {Blank})

\* Settings that plans can be made with.
SettingsOK(s) ==
    /\ \A key \in CountKeys : Setting(s, key) \in Nat
    /\ \A key \in SequenceKeys : Setting(s, key) \in PageLists
    /\ \A key \in TextKeys : IsArgument(Setting(s, key))
    /\ \A key \in LengthKeys : Setting(s, key) \in Int

\* The defaults are settings plans can be made with.
LEMMA DefaultFacts ==
    /\ \A key \in CountKeys : Default(key) \in Nat
    /\ \A key \in SequenceKeys : Default(key) = <<>>
    /\ \A key \in TextKeys : Default(key) = Empty
    /\ \A key \in LengthKeys : Default(key) \in {0, 6, 12}
    /\ Default("--sheet-width") = 0
<1>1. \A key \in CountKeys \ {"--insert-count"} : Default(key) = 0
  BY OptionFacts DEF CountKeys, Default, SequenceKeys
<1>2. Default("--insert-count") = 1
  BY OptionFacts DEF CountKeys, Default, SequenceKeys
<1>3. \A key \in SequenceKeys : Default(key) = <<>>
  BY DEF Default, SequenceKeys
<1>4. ASSUME NEW key \in TextKeys
      PROVE  Default(key) = Empty
  <2>1. Options[key] = "text"
    BY OptionFacts
  <2> QED BY ONLY <2>1, key \in TextKeys DEF Default, SequenceKeys, TextKeys
<1>6. Default("--sheet-width") = 0
  <2>1. Options["--sheet-width"] = "positive"
    BY OptionFacts
  <2> QED BY ONLY <2>1 DEF Default, SequenceKeys
<1>7. ASSUME NEW key \in LengthKeys
      PROVE  Default(key) \in {0, 6, 12}
  <2>1. Options[key] \notin {"text", "filter", "profile"}
    BY OptionFacts DEF LengthKinds
  <2>2. key \notin SequenceKeys /\ key # "shiftCreep" /\ key # "--watch-interval"
        /\ key \notin {"--inspect-source-page", "--inspect-sheet", "--inspect-slot"}
        /\ key \notin {"--insert-count", "--pdf-sheet-number", "--pdf-bates-start", "--scale-x",
                       "--scale-y", "--bates-start", "--opacity"}
        /\ key \notin {"--assistant-sig-size", "--bates-pad", "--font-size", "--stick-rect-h",
                       "--stick-rect-w", "--sample-page-width", "--sample-page-height"}
    BY DEF LengthKeys, SequenceKeys
  <2> QED BY ONLY <2>1, <2>2 DEF Default
<1> QED BY <1>1, <1>2, <1>3, <1>4, <1>6, <1>7

\* Every pair of arguments that are read is an option and a value it accepts.
LEMMA PairFacts ==
    ASSUME NEW args, AreArguments(args), Readable(args), NEW i \in DOMAIN Pairs(args)
    PROVE  LET pair == Pairs(args)[i] IN
           /\ Known(pair[1]) /\ Accepts(Options[pair[1].text], pair[2])
           /\ IsArgument(pair[2])
<1> DEFINE n == Len(args)
<1>1. n \in Nat /\ DOMAIN args = 1 .. n /\ \A k \in 1 .. n : IsArgument(args[k])
  BY LenProperties DEF AreArguments, IsSequence
<1>2. i \in 1 .. n \div 2 /\ Pairs(args)[i] = <<args[2 * i - 1], args[2 * i]>>
  BY DEF Pairs
<1>3. 2 * i \in 1 .. n
  BY <1>1, <1>2
<1>4. Pairs(args)[i] \in Range(Pairs(args))
  BY DEF Range
<1> QED BY <1>1, <1>2, <1>3, <1>4 DEF Readable

\* Of what an option accepts a number is kept as one, and a text as it is.
LEMMA HeldFacts ==
    ASSUME NEW value, IsArgument(value), NEW kind, Accepts(kind, value)
    PROVE  /\ kind \in {"uint", "atLeastOne"} => Held(kind, value) \in Nat
           /\ kind = "text" => Held(kind, value) = value
           /\ kind \in LengthKinds => Held(kind, value) \in Int
<1>1. ASSUME kind \in {"uint", "atLeastOne"}
      PROVE  Held(kind, value) \in Nat
  <2>1. Held(kind, value) = value.number /\ IsNumber(value, kind)
    BY <1>1 DEF Held, Accepts
  <2>2. value.number \in Int /\ value.number >= 0
    BY <1>1, <2>1 DEF IsNumber, LowestOf, IsArgument, IsNumeral
  <2> QED BY <2>1, <2>2
<1>2. ASSUME kind = "text"
      PROVE  Held(kind, value) = value
  BY <1>2 DEF Held
<1>3. ASSUME kind \in LengthKinds
      PROVE  Held(kind, value) \in Int
  <2>1. Held(kind, value) = value.number /\ IsNumber(value, kind)
    BY <1>3 DEF Held, Accepts, LengthKinds
  <2> QED BY <2>1 DEF IsNumber, IsArgument, IsNumeral
<1> QED BY <1>1, <1>2, <1>3

\* An option sets its own key, and no other but the two that go with another one.
LEMMA SetsFacts ==
    ASSUME NEW key, NEW value, NEW other, other \notin {"--pdf-bates-enable", "shiftCreep"}
    PROVE  /\ other \in DOMAIN Sets(key, value) <=> other = key
           /\ Sets(key, value)[key] = value
<1> DEFINE first == Each({key}, value)
           rest == CASE key = "--pdf-bates-prefix" -> Each({"--pdf-bates-enable"}, 1)
                     [] key = "--creep"            -> Each({"shiftCreep"}, value)
                     [] OTHER                      -> <<>>
<1>1. Sets(key, value) = first ++ rest
  BY DEF Sets
<1>2. key \in DOMAIN first /\ first[key] = value /\ DOMAIN first = {key}
  BY DEF Each
<1>3. other \notin DOMAIN rest
  BY DEF Each
<1> HIDE DEF first, rest
<1> QED BY <1>1, <1>2, <1>3, FirstCounts, NoneCounts

\* A setting is that of the preset, its default, or an accepted value (main).
LEMMA SettingFacts ==
    ASSUME NEW args, AreArguments(args), Readable(args), NEW preset,
           NEW key, key \notin {"--pdf-bates-enable", "shiftCreep"}
    PROVE  \/ Setting(Settings(args, preset), key) = Setting(preset, key)
           \/ \E value : /\ IsArgument(value) /\ Accepts(Options[key], value)
                         /\ key \in DOMAIN Options
                         /\ Setting(Settings(args, preset), key) = Held(Options[key], value)
<1> DEFINE pairs == Pairs(args)
           set(i) == Sets(pairs[i][1].text, Held(Options[pairs[i][1].text], pairs[i][2]))
           setting(k) == {i \in DOMAIN pairs : k \in DOMAIN set(i)}
           all == UNION {DOMAIN set(i) : i \in DOMAIN pairs}
           read == [k \in all |-> set(Max(setting(k)))[k]]
<1>1. Settings(args, preset) = read ++ preset
  BY DEF Settings
<1>2. DOMAIN read = all /\ (key \in all => read[key] = set(Max(setting(key)))[key])
  OBVIOUS
<1>3. \A i \in DOMAIN pairs : key \in DOMAIN set(i) <=> key = pairs[i][1].text
  BY SetsFacts
<1>4. CASE key \notin all
  <2>1. key \notin DOMAIN read
    BY <1>2, <1>4
  <2> HIDE DEF read
  <2>2. /\ key \in DOMAIN preset => key \in DOMAIN (read ++ preset)
                                    /\ (read ++ preset)[key] = preset[key]
        /\ key \notin DOMAIN preset => key \notin DOMAIN (read ++ preset)
    BY <2>1, SecondCounts, NoneCounts
  <2> QED BY <1>1, <2>2 DEF Setting
<1>5. CASE key \in all
  <2> DEFINE places == setting(key)
             m == Max(places)
             n == Len(args) \div 2
  <2>1. Len(args) \in Nat /\ DOMAIN pairs = 1 .. n
    BY LenProperties DEF AreArguments, IsSequence, Pairs
  <2>2. n \in Nat /\ IsFiniteSet(1 .. n)
    BY <2>1, FS_Interval
  <2>3. places \subseteq 1 .. n /\ places # {}
    BY <1>5, <2>1
  <2> HIDE DEF n, places
  <2>4. IsFiniteSet(places)
    BY <2>2, <2>3, FS_Subset
  <2>5a. places \in SUBSET Nat
    BY <2>2, <2>3
  <2>5. m \in places
    BY <2>3, <2>4, <2>5a, MaxFacts
  <2>6. m \in DOMAIN pairs /\ key = pairs[m][1].text
    BY <1>3, <2>5 DEF places
  <2> DEFINE value == pairs[m][2]
  <2>7. IsArgument(value) /\ Accepts(Options[key], value) /\ key \in DOMAIN Options
    BY <2>6, PairFacts DEF Known
  <2>8. set(m)[key] = Held(Options[key], value)
    BY <2>6, SetsFacts
  <2>9. read[key] = set(m)[key]
    BY <1>2, <1>5 DEF places
  <2>10. key \in DOMAIN read
    BY <1>2, <1>5
  <2> HIDE DEF read
  <2>11. key \in DOMAIN (read ++ preset) /\ (read ++ preset)[key] = read[key]
    BY <2>10, FirstCounts
  <2>12. Setting(Settings(args, preset), key) = Held(Options[key], value)
    BY <1>1, <2>8, <2>9, <2>11 DEF Setting
  <2> QED BY <2>7, <2>12
<1> QED BY <1>4, <1>5

\* Arguments that are read make settings plans can be made with (main).
LEMMA SettingsAreOK ==
    ASSUME NEW args, AreArguments(args), Readable(args), NEW preset, SettingsOK(preset)
    PROVE  SettingsOK(Settings(args, preset))
<1> DEFINE s == Settings(args, preset)
<1>1. ASSUME NEW key \in CountKeys
      PROVE  Setting(s, key) \in Nat
  <2>1. key \notin {"--pdf-bates-enable", "shiftCreep"}
    BY DEF CountKeys
  <2>2. Options[key] \in {"uint", "atLeastOne"}
    BY OptionFacts
  <2> QED BY <2>1, <2>2, SettingFacts, HeldFacts DEF SettingsOK
<1>2. ASSUME NEW key \in TextKeys
      PROVE  IsArgument(Setting(s, key))
  <2>1. key \notin {"--pdf-bates-enable", "shiftCreep"}
    BY DEF TextKeys
  <2> QED BY <2>1, OptionFacts, SettingFacts, HeldFacts DEF SettingsOK
<1>3. ASSUME NEW key \in SequenceKeys
      PROVE  Setting(s, key) \in PageLists
  <2>1. key \notin {"--pdf-bates-enable", "shiftCreep"}
    BY DEF SequenceKeys
  <2> QED BY <2>1, OptionFacts, SettingFacts DEF SettingsOK
<1>4. ASSUME NEW key \in LengthKeys
      PROVE  Setting(s, key) \in Int
  <2>1. key \notin {"--pdf-bates-enable", "shiftCreep"}
    BY DEF LengthKeys
  <2>2. Options[key] \in LengthKinds
    BY OptionFacts
  <2> QED BY <2>1, <2>2, SettingFacts, HeldFacts DEF SettingsOK
<1> QED BY <1>1, <1>2, <1>3, <1>4 DEF SettingsOK

-----------------------------------------------------------------------------
\* A function on the first n numbers is a list of length n.
LEMMA ListIsSequence ==
    ASSUME NEW n \in Nat, NEW s, s = [i \in 1 .. n |-> s[i]]
    PROVE  IsSequence(s) /\ Len(s) = n
<1>1. s \in [1 .. n -> Range(s)] /\ DOMAIN s = 1 .. n
  BY DEF Range
<1>2. s \in Seq(Range(s))
  BY <1>1, SeqDef
<1>3. Len(s) \in Nat /\ DOMAIN s = 1 .. Len(s)
  BY <1>2, LenProperties
<1>4. Len(s) = n
  BY <1>1, <1>3
<1> QED BY <1>2, <1>4 DEF IsSequence

\* A list is a function on its places.
LEMMA SequenceFacts ==
    ASSUME NEW s, IsSequence(s)
    PROVE  Len(s) \in Nat /\ DOMAIN s = 1 .. Len(s) /\ s = [i \in 1 .. Len(s) |-> s[i]]
BY LenProperties DEF IsSequence

\* Every element of a list is an element of one of two others.
Joins(both, s, t) ==
    \A i \in DOMAIN both :
        (\E j \in DOMAIN s : both[i] = s[j]) \/ (\E j \in DOMAIN t : both[i] = t[j])

\* Two lists, one after the other, are a list of the elements of both.
LEMMA ConcatFacts ==
    ASSUME NEW s, IsSequence(s), NEW t, IsSequence(t)
    PROVE  IsSequence(s \o t) /\ Joins(s \o t, s, t)
<1> DEFINE S == Range(s) \union Range(t)
           both == s \o t
<1>1. s \in Seq(S) /\ t \in Seq(S)
  BY SeqMonotonic DEF IsSequence
<1>2. /\ both \in Seq(S) /\ Len(both) = Len(s) + Len(t)
      /\ \A i \in 1 .. Len(s) + Len(t) : both[i] = IF i <= Len(s) THEN s[i] ELSE t[i - Len(s)]
  BY <1>1, ConcatProperties
<1> HIDE DEF both, S
<1>3. /\ Len(s) \in Nat /\ DOMAIN s = 1 .. Len(s)
      /\ Len(t) \in Nat /\ DOMAIN t = 1 .. Len(t)
      /\ Len(both) \in Nat /\ DOMAIN both = 1 .. Len(both)
      /\ both \in [1 .. Len(both) -> S]
  BY <1>1, <1>2, LenProperties
<1>4. both = [i \in 1 .. Len(both) |-> both[i]]
  BY <1>3
<1>5. IsSequence(both)
  BY <1>3, <1>4, ListIsSequence
<1>6. ASSUME NEW i \in DOMAIN both
      PROVE  (\E j \in DOMAIN s : both[i] = s[j]) \/ (\E j \in DOMAIN t : both[i] = t[j])
  <2>1. i \in 1 .. Len(s) + Len(t) /\ i \in Nat
    BY <1>2, <1>3
  <2>2. CASE i <= Len(s)
    <3>1. i \in DOMAIN s /\ both[i] = s[i]
      BY <1>2, <1>3, <2>1, <2>2
    <3> QED BY <3>1
  <2>3. CASE ~(i <= Len(s))
    <3>1. i - Len(s) \in DOMAIN t /\ both[i] = t[i - Len(s)]
      BY <1>2, <1>3, <2>1, <2>3
    <3> QED BY <3>1
  <2> QED BY <2>2, <2>3
<1> QED BY <1>5, <1>6 DEF both, Joins

\* What is left of a list at some of its places is a list of elements from there.
LEMMA SubsequenceFacts ==
    ASSUME NEW s, IsSequence(s), NEW places, places \subseteq DOMAIN s
    PROVE  LET t == Subsequence(s, places) IN
           /\ IsSequence(t)
           /\ \A k \in DOMAIN t : \E i \in places : t[k] = s[i]
<1> DEFINE c == Cardinality(places)
           t == Subsequence(s, places)
<1>1. Len(s) \in Nat /\ DOMAIN s = 1 .. Len(s)
  BY SequenceFacts
<1>2. IsFiniteSet(places)
  <2> DEFINE m == Len(s)
  <2>1. m \in Int /\ 1 \in Int
    BY <1>1
  <2> HIDE DEF m
  <2>2. IsFiniteSet(1 .. m)
    BY <2>1, FS_Interval
  <2>3. places \in SUBSET (1 .. m)
    BY <1>1 DEF m
  <2> QED BY <2>2, <2>3, FS_Subset
<1>3. places \in SUBSET Nat
  BY <1>1
<1>4. c \in Nat /\ [k \in 1 .. c |-> Nth(places, k)] \in Bijection(1 .. c, places)
  BY <1>2, <1>3, NthFacts
<1>5. \A k \in 1 .. c : Nth(places, k) \in places
  BY <1>4 DEF Bijection, Injection
<1>6. t = [k \in 1 .. c |-> s[Nth(places, k)]]
  BY DEF Subsequence
<1> HIDE DEF c, t
<1>7. DOMAIN t = 1 .. c /\ t = [k \in 1 .. c |-> t[k]]
      /\ \A k \in 1 .. c : t[k] = s[Nth(places, k)]
  BY <1>6
<1>8. IsSequence(t)
  BY <1>4, <1>7, ListIsSequence
<1>9. \A k \in DOMAIN t : \E i \in places : t[k] = s[i]
  BY <1>5, <1>7
<1> QED BY <1>8, <1>9 DEF t

\* Pairs of an option and its value.
PairsOK(pairs) ==
    IsSequence(pairs) /\ \A i \in DOMAIN pairs : IsArgument(pairs[i][1]) /\ IsArgument(pairs[i][2])

\* What holds of the elements of two lists holds of those of both, one after
\* the other.
LEMMA ConcatPairs ==
    ASSUME NEW s, PairsOK(s), NEW t, PairsOK(t)
    PROVE  PairsOK(s \o t)
<1>1. IsSequence(s) /\ IsSequence(t)
  BY DEF PairsOK
<1>2. IsSequence(s \o t) /\ Joins(s \o t, s, t)
  BY <1>1, ConcatFacts
<1>3. \A i \in DOMAIN (s \o t) : \/ \E j \in DOMAIN s : (s \o t)[i] = s[j]
                               \/ \E j \in DOMAIN t : (s \o t)[i] = t[j]
  BY <1>2 DEF Joins
<1>4. ASSUME NEW i \in DOMAIN (s \o t)
      PROVE  IsArgument((s \o t)[i][1]) /\ IsArgument((s \o t)[i][2])
  <2>1. ASSUME NEW list, PairsOK(list), NEW j \in DOMAIN list, (s \o t)[i] = list[j]
        PROVE  IsArgument((s \o t)[i][1]) /\ IsArgument((s \o t)[i][2])
    <3>1. IsArgument(list[j][1]) /\ IsArgument(list[j][2])
      BY <2>1 DEF PairsOK
    <3> QED BY <2>1, <3>1
  <2> QED BY <1>3, <2>1
<1> QED BY <1>2, <1>4 DEF PairsOK

\* Pairs of arguments are arguments.
LEMMA AsArgumentsFacts ==
    ASSUME NEW pairs, PairsOK(pairs)
    PROVE  AreArguments(AsArguments(pairs))
<1> DEFINE n == Len(pairs)
           words == AsArguments(pairs)
<1>1. n \in Nat /\ DOMAIN pairs = 1 .. n
  BY SequenceFacts DEF PairsOK
<1>2. /\ DOMAIN words = 1 .. 2 * n /\ words = [i \in 1 .. 2 * n |-> words[i]]
      /\ \A i \in 1 .. 2 * n : words[i] = pairs[(i + 1) \div 2][IF i % 2 = 1 THEN 1 ELSE 2]
  BY DEF AsArguments
<1> HIDE DEF words, n
<1>3. 2 * n \in Nat /\ \A i \in 1 .. 2 * n : (i + 1) \div 2 \in 1 .. n
  BY <1>1
<1>4. IsSequence(words)
  BY <1>2, <1>3, ListIsSequence
<1>5. \A i \in DOMAIN words : IsArgument(words[i])
  BY <1>1, <1>2, <1>3 DEF PairsOK
<1> QED BY <1>4, <1>5 DEF AreArguments, words

\* Texts, numbers and the paths of files are arguments.
LEMMA ArgumentFacts ==
    /\ \A text : IsArgument(Text(text))
    /\ \A n \in Int : IsArgument(Number(n))
    /\ \A stem, option : IsArgument(File(stem, option))
    /\ IsArgument(Empty)
BY DEF IsArgument, IsNumeral, Text, Number, File, Empty

\* The same of arguments.
LEMMA ConcatArguments ==
    ASSUME NEW s, AreArguments(s), NEW t, AreArguments(t)
    PROVE  AreArguments(s \o t)
<1>1. IsSequence(s) /\ IsSequence(t)
  BY DEF AreArguments
<1>2. IsSequence(s \o t) /\ Joins(s \o t, s, t)
  BY <1>1, ConcatFacts
<1>3. ASSUME NEW i \in DOMAIN (s \o t)
      PROVE  IsArgument((s \o t)[i])
  <2>1. \/ \E j \in DOMAIN s : (s \o t)[i] = s[j]
        \/ \E j \in DOMAIN t : (s \o t)[i] = t[j]
    BY <1>2 DEF Joins
  <2>2. (\A j \in DOMAIN s : IsArgument(s[j])) /\ (\A j \in DOMAIN t : IsArgument(t[j]))
    BY DEF AreArguments
  <2> QED BY <2>1, <2>2, Zenon
<1> QED BY <1>2, <1>3 DEF AreArguments

\* What is cut out of arguments are arguments.
LEMMA PartOfArguments ==
    ASSUME NEW s, AreArguments(s)
    PROVE  /\ \A empty : AreArguments(Without(s, empty))
           /\ AreArguments(SubSeq(s, 2, Len(s)))
           /\ s # <<>> => AreArguments(Tail(s))
<1>1. IsSequence(s) /\ \A i \in DOMAIN s : IsArgument(s[i])
  BY DEF AreArguments
<1>2. ASSUME NEW empty
      PROVE  AreArguments(Without(s, empty))
  <2> DEFINE places == {i \in DOMAIN s : s[i] # empty}
             t == Subsequence(s, places)
  <2>1. places \subseteq DOMAIN s /\ Without(s, empty) = t
    BY DEF Without
  <2> HIDE DEF places
  <2>2. IsSequence(t) /\ \A k \in DOMAIN t : \E i \in places : t[k] = s[i]
    BY <1>1, <2>1, SubsequenceFacts
  <2> HIDE DEF t
  <2>3. AreArguments(t)
    BY <1>1, <2>1, <2>2 DEF AreArguments
  <2> QED BY <2>1, <2>3
<1>3. AreArguments(SubSeq(s, 2, Len(s)))
  <2> DEFINE n == Len(s)
             t == SubSeq(s, 2, n)
             S == Range(s)
  <2>1. n \in Nat /\ DOMAIN s = 1 .. n /\ s \in Seq(S)
    BY <1>1, SequenceFacts DEF IsSequence
  <2>2. \A i \in 2 .. n : s[i] \in S
    BY <2>1 DEF Range
  <2> HIDE DEF S, n
  <2>3. /\ t \in Seq(S) /\ Len(t) = IF 2 <= n THEN n - 2 + 1 ELSE 0
        /\ \A i \in 1 .. n - 2 + 1 : t[i] = s[2 + i - 1]
    BY <2>1, <2>2, SubSeqProperties
  <2> HIDE DEF t
  <2>4. Len(t) \in Nat /\ DOMAIN t = 1 .. Len(t) /\ t \in [1 .. Len(t) -> S]
    BY <2>3, LenProperties
  <2>5. t = [i \in 1 .. Len(t) |-> t[i]]
    BY <2>4
  <2>6. IsSequence(t)
    BY <2>4, <2>5, ListIsSequence
  <2>7. \A i \in DOMAIN t : t[i] = s[2 + i - 1] /\ 2 + i - 1 \in DOMAIN s
    BY <2>1, <2>3, <2>4
  <2>8. AreArguments(t)
    BY <1>1, <2>6, <2>7 DEF AreArguments
  <2> QED BY <2>8 DEF t, n
<1>4. s # <<>> => AreArguments(Tail(s))
  <2>1. s \in Seq(Range(s))
    BY <1>1 DEF IsSequence
  <2>2. s # <<>> => Tail(s) = SubSeq(s, 2, Len(s))
    BY <2>1, TailIsSubSeq
  <2> QED BY <1>3, <2>2
<1> QED BY <1>2, <1>3, <1>4

\* The first argument of some and the rest of them.
LEMMA WordsFacts ==
    ASSUME NEW mode, NEW words, AreArguments(words)
    PROVE  AreArguments(Arguments(mode, words))
<1>1. SubMode(mode, words) # Empty => words # <<>>
  BY DEF SubMode
<1> QED BY <1>1, PartOfArguments DEF Arguments

\* A cell of a row, or what stands in for it.
LEMMA GetFacts ==
    ASSUME NEW table, IsSequence(table.header), NEW row, AreArguments(row),
           NEW name, NEW fallback, IsArgument(fallback)
    PROVE  IsArgument(Get(table, row, name, fallback))
<1> DEFINE columns == ColumnsNamed(table, name)
           m == Max(columns)
           n == Len(table.header)
<1>1. n \in Nat /\ DOMAIN table.header = 1 .. n
  BY SequenceFacts
<1>2. Len(row) \in Nat /\ DOMAIN row = 1 .. Len(row) /\ \A i \in DOMAIN row : IsArgument(row[i])
  BY SequenceFacts DEF AreArguments
<1>3. columns \in SUBSET (1 .. n)
  BY <1>1 DEF ColumnsNamed
<1>4. IsFiniteSet(1 .. n)
  <2>1. n \in Int /\ 1 \in Int
    BY <1>1
  <2> HIDE DEF n
  <2> QED BY <2>1, FS_Interval
<1>5. Get(table, row, name, fallback)
        = IF columns = {} THEN fallback ELSE IF m > Len(row) THEN fallback ELSE row[m]
  BY DEF Get
<1> HIDE DEF columns, n, m
<1>6. columns \in SUBSET Nat
  BY <1>3
<1>6a. IsFiniteSet(columns)
  BY ONLY <1>3, <1>4, FS_Subset
<1>7. columns # {} => m \in columns
  BY <1>6, <1>6a, MaxFacts DEF m
<1>8. columns # {} /\ ~(m > Len(row)) => m \in DOMAIN row
  <2>1. n \in Nat /\ Len(row) \in Nat /\ DOMAIN row = 1 .. Len(row)
    BY <1>1, <1>2
  <2>2. columns # {} => m \in 1 .. n
    BY <1>3, <1>7
  <2> DEFINE r == Len(row)
  <2> HIDE DEF r
  <2>3. n \in Nat /\ r \in Nat /\ m \in 1 .. n /\ ~(m > r) => m \in 1 .. r
    OBVIOUS
  <2> QED BY <2>1, <2>2, <2>3 DEF r
<1> QED BY <1>2, <1>5, <1>8

\* Short lists.
LEMMA ShortLists ==
    /\ \A a : IsSequence(<<a>>) /\ DOMAIN <<a>> = {1}
    /\ \A a, b, c : IsSequence(<<a, b, c>>) /\ DOMAIN <<a, b, c>> = {1, 2, 3}
    /\ \A a, b : IsSequence(<<a, b>>) /\ DOMAIN <<a, b>> = {1, 2}
    /\ IsSequence(<<>>) /\ DOMAIN <<>> = {}
<1>1. ASSUME NEW a PROVE IsSequence(<<a>>) /\ DOMAIN <<a>> = {1}
  <2>1. <<a>> = [i \in 1 .. 1 |-> <<a>>[i]] /\ 1 \in Nat
    OBVIOUS
  <2>2. IsSequence(<<a>>)
    BY ONLY <2>1, ListIsSequence
  <2>3. DOMAIN <<a>> = {1}
    OBVIOUS
  <2> QED BY <2>2, <2>3
<1>2. ASSUME NEW a, NEW b PROVE IsSequence(<<a, b>>) /\ DOMAIN <<a, b>> = {1, 2}
  <2>1. <<a, b>> = [i \in 1 .. 2 |-> <<a, b>>[i]] /\ 2 \in Nat
    OBVIOUS
  <2>2. IsSequence(<<a, b>>)
    BY ONLY <2>1, ListIsSequence
  <2>3. DOMAIN <<a, b>> = {1, 2}
    OBVIOUS
  <2> QED BY <2>2, <2>3
<1>3. ASSUME NEW a, NEW b, NEW c PROVE IsSequence(<<a, b, c>>) /\ DOMAIN <<a, b, c>> = {1, 2, 3}
  <2>1. <<a, b, c>> = [i \in 1 .. 3 |-> <<a, b, c>>[i]] /\ 3 \in Nat
    OBVIOUS
  <2>2. IsSequence(<<a, b, c>>)
    BY ONLY <2>1, ListIsSequence
  <2>3. DOMAIN <<a, b, c>> = {1, 2, 3}
    OBVIOUS
  <2> QED BY <2>2, <2>3
<1>4. IsSequence(<<>>) /\ DOMAIN <<>> = {}
  BY EmptySeq DEF IsSequence
<1> QED BY <1>1, <1>2, <1>3, <1>4

\* Columns of a batch.
LEMMA ColumnFacts ==
    /\ IsSequence(StandardColumns) /\ DOMAIN StandardColumns = 1 .. 8
    /\ \A i \in DOMAIN StandardColumns : IsArgument(StandardColumns[i][3])
    /\ IsSequence(OptionalColumns) /\ DOMAIN OptionalColumns = 1 .. 19
<1>1. DOMAIN StandardColumns = 1 .. 8 /\ StandardColumns = [i \in 1 .. 8 |-> StandardColumns[i]]
  BY DEF StandardColumns
<1>2. DOMAIN OptionalColumns = 1 .. 19 /\ OptionalColumns = [i \in 1 .. 19 |-> OptionalColumns[i]]
  BY DEF OptionalColumns
<1>3. IsSequence(StandardColumns) /\ IsSequence(OptionalColumns)
  BY ONLY <1>1, <1>2, ListIsSequence, 8 \in Nat, 19 \in Nat
<1>4. \A i \in 1 .. 8 : StandardColumns[i][3] \in {Empty, Text("none"), Number(0), Number(1)}
  BY DEF StandardColumns
<1>5. /\ IsArgument(Empty) /\ IsArgument(Text("none"))
      /\ IsArgument(Number(0)) /\ IsArgument(Number(1))
  BY ArgumentFacts
<1> QED BY <1>1, <1>2, <1>3, <1>4, <1>5

\* The arguments of a line of a batch are arguments (RunBatchMode).
LEMMA BatchJobFacts ==
    ASSUME NEW table, IsSequence(table.header), NEW row, AreArguments(row), NEW gate
    PROVE  AreArguments(BatchJob(table, row, gate).words)
<1> DEFINE get(name) == Get(table, row, name, Empty)
           mode == Shown(get("mode"))
           stem == Get(table, row, "output_stem", Text(BuildDefaultOutputStem(mode, get("pages"))))
           places == {i \in DOMAIN OptionalColumns : get(OptionalColumns[i][2]) # Empty}
           given == Subsequence(OptionalColumns, places)
           standard == [i \in DOMAIN StandardColumns |->
                          <<Text(StandardColumns[i][1]),
                            Get(table, row, StandardColumns[i][2], StandardColumns[i][3])>>]
           outputs == <<<<Text("--output-dir"), Text("out")>>, <<Text("--output-stem"), stem>>,
                        <<Text("--job-out"), File(Shown(stem), "--job-out")>>>>
           optional == [i \in DOMAIN given |-> <<Text(given[i][1]), get(given[i][2])>>]
           last == IF gate THEN <<<<Text("--fail-on-quality-gate"), Number(1)>>>> ELSE <<>>
<1>1. BatchJob(table, row, gate).words
        = AsArguments(standard \o outputs \o optional \o last)
  BY DEF BatchJob
<1>2. PairsOK(standard)
  <2> DEFINE value(i) == Get(table, row, StandardColumns[i][2], StandardColumns[i][3])
             key(i) == Text(StandardColumns[i][1])
  <2>1. \A i \in 1 .. 8 : IsArgument(value(i)) /\ IsArgument(key(i))
    BY ColumnFacts, GetFacts, ArgumentFacts
  <2>2. standard = [i \in 1 .. 8 |-> <<key(i), value(i)>>]
    BY ColumnFacts
  <2> HIDE DEF value, key, standard
  <2>3. standard = [i \in 1 .. 8 |-> standard[i]] /\ DOMAIN standard = 1 .. 8 /\ 8 \in Nat
    BY <2>2
  <2>4. IsSequence(standard)
    BY ONLY <2>3, ListIsSequence
  <2>5. \A i \in DOMAIN standard : IsArgument(standard[i][1]) /\ IsArgument(standard[i][2])
    BY <2>1, <2>2
  <2> QED BY <2>4, <2>5 DEF PairsOK
<1>3. IsArgument(stem)
  BY GetFacts, ArgumentFacts
<1>4. PairsOK(outputs)
  <2> HIDE DEF stem
  <2>1. IsSequence(outputs) /\ DOMAIN outputs = {1, 2, 3}
    BY ShortLists
  <2>2. /\ IsArgument(Text("--output-dir")) /\ IsArgument(Text("out"))
        /\ IsArgument(Text("--output-stem")) /\ IsArgument(Text("--job-out"))
        /\ IsArgument(File(Shown(stem), "--job-out"))
    BY ArgumentFacts
  <2>3. \A i \in {1, 2, 3} : IsArgument(outputs[i][1]) /\ IsArgument(outputs[i][2])
    BY <1>3, <2>2
  <2> QED BY <2>1, <2>3 DEF PairsOK
<1>5. PairsOK(optional)
  <2>1. IsSequence(given)
    BY ColumnFacts, SubsequenceFacts
  <2> DEFINE n == Len(given)
             value(i) == get(given[i][2])
             key(i) == Text(given[i][1])
  <2>2. n \in Nat /\ DOMAIN given = 1 .. n
    BY <2>1, SequenceFacts
  <2>3. \A i \in 1 .. n : IsArgument(value(i)) /\ IsArgument(key(i))
    BY GetFacts, ArgumentFacts
  <2>4. optional = [i \in 1 .. n |-> <<key(i), value(i)>>]
    BY <2>2
  <2> HIDE DEF given, n, value, key, optional
  <2>5. optional = [i \in 1 .. n |-> optional[i]] /\ DOMAIN optional = 1 .. n
    BY <2>4
  <2>6. IsSequence(optional)
    BY <2>2, <2>5, ListIsSequence
  <2>7. \A i \in DOMAIN optional : IsArgument(optional[i][1]) /\ IsArgument(optional[i][2])
    BY <2>3, <2>4
  <2> QED BY <2>6, <2>7 DEF PairsOK
<1>6. PairsOK(last)
  <2>1. PairsOK(<<>>)
    BY ShortLists DEF PairsOK
  <2>2. PairsOK(<<<<Text("--fail-on-quality-gate"), Number(1)>>>>)
    <3> DEFINE pair == <<Text("--fail-on-quality-gate"), Number(1)>>
    <3>1. IsArgument(pair[1]) /\ IsArgument(pair[2])
      BY ArgumentFacts
    <3> HIDE DEF pair
    <3>2. IsSequence(<<pair>>) /\ DOMAIN <<pair>> = {1} /\ <<pair>>[1] = pair
      BY ShortLists
    <3>3. PairsOK(<<pair>>)
      BY <3>1, <3>2 DEF PairsOK
    <3> QED BY <3>3 DEF pair
  <2> QED BY <2>1, <2>2
<1> HIDE DEF standard, outputs, optional, last
<1>7. PairsOK(standard \o outputs)
  BY <1>2, <1>4, ConcatPairs
<1>8. PairsOK(standard \o outputs \o optional)
  BY <1>5, <1>7, ConcatPairs
<1>9. PairsOK(standard \o outputs \o optional \o last)
  BY <1>6, <1>8, ConcatPairs
<1> QED BY <1>1, <1>9, AsArgumentsFacts

\* So are those of a line of a sequence (RunSequenceFile).
LEMMA SequenceJobFacts ==
    ASSUME NEW line, AreArguments(line), NEW s, SettingsOK(s)
    PROVE  AreArguments(SequenceJob(line, s).words)
<1> DEFINE dir == IF IsSet(s, "--output-dir")
                  THEN <<Text("--output-dir"), Setting(s, "--output-dir")>> ELSE <<>>
           words == Without(line, Empty) \o dir
<1>1. SequenceJob(line, s).words = SubSeq(words, 2, Len(words))
  BY DEF SequenceJob
<1>2. AreArguments(<<>>)
  BY ShortLists DEF AreArguments
<1>3. AreArguments(<<Text("--output-dir"), Setting(s, "--output-dir")>>)
  <2> DEFINE a == Text("--output-dir")
             b == Setting(s, "--output-dir")
  <2>1. IsArgument(a) /\ IsArgument(b)
    BY ArgumentFacts DEF SettingsOK, TextKeys
  <2> HIDE DEF a, b
  <2>2. IsSequence(<<a, b>>) /\ DOMAIN <<a, b>> = {1, 2} /\ <<a, b>>[1] = a /\ <<a, b>>[2] = b
    BY ShortLists
  <2>3. AreArguments(<<a, b>>)
    BY <2>1, <2>2 DEF AreArguments
  <2> QED BY <2>3 DEF a, b
<1>4. AreArguments(dir)
  BY <1>2, <1>3
<1> HIDE DEF dir
<1>5. AreArguments(words)
  BY <1>4, PartOfArguments, ConcatArguments
<1> QED BY <1>1, <1>5, PartOfArguments

-----------------------------------------------------------------------------
\* What a preset holds that can be loaded.
PresetOK(saved) ==
    /\ DOMAIN saved \subseteq PresetKeys
    /\ \A key \in CountKeys : Setting(saved, key) \in Nat
    /\ \A key \in SequenceKeys : Setting(saved, key) \in Seq(Nat)
    /\ \A key \in LengthKeys : Setting(saved, key) \in Int

DataOK(data) == IsPreset(data) => PresetOK(data)

\* Page sequences, counts and texts that are read again are different settings;
\* no output is one of them, and no preset keeps such a text.
LEMMA KeyFacts ==
    /\ \A key \in SequenceKeys : key \notin CountKeys /\ key \notin TextKeys
                                 /\ key \in PresetKeys
                                 /\ key \notin DefaultOutputs
    /\ \A key \in TextKeys : key \notin PresetKeys /\ key \notin DefaultOutputs
    /\ \A key \in CountKeys : key \notin DefaultOutputs
    /\ \A key \in LengthKeys : /\ key \in PresetKeys /\ key \notin DefaultOutputs
                               /\ key \notin SequenceKeys /\ key \notin CountKeys
<1>1. \A key \in SequenceKeys : key \notin CountKeys /\ key \notin TextKeys
                                /\ key \in PresetKeys /\ key \notin DefaultOutputs
  BY DEF SequenceKeys, CountKeys, TextKeys, PresetKeys, DefaultOutputs
<1>2. \A key \in TextKeys : key \notin PresetKeys
  <2>1. DOMAIN LaterKeys = 1 .. 8
    BY DEF LaterKeys
  <2>2. \A i \in 1 .. 8 : LaterKeys[i] \notin TextKeys
    BY DEF LaterKeys, TextKeys
  <2>3. Range(LaterKeys) \intersect TextKeys = {}
    BY <2>1, <2>2 DEF Range
  <2>4. RequiredKeys \intersect TextKeys = {}
    BY DEF RequiredKeys, TextKeys
  <2> QED BY <1>1, <2>3, <2>4 DEF PresetKeys
<1>3. \A key \in TextKeys \union CountKeys : key \notin DefaultOutputs
  BY DEF TextKeys, CountKeys, DefaultOutputs
<1>4. ASSUME NEW key \in LengthKeys
      PROVE  /\ key \in PresetKeys /\ key \notin DefaultOutputs
             /\ key \notin SequenceKeys /\ key \notin CountKeys
  <2>1. key \notin DefaultOutputs /\ key \notin SequenceKeys /\ key \notin CountKeys
    BY DEF LengthKeys, DefaultOutputs, SequenceKeys, CountKeys
  <2>2. DOMAIN LaterKeys = 1 .. 8
    BY DEF LaterKeys
  <2>3. \/ key \in RequiredKeys
        \/ \E i \in 1 .. 8 : key = LaterKeys[i]
    <3>1. /\ LaterKeys[2] = "--pdf-trim-length" /\ LaterKeys[3] = "--pdf-trim-offset"
          /\ LaterKeys[5] = "--pdf-bleed"
      BY DEF LaterKeys
    <3>2. key \in RequiredKeys \/ key \in {"--pdf-trim-length", "--pdf-trim-offset", "--pdf-bleed"}
      BY DEF LengthKeys, RequiredKeys
    <3> QED BY <3>1, <3>2
  <2> QED BY <2>1, <2>2, <2>3 DEF PresetKeys, Range
<1> QED BY <1>1, <1>2, <1>3, <1>4

\* A setting that is dropped has its default.
LEMMA RestrictFacts ==
    ASSUME NEW s, NEW D, D \subseteq DOMAIN s, NEW key
    PROVE  /\ DOMAIN Restrict(s, D) = D
           /\ Setting(Restrict(s, D), key) = IF key \in D THEN Setting(s, key) ELSE Default(key)
BY DEF Restrict, Setting

\* Lists of pages and their items.
LEMMA ListOfItems ==
    ASSUME NEW s, NEW S, s \in Seq(S), NEW T, NEW f, f = [i \in DOMAIN s |-> f[i]],
           \A i \in DOMAIN s : f[i] \in T
    PROVE  f \in Seq(T) /\ Len(f) = Len(s)
<1> DEFINE n == Len(s)
<1>1. n \in Nat /\ DOMAIN s = 1 .. n
  BY LenProperties
<1>2. f \in [1 .. n -> T]
  BY <1>1
<1>3. f \in Seq(T)
  BY <1>1, <1>2, SeqDef
<1>4. Len(f) \in Nat /\ DOMAIN f = 1 .. Len(f)
  BY <1>3, LenProperties
<1> QED BY <1>1, <1>3, <1>4

\* Pages and the items they are written as, as people count.
LEMMA ItemFacts ==
    /\ \A page \in Nat \union {Blank} :
          ItemOfPage(page) \in Nat /\ PageOfItem(ItemOfPage(page)) = page
    /\ \A item \in Nat : PageOfItem(item) \in Nat \union {Blank}
BY PagesAssumption DEF ItemOfPage, PageOfItem

\* A length that is streamed keeps its sign, and if it is short all its digits
\* (SavePreset).
LEMMA StreamedFacts ==
    ASSUME NEW n \in Int
    PROVE  /\ Streamed(n) \in Int
           /\ Streamed(n) > 0 <=> n > 0
           /\ Streamed(n) < 0 <=> n < 0
           /\ -Precision < n /\ n < Precision => Streamed(n) = n
<1>1. Precision \in Nat /\ Precision > 12
  BY PresetAssumption
<1>2. ASSUME NEW k \in Nat, k >= Precision
      PROVE  Rounded(k) \in Nat /\ Rounded(k) > 0
  <2> DEFINE fits == {u \in Units : (Precision \div 10) * u <= k}
             unit == LastDigit(k)
             q == k \div unit
  <2>1. /\ Units \subseteq Nat \ {0} /\ IsFiniteSet(Units) /\ 1 \in Units
    BY PresetAssumption
  <2>2. Precision \div 10 \in Nat /\ Precision \div 10 >= 1 /\ Precision \div 10 <= k
    BY <1>1, <1>2
  <2>3. 1 \in fits
    BY <2>1, <2>2
  <2>4. fits \in SUBSET Nat /\ IsFiniteSet(fits) /\ fits # {}
    BY <2>1, <2>3, FS_Subset
  <2>5. unit = Max(fits)
    BY DEF LastDigit
  <2>6. unit \in fits
    BY <2>4, <2>5, MaxFacts
  <2> HIDE DEF unit
  <2>7. unit \in Nat \ {0} /\ unit <= k
    <3>1. unit \in Nat \ {0} /\ (Precision \div 10) * unit <= k
      BY <2>1, <2>6
    <3> DEFINE m == Precision \div 10
    <3> HIDE DEF m
    <3>2. m \in Nat /\ m >= 1 /\ m * unit <= k
      BY <2>2, <3>1 DEF m
    <3>3. PICK d \in Nat : m = d + 1
      <4>1. m - 1 \in Nat /\ m = (m - 1) + 1
        BY <3>2
      <4> QED BY <4>1
    <3>4. m * unit = d * unit + unit /\ d * unit \in Nat
      BY <3>1, <3>3
    <3> QED BY <1>2, <3>1, <3>2, <3>4
  <2> HIDE DEF fits
  <2>8. /\ q \in Nat /\ k % unit \in 0 .. unit - 1 /\ k = q * unit + (k % unit)
    BY <2>7, QuotientFacts
  <2>9. Rounded(k) = Nearest(k, unit)
    BY <1>1, <1>2 DEF Rounded, unit
  <2>10. Nearest(k, unit) = unit * q \/ Nearest(k, unit) = unit * (q + 1)
    BY DEF Nearest
  <2> HIDE DEF q
  <2>11. q # 0
    BY <2>7, <2>8
  <2>12. unit * q \in Nat /\ unit * q > 0 /\ unit * (q + 1) \in Nat /\ unit * (q + 1) > 0
    BY <2>7, <2>8, <2>11
  <2> QED BY <2>9, <2>10, <2>12
<1>3. ASSUME NEW k \in Nat
      PROVE  /\ Rounded(k) \in Nat /\ (Rounded(k) > 0 <=> k > 0)
             /\ k < Precision => Rounded(k) = k
  <2>1. k < Precision => Rounded(k) = k
    BY DEF Rounded
  <2> QED BY <1>1, <1>2, <2>1
<1>4. CASE n < 0
  <2>1. -n \in Nat /\ -n > 0
    BY <1>4
  <2>2. Streamed(n) = -Rounded(-n)
    BY <1>4 DEF Streamed
  <2> DEFINE k == -n
  <2>3. k \in Nat /\ k > 0 /\ n = -k /\ Streamed(n) = -Rounded(k)
    BY <2>1, <2>2
  <2> HIDE DEF k
  <2> QED BY <1>1, <1>3, <2>3
<1>5. CASE ~(n < 0)
  <2>1. Streamed(n) = Rounded(n) /\ n \in Nat
    BY <1>5 DEF Streamed
  <2> QED BY <1>1, <1>3, <2>1
<1> QED BY <1>4, <1>5

\* Presets are saved from settings plans can be made with, and read back as
\* such, with their lengths streamed (SavePreset, LoadPreset).
LEMMA WrittenFacts ==
    ASSUME NEW s, \A key \in SequenceKeys : Setting(s, key) \in PageLists
    PROVE  LET t == Written(s)
               u == ReadBack(t) IN
           /\ DOMAIN t = DOMAIN s /\ DOMAIN u = DOMAIN s
           /\ \A key \in SequenceKeys :
                 Setting(t, key) \in Seq(Nat) /\ Setting(u, key) = Setting(s, key)
           /\ \A key \in LengthKeys :
                 /\ Setting(u, key) = Setting(t, key)
                 /\ Setting(t, key) = IF key \in DOMAIN s THEN Streamed(Setting(s, key))
                                      ELSE Default(key)
           /\ \A key : key \notin SequenceKeys /\ key \notin LengthKeys =>
                 Setting(t, key) = Setting(s, key) /\ Setting(u, key) = Setting(s, key)
<1> DEFINE t == Written(s)
           u == ReadBack(t)
           items(key) == [i \in DOMAIN s[key] |-> ItemOfPage(s[key][i])]
           pages(key) == [i \in DOMAIN t[key] |-> PageOfItem(t[key][i])]
<1>1. /\ DOMAIN t = DOMAIN s
      /\ \A key \in DOMAIN s :
            t[key] = IF key \in SequenceKeys THEN items(key)
                     ELSE IF key \in LengthKeys THEN Streamed(s[key])
                     ELSE s[key]
  BY DEF Written
<1>2. /\ DOMAIN u = DOMAIN t
      /\ \A key \in DOMAIN t : u[key] = IF key \in SequenceKeys THEN pages(key) ELSE t[key]
  BY DEF ReadBack
<1> HIDE DEF t, u
<1>3. \A key : key \notin SequenceKeys =>
         /\ Setting(u, key) = Setting(t, key)
         /\ key \notin LengthKeys => Setting(t, key) = Setting(s, key)
         /\ key \in LengthKeys =>
               Setting(t, key) = IF key \in DOMAIN s THEN Streamed(Setting(s, key))
                                 ELSE Default(key)
  BY <1>1, <1>2 DEF Setting
<1>4. ASSUME NEW key \in SequenceKeys
      PROVE  Setting(t, key) \in Seq(Nat) /\ Setting(u, key) = Setting(s, key)
  <2>1. CASE key \notin DOMAIN s
    <3>1. Setting(t, key) = <<>> /\ Setting(u, key) = Setting(s, key)
      BY <1>1, <1>2, <2>1, DefaultFacts DEF Setting
    <3> QED BY <3>1, EmptySeq
  <2>2. CASE key \in DOMAIN s
    <3> DEFINE old == s[key]
               f == t[key]
               g == u[key]
    <3>1. /\ Setting(s, key) = old /\ Setting(t, key) = f /\ Setting(u, key) = g
          /\ old \in Seq(Nat \union {Blank})
      BY <1>1, <1>2, <2>2 DEF Setting, PageLists
    <3>2. f = [i \in DOMAIN old |-> ItemOfPage(old[i])] /\ g = [i \in DOMAIN f |-> PageOfItem(f[i])]
      BY <1>1, <1>2, <2>2
    <3> HIDE DEF old, f, g
    <3>3. old \in [1 .. Len(old) -> Nat \union {Blank}] /\ DOMAIN old = 1 .. Len(old)
      BY <3>1, LenProperties
    <3>4. \A i \in DOMAIN old : old[i] \in Nat \union {Blank}
      BY <3>3
    <3>5. f = [i \in DOMAIN old |-> f[i]] /\ \A i \in DOMAIN old : f[i] \in Nat
      BY <3>2, <3>4, ItemFacts
    <3>6. f \in Seq(Nat)
      BY ONLY <3>1, <3>5, ListOfItems
    <3>7. g = [i \in DOMAIN old |-> old[i]]
      <4>1. \A i \in DOMAIN old : PageOfItem(ItemOfPage(old[i])) = old[i]
        BY <3>4, ItemFacts
      <4>2. DOMAIN f = DOMAIN old /\ \A i \in DOMAIN old : f[i] = ItemOfPage(old[i])
        BY <3>2
      <4>3. DOMAIN g = DOMAIN old /\ \A i \in DOMAIN old : g[i] = old[i]
        BY <3>2, <4>1, <4>2
      <4>4. g = [i \in DOMAIN g |-> g[i]]
        BY <3>2
      <4> QED BY <4>3, <4>4
    <3>8. g = old
      BY <3>3, <3>7
    <3> QED BY <3>1, <3>6, <3>8
  <2> QED BY <2>1, <2>2
<1>5. DOMAIN u = DOMAIN s
  BY <1>1, <1>2
<1>6. \A key \in LengthKeys : key \notin SequenceKeys
  BY KeyFacts
<1> QED BY <1>1, <1>3, <1>4, <1>5, <1>6 DEF t, u

\* What is saved from settings plans can be made with is a preset of such ones
\* (SavePreset).
LEMMA SavedFacts ==
    ASSUME NEW s, SettingsOK(s)
    PROVE  PresetOK(SavePreset(s))
<1> DEFINE D == DOMAIN s \intersect PresetKeys
           r == Restrict(s, D)
           t == Written(r)
<1>1. DOMAIN r = D /\ \A key : Setting(r, key) = IF key \in D THEN Setting(s, key) ELSE Default(key)
  BY RestrictFacts
<1>2. D \subseteq PresetKeys /\ SavePreset(s) = t
  BY DEF SavePreset
<1> HIDE DEF r, D
<1>3. \A key \in SequenceKeys : Setting(r, key) \in PageLists
  <2>1. <<>> \in PageLists
    BY EmptySeq DEF PageLists
  <2> QED BY <1>1, <2>1, DefaultFacts DEF SettingsOK
<1>4. \A key \in CountKeys : Setting(r, key) \in Nat
  BY <1>1, DefaultFacts DEF SettingsOK
<1>5. /\ DOMAIN t = DOMAIN r
      /\ \A key : key \notin SequenceKeys /\ key \notin LengthKeys
                   => Setting(t, key) = Setting(r, key)
      /\ \A key \in LengthKeys :
            Setting(t, key) = IF key \in DOMAIN r THEN Streamed(Setting(r, key)) ELSE Default(key)
      /\ \A key \in SequenceKeys : Setting(t, key) \in Seq(Nat)
  BY <1>3, WrittenFacts
<1> HIDE DEF t
<1>7. \A key \in LengthKeys : Setting(t, key) \in Int
  <2>1. \A key \in LengthKeys : Default(key) \in Int
    BY DefaultFacts
  <2>2. \A key \in LengthKeys : key \in DOMAIN r => Setting(r, key) \in Int
    BY <1>1 DEF SettingsOK
  <2> QED BY <1>5, <2>1, <2>2, StreamedFacts
<1>6. PresetOK(t)
  BY <1>1, <1>2, <1>4, <1>5, <1>7, KeyFacts DEF PresetOK
<1> QED BY <1>2, <1>6

\* What is loaded from such a preset are settings plans can be made with
\* (LoadPreset).
LEMMA LoadedFacts ==
    ASSUME NEW saved, PresetOK(saved)
    PROVE  SettingsOK(LoadPreset(saved))
<1> DEFINE u == ReadBack(saved)
           pages(key) == [i \in DOMAIN saved[key] |-> PageOfItem(saved[key][i])]
<1>1. /\ DOMAIN u = DOMAIN saved /\ LoadPreset(saved) = u
      /\ \A key \in DOMAIN saved :
            u[key] = IF key \in SequenceKeys THEN pages(key) ELSE saved[key]
  BY DEF ReadBack, LoadPreset
<1> HIDE DEF u
<1>2. \A key \in CountKeys : Setting(u, key) \in Nat
  BY <1>1, KeyFacts DEF Setting, PresetOK
<1>3. \A key \in TextKeys : IsArgument(Setting(u, key))
  BY <1>1, KeyFacts, DefaultFacts, ArgumentFacts DEF Setting, PresetOK
<1>4. ASSUME NEW key \in SequenceKeys
      PROVE  Setting(u, key) \in PageLists
  <2>1. CASE key \notin DOMAIN saved
    BY <1>1, <2>1, DefaultFacts, EmptySeq DEF Setting, PageLists
  <2>2. CASE key \in DOMAIN saved
    <3> DEFINE old == saved[key]
               f == u[key]
    <3>1. old \in Seq(Nat) /\ Setting(u, key) = f
      BY <1>1, <2>2 DEF Setting, PresetOK
    <3>2. f = [i \in DOMAIN old |-> PageOfItem(old[i])]
      BY <1>1, <2>2
    <3> HIDE DEF old, f
    <3>3. \A i \in DOMAIN old : old[i] \in Nat
      <4>1. old \in [1 .. Len(old) -> Nat] /\ DOMAIN old = 1 .. Len(old)
        BY <3>1, LenProperties
      <4> QED BY <4>1
    <3>4. f = [i \in DOMAIN old |-> f[i]] /\ \A i \in DOMAIN old : f[i] \in Nat \union {Blank}
      BY <3>2, <3>3, ItemFacts
    <3>5. f \in Seq(Nat \union {Blank})
      BY ONLY <3>1, <3>4, ListOfItems
    <3> QED BY <3>1, <3>5 DEF PageLists
  <2> QED BY <2>1, <2>2
<1>5. \A key \in LengthKeys : Setting(u, key) \in Int
  BY <1>1, KeyFacts DEF Setting, PresetOK
<1> QED BY <1>1, <1>2, <1>3, <1>4, <1>5 DEF SettingsOK

\* Such a preset stays one when it is cut off.
LEMMA CutFacts ==
    ASSUME NEW saved, PresetOK(saved), NEW lines
    PROVE  PresetOK(CutOff(saved, lines))
<1> DEFINE D == DOMAIN saved \ Range(SubSeq(LaterKeys, lines + 1, Len(LaterKeys)))
           r == Restrict(saved, D)
<1>1. /\ CutOff(saved, lines) = r /\ D \subseteq DOMAIN saved
      /\ DOMAIN r = D
      /\ \A key : Setting(r, key) = IF key \in D THEN Setting(saved, key) ELSE Default(key)
  BY RestrictFacts DEF CutOff
<1> HIDE DEF D, r
<1>2. \A key \in SequenceKeys : Default(key) \in Seq(Nat)
  BY DefaultFacts, EmptySeq
<1>3. PresetOK(r)
  BY <1>1, <1>2, DefaultFacts DEF PresetOK
<1> QED BY <1>1, <1>3

-----------------------------------------------------------------------------
\* Filling in the outputs leaves the other settings alone.
LEMMA ScaffoldedKeeps ==
    ASSUME NEW mode, NEW s, NEW key, key \notin DefaultOutputs
    PROVE  Setting(Scaffolded(mode, s), key) = Setting(s, key)
<1> DEFINE t == Scaffolded(mode, s)
<1>1. \/ t = s
      \/ /\ DOMAIN t = DOMAIN s \union DefaultOutputs
         /\ key \in DOMAIN t => t[key] = Setting(s, key)
  BY DEF Scaffolded
<1> HIDE DEF t
<1>2. Setting(t, key) = Setting(s, key)
  BY <1>1 DEF Setting
<1> QED BY <1>2 DEF t

\* Settings stay so when outputs get their default paths (main).
LEMMA ScaffoldedOK ==
    ASSUME NEW mode, NEW s, SettingsOK(s)
    PROVE  SettingsOK(Scaffolded(mode, s))
<1>1. \A key \in CountKeys \union SequenceKeys \union TextKeys \union LengthKeys :
         Setting(Scaffolded(mode, s), key) = Setting(s, key)
  BY KeyFacts, ScaffoldedKeeps
<1> QED BY <1>1 DEF SettingsOK

\* Pages with blank pages put in between.
LEMMA InsertedFacts ==
    ASSUME NEW pages \in PageLists, NEW at \in 0 .. Len(pages), NEW count \in Nat
    PROVE  Inserted(pages, at, Blanks(count)) \in PageLists
<1> DEFINE n == Len(pages)
           S == Nat \union {Blank}
           blanks == Blanks(count)
           front == SubSeq(pages, 1, at)
           back == SubSeq(pages, at + 1, n)
<1>1. n \in Nat /\ \A i \in 1 .. n : pages[i] \in S
  BY LenProperties DEF PageLists
<1>2. at \in Nat /\ at + 1 \in Int /\ n \in Int /\ 1 \in Int /\ at \in Int
  BY <1>1
<1>3. (\A i \in 1 .. at : pages[i] \in S) /\ (\A i \in at + 1 .. n : pages[i] \in S)
  BY <1>1
<1>4. blanks \in Seq(S)
  <2>1. blanks = [i \in 1 .. count |-> Blank]
    BY DEF Blanks
  <2>2. blanks \in [1 .. count -> S]
    BY <2>1
  <2> QED BY <2>2, SeqDef
<1>5. Inserted(pages, at, blanks) = front \o blanks \o back
  BY DEF Inserted
<1> HIDE DEF S, n, blanks
<1>6. front \in Seq(S)
  BY <1>2, <1>3, SubSeqProperties
<1>7. back \in Seq(S)
  <2> DEFINE m == at + 1
  <2> HIDE DEF m
  <2>1. SubSeq(pages, m, n) \in Seq(S)
    BY <1>2, <1>3, SubSeqProperties DEF m
  <2> QED BY <2>1 DEF m
<1> HIDE DEF front, back
<1>8. front \o blanks \in Seq(S)
  BY <1>4, <1>6, ConcatProperties
<1>9. front \o blanks \o back \in Seq(S)
  BY <1>7, <1>8, ConcatProperties
<1> QED BY <1>5, <1>9 DEF PageLists, S, blanks

\* With blank pages inserted the pages are a list of pages and blanks, as long as
\* insert-file inserts within the document (main).
LEMMA InsertSequenceFacts ==
    ASSUME NEW mode \in InsertModes, NEW s, SettingsOK(s),
           mode = "insert-file" => Setting(s, "--insert-at") <= Setting(s, "--pages")
    PROVE  InsertSequence(mode, s) \in PageLists
<1> DEFINE at == Setting(s, "--insert-at")
           count == Setting(s, "--insert-count")
           multiple == Setting(s, "--pad-multiple")
           n == Setting(s, "--pages")
           pages == AllPagesOf(s)
<1>1. at \in Nat /\ count \in Nat /\ multiple \in Nat /\ n \in Nat
  BY DEF SettingsOK, CountKeys
<1>2. pages \in PageLists /\ Len(pages) = n
  <2>1. pages = [i \in 1 .. n |-> i - 1]
    BY DEF AllPagesOf
  <2> HIDE DEF n, pages
  <2>2. pages \in [1 .. n -> Nat \union {Blank}]
    BY <1>1, <2>1
  <2>3. pages \in PageLists
    BY <1>1, <2>2, SeqDef DEF PageLists
  <2>4. pages = [i \in 1 .. n |-> pages[i]]
    BY <2>1
  <2>5. Len(pages) = n
    BY <1>1, <2>4, ListIsSequence
  <2> QED BY <2>3, <2>5
<1>3. mode \in {"insert-blank", "insert-file", "insert-conditional"}
  BY DEF InsertModes
<1>4. /\ mode = "insert-blank" => InsertSequence(mode, s) = InsertBlankPages(pages, at, count)
      /\ mode = "insert-file" => InsertSequence(mode, s) = InsertFile(pages, at, count)
      /\ mode = "insert-conditional" =>
            InsertSequence(mode, s) =
               IF multiple > 0 THEN PaddedTo(pages, multiple)
               ELSE InsertConditional(pages, at, count, Setting(s, "--filter"))
  BY DEF InsertSequence
<1>5. mode = "insert-file" => at <= n
  OBVIOUS
<1> HIDE DEF at, count, multiple, n, pages
<1>6. \A k \in 0 .. n : Inserted(pages, k, Blanks(count)) \in PageLists
  BY <1>1, <1>2, InsertedFacts
<1>7. CASE mode = "insert-blank"
  <2>1. Least(at, n) \in 0 .. n
    BY <1>1 DEF Least
  <2> QED BY <1>2, <1>4, <1>6, <1>7, <2>1 DEF InsertBlankPages
<1>8. CASE mode = "insert-file"
  <2>1. at \in 0 .. n
    BY <1>1, <1>5, <1>8
  <2> QED BY <1>4, <1>6, <1>8, <2>1 DEF InsertFile
<1>9. CASE mode = "insert-conditional"
  <2>1. PaddedTo(pages, multiple) \in PageLists
    <3> DEFINE S == Nat \union {Blank}
    <3>1. Blank \in S /\ pages \in Seq(S)
      BY <1>2 DEF PageLists
    <3> HIDE DEF S
    <3>2. PaddedTo(pages, multiple) \in Seq(S)
      BY <1>1, <3>1, PaddingFacts
    <3> QED BY <3>2 DEF PageLists, S
  <2>2. \A filter : InsertConditional(pages, at, count, filter) \in PageLists
    <3>1. at < n => at \in 0 .. n
      BY <1>1
    <3> QED BY <1>2, <1>6, <3>1 DEF InsertConditional
  <2> QED BY <1>4, <1>9, <2>1, <2>2
<1> QED BY <1>3, <1>7, <1>8, <1>9

\* A list of pages that main reads (ParsePageSequenceCsv).
LEMMA PageSequenceFacts ==
    ASSUME NEW value, IsArgument(value), IsPageSequence(value)
    PROVE  PageSequence(value) \in PageLists
<1>1. CASE value.kind = "number"
  <2> DEFINE page == PageOfItem(value.number)
  <2>1. value.number \in Nat
    BY <1>1, PagesAssumption DEF IsPageSequence
  <2>2. page \in Nat \union {Blank}
    BY <2>1, ItemFacts
  <2>3. PageSequence(value) = <<page>>
    BY <1>1 DEF PageSequence
  <2> HIDE DEF page
  <2> QED BY <2>2, <2>3 DEF PageLists
<1>2. CASE value.kind # "number"
  <2> DEFINE items == value.items
             f == PageSequence(value)
  <2>1. /\ value.kind = "list" /\ \A item \in Range(items) : item.number \in 0 .. Word - 1
        /\ items \in Seq(Range(items))
    BY <1>2 DEF IsPageSequence, IsArgument, IsSequence
  <2>2. f = [i \in DOMAIN items |-> PageOfItem(items[i].number)]
    BY <1>2 DEF PageSequence
  <2>3. \A i \in DOMAIN items : items[i].number \in Nat
    BY <2>1, PagesAssumption DEF Range
  <2>4. \A i \in DOMAIN items : PageOfItem(items[i].number) \in Nat \union {Blank}
    BY <2>3, ItemFacts
  <2> HIDE DEF items, f
  <2>5. f = [i \in DOMAIN items |-> f[i]] /\ \A i \in DOMAIN items : f[i] \in Nat \union {Blank}
    BY <2>2, <2>4
  <2>6. items \in Seq(Range(items))
    BY <2>1
  <2>7. f \in Seq(Nat \union {Blank})
    BY ONLY <2>5, <2>6, ListOfItems
  <2> QED BY <2>7 DEF PageLists, f
<1> QED BY <1>1, <1>2

\* main reads its sequences only when they are such lists.
LEMMA SequencedOK ==
    ASSUME NEW mode, NEW s, SettingsOK(s), SequenceFits(s), Given(mode, s),
           mode = "insert-file" => Setting(s, "--insert-at") <= Setting(s, "--pages")
    PROVE  SettingsOK(Sequenced(mode, s))
<1> DEFINE t == Sequenced(mode, s)
           inserts == mode \in InsertModes
           explicit == inserts \/ IsSet(s, "--page-sequence")
           manual == mode = "manual" /\ IsSet(s, "--manual-sequence")
<1>1. \A key \in CountKeys \union TextKeys \union LengthKeys : Setting(t, key) = Setting(s, key)
  <2>1. \A key \in CountKeys \union TextKeys \union LengthKeys : key \notin {"explicit", "manual"}
    BY DEF CountKeys, TextKeys, LengthKeys
  <2> QED BY <2>1, SequencedFacts
<1>2. Setting(t, "explicit")
        = IF ~explicit THEN Setting(s, "explicit")
          ELSE IF inserts THEN InsertSequence(mode, s)
          ELSE PageSequence(Setting(s, "--page-sequence"))
  <2>1. explicit => "explicit" \in DOMAIN t
                    /\ t["explicit"] = IF inserts THEN InsertSequence(mode, s)
                                       ELSE PageSequence(Setting(s, "--page-sequence"))
    BY DEF Sequenced
  <2>2. ~explicit => /\ "explicit" \in DOMAIN t <=> "explicit" \in DOMAIN s
                     /\ "explicit" \in DOMAIN s => t["explicit"] = s["explicit"]
    BY DEF Sequenced
  <2> HIDE DEF t, explicit, inserts
  <2> QED BY <2>1, <2>2 DEF Setting
<1>3. Setting(t, "manual")
        = IF ~manual THEN Setting(s, "manual") ELSE PageSequence(Setting(s, "--manual-sequence"))
  <2>1. manual => "manual" \in DOMAIN t
                  /\ t["manual"] = PageSequence(Setting(s, "--manual-sequence"))
    BY DEF Sequenced
  <2>2. ~manual => /\ "manual" \in DOMAIN t <=> "manual" \in DOMAIN s
                   /\ "manual" \in DOMAIN s => t["manual"] = s["manual"]
    BY DEF Sequenced
  <2> HIDE DEF t, manual
  <2> QED BY <2>1, <2>2 DEF Setting
<1>4. /\ Setting(s, "explicit") \in PageLists /\ Setting(s, "manual") \in PageLists
      /\ IsArgument(Setting(s, "--page-sequence")) /\ IsArgument(Setting(s, "--manual-sequence"))
  BY DEF SettingsOK, SequenceKeys, TextKeys
<1>5. explicit /\ ~inserts => PageSequence(Setting(s, "--page-sequence")) \in PageLists
  BY <1>4, PageSequenceFacts DEF SequenceFits
<1>6. manual => PageSequence(Setting(s, "--manual-sequence")) \in PageLists
  <2>1. manual => IsPageSequence(Setting(s, "--manual-sequence"))
    BY DEF Given
  <2> HIDE DEF manual
  <2> QED BY <1>4, <2>1, PageSequenceFacts
<1>7. inserts => InsertSequence(mode, s) \in PageLists
  BY InsertSequenceFacts
<1> HIDE DEF t, explicit, manual, inserts
<1>8. Setting(t, "explicit") \in PageLists /\ Setting(t, "manual") \in PageLists
  BY <1>2, <1>3, <1>4, <1>5, <1>6, <1>7
<1>9. SettingsOK(t)
  BY <1>1, <1>8 DEF SettingsOK, SequenceKeys
<1> QED BY <1>9 DEF t

-----------------------------------------------------------------------------
\* insert-file does not insert beyond the end of the document, which is
\* undefined in the code (main).
InsertsFit(process) ==
    process.mode = "insert-file"
        => Setting(process.settings, "--insert-at") <= Setting(process.settings, "--pages")

\* The cells of step-repeat can be numbered in 32 bits (StepAndRepeatPlanner).
RepeatsFit(process) ==
    process.mode = "step-repeat"
        => Setting(process.settings, "--repeat-x") * Setting(process.settings, "--repeat-y")
              <= Word

\* What a process plans with is within these bounds.
InputsInRange == child # NoProcess => InsertsFit(child) /\ RepeatsFit(child)

\* The calls to come have arguments.
CallsOK ==
    /\ DOMAIN session = {"calls", "faults", "drops"} /\ IsSequence(session.calls)
    /\ \A i \in DOMAIN session.calls : AreArguments(session.calls[i].words)

\* So do the lines of a batch or a sequence.
LinesOK ==
    parent # NoRun => /\ IsSequence(parent.lines)
                      /\ \A i \in DOMAIN parent.lines : AreArguments(parent.lines[i].words)

\* What can be loaded as a preset are settings plans can be made with.
PresetsOK == \A path \in DOMAIN disk : DataOK(disk[path].data)

\* A process has the plan of its settings, with which it can be made.
PlannedOK(process) ==
    /\ DOMAIN process = ProcessFields
    /\ SettingsOK(process.settings)
    /\ process.mode \in PlanModes => process.plan = PlanFor(process.mode, process.settings)
    /\ process.mode = "variable-data" => DataSetLoads(Setting(process.settings, "--variable-csv"))

PlanOK == child # NoProcess => PlannedOK(child)

\* Wherever settings come from, plans can be made with them and are.
SettingsInv == RunInv /\ CallsOK /\ LinesOK /\ PresetsOK /\ PlanOK

\* Without settings there are the defaults.
LEMMA NoSettingsOK ==
    SettingsOK(<<>>)
<1>1. DOMAIN <<>> = {}
  OBVIOUS
<1>2. \A key : Setting(<<>>, key) = Default(key)
  BY <1>1 DEF Setting
<1>3. /\ \A key \in CountKeys : Setting(<<>>, key) \in Nat
      /\ \A key \in LengthKeys : Setting(<<>>, key) \in Int
  BY <1>2, DefaultFacts
<1>4. \A key \in TextKeys : IsArgument(Setting(<<>>, key))
  BY <1>2, DefaultFacts, ArgumentFacts
<1>5. \A key \in SequenceKeys : Setting(<<>>, key) \in PageLists
  BY <1>2, DefaultFacts, EmptySeq DEF PageLists
<1> QED BY <1>3, <1>4, <1>5 DEF SettingsOK

\* A process that has ended without a plan owes none.
LEMMA EndedPlanned ==
    ASSUME NEW id, NEW exit
    PROVE  PlannedOK(Ended(id, exit))
<1> DEFINE process == Process(id, "none", <<>>, PlanOf(Size(0, 0), 0, {}), <<>>, exit)
<1>1. Ended(id, exit) = process
  BY DEF Ended
<1>2. DOMAIN process = ProcessFields /\ process.mode = "none" /\ process.settings = <<>>
  BY ProcessFacts
<1>3. "none" \notin PlanModes
  BY DEF PlanModes, InsertModes, StickModes
<1> HIDE DEF process
<1> QED BY <1>1, <1>2, <1>3, NoSettingsOK DEF PlannedOK

\* main plans from settings a plan can be made with (main).
LEMMA MainPlanned ==
    ASSUME NEW id, NEW mode, NEW words, AreArguments(words), NEW preset, SettingsOK(preset),
           InsertsFit(Main(id, mode, words, preset))
    PROVE  PlannedOK(Main(id, mode, words, preset))
<1> DEFINE args == Arguments(mode, words)
           s == Scaffolded(mode, Settings(args, preset))
           known == Sequenced(mode, s)
           plan == PlanFor(mode, known)
           early == Process(id, mode, s, PlanOf(SheetOf(s), 0, {}), OutputsOf(mode, s), 0)
           planned == Process(id, mode, known, plan, OutputsOf(mode, known), ExitCode(plan, known))
           main == Main(id, mode, words, preset)
<1>1. \/ main = Ended(id, 1) \/ main = Ended(id, 0)
      \/ Readable(args) /\ mode \in EarlyModes /\ main = early
      \/ Readable(args) /\ SequenceFits(s) /\ Given(mode, s) /\ main = planned
  BY DEF Main, Stops
<1>2. Readable(args) => SettingsOK(s)
  BY WordsFacts, SettingsAreOK, ScaffoldedOK
<1>3. mode \in EarlyModes => mode \notin PlanModes /\ mode # "variable-data"
  BY DEF EarlyModes, PlanModes, InsertModes, StickModes
<1>4. InsertsFit(main)
  OBVIOUS
<1> HIDE DEF args, s, main
<1>5. CASE Readable(args) /\ mode \in EarlyModes /\ main = early
  <2>1. DOMAIN early = ProcessFields /\ early.mode = mode /\ early.settings = s
    BY ProcessFacts
  <2> HIDE DEF early
  <2> QED BY <1>2, <1>3, <1>5, <2>1 DEF PlannedOK, main
<1>6. CASE Readable(args) /\ SequenceFits(s) /\ Given(mode, s) /\ main = planned
  <2>1. /\ DOMAIN planned = ProcessFields /\ planned.mode = mode /\ planned.settings = known
        /\ planned.plan = plan
    BY ProcessFacts
  <2>2. /\ Setting(known, "--insert-at") = Setting(s, "--insert-at")
        /\ Setting(known, "--pages") = Setting(s, "--pages")
        /\ Setting(known, "--variable-csv") = Setting(s, "--variable-csv")
    BY SequencedFacts
  <2> HIDE DEF planned, known
  <2>3. mode = "insert-file" => Setting(s, "--insert-at") <= Setting(s, "--pages")
    BY <1>4, <1>6, <2>1, <2>2 DEF InsertsFit
  <2>4. SettingsOK(known)
    BY <1>2, <1>6, <2>3, SequencedOK DEF known
  <2>5. mode = "variable-data" => DataSetLoads(Setting(known, "--variable-csv"))
    BY <1>6, <2>2 DEF Given
  <2> QED BY <1>6, <2>1, <2>4, <2>5 DEF PlannedOK, main
<1> QED BY <1>1, <1>5, <1>6, EndedPlanned DEF main

\* Presets that can be loaded make such settings.
LEMMA PresetsAreOK ==
    ASSUME PresetsOK, NEW path, NEW preset \in PresetsAt(path)
    PROVE  SettingsOK(preset)
<1>1. CASE path = Empty
  BY <1>1, NoSettingsOK DEF PresetsAt
<1>2. CASE path # Empty
  <2> DEFINE saved == disk[path].data
  <2>1. path \in DOMAIN disk /\ IsPreset(saved)
    BY <1>2 DEF PresetsAt
  <2>2. PresetOK(saved)
    BY <2>1 DEF PresetsOK, DataOK
  <2>3. preset = LoadPreset(saved) \/ \E lines : preset = LoadPreset(CutOff(saved, lines))
    BY <1>2, <2>1 DEF PresetsAt
  <2> HIDE DEF saved
  <2>4. \A lines : PresetOK(CutOff(saved, lines))
    BY <2>2, CutFacts
  <2> QED BY <2>2, <2>3, <2>4, LoadedFacts
<1> QED BY <1>1, <1>2

\* A process that is started has the plan of its settings.
LEMMA StartedPlanned ==
    ASSUME PresetsOK, NEW mode, NEW words, AreArguments(words), StartMain(mode, words),
           InsertsFit(child')
    PROVE  PlannedOK(child')
<1>1. \/ child' = Ended(jobs + 1, 1)
      \/ \E preset \in PresetsAt(LoadPresetPath(words)) :
            child' = Main(jobs + 1, mode, words, preset)
  BY DEF StartMain
<1>2. ASSUME NEW preset \in PresetsAt(LoadPresetPath(words)),
             child' = Main(jobs + 1, mode, words, preset)
      PROVE  PlannedOK(child')
  <2>1. SettingsOK(preset)
    BY PresetsAreOK
  <2>2. InsertsFit(Main(jobs + 1, mode, words, preset))
    BY <1>2
  <2>3. PlannedOK(Main(jobs + 1, mode, words, preset))
    BY <2>1, <2>2, MainPlanned
  <2> QED BY <1>2, <2>3
<1> QED BY <1>1, <1>2, EndedPlanned

\* Of what main writes only a preset has the size of a sheet, which LoadPreset
\* needs.
LEMMA NoPresets ==
    /\ \A data : "--sheet-width" \notin DOMAIN data => DataOK(data)
    /\ \A status : DataOK([gate |-> status])
    /\ \A marks : DataOK([marks |-> marks])
    /\ DataOK(<<>>)
    /\ \A run : DataOK(Report(run))
    /\ \A s : DataOK(PlanWatched(s))
<1>1. ASSUME NEW data, "--sheet-width" \notin DOMAIN data
      PROVE  DataOK(data)
  <2>1. Setting(data, "--sheet-width") = 0
    BY <1>1, DefaultFacts DEF Setting
  <2> QED BY <2>1 DEF DataOK, IsPreset
<1>2. \A status : "--sheet-width" \notin DOMAIN [gate |-> status]
  OBVIOUS
<1>3. \A marks : "--sheet-width" \notin DOMAIN [marks |-> marks]
  OBVIOUS
<1>4. "--sheet-width" \notin DOMAIN <<>>
  OBVIOUS
<1>5. \A run : "--sheet-width" \notin DOMAIN Report(run)
  BY DEF Report
<1>6. \A s : "--sheet-width" \notin DOMAIN PlanWatched(s)
  <2>1. \A a, b, c : "--sheet-width" \notin DOMAIN PlanOf(a, b, c)
    BY DEF PlanOf
  <2> QED BY <2>1 DEF PlanWatched, PlanFor
<1> QED BY <1>1, <1>2, <1>3, <1>4, <1>5, <1>6

\* No output but a preset can be loaded as one, and that is a good one.
LEMMA DataFacts ==
    ASSUME SettingsOK(child.settings), NEW option
    PROVE  DataOK(DataOf(option))
<1>1. \/ DataOf(option) = SavePreset(child.settings)
      \/ \E status : DataOf(option) = [gate |-> status]
      \/ \E marks : DataOf(option) = [marks |-> marks]
      \/ DataOf(option) = <<>>
  BY DEF DataOf
<1>2. DataOK(SavePreset(child.settings))
  BY SavedFacts DEF DataOK
<1> QED BY <1>1, <1>2, NoPresets

\* A file with such data leaves the presets as they should be.
LEMMA WriteKeepsPresets ==
    ASSUME PresetsOK, NEW path, NEW job, NEW whole, NEW data, DataOK(data),
           Write(path, Content(job, whole, data))
    PROVE  PresetsOK'
<1>1. Content(job, whole, data).data = data
  BY DEF Content
<1>2. ASSUME NEW file \in DOMAIN disk'
      PROVE  DataOK(disk'[file].data)
  <2>1. \/ disk'[file] = Content(job, whole, data)
        \/ file \in DOMAIN disk /\ disk'[file] = disk[file]
    BY DEF Write
  <2> QED BY <1>1, <2>1 DEF PresetsOK
<1> QED BY <1>2 DEF PresetsOK

\* So does every output of a process.
LEMMA LeaveKeepsPresets ==
    ASSUME PresetsOK, SettingsOK(child.settings), NEW whole, Leave(whole)
    PROVE  PresetsOK'
BY DataFacts, WriteKeepsPresets DEF Leave

\* A fault changes none of the calls to come.
LEMMA FaultKeepsCalls ==
    ASSUME CallsOK, Fault \/ UNCHANGED session
    PROVE  CallsOK'
<1>1. CASE Fault
  <2>1. /\ session' = [session EXCEPT !.faults = @ - 1]
        /\ DOMAIN session = {"calls", "faults", "drops"}
    BY <1>1 DEF Fault, CallsOK
  <2>2. DOMAIN session' = DOMAIN session /\ session'.calls = session.calls
    BY <2>1
  <2> QED BY <2>2 DEF CallsOK
<1> QED BY <1>1 DEF CallsOK

\* A call is taken from those to come.
LEMMA CallKeepsCalls ==
    ASSUME CallsOK, NEW modes, Calls(modes)
    PROVE  CallsOK' /\ AreArguments(CallOf.words)
<1> DEFINE s == session.calls
           t == Tail(s)
           n == Len(s)
<1>1. /\ DOMAIN session = {"calls", "faults", "drops"} /\ IsSequence(s) /\ s # <<>>
      /\ \A i \in DOMAIN s : AreArguments(s[i].words)
      /\ session' = [session EXCEPT !.calls = t]
  BY DEF CallsOK, Calls
<1>2. DOMAIN session' = DOMAIN session /\ session'.calls = t
  BY <1>1
<1> HIDE DEF s
<1>3. n \in Nat /\ DOMAIN s = 1 .. n /\ s \in Seq(Range(s))
  BY <1>1, SequenceFacts DEF IsSequence
<1>4. n \in Nat \ {0} /\ t \in Seq(Range(s)) /\ Len(t) = n - 1
      /\ \A i \in 1 .. Len(t) : t[i] = s[i + 1]
  BY <1>1, <1>3, HeadTailProperties, EmptySeq
<1>5. Head(s) = s[1] /\ 1 \in DOMAIN s
  BY <1>3, <1>4
<1> HIDE DEF t, n
<1>6. Len(t) \in Nat /\ DOMAIN t = 1 .. Len(t) /\ t \in [1 .. Len(t) -> Range(s)]
  BY <1>4, LenProperties
<1>7. t = [i \in 1 .. Len(t) |-> t[i]]
  BY <1>6
<1>8. IsSequence(t)
  BY <1>6, <1>7, ListIsSequence
<1>9. \A i \in DOMAIN t : AreArguments(t[i].words)
  BY <1>1, <1>3, <1>4, <1>6
<1>10. CallsOK'
  BY <1>1, <1>2, <1>8, <1>9 DEF CallsOK
<1>11. AreArguments(CallOf.words)
  BY <1>1, <1>5 DEF CallOf, s
<1> QED BY <1>10, <1>11

\* The lines of a batch and of a sequence (RunBatchMode, RunSequenceFile).
LEMMA CallSettingsFacts ==
    ASSUME AreArguments(CallOf.words)
    PROVE  SettingsOK(CallSettings)
BY WordsFacts, SettingsAreOK, NoSettingsOK DEF CallSettings

\* The rows of a table are lists of arguments, and none is empty.
LEMMA RowFacts ==
    ASSUME NEW name \in DOMAIN Tables
    PROVE  /\ IsSequence(Tables[name].header)
           /\ IsSequence(RowsOf(Tables[name]))
           /\ \A k \in DOMAIN RowsOf(Tables[name]) :
                 AreArguments(RowsOf(Tables[name])[k]) /\ RowsOf(Tables[name])[k] # <<>>
<1> DEFINE table == Tables[name]
           rows == RowsOf(table)
           places == {i \in DOMAIN table.rows : table.rows[i] # <<>>}
<1>1. /\ IsSequence(table.header) /\ IsSequence(table.rows)
      /\ \A i \in DOMAIN table.rows : AreArguments(table.rows[i])
  BY TablesAssumption
<1>2. rows = Subsequence(table.rows, places) /\ places \subseteq DOMAIN table.rows
      /\ \A i \in places : table.rows[i] # <<>>
  BY DEF RowsOf, Without
<1> HIDE DEF rows, places
<1>3. IsSequence(rows) /\ \A k \in DOMAIN rows : \E i \in places : rows[k] = table.rows[i]
  BY <1>1, <1>2, SubsequenceFacts
<1>4. \A k \in DOMAIN rows : AreArguments(rows[k]) /\ rows[k] # <<>>
  BY <1>1, <1>2, <1>3
<1> QED BY <1>1, <1>3, <1>4 DEF rows

\* The jobs of a batch have arguments (RunBatchMode).
LEMMA BatchLines ==
    ASSUME NEW s, BatchStarts(s)
    PROVE  /\ IsSequence(BatchJobs(s))
           /\ \A i \in DOMAIN BatchJobs(s) : AreArguments(BatchJobs(s)[i].words)
<1> DEFINE name == Setting(s, "--batch-csv").text
           table == Tables[name]
           rows == RowsOf(table)
           gate == On(s, "--fail-on-quality-gate")
           lines == BatchJobs(s)
<1>1. name \in DOMAIN Tables
  BY DEF BatchStarts, IsTable
<1>2. lines = [i \in DOMAIN rows |-> BatchJob(table, rows[i], gate)]
  BY DEF BatchJobs
<1> HIDE DEF name
<1>3. /\ IsSequence(table.header) /\ IsSequence(rows)
      /\ \A k \in DOMAIN rows : AreArguments(rows[k])
  BY <1>1, RowFacts
<1> HIDE DEF table, rows, gate, lines
<1>4. \A k \in DOMAIN rows : AreArguments(BatchJob(table, rows[k], gate).words)
  BY <1>3, BatchJobFacts
<1>5. Len(rows) \in Nat /\ DOMAIN rows = 1 .. Len(rows)
  BY <1>3, SequenceFacts
<1>6. lines = [i \in 1 .. Len(rows) |-> lines[i]]
      /\ \A i \in DOMAIN lines : AreArguments(lines[i].words)
  BY <1>2, <1>4, <1>5
<1>7. IsSequence(lines)
  BY <1>5, <1>6, ListIsSequence
<1> QED BY <1>6, <1>7 DEF lines

\* The jobs of a sequence have arguments (RunSequenceFile).
LEMMA SequenceLines ==
    ASSUME NEW words, NEW s, SettingsOK(s), SequenceStarts(words, s)
    PROVE  /\ IsSequence(SequenceJobs(s))
           /\ \A i \in DOMAIN SequenceJobs(s) : AreArguments(SequenceJobs(s)[i].words)
<1> DEFINE all == SequenceFiles[Setting(s, "--sequence-file").text]
           rows == Without(all, <<>>)
           lines == SequenceJobs(s)
           places == {i \in DOMAIN all : all[i] # <<>>}
<1>1. IsSequence(all) /\ \A i \in DOMAIN all : AreArguments(all[i])
  BY ArgumentsAssumption DEF SequenceStarts
<1>2. lines = [i \in DOMAIN rows |-> SequenceJob(rows[i], s)]
  BY DEF SequenceJobs
<1>3. rows = Subsequence(all, places) /\ places \subseteq DOMAIN all
  BY DEF Without
<1> HIDE DEF all, rows, lines, places
<1>4. IsSequence(rows) /\ \A k \in DOMAIN rows : \E i \in places : rows[k] = all[i]
  BY <1>1, <1>3, SubsequenceFacts
<1>5. \A k \in DOMAIN rows : AreArguments(rows[k])
  BY <1>1, <1>3, <1>4
<1>6. \A k \in DOMAIN rows : AreArguments(SequenceJob(rows[k], s).words)
  BY <1>5, SequenceJobFacts
<1>7. Len(rows) \in Nat /\ DOMAIN rows = 1 .. Len(rows)
  BY <1>4, SequenceFacts
<1>8. lines = [i \in 1 .. Len(rows) |-> lines[i]]
      /\ \A i \in DOMAIN lines : AreArguments(lines[i].words)
  BY <1>2, <1>6, <1>7
<1>9. IsSequence(lines)
  BY <1>7, <1>8, ListIsSequence
<1> QED BY <1>8, <1>9 DEF lines

\* No step leads from such settings, calls, lines and presets to others (CliNext).
LEMMA SettingsInvInductive ==
    /\ CliInit => SettingsInv
    /\ SettingsInv /\ InputsInRange' /\ [CliNext]_cliVars => SettingsInv'
<1>1. CliInit => SettingsInv
  <2> SUFFICES ASSUME CliInit PROVE SettingsInv
    OBVIOUS
  <2>1. DOMAIN disk = {} /\ parent = NoRun /\ child = NoProcess /\ session \in Sessions
    BY DEF CliInit
  <2>2. CallsOK
    BY <2>1, ArgumentsAssumption DEF CallsOK
  <2>3. LinesOK /\ PresetsOK /\ PlanOK
    BY <2>1 DEF LinesOK, PresetsOK, PlanOK
  <2> QED BY <2>2, <2>3, RunInvInductive DEF SettingsInv
<1>2. ASSUME SettingsInv, InputsInRange', [CliNext]_cliVars
      PROVE  SettingsInv'
  <2> DEFINE Kept == CallsOK' /\ LinesOK' /\ PresetsOK' /\ PlanOK'
  <2>1. RunInv'
    BY <1>2, RunInvInductive DEF SettingsInv
  <2>2. RunInv /\ CallsOK /\ LinesOK /\ PresetsOK /\ PlanOK
    BY <1>2 DEF SettingsInv
  <2>3. child' # NoProcess => InsertsFit(child')
    BY <1>2 DEF InputsInRange, InsertsFit
  <2> SUFFICES Kept
    BY <2>1 DEF SettingsInv
  <2>4. Fault \/ UNCHANGED session => CallsOK'
    BY <2>2, FaultKeepsCalls
  <2>5. UNCHANGED parent \/ parent' = NoRun => LinesOK'
    BY <2>2 DEF LinesOK
  <2>6. UNCHANGED disk => PresetsOK'
    BY <2>2 DEF PresetsOK
  <2>7. UNCHANGED child \/ child' = NoProcess => PlanOK'
    BY <2>2 DEF PlanOK, PlannedOK
  <2>8. Writing => SettingsOK(child.settings)
    BY <2>2 DEF Writing, PlanOK, PlannedOK
  <2>9. ASSUME NEW whole, Writing, Leave(whole)
        PROVE  PresetsOK'
    BY <2>2, <2>8, <2>9, LeaveKeepsPresets
  <2>10. CASE UNCHANGED cliVars
    BY <2>4, <2>5, <2>6, <2>7, <2>10 DEF cliVars
  <2>11. CASE WriteStep
    <3>1. Writing /\ UNCHANGED parent /\ (Fault \/ UNCHANGED session)
      BY <2>11 DEF WriteStep, WriteOutput, WriteNoPdf, OpenFails, WriteShort, Killed
    <3>2. (\E whole : Leave(whole)) \/ UNCHANGED disk
      BY <2>11 DEF WriteStep, WriteOutput, WriteNoPdf, OpenFails, WriteShort, Killed
    <3>3. \/ child' = [child EXCEPT !.todo = Tail(@)]
          \/ \E exit : child' = [child EXCEPT !.todo = <<>>, !.exit = exit]
      BY <2>11 DEF WriteStep, WriteOutput, WriteNoPdf, OpenFails, WriteShort, Killed,
                  Continue, EndWith
    <3>4. PlannedOK(child)
      BY <2>2, <3>1 DEF Writing, PlanOK
    <3>5. /\ DOMAIN child' = ProcessFields /\ child'.settings = child.settings
          /\ child'.mode = child.mode /\ child'.plan = child.plan
      BY <3>3, <3>4 DEF PlannedOK, ProcessFields
    <3>6. PlanOK'
      BY <3>4, <3>5 DEF PlanOK, PlannedOK
    <3> QED BY <2>4, <2>5, <2>6, <2>9, <3>1, <3>2, <3>6
  <2>12. CASE RunLine
    <3>1. /\ parent # NoRun /\ parent.exit = Unended /\ child = NoProcess
          /\ parent.total < Len(parent.lines) /\ UNCHANGED <<session, disk>>
          /\ parent' = [parent EXCEPT !.total = @ + 1]
          /\ StartMain(parent.lines[parent.total + 1].mode, parent.lines[parent.total + 1].words)
      BY <2>12 DEF RunLine, Ready, Running
    <3>2. /\ DOMAIN parent = RunFields /\ parent.total = Len(parent.codes)
          /\ Len(parent.codes) \in Nat
      BY <2>2, <3>1 DEF RunInv, RunOK, CountsOK
    <3>3. /\ IsSequence(parent.lines)
          /\ \A i \in DOMAIN parent.lines : AreArguments(parent.lines[i].words)
      BY <2>2, <3>1 DEF LinesOK
    <3>4. Len(parent.lines) \in Nat /\ DOMAIN parent.lines = 1 .. Len(parent.lines)
      BY <3>3, SequenceFacts
    <3>5. parent.total + 1 \in DOMAIN parent.lines
      BY <3>1, <3>2, <3>4
    <3>6. parent'.lines = parent.lines
      BY <3>1, <3>2 DEF RunFields
    <3>7. LinesOK'
      BY <3>3, <3>6 DEF LinesOK
    <3>8. child' # NoProcess
      BY <3>1, Started
    <3>9. PlannedOK(child')
      <4> DEFINE mode == parent.lines[parent.total + 1].mode
                 words == parent.lines[parent.total + 1].words
      <4>1. AreArguments(words) /\ StartMain(mode, words) /\ InsertsFit(child')
        BY <2>3, <3>1, <3>3, <3>5, <3>8
      <4> HIDE DEF mode, words
      <4> QED BY <2>2, <4>1, StartedPlanned
    <3>10. PlanOK'
      BY <3>9 DEF PlanOK, PlannedOK
    <3> QED BY <2>4, <2>6, <3>1, <3>7, <3>10
  <2>13. CASE RunLineFails \/ Wait
    <3>1. /\ Fault \/ UNCHANGED session
          /\ UNCHANGED disk
          /\ UNCHANGED child \/ child' = NoProcess
      BY <2>13 DEF RunLineFails, Wait
    <3>2. \/ parent = NoRun /\ parent' = NoRun
          \/ parent # NoRun /\ \E run, id, code, outputs :
                /\ run = parent \/ run = [parent EXCEPT !.total = @ + 1]
                /\ parent' = Counted(run, id, code, outputs)
      BY <2>13 DEF RunLineFails, Wait, Ready, Running
    <3>3. CASE parent # NoRun
      <4>1. PICK run, id, code, outputs :
               /\ run = parent \/ run = [parent EXCEPT !.total = @ + 1]
               /\ parent' = Counted(run, id, code, outputs)
        BY <3>2, <3>3
      <4>2. DOMAIN parent = RunFields
        BY <2>2, <3>3 DEF RunInv, RunOK, CountsOK
      <4>3. DOMAIN run = RunFields /\ run.lines = parent.lines
        BY <4>1, <4>2 DEF RunFields
      <4>4. parent'.lines = parent.lines
        BY <4>1, <4>3, CountedFields
      <4>5. LinesOK'
        BY <2>2, <3>3, <4>4 DEF LinesOK
      <4> QED BY <2>4, <2>6, <2>7, <3>1, <4>5
    <3> QED BY <2>4, <2>5, <2>6, <2>7, <3>1, <3>2, <3>3
  <2>14. CASE EndRun \/ EndRunFails
    <3>1. /\ Fault \/ UNCHANGED session
          /\ UNCHANGED child /\ parent # NoRun
          /\ \E exit : parent' = [parent EXCEPT !.exit = exit]
          /\ \/ UNCHANGED disk
             \/ \E whole : Write(ReportPath(parent), Content(jobs, whole, Report(parent)))
      BY <2>14 DEF EndRun, EndRunFails, Finish, AllRun, Running
    <3>2. DOMAIN parent = RunFields
      BY <2>2, <3>1 DEF RunInv, RunOK, CountsOK
    <3>3. parent'.lines = parent.lines
      BY <3>1, <3>2 DEF RunFields
    <3>4. LinesOK'
      BY <2>2, <3>1, <3>3 DEF LinesOK
    <3>5. PresetsOK'
      BY <2>2, <2>6, <3>1, NoPresets, WriteKeepsPresets
    <3> QED BY <2>4, <2>7, <3>1, <3>4, <3>5
  <2>15. CASE Return
    BY <2>4, <2>5, <2>6, <2>7, <2>15 DEF Return
  <2>16. CASE Interrupt
    <3>1. Fault /\ parent' = NoRun /\ child' = NoProcess
          /\ ((Writing /\ Leave(FALSE)) \/ UNCHANGED disk)
      BY <2>16 DEF Interrupt
    <3> QED BY <2>4, <2>5, <2>6, <2>7, <2>9, <3>1
  <2>17. CASE WatchTake \/ WatchFails \/ Drop \/ TakeAway
    <3>1. UNCHANGED <<parent, child, disk>>
      BY <2>17 DEF WatchTake, WatchFails, Drop, TakeAway
    <3>2. CASE WatchTake \/ WatchFails \/ TakeAway
      <4>1. Fault \/ UNCHANGED session
        BY <3>2 DEF WatchTake, WatchFails, TakeAway
      <4> QED BY <2>4, <2>5, <2>6, <2>7, <3>1, <4>1
    <3>3. CASE Drop
      <4>1. session' = [session EXCEPT !.drops = @ - 1]
        BY <3>3 DEF Drop
      <4>2. DOMAIN session' = DOMAIN session /\ session'.calls = session.calls
        BY <2>2, <4>1 DEF CallsOK
      <4>3. CallsOK'
        BY <2>2, <4>2 DEF CallsOK
      <4> QED BY <2>5, <2>6, <2>7, <3>1, <4>3
    <3> QED BY <2>17, <3>2, <3>3
  <2>18. CASE WatchPlan
    <3>1. /\ UNCHANGED <<session, parent, child>>
          /\ \E path : Write(path, Content(jobs, TRUE, PlanWatched(watch.settings)))
      BY <2>18 DEF WatchPlan
    <3>2. PresetsOK'
      BY <2>2, <3>1, NoPresets, WriteKeepsPresets
    <3> QED BY <2>4, <2>5, <2>7, <3>1, <3>2
  <2>19. CASE CallBatch \/ CallSequence
    <3>1. PICK modes : Calls(modes)
      BY <2>19 DEF CallBatch, CallSequence
    <3>2. CallsOK' /\ AreArguments(CallOf.words)
      BY <2>2, <3>1, CallKeepsCalls
    <3>3. SettingsOK(CallSettings)
      BY <3>2, CallSettingsFacts
    <3>4. UNCHANGED <<child, disk>>
      BY <2>19 DEF CallBatch, CallSequence
    <3>5. \/ parent' = NoRun
          \/ BatchStarts(CallSettings)
             /\ parent' = Run("batch", CallSettings, BatchJobs(CallSettings))
          \/ SequenceStarts(CallOf.words, CallSettings)
             /\ parent' = Run("sequence", CallSettings, SequenceJobs(CallSettings))
      BY <2>19 DEF CallBatch, CallSequence
    <3>6. \A mode, s, lines : Run(mode, s, lines).lines = lines
      BY DEF Run
    <3>7. LinesOK'
      <4>1. CASE parent' = NoRun
        BY <2>5, <4>1
      <4>2. CASE BatchStarts(CallSettings)
                 /\ parent' = Run("batch", CallSettings, BatchJobs(CallSettings))
        <5> DEFINE lines == BatchJobs(CallSettings)
        <5>1. IsSequence(lines) /\ \A i \in DOMAIN lines : AreArguments(lines[i].words)
          BY <4>2, BatchLines
        <5>2. parent'.lines = lines
          BY <3>6, <4>2
        <5> HIDE DEF lines
        <5> QED BY <5>1, <5>2 DEF LinesOK
      <4>3. CASE SequenceStarts(CallOf.words, CallSettings)
                 /\ parent' = Run("sequence", CallSettings, SequenceJobs(CallSettings))
        <5> DEFINE lines == SequenceJobs(CallSettings)
        <5>1. IsSequence(lines) /\ \A i \in DOMAIN lines : AreArguments(lines[i].words)
          BY <3>3, <4>3, SequenceLines
        <5>2. parent'.lines = lines
          BY <3>6, <4>3
        <5> HIDE DEF lines
        <5> QED BY <5>1, <5>2 DEF LinesOK
      <4> QED BY <3>5, <4>1, <4>2, <4>3
    <3> QED BY <2>6, <2>7, <3>2, <3>4, <3>7
  <2>20. CASE CallMain
    <3>1. /\ Calls(PlanModes \union EarlyModes) /\ StartMain(CallOf.mode, CallOf.words)
          /\ UNCHANGED <<parent, disk>>
      BY <2>20 DEF CallMain
    <3>2. CallsOK' /\ AreArguments(CallOf.words)
      BY <2>2, <3>1, CallKeepsCalls
    <3>3. child' # NoProcess
      BY <3>1, Started
    <3>4. PlannedOK(child')
      BY <2>2, <2>3, <3>1, <3>2, <3>3, StartedPlanned
    <3>5. PlanOK'
      BY <3>4 DEF PlanOK, PlannedOK
    <3> QED BY <2>5, <2>6, <3>1, <3>2, <3>5
  <2>21. CASE CallWatch
    <3>1. Calls({"watch-dir"}) /\ UNCHANGED <<parent, child, disk>>
      BY <2>21 DEF CallWatch
    <3>2. CallsOK'
      BY <2>2, <3>1, CallKeepsCalls
    <3> QED BY <2>5, <2>6, <2>7, <3>1, <3>2
  <2> QED
    BY <1>2, <2>10, <2>11, <2>12, <2>13, <2>14, <2>15, <2>16, <2>17, <2>18, <2>19, <2>20, <2>21
    DEF CliNext, RunStep, WatchStep, UserStep
<1> QED BY <1>1, <1>2

\* While what is written into a plan is within its bounds, whatever calls are
\* made, whatever is in the files they read, and whatever fails, every process
\* that plans has the plan of its settings, and these are numbers, texts and
\* lists as its planner expects them (main, LoadPreset, RunBatchMode,
\* RunSequenceFile).
THEOREM SettingsSafety == CliSpec /\ []InputsInRange => []SettingsInv
<1> QED BY SettingsInvInductive, PTL DEF CliSpec

-----------------------------------------------------------------------------
\* The plan is made of nothing but what a preset keeps and the number of pages.
LEMMA SamePlan ==
    ASSUME NEW s, NEW t,
           \A key \in PresetKeys \union {"--pages"} : Setting(t, key) = Setting(s, key),
           NEW mode \in PresetModes
    PROVE  PlanFor(mode, t) = PlanFor(mode, s)
<1> DEFINE Same(key) == Setting(t, key) = Setting(s, key)
<1>1. \A key \in RequiredKeys \union SequenceKeys \union {"--pages"} : Same(key)
  BY DEF PresetKeys
<1> HIDE DEF Same
<1>2. /\ Same("--sheet-width") /\ Same("--sheet-height") /\ Same("--columns") /\ Same("--rows")
      /\ Same("--tile-overlap") /\ Same("--repeat-x") /\ Same("--repeat-y") /\ Same("--step-x")
      /\ Same("--step-y") /\ Same("--slot-width") /\ Same("--slot-height") /\ Same("--reverse")
      /\ Same("--filter") /\ Same("--pad-multiple") /\ Same("--signature-size")
      /\ Same("--fit-to-slot") /\ Same("--rotate-to-fit") /\ Same("--source-page-width")
      /\ Same("--source-page-height") /\ Same("--creep") /\ Same("explicit") /\ Same("manual")
      /\ Same("--pages")
  BY <1>1 DEF RequiredKeys, SequenceKeys
<1>3. SheetOf(t) = SheetOf(s)
  BY <1>2 DEF SheetOf, Same
<1>4. BuildOptions(t) = BuildOptions(s)
  BY <1>2 DEF BuildOptions, On, Same
<1>5. StepRepeatConfig(t) = StepRepeatConfig(s)
  BY <1>2 DEF StepRepeatConfig, Same
<1>6. \A count : SourcePagesOf(t, count) = SourcePagesOf(s, count)
  BY <1>3, <1>4 DEF SourcePagesOf
<1>7. \A pages : BookletOf(pages, t) = BookletOf(pages, s) /\ TwoUpOf(pages, t) = TwoUpOf(pages, s)
  BY <1>2, <1>3, <1>4 DEF BookletOf, TwoUpOf, Same
<1>8. mode \notin InsertModes /\ mode \notin {"trim-shift", "adjust-pages"}
  BY DEF PresetModes, InsertModes
<1>9. PageCountOf(mode, t) = PageCountOf(mode, s)
  BY <1>2, <1>8 DEF PageCountOf, Same
<1>10. Placed(mode, t) = Placed(mode, s)
  BY <1>2, <1>3, <1>4, <1>5, <1>6, <1>7, <1>8, <1>9 DEF Placed, Same
<1> QED BY <1>3, <1>9, <1>10 DEF PlanFor

\* Numbers on the same side of 0.
SameSign(a, b) == a \in Int /\ b \in Int /\ (a > 0 <=> b > 0) /\ (a < 0 <=> b < 0)

\* Of a plan preflight looks at whether it has a sheet, and of lengths whether they
\* are above or below 0 (ValidatePrepressReadiness).
LEMMA SamePreflight ==
    ASSUME NEW s, NEW t, NEW plan, NEW other, Has(other.sheet) <=> Has(plan.sheet),
           \A key \in {"--pdf-trim-marks", "--pdf-bleed-box", "--pdfx-profile"} :
              Setting(t, key) = Setting(s, key),
           \A key \in {"--pdf-trim-length", "--pdf-trim-offset", "--pdf-bleed"} :
              SameSign(Setting(t, key), Setting(s, key))
    PROVE  PreflightErrors(other, t) = PreflightErrors(plan, s)
<1>1. \A a, b : SameSign(a, b) => (a > 0 <=> b > 0) /\ (a < 0 <=> b < 0) /\ (a <= 0 <=> b <= 0)
  BY DEF SameSign
<1>2. /\ Setting(t, "--pdf-bleed") > 0 <=> Setting(s, "--pdf-bleed") > 0
      /\ Setting(t, "--pdf-trim-length") <= 0 <=> Setting(s, "--pdf-trim-length") <= 0
      /\ Setting(t, "--pdf-trim-offset") < 0 <=> Setting(s, "--pdf-trim-offset") < 0
  BY <1>1
<1>3. /\ On(t, "--pdf-trim-marks") <=> On(s, "--pdf-trim-marks")
      /\ On(t, "--pdf-bleed-box") <=> On(s, "--pdf-bleed-box")
      /\ Setting(t, "--pdfx-profile") = Setting(s, "--pdfx-profile")
  BY DEF On
<1> QED BY ONLY <1>2, <1>3, Has(other.sheet) <=> Has(plan.sheet) DEF PreflightErrors

\* The page in each slot.
Spots(placed) == {<<p.sheet, p.slot, p.page>> : p \in placed}

HaveSpots(placed) == \A p \in placed : {"sheet", "slot", "page"} \subseteq DOMAIN p

\* Turning pages leaves them in their slots.
LEMMA FittedSpots ==
    ASSUME NEW placed, HaveSpots(placed), NEW options
    PROVE  Spots(Fitted(placed, options)) = Spots(placed)
<1> DEFINE f(p) == [p EXCEPT !.turned = Turned(p.cell, options)]
<1>1. \A p \in placed : f(p).sheet = p.sheet /\ f(p).slot = p.slot /\ f(p).page = p.page
  BY DEF HaveSpots
<1>2. Fitted(placed, options) = {f(p) : p \in placed}
  BY DEF Fitted
<1> HIDE DEF f
<1> QED BY <1>1, <1>2 DEF Spots

\* Two pages on a sheet, of whatever size (TwoUpPlanner).
LEMMA TwoUpSpots ==
    ASSUME NEW pages, NEW sheet
    PROVE  /\ Spots(TwoUp(pages, sheet))
                 = {<<(i - 1) \div 2, (i - 1) % 2, pages[i]>> : i \in DOMAIN pages}
           /\ HaveSpots(TwoUp(pages, sheet))
<1> DEFINE half == Size(sheet.w \div 2, sheet.h)
           f(i) == Place((i - 1) \div 2, (i - 1) % 2, pages[i],
                         Rect(((i - 1) % 2) * half.w, 0, half), FALSE)
<1>1. \A i : /\ f(i).sheet = (i - 1) \div 2 /\ f(i).slot = (i - 1) % 2 /\ f(i).page = pages[i]
             /\ {"sheet", "slot", "page"} \subseteq DOMAIN f(i)
  BY DEF Place
<1>2. TwoUp(pages, sheet) = {f(i) : i \in DOMAIN pages}
  BY DEF TwoUp
<1> HIDE DEF f
<1> QED BY <1>1, <1>2 DEF Spots, HaveSpots

\* A grid on a sheet of whatever size (NUpPlanner).
LEMMA NUpSpots ==
    ASSUME NEW pages, NEW sheet, NEW columns, NEW rows, NEW options
    PROVE  LET perSheet == SlotsPerSheet(columns, rows) IN
           Spots(NUp(pages, sheet, columns, rows, options))
              = {<<Quotient(i - 1, perSheet), Remainder(i - 1, perSheet), pages[i]>> :
                    i \in DOMAIN pages}
<1> DEFINE perSheet == SlotsPerSheet(columns, rows)
           slot(i) == Remainder(i - 1, perSheet)
           cell(i) == Cell(slot(i), columns, rows, sheet)
           f(i) == Place(Quotient(i - 1, perSheet), slot(i), pages[i], cell(i),
                         Turned(cell(i), options))
<1>1. \A i : f(i).sheet = Quotient(i - 1, perSheet) /\ f(i).slot = slot(i) /\ f(i).page = pages[i]
  BY DEF Place
<1>2. NUp(pages, sheet, columns, rows, options) = {f(i) : i \in DOMAIN pages}
  BY DEF NUp
<1> HIDE DEF f, perSheet
<1>3. Spots(NUp(pages, sheet, columns, rows, options))
         = {<<Quotient(i - 1, perSheet), slot(i), pages[i]>> : i \in DOMAIN pages}
  <2> HIDE DEF slot
  <2> QED BY <1>1, <1>2 DEF Spots
<1> QED BY <1>3 DEF perSheet

\* A folded signature of whatever size and creep (BookletPlanner).
LEMMA BookletSpots ==
    ASSUME NEW pages, NEW sheet, NEW creep
    PROVE  LET signature == PaddedTo(pages, 4) IN
           /\ Spots(Booklet(pages, sheet, creep))
                 = UNION {{<<2 * s + q.side, q.slot, q.page>> : q \in SheetSides(signature, s)} :
                             s \in 0 .. (Len(signature) \div 4) - 1}
           /\ HaveSpots(Booklet(pages, sheet, creep))
<1> DEFINE signature == PaddedTo(pages, 4)
           half == Size(sheet.w \div 2, sheet.h)
           depths == 0 .. (Len(signature) \div 4) - 1
           f(t, q) == [Place(2 * t + q.side, q.slot, q.page,
                             Rect(q.slot * half.w, 0, half), FALSE)
                              EXCEPT !.shift = Inwards(q.slot, CreepMagnitude(t, creep))]
           g(t, q) == <<2 * t + q.side, q.slot, q.page>>
           B == Booklet(pages, sheet, creep)
<1>1. \A t, q : /\ f(t, q).sheet = 2 * t + q.side /\ f(t, q).slot = q.slot
                /\ f(t, q).page = q.page /\ {"sheet", "slot", "page"} \subseteq DOMAIN f(t, q)
  BY DEF Place
<1>2. B = UNION {{f(t, q) : q \in SheetSides(signature, t)} : t \in depths}
  BY DEF Booklet
<1>3. \A t, q : <<f(t, q).sheet, f(t, q).slot, f(t, q).page>> = g(t, q)
  BY <1>1
<1> HIDE DEF f, g, signature, depths, B
<1>4. \A p : p \in B <=> \E t \in depths : \E q \in SheetSides(signature, t) : p = f(t, q)
  BY <1>2
<1>5. HaveSpots(B)
  BY <1>1, <1>4 DEF HaveSpots
<1>6. \A x : x \in Spots(B) <=> \E p \in B : x = <<p.sheet, p.slot, p.page>>
  BY DEF Spots
<1>7. \A x : x \in Spots(B) <=>
                \E t \in depths : \E q \in SheetSides(signature, t) : x = g(t, q)
  BY <1>3, <1>4, <1>6
<1>8. Spots(B) = UNION {{g(t, q) : q \in SheetSides(signature, t)} : t \in depths}
  BY <1>7
<1> QED BY <1>5, <1>8 DEF B, g, signature, depths

\* Signature after signature, of whatever size and creep (BookletPlanner).
LEMMA SignatureSpots ==
    ASSUME NEW pages, NEW size, NEW sheet, NEW creep, NEW sheet2, NEW creep2
    PROVE  /\ Spots(BookletSignatures(pages, size, sheet, creep))
                 = Spots(BookletSignatures(pages, size, sheet2, creep2))
           /\ HaveSpots(BookletSignatures(pages, size, sheet, creep))
<1> DEFINE signature(k) == PaddedTo(SubSeq(pages, k * size + 1, Least((k + 1) * size, Len(pages))),
                                    size)
           numbers == 0 .. ((Len(pages) + size - 1) \div size) - 1
           moved(k, p) == [p EXCEPT !.sheet = @ + k * (size \div 2)]
           B(k, a, c) == Booklet(signature(k), a, c)
           All(a, c) == BookletSignatures(pages, size, a, c)
<1>1. CASE size = 0
  BY <1>1, BookletSpots DEF BookletSignatures
<1>2. CASE size # 0
  <2>1. \A a, c : All(a, c) = UNION {{moved(k, p) : p \in B(k, a, c)} : k \in numbers}
    BY <1>2 DEF BookletSignatures
  <2>2. \A k, a, c : HaveSpots(B(k, a, c)) /\ Spots(B(k, a, c)) = Spots(B(k, sheet, creep))
    BY BookletSpots
  <2> HIDE DEF signature, numbers, B, All
  <2>3. \A k, a, c : \A p \in B(k, a, c) :
           /\ moved(k, p).sheet = p.sheet + k * (size \div 2)
           /\ moved(k, p).slot = p.slot /\ moved(k, p).page = p.page
           /\ {"sheet", "slot", "page"} \subseteq DOMAIN moved(k, p)
    BY <2>2 DEF HaveSpots
  <2> HIDE DEF moved
  <2>4. \A a, c : \A p : p \in All(a, c) <=> \E k \in numbers : \E q \in B(k, a, c) : p = moved(k, q)
    BY <2>1
  <2>5. \A a, c : HaveSpots(All(a, c))
    BY <2>3, <2>4 DEF HaveSpots
  <2> DEFINE at(k, x) == <<x[1] + k * (size \div 2), x[2], x[3]>>
  <2>6. \A k, a, c : \A x : x \in Spots(B(k, a, c)) <=>
                               \E q \in B(k, a, c) : x = <<q.sheet, q.slot, q.page>>
    BY DEF Spots
  <2>7. \A a, c : \A x : x \in Spots(All(a, c)) <=>
                            \E p \in All(a, c) : x = <<p.sheet, p.slot, p.page>>
    BY DEF Spots
  <2>8. \A k, a, c : \A q \in B(k, a, c) :
           at(k, <<q.sheet, q.slot, q.page>>)
              = <<moved(k, q).sheet, moved(k, q).slot, moved(k, q).page>>
    BY <2>3
  <2> HIDE DEF at
  <2>9. \A a, c : \A x : x \in Spots(All(a, c)) <=>
                            \E k \in numbers : \E y \in Spots(B(k, a, c)) : x = at(k, y)
    <3> SUFFICES ASSUME NEW a, NEW c, NEW x
                 PROVE  x \in Spots(All(a, c)) <=>
                            \E k \in numbers : \E y \in Spots(B(k, a, c)) : x = at(k, y)
      OBVIOUS
    <3>1. x \in Spots(All(a, c)) <=>
             \E k \in numbers : \E q \in B(k, a, c) :
                x = <<moved(k, q).sheet, moved(k, q).slot, moved(k, q).page>>
      BY <2>4, <2>7
    <3>2. \A k \in numbers : \A q \in B(k, a, c) :
             at(k, <<q.sheet, q.slot, q.page>>)
                = <<moved(k, q).sheet, moved(k, q).slot, moved(k, q).page>>
      BY <2>8
    <3>3. x \in Spots(All(a, c)) <=>
             \E k \in numbers : \E q \in B(k, a, c) : x = at(k, <<q.sheet, q.slot, q.page>>)
      BY ONLY <3>1, <3>2, Zenon
    <3>4. \A k \in numbers : \A y : y \in Spots(B(k, a, c)) <=>
             \E q \in B(k, a, c) : y = <<q.sheet, q.slot, q.page>>
      BY <2>6
    <3>5. ASSUME x \in Spots(All(a, c))
          PROVE  \E k \in numbers : \E y \in Spots(B(k, a, c)) : x = at(k, y)
      <4>1. PICK k \in numbers : \E q \in B(k, a, c) : x = at(k, <<q.sheet, q.slot, q.page>>)
        BY <3>3, <3>5
      <4>2. PICK q \in B(k, a, c) : x = at(k, <<q.sheet, q.slot, q.page>>)
        BY <4>1
      <4>3. <<q.sheet, q.slot, q.page>> \in Spots(B(k, a, c))
        BY <3>4
      <4> QED BY <4>2, <4>3
    <3>6. ASSUME NEW k \in numbers, NEW y \in Spots(B(k, a, c)), x = at(k, y)
          PROVE  x \in Spots(All(a, c))
      <4>1. PICK q \in B(k, a, c) : y = <<q.sheet, q.slot, q.page>>
        BY <3>4
      <4>2. x = at(k, <<q.sheet, q.slot, q.page>>)
        BY <3>6, <4>1
      <4> QED BY <3>3, <4>2
    <3> QED BY <3>5, <3>6
  <2>10. \A x : x \in Spots(All(sheet, creep)) <=> x \in Spots(All(sheet2, creep2))
    <3>1. \A k : Spots(B(k, sheet, creep)) = Spots(B(k, sheet2, creep2))
      BY <2>2
    <3> QED BY <2>9, <3>1
  <2>11. Spots(All(sheet, creep)) = Spots(All(sheet2, creep2))
    BY <2>10 DEF Spots
  <2> QED BY <2>5, <2>11 DEF All
<1> QED BY <1>1, <1>2

\* In a grid or a booklet the page in each slot comes from what a preset keeps
\* exactly, and of the sheet only from whether there is one.
LEMMA SameSlots ==
    ASSUME NEW s, NEW t, NEW mode \in GridModes,
           \A key \in (PresetKeys \ LengthKeys) \union {"--pages"} : Setting(t, key) = Setting(s, key),
           Has(SheetOf(t)) <=> Has(SheetOf(s))
    PROVE  PagesInSlots(PlanFor(mode, t)) = PagesInSlots(PlanFor(mode, s))
<1> DEFINE Same(key) == Setting(t, key) = Setting(s, key)
<1>1. /\ Same("--columns") /\ Same("--rows") /\ Same("--reverse") /\ Same("--filter")
      /\ Same("--pad-multiple") /\ Same("--signature-size") /\ Same("explicit") /\ Same("manual")
      /\ Same("--pages")
  <2> DEFINE keys == {"--columns", "--rows", "--reverse", "--filter", "--pad-multiple",
                      "--signature-size", "explicit", "manual"}
  <2>1. keys \subseteq RequiredKeys \union SequenceKeys
    BY DEF RequiredKeys, SequenceKeys
  <2>2. keys \intersect LengthKeys = {}
    BY DEF LengthKeys
  <2>3. \A key \in keys : Same(key)
    BY <2>1, <2>2 DEF PresetKeys
  <2> HIDE DEF Same
  <2>4. Same("--pages")
    BY DEF Same
  <2> QED BY <2>3, <2>4
<1> HIDE DEF Same
<1>2. \A count : SourcePagesOf(t, count) = SourcePagesOf(s, count)
  <2> DEFINE a == BuildOptions(t)
             b == BuildOptions(s)
  <2>1. /\ a.explicit = b.explicit /\ a.filter = b.filter /\ a.reverse = b.reverse
        /\ a.padToMultiple = b.padToMultiple
    BY <1>1 DEF BuildOptions, On, Same
  <2> HIDE DEF a, b
  <2>2. \A count : BuildSourcePages(count, a) = BuildSourcePages(count, b)
    BY <2>1 DEF BuildSourcePages
  <2> QED BY <2>2 DEF SourcePagesOf, a, b
<1>3. mode \in {"two-up", "preset", "n-up", "booklet", "manual"}
  BY DEF GridModes, PresetModes
<1>4. PageCountOf(mode, t) = Setting(s, "--pages") /\ PageCountOf(mode, s) = Setting(s, "--pages")
  BY <1>1, <1>3 DEF PageCountOf, InsertModes, Same
<1> DEFINE pages == SourcePagesOf(s, Setting(s, "--pages"))
<1>5. SourcePagesOf(t, PageCountOf(mode, t)) = pages /\ SourcePagesOf(s, PageCountOf(mode, s)) = pages
  BY <1>2, <1>4
<1> HIDE DEF pages
<1>6. CASE mode \in {"two-up", "preset"}
  <2>1. Placed(mode, t) = TwoUpOf(pages, t) /\ Placed(mode, s) = TwoUpOf(pages, s)
    BY <1>5, <1>6 DEF Placed
  <2>2. \A u : Spots(TwoUpOf(pages, u)) =
                  {<<(i - 1) \div 2, (i - 1) % 2, pages[i]>> : i \in DOMAIN pages}
    BY TwoUpSpots, FittedSpots DEF TwoUpOf
  <2> QED BY <2>1, <2>2 DEF PagesInSlots, Spots, PlanFor, PlanOf
<1>7. CASE mode = "n-up"
  <2>1. /\ Placed(mode, t) = NUp(pages, SheetOf(t), Setting(s, "--columns"), Setting(s, "--rows"),
                                 BuildOptions(t))
        /\ Placed(mode, s) = NUp(pages, SheetOf(s), Setting(s, "--columns"), Setting(s, "--rows"),
                                 BuildOptions(s))
    BY <1>1, <1>5, <1>7 DEF Placed, Same
  <2> DEFINE perSheet == SlotsPerSheet(Setting(s, "--columns"), Setting(s, "--rows"))
  <2>2. \A u : Spots(NUp(pages, SheetOf(u), Setting(s, "--columns"), Setting(s, "--rows"),
                        BuildOptions(u)))
                 = {<<Quotient(i - 1, perSheet), Remainder(i - 1, perSheet), pages[i]>> :
                       i \in DOMAIN pages}
    BY NUpSpots
  <2> HIDE DEF perSheet
  <2>3. Spots(Placed(mode, t)) = Spots(Placed(mode, s))
    BY <2>1, <2>2
  <2> QED BY <2>3 DEF PagesInSlots, Spots, PlanFor, PlanOf
<1>8. CASE mode = "booklet"
  <2> DEFINE size == NormalizeSignatureSize(Setting(s, "--signature-size"))
             B(u) == BookletSignatures(pages, size, SheetOf(u), Setting(u, "--creep"))
  <2>1. /\ Placed(mode, t) = Fitted(B(t), BuildOptions(t))
        /\ Placed(mode, s) = Fitted(B(s), BuildOptions(s))
    BY <1>1, <1>5, <1>8 DEF Placed, BookletOf, Same
  <2>2. HaveSpots(B(t)) /\ HaveSpots(B(s)) /\ Spots(B(t)) = Spots(B(s))
    BY SignatureSpots
  <2> HIDE DEF B
  <2>3. Spots(Placed(mode, t)) = Spots(Placed(mode, s))
    BY <2>1, <2>2, FittedSpots
  <2> QED BY <2>3 DEF PagesInSlots, Spots, PlanFor, PlanOf
<1>9. CASE mode = "manual"
  <2> DEFINE count == Setting(s, "--pages")
             columns == Setting(s, "--columns")
             rows == Setting(s, "--rows")
             order == Setting(s, "manual")
             M(u) == Manual(count, order, SheetOf(u), columns, rows, BuildOptions(u))
  <2>1. Placed(mode, t) = M(t) /\ Placed(mode, s) = M(s)
    BY <1>1, <1>9 DEF Placed, Same
  <2> HIDE DEF count, columns, rows, order
  <2>2. Spots(M(t)) = Spots(M(s))
    <3>1. CASE count = 0 \/ ~Has(SheetOf(s)) \/ columns = 0 \/ rows = 0
      BY <3>1 DEF Manual
    <3>2. CASE ~(count = 0 \/ ~Has(SheetOf(s)) \/ columns = 0 \/ rows = 0)
      <4> DEFINE list == [i \in DOMAIN order |-> PageOrBlank(order[i], count)]
      <4>1. /\ M(t) = NUp(list, SheetOf(t), columns, rows, BuildOptions(t))
            /\ M(s) = NUp(list, SheetOf(s), columns, rows, BuildOptions(s))
        BY <3>2 DEF Manual
      <4> HIDE DEF list, M
      <4> DEFINE perSheet == SlotsPerSheet(columns, rows)
      <4>2. \A u : Spots(NUp(list, SheetOf(u), columns, rows, BuildOptions(u)))
                     = {<<Quotient(i - 1, perSheet), Remainder(i - 1, perSheet), list[i]>> :
                           i \in DOMAIN list}
        BY NUpSpots
      <4> HIDE DEF perSheet
      <4> QED BY <4>1, <4>2
    <3> QED BY <3>1, <3>2
  <2> HIDE DEF M
  <2> QED BY <2>1, <2>2 DEF PagesInSlots, Spots, PlanFor, PlanOf
<1> QED BY <1>3, <1>6, <1>7, <1>8, <1>9

\* A preset that is saved and loaded has the settings it was saved from, with the
\* digits of its lengths that a stream writes (SavePreset, LoadPreset).
LEMMA LoadedAgain ==
    ASSUME NEW s, SettingsOK(s), NEW key \in PresetKeys
    PROVE  LET loaded == Setting(LoadPreset(SavePreset(s)), key)
               saved == Setting(s, key) IN
           /\ key \notin LengthKeys => loaded = saved
           /\ key \in LengthKeys =>
                 /\ SameSign(loaded, saved)
                 /\ -Precision < saved /\ saved < Precision => loaded = saved
<1> DEFINE D == DOMAIN s \intersect PresetKeys
           r == Restrict(s, D)
           t == Written(r)
           u == ReadBack(t)
<1>1. DOMAIN r = D /\ \A k : Setting(r, k) = IF k \in D THEN Setting(s, k) ELSE Default(k)
  BY RestrictFacts
<1>2. Setting(r, key) = Setting(s, key) /\ (key \in D <=> key \in DOMAIN s)
  BY <1>1 DEF Setting
<1>3. LoadPreset(SavePreset(s)) = u
  BY DEF LoadPreset, SavePreset
<1> HIDE DEF r, D
<1>4. \A k \in SequenceKeys : Setting(r, k) \in PageLists
  BY <1>1, DefaultFacts, EmptySeq DEF SettingsOK, PageLists
<1>5. /\ key \in SequenceKeys => Setting(u, key) = Setting(r, key)
      /\ key \in LengthKeys =>
            Setting(u, key) = IF key \in DOMAIN r THEN Streamed(Setting(r, key)) ELSE Default(key)
      /\ key \notin SequenceKeys /\ key \notin LengthKeys => Setting(u, key) = Setting(r, key)
  BY <1>4, WrittenFacts
<1> HIDE DEF t, u
<1>6. key \in LengthKeys => key \notin SequenceKeys
  BY KeyFacts
<1>7. ASSUME key \in LengthKeys
      PROVE  /\ SameSign(Setting(u, key), Setting(s, key))
             /\ -Precision < Setting(s, key) /\ Setting(s, key) < Precision
                   => Setting(u, key) = Setting(s, key)
  <2>1. Setting(s, key) \in Int
    BY <1>7 DEF SettingsOK
  <2>2. Setting(u, key) = Streamed(Setting(s, key)) \/ Setting(u, key) = Setting(s, key)
    BY <1>1, <1>2, <1>5, <1>7
  <2> QED BY <2>1, <2>2, StreamedFacts DEF SameSign
<1> QED BY <1>2, <1>3, <1>5, <1>6, <1>7

\* A preset repeats what preflight says of the job it was saved by, in the grid
\* modes the page in each slot, and with short lengths the plan, for all settings
\* and pages (SavePreset, LoadPreset, main).
THEOREM PresetsRepeatTheirPlan == CliSpec /\ []InputsInRange => []PresetRepeatsPlan
<1>1. SettingsInv => PresetRepeatsPlan
  <2> SUFFICES ASSUME SettingsInv, Planned, child.mode \in PresetModes
               PROVE  LET again == Each({"--pages"}, Setting(child.settings, "--pages"))
                                   ++ LoadPreset(SavePreset(child.settings))
                          plan == PlanFor(child.mode, again) IN
                      /\ PreflightErrors(plan, again)
                            = PreflightErrors(child.plan, child.settings)
                      /\ child.mode \in GridModes
                            => PagesInSlots(plan) = PagesInSlots(child.plan)
                      /\ LengthsFit(child.settings) => plan = child.plan
    BY DEF PresetRepeatsPlan
  <2> DEFINE s == child.settings
             pages == Each({"--pages"}, Setting(s, "--pages"))
             saved == LoadPreset(SavePreset(s))
             again == pages ++ saved
             plan == PlanFor(child.mode, again)
  <2>1. SettingsOK(s) /\ child.mode \in PlanModes /\ child.plan = PlanFor(child.mode, s)
    BY DEF SettingsInv, PlanOK, PlannedOK, Planned
  <2>2. DOMAIN pages = {"--pages"} /\ pages["--pages"] = Setting(s, "--pages")
    BY DEF Each
  <2>3. "--pages" \notin PresetKeys
    <3>1. \A i \in 1 .. 8 : LaterKeys[i] # "--pages"
      BY DEF LaterKeys
    <3>2. DOMAIN LaterKeys = 1 .. 8
      BY DEF LaterKeys
    <3> QED BY <3>1, <3>2 DEF PresetKeys, Range, RequiredKeys, SequenceKeys
  <2> HIDE DEF s, pages
  <2>4. \A key \in PresetKeys :
           /\ key \notin LengthKeys => Setting(saved, key) = Setting(s, key)
           /\ key \in LengthKeys =>
                 /\ SameSign(Setting(saved, key), Setting(s, key))
                 /\ -Precision < Setting(s, key) /\ Setting(s, key) < Precision
                       => Setting(saved, key) = Setting(s, key)
    BY <2>1, LoadedAgain
  <2> HIDE DEF saved
  <2>5. Setting(again, "--pages") = Setting(s, "--pages")
    BY <2>2, FirstCounts DEF Setting
  <2>6. \A key \in PresetKeys : Setting(again, key) = Setting(saved, key)
    BY <2>2, <2>3, SecondCounts, NoneCounts DEF Setting
  <2> HIDE DEF again
  <2>7. \A key \in (PresetKeys \ LengthKeys) \union {"--pages"} :
           Setting(again, key) = Setting(s, key)
    BY <2>4, <2>5, <2>6
  <2>8. \A key \in LengthKeys : SameSign(Setting(again, key), Setting(s, key))
    BY <2>4, <2>6, KeyFacts
  <2>9. Has(SheetOf(again)) <=> Has(SheetOf(s))
    <3>1. "--sheet-width" \in LengthKeys /\ "--sheet-height" \in LengthKeys
      BY DEF LengthKeys
    <3>2. /\ Setting(again, "--sheet-width") > 0 <=> Setting(s, "--sheet-width") > 0
          /\ Setting(again, "--sheet-height") > 0 <=> Setting(s, "--sheet-height") > 0
      BY <2>8, <3>1 DEF SameSign
    <3> QED BY <3>2 DEF Has, SheetOf, Size
  <2>10. PreflightErrors(plan, again) = PreflightErrors(child.plan, s)
    <3>1. \A key \in {"--pdf-trim-length", "--pdf-trim-offset", "--pdf-bleed"} : key \in LengthKeys
      BY DEF LengthKeys
    <3>2. \A key \in {"--pdf-trim-marks", "--pdf-bleed-box", "--pdfx-profile"} :
             key \in PresetKeys /\ key \notin LengthKeys
      <4>1. DOMAIN LaterKeys = 1 .. 8 /\ LaterKeys[1] = "--pdf-trim-marks"
            /\ LaterKeys[4] = "--pdf-bleed-box" /\ LaterKeys[8] = "--pdfx-profile"
        BY DEF LaterKeys
      <4>2. \A key \in {"--pdf-trim-marks", "--pdf-bleed-box", "--pdfx-profile"} :
               key \in Range(LaterKeys)
        BY <4>1 DEF Range
      <4> QED BY <4>2 DEF PresetKeys, LengthKeys
    <3>3. plan.sheet = SheetOf(again) /\ child.plan.sheet = SheetOf(s)
      BY <2>1 DEF PlanFor, PlanOf
    <3>4. Has(plan.sheet) <=> Has(child.plan.sheet)
      BY <2>9, <3>3
    <3> HIDE DEF plan
    <3> QED BY <2>7, <2>8, <3>1, <3>2, <3>4, SamePreflight
  <2>11. child.mode \in GridModes => PagesInSlots(plan) = PagesInSlots(child.plan)
    BY <2>1, <2>7, <2>9, SameSlots
  <2>12. ASSUME LengthsFit(s) PROVE plan = child.plan
    <3>1. \A key \in LengthKeys : -Precision < Setting(s, key) /\ Setting(s, key) < Precision
      BY <2>12 DEF LengthsFit
    <3>2. \A key \in PresetKeys \union {"--pages"} : Setting(again, key) = Setting(s, key)
      BY <2>4, <2>6, <2>7, <3>1
    <3>3. plan = PlanFor(child.mode, s)
      BY <3>2, SamePlan
    <3> QED BY <2>1, <3>3
  <2> QED BY <2>10, <2>11, <2>12 DEF again, s, pages, saved, plan
<1> QED BY <1>1, SettingsSafety, PTL

-----------------------------------------------------------------------------
\* A list of elements of a set.
LEMMA ElementsOfList ==
    ASSUME NEW s, IsSequence(s), NEW S, \A i \in DOMAIN s : s[i] \in S
    PROVE  s \in Seq(S)
<1>1. s \in Seq(Range(s)) /\ s = [i \in DOMAIN s |-> s[i]]
  BY SequenceFacts DEF IsSequence
<1> QED BY <1>1, ListOfItems

\* The pages a planner starts from are those of the document, and blanks
\* (BuildSourcePages).
LEMMA SourceLists ==
    ASSUME NEW n \in Nat, NEW options, options.explicit \in PageLists,
           options.padToMultiple \in Nat
    PROVE  BuildSourcePages(n, options) \in Lists(n)
<1> DEFINE S == (0 .. n - 1) \union {Blank}
           explicit == options.explicit
           chosen == ChosenPages(n, explicit)
           passed == Filtered(chosen, options.filter)
           ordered == Ordered(passed, options.reverse)
<1>1. chosen \in Seq(S)
  <2>1. CASE explicit = <<>>
    <3>1. chosen = [i \in 1 .. n |-> i - 1]
      BY <2>1 DEF ChosenPages
    <3>2. chosen \in [1 .. n -> S]
      BY <3>1
    <3> QED BY <3>2, SeqDef
  <2>2. CASE explicit # <<>>
    <3>1. chosen = [i \in DOMAIN explicit |-> PageOrBlank(explicit[i], n)]
      BY <2>2 DEF ChosenPages
    <3>2. Len(explicit) \in Nat /\ DOMAIN explicit = 1 .. Len(explicit)
          /\ \A i \in DOMAIN explicit : explicit[i] \in Nat \union {Blank}
      BY LenProperties, ElementOfSeq DEF PageLists
    <3>3. \A page \in Nat \union {Blank} : PageOrBlank(page, n) \in S
      BY PagesAssumption DEF PageOrBlank
    <3> HIDE DEF S, explicit, chosen
    <3>4. chosen = [i \in DOMAIN explicit |-> chosen[i]]
          /\ \A i \in DOMAIN explicit : chosen[i] \in S
      BY <3>1, <3>2, <3>3
    <3>5. explicit \in Seq(Nat \union {Blank})
      BY DEF explicit, PageLists
    <3> QED BY ONLY <3>4, <3>5, ListOfItems
  <2> QED BY <2>1, <2>2
<1> HIDE DEF chosen
<1>2. passed \in Seq(S)
  <2> DEFINE places == {i \in DOMAIN chosen : Passes(chosen[i], options.filter)}
  <2>1. passed = Subsequence(chosen, places)
    BY DEF Filtered
  <2>2. IsSequence(chosen) /\ \A i \in DOMAIN chosen : chosen[i] \in S
    <3>1. Len(chosen) \in Nat /\ DOMAIN chosen = 1 .. Len(chosen)
          /\ chosen = [i \in 1 .. Len(chosen) |-> chosen[i]]
      BY <1>1, LenProperties
    <3> HIDE DEF S
    <3> QED BY <1>1, <3>1, ListIsSequence, ElementOfSeq
  <2>3. places \subseteq DOMAIN chosen
    OBVIOUS
  <2> HIDE DEF places, S, passed
  <2>4. IsSequence(passed) /\ \A k \in DOMAIN passed : \E i \in places : passed[k] = chosen[i]
    BY ONLY <2>1, <2>2, <2>3, SubsequenceFacts
  <2>5. \A k \in DOMAIN passed : passed[k] \in S
    BY <2>2, <2>3, <2>4
  <2> QED BY ONLY <2>4, <2>5, ElementsOfList
<1> HIDE DEF passed, S
<1>3. ordered \in Seq(S)
  BY <1>2, ReverseFacts DEF Ordered
<1>4. BuildSourcePages(n, options) = PaddedTo(ordered, options.padToMultiple)
  BY DEF BuildSourcePages, ordered, passed, chosen
<1> HIDE DEF ordered
<1>5. ordered \in Lists(n)
  BY <1>3 DEF Lists, S
<1> QED BY <1>4, <1>5, PaddedList

\* Without placements no slot is used.
LEMMA NothingLaidOut ==
    ASSUME NEW n
    PROVE  LaidOut({}, n) /\ Apart({})
BY FS_EmptySet DEF LaidOut, Apart

\* Placements that are changed but stay in their slots, and keep their pages.
LEMMA KeptLaidOut ==
    ASSUME NEW n, NEW placed, LaidOut(placed, n), Apart(placed),
           NEW f, f = [p \in placed |-> f[p]],
           \A p \in placed : /\ DOMAIN f[p] = DOMAIN p
                             /\ f[p].sheet = p.sheet /\ f[p].slot = p.slot /\ f[p].page = p.page
    PROVE  LaidOut({f[p] : p \in placed}, n) /\ Apart({f[p] : p \in placed})
<1> DEFINE all == {f[p] : p \in placed}
<1>1. /\ IsFiniteSet(placed)
      /\ \A p \in placed : /\ {"sheet", "slot", "page", "shift"} \subseteq DOMAIN p
                           /\ p.sheet \in Nat
                           /\ p.page = Blank \/ p.page \in 0 .. n - 1
  BY DEF LaidOut
<1>2. IsFiniteSet(all)
  BY <1>1, ImageFinite
<1>3. LaidOut(all, n)
  BY <1>1, <1>2 DEF LaidOut
<1>4. Apart(all)
  <2> SUFFICES ASSUME NEW p \in placed, NEW q \in placed,
                      f[p].sheet = f[q].sheet, f[p].slot = f[q].slot
               PROVE  f[p] = f[q]
    BY DEF Apart
  <2>1. p = q
    BY DEF Apart
  <2> QED BY <2>1
<1> QED BY <1>3, <1>4

\* Pages that are turned or whose cells are changed stay where they are
\* (ApplyAdjustSpec).
LEMMA ChangedLaidOut ==
    ASSUME NEW n, NEW placed, LaidOut(placed, n), Apart(placed)
    PROVE  /\ \A options : LaidOut(Fitted(placed, options), n) /\ Apart(Fitted(placed, options))
           /\ \A s : LaidOut(ApplyAdjustSpec(placed, s), n) /\ Apart(ApplyAdjustSpec(placed, s))
<1>1. \A p \in placed : {"sheet", "slot", "page", "shift"} \subseteq DOMAIN p
  BY DEF LaidOut
<1>2. ASSUME NEW options
      PROVE  LaidOut(Fitted(placed, options), n) /\ Apart(Fitted(placed, options))
  <2> DEFINE f == [p \in placed |-> [p EXCEPT !.turned = Turned(p.cell, options)]]
  <2>1. Fitted(placed, options) = {f[p] : p \in placed}
    BY DEF Fitted
  <2>2. \A p \in placed : /\ DOMAIN f[p] = DOMAIN p
                          /\ f[p].sheet = p.sheet /\ f[p].slot = p.slot /\ f[p].page = p.page
    BY <1>1
  <2>3. f = [p \in placed |-> f[p]]
    OBVIOUS
  <2> HIDE DEF f
  <2> QED BY <2>1, <2>2, <2>3, KeptLaidOut
<1>3. ASSUME NEW s
      PROVE  LaidOut(ApplyAdjustSpec(placed, s), n) /\ Apart(ApplyAdjustSpec(placed, s))
  <2> DEFINE f == [p \in placed |-> [p EXCEPT !.cell = Adjusted(p.cell, s)]]
  <2>1. ApplyAdjustSpec(placed, s) = {f[p] : p \in placed}
    BY DEF ApplyAdjustSpec
  <2>2. \A p \in placed : /\ DOMAIN f[p] = DOMAIN p
                          /\ f[p].sheet = p.sheet /\ f[p].slot = p.slot /\ f[p].page = p.page
    BY <1>1
  <2>3. f = [p \in placed |-> f[p]]
    OBVIOUS
  <2> HIDE DEF f
  <2> QED BY <2>1, <2>2, <2>3, KeptLaidOut
<1> QED BY <1>2, <1>3

\* The tiles of a page lie on its sheet, each in a slot of its own (TilePlanner).
LEMMA CellsLaidOut ==
    ASSUME NEW n, NEW s \in Lists(n), NEW sheet, NEW columns \in Nat, NEW rows \in Nat,
           NEW overlap, NEW options
    PROVE  /\ LaidOut(Tiles(s, sheet, columns, rows, overlap, options), n)
           /\ Apart(Tiles(s, sheet, columns, rows, overlap, options))
<1> DEFINE cell(c, r) == TileCell(c, r, columns, rows, overlap, sheet)
           put(i, c, r) == Place(i - 1, r * columns + c, s[i], cell(c, r),
                                 Turned(cell(c, r), options))
           tiles == Tiles(s, sheet, columns, rows, overlap, options)
           across == 0 .. columns - 1
           down == 0 .. rows - 1
           index == DOMAIN s
           flat == index \X across
           each == flat \X down
           f == [t \in each |-> put(t[1][1], t[1][2], t[2])]
           all == {f[t] : t \in each}
<1>1. tiles = {} \/ tiles = {put(i, c, r) : i \in DOMAIN s, c \in across, r \in down}
  BY DEF Tiles
<1>2. CASE tiles = {}
  BY <1>2, NothingLaidOut
<1>3. CASE tiles = {put(i, c, r) : i \in DOMAIN s, c \in across, r \in down}
  <2>1. \A i, c, r : /\ {"sheet", "slot", "page", "shift"} \subseteq DOMAIN put(i, c, r)
                     /\ put(i, c, r).sheet = i - 1 /\ put(i, c, r).slot = r * columns + c
                     /\ put(i, c, r).page = s[i]
    <3> HIDE DEF cell
    <3> QED BY DEF Place
  <2> HIDE DEF put
  <2> HIDE DEF index, across, down
  <2>12. \A t \in each : f[t] = put(t[1][1], t[1][2], t[2])
    OBVIOUS
  <2>13. \A a \in flat : a[1] \in index /\ a[2] \in across /\ a = <<a[1], a[2]>>
    OBVIOUS
  <2>14. \A i \in index, c \in across :
            <<i, c>> \in flat /\ <<i, c>>[1] = i /\ <<i, c>>[2] = c
    OBVIOUS
  <2>15. \A a \in flat, r \in down :
            <<a, r>> \in each /\ <<a, r>>[1] = a /\ <<a, r>>[2] = r
    OBVIOUS
  <2>16. \A t \in each : t[1] \in flat /\ t[2] \in down /\ t = <<t[1], t[2]>>
    OBVIOUS
  <2>4. f = [t \in each |-> f[t]]
    OBVIOUS
  <2>5. Len(s) \in Nat /\ DOMAIN s = 1 .. Len(s)
        /\ \A i \in DOMAIN s : s[i] = Blank \/ s[i] \in 0 .. n - 1
    BY ListFacts
  <2>17. each = ((1 .. Len(s)) \X (0 .. columns - 1)) \X (0 .. rows - 1)
    <3>1. index = 1 .. Len(s)
      BY <2>5 DEF index
    <3> HIDE DEF f
    <3> QED BY <3>1 DEF across, down
  <2>6. \A i \in DOMAIN s : i \in Nat /\ i - 1 \in Nat
    BY <2>5
  <2>7. IsFiniteSet(each)
    <3> DEFINE k == Len(s)
               c == columns - 1
               r == rows - 1
    <3>1. 0 \in Int /\ 1 \in Int /\ k \in Int /\ c \in Int /\ r \in Int
      BY <2>5
    <3> HIDE DEF k, c, r
    <3>2. IsFiniteSet(1 .. k) /\ IsFiniteSet(0 .. c) /\ IsFiniteSet(0 .. r)
      BY ONLY <3>1, FS_Interval
    <3>3. IsFiniteSet((1 .. k) \X (0 .. c))
      BY ONLY <3>2, FS_Product
    <3>4. IsFiniteSet(((1 .. k) \X (0 .. c)) \X (0 .. r))
      BY ONLY <3>2, <3>3, FS_Product
    <3> HIDE DEF each
    <3> QED BY <2>17, <3>4 DEF k, c, r
  <2> HIDE DEF f, each, flat
  <2>2. \A i \in DOMAIN s, c \in across, r \in down : \E t \in each : f[t] = put(i, c, r)
    <3> SUFFICES ASSUME NEW i \in index, NEW c \in across, NEW r \in down
                 PROVE  \E t \in each : f[t] = put(i, c, r)
      BY DEF index
    <3> DEFINE a == <<i, c>>
    <3>1. a \in flat /\ a[1] = i /\ a[2] = c
      BY <2>14
    <3> HIDE DEF a
    <3> DEFINE t == <<a, r>>
    <3>2. t \in each /\ t[1] = a /\ t[2] = r
      BY <2>15, <3>1
    <3> HIDE DEF t
    <3>3. f[t] = put(i, c, r)
      BY <2>12, <3>1, <3>2
    <3> QED BY <3>2, <3>3
  <2>3. \A t \in each : /\ t[1][1] \in DOMAIN s /\ t[1][2] \in across /\ t[2] \in down
                        /\ f[t] = put(t[1][1], t[1][2], t[2])
                        /\ t = <<t[1], t[2]>> /\ t[1] = <<t[1][1], t[1][2]>>
    BY <2>12, <2>13, <2>16 DEF index
  <2>8. tiles = all
    <3>1. ASSUME NEW p \in tiles
          PROVE  p \in all
      <4>1. PICK i \in DOMAIN s, c \in across, r \in down : p = put(i, c, r)
        BY <1>3
      <4>2. PICK t \in each : f[t] = put(i, c, r)
        BY <2>2
      <4> QED BY <4>1, <4>2
    <3>2. all \subseteq tiles
      BY <1>3, <2>3
    <3> QED BY <3>1, <3>2
  <2>9. IsFiniteSet(all)
    BY <2>4, <2>7, ImageFinite
  <2>10. LaidOut(all, n)
    <3>1. \A t \in each : /\ {"sheet", "slot", "page", "shift"} \subseteq DOMAIN f[t]
                          /\ f[t].sheet \in Nat
                          /\ f[t].page = Blank \/ f[t].page \in 0 .. n - 1
      BY <2>1, <2>3, <2>5, <2>6
    <3> QED BY <2>9, <3>1 DEF LaidOut
  <2>11. Apart(all)
    <3> SUFFICES ASSUME NEW t \in each, NEW u \in each,
                        f[t].sheet = f[u].sheet, f[t].slot = f[u].slot
                 PROVE  f[t] = f[u]
      BY DEF Apart
    <3>1. /\ t[1][1] - 1 = u[1][1] - 1
          /\ t[2] * columns + t[1][2] = u[2] * columns + u[1][2]
      BY <2>1, <2>3
    <3>2. t[1][1] = u[1][1]
      BY <2>3, <2>6, <3>1
    <3>3. /\ columns \in Nat \ {0} /\ t[2] \in Nat /\ u[2] \in Nat
          /\ t[1][2] \in 0 .. columns - 1 /\ u[1][2] \in 0 .. columns - 1
      <4>1. t[1][2] \in across /\ u[1][2] \in across /\ t[2] \in down /\ u[2] \in down
        BY <2>3
      <4> QED BY <4>1 DEF across, down
    <3> DEFINE a == t[2]
               b == u[2]
               x == t[1][2]
               y == u[1][2]
    <3>6. /\ columns \in Nat \ {0} /\ a \in Nat /\ b \in Nat
          /\ x \in 0 .. columns - 1 /\ y \in 0 .. columns - 1
          /\ a * columns + x = b * columns + y
      BY <3>1, <3>3
    <3> HIDE DEF a, b, x, y
    <3>4. a = b /\ x = y
      BY ONLY <3>6, SameParts
    <3>5. t = u
      BY <2>3, <3>2, <3>4 DEF a, b, x, y
    <3> QED BY <3>5
  <2> QED BY <2>8, <2>10, <2>11
<1> QED BY <1>1, <1>2, <1>3

\* Pages in the order given fill the cells of sheet after sheet (ManualPlanner).
LEMMA ManualLaidOut ==
    ASSUME NEW n \in Nat, NEW order \in PageLists, NEW sheet, NEW columns \in Nat,
           NEW rows \in Nat, NEW options
    PROVE  /\ LaidOut(Manual(n, order, sheet, columns, rows, options), n)
           /\ Apart(Manual(n, order, sheet, columns, rows, options))
<1> DEFINE pages == [i \in DOMAIN order |-> PageOrBlank(order[i], n)]
<1>1. pages \in Lists(n)
  <2> DEFINE S == (0 .. n - 1) \union {Blank}
  <2>1. \A i \in DOMAIN order : order[i] \in Nat \union {Blank}
    BY LenProperties, ElementOfSeq DEF PageLists
  <2>2. \A page \in Nat \union {Blank} : PageOrBlank(page, n) \in S
    BY PagesAssumption DEF PageOrBlank
  <2> HIDE DEF S
  <2>3. pages = [i \in DOMAIN order |-> pages[i]] /\ \A i \in DOMAIN order : pages[i] \in S
    BY <2>1, <2>2
  <2>4. order \in Seq(Nat \union {Blank})
    BY DEF PageLists
  <2> HIDE DEF pages
  <2>5. pages \in Seq(S)
    BY ONLY <2>3, <2>4, ListOfItems
  <2> QED BY <2>5 DEF Lists, S
<1>2. \/ Manual(n, order, sheet, columns, rows, options) = {}
      \/ Manual(n, order, sheet, columns, rows, options) = NUp(pages, sheet, columns, rows, options)
  BY DEF Manual
<1> HIDE DEF pages
<1> QED BY <1>1, <1>2, NothingLaidOut, NUpLaidOut

\* The sheets of a signature are two for every four pages.
LEMMA SheetsOfSignature ==
    ASSUME NEW n, NEW s \in Lists(n), NEW sheet, NEW creep, NEW h \in Nat, Len(s) <= 2 * h,
           h % 2 = 0
    PROVE  \A p \in Booklet(s, sheet, creep) : p.sheet \in 0 .. h - 1
<1> DEFINE signature == PaddedTo(s, 4)
           half == Size(sheet.w \div 2, sheet.h)
           placed(t, q) == [Place(2 * t + q.side, q.slot, q.page,
                                  Rect(q.slot * half.w, 0, half), FALSE)
                              EXCEPT !.shift = Inwards(q.slot, CreepMagnitude(t, creep))]
           length == Len(signature)
           k == length \div 4
<1>1. Booklet(s, sheet, creep)
        = UNION {{placed(t, q) : q \in SheetSides(signature, t)} : t \in 0 .. k - 1}
  BY DEF Booklet
<1>2. \A t, q : placed(t, q).sheet = 2 * t + q.side
  BY DEF Place
<1>3. /\ signature \in Lists(n) /\ length \in Nat /\ k \in Nat /\ length = 4 * k
      /\ length <= 2 * h
  <2>1. signature \in Lists(n) /\ length \in Nat /\ length % 4 = 0
    BY PaddingFacts DEF Lists
  <2>2. length <= Len(s) + 3
    <3>1. CASE Len(s) % 4 = 0
      BY <3>1, ListFacts DEF PaddedTo
    <3>2. CASE Len(s) % 4 # 0
      <4> DEFINE m == 4 - (Len(s) % 4)
                 blanks == Blanks(m)
      <4>1. m \in 1 .. 3 /\ Len(s) \in Nat
        BY <3>2, ListFacts
      <4>2. signature = s \o blanks
        BY <3>2 DEF PaddedTo
      <4> HIDE DEF m, signature
      <4>3. blanks \in Seq({Blank}) /\ Len(blanks) = m
        <5>1. blanks \in [1 .. m -> {Blank}] /\ m \in Nat
          BY <4>1 DEF Blanks
        <5> HIDE DEF blanks
        <5>2. blanks \in Seq({Blank})
          BY <5>1, SeqDef
        <5> QED BY <5>1, <5>2, LenProperties
      <4> HIDE DEF blanks
      <4>4. s \in Seq((0 .. n - 1) \union {Blank}) /\ blanks \in Seq((0 .. n - 1) \union {Blank})
        BY <4>3, SeqMonotonic DEF Lists
      <4>5. Len(signature) = Len(s) + m
        BY ONLY <4>2, <4>3, <4>4, ConcatProperties
      <4> QED BY <4>1, <4>5
    <3> QED BY <3>1, <3>2
  <2>3. Len(s) \in Nat
    BY ListFacts
  <2> HIDE DEF length, signature
  <2>4. k \in Nat /\ length = 4 * k
    BY <2>1
  <2>5. length <= 2 * h
    BY <2>1, <2>2, <2>3, <2>4
  <2> QED BY <2>1, <2>4, <2>5
<1> HIDE DEF placed, k, length
<1>4. ASSUME NEW p \in Booklet(s, sheet, creep)
      PROVE  p.sheet \in 0 .. h - 1
  <2>1. PICK t \in 0 .. k - 1 : \E q \in SheetSides(signature, t) : p = placed(t, q)
    BY <1>1
  <2>2. PICK q \in SheetSides(signature, t) : p = placed(t, q)
    BY <2>1
  <2>3. q.side \in {0, 1}
    <3>1. signature \in Lists(n) /\ k \in Nat /\ Len(signature) = 4 * k
      BY <1>3 DEF length
    <3> HIDE DEF signature
    <3> QED BY <3>1, SidesFacts
  <2> QED BY <1>2, <1>3, <2>2, <2>3
<1> QED BY <1>4

\* Signature after signature takes sheets of its own, whatever their size
\* (BookletPlanner).
LEMMA SignaturesLaidOut ==
    ASSUME NEW n, NEW s \in Lists(n), NEW size \in Nat, size % 4 = 0, NEW sheet, NEW creep
    PROVE  /\ LaidOut(BookletSignatures(s, size, sheet, creep), n)
           /\ Apart(BookletSignatures(s, size, sheet, creep))
<1>1. CASE size = 0
  <2>1. BookletSignatures(s, size, sheet, creep) = Booklet(s, sheet, creep)
    BY <1>1 DEF BookletSignatures
  <2> QED BY <2>1, BookletLaidOut
<1>2. CASE size # 0
  <2> DEFINE length == Len(s)
             count == (length + size - 1) \div size
             part(k) == SubSeq(s, k * size + 1, Least((k + 1) * size, length))
             signature(k) == PaddedTo(part(k), size)
             h == size \div 2
             booklet(k) == Booklet(signature(k), sheet, creep)
             moved(p, k) == [p EXCEPT !.sheet = @ + k * h]
             on(k) == {moved(p, k) : p \in booklet(k)}
             all == UNION {on(k) : k \in 0 .. count - 1}
  <2>1. BookletSignatures(s, size, sheet, creep) = all
    BY <1>2 DEF BookletSignatures
  <2>2. h \in Nat /\ size = 2 * h /\ h % 2 = 0 /\ h # 0
    BY <1>2
  <2>3. length \in Nat /\ count \in Nat
    BY <1>2, ListFacts
  <2>4. \A k \in 0 .. count - 1 : signature(k) \in Lists(n) /\ Len(signature(k)) <= 2 * h
    <3> SUFFICES ASSUME NEW k \in 0 .. count - 1
                 PROVE  signature(k) \in Lists(n) /\ Len(signature(k)) <= 2 * h
      OBVIOUS
    <3> DEFINE a == k * size
               t == part(k)
    <3>1. k \in Nat /\ a \in Nat /\ (k + 1) * size = a + size
      BY <2>3
    <3>2. t = SubSeq(s, a + 1, Least(a + size, length))
      BY <3>1
    <3> HIDE DEF a, t
    <3> DEFINE b == Least(a + size, length)
    <3>3. b \in Nat /\ b <= length /\ b <= a + size
      BY <2>3, <3>1 DEF Least
    <3>4. t \in Lists(n) /\ Len(t) <= size
      <4>1. s \in Seq((0 .. n - 1) \union {Blank}) /\ t = SubSeq(s, a + 1, b)
        BY <3>2 DEF Lists
      <4> HIDE DEF b
      <4> DEFINE m == a + 1
      <4>2. m \in 1 .. length + 1 /\ (b \in m - 1 .. length \/ b < m)
        BY <2>3, <3>1, <3>3
      <4>3. CASE b < m
        <5>1. t = <<>>
          BY <3>1, <3>3, <4>1, <4>3
        <5> QED BY <5>1, EmptySeq DEF Lists
      <4>4. CASE ~(b < m)
        <5>1. t \in Seq((0 .. n - 1) \union {Blank}) /\ Len(t) = b - m + 1
          BY <2>3, <3>1, <3>3, <4>1, <4>4, SubSeqProperties
        <5> QED BY <3>1, <3>3, <5>1 DEF Lists
      <4> QED BY <4>3, <4>4
    <3>5. signature(k) = PaddedTo(t, size)
      BY DEF t
    <3>6. Len(PaddedTo(t, size)) <= size
      <4>1. CASE Len(t) % size = 0
        BY <3>4, <4>1 DEF PaddedTo
      <4>2. CASE Len(t) % size # 0
        <5> DEFINE m == size - (Len(t) % size)
                   blanks == Blanks(m)
        <5>1. Len(t) \in Nat
          BY <3>4, ListFacts
        <5>2. Len(t) % size = Len(t)
          <6>1. Len(t) # size
            BY <1>2, <4>2
          <6> QED BY <1>2, <3>4, <5>1, <6>1
        <5> DEFINE r == Len(t) % size
        <5>8. size # 0 /\ r # 0 /\ r = Len(t) /\ m = size - r
          BY <1>2, <4>2, <5>2
        <5>3. PaddedTo(t, size) = t \o blanks
          <6>1. PaddedTo(t, size) = IF size = 0 \/ r = 0 THEN t ELSE t \o Blanks(size - r)
            BY DEF PaddedTo
          <6> HIDE DEF r, m
          <6> QED BY <5>8, <6>1
        <5> HIDE DEF m, r
        <5>4. m \in Nat /\ m = size - Len(t)
          BY <3>4, <5>1, <5>8
        <5>5. blanks \in Seq({Blank}) /\ Len(blanks) = m
          <6>1. blanks \in [1 .. m -> {Blank}]
            BY <5>4 DEF Blanks
          <6> HIDE DEF blanks
          <6>2. blanks \in Seq({Blank})
            BY <5>4, <6>1, SeqDef
          <6> QED BY <5>4, <6>1, <6>2, LenProperties
        <5> HIDE DEF blanks
        <5>6. /\ t \in Seq((0 .. n - 1) \union {Blank})
              /\ blanks \in Seq((0 .. n - 1) \union {Blank})
          BY <3>4, <5>5, SeqMonotonic DEF Lists
        <5>7. Len(t \o blanks) = Len(t) + m
          BY ONLY <5>5, <5>6, ConcatProperties
        <5> QED BY <5>1, <5>3, <5>4, <5>7
      <4> QED BY <4>1, <4>2
    <3> QED BY <2>2, <3>4, <3>5, <3>6, PaddedList
  <2> HIDE DEF signature, h, count
  <2>5. \A k \in 0 .. count - 1 :
           /\ LaidOut(booklet(k), n) /\ Apart(booklet(k))
           /\ \A p \in booklet(k) : p.sheet \in 0 .. h - 1
    BY <2>2, <2>4, BookletLaidOut, SheetsOfSignature
  <2> HIDE DEF booklet
  <2>6. \A k \in 0 .. count - 1 : \A p \in booklet(k) :
           /\ {"sheet", "slot", "page", "shift"} \subseteq DOMAIN p
           /\ p.sheet \in 0 .. h - 1
           /\ p.page = Blank \/ p.page \in 0 .. n - 1
    BY <2>5 DEF LaidOut
  <2>7. \A k \in 0 .. count - 1 : \A p \in booklet(k) :
           /\ DOMAIN moved(p, k) = DOMAIN p
           /\ moved(p, k).sheet = p.sheet + k * h /\ moved(p, k).slot = p.slot
           /\ moved(p, k).page = p.page
    BY <2>6
  <2> HIDE DEF moved
  <2>8. \A p \in all : \E k \in 0 .. count - 1 : \E q \in booklet(k) : p = moved(q, k)
    OBVIOUS
  <2>9. IsFiniteSet(all)
    <3>1. ASSUME NEW k \in 0 .. count - 1
          PROVE  IsFiniteSet(on(k))
      <4> DEFINE g == [p \in booklet(k) |-> moved(p, k)]
      <4>1. g = [p \in booklet(k) |-> g[p]] /\ on(k) = {g[p] : p \in booklet(k)}
        OBVIOUS
      <4>2. IsFiniteSet(booklet(k))
        BY <2>5 DEF LaidOut
      <4> HIDE DEF g, on
      <4>3. IsFiniteSet({g[p] : p \in booklet(k)})
        BY ONLY <4>1, <4>2, ImageFinite
      <4> QED BY <4>1, <4>3
    <3> DEFINE g == [k \in 0 .. count - 1 |-> on(k)]
               sheets == {on(k) : k \in 0 .. count - 1}
               last == count - 1
    <3> HIDE DEF on
    <3>2. g = [k \in 0 .. last |-> g[k]] /\ sheets = {g[k] : k \in 0 .. last}
      OBVIOUS
    <3>3. \A T \in sheets : IsFiniteSet(T)
      BY <3>1
    <3>4. 0 \in Int /\ last \in Int
      BY <2>3 DEF count
    <3> HIDE DEF g, sheets, last
    <3>5. IsFiniteSet(0 .. last)
      BY ONLY <3>4, FS_Interval
    <3>6. IsFiniteSet({g[k] : k \in 0 .. last})
      BY ONLY <3>2, <3>5, ImageFinite
    <3>7. IsFiniteSet(UNION sheets)
      BY ONLY <3>2, <3>3, <3>6, FS_UNION
    <3> QED BY <3>7 DEF sheets
  <2> HIDE DEF all
  <2>10. LaidOut(all, n)
    <3>1. ASSUME NEW p \in all
          PROVE  /\ {"sheet", "slot", "page", "shift"} \subseteq DOMAIN p
                 /\ p.sheet \in Nat
                 /\ p.page = Blank \/ p.page \in 0 .. n - 1
      <4>1. PICK k \in 0 .. count - 1 : \E q \in booklet(k) : p = moved(q, k)
        BY <2>8
      <4>2. PICK q \in booklet(k) : p = moved(q, k)
        BY <4>1
      <4>3. q.sheet \in Nat /\ k \in Nat
        BY <2>2, <2>3, <2>6 DEF count
      <4>4. q.sheet + k * h \in Nat
        BY <2>2, <4>3
      <4> QED BY <2>6, <2>7, <4>2, <4>4
    <3> QED BY <2>9, <3>1 DEF LaidOut
  <2>11. Apart(all)
    <3> SUFFICES ASSUME NEW p \in all, NEW r \in all, p.sheet = r.sheet, p.slot = r.slot
                 PROVE  p = r
      BY DEF Apart
    <3>1. PICK k \in 0 .. count - 1 : \E q \in booklet(k) : p = moved(q, k)
      BY <2>8
    <3>2. PICK q \in booklet(k) : p = moved(q, k)
      BY <3>1
    <3>3. PICK l \in 0 .. count - 1 : \E o \in booklet(l) : r = moved(o, l)
      BY <2>8
    <3>4. PICK o \in booklet(l) : r = moved(o, l)
      BY <3>3
    <3> DEFINE x == q.sheet
               y == o.sheet
    <3>5. /\ h \in Nat \ {0} /\ k \in Nat /\ l \in Nat
          /\ x \in 0 .. h - 1 /\ y \in 0 .. h - 1
          /\ k * h + x = l * h + y
      <4>1. x + k * h = y + l * h
        BY <2>7, <3>2, <3>4
      <4>2. x \in 0 .. h - 1 /\ y \in 0 .. h - 1
        BY <2>6
      <4>3. k \in Nat /\ l \in Nat
        BY <2>3
      <4> HIDE DEF x, y
      <4> QED BY <2>2, <4>1, <4>2, <4>3
    <3> HIDE DEF x, y
    <3>6. k = l /\ x = y
      BY ONLY <3>5, SameParts
    <3>7. q.sheet = o.sheet /\ q.slot = o.slot
      BY <2>7, <3>2, <3>4, <3>6 DEF x, y
    <3>8. q = o
      BY <2>5, <3>6, <3>7 DEF Apart
    <3> QED BY <3>2, <3>4, <3>6, <3>8
  <2> QED BY <2>1, <2>10, <2>11
<1> QED BY <1>1, <1>2

\* Every plan main makes has pages of the document, one in a slot (main).
LEMMA PlacedLaidOut ==
    ASSUME NEW s, SettingsOK(s), NEW mode \in PlanModes,
           mode = "step-repeat"
              => Setting(s, "--repeat-x") * Setting(s, "--repeat-y") <= Word
    PROVE  /\ PageCountOf(mode, s) \in Nat
           /\ LaidOut(Placed(mode, s), PageCountOf(mode, s)) /\ Apart(Placed(mode, s))
<1> DEFINE n == PageCountOf(mode, s)
           pages == SourcePagesOf(s, n)
           sheet == SheetOf(s)
           columns == Setting(s, "--columns")
           rows == Setting(s, "--rows")
           options == BuildOptions(s)
           size == NormalizeSignatureSize(Setting(s, "--signature-size"))
           creep == Setting(s, "--creep")
           twoUp == TwoUpOf(pages, s)
           booklet == BookletOf(pages, s)
           Good(placed) == LaidOut(placed, n) /\ Apart(placed)
<1>1. /\ Setting(s, "--pages") \in Nat /\ columns \in Nat /\ rows \in Nat
      /\ Setting(s, "--signature-size") \in Nat /\ Setting(s, "--pad-multiple") \in Nat
      /\ Setting(s, "--repeat-x") \in Nat /\ Setting(s, "--repeat-y") \in Nat
  BY DEF SettingsOK, CountKeys
<1>2. Setting(s, "explicit") \in PageLists /\ Setting(s, "manual") \in PageLists
  BY DEF SettingsOK, SequenceKeys
<1>3. n \in Nat
  <2>1. Len(Setting(s, "explicit")) \in Nat
    BY <1>2, LenProperties DEF PageLists
  <2> QED BY <1>1, <2>1 DEF PageCountOf
<1>4. pages \in Lists(n)
  <2>1. options.explicit \in PageLists /\ options.padToMultiple \in Nat
    BY <1>1, <1>2 DEF BuildOptions
  <2>2. pages = <<>> \/ pages = BuildSourcePages(n, options)
    BY DEF SourcePagesOf
  <2> HIDE DEF n, options, pages
  <2> QED BY <1>3, <2>1, <2>2, SourceLists, EmptySeq DEF Lists
<1> HIDE DEF n, pages, sheet, columns, rows, options, size
<1>5. Good(twoUp)
  <2>1. twoUp = Fitted(TwoUp(pages, sheet), options)
    BY DEF TwoUpOf, sheet, options
  <2>2. Good(TwoUp(pages, sheet))
    BY <1>4, TwoUpLaidOut
  <2> QED BY <2>1, <2>2, ChangedLaidOut
<1>6. Good(booklet)
  <2>1. booklet = Fitted(BookletSignatures(pages, size, sheet, creep), options)
    BY DEF BookletOf, sheet, options, size
  <2>2. size \in Nat /\ size % 4 = 0
    BY <1>1, SignatureSizes DEF size
  <2>3. Good(BookletSignatures(pages, size, sheet, creep))
    BY <1>4, <2>2, SignaturesLaidOut
  <2> QED BY <2>1, <2>3, ChangedLaidOut
<1> HIDE DEF twoUp, booklet
<1>7. CASE mode = "n-up"
  <2>1. Placed(mode, s) = NUp(pages, sheet, columns, rows, options)
    BY <1>7 DEF Placed, n, pages, sheet, columns, rows, options
  <2>2. Good(NUp(pages, sheet, columns, rows, options))
    BY <1>1, <1>4, NUpLaidOut
  <2> QED BY <1>3, <2>1, <2>2 DEF n
<1>8. CASE mode = "booklet"
  <2>1. Placed(mode, s) = booklet
    BY <1>8 DEF Placed, n, pages, booklet
  <2> QED BY <1>3, <1>6, <2>1 DEF n
<1>9. CASE mode = "step-repeat"
  <2> DEFINE config == StepRepeatConfig(s)
  <2>1. Placed(mode, s) = StepAndRepeat(pages, sheet, config, options)
    BY <1>9 DEF Placed, n, pages, sheet, options
  <2>2. config.columns \in Nat /\ config.rows \in Nat /\ config.columns * config.rows <= Word
    BY <1>1, <1>9 DEF StepRepeatConfig
  <2> HIDE DEF config
  <2>3. Good(StepAndRepeat(pages, sheet, config, options))
    BY <1>4, <2>2, StepAndRepeatLaidOut
  <2> QED BY <1>3, <2>1, <2>3 DEF n
<1>10. CASE mode = "manual"
  <2> DEFINE order == Setting(s, "manual")
  <2>1. Placed(mode, s) = Manual(n, order, sheet, columns, rows, options)
    BY <1>10 DEF Placed, PageCountOf, InsertModes, n, sheet, columns, rows, options
  <2> HIDE DEF order
  <2>2. Good(Manual(n, order, sheet, columns, rows, options))
    BY <1>1, <1>2, <1>3, ManualLaidOut DEF order
  <2> QED BY <1>3, <2>1, <2>2 DEF n
<1>11. CASE mode = "tile"
  <2> DEFINE overlap == Setting(s, "--tile-overlap")
  <2>1. Placed(mode, s) = Tiles(pages, sheet, columns, rows, overlap, options)
    BY <1>11 DEF Placed, n, pages, sheet, columns, rows, options
  <2> HIDE DEF overlap
  <2>2. Good(Tiles(pages, sheet, columns, rows, overlap, options))
    BY <1>1, <1>4, CellsLaidOut
  <2> QED BY <1>3, <2>1, <2>2 DEF n
<1>12. CASE mode = "trim-shift"
  <2> DEFINE shift == Setting(s, "shiftCreep")
             total == Setting(s, "--signature-size")
  <2>1. Placed(mode, s) = ApplyCreepShiftToPlan(booklet, shift, total)
    BY <1>12 DEF Placed, n, pages, booklet
  <2> HIDE DEF shift, total
  <2>2. Good(ApplyCreepShiftToPlan(booklet, shift, total))
    BY <1>6, ShiftLaidOut
  <2> QED BY <1>3, <2>1, <2>2 DEF n
<1>13. CASE mode = "adjust-pages"
  <2>1. Placed(mode, s) = ApplyAdjustSpec(twoUp, s)
    BY <1>13 DEF Placed, n, pages, twoUp
  <2>2. Good(ApplyAdjustSpec(twoUp, s))
    BY <1>5, ChangedLaidOut
  <2> QED BY <1>3, <2>1, <2>2 DEF n
<1>14. CASE mode \notin {"n-up", "booklet", "step-repeat", "manual", "tile", "trim-shift",
                         "adjust-pages"}
  <2>1. Placed(mode, s) = twoUp
    BY <1>14 DEF Placed, n, pages, twoUp
  <2> QED BY <1>3, <1>5, <2>1 DEF n
<1> QED BY <1>7, <1>8, <1>9, <1>10, <1>11, <1>12, <1>13, <1>14

\* The plan that is written is laid out.
LEMMA PlannedLaidOut ==
    ASSUME SettingsInv, InputsInRange, Planned
    PROVE  /\ child.plan.count \in Nat
           /\ LaidOut(child.plan.placed, child.plan.count) /\ Apart(child.plan.placed)
<1> DEFINE s == child.settings
           mode == child.mode
<1>1. SettingsOK(s) /\ mode \in PlanModes /\ child.plan = PlanFor(mode, s)
  BY DEF SettingsInv, PlanOK, PlannedOK, Planned
<1>2. mode = "step-repeat" => Setting(s, "--repeat-x") * Setting(s, "--repeat-y") <= Word
  BY DEF InputsInRange, RepeatsFit, Planned
<1>3. child.plan.count = PageCountOf(mode, s) /\ child.plan.placed = Placed(mode, s)
  BY <1>1 DEF PlanFor, PlanOf
<1> HIDE DEF s, mode
<1> QED BY <1>1, <1>2, <1>3, PlacedLaidOut

\* Whatever the arguments, rows and presets a plan is made from, no two of its
\* placements have the same slot of a sheet: signature after signature, tile
\* after tile, copy after copy (main and its planners).
THEOREM SlotsAreHeldOnce == CliSpec /\ []InputsInRange => []SlotsHoldOnePage
<1>1. SettingsInv /\ InputsInRange => SlotsHoldOnePage
  BY PlannedLaidOut DEF SlotsHoldOnePage, Apart
<1> QED BY <1>1, SettingsSafety, PTL

-----------------------------------------------------------------------------
\* The last one of some places of a list.
LEMMA LastPlace ==
    ASSUME NEW s, IsSequence(s), NEW places, places \subseteq DOMAIN s, places # {}
    PROVE  Max(places) \in places /\ Max(places) \in Nat
<1> DEFINE n == Len(s)
<1>1. n \in Nat /\ DOMAIN s = 1 .. n
  BY SequenceFacts
<1>2. n \in Int /\ 1 \in Int
  BY <1>1
<1> HIDE DEF n
<1>3. IsFiniteSet(1 .. n)
  BY <1>2, FS_Interval
<1>4. places \in SUBSET (1 .. n) /\ places \in SUBSET Nat
  BY <1>1
<1>5. IsFiniteSet(places)
  BY <1>3, <1>4, FS_Subset
<1> QED BY <1>4, <1>5, MaxFacts

\* A record has the cells of its row under the names of their columns.
LEMMA RecordCells ==
    ASSUME NEW name \in DOMAIN Tables, NEW row, AreArguments(row), NEW field
    PROVE  LET table == Tables[name]
               columns == ColumnsNamed(table, field) \ {1} IN
           /\ field \in DOMAIN Record(table, row) <=> columns # {} /\ field # ""
           /\ columns # {} /\ field # ""
                 => Record(table, row)[field] = IF Max(columns) > Len(row) THEN Empty
                                                ELSE row[Max(columns)]
<1> DEFINE table == Tables[name]
           header == table.header
           columns == ColumnsNamed(table, field) \ {1}
           names == {header[i] : i \in 2 .. Len(header)} \ {""}
           place(f) == Max(ColumnsNamed(table, f) \ {1})
           record == Record(table, row)
<1>1. record = [f \in names |-> IF place(f) <= Len(row) THEN row[place(f)] ELSE Empty]
  BY DEF Record
<1>2. IsSequence(header) /\ Len(header) \in Nat /\ DOMAIN header = 1 .. Len(header)
  BY RowFacts, SequenceFacts
<1>3. columns = {i \in DOMAIN header : header[i] = field} \ {1}
  BY DEF ColumnsNamed
<1>4. field \in names <=> columns # {} /\ field # ""
  <2>1. \A i : i \in 2 .. Len(header) <=> i \in DOMAIN header /\ i # 1
    BY <1>2
  <2> HIDE DEF columns, header
  <2>2. (\E i \in 2 .. Len(header) : header[i] = field) <=> columns # {}
    BY <1>3, <2>1
  <2> QED BY <2>2
<1>5. columns # {} => Max(columns) \in Nat
  <2>1. columns \subseteq DOMAIN header
    BY <1>3
  <2> HIDE DEF columns, header
  <2> QED BY <1>2, <2>1, LastPlace
<1>6. Len(row) \in Nat
  BY SequenceFacts DEF AreArguments
<1>7. place(field) = Max(columns)
  OBVIOUS
<1> HIDE DEF names, place, columns, record
<1>8. field \in DOMAIN record <=> columns # {} /\ field # ""
  BY <1>1, <1>4
<1>9. columns # {} /\ field # ""
         => record[field] = IF Max(columns) <= Len(row) THEN row[Max(columns)] ELSE Empty
  BY <1>1, <1>4, <1>7
<1>10. columns # {} /\ field # ""
         => record[field] = IF Max(columns) > Len(row) THEN Empty ELSE row[Max(columns)]
  <2> DEFINE m == Max(columns)
             length == Len(row)
  <2>1. length \in Nat /\ (columns # {} => m \in Nat)
    BY <1>5, <1>6
  <2> HIDE DEF m, length
  <2>2. columns # {} => (m <= length <=> ~(m > length))
    BY <2>1
  <2> QED BY <1>9, <2>2, Zenon DEF m, length
<1> QED BY <1>8, <1>10 DEF columns, record

\* The value a record, or no record, has for a field.
ValueIn(record, field) == IF field \in DOMAIN record THEN record[field] ELSE Empty

\* The records by page have the cells of the last row of the page
\* (LoadVariableDataCsv, LoadVariableDataSet).
LEMMA RecordedCells ==
    ASSUME NEW name \in DOMAIN Tables, HasPages(Tables[name]), NEW page \in Nat, NEW field
    PROVE  ValueIn(RecordFor(page, ByPage(Tables[name])), field)
              = CellFor(Tables[name], page, field)
<1> DEFINE table == Tables[name]
           rows == RowsOf(table)
           index(k) == rows[k][1].number - 1
           same == {k \in DOMAIN rows : index(k) = page}
           ofPage == {k \in DOMAIN rows : rows[k][1] = Number(page + 1)}
           records == ByPage(table)
           columns == ColumnsNamed(table, field) \ {1}
<1>1. /\ IsSequence(rows)
      /\ \A k \in DOMAIN rows : AreArguments(rows[k]) /\ rows[k] # <<>>
  BY RowFacts
<1>2. \A k \in DOMAIN rows : rows[k][1].number \in Int /\ rows[k][1] = Number(rows[k][1].number)
  <2> SUFFICES ASSUME NEW k \in DOMAIN rows
               PROVE  rows[k][1].number \in Int /\ rows[k][1] = Number(rows[k][1].number)
    OBVIOUS
  <2> DEFINE row == rows[k]
  <2>1. row \in Range(rows)
    BY DEF Range
  <2>2. IsNumber(row[1], "atLeastOne")
    BY <2>1 DEF HasPages
  <2>3. row[1].kind = "number"
    BY <2>2 DEF IsNumber
  <2>4. AreArguments(row) /\ row # <<>>
    BY <1>1
  <2> HIDE DEF row
  <2>5. 1 \in DOMAIN row
    <3>1. row \in Seq(Range(row)) /\ Len(row) \in Nat /\ DOMAIN row = 1 .. Len(row)
      BY <2>4, SequenceFacts DEF AreArguments, IsSequence
    <3>2. Len(row) # 0
      BY <2>4, <3>1, EmptySeq
    <3> QED BY <3>1, <3>2
  <2>6. IsNumeral(row[1])
    BY <2>4, <2>5 DEF AreArguments, IsArgument
  <2> QED BY <2>3, <2>6 DEF IsNumeral, row
<1>3. same = ofPage
  <2> HIDE DEF rows
  <2>1. \A k \in DOMAIN rows : index(k) = page <=> rows[k][1].number = page + 1
    BY <1>2
  <2>2. \A m \in Int : Number(m) = Number(page + 1) <=> m = page + 1
    <3>1. \A m, n : Number(m).number = m
      BY DEF Number
    <3> QED BY <3>1
  <2>3. \A k \in DOMAIN rows : rows[k][1] = Number(page + 1) <=> rows[k][1].number = page + 1
    BY <1>2, <2>2
  <2> QED BY <2>1, <2>3
<1>4. /\ page \in DOMAIN records <=> same # {}
      /\ same # {} => records[page] = Record(table, rows[Max(same)])
  <2> DEFINE pages == {index(k) : k \in DOMAIN rows}
             last(p) == Max({k \in DOMAIN rows : index(k) = p})
  <2>1. records = [p \in pages |-> Record(table, rows[last(p)])]
    BY DEF ByPage
  <2>2. page \in pages <=> same # {}
    <3> HIDE DEF rows, index
    <3> QED OBVIOUS
  <2>3. last(page) = Max(same)
    OBVIOUS
  <2> HIDE DEF records, pages, last, same, rows
  <2> QED BY <2>1, <2>2, <2>3
<1>5. same # {} => Max(same) \in same
  <2>1. same \subseteq DOMAIN rows
    OBVIOUS
  <2> HIDE DEF same, rows
  <2> QED BY <1>1, <2>1, LastPlace
<1>6. same # {} => AreArguments(rows[Max(same)])
  BY <1>1, <1>5
<1>7. CellFor(table, page, field)
        = IF same = {} \/ columns = {} \/ field = "" THEN Empty
          ELSE IF Max(columns) > Len(rows[Max(same)]) THEN Empty
          ELSE rows[Max(same)][Max(columns)]
  BY <1>3 DEF CellFor
<1> HIDE DEF same, ofPage, rows, columns, records
<1>8. CASE same = {}
  <2>1. RecordFor(page, records) = <<>>
    BY <1>4, <1>8 DEF RecordFor
  <2> QED BY <1>7, <1>8, <2>1 DEF ValueIn, records
<1>9. CASE same # {}
  <2> DEFINE row == rows[Max(same)]
             record == Record(table, row)
  <2>1. RecordFor(page, records) = record
    BY <1>4, <1>9 DEF RecordFor
  <2>2. /\ field \in DOMAIN record <=> columns # {} /\ field # ""
        /\ columns # {} /\ field # ""
              => record[field] = IF Max(columns) > Len(row) THEN Empty ELSE row[Max(columns)]
    BY <1>6, <1>9, RecordCells DEF columns
  <2> HIDE DEF record
  <2> QED BY <1>7, <1>9, <2>1, <2>2 DEF ValueIn, records
<1> QED BY <1>8, <1>9

\* An overlay of a record, and of what is built in, has the record's values in
\* the fields that are not built in (ExpandOverlayTemplate).
LEMMA OverlayFits ==
    ASSUME NEW name \in DOMAIN Tables, HasPages(Tables[name]), NEW page \in Nat, NEW template,
           NEW record, record = RecordFor(page, ByPage(Tables[name])),
           NEW variables,
           \A field : field \notin BuiltIn => ValueIn(variables, field) = ValueIn(record, field)
    PROVE  FieldsFit(ExpandOverlayTemplate(template, variables), template, Tables[name], page)
<1> DEFINE overlay == ExpandOverlayTemplate(template, variables)
<1> SUFFICES ASSUME NEW i \in DOMAIN template.items, template.items[i].kind = "field",
                    template.items[i].text \notin BuiltIn
             PROVE  overlay[i] = CellFor(Tables[name], page, template.items[i].text)
  BY DEF FieldsFit
<1> DEFINE field == template.items[i].text
<1>1. overlay[i] = ValueIn(variables, field)
  BY DEF ExpandOverlayTemplate, ValueIn
<1> HIDE DEF overlay, field
<1>2. ValueIn(record, field) = CellFor(Tables[name], page, field)
  BY RecordedCells
<1>3. field \notin BuiltIn
  BY DEF field
<1> QED BY <1>1, <1>2, <1>3 DEF field

\* What is added under other names changes no value.
LEMMA AddedValues ==
    ASSUME NEW record, NEW added, NEW field, field \notin DOMAIN added
    PROVE  ValueIn(record ++ added, field) = ValueIn(record, field)
<1>1. field \in DOMAIN (record ++ added) <=> field \in DOMAIN record
  BY DEF ++
<1>2. field \in DOMAIN record => (record ++ added)[field] = record[field]
  BY DEF ++
<1> QED BY <1>1, <1>2 DEF ValueIn

\* Wherever a page is placed, whatever the plan and whatever the file, the
\* overlay that is drawn on it has the values of its own record
\* (ComposePlanPdf, ToProductionCompositionJson, MergeVariableData).
THEOREM PagesAreGivenTheirRecord == CliSpec /\ []InputsInRange => []PagesKeepTheirRecord
<1>1. ASSUME SettingsInv, InputsInRange
      PROVE  PagesKeepTheirRecord
  <2> SUFFICES ASSUME Planned
               PROVE  /\ LET template == Setting(child.settings, "--pdf-overlay-template")
                             path == Setting(child.settings, "--pdf-variable-csv") IN
                         template # Empty /\ path # Empty /\ CsvLoads(path) =>
                             \A p \in child.plan.placed : p.page # Blank =>
                                 /\ FieldsFit(CompositionOverlay(p, template, path), template,
                                              Tables[path.text], p.page)
                                 /\ FieldsFit(PdfOverlay(p, template, path), template,
                                              Tables[path.text], p.page)
                      /\ LET template == Setting(child.settings, "--overlay-template")
                             path == Setting(child.settings, "--variable-csv")
                             merged == MergeVariableData(template, path, child.plan.count) IN
                         child.mode = "variable-data" /\ template # Empty =>
                             \A page \in DOMAIN merged : merged[page] # <<>> =>
                                 FieldsFit(merged[page], template, Tables[path.text], page)
    BY DEF PagesKeepTheirRecord
  <2>1. child.plan.count \in Nat /\ \A p \in child.plan.placed :
                                       p.page = Blank \/ p.page \in 0 .. child.plan.count - 1
    BY PlannedLaidOut, <1>1 DEF LaidOut
  <2>2. ASSUME NEW template, NEW path, path # Empty, CsvLoads(path),
               NEW p \in child.plan.placed, p.page # Blank
        PROVE  /\ FieldsFit(CompositionOverlay(p, template, path), template,
                            Tables[path.text], p.page)
               /\ FieldsFit(PdfOverlay(p, template, path), template, Tables[path.text], p.page)
    <3> DEFINE name == path.text
               record == RecordFor(p.page, ByPage(Tables[name]))
               composed == [sheet |-> Number(p.sheet + 1), slot |-> Number(p.slot + 1),
                            page |-> Number(ItemOfPage(p.page))]
               drawn == [sheet |-> Number(p.sheet + 1), slot |-> Number(p.slot),
                         page |-> IF p.page = Blank THEN Text("blank") ELSE Number(p.page + 1),
                         doc |-> IF p.page = Blank THEN Empty ELSE Text("cli-input")]
    <3>1. name \in DOMAIN Tables /\ HasPages(Tables[name]) /\ p.page \in Nat
      BY <2>1, <2>2 DEF CsvLoads, IsTable
    <3>2. CsvRecords(path) = ByPage(Tables[name])
      BY <2>2 DEF CsvRecords
    <3>3. /\ CompositionOverlay(p, template, path)
                = ExpandOverlayTemplate(template, record ++ composed)
          /\ PdfOverlay(p, template, path) = ExpandOverlayTemplate(template, record ++ drawn)
      BY <2>2, <3>2 DEF CompositionOverlay, PdfOverlay
    <3>4. DOMAIN composed \subseteq BuiltIn /\ DOMAIN drawn \subseteq BuiltIn
      BY DEF BuiltIn
    <3> HIDE DEF name, record, composed, drawn
    <3>5. \A field : field \notin BuiltIn => /\ ValueIn(record ++ composed, field)
                                                   = ValueIn(record, field)
                                             /\ ValueIn(record ++ drawn, field)
                                                   = ValueIn(record, field)
      BY <3>4, AddedValues
    <3>6. record = RecordFor(p.page, ByPage(Tables[name]))
      BY DEF record
    <3>7. /\ FieldsFit(ExpandOverlayTemplate(template, record ++ composed), template,
                       Tables[name], p.page)
          /\ FieldsFit(ExpandOverlayTemplate(template, record ++ drawn), template,
                       Tables[name], p.page)
      BY <3>1, <3>5, <3>6, OverlayFits
    <3> QED BY <3>3, <3>7 DEF name
  <2>3. ASSUME NEW template, child.mode = "variable-data",
               NEW page \in 0 .. child.plan.count - 1,
               LET merged == MergeVariableData(template, Setting(child.settings, "--variable-csv"),
                                               child.plan.count) IN
               merged[page] # <<>>
        PROVE  FieldsFit(MergeVariableData(template, Setting(child.settings, "--variable-csv"),
                                           child.plan.count)[page],
                         template, Tables[Setting(child.settings, "--variable-csv").text], page)
    <3> DEFINE path == Setting(child.settings, "--variable-csv")
               name == path.text
               records == ByPage(Tables[name])
               merged == MergeVariableData(template, path, child.plan.count)
    <3>1. DataSetLoads(path)
      BY <1>1, <2>3 DEF SettingsInv, PlanOK, PlannedOK, Planned
    <3>2. name \in DOMAIN Tables /\ HasPages(Tables[name]) /\ page \in Nat
      BY <2>1, <3>1 DEF DataSetLoads, IsTable
    <3>3. merged[page] = IF template = Empty \/ page \notin DOMAIN records THEN <<>>
                         ELSE ExpandOverlayTemplate(template, records[page])
      BY DEF MergeVariableData
    <3>4. merged[page] # <<>>
      BY <2>3
    <3> HIDE DEF path, name, records, merged
    <3>5. page \in DOMAIN records /\ merged[page] = ExpandOverlayTemplate(template, records[page])
      BY <3>3, <3>4
    <3>6. records[page] = RecordFor(page, ByPage(Tables[name]))
      BY <3>5 DEF RecordFor, records
    <3>7. FieldsFit(ExpandOverlayTemplate(template, records[page]), template, Tables[name], page)
      BY <3>2, <3>6, OverlayFits
    <3> QED BY <3>5, <3>7 DEF path, name, merged
  <2>4. \A template, path : DOMAIN MergeVariableData(template, path, child.plan.count)
                               = 0 .. child.plan.count - 1
    BY DEF MergeVariableData
  <2> QED BY <2>2, <2>3, <2>4
<1>2. SettingsInv /\ InputsInRange => PagesKeepTheirRecord
  BY <1>1
<1> QED BY <1>2, SettingsSafety, PTL
===============================================================================
