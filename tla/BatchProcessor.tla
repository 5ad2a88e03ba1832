---------------------------- MODULE BatchProcessor ----------------------------
(***************************************************************************)
(* The batch processor of src/src/core/batch/BatchProcessor.ts with its    *)
(* JobQueue, on top of WorkerPool.  processAll empties the queue into a    *)
(* list, lets the pool run it and turns the settled promises into one      *)
(* result per job.  Jobs may be added and removed while a batch runs; one  *)
(* processAll is awaited before the next, as its caller (cli/commands/     *)
(* batch.ts) does.  Accepted jobs are numbered so that two jobs with the   *)
(* same id can be told apart.                                              *)
(***************************************************************************)
EXTENDS WorkerPool, Sequences, FiniteSets, SequencesExt

CONSTANTS
    Ids,     \* job ids
    MaxJobs  \* bound on the jobs accepted altogether

ASSUME BatchAssumption == MaxJobs \in Nat /\ MaxJobs <= MaxItems

VARIABLES
    queue,    \* JobQueue.jobs
    jobs,     \* the jobs of the batch in progress
    report,   \* what the latest processAll returned
    lastJob,  \* jobs accepted so far
    reported, \* the jobs that some report has given a result
    dropped   \* the jobs that remove or clear took out of the queue

batchVars == <<queue, jobs, report, lastJob, reported, dropped>>
vars == <<poolVars, batchVars>>

Job == [id : Ids, number : 1 .. MaxJobs]
Result == [jobId : Ids, status : {"completed", "failed"}]

Init ==
    /\ PoolInit
    /\ queue = <<>> /\ jobs = <<>> /\ report = <<>>
    /\ lastJob = 0 /\ reported = {} /\ dropped = {}

-----------------------------------------------------------------------------
Queued(id) == \E i \in DOMAIN queue : queue[i].id = id

\* addJob: an id that is in the queue is refused.
AddJob(id) ==
    /\ lastJob < MaxJobs
    /\ ~Queued(id)
    /\ lastJob' = lastJob + 1
    /\ queue' = Append(queue, [id |-> id, number |-> lastJob + 1])
    /\ UNCHANGED <<poolVars, jobs, report, reported, dropped>>

\* Mutation of RemoveJob: the last job is moved to the place that is free.
RemoveJob_FillsWithLast(id) ==
    /\ Queued(id)
    /\ LET first == SelectInSeq(queue, LAMBDA job : job.id = id) IN
       /\ queue' = Front([queue EXCEPT ![first] = Last(queue)])
       /\ dropped' = dropped \union {queue[first].number}
    /\ UNCHANGED <<poolVars, jobs, report, lastJob, reported>>

\* JobQueue.remove(jobId) takes out the first job of that id.
RemoveJob(id) ==
    /\ Queued(id)
    /\ LET first == SelectInSeq(queue, LAMBDA job : job.id = id) IN
       /\ queue' = RemoveAt(queue, first)
       /\ dropped' = dropped \union {queue[first].number}
    /\ UNCHANGED <<poolVars, jobs, report, lastJob, reported>>

\* JobQueue.clear.
Clear ==
    /\ queue # <<>>
    /\ queue' = <<>>
    /\ dropped' = dropped \union {queue[i].number : i \in DOMAIN queue}
    /\ UNCHANGED <<poolVars, jobs, report, lastJob, reported>>

\* processAll with an empty queue returns no results.
ProcessNothing ==
    /\ ~running
    /\ queue = <<>>
    /\ report' = <<>>
    /\ UNCHANGED <<poolVars, queue, jobs, lastJob, reported, dropped>>

\* Mutations of ProcessAll: the queue is copied and not drained; as many jobs
\* as there are workers are kept and the others lost.
ProcessAll_CopiesQueue ==
    /\ queue # <<>>
    /\ StartRun(Len(queue))
    /\ jobs' = queue
    /\ UNCHANGED <<queue, report, lastJob, reported, dropped>>

ProcessAll_OneBatchOnly ==
    LET kept == Smaller(Concurrency, Len(queue)) IN
    /\ queue # <<>>
    /\ StartRun(kept)
    /\ jobs' = SubSeq(queue, 1, kept)
    /\ queue' = <<>>
    /\ UNCHANGED <<report, lastJob, reported, dropped>>

\* processAll drains the queue and hands the jobs to the pool.
ProcessAll ==
    /\ queue # <<>>
    /\ StartRun(Len(queue))
    /\ jobs' = queue
    /\ queue' = <<>>
    /\ UNCHANGED <<report, lastJob, reported, dropped>>

\* The executor of the job of worker w has succeeded or thrown; the error is
\* wrapped in a BatchProcessingError and settles the promise.
ExecutorEnds(w, status) == Settle(w, status) /\ UNCHANGED batchVars

\* processAll maps the settled promises to results: a fulfilled promise holds
\* its job's result, a rejected one is given the id at its position.
ProcessAllReturns ==
    /\ EndRun
    /\ report' = [i \in DOMAIN jobs |->
                    [jobId |-> jobs[i].id,
                     status |-> IF results[i] = "fulfilled"
                                THEN "completed" ELSE "failed"]]
    /\ reported' = reported \union {jobs[i].number : i \in DOMAIN jobs}
    /\ jobs' = <<>>
    /\ UNCHANGED <<queue, lastJob, dropped>>

Next ==
    \/ \E id \in Ids : AddJob(id) \/ RemoveJob(id)
    \/ Clear \/ ProcessNothing \/ ProcessAll
    \/ \E w \in Workers, status \in {"fulfilled", "rejected"} :
          ExecutorEnds(w, status)
    \/ ProcessAllReturns

Spec == Init /\ [][Next]_vars

\* Executors end, and whoever adds jobs has them processed.
FairSpec ==
    /\ Spec
    /\ WF_vars(ProcessAll)
    /\ \A w \in Workers :
          WF_vars(\E status \in {"fulfilled", "rejected"} : ExecutorEnds(w, status))
    /\ WF_vars(ProcessAllReturns)

-----------------------------------------------------------------------------
TypeOK ==
    /\ PoolTypeOK
    /\ queue \in Seq(Job) /\ jobs \in Seq(Job) /\ report \in Seq(Result)
    /\ lastJob \in 0 .. MaxJobs
    /\ reported \subseteq 1 .. MaxJobs /\ dropped \subseteq 1 .. MaxJobs

Numbers(s) == {s[i].number : i \in DOMAIN s}

\* Every accepted job is in one place: waiting, in the batch in progress,
\* reported, or taken out again; jobs added while a batch runs are neither
\* lost nor slipped into it.
EveryJobInOnePlace ==
    /\ Numbers(queue) \union Numbers(jobs) \union reported \union dropped
           = 1 .. lastJob
    /\ Len(queue) + Len(jobs) + Cardinality(reported) + Cardinality(dropped)
           = lastJob

Ascending(s) == \A i, j \in DOMAIN s : i < j => s[i].number < s[j].number

\* JobQueue is a FIFO queue: jobs wait and are run in the order in which they
\* were accepted, and no job is in a later batch than one accepted after it,
\* whatever is taken out meanwhile and whichever ids are used again.
FirstComeFirstServed ==
    /\ Ascending(queue) /\ Ascending(jobs)
    /\ \A m \in Numbers(jobs), n \in Numbers(queue) : m < n
    /\ \A m \in reported, n \in Numbers(jobs) \union Numbers(queue) : m < n

\* A job that stays in the queue is reported in the end.
EveryJobIsReported ==
    \A n \in 1 .. MaxJobs : lastJob >= n ~> n \in reported \union dropped
===============================================================================
