------------------------- MODULE BatchProcessorProofs --------------------------
(***************************************************************************)
(* Theorems about WorkerPool and about the BatchProcessor that uses it,    *)
(* for every concurrency and any number of items, jobs and ids.  The pool  *)
(* handles each item exactly once and run returns a result for each.       *)
(* Every accepted job is in one place, a batch hands its jobs to the pool  *)
(* as WorkerPool expects it, and jobs are served in the order they came.   *)
(***************************************************************************)
EXTENDS BatchProcessor, FiniteSetTheorems, SequenceTheorems, TLAPS

-----------------------------------------------------------------------------
\* The pool.

\* What the safety of the pool rests on.  The four properties need each other:
\* that no item is in two hands makes results complete, and that no worker
\* rests while items wait makes a finished run a complete one.
PoolInv ==
    /\ PoolTypeOK
    /\ HandledOnce
    /\ NoSharedItem
    /\ ResultsAreComplete
    /\ NoWorkerRests
    /\ \A w \in Workers : at[w] # 0 => at[w] < next /\ at[w] <= size

\* Starting workers takes no more items than there are.
LEMMA SmallerFacts ==
    ASSUME NEW a \in Nat, NEW b \in Nat
    PROVE  Smaller(a, b) \in Nat /\ Smaller(a, b) <= a /\ Smaller(a, b) <= b
           /\ (Smaller(a, b) = a \/ Smaller(a, b) = b)
BY DEF Smaller

\* The invariant holds initially and is kept by a new run, by a worker that
\* settles an item, and by the end of a run.
LEMMA PoolInvInductive ==
    /\ PoolInit => PoolInv
    /\ PoolInv /\ [PoolNext]_poolVars => PoolInv'
<1> USE PoolAssumption DEF Workers, Indices
<1>1. PoolInit => PoolInv
  <2> SUFFICES ASSUME PoolInit
               PROVE  PoolInv
    OBVIOUS
  <2>1. PoolTypeOK
    <3>1. 0 \in 0 .. MaxItems /\ 1 \in 1 .. MaxItems + 1
      OBVIOUS
    <3>2. /\ at \in [Workers -> 0 .. MaxItems]
          /\ results \in [Indices -> {"none", "fulfilled", "rejected"}]
          /\ handled \in [Indices -> Nat]
      BY <3>1 DEF PoolInit
    <3> QED BY <3>1, <3>2 DEF PoolInit, PoolTypeOK
  <2>2. HandledOnce /\ NoSharedItem /\ ResultsAreComplete /\ NoWorkerRests
    BY DEF PoolInit, HandledOnce, NoSharedItem, ResultsAreComplete, NoWorkerRests
  <2> QED BY <2>1, <2>2 DEF PoolInit, PoolInv
<1>2. PoolInv /\ [PoolNext]_poolVars => PoolInv'
  <2> SUFFICES ASSUME PoolInv, [PoolNext]_poolVars
               PROVE  PoolInv'
    OBVIOUS
  <2> USE DEF PoolInv, PoolTypeOK
  <2>1. ASSUME NEW n \in 0 .. MaxItems, StartRun(n)
        PROVE  PoolInv'
    <3> DEFINE k == Smaller(Concurrency, n)
    <3>1. k \in Nat /\ k <= Concurrency /\ k <= n /\ (k = Concurrency \/ k = n)
      <4>1. Concurrency \in Nat /\ n \in Nat
        OBVIOUS
      <4> QED BY ONLY <4>1, SmallerFacts
    <3>2. /\ running' = TRUE /\ size' = n /\ next' = k + 1
          /\ at' = [w \in Workers |-> IF w <= k THEN w ELSE 0]
          /\ results' = [i \in Indices |-> "none"]
          /\ handled' = [i \in Indices |-> IF i <= k THEN 1 ELSE 0]
      BY <2>1 DEF StartRun
    <3> HIDE DEF k
    <3>3. PoolTypeOK'          BY <3>1, <3>2
    <3>4. HandledOnce'         BY <3>1, <3>2 DEF HandledOnce
    <3>5. NoSharedItem'        BY <3>1, <3>2 DEF NoSharedItem
    <3>6. ResultsAreComplete'
      <4> SUFFICES ASSUME NEW i \in 1 .. n
                   PROVE  (results[i] # "none"
                           <=> i < next /\ \A w \in Workers : at[w] # i)'
        BY <3>2 DEF ResultsAreComplete
      <4>1. results'[i] = "none"
        BY <3>2
      <4>2. i < next' => i \in Workers /\ at'[i] = i
        BY <3>1, <3>2
      <4> QED BY <4>1, <4>2
    <3>7. NoWorkerRests'       BY <3>1, <3>2 DEF NoWorkerRests
    <3>8. (\A w \in Workers : at[w] # 0 => at[w] < next /\ at[w] <= size)'
      BY <3>1, <3>2
    <3> QED BY <3>3, <3>4, <3>5, <3>6, <3>7, <3>8
  <2>2. ASSUME NEW w \in Workers, NEW status \in {"fulfilled", "rejected"},
               Settle(w, status)
        PROVE  PoolInv'
    <3>1. CASE next <= size
      <4>1. /\ at' = [at EXCEPT ![w] = next]
            /\ handled' = [handled EXCEPT ![next] = @ + 1]
            /\ next' = next + 1
            /\ results' = [results EXCEPT ![at[w]] = status]
            /\ at[w] # 0
            /\ UNCHANGED <<running, size>>
        BY <2>2, <3>1 DEF Settle, Take
      <4>2. PoolTypeOK'          BY <3>1, <4>1
      <4>3. HandledOnce'         BY <3>1, <4>1 DEF HandledOnce
      <4>4. NoSharedItem'
        <5> SUFFICES ASSUME NEW u \in Workers, NEW v \in Workers, u # v, at'[u] # 0
                     PROVE  at'[u] # at'[v]
          BY DEF NoSharedItem
        <5>1. \A x \in Workers : at'[x] = IF x = w THEN next ELSE at[x]
          BY <4>1
        <5>2. \A x \in Workers : at[x] # next
          OBVIOUS
        <5> QED BY <5>1, <5>2 DEF NoSharedItem
      <4>5. ResultsAreComplete'
        BY <3>1, <4>1 DEF ResultsAreComplete, NoSharedItem
      <4>6. NoWorkerRests'       BY <3>1, <4>1 DEF NoWorkerRests
      <4>7. (\A v \in Workers : at[v] # 0 => at[v] < next /\ at[v] <= size)'
        BY <3>1, <4>1
      <4> QED BY <4>2, <4>3, <4>4, <4>5, <4>6, <4>7
    <3>2. CASE next > size
      <4>1. /\ at' = [at EXCEPT ![w] = 0]
            /\ results' = [results EXCEPT ![at[w]] = status]
            /\ at[w] # 0
            /\ UNCHANGED <<running, size, handled, next>>
        BY <2>2, <3>2 DEF Settle, Leave
      <4>2. PoolTypeOK'          BY <3>2, <4>1
      <4>3. HandledOnce'         BY <3>2, <4>1 DEF HandledOnce
      <4>4. NoSharedItem'        BY <3>2, <4>1 DEF NoSharedItem
      <4>5. ResultsAreComplete'
        BY <3>2, <4>1 DEF ResultsAreComplete, NoSharedItem
      <4>6. NoWorkerRests'       BY <3>2, <4>1 DEF NoWorkerRests
      <4>7. (\A v \in Workers : at[v] # 0 => at[v] < next /\ at[v] <= size)'
        BY <3>2, <4>1
      <4> QED BY <4>2, <4>3, <4>4, <4>5, <4>6, <4>7
    <3> QED BY <3>1, <3>2
  <2>3. CASE EndRun
    BY <2>3 DEF EndRun, HandledOnce, NoSharedItem, ResultsAreComplete, NoWorkerRests
  <2>4. CASE UNCHANGED poolVars
    BY <2>4 DEF poolVars, HandledOnce, NoSharedItem, ResultsAreComplete,
                NoWorkerRests
  <2> QED BY <2>1, <2>2, <2>3, <2>4 DEF PoolNext
<1> QED BY <1>1, <1>2

\* In every state no item is in two hands and what is handled has its result
\* (the loop of run).
THEOREM PoolSafety == PoolSpec => []PoolInv
BY PoolInvInductive, PTL DEF PoolSpec

\* Every item the index has passed is handled exactly once, by one worker, for
\* every concurrency and number of items (WorkerPool.ts, the loop of run).
THEOREM PoolHandlesOnce == PoolSpec => [](HandledOnce /\ NoSharedItem)
<1>1. PoolInv => HandledOnce /\ NoSharedItem
  BY DEF PoolInv
<1> QED BY <1>1, PoolSafety, PTL

\* When run returns, every item has its own result.
THEOREM PoolReturnsAllResults == PoolSpec => RunReturnsAllResults
<1>1. PoolInv /\ [PoolNext]_poolVars
        => [~running' /\ running => \A i \in 1 .. size : results'[i] # "none"]_poolVars
  <2> SUFFICES ASSUME PoolInv, PoolNext, ~running', running,
                      NEW i \in 1 .. size
               PROVE  results'[i] # "none"
    BY DEF poolVars
  <2>1. EndRun
    BY DEF PoolNext, StartRun, Settle
  <2>2. \A w \in Workers : at[w] = 0
    BY <2>1 DEF EndRun
  <2>3. 1 \in Workers
    BY PoolAssumption DEF Workers
  <2>4. next > size
    BY <2>2, <2>3 DEF PoolInv, NoWorkerRests, PoolTypeOK
  <2>5. results[i] # "none"
    BY <2>2, <2>4 DEF PoolInv, ResultsAreComplete, PoolTypeOK
  <2> QED BY <2>1, <2>5 DEF EndRun
<1> QED BY <1>1, PoolSafety, PTL DEF PoolSpec, RunReturnsAllResults

-----------------------------------------------------------------------------
\* The batches.

\* Two jobs of a list have different numbers.
Distinct(s) == \A i, j \in DOMAIN s : s[i].number = s[j].number => i = j

\* A job is in one place: what EveryJobInOnePlace counts, without counting.
PlacesOK ==
    /\ Distinct(queue) /\ Distinct(jobs)
    /\ Numbers(queue) \union Numbers(jobs) \union reported \union dropped = 1 .. lastJob
    /\ Numbers(queue) \cap Numbers(jobs) = {}
    /\ (Numbers(queue) \union Numbers(jobs)) \cap reported = {}
    /\ (Numbers(queue) \union Numbers(jobs) \union reported) \cap dropped = {}

\* The pool is at the jobs of the batch in progress.
PoolHasJobs == IF running THEN size = Len(jobs) ELSE jobs = <<>>

BatchInv == TypeOK /\ PoolInv /\ PlacesOK /\ PoolHasJobs

-----------------------------------------------------------------------------
\* The jobs of a list have ids and numbers.
LEMMA JobsOfAList ==
    ASSUME NEW s \in Seq(Job)
    PROVE  \A i \in DOMAIN s : s[i].id \in Ids /\ s[i].number \in 1 .. MaxJobs
<1>1. \A i \in DOMAIN s : s[i] \in Job
  BY LenProperties, ElementOfSeq
<1> QED BY <1>1 DEF Job

\* A list of distinct jobs has as many numbers as jobs.
LEMMA NumbersCounted ==
    ASSUME NEW s \in Seq(Job), Distinct(s)
    PROVE  IsFiniteSet(Numbers(s)) /\ Cardinality(Numbers(s)) = Len(s)
<1> DEFINE f == [i \in 1 .. Len(s) |-> s[i].number]
<1>1. Len(s) \in Nat /\ DOMAIN s = 1 .. Len(s)
  BY LenProperties
<1>2. f \in Bijection(1 .. Len(s), Numbers(s))
  BY <1>1 DEF Bijection, Injection, Surjection, IsInjective, Distinct, Numbers
<1>3. ExistsBijection(1 .. Len(s), Numbers(s))
  BY <1>2 DEF ExistsBijection
<1>4. IsFiniteSet(1 .. Len(s)) /\ Cardinality(1 .. Len(s)) = Len(s)
  BY <1>1, FS_Interval
<1> QED BY <1>3, <1>4, FS_Bijection

\* Taking out the k-th job leaves the others, in their order.
LEMMA RemoveAtFacts ==
    ASSUME NEW s \in Seq(Job), NEW k \in 1 .. Len(s)
    PROVE  /\ RemoveAt(s, k) \in Seq(Job)
           /\ Len(RemoveAt(s, k)) = Len(s) - 1
           /\ \A i \in 1 .. Len(s) - 1 :
                 RemoveAt(s, k)[i] = IF i < k THEN s[i] ELSE s[i + 1]
<1> DEFINE a == SubSeq(s, 1, k - 1)
           b == SubSeq(s, k + 1, Len(s))
           n == Len(s)
<1>1. n \in Nat /\ k \in 1 .. n
  BY LenProperties
<1>2. a \in Seq(Job) /\ b \in Seq(Job)
  BY <1>1, SubSeqProperties
<1>3. /\ Len(a) = k - 1 /\ Len(b) = n - k
      /\ \A i \in 1 .. k - 1 : a[i] = s[i]
      /\ \A i \in 1 .. n - k : b[i] = s[k + i]
  BY <1>1
<1>4. RemoveAt(s, k) = a \o b
  BY DEF RemoveAt
<1> HIDE DEF a, b, n
<1>5. /\ a \o b \in Seq(Job)
      /\ Len(a \o b) = Len(a) + Len(b)
      /\ \A i \in 1 .. Len(a) + Len(b) :
            (a \o b)[i] = IF i <= Len(a) THEN a[i] ELSE b[i - Len(a)]
  BY ONLY <1>2, ConcatProperties
<1>6. Len(a \o b) = n - 1
  BY <1>1, <1>3, <1>5
<1>7. ASSUME NEW i \in 1 .. n - 1
      PROVE  (a \o b)[i] = IF i < k THEN s[i] ELSE s[i + 1]
  <2>1. (a \o b)[i] = IF i <= k - 1 THEN a[i] ELSE b[i - (k - 1)]
    BY <1>1, <1>3, <1>5
  <2>2. CASE i < k
    BY <1>1, <1>3, <2>1, <2>2
  <2>3. CASE i >= k
    <3>1. i - (k - 1) \in 1 .. n - k /\ k + (i - (k - 1)) = i + 1 /\ ~(i <= k - 1)
      BY <1>1, <2>3
    <3>2. b[i - (k - 1)] = s[k + (i - (k - 1))]
      BY ONLY <1>3, <3>1
    <3>3. (a \o b)[i] = s[i + 1]
      BY ONLY <2>1, <3>1, <3>2
    <3> QED BY <3>3, <2>3, <1>1
  <2>4. i \in Int /\ k \in Int
    BY <1>1
  <2>5. i < k \/ i >= k
    BY ONLY <2>4
  <2> QED BY ONLY <2>2, <2>3, <2>5
<1> QED BY <1>4, <1>5, <1>6, <1>7 DEF n

\* Taking out the k-th job takes its number away.
LEMMA RemoveAtNumbers ==
    ASSUME NEW s \in Seq(Job), Distinct(s), NEW k \in 1 .. Len(s)
    PROVE  /\ Distinct(RemoveAt(s, k))
           /\ Numbers(RemoveAt(s, k)) = Numbers(s) \ {s[k].number}
<1> DEFINE r == RemoveAt(s, k)
           n == Len(s)
<1>1. /\ n \in Nat /\ DOMAIN s = 1 .. n /\ DOMAIN r = 1 .. n - 1
      /\ \A i \in 1 .. n - 1 : r[i] = IF i < k THEN s[i] ELSE s[i + 1]
  BY RemoveAtFacts, LenProperties
<1> HIDE DEF r
<1>2. Distinct(r)
  BY <1>1 DEF Distinct
<1>3. Numbers(r) \subseteq Numbers(s) \ {s[k].number}
  BY <1>1 DEF Distinct, Numbers
<1>4. ASSUME NEW j \in 1 .. n, j # k
      PROVE  s[j].number \in Numbers(r)
  <2>1. CASE j < k
    <3>1. j \in 1 .. n - 1 /\ r[j] = s[j]
      BY <1>1, <2>1
    <3> QED BY <1>1, <3>1 DEF Numbers
  <2>2. CASE j > k
    <3>1. j - 1 \in 1 .. n - 1 /\ r[j - 1] = s[j]
      BY <1>1, <2>2
    <3> QED BY <1>1, <3>1 DEF Numbers
  <2> QED BY <1>4, <1>1, <2>1, <2>2
<1>5. Numbers(s) \ {s[k].number} \subseteq Numbers(r)
  BY <1>1, <1>4 DEF Numbers
<1> QED BY <1>2, <1>3, <1>5 DEF r

\* A non-empty set of natural numbers has a least one: among the intervals that
\* end in the set one has no other inside it.
LEMMA LeastNumber ==
    ASSUME NEW S \in SUBSET Nat, S # {}
    PROVE  \E m \in S : \A k \in S : m <= k
<1> DEFINE T == {1 .. m : m \in S}
<1>1. T \subseteq FiniteSubsetsOf(Nat)
  <2>1. \A m \in S : 1 .. m \subseteq Nat /\ IsFiniteSet(1 .. m)
    BY FS_Interval
  <2> QED BY <2>1 DEF FiniteSubsetsOf
<1>2. PICK x \in T : \A y \in T : <<y, x>> \notin StrictSubsetOrdering(Nat)
  <2>1. T # {}
    OBVIOUS
  <2>2. IsWellFoundedOn(StrictSubsetOrdering(Nat), FiniteSubsetsOf(Nat))
    BY FS_StrictSubsetOrderingWellFounded
  <2> HIDE DEF T
  <2> QED BY ONLY <1>1, <2>1, <2>2, WFMin
<1>3. PICK m \in S : x = 1 .. m
  OBVIOUS
<1>4. ASSUME NEW k \in S, k < m
      PROVE  FALSE
  <2>1. 1 .. k \subseteq 1 .. m /\ m \in 1 .. m /\ m \notin 1 .. k
    BY <1>4
  <2>2. 1 .. k \in SUBSET Nat /\ 1 .. m \in SUBSET Nat /\ 1 .. k # 1 .. m
    BY <2>1
  <2>3. <<1 .. k, 1 .. m>> \in StrictSubsetOrdering(Nat)
    BY <2>1, <2>2 DEF StrictSubsetOrdering
  <2> QED BY <1>2, <1>3, <2>3
<1> QED BY <1>4

\* JobQueue.remove finds a job of the id when there is one.
LEMMA FirstIsQueued ==
    ASSUME NEW id, queue \in Seq(Job), Queued(id)
    PROVE  LET first == SelectInSeq(queue, LAMBDA job : job.id = id) IN
           first \in 1 .. Len(queue) /\ queue[first].id = id
<1> DEFINE I == {i \in 1 .. Len(queue) : queue[i].id = id}
<1>1. Len(queue) \in Nat /\ DOMAIN queue = 1 .. Len(queue)
  BY LenProperties
<1>2. I \subseteq Nat /\ I # {}
  BY <1>1 DEF Queued
<1>3. PICK m \in I : \A i \in I : m <= i
  BY <1>2, LeastNumber
<1>4. Min(I) \in I
  BY <1>3 DEF Min
<1>5. SelectInSeq(queue, LAMBDA job : job.id = id) = Min(I)
  BY <1>2 DEF SelectInSeq
<1> QED BY <1>4, <1>5

\* Adding a job adds its number.
LEMMA AppendNumbers ==
    ASSUME NEW s \in Seq(Job), Distinct(s), NEW job \in Job, job.number \notin Numbers(s)
    PROVE  /\ Append(s, job) \in Seq(Job)
           /\ Distinct(Append(s, job))
           /\ Numbers(Append(s, job)) = Numbers(s) \union {job.number}
<1> DEFINE n == Len(s)
           r == Append(s, job)
<1>1. /\ n \in Nat /\ DOMAIN s = 1 .. n /\ DOMAIN r = 1 .. n + 1
      /\ r \in Seq(Job)
      /\ \A i \in 1 .. n : r[i] = s[i]
      /\ r[n + 1] = job
  BY AppendProperties, LenProperties
<1> HIDE DEF n, r
<1>2. \A i \in DOMAIN r : i \in 1 .. n \/ i = n + 1
  BY <1>1
<1>3. Distinct(r)
  BY <1>1, <1>2 DEF Distinct, Numbers
<1>4. Numbers(r) \subseteq Numbers(s) \union {job.number}
  BY <1>1, <1>2 DEF Numbers
<1>5. Numbers(s) \subseteq Numbers(r)
  <2>1. \A i \in 1 .. n : i \in DOMAIN r
    BY <1>1
  <2> QED BY <1>1, <2>1 DEF Numbers
<1>6. job.number \in Numbers(r)
  <2>1. n + 1 \in DOMAIN r
    BY <1>1
  <2> QED BY <1>1, <2>1 DEF Numbers
<1> QED BY <1>1, <1>3, <1>4, <1>5, <1>6 DEF r

\* No list of jobs is longer than the pool's bound on its items.
LEMMA ListsFitThePool ==
    ASSUME NEW s \in Seq(Job), Distinct(s)
    PROVE  Len(s) \in 0 .. MaxItems
<1>1. Numbers(s) \in SUBSET (1 .. MaxJobs)
  BY JobsOfAList DEF Numbers
<1>2. IsFiniteSet(1 .. MaxJobs) /\ Cardinality(1 .. MaxJobs) = MaxJobs
  BY BatchAssumption, FS_Interval
<1>3. Cardinality(Numbers(s)) <= MaxJobs
  BY <1>1, <1>2, FS_Subset
<1>4. Len(s) \in Nat /\ Len(s) = Cardinality(Numbers(s))
  BY NumbersCounted, LenProperties
<1> QED BY <1>3, <1>4, BatchAssumption, PoolAssumption

\* The elements of two disjoint sets, counted together.
LEMMA DisjointUnion ==
    ASSUME NEW S, NEW T, IsFiniteSet(S), IsFiniteSet(T), S \cap T = {}
    PROVE  /\ IsFiniteSet(S \union T)
           /\ Cardinality(S \union T) = Cardinality(S) + Cardinality(T)
<1>1. Cardinality(S) \in Nat /\ Cardinality(T) \in Nat /\ Cardinality({}) = 0
  BY FS_CardinalityType, FS_EmptySet
<1>2. /\ IsFiniteSet(S \union T)
      /\ Cardinality(S \union T)
            = Cardinality(S) + Cardinality(T) - Cardinality(S \cap T)
  BY FS_Union
<1>3. Cardinality(S \cap T) = 0
  BY ONLY <1>1, S \cap T = {}, Zenon
<1> QED BY ONLY <1>1, <1>2, <1>3

\* The empty list.
LEMMA EmptyFacts ==
    /\ <<>> \in Seq(Job) /\ <<>> \in Seq(Result)
    /\ Len(<<>>) = 0 /\ Numbers(<<>>) = {} /\ Distinct(<<>>)
BY EmptySeq DEF Numbers, Distinct

-----------------------------------------------------------------------------
\* Every step of the batch processor is a step of the pool or leaves it alone:
\* processAll hands over no more items than the pool is made for.
LEMMA BatchStepsThePool ==
    BatchInv /\ [Next]_vars => [PoolNext]_poolVars
<1> SUFFICES ASSUME BatchInv, [Next]_vars
             PROVE  [PoolNext]_poolVars
  OBVIOUS
<1>1. CASE ProcessAll
  <2>1. Len(queue) \in 0 .. MaxItems
    BY ListsFitThePool DEF BatchInv, TypeOK, PlacesOK
  <2>2. StartRun(Len(queue))
    BY <1>1 DEF ProcessAll
  <2> QED BY <2>1, <2>2 DEF PoolNext
<1>2. ASSUME NEW w \in Workers, NEW status \in {"fulfilled", "rejected"},
             ExecutorEnds(w, status)
      PROVE  [PoolNext]_poolVars
  BY <1>2 DEF ExecutorEnds, PoolNext
<1>3. CASE ProcessAllReturns
  BY <1>3 DEF ProcessAllReturns, PoolNext
<1>4. ASSUME NEW id \in Ids, AddJob(id) \/ RemoveJob(id)
      PROVE  UNCHANGED poolVars
  BY <1>4 DEF AddJob, RemoveJob
<1>5. CASE Clear \/ ProcessNothing \/ UNCHANGED vars
  BY <1>5 DEF Clear, ProcessNothing, vars
<1> QED BY <1>1, <1>2, <1>3, <1>4, <1>5 DEF Next

\* The invariant holds initially and is kept by every operation.
LEMMA BatchInvInductive ==
    /\ Init => BatchInv
    /\ BatchInv /\ [Next]_vars => BatchInv'
<1> USE BatchAssumption
<1>1. Init => BatchInv
  <2> SUFFICES ASSUME Init
               PROVE  BatchInv
    OBVIOUS
  <2>1. PoolInv
    BY PoolInvInductive DEF Init
  <2>2. TypeOK
    BY <2>1, EmptyFacts DEF Init, TypeOK, PoolInv
  <2>3. 1 .. 0 = {}
    OBVIOUS
  <2>4. PlacesOK
    BY <2>3, EmptyFacts DEF Init, PlacesOK
  <2>5. PoolHasJobs
    BY DEF Init, PoolInit, PoolHasJobs
  <2> QED BY <2>1, <2>2, <2>4, <2>5 DEF BatchInv
<1>2. BatchInv /\ [Next]_vars => BatchInv'
  <2> SUFFICES ASSUME BatchInv, [Next]_vars
               PROVE  BatchInv'
    OBVIOUS
  <2>1. PoolInv'
    BY BatchStepsThePool, PoolInvInductive DEF BatchInv
  <2>2. PoolTypeOK'
    BY <2>1 DEF PoolInv
  <2>3. /\ queue \in Seq(Job) /\ jobs \in Seq(Job) /\ report \in Seq(Result)
        /\ lastJob \in 0 .. MaxJobs
        /\ reported \subseteq 1 .. MaxJobs /\ dropped \subseteq 1 .. MaxJobs
        /\ PlacesOK /\ PoolHasJobs /\ running \in BOOLEAN
    BY DEF BatchInv, TypeOK, PoolTypeOK
  <2>4. Numbers(queue) \subseteq 1 .. MaxJobs /\ Numbers(jobs) \subseteq 1 .. MaxJobs
    BY <2>3 DEF PlacesOK
  <2>5. ASSUME NEW id \in Ids, AddJob(id)
        PROVE  BatchInv'
    <3> DEFINE job == [id |-> id, number |-> lastJob + 1]
    <3>1. /\ lastJob < MaxJobs /\ lastJob' = lastJob + 1
          /\ queue' = Append(queue, job)
          /\ UNCHANGED <<poolVars, jobs, report, reported, dropped>>
      BY <2>5 DEF AddJob
    <3>2. job \in Job /\ job.number = lastJob + 1
      BY <2>3, <3>1 DEF Job
    <3>3. lastJob + 1 \notin 1 .. lastJob
          /\ (1 .. lastJob) \union {lastJob + 1} = 1 .. (lastJob + 1)
      BY <2>3
    <3> HIDE DEF job
    <3>4. job.number \notin Numbers(queue)
      BY <2>3, <3>2, <3>3 DEF PlacesOK
    <3>5. /\ queue' \in Seq(Job) /\ Distinct(queue')
          /\ Numbers(queue') = Numbers(queue) \union {lastJob + 1}
      BY <2>3, <3>1, <3>2, <3>4, AppendNumbers DEF PlacesOK
    <3>6. TypeOK'
      <4>1. lastJob + 1 \in 0 .. MaxJobs
        BY <2>3, <3>1
      <4> QED BY <2>2, <2>3, <3>1, <3>5, <4>1 DEF TypeOK
    <3>7. PlacesOK'
      BY <2>3, <3>1, <3>3, <3>5 DEF PlacesOK
    <3>8. PoolHasJobs'
      BY <2>3, <3>1 DEF PoolHasJobs, poolVars
    <3> QED BY <2>1, <3>6, <3>7, <3>8 DEF BatchInv
  <2>6. ASSUME NEW id \in Ids, RemoveJob(id)
        PROVE  BatchInv'
    <3> DEFINE first == SelectInSeq(queue, LAMBDA job : job.id = id)
    <3>1. /\ Queued(id)
          /\ queue' = RemoveAt(queue, first)
          /\ dropped' = dropped \union {queue[first].number}
          /\ UNCHANGED <<poolVars, jobs, report, lastJob, reported>>
      BY <2>6 DEF RemoveJob
    <3>2. first \in 1 .. Len(queue)
      BY <2>3, <3>1, FirstIsQueued DEF SelectInSeq
    <3> HIDE DEF first
    <3>3. queue[first].number \in Numbers(queue)
      BY <2>3, <3>2, LenProperties DEF Numbers
    <3>4. /\ queue' \in Seq(Job) /\ Distinct(queue')
          /\ Numbers(queue') = Numbers(queue) \ {queue[first].number}
      BY <2>3, <3>1, <3>2, RemoveAtFacts, RemoveAtNumbers DEF PlacesOK
    <3>5. TypeOK'
      BY <2>2, <2>3, <2>4, <3>1, <3>3, <3>4 DEF TypeOK
    <3>6. PlacesOK'
      BY <2>3, <3>1, <3>3, <3>4 DEF PlacesOK
    <3>7. PoolHasJobs'
      BY <2>3, <3>1 DEF PoolHasJobs, poolVars
    <3> QED BY <2>1, <3>5, <3>6, <3>7 DEF BatchInv
  <2>7. CASE Clear
    <3>1. /\ queue' = <<>>
          /\ dropped' = dropped \union Numbers(queue)
          /\ UNCHANGED <<poolVars, jobs, report, lastJob, reported>>
      BY <2>7 DEF Clear, Numbers
    <3>2. TypeOK'
      BY <2>2, <2>3, <2>4, <3>1, EmptyFacts DEF TypeOK
    <3>3. PlacesOK'
      BY <2>3, <3>1, EmptyFacts DEF PlacesOK
    <3>4. PoolHasJobs'
      BY <2>3, <3>1 DEF PoolHasJobs, poolVars
    <3> QED BY <2>1, <3>2, <3>3, <3>4 DEF BatchInv
  <2>8. CASE ProcessNothing
    <3>1. /\ report' = <<>>
          /\ UNCHANGED <<poolVars, queue, jobs, lastJob, reported, dropped>>
      BY <2>8 DEF ProcessNothing
    <3>2. TypeOK'
      BY <2>2, <2>3, <3>1, EmptyFacts DEF TypeOK
    <3>3. PlacesOK' /\ PoolHasJobs'
      BY <2>3, <3>1 DEF PlacesOK, PoolHasJobs, poolVars
    <3> QED BY <2>1, <3>2, <3>3 DEF BatchInv
  <2>9. CASE ProcessAll
    <3>1. /\ ~running /\ running' /\ size' = Len(queue)
          /\ jobs' = queue /\ queue' = <<>>
          /\ UNCHANGED <<report, lastJob, reported, dropped>>
      BY <2>9 DEF ProcessAll, StartRun
    <3>2. jobs = <<>>
      BY <2>3, <3>1 DEF PoolHasJobs
    <3>3. TypeOK'
      BY <2>2, <2>3, <3>1, EmptyFacts DEF TypeOK
    <3>4. PlacesOK'
      BY <2>3, <3>1, <3>2, EmptyFacts DEF PlacesOK
    <3>5. PoolHasJobs'
      BY <3>1 DEF PoolHasJobs
    <3> QED BY <2>1, <3>3, <3>4, <3>5 DEF BatchInv
  <2>10. ASSUME NEW w \in Workers, NEW status \in {"fulfilled", "rejected"},
                ExecutorEnds(w, status)
         PROVE  BatchInv'
    <3>1. UNCHANGED <<running, size, queue, jobs, report, lastJob, reported, dropped>>
      BY <2>10 DEF ExecutorEnds, Settle, batchVars
    <3>2. TypeOK'
      BY <2>2, <2>3, <3>1 DEF TypeOK
    <3>3. PlacesOK' /\ PoolHasJobs'
      BY <2>3, <3>1 DEF PlacesOK, PoolHasJobs
    <3> QED BY <2>1, <3>2, <3>3 DEF BatchInv
  <2>11. CASE ProcessAllReturns
    <3>1. /\ ~running'
          /\ report' = [i \in DOMAIN jobs |->
                           [jobId |-> jobs[i].id,
                            status |-> IF results[i] = "fulfilled"
                                       THEN "completed" ELSE "failed"]]
          /\ reported' = reported \union Numbers(jobs)
          /\ jobs' = <<>>
          /\ UNCHANGED <<queue, lastJob, dropped>>
      BY <2>11 DEF ProcessAllReturns, EndRun, Numbers
    <3>2. report' \in Seq(Result)
      <4>1. Len(jobs) \in Nat /\ DOMAIN jobs = 1 .. Len(jobs)
        BY <2>3, LenProperties
      <4>2. \A i \in DOMAIN jobs : jobs[i].id \in Ids
        BY <2>3, JobsOfAList
      <4>3. report' \in [1 .. Len(jobs) -> Result]
        BY <3>1, <4>1, <4>2 DEF Result
      <4> QED BY <4>1, <4>3, SeqDef
    <3>3. TypeOK'
      BY <2>2, <2>3, <2>4, <3>1, <3>2, EmptyFacts DEF TypeOK
    <3>4. PlacesOK'
      BY <2>3, <3>1, EmptyFacts DEF PlacesOK
    <3>5. PoolHasJobs'
      BY <3>1 DEF PoolHasJobs
    <3> QED BY <2>1, <3>3, <3>4, <3>5 DEF BatchInv
  <2>12. CASE UNCHANGED vars
    BY <2>1, <2>2, <2>3, <2>12
    DEF vars, batchVars, poolVars, BatchInv, TypeOK, PlacesOK, PoolHasJobs
  <2> QED BY <2>5, <2>6, <2>7, <2>8, <2>9, <2>10, <2>11, <2>12 DEF Next
<1> QED BY <1>1, <1>2

-----------------------------------------------------------------------------
\* In every state each job is in one place, and the pool is at the jobs of the
\* batch in progress (processAll).
THEOREM BatchSafety == Spec => []BatchInv
BY BatchInvInductive, PTL DEF Spec

\* Every accepted job is waiting, in the batch in progress, reported, or taken
\* out, and in one of these places only (BatchProcessor.ts, processAll with
\* JobQueue.drain), however jobs are added and removed meanwhile.
THEOREM JobsAreInOnePlace == Spec => []EveryJobInOnePlace
<1>1. BatchInv => EveryJobInOnePlace
  <2> SUFFICES ASSUME BatchInv
               PROVE  EveryJobInOnePlace
    OBVIOUS
  <2> DEFINE Q == Numbers(queue)
             J == Numbers(jobs)
  <2>1. /\ queue \in Seq(Job) /\ jobs \in Seq(Job) /\ PlacesOK
        /\ reported \subseteq 1 .. MaxJobs /\ dropped \subseteq 1 .. MaxJobs
        /\ lastJob \in Nat
    BY DEF BatchInv, TypeOK
  <2>2. /\ IsFiniteSet(Q) /\ Cardinality(Q) = Len(queue)
        /\ IsFiniteSet(J) /\ Cardinality(J) = Len(jobs)
    BY <2>1, NumbersCounted DEF PlacesOK
  <2>3. IsFiniteSet(reported) /\ IsFiniteSet(dropped)
    <3>1. IsFiniteSet(1 .. MaxJobs)
      BY FS_Interval, BatchAssumption
    <3> QED BY ONLY <2>1, <3>1, FS_Subset
  <2>4. /\ Q \union J \union reported \union dropped = 1 .. lastJob
        /\ Q \cap J = {} /\ (Q \union J) \cap reported = {}
        /\ (Q \union J \union reported) \cap dropped = {}
    BY <2>1 DEF PlacesOK
  <2> HIDE DEF Q, J
  <2>5. IsFiniteSet(Q \union J)
        /\ Cardinality(Q \union J) = Cardinality(Q) + Cardinality(J)
    BY ONLY <2>2, <2>4, DisjointUnion
  <2>6. IsFiniteSet(Q \union J \union reported)
        /\ Cardinality(Q \union J \union reported)
              = Cardinality(Q \union J) + Cardinality(reported)
    BY ONLY <2>3, <2>4, <2>5, DisjointUnion
  <2>7. Cardinality(Q \union J \union reported \union dropped)
              = Cardinality(Q \union J \union reported) + Cardinality(dropped)
    BY ONLY <2>3, <2>4, <2>6, DisjointUnion
  <2>8. Cardinality(1 .. lastJob) = lastJob
    BY <2>1, FS_Interval
  <2>9. Len(queue) + Len(jobs) + Cardinality(reported) + Cardinality(dropped)
           = lastJob
    BY ONLY <2>2, <2>4, <2>5, <2>6, <2>7, <2>8
  <2> QED BY <2>4, <2>9 DEF EveryJobInOnePlace, Q, J
<1> QED BY <1>1, BatchSafety, PTL

\* The batch processor uses the pool as the pool expects: its behaviours are
\* behaviours of WorkerPool, one run after the other.
THEOREM BatchRunsThePool == Spec => PoolSpec
<1>1. Init => PoolInit
  BY DEF Init
<1> QED BY <1>1, BatchSafety, BatchStepsThePool, PTL DEF Spec, PoolSpec

\* So each job of a batch is executed once, and its result is there as soon as
\* its executor has ended.
THEOREM JobsAreExecutedOnce == Spec => [](HandledOnce /\ ResultsAreComplete)
<1>1. PoolInv => HandledOnce /\ ResultsAreComplete
  BY DEF PoolInv
<1> QED BY <1>1, BatchRunsThePool, PoolSafety, PTL

\* And the pool gives a result for each job before processAll goes on.
THEOREM BatchGetsAllResults == Spec => RunReturnsAllResults
BY BatchRunsThePool, PoolReturnsAllResults

\* Jobs keep the order in which they were accepted: an invariant of its own on
\* top of BatchInv, which gives that a new job's number is above all others.
LEMMA OrderIsKept ==
    /\ Init => FirstComeFirstServed
    /\ BatchInv /\ FirstComeFirstServed /\ [Next]_vars => FirstComeFirstServed'
<1>1. Init => FirstComeFirstServed
  BY DEF Init, FirstComeFirstServed, Ascending, Numbers
<1>2. BatchInv /\ FirstComeFirstServed /\ [Next]_vars => FirstComeFirstServed'
  <2> SUFFICES ASSUME BatchInv, FirstComeFirstServed, [Next]_vars
               PROVE  FirstComeFirstServed'
    OBVIOUS
  <2>1. /\ queue \in Seq(Job) /\ jobs \in Seq(Job) /\ lastJob \in Nat
        /\ Len(queue) \in Nat /\ DOMAIN queue = 1 .. Len(queue)
        /\ Distinct(queue)
    BY LenProperties DEF BatchInv, TypeOK, PlacesOK
  <2>2. Numbers(queue) \union Numbers(jobs) \union reported \subseteq 1 .. lastJob
    BY DEF BatchInv, PlacesOK
  <2>3. /\ Ascending(queue) /\ Ascending(jobs)
        /\ \A m \in Numbers(jobs), n \in Numbers(queue) : m < n
        /\ \A m \in reported, n \in Numbers(jobs) \union Numbers(queue) : m < n
    BY DEF FirstComeFirstServed
  <2>4. ASSUME NEW id \in Ids, AddJob(id)
        PROVE  FirstComeFirstServed'
    <3> DEFINE job == [id |-> id, number |-> lastJob + 1]
    <3>1. /\ queue' = Append(queue, job) /\ UNCHANGED <<jobs, reported>>
          /\ lastJob < MaxJobs
      BY <2>4 DEF AddJob
    <3>2. job \in Job /\ job.number = lastJob + 1
      BY <2>1, <3>1, BatchAssumption DEF Job
    <3> HIDE DEF job
    <3>3. lastJob + 1 \notin 1 .. lastJob /\ \A m \in 1 .. lastJob : m < lastJob + 1
      BY <2>1
    <3>4. Numbers(queue') = Numbers(queue) \union {lastJob + 1}
      BY <2>1, <2>2, <3>1, <3>2, <3>3, AppendNumbers
    <3>5. Ascending(queue')
      <4>1. /\ DOMAIN queue' = 1 .. Len(queue) + 1
            /\ \A i \in 1 .. Len(queue) : queue'[i] = queue[i]
            /\ queue'[Len(queue) + 1] = job
        BY <2>1, <3>1, <3>2, AppendProperties, LenProperties
      <4>2. \A i \in 1 .. Len(queue) : queue[i].number \in 1 .. lastJob
        BY <2>1, <2>2 DEF Numbers
      <4> QED BY <2>1, <2>3, <3>2, <3>3, <4>1, <4>2 DEF Ascending
    <3>6. Ascending(jobs') /\ Numbers(jobs') = Numbers(jobs) /\ reported' = reported
      BY <2>3, <3>1 DEF Ascending, Numbers
    <3>7. \A n \in Numbers(queue') : n \in Numbers(queue) \/ n = lastJob + 1
      BY <3>4
    <3> QED BY ONLY <2>2, <2>3, <3>3, <3>5, <3>6, <3>7 DEF FirstComeFirstServed
  <2>5. ASSUME NEW id \in Ids, RemoveJob(id)
        PROVE  FirstComeFirstServed'
    <3> DEFINE first == SelectInSeq(queue, LAMBDA job : job.id = id)
    <3>1. /\ Queued(id) /\ queue' = RemoveAt(queue, first)
          /\ UNCHANGED <<jobs, reported>>
      BY <2>5 DEF RemoveJob
    <3>2. first \in 1 .. Len(queue)
      BY <2>1, <3>1, FirstIsQueued DEF SelectInSeq
    <3> HIDE DEF first
    <3>3. Numbers(queue') \subseteq Numbers(queue)
      BY <2>1, <3>1, <3>2, RemoveAtNumbers
    <3>4. /\ DOMAIN queue' = 1 .. Len(queue) - 1
          /\ \A i \in 1 .. Len(queue) - 1 :
                 queue'[i] = IF i < first THEN queue[i] ELSE queue[i + 1]
      BY <2>1, <3>1, <3>2, RemoveAtFacts, LenProperties
    <3>5. Ascending(queue')
      <4> SUFFICES ASSUME NEW i \in DOMAIN queue', NEW j \in DOMAIN queue', i < j
                   PROVE  queue'[i].number < queue'[j].number
        BY DEF Ascending
      <4> DEFINE Before(k) == IF k < first THEN k ELSE k + 1
      <4>1. /\ Before(i) \in DOMAIN queue /\ Before(j) \in DOMAIN queue
            /\ Before(i) < Before(j)
        BY <2>1, <3>2, <3>4
      <4>2. queue'[i] = queue[Before(i)] /\ queue'[j] = queue[Before(j)]
        BY <3>4
      <4> HIDE DEF Before
      <4> QED BY <2>3, <4>1, <4>2 DEF Ascending
    <3> QED BY <2>3, <3>1, <3>3, <3>5 DEF FirstComeFirstServed, Ascending, Numbers
  <2>6. CASE Clear
    <3>1. queue' = <<>> /\ UNCHANGED <<jobs, reported>>
      BY <2>6 DEF Clear
    <3>2. Numbers(queue') = {} /\ Ascending(queue')
      BY <3>1 DEF Numbers, Ascending
    <3> QED BY <2>3, <3>1, <3>2 DEF FirstComeFirstServed, Ascending, Numbers
  <2>7. CASE ProcessAll
    BY <2>3, <2>7 DEF ProcessAll, FirstComeFirstServed, Ascending, Numbers
  <2>8. CASE ProcessAllReturns
    BY <2>3, <2>8 DEF ProcessAllReturns, FirstComeFirstServed, Ascending, Numbers
  <2>9. ASSUME UNCHANGED <<queue, jobs, reported>>
        PROVE  FirstComeFirstServed'
    BY <2>3, <2>9 DEF FirstComeFirstServed, Ascending, Numbers
  <2>10. ASSUME NEW w \in Workers, NEW status \in {"fulfilled", "rejected"},
                ExecutorEnds(w, status)
         PROVE  UNCHANGED <<queue, jobs, reported>>
    BY <2>10 DEF ExecutorEnds, batchVars
  <2>11. CASE ProcessNothing \/ UNCHANGED vars
    BY <2>9, <2>11 DEF ProcessNothing, vars, batchVars
  <2> QED BY <2>4, <2>5, <2>6, <2>7, <2>8, <2>9, <2>10, <2>11 DEF Next
<1> QED BY <1>1, <1>2

\* No job is overtaken by one accepted after it, in the queue, in a batch or by
\* being in an earlier batch (JobQueue.ts, the FIFO queue that processAll
\* empties), however jobs are added and removed.
THEOREM JobsAreServedInOrder == Spec => []FirstComeFirstServed
BY OrderIsKept, BatchSafety, PTL DEF Spec
===============================================================================
