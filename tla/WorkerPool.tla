------------------------------ MODULE WorkerPool ------------------------------
(***************************************************************************)
(* The worker pool of src/src/core/batch/WorkerPool.ts: run(items,         *)
(* handler) starts min(concurrency, items) workers that share one index    *)
(* into the items.  JavaScript runs one continuation at a time: when the   *)
(* handler of an item settles, its worker stores the result and takes the  *)
(* next item in one step.                                                  *)
(***************************************************************************)
EXTENDS Naturals

CONSTANTS
    Concurrency,  \* constructor argument
    MaxItems      \* bound on the length of the items

ASSUME PoolAssumption ==
    /\ Concurrency \in Nat \ {0}
    /\ MaxItems \in Nat

VARIABLES
    running,  \* a call of run is in progress
    size,     \* items.length of the latest call
    next,     \* nextIndex
    at,       \* the item each worker has in hand, or 0
    results,  \* how each item was settled, or "none"
    handled   \* how often the handler was called for each item

poolVars == <<running, size, next, at, results, handled>>

Workers == 1 .. Concurrency
Indices == 1 .. MaxItems

PoolInit ==
    /\ running = FALSE
    /\ size = 0
    /\ next = 1
    /\ at = [w \in Workers |-> 0]
    /\ results = [i \in Indices |-> "none"]
    /\ handled = [i \in Indices |-> 0]

Smaller(a, b) == IF a < b THEN a ELSE b

-----------------------------------------------------------------------------
\* run is called with n items: each worker runs up to its first await, which
\* is the call of the handler for its first item.
StartRun(n) ==
    LET workers == Smaller(Concurrency, n) IN
    /\ ~running
    /\ running' = TRUE
    /\ size' = n
    /\ next' = workers + 1
    /\ at' = [w \in Workers |-> IF w <= workers THEN w ELSE 0]
    /\ results' = [i \in Indices |-> "none"]
    /\ handled' = [i \in Indices |-> IF i <= workers THEN 1 ELSE 0]

\* The worker takes the next item, or leaves its loop.
Take(w) ==
    /\ at' = [at EXCEPT ![w] = next]
    /\ handled' = [handled EXCEPT ![next] = @ + 1]
    /\ next' = next + 1

Leave(w) ==
    /\ at' = [at EXCEPT ![w] = 0]
    /\ UNCHANGED <<handled, next>>

\* Mutations of Settle: no bound on the index; the index is read but not
\* advanced; the result is stored where the index is now.
Settle_NoBound(w, status) ==
    /\ running /\ at[w] # 0
    /\ results' = [results EXCEPT ![at[w]] = status]
    /\ Take(w)
    /\ UNCHANGED <<running, size>>

Settle_IndexStays(w, status) ==
    /\ running /\ at[w] # 0
    /\ results' = [results EXCEPT ![at[w]] = status]
    /\ \/ /\ next <= size
          /\ at' = [at EXCEPT ![w] = next]
          /\ handled' = [handled EXCEPT ![next] = @ + 1]
          /\ UNCHANGED next
       \/ next > size /\ Leave(w)
    /\ UNCHANGED <<running, size>>

Settle_AtTheIndex(w, status) ==
    /\ running /\ at[w] # 0
    /\ results' = [results EXCEPT ![next - 1] = status]
    /\ (next <= size /\ Take(w)) \/ (next > size /\ Leave(w))
    /\ UNCHANGED <<running, size>>

\* The handler of the item of worker w has returned or thrown.
Settle(w, status) ==
    /\ running
    /\ at[w] # 0
    /\ results' = [results EXCEPT ![at[w]] = status]
    /\ \/ next <= size /\ Take(w)
       \/ next > size /\ Leave(w)
    /\ UNCHANGED <<running, size>>

\* Mutation of EndRun: Promise.race(workers).
EndRun_FirstWorker ==
    /\ running
    /\ \E w \in Workers : at[w] = 0
    /\ running' = FALSE
    /\ UNCHANGED <<size, next, at, results, handled>>

\* Promise.all(workers) is fulfilled: run returns the results.
EndRun ==
    /\ running
    /\ \A w \in Workers : at[w] = 0
    /\ running' = FALSE
    /\ UNCHANGED <<size, next, at, results, handled>>

PoolNext ==
    \/ \E n \in 0 .. MaxItems : StartRun(n)
    \/ \E w \in Workers, status \in {"fulfilled", "rejected"} : Settle(w, status)
    \/ EndRun

PoolSpec == PoolInit /\ [][PoolNext]_poolVars

\* Every handler settles some time, and settled promises are continued.
FairPoolSpec ==
    /\ PoolSpec
    /\ \A w \in Workers :
          WF_poolVars(\E status \in {"fulfilled", "rejected"} : Settle(w, status))
    /\ WF_poolVars(EndRun)

-----------------------------------------------------------------------------
PoolTypeOK ==
    /\ running \in BOOLEAN
    /\ size \in 0 .. MaxItems
    /\ next \in 1 .. MaxItems + 1
    /\ at \in [Workers -> 0 .. MaxItems]
    /\ results \in [Indices -> {"none", "fulfilled", "rejected"}]
    /\ handled \in [Indices -> Nat]

\* The handler is called once for every item the shared index has passed and
\* never for another, whichever workers settle in whichever order.
HandledOnce ==
    \A i \in Indices : handled[i] = IF i < next /\ i <= size THEN 1 ELSE 0

\* No two workers have the same item in hand.
NoSharedItem ==
    \A v, w \in Workers : v # w /\ at[v] # 0 => at[v] # at[w]

\* An item has a result as soon as it is neither waiting nor in a worker's
\* hands: no result is lost, overwritten by another worker's, or too early.
ResultsAreComplete ==
    \A i \in 1 .. size :
        results[i] # "none" <=> i < next /\ \A w \in Workers : at[w] # i

\* While items wait, all workers are busy: the parallelism asked for is used.
NoWorkerRests ==
    running /\ next <= size => \A w \in Workers : at[w] # 0

\* run settles every item before it returns, in the position of the item.
RunReturnsAllResults ==
    [][~running' /\ running => \A i \in 1 .. size : results'[i] # "none"]_poolVars
===============================================================================
