--------------------------- MODULE MCActivationStore --------------------------
(***************************************************************************)
(* Small instances of ActivationStore in which no two operations run at    *)
(* once.  The lock sees to that until something fails; after a fault a     *)
(* caller may be robbed of its lock file, which FileLock shows by itself.  *)
(* What is left is what the store owes its callers: crashes and failing    *)
(* calls at every step of an operation, while another caller waits for its *)
(* turn, takes over the lock or works with what the first has left.        *)
(***************************************************************************)
EXTENDS ActivationStore, TLC

\* The condition of the theorems WholeWhileExclusive and AtomicWhileExclusive.
ExclusiveSpec == Init /\ [][Next /\ Exclusive']_vars

\* Callers and licenses are interchangeable.
Symmetry == Permutations(Procs) \union Permutations(Licenses)
===============================================================================
