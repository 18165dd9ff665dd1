-------------------------- MODULE CheckpointStore --------------------------
(***************************************************************************)
(* What the recovery-checkpoint manager promises to whoever restores from  *)
(* recovery-index.json, whatever the number of ranks, the interleaving of  *)
(* saves and the crashes: a committed entry names a directory that is      *)
(* intact, the newest committed entry and the durable ones are never       *)
(* given up, and only a directory no entry names loses its data.           *)
(***************************************************************************)
EXTENDS Naturals

CONSTANTS Dir, DurableDir, Gen  \* directories, the durable ones, generations

VARIABLES
    committed,  \* the entries of the index
    intact      \* the directories holding a complete checkpoint

vars == <<committed, intact>>

Init == committed = {} /\ intact = {}

Named(entries) == {e.dir : e \in entries}

\* A save completes.
Complete(d) == intact' = intact \cup {d} /\ UNCHANGED committed

\* The entries the index may give up when e enters it.
MayRetire(e, retired) ==
    \A x \in retired :
        /\ x.dir \notin DurableDir
        /\ \E y \in (committed \cup {e}) \ retired : y.gen > x.gen

\* A complete checkpoint enters the index, which may retire others.
Commit(e, retired) ==
    /\ e.dir \in intact
    /\ MayRetire(e, retired)
    /\ committed' = (committed \cup {e}) \ retired
    /\ UNCHANGED intact

\* The data of a directory that no entry names is lost.
Discard(d) ==
    /\ d \notin Named(committed)
    /\ intact' = intact \ {d}
    /\ UNCHANGED committed

Next ==
    \/ \E d \in Dir : Complete(d) \/ Discard(d)
    \/ \E e \in [dir : Dir, gen : Gen] : \E retired \in SUBSET (committed \cup {e}) :
        Commit(e, retired)

Spec == Init /\ [][Next]_vars
=============================================================================
