---------------------------- MODULE LcaImproved -----------------------------
(***************************************************************************)
(* lca_improved.py: the same rounds, but each extends only the rows that   *)
(* the round before it made, which last_step holds.  The rest of the file  *)
(* is that of lca.py.                                                      *)
(***************************************************************************)
EXTENDS Lca

CONSTANT MaxRound   \* the rounds are followed up to this number

VARIABLES last_step, bfs_round

improvedVars == <<vars, last_step, bfs_round>>

ImprovedInit ==
  /\ Init
  /\ last_step = {<<s, s, 0>> : s \in Seed}
  /\ bfs_round = 1

\* Mutant: the filter sees bfs_round after it was raised.
FilteredLate(next_step) == {r \in next_step : r[3] = bfs_round + 1}

\* next_step.filter(d == bfs_round): the rows as long as the round's number.
\* coalesce ships the filter to the workers before bfs_round is raised.
Filtered(next_step) == {r \in next_step : r[3] = bfs_round}

ImprovedRound ==
  /\ ~finished
  /\ old_count # new_count
  /\ bfs_round <= MaxRound
  /\ LET next_step == JoinedWithEdges(last_step)
     IN /\ Counted(ReducedByKey(Rows(distances) \cup next_step))
        /\ last_step' = Filtered(next_step)
  /\ bfs_round' = bfs_round + 1

ImprovedReduce == ReduceAccestors /\ UNCHANGED <<last_step, bfs_round>>

ImprovedDone == finished /\ UNCHANGED improvedVars

ImprovedNext == ImprovedRound \/ ImprovedReduce

\* The driver program runs its loop on without waiting for anyone.
ImprovedSpec ==
  /\ ImprovedInit
  /\ [][ImprovedNext \/ ImprovedDone]_improvedVars
  /\ WF_improvedVars(ImprovedNext)

\* Round for round, the improved program computes the distances that lca.py
\* does, and then the same ancestors: nothing is lost by forgetting the older
\* rows (lca_improved.py:59-71).
ImplementsLca == Spec
=============================================================================
