------------------------- MODULE MCRepositoryJobs -------------------------
(* RepositoryJobs on small sets of model values. *)
EXTENDS RepositoryJobs, TLC

CONSTANTS a1, w1, w2, j1, j2, j3, d1, d2

OneAnalysis   == {a1}
OneWorker     == {w1}
TwoWorkers    == {w1, w2}
TwoJobs       == {j1, j2}
ThreeJobs     == {j1, j2, j3}
OneRun        == {d1}
TwoRuns       == {d1, d2}
NoConnected   == {}
Calm          == {}
Competing     == {"competing_job"}
LockLoss      == {"live_lock_loss"}
Foreign       == {"competing_job", "live_lock_loss"}

\* Workers, jobs and delivery runs are interchangeable (safety runs only).
Symmetry == Permutations(Worker) \cup Permutations(Job) \cup Permutations(Lease)
=============================================================================
