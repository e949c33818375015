------------------------------- MODULE MCPool -------------------------------
(* One job, enqueued up to two times, and two goroutines with one slot and *)
(* a bucket of one token; one person at the dead letters.                  *)
EXTENDS Pool

CONSTANTS j1, w1, w2, o1

MCJobs == {j1}
MCWorkers == {w1, w2}
MCOperators == {o1}
=============================================================================
