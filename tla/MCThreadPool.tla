---------------------------- MODULE MCThreadPool ----------------------------
(* ThreadPool for TLC: three workers, so that one may sleep, one hold a    *)
(* job and one compete for the lock, and two jobs.                         *)
EXTENDS ThreadPool

CONSTANTS t1, t2, t3, j1, j2

MCThread == {t1, t2, t3}
MCJob    == {j1, j2}
=============================================================================
