---------------------------- MODULE MCGitSnapshot ----------------------------
(* GitSnapshot with two request threads, which TLC may exchange.            *)
EXTENDS GitSnapshot, TLC

CONSTANTS t1, t2

Symmetry == Permutations(Threads)

=============================================================================
