------------------------- MODULE MCSealedTestLedger -------------------------
(* Two sealed jobs, the baseline batch and three bearer tokens. *)
EXTENDS SealedTestLedger

CONSTANTS j1, j2, t1, t2, t3

MCJobs == {j1, j2}
MCTokens == {t1, t2, t3}
=============================================================================
