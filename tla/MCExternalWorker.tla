--------------------------- MODULE MCExternalWorker ---------------------------
(* Model values for ExternalWorker: two workers and two requests at a time  *)
(* for one job, in a subprocess that catches the error they throw.          *)
EXTENDS ExternalWorker, TLC
CONSTANTS j1, w1, w2, c1, c2
OneJob == {j1}
TwoWorkers == {w1, w2}
TwoClients == {c1, c2}
Symmetric == Permutations(TwoWorkers) \cup Permutations(TwoClients)
=============================================================================
