-------------------------- MODULE MCCleanMapWorker --------------------------
(* Two commits around one lifecycle boundary of every kind; a swap by the  *)
(* rebuild threads is explored with one commit or one boundary beside it.  *)
EXTENDS CleanMapWorker

SwapWithOneOther == rebuilds = 0 \/ commits + boundaries <= 1
=============================================================================
