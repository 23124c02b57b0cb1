------------------------------- MODULE MCBoot ------------------------------
(* A few changes to the root file system are enough: a shutdown tells those *)
(* before it from those after it, and the disk lags behind by any of them.  *)
EXTENDS Boot
=============================================================================
