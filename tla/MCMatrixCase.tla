---------------------------- MODULE MCMatrixCase ---------------------------
(* A case that wants a needle and exit code 0, tried with every behaviour of *)
(* its worker; the proofs are for any table of cases.                        *)
EXTENDS MatrixCase

MCOneCase == <<[needle |-> TRUE, want |-> "0"]>>
MCExitCode == {"0", "1", "127"}
=============================================================================
