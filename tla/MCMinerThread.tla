--------------------------- MODULE MCMinerThread ---------------------------
(* Instances of MinerThread for model checking. *)
EXTENDS MinerThread
=============================================================================
