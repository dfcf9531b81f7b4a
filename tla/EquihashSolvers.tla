--------------------------- MODULE EquihashSolvers ---------------------------
(***************************************************************************)
(* The two solvers of the miner, against one puzzle and one verifier.       *)
(*                                                                         *)
(* device chooses the solver.  The slots are filled at the sizes the program *)
(* is built with before tables are solved at the sizes given by the         *)
(* constants; the two share nothing else.                                  *)
(***************************************************************************)
EXTENDS Equihash, EquihashCuda, EquihashLayout

\* The variables of the CPU solver but for the table, which is the device's too.
cpuVars == <<round, heap, tree, full, sols, nsols, reported, status>>

SolversInit ==
  /\ LayoutInit /\ Idle /\ CudaInit
  /\ IF device = "cuda" THEN hashes \in CudaInputs
     ELSE hashes \in Inputs /\ table[1] = CudaEmpty

FillSlots == LayoutNext /\ UNCHANGED <<vars, cudaVars>>
SolveCpu  == filled = WK /\ device = "cpu" /\ Next /\ UNCHANGED <<layoutVars, cudaVars>>
SolveCuda == filled = WK /\ device = "cuda" /\ CudaNext /\ UNCHANGED <<layoutVars, cpuVars>>

SolversNext == FillSlots \/ SolveCpu \/ SolveCuda

SolversSpec == SolversInit /\ [][SolversNext]_<<vars, cudaVars, layoutVars>>

----------------------------------------------------------------------------
(* What both solvers are to do.                                            *)

\* The state of a solve on either device, and that a CUDA solve that runs to its end
\* leaves nothing counted.
SolversTypeOK == EquihashTypeOK /\ CudaTypeOK

\* The pool's verifier accepts what either solver reports, but for what is read past
\* the stored solutions (CPU), left by a cancelled solve or an unseen repeat (CUDA).
ReportsAreAccepted == ReportedIsAccepted /\ CudaReportedIsAccepted

\* Either solver finds all solutions that it has room for and does not take for
\* repeats by their last word, CUDA after a cancelled solve too.
SolversFindAll == FindsAll /\ CudaFindsAll
=============================================================================
