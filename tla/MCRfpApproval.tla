--------------------------- MODULE MCRfpApproval ----------------------------
(***************************************************************************)
(* RfpApproval on small instances with several decisions in flight.        *)
(***************************************************************************)
EXTENDS RfpApproval, TLC

Symmetry == Permutations(Reviews)

(* Racing decisions on a ticket whose sections all passed their evaluation.  *)
RacingInit == ApprovalInit /\ Active = Dept /\ status = "en_evaluacion"

RacingSpec     == RacingInit /\ [][ApprovalNext]_approvalVars
FairRacingSpec == RacingSpec /\ CallsEnd
=============================================================================
