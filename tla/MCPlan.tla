-------------------------------- MODULE MCPlan --------------------------------
(* Plan on small instances; the texts are those of PlanTexts.               *)
EXTENDS Plan, PlanTexts
=============================================================================
