-------------------------- MODULE MCPlanExecution --------------------------
EXTENDS PlanExecution
=============================================================================
