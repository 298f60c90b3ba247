------------------------------ MODULE MCEngine ------------------------------
\* The instances on which the hypotheses of the theorems hold.
EXTENDS EngineInstances

ASSUME MCHypotheses == Hypotheses
=============================================================================
