---------------------------- MODULE MCDeployment ----------------------------
(* Model values for Deployment: a baseline and what the agent may write.   *)
EXTENDS Deployment

CONSTANTS base, x, y, z, heat, motion, op
=============================================================================
