----------------------------- MODULE MCPipeline -----------------------------
EXTENDS Pipeline

CONSTANTS base, heat, crash, w1, w2
=============================================================================
