---------------------------- MODULE MCGeneration ----------------------------
EXTENDS Generation
=============================================================================
