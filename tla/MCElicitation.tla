---------------------------- MODULE MCElicitation ----------------------------
\* Two tools that can be called with the same arguments.
EXTENDS Elicitation

CONSTANTS p1, t1, t2, a1
==============================================================================
