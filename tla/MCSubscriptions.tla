---------------------------- MODULE MCSubscriptions ----------------------------
\* Two sessions, the second of which may subscribe to one of the two URIs.
EXTENDS Subscriptions

CONSTANTS s1, s2, u1, u2, w1
MCGranted == [s \in Sessions |-> IF s = s1 THEN Uris ELSE {u1}]
==============================================================================
