---------------------------- MODULE MCChangeFeed ----------------------------
\* Two concurrent writers, two streams, one of them slow, and a buffer small
\* enough to fill.
EXTENDS ChangeFeed

CONSTANTS w1, w2, c1, c2, t1
==============================================================================
