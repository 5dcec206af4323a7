---------------------------- MODULE MCListChanged ----------------------------
\* One writer, a direct caller beside the watcher, and streams to reconnect on.
EXTENDS ListChanged, TLC

CONSTANTS w1, c1, c2, t1, d1
==============================================================================
