---------------------------- MODULE MCPaperDesk ----------------------------
\* Small instances of PaperDesk for TLC.
EXTENDS PaperDesk

MCTakeSize == [k \in 1..Targets |-> 1]
============================================================================
