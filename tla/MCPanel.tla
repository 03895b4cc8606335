------------------------------- MODULE MCPanel -------------------------------
EXTENDS ControlPanel
RankOf == [h \in Hosts |-> IF h = "mac" THEN 1 ELSE 2]
=============================================================================
