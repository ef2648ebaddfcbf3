------------------------------ MODULE MCReceive ------------------------------
EXTENDS Receive, TLC

CONSTANTS m1, m2, m3, infinity

Messages3 == {m1, m2, m3}
TimeoutValues == {0, 1, 2, infinity}
=============================================================================
