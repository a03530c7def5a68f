------------------------ MODULE MCProjectAllocation ------------------------
\* ProjectAllocation for TLC.
EXTENDS ProjectAllocation

\* The first configuration may be any: another one is this one with its values renamed.
OneInit == Init /\ config = Unread
OneStart == OneInit /\ [][Next]_vars /\ Fairness
=============================================================================
