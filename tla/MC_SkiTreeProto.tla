--------------------------- MODULE MC_SkiTreeProto ---------------------------
EXTENDS SkiTreeProto

CONSTANTS k1, k2, k3, u1, u2

MC_Keys == {k1, k2, k3}
MC_UpdateIDs == {u1, u2}
\* Paths of one signature block, where every reading of the header agrees.
MC_Paths == {<<{k1}>>, <<{k1, k2}>>, <<{k2, k3}>>}
MC_MaxCount == 2
=============================================================================
