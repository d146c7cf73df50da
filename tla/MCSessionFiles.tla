--------------------------- MODULE MCSessionFiles ---------------------------
EXTENDS SessionFiles, TLC

\* Names are only compared.
Symmetry == Permutations(Names)
=============================================================================
