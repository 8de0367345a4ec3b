------------------------------ MODULE MCOffice ------------------------------
EXTENDS Office, TLC
Symmetry == Permutations(Students) \cup Permutations(Offices)
=============================================================================
