------------------------------ MODULE MCFiles ------------------------------
EXTENDS FileConcatenate
=============================================================================
