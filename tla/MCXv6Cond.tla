----------------------------- MODULE MCXv6Cond -----------------------------
EXTENDS Xv6Cond
=============================================================================
