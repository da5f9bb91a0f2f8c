----------------------------- MODULE MCAttention -----------------------------
EXTENDS Attention
=============================================================================
