---------------------------- MODULE MCWorktrees ----------------------------
EXTENDS Worktrees, TLC
=============================================================================
