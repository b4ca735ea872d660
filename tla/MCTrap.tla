------------------------------- MODULE MCTrap -------------------------------
EXTENDS Trap
=============================================================================
