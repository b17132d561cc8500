------------------------------ MODULE MCServ01 ------------------------------
EXTENDS Serv01_invariant

Symmetry ==
    Permutations(Thread) \cup Permutations(Process) \cup Permutations(Url)
=============================================================================
