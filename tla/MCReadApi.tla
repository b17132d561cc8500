----------------------------- MODULE MCReadApi -----------------------------
EXTENDS ReadApi

Symmetry ==
    Permutations(Task) \cup Permutations(Thread)
        \cup Permutations(Process) \cup Permutations(Url)
=============================================================================
