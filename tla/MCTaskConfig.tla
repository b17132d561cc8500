---------------------------- MODULE MCTaskConfig ----------------------------
EXTENDS TaskConfig_proofs, TLC

Symmetry ==
    Permutations(User) \cup Permutations(Template)
        \cup Permutations(Task) \cup Permutations(Thread)
=============================================================================
