---------------------------- MODULE MCMpmcQueue ----------------------------
\* Small instances of MpmcQueue for TLC.
EXTENDS MpmcQueueInv, TLC

\* Threads of one role and elements are interchangeable.
Symmetry ==
  Permutations(Producers) \cup Permutations(Consumers) \cup Permutations(Values)

=============================================================================
