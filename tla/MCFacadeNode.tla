---- MODULE MCFacadeNode ----
EXTENDS FacadeNode, TLC

\* The costmaps are alike: nothing names one of them.  Only the safety run,
\* which has no liveness property, uses it.
CONSTANTS global, local
Symmetry == Permutations({global, local})
====
