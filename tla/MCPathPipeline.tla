--------------------------- MODULE MCPathPipeline ---------------------------
EXTENDS PathPipeline, TLC

CONSTANTS p1, p2, p3

\* Two paths to the first final goal, one to the second.
MCGoalOf == p1 :> 1 @@ p2 :> 1 @@ p3 :> 2

\* The paths to one final goal are interchangeable.
Symmetry == Permutations({p1, p2})

OnePath  == p1 :> 1
=============================================================================
