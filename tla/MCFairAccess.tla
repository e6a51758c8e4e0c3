---------------------------- MODULE MCFairAccess ----------------------------
(***************************************************************************)
(* Instances of FairAccess: two or three endpoints under one or two        *)
(* satellites.  A sky gives each cell the satellites it sees, best first.  *)
(***************************************************************************)
EXTENDS FairAccess

CONSTANTS s1, s2

Everywhere(V) == {[c \in Cells |-> v] : v \in V}

\* One satellite, always visible.
FixedSky == Everywhere({<<s1>>})

\* Two satellites, always visible, that exchange the better elevation.
CrossingSkies == Everywhere({<<s1, s2>>, <<s2, s1>>})

\* They also set.
MovingSkies == Everywhere({<<s1, s2>>, <<s2, s1>>, <<s2>>})
GappedSkies == Everywhere({<<s1, s2>>, <<s2>>, <<>>})

=============================================================================
