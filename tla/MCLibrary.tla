----------------------------- MODULE MCLibrary -----------------------------
(***************************************************************************)
(* Two collections of one artist, one record, two requests at a time.      *)
(***************************************************************************)
EXTENDS Library, TLC

CONSTANTS x, a1, a2, r1, c1, c2

MCOwner == [a \in Collections |-> x]

\* There is one artist to name: an update names it or nothing.
MCRequests == {n \in Named : n.artists = Absent => n.albums = Absent /\ n.single = Absent}

\* All collections are of one artist.
Symmetry == Permutations(Calls) \cup Permutations(Collections)
=============================================================================
