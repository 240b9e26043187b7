---------------------------- MODULE MCBuildQueue ----------------------------
(* Two targets; three controllers and two interactive requests on the first, *)
(* so that the FIFO is long enough for a removal from its middle and an      *)
(* interactive request can be replaced while controllers overtake it.        *)
EXTENDS BuildQueue

CONSTANTS k1, k2, c1, c2, c3, i1, i2, i3

MCKey == {k1, k2}
MCRequest == {c1, c2, c3, i1, i2, i3}
MCKeyOf == [r \in MCRequest |-> IF r = i3 THEN k2 ELSE k1]
MCKindOf == [r \in MCRequest |->
               IF r \in {c1, c2, c3} THEN "controller" ELSE "interactive"]

(* Requests of one kind and target are interchangeable. *)
MCSymmetry == Permutations({c1, c2, c3}) \cup Permutations({i1, i2})

=============================================================================
