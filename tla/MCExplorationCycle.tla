------------------------- MODULE MCExplorationCycle -------------------------
(* Three versions and a budget of three builds, with plans that cost        *)
(* nothing, one or two: a zero-cost plan is legal for the code, which is    *)
(* why the number of plans needs a bound of its own.                        *)
EXTENDS ExplorationCycle, TLC

CONSTANTS v1, v2, v3

MCVersion == {v1, v2, v3}
MCCost == 0 .. 2
MCSymmetry == Permutations(MCVersion)

=============================================================================
