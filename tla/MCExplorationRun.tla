-------------------------- MODULE MCExplorationRun --------------------------
(* One thread with two interactive requests and a controller, each of which *)
(* may open a cycle of its own, and the circumstances of each behaviour.    *)
EXTENDS ExplorationRun

CONSTANTS thread, i1, i2, c1, e1, e2, e3, v1

MCKey == {thread}
MCRequest == {i1, i2, c1}
MCTwoRequests == {i1, i2}
MCKeyOf == [r \in Request |-> thread]
MCKindOf == [r \in Request |-> IF r = c1 THEN "controller" ELSE "interactive"]
MCCycle == {e1, e2, e3}
MCTwoCycles == {e1, e2}
MCVersion == {v1}

TwoRuns == [requests |-> {i1, i2}, questions |-> {}, stoppable |-> {i1}, attempts |-> 2,
            crash |-> FALSE, mcp |-> FALSE, seconds |-> 0]

(* Everything at once, with one attempt; then, where nothing but runs and    *)
(* stops touches the cycles, two attempts and a stop, two attempts and a     *)
(* crash, three runs and a stop.                                             *)
MCSetups ==
    {[TwoRuns EXCEPT !.questions = {i1, i2}, !.attempts = 1, !.crash = TRUE, !.mcp = TRUE,
                     !.seconds = 1],
     TwoRuns,
     [TwoRuns EXCEPT !.crash = TRUE, !.seconds = 1, !.stoppable = {}],
     [TwoRuns EXCEPT !.requests = {i1, i2, c1}, !.attempts = 1]}

(* Two runs, one of which may be a question, and a stop. *)
MCLiveSetups == {[TwoRuns EXCEPT !.questions = {i1}]}

MCSymmetry == Permutations(Cycle)

=============================================================================
