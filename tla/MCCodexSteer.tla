---------------------------- MODULE MCCodexSteer ----------------------------
(* Instances of the prompt queue and its steers: two prompts, at most two   *)
(* dispatch loops, and the circumstances each behaviour starts in.          *)
EXTENDS CodexSteer, TLC

CONSTANTS d1, d2

MCPrompt == {1, 2}
MCDispatcher == {d1, d2}

Quiet == [kinds |-> {}, faults |-> 0, restarts |-> 0, steers |-> 0, loops |-> 2,
          routing |-> {FALSE}, legacy |-> {}]

(* Two loops: a refusal; a restart; a failing database or a lost answer of  *)
(* a routed turn; a failing classifier, another client or a stop over a row *)
(* of an earlier version.  One loop: a failing database and a restart; a    *)
(* second fault, also one of the write that records the first; a steer that *)
(* is refused or overtaken by a stop or a restart.                          *)
MCSetups ==
    {[Quiet EXCEPT !.kinds = {"refused"}, !.faults = 1],
     [Quiet EXCEPT !.restarts = 1],
     [Quiet EXCEPT !.kinds = {"storage", "lost"}, !.faults = 1, !.routing = {TRUE}],
     [Quiet EXCEPT !.kinds = {"classifier", "foreign", "stop"}, !.faults = 1,
                   !.routing = BOOLEAN, !.legacy = {1}],
     [Quiet EXCEPT !.kinds = {"storage"}, !.faults = 1, !.restarts = 1, !.loops = 1],
     [Quiet EXCEPT !.kinds = {"refused", "classifier", "storage"}, !.faults = 2,
                   !.routing = BOOLEAN, !.loops = 1],
     [Quiet EXCEPT !.kinds = {"classifier", "foreign", "stop"}, !.faults = 2,
                   !.routing = BOOLEAN, !.legacy = {1}, !.loops = 1],
     [Quiet EXCEPT !.kinds = {"refused", "stop"}, !.faults = 1, !.steers = 1,
                   !.loops = 1, !.routing = {TRUE}],
     [Quiet EXCEPT !.restarts = 1, !.steers = 1, !.loops = 1, !.routing = {TRUE}]}

(* Loops are interchangeable. *)
MCSymmetry == Permutations({d1, d2})

=============================================================================
