---------------------------- MODULE MCCodexQueue ----------------------------
(* The instance of the prompt queue for its liveness: two prompts, up to    *)
(* two dispatch loops, and one circumstance at a time; nobody steers.       *)
EXTENDS CodexQueue

CONSTANTS d1, d2

MCPrompt == {1, 2}
MCDispatcher == {d1, d2}

Quiet == [kinds |-> {}, faults |-> 1, restarts |-> 0, steers |-> 0, loops |-> 1,
          routing |-> {FALSE}, legacy |-> {}]

(* Two loops and a write that fails; one loop and each other circumstance,  *)
(* also a write that fails while a refusal is recorded.                     *)
MCSetups ==
    {[Quiet EXCEPT !.kinds = {"storage"}, !.loops = 2],
     [Quiet EXCEPT !.kinds = {"refused", "stop"}],
     [Quiet EXCEPT !.kinds = {"refused", "storage"}, !.faults = 2],
     [Quiet EXCEPT !.kinds = {"classifier", "foreign", "stop"}, !.routing = {TRUE},
                   !.legacy = {1}],
     [Quiet EXCEPT !.kinds = {"lost"}, !.restarts = 1]}

=============================================================================
