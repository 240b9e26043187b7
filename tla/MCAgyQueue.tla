---------------------------- MODULE MCAgyQueue ----------------------------
(* Instances of the Agy queue: at most two prompts, dispatchers and turns,  *)
(* and the circumstances each behaviour starts in.                          *)
EXTENDS AgyQueue, TLC

CONSTANTS d1, d2

MCPrompt == {1, 2}
MCDispatcher == {d1, d2}

Quiet == [prompts |-> {1}, compact |-> {}, fresh |-> {}, bound |-> TRUE, kinds |-> {},
          faults |-> 0, loops |-> 2, convs |-> 0, queuings |-> 1, crashes |-> 0]

(* Two prompts, with two dispatchers or a process that fails; a retry after *)
(* any fault; a crash, with two dispatchers, a process that fails or one    *)
(* the restart does not stop; a first send, a new conversation and a        *)
(* compaction, with their faults.                                           *)
MCSetups ==
    {[Quiet EXCEPT !.prompts = {1, 2}],
     [Quiet EXCEPT !.prompts = {1, 2}, !.kinds = {"exit", "read"}, !.faults = 1, !.loops = 1],
     [Quiet EXCEPT !.kinds = {"route", "spawn", "exit", "read", "init"}, !.faults = 1,
                   !.queuings = 2],
     [Quiet EXCEPT !.queuings = 2, !.crashes = 1],
     [Quiet EXCEPT !.kinds = {"reap"}, !.loops = 1, !.queuings = 2, !.crashes = 1],
     [Quiet EXCEPT !.kinds = {"exit", "read"}, !.faults = 1, !.loops = 1, !.queuings = 2,
                   !.crashes = 1],
     [Quiet EXCEPT !.prompts = {1, 2}, !.bound = FALSE, !.loops = 1],
     [Quiet EXCEPT !.bound = FALSE, !.kinds = {"exit", "read", "db", "init"}, !.faults = 1,
                   !.loops = 1, !.queuings = 2, !.crashes = 1],
     [Quiet EXCEPT !.fresh = {1}, !.kinds = {"exit", "read", "db", "init"}, !.faults = 1,
                   !.loops = 1, !.queuings = 2, !.crashes = 1],
     [Quiet EXCEPT !.prompts = {1, 2}, !.fresh = {2}, !.kinds = {"exit", "db"}, !.faults = 1,
                   !.loops = 1],
     [Quiet EXCEPT !.prompts = {1, 2}, !.compact = {2}, !.kinds = {"exit"}, !.faults = 1,
                   !.convs = 1]}

(* Dispatchers are alike to the program. *)
MCSymmetry == Permutations(Dispatcher)

=============================================================================
