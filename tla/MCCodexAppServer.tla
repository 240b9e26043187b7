-------------------------- MODULE MCCodexAppServer --------------------------
(* Instances of the app-server supervisor: which callers, with which calls, *)
(* and the circumstances each behaviour starts in.                          *)
EXTENDS CodexAppServer, TLC

CONSTANTS s, p, r, i

MCCaller == {s, p, r, i}
MCKindOf == s :> "start" @@ p :> "reconcile" @@ r :> "resume" @@ i :> "interrupt"

(* A starter beside the supervisor's poll, with two faults or two turns;    *)
(* the same with a stop or a resume; a stop and a resume with a fault.      *)
MCPolled == [callers |-> {s, p}, starts |-> 1, kinds |-> Faults, faults |-> 2]
MCSetups ==
    {MCPolled,
     [MCPolled EXCEPT !.starts = 2, !.kinds = {"exit"}, !.faults = 1],
     [MCPolled EXCEPT !.callers = {s, p, i}, !.faults = 0],
     [MCPolled EXCEPT !.callers = {s, p, r}, !.faults = 0],
     [MCPolled EXCEPT !.callers = {s, i}, !.faults = 1],
     [MCPolled EXCEPT !.callers = {s, r}, !.kinds = {"exit"}, !.faults = 1]}

=============================================================================
