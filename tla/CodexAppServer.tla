--------------------------- MODULE CodexAppServer ---------------------------
(***************************************************************************)
(* The supervisor of the Codex app-server process:                         *)
(* src-tauri/src/services/codex_app_server.rs.                             *)
(*                                                                         *)
(* Callers share one child process.  A call makes sure that an initialized *)
(* process is registered, puts a sender into the pending map, writes one   *)
(* line to the process and waits.  A reader for each process routes reply  *)
(* lines to the pending map by id and applies notifications; a wait task   *)
(* for each process, a timeout, a malformed line or a failed write         *)
(* invalidates the process, which answers everything that is pending.      *)
(*                                                                         *)
(* Each action is one section under the state lock or one line written.    *)
(* The process is external: it answers in order, may run one turn of the   *)
(* (single) thread and tells when the turn starts and ends.                *)
(***************************************************************************)
EXTENDS Naturals, Sequences, FiniteSets

CONSTANTS
    Caller,     \* tasks that call the supervisor
    KindOf,     \* what each caller asks for
    None,       \* no caller
    Id,         \* names of requests that may be in flight at once
    MaxStarts,  \* bound: turns asked for
    MaxFaults,  \* bound: faults of all kinds together
    Setups      \* the circumstances a behaviour may start in

Kinds == {"start", "reconcile", "resume", "interrupt"}
Faults == {"exit", "silent", "late", "malformed", "spawn", "refused"}

SetupType == [callers : SUBSET Caller,  \* the tasks that call
              starts : 0 .. MaxStarts,  \* bound: turns asked for
              kinds : SUBSET Faults,    \* the faults that may happen
              faults : 0 .. MaxFaults]  \* bound: faults of all kinds together

ASSUME CallerAssumption == None \notin Caller /\ KindOf \in [Caller -> Kinds]
ASSUME IdAssumption == Id \subseteq Nat \ {0} /\ IsFiniteSet(Id)
ASSUME BoundAssumption == MaxStarts \in Nat /\ MaxFaults \in Nat
ASSUME SetupAssumption == \A s \in Setups : s \in SetupType

(* A process is registered once for each fault at most, after the first.   *)
Generation == 1 .. MaxFaults + 1
Turn == 1 .. MaxStarts

VARIABLES
    process,    \* SupervisorState::process: its generation (0: none) and whether initialized
    generation, \* SupervisorState::generation
    startup,    \* the caller that holds the startup mutex
    pending,    \* SupervisorState::pending
    runtime,    \* SupervisorState::runtimes of the thread
    terminal,   \* SupervisorState::terminal_turns
    seeds,      \* pending_eval_seeds, active_eval_runs and completed_eval_runs
    call,       \* the callers with their local variables
    os,         \* the processes: their pipes, what they run and whether they live
    setup,      \* the circumstances of this behaviour
    starts,     \* turns asked for so far
    faults      \* faults so far

supervisorVars == <<process, generation, startup, pending, runtime, terminal, seeds>>
vars == <<supervisorVars, call, os, setup, starts, faults>>

Points == {"idle", "ensure", "initSend", "initWrite", "initWait", "initDone", "check", "send",
           "write", "wait", "done", "invalidate"}
Phases == {"idle", "active", "stopping", "disconnected"}
NoAnswer == [ok |-> FALSE, id |-> 0, turn |-> 0]
AnswerType == [ok : BOOLEAN, id : Id \cup {0}, turn : Turn \cup {0}]
CallType == [pc : Points, gen : Generation \cup {0}, id : Id \cup {0}, turn : Turn \cup {0},
             answer : AnswerType]
IdleCall == [pc |-> "idle", gen |-> 0, id |-> 0, turn |-> 0, answer |-> NoAnswer]
IdleRuntime == [phase |-> "idle", turn |-> 0]
NoProcess == [gen |-> 0, ready |-> FALSE]

RequestType == [id : Id, kind : Kinds \cup {"initialize"}, turn : Turn \cup {0}]
LineType == [type : {"reply", "refused", "started", "completed", "garbage"},
             id : Id \cup {0}, turn : Turn \cup {0}]
OsType == [alive : BOOLEAN, killed : BOOLEAN, reaped : BOOLEAN, turn : Turn \cup {0},
           stdin : Seq(RequestType), stdout : Seq(LineType)]
Unborn == [alive |-> FALSE, killed |-> FALSE, reaped |-> TRUE, turn |-> 0,
           stdin |-> <<>>, stdout |-> <<>>]

Init ==
    /\ process = NoProcess
    /\ generation = 0
    /\ startup = None
    /\ pending = {}
    /\ runtime = IdleRuntime
    /\ terminal = {}
    /\ seeds = [waiting |-> 0, active |-> [t \in Turn |-> 0], finished |-> [n \in Turn |-> 0]]
    /\ call = [c \in Caller |-> IdleCall]
    /\ os = [g \in Generation |-> Unborn]
    /\ setup \in Setups /\ starts = 0 /\ faults = 0

Fault(kind) == kind \in setup.kinds /\ faults < setup.faults /\ faults' = faults + 1

-----------------------------------------------------------------------------
(* Helpers *)

At(c, point) == call[c].pc = point
Goto(c, point) == call' = [call EXCEPT ![c].pc = point]
Kind(c) == KindOf[c]
Line(type, id, turn) == [type |-> type, id |-> id, turn |-> turn]

(* A request or a reply with this id is on the way. *)
OnItsWay(i) == \E g \in Generation :
    \/ \E n \in 1 .. Len(os[g].stdin) : os[g].stdin[n].id = i
    \/ \E n \in 1 .. Len(os[g].stdout) : os[g].stdout[n].id = i

(* next_request_id only grows: a new id is no id that anything still names. *)
(* Id bounds the requests in flight at once.                                *)
IsFree(i) == i \notin pending /\ (\A c \in Caller : call[c].id # i) /\ ~OnItsWay(i)
FreshId == CHOOSE i \in Id : IsFree(i)

(* What one capture of an evaluation becomes when its turn or its process   *)
(* ends, or its start is refused.                                           *)
Finish(s, n) == IF n = 0 THEN s ELSE [s EXCEPT !.finished[n] = @ + 1]

(* Fault: an exit reports a seed and keeps it. *)
AllFinishedFaultKeepsWaiting(s) == Finish(s, s.waiting)

AllFinished(s) ==
    [Finish(s, s.waiting) EXCEPT
        !.waiting = 0,
        !.active = [t \in Turn |-> 0],
        !.finished = [n \in Turn |-> @[n] + Cardinality({t \in Turn : s.active[t] = n})]]

(* ensure_codex_eval_capture *)
Captured(s, t) ==
    IF s.active[t] # 0 \/ s.waiting = 0 THEN s
    ELSE [s EXCEPT !.active[t] = s.waiting, !.waiting = 0]

(* turn/completed finishes the capture of its turn. *)
Completed(s, t) == [Finish(s, s.active[t]) EXCEPT !.active[t] = 0]

(* The sender is used: a caller that waits goes on, one that has yet to     *)
(* write its line finds the answer after it.                                *)
Answered(cs, c, answer) ==
    IF cs[c].pc \in {"wait", "initWait"}
    THEN [cs[c] EXCEPT !.pc = IF @ = "initWait" THEN "initDone" ELSE "done",
                       !.id = 0, !.answer = answer]
    ELSE [cs[c] EXCEPT !.answer = answer]

(* Fault: what was pending is dropped without an answer. *)
DrainedFaultDropped(cs) == cs

(* Every pending sender gets the error. *)
Drained(cs) == [c \in Caller |->
    IF cs[c].id \in pending THEN Answered(cs, c, NoAnswer) ELSE cs[c]]

(* Its kill channel is used, or dropped. *)
Stopped(ps, g) == [ps EXCEPT ![g].killed = TRUE]

IsRegistered(g) == process.gen = g

(* invalidate_process, for the callers cs and the processes ps it leaves.   *)
Invalidated(g, cs, ps) ==
    IF IsRegistered(g)
    THEN /\ process' = NoProcess
         /\ terminal' = {}
         /\ seeds' = AllFinished(seeds)
         /\ runtime' = [phase |-> "disconnected", turn |-> 0]
         /\ pending' = {}
         /\ call' = Drained(cs)
         /\ os' = Stopped(ps, process.gen)
    ELSE /\ call' = cs /\ os' = ps
         /\ UNCHANGED <<process, terminal, seeds, runtime, pending>>

-----------------------------------------------------------------------------
(* request: ensure_started, then request_started *)

Returns(c) == call' = [call EXCEPT ![c] = IdleCall]

(* Turns are asked for one at a time: the prompt queue claims one head.     *)
CallMade(c) ==
    /\ At(c, "idle") /\ c \in setup.callers
    /\ \/ /\ Kind(c) = "start" /\ starts < setup.starts
          /\ \A d \in Caller : Kind(d) = "start" => At(d, "idle")
          /\ starts' = starts + 1
          /\ seeds' = [seeds EXCEPT !.waiting = starts']
          /\ call' = [call EXCEPT ![c].pc = "ensure", ![c].turn = starts']
       \/ /\ Kind(c) = "interrupt" /\ runtime.phase = "active"
          /\ call' = [call EXCEPT ![c].pc = "ensure", ![c].turn = runtime.turn]
          /\ UNCHANGED <<starts, seeds>>
       \/ /\ Kind(c) = "reconcile" /\ runtime.turn # 0
          /\ Goto(c, "ensure")
          /\ UNCHANGED <<starts, seeds>>
       \/ /\ Kind(c) = "resume"
          /\ Goto(c, "ensure")
          /\ UNCHANGED <<starts, seeds>>
    /\ UNCHANGED <<process, generation, startup, pending, runtime, terminal, os, faults, setup>>

AfterEnsure(c) == IF Kind(c) = "resume" THEN "check" ELSE "send"

(* The startup mutex is taken, and the process found initialized. *)
EnsureFindsProcess(c) ==
    /\ At(c, "ensure") /\ startup = None
    /\ process.ready
    /\ Goto(c, AfterEnsure(c))
    /\ UNCHANGED <<supervisorVars, os, starts, faults, setup>>

(* A thread that runs a turn is not resumed; its request comes later. *)
ResumeChecks(c) ==
    /\ At(c, "check")
    /\ IF runtime.turn # 0 THEN Returns(c) ELSE Goto(c, "send")
    /\ UNCHANGED <<supervisorVars, os, starts, faults, setup>>

(* Otherwise a process is spawned; one that was registered and never        *)
(* initialized is dropped, and its wait task kills it.                      *)
EnsureSpawns(c) ==
    /\ At(c, "ensure") /\ startup = None
    /\ ~process.ready
    /\ generation + 1 \in Generation
    /\ startup' = c
    /\ generation' = generation + 1
    /\ process' = [gen |-> generation', ready |-> FALSE]
    /\ os' = [(IF process.gen = 0 THEN os ELSE Stopped(os, process.gen))
                 EXCEPT ![generation'] = [Unborn EXCEPT !.alive = TRUE, !.reaped = FALSE]]
    /\ call' = [call EXCEPT ![c].pc = "initSend", ![c].gen = generation']
    /\ UNCHANGED <<pending, runtime, terminal, seeds, starts, faults, setup>>

EnsureFails(c) ==
    /\ At(c, "ensure") /\ startup = None
    /\ ~process.ready
    /\ Fault("spawn")
    /\ call' = [call EXCEPT ![c].pc = "done", ![c].answer = NoAnswer]
    /\ UNCHANGED <<supervisorVars, os, starts, setup>>

(* The sender is registered with the process of this moment, which need not *)
(* be the one that ensure_started found.                                    *)
Sends(c, from, to, failed) ==
    /\ At(c, from)
    /\ \/ /\ process.gen # 0 /\ \E i \in Id : IsFree(i)
          /\ pending' = pending \cup {FreshId}
          /\ call' = [call EXCEPT ![c].pc = to, ![c].id = FreshId, ![c].gen = process.gen]
       \/ /\ process.gen = 0
          /\ call' = [call EXCEPT ![c].pc = failed, ![c].answer = NoAnswer]
          /\ UNCHANGED pending
    /\ UNCHANGED <<process, generation, startup, runtime, terminal, seeds, os, starts, faults, setup>>

Send(c) == Sends(c, "send", "write", "done")
InitSend(c) == Sends(c, "initSend", "initWrite", "initDone")

(* Fault: the sender of a call that gave up stays. *)
TakenBackFaultLeaks(i) == pending

TakenBack(i) == pending \ {i}

(* The line is written, or the process is dead: then the sender is taken    *)
(* back and the process invalidated.                                        *)
Writes(c, from, to, kind) ==
    LET g == call[c].gen IN
    /\ At(c, from)
    /\ \/ /\ os[g].alive
          /\ os' = [os EXCEPT ![g].stdin =
                      Append(@, [id |-> call[c].id, kind |-> kind, turn |-> call[c].turn])]
          /\ call' = [call EXCEPT ![c] =
                IF @.id \in pending THEN [@ EXCEPT !.pc = to]
                ELSE [@ EXCEPT !.pc = IF to = "initWait" THEN "initDone" ELSE "done", !.id = 0]]
          /\ UNCHANGED pending
       \/ /\ ~os[g].alive
          /\ pending' = TakenBack(call[c].id)
          /\ call' = [call EXCEPT ![c].pc = "invalidate", ![c].id = 0]
          /\ UNCHANGED os
    /\ UNCHANGED <<process, generation, startup, runtime, terminal, seeds, starts, faults, setup>>

Write(c) == Writes(c, "write", "wait", Kind(c))
InitWrite(c) == Writes(c, "initWrite", "initWait", "initialize")

(* No answer in time, because there is none (free of charge) or because it  *)
(* is late.  The sender is taken back first.                                *)
TimesOut(c) ==
    /\ call[c].pc \in {"wait", "initWait"} /\ call[c].id \in pending
    /\ IF OnItsWay(call[c].id) THEN Fault("late") ELSE UNCHANGED faults
    /\ pending' = TakenBack(call[c].id)
    /\ call' = [call EXCEPT ![c].pc = "invalidate", ![c].id = 0]
    /\ UNCHANGED <<process, generation, startup, runtime, terminal, seeds, os, starts, setup>>

(* The lock was released in between: replies and exits may come first.      *)
InvalidatesProcess(c) ==
    /\ At(c, "invalidate")
    /\ Invalidated(call[c].gen,
                   [call EXCEPT ![c].pc = IF startup = c THEN "initDone" ELSE "done",
                                ![c].answer = NoAnswer], os)
    /\ UNCHANGED <<generation, startup, starts, faults, setup>>

(* After the handshake: `initialized` is written and the process marked, if *)
(* it is still this one.  A failed handshake invalidates; a failed write of *)
(* `initialized` only returns the error.                                    *)
InitDone(c) ==
    LET g == generation IN
    /\ At(c, "initDone")
    /\ startup' = None
    /\ \/ /\ call[c].answer.ok /\ IsRegistered(g) /\ os[g].alive
          /\ process' = [process EXCEPT !.ready = TRUE]
          /\ call' = [call EXCEPT ![c].pc = AfterEnsure(c), ![c].answer = NoAnswer]
          /\ UNCHANGED <<pending, runtime, terminal, seeds, os>>
       \/ /\ call[c].answer.ok /\ (~IsRegistered(g) \/ ~os[g].alive)
          /\ call' = [call EXCEPT ![c].pc = "done", ![c].answer = NoAnswer]
          /\ UNCHANGED <<process, pending, runtime, terminal, seeds, os>>
       \/ /\ ~call[c].answer.ok
          /\ Invalidated(g, [call EXCEPT ![c].pc = "done"], os)
    /\ UNCHANGED <<generation, starts, faults, setup>>

(* Fault: the answer is believed although the turn is over already. *)
StartedRuntimeFaultLate(t) == [phase |-> "active", turn |-> t]

(* apply_start_response: a turn whose end was seen before its start's reply *)
(* is not active.                                                           *)
StartedRuntime(t) ==
    IF t \in terminal THEN IdleRuntime ELSE [phase |-> "active", turn |-> t]

(* Fault: a page without a running turn tells nothing. *)
PageRuntimeFaultSticky(t) == IF t = 0 THEN runtime ELSE [phase |-> "active", turn |-> t]

(* runtime_from_turn_page *)
PageRuntime(t) == IF t = 0 THEN IdleRuntime ELSE [phase |-> "active", turn |-> t]

StartReturns(c) ==
    LET t == call[c].answer.turn IN
    /\ At(c, "done") /\ Kind(c) = "start"
    /\ IF call[c].answer.ok
       THEN /\ runtime' = StartedRuntime(t)
            /\ seeds' = Captured(seeds, t)
       ELSE /\ seeds' = [Finish(seeds, seeds.waiting) EXCEPT !.waiting = 0]
            /\ UNCHANGED runtime
    /\ Returns(c)
    /\ UNCHANGED <<process, generation, startup, pending, terminal, os, starts, faults, setup>>

(* reconcile_runtime and resume_thread store what the page said, whatever   *)
(* was learned since the page was written.                                  *)
PageReturns(c) ==
    /\ At(c, "done") /\ Kind(c) \in {"reconcile", "resume"}
    /\ runtime' = IF call[c].answer.ok THEN PageRuntime(call[c].answer.turn) ELSE runtime
    /\ Returns(c)
    /\ UNCHANGED <<process, generation, startup, pending, terminal, seeds, os, starts, faults, setup>>

(* interrupt_turn marks the turn it interrupted, if that still runs. *)
MarksStopping(c) == runtime.turn = call[c].turn

InterruptReturns(c) ==
    /\ At(c, "done") /\ Kind(c) = "interrupt"
    /\ runtime' = IF call[c].answer.ok /\ MarksStopping(c)
                  THEN [runtime EXCEPT !.phase = "stopping"] ELSE runtime
    /\ Returns(c)
    /\ UNCHANGED <<process, generation, startup, pending, terminal, seeds, os, starts, faults, setup>>

-----------------------------------------------------------------------------
(* read_stdout and the wait task of a process *)

(* A reply goes to whoever holds its id, from whichever process it comes.   *)
Replied(id, answer) == [c \in Caller |->
    IF call[c].id = id /\ id \in pending THEN Answered(call, c, answer) ELSE call[c]]

ReadReply(g, line) ==
    /\ line.type \in {"reply", "refused"}
    /\ pending' = pending \ {line.id}
    /\ call' = Replied(line.id, [ok |-> line.type = "reply", id |-> line.id, turn |-> line.turn])
    /\ UNCHANGED <<process, runtime, terminal, seeds>>

Hears(g) == IsRegistered(g)

ReadStarted(g, line) ==
    /\ line.type = "started" /\ Hears(g)
    /\ runtime' = [phase |-> "active", turn |-> line.turn]
    /\ seeds' = Captured(seeds, line.turn)
    /\ UNCHANGED <<process, pending, terminal, call>>

(* turn/completed is remembered, and ends the runtime only of its own turn. *)
ReadCompleted(g, line) ==
    /\ line.type = "completed" /\ Hears(g)
    /\ terminal' = terminal \cup {line.turn}
    /\ runtime' = IF runtime.turn = line.turn THEN IdleRuntime ELSE runtime
    /\ seeds' = Completed(seeds, line.turn)
    /\ UNCHANGED <<process, pending, call>>

ReadOfStaleProcess(g, line) ==
    /\ line.type \in {"started", "completed"} /\ ~Hears(g)
    /\ UNCHANGED <<process, pending, runtime, terminal, seeds, call>>

TakenLine(g) == [os EXCEPT ![g].stdout = Tail(@)]

(* handle_stdout_line *)
ReadLine(g) ==
    /\ os[g].stdout # <<>>
    /\ LET line == Head(os[g].stdout) IN
       \/ /\ ReadReply(g, line) \/ ReadStarted(g, line) \/ ReadCompleted(g, line)
             \/ ReadOfStaleProcess(g, line)
          /\ os' = TakenLine(g)
       \/ /\ line.type = "garbage"
          /\ Invalidated(g, call, TakenLine(g))
    /\ UNCHANGED <<generation, startup, starts, faults, setup>>

(* handle_process_exit *)
ExitHandled(g) ==
    /\ ~os[g].alive /\ ~os[g].reaped
    /\ Invalidated(g, call, [os EXCEPT ![g].reaped = TRUE])
    /\ UNCHANGED <<generation, startup, starts, faults, setup>>

-----------------------------------------------------------------------------
(* The process *)

Say(g, lines) == os' = [os EXCEPT ![g].stdin = Tail(@), ![g].stdout = @ \o lines]

(* It answers requests in order; a turn runs from its start to its end, and *)
(* its first notification may come before the reply.                        *)
ProcessAnswers(g) ==
    LET request == Head(os[g].stdin)
        turn == os[g].turn
        reply(t) == Line("reply", request.id, t)
        refusal == Line("refused", request.id, 0)
        started == Line("started", 0, request.turn)
    IN
    /\ os[g].alive /\ os[g].stdin # <<>>
    /\ \/ /\ request.kind = "start" /\ turn = 0
          /\ \E first \in {"reply", "started"} :
                os' = [os EXCEPT ![g].stdin = Tail(@), ![g].turn = request.turn,
                        ![g].stdout = @ \o
                          IF first = "reply" THEN <<reply(request.turn), started>>
                          ELSE <<started, reply(request.turn)>>]
          /\ UNCHANGED faults
       \/ /\ request.kind = "start" /\ turn # 0
          /\ Say(g, <<refusal>>)
          /\ UNCHANGED faults
       \/ /\ request.kind \in {"reconcile", "resume"}
          /\ Say(g, <<reply(turn)>>)
          /\ UNCHANGED faults
       \/ /\ request.kind = "initialize"
          /\ Say(g, <<reply(0)>>)
          /\ UNCHANGED faults
       \/ /\ request.kind = "interrupt"
          /\ Say(g, <<IF turn = request.turn THEN reply(0) ELSE refusal>>)
          /\ UNCHANGED faults
       \/ /\ Fault("refused")
          /\ Say(g, <<refusal>>)
       \/ /\ Fault("malformed")
          /\ Say(g, <<Line("garbage", 0, 0)>>)
       \/ /\ Fault("silent")
          /\ Say(g, <<>>)
    /\ UNCHANGED <<supervisorVars, call, starts, setup>>

TurnEnds(g) ==
    /\ os[g].alive /\ os[g].turn # 0
    /\ os' = [os EXCEPT ![g].turn = 0, ![g].stdout = Append(@, Line("completed", 0, os[g].turn))]
    /\ UNCHANGED <<supervisorVars, call, starts, faults, setup>>

(* What it wrote stays readable; the turn it ran is over. *)
ProcessExits(g) ==
    /\ os[g].alive
    /\ \/ os[g].killed /\ UNCHANGED faults
       \/ Fault("exit")
    /\ os' = [os EXCEPT ![g].alive = FALSE, ![g].turn = 0, ![g].stdin = <<>>]
    /\ UNCHANGED <<supervisorVars, call, starts, setup>>

-----------------------------------------------------------------------------
CallStep(c) ==
    \/ EnsureFindsProcess(c) \/ ResumeChecks(c) \/ EnsureSpawns(c) \/ EnsureFails(c)
    \/ Send(c) \/ InitSend(c) \/ Write(c) \/ InitWrite(c)
    \/ InvalidatesProcess(c) \/ InitDone(c)
    \/ StartReturns(c) \/ PageReturns(c) \/ InterruptReturns(c)

Next ==
    \/ \E c \in Caller : CallMade(c) \/ CallStep(c) \/ TimesOut(c)
    \/ \E g \in Generation :
          ReadLine(g) \/ ExitHandled(g) \/ ProcessAnswers(g) \/ TurnEnds(g) \/ ProcessExits(g)

Spec == Init /\ [][Next]_vars

(* The runtime polls tasks, timeouts fire, processes answer and turns end,  *)
(* and the queue supervisor reconciles while the runtime shows a turn.      *)
Fairness ==
    /\ \A c \in Caller :
          /\ WF_vars(CallStep(c))
          /\ WF_vars(TimesOut(c))
          /\ KindOf[c] = "reconcile" => WF_vars(CallMade(c))
    /\ \A g \in Generation :
          /\ WF_vars(ReadLine(g)) /\ WF_vars(ExitHandled(g))
          /\ WF_vars(ProcessAnswers(g)) /\ WF_vars(TurnEnds(g))
          /\ WF_vars(os[g].killed /\ ProcessExits(g))

FairSpec == Spec /\ Fairness

-----------------------------------------------------------------------------
(* Properties *)

AppServerTypeOK ==
    /\ process \in [gen : Generation \cup {0}, ready : BOOLEAN]
    /\ generation \in Nat
    /\ startup \in Caller \cup {None}
    /\ pending \subseteq Id
    /\ runtime \in [phase : Phases, turn : Turn \cup {0}]
    /\ terminal \subseteq Turn
    /\ seeds.waiting \in Turn \cup {0}
    /\ seeds.active \in [Turn -> Turn \cup {0}] /\ seeds.finished \in [Turn -> Nat]
    /\ call \in [Caller -> CallType]
    /\ os \in [Generation -> OsType]
    /\ setup \in Setups /\ starts \in Nat /\ faults \in Nat

(* The pending map holds the senders of exactly the callers that wait: none *)
(* waits for a sender that an exit, a timeout or a reply has removed, and   *)
(* none is left behind.                                                     *)
PendingIsExact ==
    /\ \A c \in Caller : call[c].pc \in {"wait", "initWait"} => call[c].id \in pending
    /\ \A i \in pending : \E c \in Caller : call[c].id = i /\ call[c].pc # "done"

(* A start is answered with its own turn, never with a reply that an older  *)
(* process, or one to a request that timed out, gave to another request.    *)
AnswerIsOwn == \A c \in Caller :
    At(c, "done") /\ Kind(c) = "start" /\ call[c].answer.ok => call[c].answer.turn = call[c].turn

(* What a process wrote before it was replaced changes nothing when it is   *)
(* read after.                                                              *)
StaleProcessIsSilent == [][\A g \in Generation :
    g # process.gen /\ Len(os'[g].stdout) < Len(os[g].stdout)
        => UNCHANGED <<process, runtime, terminal, seeds>>]_vars

(* Every process but the registered one has been told to stop: a restart of *)
(* the supervisor's process never leaves two of them running.               *)
OneProcess == \A g \in Generation : os[g].alive /\ g # process.gen => os[g].killed

(* The evaluation of every turn asked for is waiting, captured or finished, *)
(* in one of them and once, whatever replies, notifications and exits come  *)
(* in whatever order.                                                       *)
SeedInOnePlace == \A n \in 1 .. starts :
    (IF seeds.waiting = n THEN 1 ELSE 0)
        + Cardinality({t \in Turn : seeds.active[t] = n}) + seeds.finished[n] = 1

(* A start whose turn was seen to end does not show it as active, though    *)
(* its reply is applied after the end.                                      *)
EndedTurnStaysOver == [][\A c \in Caller :
    At(c, "done") /\ Kind(c) = "start" /\ call[c].answer.ok /\ call'[c].pc = "idle"
        => runtime'.turn \notin terminal]_vars

(* A runtime that is stopping shows the turn it stops.  The dispatcher      *)
(* leaves a stopping runtime alone and reconciles only one with a turn, so  *)
(* it would never start a turn again otherwise.                             *)
StoppingHasTurn == runtime.phase = "stopping" => runtime.turn # 0

(* The supervisor's bookkeeping agrees with its processes and callers: what *)
(* is pending is waited for, an answer is the caller's own, one process     *)
(* runs, an evaluation is in one place, and a stop is of a turn.            *)
SupervisorIsSound ==
    /\ AppServerTypeOK
    /\ PendingIsExact /\ AnswerIsOwn
    /\ OneProcess /\ SeedInOnePlace /\ StoppingHasTurn

(* Neither an older process nor an older reply has a say any more.          *)
LateNewsIsIgnored == StaleProcessIsSilent /\ EndedTurnStaysOver

(* Every call returns. *)
CallReturns == \A c \in Caller : ~At(c, "idle") ~> At(c, "idle")

(* A runtime does not show a turn for ever: a page or a reply applied after *)
(* the turn's end, or after the exit of its process, is corrected by the    *)
(* supervisor's polls, while there are any.                                 *)
Polled == \E c \in setup.callers : Kind(c) = "reconcile"

RuntimeHeals == \A t \in Turn : Polled /\ runtime.turn = t ~> runtime.turn # t

(* Every evaluation is finished, also those of turns that an exit cut off.  *)
SeedIsFinished == \A n \in Turn : starts = n ~> seeds.finished[n] = 1

(* What was left open by a fault is closed in the end.                      *)
FaultsAreHealed == RuntimeHeals /\ SeedIsFinished

=============================================================================
