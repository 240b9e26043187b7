------------------------------ MODULE AgyQueue ------------------------------
(***************************************************************************)
(* The Antigravity (Agy) provider of one thread: its prompt queue and the  *)
(* commands of src-tauri/src/commands/agy_provider.rs, and the supervisor  *)
(* of src-tauri/src/services/agy_provider.rs, which runs one process per   *)
(* session and one turn at a time in it.                                   *)
(*                                                                         *)
(* A turn is numbered when its prompt is handed to a session.  A turn that *)
(* starts a process gives the process and its session the same number.     *)
(* Each step of a task is one section under the database's or the          *)
(* supervisor's lock; the tasks interleave between steps.                  *)
(***************************************************************************)
EXTENDS Integers, Sequences, SequencesExt, FiniteSets

CONSTANTS
    Prompt,         \* prompts the user may send
    Dispatcher,     \* tasks that dispatch, or compact, at the same time
    Creator,        \* the task of a first send
    None,
    MaxTurns,       \* bound: turns of a behaviour
    Setups          \* the circumstances a behaviour may start in, with its bounds

Faults == {"route", "spawn", "init", "exit", "read", "db", "reap"}

SetupType == [prompts : SUBSET Prompt,  \* the prompts the user sends
              compact : SUBSET Prompt,  \* the prompts "/compact"
              fresh : SUBSET Prompt,    \* prompts that start a new conversation
              bound : BOOLEAN,          \* TRUE: the thread has a conversation
              kinds : SUBSET Faults,    \* the faults that may happen
              faults : Nat,             \* bound: faults of all kinds together
              loops : Nat,              \* bound: tasks running at once
              convs : Nat,              \* bound: compactions the user asks for
              queuings : Nat,           \* bound: times a prompt is queued
              crashes : Nat]            \* bound: crashes

ASSUME AgyAssumption == Creator \notin Dispatcher /\ None \notin Prompt /\ MaxTurns \in Nat
ASSUME NoneAssumption == None \notin Int \cup Dispatcher \cup {Creator}
ASSUME SetupAssumption == \A s \in Setups : s \in SetupType

VARIABLES
    queue,      \* agent_prompt_queue, in the order of created_at
    row,        \* status, dispatch_started and process lease of each prompt
    queuings,   \* times a prompt became queued
    binding,    \* external_thread_id of the binding
    convs,      \* conversations made so far
    task,       \* dispatch_queue_for_impl, compact_agy_provider, first send
    activation, \* holder of the activation mutex
    turns,      \* turns and processes so far
    sess,       \* sessions of the supervisor
    work,       \* the processes that are alive, and the turn each works on
    exposed,    \* prompts of turns a restart had no lease of, or did not stop
    setup,      \* the circumstances of this behaviour
    faults, crashes

vars == <<queue, row, queuings, binding, convs, task, activation, turns, sess, work, exposed, setup, faults, crashes>>
store == <<queue, row, queuings>>
super == <<turns, sess, work>>
bounds == <<exposed, setup, faults, crashes>>

Task == Dispatcher \cup {Creator}
Statuses == {"none", "queued", "sending", "failed"}
Points == {"idle", "runtime", "head", "claim", "drop", "compacted", "route", "recheck", "discard",
           "begin", "find", "replace", "spawn", "write", "reuse", "flush", "init", "kill",
           "rotate", "bind", "enqueue", "persist", "stop", "stopOnly", "fail", "create"}

Init ==
    /\ setup \in Setups
    /\ queue = <<>>
    /\ row = [p \in Prompt |-> [status |-> "none", begun |-> FALSE, lease |-> 0]]
    /\ queuings = [p \in Prompt |-> 0]
    /\ binding = (IF setup.bound THEN 0 ELSE None)
    /\ convs = 0
    /\ task = [t \in Task |-> [pc |-> "idle", prompt |-> None, conv |-> None, turn |-> 0]]
    /\ activation = None
    /\ turns = <<>>
    /\ sess = [k \in {} |-> 0]
    /\ work = [k \in {} |-> 0]
    /\ exposed = {}
    /\ faults = 0
    /\ crashes = 0

Fault(kind) ==
    /\ kind \in setup.kinds /\ faults < setup.faults
    /\ faults' = faults + 1 /\ UNCHANGED setup

NoFault == UNCHANGED <<setup, faults>>
At(t, point) == task[t].pc = point
Goto(t, point) == task' = [task EXCEPT ![t].pc = point]
Idle == [pc |-> "idle", prompt |-> None, conv |-> None, turn |-> 0]
Leave(t) == task' = [task EXCEPT ![t] = Idle]
Sans(f, k) == [j \in DOMAIN f \ {k} |-> f[j]]

-----------------------------------------------------------------------------
(* The supervisor's sessions *)

Sessions(conv) == {k \in DOMAIN sess : turns[k].conv = conv}
IsActive(k) == sess[k].turn # 0
Busy(conv) == \E k \in Sessions(conv) : IsActive(k) \/ sess[k].phase = "stopping"

(* The end of a turn, for whoever awaits it; a second end goes nowhere. *)
WithOutcome(ts, n, outcome) ==
    IF n # 0 /\ ts[n].outcome = "none" THEN [ts EXCEPT ![n].outcome = outcome] ELSE ts
WithInit(ts, k, answer) ==
    IF ts[k].init = "wait" THEN [ts EXCEPT ![k].init = answer] ELSE ts

(* fail_session *)
Failed(k) ==
    IF k \notin DOMAIN sess THEN UNCHANGED <<turns, sess>>
    ELSE /\ turns' = WithInit(WithOutcome(turns, sess[k].turn, "error"), k, "error")
         /\ sess' = [sess EXCEPT ![k] = [phase |-> "idle", turn |-> 0]]

(* A session dropped from the map drops its senders. *)
Dropped(k) ==
    IF k \notin DOMAIN sess THEN UNCHANGED <<turns, sess>>
    ELSE /\ turns' = WithInit(WithOutcome(turns, sess[k].turn, "error"), k, "error")
         /\ sess' = Sans(sess, k)

(* discard_session of the conversation, which also kills the process. *)
Discarded(conv) ==
    IF Sessions(conv) = {} THEN UNCHANGED super
    ELSE \E k \in Sessions(conv) : Dropped(k) /\ work' = Sans(work, k)

(* kill_session: the entry stays until the exit is handled. *)
Killed(k) == work' = IF k \in DOMAIN sess THEN Sans(work, k) ELSE work

-----------------------------------------------------------------------------
(* Sending, retrying, removing *)

(* send_agy_provider_prompt and send_existing, with a binding. *)
Send(p) ==
    /\ p \in setup.prompts /\ binding # None /\ queuings[p] = 0
    /\ p # task[Creator].prompt
    /\ queue' = Append(queue, p)
    /\ row' = [row EXCEPT ![p].status = "queued"]
    /\ queuings' = [queuings EXCEPT ![p] = 1]
    /\ UNCHANGED <<binding, convs, task, activation, turns, sess, work, bounds>>

Retry(p) ==
    /\ queue # <<>> /\ Head(queue) = p /\ row[p].status = "failed"
    /\ queuings[p] < setup.queuings
    /\ row' = [row EXCEPT ![p].status = "queued"]
    /\ queuings' = [queuings EXCEPT ![p] = @ + 1]
    /\ UNCHANGED <<queue, binding, convs, task, activation, turns, sess, work, bounds>>

PlaceOf(p) == CHOOSE i \in DOMAIN queue : queue[i] = p

(* Deleting a row deletes its lease. *)
Deleted(p) ==
    /\ queue' = RemoveAt(queue, PlaceOf(p))
    /\ row' = [row EXCEPT ![p] = [status |-> "none", begun |-> FALSE, lease |-> 0]]

CanRemove(p) ==
    /\ row[p].status # "none"
    /\ row[p].status = "sending" => ~row[p].begun

RemoveRow(p) ==
    /\ CanRemove(p)
    /\ Deleted(p)
    /\ UNCHANGED <<queuings, binding, convs, task, activation, turns, sess, work, bounds>>

FailedRow(p) == row' = IF row[p].status = "none" THEN row ELSE [row EXCEPT ![p].status = "failed"]

-----------------------------------------------------------------------------
(* dispatch_queue_for_impl *)

MayStart(d) ==
    At(d, "idle") /\ Cardinality({x \in Dispatcher : ~At(x, "idle")}) < setup.loops

(* A dispatcher is spawned by the poll, a send, a retry or a finalizer, with *)
(* the binding of that moment.                                               *)
Spawned(d) ==
    /\ MayStart(d) /\ binding # None
    /\ queue # <<>> /\ row[Head(queue)].status = "queued"
    /\ task' = [task EXCEPT ![d] = [Idle EXCEPT !.pc = "runtime", !.conv = binding]]
    /\ UNCHANGED <<store, binding, convs, activation, super, bounds>>

ReadRuntime(d) ==
    /\ At(d, "runtime")
    /\ IF Busy(task[d].conv) THEN Leave(d) ELSE Goto(d, "head")
    /\ UNCHANGED <<store, binding, convs, activation, super, bounds>>

ReadHead(d) ==
    /\ At(d, "head")
    /\ IF queue = <<>> \/ (queue # <<>> /\ row[Head(queue)].status # "queued")
       THEN Leave(d)
       ELSE task' = [task EXCEPT ![d].pc = "claim", ![d].prompt = Head(queue)]
    /\ UNCHANGED <<store, binding, convs, activation, super, bounds>>

(* Fault: the claim does not look at the status. *)
CanClaimFaultAny(p) == row[p].status # "none"

CanClaim(p) == row[p].status = "queued"

Claim(d) ==
    /\ At(d, "claim")
    /\ LET p == task[d].prompt IN
       IF CanClaim(p)
       THEN /\ row' = [row EXCEPT ![p].status = "sending", ![p].begun = FALSE]
            /\ Goto(d, IF p \in setup.compact THEN "drop" ELSE "route")
       ELSE Leave(d) /\ UNCHANGED row
    /\ UNCHANGED <<queue, queuings, binding, convs, activation, super, bounds>>

(* The classifier and the evaluation's bookkeeping before it may fail. *)
Route(d) ==
    /\ At(d, "route")
    /\ \/ NoFault /\ Goto(d, IF task[d].conv = binding THEN "recheck" ELSE "fail")
       \/ Fault("route") /\ Goto(d, "fail")
    /\ UNCHANGED <<store, binding, convs, activation, super, exposed, crashes>>

Recheck(d) ==
    /\ At(d, "recheck")
    /\ Goto(d, IF Busy(task[d].conv) THEN "fail" ELSE IF task[d].prompt \in setup.fresh THEN "discard" ELSE "begin")
    /\ UNCHANGED <<store, binding, convs, activation, super, bounds>>

DiscardForFresh(d) ==
    /\ At(d, "discard")
    /\ Discarded(task[d].conv)
    /\ Goto(d, "begin")
    /\ UNCHANGED <<store, binding, convs, activation, bounds>>

CanBegin(p) == row[p].status = "sending" /\ ~row[p].begun

Begin(d) ==
    /\ At(d, "begin")
    /\ LET p == task[d].prompt IN
       IF CanBegin(p)
       THEN /\ row' = [row EXCEPT ![p].begun = TRUE]
            /\ Goto(d, IF p \in setup.fresh THEN "spawn" ELSE "find")
       ELSE Leave(d) /\ UNCHANGED row
    /\ UNCHANGED <<queue, queuings, binding, convs, activation, super, bounds>>

FailRow(t) ==
    /\ At(t, "fail")
    /\ FailedRow(task[t].prompt)
    /\ Leave(t)
    /\ UNCHANGED <<queue, queuings, binding, convs, activation, super, bounds>>

-----------------------------------------------------------------------------
(* start_turn_with_policy, under the activation mutex, and start_new_turn *)

Released(t) == IF activation = t THEN None ELSE activation

(* The error of a start: the row fails, or the first send returns it. *)
StartFails(t) == IF t = Creator THEN Leave(t) ELSE Goto(t, "fail")

(* Fault: a stopped session is used again. *)
ReusableFaultStopped(k) == ~IsActive(k)

(* An idle session of the same model, endpoint and policy is used again. *)
Reusable(k) == sess[k].phase = "idle"

FindSession(t) ==
    /\ At(t, "find") /\ activation = None
    /\ LET found == Sessions(task[t].conv) IN
       IF \E k \in found : IsActive(k)
       THEN StartFails(t) /\ UNCHANGED activation
       ELSE /\ activation' = t
            /\ \/ found = {} /\ Goto(t, "spawn")
               \/ \E k \in found :
                     \/ Reusable(k) /\ task' = [task EXCEPT ![t].pc = "reuse", ![t].turn = k]
                     \/ Goto(t, "replace")
    /\ UNCHANGED <<store, binding, convs, super, bounds>>

ReplaceSession(t) ==
    /\ At(t, "replace")
    /\ Discarded(task[t].conv)
    /\ Goto(t, "spawn")
    /\ UNCHANGED <<store, binding, convs, activation, bounds>>

(* A session that resumes is registered with its conversation; a new one  *)
(* learns it from the process.                                             *)
Turn(t, host) ==
    [prompt |-> task[t].prompt, host |-> host, outcome |-> "none", final |-> "none",
     conv |-> IF activation = t THEN task[t].conv ELSE None, resumed |-> activation = t,
     first |-> t = Creator,
     init |-> "wait", exit |-> "wait", reader |-> "ok", grace |-> "none"]

SpawnSession(t) ==
    /\ At(t, "spawn")
    /\ \/ /\ Fault("spawn")
          /\ StartFails(t) /\ activation' = Released(t)
          /\ UNCHANGED super
       \/ /\ Len(turns) < MaxTurns /\ NoFault
          /\ LET k == Len(turns) + 1 IN
             /\ turns' = Append(turns, Turn(t, k))
             /\ sess' = [j \in DOMAIN sess \cup {k} |-> IF j = k THEN [phase |-> "idle", turn |-> 0] ELSE sess[j]]
             /\ work' = [j \in DOMAIN work \cup {k} |-> IF j = k THEN 0 ELSE work[j]]
             /\ task' = [task EXCEPT ![t].pc = "write", ![t].turn = k]
          /\ UNCHANGED activation
    /\ UNCHANGED <<store, binding, convs, exposed, crashes>>

(* write_prompt: the session takes the turn, then the line is written. *)
WritePrompt(t) ==
    /\ At(t, "write") \/ At(t, "reuse")
    /\ LET k == task[t].turn
           n == IF At(t, "write") THEN k ELSE Len(turns) + 1 IN
       IF k \notin DOMAIN sess \/ (k \in DOMAIN sess /\ IsActive(k))
       THEN StartFails(t) /\ activation' = Released(t) /\ UNCHANGED <<turns, sess>>
       ELSE /\ n <= MaxTurns
            /\ turns' = IF n = k THEN turns ELSE Append(turns, Turn(t, k))
            /\ sess' = [sess EXCEPT ![k] = [phase |-> "active", turn |-> n]]
            /\ task' = [task EXCEPT ![t].pc = "flush", ![t].turn = n]
            /\ UNCHANGED activation
    /\ UNCHANGED <<store, binding, convs, work, bounds>>

Started(t) == IF t = Creator THEN "bind" ELSE IF task[t].prompt \in setup.fresh THEN "rotate" ELSE "persist"

FlushPrompt(t) ==
    /\ At(t, "flush")
    /\ LET n == task[t].turn   k == turns[n].host IN
       IF k \notin DOMAIN work
       THEN Failed(k) /\ StartFails(t) /\ activation' = Released(t) /\ UNCHANGED work
       ELSE /\ work' = [work EXCEPT ![k] = n]
            /\ IF n = k THEN Goto(t, "init") /\ UNCHANGED activation
               ELSE Goto(t, Started(t)) /\ activation' = Released(t)
            /\ UNCHANGED <<turns, sess>>
    /\ UNCHANGED <<store, binding, convs, bounds>>

(* The process may always take more than AGY_INIT_TIMEOUT. *)
AwaitInit(t) ==
    /\ At(t, "init")
    /\ LET answer == turns[task[t].turn].init IN
       \/ answer = "ok" /\ Goto(t, Started(t)) /\ activation' = Released(t)
       \/ answer = "error" /\ StartFails(t) /\ activation' = Released(t)
       \/ answer = "wait" /\ "init" \in setup.kinds /\ Goto(t, "kill") /\ UNCHANGED activation
    /\ UNCHANGED <<store, binding, convs, super, bounds>>

KillAfterTimeout(t) ==
    /\ At(t, "kill")
    /\ Killed(task[t].turn)
    /\ StartFails(t) /\ activation' = Released(t)
    /\ UNCHANGED <<store, binding, convs, turns, sess, bounds>>

-----------------------------------------------------------------------------
(* After the start *)

(* The turn's conversation becomes the thread's.  If the write fails the    *)
(* turn is stopped and the row is left as it is.                            *)
Rotate(d) ==
    /\ At(d, "rotate")
    /\ \/ NoFault /\ binding' = turns[turns[task[d].turn].host].conv /\ Goto(d, "persist")
       \/ Fault("db") /\ Goto(d, "stopOnly") /\ UNCHANGED binding
    /\ UNCHANGED <<store, convs, activation, super, exposed, crashes>>

(* Fault: a retried row keeps the lease of its first process. *)
LeasedFaultFirst(p, k) == IF row[p].lease = 0 THEN k ELSE row[p].lease

Leased(p, k) == k

(* record_process_lease and the message, then the finalizer. *)
Persist(t) ==
    /\ At(t, "persist")
    /\ LET p == task[t].prompt   n == task[t].turn IN
       \/ /\ row[p].status # "none" /\ NoFault
          /\ row' = [row EXCEPT ![p].lease = Leased(p, turns[n].host)]
          /\ turns' = [turns EXCEPT ![n].final = "wait"]
          /\ Leave(t)
       \/ /\ IF row[p].status = "none" THEN NoFault ELSE Fault("db")
          /\ Goto(t, "stop")
          /\ UNCHANGED <<row, turns>>
    /\ UNCHANGED <<queue, queuings, binding, convs, activation, sess, work, exposed, crashes>>

(* stop_turn: the session is marked, its process interrupted, and a task   *)
(* kills the process if the turn is still there after a grace period.      *)
CanStop(n) == \E k \in DOMAIN sess : k = turns[n].host /\ sess[k].turn = n /\ turns[k].conv # None
Stopped(n) ==
    IF CanStop(n)
    THEN /\ sess' = [sess EXCEPT ![turns[n].host].phase = "stopping"]
         /\ turns' = [turns EXCEPT ![n].grace = "wait"]
    ELSE UNCHANGED <<sess, turns>>

StopOwn(t) ==
    /\ At(t, "stop") \/ At(t, "stopOnly")
    /\ Stopped(task[t].turn)
    /\ IF At(t, "stop") THEN Goto(t, "fail") ELSE Leave(t)
    /\ UNCHANGED <<store, binding, convs, activation, work, bounds>>

(* stop_agy_provider *)
Stop(n) ==
    /\ n \in DOMAIN turns /\ CanStop(n) /\ turns[n].grace = "none"
    /\ turns[turns[n].host].conv = binding
    /\ Stopped(n)
    /\ UNCHANGED <<store, binding, convs, task, activation, work, bounds>>

GraceLooks(n) ==
    /\ n \in DOMAIN turns /\ turns[n].grace = "wait"
    /\ LET k == turns[n].host IN
       turns' = [turns EXCEPT ![n].grace = IF k \in DOMAIN sess /\ IsActive(k) THEN "kill" ELSE "done"]
    /\ UNCHANGED <<store, binding, convs, task, activation, sess, work, bounds>>

GraceKills(n) ==
    /\ n \in DOMAIN turns /\ turns[n].grace = "kill"
    /\ Killed(turns[n].host)
    /\ turns' = [turns EXCEPT ![n].grace = "done"]
    /\ UNCHANGED <<store, binding, convs, task, activation, sess, bounds>>

-----------------------------------------------------------------------------
(* "/compact", as a prompt and as the command compact_agy_provider *)

CompactAsked(d) ==
    /\ MayStart(d) /\ binding # None /\ convs < setup.convs
    /\ ~Busy(binding)
    /\ task' = [task EXCEPT ![d] = [Idle EXCEPT !.pc = "drop", !.conv = binding]]
    /\ UNCHANGED <<store, binding, convs, activation, super, bounds>>

CompactDrops(d) ==
    /\ At(d, "drop")
    /\ Discarded(task[d].conv)
    /\ Goto(d, "compacted")
    /\ UNCHANGED <<store, binding, convs, activation, bounds>>

(* The new conversation, and with it the end of the prompt. *)
CompactRotates(d) ==
    /\ At(d, "compacted")
    /\ convs' = convs + 1
    /\ binding' = -(convs + 1)
    /\ LET p == task[d].prompt IN
       IF p # None /\ row[p].status = "sending" THEN Deleted(p) ELSE UNCHANGED <<queue, row>>
    /\ Leave(d)
    /\ UNCHANGED <<queuings, activation, super, bounds>>

-----------------------------------------------------------------------------
(* The first send, which creates the conversation *)

Create(p) ==
    /\ At(Creator, "idle") /\ p \in setup.prompts /\ binding = None /\ queuings[p] = 0
    /\ task' = [task EXCEPT ![Creator] = [Idle EXCEPT !.pc = "create", !.prompt = p]]
    /\ UNCHANGED <<store, binding, convs, activation, super, bounds>>

CreateRoutes ==
    /\ At(Creator, "create")
    /\ \/ NoFault /\ Goto(Creator, "spawn")
       \/ Fault("route") /\ Leave(Creator)
    /\ UNCHANGED <<store, binding, convs, activation, super, exposed, crashes>>

CreateBinds ==
    /\ At(Creator, "bind")
    /\ \/ NoFault /\ binding' = turns[task[Creator].turn].conv /\ Goto(Creator, "enqueue")
       \/ Fault("db") /\ Goto(Creator, "stopOnly") /\ UNCHANGED binding
    /\ UNCHANGED <<store, convs, activation, super, exposed, crashes>>

(* The row is made and claimed in one section. *)
CreateEnqueues ==
    /\ At(Creator, "enqueue")
    /\ LET p == task[Creator].prompt IN
       \/ /\ NoFault /\ Goto(Creator, "persist")
          /\ queue' = Append(queue, p)
          /\ row' = [row EXCEPT ![p].status = "sending"]
          /\ queuings' = [queuings EXCEPT ![p] = 1]
       \/ Fault("db") /\ Goto(Creator, "stopOnly") /\ UNCHANGED store
    /\ UNCHANGED <<binding, convs, activation, super, exposed, crashes>>

-----------------------------------------------------------------------------
(* The process, its reader and its waiter *)

(* The first line names the conversation. *)
Inits(k) ==
    /\ k \in DOMAIN work /\ k \in DOMAIN sess /\ turns[k].reader = "ok" /\ turns[k].init = "wait"
    /\ turns' = [turns EXCEPT ![k].init = "ok", ![k].conv = IF @ = None THEN k ELSE @]
    /\ UNCHANGED <<store, binding, convs, task, activation, sess, work, bounds>>

(* The result event; a turn that is being stopped counts as interrupted. *)
Ended(k, outcome) ==
    IF sess[k].phase = "stopping" THEN "interrupted" ELSE outcome

Resulted(k, outcome) ==
    /\ turns' = WithOutcome(turns, sess[k].turn, Ended(k, outcome))
    /\ sess' = [sess EXCEPT ![k] = [phase |-> IF sess[k].phase = "stopping" THEN "stopped" ELSE "idle", turn |-> 0]]

Results(k, outcome) ==
    /\ k \in DOMAIN work /\ work[k] # 0 /\ turns[k].init # "wait" /\ turns[k].reader = "ok"
    /\ IF k \in DOMAIN sess THEN Resulted(k, outcome) ELSE UNCHANGED <<turns, sess>>
    /\ work' = [work EXCEPT ![k] = 0]
    /\ UNCHANGED <<store, binding, convs, task, activation, bounds>>

(* A line that is no event fails the session, and its process is killed in *)
(* a later section; after a read error nobody reads the process any more.   *)
ReadFails(k, reader) ==
    /\ k \in DOMAIN work /\ turns[k].reader = "ok" /\ Fault("read")
    /\ k \in DOMAIN sess
    /\ LET ts == WithInit(WithOutcome(turns, sess[k].turn, "error"), k, "error") IN
       turns' = [ts EXCEPT ![k].reader = reader]
    /\ sess' = [sess EXCEPT ![k] = [phase |-> "idle", turn |-> 0]]
    /\ UNCHANGED <<store, binding, convs, task, activation, work, exposed, crashes>>

ReaderKills(k) ==
    /\ k \in DOMAIN turns /\ turns[k].reader = "kill"
    /\ Killed(k)
    /\ turns' = [turns EXCEPT ![k].reader = "gone"]
    /\ UNCHANGED <<store, binding, convs, task, activation, sess, bounds>>

(* An interrupted process may end; any other ends early by a fault. *)
ProcessEnds(k) ==
    /\ k \in DOMAIN work
    /\ IF k \in DOMAIN sess /\ sess[k].phase \in {"stopping", "stopped"} THEN NoFault ELSE Fault("exit")
    /\ work' = Sans(work, k)
    /\ UNCHANGED <<store, binding, convs, task, activation, turns, sess, exposed, crashes>>

(* handle_exit: it looks, ends the turn, and removes the session. *)
ExitLooks(k) ==
    /\ k \in DOMAIN turns /\ turns[k].host = k /\ turns[k].exit = "wait" /\ k \notin DOMAIN work
    /\ turns' = [turns EXCEPT ![k].exit =
          IF k \notin DOMAIN sess \/ ~(IsActive(k) \/ turns[k].init = "wait") THEN "remove"
          ELSE IF sess[k].phase = "stopping" /\ turns[k].conv # None THEN "interrupt" ELSE "fail"]
    /\ UNCHANGED <<store, binding, convs, task, activation, sess, work, bounds>>

ExitEnds(k) ==
    /\ k \in DOMAIN turns /\ turns[k].exit \in {"interrupt", "fail"}
    /\ LET n == IF k \in DOMAIN sess THEN sess[k].turn ELSE 0
           ts == WithOutcome(turns, n, IF turns[k].exit = "interrupt" THEN "interrupted" ELSE "error") IN
       turns' = [(IF turns[k].exit = "fail" THEN WithInit(ts, k, "error") ELSE ts) EXCEPT ![k].exit = "remove"]
    /\ sess' = IF k \notin DOMAIN sess THEN sess
               ELSE [sess EXCEPT ![k] =
                       [phase |-> IF turns[k].exit = "interrupt" /\ sess[k].phase = "stopping" THEN "stopped" ELSE "idle",
                        turn |-> 0]]
    /\ UNCHANGED <<store, binding, convs, task, activation, work, bounds>>

ExitRemoves(k) ==
    /\ k \in DOMAIN turns /\ turns[k].exit = "remove"
    /\ LET n == IF k \in DOMAIN sess THEN sess[k].turn ELSE 0 IN
       turns' = [WithInit(WithOutcome(turns, n, "error"), k, "error") EXCEPT ![k].exit = "done"]
    /\ sess' = Sans(sess, k)
    /\ UNCHANGED <<store, binding, convs, task, activation, work, bounds>>

-----------------------------------------------------------------------------
(* spawn_turn_finalizer *)

(* Fault: only a success ends the row. *)
FinalizedFaultSuccessOnly(outcome) == IF outcome = "success" THEN "complete" ELSE "nothing"

Finalized(outcome) == IF outcome \in {"success", "interrupted"} THEN "complete" ELSE "fail"

Finalize(n) ==
    /\ n \in DOMAIN turns /\ turns[n].final = "wait" /\ turns[n].outcome # "none"
    /\ turns' = [turns EXCEPT ![n].final = "done"]
    /\ LET p == turns[n].prompt IN
       CASE Finalized(turns[n].outcome) = "complete" ->
              IF row[p].status = "sending" THEN Deleted(p) ELSE UNCHANGED <<queue, row>>
         [] Finalized(turns[n].outcome) = "fail" -> FailedRow(p) /\ UNCHANGED queue
         [] OTHER -> UNCHANGED <<queue, row>>
    /\ UNCHANGED <<queuings, binding, convs, task, activation, sess, work, bounds>>

-----------------------------------------------------------------------------
(* A crash, and the next start *)

StatusAfterCrash == "failed"

(* The recorded process is stopped; without a record, one that was started *)
(* to resume the thread's conversation.                                    *)
Reaped(p) ==
    IF row[p].lease # 0 THEN {row[p].lease}
    ELSE LET legacy == {k \in DOMAIN work : turns[k].resumed /\ turns[k].conv = binding} IN
         IF legacy = {} THEN {} ELSE {CHOOSE k \in legacy : TRUE}

(* reconcile_stale_deliveries fails every row in delivery, also one whose   *)
(* process it could not check, did not recognise or failed to stop ("reap": *)
(* always so where the platform is not Unix).  An error of the database ends*)
(* it early and is printed; recover_stale_sending, which runs next, fails   *)
(* the rows that are left, if the database lets it.                         *)
Crash ==
    /\ crashes < setup.crashes /\ crashes' = crashes + 1
    /\ LET stale == {p \in Prompt : row[p].status = "sending"} IN
       \E ended, stopped \in SUBSET stale :
          /\ \/ NoFault /\ ended = stale /\ (stopped = stale \/ "reap" \in setup.kinds)
             \/ Fault("db")
          /\ row' = [p \in Prompt |-> IF p \in ended THEN [row[p] EXCEPT !.status = StatusAfterCrash] ELSE row[p]]
          /\ work' = [k \in DOMAIN work \ UNION {Reaped(p) : p \in stopped} |-> work[k]]
          /\ exposed' = exposed \cup (stale \ stopped) \cup
                {turns[work[k]].prompt : k \in {j \in DOMAIN work : work[j] # 0 /\ turns[work[j]].final # "wait"}}
    /\ task' = [t \in Task |-> Idle]
    /\ activation' = None
    /\ turns' = [n \in DOMAIN turns |->
          [turns[n] EXCEPT !.final = IF @ = "wait" THEN "lost" ELSE @, !.exit = "lost", !.reader = "gone", !.grace = "done",
                           !.init = IF @ = "wait" THEN "error" ELSE @]]
    /\ sess' = [k \in {} |-> 0]
    /\ UNCHANGED <<queue, queuings, binding, convs>>

-----------------------------------------------------------------------------
TaskStep(t) ==
    \/ SpawnSession(t) \/ WritePrompt(t) \/ FlushPrompt(t) \/ AwaitInit(t) \/ KillAfterTimeout(t)
    \/ Persist(t) \/ StopOwn(t) \/ FailRow(t)

DispatchStep(d) ==
    \/ ReadRuntime(d) \/ ReadHead(d) \/ Claim(d) \/ Route(d) \/ Recheck(d) \/ DiscardForFresh(d) \/ Begin(d)
    \/ FindSession(d) \/ ReplaceSession(d) \/ Rotate(d) \/ CompactDrops(d) \/ CompactRotates(d)

CreateStep == CreateRoutes \/ CreateBinds \/ CreateEnqueues

SessionStep(k) == ReaderKills(k) \/ ExitLooks(k) \/ ExitEnds(k) \/ ExitRemoves(k)
GraceStep(n) == GraceLooks(n) \/ GraceKills(n)
ProcessFails(k) == ReadFails(k, "kill") \/ ReadFails(k, "gone") \/ ProcessEnds(k)

Turns == 1..MaxTurns

Next ==
    \/ \E p \in Prompt : Send(p) \/ Retry(p) \/ RemoveRow(p) \/ Create(p)
    \/ \E d \in Dispatcher : Spawned(d) \/ CompactAsked(d) \/ DispatchStep(d)
    \/ \E t \in Task : TaskStep(t)
    \/ CreateStep
    \/ \E n \in Turns :
          \/ Stop(n) \/ GraceStep(n) \/ Finalize(n)
          \/ Inits(n) \/ Results(n, "success") \/ Results(n, "error") \/ ProcessFails(n) \/ SessionStep(n)
    \/ Crash

Spec == Init /\ [][Next]_vars

-----------------------------------------------------------------------------
(* Properties *)

(* The types; a session is of a process that was started, and a turn that a *)
(* session has is one of its process.                                       *)
AgyTypeOK ==
    /\ \A i, j \in DOMAIN queue : i # j => queue[i] # queue[j]
    /\ {queue[i] : i \in DOMAIN queue} = {p \in Prompt : row[p].status # "none"}
    /\ row \in [Prompt -> [status : Statuses, begun : BOOLEAN, lease : 0..MaxTurns]]
    /\ queuings \in [Prompt -> Nat]
    /\ binding = None \/ binding \in Int
    /\ \A t \in Task : task[t].pc \in Points /\ task[t].prompt \in Prompt \cup {None} /\ task[t].turn \in 0..MaxTurns
    /\ activation \in Task \cup {None}
    /\ \A k \in DOMAIN sess \cup DOMAIN work : k \in DOMAIN turns /\ turns[k].host = k
    /\ \A k \in DOMAIN sess :
          /\ sess[k].phase \in {"idle", "active", "stopping", "stopped"}
          /\ sess[k].turn # 0 => turns[sess[k].turn].host = k /\ turns[sess[k].turn].outcome = "none"
    /\ exposed \subseteq Prompt /\ setup \in Setups /\ faults \in Nat /\ crashes \in Nat

BeforeRow == {"idle", "runtime", "head", "claim"}
AfterBegin == {"find", "replace", "spawn", "write", "reuse", "flush", "init", "kill", "rotate", "persist"}

Held(p) ==
    \/ \E t \in Task : task[t].prompt = p /\ task[t].pc \notin BeforeRow
    \/ \E n \in DOMAIN turns : turns[n].prompt = p /\ turns[n].final = "wait"

(* A row in "sending" is in the hands of a task that will end it: it is never *)
(* left for the next start to find, however the start of its turn failed and  *)
(* however its process ended.  (Without faults of the database.)              *)
SendingIsHeld == "db" \notin setup.kinds => \A p \in Prompt : row[p].status = "sending" => Held(p)

(* While a dispatcher starts a turn, its row is there and is marked as begun: *)
(* nobody removed the prompt, and nobody else may deliver it.                 *)
BegunIsHeld == \A d \in Dispatcher :
    task[d].prompt # None /\ task[d].pc \in AfterBegin =>
       LET r == row[task[d].prompt] IN r.status = "sending" /\ r.begun

(* Every prompt is handed to a process once for each time it was queued: a    *)
(* crash replays nothing, and two dispatchers never take the same row.        *)
DeliveredOncePerQueuing == \A p \in Prompt :
    Cardinality({n \in DOMAIN turns : /\ turns[n].prompt = p
                                      /\ turns[n].first => turns[n].final # "none"})
       <= queuings[p]

(* Of the processes that are read, at most one works for the thread; one      *)
(* whose turn is being stopped may still be at it.  A process whose output    *)
(* could not be read is given up by its session, but only killed when a line  *)
(* of it was no event: it may work on while the next one starts.              *)
OneTurnAtWork ==
    Cardinality({k \in DOMAIN work : /\ work[k] # 0 /\ turns[k].exit # "lost" /\ turns[k].reader = "ok"
                                     /\ k \in DOMAIN sess => sess[k].phase # "stopping"}) <= 1

(* After a restart no process works on a prompt that can be sent again,       *)
(* unless the crash fell between the start of its turn and its lease, the     *)
(* turn had ended for the program before, or the restart did not stop it: the *)
(* platform, ps or the kill refused, or the database failed first.  A process *)
(* the restart could stop it did stop, whatever led to the crash.             *)
ReapedBeforeRetryable == \A k \in DOMAIN work :
    work[k] # 0 /\ turns[k].exit = "lost" =>
       LET n == work[k]  p == turns[n].prompt IN
       p \in exposed \/ turns[n].outcome # "none" \/ row[p].status = "none"

(* The kill after a stop's grace period hits the stopped turn, never a later  *)
(* one of the same session, as long as the session is read.                   *)
GraceKillsOwn == \A n \in DOMAIN turns :
    LET k == turns[n].host IN
    turns[n].grace = "kill" /\ k \in DOMAIN sess \cap DOMAIN work /\ IsActive(k) /\ turns[k].reader = "ok" => sess[k].turn = n

(* The rows in delivery: each is in one pair of hands, which end it, and none *)
(* can be sent again while a lost process that a restart could stop works on. *)
DeliveriesAreHeld ==
    AgyTypeOK /\ SendingIsHeld /\ BegunIsHeld /\ ReapedBeforeRetryable

(* The processes: one turn at a time, and a kill only hits its own turn.    *)
TurnsAreSeparate == OneTurnAtWork /\ GraceKillsOwn

=============================================================================
