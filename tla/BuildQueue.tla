----------------------------- MODULE BuildQueue -----------------------------
(***************************************************************************)
(* Per-target build admission queue: src-tauri/src/build_queue.rs.         *)
(*                                                                         *)
(* Every target (a BuildKey, in practice a thread id) owns one KeyQueue:   *)
(* at most one running build, at most one interactive request that has not *)
(* started (a newer one replaces it) and a FIFO of controller requests.    *)
(* The methods of BuildQueue take &mut self and are called under one       *)
(* mutex, so each of them is one atomic step here.                         *)
(*                                                                         *)
(* The payload of a request (source_version_id, input) is carried but      *)
(* never read by the queue and is left out.  Request ids are fresh: the    *)
(* frontend mints a UUID per run, so a request is submitted once.          *)
(***************************************************************************)
EXTENDS Naturals, Sequences, SequencesExt

CONSTANTS
    Key,        \* build targets
    Request,    \* request ids
    KeyOf,      \* the target a request is submitted for
    KindOf,     \* "interactive" or "controller"
    None        \* Rust's Option::None

Kinds == {"interactive", "controller"}

ASSUME BuildQueueAssumption ==
    /\ KeyOf \in [Request -> Key]
    /\ KindOf \in [Request -> Kinds]
    /\ None \notin Request

VARIABLES
    queue,          \* by_key: the KeyQueue of every target
    sequence,       \* the sequence stamped on a request, 0 before submission
    nextSequence    \* next_sequence (a u64; 2^64 submissions are out of reach)

queueVars == <<queue, sequence, nextSequence>>

-----------------------------------------------------------------------------
(* One target's queue *)

EmptyQueue == [running |-> None, interactive |-> None, controllers |-> <<>>]

Interactive(r) == KindOf[r] = "interactive"
Controller(r) == KindOf[r] = "controller"

(* Requests that wait in q for their turn. *)
Waiting(q) == Range(q.controllers) \cup ({q.interactive} \ {None})

(* Definitions whose name holds "Fault" are seeded bugs: each replaces the  *)
(* definition that follows it to show that a property notices.              *)

(* Fault: the first interactive request keeps the slot. *)
EnqueuedFaultFirstWins(q, r) ==
    IF Controller(r)
      THEN [q EXCEPT !.controllers = Append(@, r)]
      ELSE [q EXCEPT !.interactive = IF @ = None THEN r ELSE @]

(* submit: a controller joins the FIFO, an interactive takes the slot. *)
Enqueued(q, r) ==
    IF Controller(r)
      THEN [q EXCEPT !.controllers = Append(@, r)]
      ELSE [q EXCEPT !.interactive = r]

(* The request submit returns as superseded, or None. *)
Superseded(q, r) == IF Interactive(r) THEN q.interactive ELSE None

(* Fault: the interactive slot is cloned into running, not taken. *)
GrantedFaultClone(q) ==
    IF q.controllers # <<>>
      THEN [q EXCEPT !.running = Head(q.controllers), !.controllers = Tail(@)]
      ELSE [q EXCEPT !.running = q.interactive]

(* Fault: interactive work overtakes waiting controllers. *)
GrantedFaultInteractiveFirst(q) ==
    IF q.interactive = None /\ q.controllers # <<>>
      THEN [q EXCEPT !.running = Head(q.controllers), !.controllers = Tail(@)]
      ELSE [q EXCEPT !.running = q.interactive, !.interactive = None]

(* The grant shared by start_next and finish: the oldest controller, else  *)
(* the interactive request, else nobody.                                   *)
Granted(q) ==
    IF q.controllers # <<>>
      THEN [q EXCEPT !.running = Head(q.controllers), !.controllers = Tail(@)]
      ELSE [q EXCEPT !.running = q.interactive, !.interactive = None]

(* start_next: refuses a target that is already building. *)
Started(q) == IF q.running = None THEN Granted(q) ELSE q

(* finish: only the running request may finish; the next one is granted in *)
(* the same step.                                                          *)
Finished(q, r) == IF q.running = r THEN Granted(q) ELSE q

(* Position of a waiting controller in the FIFO. *)
PositionOf(q, r) == CHOOSE i \in 1 .. Len(q.controllers) : q.controllers[i] = r

(* Fault: cancellation releases running work that is still in flight. *)
WithoutPendingFaultRunning(q, r) ==
    IF q.running = r THEN [q EXCEPT !.running = None] ELSE q

(* remove_pending: drops work that has not started; running work stays. *)
WithoutPending(q, r) ==
    IF q.interactive = r
      THEN [q EXCEPT !.interactive = None]
      ELSE IF r \in Range(q.controllers)
        THEN [q EXCEPT !.controllers = RemoveAt(@, PositionOf(q, r))]
        ELSE q

(* publication_allowed: the running request, unless newer interactive      *)
(* input waits for the same target.                                        *)
PublicationAllowed(r) ==
    LET q == queue[KeyOf[r]]
    IN  /\ q.running = r
        /\ q.interactive # None => sequence[q.interactive] <= sequence[r]

-----------------------------------------------------------------------------
(* The queue as a state machine: any client, any order of calls *)

QueueInit ==
    /\ queue = [k \in Key |-> EmptyQueue]
    /\ sequence = [r \in Request |-> 0]
    /\ nextSequence = 0

Unsubmitted(r) == sequence[r] = 0

(* The stamp every submission takes. *)
Stamp(r) ==
    /\ Unsubmitted(r)
    /\ nextSequence' = nextSequence + 1
    /\ sequence' = [sequence EXCEPT ![r] = nextSequence + 1]

Submit(r) ==
    /\ Stamp(r)
    /\ queue' = [queue EXCEPT ![KeyOf[r]] = Enqueued(@, r)]

StartNext(k) ==
    /\ queue' = [queue EXCEPT ![k] = Started(@)]
    /\ UNCHANGED <<sequence, nextSequence>>

Finish(r) ==
    /\ queue' = [queue EXCEPT ![KeyOf[r]] = Finished(@, r)]
    /\ UNCHANGED <<sequence, nextSequence>>

RemovePending(r) ==
    /\ queue' = [queue EXCEPT ![KeyOf[r]] = WithoutPending(@, r)]
    /\ UNCHANGED <<sequence, nextSequence>>

QueueNext ==
    \/ \E r \in Request : Submit(r) \/ Finish(r) \/ RemovePending(r)
    \/ \E k \in Key : StartNext(k)

QueueSpec == QueueInit /\ [][QueueNext]_queueVars

-----------------------------------------------------------------------------
(* Properties *)

KeyQueue == [running : Request \cup {None},
             interactive : Request \cup {None},
             controllers : Seq(Request)]

TypeOK ==
    /\ queue \in [Key -> KeyQueue]
    /\ sequence \in [Request -> Nat]
    /\ nextSequence \in Nat

(* Every place of a target's queue holds requests of that target and of    *)
(* the right kind, submitted before, and no request sits in two places:    *)
(* moving work between the slots neither loses an owner nor runs a build   *)
(* twice.                                                                  *)
PlacedIn(k, q, stamp) ==
    /\ q.running # None => KeyOf[q.running] = k /\ stamp[q.running] > 0
    /\ q.interactive # None =>
          /\ KeyOf[q.interactive] = k
          /\ Interactive(q.interactive)
          /\ stamp[q.interactive] > 0
          /\ q.interactive # q.running
    /\ \A i \in 1 .. Len(q.controllers) :
          /\ KeyOf[q.controllers[i]] = k
          /\ Controller(q.controllers[i])
          /\ stamp[q.controllers[i]] > 0
          /\ q.controllers[i] # q.running

PlacedOnce == \A k \in Key : PlacedIn(k, queue[k], sequence)

(* The controller FIFO is in submission order after any mix of grants and  *)
(* cancellations from its middle.                                          *)
InOrder(q, stamp) ==
    \A i, j \in 1 .. Len(q.controllers) :
      i < j => stamp[q.controllers[i]] < stamp[q.controllers[j]]

ControllersInOrder == \A k \in Key : InOrder(queue[k], sequence)

(* Latest wins: an interactive request that waits is the newest interactive *)
(* request ever submitted for its target, even when controllers overtook it *)
(* and other interactive work was cancelled meanwhile.                      *)
NewestIn(k, q, stamp) ==
    q.interactive # None =>
      \A r \in Request :
        KeyOf[r] = k /\ Interactive(r) => stamp[r] <= stamp[q.interactive]

LatestInteractiveWaits == \A k \in Key : NewestIn(k, queue[k], sequence)

(* A stamp is never handed out twice and never exceeds the counter.        *)
StampsDistinct ==
    /\ \A r \in Request : sequence[r] <= nextSequence
    /\ \A r, s \in Request :
         r # s /\ sequence[r] > 0 => sequence[r] # sequence[s]

(* Controller work is granted first in, first out: when a controller starts *)
(* no controller submitted earlier for its target is still waiting, and an  *)
(* interactive request starts only when no controller waits.                *)
GrantOrder ==
    [][\A k \in Key :
         LET r == queue'[k].running
         IN  r # queue[k].running /\ r # None =>
               /\ \A s \in Range(queue[k].controllers) \ {r} :
                    Controller(r) /\ sequence[r] < sequence[s]
               /\ r \in Waiting(queue[k])]_queueVars

-----------------------------------------------------------------------------
(* Refinement: the containers implement the promise of BuildTurns. *)

StatusOf(r) ==
    IF Unsubmitted(r) THEN "new"
    ELSE IF queue[KeyOf[r]].running = r THEN "running"
    ELSE IF r \in Waiting(queue[KeyOf[r]]) THEN "waiting"
    ELSE "gone"

Turns == INSTANCE BuildTurns WITH
    status <- [r \in Request |-> StatusOf(r)],
    ticket <- sequence,
    lastTicket <- nextSequence

(* One build per target, latest-wins interactive and FIFO controller work,  *)
(* with the hand-over atomic, as build_queue.rs promises its callers.       *)
ImplementsTurns == Turns!Spec

=============================================================================
