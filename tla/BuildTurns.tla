----------------------------- MODULE BuildTurns -----------------------------
(***************************************************************************)
(* What the build queue promises its callers, without its containers: the  *)
(* module comment of src-tauri/src/build_queue.rs ("A target owns at most   *)
(* one running build. Interactive work is latest-wins while it has not      *)
(* started; explicit controller work remains FIFO") as a state machine over *)
(* the status of each request.  BuildQueue implements it.                   *)
(***************************************************************************)
EXTENDS Naturals

CONSTANTS Key, Request, KeyOf, KindOf

VARIABLES
    status,     \* "new", "waiting", "running" or "gone" per request
    ticket,     \* submission order of a request, 0 while new
    lastTicket

vars == <<status, ticket, lastTicket>>

Statuses == {"new", "waiting", "running", "gone"}

Peers(r) == {s \in Request : KeyOf[s] = KeyOf[r]}

Idle(k) == \A r \in Request : KeyOf[r] = k => status[r] # "running"

(* r is next: the oldest waiting controller of its target, or an           *)
(* interactive request while no controller of its target waits.            *)
Turn(r) ==
    /\ status[r] = "waiting"
    /\ \A s \in Peers(r) \ {r} :
         status[s] = "waiting" /\ KindOf[s] = "controller" =>
            KindOf[r] = "controller" /\ ticket[r] < ticket[s]

Init ==
    /\ status = [r \in Request |-> "new"]
    /\ ticket = [r \in Request |-> 0]
    /\ lastTicket = 0

(* A new request waits; a newer interactive one drops the older. *)
Arrive(r) ==
    /\ status[r] = "new"
    /\ lastTicket' = lastTicket + 1
    /\ ticket' = [ticket EXCEPT ![r] = lastTicket']
    /\ status' = [s \in Request |->
         IF s = r THEN "waiting"
         ELSE IF /\ status[s] = "waiting"
                 /\ s \in Peers(r)
                 /\ KindOf[r] = "interactive" /\ KindOf[s] = "interactive"
           THEN "gone" ELSE status[s]]

Start(r) ==
    /\ Idle(KeyOf[r])
    /\ Turn(r)
    /\ status' = [status EXCEPT ![r] = "running"]
    /\ UNCHANGED <<ticket, lastTicket>>

(* The running request leaves and hands its target over in the same step.  *)
Leave(r) ==
    /\ status[r] = "running"
    /\ \/ /\ \A s \in Peers(r) : status[s] # "waiting"
          /\ status' = [status EXCEPT ![r] = "gone"]
       \/ \E s \in Peers(r) :
            /\ Turn(s)
            /\ status' = [status EXCEPT ![r] = "gone", ![s] = "running"]
    /\ UNCHANGED <<ticket, lastTicket>>

Withdraw(r) ==
    /\ status[r] = "waiting"
    /\ status' = [status EXCEPT ![r] = "gone"]
    /\ UNCHANGED <<ticket, lastTicket>>

Next == \E r \in Request : Arrive(r) \/ Start(r) \/ Leave(r) \/ Withdraw(r)

Spec == Init /\ [][Next]_vars

=============================================================================
