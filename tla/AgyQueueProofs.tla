--------------------------- MODULE AgyQueueProofs ---------------------------
(***************************************************************************)
(* What AgyQueue promises for every set of prompts and dispatchers, every  *)
(* setup and any number of turns, faults and crashes.  The inductive       *)
(* invariant AgyInv says who has a prompt in hand: at most one task, or    *)
(* the finalizer of at most one turn, never both (Sole), and nobody while  *)
(* its row can be sent (Free).  A turn counts once its task has passed it  *)
(* on; while a task or a row still promises another turn (Due) the count   *)
(* is below the number of times the prompt was queued.  The rest ties      *)
(* tasks to turns, turns to processes and rows to leases.                  *)
(*                                                                         *)
(* SepInv, inductive with AgyInv, says who may start a turn: a process is  *)
(* at work (Busily) only while its turn is the first of the thread and     *)
(* nobody has got past its look at the runtime (FirstOK), or while the row *)
(* of its prompt is the head of the queue and its turn is in one pair of   *)
(* hands (QueuedOK).                                                       *)
(***************************************************************************)
EXTENDS AgyQueue, SequenceTheorems, FiniteSetTheorems, TLAPS

SessType == [phase : {"idle", "active", "stopping", "stopped"}, turn : 0 .. MaxTurns]
TurnType ==
    [prompt : Prompt, host : 1 .. MaxTurns,
     outcome : {"none", "success", "error", "interrupted"},
     final : {"none", "wait", "done", "lost"}, conv : Int \cup {None},
     resumed : BOOLEAN, first : BOOLEAN, init : {"wait", "ok", "error"},
     exit : {"wait", "remove", "interrupt", "fail", "done", "lost"},
     reader : {"ok", "kill", "gone"}, grace : {"none", "wait", "kill", "done"}]
TaskType == [pc : Points, prompt : Prompt \cup {None}, conv : Int \cup {None}, turn : 0 .. MaxTurns]
RowType == [status : Statuses, begun : BOOLEAN, lease : 0 .. MaxTurns]

PlainOK ==
    /\ row \in [Prompt -> RowType]
    /\ queuings \in [Prompt -> Nat]
    /\ binding \in Int \cup {None} /\ convs \in Nat
    /\ task \in [Task -> TaskType]
    /\ activation \in Task \cup {None}
    /\ exposed \subseteq Prompt /\ setup \in Setups /\ faults \in Nat /\ crashes \in Nat

QueueOK(q, r) ==
    /\ q \in Seq(Prompt)
    /\ \A i, j \in 1 .. Len(q) : i # j => q[i] # q[j]
    /\ \A p \in Prompt : r[p].status # "none" <=> \E i \in 1 .. Len(q) : q[i] = p

SuperOK ==
    /\ turns \in Seq(TurnType) /\ Len(turns) <= MaxTurns
    /\ sess \in [DOMAIN sess -> SessType] /\ work \in [DOMAIN work -> 0 .. MaxTurns]
    /\ \A n \in 1 .. Len(turns) :
          turns[n].host \in 1 .. Len(turns) /\ turns[turns[n].host].host = turns[n].host
    /\ \A k \in DOMAIN sess :
          /\ k \in 1 .. Len(turns) /\ turns[k].host = k /\ turns[k].exit # "lost"
          /\ sess[k].turn # 0 =>
                /\ sess[k].turn \in 1 .. Len(turns)
                /\ turns[sess[k].turn].host = k /\ turns[sess[k].turn].outcome = "none"
    /\ \A k \in DOMAIN work :
          /\ k \in 1 .. Len(turns) /\ turns[k].host = k
          /\ work[k] # 0 => work[k] \in 1 .. Len(turns) /\ turns[work[k]].host = k

HasTurn == {"write", "flush", "init", "kill", "rotate", "bind", "enqueue", "persist", "stop", "stopOnly"}
TurnOK(t) ==
    /\ task[t].pc \in HasTurn =>
          LET n == task[t].turn IN
          /\ n \in 1 .. Len(turns)
          /\ turns[n].prompt = task[t].prompt /\ turns[n].first = (t = Creator)
          /\ turns[n].final = "none" /\ turns[turns[n].host].exit # "lost"
    /\ task[t].pc = "write" =>
          LET n == task[t].turn IN
          /\ turns[n].host = n /\ turns[n].outcome = "none"
          /\ \A k \in DOMAIN sess : sess[k].turn # n
    /\ task[t].pc = "reuse" =>
          LET k == task[t].turn IN
          k \in 1 .. Len(turns) /\ turns[k].host = k /\ turns[k].exit # "lost"

CreatorOnly == {"create", "bind", "enqueue"}
CreatorPoints == CreatorOnly \cup {"idle", "spawn", "write", "flush", "init", "kill", "persist", "stop", "stopOnly", "fail"}
Unmade == {"create", "spawn", "write", "flush", "init", "kill", "bind", "enqueue"}
Prompted == Points \ {"idle", "runtime", "head", "drop", "compacted"}
Unbegun == {"drop", "compacted", "route", "recheck", "discard", "begin"}
Unturned == Unbegun \cup {"find", "replace", "spawn", "reuse"}
Holds(t, p) == task[t].pc \notin BeforeRow /\ task[t].prompt = p
Awaited(n, p) == n \in 1 .. Len(turns) /\ turns[n].prompt = p /\ turns[n].final = "wait"

PlaceOK(t) ==
    /\ task[t].pc \in Prompted => task[t].prompt \in Prompt
    /\ t = Creator => task[t].pc \in CreatorPoints
    /\ t # Creator => task[t].pc \notin CreatorOnly
    /\ t = Creator /\ task[t].pc \in Unmade => queuings[task[t].prompt] = 0
    /\ task[t].pc = "stopOnly" => "db" \in setup.kinds
    /\ \A p \in Prompt : Holds(t, p) /\ t # Creator =>
          /\ queuings[p] > 0
          /\ task[t].pc \in Unbegun => row[p].status # "sending" \/ ~row[p].begun
          /\ task[t].pc \in AfterBegin => row[p].status = "sending" /\ row[p].begun

Sole(p) ==
    /\ \A t, u \in Task : Holds(t, p) /\ Holds(u, p) => t = u
    /\ \A n, m \in 1 .. Len(turns) : Awaited(n, p) /\ Awaited(m, p) => n = m
    /\ \A t \in Task, n \in 1 .. Len(turns) : ~(Holds(t, p) /\ Awaited(n, p))

Free(p) == (\A t \in Task : ~Holds(t, p)) /\ (\A n \in 1 .. Len(turns) : ~Awaited(n, p))

Counted(p) == {n \in 1 .. Len(turns) : turns[n].prompt = p /\ (turns[n].first => turns[n].final # "none")}
Ahead(t) == task[t].pc \in (IF t = Creator THEN {"persist"} ELSE Unturned)
Due(p) ==
    \/ row[p].status = "queued"
    \/ \E t \in Task : Holds(t, p) /\ Ahead(t)

PromptOK(p) ==
    /\ Sole(p)
    /\ row[p].status \in {"queued", "failed"} => Free(p)
    /\ row[p].status # "none" => queuings[p] > 0
    /\ \A n \in 1 .. Len(turns) : turns[n].prompt = p /\ turns[n].final # "none" => queuings[p] > 0
    /\ \A n \in 1 .. Len(turns) : Awaited(n, p) /\ row[p].status # "none" => row[p].lease = turns[n].host
    /\ Cardinality(Counted(p)) <= queuings[p]
    /\ Due(p) => Cardinality(Counted(p)) < queuings[p]
    /\ "db" \notin setup.kinds /\ row[p].status = "sending" =>
          (\E t \in Task : Holds(t, p)) \/ \E n \in 1 .. Len(turns) : Awaited(n, p)

Gone(p) == row[p].status = "none" /\ queuings[p] > 0
LostTurnOK(k) == work[k] # 0 /\ turns[k].exit = "lost" =>
    \/ turns[work[k]].prompt \in exposed
    \/ turns[work[k]].outcome # "none"
    \/ Gone(turns[work[k]].prompt)

LostOK == \A k \in DOMAIN work : LostTurnOK(k)

AgyInv ==
    /\ PlainOK /\ QueueOK(queue, row) /\ SuperOK
    /\ \A t \in Task : TurnOK(t) /\ PlaceOK(t)
    /\ \A p \in Prompt : PromptOK(p)
    /\ LostOK

-----------------------------------------------------------------------------
(* us is ts with later news of the same turns. *)
Lasting(ts, us) ==
    /\ us \in Seq(TurnType) /\ Len(us) = Len(ts)
    /\ \A n \in 1 .. Len(ts) :
          /\ us[n].prompt = ts[n].prompt /\ us[n].host = ts[n].host /\ us[n].first = ts[n].first
          /\ us[n].final = ts[n].final
          /\ us[n].exit = "lost" <=> ts[n].exit = "lost"
          /\ ts[n].outcome # "none" => us[n].outcome = ts[n].outcome

Supervises ==
    /\ Lasting(turns, turns')
    /\ sess' \in [DOMAIN sess' -> SessType] /\ DOMAIN sess' \subseteq DOMAIN sess
    /\ \A k \in DOMAIN sess' : sess'[k].turn \in {0, sess[k].turn}
    /\ \A n \in 1 .. Len(turns) : turns'[n].outcome # turns[n].outcome =>
          \E k \in DOMAIN sess : sess[k].turn = n /\ (k \notin DOMAIN sess' \/ sess'[k].turn = 0)
    /\ work' \in [DOMAIN work' -> 0 .. MaxTurns] /\ DOMAIN work' \subseteq DOMAIN work
    /\ \A k \in DOMAIN work' : work'[k] \in {0, work[k]}

(* The records of the supervisor stay well formed under its own steps. *)
LEMMA SupervisesKeeps ==
    ASSUME SuperOK, Supervises
    PROVE  /\ SuperOK'
           /\ \A t \in Task : TurnOK(t) /\ task'[t] = task[t] => TurnOK(t)'
<1>1. turns' \in Seq(TurnType) /\ Len(turns') = Len(turns) /\ Len(turns') <= MaxTurns
  BY DEF SuperOK, Supervises, Lasting
<1>2. \A n \in 1 .. Len(turns') : turns'[n].host \in 1 .. Len(turns') /\ turns'[turns'[n].host].host = turns'[n].host
  <2>1. \A n \in 1 .. Len(turns) : turns[n].host \in 1 .. Len(turns) /\ turns[turns[n].host].host = turns[n].host
    BY DEF SuperOK
  <2>2. \A n \in 1 .. Len(turns) : turns'[n].host = turns[n].host
    BY DEF Supervises, Lasting
  <2> QED BY <1>1, <2>1, <2>2
<1>3. ASSUME NEW k \in DOMAIN sess'
      PROVE  /\ k \in 1 .. Len(turns') /\ turns'[k].host = k /\ turns'[k].exit # "lost"
             /\ sess'[k].turn # 0 =>
                   /\ sess'[k].turn \in 1 .. Len(turns')
                   /\ turns'[sess'[k].turn].host = k /\ turns'[sess'[k].turn].outcome = "none"
  <2>1. k \in DOMAIN sess /\ k \in 1 .. Len(turns) /\ turns[k].host = k /\ turns[k].exit # "lost"
    BY <1>3 DEF SuperOK, Supervises
  <2>2. ASSUME sess'[k].turn # 0
        PROVE  /\ sess'[k].turn \in 1 .. Len(turns')
               /\ turns'[sess'[k].turn].host = k /\ turns'[sess'[k].turn].outcome = "none"
    <3> DEFINE n == sess[k].turn
    <3>1. sess'[k].turn = n /\ n # 0
      BY <1>3, <2>2 DEF Supervises
    <3>2. n \in 1 .. Len(turns) /\ turns[n].host = k /\ turns[n].outcome = "none"
      BY <2>1, <3>1 DEF SuperOK
    <3>3. turns'[n].outcome = turns[n].outcome
      <4>1. SUFFICES ASSUME turns'[n].outcome # turns[n].outcome PROVE FALSE
        OBVIOUS
      <4>2. PICK j \in DOMAIN sess : sess[j].turn = n /\ (j \notin DOMAIN sess' \/ sess'[j].turn = 0)
        BY <3>2, <4>1 DEF Supervises
      <4>3. j = k
        BY <3>1, <3>2, <4>2 DEF SuperOK
      <4> QED BY <1>3, <2>2, <4>2, <4>3
    <3> QED BY <1>1, <3>1, <3>2, <3>3 DEF Supervises, Lasting
  <2> QED BY <1>1, <2>1, <2>2 DEF Supervises, Lasting
<1>4. ASSUME NEW k \in DOMAIN work'
      PROVE  /\ k \in 1 .. Len(turns') /\ turns'[k].host = k
             /\ work'[k] # 0 => work'[k] \in 1 .. Len(turns') /\ turns'[work'[k]].host = k
  <2>1. k \in DOMAIN work /\ work'[k] \in {0, work[k]}
    BY <1>4 DEF Supervises
  <2> QED BY <1>1, <2>1 DEF SuperOK, Supervises, Lasting
<1>5. SuperOK'
  BY <1>1, <1>2, <1>3, <1>4 DEF SuperOK, Supervises
<1>6. ASSUME NEW t \in Task, TurnOK(t), task'[t] = task[t] PROVE TurnOK(t)'
  <2> DEFINE n == task[t].turn
  <2>1. ASSUME task[t].pc \in HasTurn
        PROVE  /\ n \in 1 .. Len(turns')
               /\ turns'[n].prompt = task[t].prompt /\ turns'[n].first = (t = Creator)
               /\ turns'[n].final = "none" /\ turns'[turns'[n].host].exit # "lost"
    BY <1>6, <2>1 DEF TurnOK, Supervises, Lasting, SuperOK
  <2>2. ASSUME task[t].pc = "write"
        PROVE  /\ turns'[n].host = n /\ turns'[n].outcome = "none"
               /\ \A k \in DOMAIN sess' : sess'[k].turn # n
    <3>1. /\ n \in 1 .. Len(turns) /\ turns[n].host = n /\ turns[n].outcome = "none"
          /\ \A k \in DOMAIN sess : sess[k].turn # n
      BY <1>6, <2>2 DEF TurnOK, HasTurn
    <3>2. \A k \in DOMAIN sess' : sess'[k].turn # n
      BY <3>1 DEF Supervises
    <3> QED BY <3>1, <3>2 DEF Supervises, Lasting
  <2>3. ASSUME task[t].pc = "reuse"
        PROVE  n \in 1 .. Len(turns') /\ turns'[n].host = n /\ turns'[n].exit # "lost"
    BY <1>6, <2>3 DEF TurnOK, Supervises, Lasting
  <2> QED BY <1>6, <2>1, <2>2, <2>3 DEF TurnOK
<1> QED BY <1>5, <1>6

(* Rows that are gone stay gone. *)
RowsGone ==
    /\ exposed \subseteq exposed'
    /\ \A p \in Prompt : Gone(p) => Gone(p)'

(* A lost process stays harmless while rows that are gone stay gone. *)
LEMMA LostStays ==
    ASSUME SuperOK, LostOK, RowsGone, Supervises
    PROVE  LostOK'
<1>1. ASSUME NEW k \in DOMAIN work', work'[k] # 0, turns'[k].exit = "lost"
      PROVE  LostTurnOK(k)'
  <2>1. k \in DOMAIN work /\ work'[k] = work[k] /\ work[k] # 0
    BY <1>1 DEF Supervises
  <2>2. k \in 1 .. Len(turns) /\ work[k] \in 1 .. Len(turns)
    BY <2>1 DEF SuperOK
  <2>3. turns[k].exit = "lost" /\ turns'[work[k]].prompt = turns[work[k]].prompt
        /\ (turns[work[k]].outcome # "none" => turns'[work[k]].outcome # "none")
    BY <1>1, <2>2 DEF Supervises, Lasting
  <2>4. turns[work[k]] \in TurnType
    BY <2>2, ElementOfSeq DEF SuperOK
  <2>5. turns[work[k]].prompt \in Prompt
    BY <2>4 DEF TurnType
  <2> QED BY <2>1, <2>3, <2>5 DEF LostOK, LostTurnOK, RowsGone, Gone
<1>2. \A k \in DOMAIN work' : LostTurnOK(k)'
  BY <1>1 DEF LostTurnOK
<1> QED BY <1>2 DEF LostOK

-----------------------------------------------------------------------------
(* Giving a turn its outcome keeps every record, and says what it was. *)
LEMMA OutcomeGiven ==
    ASSUME NEW ts \in Seq(TurnType), NEW n \in 0 .. Len(ts),
           NEW outcome \in {"success", "error", "interrupted"}
    PROVE  LET us == WithOutcome(ts, n, outcome) IN
           /\ Lasting(ts, us)
           /\ \A m \in 1 .. Len(ts) : m # n => us[m] = ts[m]
<1>1. CASE n # 0 /\ ts[n].outcome = "none"
  <2>1. n \in 1 .. Len(ts) /\ ts[n] \in TurnType
    BY <1>1, ElementOfSeq, LenProperties
  <2>2. [ts[n] EXCEPT !.outcome = outcome] \in TurnType
    BY <2>1 DEF TurnType
  <2>3. WithOutcome(ts, n, outcome) = [ts EXCEPT ![n] = [ts[n] EXCEPT !.outcome = outcome]]
    BY <1>1 DEF WithOutcome
  <2> QED BY <2>1, <2>2, <2>3, <1>1, ExceptSeq DEF Lasting, TurnType
<1>2. CASE ~(n # 0 /\ ts[n].outcome = "none")
  BY <1>2 DEF WithOutcome, Lasting
<1> QED BY <1>1, <1>2

(* Answering the first line of a turn keeps every record. *)
LEMMA InitGiven ==
    ASSUME NEW ts \in Seq(TurnType), NEW k \in 1 .. Len(ts), NEW answer \in {"ok", "error"}
    PROVE  LET us == WithInit(ts, k, answer) IN
           /\ Lasting(ts, us)
           /\ \A m \in 1 .. Len(ts) : us[m].outcome = ts[m].outcome
<1>1. CASE ts[k].init = "wait"
  <2>1. ts[k] \in TurnType
    BY ElementOfSeq
  <2>2. [ts[k] EXCEPT !.init = answer] \in TurnType
    BY <2>1 DEF TurnType
  <2>3. WithInit(ts, k, answer) = [ts EXCEPT ![k] = [ts[k] EXCEPT !.init = answer]]
    BY <1>1 DEF WithInit
  <2> QED BY <2>1, <2>2, <2>3, ExceptSeq DEF Lasting, TurnType
<1>2. CASE ts[k].init # "wait"
  BY <1>2 DEF WithInit, Lasting
<1> QED BY <1>1, <1>2

(* One field of one turn. *)
LEMMA LastingChange ==
    ASSUME NEW ts \in Seq(TurnType), NEW k \in 1 .. Len(ts), NEW new \in TurnType,
           /\ new.prompt = ts[k].prompt /\ new.host = ts[k].host /\ new.first = ts[k].first
           /\ new.final = ts[k].final /\ (new.exit = "lost" <=> ts[k].exit = "lost")
           /\ new.outcome = ts[k].outcome
    PROVE  /\ Lasting(ts, [ts EXCEPT ![k] = new])
           /\ \A m \in 1 .. Len(ts) : [ts EXCEPT ![k] = new][m].outcome = ts[m].outcome
BY ExceptSeq DEF Lasting, TurnType

(* News of the same turns, twice, is news of the same turns. *)
LEMMA LastingTwice ==
    ASSUME NEW ts, NEW us, NEW vs, Lasting(ts, us), Lasting(us, vs)
    PROVE  Lasting(ts, vs)
BY DEF Lasting

-----------------------------------------------------------------------------
(* The turns are numbered from one. *)
LEMMA TurnsDomain == ASSUME SuperOK PROVE DOMAIN turns = 1 .. Len(turns) /\ Len(turns) \in Nat
BY LenProperties DEF SuperOK

(* Every turn has a record of a turn. *)
LEMMA TurnIsTyped == ASSUME SuperOK, NEW n \in 1 .. Len(turns) PROVE turns[n] \in TurnType
BY ElementOfSeq DEF SuperOK

(* The turns as they are are no news. *)
LEMMA SameTurns == ASSUME SuperOK PROVE Lasting(turns, turns)
BY DEF SuperOK, Lasting

(* The end that a session gives is the end of the turn it has. *)
LEMMA TurnEnds ==
    ASSUME SuperOK, NEW k \in DOMAIN sess, NEW outcome \in {"success", "error", "interrupted"}
    PROVE  LET us == WithOutcome(turns, sess[k].turn, outcome) IN
           /\ Lasting(turns, us)
           /\ \A n \in 1 .. Len(turns) : us[n].outcome # turns[n].outcome => sess[k].turn = n
<1>1. sess[k].turn \in 0 .. Len(turns) /\ turns \in Seq(TurnType)
  BY TurnsDomain DEF SuperOK
<1> QED BY <1>1, OutcomeGiven

(* A process that ends, or lets go of its turn, leaves the rest at work. *)
LEMMA WorkLess ==
    ASSUME SuperOK, NEW k, work' = Sans(work, k) \/ UNCHANGED work
    PROVE  /\ work' \in [DOMAIN work' -> 0 .. MaxTurns] /\ DOMAIN work' \subseteq DOMAIN work
           /\ \A j \in DOMAIN work' : work'[j] \in {0, work[j]}
BY DEF SuperOK, Sans

(* A session that goes, or lets go of its turn, leaves the rest as they are. *)
LEMMA SessLess ==
    ASSUME SuperOK, NEW k \in DOMAIN sess, NEW phase \in {"idle", "active", "stopping", "stopped"},
           \/ sess' = Sans(sess, k)
           \/ sess' = [sess EXCEPT ![k] = [phase |-> phase, turn |-> 0]]
    PROVE  /\ sess' \in [DOMAIN sess' -> SessType] /\ DOMAIN sess' \subseteq DOMAIN sess
           /\ \A j \in DOMAIN sess' : sess'[j].turn \in {0, sess[j].turn}
           /\ k \notin DOMAIN sess' \/ sess'[k].turn = 0
<1>1. MaxTurns \in Nat /\ sess \in [DOMAIN sess -> SessType]
  BY AgyAssumption DEF SuperOK
<1>2. CASE sess' = Sans(sess, k)
  BY <1>1, <1>2 DEF Sans
<1>3. CASE sess' = [sess EXCEPT ![k] = [phase |-> phase, turn |-> 0]]
  <2>1. [phase |-> phase, turn |-> 0] \in SessType
    BY <1>1 DEF SessType
  <2> QED BY <1>1, <1>3, <2>1
<1> QED BY <1>2, <1>3

(* The failure of a session is a step of the supervisor. *)
LEMMA FailedSupervises ==
    ASSUME SuperOK, NEW k, Failed(k) \/ Dropped(k), work' = Sans(work, k) \/ UNCHANGED work
    PROVE  Supervises
<1>1. CASE k \notin DOMAIN sess
  <2>1. UNCHANGED <<turns, sess>>
    BY <1>1 DEF Failed, Dropped
  <2> QED BY <2>1, SameTurns, WorkLess DEF Supervises, SuperOK
<1>2. CASE k \in DOMAIN sess
  <2> DEFINE us == WithOutcome(turns, sess[k].turn, "error")
  <2>1. Lasting(turns, us) /\ \A n \in 1 .. Len(turns) : us[n].outcome # turns[n].outcome => sess[k].turn = n
    BY <1>2, TurnEnds
  <2>2. turns' = WithInit(us, k, "error")
    BY <1>2 DEF Failed, Dropped
  <2>3. k \in 1 .. Len(us) /\ us \in Seq(TurnType) /\ Len(us) = Len(turns)
    BY <1>2, <2>1 DEF SuperOK, Lasting
  <2> HIDE DEF us
  <2>4. Lasting(us, turns') /\ \A n \in 1 .. Len(us) : turns'[n].outcome = us[n].outcome
    BY <2>2, <2>3, InitGiven
  <2>5. Lasting(turns, turns')
    BY <2>1, <2>4, LastingTwice
  <2>6. /\ sess' \in [DOMAIN sess' -> SessType] /\ DOMAIN sess' \subseteq DOMAIN sess
        /\ \A j \in DOMAIN sess' : sess'[j].turn \in {0, sess[j].turn}
        /\ k \notin DOMAIN sess' \/ sess'[k].turn = 0
    <3>1. sess' = Sans(sess, k) \/ sess' = [sess EXCEPT ![k] = [phase |-> "idle", turn |-> 0]]
      BY <1>2 DEF Failed, Dropped
    <3> QED BY <1>2, <3>1, SessLess
  <2> QED BY <1>2, <2>1, <2>3, <2>4, <2>5, <2>6, WorkLess DEF Supervises
<1> QED BY <1>1, <1>2

(* The discard of a conversation's sessions is a step of the supervisor. *)
LEMMA DiscardedSupervises == ASSUME SuperOK, NEW conv, Discarded(conv) PROVE Supervises
<1>1. CASE Sessions(conv) = {}
  <2>1. UNCHANGED <<turns, sess, work>>
    BY <1>1 DEF Discarded, super
  <2> QED BY <2>1, SameTurns, WorkLess DEF Supervises, SuperOK
<1>2. CASE Sessions(conv) # {}
  <2>1. PICK k \in Sessions(conv) : Dropped(k) /\ work' = Sans(work, k)
    BY <1>2 DEF Discarded
  <2> QED BY <2>1, FailedSupervises
<1> QED BY <1>1, <1>2

(* The kill of a process is a step of the supervisor. *)
LEMMA KilledSupervises == ASSUME SuperOK, NEW k, Killed(k), UNCHANGED <<turns, sess>> PROVE Supervises
<1>1. work' = Sans(work, k) \/ UNCHANGED work
  BY DEF Killed
<1> QED BY <1>1, SameTurns, WorkLess DEF Supervises, SuperOK

(* One turn or process hears something that is no end of it. *)
LEMMA ChangeSupervises ==
    ASSUME SuperOK, NEW n \in 1 .. Len(turns), NEW new \in TurnType,
           turns' = [turns EXCEPT ![n] = new],
           /\ new.prompt = turns[n].prompt /\ new.host = turns[n].host /\ new.first = turns[n].first
           /\ new.final = turns[n].final /\ (new.exit = "lost" <=> turns[n].exit = "lost")
           /\ new.outcome = turns[n].outcome,
           sess' \in [DOMAIN sess -> SessType] /\ \A k \in DOMAIN sess : sess'[k].turn = sess[k].turn,
           NEW k, work' = Sans(work, k) \/ UNCHANGED work
    PROVE  Supervises
<1>1. Lasting(turns, turns') /\ \A m \in 1 .. Len(turns) : turns'[m].outcome = turns[m].outcome
  <2>1. turns \in Seq(TurnType)
    BY DEF SuperOK
  <2>2. /\ Lasting(turns, [turns EXCEPT ![n] = new])
        /\ \A m \in 1 .. Len(turns) : [turns EXCEPT ![n] = new][m].outcome = turns[m].outcome
    BY <2>1, LastingChange, Zenon
  <2> QED BY <2>2
<1>2. DOMAIN sess' = DOMAIN sess
  OBVIOUS
<1> QED BY <1>1, <1>2, WorkLess DEF Supervises

(* The stop of a turn is a step of the supervisor. *)
LEMMA StoppedSupervises ==
    ASSUME SuperOK, NEW n \in 1 .. Len(turns), Stopped(n), UNCHANGED work
    PROVE  Supervises
<1>1. CASE CanStop(n)
  <2>1. turns[n] \in TurnType /\ turns[n].host \in DOMAIN sess
    BY <1>1, TurnIsTyped DEF CanStop
  <2>2. [turns[n] EXCEPT !.grace = "wait"] \in TurnType
    BY <2>1 DEF TurnType
  <2>3. turns' = [turns EXCEPT ![n] = [turns[n] EXCEPT !.grace = "wait"]]
        /\ sess' = [sess EXCEPT ![turns[n].host].phase = "stopping"]
    BY <1>1 DEF Stopped
  <2>4. sess' \in [DOMAIN sess -> SessType] /\ \A k \in DOMAIN sess : sess'[k].turn = sess[k].turn
    <3>1. sess \in [DOMAIN sess -> SessType] /\ \A k \in DOMAIN sess : sess[k] \in SessType
      BY DEF SuperOK
    <3>2. \A k \in DOMAIN sess : [sess[k] EXCEPT !.phase = "stopping"] \in SessType
                                 /\ [sess[k] EXCEPT !.phase = "stopping"].turn = sess[k].turn
      BY <3>1 DEF SessType
    <3>3. sess' = [sess EXCEPT ![turns[n].host] = [sess[turns[n].host] EXCEPT !.phase = "stopping"]]
      BY <2>3
    <3> QED BY <3>1, <3>2, <3>3
  <2> DEFINE new == [turns[n] EXCEPT !.grace = "wait"]
  <2>5. /\ new.prompt = turns[n].prompt /\ new.host = turns[n].host /\ new.first = turns[n].first
        /\ new.final = turns[n].final /\ (new.exit = "lost" <=> turns[n].exit = "lost")
        /\ new.outcome = turns[n].outcome
    BY <2>1 DEF TurnType
  <2> HIDE DEF new
  <2> QED BY <2>2, <2>3, <2>4, <2>5, ChangeSupervises DEF new
<1>2. CASE ~CanStop(n)
  BY <1>2, SameTurns, WorkLess DEF Stopped, Supervises, SuperOK
<1> QED BY <1>1, <1>2

-----------------------------------------------------------------------------
(* What keeps the account of a prompt whose row does not change. *)
LEMMA PromptKeeps ==
    ASSUME NEW p \in Prompt, PromptOK(p), UNCHANGED setup,
           row'[p] = row[p], queuings'[p] = queuings[p],
           \A u \in Task : Holds(u, p)' => Holds(u, p),
           \A n \in 1 .. Len(turns') : Awaited(n, p)' => Awaited(n, p) /\ turns'[n].host = turns[n].host,
           \A n \in 1 .. Len(turns') : turns'[n].prompt = p /\ turns'[n].final # "none" => queuings[p] > 0,
           "db" \notin setup.kinds /\ row[p].status = "sending" =>
              (\E u \in Task : Holds(u, p)') \/ \E n \in 1 .. Len(turns') : Awaited(n, p)',
           Cardinality(Counted(p)') <= queuings[p],
           Due(p)' => Cardinality(Counted(p)') < queuings[p]
    PROVE  PromptOK(p)'
<1>1. Sole(p)'
  BY DEF PromptOK, Sole, Awaited
<1>2. row'[p].status \in {"queued", "failed"} => Free(p)'
  <2>1. SUFFICES ASSUME row[p].status \in {"queued", "failed"} PROVE Free(p)'
    OBVIOUS
  <2>2. (\A u \in Task : ~Holds(u, p)) /\ \A n \in 1 .. Len(turns) : ~Awaited(n, p)
    BY <2>1 DEF PromptOK, Free
  <2>3. \A n \in 1 .. Len(turns') : ~Awaited(n, p)'
    BY <2>2 DEF Awaited
  <2> QED BY <2>2, <2>3 DEF Free
<1>3. \A n \in 1 .. Len(turns') : Awaited(n, p)' /\ row'[p].status # "none" => row'[p].lease = turns'[n].host
  <2>1. SUFFICES ASSUME NEW n \in 1 .. Len(turns'), Awaited(n, p)', row'[p].status # "none"
                 PROVE  row'[p].lease = turns'[n].host
    OBVIOUS
  <2>2. Awaited(n, p) /\ n \in 1 .. Len(turns) /\ turns'[n].host = turns[n].host
    BY <2>1 DEF Awaited
  <2> QED BY <2>1, <2>2 DEF PromptOK
<1> QED BY <1>1, <1>2, <1>3 DEF PromptOK

(* The same turns, for the same prompts and as far along. *)
SameRecords ==
    /\ Len(turns') = Len(turns)
    /\ \A n \in 1 .. Len(turns) :
          /\ turns'[n].prompt = turns[n].prompt /\ turns'[n].host = turns[n].host
          /\ turns'[n].first = turns[n].first /\ turns'[n].final = turns[n].final

(* A prompt is counted once per turn while the records are the same. *)
LEMMA SameCount == ASSUME SameRecords, NEW p PROVE Counted(p)' = Counted(p)
BY DEF SameRecords, Counted

(* The account of a prompt, when only tasks let go of it. *)
LEMMA MovePrompt ==
    ASSUME NEW p \in Prompt, PromptOK(p), SameRecords, UNCHANGED setup,
           row'[p] = row[p], queuings'[p] = queuings[p],
           \A u \in Task : Holds(u, p)' => Holds(u, p),
           "db" \notin setup.kinds /\ row[p].status = "sending" => \A u \in Task : Holds(u, p) => Holds(u, p)',
           Due(p)' => Due(p)
    PROVE  PromptOK(p)'
<1>1. Counted(p)' = Counted(p)
  BY SameCount
<1>2. \A n \in 1 .. Len(turns') : /\ Awaited(n, p)' <=> Awaited(n, p)
                                  /\ turns'[n].host = turns[n].host
                                  /\ turns'[n].prompt = turns[n].prompt /\ turns'[n].final = turns[n].final
  BY DEF SameRecords, Awaited
<1>3. Len(turns') = Len(turns)
  BY DEF SameRecords
<1>4. "db" \notin setup.kinds /\ row[p].status = "sending" =>
         (\E u \in Task : Holds(u, p)') \/ \E n \in 1 .. Len(turns') : Awaited(n, p)'
  BY <1>2, <1>3 DEF PromptOK
<1>5. Cardinality(Counted(p)') <= queuings[p] /\ (Due(p)' => Cardinality(Counted(p)') < queuings[p])
  BY <1>1 DEF PromptOK
<1>6. \A n \in 1 .. Len(turns') : turns'[n].prompt = p /\ turns'[n].final # "none" => queuings[p] > 0
  BY <1>2, <1>3 DEF PromptOK
<1> QED BY <1>2, <1>4, <1>5, <1>6, PromptKeeps

(* Only task t moves. *)
Moves(t) == task' \in [Task -> TaskType] /\ \A u \in Task \ {t} : task'[u] = task[u]

(* A task that is given a new place is the only one that moves. *)
LEMMA Moved ==
    ASSUME task \in [Task -> TaskType], NEW t \in Task, NEW new \in TaskType, task' = [task EXCEPT ![t] = new]
    PROVE  Moves(t) /\ task'[t] = new
BY DEF Moves

(* A task that goes to a point keeps what it has in hand. *)
LEMMA Went ==
    ASSUME task \in [Task -> TaskType], NEW t \in Task, NEW point \in Points, Goto(t, point)
    PROVE  /\ Moves(t) /\ task'[t].pc = point /\ task'[t].prompt = task[t].prompt
           /\ task'[t].conv = task[t].conv /\ task'[t].turn = task[t].turn
<1>1. task[t] \in TaskType /\ task' = [task EXCEPT ![t] = [task[t] EXCEPT !.pc = point]]
  BY DEF Goto
<1> DEFINE new == [task[t] EXCEPT !.pc = point]
<1>2. new \in TaskType /\ new.pc = point /\ new.prompt = task[t].prompt
      /\ new.conv = task[t].conv /\ new.turn = task[t].turn
  BY <1>1 DEF TaskType
<1> HIDE DEF new
<1>3. task' = [task EXCEPT ![t] = new]
  BY <1>1 DEF new
<1> QED BY <1>2, <1>3, Moved

(* A task that leaves is idle, and the only one that moves. *)
LEMMA Left ==
    ASSUME task \in [Task -> TaskType], NEW t \in Task, Leave(t)
    PROVE  Moves(t) /\ task'[t] = Idle /\ task'[t].pc = "idle"
<1>1. Idle \in TaskType
  BY AgyAssumption DEF Idle, TaskType, Points
<1>2. Idle.pc = "idle"
  BY DEF Idle
<1> QED BY <1>1, <1>2, Moved DEF Leave

(* The tasks that stay keep their places when the rows stay. *)
LEMMA OtherPlaces ==
    ASSUME NEW u \in Task, PlaceOK(u), task'[u] = task[u], UNCHANGED <<row, queuings, setup>>
    PROVE  PlaceOK(u)'
BY DEF PlaceOK, Holds

(* A task moves, and the rows stay. *)
LEMMA MoveKeeps ==
    ASSUME AgyInv, NEW t \in Task, Moves(t), SameRecords, SuperOK', LostOK',
           \A u \in Task \ {t} : TurnOK(u)',
           TurnOK(t)', PlaceOK(t)',
           UNCHANGED <<queue, row, queuings, exposed, setup, crashes>>, convs' \in Nat, faults' \in Nat,
           binding' \in Int \cup {None}, activation' \in Task \cup {None},
           \A p \in Prompt : Holds(t, p)' => Holds(t, p),
           "db" \notin setup.kinds =>
              \A p \in Prompt : Holds(t, p) /\ row[p].status = "sending" => Holds(t, p)',
           \A p \in Prompt : Holds(t, p)' /\ Ahead(t)' => Ahead(t)
    PROVE  AgyInv'
<1>1. PlainOK'
  BY DEF AgyInv, PlainOK, Moves
<1>2. QueueOK(queue, row)'
  BY DEF AgyInv, QueueOK
<1>3. \A u \in Task : TurnOK(u)' /\ PlaceOK(u)'
  <2>1. ASSUME NEW u \in Task \ {t} PROVE PlaceOK(u)'
    <3>1. task'[u] = task[u] /\ PlaceOK(u)
      BY <2>1 DEF Moves, AgyInv
    <3> QED BY <3>1, OtherPlaces
  <2> QED BY <2>1
<1>4. ASSUME NEW p \in Prompt PROVE PromptOK(p)'
  <2>1. \A u \in Task : Holds(u, p)' => Holds(u, p)
    BY DEF Moves, Holds
  <2>2. "db" \notin setup.kinds /\ row[p].status = "sending" => \A u \in Task : Holds(u, p) => Holds(u, p)'
    BY DEF Moves, Holds
  <2>3. ASSUME NEW u \in Task, Holds(u, p)', Ahead(u)'
        PROVE  Holds(u, p) /\ Ahead(u)
    <3>1. CASE u = t
      BY <2>1, <2>3, <3>1
    <3>2. CASE u # t
      BY <2>1, <2>3, <3>2 DEF Moves, Ahead
    <3> QED BY <3>1, <3>2
  <2>4. Due(p)' => Due(p)
    BY <2>3 DEF Due
  <2> QED BY <2>1, <2>2, <2>4, MovePrompt DEF AgyInv
<1> QED BY <1>1, <1>2, <1>3, <1>4 DEF AgyInv

(* The supervisor's own steps keep the records the prompts count. *)
LEMMA LastingSame == ASSUME SuperOK, Supervises PROVE SameRecords
BY DEF Supervises, Lasting, SameRecords

(* The supervisor's own steps lose no process that works on a row. *)
LEMMA SupervisesLost ==
    ASSUME SuperOK, LostOK, Supervises, UNCHANGED <<row, queuings, exposed>>
    PROVE  LostOK'
<1>1. RowsGone
  BY DEF RowsGone, Gone
<1> QED BY <1>1, LostStays

(* The supervisor's own steps. *)
LEMMA NewsKeeps ==
    ASSUME AgyInv, Supervises, UNCHANGED <<queue, row, queuings, binding, convs, task, activation, exposed, setup, crashes>>,
           faults' \in Nat
    PROVE  AgyInv'
<1>1. SuperOK /\ SuperOK' /\ LostOK' /\ SameRecords
  BY SupervisesKeeps, SupervisesLost, LastingSame DEF AgyInv
<1>2. \A u \in Task : TurnOK(u)'
  BY SupervisesKeeps DEF AgyInv
<1>3. \A u \in Task : PlaceOK(u)'
  BY OtherPlaces DEF AgyInv
<1>4. ASSUME NEW p \in Prompt PROVE PromptOK(p)'
  <2>1. \A u \in Task : Holds(u, p)' <=> Holds(u, p)
    BY DEF Holds
  <2>2. Due(p)' => Due(p)
    BY <2>1 DEF Due, Ahead
  <2> QED BY <1>1, <2>1, <2>2, MovePrompt DEF AgyInv
<1>5. PlainOK'
  BY DEF AgyInv, PlainOK
<1>6. QueueOK(queue, row)'
  BY DEF AgyInv, QueueOK
<1> QED BY <1>1, <1>2, <1>3, <1>4, <1>5, <1>6 DEF AgyInv

(* A task moves by a step that the supervisor takes with it. *)
LEMMA MoveSupervised ==
    ASSUME AgyInv, NEW t \in Task, Moves(t), Supervises,
           TurnOK(t)', PlaceOK(t)',
           UNCHANGED <<queue, row, queuings, exposed, setup, crashes>>, convs' \in Nat, faults' \in Nat,
           binding' \in Int \cup {None}, activation' \in Task \cup {None},
           \A p \in Prompt : Holds(t, p)' => Holds(t, p),
           "db" \notin setup.kinds =>
              \A p \in Prompt : Holds(t, p) /\ row[p].status = "sending" => Holds(t, p)',
           \A p \in Prompt : Holds(t, p)' /\ Ahead(t)' => Ahead(t)
    PROVE  AgyInv'
<1>1. SuperOK /\ SuperOK' /\ LostOK' /\ SameRecords
  BY SupervisesKeeps, SupervisesLost, LastingSame DEF AgyInv
<1>2. \A u \in Task \ {t} : TurnOK(u)'
  BY SupervisesKeeps DEF AgyInv, Moves
<1> QED BY <1>1, <1>2, MoveKeeps

-----------------------------------------------------------------------------
(* The stop of a turn by a user keeps the invariant. *)
LEMMA StopKeeps == ASSUME AgyInv, NEW n, Stop(n) PROVE AgyInv'
<1>1. SuperOK /\ n \in 1 .. Len(turns)
  BY TurnsDomain DEF AgyInv, Stop
<1>2. Supervises
  BY <1>1, StoppedSupervises DEF Stop
<1> QED BY <1>2, NewsKeeps DEF Stop, store, bounds, AgyInv, PlainOK

(* The end of a grace period keeps the invariant. *)
LEMMA GraceLooksKeeps == ASSUME AgyInv, NEW n, GraceLooks(n) PROVE AgyInv'
<1>1. SuperOK /\ n \in 1 .. Len(turns)
  BY TurnsDomain DEF AgyInv, GraceLooks
<1>2. turns[n] \in TurnType
  BY <1>1, TurnIsTyped
<1>3. PICK grace \in {"kill", "done"} : turns' = [turns EXCEPT ![n] = [turns[n] EXCEPT !.grace = grace]]
  BY DEF GraceLooks
<1> DEFINE new == [turns[n] EXCEPT !.grace = grace]
<1>4. /\ new \in TurnType
      /\ new.prompt = turns[n].prompt /\ new.host = turns[n].host /\ new.first = turns[n].first
      /\ new.final = turns[n].final /\ (new.exit = "lost" <=> turns[n].exit = "lost")
      /\ new.outcome = turns[n].outcome
  BY <1>2, <1>3 DEF TurnType
<1>5. sess' \in [DOMAIN sess -> SessType] /\ (\A k \in DOMAIN sess : sess'[k].turn = sess[k].turn) /\ UNCHANGED work
  BY <1>1 DEF GraceLooks, SuperOK
<1> HIDE DEF new
<1>6. Supervises
  BY <1>1, <1>3, <1>4, <1>5, ChangeSupervises DEF new
<1> QED BY <1>6, NewsKeeps DEF GraceLooks, store, bounds, AgyInv, PlainOK

(* A kill that is marked in the record of its turn or process. *)
LEMMA MarkedKill ==
    ASSUME SuperOK, NEW n \in 1 .. Len(turns), NEW new \in TurnType, turns' = [turns EXCEPT ![n] = new],
           /\ new.prompt = turns[n].prompt /\ new.host = turns[n].host /\ new.first = turns[n].first
           /\ new.final = turns[n].final /\ (new.exit = "lost" <=> turns[n].exit = "lost")
           /\ new.outcome = turns[n].outcome,
           NEW k, Killed(k), UNCHANGED sess
    PROVE  Supervises
<1>1. work' = Sans(work, k) \/ UNCHANGED work
  BY DEF Killed
<1>2. sess' \in [DOMAIN sess -> SessType] /\ \A j \in DOMAIN sess : sess'[j].turn = sess[j].turn
  BY DEF SuperOK
<1> QED BY <1>1, <1>2, ChangeSupervises

(* The kill after a grace period keeps the invariant. *)
LEMMA GraceKillsKeeps == ASSUME AgyInv, NEW n, GraceKills(n) PROVE AgyInv'
<1>1. SuperOK /\ n \in 1 .. Len(turns)
  BY TurnsDomain DEF AgyInv, GraceKills
<1>2. turns[n] \in TurnType
  BY <1>1, TurnIsTyped
<1> DEFINE new == [turns[n] EXCEPT !.grace = "done"]
<1>3. turns' = [turns EXCEPT ![n] = new]
  BY DEF GraceKills
<1>4. /\ new \in TurnType
      /\ new.prompt = turns[n].prompt /\ new.host = turns[n].host /\ new.first = turns[n].first
      /\ new.final = turns[n].final /\ (new.exit = "lost" <=> turns[n].exit = "lost")
      /\ new.outcome = turns[n].outcome
  BY <1>2 DEF TurnType
<1> HIDE DEF new
<1>5. Supervises
  BY <1>1, <1>3, <1>4, MarkedKill DEF GraceKills
<1> QED BY <1>5, NewsKeeps DEF GraceKills, store, bounds, AgyInv, PlainOK

(* The kill by the reader of a process's output keeps the invariant. *)
LEMMA ReaderKillsKeeps == ASSUME AgyInv, NEW k, ReaderKills(k) PROVE AgyInv'
<1>1. SuperOK /\ k \in 1 .. Len(turns)
  BY TurnsDomain DEF AgyInv, ReaderKills
<1>2. turns[k] \in TurnType
  BY <1>1, TurnIsTyped
<1> DEFINE new == [turns[k] EXCEPT !.reader = "gone"]
<1>3. turns' = [turns EXCEPT ![k] = new]
  BY DEF ReaderKills
<1>4. /\ new \in TurnType
      /\ new.prompt = turns[k].prompt /\ new.host = turns[k].host /\ new.first = turns[k].first
      /\ new.final = turns[k].final /\ (new.exit = "lost" <=> turns[k].exit = "lost")
      /\ new.outcome = turns[k].outcome
  BY <1>2 DEF TurnType
<1> HIDE DEF new
<1>5. Supervises
  BY <1>1, <1>3, <1>4, MarkedKill DEF ReaderKills
<1> QED BY <1>5, NewsKeeps DEF ReaderKills, store, bounds, AgyInv, PlainOK

(* One field of the record of a process changes, and the rest stays. *)
LEMMA RecordSupervises ==
    ASSUME SuperOK, NEW k \in 1 .. Len(turns), NEW new \in TurnType, turns' = [turns EXCEPT ![k] = new],
           /\ new.prompt = turns[k].prompt /\ new.host = turns[k].host /\ new.first = turns[k].first
           /\ new.final = turns[k].final /\ (new.exit = "lost" <=> turns[k].exit = "lost")
           /\ new.outcome = turns[k].outcome,
           UNCHANGED <<sess, work>>
    PROVE  Supervises
<1>1. sess' \in [DOMAIN sess -> SessType] /\ \A j \in DOMAIN sess : sess'[j].turn = sess[j].turn
  BY DEF SuperOK
<1> QED BY <1>1, ChangeSupervises

(* The first line of a process keeps the invariant. *)
LEMMA InitsKeeps == ASSUME AgyInv, NEW k, Inits(k) PROVE AgyInv'
<1>1. SuperOK /\ k \in 1 .. Len(turns)
  BY DEF AgyInv, SuperOK, Inits
<1>2. turns[k] \in TurnType /\ k \in Int
  BY <1>1, TurnIsTyped
<1> DEFINE new == [turns[k] EXCEPT !.init = "ok", !.conv = IF @ = None THEN k ELSE @]
<1>3. turns' = [turns EXCEPT ![k] = new]
  <2>1. turns' = [turns EXCEPT ![k].init = "ok", ![k].conv = IF @ = None THEN k ELSE @]
    BY DEF Inits
  <2> QED BY <2>1, <1>1, <1>2, TurnsDomain DEF SuperOK, TurnType
<1>4. /\ new \in TurnType
      /\ new.prompt = turns[k].prompt /\ new.host = turns[k].host /\ new.first = turns[k].first
      /\ new.final = turns[k].final /\ (new.exit = "lost" <=> turns[k].exit = "lost")
      /\ new.outcome = turns[k].outcome
  BY <1>2 DEF TurnType
<1> HIDE DEF new
<1>5. Supervises
  BY <1>1, <1>3, <1>4, RecordSupervises DEF Inits
<1> QED BY <1>5, NewsKeeps DEF Inits, store, bounds, AgyInv, PlainOK

(* The look at the exit of a process keeps the invariant. *)
LEMMA ExitLooksKeeps == ASSUME AgyInv, NEW k, ExitLooks(k) PROVE AgyInv'
<1>1. SuperOK /\ k \in 1 .. Len(turns)
  BY TurnsDomain DEF AgyInv, ExitLooks
<1>2. turns[k] \in TurnType
  BY <1>1, TurnIsTyped
<1>3. PICK exit \in {"remove", "interrupt", "fail"} : turns' = [turns EXCEPT ![k] = [turns[k] EXCEPT !.exit = exit]]
  BY DEF ExitLooks
<1> DEFINE new == [turns[k] EXCEPT !.exit = exit]
<1>4. /\ new \in TurnType
      /\ new.prompt = turns[k].prompt /\ new.host = turns[k].host /\ new.first = turns[k].first
      /\ new.final = turns[k].final /\ (new.exit = "lost" <=> turns[k].exit = "lost")
      /\ new.outcome = turns[k].outcome
  BY <1>2, <1>3 DEF TurnType, ExitLooks
<1> HIDE DEF new
<1>5. Supervises
  BY <1>1, <1>3, <1>4, RecordSupervises DEF ExitLooks, new
<1> QED BY <1>5, NewsKeeps DEF ExitLooks, store, bounds, AgyInv, PlainOK

(* The end of a process keeps the invariant. *)
LEMMA ProcessEndsKeeps == ASSUME AgyInv, NEW k, ProcessEnds(k) PROVE AgyInv'
<1>1. SuperOK /\ work' = Sans(work, k) /\ UNCHANGED <<turns, sess>>
  BY DEF AgyInv, ProcessEnds
<1>2. Supervises
  BY <1>1, SameTurns, WorkLess DEF Supervises, SuperOK
<1>3. UNCHANGED <<queue, row, queuings, binding, convs, task, activation, exposed, crashes>>
  BY DEF ProcessEnds, store
<1>4. UNCHANGED setup /\ faults' \in Nat
  BY DEF ProcessEnds, NoFault, Fault, AgyInv, PlainOK
<1> QED BY <1>2, <1>3, <1>4, NewsKeeps

(* A process hears of the end of its turn, and its record of one more field. *)
LEMMA ResultsKeeps ==
    ASSUME AgyInv, NEW k, NEW outcome \in {"success", "error"}, Results(k, outcome) PROVE AgyInv'
<1>1. SuperOK /\ k \in DOMAIN work /\ work' = [work EXCEPT ![k] = 0]
  BY DEF AgyInv, Results
<1>2. /\ work' \in [DOMAIN work' -> 0 .. MaxTurns] /\ DOMAIN work' \subseteq DOMAIN work
      /\ \A j \in DOMAIN work' : work'[j] \in {0, work[j]}
  BY <1>1, AgyAssumption DEF SuperOK
<1>3. CASE k \in DOMAIN sess
  <2> DEFINE end == Ended(k, outcome)
  <2>1. end \in {"success", "error", "interrupted"}
    BY DEF Ended
  <2> HIDE DEF end
  <2>2. turns' = WithOutcome(turns, sess[k].turn, end)
    BY <1>3 DEF Results, Resulted, end
  <2>3. Lasting(turns, turns') /\ \A n \in 1 .. Len(turns) : turns'[n].outcome # turns[n].outcome => sess[k].turn = n
    BY <1>1, <1>3, <2>1, <2>2, TurnEnds
  <2>4. \E phase \in {"idle", "active", "stopping", "stopped"} : sess' = [sess EXCEPT ![k] = [phase |-> phase, turn |-> 0]]
    BY <1>3 DEF Results, Resulted
  <2>5. /\ sess' \in [DOMAIN sess' -> SessType] /\ DOMAIN sess' \subseteq DOMAIN sess
        /\ \A j \in DOMAIN sess' : sess'[j].turn \in {0, sess[j].turn}
        /\ k \notin DOMAIN sess' \/ sess'[k].turn = 0
    BY <1>1, <1>3, <2>4, SessLess
  <2>6. Supervises
    BY <1>2, <1>3, <2>3, <2>5 DEF Supervises
  <2> QED BY <2>6, NewsKeeps DEF Results, store, bounds, AgyInv, PlainOK
<1>4. CASE k \notin DOMAIN sess
  <2>1. UNCHANGED <<turns, sess>>
    BY <1>4 DEF Results
  <2>2. Supervises
    BY <1>1, <1>2, <2>1, SameTurns DEF Supervises, SuperOK
  <2> QED BY <2>2, NewsKeeps DEF Results, store, bounds, AgyInv, PlainOK
<1> QED BY <1>3, <1>4

(* The session's turn ends, its first line is answered, and one more field *)
(* of its process's record changes.                                        *)
LEMMA EndsSupervises ==
    ASSUME SuperOK, NEW k \in DOMAIN sess, NEW outcome \in {"success", "error", "interrupted"},
           NEW ts \in {WithOutcome(turns, sess[k].turn, outcome),
                       WithInit(WithOutcome(turns, sess[k].turn, outcome), k, "error")},
           NEW new \in TurnType, turns' = [ts EXCEPT ![k] = new],
           /\ new.prompt = ts[k].prompt /\ new.host = ts[k].host /\ new.first = ts[k].first
           /\ new.final = ts[k].final /\ (new.exit = "lost" <=> ts[k].exit = "lost")
           /\ new.outcome = ts[k].outcome,
           NEW phase \in {"idle", "active", "stopping", "stopped"},
           sess' = Sans(sess, k) \/ sess' = [sess EXCEPT ![k] = [phase |-> phase, turn |-> 0]],
           UNCHANGED work
    PROVE  Supervises
<1> DEFINE us == WithOutcome(turns, sess[k].turn, outcome)
<1>1. Lasting(turns, us) /\ \A n \in 1 .. Len(turns) : us[n].outcome # turns[n].outcome => sess[k].turn = n
  BY TurnEnds
<1>2. us \in Seq(TurnType) /\ Len(us) = Len(turns) /\ k \in 1 .. Len(turns)
  BY <1>1 DEF Lasting, SuperOK
<1>3. ts = us \/ ts = WithInit(us, k, "error")
  OBVIOUS
<1> HIDE DEF us
<1>4. Lasting(us, ts) /\ \A n \in 1 .. Len(us) : ts[n].outcome = us[n].outcome
  <2>1. CASE ts = us
    BY <2>1, <1>2 DEF Lasting
  <2>2. CASE ts = WithInit(us, k, "error")
    BY <2>2, <1>2, InitGiven
  <2> QED BY <1>3, <2>1, <2>2
<1>5. ts \in Seq(TurnType) /\ k \in 1 .. Len(ts)
  BY <1>2, <1>4 DEF Lasting
<1>6. /\ Lasting(ts, [ts EXCEPT ![k] = new])
      /\ \A m \in 1 .. Len(ts) : [ts EXCEPT ![k] = new][m].outcome = ts[m].outcome
  <2>1. /\ new.prompt = ts[k].prompt /\ new.host = ts[k].host /\ new.first = ts[k].first
        /\ new.final = ts[k].final /\ (new.exit = "lost" <=> ts[k].exit = "lost")
        /\ new.outcome = ts[k].outcome
    OBVIOUS
  <2> QED BY ONLY <1>5, <2>1, new \in TurnType, LastingChange
<1>7. Lasting(turns, turns')
  BY <1>1, <1>4, <1>6, LastingTwice
<1>8. \A n \in 1 .. Len(turns) : turns'[n].outcome # turns[n].outcome => sess[k].turn = n
  <2>1. Len(ts) = Len(turns)
    BY <1>2, <1>4 DEF Lasting
  <2>2. \A m \in 1 .. Len(turns) : turns'[m].outcome = ts[m].outcome
    BY <1>6, <2>1
  <2> QED BY <1>1, <1>2, <1>4, <2>2
<1>9. /\ sess' \in [DOMAIN sess' -> SessType] /\ DOMAIN sess' \subseteq DOMAIN sess
      /\ \A j \in DOMAIN sess' : sess'[j].turn \in {0, sess[j].turn}
      /\ k \notin DOMAIN sess' \/ sess'[k].turn = 0
  BY SessLess
<1> QED BY <1>7, <1>8, <1>9, WorkLess DEF Supervises

(* What WithOutcome and WithInit make of turns is typed. *)
LEMMA EndedTyped ==
    ASSUME SuperOK, NEW k \in DOMAIN sess, NEW outcome \in {"success", "error", "interrupted"}
    PROVE  LET us == WithOutcome(turns, sess[k].turn, outcome)
               ts == WithInit(us, k, "error") IN
           /\ us[k] \in TurnType /\ (us[k].exit = "lost" <=> turns[k].exit = "lost")
           /\ ts[k] \in TurnType /\ (ts[k].exit = "lost" <=> turns[k].exit = "lost")
           /\ DOMAIN us = 1 .. Len(turns) /\ DOMAIN ts = 1 .. Len(turns)
<1> DEFINE us == WithOutcome(turns, sess[k].turn, outcome)
           ts == WithInit(us, k, "error")
<1>1. Lasting(turns, us)
  BY TurnEnds
<1>2. us \in Seq(TurnType) /\ Len(us) = Len(turns) /\ k \in 1 .. Len(turns)
  BY <1>1 DEF Lasting, SuperOK
<1> HIDE DEF us
<1>3. Lasting(us, ts)
  BY <1>2, InitGiven
<1> HIDE DEF ts
<1>4. ts \in Seq(TurnType) /\ Len(ts) = Len(turns)
  BY <1>2, <1>3 DEF Lasting
<1>5. us[k] \in TurnType /\ ts[k] \in TurnType /\ DOMAIN us = 1 .. Len(turns) /\ DOMAIN ts = 1 .. Len(turns)
  BY <1>2, <1>4, ElementOfSeq, LenProperties
<1> QED BY <1>1, <1>2, <1>3, <1>5 DEF Lasting, us, ts

(* A failed read of a process's output keeps the invariant. *)
LEMMA ReadFailsKeeps ==
    ASSUME AgyInv, NEW k, NEW reader \in {"kill", "gone"}, ReadFails(k, reader) PROVE AgyInv'
<1> DEFINE ts == WithInit(WithOutcome(turns, sess[k].turn, "error"), k, "error")
           new == [ts[k] EXCEPT !.reader = reader]
<1>1. SuperOK /\ k \in DOMAIN sess
  BY DEF AgyInv, ReadFails
<1>2. ts[k] \in TurnType
  BY <1>1, EndedTyped
<1>3. turns' = [ts EXCEPT ![k] = new] /\ sess' = [sess EXCEPT ![k] = [phase |-> "idle", turn |-> 0]] /\ UNCHANGED work
  BY DEF ReadFails
<1>4. ts \in {WithOutcome(turns, sess[k].turn, "error"), WithInit(WithOutcome(turns, sess[k].turn, "error"), k, "error")}
  OBVIOUS
<1> HIDE DEF ts
<1>5. /\ new \in TurnType
      /\ new.prompt = ts[k].prompt /\ new.host = ts[k].host /\ new.first = ts[k].first
      /\ new.final = ts[k].final /\ (new.exit = "lost" <=> ts[k].exit = "lost")
      /\ new.outcome = ts[k].outcome
  BY <1>2 DEF TurnType
<1> HIDE DEF new
<1>6. Supervises
  BY <1>1, <1>3, <1>4, <1>5, EndsSupervises
<1>7. UNCHANGED <<queue, row, queuings, binding, convs, task, activation, exposed, crashes>>
  BY DEF ReadFails, store
<1>8. UNCHANGED setup /\ faults' \in Nat
  BY DEF ReadFails, Fault, AgyInv, PlainOK
<1> QED BY <1>6, <1>7, <1>8, NewsKeeps

(* A process that has no session any more: only its record changes. *)
LEMMA SessionlessSupervises ==
    ASSUME SuperOK, NEW k \in 1 .. Len(turns), k \notin DOMAIN sess,
           NEW ts \in {turns, WithInit(turns, k, "error")}, NEW exit \in {"remove", "done"},
           turns[k].exit # "lost",
           turns' = [ts EXCEPT ![k].exit = exit], sess' = sess \/ sess' = Sans(sess, k), UNCHANGED work
    PROVE  Supervises
<1>1. turns \in Seq(TurnType)
  BY DEF SuperOK
<1>2. Lasting(turns, ts) /\ \A n \in 1 .. Len(turns) : ts[n].outcome = turns[n].outcome
  BY <1>1, InitGiven, SameTurns
<1>3. ts \in Seq(TurnType) /\ Len(ts) = Len(turns)
  BY <1>2 DEF Lasting
<1> DEFINE new == [ts[k] EXCEPT !.exit = exit]
<1>4. ts[k] \in TurnType /\ ts[k].exit # "lost" /\ turns' = [ts EXCEPT ![k] = new]
  BY <1>2, <1>3, ElementOfSeq DEF Lasting
<1>5. /\ new \in TurnType
      /\ new.prompt = ts[k].prompt /\ new.host = ts[k].host /\ new.first = ts[k].first
      /\ new.final = ts[k].final /\ (new.exit = "lost" <=> ts[k].exit = "lost")
      /\ new.outcome = ts[k].outcome
  BY <1>4 DEF TurnType
<1> HIDE DEF new
<1>6. k \in 1 .. Len(ts)
  BY <1>3
<1>7. /\ Lasting(ts, [ts EXCEPT ![k] = new])
      /\ \A m \in 1 .. Len(ts) : [ts EXCEPT ![k] = new][m].outcome = ts[m].outcome
  BY ONLY <1>3, <1>5, <1>6, LastingChange
<1>8. Lasting(turns, turns')
  BY <1>2, <1>4, <1>7, LastingTwice
<1>9. \A n \in 1 .. Len(turns) : turns'[n].outcome = turns[n].outcome
  BY <1>2, <1>3, <1>4, <1>7
<1>10. sess' = sess
  <2>1. DOMAIN sess \ {k} = DOMAIN sess /\ sess = [j \in DOMAIN sess |-> sess[j]]
    BY DEF SuperOK
  <2> QED BY <2>1 DEF Sans
<1> QED BY <1>8, <1>9, <1>10, WorkLess DEF Supervises, SuperOK

(* The end that an exit makes of a turn keeps the invariant. *)
LEMMA ExitEndsKeeps == ASSUME AgyInv, NEW k, ExitEnds(k) PROVE AgyInv'
<1>1. SuperOK /\ k \in 1 .. Len(turns) /\ turns[k].exit # "lost" /\ UNCHANGED work
  BY TurnsDomain DEF AgyInv, ExitEnds
<1>2. CASE k \notin DOMAIN sess
  <2>1. WithOutcome(turns, 0, "interrupted") = turns /\ WithOutcome(turns, 0, "error") = turns
    BY DEF WithOutcome
  <2>2. /\ turns' = [turns EXCEPT ![k].exit = "remove"] \/ turns' = [WithInit(turns, k, "error") EXCEPT ![k].exit = "remove"]
        /\ sess' = sess
    BY <1>2, <2>1 DEF ExitEnds
  <2>3. Supervises
    BY <1>1, <1>2, <2>2, SessionlessSupervises
  <2> QED BY <2>3, NewsKeeps DEF ExitEnds, store, bounds, AgyInv, PlainOK
<1>3. CASE k \in DOMAIN sess
  <2> DEFINE outcome == IF turns[k].exit = "interrupt" THEN "interrupted" ELSE "error"
             phase == IF turns[k].exit = "interrupt" /\ sess[k].phase = "stopping" THEN "stopped" ELSE "idle"
             us == WithOutcome(turns, sess[k].turn, outcome)
             ts == IF turns[k].exit = "fail" THEN WithInit(us, k, "error") ELSE us
             new == [ts[k] EXCEPT !.exit = "remove"]
  <2>1. outcome \in {"success", "error", "interrupted"} /\ phase \in {"idle", "active", "stopping", "stopped"}
    OBVIOUS
  <2>2. turns' = [ts EXCEPT ![k].exit = "remove"]
    BY <1>3 DEF ExitEnds
  <2>8. sess' = [sess EXCEPT ![k] = [phase |-> phase, turn |-> 0]]
    BY <1>3 DEF ExitEnds
  <2> HIDE DEF outcome, phase
  <2>3. ts \in {WithOutcome(turns, sess[k].turn, outcome), WithInit(WithOutcome(turns, sess[k].turn, outcome), k, "error")}
    OBVIOUS
  <2>4. ts[k] \in TurnType /\ ts[k].exit # "lost"
    BY <1>1, <1>3, <2>1, EndedTyped
  <2> HIDE DEF ts
  <2>5. turns' = [ts EXCEPT ![k] = new]
    BY <2>2
  <2>6. /\ new \in TurnType
        /\ new.prompt = ts[k].prompt /\ new.host = ts[k].host /\ new.first = ts[k].first
        /\ new.final = ts[k].final /\ (new.exit = "lost" <=> ts[k].exit = "lost")
        /\ new.outcome = ts[k].outcome
    BY <2>4 DEF TurnType
  <2> HIDE DEF new
  <2>7. Supervises
    BY <1>1, <1>3, <2>1, <2>3, <2>5, <2>6, <2>8, EndsSupervises
  <2> QED BY <2>7, NewsKeeps DEF ExitEnds, store, bounds, AgyInv, PlainOK
<1> QED BY <1>2, <1>3

(* The removal of the session of an exited process keeps the invariant. *)
LEMMA ExitRemovesKeeps == ASSUME AgyInv, NEW k, ExitRemoves(k) PROVE AgyInv'
<1>1. SuperOK /\ k \in 1 .. Len(turns) /\ turns[k].exit # "lost" /\ UNCHANGED work /\ sess' = Sans(sess, k)
  BY TurnsDomain DEF AgyInv, ExitRemoves
<1>2. CASE k \notin DOMAIN sess
  <2>1. WithOutcome(turns, 0, "error") = turns
    BY DEF WithOutcome
  <2>2. turns' = [WithInit(turns, k, "error") EXCEPT ![k].exit = "done"]
    BY <1>2, <2>1 DEF ExitRemoves
  <2>3. Supervises
    BY <1>1, <1>2, <2>2, SessionlessSupervises
  <2> QED BY <2>3, NewsKeeps DEF ExitRemoves, store, bounds, AgyInv, PlainOK
<1>3. CASE k \in DOMAIN sess
  <2> DEFINE ts == WithInit(WithOutcome(turns, sess[k].turn, "error"), k, "error")
             new == [ts[k] EXCEPT !.exit = "done"]
  <2>1. turns' = [ts EXCEPT ![k].exit = "done"]
    BY <1>3 DEF ExitRemoves
  <2>2. ts \in {WithOutcome(turns, sess[k].turn, "error"), WithInit(WithOutcome(turns, sess[k].turn, "error"), k, "error")}
    OBVIOUS
  <2>3. ts[k] \in TurnType /\ ts[k].exit # "lost"
    BY <1>1, <1>3, EndedTyped
  <2> HIDE DEF ts
  <2>4. turns' = [ts EXCEPT ![k] = new]
    BY <2>1
  <2>5. /\ new \in TurnType
        /\ new.prompt = ts[k].prompt /\ new.host = ts[k].host /\ new.first = ts[k].first
        /\ new.final = ts[k].final /\ (new.exit = "lost" <=> ts[k].exit = "lost")
        /\ new.outcome = ts[k].outcome
    BY <2>3 DEF TurnType
  <2> HIDE DEF new
  <2>6. Supervises
    BY <1>1, <1>3, <2>2, <2>4, <2>5, EndsSupervises
  <2> QED BY <2>6, NewsKeeps DEF ExitRemoves, store, bounds, AgyInv, PlainOK
<1> QED BY <1>2, <1>3

-----------------------------------------------------------------------------
RestStays ==
    /\ UNCHANGED <<queue, row, queuings, exposed, setup, crashes>> /\ convs' \in Nat /\ faults' \in Nat
    /\ binding' \in Int \cup {None} /\ activation' \in Task \cup {None}

(* A task with a turn goes on with it. *)
LEMMA GoesOn ==
    ASSUME SuperOK, Supervises, NEW t \in Task, TurnOK(t), task[t].pc \in HasTurn,
           task'[t].pc \notin {"write", "reuse"},
           task'[t].prompt = task[t].prompt, task'[t].turn = task[t].turn
    PROVE  TurnOK(t)'
BY DEF TurnOK, Supervises, Lasting, SuperOK

(* A task that goes to a point it may go to keeps the invariant. *)
LEMMA GotoKeeps ==
    ASSUME AgyInv, NEW t \in Task, NEW point \in Points, Goto(t, point), Supervises, RestStays,
           task[t].pc \notin BeforeRow, point \notin BeforeRow \cup {"write", "reuse"},
           point \in HasTurn => task[t].pc \in HasTurn,
           point \in Prompted => task[t].pc \in Prompted,
           t = Creator => point \in CreatorPoints,
           t # Creator => point \notin CreatorOnly,
           t = Creator /\ point \in Unmade => task[t].pc \in Unmade,
           point = "stopOnly" => "db" \in setup.kinds,
           t # Creator /\ point \in Unbegun => task[t].pc \in Unbegun,
           t # Creator /\ point \in AfterBegin => task[t].pc \in AfterBegin,
           point \in (IF t = Creator THEN {"persist"} ELSE Unturned) =>
              task[t].pc \in (IF t = Creator THEN {"persist"} ELSE Unturned)
    PROVE  AgyInv'
<1>1. SuperOK /\ TurnOK(t) /\ PlaceOK(t)
  BY DEF AgyInv
<1>2. /\ Moves(t) /\ task'[t].pc = point /\ task'[t].prompt = task[t].prompt
      /\ task'[t].turn = task[t].turn
  BY Went DEF AgyInv, PlainOK
<1>3. TurnOK(t)'
  <2>1. CASE point \in HasTurn
    BY <1>1, <1>2, <2>1, GoesOn
  <2>2. CASE point \notin HasTurn
    BY <1>2, <2>2 DEF TurnOK, HasTurn
  <2> QED BY <2>1, <2>2
<1>4. \A p \in Prompt : Holds(t, p)' <=> Holds(t, p)
  BY <1>2 DEF Holds
<1>5. PlaceOK(t)'
  <2>1. UNCHANGED <<row, queuings, setup>>
    BY DEF RestStays
  <2> QED BY <1>1, <1>2, <1>4, <2>1 DEF PlaceOK
<1> QED BY <1>2, <1>3, <1>4, <1>5, MoveSupervised DEF RestStays, Ahead

(* A task that leaves a row nobody delivers keeps the invariant. *)
LEMMA LeaveKeeps ==
    ASSUME AgyInv, NEW t \in Task, Leave(t), Supervises, RestStays,
           \A p \in Prompt : Holds(t, p) /\ row[p].status = "sending" => "db" \in setup.kinds
    PROVE  AgyInv'
<1>1. Moves(t) /\ task'[t].pc = "idle"
  BY Left DEF AgyInv, PlainOK
<1>2. TurnOK(t)'
  BY <1>1 DEF TurnOK, HasTurn
<1>3. \A p \in Prompt : ~Holds(t, p)'
  BY <1>1 DEF Holds, BeforeRow
<1>4. PlaceOK(t)'
  BY <1>1, <1>3 DEF PlaceOK, Prompted, CreatorPoints, CreatorOnly, Unmade
<1> QED BY <1>1, <1>2, <1>3, <1>4, MoveSupervised DEF RestStays

(* A prompt whose first send is under way has no row yet. *)
LEMMA UnmadeRow ==
    ASSUME AgyInv, Creator \in Task, task[Creator].pc \in Unmade, NEW p \in Prompt, Holds(Creator, p)
    PROVE  row[p].status = "none" /\ queuings[p] = 0
<1>1. PlaceOK(Creator) /\ PromptOK(p) /\ queuings[p] \in Nat
  BY DEF AgyInv, PlainOK
<1> QED BY <1>1 DEF PlaceOK, PromptOK, Holds

(* A start that fails keeps the invariant. *)
LEMMA StartFailsKeeps ==
    ASSUME AgyInv, NEW t \in Task, StartFails(t), Supervises, RestStays,
           task[t].pc \in {"find", "spawn", "write", "reuse", "flush", "init", "kill"}
    PROVE  AgyInv'
<1>1. CASE t = Creator
  <2>1. Leave(t)
    BY <1>1 DEF StartFails
  <2>2. task[t].pc \in Unmade
    BY <1>1 DEF AgyInv, PlaceOK, CreatorPoints, CreatorOnly, Unmade
  <2> QED BY <1>1, <2>1, <2>2, UnmadeRow, LeaveKeeps
<1>2. CASE t # Creator
  <2>1. Goto(t, "fail")
    BY <1>2 DEF StartFails
  <2>2. "fail" \in Points /\ "fail" \notin HasTurn /\ "fail" \notin Unturned /\ "fail" \notin AfterBegin /\ "fail" \notin CreatorOnly
    BY DEF Points, HasTurn, Unturned, Unbegun, AfterBegin, CreatorOnly
  <2>3. task[t].pc \notin BeforeRow /\ "fail" \notin BeforeRow \cup {"write", "reuse"} /\ task[t].pc \in Prompted
    BY DEF BeforeRow, Prompted, Points
  <2>4. "fail" \notin Unbegun
    BY DEF Unbegun
  <2> QED BY <1>2, <2>1, <2>2, <2>3, <2>4, GotoKeeps
<1> QED BY <1>1, <1>2

-----------------------------------------------------------------------------
(* The supervisor may do nothing. *)
LEMMA NothingSupervises == ASSUME SuperOK, UNCHANGED <<turns, sess, work>> PROVE Supervises
BY SameTurns, WorkLess DEF Supervises, SuperOK

(* The tasks are the dispatchers and the creator, which is none of them. *)
LEMMA Places ==
    /\ Dispatcher \subseteq Task /\ Creator \in Task /\ Creator \notin Dispatcher
    /\ \A d \in Dispatcher : d # Creator
BY AgyAssumption DEF Task

(* ReadRuntime keeps the invariant. *)
LEMMA ReadRuntimeKeeps == ASSUME AgyInv, NEW d \in Dispatcher, ReadRuntime(d) PROVE AgyInv'
<1>1. Supervises /\ RestStays
  BY NothingSupervises DEF ReadRuntime, store, super, bounds, RestStays, AgyInv,
     PlainOK
<1>2. d \in Task /\ d # Creator
  BY Places
<1>3. \A p \in Prompt : ~Holds(d, p)
  BY DEF Holds, BeforeRow, ReadRuntime, At
<1>4. CASE Leave(d)
  BY <1>1, <1>2, <1>3, <1>4, LeaveKeeps
<1>5. CASE Goto(d, "head")
  <2>1. "head" \in Points
    BY DEF Points
  <2>2. Moves(d) /\ task'[d].pc = "head"
    BY <1>2, <1>5, <2>1, Went DEF AgyInv, PlainOK
  <2>3. TurnOK(d)'
    BY <2>2 DEF TurnOK, HasTurn
  <2>4. \A p \in Prompt : ~Holds(d, p)'
    BY <2>2 DEF Holds, BeforeRow
  <2>5. PlaceOK(d)'
    BY <1>2, <2>2, <2>4 DEF PlaceOK, Prompted, CreatorOnly
  <2> QED BY <1>1, <1>2, <1>3, <2>2, <2>3, <2>4, <2>5, MoveSupervised DEF RestStays
<1> QED BY <1>4, <1>5 DEF ReadRuntime

(* ReadHead keeps the invariant. *)
LEMMA ReadHeadKeeps == ASSUME AgyInv, NEW d \in Dispatcher, ReadHead(d) PROVE AgyInv'
<1>1. Supervises /\ RestStays
  BY NothingSupervises DEF ReadHead, store, super, bounds, RestStays, AgyInv,
     PlainOK
<1>2. d \in Task /\ d # Creator
  BY Places
<1>3. \A p \in Prompt : ~Holds(d, p)
  BY DEF Holds, BeforeRow, ReadHead, At
<1>4. CASE Leave(d)
  BY <1>1, <1>2, <1>3, <1>4, LeaveKeeps
<1>5. CASE ~Leave(d)
  <2>1. queue # <<>> /\ task' = [task EXCEPT ![d].pc = "claim", ![d].prompt = Head(queue)]
    BY <1>5 DEF ReadHead
  <2>2. Head(queue) \in Prompt
    <3>1. queue \in Seq(Prompt)
      BY DEF AgyInv, QueueOK
    <3> QED BY <2>1, <3>1, HeadTailProperties
  <2> DEFINE new == [task[d] EXCEPT !.pc = "claim", !.prompt = Head(queue)]
  <2>3. task[d] \in TaskType /\ task \in [Task -> TaskType]
    BY <1>2 DEF AgyInv, PlainOK
  <2>4. new \in TaskType /\ new.pc = "claim" /\ new.prompt = Head(queue)
    BY <2>2, <2>3 DEF TaskType, Points
  <2>5. task' = [task EXCEPT ![d] = new]
    BY <1>2, <2>1, <2>3 DEF TaskType
  <2> HIDE DEF new
  <2>6. Moves(d) /\ task'[d].pc = "claim" /\ task'[d].prompt = Head(queue)
    BY <1>2, <2>3, <2>4, <2>5, Moved
  <2>7. TurnOK(d)'
    BY <2>6 DEF TurnOK, HasTurn
  <2>8. \A p \in Prompt : ~Holds(d, p)'
    BY <2>6 DEF Holds, BeforeRow
  <2>9. PlaceOK(d)'
    BY <1>2, <2>2, <2>6, <2>8 DEF PlaceOK, Prompted, CreatorOnly
  <2> QED BY <1>1, <1>2, <1>3, <2>6, <2>7, <2>8, <2>9, MoveSupervised DEF RestStays
<1> QED BY <1>4, <1>5

(* A dispatcher sets off with the binding of the moment. *)
LEMMA SetOff ==
    ASSUME AgyInv, NEW d \in Dispatcher, NEW point \in {"runtime", "drop"}, At(d, "idle"), binding # None,
           task' = [task EXCEPT ![d] = [Idle EXCEPT !.pc = point, !.conv = binding]],
           UNCHANGED <<store, binding, convs, activation, super, bounds>>
    PROVE  AgyInv'
<1>1. Supervises /\ RestStays
  BY NothingSupervises DEF store, super, bounds, RestStays, AgyInv, PlainOK
<1>2. d \in Task /\ d # Creator
  BY Places
<1> DEFINE new == [Idle EXCEPT !.pc = point, !.conv = binding]
<1>3. new \in TaskType /\ new.pc = point /\ new.prompt = None
  <2>1. binding \in Int \cup {None} /\ point \in Points
    BY DEF AgyInv, PlainOK, Points
  <2>2. Idle \in TaskType /\ Idle.prompt = None
    BY AgyAssumption DEF Idle, TaskType, Points
  <2> QED BY <2>1, <2>2 DEF TaskType
<1> HIDE DEF new
<1>4. Moves(d) /\ task'[d].pc = point /\ task'[d].prompt = None
  <2>1. task \in [Task -> TaskType] /\ task' = [task EXCEPT ![d] = new]
    BY DEF AgyInv, PlainOK, new
  <2> QED BY <1>2, <1>3, <2>1, Moved
<1>5. TurnOK(d)'
  BY <1>4 DEF TurnOK, HasTurn
<1>6. \A p \in Prompt : ~Holds(d, p)' /\ ~Holds(d, p)
  BY <1>4, AgyAssumption DEF Holds, BeforeRow, At
<1>7. PlaceOK(d)'
  BY <1>2, <1>4, <1>6 DEF PlaceOK, Prompted, CreatorOnly
<1> QED BY <1>1, <1>2, <1>4, <1>5, <1>6, <1>7, MoveSupervised DEF RestStays

(* Route keeps the invariant. *)
LEMMA RouteKeeps == ASSUME AgyInv, NEW d \in Dispatcher, Route(d) PROVE AgyInv'
<1>1. Supervises /\ RestStays
  BY NothingSupervises DEF Route, NoFault, Fault, store, super, RestStays, AgyInv,
     PlainOK
<1>2. d \in Task /\ d # Creator /\ task[d].pc = "route"
  BY Places DEF Route, At
<1>3. \E point \in {"recheck", "fail"} : Goto(d, point)
  BY DEF Route
<1> QED BY <1>1, <1>2, <1>3, GotoKeeps DEF Points, BeforeRow, HasTurn, Prompted,
   CreatorOnly, Unbegun, AfterBegin, Unturned

(* Recheck keeps the invariant. *)
LEMMA RecheckKeeps == ASSUME AgyInv, NEW d \in Dispatcher, Recheck(d) PROVE AgyInv'
<1>1. Supervises /\ RestStays
  BY NothingSupervises DEF Recheck, store, super, bounds, RestStays, AgyInv, PlainOK
<1>2. d \in Task /\ d # Creator /\ task[d].pc = "recheck"
  BY Places DEF Recheck, At
<1>3. \E point \in {"fail", "discard", "begin"} : Goto(d, point)
  BY DEF Recheck
<1> QED BY <1>1, <1>2, <1>3, GotoKeeps DEF Points, BeforeRow, HasTurn, Prompted,
   CreatorOnly, Unbegun, AfterBegin, Unturned

(* DiscardForFresh keeps the invariant. *)
LEMMA DiscardForFreshKeeps == ASSUME AgyInv, NEW d \in Dispatcher, DiscardForFresh(d) PROVE AgyInv'
<1>1. Supervises /\ RestStays
  BY DiscardedSupervises DEF DiscardForFresh, store, bounds, RestStays, AgyInv,
     PlainOK
<1>2. d \in Task /\ d # Creator /\ task[d].pc = "discard"
  BY Places DEF DiscardForFresh, At
<1>3. Goto(d, "begin")
  BY DEF DiscardForFresh
<1> QED BY <1>1, <1>2, <1>3, GotoKeeps DEF Points, BeforeRow, HasTurn, Prompted,
   CreatorOnly, Unbegun, AfterBegin, Unturned

(* ReplaceSession keeps the invariant. *)
LEMMA ReplaceSessionKeeps == ASSUME AgyInv, NEW d \in Dispatcher, ReplaceSession(d) PROVE AgyInv'
<1>1. Supervises /\ RestStays
  BY DiscardedSupervises DEF ReplaceSession, store, bounds, RestStays, AgyInv,
     PlainOK
<1>2. d \in Task /\ d # Creator /\ task[d].pc = "replace"
  BY Places DEF ReplaceSession, At
<1>3. Goto(d, "spawn")
  BY DEF ReplaceSession
<1> QED BY <1>1, <1>2, <1>3, GotoKeeps DEF Points, BeforeRow, HasTurn, Prompted,
   CreatorOnly, Unbegun, AfterBegin, Unturned

(* CompactDrops keeps the invariant. *)
LEMMA CompactDropsKeeps == ASSUME AgyInv, NEW d \in Dispatcher, CompactDrops(d) PROVE AgyInv'
<1>1. Supervises /\ RestStays
  BY DiscardedSupervises DEF CompactDrops, store, bounds, RestStays, AgyInv, PlainOK
<1>2. d \in Task /\ d # Creator /\ task[d].pc = "drop"
  BY Places DEF CompactDrops, At
<1>3. Goto(d, "compacted")
  BY DEF CompactDrops
<1> QED BY <1>1, <1>2, <1>3, GotoKeeps DEF Points, BeforeRow, HasTurn, Prompted,
   CreatorOnly, Unbegun, AfterBegin, Unturned

(* A conversation that a turn of the process was told. *)
LEMMA ConvIsTyped == ASSUME SuperOK, NEW n \in 1 .. Len(turns) PROVE turns[turns[n].host].conv \in Int \cup {None} /\ turns[n].conv \in Int \cup {None}
<1>1. turns[n] \in TurnType /\ turns[n].host \in 1 .. Len(turns)
  BY TurnIsTyped DEF SuperOK
<1>2. turns[turns[n].host] \in TurnType
  BY <1>1, TurnIsTyped
<1> QED BY <1>1, <1>2 DEF TurnType

(* Rotate keeps the invariant. *)
LEMMA RotateKeeps == ASSUME AgyInv, NEW d \in Dispatcher, Rotate(d) PROVE AgyInv'
<1>1. d \in Task /\ d # Creator /\ task[d].pc = "rotate" /\ SuperOK /\ TurnOK(d)
  BY Places DEF Rotate, At, AgyInv
<1>2. task[d].turn \in 1 .. Len(turns)
  BY <1>1 DEF TurnOK, HasTurn
<1>3. Supervises
  BY <1>1, NothingSupervises DEF Rotate, super
<1>4. UNCHANGED <<queue, row, queuings, convs, activation, exposed, crashes, setup>> /\ faults' \in Nat
  BY DEF Rotate, store, NoFault, Fault, AgyInv, PlainOK
<1>5. \/ binding' = turns[turns[task[d].turn].host].conv /\ Goto(d, "persist")
      \/ binding' = binding /\ Goto(d, "stopOnly") /\ "db" \in setup.kinds
  BY DEF Rotate, Fault
<1>6. RestStays
  BY <1>1, <1>2, <1>4, <1>5, ConvIsTyped DEF RestStays, AgyInv, PlainOK
<1> QED BY <1>1, <1>3, <1>5, <1>6, GotoKeeps
   DEF Points, BeforeRow, HasTurn, Prompted, CreatorOnly, Unbegun, AfterBegin,
      Unturned

(* CreateBinds keeps the invariant. *)
LEMMA CreateBindsKeeps == ASSUME AgyInv, CreateBinds PROVE AgyInv'
<1>1. Creator \in Task /\ task[Creator].pc = "bind" /\ SuperOK /\ TurnOK(Creator)
  BY Places DEF CreateBinds, At, AgyInv
<1>2. task[Creator].turn \in 1 .. Len(turns)
  BY <1>1 DEF TurnOK, HasTurn
<1>3. Supervises
  BY <1>1, NothingSupervises DEF CreateBinds, super
<1>4. UNCHANGED <<queue, row, queuings, convs, activation, exposed, crashes, setup>> /\ faults' \in Nat
  BY DEF CreateBinds, store, NoFault, Fault, AgyInv, PlainOK
<1>5. \/ binding' = turns[task[Creator].turn].conv /\ Goto(Creator, "enqueue")
      \/ binding' = binding /\ Goto(Creator, "stopOnly") /\ "db" \in setup.kinds
  BY DEF CreateBinds, Fault
<1>6. RestStays
  BY <1>1, <1>2, <1>4, <1>5, ConvIsTyped DEF RestStays, AgyInv, PlainOK
<1> QED BY <1>1, <1>3, <1>5, <1>6, GotoKeeps
   DEF Points, BeforeRow, HasTurn, Prompted, CreatorPoints, CreatorOnly, Unmade,
      Unbegun, AfterBegin, Unturned

(* CreateRoutes keeps the invariant. *)
LEMMA CreateRoutesKeeps == ASSUME AgyInv, CreateRoutes PROVE AgyInv'
<1>1. Creator \in Task /\ task[Creator].pc = "create" /\ Supervises /\ RestStays
  BY Places, NothingSupervises DEF CreateRoutes, At, NoFault, Fault, store, super,
     RestStays, AgyInv, PlainOK
<1>2. CASE Goto(Creator, "spawn")
  BY <1>1, <1>2, GotoKeeps DEF Points, BeforeRow, HasTurn, Prompted, CreatorPoints,
     CreatorOnly, Unmade, Unbegun, AfterBegin, Unturned
<1>3. CASE Leave(Creator)
  BY <1>1, <1>3, UnmadeRow, LeaveKeeps DEF Unmade
<1> QED BY <1>2, <1>3 DEF CreateRoutes

(* StopOwn keeps the invariant. *)
LEMMA StopOwnKeeps == ASSUME AgyInv, NEW t \in Task, StopOwn(t) PROVE AgyInv'
<1>1. SuperOK /\ TurnOK(t) /\ PlaceOK(t) /\ task[t].pc \in {"stop", "stopOnly"}
  BY DEF AgyInv, StopOwn, At
<1>2. task[t].turn \in 1 .. Len(turns)
  BY <1>1 DEF TurnOK, HasTurn
<1>3. Supervises /\ RestStays
  BY <1>1, <1>2, StoppedSupervises DEF StopOwn, store, bounds, RestStays, AgyInv,
     PlainOK
<1>4. CASE task[t].pc = "stop"
  <2>1. Goto(t, "fail")
    BY <1>4 DEF StopOwn, At
  <2> QED BY <1>3, <1>4, <2>1, GotoKeeps
     DEF Points, BeforeRow, HasTurn, Prompted, CreatorPoints, CreatorOnly, Unmade,
        Unbegun, AfterBegin, Unturned
<1>5. CASE task[t].pc = "stopOnly"
  <2>1. Leave(t) /\ "db" \in setup.kinds
    BY <1>1, <1>5 DEF StopOwn, At, PlaceOK
  <2> QED BY <1>3, <2>1, LeaveKeeps
<1> QED BY <1>1, <1>4, <1>5

(* KillAfterTimeout keeps the invariant. *)
LEMMA KillAfterTimeoutKeeps == ASSUME AgyInv, NEW t \in Task, KillAfterTimeout(t) PROVE AgyInv'
<1>1. Supervises
  BY KilledSupervises DEF KillAfterTimeout, AgyInv
<1>2. RestStays /\ task[t].pc = "kill"
  BY DEF KillAfterTimeout, At, Released, store, bounds, RestStays, AgyInv, PlainOK
<1> QED BY <1>1, <1>2, StartFailsKeeps DEF KillAfterTimeout

(* AwaitInit keeps the invariant. *)
LEMMA AwaitInitKeeps == ASSUME AgyInv, NEW t \in Task, AwaitInit(t) PROVE AgyInv'
<1>1. Supervises /\ RestStays /\ task[t].pc = "init" /\ PlaceOK(t)
  BY NothingSupervises DEF AwaitInit, At, Released, store, super, bounds,
     RestStays, AgyInv, PlainOK
<1>2. CASE StartFails(t)
  BY <1>1, <1>2, StartFailsKeeps
<1>3. CASE Goto(t, "kill")
  BY <1>1, <1>3, GotoKeeps DEF Points, BeforeRow, HasTurn, Prompted, CreatorPoints,
     CreatorOnly, Unmade, Unbegun, AfterBegin, Unturned
<1>4. CASE Goto(t, Started(t))
  <2>1. CASE t = Creator
    BY <1>1, <1>4, <2>1, GotoKeeps DEF Started, Points, BeforeRow, HasTurn,
       Prompted, CreatorPoints, CreatorOnly, Unmade, Unbegun, AfterBegin, Unturned
  <2>2. CASE t # Creator
    <3>1. \E point \in {"rotate", "persist"} : Goto(t, point)
      BY <1>4, <2>2 DEF Started
    <3> QED BY <1>1, <2>2, <3>1, GotoKeeps
       DEF Points, BeforeRow, HasTurn, Prompted, CreatorOnly, Unbegun, AfterBegin,
          Unturned
  <2> QED BY <2>1, <2>2
<1> QED BY <1>2, <1>3, <1>4 DEF AwaitInit

(* Spawned keeps the invariant. *)
LEMMA SpawnedKeeps == ASSUME AgyInv, NEW d \in Dispatcher, Spawned(d) PROVE AgyInv'
BY SetOff DEF Spawned, MayStart

(* CompactAsked keeps the invariant. *)
LEMMA CompactAskedKeeps == ASSUME AgyInv, NEW d \in Dispatcher, CompactAsked(d) PROVE AgyInv'
BY SetOff DEF CompactAsked, MayStart

(* FindSession keeps the invariant. *)
LEMMA FindSessionKeeps == ASSUME AgyInv, NEW d \in Dispatcher, FindSession(d) PROVE AgyInv'
<1>1. d \in Task /\ d # Creator /\ task[d].pc = "find" /\ SuperOK /\ PlaceOK(d)
  BY Places DEF FindSession, At, AgyInv
<1>2. Supervises /\ RestStays
  <2>1. activation' \in Task \cup {None}
    BY <1>1 DEF FindSession, AgyInv, PlainOK
  <2> QED BY <1>1, <2>1, NothingSupervises
     DEF FindSession, store, super, bounds, RestStays, AgyInv, PlainOK
<1>3. CASE StartFails(d)
  BY <1>1, <1>2, <1>3, StartFailsKeeps
<1>4. CASE \E point \in {"spawn", "replace"} : Goto(d, point)
  BY <1>1, <1>2, <1>4, GotoKeeps DEF Points, BeforeRow, HasTurn, Prompted,
     CreatorOnly, Unbegun, AfterBegin, Unturned
<1>5. ASSUME NEW k \in Sessions(task[d].conv), task' = [task EXCEPT ![d].pc = "reuse", ![d].turn = k]
      PROVE  AgyInv'
  <2> DEFINE new == [task[d] EXCEPT !.pc = "reuse", !.turn = k]
  <2>1. task[d] \in TaskType /\ task \in [Task -> TaskType]
    BY <1>1 DEF AgyInv, PlainOK
  <2>2. k \in DOMAIN sess /\ k \in 1 .. Len(turns) /\ turns[k].host = k /\ turns[k].exit # "lost"
    BY <1>1, <1>5 DEF Sessions, SuperOK
  <2>3. k \in 0 .. MaxTurns
    BY <1>1, <2>2, AgyAssumption, TurnsDomain DEF SuperOK
  <2>4. new \in TaskType /\ new.pc = "reuse" /\ new.prompt = task[d].prompt /\ new.turn = k
    BY <2>1, <2>3 DEF TaskType, Points
  <2>5. task' = [task EXCEPT ![d] = new]
    BY <1>1, <1>5, <2>1 DEF TaskType
  <2> HIDE DEF new
  <2>6. Moves(d) /\ task'[d].pc = "reuse" /\ task'[d].prompt = task[d].prompt /\ task'[d].turn = k
    BY <1>1, <2>1, <2>4, <2>5, Moved
  <2>7. TurnOK(d)'
    <3>1. UNCHANGED turns
      BY DEF FindSession, super
    <3> QED BY <2>2, <2>6, <3>1 DEF TurnOK, HasTurn
  <2>8. \A p \in Prompt : Holds(d, p)' <=> Holds(d, p)
    BY <1>1, <2>6 DEF Holds, BeforeRow
  <2>9. PlaceOK(d)'
    <3>1. UNCHANGED <<row, queuings, setup>>
      BY <1>2 DEF RestStays
    <3> QED BY <1>1, <2>6, <2>8, <3>1 DEF PlaceOK, Prompted, Points, CreatorOnly,
       Unbegun, AfterBegin
  <2>10. Ahead(d)' => Ahead(d)
    BY <1>1, <2>6 DEF Ahead, Unturned
  <2> QED BY <1>1, <1>2, <2>6, <2>7, <2>8, <2>9, <2>10, MoveSupervised DEF RestStays
<1> QED BY <1>3, <1>4, <1>5 DEF FindSession

-----------------------------------------------------------------------------
(* Two tasks that await the same turn are one. *)
LEMMA OwnTurn ==
    ASSUME AgyInv, NEW t \in Task, NEW u \in Task, task[t].pc \in HasTurn, task[u].pc \in HasTurn,
           task[t].turn = task[u].turn
    PROVE  t = u
<1> DEFINE n == task[t].turn
<1>1. n \in 1 .. Len(turns) /\ turns[n].prompt = task[t].prompt /\ turns[n].prompt = task[u].prompt
  BY DEF AgyInv, TurnOK
<1>2. turns[n].prompt \in Prompt
  BY <1>1, TurnIsTyped DEF TurnType, AgyInv
<1>3. Holds(t, turns[n].prompt) /\ Holds(u, turns[n].prompt)
  BY <1>1 DEF Holds, HasTurn, BeforeRow
<1> QED BY <1>2, <1>3 DEF AgyInv, PromptOK, Sole

(* The session takes the turn that was started with it. *)
LEMMA WriteFirstKeeps ==
    ASSUME AgyInv, NEW t \in Task, At(t, "write"), NEW k, k = task[t].turn, k \in DOMAIN sess,
           sess' = [sess EXCEPT ![k] = [phase |-> "active", turn |-> k]],
           task' = [task EXCEPT ![t].pc = "flush", ![t].turn = k],
           UNCHANGED <<store, binding, convs, activation, turns, work, bounds>>
    PROVE  AgyInv'
<1>1. SuperOK /\ TurnOK(t) /\ PlaceOK(t) /\ task[t].pc = "write" /\ task[t] \in TaskType /\ task \in [Task -> TaskType]
  BY DEF AgyInv, PlainOK, At
<1>2. k \in 1 .. Len(turns) /\ turns[k].host = k /\ turns[k].outcome = "none" /\ turns[k].exit # "lost"
      /\ \A j \in DOMAIN sess : sess[j].turn # k
  BY <1>1 DEF TurnOK, HasTurn, SuperOK
<1>3. Moves(t) /\ task'[t].pc = "flush" /\ task'[t].prompt = task[t].prompt /\ task'[t].turn = task[t].turn
  <2> DEFINE new == [task[t] EXCEPT !.pc = "flush"]
  <2>1. new \in TaskType /\ new.pc = "flush" /\ new.prompt = task[t].prompt /\ new.turn = task[t].turn
    BY <1>1 DEF TaskType, Points
  <2>2. task' = [task EXCEPT ![t] = new]
    BY <1>1 DEF TaskType
  <2> HIDE DEF new
  <2> QED BY <1>1, <2>1, <2>2, Moved
<1>4. MaxTurns \in Nat /\ k \in 0 .. MaxTurns
  BY <1>1, <1>2, AgyAssumption, TurnsDomain DEF SuperOK
<1>5. /\ sess' \in [DOMAIN sess -> SessType] /\ DOMAIN sess' = DOMAIN sess
      /\ sess'[k].turn = k /\ \A j \in DOMAIN sess : j # k => sess'[j] = sess[j]
  <2>1. [phase |-> "active", turn |-> k] \in SessType
    BY <1>4 DEF SessType
  <2> QED BY <1>1, <2>1 DEF SuperOK
<1>6. SuperOK'
  BY <1>1, <1>2, <1>5 DEF SuperOK
<1>7. SameRecords /\ LostOK'
  BY DEF SameRecords, bounds, store, AgyInv, LostOK, LostTurnOK, Gone
<1>8. ASSUME NEW u \in Task \ {t} PROVE TurnOK(u)'
  <2>1. task'[u] = task[u] /\ TurnOK(u) /\ UNCHANGED turns
    BY <1>3 DEF Moves, AgyInv
  <2>2. task[u].pc = "write" => \A j \in DOMAIN sess' : sess'[j].turn # task[u].turn
    <3>1. SUFFICES ASSUME task[u].pc = "write" PROVE \A j \in DOMAIN sess' : sess'[j].turn # task[u].turn
      OBVIOUS
    <3>2. task[u].turn # k
      BY <1>1, <1>8, <3>1, OwnTurn DEF HasTurn
    <3> QED BY <1>5, <2>1, <3>1, <3>2 DEF TurnOK
  <2> QED BY <2>1, <2>2 DEF TurnOK
<1>9. TurnOK(t)'
  BY <1>1, <1>3 DEF TurnOK, HasTurn
<1>10. \A p \in Prompt : Holds(t, p)' <=> Holds(t, p)
  BY <1>1, <1>3 DEF Holds, BeforeRow
<1>11. PlaceOK(t)'
  BY <1>1, <1>3, <1>10 DEF PlaceOK, Prompted, Points, CreatorPoints, CreatorOnly,
     Unmade, Unbegun, AfterBegin, store, bounds
<1>12. Ahead(t)' => Ahead(t)
  BY <1>3 DEF Ahead, Unturned, Unbegun
<1>13. UNCHANGED <<queue, row, queuings, exposed, setup, crashes>> /\ convs' \in Nat /\ faults' \in Nat
       /\ binding' \in Int \cup {None} /\ activation' \in Task \cup {None}
  BY DEF store, bounds, AgyInv, PlainOK
<1> QED BY <1>3, <1>6, <1>7, <1>8, <1>9, <1>10, <1>11, <1>12, <1>13, MoveKeeps

-----------------------------------------------------------------------------
(* A prompt counts finitely many turns. *)
LEMMA CountedFinite == ASSUME SuperOK, NEW p PROVE IsFiniteSet(Counted(p)) /\ Cardinality(Counted(p)) \in Nat
<1>1. IsFiniteSet(1 .. Len(turns))
  BY TurnsDomain, FS_Interval
<1>2. Counted(p) \subseteq 1 .. Len(turns)
  BY DEF Counted
<1> QED BY <1>1, <1>2, FS_Subset, FS_CardinalityType

(* Task t starts one more turn. *)
Adds(t, new) ==
    /\ new \in TurnType /\ new.prompt = task[t].prompt /\ new.first = (t = Creator)
    /\ new.outcome = "none" /\ new.final = "none" /\ new.exit = "wait"
    /\ turns' = Append(turns, new) /\ Len(turns) < MaxTurns

(* A new turn is the last one, and leaves the others as they are. *)
LEMMA TurnAdded ==
    ASSUME SuperOK, NEW t \in Task, NEW new, Adds(t, new)
    PROVE  /\ turns' \in Seq(TurnType) /\ Len(turns') = Len(turns) + 1 /\ Len(turns') <= MaxTurns
           /\ turns'[Len(turns')] = new
           /\ \A n \in 1 .. Len(turns) : turns'[n] = turns[n]
<1>1. turns \in Seq(TurnType) /\ Len(turns) \in Nat /\ MaxTurns \in Nat
  BY TurnsDomain, AgyAssumption DEF SuperOK
<1> QED BY <1>1, AppendProperties DEF Adds

(* The records of the supervisor with one more turn. *)
LEMMA AddKeeps ==
    ASSUME AgyInv, NEW t \in Task, NEW new, Adds(t, new), Moves(t),
           task[t].pc \in {"spawn", "reuse"}, task'[t].pc \in {"write", "flush"},
           task'[t].prompt = task[t].prompt,
           SuperOK', LostOK', \A u \in Task : TurnOK(u)',
           UNCHANGED <<queue, row, queuings, convs, exposed, setup, crashes>>, faults' \in Nat,
           binding' \in Int \cup {None}, activation' \in Task \cup {None}
    PROVE  AgyInv'
<1>1. SuperOK /\ PlaceOK(t) /\ Len(turns) \in Nat
  BY TurnsDomain DEF AgyInv
<1>2. /\ Len(turns') = Len(turns) + 1 /\ turns'[Len(turns')] = new
      /\ \A n \in 1 .. Len(turns) : turns'[n] = turns[n]
  BY <1>1, TurnAdded
<1>3. PlainOK'
  BY DEF AgyInv, PlainOK, Moves
<1>4. QueueOK(queue, row)'
  BY DEF AgyInv, QueueOK
<1>5. \A u \in Task, p \in Prompt : Holds(u, p)' <=> Holds(u, p)
  BY DEF Moves, Holds, BeforeRow
<1>6. PlaceOK(t)'
  BY <1>1, <1>5 DEF PlaceOK, Prompted, Points, CreatorPoints, CreatorOnly, Unmade,
     Unbegun, AfterBegin
<1>7. ASSUME NEW u \in Task \ {t} PROVE PlaceOK(u)'
  <2>1. task'[u] = task[u] /\ PlaceOK(u)
    BY <1>7 DEF Moves, AgyInv
  <2> QED BY <2>1, OtherPlaces
<1>8. ASSUME NEW p \in Prompt PROVE PromptOK(p)'
  <2>1. PromptOK(p) /\ queuings[p] \in Nat
    BY DEF AgyInv, PlainOK
  <2>2. \A n \in 1 .. Len(turns') : /\ Awaited(n, p)' <=> Awaited(n, p)
                                    /\ Awaited(n, p)' => turns'[n].host = turns[n].host
    BY <1>1, <1>2 DEF Awaited, Adds
  <2>3. \A n \in 1 .. Len(turns') : turns'[n].prompt = p /\ turns'[n].final # "none" => queuings[p] > 0
    BY <1>1, <1>2, <2>1 DEF Adds, PromptOK
  <2>4. "db" \notin setup.kinds /\ row[p].status = "sending" =>
           (\E u \in Task : Holds(u, p)') \/ \E n \in 1 .. Len(turns') : Awaited(n, p)'
    <3>1. \A n \in 1 .. Len(turns) : n \in 1 .. Len(turns')
      BY <1>1, <1>2
    <3> QED BY <1>5, <2>1, <2>2, <3>1 DEF PromptOK
  <2>5. Cardinality(Counted(p)') <= queuings[p] /\ (Due(p)' => Cardinality(Counted(p)') < queuings[p])
    <3>1. CASE p = task[t].prompt /\ t # Creator
      <4>1. Holds(t, p) /\ Ahead(t)
        BY <3>1 DEF Holds, BeforeRow, Ahead, Unturned
      <4>2. Cardinality(Counted(p)) < queuings[p]
        BY <2>1, <4>1 DEF PromptOK, Due
      <4>3. Counted(p)' = Counted(p) \cup {Len(turns) + 1}
        <5>1. 1 .. Len(turns') = 1 .. Len(turns) \cup {Len(turns) + 1}
          BY <1>1, <1>2
        <5>2. turns'[Len(turns) + 1].prompt = p /\ ~turns'[Len(turns) + 1].first
          BY <1>2, <3>1 DEF Adds
        <5> QED BY <1>2, <5>1, <5>2 DEF Counted
      <4> DEFINE S == Counted(p)
      <4>4. Cardinality(Counted(p)') \in Nat /\ Cardinality(Counted(p)') <= Cardinality(S) + 1 /\ Cardinality(S) \in Nat
        <5>1. IsFiniteSet(S) /\ Cardinality(S) \in Nat
          BY <1>1, CountedFinite
        <5>2. Counted(p)' = S \cup {Len(turns) + 1}
          BY <4>3
        <5> HIDE DEF S
        <5>3. /\ IsFiniteSet(S \cup {Len(turns) + 1})
              /\ Cardinality(S \cup {Len(turns) + 1}) = IF Len(turns) + 1 \in S THEN Cardinality(S) ELSE Cardinality(S) + 1
          BY <5>1, FS_AddElement
        <5> QED BY <5>1, <5>2, <5>3
      <4>5. ~Due(p)'
        <5>1. row[p].status = "sending"
          BY <1>1, <3>1, <4>1 DEF PlaceOK, AfterBegin, Unbegun
        <5>2. \A u \in Task : Holds(u, p) => u = t
          BY <2>1, <4>1 DEF PromptOK, Sole
        <5>3. ~Ahead(t)'
          BY <3>1 DEF Ahead, Unturned, Unbegun
        <5> QED BY <1>5, <5>1, <5>2, <5>3 DEF Due, Ahead
      <4>6. Cardinality(Counted(p)') <= queuings[p]
        <5> DEFINE c == Cardinality(Counted(p)')
        <5>1. c \in Nat /\ c <= Cardinality(S) + 1 /\ Cardinality(S) \in Nat /\ Cardinality(S) < queuings[p]
          BY <4>2, <4>4
        <5> HIDE DEF c, S
        <5>2. c <= queuings[p]
          BY <2>1, <5>1
        <5> QED BY <5>2 DEF c
      <4> QED BY <4>5, <4>6
    <3>2. CASE ~(p = task[t].prompt /\ t # Creator)
      <4>1. Counted(p)' = Counted(p)
        <5>1. 1 .. Len(turns') = 1 .. Len(turns) \cup {Len(turns) + 1} /\ Len(turns) + 1 \notin 1 .. Len(turns)
          BY <1>1, <1>2
        <5>2. ~(turns'[Len(turns) + 1].prompt = p /\ (turns'[Len(turns) + 1].first => turns'[Len(turns) + 1].final # "none"))
          BY <1>2, <3>2 DEF Adds
        <5> QED BY <1>2, <5>1, <5>2 DEF Counted
      <4>2. Due(p)' => Due(p)
        <5>1. ASSUME NEW u \in Task, Holds(u, p)', Ahead(u)' PROVE Holds(u, p) /\ Ahead(u)
          <6>1. u # t
            BY <3>2, <5>1 DEF Ahead, Holds, Unturned, Unbegun
          <6> QED BY <1>5, <5>1, <6>1 DEF Moves, Ahead
        <5> QED BY <5>1 DEF Due
      <4> QED BY <2>1, <4>1, <4>2 DEF PromptOK
    <3> QED BY <3>1, <3>2
  <2> QED BY <1>5, <2>1, <2>2, <2>3, <2>4, <2>5, PromptKeeps
<1> QED BY <1>3, <1>4, <1>6, <1>7, <1>8 DEF AgyInv

(* What NewTurn makes is a record of a turn. *)
LEMMA TurnTyped ==
    ASSUME AgyInv, NEW t \in Task, task[t].prompt \in Prompt, NEW k \in 1 .. MaxTurns
    PROVE  /\ Turn(t, k) \in TurnType /\ Turn(t, k).prompt = task[t].prompt /\ Turn(t, k).host = k
           /\ Turn(t, k).first = (t = Creator) /\ Turn(t, k).outcome = "none"
           /\ Turn(t, k).final = "none" /\ Turn(t, k).exit = "wait"
<1>1. task[t].conv \in Int \cup {None}
  BY DEF AgyInv, PlainOK, TaskType
<1> QED BY <1>1 DEF Turn, TurnType

(* The tasks that stay keep their turns when there is one more. *)
LEMMA AddTurnOK ==
    ASSUME SuperOK, NEW t \in Task, NEW new, Adds(t, new), NEW u \in Task, TurnOK(u), task'[u] = task[u],
           task[u].pc = "write" => \A j \in DOMAIN sess' : sess'[j].turn # task[u].turn
    PROVE  TurnOK(u)'
<1>1. Len(turns) \in Nat /\ Len(turns') = Len(turns) + 1 /\ \A n \in 1 .. Len(turns) : turns'[n] = turns[n]
  BY TurnAdded, TurnsDomain
<1>2. \A n \in 1 .. Len(turns) : n \in 1 .. Len(turns') /\ turns[n].host \in 1 .. Len(turns)
  BY <1>1 DEF SuperOK
<1> QED BY <1>1, <1>2 DEF TurnOK, HasTurn

(* One more turn loses no process. *)
LEMMA AddLost ==
    ASSUME SuperOK, LostOK, NEW t \in Task, NEW new, Adds(t, new), UNCHANGED <<row, queuings, exposed>>,
           \A k \in DOMAIN work' : work'[k] = 0 \/ (k \in DOMAIN work /\ work'[k] = work[k])
    PROVE  LostOK'
<1>1. Len(turns) \in Nat /\ Len(turns') = Len(turns) + 1 /\ \A n \in 1 .. Len(turns) : turns'[n] = turns[n]
  BY TurnAdded, TurnsDomain
<1>2. ASSUME NEW k \in DOMAIN work', work'[k] # 0, turns'[k].exit = "lost" PROVE LostTurnOK(k)'
  <2>1. k \in DOMAIN work /\ work'[k] = work[k]
    BY <1>2
  <2>2. k \in 1 .. Len(turns) /\ work[k] \in 1 .. Len(turns)
    BY <1>2, <2>1 DEF SuperOK
  <2> QED BY <1>1, <1>2, <2>1, <2>2 DEF LostOK, LostTurnOK, Gone
<1>3. \A k \in DOMAIN work' : LostTurnOK(k)'
  BY <1>2 DEF LostTurnOK
<1> QED BY <1>3 DEF LostOK

(* A task takes a turn of its own. *)
LEMMA TakesTurn ==
    ASSUME AgyInv, NEW t \in Task, NEW point \in {"write", "flush"}, NEW n \in 0 .. MaxTurns,
           task' = [task EXCEPT ![t].pc = point, ![t].turn = n]
    PROVE  Moves(t) /\ task'[t].pc = point /\ task'[t].prompt = task[t].prompt /\ task'[t].turn = n
<1> DEFINE new == [task[t] EXCEPT !.pc = point, !.turn = n]
<1>1. task[t] \in TaskType /\ task \in [Task -> TaskType]
  BY DEF AgyInv, PlainOK
<1>2. new \in TaskType /\ new.pc = point /\ new.prompt = task[t].prompt /\ new.turn = n
  BY <1>1 DEF TaskType, Points
<1>3. task' = [task EXCEPT ![t] = new]
  BY <1>1 DEF TaskType
<1> HIDE DEF new
<1> QED BY <1>1, <1>2, <1>3, Moved

(* A task that starts a turn in a process of its own keeps the invariant. *)
LEMMA SpawnAddsKeeps ==
    ASSUME AgyInv, NEW t \in Task, At(t, "spawn"), NEW k, k = Len(turns) + 1, Len(turns) < MaxTurns,
           turns' = Append(turns, Turn(t, k)),
           sess' = [j \in DOMAIN sess \cup {k} |-> IF j = k THEN [phase |-> "idle", turn |-> 0] ELSE sess[j]],
           work' = [j \in DOMAIN work \cup {k} |-> IF j = k THEN 0 ELSE work[j]],
           task' = [task EXCEPT ![t].pc = "write", ![t].turn = k],
           UNCHANGED <<store, binding, convs, activation, exposed, setup, crashes>>, faults' \in Nat
    PROVE  AgyInv'
<1>1. /\ SuperOK /\ LostOK /\ task[t].pc = "spawn" /\ task[t].prompt \in Prompt
      /\ Len(turns) \in Nat /\ MaxTurns \in Nat /\ k \in 1 .. MaxTurns
  BY TurnsDomain, AgyAssumption DEF AgyInv, At, PlaceOK, Prompted, Points
<1> DEFINE new == Turn(t, k)
<1>2. Adds(t, new) /\ new.host = k
  BY <1>1, TurnTyped DEF Adds
<1> HIDE DEF new
<1>3. /\ turns' \in Seq(TurnType) /\ Len(turns') = k /\ Len(turns') <= MaxTurns /\ turns'[k] = new
      /\ \A n \in 1 .. Len(turns) : turns'[n] = turns[n]
  BY <1>1, <1>2, TurnAdded
<1>4. Moves(t) /\ task'[t].pc = "write" /\ task'[t].prompt = task[t].prompt /\ task'[t].turn = k
  <2>1. k \in 0 .. MaxTurns
    BY <1>1
  <2>2. "write" \in {"write", "flush"}
    OBVIOUS
  <2> QED BY <2>1, <2>2, TakesTurn, Zenon
<1>5. \A n \in 1 .. Len(turns') : n \in 1 .. Len(turns) \/ n = k
  BY <1>1, <1>3
<1>6. /\ sess' \in [DOMAIN sess' -> SessType] /\ work' \in [DOMAIN work' -> 0 .. MaxTurns]
      /\ DOMAIN sess' = DOMAIN sess \cup {k} /\ DOMAIN work' = DOMAIN work \cup {k}
      /\ sess'[k].turn = 0 /\ work'[k] = 0 /\ k \notin DOMAIN sess /\ k \notin DOMAIN work
      /\ (\A j \in DOMAIN sess : sess'[j] = sess[j]) /\ (\A j \in DOMAIN work : work'[j] = work[j])
  BY <1>1 DEF SuperOK, SessType
<1>7. SuperOK'
  <2>1. \A n \in 1 .. Len(turns') : turns'[n].host \in 1 .. Len(turns') /\ turns'[turns'[n].host].host = turns'[n].host
    BY <1>1, <1>2, <1>3, <1>5 DEF SuperOK
  <2>2. ASSUME NEW j \in DOMAIN sess'
        PROVE  /\ j \in 1 .. Len(turns') /\ turns'[j].host = j /\ turns'[j].exit # "lost"
               /\ sess'[j].turn # 0 =>
                     /\ sess'[j].turn \in 1 .. Len(turns')
                     /\ turns'[sess'[j].turn].host = j /\ turns'[sess'[j].turn].outcome = "none"
    <3>1. CASE j = k
      BY <1>1, <1>2, <1>3, <1>6, <3>1 DEF Adds
    <3>2. CASE j \in DOMAIN sess
      BY <1>1, <1>3, <1>6, <3>2 DEF SuperOK
    <3> QED BY <1>6, <2>2, <3>1, <3>2
  <2>3. ASSUME NEW j \in DOMAIN work'
        PROVE  /\ j \in 1 .. Len(turns') /\ turns'[j].host = j
               /\ work'[j] # 0 => work'[j] \in 1 .. Len(turns') /\ turns'[work'[j]].host = j
    <3>1. CASE j = k
      BY <1>1, <1>2, <1>3, <1>6, <3>1
    <3>2. CASE j \in DOMAIN work
      BY <1>1, <1>3, <1>6, <3>2 DEF SuperOK
    <3> QED BY <1>6, <2>3, <3>1, <3>2
  <2> QED BY <1>3, <1>6, <2>1, <2>2, <2>3 DEF SuperOK
<1>8. LostOK'
  BY <1>1, <1>2, <1>6, AddLost DEF store
<1>9. ASSUME NEW u \in Task PROVE TurnOK(u)'
  <2>1. CASE u = t
    <3>1. \A j \in DOMAIN sess' : sess'[j].turn # k
      <4>1. \A j \in DOMAIN sess : sess[j].turn # 0 => sess[j].turn \in 1 .. Len(turns)
        BY <1>1 DEF SuperOK
      <4> QED BY <1>1, <1>6, <4>1
    <3>2. /\ k \in 1 .. Len(turns') /\ turns'[k].prompt = task'[t].prompt /\ turns'[k].first = (t = Creator)
          /\ turns'[k].final = "none" /\ turns'[k].outcome = "none" /\ turns'[k].host = k /\ turns'[k].exit = "wait"
      BY <1>1, <1>2, <1>3, <1>4 DEF Adds
    <3>3. turns'[turns'[k].host].exit # "lost" /\ task'[t].pc # "reuse"
      BY <1>4, <3>2
    <3>4. task'[t].pc = "write" /\ task'[t].turn = k
      BY <1>4
    <3>5. TurnOK(t)'
      BY ONLY <3>1, <3>2, <3>3, <3>4 DEF TurnOK
    <3> QED BY <2>1, <3>5
  <2>2. CASE u # t
    <3>1. TurnOK(u) /\ task'[u] = task[u]
      BY <1>4, <2>2 DEF AgyInv, Moves
    <3>2. task[u].pc = "write" => \A j \in DOMAIN sess' : sess'[j].turn # task[u].turn
      BY <1>1, <1>6, <3>1 DEF TurnOK, HasTurn
    <3> QED BY <1>1, <1>2, <3>1, <3>2, AddTurnOK
  <2> QED BY <2>1, <2>2
<1>10. UNCHANGED <<queue, row, queuings, convs, exposed, setup, crashes>>
       /\ binding' \in Int \cup {None} /\ activation' \in Task \cup {None}
  BY DEF store, AgyInv, PlainOK
<1> QED BY <1>1, <1>2, <1>4, <1>7, <1>8, <1>9, <1>10, AddKeeps

(* SpawnSession keeps the invariant. *)
LEMMA SpawnSessionKeeps == ASSUME AgyInv, NEW t \in Task, SpawnSession(t) PROVE AgyInv'
<1>1. UNCHANGED <<store, binding, convs, exposed, crashes, setup>> /\ faults' \in Nat /\ task[t].pc = "spawn"
  BY DEF SpawnSession, At, NoFault, Fault, AgyInv, PlainOK
<1>2. CASE StartFails(t) /\ activation' = Released(t) /\ UNCHANGED super
  <2>1. Supervises
    BY <1>2, NothingSupervises DEF super, AgyInv
  <2>2. RestStays
    BY <1>1, <1>2 DEF Released, store, RestStays, AgyInv, PlainOK
  <2> QED BY <1>1, <1>2, <2>1, <2>2, StartFailsKeeps
<1>3. CASE ~(StartFails(t) /\ activation' = Released(t) /\ UNCHANGED super)
  BY <1>1, <1>3, SpawnAddsKeeps DEF SpawnSession
<1> QED BY <1>2, <1>3

(* A session that is used again takes the new turn. *)
LEMMA WriteAgainKeeps ==
    ASSUME AgyInv, NEW t \in Task, At(t, "reuse"), NEW k, k = task[t].turn, k \in DOMAIN sess,
           NEW n, n = Len(turns) + 1, n <= MaxTurns,
           turns' = Append(turns, Turn(t, k)),
           sess' = [sess EXCEPT ![k] = [phase |-> "active", turn |-> n]],
           task' = [task EXCEPT ![t].pc = "flush", ![t].turn = n],
           UNCHANGED <<store, binding, convs, activation, work, bounds>>
    PROVE  AgyInv'
<1>1. /\ SuperOK /\ LostOK /\ TurnOK(t) /\ task[t].pc = "reuse" /\ task[t].prompt \in Prompt
      /\ Len(turns) \in Nat /\ MaxTurns \in Nat /\ n \in 1 .. MaxTurns /\ Len(turns) < MaxTurns
  BY TurnsDomain, AgyAssumption DEF AgyInv, At, PlaceOK, Prompted, Points
<1>2. k \in 1 .. Len(turns) /\ turns[k].host = k /\ turns[k].exit # "lost" /\ k \in 1 .. MaxTurns
  BY <1>1 DEF TurnOK, SuperOK
<1> DEFINE new == Turn(t, k)
<1>3. Adds(t, new) /\ new.host = k
  BY <1>1, <1>2, TurnTyped DEF Adds
<1> HIDE DEF new
<1>4. /\ turns' \in Seq(TurnType) /\ Len(turns') = n /\ Len(turns') <= MaxTurns /\ turns'[n] = new
      /\ \A m \in 1 .. Len(turns) : turns'[m] = turns[m]
  BY <1>1, <1>3, TurnAdded
<1>5. Moves(t) /\ task'[t].pc = "flush" /\ task'[t].prompt = task[t].prompt /\ task'[t].turn = n
  <2>1. n \in 0 .. MaxTurns
    BY <1>1
  <2>2. "flush" \in {"write", "flush"}
    OBVIOUS
  <2> QED BY <2>1, <2>2, TakesTurn, Zenon
<1>6. \A m \in 1 .. Len(turns') : m \in 1 .. Len(turns) \/ m = n
  BY <1>1, <1>4
<1>7. /\ sess' \in [DOMAIN sess' -> SessType] /\ DOMAIN sess' = DOMAIN sess
      /\ sess'[k].turn = n /\ \A j \in DOMAIN sess : j # k => sess'[j] = sess[j]
  <2>1. [phase |-> "active", turn |-> n] \in SessType
    BY <1>1 DEF SessType
  <2> QED BY <1>1, <2>1 DEF SuperOK
<1>8. SuperOK'
  <2>1. \A m \in 1 .. Len(turns') : turns'[m].host \in 1 .. Len(turns') /\ turns'[turns'[m].host].host = turns'[m].host
    BY <1>1, <1>2, <1>3, <1>4, <1>6 DEF SuperOK
  <2>2. ASSUME NEW j \in DOMAIN sess'
        PROVE  /\ j \in 1 .. Len(turns') /\ turns'[j].host = j /\ turns'[j].exit # "lost"
               /\ sess'[j].turn # 0 =>
                     /\ sess'[j].turn \in 1 .. Len(turns')
                     /\ turns'[sess'[j].turn].host = j /\ turns'[sess'[j].turn].outcome = "none"
    <3>1. CASE j = k
      BY <1>1, <1>2, <1>3, <1>4, <1>7, <3>1 DEF Adds
    <3>2. CASE j # k
      BY <1>1, <1>4, <1>7, <2>2, <3>2 DEF SuperOK
    <3> QED BY <3>1, <3>2
  <2>3. ASSUME NEW j \in DOMAIN work'
        PROVE  /\ j \in 1 .. Len(turns') /\ turns'[j].host = j
               /\ work'[j] # 0 => work'[j] \in 1 .. Len(turns') /\ turns'[work'[j]].host = j
    BY <1>1, <1>4, <2>3 DEF SuperOK
  <2> QED BY <1>1, <1>4, <1>7, <2>1, <2>2, <2>3 DEF SuperOK
<1>9. LostOK'
  BY <1>1, <1>3, AddLost DEF store, bounds
<1>10. ASSUME NEW u \in Task PROVE TurnOK(u)'
  <2>1. CASE u = t
    <3>1. /\ n \in 1 .. Len(turns') /\ turns'[n].prompt = task'[t].prompt /\ turns'[n].first = (t = Creator)
          /\ turns'[n].final = "none" /\ turns'[turns'[n].host].exit # "lost"
      BY <1>1, <1>2, <1>3, <1>4, <1>5 DEF Adds
    <3>2. TurnOK(t)'
      BY <1>5, <3>1 DEF TurnOK
    <3> QED BY <2>1, <3>2
  <2>2. CASE u # t
    <3>1. TurnOK(u) /\ task'[u] = task[u]
      BY <1>5, <2>2 DEF AgyInv, Moves
    <3>2. task[u].pc = "write" => \A j \in DOMAIN sess' : sess'[j].turn # task[u].turn
      BY <1>1, <1>7, <3>1 DEF TurnOK, HasTurn
    <3> QED BY <1>1, <1>3, <3>1, <3>2, AddTurnOK
  <2> QED BY <2>1, <2>2
<1>11. UNCHANGED <<queue, row, queuings, convs, exposed, setup, crashes>>
       /\ binding' \in Int \cup {None} /\ activation' \in Task \cup {None} /\ faults' \in Nat
  BY DEF store, bounds, AgyInv, PlainOK
<1> QED BY <1>1, <1>3, <1>5, <1>8, <1>9, <1>10, <1>11, AddKeeps

(* WritePrompt keeps the invariant. *)
LEMMA WritePromptKeeps == ASSUME AgyInv, NEW t \in Task, WritePrompt(t) PROVE AgyInv'
<1> DEFINE k == task[t].turn
           n == IF At(t, "write") THEN k ELSE Len(turns) + 1
<1>1. task[t].pc \in {"write", "reuse"} /\ SuperOK /\ TurnOK(t) /\ Len(turns) \in Nat
  BY TurnsDomain DEF WritePrompt, At, AgyInv
<1>2. CASE StartFails(t) /\ activation' = Released(t) /\ UNCHANGED <<turns, sess>>
  <2>1. Supervises
    BY <1>1, <1>2, NothingSupervises DEF WritePrompt
  <2>2. RestStays
    BY <1>2 DEF WritePrompt, Released, store, bounds, RestStays, AgyInv, PlainOK
  <2> QED BY <1>1, <1>2, <2>1, <2>2, StartFailsKeeps
<1>3. CASE ~(StartFails(t) /\ activation' = Released(t) /\ UNCHANGED <<turns, sess>>)
  <2>1. /\ k \in DOMAIN sess /\ n <= MaxTurns
        /\ turns' = (IF n = k THEN turns ELSE Append(turns, Turn(t, k)))
        /\ sess' = [sess EXCEPT ![k] = [phase |-> "active", turn |-> n]]
        /\ task' = [task EXCEPT ![t].pc = "flush", ![t].turn = n]
        /\ UNCHANGED <<store, binding, convs, activation, work, bounds>>
    BY <1>3 DEF WritePrompt
  <2>2. CASE At(t, "write")
    <3>1. n = k /\ turns' = turns
      BY <2>1, <2>2
    <3> QED BY <2>1, <2>2, <3>1, WriteFirstKeeps
  <2>3. CASE At(t, "reuse")
    <3>1. n = Len(turns) + 1 /\ n # k
      BY <1>1, <2>3 DEF At, TurnOK
    <3> QED BY <2>1, <2>3, <3>1, WriteAgainKeeps
  <2> QED BY <2>2, <2>3 DEF WritePrompt
<1> QED BY <1>2, <1>3

(* The process takes the turn that its session has taken. *)
LEMMA FlushPromptKeeps == ASSUME AgyInv, NEW t \in Task, FlushPrompt(t) PROVE AgyInv'
<1> DEFINE n == task[t].turn
           k == turns[n].host
<1>1. task[t].pc = "flush" /\ SuperOK /\ LostOK /\ TurnOK(t) /\ PlaceOK(t)
  BY DEF FlushPrompt, At, AgyInv
<1>2. n \in 1 .. Len(turns) /\ turns[k].exit # "lost" /\ n \in 0 .. MaxTurns
  BY <1>1, TurnsDomain, AgyAssumption DEF TurnOK, HasTurn, SuperOK
<1>3. RestStays
  BY DEF FlushPrompt, Released, store, bounds, RestStays, AgyInv, PlainOK
<1>4. CASE k \notin DOMAIN work
  <2>1. Failed(k) /\ StartFails(t) /\ UNCHANGED work
    BY <1>4 DEF FlushPrompt
  <2> QED BY <1>1, <1>3, <2>1, FailedSupervises, StartFailsKeeps
<1>5. CASE k \in DOMAIN work
  <2>1. /\ work' = [work EXCEPT ![k] = n] /\ UNCHANGED <<turns, sess>>
        /\ Goto(t, "init") \/ Goto(t, Started(t))
    BY <1>5 DEF FlushPrompt
  <2>2. \E point \in {"init", "rotate", "bind", "persist"} :
           Goto(t, point) /\ (t = Creator => point \in {"init", "bind"}) /\ (t # Creator => point # "bind")
    BY <2>1 DEF Started
  <2>3. PICK point \in {"init", "rotate", "bind", "persist"} :
           Goto(t, point) /\ (t = Creator => point \in {"init", "bind"}) /\ (t # Creator => point # "bind")
    BY <2>2
  <2>4. /\ Moves(t) /\ task'[t].pc = point /\ task'[t].prompt = task[t].prompt /\ task'[t].turn = task[t].turn
    <3>1. point \in Points
      BY DEF Points
    <3> QED BY <2>3, <3>1, Went DEF AgyInv, PlainOK
  <2>5. work' \in [DOMAIN work' -> 0 .. MaxTurns] /\ DOMAIN work' = DOMAIN work
        /\ work'[k] = n /\ \A j \in DOMAIN work : j # k => work'[j] = work[j]
    BY <1>1, <1>2, <1>5, <2>1 DEF SuperOK
  <2>6. SuperOK'
    BY <1>1, <1>2, <2>1, <2>5 DEF SuperOK
  <2>7. LostOK'
    <3>1. ASSUME NEW j \in DOMAIN work' PROVE LostTurnOK(j)'
      <4>1. CASE j = k
        BY <1>2, <2>1, <4>1 DEF LostTurnOK
      <4>2. CASE j # k
        BY <1>1, <2>1, <2>5, <3>1, <4>2, <1>3
           DEF LostOK, LostTurnOK, Gone, RestStays
      <4> QED BY <4>1, <4>2
    <3> QED BY <3>1 DEF LostOK
  <2>8. \A u \in Task \ {t} : TurnOK(u)'
    BY <2>1, <2>4 DEF Moves, AgyInv, TurnOK
  <2>9. TurnOK(t)'
    BY <1>1, <2>1, <2>4 DEF TurnOK, HasTurn
  <2>10. \A p \in Prompt : Holds(t, p)' <=> Holds(t, p)
    BY <1>1, <2>4 DEF Holds, BeforeRow
  <2>11. PlaceOK(t)'
    BY <1>1, <1>3, <2>3, <2>4, <2>10 DEF RestStays, PlaceOK, Prompted, Points,
       CreatorPoints, CreatorOnly, Unmade, Unbegun, AfterBegin
  <2>12. ~Ahead(t)' /\ SameRecords
    <3>1. SameRecords
      BY <2>1 DEF SameRecords
    <3>2. t # Creator => point \notin Unturned
      BY DEF Unturned, Unbegun
    <3> QED BY <2>3, <2>4, <3>1, <3>2 DEF Ahead
  <2> QED BY <1>1, <1>3, <2>4, <2>6, <2>7, <2>8, <2>9, <2>10, <2>11, <2>12,
     MoveKeeps
     DEF RestStays
<1> QED BY <1>4, <1>5

-----------------------------------------------------------------------------
(* What its place says of a task that holds p, about the row of p. *)
HolderOK(u, p) ==
    /\ u # Creator =>
          /\ queuings[p] > 0
          /\ task[u].pc \in Unbegun => row[p].status # "sending" \/ ~row[p].begun
          /\ task[u].pc \in AfterBegin => row[p].status = "sending" /\ row[p].begun
    /\ u = Creator /\ task[u].pc \in Unmade => queuings[p] = 0

(* The same turns; only those of p may be further along. *)
SameBut(p) ==
    /\ Len(turns') = Len(turns)
    /\ \A n \in 1 .. Len(turns) :
          /\ turns'[n].prompt = turns[n].prompt /\ turns'[n].host = turns[n].host
          /\ turns'[n].first = turns[n].first
          /\ turns[n].prompt # p => turns'[n].final = turns[n].final

(* The place of a task is kept when the row of p changes for its holders. *)
LEMMA OtherHolders ==
    ASSUME NEW p \in Prompt, NEW u \in Task, PlaceOK(u), task'[u] = task[u], UNCHANGED setup,
           \A q \in Prompt \ {p} : row'[q] = row[q] /\ queuings'[q] = queuings[q],
           Holds(u, p) => HolderOK(u, p)'
    PROVE  PlaceOK(u)'
<1>1. \A q \in Prompt \ {p} : Holds(u, q)' /\ u # Creator =>
         /\ queuings'[q] > 0
         /\ task'[u].pc \in Unbegun => row'[q].status # "sending" \/ ~row'[q].begun
         /\ task'[u].pc \in AfterBegin => row'[q].status = "sending" /\ row'[q].begun
  BY DEF PlaceOK, Holds
<1>2. Holds(u, p)' /\ u # Creator =>
         /\ queuings'[p] > 0
         /\ task'[u].pc \in Unbegun => row'[p].status # "sending" \/ ~row'[p].begun
         /\ task'[u].pc \in AfterBegin => row'[p].status = "sending" /\ row'[p].begun
  BY DEF HolderOK, Holds
<1>3. u = Creator /\ task'[u].pc \in Unmade => queuings'[task'[u].prompt] = 0
  <2>1. SUFFICES ASSUME u = Creator, task[u].pc \in Unmade PROVE queuings'[task[u].prompt] = 0
    OBVIOUS
  <2>2. task[u].prompt \in Prompt /\ queuings[task[u].prompt] = 0
    BY <2>1 DEF PlaceOK, Prompted, Points, Unmade
  <2>3. task[u].prompt = p => Holds(u, p)
    BY <2>1 DEF Holds, Unmade, BeforeRow
  <2> QED BY <2>1, <2>2, <2>3 DEF HolderOK
<1> QED BY <1>1, <1>2, <1>3 DEF PlaceOK, Holds

(* The account of a prompt is kept when the row of another changes. *)
LEMMA OtherPrompts ==
    ASSUME AgyInv, NEW p \in Prompt, NEW S \in SUBSET Task, SameBut(p), UNCHANGED setup,
           \A u \in Task \ S : task'[u] = task[u],
           \A u \in S : \A q \in Prompt \ {p} : ~Holds(u, q) /\ ~Holds(u, q)',
           NEW q \in Prompt \ {p}, row'[q] = row[q], queuings'[q] = queuings[q]
    PROVE  PromptOK(q)'
<1>1. PromptOK(q) /\ Len(turns') = Len(turns)
  BY DEF AgyInv, SameBut
<1>2. \A u \in Task : Holds(u, q)' <=> Holds(u, q)
  <2>1. ASSUME NEW u \in S PROVE Holds(u, q)' <=> Holds(u, q)
    BY <2>1
  <2>2. ASSUME NEW u \in Task \ S PROVE Holds(u, q)' <=> Holds(u, q)
    BY <2>2 DEF Holds
  <2> QED BY <2>1, <2>2
<1>3. Due(q)' => Due(q)
  <2>1. ASSUME NEW u \in Task, Holds(u, q)', Ahead(u)' PROVE Holds(u, q) /\ Ahead(u)
    <3>1. u \notin S
      BY <2>1
    <3> QED BY <1>2, <2>1, <3>1 DEF Ahead
  <2> QED BY <2>1 DEF Due
<1>4. \A n \in 1 .. Len(turns') : /\ Awaited(n, q)' <=> Awaited(n, q)
                                  /\ turns'[n].host = turns[n].host /\ turns'[n].prompt = turns[n].prompt
                                  /\ turns[n].prompt = q => turns'[n].final = turns[n].final
  BY <1>1 DEF SameBut, Awaited
<1>5. Counted(q)' = Counted(q)
  BY <1>1 DEF SameBut, Counted
<1>6. "db" \notin setup.kinds /\ row[q].status = "sending" =>
         (\E u \in Task : Holds(u, q)') \/ \E n \in 1 .. Len(turns') : Awaited(n, q)'
  BY <1>1, <1>2, <1>4 DEF PromptOK
<1>7. \A n \in 1 .. Len(turns') : turns'[n].prompt = q /\ turns'[n].final # "none" => queuings[q] > 0
  BY <1>1, <1>4 DEF PromptOK
<1>8. Cardinality(Counted(q)') <= queuings[q] /\ (Due(q)' => Cardinality(Counted(q)') < queuings[q])
  BY <1>1, <1>3, <1>5 DEF PromptOK
<1> QED BY <1>1, <1>2, <1>4, <1>6, <1>7, <1>8, PromptKeeps

(* The row of one prompt changes; the tasks of S, which hold no other, move. *)
LEMMA RowKeeps ==
    ASSUME AgyInv, NEW p \in Prompt, NEW S \in SUBSET Task,
           PlainOK', QueueOK(queue, row)', SuperOK', LostOK', SameBut(p), UNCHANGED setup,
           \A u \in Task \ S : task'[u] = task[u] /\ TurnOK(u)' /\ (Holds(u, p) => HolderOK(u, p)'),
           \A u \in S : TurnOK(u)' /\ PlaceOK(u)' /\ \A q \in Prompt \ {p} : ~Holds(u, q) /\ ~Holds(u, q)',
           \A q \in Prompt \ {p} : row'[q] = row[q] /\ queuings'[q] = queuings[q],
           PromptOK(p)'
    PROVE  AgyInv'
<1>1. ASSUME NEW u \in Task \ S PROVE PlaceOK(u)'
  <2>1. PlaceOK(u) /\ task'[u] = task[u] /\ (Holds(u, p) => HolderOK(u, p)')
    BY <1>1 DEF AgyInv
  <2> QED BY <2>1, OtherHolders
<1>2. ASSUME NEW q \in Prompt \ {p} PROVE PromptOK(q)'
  BY <1>2, OtherPrompts
<1>3. \A u \in Task : TurnOK(u)' /\ PlaceOK(u)'
  BY <1>1
<1>4. \A q \in Prompt : PromptOK(q)'
  BY <1>2
<1> QED BY <1>3, <1>4 DEF AgyInv

(* The same, when the supervisor does nothing. *)
LEMMA RowOnly ==
    ASSUME AgyInv, NEW p \in Prompt, NEW S \in SUBSET Task,
           PlainOK', QueueOK(queue, row)', UNCHANGED <<turns, sess, work, exposed, setup>>,
           Gone(p) => Gone(p)',
           \A u \in Task \ S : task'[u] = task[u] /\ (Holds(u, p) => HolderOK(u, p)'),
           \A u \in S : TurnOK(u)' /\ PlaceOK(u)' /\ \A q \in Prompt \ {p} : ~Holds(u, q) /\ ~Holds(u, q)',
           \A q \in Prompt \ {p} : row'[q] = row[q] /\ queuings'[q] = queuings[q],
           PromptOK(p)'
    PROVE  AgyInv'
<1>1. SuperOK /\ SuperOK'
  BY DEF AgyInv, SuperOK
<1>2. LostOK'
  <2>1. RowsGone
    <3>1. ASSUME NEW q \in Prompt \ {p}, Gone(q) PROVE Gone(q)'
      BY <3>1 DEF Gone
    <3> QED BY <3>1 DEF RowsGone
  <2> QED BY <1>1, <2>1, NothingSupervises, LostStays DEF AgyInv
<1>3. SameBut(p)
  BY DEF SameBut
<1>4. ASSUME NEW u \in Task \ S PROVE TurnOK(u)'
  <2>1. TurnOK(u) /\ task'[u] = task[u]
    BY <1>4 DEF AgyInv
  <2> QED BY <2>1 DEF TurnOK
<1> QED BY <1>1, <1>2, <1>3, <1>4, RowKeeps

(* The same, when no task moves. *)
LEMMA RowAlone ==
    ASSUME AgyInv, NEW p \in Prompt,
           PlainOK', QueueOK(queue, row)', UNCHANGED <<task, turns, sess, work, exposed, setup>>,
           Gone(p) => Gone(p)',
           \A u \in Task : Holds(u, p) => HolderOK(u, p)',
           \A q \in Prompt \ {p} : row'[q] = row[q] /\ queuings'[q] = queuings[q],
           PromptOK(p)'
    PROVE  AgyInv'
<1> DEFINE S == {}
<1>1. S \in SUBSET Task /\ \A u \in Task \ S : task'[u] = task[u] /\ (Holds(u, p) => HolderOK(u, p)')
  OBVIOUS
<1>2. \A u \in S : TurnOK(u)' /\ PlaceOK(u)' /\ \A q \in Prompt \ {p} : ~Holds(u, q) /\ ~Holds(u, q)'
  OBVIOUS
<1> HIDE DEF S
<1> QED BY <1>1, <1>2, RowOnly

(* The same, when one task moves. *)
LEMMA RowBy ==
    ASSUME AgyInv, NEW p \in Prompt, NEW t \in Task, Moves(t),
           PlainOK', QueueOK(queue, row)', UNCHANGED <<turns, sess, work, exposed, setup>>,
           Gone(p) => Gone(p)',
           \A u \in Task \ {t} : Holds(u, p) => HolderOK(u, p)',
           TurnOK(t)', PlaceOK(t)',
           \A q \in Prompt \ {p} : ~Holds(t, q) /\ ~Holds(t, q)',
           \A q \in Prompt \ {p} : row'[q] = row[q] /\ queuings'[q] = queuings[q],
           PromptOK(p)'
    PROVE  AgyInv'
<1> DEFINE S == {t}
<1>1. S \in SUBSET Task /\ \A u \in Task \ S : task'[u] = task[u] /\ (Holds(u, p) => HolderOK(u, p)')
  BY DEF Moves
<1>2. \A u \in S : TurnOK(u)' /\ PlaceOK(u)' /\ \A q \in Prompt \ {p} : ~Holds(u, q) /\ ~Holds(u, q)'
  OBVIOUS
<1> HIDE DEF S
<1> QED BY <1>1, <1>2, RowOnly

-----------------------------------------------------------------------------
(* A row is written whole; the others stay. *)
LEMMA RowSet ==
    ASSUME PlainOK, NEW p \in Prompt, NEW r \in RowType, row' = [row EXCEPT ![p] = r]
    PROVE  row' \in [Prompt -> RowType] /\ row'[p] = r /\ \A q \in Prompt \ {p} : row'[q] = row[q]
BY DEF PlainOK

(* The status of a row is written; the rest of it and the others stay. *)
LEMMA StatusSet ==
    ASSUME PlainOK, NEW p \in Prompt, NEW status \in Statuses, row' = [row EXCEPT ![p].status = status]
    PROVE  /\ row' \in [Prompt -> RowType] /\ row'[p].status = status /\ row'[p].begun = row[p].begun
           /\ row'[p].lease = row[p].lease
           /\ \A q \in Prompt \ {p} : row'[q] = row[q]
<1> DEFINE r == [row[p] EXCEPT !.status = status]
<1>1. row[p] \in RowType /\ row' = [row EXCEPT ![p] = r]
  BY DEF PlainOK
<1>2. r \in RowType /\ r.status = status /\ r.begun = row[p].begun /\ r.lease = row[p].lease
  BY <1>1 DEF RowType
<1> HIDE DEF r
<1> QED BY <1>1, <1>2, RowSet

(* The queue is as good as it was while no row comes or goes. *)
LEMMA QueueSame ==
    ASSUME QueueOK(queue, row), NEW p \in Prompt, UNCHANGED queue,
           row'[p].status = "none" <=> row[p].status = "none",
           \A q \in Prompt \ {p} : row'[q] = row[q]
    PROVE  QueueOK(queue, row)'
BY DEF QueueOK

(* The row of a prompt that had none goes to the end of the queue. *)
LEMMA QueueAppended ==
    ASSUME QueueOK(queue, row), NEW p \in Prompt, queue' = Append(queue, p),
           row[p].status = "none", row'[p].status # "none",
           \A q \in Prompt \ {p} : row'[q] = row[q]
    PROVE  QueueOK(queue, row)'
<1>1. queue \in Seq(Prompt) /\ Len(queue) \in Nat
  BY LenProperties DEF QueueOK
<1>2. /\ queue' \in Seq(Prompt) /\ Len(queue') = Len(queue) + 1 /\ queue'[Len(queue) + 1] = p
      /\ \A i \in 1 .. Len(queue) : queue'[i] = queue[i]
  BY <1>1, AppendProperties
<1>3. \A i \in 1 .. Len(queue) : queue[i] # p
  BY DEF QueueOK
<1>4. \A i, j \in 1 .. Len(queue') : i # j => queue'[i] # queue'[j]
  BY <1>1, <1>2, <1>3 DEF QueueOK
<1>5. ASSUME NEW q \in Prompt PROVE row'[q].status # "none" <=> \E i \in 1 .. Len(queue') : queue'[i] = q
  <2>1. CASE q = p
    BY <1>1, <1>2, <2>1
  <2>2. CASE q # p
    <3>1. (\E i \in 1 .. Len(queue') : queue'[i] = q) <=> \E i \in 1 .. Len(queue) : queue[i] = q
      BY <1>1, <1>2, <2>2
    <3> QED BY <2>2, <3>1 DEF QueueOK
  <2> QED BY <2>1, <2>2
<1> QED BY <1>2, <1>4, <1>5 DEF QueueOK

(* Removing position i of a sequence shifts the later elements by one. *)
LEMMA RemoveAtProperties ==
    ASSUME NEW S, NEW s \in Seq(S), NEW i \in 1 .. Len(s)
    PROVE  /\ RemoveAt(s, i) \in Seq(S)
           /\ Len(RemoveAt(s, i)) = Len(s) - 1
           /\ \A j \in 1 .. Len(s) - 1 :
                RemoveAt(s, i)[j] = IF j < i THEN s[j] ELSE s[j + 1]
<1> DEFINE left == SubSeq(s, 1, i - 1)
           right == SubSeq(s, i + 1, Len(s))
<1>1. /\ left \in Seq(S) /\ Len(left) = i - 1
      /\ \A j \in 1 .. i - 1 : left[j] = s[j]
  BY SubSeqProperties, LenProperties
<1>2. /\ right \in Seq(S) /\ Len(right) = Len(s) - i
      /\ \A j \in 1 .. Len(s) - i : right[j] = s[i + j]
  BY SubSeqProperties, LenProperties
<1>3. /\ left \o right \in Seq(S)
      /\ Len(left \o right) = Len(left) + Len(right)
      /\ \A j \in 1 .. Len(left) + Len(right) :
           (left \o right)[j] = IF j <= Len(left) THEN left[j]
                                ELSE right[j - Len(left)]
  BY <1>1, <1>2, ConcatProperties
<1>4. RemoveAt(s, i) = left \o right
  BY DEF RemoveAt
<1> HIDE DEF left, right
<1>5. Len(s) \in Nat
  BY LenProperties
<1>6. ASSUME NEW j \in 1 .. Len(s) - 1
      PROVE  RemoveAt(s, i)[j] = IF j < i THEN s[j] ELSE s[j + 1]
  <2>1. j \in 1 .. Len(left) + Len(right)
    BY <1>1, <1>2, <1>5
  <2>2. CASE j < i
    BY <2>1, <2>2, <1>1, <1>3, <1>4, <1>5
  <2>3. CASE ~(j < i)
    <3>1. j - (i - 1) \in 1 .. Len(s) - i /\ ~(j <= i - 1)
      BY <2>3, <1>5
    <3>2. RemoveAt(s, i)[j] = right[j - (i - 1)]
      BY <3>1, <2>1, <1>1, <1>3, <1>4
    <3>3. i + (j - (i - 1)) = j + 1
      OBVIOUS
    <3> QED BY <3>1, <3>2, <3>3, <1>2, <2>3
  <2> QED BY <2>2, <2>3
<1>7. RemoveAt(s, i) \in Seq(S) /\ Len(RemoveAt(s, i)) = Len(s) - 1
  BY <1>1, <1>2, <1>3, <1>4, <1>5
<1> QED BY <1>6, <1>7

(* The row of a prompt goes, and its place in the queue with it. *)
LEMMA DeletedRow ==
    ASSUME PlainOK, QueueOK(queue, row), NEW p \in Prompt, Deleted(p), row[p].status # "none"
    PROVE  /\ row' \in [Prompt -> RowType] /\ row'[p].status = "none"
           /\ \A q \in Prompt \ {p} : row'[q] = row[q]
           /\ QueueOK(queue, row)'
<1>1. queue \in Seq(Prompt) /\ Len(queue) \in Nat /\ DOMAIN queue = 1 .. Len(queue)
  BY LenProperties DEF QueueOK
<1>2. row' \in [Prompt -> RowType] /\ row'[p].status = "none" /\ \A q \in Prompt \ {p} : row'[q] = row[q]
  <2>1. [status |-> "none", begun |-> FALSE, lease |-> 0] \in RowType
    BY AgyAssumption DEF RowType, Statuses
  <2> QED BY <2>1, RowSet DEF Deleted
<1> DEFINE a == PlaceOf(p)
<1>3. a \in 1 .. Len(queue) /\ queue[a] = p
  BY <1>1 DEF QueueOK, PlaceOf
<1> HIDE DEF a
<1>4. /\ queue' \in Seq(Prompt) /\ Len(queue') = Len(queue) - 1
      /\ \A j \in 1 .. Len(queue) - 1 : queue'[j] = IF j < a THEN queue[j] ELSE queue[j + 1]
  BY <1>1, <1>3, RemoveAtProperties DEF Deleted, a
<1>5. ASSUME NEW j \in 1 .. Len(queue')
      PROVE  \E i \in 1 .. Len(queue) : queue'[j] = queue[i] /\ i = IF j < a THEN j ELSE j + 1
  BY <1>1, <1>3, <1>4
<1>6. \A i, j \in 1 .. Len(queue') : i # j => queue'[i] # queue'[j]
  <2>1. SUFFICES ASSUME NEW i \in 1 .. Len(queue'), NEW j \in 1 .. Len(queue'), i # j PROVE queue'[i] # queue'[j]
    OBVIOUS
  <2>2. PICK m \in 1 .. Len(queue) : queue'[i] = queue[m] /\ m = IF i < a THEN i ELSE i + 1
    BY <1>5
  <2>3. PICK n \in 1 .. Len(queue) : queue'[j] = queue[n] /\ n = IF j < a THEN j ELSE j + 1
    BY <1>5
  <2>4. m # n
    BY <1>1, <1>3, <1>4, <2>1, <2>2, <2>3
  <2> QED BY <2>2, <2>3, <2>4 DEF QueueOK
<1>7. ASSUME NEW q \in Prompt PROVE row'[q].status # "none" <=> \E i \in 1 .. Len(queue') : queue'[i] = q
  <2>1. CASE q = p
    <3>1. \A j \in 1 .. Len(queue') : queue'[j] # p
      <4>1. SUFFICES ASSUME NEW j \in 1 .. Len(queue') PROVE queue'[j] # p
        OBVIOUS
      <4>2. PICK i \in 1 .. Len(queue) : queue'[j] = queue[i] /\ i = IF j < a THEN j ELSE j + 1
        BY <1>5
      <4>3. i # a
        BY <1>1, <1>3, <1>4, <4>1, <4>2
      <4> QED BY <1>3, <4>2, <4>3 DEF QueueOK
    <3> QED BY <1>2, <2>1, <3>1
  <2>2. CASE q # p
    <3>1. ASSUME NEW i \in 1 .. Len(queue), queue[i] = q PROVE \E j \in 1 .. Len(queue') : queue'[j] = q
      <4>1. i # a
        BY <1>3, <2>2, <3>1
      <4>2. CASE i < a
        BY <1>1, <1>3, <1>4, <3>1, <4>2
      <4>3. CASE a < i
        <5>1. i - 1 \in 1 .. Len(queue) - 1 /\ ~(i - 1 < a) /\ (i - 1) + 1 = i
          BY <1>1, <1>3, <4>3
        <5>2. queue'[i - 1] = queue[(i - 1) + 1]
          BY <1>4, <5>1
        <5> QED BY <1>4, <3>1, <5>1, <5>2
      <4> QED BY <1>1, <1>3, <4>1, <4>2, <4>3
    <3>2. (\E j \in 1 .. Len(queue') : queue'[j] = q) => \E i \in 1 .. Len(queue) : queue[i] = q
      BY <1>5
    <3> QED BY <1>2, <2>2, <3>1, <3>2 DEF QueueOK
  <2> QED BY <2>1, <2>2
<1> QED BY <1>2, <1>4, <1>6, <1>7 DEF QueueOK

-----------------------------------------------------------------------------
(* A prompt that was never queued has no row, no turn that counts and no *)
(* dispatcher.                                                           *)
LEMMA NoneAwaitedNotYet ==
    ASSUME AgyInv, NEW p \in Prompt, queuings[p] = 0
    PROVE  /\ row[p].status = "none" /\ Cardinality(Counted(p)) = 0
           /\ \A n \in 1 .. Len(turns) : turns[n].prompt = p => turns[n].final = "none"
           /\ \A u \in Task : Holds(u, p) => u = Creator
<1>1. PromptOK(p) /\ SuperOK
  BY DEF AgyInv
<1>2. Cardinality(Counted(p)) \in Nat /\ Cardinality(Counted(p)) <= 0
  BY <1>1, CountedFinite DEF PromptOK
<1>3. \A u \in Task : Holds(u, p) => u = Creator
  BY DEF AgyInv, PlaceOK
<1> QED BY <1>1, <1>2, <1>3 DEF PromptOK

(* Nobody has the prompt in hand. *)
LEMMA FreePrompt ==
    ASSUME NEW p \in Prompt, queuings'[p] \in Nat,
           \A u \in Task : ~Holds(u, p)',
           \A n \in 1 .. Len(turns') : ~Awaited(n, p)',
           row'[p].status # "none" => queuings'[p] > 0,
           \A n \in 1 .. Len(turns') : turns'[n].prompt = p /\ turns'[n].final # "none" => queuings'[p] > 0,
           Cardinality(Counted(p)') <= queuings'[p],
           row'[p].status = "queued" => Cardinality(Counted(p)') < queuings'[p],
           "db" \notin setup'.kinds => row'[p].status # "sending"
    PROVE  PromptOK(p)'
<1>1. Sole(p)'
  BY DEF Sole
<1>2. Free(p)'
  BY DEF Free
<1>3. Due(p)' => row'[p].status = "queued"
  BY DEF Due
<1> QED BY <1>1, <1>2, <1>3 DEF PromptOK

(* Send keeps the invariant. *)
LEMMA SendKeeps == ASSUME AgyInv, NEW p \in Prompt, Send(p) PROVE AgyInv'
<1>1. PlainOK /\ QueueOK(queue, row) /\ queuings[p] = 0 /\ p # task[Creator].prompt
  BY DEF AgyInv, Send
<1>2. /\ row[p].status = "none" /\ Cardinality(Counted(p)) = 0
      /\ \A n \in 1 .. Len(turns) : turns[n].prompt = p => turns[n].final = "none"
      /\ \A u \in Task : Holds(u, p) => u = Creator
  BY <1>1, NoneAwaitedNotYet
<1>3. \A u \in Task : ~Holds(u, p)
  BY <1>1, <1>2 DEF Holds
<1>4. /\ row' \in [Prompt -> RowType] /\ row'[p].status = "queued" /\ \A q \in Prompt \ {p} : row'[q] = row[q]
  <2>1. row' = [row EXCEPT ![p].status = "queued"] /\ "queued" \in Statuses
    BY DEF Send, Statuses
  <2> QED BY <1>1, <2>1, StatusSet
<1>5. queuings' \in [Prompt -> Nat] /\ queuings'[p] = 1 /\ \A q \in Prompt \ {p} : queuings'[q] = queuings[q]
  BY <1>1 DEF Send, PlainOK
<1>6. QueueOK(queue, row)'
  <2>1. queue' = Append(queue, p) /\ row'[p].status # "none"
    BY <1>4 DEF Send
  <2> QED BY <1>1, <1>2, <1>4, <2>1, QueueAppended
<1>7. UNCHANGED <<binding, convs, task, activation, turns, sess, work, exposed, setup, faults, crashes>>
  BY DEF Send, bounds
<1>8. PlainOK'
  BY <1>1, <1>4, <1>5, <1>7 DEF PlainOK
<1>9. PromptOK(p)'
  <2>1. \A u \in Task : ~Holds(u, p)'
    BY <1>3, <1>7 DEF Holds
  <2>2. \A n \in 1 .. Len(turns') : ~Awaited(n, p)' /\ ~(turns'[n].prompt = p /\ turns'[n].final # "none")
    BY <1>2, <1>7 DEF Awaited
  <2>3. Counted(p)' = Counted(p)
    BY <1>7 DEF Counted
  <2>4. queuings'[p] = 1 /\ Cardinality(Counted(p)') = 0 /\ row'[p].status = "queued"
    BY <1>2, <1>4, <1>5, <2>3
  <2>5. queuings'[p] \in Nat /\ queuings'[p] > 0 /\ Cardinality(Counted(p)') < queuings'[p]
        /\ Cardinality(Counted(p)') <= queuings'[p]
    BY <2>4
  <2> QED BY <2>1, <2>2, <2>4, <2>5, FreePrompt
<1>10. ~Gone(p)
  BY <1>1 DEF Gone
<1> QED BY <1>3, <1>4, <1>5, <1>6, <1>7, <1>8, <1>9, <1>10, RowAlone

(* Retry keeps the invariant. *)
LEMMA RetryKeeps == ASSUME AgyInv, NEW p \in Prompt, Retry(p) PROVE AgyInv'
<1>1. PlainOK /\ QueueOK(queue, row) /\ PromptOK(p) /\ row[p].status = "failed" /\ queuings[p] \in Nat
  BY DEF AgyInv, PlainOK, Retry
<1>2. Free(p) /\ queuings[p] > 0
  BY <1>1 DEF PromptOK
<1>3. /\ row' \in [Prompt -> RowType] /\ row'[p].status = "queued" /\ \A q \in Prompt \ {p} : row'[q] = row[q]
  <2>1. row' = [row EXCEPT ![p].status = "queued"] /\ "queued" \in Statuses
    BY DEF Retry, Statuses
  <2> QED BY <1>1, <2>1, StatusSet
<1>4. queuings' \in [Prompt -> Nat] /\ queuings'[p] = queuings[p] + 1 /\ \A q \in Prompt \ {p} : queuings'[q] = queuings[q]
  BY <1>1 DEF Retry, PlainOK
<1>5. UNCHANGED <<queue, binding, convs, task, activation, turns, sess, work, exposed, setup, faults, crashes>>
  BY DEF Retry, bounds
<1>6. QueueOK(queue, row)'
  BY <1>1, <1>3, <1>5, QueueSame
<1>7. PlainOK'
  BY <1>1, <1>3, <1>4, <1>5 DEF PlainOK
<1>8. PromptOK(p)'
  <2>1. \A u \in Task : ~Holds(u, p)'
    BY <1>2, <1>5 DEF Holds, Free
  <2>2. \A n \in 1 .. Len(turns') : ~Awaited(n, p)'
    BY <1>2, <1>5 DEF Awaited, Free
  <2>3. Counted(p)' = Counted(p)
    BY <1>5 DEF Counted
  <2>4. Cardinality(Counted(p)) \in Nat /\ Cardinality(Counted(p)) <= queuings[p]
    BY <1>1, CountedFinite DEF AgyInv, PromptOK
  <2>5. Cardinality(Counted(p)') <= queuings'[p] /\ Cardinality(Counted(p)') < queuings'[p]
    BY <1>1, <1>4, <2>3, <2>4
  <2>6. queuings'[p] > 0
    BY <1>1, <1>4
  <2> QED BY <1>1, <1>3, <1>4, <2>1, <2>2, <2>5, <2>6, FreePrompt
<1>9. ~Gone(p) /\ \A u \in Task : ~Holds(u, p)
  BY <1>1, <1>2 DEF Gone, Free
<1> QED BY <1>3, <1>4, <1>5, <1>6, <1>7, <1>8, <1>9, RowAlone

(* RemoveRow keeps the invariant. *)
LEMMA RemoveRowKeeps == ASSUME AgyInv, NEW p \in Prompt, RemoveRow(p) PROVE AgyInv'
<1>1. /\ PlainOK /\ QueueOK(queue, row) /\ PromptOK(p) /\ row[p].status # "none"
      /\ row[p].status = "sending" => ~row[p].begun
  BY DEF AgyInv, RemoveRow, CanRemove
<1>2. /\ row' \in [Prompt -> RowType] /\ row'[p].status = "none" /\ \A q \in Prompt \ {p} : row'[q] = row[q]
      /\ QueueOK(queue, row)'
  BY <1>1, DeletedRow DEF RemoveRow
<1>3. UNCHANGED <<queuings, binding, convs, task, activation, turns, sess, work, exposed, setup, faults, crashes>>
  BY DEF RemoveRow, bounds
<1>4. PlainOK'
  BY <1>1, <1>2, <1>3 DEF PlainOK
<1>5. PromptOK(p)'
  <2>1. \A u \in Task : (Holds(u, p)' <=> Holds(u, p)) /\ (Ahead(u)' <=> Ahead(u))
    BY <1>3 DEF Holds, Ahead
  <2>2. \A n \in 1 .. Len(turns') : Awaited(n, p)' <=> Awaited(n, p)
    BY <1>3 DEF Awaited
  <2>3. Counted(p)' = Counted(p)
    BY <1>3 DEF Counted
  <2>4. Due(p)' => Due(p)
    BY <1>2, <2>1 DEF Due
  <2>5. Sole(p)'
    BY <1>1, <1>3, <2>1, <2>2 DEF PromptOK, Sole
  <2> QED BY <1>1, <1>2, <1>3, <2>3, <2>4, <2>5 DEF PromptOK
<1>6. Gone(p) => Gone(p)'
  BY <1>1 DEF Gone
<1>7. ASSUME NEW u \in Task, Holds(u, p) PROVE HolderOK(u, p)'
  <2>1. PlaceOK(u) /\ task[u].prompt = p
    BY <1>7 DEF AgyInv, Holds
  <2>2. u # Creator =>
           queuings[p] > 0 /\ (task[u].pc \in AfterBegin => row[p].status = "sending" /\ row[p].begun)
    BY <1>7, <2>1 DEF PlaceOK
  <2>3. u # Creator => task[u].pc \notin AfterBegin
    BY <1>1, <2>2
  <2>4. u = Creator /\ task[u].pc \in Unmade => queuings[p] = 0
    BY <2>1 DEF PlaceOK
  <2> QED BY <1>2, <1>3, <2>1, <2>2, <2>3, <2>4 DEF HolderOK
<1> QED BY <1>2, <1>3, <1>4, <1>5, <1>6, <1>7, RowAlone

-----------------------------------------------------------------------------
(* The row of p is as far along as it was, and in the same hands. *)
LEMMA SamePrompt ==
    ASSUME NEW p \in Prompt, PromptOK(p), UNCHANGED <<turns, setup>>,
           row'[p].status = row[p].status, row'[p].lease = row[p].lease, queuings'[p] = queuings[p],
           \A u \in Task : Holds(u, p)' <=> Holds(u, p),
           Due(p)' => Due(p)
    PROVE  PromptOK(p)'
<1>1. \A n \in 1 .. Len(turns') : Awaited(n, p)' <=> Awaited(n, p)
  BY DEF Awaited
<1>2. Counted(p)' = Counted(p)
  BY DEF Counted
<1>3. Sole(p)'
  BY <1>1 DEF PromptOK, Sole
<1>4. row'[p].status \in {"queued", "failed"} => Free(p)'
  BY <1>1 DEF PromptOK, Free
<1> QED BY <1>1, <1>2, <1>3, <1>4 DEF PromptOK

(* A dispatcher of a row that can be claimed is the first to have it in hand. *)
LEMMA ClaimKeeps == ASSUME AgyInv, NEW d \in Dispatcher, Claim(d) PROVE AgyInv'
<1>1. /\ d \in Task /\ d # Creator /\ PlainOK /\ QueueOK(queue, row) /\ task[d].pc = "claim" /\ PlaceOK(d)
      /\ UNCHANGED <<queue, queuings, binding, convs, activation, turns, sess, work, exposed, setup, faults, crashes>>
  BY AgyAssumption DEF Claim, At, Task, AgyInv, super, bounds
<1>0. PICK p \in Prompt : p = task[d].prompt
  BY <1>1 DEF PlaceOK, Prompted, Points
<1>2. PromptOK(p) /\ queuings[p] \in Nat
  BY <1>1 DEF AgyInv, PlainOK
<1>3. CASE ~CanClaim(p)
  <2>1. Leave(d) /\ UNCHANGED row
    BY <1>0, <1>3 DEF Claim
  <2>2. \A q \in Prompt : ~Holds(d, q)
    BY <1>1 DEF Holds, BeforeRow
  <2>3. Supervises
    BY <1>1, NothingSupervises DEF AgyInv
  <2>4. RestStays
    BY <1>1, <2>1 DEF RestStays, AgyInv, PlainOK
  <2> QED BY <1>1, <2>1, <2>2, <2>3, <2>4, LeaveKeeps
<1>4. CASE CanClaim(p)
  <2> DEFINE r == [row[p] EXCEPT !.status = "sending", !.begun = FALSE]
  <2>1. row[p] \in RowType /\ row[p].status = "queued"
    BY <1>1, <1>2, <1>4 DEF PlainOK, CanClaim
  <2>2. r \in RowType /\ r.status = "sending" /\ r.begun = FALSE /\ r.lease = row[p].lease
    BY <2>1 DEF RowType, Statuses
  <2>3. row' = [row EXCEPT ![p] = r]
    BY <1>0, <1>1, <1>2, <1>4, <2>1 DEF Claim, PlainOK, RowType
  <2> HIDE DEF r
  <2>4. /\ row' \in [Prompt -> RowType] /\ row'[p].status = "sending" /\ row'[p].begun = FALSE
        /\ \A q \in Prompt \ {p} : row'[q] = row[q]
    BY <1>1, <1>2, <2>2, <2>3, RowSet
  <2>5. PICK point \in {"drop", "route"} : Goto(d, point)
    BY <1>0, <1>4 DEF Claim
  <2>6. Moves(d) /\ task'[d].pc = point /\ task'[d].prompt = p
    <3>1. point \in Points
      BY DEF Points
    <3> QED BY <1>0, <1>1, <2>5, <3>1, Went DEF PlainOK
  <2>7. PlainOK' /\ QueueOK(queue, row)'
    <3>1. QueueOK(queue, row)'
      BY <1>1, <1>2, <2>1, <2>4, QueueSame
    <3> QED BY <1>1, <2>4, <2>6, <3>1 DEF PlainOK, Moves
  <2>8. Free(p) /\ queuings[p] > 0 /\ Cardinality(Counted(p)) < queuings[p]
    BY <1>2, <2>1 DEF PromptOK, Due
  <2>9. \A u \in Task : Holds(u, p)' => u = d
    BY <2>6, <2>8 DEF Moves, Free, Holds
  <2>10. PromptOK(p)'
    <3>1. \A n \in 1 .. Len(turns') : ~Awaited(n, p)'
      BY <1>1, <2>8 DEF Awaited, Free
    <3>2. Counted(p)' = Counted(p)
      BY <1>1 DEF Counted
    <3>3. Sole(p)'
      BY <2>9, <3>1 DEF Sole
    <3>4. Holds(d, p)'
      BY <2>6 DEF Holds, BeforeRow
    <3>5. \A n \in 1 .. Len(turns') : turns'[n].prompt = p /\ turns'[n].final # "none" => queuings'[p] > 0
      BY <1>1, <2>8
    <3>6. Cardinality(Counted(p)') < queuings'[p] /\ queuings'[p] > 0
      BY <1>1, <2>8, <3>2
    <3>7. Cardinality(Counted(p)') <= queuings'[p]
      <4>1. Cardinality(Counted(p)) \in Nat
        BY CountedFinite DEF AgyInv
      <4> QED BY <1>1, <1>2, <3>2, <3>6, <4>1
    <3> QED BY <1>1, <2>4, <3>1, <3>3, <3>4, <3>5, <3>6, <3>7 DEF PromptOK
  <2>11. \A u \in Task \ {d} : Holds(u, p) => HolderOK(u, p)'
    BY <2>8 DEF Free
  <2>12. TurnOK(d)'
    BY <2>6 DEF TurnOK, HasTurn
  <2>13. \A q \in Prompt \ {p} : ~Holds(d, q) /\ ~Holds(d, q)'
    BY <1>0, <1>1, <2>6 DEF Holds, BeforeRow
  <2>14. PlaceOK(d)'
    BY <1>1, <1>2, <2>4, <2>6, <2>8, <2>13
       DEF PlaceOK, Prompted, Points, CreatorOnly, Unbegun, AfterBegin, Holds
  <2>15. ~Gone(p)
    BY <2>1 DEF Gone
  <2> QED BY <1>1, <1>2, <2>4, <2>6, <2>7, <2>10, <2>11, <2>12, <2>13, <2>14,
     <2>15, RowBy
<1> QED BY <1>3, <1>4

(* A row whose turn begins is marked as begun, in the same hands. *)
LEMMA BeginKeeps == ASSUME AgyInv, NEW d \in Dispatcher, Begin(d) PROVE AgyInv'
<1>1. /\ d \in Task /\ d # Creator /\ PlainOK /\ QueueOK(queue, row) /\ task[d].pc = "begin" /\ PlaceOK(d)
      /\ UNCHANGED <<queue, queuings, binding, convs, activation, turns, sess, work, exposed, setup, faults, crashes>>
  BY AgyAssumption DEF Begin, At, Task, AgyInv, super, bounds
<1>0. PICK p \in Prompt : p = task[d].prompt
  BY <1>1 DEF PlaceOK, Prompted, Points
<1>2. /\ PromptOK(p) /\ queuings[p] \in Nat /\ Holds(d, p) /\ queuings[p] > 0
      /\ row[p].status # "sending" \/ ~row[p].begun
  BY <1>0, <1>1 DEF AgyInv, PlainOK, PlaceOK, Holds, BeforeRow, Unbegun
<1>3. CASE ~CanBegin(p)
  <2>1. Leave(d) /\ UNCHANGED row
    BY <1>0, <1>3 DEF Begin
  <2>2. \A q \in Prompt : Holds(d, q) => row[q].status # "sending"
    BY <1>0, <1>2, <1>3 DEF Holds, CanBegin
  <2>3. Supervises
    BY <1>1, NothingSupervises DEF AgyInv
  <2>4. RestStays
    BY <1>1, <2>1 DEF RestStays, AgyInv, PlainOK
  <2> QED BY <1>1, <2>1, <2>2, <2>3, <2>4, LeaveKeeps
<1>4. CASE CanBegin(p)
  <2> DEFINE r == [row[p] EXCEPT !.begun = TRUE]
  <2>1. row[p] \in RowType /\ row[p].status = "sending"
    BY <1>1, <1>4 DEF PlainOK, CanBegin
  <2>2. r \in RowType /\ r.status = "sending" /\ r.begun = TRUE /\ r.lease = row[p].lease
    BY <2>1 DEF RowType
  <2>3. row' = [row EXCEPT ![p] = r]
    BY <1>0, <1>4 DEF Begin
  <2> HIDE DEF r
  <2>4. /\ row' \in [Prompt -> RowType] /\ row'[p].status = "sending" /\ row'[p].begun = TRUE
        /\ row'[p].lease = row[p].lease
        /\ \A q \in Prompt \ {p} : row'[q] = row[q]
    BY <1>1, <2>2, <2>3, RowSet
  <2>5. PICK point \in {"spawn", "find"} : Goto(d, point)
    BY <1>0, <1>4 DEF Begin
  <2>6. Moves(d) /\ task'[d].pc = point /\ task'[d].prompt = p
    <3>1. point \in Points
      BY DEF Points
    <3> QED BY <1>0, <1>1, <2>5, <3>1, Went DEF PlainOK
  <2>7. PlainOK' /\ QueueOK(queue, row)'
    <3>1. QueueOK(queue, row)'
      BY <1>1, <2>1, <2>4, QueueSame
    <3> QED BY <1>1, <2>4, <2>6, <3>1 DEF PlainOK, Moves
  <2>8. \A u \in Task : Holds(u, p) => u = d
    BY <1>1, <1>2 DEF PromptOK, Sole
  <2>9. \A u \in Task : Holds(u, p)' <=> Holds(u, p)
    BY <1>2, <2>6 DEF Moves, Holds, BeforeRow
  <2>10. PromptOK(p)'
    <3>1. Due(p)
      BY <1>1, <1>2 DEF Due, Ahead, Unturned, Unbegun
    <3> QED BY <1>1, <1>2, <2>1, <2>4, <2>9, <3>1, SamePrompt
  <2>11. \A u \in Task \ {d} : Holds(u, p) => HolderOK(u, p)'
    BY <2>8
  <2>12. TurnOK(d)'
    BY <2>6 DEF TurnOK, HasTurn
  <2>13. \A q \in Prompt \ {p} : ~Holds(d, q) /\ ~Holds(d, q)'
    BY <1>0, <2>6 DEF Holds
  <2>14. PlaceOK(d)'
    BY <1>1, <1>2, <2>4, <2>6, <2>13 DEF PlaceOK, Prompted, Points, CreatorOnly,
       Unbegun, AfterBegin, Holds
  <2>15. ~Gone(p)
    BY <2>1 DEF Gone
  <2> QED BY <1>1, <2>4, <2>6, <2>7, <2>10, <2>11, <2>12, <2>13, <2>14, <2>15, RowBy
<1> QED BY <1>3, <1>4

(* A task lets go of the row of p, which is not in delivery any more. *)
LEMMA LetsGo ==
    ASSUME AgyInv, NEW t \in Task, NEW p \in Prompt, Holds(t, p), Leave(t),
           row' \in [Prompt -> RowType], \A q \in Prompt \ {p} : row'[q] = row[q],
           row'[p].status \in {"none", "failed"}, row[p].status # "none", QueueOK(queue, row)',
           binding' \in Int \cup {None}, convs' \in Nat,
           UNCHANGED <<queuings, activation, turns, sess, work, exposed, setup, faults, crashes>>
    PROVE  AgyInv'
<1>1. Moves(t) /\ task'[t].pc = "idle"
  BY Left DEF AgyInv, PlainOK
<1>2. PromptOK(p) /\ queuings[p] \in Nat /\ queuings[p] > 0
  BY DEF AgyInv, PlainOK, PromptOK
<1>3. PlainOK'
  BY <1>1 DEF AgyInv, PlainOK, Moves
<1>4. \A u \in Task : Holds(u, p) => u = t
  BY <1>2 DEF PromptOK, Sole
<1>5. PromptOK(p)'
  <2>1. \A u \in Task : ~Holds(u, p)'
    BY <1>1, <1>4 DEF Moves, Holds, BeforeRow
  <2>2. \A n \in 1 .. Len(turns') : ~Awaited(n, p)'
    BY <1>2 DEF PromptOK, Sole, Awaited
  <2>3. Counted(p)' = Counted(p)
    BY DEF Counted
  <2>4. Cardinality(Counted(p)') <= queuings'[p]
    BY <1>2, <2>3 DEF PromptOK
  <2> QED BY <1>2, <2>1, <2>2, <2>4, FreePrompt
<1>6. TurnOK(t)' /\ PlaceOK(t)' /\ \A q \in Prompt : ~Holds(t, q)'
  <2>1. \A q \in Prompt : ~Holds(t, q)'
    BY <1>1 DEF Holds, BeforeRow
  <2> QED BY <1>1, <2>1 DEF TurnOK, HasTurn, PlaceOK, Prompted, CreatorPoints,
     CreatorOnly, Unmade
<1>7. \A q \in Prompt \ {p} : ~Holds(t, q)
  BY DEF Holds
<1>8. ~Gone(p)
  BY DEF Gone
<1> QED BY <1>1, <1>3, <1>4, <1>5, <1>6, <1>7, <1>8, RowBy

(* The row fails, if it is still there. *)
LEMMA FailRowKeeps == ASSUME AgyInv, NEW t \in Task, FailRow(t) PROVE AgyInv'
<1>1. /\ PlainOK /\ QueueOK(queue, row) /\ task[t].pc = "fail" /\ PlaceOK(t) /\ Leave(t)
      /\ UNCHANGED <<queue, queuings, binding, convs, activation, turns, sess, work, exposed, setup, faults, crashes>>
  BY DEF FailRow, At, AgyInv, super, bounds
<1>0. PICK p \in Prompt : p = task[t].prompt
  BY <1>1 DEF PlaceOK, Prompted, Points
<1>2. Holds(t, p) /\ FailedRow(p)
  BY <1>0, <1>1 DEF Holds, BeforeRow, FailRow
<1>3. CASE row[p].status = "none"
  <2>1. UNCHANGED row
    BY <1>2, <1>3 DEF FailedRow
  <2>2. \A q \in Prompt : Holds(t, q) => row[q].status # "sending"
    BY <1>0, <1>3 DEF Holds
  <2>3. Supervises
    BY <1>1, NothingSupervises DEF AgyInv
  <2>4. RestStays
    BY <1>1, <2>1 DEF RestStays, PlainOK
  <2> QED BY <1>1, <2>2, <2>3, <2>4, LeaveKeeps
<1>4. CASE row[p].status # "none"
  <2>1. row' = [row EXCEPT ![p].status = "failed"] /\ "failed" \in Statuses
    BY <1>2, <1>4 DEF FailedRow, Statuses
  <2>2. row' \in [Prompt -> RowType] /\ row'[p].status = "failed" /\ \A q \in Prompt \ {p} : row'[q] = row[q]
    BY <1>1, <2>1, StatusSet
  <2>3. QueueOK(queue, row)'
    BY <1>1, <1>4, <2>2, QueueSame
  <2>4. binding' \in Int \cup {None} /\ convs' \in Nat
    BY <1>1 DEF PlainOK
  <2> QED BY <1>1, <1>2, <1>4, <2>2, <2>3, <2>4, LetsGo
<1> QED BY <1>3, <1>4

(* A compacted prompt ends with its row. *)
LEMMA CompactRotatesKeeps == ASSUME AgyInv, NEW d \in Dispatcher, CompactRotates(d) PROVE AgyInv'
<1>1. /\ d \in Task /\ PlainOK /\ QueueOK(queue, row) /\ task[d].pc = "compacted" /\ Leave(d)
      /\ UNCHANGED <<queuings, activation, turns, sess, work, exposed, setup, faults, crashes>>
      /\ task[d].prompt \in Prompt \cup {None}
  BY DEF CompactRotates, At, Task, AgyInv, PlainOK, TaskType, super, bounds
<1>2. convs' \in Nat /\ binding' \in Int \cup {None}
  BY <1>1 DEF CompactRotates, PlainOK
<1>3. CASE task[d].prompt # None /\ row[task[d].prompt].status = "sending"
  <2>1. PICK p \in Prompt : p = task[d].prompt
    BY <1>1, <1>3
  <2>2. Deleted(p) /\ row[p].status # "none" /\ Holds(d, p)
    BY <1>1, <1>3, <2>1 DEF CompactRotates, Holds, BeforeRow
  <2>3. /\ row' \in [Prompt -> RowType] /\ row'[p].status = "none" /\ \A q \in Prompt \ {p} : row'[q] = row[q]
        /\ QueueOK(queue, row)'
    BY <1>1, <2>2, DeletedRow
  <2> QED BY <1>1, <1>2, <2>2, <2>3, LetsGo
<1>4. CASE ~(task[d].prompt # None /\ row[task[d].prompt].status = "sending")
  <2>1. UNCHANGED <<queue, row>>
    BY <1>4 DEF CompactRotates
  <2>2. \A q \in Prompt : Holds(d, q) => row[q].status # "sending"
    BY <1>4, AgyAssumption DEF Holds
  <2>3. Supervises
    BY <1>1, NothingSupervises DEF AgyInv
  <2>4. RestStays
    BY <1>1, <1>2, <2>1 DEF RestStays, PlainOK
  <2> QED BY <1>1, <2>2, <2>3, <2>4, LeaveKeeps
<1> QED BY <1>3, <1>4

-----------------------------------------------------------------------------
(* The first send of a prompt, which nobody has in hand. *)
LEMMA CreateKeeps == ASSUME AgyInv, NEW p \in Prompt, Create(p) PROVE AgyInv'
<1>1. /\ Creator \in Task /\ PlainOK /\ QueueOK(queue, row) /\ task[Creator].pc = "idle" /\ queuings[p] = 0
      /\ UNCHANGED <<queue, row, queuings, binding, convs, activation, turns, sess, work, exposed, setup, faults, crashes>>
  BY DEF Create, At, Task, AgyInv, super, store, bounds
<1>2. /\ row[p].status = "none" /\ Cardinality(Counted(p)) = 0
      /\ \A n \in 1 .. Len(turns) : turns[n].prompt = p => turns[n].final = "none"
      /\ \A u \in Task : Holds(u, p) => u = Creator
  BY <1>1, NoneAwaitedNotYet
<1>3. \A u \in Task : ~Holds(u, p)
  BY <1>1, <1>2 DEF Holds, BeforeRow
<1>4. Moves(Creator) /\ task'[Creator].pc = "create" /\ task'[Creator].prompt = p
  <2> DEFINE new == [Idle EXCEPT !.pc = "create", !.prompt = p]
  <2>1. new \in TaskType /\ new.pc = "create" /\ new.prompt = p
    <3>1. Idle \in TaskType /\ "create" \in Points
      BY AgyAssumption DEF Idle, TaskType, Points
    <3> QED BY <3>1 DEF TaskType
  <2>2. task' = [task EXCEPT ![Creator] = new]
    BY DEF Create
  <2> HIDE DEF new
  <2> QED BY <1>1, <2>1, <2>2, Moved DEF PlainOK
<1>5. PlainOK' /\ QueueOK(queue, row)'
  BY <1>1, <1>4 DEF PlainOK, Moves, QueueOK
<1>6. \A u \in Task : Holds(u, p)' => u = Creator
  BY <1>3, <1>4 DEF Moves, Holds
<1>7. PromptOK(p)'
  <2>1. \A n \in 1 .. Len(turns') : ~Awaited(n, p)' /\ ~(turns'[n].prompt = p /\ turns'[n].final # "none")
    BY <1>1, <1>2 DEF Awaited
  <2>2. Counted(p)' = Counted(p)
    BY <1>1 DEF Counted
  <2>3. Sole(p)'
    BY <1>6, <2>1 DEF Sole
  <2>4. ~Due(p)'
    BY <1>1, <1>2, <1>4, <1>6 DEF Due, Ahead
  <2> QED BY <1>1, <1>2, <2>1, <2>2, <2>3, <2>4 DEF PromptOK
<1>8. TurnOK(Creator)'
  BY <1>4 DEF TurnOK, HasTurn
<1>9. \A q \in Prompt \ {p} : ~Holds(Creator, q) /\ ~Holds(Creator, q)'
  BY <1>1, <1>4 DEF Holds, BeforeRow
<1>10. PlaceOK(Creator)'
  BY <1>1, <1>4, <1>9 DEF PlaceOK, CreatorPoints, CreatorOnly
<1> QED BY <1>1, <1>3, <1>4, <1>5, <1>7, <1>8, <1>9, <1>10, RowBy DEF Gone

(* The row of a first send is made, claimed. *)
LEMMA CreateEnqueuesKeeps == ASSUME AgyInv, CreateEnqueues PROVE AgyInv'
<1>1. /\ Creator \in Task /\ PlainOK /\ QueueOK(queue, row) /\ task[Creator].pc = "enqueue" /\ PlaceOK(Creator)
      /\ SuperOK /\ TurnOK(Creator)
      /\ UNCHANGED <<binding, convs, activation, turns, sess, work, exposed, crashes>>
  BY DEF CreateEnqueues, At, Task, AgyInv, super
<1>0. PICK p \in Prompt : p = task[Creator].prompt
  BY <1>1 DEF PlaceOK, Prompted, Points
<1>2. /\ queuings[p] = 0 /\ Holds(Creator, p) /\ PromptOK(p)
  BY <1>0, <1>1 DEF PlaceOK, Unmade, Holds, BeforeRow, AgyInv
<1>3. CASE Fault("db") /\ Goto(Creator, "stopOnly") /\ UNCHANGED store
  <2>1. "stopOnly" \in Points /\ "stopOnly" \in HasTurn /\ "stopOnly" \in CreatorPoints /\ "stopOnly" \notin Unmade
        /\ "stopOnly" \notin BeforeRow \cup {"write", "reuse"}
    BY DEF Points, HasTurn, CreatorPoints, Unmade, BeforeRow
  <2>2. task[Creator].pc \notin BeforeRow /\ task[Creator].pc \in HasTurn /\ task[Creator].pc \in Prompted
    BY <1>1 DEF BeforeRow, HasTurn, Prompted, Points
  <2>3. "db" \in setup.kinds /\ RestStays
    BY <1>1, <1>3 DEF Fault, RestStays, store, PlainOK
  <2>4. Supervises
    BY <1>1, NothingSupervises
  <2> QED BY <1>1, <1>3, <2>1, <2>2, <2>3, <2>4, GotoKeeps
<1>4. CASE /\ NoFault /\ Goto(Creator, "persist") /\ queue' = Append(queue, p)
           /\ row' = [row EXCEPT ![p].status = "sending"] /\ queuings' = [queuings EXCEPT ![p] = 1]
  <2>1. /\ row[p].status = "none" /\ Cardinality(Counted(p)) = 0
        /\ \A n \in 1 .. Len(turns) : turns[n].prompt = p => turns[n].final = "none"
        /\ \A u \in Task : Holds(u, p) => u = Creator
    BY <1>2, NoneAwaitedNotYet
  <2>2. /\ row' \in [Prompt -> RowType] /\ row'[p].status = "sending" /\ \A q \in Prompt \ {p} : row'[q] = row[q]
    <3>1. "sending" \in Statuses
      BY DEF Statuses
    <3> QED BY <1>1, <1>4, <3>1, StatusSet
  <2>3. queuings' \in [Prompt -> Nat] /\ queuings'[p] = 1 /\ \A q \in Prompt \ {p} : queuings'[q] = queuings[q]
    BY <1>1, <1>4 DEF PlainOK
  <2>4. QueueOK(queue, row)'
    <3>1. row'[p].status # "none"
      BY <2>2
    <3> QED BY <1>1, <1>4, <2>1, <2>2, <3>1, QueueAppended
  <2>5. Moves(Creator) /\ task'[Creator].pc = "persist" /\ task'[Creator].prompt = p /\ task'[Creator].turn = task[Creator].turn
    <3>1. "persist" \in Points
      BY DEF Points
    <3> QED BY <1>0, <1>1, <1>4, <3>1, Went DEF PlainOK
  <2>6. UNCHANGED <<setup, faults>>
    BY <1>4 DEF NoFault
  <2>7. PlainOK'
    BY <1>1, <2>2, <2>3, <2>5, <2>6 DEF PlainOK, Moves
  <2>8. \A u \in Task : Holds(u, p)' <=> Holds(u, p)
    BY <1>2, <2>5 DEF Moves, Holds, BeforeRow
  <2>9. PromptOK(p)'
    <3>1. \A n \in 1 .. Len(turns') : ~Awaited(n, p)' /\ ~(turns'[n].prompt = p /\ turns'[n].final # "none")
      BY <1>1, <2>1 DEF Awaited
    <3>2. Counted(p)' = Counted(p)
      BY <1>1 DEF Counted
    <3>3. Sole(p)'
      BY <2>1, <2>8, <3>1 DEF Sole
    <3>4. Cardinality(Counted(p)') = 0 /\ queuings'[p] = 1
      BY <2>1, <2>3, <3>2
    <3>5. Cardinality(Counted(p)') <= queuings'[p] /\ Cardinality(Counted(p)') < queuings'[p] /\ queuings'[p] > 0
      BY <3>4
    <3>6. Holds(Creator, p)'
      BY <1>2, <1>1, <2>8
    <3> QED BY <1>1, <2>2, <3>1, <3>3, <3>5, <3>6 DEF PromptOK
  <2>10. TurnOK(Creator)'
    <3>1. Supervises
      BY <1>1, NothingSupervises
    <3> QED BY <1>0, <1>1, <2>5, <3>1, GoesOn DEF HasTurn
  <2>11. \A q \in Prompt \ {p} : ~Holds(Creator, q) /\ ~Holds(Creator, q)'
    BY <1>0, <2>5 DEF Holds
  <2>12. PlaceOK(Creator)'
    BY <1>1, <2>5 DEF PlaceOK, CreatorPoints, CreatorOnly, Unmade
  <2>13. ~Gone(p)
    BY <1>2 DEF Gone
  <2>14. \A u \in Task \ {Creator} : Holds(u, p) => HolderOK(u, p)'
    BY <2>1
  <2> QED BY <1>1, <2>2, <2>3, <2>4, <2>5, <2>6, <2>7, <2>9, <2>10, <2>11, <2>12,
     <2>13, <2>14, RowBy
<1> QED BY <1>0, <1>3, <1>4 DEF CreateEnqueues

-----------------------------------------------------------------------------
(* One turn is further along; nothing else is. *)
LEMMA FinalSet ==
    ASSUME SuperOK, NEW n \in 1 .. Len(turns), NEW final \in {"none", "wait", "done", "lost"},
           turns' = [turns EXCEPT ![n].final = final], UNCHANGED <<sess, work>>
    PROVE  /\ Len(turns') = Len(turns) /\ turns'[n].final = final
           /\ \A m \in 1 .. Len(turns) :
                 /\ turns'[m].prompt = turns[m].prompt /\ turns'[m].host = turns[m].host
                 /\ turns'[m].first = turns[m].first /\ turns'[m].outcome = turns[m].outcome
                 /\ turns'[m].exit = turns[m].exit
                 /\ m # n => turns'[m] = turns[m]
           /\ SuperOK'
           /\ \A u \in Task : TurnOK(u) /\ task'[u] = task[u] /\ (task[u].pc \in HasTurn => task[u].turn # n) => TurnOK(u)'
<1> DEFINE new == [turns[n] EXCEPT !.final = final]
<1>1. turns \in Seq(TurnType) /\ turns[n] \in TurnType /\ Len(turns) \in Nat
  BY TurnIsTyped, TurnsDomain DEF SuperOK
<1>2. /\ new \in TurnType /\ new.prompt = turns[n].prompt /\ new.host = turns[n].host /\ new.first = turns[n].first
      /\ new.outcome = turns[n].outcome /\ new.exit = turns[n].exit /\ new.final = final
  BY <1>1 DEF TurnType
<1>3. turns' = [turns EXCEPT ![n] = new]
  OBVIOUS
<1> HIDE DEF new
<1>4. /\ turns' \in Seq(TurnType) /\ Len(turns') = Len(turns) /\ turns'[n] = new
      /\ \A m \in 1 .. Len(turns) : m # n => turns'[m] = turns[m]
  BY <1>1, <1>2, <1>3, ExceptSeq
<1>5. \A m \in 1 .. Len(turns) :
         /\ turns'[m].prompt = turns[m].prompt /\ turns'[m].host = turns[m].host
         /\ turns'[m].first = turns[m].first /\ turns'[m].outcome = turns[m].outcome
         /\ turns'[m].exit = turns[m].exit
         /\ m # n => turns'[m] = turns[m]
  BY <1>2, <1>4
<1>6. SuperOK'
  BY <1>4, <1>5 DEF SuperOK
<1>7. ASSUME NEW u \in Task, TurnOK(u), task'[u] = task[u], task[u].pc \in HasTurn => task[u].turn # n
      PROVE  TurnOK(u)'
  <2>1. \A m \in 1 .. Len(turns) : turns[m].host \in 1 .. Len(turns)
    BY DEF SuperOK
  <2>2. ASSUME task[u].pc \in HasTurn
        PROVE  LET m == task[u].turn IN
               /\ m \in 1 .. Len(turns')
               /\ turns'[m].prompt = task[u].prompt /\ turns'[m].first = (u = Creator)
               /\ turns'[m].final = "none" /\ turns'[turns'[m].host].exit # "lost"
    BY <1>4, <1>5, <1>7, <2>1, <2>2 DEF TurnOK
  <2>3. ASSUME task[u].pc = "write"
        PROVE  LET m == task[u].turn IN
               turns'[m].host = m /\ turns'[m].outcome = "none" /\ \A k \in DOMAIN sess' : sess'[k].turn # m
    BY <1>5, <1>7, <2>3 DEF TurnOK, HasTurn
  <2>4. ASSUME task[u].pc = "reuse"
        PROVE  LET k == task[u].turn IN k \in 1 .. Len(turns') /\ turns'[k].host = k /\ turns'[k].exit # "lost"
    BY <1>4, <1>5, <1>7, <2>4 DEF TurnOK
  <2> QED BY <1>7, <2>2, <2>3, <2>4 DEF TurnOK
<1> QED BY <1>2, <1>4, <1>5, <1>6, <1>7

(* The row has its lease, and the finalizer the turn. *)
LEMMA PersistLeases ==
    ASSUME AgyInv, NEW t \in Task, NEW p \in Prompt, NEW n, p = task[t].prompt, n = task[t].turn,
           task[t].pc = "persist", row[p].status # "none",
           row' = [row EXCEPT ![p].lease = turns[n].host],
           turns' = [turns EXCEPT ![n].final = "wait"],
           Leave(t),
           UNCHANGED <<queue, queuings, binding, convs, activation, sess, work, exposed, setup, faults, crashes>>
    PROVE  AgyInv'
<1>1. /\ PlainOK /\ QueueOK(queue, row) /\ SuperOK /\ PlaceOK(t) /\ TurnOK(t) /\ LostOK /\ PromptOK(p)
      /\ Holds(t, p) /\ queuings[p] \in Nat
  BY DEF AgyInv, PlainOK, Holds, BeforeRow
<1>2. /\ n \in 1 .. Len(turns) /\ turns[n].prompt = p /\ turns[n].first = (t = Creator) /\ turns[n].final = "none"
      /\ turns[n].host \in 1 .. Len(turns)
  BY <1>1 DEF TurnOK, HasTurn, SuperOK
<1>3. /\ Len(turns') = Len(turns) /\ turns'[n].final = "wait"
      /\ \A m \in 1 .. Len(turns) :
            /\ turns'[m].prompt = turns[m].prompt /\ turns'[m].host = turns[m].host
            /\ turns'[m].first = turns[m].first /\ turns'[m].outcome = turns[m].outcome
            /\ turns'[m].exit = turns[m].exit
            /\ m # n => turns'[m] = turns[m]
      /\ SuperOK'
      /\ \A u \in Task : TurnOK(u) /\ task'[u] = task[u] /\ (task[u].pc \in HasTurn => task[u].turn # n) => TurnOK(u)'
  BY <1>1, <1>2, FinalSet
<1>4. Moves(t) /\ task'[t].pc = "idle"
  BY <1>1, Left DEF PlainOK
<1>5. row[p].status = "sending"
  BY <1>1 DEF PromptOK, Free, PlainOK, RowType, Statuses
<1>6. /\ row' \in [Prompt -> RowType] /\ row'[p].status = "sending" /\ row'[p].lease = turns[n].host
      /\ \A q \in Prompt \ {p} : row'[q] = row[q]
  <2> DEFINE r == [row[p] EXCEPT !.lease = turns[n].host]
  <2>1. row[p] \in RowType /\ row' = [row EXCEPT ![p] = r]
    BY <1>1 DEF PlainOK
  <2>2. turns[n].host \in 0 .. MaxTurns
    BY <1>1, <1>2, TurnsDomain, AgyAssumption DEF SuperOK
  <2>3. r \in RowType /\ r.lease = turns[n].host /\ r.status = "sending"
    BY <1>5, <2>1, <2>2 DEF RowType
  <2> HIDE DEF r
  <2> QED BY <1>1, <2>1, <2>3, RowSet
<1>7. PlainOK' /\ QueueOK(queue, row)'
  <2>1. QueueOK(queue, row)'
    BY <1>1, <1>5, <1>6, QueueSame
  <2> QED BY <1>1, <1>4, <1>6, <2>1 DEF PlainOK, Moves
<1>8. LostOK'
  <2>1. \A q \in Prompt : Gone(q) => Gone(q)'
    BY <1>5, <1>6 DEF Gone
  <2>2. ASSUME NEW k \in DOMAIN work', work'[k] # 0, turns'[k].exit = "lost" PROVE LostTurnOK(k)'
    <3>1. k \in DOMAIN work /\ work'[k] = work[k] /\ k \in 1 .. Len(turns) /\ work[k] \in 1 .. Len(turns)
      BY <1>1, <2>2 DEF SuperOK
    <3>2. turns[work[k]].prompt \in Prompt
      BY <1>1, <3>1, TurnIsTyped DEF TurnType
    <3>3. /\ turns[k].exit = "lost" /\ turns'[work[k]].prompt = turns[work[k]].prompt
          /\ turns'[work[k]].outcome = turns[work[k]].outcome
      BY <1>3, <2>2, <3>1
    <3>4. LostTurnOK(k)
      BY <1>1, <3>1 DEF LostOK
    <3> QED BY <2>1, <2>2, <3>1, <3>2, <3>3, <3>4 DEF LostTurnOK
  <2>3. \A k \in DOMAIN work' : LostTurnOK(k)'
    BY <2>2 DEF LostTurnOK
  <2> QED BY <2>3 DEF LostOK
<1>9. SameBut(p)
  BY <1>2, <1>3 DEF SameBut
<1>10. \A u \in Task : Holds(u, p) => u = t
  BY <1>1 DEF PromptOK, Sole
<1>11. ASSUME NEW u \in Task \ {t} PROVE TurnOK(u)'
  <2>1. TurnOK(u) /\ task'[u] = task[u]
    BY <1>4, <1>11 DEF AgyInv, Moves
  <2>2. task[u].pc \in HasTurn => task[u].turn # n
    <3>1. task[t].pc \in HasTurn
      BY DEF HasTurn
    <3> QED BY <1>11, <3>1, OwnTurn
  <2> QED BY <1>3, <2>1, <2>2
<1>12. \A q \in Prompt : ~Holds(t, q)'
  BY <1>4 DEF Holds, BeforeRow
<1>13. TurnOK(t)' /\ PlaceOK(t)'
  BY <1>4, <1>12 DEF TurnOK, HasTurn, PlaceOK, Prompted, CreatorPoints,
     CreatorOnly, Unmade
<1>14. \A q \in Prompt \ {p} : ~Holds(t, q)
  BY DEF Holds
<1>15. PromptOK(p)'
  <2>1. \A u \in Task : ~Holds(u, p)'
    BY <1>4, <1>10, <1>12 DEF Moves, Holds
  <2>2. \A m \in 1 .. Len(turns') : Awaited(m, p)' <=> m = n
    <3>1. \A m \in 1 .. Len(turns) : ~Awaited(m, p)
      BY <1>1 DEF PromptOK, Sole
    <3> QED BY <1>2, <1>3, <3>1 DEF Awaited
  <2>3. Sole(p)'
    BY <2>1, <2>2 DEF Sole
  <2>4. queuings'[p] > 0
    BY <1>1 DEF PromptOK
  <2>5. \A m \in 1 .. Len(turns') : Awaited(m, p)' => row'[p].lease = turns'[m].host
    <3>1. row'[p].lease = turns'[n].host
      BY <1>2, <1>3, <1>6
    <3> QED BY <2>2, <3>1
  <2>6. n \in 1 .. Len(turns') /\ Awaited(n, p)'
    BY <1>2, <1>3, <2>2
  <2>7. ~Due(p)'
    BY <1>6, <2>1 DEF Due
  <2>8. Cardinality(Counted(p)') <= queuings'[p]
    <3>1. CASE t # Creator
      <4>1. \A m \in 1 .. Len(turns) :
               /\ turns'[m].prompt = turns[m].prompt
               /\ (turns'[m].first => turns'[m].final # "none") <=> (turns[m].first => turns[m].final # "none")
        BY <1>2, <1>3, <3>1
      <4>2. Counted(p)' = Counted(p)
        BY <1>3, <4>1 DEF Counted
      <4> QED BY <1>1, <4>2 DEF PromptOK
    <3>2. CASE t = Creator
      <4> DEFINE S == Counted(p)
      <4>1. Counted(p)' = S \cup {n}
        <5>1. \A m \in 1 .. Len(turns) : m # n => turns'[m] = turns[m]
          BY <1>3
        <5>2. Len(turns') = Len(turns) /\ n \in 1 .. Len(turns) /\ turns'[n].prompt = p /\ turns'[n].final # "none"
          BY <1>2, <1>3
        <5> QED BY ONLY <5>1, <5>2 DEF Counted
      <4>2. Due(p)
        BY <1>1, <3>2 DEF Due, Ahead
      <4>3. IsFiniteSet(S) /\ Cardinality(S) \in Nat /\ Cardinality(S) < queuings[p]
        BY <1>1, <4>2, CountedFinite DEF PromptOK
      <4> HIDE DEF S
      <4>4. Cardinality(S \cup {n}) = IF n \in S THEN Cardinality(S) ELSE Cardinality(S) + 1
        BY <4>3, FS_AddElement
      <4>5. Cardinality(S \cup {n}) <= queuings[p]
        BY <1>1, <4>3, <4>4
      <4> QED BY <4>1, <4>5
    <3> QED BY <3>1, <3>2
  <2> QED BY <1>6, <2>3, <2>4, <2>5, <2>6, <2>7, <2>8 DEF PromptOK
<1> DEFINE S == {t}
<1>16. S \in SUBSET Task /\ \A u \in Task \ S : task'[u] = task[u] /\ TurnOK(u)' /\ (Holds(u, p) => HolderOK(u, p)')
  BY <1>4, <1>10, <1>11 DEF Moves
<1>17. \A u \in S : TurnOK(u)' /\ PlaceOK(u)' /\ \A q \in Prompt \ {p} : ~Holds(u, q) /\ ~Holds(u, q)'
  BY <1>12, <1>13, <1>14
<1> HIDE DEF S
<1>18. \A q \in Prompt \ {p} : row'[q] = row[q] /\ queuings'[q] = queuings[q]
  BY <1>6
<1> QED BY <1>3, <1>7, <1>8, <1>9, <1>15, <1>16, <1>17, <1>18, RowKeeps

(* Persist keeps the invariant. *)
LEMMA PersistKeeps == ASSUME AgyInv, NEW t \in Task, Persist(t) PROVE AgyInv'
<1>1. /\ task[t].pc = "persist" /\ PlaceOK(t) /\ SuperOK
      /\ UNCHANGED <<queue, queuings, binding, convs, activation, sess, work, exposed, crashes>>
  BY DEF Persist, At, AgyInv
<1>2. PICK p \in Prompt : p = task[t].prompt
  BY <1>1 DEF PlaceOK, Prompted, Points
<1>3. PICK n : n = task[t].turn
  OBVIOUS
<1>4. CASE /\ row[p].status # "none" /\ NoFault
           /\ row' = [row EXCEPT ![p].lease = turns[n].host]
           /\ turns' = [turns EXCEPT ![n].final = "wait"]
           /\ Leave(t)
  BY <1>1, <1>2, <1>3, <1>4, PersistLeases DEF NoFault
<1>5. CASE (NoFault \/ Fault("db")) /\ Goto(t, "stop") /\ UNCHANGED <<row, turns>>
  <2>1. "stop" \in Points /\ "stop" \in HasTurn /\ "stop" \in CreatorPoints /\ "stop" \notin CreatorOnly
        /\ "stop" \notin Unmade /\ "stop" \notin BeforeRow \cup {"write", "reuse"} /\ "stop" \notin Unbegun
        /\ "stop" \notin AfterBegin /\ "stop" \notin Unturned
    BY DEF Points, HasTurn, CreatorPoints, CreatorOnly, Unmade, BeforeRow, Unbegun,
       AfterBegin, Unturned
  <2>2. task[t].pc \notin BeforeRow /\ task[t].pc \in HasTurn /\ task[t].pc \in Prompted
    BY <1>1 DEF BeforeRow, HasTurn, Prompted, Points
  <2>3. RestStays
    BY <1>1, <1>5 DEF Fault, NoFault, RestStays, AgyInv, PlainOK
  <2>4. Supervises
    BY <1>1, <1>5, NothingSupervises
  <2> QED BY <1>5, <2>1, <2>2, <2>3, <2>4, GotoKeeps
<1> QED BY <1>2, <1>3, <1>4, <1>5 DEF Persist, Leased

-----------------------------------------------------------------------------
(* The finalizer of a turn is the only one that has its prompt in hand. *)
LEMMA FinalizeKeeps == ASSUME AgyInv, NEW n, Finalize(n) PROVE AgyInv'
<1>1. /\ PlainOK /\ QueueOK(queue, row) /\ SuperOK /\ LostOK /\ n \in 1 .. Len(turns)
      /\ turns[n].final = "wait" /\ turns' = [turns EXCEPT ![n].final = "done"]
      /\ UNCHANGED <<queuings, binding, convs, task, activation, sess, work, exposed, setup, faults, crashes>>
  BY TurnsDomain DEF Finalize, AgyInv, bounds
<1>2. PICK p \in Prompt : p = turns[n].prompt
  BY <1>1, TurnIsTyped DEF TurnType
<1>3. Awaited(n, p) /\ PromptOK(p) /\ queuings[p] > 0 /\ queuings[p] \in Nat
  BY <1>1, <1>2 DEF Awaited, AgyInv, PromptOK, PlainOK
<1>4. row[p].status \in {"none", "sending"}
  BY <1>1, <1>3 DEF PromptOK, Free, PlainOK, RowType, Statuses
<1>5. /\ row' \in [Prompt -> RowType] /\ row'[p].status \in {"none", "failed"}
      /\ row[p].status = "none" => row'[p].status = "none"
      /\ \A q \in Prompt \ {p} : row'[q] = row[q]
      /\ QueueOK(queue, row)'
  <2>1. CASE row[p].status = "sending" /\ Deleted(p)
    BY <1>1, <2>1, DeletedRow
  <2>2. CASE row[p].status # "sending" /\ UNCHANGED <<queue, row>>
    BY <1>1, <1>4, <2>2, QueueSame DEF PlainOK
  <2>3. CASE FailedRow(p) /\ UNCHANGED queue
    <3>1. CASE row[p].status = "none"
      BY <1>1, <2>3, <3>1, QueueSame DEF PlainOK, FailedRow
    <3>2. CASE row[p].status # "none"
      <4>1. row' = [row EXCEPT ![p].status = "failed"] /\ "failed" \in Statuses
        BY <2>3, <3>2 DEF FailedRow, Statuses
      <4>2. row' \in [Prompt -> RowType] /\ row'[p].status = "failed" /\ \A q \in Prompt \ {p} : row'[q] = row[q]
        BY <1>1, <4>1, StatusSet
      <4> QED BY <1>1, <2>3, <3>2, <4>2, QueueSame
    <3> QED BY <3>1, <3>2
  <2>4. Finalized(turns[n].outcome) \in {"complete", "fail"}
    BY DEF Finalized
  <2> QED BY <1>2, <2>1, <2>2, <2>3, <2>4 DEF Finalize
<1>6. /\ Len(turns') = Len(turns) /\ turns'[n].final = "done"
      /\ \A m \in 1 .. Len(turns) :
            /\ turns'[m].prompt = turns[m].prompt /\ turns'[m].host = turns[m].host
            /\ turns'[m].first = turns[m].first /\ turns'[m].outcome = turns[m].outcome
            /\ turns'[m].exit = turns[m].exit
            /\ m # n => turns'[m] = turns[m]
      /\ SuperOK'
      /\ \A u \in Task : TurnOK(u) /\ task'[u] = task[u] /\ (task[u].pc \in HasTurn => task[u].turn # n) => TurnOK(u)'
  BY <1>1, FinalSet
<1>7. PlainOK'
  BY <1>1, <1>5 DEF PlainOK
<1>8. LostOK'
  <2>1. \A q \in Prompt : Gone(q) => Gone(q)'
    BY <1>1, <1>5 DEF Gone
  <2>2. ASSUME NEW k \in DOMAIN work', work'[k] # 0, turns'[k].exit = "lost" PROVE LostTurnOK(k)'
    <3>1. k \in DOMAIN work /\ work'[k] = work[k] /\ k \in 1 .. Len(turns) /\ work[k] \in 1 .. Len(turns)
      BY <1>1, <2>2 DEF SuperOK
    <3>2. turns[work[k]].prompt \in Prompt
      BY <1>1, <3>1, TurnIsTyped DEF TurnType
    <3>3. /\ turns[k].exit = "lost" /\ turns'[work[k]].prompt = turns[work[k]].prompt
          /\ turns'[work[k]].outcome = turns[work[k]].outcome
      BY <1>6, <2>2, <3>1
    <3>4. LostTurnOK(k)
      BY <1>1, <3>1 DEF LostOK
    <3> QED BY <1>1, <2>1, <2>2, <3>1, <3>2, <3>3, <3>4 DEF LostTurnOK
  <2>3. \A k \in DOMAIN work' : LostTurnOK(k)'
    BY <2>2 DEF LostTurnOK
  <2> QED BY <2>3 DEF LostOK
<1>9. SameBut(p)
  BY <1>2, <1>6 DEF SameBut
<1>10. \A u \in Task : ~Holds(u, p)
  BY <1>1, <1>3 DEF PromptOK, Sole
<1>11. ASSUME NEW u \in Task PROVE TurnOK(u)'
  <2>1. TurnOK(u) /\ task'[u] = task[u]
    BY <1>1 DEF AgyInv
  <2>2. task[u].pc \in HasTurn => task[u].turn # n
    BY <1>1, <2>1 DEF TurnOK
  <2> QED BY <1>6, <2>1, <2>2
<1>12. PromptOK(p)'
  <2>1. \A u \in Task : ~Holds(u, p)'
    BY <1>1, <1>10 DEF Holds
  <2>2. \A m \in 1 .. Len(turns') : ~Awaited(m, p)'
    <3>1. \A m \in 1 .. Len(turns) : Awaited(m, p) => m = n
      BY <1>1, <1>3 DEF PromptOK, Sole
    <3> QED BY <1>6, <3>1 DEF Awaited
  <2>3. Counted(p)' = Counted(p)
    <3>1. \A m \in 1 .. Len(turns) :
             /\ turns'[m].prompt = turns[m].prompt
             /\ (turns'[m].first => turns'[m].final # "none") <=> (turns[m].first => turns[m].final # "none")
      BY <1>1, <1>6
    <3> QED BY <1>6, <3>1 DEF Counted
  <2>4. Cardinality(Counted(p)') <= queuings'[p]
    BY <1>1, <1>3, <2>3 DEF PromptOK
  <2>5. queuings'[p] > 0 /\ queuings'[p] \in Nat
    BY <1>1, <1>3
  <2> QED BY <1>5, <2>1, <2>2, <2>4, <2>5, FreePrompt
<1> DEFINE S == {}
<1>13. S \in SUBSET Task /\ \A u \in Task \ S : task'[u] = task[u] /\ TurnOK(u)' /\ (Holds(u, p) => HolderOK(u, p)')
  BY <1>1, <1>10, <1>11
<1>14. \A u \in S : TurnOK(u)' /\ PlaceOK(u)' /\ \A q \in Prompt \ {p} : ~Holds(u, q) /\ ~Holds(u, q)'
  OBVIOUS
<1> HIDE DEF S
<1>15. \A q \in Prompt \ {p} : row'[q] = row[q] /\ queuings'[q] = queuings[q]
  BY <1>1, <1>5
<1> QED BY <1>1, <1>5, <1>6, <1>7, <1>8, <1>9, <1>12, <1>13, <1>14, <1>15, RowKeeps

-----------------------------------------------------------------------------
(* What a crash makes of the record of a turn. *)
Fallen(r) ==
    [r EXCEPT !.final = IF @ = "wait" THEN "lost" ELSE @, !.exit = "lost", !.reader = "gone", !.grace = "done",
              !.init = IF @ = "wait" THEN "error" ELSE @]

(* A turn stays a turn after a crash, with nobody who waits for it. *)
LEMMA FallenTyped ==
    ASSUME NEW r \in TurnType
    PROVE  /\ Fallen(r) \in TurnType /\ Fallen(r).prompt = r.prompt /\ Fallen(r).host = r.host
           /\ Fallen(r).first = r.first /\ Fallen(r).outcome = r.outcome
           /\ Fallen(r).exit = "lost" /\ Fallen(r).final # "wait"
           /\ Fallen(r).final = "none" <=> r.final = "none"
<1> DEFINE final == IF r.final = "wait" THEN "lost" ELSE r.final
           init  == IF r.init = "wait" THEN "error" ELSE r.init
<1>1. /\ final \in {"none", "done", "lost"} /\ init \in {"ok", "error"}
      /\ final # "wait" /\ (final = "none" <=> r.final = "none")
  BY DEF TurnType
<1>2. PICK fin : fin = final
  OBVIOUS
<1>3. PICK ini : ini = init
  OBVIOUS
<1>4. Fallen(r) = [r EXCEPT !.final = fin, !.exit = "lost", !.reader = "gone", !.grace = "done", !.init = ini]
  <2>1. [r EXCEPT !.final = final, !.exit = "lost", !.reader = "gone", !.grace = "done"].init = r.init
    BY DEF TurnType
  <2> QED BY <1>2, <1>3, <2>1 DEF Fallen
<1>5. /\ fin \in {"none", "done", "lost"} /\ ini \in {"ok", "error"}
      /\ fin # "wait" /\ (fin = "none" <=> r.final = "none")
  BY <1>1, <1>2, <1>3
<1>6. [r EXCEPT !.final = fin, !.exit = "lost", !.reader = "gone", !.grace = "done", !.init = ini] \in TurnType
  <2>1. PICK a : a = [r EXCEPT !.final = fin]
    OBVIOUS
  <2>2. a \in TurnType
    BY <1>5, <2>1 DEF TurnType
  <2>3. PICK b : b = [a EXCEPT !.exit = "lost"]
    OBVIOUS
  <2>4. b \in TurnType
    BY <2>2, <2>3 DEF TurnType
  <2>5. PICK c : c = [b EXCEPT !.reader = "gone"]
    OBVIOUS
  <2>6. c \in TurnType
    BY <2>4, <2>5 DEF TurnType
  <2>7. PICK d : d = [c EXCEPT !.grace = "done"]
    OBVIOUS
  <2>8. d \in TurnType
    BY <2>6, <2>7 DEF TurnType
  <2>9. [d EXCEPT !.init = ini] \in TurnType
    BY <1>5, <2>8 DEF TurnType
  <2> QED BY <2>1, <2>3, <2>5, <2>7, <2>9
<1>7. /\ Fallen(r).prompt = r.prompt /\ Fallen(r).host = r.host
      /\ Fallen(r).first = r.first /\ Fallen(r).outcome = r.outcome
      /\ Fallen(r).exit = "lost" /\ Fallen(r).final = fin
  BY <1>4 DEF TurnType
<1> QED BY <1>4, <1>5, <1>6, <1>7

(* A crash fails rows in delivery.  Of the processes those stay whose turn    *)
(* has no lease, has ended, has no row any more, or was not stopped.  Without *)
(* faults of the database no row stays in delivery.                           *)
LEMMA CrashKeeps == ASSUME AgyInv, Crash PROVE AgyInv'
<1> DEFINE stale == {p \in Prompt : row[p].status = "sending"}
<1>a. PICK ended \in SUBSET stale, stopped \in SUBSET stale :
        /\ \/ NoFault /\ ended = stale /\ (stopped = stale \/ "reap" \in setup.kinds)
           \/ Fault("db")
        /\ row' = [p \in Prompt |-> IF p \in ended THEN [row[p] EXCEPT !.status = StatusAfterCrash] ELSE row[p]]
        /\ work' = [k \in DOMAIN work \ UNION {Reaped(p) : p \in stopped} |-> work[k]]
        /\ exposed' = exposed \cup (stale \ stopped) \cup
              {turns[work[k]].prompt : k \in {j \in DOMAIN work : work[j] # 0 /\ turns[work[j]].final # "wait"}}
  BY DEF Crash
<1>1. /\ PlainOK /\ QueueOK(queue, row) /\ SuperOK /\ LostOK
      /\ UNCHANGED <<queue, queuings, binding, convs, setup>> /\ faults' \in Nat /\ crashes' \in Nat
      /\ \A t \in Task : task'[t] = Idle
      /\ task' = [t \in Task |-> Idle]
      /\ activation' = None /\ sess' = [k \in {} |-> 0]
  <2>1. PlainOK /\ QueueOK(queue, row) /\ SuperOK /\ LostOK /\ crashes \in Nat /\ faults \in Nat
    BY DEF AgyInv, PlainOK
  <2>2. /\ UNCHANGED <<queue, queuings, binding, convs>> /\ crashes' = crashes + 1
        /\ task' = [t \in Task |-> Idle]
        /\ activation' = None /\ sess' = [k \in {} |-> 0]
    BY DEF Crash
  <2>3. UNCHANGED setup /\ faults' \in Nat
    BY <1>a, <2>1 DEF Fault, NoFault
  <2> QED BY <2>1, <2>2, <2>3
<1>2. \A p \in Prompt :
         /\ row'[p] \in RowType
         /\ row[p].status = "sending" => row'[p].status \in {"sending", "failed"}
         /\ row[p].status # "sending" => row'[p] = row[p]
         /\ "db" \notin setup.kinds => row'[p].status # "sending"
  <2>1. SUFFICES ASSUME NEW p \in Prompt
                 PROVE  /\ row'[p] \in RowType
                        /\ row[p].status = "sending" => row'[p].status \in {"sending", "failed"}
                        /\ row[p].status # "sending" => row'[p] = row[p]
                        /\ "db" \notin setup.kinds => row'[p].status # "sending"
    OBVIOUS
  <2>2. row[p] \in RowType
    BY <1>1 DEF PlainOK
  <2>3. row'[p] = IF p \in ended THEN [row[p] EXCEPT !.status = "failed"] ELSE row[p]
    BY <1>a DEF StatusAfterCrash
  <2>4. [row[p] EXCEPT !.status = "failed"] \in RowType /\ [row[p] EXCEPT !.status = "failed"].status = "failed"
    BY <2>2 DEF RowType, Statuses
  <2>5. p \in ended => row[p].status = "sending"
    BY <1>a
  <2>6. "db" \notin setup.kinds /\ row[p].status = "sending" => p \in ended
    BY <1>a DEF Fault
  <2> QED BY <2>2, <2>3, <2>4, <2>5, <2>6
<1>3. row' \in [Prompt -> RowType]
  <2>1. row' = [p \in Prompt |-> row'[p]]
    BY <1>a
  <2> QED BY <1>2, <2>1
<1>4. QueueOK(queue, row)'
  <2>1. \A p \in Prompt : row'[p].status # "none" <=> row[p].status # "none"
    BY <1>2
  <2> QED BY <1>1, <2>1 DEF QueueOK
<1>5. /\ turns' \in Seq(TurnType) /\ Len(turns') = Len(turns)
      /\ \A n \in 1 .. Len(turns) :
            /\ turns'[n].prompt = turns[n].prompt /\ turns'[n].host = turns[n].host
            /\ turns'[n].first = turns[n].first /\ turns'[n].outcome = turns[n].outcome
            /\ turns'[n].exit = "lost" /\ turns'[n].final # "wait"
            /\ turns'[n].final = "none" <=> turns[n].final = "none"
  <2>1. DOMAIN turns = 1 .. Len(turns) /\ Len(turns) \in Nat /\ \A n \in 1 .. Len(turns) : turns[n] \in TurnType
    BY <1>1, TurnsDomain, TurnIsTyped
  <2>2. turns' = [n \in 1 .. Len(turns) |-> Fallen(turns[n])]
    BY <2>1 DEF Crash, Fallen
  <2>3. \A n \in 1 .. Len(turns) :
           /\ Fallen(turns[n]) \in TurnType /\ Fallen(turns[n]).prompt = turns[n].prompt
           /\ Fallen(turns[n]).host = turns[n].host
           /\ Fallen(turns[n]).first = turns[n].first /\ Fallen(turns[n]).outcome = turns[n].outcome
           /\ Fallen(turns[n]).exit = "lost" /\ Fallen(turns[n]).final # "wait"
           /\ Fallen(turns[n]).final = "none" <=> turns[n].final = "none"
    BY <2>1, FallenTyped
  <2>4. \A n \in 1 .. Len(turns) : turns'[n] = Fallen(turns[n])
    BY <2>2
  <2>5. turns' \in Seq(TurnType) /\ Len(turns') = Len(turns)
    <3>1. \A n \in 1 .. Len(turns) : Fallen(turns[n]) \in TurnType
      BY <2>3
    <3>2. turns' \in [1 .. Len(turns) -> TurnType]
      BY <2>2, <3>1
    <3> QED BY <2>1, <3>2, SeqDef, LenProperties
  <2> QED BY <2>3, <2>4, <2>5
<1>6. DOMAIN work' \subseteq DOMAIN work /\ \A k \in DOMAIN work' : work'[k] = work[k]
  BY <1>a
<1>7. SuperOK'
  <2>1. sess' \in [DOMAIN sess' -> SessType] /\ DOMAIN sess' = {}
    BY <1>1
  <2>2. work' \in [DOMAIN work' -> 0 .. MaxTurns]
    <3>1. PICK S : S = DOMAIN work \ UNION {Reaped(p) : p \in stopped}
      OBVIOUS
    <3>2. work' = [k \in S |-> work[k]] /\ S \subseteq DOMAIN work
      BY <1>a, <3>1
    <3>3. \A k \in S : work[k] \in 0 .. MaxTurns
      BY <1>1, <3>2 DEF SuperOK
    <3>4. DOMAIN work' = S /\ work' \in [S -> 0 .. MaxTurns]
      BY <3>2, <3>3
    <3> QED BY <3>4
  <2>3. /\ Len(turns') <= MaxTurns /\ turns' \in Seq(TurnType)
        /\ \A n \in 1 .. Len(turns') :
              turns'[n].host \in 1 .. Len(turns') /\ turns'[turns'[n].host].host = turns'[n].host
    <3>1. /\ Len(turns) <= MaxTurns
          /\ \A n \in 1 .. Len(turns) : turns[n].host \in 1 .. Len(turns) /\ turns[turns[n].host].host = turns[n].host
      BY <1>1 DEF SuperOK
    <3>2. /\ Len(turns') = Len(turns) /\ turns' \in Seq(TurnType)
          /\ \A n \in 1 .. Len(turns) : turns'[n].host = turns[n].host
      BY <1>5
    <3> QED BY <3>1, <3>2
  <2>4. ASSUME NEW k \in DOMAIN work'
        PROVE  /\ k \in 1 .. Len(turns') /\ turns'[k].host = k
               /\ work'[k] # 0 => work'[k] \in 1 .. Len(turns') /\ turns'[work'[k]].host = k
    <3>1. k \in DOMAIN work /\ work'[k] = work[k]
      BY <1>6, <2>4
    <3>2. /\ k \in 1 .. Len(turns) /\ turns[k].host = k
          /\ work[k] # 0 => work[k] \in 1 .. Len(turns) /\ turns[work[k]].host = k
      BY <1>1, <3>1 DEF SuperOK
    <3>3. Len(turns') = Len(turns) /\ \A n \in 1 .. Len(turns) : turns'[n].host = turns[n].host
      BY <1>5
    <3> QED BY <3>1, <3>2, <3>3
  <2> QED BY <2>1, <2>2, <2>3, <2>4 DEF SuperOK
<1>8. /\ exposed' \subseteq Prompt
      /\ \A k \in DOMAIN work : work[k] # 0 /\ turns[work[k]].final # "wait" => turns[work[k]].prompt \in exposed'
      /\ exposed \subseteq exposed' /\ stale \ stopped \subseteq exposed'
  <2>1. \A k \in DOMAIN work : work[k] # 0 => turns[work[k]].prompt \in Prompt
    <3>1. SUFFICES ASSUME NEW k \in DOMAIN work, work[k] # 0 PROVE turns[work[k]].prompt \in Prompt
      OBVIOUS
    <3>2. work[k] \in 1 .. Len(turns)
      BY <1>1, <3>1 DEF SuperOK
    <3> QED BY <1>1, <3>2, TurnIsTyped DEF TurnType
  <2>2. exposed' = exposed \cup (stale \ stopped) \cup
           {turns[work[k]].prompt : k \in {j \in DOMAIN work : work[j] # 0 /\ turns[work[j]].final # "wait"}}
    BY <1>a
  <2> QED BY <1>1, <2>1, <2>2 DEF PlainOK
<1>9. PlainOK'
  <2>1. Idle \in TaskType
    BY AgyAssumption DEF Idle, TaskType, Points
  <2> QED BY <1>1, <1>3, <1>8, <2>1 DEF PlainOK
<1>10. \A t \in Task : task'[t].pc = "idle" /\ TurnOK(t)' /\ \A p \in Prompt : ~Holds(t, p)'
  BY <1>1 DEF Idle, TurnOK, HasTurn, Holds, BeforeRow
<1>11. \A t \in Task : PlaceOK(t)'
  BY <1>10 DEF PlaceOK, Prompted, CreatorPoints, CreatorOnly, Unmade
<1>12. ASSUME NEW p \in Prompt PROVE PromptOK(p)'
  <2>1. PromptOK(p) /\ queuings[p] \in Nat
    BY <1>1 DEF AgyInv, PlainOK
  <2>2. \A n \in 1 .. Len(turns') : ~Awaited(n, p)'
    BY <1>5 DEF Awaited
  <2>3. Counted(p)' = Counted(p)
    BY <1>5 DEF Counted
  <2>4. row'[p].status # "none" => queuings'[p] > 0
    BY <1>1, <1>2, <2>1 DEF PromptOK
  <2>5. \A n \in 1 .. Len(turns') : turns'[n].prompt = p /\ turns'[n].final # "none" => queuings'[p] > 0
    BY <1>1, <1>5, <2>1 DEF PromptOK
  <2>6. Cardinality(Counted(p)') <= queuings'[p]
    BY <1>1, <2>1, <2>3 DEF PromptOK
  <2>7. row'[p].status = "queued" => Cardinality(Counted(p)') < queuings'[p]
    <3>1. row'[p].status = "queued" => row[p].status = "queued"
      BY <1>2
    <3> QED BY <1>1, <2>1, <2>3, <3>1 DEF PromptOK, Due
  <2>8. "db" \notin setup'.kinds => row'[p].status # "sending"
    BY <1>1, <1>2
  <2>9. \A u \in Task : ~Holds(u, p)'
    BY <1>10
  <2>10. queuings'[p] \in Nat
    BY <1>1, <2>1
  <2> QED BY <2>2, <2>4, <2>5, <2>6, <2>7, <2>8, <2>9, <2>10, FreePrompt
<1>13. ASSUME NEW k \in DOMAIN work', work'[k] # 0 PROVE LostTurnOK(k)'
  <2> DEFINE n == work[k]
  <2>1. k \in DOMAIN work /\ work'[k] = n /\ n \in 1 .. Len(turns) /\ k \in 1 .. Len(turns) /\ turns[n].host = k
    BY <1>1, <1>6, <1>13 DEF SuperOK
  <2>2. PICK p \in Prompt : p = turns[n].prompt
    BY <1>1, <2>1, TurnIsTyped DEF TurnType
  <2>3. turns'[n].prompt = p /\ turns'[n].outcome = turns[n].outcome
    BY <1>5, <2>1, <2>2
  <2>4. CASE turns[n].final # "wait"
    <3>1. p \in exposed'
      BY <1>8, <1>13, <2>1, <2>2, <2>4
    <3> QED BY <2>1, <2>3, <3>1 DEF LostTurnOK
  <2>5. CASE turns[n].final = "wait"
    <3>1. Awaited(n, p) /\ PromptOK(p)
      BY <2>1, <2>2, <2>5 DEF Awaited, AgyInv
    <3>2. queuings[p] > 0 /\ row[p].status \notin {"queued", "failed"}
      BY <2>1, <2>2, <2>5, <3>1 DEF PromptOK, Free
    <3>3. ASSUME row[p].status = "sending" PROVE p \in exposed'
      <4>1. p \in stale /\ row[p].lease = k
        BY <2>1, <3>1, <3>3 DEF PromptOK
      <4>2. Reaped(p) = {k}
        BY <2>1, <4>1 DEF Reaped
      <4>3. DOMAIN work' = DOMAIN work \ UNION {Reaped(q) : q \in stopped}
        BY <1>a
      <4>4. p \notin stopped
        BY <1>13, <4>2, <4>3
      <4> QED BY <1>8, <4>1, <4>4
    <3>4. row[p].status = "none" => Gone(p)'
      BY <1>1, <1>2, <3>2 DEF Gone
    <3>5. row[p].status \in {"none", "sending"}
      BY <1>1, <3>2 DEF PlainOK, RowType, Statuses
    <3> QED BY <2>1, <2>3, <3>3, <3>4, <3>5 DEF LostTurnOK
  <2> QED BY <2>4, <2>5
<1>14. LostOK'
  <2>1. \A k \in DOMAIN work' : LostTurnOK(k)'
    BY <1>13 DEF LostTurnOK
  <2> QED BY <2>1 DEF LostOK
<1> QED BY <1>4, <1>7, <1>9, <1>10, <1>11, <1>12, <1>14 DEF AgyInv

-----------------------------------------------------------------------------
(* Every step of a task that delivers keeps the invariant. *)
LEMMA TaskStepKeeps == ASSUME AgyInv, NEW t \in Task, TaskStep(t) PROVE AgyInv'
BY SpawnSessionKeeps, WritePromptKeeps, FlushPromptKeeps, AwaitInitKeeps,
   KillAfterTimeoutKeeps, PersistKeeps, StopOwnKeeps, FailRowKeeps
   DEF TaskStep

(* Every step of a dispatcher keeps the invariant. *)
LEMMA DispatchStepKeeps == ASSUME AgyInv, NEW d \in Dispatcher, DispatchStep(d) PROVE AgyInv'
BY ReadRuntimeKeeps, ReadHeadKeeps, ClaimKeeps, RouteKeeps, RecheckKeeps,
   DiscardForFreshKeeps, BeginKeeps, FindSessionKeeps, ReplaceSessionKeeps,
   RotateKeeps, CompactDropsKeeps, CompactRotatesKeeps
   DEF DispatchStep

(* Every step of the first send keeps the invariant. *)
LEMMA CreateStepKeeps == ASSUME AgyInv, CreateStep PROVE AgyInv'
BY CreateRoutesKeeps, CreateBindsKeeps, CreateEnqueuesKeeps DEF CreateStep

(* Every step of the supervisor keeps the invariant. *)
LEMMA SupervisorStepKeeps ==
    ASSUME AgyInv, NEW n, GraceStep(n) \/ SessionStep(n) \/ ProcessFails(n)
    PROVE  AgyInv'
<1>1. CASE GraceStep(n)
  BY <1>1, GraceLooksKeeps, GraceKillsKeeps DEF GraceStep
<1>2. CASE SessionStep(n)
  BY <1>2, ReaderKillsKeeps, ExitLooksKeeps, ExitEndsKeeps, ExitRemovesKeeps
     DEF SessionStep
<1>3. CASE ProcessFails(n)
  BY <1>3, ReadFailsKeeps, ProcessEndsKeeps DEF ProcessFails
<1> QED BY <1>1, <1>2, <1>3

(* Every step keeps the invariant. *)
LEMMA NextKeeps == ASSUME AgyInv, Next PROVE AgyInv'
<1>1. ASSUME NEW p \in Prompt, Send(p) \/ Retry(p) \/ RemoveRow(p) \/ Create(p) PROVE AgyInv'
  BY <1>1, SendKeeps, RetryKeeps, RemoveRowKeeps, CreateKeeps
<1>2. ASSUME NEW d \in Dispatcher, Spawned(d) \/ CompactAsked(d) \/ DispatchStep(d) PROVE AgyInv'
  BY <1>2, SpawnedKeeps, CompactAskedKeeps, DispatchStepKeeps
<1>3. ASSUME NEW t \in Task, TaskStep(t) PROVE AgyInv'
  BY <1>3, TaskStepKeeps
<1>4. ASSUME NEW n \in Turns, Stop(n) \/ GraceStep(n) \/ Finalize(n) PROVE AgyInv'
  BY <1>4, StopKeeps, SupervisorStepKeeps, FinalizeKeeps
<1>5. ASSUME NEW n \in Turns, Inits(n) \/ Results(n, "success") \/ Results(n, "error") PROVE AgyInv'
  BY <1>5, InitsKeeps, ResultsKeeps
<1>6. ASSUME NEW n \in Turns, ProcessFails(n) \/ SessionStep(n) PROVE AgyInv'
  BY <1>6, SupervisorStepKeeps
<1> QED BY <1>1, <1>2, <1>3, <1>4, <1>5, <1>6, CreateStepKeeps, CrashKeeps DEF Next

(* A step that changes nothing keeps the invariant. *)
LEMMA StutterKeeps == ASSUME AgyInv, UNCHANGED vars PROVE AgyInv'
<1>1. UNCHANGED <<queue, row, queuings, binding, convs, task, activation, turns, sess, work, exposed, setup, faults, crashes>>
  BY DEF vars
<1>2. Supervises
  BY <1>1, NothingSupervises DEF AgyInv
<1> QED BY <1>1, <1>2, NewsKeeps DEF AgyInv, PlainOK

(* The invariant holds at the start. *)
LEMMA InitKeeps == ASSUME Init PROVE AgyInv
<1>1. PlainOK
  <2>1. Idle \in TaskType
    BY AgyAssumption DEF Idle, TaskType, Points
  <2>2. [status |-> "none", begun |-> FALSE, lease |-> 0] \in RowType
    BY AgyAssumption DEF RowType, Statuses
  <2> QED BY <2>1, <2>2 DEF Init, PlainOK, Idle
<1>2. QueueOK(queue, row)
  <2>1. queue \in Seq(Prompt) /\ Len(queue) = 0
    BY EmptySeq DEF Init
  <2> QED BY <2>1 DEF Init, QueueOK
<1>3. turns \in Seq(TurnType) /\ Len(turns) = 0 /\ DOMAIN sess = {} /\ DOMAIN work = {}
  BY EmptySeq DEF Init
<1>4. SuperOK
  <2>1. sess \in [DOMAIN sess -> SessType] /\ work \in [DOMAIN work -> 0 .. MaxTurns]
    BY DEF Init
  <2> QED BY <1>3, <2>1, AgyAssumption DEF SuperOK
<1>5. \A t \in Task : task[t].pc = "idle" /\ TurnOK(t) /\ \A p \in Prompt : ~Holds(t, p)
  BY DEF Init, TurnOK, HasTurn, Holds, BeforeRow
<1>6. \A t \in Task : PlaceOK(t)
  BY <1>5 DEF PlaceOK, Prompted, CreatorPoints, CreatorOnly, Unmade
<1>7. ASSUME NEW p \in Prompt PROVE PromptOK(p)
  <2>1. \A n \in 1 .. Len(turns) : FALSE
    BY <1>3
  <2>2. Counted(p) = {}
    BY <2>1 DEF Counted
  <2>3. Cardinality(Counted(p)) = 0
    BY <2>2, FS_EmptySet
  <2>4. row[p].status = "none" /\ queuings[p] = 0
    BY DEF Init
  <2>5. Sole(p)
    BY <1>5, <2>1 DEF Sole
  <2>6. ~Due(p)
    BY <1>5, <2>4 DEF Due
  <2> QED BY <2>1, <2>3, <2>4, <2>5, <2>6 DEF PromptOK
<1>8. LostOK
  BY <1>3 DEF LostOK
<1> QED BY <1>1, <1>2, <1>4, <1>5, <1>6, <1>7, <1>8 DEF AgyInv

(* The inductive invariant: rows, hands, turns and processes agree          *)
(* (services/agy_provider.rs, commands/agy_provider.rs) in every state that *)
(* can be reached.                                                          *)
THEOREM AgyInvariant == Spec => []AgyInv
<1>1. Init => AgyInv
  BY InitKeeps
<1>2. AgyInv /\ [Next]_vars => AgyInv'
  BY NextKeeps, StutterKeeps
<1> QED BY <1>1, <1>2, PTL DEF Spec

(* The invariant says who holds every row in delivery. *)
LEMMA InvHolds == AgyInv => DeliveriesAreHeld
<1> SUFFICES ASSUME AgyInv PROVE DeliveriesAreHeld
  OBVIOUS
<1>1. PlainOK /\ QueueOK(queue, row) /\ SuperOK /\ LostOK /\ DOMAIN turns = 1 .. Len(turns)
  BY TurnsDomain DEF AgyInv
<1>2. DOMAIN queue = 1 .. Len(queue) /\ queue \in Seq(Prompt)
  BY <1>1, LenProperties DEF QueueOK
<1>3. AgyTypeOK
  <2>1. \A i, j \in DOMAIN queue : i # j => queue[i] # queue[j]
    BY <1>1, <1>2 DEF QueueOK
  <2>2. {queue[i] : i \in DOMAIN queue} = {p \in Prompt : row[p].status # "none"}
    <3>1. \A i \in 1 .. Len(queue) : queue[i] \in Prompt
      BY <1>2, ElementOfSeq
    <3> QED BY <1>1, <1>2, <3>1 DEF QueueOK
  <2>3. \A k \in DOMAIN sess \cup DOMAIN work : k \in DOMAIN turns /\ turns[k].host = k
    BY <1>1 DEF SuperOK
  <2>4. \A k \in DOMAIN sess :
          /\ sess[k].phase \in {"idle", "active", "stopping", "stopped"}
          /\ sess[k].turn # 0 => turns[sess[k].turn].host = k /\ turns[sess[k].turn].outcome = "none"
    BY <1>1 DEF SuperOK, SessType
  <2>5. /\ row \in [Prompt -> [status : Statuses, begun : BOOLEAN, lease : 0..MaxTurns]]
        /\ queuings \in [Prompt -> Nat]
        /\ binding = None \/ binding \in Int
        /\ activation \in Task \cup {None}
        /\ exposed \subseteq Prompt /\ setup \in Setups /\ faults \in Nat /\ crashes \in Nat
    BY <1>1 DEF PlainOK, RowType
  <2>6. \A t \in Task : task[t].pc \in Points /\ task[t].prompt \in Prompt \cup {None} /\ task[t].turn \in 0..MaxTurns
    BY <1>1 DEF PlainOK, TaskType
  <2> QED BY <2>1, <2>2, <2>3, <2>4, <2>5, <2>6 DEF AgyTypeOK
<1>4. SendingIsHeld
  BY <1>1 DEF AgyInv, PromptOK, SendingIsHeld, Held, Holds, Awaited
<1>5. BegunIsHeld
  <2>1. SUFFICES ASSUME NEW d \in Dispatcher, task[d].prompt # None, task[d].pc \in AfterBegin
                 PROVE  row[task[d].prompt].status = "sending" /\ row[task[d].prompt].begun
    BY DEF BegunIsHeld
  <2>2. d \in Task /\ d # Creator /\ PlaceOK(d)
    BY AgyAssumption DEF Task, AgyInv
  <2>3. PICK p \in Prompt : p = task[d].prompt
    BY <1>1, <2>1, <2>2 DEF PlainOK, TaskType
  <2>4. Holds(d, p)
    BY <2>1, <2>3 DEF Holds, AfterBegin, BeforeRow
  <2> QED BY <2>1, <2>2, <2>3, <2>4 DEF PlaceOK
<1>6. ReapedBeforeRetryable
  BY <1>1 DEF ReapedBeforeRetryable, LostOK, LostTurnOK, Gone
<1> QED BY <1>3, <1>4, <1>5, <1>6 DEF DeliveriesAreHeld

(* Every row in delivery is in the hands of one task or one waiting           *)
(* finalizer, a row that has begun stays so, and after a restart no process   *)
(* works on a prompt that can be sent again, unless the crash fell in the     *)
(* window, the turn had ended or the restart did not stop the process (it may *)
(* be unable to, or the database fail first): for every set of prompts and    *)
(* dispatchers and every setup.                                               *)
THEOREM RowsAreInHands == Spec => []DeliveriesAreHeld
BY AgyInvariant, InvHolds, PTL

(* The invariant counts the turns of every prompt. *)
LEMMA InvCounts == AgyInv => DeliveredOncePerQueuing
<1> SUFFICES ASSUME AgyInv, NEW p \in Prompt
             PROVE  Cardinality({n \in DOMAIN turns : /\ turns[n].prompt = p
                                                      /\ turns[n].first => turns[n].final # "none"}) <= queuings[p]
  BY DEF DeliveredOncePerQueuing
<1>1. {n \in DOMAIN turns : /\ turns[n].prompt = p
                            /\ turns[n].first => turns[n].final # "none"} = Counted(p)
  BY TurnsDomain DEF AgyInv, Counted
<1> QED BY <1>1 DEF AgyInv, PromptOK

(* A prompt gets no more turns than it was queued times, whatever fails: for *)
(* every set of prompts and dispatchers and every setup.                     *)
THEOREM PromptsAreDeliveredOnce == Spec => []DeliveredOncePerQueuing
BY AgyInvariant, InvCounts, PTL

-----------------------------------------------------------------------------
(* Turns apart *)

(* The supervisor reads the process, and has a session of it. *)
Seen(k) == k \in DOMAIN work /\ k \in DOMAIN sess /\ turns[k].reader = "ok"

(* A process at its turn, which nobody stops. *)
Busily(k) == Seen(k) /\ sess[k].turn # 0 /\ sess[k].phase # "stopping"

(* A conversation is named after the process that made it, or is older. *)
Named(conv) == conv # None => conv <= Len(turns)

(* Conversations are those of processes started so far; a first turn *)
(* names its own.                                                    *)
ConvsOK ==
    /\ Named(binding)
    /\ \A t \in Task : Named(task[t].conv)
    /\ \A n \in 1 .. Len(turns) :
          /\ Named(turns[n].conv)
          /\ turns[n].first => turns[n].host = n /\ turns[n].conv \in {None, n}
          /\ turns[n].init = "ok" => turns[n].conv # None
    /\ activation # Creator

(* A process, its reader and its session agree. *)
ProcessOK(k) ==
    /\ k \in DOMAIN work => turns[k].exit \in {"wait", "lost"} /\ (turns[k].exit = "wait" => k \in DOMAIN sess)
    /\ k \in DOMAIN sess => (sess[k].turn = 0 <=> sess[k].phase \in {"idle", "stopped"})
    /\ Seen(k) => turns[k].init # "error" /\ (work[k] # 0 => sess[k].turn = work[k])

(* While the grace period of a turn runs its session is stopping, or *)
(* stopped.                                                          *)
GraceOK(n) ==
    LET k == turns[n].host IN
    turns[n].grace \in {"wait", "kill"} /\ Seen(k) =>
       \/ sess[k].turn = n /\ sess[k].phase = "stopping"
       \/ sess[k].phase = "stopped"

(* The conversation of a process that has just been started is its own. *)
Unnamed(k) ==
    /\ binding # k
    /\ \A t \in Task : task[t].conv # k
    /\ \A n \in 1 .. Len(turns) : turns[n].conv = k => n = k
    /\ turns[k].conv \in {None, k}

(* Where a task knows the conversation of its process. *)
WithConv == {"rotate", "bind", "enqueue", "persist", "stop", "stopOnly"}

(* Where the first send has not bound the thread yet. *)
BeforeBinding == {"create", "spawn", "write", "flush", "init", "kill", "bind"}

(* What a task may count on where it is. *)
SpotOK(t) ==
    LET n == task[t].turn   k == turns[n].host IN
    /\ task[t].pc = "write" =>
          /\ \A m \in 1 .. Len(turns) : turns[m].host = n => m = n
          /\ n \in DOMAIN sess => sess[n].phase = "idle"
          /\ n \in DOMAIN work => work[n] = 0
          /\ activation = t \/ Unnamed(n)
    /\ task[t].pc = "reuse" =>
          /\ activation = t /\ turns[n].conv = task[t].conv
          /\ n \in DOMAIN sess => sess[n].phase = "idle"
    /\ task[t].pc = "flush" =>
          /\ Seen(k) => work[k] = 0 /\ sess[k].turn = n
          /\ n # k => turns[k].conv # None
    /\ task[t].pc \in {"init", "kill"} => k = n
    /\ task[t].pc \in WithConv => turns[k].conv # None
    /\ t = Creator => (task[t].pc \in BeforeBinding => binding = None)
    /\ t # Creator => (task[t].pc # "idle" => task[t].conv # None)

(* The prompt of a dispatcher is the head of the queue while it has a row. *)
HeadOK(d) == \A p \in Prompt :
    task[d].prompt = p /\ task[d].pc \notin {"idle", "runtime", "head"} =>
       queuings[p] > 0 /\ (row[p].status # "none" => Head(queue) = p)

(* Where a dispatcher has a turn in a session. *)
PostWrite == {"flush", "init", "kill", "rotate", "persist", "stop", "stopOnly"}

(* The first turn of the thread: the first send has it, or nobody is past *)
(* its look at the runtime.                                               *)
FirstOK(k) ==
    IF binding = None THEN task[Creator].turn = k /\ task[Creator].pc \in {"flush", "init", "kill", "bind", "stopOnly"}
    ELSE /\ binding = turns[k].conv
         /\ \A d \in Dispatcher : task[d].pc = "idle" \/ (task[d].pc = "runtime" /\ task[d].conv = binding)

(* The turn of a queued prompt: the prompt is the head, begun, and *)
(* somebody has the turn.                                          *)
QueuedOK(n, p) ==
    /\ row[p].status = "sending" /\ row[p].begun /\ Head(queue) = p
    /\ \/ Awaited(n, p)
       \/ \E d \in Dispatcher : task[d].prompt = p /\ task[d].turn = n /\ task[d].pc \in PostWrite

(* A process at its turn is accounted for. *)
BusyOK(k) == Busily(k) =>
    LET n == sess[k].turn IN
    IF turns[n].first THEN FirstOK(k) ELSE QueuedOK(n, turns[n].prompt)

(* Inductive with AgyInv; it implies TurnsAreSeparate. *)
SepInv ==
    /\ ConvsOK
    /\ \A k \in 1 .. Len(turns) : ProcessOK(k) /\ GraceOK(k)
    /\ \A t \in Task : SpotOK(t)
    /\ \A d \in Dispatcher : HeadOK(d)
    /\ \A k \in DOMAIN sess : BusyOK(k)
    /\ \A j, k \in DOMAIN sess : Busily(j) /\ Busily(k) => j = k
    /\ binding = None => (\A d \in Dispatcher : task[d].pc = "idle") /\ \A n \in 1 .. Len(turns) : turns[n].first

-----------------------------------------------------------------------------
(* What a process that is seen goes through: nothing, the end of its turn, or *)
(* the mark of a stop.                                                        *)
Evolves(k) ==
    \/ sess'[k] = sess[k] /\ work'[k] = work[k]
    \/ /\ work[k] # 0 /\ work'[k] = 0 /\ sess'[k].turn = 0
       /\ sess'[k].phase \in {"idle", "stopped"}
       /\ sess[k].phase = "stopping" => sess'[k].phase = "stopped"
    \/ /\ work'[k] = work[k]
       /\ sess'[k].turn = sess[k].turn /\ sess[k].turn # 0 /\ sess'[k].phase = "stopping"

(* What a session goes through: nothing, the end of its turn, or a stop. *)
SessFades(k) ==
    \/ sess'[k] = sess[k]
    \/ /\ sess'[k].turn = 0 /\ sess'[k].phase \in {"idle", "stopped"}
       /\ sess[k].phase = "idle" => sess'[k].phase = "idle"
    \/ sess'[k].turn = sess[k].turn /\ sess[k].turn # 0 /\ sess'[k].phase = "stopping"

(* Nobody gets a turn, and no process or session comes. *)
Calm ==
    /\ Len(turns') = Len(turns)
    /\ \A n \in 1 .. Len(turns) :
          /\ turns'[n].prompt = turns[n].prompt /\ turns'[n].host = turns[n].host /\ turns'[n].first = turns[n].first
          /\ turns'[n].reader = "ok" => turns[n].reader = "ok"
          /\ turns'[n].conv = turns[n].conv \/ (turns[n].conv = None /\ turns'[n].conv = n /\ turns[n].host = n)
          /\ turns'[n].init = "ok" => turns[n].init = "ok" \/ turns'[n].conv # None
          /\ turns'[n].grace \in {"wait", "kill"} /\ Seen(turns[n].host)' =>
                \/ turns[n].grace \in {"wait", "kill"}
                \/ sess'[turns[n].host].turn = n /\ sess'[turns[n].host].phase = "stopping"
    /\ \A k \in DOMAIN work' :
          /\ k \in DOMAIN work /\ turns'[k].exit = turns[k].exit
          /\ k \in DOMAIN sess => k \in DOMAIN sess'
          /\ work'[k] \in {0, work[k]}
    /\ \A k \in DOMAIN sess' : k \in DOMAIN sess /\ SessFades(k)
    /\ \A k \in DOMAIN sess' : Seen(k)' => Evolves(k) /\ (turns'[k].init = "error" => turns[k].init = "error")

(* What was seen after was seen before, and what is busy was. *)
LEMMA CalmSeen ==
    ASSUME SuperOK, Calm, NEW k, Seen(k)'
    PROVE  /\ Seen(k) /\ k \in 1 .. Len(turns) /\ k \in DOMAIN sess /\ k \in DOMAIN sess'
           /\ Busily(k)' => Busily(k) /\ sess'[k].turn = sess[k].turn
<1>1. k \in DOMAIN work' /\ k \in DOMAIN sess' /\ turns'[k].reader = "ok"
  BY DEF Seen
<1>2. k \in DOMAIN work /\ k \in DOMAIN sess
  BY <1>1 DEF Calm
<1>3. k \in 1 .. Len(turns)
  BY <1>2 DEF SuperOK
<1>4. turns[k].reader = "ok"
  BY <1>1, <1>3 DEF Calm
<1>5. Evolves(k)
  BY <1>1 DEF Calm
<1>6. Busily(k)' => Busily(k) /\ sess'[k].turn = sess[k].turn
  BY <1>1, <1>2, <1>4, <1>5 DEF Busily, Seen, Evolves
<1> QED BY <1>1, <1>2, <1>3, <1>4, <1>6 DEF Seen

(* A process stays in order while nobody gets a turn. *)
LEMMA CalmProcess ==
    ASSUME SuperOK, Calm, NEW k \in 1 .. Len(turns), ProcessOK(k)
    PROVE  ProcessOK(k)'
<1>1. k \in DOMAIN work' => turns'[k].exit \in {"wait", "lost"} /\ (turns'[k].exit = "wait" => k \in DOMAIN sess')
  BY DEF Calm, ProcessOK
<1>2. k \in DOMAIN sess' => (sess'[k].turn = 0 <=> sess'[k].phase \in {"idle", "stopped"})
  BY DEF Calm, ProcessOK, SessFades
<1>3. ASSUME Seen(k)' PROVE turns'[k].init # "error" /\ (work'[k] # 0 => sess'[k].turn = work'[k])
  <2>1. Seen(k) /\ k \in DOMAIN sess'
    BY <1>3, CalmSeen
  <2>2. Evolves(k) /\ turns'[k].init # "error"
    BY <1>3, <2>1 DEF Calm, ProcessOK
  <2>3. work[k] # 0 => sess[k].turn = work[k]
    BY <2>1 DEF ProcessOK
  <2> QED BY <2>2, <2>3 DEF Evolves
<1> QED BY <1>1, <1>2, <1>3 DEF ProcessOK

(* A grace period stays about its own turn while nobody gets a turn. *)
LEMMA CalmGrace ==
    ASSUME SuperOK, Calm, NEW n \in 1 .. Len(turns), GraceOK(n), \A k \in 1 .. Len(turns) : ProcessOK(k)
    PROVE  GraceOK(n)'
<1>1. PICK k \in 1 .. Len(turns) : k = turns[n].host
  BY DEF SuperOK
<1>2. turns'[n].host = k
  BY <1>1 DEF Calm
<1>3. SUFFICES ASSUME turns'[n].grace \in {"wait", "kill"}, k \in DOMAIN work', k \in DOMAIN sess', turns'[k].reader = "ok"
               PROVE  \/ sess'[k].turn = n /\ sess'[k].phase = "stopping"
                      \/ sess'[k].phase = "stopped"
  BY <1>2 DEF GraceOK, Seen
<1>4. Seen(k)'
  BY <1>3 DEF Seen
<1>5. Seen(k) /\ k \in DOMAIN sess
  BY <1>4, CalmSeen
<1>6. CASE turns[n].grace \in {"wait", "kill"}
  <2>1. (sess[k].turn = n /\ sess[k].phase = "stopping") \/ sess[k].phase = "stopped"
    BY <1>1, <1>5, <1>6 DEF GraceOK
  <2>2. Evolves(k) /\ ProcessOK(k)
    BY <1>3, <1>4 DEF Calm
  <2>3. sess[k].phase = "stopped" => sess[k].turn = 0 /\ work[k] = 0
    BY <1>5, <2>2 DEF ProcessOK
  <2> QED BY <2>1, <2>2, <2>3 DEF Evolves
<1>7. CASE turns[n].grace \notin {"wait", "kill"}
  BY <1>1, <1>2, <1>3, <1>4, <1>7 DEF Calm, Seen
<1> QED BY <1>6, <1>7

(* What the turns are told names only their own conversations. *)
LEMMA CalmConvs ==
    ASSUME SuperOK, ConvsOK, Calm, NEW n \in 1 .. Len(turns)
    PROVE  /\ Named(turns'[n].conv) /\ (turns[n].conv # None => turns'[n].conv = turns[n].conv)
           /\ turns'[n].first => turns'[n].host = n /\ turns'[n].conv \in {None, n}
           /\ turns'[n].init = "ok" => turns'[n].conv # None
<1>1. turns[n].conv # None => turns'[n].conv = turns[n].conv
  BY DEF Calm
<1>2. Named(turns'[n].conv)
  BY DEF Calm, ConvsOK, Named
<1>3. turns'[n].first => turns'[n].host = n /\ turns'[n].conv \in {None, n}
  BY DEF Calm, ConvsOK
<1>4. turns'[n].init = "ok" => turns'[n].conv # None
  BY <1>1 DEF Calm, ConvsOK
<1> QED BY <1>1, <1>2, <1>3, <1>4

SameFinals == \A n \in 1 .. Len(turns) : turns'[n].final = turns[n].final

(* Nothing happens to the supervisor. *)
LEMMA StillCalm == ASSUME SuperOK, UNCHANGED super PROVE Calm /\ SameFinals
BY DEF SuperOK, super, Calm, SameFinals, Seen, Evolves, SessFades

(* News of turns that name no conversation and stop no turn. *)
NewsOf(ts, us, k) ==
    /\ us \in Seq(TurnType) /\ Len(us) = Len(ts)
    /\ \A n \in 1 .. Len(ts) :
          /\ us[n].prompt = ts[n].prompt /\ us[n].host = ts[n].host /\ us[n].first = ts[n].first
          /\ us[n].reader = ts[n].reader /\ us[n].conv = ts[n].conv /\ us[n].grace = ts[n].grace
          /\ us[n].exit = ts[n].exit /\ us[n].final = ts[n].final
          /\ us[n].init = "ok" => ts[n].init = "ok"
          /\ n # k => us[n].init = ts[n].init

(* One field of one turn. *)
LEMMA NewsChange ==
    ASSUME NEW ts \in Seq(TurnType), NEW k, NEW n \in 1 .. Len(ts), NEW new \in TurnType,
           /\ new.prompt = ts[n].prompt /\ new.host = ts[n].host /\ new.first = ts[n].first
           /\ new.reader = ts[n].reader /\ new.conv = ts[n].conv /\ new.grace = ts[n].grace
           /\ new.exit = ts[n].exit /\ new.final = ts[n].final
           /\ new.init = "ok" => ts[n].init = "ok"
           /\ n # k => new.init = ts[n].init
    PROVE  NewsOf(ts, [ts EXCEPT ![n] = new], k)
BY ExceptSeq DEF NewsOf

(* The end of a turn and the failure of a first line are such news. *)
LEMMA EndNews ==
    ASSUME NEW ts \in Seq(TurnType), NEW n \in 0 .. Len(ts), NEW outcome \in {"success", "error", "interrupted"}, NEW k
    PROVE  NewsOf(ts, WithOutcome(ts, n, outcome), k)
<1>1. CASE n # 0 /\ ts[n].outcome = "none"
  <2>1. n \in 1 .. Len(ts) /\ ts[n] \in TurnType
    BY <1>1, ElementOfSeq, LenProperties
  <2> DEFINE new == [ts[n] EXCEPT !.outcome = outcome]
  <2>2. new \in TurnType
    BY <2>1 DEF TurnType
  <2>3. /\ new.prompt = ts[n].prompt /\ new.host = ts[n].host /\ new.first = ts[n].first
        /\ new.reader = ts[n].reader /\ new.conv = ts[n].conv /\ new.grace = ts[n].grace
        /\ new.exit = ts[n].exit /\ new.final = ts[n].final
        /\ (new.init = "ok" => ts[n].init = "ok") /\ (n # k => new.init = ts[n].init)
    BY <2>1 DEF TurnType
  <2>4. WithOutcome(ts, n, outcome) = [ts EXCEPT ![n] = new]
    BY <1>1 DEF WithOutcome
  <2> HIDE DEF new
  <2>5. NewsOf(ts, [ts EXCEPT ![n] = new], k)
    BY <2>1, <2>2, <2>3, NewsChange
  <2> QED BY <2>4, <2>5
<1>2. CASE ~(n # 0 /\ ts[n].outcome = "none")
  BY <1>2 DEF WithOutcome, NewsOf
<1> QED BY <1>1, <1>2

(* An error of the first line is news of the process only. *)
LEMMA InitNews ==
    ASSUME NEW ts \in Seq(TurnType), NEW k \in 1 .. Len(ts)
    PROVE  NewsOf(ts, WithInit(ts, k, "error"), k)
<1>1. CASE ts[k].init = "wait"
  <2>1. ts[k] \in TurnType
    BY ElementOfSeq
  <2> DEFINE new == [ts[k] EXCEPT !.init = "error"]
  <2>2. new \in TurnType
    BY <2>1 DEF TurnType
  <2>3. /\ new.prompt = ts[k].prompt /\ new.host = ts[k].host /\ new.first = ts[k].first
        /\ new.reader = ts[k].reader /\ new.conv = ts[k].conv /\ new.grace = ts[k].grace
        /\ new.exit = ts[k].exit /\ new.final = ts[k].final /\ new.init # "ok"
    BY <2>1 DEF TurnType
  <2>4. WithInit(ts, k, "error") = [ts EXCEPT ![k] = new]
    BY <1>1 DEF WithInit
  <2> HIDE DEF new
  <2> QED BY <2>1, <2>2, <2>3, <2>4, NewsChange
<1>2. CASE ts[k].init # "wait"
  BY <1>2 DEF WithInit, NewsOf
<1> QED BY <1>1, <1>2

(* News after news is news. *)
LEMMA NewsTwice ==
    ASSUME NEW ts, NEW us, NEW vs, NEW k, NewsOf(ts, us, k), NewsOf(us, vs, k)
    PROVE  NewsOf(ts, vs, k)
BY DEF NewsOf

(* A session that fails gives its turn an end and its first line an error. *)
LEMMA FailNews ==
    ASSUME SuperOK, NEW k \in DOMAIN sess
    PROVE  NewsOf(turns, WithInit(WithOutcome(turns, sess[k].turn, "error"), k, "error"), k)
<1>1. sess[k].turn \in 0 .. Len(turns) /\ turns \in Seq(TurnType) /\ k \in 1 .. Len(turns)
  BY TurnsDomain DEF SuperOK
<1>2. PICK us : us = WithOutcome(turns, sess[k].turn, "error")
  OBVIOUS
<1>3. NewsOf(turns, us, k)
  BY <1>1, <1>2, EndNews
<1>4. us \in Seq(TurnType) /\ k \in 1 .. Len(us)
  BY <1>1, <1>3 DEF NewsOf
<1>5. NewsOf(us, WithInit(us, k, "error"), k)
  BY <1>4, InitNews
<1> QED BY <1>2, <1>3, <1>5, NewsTwice

(* Only session k changes, which nobody reads afterwards. *)
LEMMA FadeCalm ==
    ASSUME SuperOK, NEW k \in 1 .. Len(turns), NEW ts, NewsOf(turns, ts, k), Len(turns') = Len(ts),
           \A n \in 1 .. Len(ts) : n # k => turns'[n] = ts[n],
           turns'[k].prompt = ts[k].prompt, turns'[k].host = ts[k].host, turns'[k].first = ts[k].first, turns'[k].final = ts[k].final,
           turns'[k].conv = ts[k].conv, turns'[k].grace = ts[k].grace, turns'[k].init = ts[k].init,
           turns'[k].reader = "ok" => ts[k].reader = "ok",
           k \in DOMAIN work' => turns'[k].exit = ts[k].exit /\ turns'[k].reader # "ok",
           DOMAIN work' \subseteq DOMAIN work, \A j \in DOMAIN work' : work'[j] = work[j],
           DOMAIN sess' \subseteq DOMAIN sess, \A j \in DOMAIN sess \ {k} : j \in DOMAIN sess' /\ sess'[j] = sess[j],
           k \in DOMAIN sess' => SessFades(k), k \in DOMAIN work' /\ k \in DOMAIN sess => k \in DOMAIN sess'
    PROVE  Calm /\ SameFinals
<1>1. Len(turns') = Len(turns) /\ turns \in Seq(TurnType)
  BY DEF NewsOf, SuperOK
<1>2. \A j : Seen(j)' => j # k /\ j \in 1 .. Len(turns) /\ j \in DOMAIN work'
  BY DEF Seen, SuperOK
<1>3. ASSUME NEW n \in 1 .. Len(turns)
      PROVE  /\ turns'[n].prompt = turns[n].prompt /\ turns'[n].host = turns[n].host /\ turns'[n].first = turns[n].first
             /\ (turns'[n].reader = "ok" => turns[n].reader = "ok") /\ turns'[n].conv = turns[n].conv
             /\ (turns'[n].init = "ok" => turns[n].init = "ok") /\ turns'[n].grace = turns[n].grace
             /\ (n # k => turns'[n].init = turns[n].init) /\ turns'[n].final = turns[n].final
             /\ (n \in DOMAIN work' => turns'[n].exit = turns[n].exit)
  <2>1. CASE n = k
    BY <1>1, <2>1 DEF NewsOf
  <2>2. CASE n # k
    BY <1>1, <2>2 DEF NewsOf
  <2> QED BY <2>1, <2>2
<1>4. \A j \in DOMAIN work' : /\ j \in DOMAIN work /\ turns'[j].exit = turns[j].exit
                              /\ j \in DOMAIN sess => j \in DOMAIN sess'
                              /\ work'[j] \in {0, work[j]}
  BY <1>3 DEF SuperOK
<1>5. \A j \in DOMAIN sess' : j \in DOMAIN sess /\ SessFades(j)
  BY DEF SessFades
<1>6. \A j \in DOMAIN sess' : Seen(j)' => Evolves(j) /\ (turns'[j].init = "error" => turns[j].init = "error")
  BY <1>2, <1>3 DEF Evolves
<1> QED BY <1>1, <1>3, <1>4, <1>5, <1>6 DEF Calm, SameFinals

-----------------------------------------------------------------------------
(* The supervisor's own steps are calm *)

(* A discarded conversation is gone with its process. *)
LEMMA DiscardedCalm == ASSUME SuperOK, NEW conv, Discarded(conv) PROVE Calm /\ SameFinals
<1>1. CASE Sessions(conv) = {}
  BY <1>1, StillCalm DEF Discarded
<1>2. CASE Sessions(conv) # {}
  <2>1. PICK k \in Sessions(conv) : Dropped(k) /\ work' = Sans(work, k)
    BY <1>2 DEF Discarded
  <2>2. k \in DOMAIN sess /\ sess' = Sans(sess, k)
        /\ turns' = WithInit(WithOutcome(turns, sess[k].turn, "error"), k, "error")
    BY <2>1 DEF Sessions, Dropped
  <2>3. NewsOf(turns, turns', k) /\ k \in 1 .. Len(turns)
    BY <2>2, FailNews DEF SuperOK
  <2> QED BY <2>1, <2>2, <2>3, FadeCalm DEF Sans
<1> QED BY <1>1, <1>2

(* A killed process leaves its session. *)
LEMMA KilledCalm == ASSUME SuperOK, NEW k, Killed(k), UNCHANGED <<turns, sess>> PROVE Calm /\ SameFinals
BY DEF Killed, Sans, SuperOK, Calm, SameFinals, Seen, Evolves, SessFades

(* A failed session without a process is seen by nobody. *)
LEMMA FailedCalm == ASSUME SuperOK, NEW k, Failed(k), k \notin DOMAIN work, UNCHANGED work PROVE Calm /\ SameFinals
<1>1. CASE k \notin DOMAIN sess
  BY <1>1, StillCalm DEF Failed, super
<1>2. CASE k \in DOMAIN sess
  <2>1. sess' = [sess EXCEPT ![k] = [phase |-> "idle", turn |-> 0]]
        /\ turns' = WithInit(WithOutcome(turns, sess[k].turn, "error"), k, "error")
    BY <1>2 DEF Failed
  <2>2. NewsOf(turns, turns', k) /\ k \in 1 .. Len(turns)
    BY <1>2, <2>1, FailNews DEF SuperOK
  <2>3. sess'[k] = [phase |-> "idle", turn |-> 0] /\ DOMAIN sess' = DOMAIN sess
        /\ \A j \in DOMAIN sess \ {k} : sess'[j] = sess[j]
    BY <1>2, <2>1 DEF SuperOK
  <2>4. SessFades(k)
    BY <2>3 DEF SessFades
  <2> QED BY <2>2, <2>3, <2>4, FadeCalm
<1> QED BY <1>1, <1>2

(* Something is noted of one turn or process. *)
LEMMA RecordCalm ==
    ASSUME SuperOK, NEW m \in 1 .. Len(turns), NEW new \in TurnType,
           turns' = [turns EXCEPT ![m] = new], UNCHANGED sess,
           new.final = turns[m].final, new.prompt = turns[m].prompt, new.host = turns[m].host, new.first = turns[m].first,
           new.reader = "ok" => turns[m].reader = "ok",
           new.conv = turns[m].conv \/ (turns[m].conv = None /\ new.conv = m /\ turns[m].host = m),
           new.init = "ok" => turns[m].init = "ok" \/ new.conv # None,
           new.init = "error" => turns[m].init = "error",
           new.grace \in {"wait", "kill"} => turns[m].grace \in {"wait", "kill"},
           DOMAIN work' \subseteq DOMAIN work, \A j \in DOMAIN work' : work'[j] = work[j],
           m \in DOMAIN work' => new.exit = turns[m].exit
    PROVE  Calm /\ SameFinals
<1>1. turns \in Seq(TurnType)
  BY DEF SuperOK
<1>2. Len(turns') = Len(turns) /\ turns'[m] = new /\ \A n \in 1 .. Len(turns) : n # m => turns'[n] = turns[n]
  BY <1>1, ExceptSeq
<1>3. \A j \in DOMAIN sess : j \in 1 .. Len(turns)
  BY DEF SuperOK
<1>4. \A j \in DOMAIN work' : j \in 1 .. Len(turns)
  BY DEF SuperOK
<1>5. ASSUME NEW n \in 1 .. Len(turns)
      PROVE  /\ turns'[n].prompt = turns[n].prompt /\ turns'[n].host = turns[n].host /\ turns'[n].first = turns[n].first
             /\ turns'[n].reader = "ok" => turns[n].reader = "ok"
             /\ turns'[n].conv = turns[n].conv \/ (turns[n].conv = None /\ turns'[n].conv = n /\ turns[n].host = n)
             /\ turns'[n].init = "ok" => turns[n].init = "ok" \/ turns'[n].conv # None
             /\ turns'[n].init = "error" => turns[n].init = "error"
             /\ turns'[n].grace \in {"wait", "kill"} => turns[n].grace \in {"wait", "kill"}
             /\ n \in DOMAIN work' => turns'[n].exit = turns[n].exit
             /\ turns'[n].final = turns[n].final
  <2>1. CASE n = m
    BY <1>2, <2>1
  <2>2. CASE n # m
    BY <1>2, <2>2
  <2> QED BY <2>1, <2>2
<1>6. \A j \in DOMAIN work' : /\ j \in DOMAIN work /\ turns'[j].exit = turns[j].exit
                              /\ j \in DOMAIN sess => j \in DOMAIN sess'
                              /\ work'[j] \in {0, work[j]}
  BY <1>4, <1>5
<1>7. \A j \in DOMAIN sess' : j \in DOMAIN sess /\ SessFades(j)
  BY DEF SessFades
<1>8. \A j \in DOMAIN sess' : Seen(j)' => Evolves(j) /\ (turns'[j].init = "error" => turns[j].init = "error")
  BY <1>3, <1>5 DEF Evolves, Seen
<1> QED BY <1>2, <1>5, <1>6, <1>7, <1>8 DEF Calm, SameFinals

(* A stop marks the session of its turn. *)
LEMMA StoppedCalm == ASSUME SuperOK, NEW n \in 1 .. Len(turns), Stopped(n), UNCHANGED work PROVE Calm /\ SameFinals
<1>1. CASE ~CanStop(n)
  BY <1>1, StillCalm DEF Stopped, super
<1>2. CASE CanStop(n)
  <2>1. PICK k \in DOMAIN sess : k = turns[n].host /\ sess[k].turn = n
    BY <1>2 DEF CanStop
  <2>2. sess' = [sess EXCEPT ![k].phase = "stopping"] /\ turns' = [turns EXCEPT ![n].grace = "wait"]
    BY <1>2, <2>1 DEF Stopped
  <2>3. turns[n] \in TurnType /\ turns \in Seq(TurnType) /\ sess[k] \in SessType
    BY <2>1, TurnIsTyped DEF SuperOK
  <2>4. PICK new : new = [turns[n] EXCEPT !.grace = "wait"]
    OBVIOUS
  <2>5. /\ new.prompt = turns[n].prompt /\ new.host = turns[n].host /\ new.first = turns[n].first /\ new.final = turns[n].final
        /\ new.reader = turns[n].reader /\ new.conv = turns[n].conv /\ new.init = turns[n].init
        /\ new.exit = turns[n].exit
    BY <2>3, <2>4 DEF TurnType
  <2>6. Len(turns') = Len(turns) /\ turns'[n] = new /\ \A m \in 1 .. Len(turns) : m # n => turns'[m] = turns[m]
    BY <2>2, <2>3, <2>4, ExceptSeq
  <2>7. /\ DOMAIN sess' = DOMAIN sess /\ sess'[k].phase = "stopping" /\ sess'[k].turn = n
        /\ \A j \in DOMAIN sess : j # k => sess'[j] = sess[j]
    BY <2>1, <2>2, <2>3 DEF SessType
  <2>8. n # 0
    OBVIOUS
  <2>9. \A j \in DOMAIN sess : SessFades(j) /\ Evolves(j)
    BY <2>1, <2>7, <2>8 DEF SessFades, Evolves
  <2>10. \A m \in 1 .. Len(turns) : turns'[m].grace \in {"wait", "kill"} =>
            \/ turns[m].grace \in {"wait", "kill"}
            \/ sess'[turns[m].host].turn = m /\ sess'[turns[m].host].phase = "stopping"
    BY <2>1, <2>6, <2>7
  <2>11. \A m \in 1 .. Len(turns) :
            /\ turns'[m].prompt = turns[m].prompt /\ turns'[m].host = turns[m].host /\ turns'[m].first = turns[m].first
            /\ turns'[m].reader = turns[m].reader /\ turns'[m].conv = turns[m].conv /\ turns'[m].init = turns[m].init
            /\ turns'[m].exit = turns[m].exit /\ turns'[m].final = turns[m].final
    BY <2>5, <2>6
  <2>12. \A j \in DOMAIN sess \cup DOMAIN work : j \in 1 .. Len(turns)
    BY DEF SuperOK
  <2> QED BY <2>6, <2>7, <2>9, <2>10, <2>11, <2>12 DEF Calm, SameFinals
<1> QED BY <1>1, <1>2

(* The user stops the turn of the conversation. *)
LEMMA StopCalm == ASSUME SuperOK, NEW n, Stop(n) PROVE Calm /\ SameFinals
<1>1. n \in 1 .. Len(turns)
  BY TurnsDomain DEF Stop
<1> QED BY <1>1, StoppedCalm DEF Stop

(* The grace period passes. *)
LEMMA GraceLooksCalm == ASSUME SuperOK, NEW n, GraceLooks(n) PROVE Calm /\ SameFinals
<1>1. n \in 1 .. Len(turns) /\ turns[n].grace = "wait" /\ turns[n] \in TurnType
  BY TurnsDomain, TurnIsTyped DEF GraceLooks
<1>2. PICK grace \in {"kill", "done"} : turns' = [turns EXCEPT ![n].grace = grace]
  BY DEF GraceLooks
<1>3. PICK new : new = [turns[n] EXCEPT !.grace = grace]
  OBVIOUS
<1>4. /\ new \in TurnType /\ new.prompt = turns[n].prompt /\ new.host = turns[n].host /\ new.first = turns[n].first /\ new.final = turns[n].final
      /\ new.reader = turns[n].reader /\ new.conv = turns[n].conv /\ new.init = turns[n].init /\ new.exit = turns[n].exit
  BY <1>1, <1>2, <1>3 DEF TurnType
<1>5. turns' = [turns EXCEPT ![n] = new]
  BY <1>2, <1>3
<1>6. UNCHANGED <<sess, work>>
  BY DEF GraceLooks
<1> QED BY <1>1, <1>4, <1>5, <1>6, RecordCalm

(* The kill after the grace period. *)
LEMMA GraceKillsCalm == ASSUME SuperOK, NEW n, GraceKills(n) PROVE Calm /\ SameFinals
<1>1. n \in 1 .. Len(turns) /\ turns[n] \in TurnType
  BY TurnsDomain, TurnIsTyped DEF GraceKills
<1>2. PICK new : new = [turns[n] EXCEPT !.grace = "done"]
  OBVIOUS
<1>3. /\ new \in TurnType /\ new.prompt = turns[n].prompt /\ new.host = turns[n].host /\ new.first = turns[n].first /\ new.final = turns[n].final
      /\ new.reader = turns[n].reader /\ new.conv = turns[n].conv /\ new.init = turns[n].init /\ new.exit = turns[n].exit
      /\ new.grace = "done"
  BY <1>1, <1>2 DEF TurnType
<1>4. turns' = [turns EXCEPT ![n] = new] /\ UNCHANGED sess
  BY <1>2 DEF GraceKills
<1>5. DOMAIN work' \subseteq DOMAIN work /\ \A j \in DOMAIN work' : work'[j] = work[j]
  BY DEF GraceKills, Killed, Sans
<1> QED BY <1>1, <1>3, <1>4, <1>5, RecordCalm

(* The reader kills the process whose line was no event. *)
LEMMA ReaderKillsCalm == ASSUME SuperOK, NEW k, ReaderKills(k) PROVE Calm /\ SameFinals
<1>1. k \in 1 .. Len(turns) /\ turns[k] \in TurnType
  BY TurnsDomain, TurnIsTyped DEF ReaderKills
<1>2. PICK new : new = [turns[k] EXCEPT !.reader = "gone"]
  OBVIOUS
<1>3. /\ new \in TurnType /\ new.prompt = turns[k].prompt /\ new.host = turns[k].host /\ new.first = turns[k].first /\ new.final = turns[k].final
      /\ new.reader = "gone" /\ new.conv = turns[k].conv /\ new.init = turns[k].init /\ new.exit = turns[k].exit
      /\ new.grace = turns[k].grace
  BY <1>1, <1>2 DEF TurnType
<1>4. turns' = [turns EXCEPT ![k] = new] /\ UNCHANGED sess
  BY <1>2 DEF ReaderKills
<1>5. DOMAIN work' \subseteq DOMAIN work /\ \A j \in DOMAIN work' : work'[j] = work[j]
  BY DEF ReaderKills, Killed, Sans
<1> QED BY <1>1, <1>3, <1>4, <1>5, RecordCalm

(* The first line of a process names its conversation. *)
LEMMA InitsCalm == ASSUME SuperOK, NEW k, Inits(k) PROVE Calm /\ SameFinals
<1>1. k \in 1 .. Len(turns) /\ turns[k] \in TurnType /\ turns[k].host = k
  BY TurnIsTyped DEF Inits, SuperOK
<1>2. PICK conv \in Int : conv = IF turns[k].conv = None THEN k ELSE turns[k].conv
  BY <1>1 DEF TurnType
<1>3. PICK new : new = [turns[k] EXCEPT !.init = "ok", !.conv = conv]
  OBVIOUS
<1>4. /\ new \in TurnType /\ new.prompt = turns[k].prompt /\ new.host = turns[k].host /\ new.first = turns[k].first /\ new.final = turns[k].final
      /\ new.reader = turns[k].reader /\ new.conv = conv /\ new.init = "ok" /\ new.exit = turns[k].exit
      /\ new.grace = turns[k].grace
  BY <1>1, <1>3 DEF TurnType
<1>5. turns' = [turns EXCEPT ![k] = new] /\ UNCHANGED <<sess, work>>
  BY <1>1, <1>2, <1>3 DEF Inits, TurnType
<1>6. conv # None
  BY NoneAssumption
<1> QED BY <1>1, <1>2, <1>4, <1>5, <1>6, RecordCalm

(* A process ends. *)
LEMMA ProcessEndsCalm == ASSUME SuperOK, NEW k, ProcessEnds(k) PROVE Calm /\ SameFinals
BY DEF ProcessEnds, Sans, SuperOK, Calm, SameFinals, Seen, Evolves, SessFades

(* The exit of a process is looked at. *)
LEMMA ExitLooksCalm == ASSUME SuperOK, NEW k, ExitLooks(k) PROVE Calm /\ SameFinals
<1>1. k \in 1 .. Len(turns) /\ turns[k] \in TurnType /\ k \notin DOMAIN work
  BY TurnsDomain, TurnIsTyped DEF ExitLooks
<1>2. PICK exit \in {"remove", "interrupt", "fail"} : turns' = [turns EXCEPT ![k].exit = exit]
  BY DEF ExitLooks
<1>3. PICK new : new = [turns[k] EXCEPT !.exit = exit]
  OBVIOUS
<1>4. /\ new \in TurnType /\ new.prompt = turns[k].prompt /\ new.host = turns[k].host /\ new.first = turns[k].first /\ new.final = turns[k].final
      /\ new.reader = turns[k].reader /\ new.conv = turns[k].conv /\ new.init = turns[k].init
      /\ new.grace = turns[k].grace
  BY <1>1, <1>2, <1>3 DEF TurnType
<1>5. turns' = [turns EXCEPT ![k] = new]
  BY <1>2, <1>3
<1>6. UNCHANGED <<sess, work>>
  BY DEF ExitLooks
<1> QED BY <1>1, <1>4, <1>5, <1>6, RecordCalm

(* A sequence of turns with another turn at a place. *)
LEMMA ChangedSeq ==
    ASSUME NEW ts \in Seq(TurnType), NEW k \in 1 .. Len(ts), NEW new \in TurnType, turns' = [ts EXCEPT ![k] = new]
    PROVE  Len(turns') = Len(ts) /\ turns'[k] = new /\ \A n \in 1 .. Len(ts) : n # k => turns'[n] = ts[n]
BY ExceptSeq

(* A session whose output fails is read by nobody. *)
LEMMA ReadFailsCalm == ASSUME SuperOK, NEW k, NEW reader \in {"kill", "gone"}, ReadFails(k, reader) PROVE Calm /\ SameFinals
<1>1. k \in DOMAIN sess /\ k \in 1 .. Len(turns)
  BY DEF ReadFails, SuperOK
<1>2. PICK ts : ts = WithInit(WithOutcome(turns, sess[k].turn, "error"), k, "error")
  OBVIOUS
<1>3. turns' = [ts EXCEPT ![k].reader = reader] /\ sess' = [sess EXCEPT ![k] = [phase |-> "idle", turn |-> 0]]
      /\ UNCHANGED work
  BY <1>2 DEF ReadFails
<1>4. NewsOf(turns, ts, k)
  BY <1>1, <1>2, FailNews
<1>5. ts \in Seq(TurnType) /\ Len(ts) = Len(turns) /\ ts[k] \in TurnType
  BY <1>1, <1>4, ElementOfSeq DEF NewsOf
<1>6. PICK new : new = [ts[k] EXCEPT !.reader = reader]
  OBVIOUS
<1>7. /\ new \in TurnType /\ new.prompt = ts[k].prompt /\ new.host = ts[k].host /\ new.first = ts[k].first /\ new.final = ts[k].final
      /\ new.conv = ts[k].conv /\ new.grace = ts[k].grace /\ new.init = ts[k].init
      /\ new.reader = reader /\ new.exit = ts[k].exit
  BY <1>5, <1>6 DEF TurnType
<1>8. Len(turns') = Len(ts) /\ turns'[k] = new /\ \A n \in 1 .. Len(ts) : n # k => turns'[n] = ts[n]
  <2>1. turns' = [ts EXCEPT ![k] = new]
    BY <1>1, <1>3, <1>5, <1>6, <1>7
  <2>2. ts \in Seq(TurnType) /\ k \in 1 .. Len(ts) /\ new \in TurnType
    BY <1>1, <1>3, <1>5, <1>6, <1>7
  <2> QED BY <2>1, <2>2, ChangedSeq
<1>9. DOMAIN sess' = DOMAIN sess /\ sess'[k] = [phase |-> "idle", turn |-> 0] /\ \A j \in DOMAIN sess \ {k} : sess'[j] = sess[j]
  BY <1>1, <1>3 DEF SuperOK
<1>10. SessFades(k)
  BY <1>9 DEF SessFades
<1> QED BY <1>1, <1>3, <1>4, <1>7, <1>8, <1>9, <1>10, FadeCalm

(* What the exit handler does to a session whose process is gone. *)
LEMMA ExitEndsCalm == ASSUME SuperOK, NEW k, ExitEnds(k), k \notin DOMAIN work PROVE Calm /\ SameFinals
<1>1. k \in 1 .. Len(turns) /\ turns \in Seq(TurnType) /\ UNCHANGED work
  BY TurnsDomain DEF ExitEnds, SuperOK
<1>2. CASE k \in DOMAIN sess
  <2>1. PICK n : n = sess[k].turn
    OBVIOUS
  <2>2. n \in 0 .. Len(turns)
    BY <1>2, <2>1, TurnsDomain DEF SuperOK
  <2>3. PICK outcome \in {"interrupted", "error"} : outcome = IF turns[k].exit = "interrupt" THEN "interrupted" ELSE "error"
    OBVIOUS
  <2>4. PICK us : us = WithOutcome(turns, n, outcome)
    OBVIOUS
  <2>5. NewsOf(turns, us, k)
    BY <2>2, <2>4, <1>1, EndNews
  <2>6. us \in Seq(TurnType) /\ k \in 1 .. Len(us)
    BY <1>1, <2>5 DEF NewsOf
  <2>7. PICK ts : ts = IF turns[k].exit = "fail" THEN WithInit(us, k, "error") ELSE us
    OBVIOUS
  <2>8. NewsOf(turns, ts, k)
    <3>1. NewsOf(us, WithInit(us, k, "error"), k)
      BY <2>6, InitNews
    <3> QED BY <2>5, <2>7, <3>1, NewsTwice
  <2>9. ts \in Seq(TurnType) /\ Len(ts) = Len(turns) /\ ts[k] \in TurnType
    BY <1>1, <2>8, ElementOfSeq DEF NewsOf
  <2>10. turns' = [ts EXCEPT ![k].exit = "remove"]
    BY <1>2, <2>1, <2>3, <2>4, <2>7 DEF ExitEnds
  <2>11. PICK new : new = [ts[k] EXCEPT !.exit = "remove"]
    OBVIOUS
  <2>12. /\ new \in TurnType /\ new.prompt = ts[k].prompt /\ new.host = ts[k].host /\ new.first = ts[k].first /\ new.final = ts[k].final
         /\ new.conv = ts[k].conv /\ new.grace = ts[k].grace /\ new.init = ts[k].init
         /\ new.reader = ts[k].reader
    BY <2>9, <2>11 DEF TurnType
  <2>13. Len(turns') = Len(ts) /\ turns'[k] = new /\ \A m \in 1 .. Len(ts) : m # k => turns'[m] = ts[m]
    <3>1. turns' = [ts EXCEPT ![k] = new]
      BY <1>1, <2>9, <2>10, <2>11, <2>12
    <3>2. ts \in Seq(TurnType) /\ k \in 1 .. Len(ts) /\ new \in TurnType
      BY <1>1, <2>9, <2>10, <2>11, <2>12
    <3> QED BY <3>1, <3>2, ChangedSeq
  <2>14. PICK phase \in {"stopped", "idle"} :
            /\ sess' = [sess EXCEPT ![k] = [phase |-> phase, turn |-> 0]]
            /\ sess[k].phase # "stopping" => phase = "idle"
    BY <1>2 DEF ExitEnds
  <2>15. DOMAIN sess' = DOMAIN sess /\ sess'[k] = [phase |-> phase, turn |-> 0] /\ \A j \in DOMAIN sess \ {k} : sess'[j] = sess[j]
    BY <1>2, <2>14 DEF SuperOK
  <2>16. SessFades(k)
    BY <2>14, <2>15 DEF SessFades
  <2> QED BY <1>1, <1>2, <2>8, <2>12, <2>13, <2>15, <2>16, FadeCalm
<1>3. CASE k \notin DOMAIN sess
  <2>1. WithOutcome(turns, 0, IF turns[k].exit = "interrupt" THEN "interrupted" ELSE "error") = turns
    BY DEF WithOutcome
  <2>2. PICK ts : ts = IF turns[k].exit = "fail" THEN WithInit(turns, k, "error") ELSE turns
    OBVIOUS
  <2>3. turns' = [ts EXCEPT ![k].exit = "remove"] /\ UNCHANGED sess
    BY <1>3, <2>1, <2>2 DEF ExitEnds
  <2>4. NewsOf(turns, ts, k)
    <3>1. NewsOf(turns, turns, k)
      BY <1>1 DEF NewsOf
    <3> QED BY <1>1, <2>2, <3>1, InitNews
  <2>5. ts \in Seq(TurnType) /\ Len(ts) = Len(turns) /\ ts[k] \in TurnType
    BY <1>1, <2>4, ElementOfSeq DEF NewsOf
  <2>6. PICK new : new = [ts[k] EXCEPT !.exit = "remove"]
    OBVIOUS
  <2>7. /\ new \in TurnType /\ new.prompt = ts[k].prompt /\ new.host = ts[k].host /\ new.first = ts[k].first /\ new.final = ts[k].final
        /\ new.conv = ts[k].conv /\ new.grace = ts[k].grace /\ new.init = ts[k].init
        /\ new.reader = ts[k].reader
    BY <2>5, <2>6 DEF TurnType
  <2>8. Len(turns') = Len(ts) /\ turns'[k] = new /\ \A m \in 1 .. Len(ts) : m # k => turns'[m] = ts[m]
    <3>1. turns' = [ts EXCEPT ![k] = new]
      BY <1>1, <2>3, <2>5, <2>6, <2>7
    <3>2. ts \in Seq(TurnType) /\ k \in 1 .. Len(ts) /\ new \in TurnType
      BY <1>1, <2>3, <2>5, <2>6, <2>7
    <3> QED BY <3>1, <3>2, ChangedSeq
  <2> QED BY <1>1, <1>3, <2>3, <2>4, <2>7, <2>8, FadeCalm
<1> QED BY <1>2, <1>3

(* The exit handler removes the session. *)
LEMMA ExitRemovesCalm == ASSUME SuperOK, NEW k, ExitRemoves(k), k \notin DOMAIN work PROVE Calm /\ SameFinals
<1>1. k \in 1 .. Len(turns) /\ turns \in Seq(TurnType) /\ UNCHANGED work /\ sess' = Sans(sess, k)
  BY TurnsDomain DEF ExitRemoves, SuperOK
<1>2. PICK n : n = IF k \in DOMAIN sess THEN sess[k].turn ELSE 0
  OBVIOUS
<1>3. n \in 0 .. Len(turns)
  BY <1>2, TurnsDomain DEF SuperOK
<1>4. PICK us : us = WithOutcome(turns, n, "error")
  OBVIOUS
<1>5. NewsOf(turns, us, k)
  BY <1>1, <1>3, <1>4, EndNews
<1>6. us \in Seq(TurnType) /\ k \in 1 .. Len(us)
  BY <1>1, <1>5 DEF NewsOf
<1>7. PICK ts : ts = WithInit(us, k, "error")
  OBVIOUS
<1>8. NewsOf(turns, ts, k)
  <2>1. NewsOf(us, ts, k)
    BY <1>6, <1>7, InitNews
  <2> QED BY <1>5, <2>1, NewsTwice
<1>9. ts \in Seq(TurnType) /\ Len(ts) = Len(turns) /\ ts[k] \in TurnType
  BY <1>1, <1>8, ElementOfSeq DEF NewsOf
<1>10. turns' = [ts EXCEPT ![k].exit = "done"]
  BY <1>2, <1>4, <1>7 DEF ExitRemoves
<1>11. PICK new : new = [ts[k] EXCEPT !.exit = "done"]
  OBVIOUS
<1>12. /\ new \in TurnType /\ new.prompt = ts[k].prompt /\ new.host = ts[k].host /\ new.first = ts[k].first /\ new.final = ts[k].final
       /\ new.conv = ts[k].conv /\ new.grace = ts[k].grace /\ new.init = ts[k].init
       /\ new.reader = ts[k].reader
  BY <1>9, <1>11 DEF TurnType
<1>13. Len(turns') = Len(ts) /\ turns'[k] = new /\ \A m \in 1 .. Len(ts) : m # k => turns'[m] = ts[m]
  <2>1. turns' = [ts EXCEPT ![k] = new]
    BY <1>1, <1>9, <1>10, <1>11, <1>12
  <2>2. ts \in Seq(TurnType) /\ k \in 1 .. Len(ts) /\ new \in TurnType
    BY <1>1, <1>9, <1>10, <1>11, <1>12
  <2> QED BY <2>1, <2>2, ChangedSeq
<1>14. DOMAIN sess' = DOMAIN sess \ {k} /\ \A j \in DOMAIN sess \ {k} : sess'[j] = sess[j]
  BY <1>1 DEF Sans
<1> QED BY <1>1, <1>8, <1>12, <1>13, <1>14, FadeCalm

(* A result ends the turn of a process, and of its session. *)
LEMMA ResultsCalm ==
    ASSUME SuperOK, \A k \in 1 .. Len(turns) : ProcessOK(k),
           NEW k, NEW outcome \in {"success", "error"}, Results(k, outcome)
    PROVE  Calm /\ SameFinals
<1>1. k \in DOMAIN work /\ work[k] # 0 /\ turns[k].reader = "ok" /\ k \in 1 .. Len(turns) /\ turns \in Seq(TurnType)
  BY DEF Results, SuperOK
<1>2. DOMAIN work' = DOMAIN work /\ work'[k] = 0 /\ \A j \in DOMAIN work \ {k} : work'[j] = work[j]
  BY <1>1 DEF Results, SuperOK
<1>3. PICK n \in 0 .. Len(turns) : /\ turns' = turns \/ turns' = WithOutcome(turns, n, "interrupted")
                                      \/ turns' = WithOutcome(turns, n, outcome)
                                   /\ k \in DOMAIN sess => n = sess[k].turn
  <2>1. CASE k \in DOMAIN sess
    BY <2>1, TurnsDomain DEF Results, Resulted, Ended, SuperOK
  <2>2. CASE k \notin DOMAIN sess
    BY <2>2, TurnsDomain DEF Results
  <2> QED BY <2>1, <2>2
<1>4. NewsOf(turns, turns', 0)
  <2>1. NewsOf(turns, turns, 0)
    BY <1>1 DEF NewsOf
  <2>2. NewsOf(turns, WithOutcome(turns, n, "interrupted"), 0)
    BY <1>1, EndNews
  <2>3. NewsOf(turns, WithOutcome(turns, n, outcome), 0)
    BY <1>1, EndNews
  <2> QED BY <1>3, <2>1, <2>2, <2>3
<1>5. Len(turns') = Len(turns) /\ \A m \in 1 .. Len(turns) :
         /\ turns'[m].prompt = turns[m].prompt /\ turns'[m].host = turns[m].host /\ turns'[m].first = turns[m].first
         /\ turns'[m].reader = turns[m].reader /\ turns'[m].conv = turns[m].conv /\ turns'[m].grace = turns[m].grace
         /\ turns'[m].exit = turns[m].exit /\ turns'[m].init = turns[m].init /\ turns'[m].final = turns[m].final
  BY <1>4 DEF NewsOf
<1>6. \A j \in DOMAIN sess \cup DOMAIN work : j \in 1 .. Len(turns)
  BY DEF SuperOK
<1>7. DOMAIN sess' = DOMAIN sess /\ \A j \in DOMAIN sess \ {k} : sess'[j] = sess[j]
  <2>1. sess' = sess \/ (k \in DOMAIN sess /\ \E new : sess' = [sess EXCEPT ![k] = new])
    BY DEF Results, Resulted
  <2> QED BY <2>1 DEF SuperOK
<1>8. k \in DOMAIN sess => SessFades(k) /\ Evolves(k)
  <2>1. SUFFICES ASSUME k \in DOMAIN sess PROVE SessFades(k) /\ Evolves(k)
    OBVIOUS
  <2>2. sess' = [sess EXCEPT ![k] = [phase |-> IF sess[k].phase = "stopping" THEN "stopped" ELSE "idle", turn |-> 0]]
    BY <2>1 DEF Results, Resulted
  <2>3. sess'[k] = [phase |-> IF sess[k].phase = "stopping" THEN "stopped" ELSE "idle", turn |-> 0]
    BY <2>1, <2>2 DEF SuperOK
  <2>4. sess'[k].turn = 0 /\ sess'[k].phase = IF sess[k].phase = "stopping" THEN "stopped" ELSE "idle"
    BY <2>3
  <2> QED BY <1>1, <1>2, <2>4 DEF SessFades, Evolves
<1>9. \A j \in DOMAIN sess' : j \in DOMAIN sess /\ SessFades(j)
  BY <1>7, <1>8 DEF SessFades
<1>10. \A j \in DOMAIN sess' : Seen(j)' => Evolves(j)
  BY <1>2, <1>7, <1>8 DEF Evolves, Seen
<1>11. \A j \in DOMAIN work' : j \in DOMAIN work /\ turns'[j].exit = turns[j].exit
                              /\ (j \in DOMAIN sess => j \in DOMAIN sess') /\ work'[j] \in {0, work[j]}
  BY <1>2, <1>5, <1>6, <1>7
<1> QED BY <1>5, <1>6, <1>7, <1>9, <1>10, <1>11 DEF Calm, SameFinals

-----------------------------------------------------------------------------
(* What stays while nobody gets a turn *)

(* A conversation is still nobody else's. *)
LEMMA StaysUnnamed ==
    ASSUME SuperOK, Calm, NEW k \in 1 .. Len(turns), Unnamed(k),
           binding' # k, \A t \in Task : task'[t].conv \in {None, binding, task[t].conv}
    PROVE  Unnamed(k)'
<1>1. \A t \in Task : task'[t].conv # k
  BY NoneAssumption DEF Unnamed
<1>2. Len(turns') = Len(turns) /\ \A n \in 1 .. Len(turns) : turns'[n].conv \in {turns[n].conv, n}
  BY DEF Calm
<1>3. \A n \in 1 .. Len(turns') : turns'[n].conv = k => n = k
  BY <1>2 DEF Unnamed
<1>4. turns'[k].conv \in {None, k}
  BY <1>2 DEF Unnamed
<1> QED BY <1>1, <1>3, <1>4 DEF Unnamed

(* The parts of a task's place. *)
LEMMA SpotFrom ==
    ASSUME NEW u \in Task, NEW n, NEW k, task'[u].turn = n,
           task'[u].pc \in {"flush", "init", "kill"} \cup WithConv => turns'[n].host = k,
           task'[u].pc = "write" =>
              /\ \A m \in 1 .. Len(turns') : turns'[m].host = n => m = n
              /\ n \in DOMAIN sess' => sess'[n].phase = "idle"
              /\ n \in DOMAIN work' => work'[n] = 0
              /\ activation' = u \/ Unnamed(n)',
           task'[u].pc = "reuse" =>
              /\ activation' = u /\ turns'[n].conv = task'[u].conv
              /\ n \in DOMAIN sess' => sess'[n].phase = "idle",
           task'[u].pc = "flush" =>
              /\ k \in DOMAIN work' /\ k \in DOMAIN sess' /\ turns'[k].reader = "ok" => work'[k] = 0 /\ sess'[k].turn = n
              /\ n # k => turns'[k].conv # None,
           task'[u].pc \in {"init", "kill"} => k = n,
           task'[u].pc \in WithConv => turns'[k].conv # None,
           u = Creator => (task'[u].pc \in BeforeBinding => binding' = None),
           u # Creator => (task'[u].pc # "idle" => task'[u].conv # None)
    PROVE  SpotOK(u)'
BY DEF SpotOK, Seen, Unnamed

(* A task that stays where it is. *)
LEMMA CalmSpot ==
    ASSUME AgyInv, SepInv, Calm, NEW u \in Task, task'[u] = task[u],
           activation = u => activation' = u,
           task[u].pc = "write" => \A k \in 1 .. Len(turns) : k = task[u].turn /\ Unnamed(k) => Unnamed(k)',
           u = Creator /\ binding = None => binding' = None
    PROVE  SpotOK(u)'
<1>1. SuperOK /\ ConvsOK /\ SpotOK(u) /\ TurnOK(u) /\ PlaceOK(u) /\ \A j \in 1 .. Len(turns) : ProcessOK(j)
  BY DEF AgyInv, SepInv
<1>2. PICK n : n = task[u].turn
  OBVIOUS
<1>3. task[u].pc \in HasTurn \cup {"reuse"} => n \in 1 .. Len(turns) /\ turns[n].host \in 1 .. Len(turns) /\ turns'[n].host = turns[n].host
  BY <1>1, <1>2 DEF TurnOK, SuperOK, Calm
<1>4. ASSUME task[u].pc = "write"
      PROVE  /\ \A m \in 1 .. Len(turns') : turns'[m].host = n => m = n
             /\ n \in DOMAIN sess' => sess'[n].phase = "idle"
             /\ n \in DOMAIN work' => work'[n] = 0
             /\ activation' = u \/ Unnamed(n)'
  <2>1. n \in 1 .. Len(turns)
    BY <1>3, <1>4 DEF HasTurn
  <2>2. \A m \in 1 .. Len(turns') : turns'[m].host = n => m = n
    BY <1>1, <1>2, <1>4 DEF SpotOK, Calm
  <2>3. n \in DOMAIN sess' => sess'[n].phase = "idle"
    BY <1>1, <1>2, <1>4, <2>1 DEF SpotOK, Calm, SessFades, ProcessOK
  <2>4. n \in DOMAIN work' => work'[n] = 0
    BY <1>1, <1>2, <1>4 DEF SpotOK, Calm
  <2>5. activation = u \/ Unnamed(n)
    BY <1>1, <1>2, <1>4 DEF SpotOK
  <2>6. Unnamed(n) => Unnamed(n)'
    BY <1>2, <1>4, <2>1
  <2> QED BY <2>2, <2>3, <2>4, <2>5, <2>6
<1>5. ASSUME task[u].pc = "reuse"
      PROVE  /\ activation' = u /\ turns'[n].conv = task[u].conv
             /\ n \in DOMAIN sess' => sess'[n].phase = "idle"
  <2>1. n \in 1 .. Len(turns)
    BY <1>3, <1>5 DEF HasTurn
  <2>2. activation = u /\ turns[n].conv = task[u].conv /\ (n \in DOMAIN sess => sess[n].phase = "idle")
    BY <1>1, <1>2, <1>5 DEF SpotOK
  <2>3. task[u].conv # None
    BY <1>1, <1>5 DEF SpotOK, PlaceOK, CreatorPoints, CreatorOnly
  <2>4. turns'[n].conv = turns[n].conv
    BY <1>1, <2>1, <2>2, <2>3, CalmConvs
  <2>5. n \in DOMAIN sess' => sess'[n].phase = "idle"
    BY <1>1, <2>1, <2>2 DEF Calm, SessFades, ProcessOK
  <2> QED BY <2>2, <2>4, <2>5
<1>10. PICK k : k = turns'[n].host
  OBVIOUS
<1>6. ASSUME task[u].pc = "flush"
      PROVE  /\ k \in DOMAIN work' /\ k \in DOMAIN sess' /\ turns'[k].reader = "ok" => work'[k] = 0 /\ sess'[k].turn = n
             /\ n # k => turns'[k].conv # None
  <2>1. turns[n].host = k /\ k \in 1 .. Len(turns)
    BY <1>3, <1>6, <1>10 DEF HasTurn
  <2>2. (Seen(k) => work[k] = 0 /\ sess[k].turn = n) /\ (n # k => turns[k].conv # None)
    BY <1>1, <1>2, <1>6, <2>1 DEF SpotOK
  <2>3. ASSUME k \in DOMAIN work', k \in DOMAIN sess', turns'[k].reader = "ok"
        PROVE  work'[k] = 0 /\ sess'[k].turn = n
    <3>1. Seen(k)'
      BY <2>3 DEF Seen
    <3>2. Seen(k)
      BY <1>1, <3>1, CalmSeen
    <3>3. Evolves(k)
      BY <2>3, <3>1 DEF Calm
    <3> QED BY <2>2, <3>2, <3>3 DEF Evolves
  <2>4. turns[k].conv # None => turns'[k].conv = turns[k].conv
    BY <1>1, <2>1, CalmConvs
  <2> QED BY <2>2, <2>3, <2>4
<1>7. ASSUME task[u].pc \in {"init", "kill"} \cup WithConv
      PROVE  /\ task[u].pc \in {"init", "kill"} => k = n
             /\ task[u].pc \in WithConv => turns'[k].conv # None
  <2>1. turns[n].host = k /\ k \in 1 .. Len(turns)
    BY <1>3, <1>7, <1>10 DEF HasTurn, WithConv
  <2>2. turns[k].conv # None => turns'[k].conv = turns[k].conv
    BY <1>1, <2>1, CalmConvs
  <2> QED BY <1>1, <1>2, <2>1, <2>2 DEF SpotOK
<1>8. u = Creator => (task[u].pc \in BeforeBinding => binding' = None)
  BY <1>1 DEF SpotOK
<1>9. u # Creator => (task[u].pc # "idle" => task[u].conv # None)
  BY <1>1 DEF SpotOK
<1> QED BY <1>2, <1>4, <1>5, <1>6, <1>7, <1>8, <1>9, <1>10, SpotFrom

(* What the dispatchers have read as the head of the queue is still there. *)
HeadsStay == \A p \in Prompt : queuings[p] > 0 =>
    /\ queuings'[p] > 0
    /\ row'[p].status # "none" => row[p].status # "none" /\ (Head(queue) = p => Head(queue') = p)

(* The prompt of a dispatcher stays at the head. *)
LEMMA HeadKept ==
    ASSUME HeadsStay, NEW d \in Dispatcher, HeadOK(d), task'[d].prompt = task[d].prompt,
           task'[d].pc \notin {"idle", "runtime", "head"} => task[d].pc \notin {"idle", "runtime", "head"}
    PROVE  HeadOK(d)'
BY DEF HeadsStay, HeadOK

(* Rows that come or go leave the head of the queue to those before them. *)
LEMMA SameHeads ==
    ASSUME UNCHANGED queue, \A p \in Prompt : queuings[p] > 0 => queuings'[p] > 0,
           \A p \in Prompt : row'[p].status # "none" => row[p].status # "none"
    PROVE  HeadsStay
BY DEF HeadsStay

(* A prompt is appended after the others. *)
LEMMA AppendHeads ==
    ASSUME QueueOK(queue, row), NEW q \in Prompt, queuings[q] = 0, queue' = Append(queue, q),
           \A p \in Prompt \ {q} : row'[p] = row[p] /\ queuings'[p] = queuings[p]
    PROVE  HeadsStay
<1>1. SUFFICES ASSUME NEW p \in Prompt, queuings[p] > 0, row'[p].status # "none", Head(queue) = p
               PROVE  Head(queue') = p
  BY DEF HeadsStay
<1>2. p # q /\ row[p].status # "none"
  BY <1>1
<1>3. \E i \in 1 .. Len(queue) : queue[i] = p
  BY <1>2 DEF QueueOK
<1>4. queue \in Seq(Prompt) /\ queue # <<>>
  BY <1>3, EmptySeq DEF QueueOK
<1> QED BY <1>1, <1>4, HeadTailAppend

(* A row is deleted, and the others keep their order. *)
LEMMA DeletedHeads ==
    ASSUME PlainOK, QueueOK(queue, row), NEW q \in Prompt, row[q].status # "none", Deleted(q), UNCHANGED queuings
    PROVE  HeadsStay
<1>1. row'[q].status = "none" /\ (\A p \in Prompt \ {q} : row'[p] = row[p]) /\ QueueOK(queue, row)'
  BY DeletedRow
<1>2. SUFFICES ASSUME NEW p \in Prompt, p # q, row[p].status # "none", Head(queue) = p
               PROVE  Head(queue') = p
  BY <1>1 DEF HeadsStay
<1>3. queue \in Seq(Prompt) /\ Len(queue) \in Nat
  BY LenProperties DEF QueueOK
<1>4. Len(queue) # 0 /\ queue[1] = p
  <2>1. \E i \in 1 .. Len(queue) : queue[i] = p
    BY <1>2 DEF QueueOK
  <2> QED BY <1>2, <1>3, <2>1
<1>5. PICK a \in 1 .. Len(queue) : a = PlaceOf(q) /\ queue[a] = q
  <2>1. \E i \in 1 .. Len(queue) : queue[i] = q
    BY DEF QueueOK
  <2>2. DOMAIN queue = 1 .. Len(queue)
    BY <1>3, LenProperties
  <2> QED BY <2>1, <2>2 DEF PlaceOf
<1>6. \A j \in 1 .. Len(queue) - 1 : queue'[j] = IF j < a THEN queue[j] ELSE queue[j + 1]
  BY <1>3, <1>5, RemoveAtProperties DEF Deleted
<1>7. Len(queue) - 1 \in Nat /\ Len(queue') = Len(queue) - 1
  BY <1>3, <1>5, RemoveAtProperties DEF Deleted
<1>8. a # 1
  BY <1>2, <1>4, <1>5
<1>9. \E i \in 1 .. Len(queue') : queue'[i] = p
  BY <1>1, <1>2 DEF QueueOK
<1>10. queue'[1] = p
  BY <1>4, <1>5, <1>6, <1>7, <1>8, <1>9
<1> QED BY <1>10

(* What is busy stays what it was, when the thread has not got further. *)
LEMMA BusyFrom ==
    ASSUME SuperOK, Calm, NEW k \in DOMAIN sess, BusyOK(k), NEW n, NEW p, n = sess[k].turn, p = turns[n].prompt,
           Busily(k) /\ Busily(k)' /\ turns[n].first /\ FirstOK(k) => FirstOK(k)',
           Busily(k) /\ Busily(k)' /\ ~turns[n].first /\ QueuedOK(n, p) => QueuedOK(n, p)'
    PROVE  BusyOK(k)'
<1>1. CASE ~Busily(k)'
  BY <1>1 DEF BusyOK
<1>2. CASE Busily(k)'
  <2>1. Busily(k) /\ sess'[k].turn = n
    BY <1>2, CalmSeen DEF Busily
  <2>2. n \in 1 .. Len(turns)
    BY <2>1 DEF Busily, SuperOK
  <2>3. turns'[n].first = turns[n].first /\ turns'[n].prompt = p
    BY <2>2 DEF Calm
  <2>4. CASE turns[n].first
    BY <1>2, <2>1, <2>3, <2>4 DEF BusyOK
  <2>5. CASE ~turns[n].first
    <3>1. QueuedOK(n, p)'
      BY <1>2, <2>1, <2>5 DEF BusyOK
    <3> QED BY <2>1, <2>3, <2>5, <3>1 DEF BusyOK, QueuedOK, Awaited
  <2> QED BY <2>4, <2>5
<1> QED BY <1>1, <1>2

(* Where the first send has a turn in a session. *)
FirstSpots == {"flush", "init", "kill", "bind", "stopOnly"}

(* The rows in delivery stay, but for the one that t has in hand before it  *)
(* has handed it over, and the one whose turn is over.                      *)
RowsStay(t) ==
    /\ \A p \in Prompt : row[p].status = "sending" /\ row[p].begun =>
          \/ row'[p].status = "sending" /\ row'[p].begun /\ (Head(queue) = p => Head(queue') = p)
          \/ t \in Task /\ Holds(t, p) /\ task[t].pc \notin PostWrite
          \/ \E m \in 1 .. Len(turns) : Awaited(m, p) /\ turns[m].outcome # "none"
    /\ \A n \in 1 .. Len(turns), p \in Prompt : Awaited(n, p) => Awaited(n, p)' \/ turns[n].outcome # "none"

(* The queue and its rows stay. *)
LEMMA SameRows ==
    ASSUME SuperOK, UNCHANGED <<queue, row>>, Len(turns') = Len(turns),
           \A n \in 1 .. Len(turns) : turns'[n].prompt = turns[n].prompt /\ turns'[n].final = turns[n].final, NEW t
    PROVE  RowsStay(t)
BY DEF RowsStay, Awaited

(* A turn at work is in the hands of one task, or is awaited. *)
LEMMA QueuedKept ==
    ASSUME AgyInv, SepInv, NEW t \in Task, \A u \in Task : u # t => task'[u] = task[u], RowsStay(t),
           NEW k \in DOMAIN sess, NEW n, n = sess[k].turn, n # 0, NEW p, p = turns[n].prompt, QueuedOK(n, p),
           t \in Dispatcher /\ task[t].pc \in PostWrite /\ task[t].turn = n =>
              \/ task'[t].pc \in PostWrite /\ task'[t].turn = n /\ task'[t].prompt = task[t].prompt
              \/ Awaited(n, p)'
    PROVE  QueuedOK(n, p)'
<1>1. n \in 1 .. Len(turns) /\ turns[n].outcome = "none" /\ p \in Prompt
  BY TurnIsTyped DEF AgyInv, SuperOK, TurnType
<1>2. Sole(p) /\ PromptOK(p)
  BY <1>1 DEF AgyInv, PromptOK
<1>3. row[p].status = "sending" /\ row[p].begun /\ Head(queue) = p
  BY DEF QueuedOK
<1>4. Dispatcher \subseteq Task /\ PostWrite \cap BeforeRow = {}
  BY Places DEF PostWrite, BeforeRow
<1>5. CASE Awaited(n, p)
  <2>1. Awaited(n, p)'
    BY <1>1, <1>5 DEF RowsStay
  <2>2. ~Holds(t, p) /\ \A m \in 1 .. Len(turns) : Awaited(m, p) => m = n
    BY <1>1, <1>2, <1>5 DEF Sole
  <2>3. row'[p].status = "sending" /\ row'[p].begun /\ Head(queue') = p
    BY <1>1, <1>3, <2>2 DEF RowsStay
  <2> QED BY <2>1, <2>3 DEF QueuedOK
<1>6. CASE ~Awaited(n, p)
  <2>1. PICK d \in Dispatcher : task[d].prompt = p /\ task[d].turn = n /\ task[d].pc \in PostWrite
    BY <1>6 DEF QueuedOK
  <2>2. Holds(d, p) /\ d \in Task
    BY <1>4, <2>1 DEF Holds
  <2>3. (Holds(t, p) => t = d) /\ \A m \in 1 .. Len(turns) : ~Awaited(m, p)
    BY <1>2, <2>2 DEF Sole
  <2>4. row'[p].status = "sending" /\ row'[p].begun /\ Head(queue') = p
    BY <1>1, <1>3, <2>1, <2>3 DEF RowsStay
  <2>5. Awaited(n, p)' \/ (task'[d].prompt = p /\ task'[d].turn = n /\ task'[d].pc \in PostWrite)
    BY <2>1, <2>2
  <2> QED BY <2>1, <2>4, <2>5 DEF QueuedOK
<1> QED BY <1>5, <1>6

(* The first turn is at work, and nobody else is.  *)
LEMMA FirstKept ==
    ASSUME AgyInv, SepInv, Calm, NEW t \in Task, \A u \in Task : u # t => task'[u] = task[u],
           NEW k \in 1 .. Len(turns), FirstOK(k),
           t \in Dispatcher =>
              \/ task[t].pc \notin {"idle", "runtime"}
              \/ /\ binding' = binding
                 /\ task'[t] = task[t] \/ task'[t].pc = "idle" \/ (task'[t].pc = "runtime" /\ task'[t].conv = binding),
           t = Creator =>
              /\ binding' = binding
              /\ binding = None /\ task[t].pc \in FirstSpots /\ task[t].turn = k =>
                    task'[t].pc \in FirstSpots /\ task'[t].turn = k
    PROVE  FirstOK(k)'
<1>1. SuperOK /\ ConvsOK /\ Dispatcher \subseteq Task /\ Creator \in Task
  BY Places DEF AgyInv, SepInv
<1>2. t \in Dispatcher => task[t].pc \in {"idle", "runtime"}
  BY DEF FirstOK, SepInv
<1>3. binding' = binding
  BY <1>2 DEF Task
<1>4. CASE binding = None
  BY <1>1, <1>3, <1>4 DEF FirstOK, FirstSpots
<1>5. CASE binding # None
  <2>1. turns[k].conv = binding
    BY <1>5 DEF FirstOK
  <2>2. turns'[k].conv = binding
    BY <1>1, <1>5, <2>1, CalmConvs
  <2>3. ASSUME NEW d \in Dispatcher PROVE task'[d].pc = "idle" \/ (task'[d].pc = "runtime" /\ task'[d].conv = binding)
    <3>1. task[d].pc = "idle" \/ (task[d].pc = "runtime" /\ task[d].conv = binding)
      BY <1>5, <2>3 DEF FirstOK
    <3> QED BY <1>1, <1>2, <2>3, <3>1
  <2> QED BY <1>3, <1>5, <2>2, <2>3 DEF FirstOK
<1> QED BY <1>4, <1>5

(* The process works on the turn, and nobody stops it. *)
WorksOn(k, n) == Busily(k) /\ sess[k].turn = n

(* A busy process stays in order while task t moves. *)
LEMMA BusyKept ==
    ASSUME AgyInv, SepInv, Calm, NEW t \in Task, \A u \in Task : u # t => task'[u] = task[u], RowsStay(t),
           NEW n, n = task[t].turn, NEW h, task[t].pc \in PostWrite \cup FirstSpots => h = turns[n].host,
           t \in Dispatcher =>
              \/ task[t].pc \notin {"idle", "runtime"}
              \/ \A k \in DOMAIN sess : Busily(k) => ~FirstOK(k)
              \/ /\ binding' = binding
                 /\ task'[t] = task[t] \/ task'[t].pc = "idle" \/ (task'[t].pc = "runtime" /\ task'[t].conv = binding),
           t = Creator =>
              /\ binding' = binding
              /\ task[t].pc \in FirstSpots => (task'[t].pc \in FirstSpots /\ task'[t].turn = n) \/ ~WorksOn(h, n)',
           t \in Dispatcher /\ task[t].pc \in PostWrite =>
              \/ task'[t].pc \in PostWrite /\ task'[t].turn = n /\ task'[t].prompt = task[t].prompt
              \/ \E p \in Prompt : p = task[t].prompt /\ Awaited(n, p)'
              \/ ~WorksOn(h, n)'
    PROVE  \A k \in DOMAIN sess' : BusyOK(k)'
<1>1. SUFFICES ASSUME NEW k \in DOMAIN sess' PROVE BusyOK(k)'
  OBVIOUS
<1>2. k \in DOMAIN sess /\ BusyOK(k) /\ SuperOK /\ ConvsOK /\ TurnOK(t)
  BY <1>1 DEF Calm, SepInv, AgyInv
<1>3. k \in 1 .. Len(turns)
  BY <1>2 DEF SuperOK
<1>4. PICK m : m = sess[k].turn
  OBVIOUS
<1>5. PICK p : p = turns[m].prompt
  OBVIOUS
<1>6. Busily(k) => m # 0 /\ m \in 1 .. Len(turns) /\ turns[m].host = k
  BY <1>2, <1>4 DEF Busily, SuperOK
<1>7. Busily(k)' => sess'[k].turn = m
  BY <1>2, <1>4, CalmSeen DEF Busily
<1>8. ASSUME Busily(k), Busily(k)', turns[m].first, FirstOK(k) PROVE FirstOK(k)'
  <2>1. m = k
    BY <1>2, <1>6, <1>8 DEF ConvsOK
  <2>2. ASSUME t = Creator, task[t].pc \in FirstSpots, task[t].turn = k
        PROVE  task'[t].pc \in FirstSpots /\ task'[t].turn = k
    <3>1. h = k /\ n = k
      BY <1>6, <1>8, <2>1, <2>2
    <3>2. WorksOn(k, k)'
      BY <1>8, <1>7, <2>1 DEF WorksOn
    <3> QED BY <2>2, <3>1, <3>2
  <2>3. ~\A j \in DOMAIN sess : Busily(j) => ~FirstOK(j)
    BY <1>2, <1>8
  <2> QED BY <1>3, <1>8, <2>2, <2>3, FirstKept
<1>9. ASSUME Busily(k), Busily(k)', ~turns[m].first, QueuedOK(m, p) PROVE QueuedOK(m, p)'
  <2>1. ASSUME t \in Dispatcher, task[t].pc \in PostWrite, task[t].turn = m
        PROVE  \/ task'[t].pc \in PostWrite /\ task'[t].turn = m /\ task'[t].prompt = task[t].prompt
               \/ Awaited(m, p)'
    <3>1. h = k /\ n = m
      BY <1>6, <1>9, <2>1
    <3>2. task[t].prompt = p
      <4>1. task[t].pc \in HasTurn
        BY <2>1 DEF PostWrite, HasTurn
      <4> QED BY <1>2, <1>5, <2>1, <4>1 DEF TurnOK
    <3>3. WorksOn(k, m)'
      BY <1>9, <1>7 DEF WorksOn
    <3> QED BY <2>1, <3>1, <3>2, <3>3
  <2> QED BY <1>2, <1>4, <1>5, <1>6, <1>9, <2>1, QueuedKept
<1> QED BY <1>2, <1>4, <1>5, <1>8, <1>9, BusyFrom

(* A step in which nobody gets a turn, and only task t moves. *)
LEMMA SepCalm ==
    ASSUME AgyInv, SepInv, Calm, NEW t \in Task, \A u \in Task : u # t => task'[u] = task[u],
           SpotOK(t)', task'[t].conv \in {None, binding, task[t].conv},
           HeadsStay, t \in Dispatcher => HeadOK(t)',
           \A u \in Task : u # t /\ activation = u => activation' = u, activation' # Creator,
           \/ binding' = binding
           \/ /\ binding' \in Int /\ binding' <= Len(turns)
              /\ \A u \in Task : u # t /\ task[u].pc = "write" /\ Unnamed(task[u].turn) => binding' # task[u].turn
              /\ binding = None => t = Creator,
           binding = None /\ t \in Dispatcher => task'[t].pc = "idle",
           \A k \in DOMAIN sess' : BusyOK(k)'
    PROVE  SepInv'
<1>1. SuperOK /\ ConvsOK /\ Len(turns') = Len(turns) /\ Creator \in Task /\ Dispatcher \subseteq Task
  BY Places DEF AgyInv, SepInv, Calm
<1>2. binding' = None => binding = None
  BY NoneAssumption
<1>3. ConvsOK'
  <2>1. Named(binding)'
    BY <1>1 DEF ConvsOK, Named
  <2>2. \A u \in Task : Named(task'[u].conv)
    BY <1>1 DEF ConvsOK, Named
  <2>3. \A n \in 1 .. Len(turns) :
          /\ turns'[n].conv # None => turns'[n].conv <= Len(turns)
          /\ turns'[n].first => turns'[n].host = n /\ turns'[n].conv \in {None, n}
          /\ turns'[n].init = "ok" => turns'[n].conv # None
    BY <1>1, CalmConvs DEF Named
  <2>4. \A u \in Task : task'[u].conv # None => task'[u].conv <= Len(turns)
    BY <1>1 DEF ConvsOK, Named
  <2> QED BY <1>1, <2>1, <2>3, <2>4 DEF ConvsOK, Named
<1>4. \A k \in 1 .. Len(turns') : ProcessOK(k)' /\ GraceOK(k)'
  BY <1>1, CalmProcess, CalmGrace DEF SepInv
<1>5. ASSUME NEW u \in Task PROVE SpotOK(u)'
  <2>1. CASE u = t
    BY <2>1
  <2>2. CASE u # t
    <3>1. task'[u] = task[u] /\ (activation = u => activation' = u) /\ (u = Creator /\ binding = None => binding' = None)
      BY <1>1, <2>2
    <3>2. ASSUME task[u].pc = "write", NEW k \in 1 .. Len(turns), k = task[u].turn, Unnamed(k) PROVE Unnamed(k)'
      <4>1. binding' # k
        BY <2>2, <3>2 DEF Unnamed
      <4> QED BY <1>1, <3>2, <4>1, StaysUnnamed
    <3> QED BY <3>1, <3>2, CalmSpot
  <2> QED BY <2>1, <2>2
<1>6. \A d \in Dispatcher : HeadOK(d)'
  <2>1. \A d \in Dispatcher : d # t => HeadOK(d)'
    BY <1>1, HeadKept DEF SepInv
  <2> QED BY <2>1
<1>7. \A j, k \in DOMAIN sess' : Busily(j)' /\ Busily(k)' => j = k
  <2>1. \A k : Busily(k)' => Busily(k) /\ k \in DOMAIN sess
    BY <1>1, CalmSeen DEF Busily
  <2> QED BY <2>1 DEF SepInv
<1>8. binding' = None => (\A d \in Dispatcher : task'[d].pc = "idle") /\ \A n \in 1 .. Len(turns') : turns'[n].first
  BY <1>1, <1>2 DEF SepInv, Calm
<1> QED BY <1>3, <1>4, <1>5, <1>6, <1>7, <1>8 DEF SepInv

(* A step in which no task moves. *)
LEMMA SepRests ==
    ASSUME AgyInv, SepInv, Calm, UNCHANGED <<binding, task, activation>>, RowsStay(Creator), HeadsStay
    PROVE  SepInv'
<1>1. Creator \in Task /\ Creator \notin Dispatcher /\ SuperOK
  BY Places DEF AgyInv
<1>2. SpotOK(Creator)'
  <2>1. ASSUME task[Creator].pc = "write", NEW k \in 1 .. Len(turns), k = task[Creator].turn, Unnamed(k) PROVE Unnamed(k)'
    <3>1. binding' # k
      BY <2>1 DEF Unnamed
    <3> QED BY <1>1, <2>1, <3>1, StaysUnnamed
  <2> QED BY <1>1, <2>1, CalmSpot
<1>3. \A k \in DOMAIN sess' : BusyOK(k)'
  <2>1. PICK n : n = task[Creator].turn
    OBVIOUS
  <2>2. PICK h : h = turns[n].host
    OBVIOUS
  <2> QED BY <1>1, <2>1, <2>2, BusyKept
<1>4. activation' # Creator
  BY DEF SepInv, ConvsOK
<1> QED BY <1>1, <1>2, <1>3, <1>4, SepCalm

(* The supervisor's own steps keep the turns apart. *)
LEMMA SepNews ==
    ASSUME AgyInv, SepInv, Calm, SameFinals, UNCHANGED <<queue, row, queuings, binding, task, activation>>
    PROVE  SepInv'
<1>1. RowsStay(Creator)
  BY SameRows DEF AgyInv, Calm, SameFinals
<1>2. HeadsStay
  BY SameHeads
<1> QED BY <1>1, <1>2, SepRests

(* A process whose exit is being handled is gone. *)
LEMMA ExitGone ==
    ASSUME SuperOK, SepInv, NEW k \in 1 .. Len(turns), turns[k].exit \notin {"wait", "lost"}
    PROVE  k \notin DOMAIN work
BY DEF SepInv, ProcessOK

(* The supervisor, its processes and its timers give no turn to anybody. *)
LEMMA SupervisorSep ==
    ASSUME AgyInv, SepInv, NEW k,
           \/ Stop(k) \/ GraceStep(k) \/ Inits(k) \/ Results(k, "success") \/ Results(k, "error")
           \/ ProcessFails(k) \/ SessionStep(k)
    PROVE  SepInv'
<1>1. SuperOK /\ \A j \in 1 .. Len(turns) : ProcessOK(j)
  BY DEF AgyInv, SepInv
<1>2. CASE Stop(k)
  BY <1>1, <1>2, StopCalm, SepNews DEF Stop, store
<1>3. CASE GraceLooks(k) \/ GraceKills(k)
  BY <1>1, <1>3, GraceLooksCalm, GraceKillsCalm, SepNews DEF GraceLooks, GraceKills, store
<1>4. CASE Inits(k)
  BY <1>1, <1>4, InitsCalm, SepNews DEF Inits, store
<1>5. CASE Results(k, "success") \/ Results(k, "error")
  BY <1>1, <1>5, ResultsCalm, SepNews DEF Results, store
<1>6. CASE ReadFails(k, "kill") \/ ReadFails(k, "gone")
  BY <1>1, <1>6, ReadFailsCalm, SepNews DEF ReadFails, store
<1>7. CASE ProcessEnds(k)
  BY <1>1, <1>7, ProcessEndsCalm, SepNews DEF ProcessEnds, store
<1>8. CASE ReaderKills(k)
  BY <1>1, <1>8, ReaderKillsCalm, SepNews DEF ReaderKills, store
<1>9. CASE ExitLooks(k)
  BY <1>1, <1>9, ExitLooksCalm, SepNews DEF ExitLooks, store
<1>10. CASE ExitEnds(k)
  <2>1. k \notin DOMAIN work
    BY <1>1, <1>10, TurnsDomain, ExitGone DEF ExitEnds
  <2> QED BY <1>1, <1>10, <2>1, ExitEndsCalm, SepNews DEF ExitEnds, store
<1>11. CASE ExitRemoves(k)
  <2>1. k \notin DOMAIN work
    BY <1>1, <1>11, TurnsDomain, ExitGone DEF ExitRemoves
  <2> QED BY <1>1, <1>11, <2>1, ExitRemovesCalm, SepNews DEF ExitRemoves, store
<1> QED BY <1>2, <1>3, <1>4, <1>5, <1>6, <1>7, <1>8, <1>9, <1>10, <1>11 DEF GraceStep, ProcessFails, SessionStep

(* A finalizer begins or ends. *)
LEMMA FinalCalm ==
    ASSUME SuperOK, NEW n \in 1 .. Len(turns), NEW final \in {"none", "wait", "done", "lost"},
           turns' = [turns EXCEPT ![n].final = final], UNCHANGED <<sess, work>>
    PROVE  /\ Calm /\ turns'[n].final = final
           /\ \A m \in 1 .. Len(turns) : m # n => turns'[m] = turns[m]
<1>1. turns[n] \in TurnType /\ turns \in Seq(TurnType)
  BY TurnIsTyped DEF SuperOK
<1>2. PICK new : new = [turns[n] EXCEPT !.final = final]
  OBVIOUS
<1>3. /\ new \in TurnType /\ new.prompt = turns[n].prompt /\ new.host = turns[n].host /\ new.first = turns[n].first
      /\ new.reader = turns[n].reader /\ new.conv = turns[n].conv /\ new.init = turns[n].init /\ new.exit = turns[n].exit
      /\ new.grace = turns[n].grace /\ new.final = final
  BY <1>1, <1>2 DEF TurnType
<1>4. Len(turns') = Len(turns) /\ turns'[n] = new /\ \A m \in 1 .. Len(turns) : m # n => turns'[m] = turns[m]
  <2>1. turns' = [turns EXCEPT ![n] = new]
    BY <1>2
  <2> QED BY <1>1, <1>3, <2>1, ChangedSeq
<1>5. ASSUME NEW m \in 1 .. Len(turns)
      PROVE  /\ turns'[m].prompt = turns[m].prompt /\ turns'[m].host = turns[m].host /\ turns'[m].first = turns[m].first
             /\ turns'[m].reader = turns[m].reader /\ turns'[m].conv = turns[m].conv /\ turns'[m].init = turns[m].init
             /\ turns'[m].exit = turns[m].exit /\ turns'[m].grace = turns[m].grace
  <2>1. CASE m = n
    BY <1>3, <1>4, <2>1
  <2>2. CASE m # n
    BY <1>4, <2>2
  <2> QED BY <2>1, <2>2
<1>6. \A j \in DOMAIN sess \cup DOMAIN work : j \in 1 .. Len(turns)
  BY DEF SuperOK
<1>7. Calm
  BY <1>4, <1>5, <1>6 DEF Calm, Evolves, SessFades
<1> QED BY <1>3, <1>4, <1>7

(* The rows in delivery stay, when the head of the queue does. *)
LEMMA RowsKept ==
    ASSUME AgyInv, HeadsStay, Calm, SameFinals, NEW t,
           \A p \in Prompt : row[p].status = "sending" /\ row[p].begun =>
              \/ row'[p].status = "sending" /\ row'[p].begun
              \/ t \in Task /\ Holds(t, p) /\ task[t].pc \notin PostWrite
    PROVE  RowsStay(t)
<1>1. \A p \in Prompt : row[p].status # "none" => queuings[p] > 0
  BY DEF AgyInv, PromptOK
<1>2. \A n \in 1 .. Len(turns), p \in Prompt : Awaited(n, p) => Awaited(n, p)'
  BY DEF Awaited, Calm, SameFinals
<1>3. \A p \in Prompt : row[p].status = "sending" /\ row[p].begun =>
          \/ row'[p].status = "sending" /\ row'[p].begun /\ (Head(queue) = p => Head(queue') = p)
          \/ t \in Task /\ Holds(t, p) /\ task[t].pc \notin PostWrite
  BY <1>1 DEF HeadsStay
<1> QED BY <1>2, <1>3 DEF RowsStay

(* A prompt is sent to the conversation. *)
LEMMA SendSep == ASSUME AgyInv, SepInv, NEW p \in Prompt, Send(p) PROVE SepInv'
<1>1. queuings[p] = 0 /\ queue' = Append(queue, p) /\ UNCHANGED <<binding, task, activation, turns, sess, work>>
  BY DEF Send
<1>2. \A q \in Prompt \ {p} : row'[q] = row[q] /\ queuings'[q] = queuings[q]
  BY DEF Send, AgyInv, PlainOK
<1>3. row[p].status = "none"
  BY <1>1, NoneAwaitedNotYet
<1>4. SuperOK /\ QueueOK(queue, row)
  BY DEF AgyInv
<1>5. Calm /\ SameFinals
  BY <1>1, <1>4, StillCalm DEF super
<1>6. HeadsStay
  BY <1>1, <1>2, <1>4, AppendHeads
<1>7. RowsStay(Creator)
  BY <1>2, <1>3, <1>5, <1>6, RowsKept
<1> QED BY <1>1, <1>5, <1>6, <1>7, SepRests

(* A failed prompt is sent again. *)
LEMMA RetrySep == ASSUME AgyInv, SepInv, NEW p \in Prompt, Retry(p) PROVE SepInv'
<1>1. row[p].status = "failed" /\ UNCHANGED <<queue, binding, task, activation, turns, sess, work>>
  BY DEF Retry
<1>2. \A q \in Prompt \ {p} : row'[q] = row[q] /\ queuings'[q] = queuings[q]
  BY DEF Retry, AgyInv, PlainOK
<1>3. queuings'[p] = queuings[p] + 1 /\ queuings[p] \in Nat
  BY DEF Retry, AgyInv, PlainOK
<1>4. SuperOK
  BY DEF AgyInv
<1>5. Calm /\ SameFinals
  BY <1>1, <1>4, StillCalm DEF super
<1>6. HeadsStay
  BY <1>1, <1>2, <1>3, SameHeads
<1>7. RowsStay(Creator)
  BY <1>1, <1>2, <1>5, <1>6, RowsKept
<1> QED BY <1>1, <1>5, <1>6, <1>7, SepRests

(* A prompt is removed before its delivery begins. *)
LEMMA RemoveRowSep == ASSUME AgyInv, SepInv, NEW p \in Prompt, RemoveRow(p) PROVE SepInv'
<1>1. CanRemove(p) /\ Deleted(p) /\ UNCHANGED <<queuings, binding, task, activation, turns, sess, work>>
  BY DEF RemoveRow
<1>2. SuperOK /\ PlainOK /\ QueueOK(queue, row) /\ row[p].status # "none"
  BY <1>1 DEF AgyInv, CanRemove
<1>3. \A q \in Prompt \ {p} : row'[q] = row[q]
  BY <1>1, <1>2, DeletedRow
<1>4. Calm /\ SameFinals
  BY <1>1, <1>2, StillCalm DEF super
<1>5. HeadsStay
  BY <1>1, <1>2, DeletedHeads
<1>6. RowsStay(Creator)
  BY <1>1, <1>3, <1>4, <1>5, RowsKept DEF CanRemove
<1> QED BY <1>1, <1>4, <1>5, <1>6, SepRests

(* The finalizer ends the row of a turn that is over. *)
LEMMA FinalizeSep == ASSUME AgyInv, SepInv, NEW n, Finalize(n) PROVE SepInv'
<1>1. /\ n \in 1 .. Len(turns) /\ SuperOK /\ PlainOK /\ QueueOK(queue, row)
      /\ turns[n].final = "wait" /\ turns[n].outcome # "none"
      /\ UNCHANGED <<queuings, binding, task, activation>>
  BY TurnsDomain DEF Finalize, AgyInv
<1>2. Calm /\ \A m \in 1 .. Len(turns) : m # n => turns'[m] = turns[m]
  BY <1>1, FinalCalm DEF Finalize
<1>3. PICK p \in Prompt : p = turns[n].prompt
  BY <1>1, TurnIsTyped DEF TurnType
<1>4. Awaited(n, p)
  BY <1>1, <1>3 DEF Awaited
<1>5. \/ row[p].status # "none" /\ Deleted(p)
      \/ UNCHANGED <<queue, row>>
      \/ UNCHANGED queue /\ FailedRow(p)
  BY <1>3 DEF Finalize, Finalized
<1>6. (\A q \in Prompt \ {p} : row'[q] = row[q]) /\ HeadsStay
  <2>1. CASE row[p].status # "none" /\ Deleted(p)
    BY <1>1, <2>1, DeletedRow, DeletedHeads
  <2>2. CASE UNCHANGED <<queue, row>>
    BY <1>1, <2>2, SameHeads
  <2>3. CASE UNCHANGED queue /\ FailedRow(p)
    <3>1. \A q \in Prompt \ {p} : row'[q] = row[q]
      BY <1>1, <2>3 DEF FailedRow, PlainOK
    <3>2. row'[p].status # "none" => row[p].status # "none"
      BY <2>3 DEF FailedRow
    <3> QED BY <1>1, <2>3, <3>1, <3>2, SameHeads
  <2> QED BY <1>5, <2>1, <2>2, <2>3
<1>7. RowsStay(Creator)
  <2>1. \A q \in Prompt : row[q].status = "sending" /\ row[q].begun =>
          \/ row'[q].status = "sending" /\ row'[q].begun /\ (Head(queue) = q => Head(queue') = q)
          \/ \E m \in 1 .. Len(turns) : Awaited(m, q) /\ turns[m].outcome # "none"
    <3>1. SUFFICES ASSUME NEW q \in Prompt, row[q].status = "sending", row[q].begun, q # p
                   PROVE  row'[q].status = "sending" /\ row'[q].begun /\ (Head(queue) = q => Head(queue') = q)
      BY <1>1, <1>4
    <3>2. queuings[q] > 0 /\ row'[q] = row[q]
      BY <1>6, <3>1 DEF AgyInv, PromptOK
    <3> QED BY <1>6, <3>1, <3>2 DEF HeadsStay
  <2>2. \A m \in 1 .. Len(turns), q \in Prompt : Awaited(m, q) => Awaited(m, q)' \/ turns[m].outcome # "none"
    BY <1>1, <1>2 DEF Awaited, Calm
  <2> QED BY <2>1, <2>2 DEF RowsStay
<1> QED BY <1>1, <1>2, <1>6, <1>7, SepRests

(* Whether t stays with a turn that is at work. *)
WorkSpots(t) == IF t = Creator THEN FirstSpots ELSE PostWrite

(* A step in which only task t moves, and the binding stays. *)
LEMMA SepTask ==
    ASSUME AgyInv, SepInv, Calm, NEW t \in Task, Moves(t), RowsStay(t), HeadsStay, UNCHANGED binding,
           SpotOK(t)', task'[t].conv \in {None, binding, task[t].conv}, t \in Dispatcher => HeadOK(t)',
           \/ activation' \in {activation, Released(t)}
           \/ activation = None /\ activation' = t /\ t \in Dispatcher,
           NEW n, n = task[t].turn, NEW h, task[t].pc \in PostWrite \cup FirstSpots => h = turns[n].host,
           t \in Dispatcher =>
              \/ task[t].pc \notin {"idle", "runtime"}
              \/ binding # None /\ \A k \in DOMAIN sess : Busily(k) => ~FirstOK(k)
              \/ task'[t].pc = "idle"
              \/ binding # None /\ task'[t].pc = "runtime" /\ task'[t].conv = binding,
           task[t].pc \in WorkSpots(t) =>
              \/ task'[t].pc \in WorkSpots(t) /\ task'[t].turn = n /\ task'[t].prompt = task[t].prompt
              \/ t # Creator /\ \E p \in Prompt : p = task[t].prompt /\ Awaited(n, p)'
              \/ ~WorksOn(h, n)'
    PROVE  SepInv'
<1>1. Creator \in Task /\ Creator \notin Dispatcher /\ Dispatcher \subseteq Task
  BY Places
<1>2. \A u \in Task : u # t => task'[u] = task[u]
  BY DEF Moves
<1>3. \A k \in DOMAIN sess' : BusyOK(k)'
  <2>1. t \in Dispatcher =>
           \/ task[t].pc \notin {"idle", "runtime"}
           \/ \A k \in DOMAIN sess : Busily(k) => ~FirstOK(k)
           \/ /\ binding' = binding
              /\ task'[t] = task[t] \/ task'[t].pc = "idle" \/ (task'[t].pc = "runtime" /\ task'[t].conv = binding)
    OBVIOUS
  <2>2. t = Creator =>
           /\ binding' = binding
           /\ task[t].pc \in FirstSpots => (task'[t].pc \in FirstSpots /\ task'[t].turn = n) \/ ~WorksOn(h, n)'
    BY DEF WorkSpots
  <2>3. t \in Dispatcher /\ task[t].pc \in PostWrite =>
           \/ task'[t].pc \in PostWrite /\ task'[t].turn = n /\ task'[t].prompt = task[t].prompt
           \/ \E p \in Prompt : p = task[t].prompt /\ Awaited(n, p)'
           \/ ~WorksOn(h, n)'
    BY <1>1 DEF WorkSpots
  <2> QED BY <1>2, <2>1, <2>2, <2>3, BusyKept
<1>4. (\A u \in Task : u # t /\ activation = u => activation' = u) /\ activation' # Creator
  <2>1. None \notin Task /\ None # Creator /\ activation # Creator
    BY NoneAssumption DEF Task, SepInv, ConvsOK
  <2>2. CASE activation' = activation
    BY <2>1, <2>2
  <2>3. CASE activation' = Released(t)
    BY <2>1, <2>3 DEF Released
  <2>4. CASE activation = None /\ activation' = t /\ t \in Dispatcher
    BY <1>1, <2>1, <2>4
  <2> QED BY <2>2, <2>3, <2>4
<1>5. binding = None /\ t \in Dispatcher => task'[t].pc = "idle"
  BY DEF SepInv
<1> QED BY <1>2, <1>3, <1>4, <1>5, SepCalm

(* A task goes on. *)
LEMMA SepGoto ==
    ASSUME AgyInv, SepInv, Calm, NEW t \in Task, NEW point \in Points, Goto(t, point), RowsStay(t), HeadsStay,
           UNCHANGED binding, SpotOK(t)',
           \/ activation' \in {activation, Released(t)}
           \/ activation = None /\ activation' = t /\ t \in Dispatcher,
           task[t].pc \notin {"idle", "runtime", "head"},
           NEW n, n = task[t].turn, NEW h, task[t].pc \in PostWrite \cup FirstSpots => h = turns[n].host,
           task[t].pc \in WorkSpots(t) => point \in WorkSpots(t) \/ ~WorksOn(h, n)'
    PROVE  SepInv'
<1>1. /\ Moves(t) /\ task'[t].pc = point /\ task'[t].prompt = task[t].prompt
      /\ task'[t].conv = task[t].conv /\ task'[t].turn = task[t].turn
  BY Went DEF AgyInv, PlainOK
<1>2. t \in Dispatcher => HeadOK(t)'
  BY <1>1, HeadKept DEF SepInv
<1> QED BY <1>1, <1>2, SepTask

(* A task leaves. *)
LEMMA SepLeave ==
    ASSUME AgyInv, SepInv, Calm, NEW t \in Task, Leave(t), RowsStay(t), HeadsStay, UNCHANGED binding,
           activation' \in {activation, Released(t)},
           NEW n, n = task[t].turn, NEW h, task[t].pc \in PostWrite \cup FirstSpots => h = turns[n].host,
           task[t].pc \in WorkSpots(t) =>
              \/ t # Creator /\ \E p \in Prompt : p = task[t].prompt /\ Awaited(n, p)'
              \/ ~WorksOn(h, n)'
    PROVE  SepInv'
<1>1. Moves(t) /\ task'[t] = Idle /\ task'[t].pc = "idle"
  BY Left DEF AgyInv, PlainOK
<1>2. task'[t].conv = None
  BY <1>1 DEF Idle
<1>3. SpotOK(t)'
  BY <1>1 DEF SpotOK, WithConv, BeforeBinding
<1>4. t \in Dispatcher => HeadOK(t)'
  BY <1>1 DEF HeadOK
<1> QED BY <1>1, <1>2, <1>3, <1>4, SepTask

(* Where a task needs nothing of the supervisor. *)
LEMMA EasySpot ==
    ASSUME SepInv, NEW t \in Task,
           task'[t].pc \notin {"write", "reuse", "flush", "init", "kill"} \cup WithConv,
           t = Creator /\ task'[t].pc \in BeforeBinding => task[t].pc \in BeforeBinding /\ binding' = binding,
           t # Creator /\ task'[t].pc # "idle" => task'[t].conv # None
    PROVE  SpotOK(t)'
<1>1. t = Creator /\ task'[t].pc \in BeforeBinding => binding' = None
  BY DEF SepInv, SpotOK
<1> QED BY <1>1 DEF SpotOK

(* The queue and its rows stay. *)
LEMMA QuietRows ==
    ASSUME AgyInv, Calm, SameFinals, UNCHANGED <<queue, row, queuings>>, NEW t
    PROVE  RowsStay(t) /\ HeadsStay
<1>1. RowsStay(t)
  BY SameRows DEF AgyInv, Calm, SameFinals
<1>2. HeadsStay
  BY SameHeads
<1> QED BY <1>1, <1>2

(* A task goes on to a point that needs nothing of the supervisor. *)
LEMMA QuietGoto ==
    ASSUME AgyInv, SepInv, Calm, SameFinals, NEW t \in Task, NEW point \in Points, Goto(t, point),
           UNCHANGED <<queue, row, queuings, binding>>,
           \/ activation' \in {activation, Released(t)}
           \/ activation = None /\ activation' = t /\ t \in Dispatcher,
           task[t].pc \notin {"idle", "runtime", "head"},
           point \notin {"write", "reuse", "flush", "init", "kill"} \cup WithConv,
           t = Creator /\ point \in BeforeBinding => task[t].pc \in BeforeBinding,
           NEW n, n = task[t].turn, NEW h, task[t].pc \in PostWrite \cup FirstSpots => h = turns[n].host,
           task[t].pc \in WorkSpots(t) => point \in WorkSpots(t) \/ ~WorksOn(h, n)'
    PROVE  SepInv'
<1>1. Moves(t) /\ task'[t].pc = point /\ task'[t].conv = task[t].conv
  BY Went DEF AgyInv, PlainOK
<1>2. t # Creator => task'[t].conv # None
  BY <1>1 DEF SepInv, SpotOK
<1>3. SpotOK(t)'
  BY <1>1, <1>2, EasySpot
<1>4. RowsStay(t) /\ HeadsStay
  BY QuietRows
<1> QED BY <1>3, <1>4, SepGoto

(* A start that fails leaves no turn at work. *)
LEMMA SepStartFails ==
    ASSUME AgyInv, SepInv, Calm, SameFinals, NEW t \in Task, StartFails(t),
           UNCHANGED <<queue, row, queuings, binding>>, activation' \in {activation, Released(t)},
           task[t].pc \in {"find", "spawn", "write", "reuse", "flush", "init", "kill"},
           NEW n, n = task[t].turn, NEW h, task[t].pc \in {"flush", "init", "kill"} => h = turns[n].host /\ ~WorksOn(h, n)'
    PROVE  SepInv'
<1>1. task[t].pc \in PostWrite \cup FirstSpots => task[t].pc \in {"flush", "init", "kill"}
  BY DEF PostWrite, FirstSpots
<1>2. task[t].pc \in WorkSpots(t) => task[t].pc \in {"flush", "init", "kill"}
  BY DEF WorkSpots, PostWrite, FirstSpots
<1>3. RowsStay(t) /\ HeadsStay
  BY QuietRows
<1>4. CASE t = Creator
  <2>1. Leave(t)
    BY <1>4 DEF StartFails
  <2> QED BY <1>1, <1>2, <1>3, <2>1, SepLeave
<1>5. CASE t # Creator
  <2>1. Goto(t, "fail")
    BY <1>5 DEF StartFails
  <2>2. "fail" \in Points /\ "fail" \notin {"write", "reuse", "flush", "init", "kill"} \cup WithConv
    BY DEF Points, WithConv
  <2> QED BY <1>1, <1>2, <1>5, <2>1, <2>2, QuietGoto
<1> QED BY <1>4, <1>5

(* The thread's runtime and the head of the queue are read. *)
LEMMA RouteSep == ASSUME AgyInv, SepInv, NEW d \in Dispatcher, Route(d) PROVE SepInv'
<1>1. PICK point \in {"recheck", "fail"} : Goto(d, point)
  BY DEF Route
<1>2. d \in Task /\ task[d].pc = "route" /\ point \in Points /\ d # Creator
  BY Places, <1>1 DEF Route, At, Points
<1>3. Calm /\ SameFinals
  BY StillCalm DEF Route, AgyInv
<1>4. point \notin {"write", "reuse", "flush", "init", "kill"} \cup WithConv
  BY DEF WithConv
<1>5. "route" \notin PostWrite \cup FirstSpots
  BY DEF PostWrite, FirstSpots
<1>6. "route" \notin WorkSpots(d)
  BY <1>5 DEF WorkSpots
<1> QED BY <1>1, <1>2, <1>3, <1>4, <1>5, <1>6, QuietGoto DEF Route, store

(* The runtime is looked at again. *)
LEMMA RecheckSep == ASSUME AgyInv, SepInv, NEW d \in Dispatcher, Recheck(d) PROVE SepInv'
<1>1. PICK point \in {"fail", "discard", "begin"} : Goto(d, point)
  BY DEF Recheck
<1>2. d \in Task /\ task[d].pc = "recheck" /\ point \in Points /\ d # Creator
  BY Places, <1>1 DEF Recheck, At, Points
<1>3. Calm /\ SameFinals
  BY StillCalm DEF Recheck, AgyInv
<1>4. point \notin {"write", "reuse", "flush", "init", "kill"} \cup WithConv
  BY DEF WithConv
<1>5. "recheck" \notin PostWrite \cup FirstSpots
  BY DEF PostWrite, FirstSpots
<1>6. "recheck" \notin WorkSpots(d)
  BY <1>5 DEF WorkSpots
<1> QED BY <1>1, <1>2, <1>3, <1>4, <1>5, <1>6, QuietGoto DEF Recheck, store

(* The sessions of the conversation are dropped before a new one starts. *)
LEMMA DiscardsSep ==
    ASSUME AgyInv, SepInv, NEW d \in Dispatcher, DiscardForFresh(d) \/ ReplaceSession(d) \/ CompactDrops(d)
    PROVE  SepInv'
<1>1. PICK point \in {"begin", "spawn", "compacted"} : Goto(d, point)
  BY DEF DiscardForFresh, ReplaceSession, CompactDrops
<1>2. d \in Task /\ task[d].pc \in {"discard", "replace", "drop"} /\ point \in Points /\ d # Creator
  BY Places, <1>1 DEF DiscardForFresh, ReplaceSession, CompactDrops, At, Points
<1>3. Calm /\ SameFinals
  <2>1. \E conv : Discarded(conv)
    BY DEF DiscardForFresh, ReplaceSession, CompactDrops
  <2> QED BY <2>1, DiscardedCalm DEF AgyInv
<1>4. point \notin {"write", "reuse", "flush", "init", "kill"} \cup WithConv
  BY DEF WithConv
<1>5. task[d].pc \notin PostWrite \cup FirstSpots
  BY <1>2 DEF PostWrite, FirstSpots
<1>6. task[d].pc \notin WorkSpots(d)
  BY <1>5 DEF WorkSpots
<1>7. UNCHANGED <<queue, row, queuings, binding, activation>>
  BY DEF DiscardForFresh, ReplaceSession, CompactDrops, store
<1> QED BY <1>1, <1>2, <1>3, <1>4, <1>5, <1>6, <1>7, QuietGoto

(* A dispatcher sets off with the thread's conversation. *)
LEMMA SetsOff ==
    ASSUME AgyInv, NEW d \in Dispatcher, NEW point \in {"runtime", "drop"}, binding # None,
           task' = [task EXCEPT ![d] = [Idle EXCEPT !.pc = point, !.conv = binding]]
    PROVE  Moves(d) /\ task'[d].pc = point /\ task'[d].prompt = None /\ task'[d].conv = binding
<1>1. d \in Task /\ task \in [Task -> TaskType] /\ binding \in Int \cup {None}
  BY Places DEF AgyInv, PlainOK
<1>2. PICK new : new = [Idle EXCEPT !.pc = point, !.conv = binding]
  OBVIOUS
<1>3. new \in TaskType /\ new.pc = point /\ new.prompt = None /\ new.conv = binding
  <2>1. point \in Points
    BY DEF Points
  <2>2. Idle \in TaskType /\ Idle.prompt = None
    BY AgyAssumption DEF Idle, TaskType, Points
  <2> QED BY <1>1, <1>2, <2>1, <2>2 DEF TaskType
<1>4. task' = [task EXCEPT ![d] = new]
  BY <1>2
<1> QED BY <1>1, <1>3, <1>4, Moved

(* A dispatcher is spawned. *)
LEMMA SpawnedSep == ASSUME AgyInv, SepInv, NEW d \in Dispatcher, Spawned(d) PROVE SepInv'
<1>1. d \in Task /\ d # Creator /\ task[d].pc = "idle" /\ binding # None
  BY Places DEF Spawned, MayStart, At
<1>2. Moves(d) /\ task'[d].pc = "runtime" /\ task'[d].prompt = None /\ task'[d].conv = binding
  BY <1>1, SetsOff DEF Spawned
<1>3. Calm /\ SameFinals /\ UNCHANGED <<queue, row, queuings, binding, activation>>
  BY StillCalm DEF Spawned, AgyInv, store
<1>4. RowsStay(d) /\ HeadsStay
  BY <1>3, QuietRows
<1>5. SpotOK(d)'
  BY <1>1, <1>2, EasySpot DEF WithConv
<1>6. HeadOK(d)'
  BY <1>2 DEF HeadOK
<1>7. PICK n : n = task[d].turn
  OBVIOUS
<1>8. task[d].pc \notin PostWrite \cup FirstSpots /\ task[d].pc \notin WorkSpots(d)
  BY <1>1 DEF PostWrite, FirstSpots, WorkSpots
<1> QED BY <1>1, <1>2, <1>3, <1>4, <1>5, <1>6, <1>7, <1>8, SepTask

(* Nothing of the conversation is at work when the runtime is not busy. *)
LEMMA NothingAtWork ==
    ASSUME SepInv, NEW conv, ~Busy(conv), binding # None, binding = conv, NEW k \in DOMAIN sess, Busily(k)
    PROVE  ~FirstOK(k)
BY DEF Busily, Busy, Sessions, IsActive, FirstOK

(* The command to compact starts on an idle thread. *)
LEMMA CompactAskedSep == ASSUME AgyInv, SepInv, NEW d \in Dispatcher, CompactAsked(d) PROVE SepInv'
<1>1. d \in Task /\ d # Creator /\ task[d].pc = "idle" /\ binding # None /\ ~Busy(binding)
  BY Places DEF CompactAsked, MayStart, At
<1>2. Moves(d) /\ task'[d].pc = "drop" /\ task'[d].prompt = None /\ task'[d].conv = binding
  BY <1>1, SetsOff DEF CompactAsked
<1>3. Calm /\ SameFinals /\ UNCHANGED <<queue, row, queuings, binding, activation>>
  BY StillCalm DEF CompactAsked, AgyInv, store
<1>4. RowsStay(d) /\ HeadsStay
  BY <1>3, QuietRows
<1>5. SpotOK(d)'
  BY <1>1, <1>2, EasySpot DEF WithConv
<1>6. HeadOK(d)'
  BY <1>2, AgyAssumption DEF HeadOK
<1>7. PICK n : n = task[d].turn
  OBVIOUS
<1>8. task[d].pc \notin PostWrite \cup FirstSpots /\ task[d].pc \notin WorkSpots(d)
  BY <1>1 DEF PostWrite, FirstSpots, WorkSpots
<1>9. \A k \in DOMAIN sess : Busily(k) => ~FirstOK(k)
  BY <1>1, NothingAtWork
<1> QED BY <1>1, <1>2, <1>3, <1>4, <1>5, <1>6, <1>7, <1>8, <1>9, SepTask

(* A dispatcher goes on to the queue when nothing is at work. *)
LEMMA ReadRuntimeSep == ASSUME AgyInv, SepInv, NEW d \in Dispatcher, ReadRuntime(d) PROVE SepInv'
<1>1. d \in Task /\ d # Creator /\ task[d].pc = "runtime" /\ task[d].conv # None
  BY Places DEF ReadRuntime, At, SepInv, SpotOK
<1>2. Calm /\ SameFinals /\ UNCHANGED <<queue, row, queuings, binding, activation>>
  BY StillCalm DEF ReadRuntime, AgyInv, store
<1>3. RowsStay(d) /\ HeadsStay
  BY <1>2, QuietRows
<1>4. PICK n : n = task[d].turn
  OBVIOUS
<1>5. task[d].pc \notin PostWrite \cup FirstSpots /\ task[d].pc \notin WorkSpots(d)
  BY <1>1 DEF PostWrite, FirstSpots, WorkSpots
<1>6. CASE Leave(d)
  BY <1>1, <1>2, <1>3, <1>4, <1>5, <1>6, SepLeave
<1>7. CASE ~Busy(task[d].conv) /\ Goto(d, "head")
  <2>1. "head" \in Points
    BY DEF Points
  <2>2. Moves(d) /\ task'[d].pc = "head" /\ task'[d].conv = task[d].conv
    BY <1>1, <1>7, <2>1, Went DEF AgyInv, PlainOK
  <2>3. SpotOK(d)'
    BY <1>1, <2>2, EasySpot DEF WithConv
  <2>4. HeadOK(d)'
    BY <2>2 DEF HeadOK
  <2>5. binding # None
    BY <1>1 DEF SepInv
  <2>6. ASSUME NEW k \in DOMAIN sess, Busily(k) PROVE ~FirstOK(k)
    <3>1. FirstOK(k) => binding = task[d].conv
      BY <1>1, <2>5 DEF FirstOK
    <3> QED BY <1>7, <2>5, <2>6, <3>1, NothingAtWork
  <2> QED BY <1>1, <1>2, <1>3, <1>4, <1>5, <2>2, <2>3, <2>4, <2>5, <2>6, SepTask
<1> QED BY <1>6, <1>7 DEF ReadRuntime

(* The prompt a dispatcher reads is the head of the queue. *)
LEMMA ReadHeadSep == ASSUME AgyInv, SepInv, NEW d \in Dispatcher, ReadHead(d) PROVE SepInv'
<1>1. d \in Task /\ d # Creator /\ task[d].pc = "head" /\ task[d].conv # None
  BY Places DEF ReadHead, At, SepInv, SpotOK
<1>2. Calm /\ SameFinals /\ UNCHANGED <<queue, row, queuings, binding, activation>>
  BY StillCalm DEF ReadHead, AgyInv, store
<1>3. RowsStay(d) /\ HeadsStay
  BY <1>2, QuietRows
<1>4. PICK n : n = task[d].turn
  OBVIOUS
<1>5. task[d].pc \notin PostWrite \cup FirstSpots /\ task[d].pc \notin WorkSpots(d)
  BY <1>1 DEF PostWrite, FirstSpots, WorkSpots
<1>6. CASE Leave(d)
  BY <1>1, <1>2, <1>3, <1>4, <1>5, <1>6, SepLeave
<1>7. CASE ~Leave(d)
  <2>1. queue # <<>> /\ row[Head(queue)].status = "queued" /\ task' = [task EXCEPT ![d].pc = "claim", ![d].prompt = Head(queue)]
    BY <1>7 DEF ReadHead
  <2>2. PICK p \in Prompt : p = Head(queue)
    <3>1. queue \in Seq(Prompt)
      BY DEF AgyInv, QueueOK
    <3> QED BY <2>1, <3>1, HeadTailProperties
  <2>3. PICK new : new = [task[d] EXCEPT !.pc = "claim", !.prompt = p]
    OBVIOUS
  <2>4. task[d] \in TaskType /\ task \in [Task -> TaskType]
    BY <1>1 DEF AgyInv, PlainOK
  <2>5. new \in TaskType /\ new.pc = "claim" /\ new.prompt = p /\ new.conv = task[d].conv
    BY <2>2, <2>3, <2>4 DEF TaskType, Points
  <2>6. task' = [task EXCEPT ![d] = new]
    BY <1>1, <2>1, <2>2, <2>3, <2>4 DEF TaskType
  <2>7. Moves(d) /\ task'[d] = new
    BY <1>1, <2>4, <2>5, <2>6, Moved
  <2>8. SpotOK(d)'
    BY <1>1, <2>5, <2>7, EasySpot DEF WithConv
  <2>9. HeadOK(d)'
    <3>1. queuings[p] > 0
      BY <2>1, <2>2 DEF AgyInv, PromptOK
    <3> QED BY <1>2, <2>2, <2>5, <2>7, <3>1 DEF HeadOK
  <2> QED BY <1>1, <1>2, <1>3, <1>4, <1>5, <2>5, <2>7, <2>8, <2>9, SepTask
<1> QED BY <1>6, <1>7

(* A dispatcher claims the row it has read. *)
LEMMA ClaimSep == ASSUME AgyInv, SepInv, NEW d \in Dispatcher, Claim(d) PROVE SepInv'
<1>1. /\ d \in Task /\ d # Creator /\ task[d].pc = "claim" /\ PlainOK /\ SuperOK
      /\ UNCHANGED <<queue, queuings, binding, activation, turns, sess, work>>
  BY Places DEF Claim, At, AgyInv, super
<1>2. Calm /\ SameFinals
  BY <1>1, StillCalm DEF super
<1>3. PICK n : n = task[d].turn
  OBVIOUS
<1>4. task[d].pc \notin PostWrite \cup FirstSpots /\ task[d].pc \notin WorkSpots(d)
  BY <1>1 DEF PostWrite, FirstSpots, WorkSpots
<1>5. CASE Leave(d) /\ UNCHANGED row
  BY <1>1, <1>2, <1>3, <1>4, <1>5, QuietRows, SepLeave
<1>6. CASE ~(Leave(d) /\ UNCHANGED row)
  <2>1. PICK p \in Prompt : p = task[d].prompt
    BY <1>1 DEF AgyInv, PlaceOK, Prompted, Points
  <2>2. row[p].status = "queued" /\ row' = [row EXCEPT ![p].status = "sending", ![p].begun = FALSE]
    BY <1>6, <2>1 DEF Claim, CanClaim
  <2>3. \A q \in Prompt \ {p} : row'[q] = row[q]
    BY <1>1, <2>1, <2>2 DEF PlainOK
  <2>4. HeadsStay
    BY <1>1, <2>2, <2>3, SameHeads
  <2>5. RowsStay(d)
    BY <1>2, <2>2, <2>3, <2>4, RowsKept
  <2>6. PICK point \in {"drop", "route"} : Goto(d, point)
    BY <1>6 DEF Claim
  <2>7. point \in Points /\ point \notin {"write", "reuse", "flush", "init", "kill"} \cup WithConv
    BY DEF Points, WithConv
  <2>8. Moves(d) /\ task'[d].pc = point /\ task'[d].conv = task[d].conv
    BY <1>1, <2>6, <2>7, Went DEF PlainOK
  <2>9. task'[d].conv # None
    BY <1>1, <2>8 DEF SepInv, SpotOK
  <2>10. SpotOK(d)'
    BY <1>1, <2>7, <2>8, <2>9, EasySpot
  <2> QED BY <1>1, <1>2, <1>3, <1>4, <2>4, <2>5, <2>6, <2>7, <2>10, SepGoto
<1> QED BY <1>5, <1>6

(* A dispatcher marks its row as begun. *)
LEMMA BeginSep == ASSUME AgyInv, SepInv, NEW d \in Dispatcher, Begin(d) PROVE SepInv'
<1>1. /\ d \in Task /\ d # Creator /\ task[d].pc = "begin" /\ PlainOK /\ SuperOK
      /\ UNCHANGED <<queue, queuings, binding, activation, turns, sess, work>>
  BY Places DEF Begin, At, AgyInv, super
<1>2. Calm /\ SameFinals
  BY <1>1, StillCalm DEF super
<1>3. PICK n : n = task[d].turn
  OBVIOUS
<1>4. task[d].pc \notin PostWrite \cup FirstSpots /\ task[d].pc \notin WorkSpots(d)
  BY <1>1 DEF PostWrite, FirstSpots, WorkSpots
<1>5. CASE Leave(d) /\ UNCHANGED row
  BY <1>1, <1>2, <1>3, <1>4, <1>5, QuietRows, SepLeave
<1>6. CASE ~(Leave(d) /\ UNCHANGED row)
  <2>1. PICK p \in Prompt : p = task[d].prompt
    BY <1>1 DEF AgyInv, PlaceOK, Prompted, Points
  <2>2. row[p].status = "sending" /\ ~row[p].begun /\ row' = [row EXCEPT ![p].begun = TRUE]
    BY <1>6, <2>1 DEF Begin, CanBegin
  <2>3. (\A q \in Prompt \ {p} : row'[q] = row[q]) /\ row'[p].status = row[p].status
    <3>1. row[p] \in RowType
      BY <1>1 DEF PlainOK
    <3> QED BY <1>1, <2>1, <2>2, <3>1 DEF PlainOK, RowType
  <2>4. HeadsStay
    BY <1>1, <2>3, SameHeads
  <2>5. RowsStay(d)
    BY <1>2, <2>2, <2>3, <2>4, RowsKept
  <2>6. PICK point \in {"spawn", "find"} : Goto(d, point)
    BY <1>6 DEF Begin
  <2>7. point \in Points /\ point \notin {"write", "reuse", "flush", "init", "kill"} \cup WithConv
    BY DEF Points, WithConv
  <2>8. Moves(d) /\ task'[d].pc = point /\ task'[d].conv = task[d].conv
    BY <1>1, <2>6, <2>7, Went DEF PlainOK
  <2>9. task'[d].conv # None
    BY <1>1, <2>8 DEF SepInv, SpotOK
  <2>10. SpotOK(d)'
    BY <1>1, <2>7, <2>8, <2>9, EasySpot
  <2> QED BY <1>1, <1>2, <1>3, <1>4, <2>4, <2>5, <2>6, <2>7, <2>10, SepGoto
<1> QED BY <1>5, <1>6

(* A row fails: nobody works on it. *)
LEMMA FailRowSep == ASSUME AgyInv, SepInv, NEW t \in Task, FailRow(t) PROVE SepInv'
<1>1. /\ task[t].pc = "fail" /\ Leave(t) /\ PlainOK /\ SuperOK
      /\ UNCHANGED <<queue, queuings, binding, activation, turns, sess, work>>
  BY DEF FailRow, At, AgyInv, super
<1>2. Calm /\ SameFinals
  BY <1>1, StillCalm DEF super
<1>3. PICK n : n = task[t].turn
  OBVIOUS
<1>4. task[t].pc \notin PostWrite \cup FirstSpots /\ task[t].pc \notin WorkSpots(t)
  BY <1>1 DEF PostWrite, FirstSpots, WorkSpots
<1>5. PICK p \in Prompt : p = task[t].prompt
  BY <1>1 DEF AgyInv, PlaceOK, Prompted, Points
<1>6. FailedRow(p)
  BY <1>5 DEF FailRow
<1>7. (\A q \in Prompt \ {p} : row'[q] = row[q]) /\ (row'[p].status # "none" => row[p].status # "none")
  BY <1>1, <1>6 DEF FailedRow, PlainOK
<1>8. HeadsStay
  BY <1>1, <1>7, SameHeads
<1>9. RowsStay(t)
  <2>1. Holds(t, p) /\ task[t].pc \notin PostWrite
    BY <1>1, <1>5 DEF Holds, BeforeRow, PostWrite
  <2> QED BY <1>2, <1>7, <1>8, <2>1, RowsKept
<1> QED BY <1>1, <1>2, <1>3, <1>4, <1>8, <1>9, SepLeave

(* The first send begins. *)
LEMMA CreateSep == ASSUME AgyInv, SepInv, NEW p \in Prompt, Create(p) PROVE SepInv'
<1>1. /\ Creator \in Task /\ Creator \notin Dispatcher /\ task[Creator].pc = "idle" /\ binding = None
      /\ UNCHANGED <<queue, row, queuings, binding, activation>>
  BY Places DEF Create, At, store
<1>2. Calm /\ SameFinals
  BY StillCalm DEF Create, AgyInv
<1>3. PICK n : n = task[Creator].turn
  OBVIOUS
<1>4. task[Creator].pc \notin PostWrite \cup FirstSpots /\ task[Creator].pc \notin WorkSpots(Creator)
  BY <1>1 DEF PostWrite, FirstSpots, WorkSpots
<1>5. PICK new : new = [Idle EXCEPT !.pc = "create", !.prompt = p]
  OBVIOUS
<1>6. new \in TaskType /\ new.pc = "create" /\ new.conv = None
  <2>1. Idle \in TaskType /\ Idle.conv = None
    BY AgyAssumption DEF Idle, TaskType, Points
  <2> QED BY <1>5, <2>1 DEF TaskType, Points
<1>7. task' = [task EXCEPT ![Creator] = new] /\ task \in [Task -> TaskType]
  BY <1>5 DEF Create, AgyInv, PlainOK
<1>8. Moves(Creator) /\ task'[Creator] = new
  BY <1>1, <1>6, <1>7, Moved
<1>9. SpotOK(Creator)'
  BY <1>1, <1>6, <1>8 DEF SpotOK, WithConv
<1> QED BY <1>1, <1>2, <1>3, <1>4, <1>6, <1>8, <1>9, QuietRows, SepTask

(* The first send goes on to start its process, or gives up. *)
LEMMA CreateRoutesSep == ASSUME AgyInv, SepInv, CreateRoutes PROVE SepInv'
<1>1. /\ Creator \in Task /\ Creator \notin Dispatcher /\ task[Creator].pc = "create"
      /\ UNCHANGED <<queue, row, queuings, binding, activation>>
  BY Places DEF CreateRoutes, At, store
<1>2. Calm /\ SameFinals
  BY StillCalm DEF CreateRoutes, AgyInv
<1>3. PICK n : n = task[Creator].turn
  OBVIOUS
<1>4. task[Creator].pc \notin PostWrite \cup FirstSpots /\ task[Creator].pc \notin WorkSpots(Creator)
  BY <1>1 DEF PostWrite, FirstSpots, WorkSpots
<1>5. CASE Leave(Creator)
  BY <1>1, <1>2, <1>3, <1>4, <1>5, QuietRows, SepLeave
<1>6. CASE Goto(Creator, "spawn")
  <2>1. "spawn" \in Points /\ "spawn" \notin {"write", "reuse", "flush", "init", "kill"} \cup WithConv /\ task[Creator].pc \in BeforeBinding
    BY <1>1 DEF Points, WithConv, BeforeBinding
  <2> QED BY <1>1, <1>2, <1>3, <1>4, <1>6, <2>1, QuietGoto
<1> QED BY <1>5, <1>6 DEF CreateRoutes

(* A task takes a turn or a process. *)
Takes(t, point, k) == task' = [task EXCEPT ![t].pc = point, ![t].turn = k]

(* It goes on with it. *)
LEMMA TakesOn ==
    ASSUME AgyInv, NEW t \in Task, NEW point \in Points, NEW k \in 0 .. MaxTurns, Takes(t, point, k)
    PROVE  /\ Moves(t) /\ task'[t].pc = point /\ task'[t].prompt = task[t].prompt
           /\ task'[t].conv = task[t].conv /\ task'[t].turn = k
<1> USE DEF Takes
<1>1. task[t] \in TaskType /\ task \in [Task -> TaskType]
  BY DEF AgyInv, PlainOK
<1>2. PICK new : new = [task[t] EXCEPT !.pc = point, !.turn = k]
  OBVIOUS
<1>3. new \in TaskType /\ new.pc = point /\ new.prompt = task[t].prompt /\ new.conv = task[t].conv /\ new.turn = k
  BY <1>1, <1>2 DEF TaskType
<1>4. task' = [task EXCEPT ![t] = new]
  BY <1>1, <1>2 DEF TaskType
<1> QED BY <1>1, <1>3, <1>4, Moved

(* A start looks for a session of the conversation. *)
LEMMA FindSessionSep == ASSUME AgyInv, SepInv, NEW d \in Dispatcher, FindSession(d) PROVE SepInv'
<1>1. /\ d \in Task /\ d # Creator /\ task[d].pc = "find" /\ task[d].conv # None
      /\ activation = None /\ UNCHANGED <<queue, row, queuings, binding, turns, sess, work>>
  BY Places DEF FindSession, At, SepInv, SpotOK, store, super
<1>2. Calm /\ SameFinals /\ SuperOK
  BY <1>1, StillCalm DEF AgyInv, super
<1>3. PICK n : n = task[d].turn
  OBVIOUS
<1>4. task[d].pc \notin PostWrite \cup FirstSpots /\ task[d].pc \notin WorkSpots(d)
  BY <1>1 DEF PostWrite, FirstSpots, WorkSpots
<1>5. CASE StartFails(d) /\ UNCHANGED activation
  BY <1>1, <1>2, <1>3, <1>5, SepStartFails
<1>6. CASE activation' = d /\ \E point \in {"spawn", "replace"} : Goto(d, point)
  <2>1. PICK point \in {"spawn", "replace"} : Goto(d, point)
    BY <1>6
  <2>2. point \in Points /\ point \notin {"write", "reuse", "flush", "init", "kill"} \cup WithConv
    BY DEF Points, WithConv
  <2> QED BY <1>1, <1>2, <1>3, <1>4, <1>6, <2>1, <2>2, QuietGoto
<1>7. ASSUME activation' = d, NEW k \in Sessions(task[d].conv), Reusable(k),
             task' = [task EXCEPT ![d].pc = "reuse", ![d].turn = k]
      PROVE  SepInv'
  <2>1. k \in DOMAIN sess /\ k \in 1 .. Len(turns) /\ turns[k].conv = task[d].conv /\ sess[k].phase = "idle"
    BY <1>2, <1>7 DEF Sessions, SuperOK, Reusable
  <2>2. k \in 0 .. MaxTurns /\ "reuse" \in Points
    BY <1>2, <2>1, AgyAssumption, TurnsDomain DEF SuperOK, Points
  <2>3. /\ Moves(d) /\ task'[d].pc = "reuse" /\ task'[d].prompt = task[d].prompt
        /\ task'[d].conv = task[d].conv /\ task'[d].turn = k
    <3>1. Takes(d, "reuse", k) /\ d \in Task
      BY <1>1, <1>7 DEF Takes
    <3> QED BY ONLY <2>2, <3>1, AgyInv, TakesOn
  <2>4. SpotOK(d)'
    BY <1>1, <1>7, <2>1, <2>3 DEF SpotOK, WithConv, BeforeBinding
  <2>5. RowsStay(d) /\ HeadsStay
    BY <1>1, <1>2, QuietRows
  <2>6. HeadOK(d)'
    BY <1>1, <2>3, <2>5, HeadKept DEF SepInv
  <2> QED BY <1>1, <1>2, <1>3, <1>4, <1>7, <2>3, <2>4, <2>5, <2>6, SepTask
<1> QED BY <1>5, <1>6, <1>7 DEF FindSession

(* No process is started. *)
LEMMA SpawnFailsSep ==
    ASSUME AgyInv, SepInv, NEW t \in Task, At(t, "spawn"), StartFails(t), activation' = Released(t),
           UNCHANGED <<queue, row, queuings, binding, turns, sess, work>>
    PROVE  SepInv'
<1>1. Calm /\ SameFinals
  BY StillCalm DEF AgyInv, super
<1>2. PICK n : n = task[t].turn
  OBVIOUS
<1> QED BY <1>1, <1>2, SepStartFails DEF At

(* The session is gone, or was taken by another turn. *)
LEMMA WriteFailsSep ==
    ASSUME AgyInv, SepInv, NEW t \in Task, At(t, "write") \/ At(t, "reuse"), StartFails(t), activation' = Released(t),
           UNCHANGED <<queue, row, queuings, binding, turns, sess, work>>
    PROVE  SepInv'
<1>1. Calm /\ SameFinals
  BY StillCalm DEF AgyInv, super
<1>2. PICK n : n = task[t].turn
  OBVIOUS
<1> QED BY <1>1, <1>2, SepStartFails DEF At

(* The line cannot be written: the process is gone. *)
LEMMA FlushFailsSep ==
    ASSUME AgyInv, SepInv, NEW t \in Task, At(t, "flush"), NEW n, n = task[t].turn, NEW k, k = turns[n].host,
           k \notin DOMAIN work, Failed(k), StartFails(t), activation' = Released(t),
           UNCHANGED <<queue, row, queuings, binding, work>>
    PROVE  SepInv'
<1>1. Calm /\ SameFinals
  BY FailedCalm DEF AgyInv
<1>2. ~WorksOn(k, n)'
  BY DEF WorksOn, Busily, Seen
<1> QED BY <1>1, <1>2, SepStartFails DEF At

(* The first line names the conversation, or the process is killed. *)
LEMMA AwaitInitSep == ASSUME AgyInv, SepInv, NEW t \in Task, AwaitInit(t) PROVE SepInv'
<1>1. task[t].pc = "init" /\ UNCHANGED <<queue, row, queuings, binding, turns, sess, work>>
  BY DEF AwaitInit, At, store, super
<1>2. Calm /\ SameFinals /\ SuperOK /\ TurnOK(t) /\ SpotOK(t)
  BY <1>1, StillCalm DEF AgyInv, SepInv, super
<1>3. PICK n : n = task[t].turn
  OBVIOUS
<1>4. n \in 1 .. Len(turns) /\ turns[n].host = n /\ turns[n].first = (t = Creator)
  BY <1>1, <1>2, <1>3 DEF TurnOK, HasTurn, SpotOK
<1>5. CASE turns[n].init = "error" /\ StartFails(t) /\ activation' = Released(t)
  <2>1. ~Seen(n)
    BY <1>4, <1>5 DEF SepInv, ProcessOK
  <2>2. ~WorksOn(n, n)'
    BY <1>1, <2>1 DEF WorksOn, Busily, Seen
  <2> QED BY <1>1, <1>2, <1>3, <1>4, <1>5, <2>2, SepStartFails
<1>6. CASE turns[n].init = "ok" /\ Goto(t, Started(t)) /\ activation' = Released(t)
  <2>1. PICK point : point = Started(t)
    OBVIOUS
  <2>2. point \in {"bind", "rotate", "persist"} /\ (point = "bind" <=> t = Creator) /\ point \in Points
    BY <2>1 DEF Started, Points
  <2>3. /\ Moves(t) /\ task'[t].pc = point /\ task'[t].turn = n /\ task'[t].conv = task[t].conv
    BY <1>3, <1>6, <2>1, <2>2, Went DEF AgyInv, PlainOK
  <2>4. turns[n].conv # None
    BY <1>4, <1>6 DEF SepInv, ConvsOK
  <2>5. SpotOK(t)'
    BY <1>1, <1>2, <1>4, <2>2, <2>3, <2>4 DEF SpotOK, BeforeBinding
  <2>6. RowsStay(t) /\ HeadsStay
    BY <1>1, <1>2, QuietRows
  <2>7. point \in WorkSpots(t)
    BY <2>2 DEF WorkSpots, FirstSpots, PostWrite
  <2> QED BY <1>1, <1>2, <1>3, <1>4, <1>6, <2>1, <2>2, <2>5, <2>6, <2>7, SepGoto
<1>7. CASE Goto(t, "kill") /\ UNCHANGED activation
  <2>1. "kill" \in Points /\ "kill" \in WorkSpots(t)
    BY DEF Points, WorkSpots, FirstSpots, PostWrite
  <2>2. Moves(t) /\ task'[t].pc = "kill" /\ task'[t].turn = n /\ task'[t].conv = task[t].conv
    BY <1>3, <1>7, <2>1, Went DEF AgyInv, PlainOK
  <2>3. SpotOK(t)'
    BY <1>1, <1>2, <1>4, <2>2 DEF SpotOK, BeforeBinding, WithConv
  <2>4. RowsStay(t) /\ HeadsStay
    BY <1>1, <1>2, QuietRows
  <2> QED BY <1>1, <1>2, <1>3, <1>4, <1>7, <2>1, <2>3, <2>4, SepGoto
<1> QED BY <1>3, <1>5, <1>6, <1>7 DEF AwaitInit

(* A process that does not begin in time is killed. *)
LEMMA KillAfterTimeoutSep == ASSUME AgyInv, SepInv, NEW t \in Task, KillAfterTimeout(t) PROVE SepInv'
<1>1. task[t].pc = "kill" /\ UNCHANGED <<queue, row, queuings, binding, turns, sess>>
  BY DEF KillAfterTimeout, At, store
<1>2. PICK n : n = task[t].turn
  OBVIOUS
<1>3. turns[n].host = n
  BY <1>1, <1>2 DEF SepInv, SpotOK
<1>4. Calm /\ SameFinals
  BY <1>1, KilledCalm DEF KillAfterTimeout, AgyInv
<1>5. ~WorksOn(n, n)'
  <2>1. n \notin DOMAIN sess \/ n \notin DOMAIN work'
    BY <1>2 DEF KillAfterTimeout, Killed, Sans
  <2> QED BY <1>1, <2>1 DEF WorksOn, Busily, Seen
<1> QED BY <1>1, <1>2, <1>3, <1>4, <1>5, SepStartFails DEF KillAfterTimeout

(* A turn whose row was not written is stopped. *)
LEMMA StopOwnSep == ASSUME AgyInv, SepInv, NEW t \in Task, StopOwn(t) PROVE SepInv'
<1>1. task[t].pc \in {"stop", "stopOnly"} /\ UNCHANGED <<queue, row, queuings, binding, activation, work>>
  BY DEF StopOwn, At, store
<1>2. PICK n : n = task[t].turn
  OBVIOUS
<1>3. PICK k : k = turns[n].host
  OBVIOUS
<1>4. n \in 1 .. Len(turns) /\ turns[k].conv # None /\ SuperOK
  BY <1>1, <1>2, <1>3 DEF AgyInv, TurnOK, HasTurn, SepInv, SpotOK, WithConv
<1>5. Calm /\ SameFinals
  BY <1>1, <1>2, <1>4, StoppedCalm DEF StopOwn
<1>6. ~WorksOn(k, n)'
  <2>1. CASE CanStop(n)
    <3>1. k \in DOMAIN sess /\ sess' = [sess EXCEPT ![k].phase = "stopping"]
      BY <1>2, <1>3, <2>1 DEF StopOwn, Stopped, CanStop
    <3>2. sess'[k].phase = "stopping"
      BY <1>4, <3>1 DEF SuperOK, SessType
    <3> QED BY <3>2 DEF WorksOn, Busily
  <2>2. CASE ~CanStop(n)
    <3>1. k \in DOMAIN sess => sess[k].turn # n
      BY <1>3, <1>4, <2>2 DEF CanStop
    <3>2. UNCHANGED sess
      BY <1>2, <2>2 DEF StopOwn, Stopped
    <3> QED BY <3>1, <3>2 DEF WorksOn, Busily, Seen
  <2> QED BY <2>1, <2>2
<1>7. CASE Leave(t)
  <2>1. RowsStay(t) /\ HeadsStay
    BY <1>1, <1>5, QuietRows
  <2> QED BY <1>1, <1>2, <1>3, <1>5, <1>6, <1>7, <2>1, SepLeave
<1>8. CASE Goto(t, "fail")
  <2>1. "fail" \in Points /\ "fail" \notin {"write", "reuse", "flush", "init", "kill"} \cup WithConv /\ "fail" \notin BeforeBinding
    BY DEF Points, WithConv, BeforeBinding
  <2> QED BY <1>1, <1>2, <1>3, <1>5, <1>6, <1>8, <2>1, QuietGoto
<1> QED BY <1>7, <1>8 DEF StopOwn

(* The start of a turn goes on with its conversation. *)
LEMMA ConvGoto ==
    ASSUME AgyInv, SepInv, Calm, NEW t \in Task, NEW point \in {"enqueue", "persist", "stop", "stopOnly"}, Goto(t, point),
           task[t].pc \in WithConv, RowsStay(t), HeadsStay, UNCHANGED <<binding, activation>>,
           point \in {"persist", "stop", "stopOnly"} \/ t = Creator,
           t # Creator => point # "enqueue",
           t = Creator /\ task[t].pc \in FirstSpots => point \in FirstSpots
    PROVE  SepInv'
<1>1. point \in Points
  BY DEF Points
<1>2. PICK n : n = task[t].turn
  OBVIOUS
<1>3. Moves(t) /\ task'[t].pc = point /\ task'[t].conv = task[t].conv /\ task'[t].turn = n
  BY <1>1, <1>2, Went DEF AgyInv, PlainOK
<1>4. PICK h : h = turns[n].host
  OBVIOUS
<1>5. /\ n \in 1 .. Len(turns) /\ SuperOK /\ ConvsOK /\ turns[h].conv # None
      /\ (t # Creator => task[t].conv # None)
  BY <1>2, <1>4 DEF AgyInv, SepInv, TurnOK, HasTurn, WithConv, SpotOK
<1>6. h \in 1 .. Len(turns) /\ turns'[n].host = h
  BY <1>4, <1>5 DEF SuperOK, Calm
<1>7. turns'[h].conv # None
  BY <1>5, <1>6, CalmConvs
<1>8. SpotOK(t)'
  BY <1>3, <1>5, <1>6, <1>7 DEF SpotOK, BeforeBinding
<1>9. task[t].pc \in WorkSpots(t) => point \in WorkSpots(t)
  BY DEF WorkSpots, PostWrite
<1>10. task[t].pc \notin {"idle", "runtime", "head"}
  BY DEF WithConv
<1> QED BY <1>1, <1>2, <1>4, <1>8, <1>9, <1>10, SepGoto

(* The turn passes to its finalizer. *)
LEMMA PersistSep == ASSUME AgyInv, SepInv, NEW t \in Task, Persist(t) PROVE SepInv'
<1>1. /\ task[t].pc = "persist" /\ SuperOK /\ PlainOK /\ TurnOK(t)
      /\ UNCHANGED <<queue, queuings, binding, activation, sess, work>>
  BY DEF Persist, At, AgyInv
<1>2. PICK n : n = task[t].turn
  OBVIOUS
<1>3. PICK p \in Prompt : p = task[t].prompt
  BY <1>1 DEF AgyInv, PlaceOK, Prompted, Points
<1>4. n \in 1 .. Len(turns) /\ turns[n].prompt = p
  BY <1>1, <1>2, <1>3 DEF TurnOK, HasTurn
<1>5. CASE Goto(t, "stop") /\ UNCHANGED <<row, turns>>
  <2>1. Calm /\ SameFinals
    BY <1>1, <1>5, StillCalm DEF super
  <2>2. RowsStay(t) /\ HeadsStay
    BY <1>1, <1>5, <2>1, QuietRows
  <2> QED BY <1>1, <1>5, <2>1, <2>2, ConvGoto DEF WithConv, FirstSpots
<1>6. CASE ~(Goto(t, "stop") /\ UNCHANGED <<row, turns>>)
  <2>1. /\ row' = [row EXCEPT ![p].lease = turns[n].host] /\ turns' = [turns EXCEPT ![n].final = "wait"]
        /\ Leave(t)
    BY <1>2, <1>3, <1>6 DEF Persist, Leased
  <2>2. Calm /\ turns'[n].final = "wait" /\ \A m \in 1 .. Len(turns) : m # n => turns'[m] = turns[m]
    BY <1>1, <1>4, <2>1, FinalCalm
  <2>3. \A q \in Prompt : row'[q].status = row[q].status /\ row'[q].begun = row[q].begun
    <3>1. \A q \in Prompt : row[q] \in RowType
      BY <1>1 DEF PlainOK
    <3> QED BY <1>1, <2>1, <3>1 DEF PlainOK, RowType
  <2>4. HeadsStay
    BY <1>1, <2>3, SameHeads
  <2>5. \A m \in 1 .. Len(turns), q \in Prompt : Awaited(m, q) \/ (m = n /\ q = p) => Awaited(m, q)'
    BY <1>4, <2>2 DEF Awaited, Calm
  <2>6. RowsStay(t)
    <3>1. \A q \in Prompt : row[q].status = "sending" /\ row[q].begun => queuings[q] > 0 /\ row'[q].status # "none"
      BY <2>3 DEF AgyInv, PromptOK
    <3> QED BY <2>3, <2>4, <2>5, <3>1 DEF RowsStay, HeadsStay
  <2>7. PICK h : h = turns[n].host
    OBVIOUS
  <2>8. task[t].pc \in WorkSpots(t) => t # Creator
    BY <1>1 DEF WorkSpots, FirstSpots
  <2>9. Awaited(n, p)'
    BY <1>4, <2>5
  <2> QED BY <1>1, <1>2, <1>3, <2>1, <2>2, <2>4, <2>6, <2>7, <2>8, <2>9, SepLeave
<1> QED BY <1>5, <1>6

(* The first send makes its row, already claimed. *)
LEMMA CreateEnqueuesSep == ASSUME AgyInv, SepInv, CreateEnqueues PROVE SepInv'
<1>1. /\ Creator \in Task /\ task[Creator].pc = "enqueue" /\ SuperOK /\ PlainOK /\ QueueOK(queue, row) /\ PlaceOK(Creator)
      /\ UNCHANGED <<binding, activation, turns, sess, work>>
  BY Places DEF CreateEnqueues, At, AgyInv, super
<1>2. Calm /\ SameFinals
  BY <1>1, StillCalm DEF super
<1>3. PICK p \in Prompt : p = task[Creator].prompt
  BY <1>1 DEF PlaceOK, Prompted, Points
<1>4. task[Creator].pc \in WithConv /\ task[Creator].pc \notin FirstSpots
  BY <1>1 DEF WithConv, FirstSpots
<1>5. CASE Goto(Creator, "stopOnly") /\ UNCHANGED store
  BY <1>1, <1>2, <1>4, <1>5, QuietRows, ConvGoto DEF store
<1>6. CASE /\ Goto(Creator, "persist") /\ queue' = Append(queue, p)
           /\ row' = [row EXCEPT ![p].status = "sending"] /\ queuings' = [queuings EXCEPT ![p] = 1]
  <2>1. queuings[p] = 0
    BY <1>1, <1>3 DEF PlaceOK, Unmade
  <2>2. row[p].status = "none"
    BY <2>1, NoneAwaitedNotYet
  <2>3. \A q \in Prompt \ {p} : row'[q] = row[q] /\ queuings'[q] = queuings[q]
    BY <1>1, <1>6 DEF PlainOK
  <2>4. HeadsStay
    BY <1>1, <1>6, <2>1, <2>3, AppendHeads
  <2>5. RowsStay(Creator)
    BY <1>2, <2>2, <2>3, <2>4, RowsKept
  <2> QED BY <1>1, <1>2, <1>4, <1>6, <2>4, <2>5, ConvGoto
<1> QED BY <1>3, <1>5, <1>6 DEF CreateEnqueues

(* The thread turns to the conversation of the turn that has started. *)
LEMMA RotateSep == ASSUME AgyInv, SepInv, NEW d \in Dispatcher, Rotate(d) PROVE SepInv'
<1>1. /\ d \in Task /\ d # Creator /\ task[d].pc = "rotate" /\ task[d].pc \in WithConv
      /\ UNCHANGED <<queue, row, queuings, activation, turns, sess, work>>
  BY Places DEF Rotate, At, store, super, WithConv
<1>2. Calm /\ SameFinals /\ SuperOK /\ ConvsOK /\ TurnOK(d) /\ SpotOK(d)
  BY <1>1, StillCalm DEF AgyInv, SepInv, super
<1>3. RowsStay(d) /\ HeadsStay
  BY <1>1, <1>2, QuietRows
<1>4. CASE Goto(d, "stopOnly") /\ UNCHANGED binding
  BY <1>1, <1>2, <1>3, <1>4, ConvGoto
<1>5. ASSUME binding' = turns[turns[task[d].turn].host].conv, Goto(d, "persist") PROVE SepInv'
  <2>1. PICK n : n = task[d].turn
    OBVIOUS
  <2>2. PICK h : h = turns[n].host
    OBVIOUS
  <2>3. binding' = turns[h].conv
    BY <1>5, <2>1, <2>2
  <2>4. "persist" \in Points
    BY DEF Points
  <2>5. /\ Moves(d) /\ task'[d].pc = "persist" /\ task'[d].prompt = task[d].prompt
        /\ task'[d].conv = task[d].conv /\ task'[d].turn = n
    BY <1>1, <1>5, <2>1, <2>4, Went DEF AgyInv, PlainOK
  <2>6. \A u \in Task : u # d => task'[u] = task[u]
    BY <2>5 DEF Moves
  <2>7. n \in 1 .. Len(turns) /\ h \in 1 .. Len(turns) /\ turns[h].conv # None /\ task[d].conv # None
    BY <1>1, <1>2, <2>1, <2>2 DEF TurnOK, HasTurn, SuperOK, SpotOK, WithConv
  <2>8. binding' \in Int /\ binding' <= Len(turns)
    <3>1. turns[h] \in TurnType
      BY <1>2, <2>7, TurnIsTyped
    <3>2. turns[h].conv \in Int
      BY <2>7, <3>1 DEF TurnType
    <3> QED BY <1>2, <2>3, <2>7, <3>2 DEF ConvsOK, Named
  <2>9. SpotOK(d)'
    BY <1>1, <2>2, <2>5, <2>7 DEF SpotOK
  <2>10. HeadOK(d)'
    BY <1>1, <1>3, <2>5, HeadKept DEF SepInv
  <2>11. ASSUME NEW u \in Task, u # d, task[u].pc = "write", Unnamed(task[u].turn) PROVE binding' # task[u].turn
    <3>1. PICK m : m = task[u].turn
      OBVIOUS
    <3>2. \A x \in 1 .. Len(turns) : turns[x].host = m => x = m
      BY <2>11, <3>1 DEF SepInv, SpotOK
    <3>3. turns[h].conv = m => h = m
      BY <2>7, <2>11, <3>1 DEF Unnamed
    <3>4. n # m
      BY <1>1, <2>1, <2>11, <3>1, OwnTurn DEF HasTurn
    <3> QED BY <2>2, <2>3, <2>7, <3>1, <3>2, <3>3, <3>4
  <2>12. \A k \in DOMAIN sess' : BusyOK(k)'
    <3>1. task[d].pc \notin {"idle", "runtime"} /\ "persist" \in PostWrite
      BY <1>1 DEF PostWrite
    <3> QED BY <1>1, <1>2, <1>3, <2>1, <2>2, <2>5, <2>6, <3>1, BusyKept
  <2>13. activation' # Creator /\ binding # None
    BY <1>1 DEF SepInv, ConvsOK
  <2> QED BY <1>1, <1>2, <1>3, <2>5, <2>6, <2>8, <2>9, <2>10, <2>11, <2>12, <2>13, SepCalm
<1> QED BY <1>4, <1>5 DEF Rotate

(* The thread turns to a conversation that no process has yet. *)
LEMMA CompactRotatesSep == ASSUME AgyInv, SepInv, NEW d \in Dispatcher, CompactRotates(d) PROVE SepInv'
<1>1. /\ d \in Task /\ d # Creator /\ task[d].pc = "compacted" /\ Leave(d) /\ binding' = -(convs + 1)
      /\ UNCHANGED <<queuings, activation, turns, sess, work>>
  BY Places DEF CompactRotates, At, super
<1>2. Calm /\ SameFinals /\ SuperOK /\ ConvsOK /\ PlainOK /\ QueueOK(queue, row)
  BY <1>1, StillCalm DEF AgyInv, SepInv, super
<1>3. Moves(d) /\ task'[d] = Idle
  BY <1>1, <1>2, Left DEF PlainOK
<1>4. (\A u \in Task : u # d => task'[u] = task[u]) /\ task'[d].pc = "idle" /\ task'[d].conv = None
  BY <1>3 DEF Moves, Idle
<1>5. SpotOK(d)' /\ HeadOK(d)'
  BY <1>1, <1>4 DEF SpotOK, HeadOK, WithConv
<1>6. HeadsStay /\ RowsStay(d)
  <2>1. CASE UNCHANGED <<queue, row>>
    BY <1>1, <1>2, <2>1, QuietRows
  <2>2. ASSUME NEW p \in Prompt, p = task[d].prompt, row[p].status = "sending", Deleted(p)
        PROVE  HeadsStay /\ RowsStay(d)
    <3>1. (\A q \in Prompt \ {p} : row'[q] = row[q]) /\ HeadsStay
      BY <1>1, <1>2, <2>2, DeletedRow, DeletedHeads
    <3>2. Holds(d, p) /\ task[d].pc \notin PostWrite
      BY <1>1, <2>2 DEF Holds, BeforeRow, PostWrite
    <3> QED BY <1>1, <1>2, <3>1, <3>2, RowsKept
  <2>3. task[d].prompt \in Prompt \cup {None}
    BY <1>1, <1>2 DEF PlainOK, TaskType
  <2> QED BY <2>1, <2>2, <2>3 DEF CompactRotates
<1>7. \A k \in DOMAIN sess' : BusyOK(k)'
  <2>1. PICK n : n = task[d].turn
    OBVIOUS
  <2>2. PICK h : h = turns[n].host
    OBVIOUS
  <2>3. task[d].pc \notin {"idle", "runtime"} /\ task[d].pc \notin PostWrite
    BY <1>1 DEF PostWrite
  <2> QED BY <1>1, <1>2, <1>4, <1>6, <2>1, <2>2, <2>3, BusyKept
<1>8. convs \in Nat /\ Len(turns) \in Nat
  BY <1>2, TurnsDomain DEF PlainOK
<1>9. binding' \in Int /\ binding' <= Len(turns) /\ \A m \in 1 .. Len(turns) : binding' # m
  BY <1>1, <1>8
<1>10. ASSUME NEW u \in Task, task[u].pc = "write" PROVE binding' # task[u].turn
  <2>1. task[u].turn \in 1 .. Len(turns)
    BY <1>10 DEF AgyInv, TurnOK, HasTurn
  <2> QED BY <1>9, <2>1
<1>11. activation' # Creator /\ binding # None
  BY <1>1 DEF SepInv, ConvsOK
<1> QED BY <1>1, <1>2, <1>4, <1>5, <1>6, <1>7, <1>9, <1>10, <1>11, SepCalm

(* The thread gets its first conversation. *)
LEMMA CreateBindsSep == ASSUME AgyInv, SepInv, CreateBinds PROVE SepInv'
<1>1. /\ Creator \in Task /\ Creator \notin Dispatcher /\ task[Creator].pc = "bind" /\ task[Creator].pc \in WithConv
      /\ UNCHANGED <<queue, row, queuings, activation, turns, sess, work>>
  BY Places DEF CreateBinds, At, store, super, WithConv
<1>2. Calm /\ SameFinals /\ SuperOK /\ ConvsOK /\ TurnOK(Creator) /\ SpotOK(Creator)
  BY <1>1, StillCalm DEF AgyInv, SepInv, super
<1>3. RowsStay(Creator) /\ HeadsStay
  BY <1>1, <1>2, QuietRows
<1>4. CASE Goto(Creator, "stopOnly") /\ UNCHANGED binding
  BY <1>1, <1>2, <1>3, <1>4, ConvGoto DEF FirstSpots
<1>5. ASSUME binding' = turns[task[Creator].turn].conv, Goto(Creator, "enqueue") PROVE SepInv'
  <2>1. PICK n : n = task[Creator].turn
    OBVIOUS
  <2>2. n \in 1 .. Len(turns) /\ turns[n].first /\ turns[n].host = n /\ turns[n].conv # None /\ binding = None
    BY <1>1, <1>2, <2>1 DEF TurnOK, HasTurn, SpotOK, ConvsOK, BeforeBinding
  <2>3. binding' = turns[n].conv /\ turns[n].conv = n
    BY <1>2, <1>5, <2>1, <2>2 DEF ConvsOK
  <2>4. "enqueue" \in Points
    BY DEF Points
  <2>5. Moves(Creator) /\ task'[Creator].pc = "enqueue" /\ task'[Creator].conv = task[Creator].conv /\ task'[Creator].turn = n
    BY <1>1, <1>5, <2>1, <2>4, Went DEF AgyInv, PlainOK
  <2>6. \A u \in Task : u # Creator => task'[u] = task[u]
    BY <2>5 DEF Moves
  <2>7. binding' \in Int /\ binding' <= Len(turns)
    BY <2>2, <2>3
  <2>8. SpotOK(Creator)'
    BY <1>1, <2>2, <2>5 DEF SpotOK, BeforeBinding
  <2>9. \A d \in Dispatcher : task[d].pc = "idle" /\ task'[d] = task[d] /\ d \in Task
    BY <1>1, <2>2, <2>6, Places DEF SepInv
  <2>10. ASSUME NEW u \in Task, u # Creator, task[u].pc = "write" PROVE FALSE
    BY <2>9, <2>10 DEF Task
  <2>11. ASSUME NEW k \in DOMAIN sess' PROVE BusyOK(k)'
    <3>1. k \in DOMAIN sess /\ BusyOK(k)
      BY <1>1, <2>11 DEF SepInv
    <3>2. PICK m : m = sess[k].turn
      OBVIOUS
    <3>3. PICK p : p = turns[m].prompt
      OBVIOUS
    <3>4. ASSUME Busily(k), turns[m].first, FirstOK(k) PROVE FirstOK(k)'
      <4>1. k = n
        BY <2>1, <2>2, <3>4 DEF FirstOK
      <4>2. binding' # None /\ binding' = turns'[k].conv
        BY <1>1, <2>2, <2>3, <4>1
      <4>3. \A d \in Dispatcher : task'[d].pc = "idle"
        BY <2>9
      <4> QED BY <4>2, <4>3 DEF FirstOK
    <3>5. Busily(k) => turns[m].first
      BY <1>2, <2>2, <3>1, <3>2 DEF Busily, SuperOK, SepInv
    <3> QED BY <1>2, <3>1, <3>2, <3>3, <3>4, <3>5, BusyFrom
  <2>12. activation' # Creator
    BY <1>1, <1>2 DEF ConvsOK
  <2> QED BY <1>1, <1>2, <1>3, <2>5, <2>6, <2>7, <2>8, <2>10, <2>11, <2>12, SepCalm
<1> QED BY <1>4, <1>5 DEF CreateBinds

-----------------------------------------------------------------------------
(* A turn begins *)

(* A process at its turn stays in order when a turn begins elsewhere. *)
LEMMA BusyStays ==
    ASSUME AgyInv, SepInv, NEW t \in Task, \A u \in Task : u # t => task'[u] = task[u],
           UNCHANGED <<queue, row, binding>>,
           Len(turns') \in {Len(turns), Len(turns) + 1}, \A n \in 1 .. Len(turns) : turns'[n] = turns[n],
           t \in Dispatcher => task[t].pc \notin {"idle", "runtime"},
           t = Creator /\ task[t].pc \in FirstSpots => task'[t].pc \in FirstSpots /\ task'[t].turn = task[t].turn,
           t \in Dispatcher /\ task[t].pc \in PostWrite =>
              task'[t].pc \in PostWrite /\ task'[t].turn = task[t].turn /\ task'[t].prompt = task[t].prompt,
           NEW j \in DOMAIN sess, sess'[j] = sess[j], Seen(j)' => Seen(j)
    PROVE  BusyOK(j)'
<1>1. BusyOK(j) /\ SuperOK /\ Dispatcher \subseteq Task /\ Creator \in Task /\ Creator \notin Dispatcher
  BY Places DEF AgyInv, SepInv
<1>2. SUFFICES ASSUME Busily(j)' PROVE BusyOK(j)'
  BY DEF BusyOK
<1>3. Busily(j)
  BY <1>2 DEF Busily
<1>4. PICK n : n = sess[j].turn
  OBVIOUS
<1>5. PICK p : p = turns[n].prompt
  OBVIOUS
<1>6. n \in 1 .. Len(turns) /\ j \in 1 .. Len(turns) /\ Len(turns) \in Nat
  BY <1>1, <1>3, <1>4, TurnsDomain DEF Busily, SuperOK
<1>7. sess'[j].turn = n /\ turns'[n] = turns[n] /\ turns'[j] = turns[j]
  BY <1>4, <1>6
<1>8. CASE turns[n].first
  <2>1. FirstOK(j)
    BY <1>1, <1>3, <1>4, <1>8 DEF BusyOK
  <2>2. t \notin Dispatcher
    BY <2>1 DEF FirstOK, SepInv
  <2>3. t = Creator
    BY <2>2 DEF Task
  <2>4. \A d \in Dispatcher : task'[d] = task[d]
    BY <1>1, <2>3
  <2>5. FirstOK(j)'
    <3>1. CASE binding = None
      BY <2>1, <2>3, <3>1 DEF FirstOK, FirstSpots
    <3>2. CASE binding # None
      BY <1>7, <2>1, <2>4, <3>2 DEF FirstOK
    <3> QED BY <3>1, <3>2
  <2> QED BY <1>7, <1>8, <2>5 DEF BusyOK
<1>9. CASE ~turns[n].first
  <2>1. QueuedOK(n, p)
    BY <1>1, <1>3, <1>4, <1>5, <1>9 DEF BusyOK
  <2>2. Awaited(n, p) => Awaited(n, p)'
    BY <1>6, <1>7 DEF Awaited
  <2>3. ASSUME NEW d \in Dispatcher, task[d].prompt = p, task[d].turn = n, task[d].pc \in PostWrite
        PROVE  task'[d].prompt = p /\ task'[d].turn = n /\ task'[d].pc \in PostWrite
    BY <1>1, <2>3
  <2>4. QueuedOK(n, p)'
    BY <2>1, <2>2, <2>3 DEF QueuedOK
  <2>5. turns'[n].prompt = p /\ ~turns'[n].first
    BY <1>5, <1>7, <1>9
  <2> QED BY <1>7, <2>4, <2>5 DEF BusyOK, QueuedOK, Awaited
<1> QED BY <1>8, <1>9

(* Nothing is at work when a task is about to write. *)
LEMMA AloneAtStart ==
    ASSUME AgyInv, SepInv, NEW t \in Task, task[t].pc \in {"write", "reuse"}, NEW j \in DOMAIN sess
    PROVE  ~Busily(j)
<1>1. SUFFICES ASSUME Busily(j) PROVE FALSE
  OBVIOUS
<1>2. BusyOK(j) /\ SuperOK /\ Creator \in Task /\ Creator \notin Dispatcher /\ Dispatcher \subseteq Task /\ PlaceOK(t) /\ SpotOK(t)
  BY Places DEF AgyInv, SepInv
<1>3. PICK n : n = sess[j].turn
  OBVIOUS
<1>4. n \in 1 .. Len(turns)
  BY <1>1, <1>2, <1>3 DEF Busily, SuperOK
<1>5. t = Creator => task[t].pc = "write" /\ binding = None
  BY <1>2 DEF PlaceOK, CreatorPoints, CreatorOnly, SpotOK, BeforeBinding
<1>6. t # Creator => t \in Dispatcher /\ binding # None
  BY DEF Task, SepInv
<1>7. CASE turns[n].first
  <2>1. FirstOK(j)
    BY <1>1, <1>2, <1>3, <1>7 DEF BusyOK
  <2> QED BY <1>5, <1>6, <2>1 DEF FirstOK
<1>8. CASE ~turns[n].first
  <2>1. PICK q \in Prompt : q = turns[n].prompt
    BY <1>2, <1>4, TurnIsTyped DEF TurnType
  <2>2. QueuedOK(n, q)
    BY <1>1, <1>2, <1>3, <1>8, <2>1 DEF BusyOK
  <2>3. t \in Dispatcher
    BY <1>4, <1>5, <1>6, <1>8 DEF SepInv
  <2>4. PICK p \in Prompt : p = task[t].prompt
    BY <1>2 DEF PlaceOK, Prompted, Points
  <2>5. Holds(t, p) /\ row[p].status = "sending"
    <3>1. Holds(t, p)
      BY <2>4 DEF Holds, BeforeRow
    <3> QED BY <1>2, <2>3, <3>1 DEF PlaceOK, AfterBegin
  <2>6. p = q
    <3>1. HeadOK(t)
      BY <2>3 DEF SepInv
    <3> QED BY <2>2, <2>4, <2>5, <3>1 DEF HeadOK, QueuedOK
  <2>7. Sole(p)
    BY DEF AgyInv, PromptOK
  <2>8. ~Awaited(n, p)
    BY <1>4, <2>5, <2>7 DEF Sole
  <2>9. PICK d \in Dispatcher : task[d].prompt = p /\ task[d].pc \in PostWrite
    BY <2>2, <2>6, <2>8 DEF QueuedOK
  <2>10. Holds(d, p) /\ d \in Task
    BY <1>2, <2>9 DEF Holds, PostWrite, BeforeRow
  <2> QED BY <2>5, <2>7, <2>9, <2>10 DEF Sole, PostWrite
<1> QED BY <1>7, <1>8

(* The grace periods of the turns of a process are about their own turns. *)
GracesOK(k) == \A n \in 1 .. Len(turns) : turns[n].host = k => GraceOK(n)

(* Task t goes on with its prompt, past its look at the queue; it keeps no  *)
(* turn that is at work waiting.                                            *)
TaskGoes(t) ==
    /\ \A u \in Task : u # t => task'[u] = task[u]
    /\ task'[t].prompt = task[t].prompt /\ task'[t].conv = task[t].conv
    /\ t \in Dispatcher => task[t].pc \notin {"idle", "runtime", "head"} /\ task'[t].pc \notin {"idle", "runtime", "head"}
    /\ t = Creator /\ task[t].pc \in FirstSpots => task'[t].pc \in FirstSpots /\ task'[t].turn = task[t].turn
    /\ t \in Dispatcher /\ task[t].pc \in PostWrite => task'[t].pc \in PostWrite /\ task'[t].turn = task[t].turn

(* A turn of task t may be added, in the process h. *)
TurnComes(t, h) ==
    /\ h \in 1 .. Len(turns')
    /\ Len(turns') \in {Len(turns), Len(turns) + 1}
    /\ \A n \in 1 .. Len(turns) : turns'[n] = turns[n]
    /\ \A n \in Len(turns) + 1 .. Len(turns') :
          /\ turns'[n].host = h /\ turns'[n].conv \in {None, task[t].conv}
          /\ turns'[n].first = (t = Creator) /\ turns'[n].init = "wait" /\ turns'[n].grace = "none"
          /\ t = Creator => h = n /\ turns'[n].conv = None

(* Only the process h and its session change. *)
OnlyAt(h) ==
    /\ DOMAIN sess' \in {DOMAIN sess, DOMAIN sess \cup {h}}
    /\ \A j \in DOMAIN sess : j # h => sess'[j] = sess[j]
    /\ DOMAIN work' \subseteq DOMAIN work \cup {h}
    /\ \A j \in DOMAIN work' : j # h => j \in DOMAIN work /\ work'[j] = work[j]

(* No other task counts on the process h. *)
ClearOf(t, h) == \A u \in Task : u # t =>
    /\ task[u].pc = "write" => task[u].turn # h
    /\ task[u].pc = "reuse" /\ task[u].turn = h => h \notin DOMAIN sess' \/ sess'[h].phase = "idle"
    /\ task[u].pc = "flush" /\ turns[task[u].turn].host = h => ~Seen(h)'

(* A turn begins, or comes to a process, by the task t alone. *)
LEMMA BeginsSep ==
    ASSUME AgyInv, SepInv, NEW t \in Task, NEW h, TaskGoes(t), TurnComes(t, h), OnlyAt(h), ClearOf(t, h),
           UNCHANGED <<queue, row, queuings, binding>>, activation' \in {activation, Released(t)},
           SpotOK(t)', ProcessOK(h)', GracesOK(h)', BusyOK(h)',
           Busily(h)' => \A j \in DOMAIN sess : j # h => ~Busily(j)
    PROVE  SepInv'
<1> USE DEF TaskGoes, TurnComes, OnlyAt, ClearOf
<1>1. /\ SuperOK /\ ConvsOK /\ Creator \in Task /\ Creator \notin Dispatcher /\ Dispatcher \subseteq Task /\ Len(turns) \in Nat
      /\ \A j \in 1 .. Len(turns) : ProcessOK(j) /\ GraceOK(j)
  BY Places, TurnsDomain DEF AgyInv, SepInv
<1>2. \A n \in 1 .. Len(turns') : n \in 1 .. Len(turns) \/ n \in Len(turns) + 1 .. Len(turns')
  BY <1>1
<1>3. \A j \in DOMAIN sess \cup DOMAIN work : j \in 1 .. Len(turns)
  BY <1>1 DEF SuperOK
<1>4. ASSUME NEW j, j # h, Seen(j)' PROVE Seen(j) /\ j \in DOMAIN sess /\ sess'[j] = sess[j] /\ work'[j] = work[j]
  <2>1. j \in DOMAIN sess /\ j \in DOMAIN work /\ work'[j] = work[j] /\ sess'[j] = sess[j]
    BY <1>4 DEF Seen
  <2> QED BY <1>3, <1>4, <2>1 DEF Seen
<1>5. \A n \in 1 .. Len(turns) : Named(turns[n].conv) /\ (turns[n].first => turns[n].host = n /\ turns[n].conv \in {None, n})
                                  /\ (turns[n].init = "ok" => turns[n].conv # None)
  BY <1>1 DEF ConvsOK
<1>6. Named(binding) /\ (\A u \in Task : Named(task[u].conv)) /\ activation # Creator
  BY <1>1 DEF ConvsOK
<1>7. activation' # Creator /\ \A u \in Task : u # t /\ activation = u => activation' = u
  <2>1. None # Creator
    BY NoneAssumption
  <2> QED BY <1>6, <2>1 DEF Released
<1>8. \A c : Named(c) /\ (c = None \/ c \in Int) => (c # None => c <= Len(turns'))
  BY <1>1 DEF Named
<1>9. binding \in Int \cup {None} /\ \A u \in Task : task[u].conv \in Int \cup {None}
  BY DEF AgyInv, PlainOK, TaskType
<1>10. \A n \in 1 .. Len(turns) : turns[n].conv \in Int \cup {None}
  BY <1>1, ConvIsTyped
<1>11. ConvsOK'
  <2>1. binding' # None => binding' <= Len(turns')
    BY <1>6, <1>8, <1>9
  <2>2. \A u \in Task : task'[u].conv # None => task'[u].conv <= Len(turns')
    BY <1>6, <1>8, <1>9
  <2>3. ASSUME NEW n \in 1 .. Len(turns')
        PROVE  /\ turns'[n].conv # None => turns'[n].conv <= Len(turns')
               /\ turns'[n].first => turns'[n].host = n /\ turns'[n].conv \in {None, n}
               /\ turns'[n].init = "ok" => turns'[n].conv # None
    <3>1. CASE n \in 1 .. Len(turns)
      BY <1>5, <1>8, <1>10, <3>1
    <3>2. CASE n \in Len(turns) + 1 .. Len(turns')
      BY <1>6, <1>8, <1>9, <3>2
    <3> QED BY <1>2, <3>1, <3>2
  <2> QED BY <1>7, <2>1, <2>2, <2>3 DEF ConvsOK, Named
<1>12. ASSUME NEW k \in 1 .. Len(turns') PROVE ProcessOK(k)'
  <2>1. CASE k = h
    BY <2>1
  <2>2. CASE k # h
    <3>1. k \in 1 .. Len(turns) => ProcessOK(k) /\ turns'[k] = turns[k]
      BY <1>1
    <3>2. k \in DOMAIN work' => k \in DOMAIN work /\ work'[k] = work[k] /\ k \in 1 .. Len(turns)
      BY <1>3, <2>2
    <3>3. k \in DOMAIN sess' => k \in DOMAIN sess /\ sess'[k] = sess[k] /\ k \in 1 .. Len(turns)
      BY <1>3, <2>2
    <3> QED BY <2>2, <3>1, <3>2, <3>3 DEF ProcessOK, Seen
  <2> QED BY <2>1, <2>2
<1>13. ASSUME NEW n \in 1 .. Len(turns') PROVE GraceOK(n)'
  <2>1. CASE turns'[n].host = h
    BY <2>1 DEF GracesOK, GraceOK
  <2>2. CASE turns'[n].host # h
    <3>1. n \in 1 .. Len(turns) /\ turns'[n] = turns[n] /\ GraceOK(n)
      BY <1>1, <1>2, <2>2
    <3>2. PICK k : k = turns[n].host
      OBVIOUS
    <3>3. k # h /\ turns'[n].host = k
      BY <2>2, <3>1, <3>2
    <3>4. k \in DOMAIN work' /\ k \in DOMAIN sess' /\ turns'[k].reader = "ok" => Seen(k) /\ sess'[k] = sess[k]
      BY <1>4, <3>3 DEF Seen
    <3> QED BY <3>1, <3>2, <3>3, <3>4 DEF GraceOK, Seen
  <2> QED BY <2>1, <2>2
<1>14. ASSUME NEW u \in Task PROVE SpotOK(u)'
  <2>1. CASE u = t
    BY <2>1
  <2>2. CASE u # t
    <3>1. task'[u] = task[u] /\ SpotOK(u) /\ TurnOK(u)
      BY <2>2 DEF SepInv, AgyInv
    <3>2. PICK n : n = task[u].turn
      OBVIOUS
    <3>3. task[u].pc \in HasTurn \cup {"reuse"} =>
             /\ n \in 1 .. Len(turns) /\ turns'[n] = turns[n] /\ turns[n].host \in 1 .. Len(turns)
      BY <1>1, <3>1, <3>2 DEF TurnOK, SuperOK
    <3>4. PICK k : k = turns'[n].host
      OBVIOUS
    <3>5. ASSUME task[u].pc = "write"
          PROVE  /\ \A m \in 1 .. Len(turns') : turns'[m].host = n => m = n
                 /\ n \in DOMAIN sess' => sess'[n].phase = "idle"
                 /\ n \in DOMAIN work' => work'[n] = 0
                 /\ activation' = u \/ Unnamed(n)'
      <4>1. n # h /\ n \in 1 .. Len(turns)
        BY <2>2, <3>2, <3>3, <3>5 DEF HasTurn
      <4>2. /\ \A m \in 1 .. Len(turns) : turns[m].host = n => m = n
            /\ n \in DOMAIN sess => sess[n].phase = "idle"
            /\ n \in DOMAIN work => work[n] = 0
            /\ activation = u \/ Unnamed(n)
        BY <3>1, <3>2, <3>5 DEF SpotOK
      <4>3. \A m \in 1 .. Len(turns') : turns'[m].host = n => m = n
        BY <1>2, <4>1, <4>2
      <4>4. Unnamed(n) => Unnamed(n)'
        <5>1. SUFFICES ASSUME Unnamed(n) PROVE Unnamed(n)'
          OBVIOUS
        <5>2. n # None
          BY <4>1, NoneAssumption
        <5>3. \A m \in 1 .. Len(turns') : turns'[m].conv = n => m = n
          BY <1>2, <5>1, <5>2 DEF Unnamed
        <5>4. \A v \in Task : task'[v].conv # n
          BY <5>1 DEF Unnamed
        <5>5. binding' # n /\ turns'[n].conv \in {None, n}
          BY <4>1, <5>1 DEF Unnamed
        <5> QED BY <5>3, <5>4, <5>5 DEF Unnamed
      <4> QED BY <1>7, <2>2, <4>1, <4>2, <4>3, <4>4
    <3>6. ASSUME task[u].pc = "reuse"
          PROVE  /\ activation' = u /\ turns'[n].conv = task[u].conv
                 /\ n \in DOMAIN sess' => sess'[n].phase = "idle"
      <4>1. activation = u /\ turns[n].conv = task[u].conv /\ (n \in DOMAIN sess => sess[n].phase = "idle")
        BY <3>1, <3>2, <3>6 DEF SpotOK
      <4> QED BY <1>7, <2>2, <3>2, <3>3, <3>6, <4>1
    <3>7. ASSUME task[u].pc = "flush"
          PROVE  /\ k \in DOMAIN work' /\ k \in DOMAIN sess' /\ turns'[k].reader = "ok" => work'[k] = 0 /\ sess'[k].turn = n
                 /\ n # k => turns'[k].conv # None
      <4>1. k \in 1 .. Len(turns) /\ turns[n].host = k
        BY <3>3, <3>4, <3>7 DEF HasTurn
      <4>2. (Seen(k) => work[k] = 0 /\ sess[k].turn = n) /\ (n # k => turns[k].conv # None)
        BY <3>1, <3>2, <3>7, <4>1 DEF SpotOK
      <4>3. k = h => ~(k \in DOMAIN work' /\ k \in DOMAIN sess' /\ turns'[k].reader = "ok")
        BY <2>2, <3>2, <3>7, <4>1 DEF Seen
      <4>4. k # h /\ k \in DOMAIN work' /\ k \in DOMAIN sess' /\ turns'[k].reader = "ok" =>
               Seen(k) /\ sess'[k] = sess[k] /\ work'[k] = work[k]
        BY <1>4 DEF Seen
      <4> QED BY <4>1, <4>2, <4>3, <4>4
    <3>8. ASSUME task[u].pc \in {"init", "kill"} \cup WithConv
          PROVE  /\ task[u].pc \in {"init", "kill"} => k = n
                 /\ task[u].pc \in WithConv => turns'[k].conv # None
      <4>1. k \in 1 .. Len(turns) /\ turns[n].host = k
        BY <3>3, <3>4, <3>8 DEF HasTurn, WithConv
      <4> QED BY <3>1, <3>2, <4>1 DEF SpotOK
    <3>9. u = Creator => (task[u].pc \in BeforeBinding => binding' = None)
      BY <3>1 DEF SpotOK
    <3>10. u # Creator => (task[u].pc # "idle" => task[u].conv # None)
      BY <3>1 DEF SpotOK
    <3> QED BY <3>1, <3>2, <3>4, <3>5, <3>6, <3>7, <3>8, <3>9, <3>10, SpotFrom
  <2> QED BY <2>1, <2>2
<1>15. \A d \in Dispatcher : HeadOK(d)'
  <2>1. HeadsStay
    BY SameHeads
  <2> QED BY <1>1, <2>1, HeadKept DEF SepInv
<1>16. ASSUME NEW j \in DOMAIN sess' PROVE BusyOK(j)'
  <2>1. CASE j = h
    BY <2>1
  <2>2. CASE j # h
    <3>1. j \in DOMAIN sess /\ sess'[j] = sess[j] /\ (Seen(j)' => Seen(j))
      BY <1>4, <2>2
    <3>2. t \in Dispatcher => task[t].pc \notin {"idle", "runtime"}
      OBVIOUS
    <3> QED BY <3>1, <3>2, BusyStays
  <2> QED BY <2>1, <2>2
<1>17. \A i, j \in DOMAIN sess' : Busily(i)' /\ Busily(j)' => i = j
  <2>1. \A j \in DOMAIN sess' : j # h /\ Busily(j)' => Busily(j) /\ j \in DOMAIN sess
    BY <1>4 DEF Busily
  <2> QED BY <2>1 DEF SepInv
<1>18. binding' = None => (\A d \in Dispatcher : task'[d].pc = "idle") /\ \A n \in 1 .. Len(turns') : turns'[n].first
  <2>1. SUFFICES ASSUME binding = None PROVE (\A d \in Dispatcher : task'[d].pc = "idle") /\ \A n \in 1 .. Len(turns') : turns'[n].first
    OBVIOUS
  <2>2. (\A d \in Dispatcher : task[d].pc = "idle") /\ \A n \in 1 .. Len(turns) : turns[n].first
    BY <2>1 DEF SepInv
  <2>3. t = Creator
    BY <2>2 DEF Task
  <2>4. \A d \in Dispatcher : task'[d].pc = "idle"
    BY <1>1, <2>2, <2>3
  <2>5. \A n \in 1 .. Len(turns') : turns'[n].first
    BY <1>2, <2>2, <2>3
  <2> QED BY <2>4, <2>5
<1> QED BY <1>11, <1>12, <1>13, <1>14, <1>15, <1>16, <1>17, <1>18 DEF SepInv

(* A process and its session begin, without a turn. *)
LEMMA SpawnAddsSep ==
    ASSUME AgyInv, SepInv, NEW t \in Task, At(t, "spawn"), NEW k, k = Len(turns) + 1, Len(turns) < MaxTurns,
           turns' = Append(turns, Turn(t, k)),
           sess' = [j \in DOMAIN sess \cup {k} |-> IF j = k THEN [phase |-> "idle", turn |-> 0] ELSE sess[j]],
           work' = [j \in DOMAIN work \cup {k} |-> IF j = k THEN 0 ELSE work[j]],
           task' = [task EXCEPT ![t].pc = "write", ![t].turn = k],
           UNCHANGED <<store, binding, activation>>
    PROVE  SepInv'
<1>1. /\ SuperOK /\ ConvsOK /\ Creator \notin Dispatcher /\ Len(turns) \in Nat /\ turns \in Seq(TurnType)
      /\ task[t].pc = "spawn" /\ SpotOK(t) /\ PlaceOK(t) /\ MaxTurns \in Nat
  BY Places, TurnsDomain, AgyAssumption DEF AgyInv, SepInv, SuperOK, At
<1>2. k \in 0 .. MaxTurns /\ k \in 1 .. MaxTurns /\ "write" \in Points
  BY <1>1 DEF Points
<1>3. /\ Moves(t) /\ task'[t].pc = "write" /\ task'[t].prompt = task[t].prompt
      /\ task'[t].conv = task[t].conv /\ task'[t].turn = k
  <2>1. Takes(t, "write", k)
    BY DEF Takes
  <2> QED BY ONLY <1>2, <2>1, AgyInv, t \in Task, TakesOn
<1>4. \A u \in Task : u # t => task'[u] = task[u]
  BY <1>3 DEF Moves
<1>5. PICK new : new = Turn(t, k)
  OBVIOUS
<1>6. /\ new \in TurnType /\ new.host = k /\ new.first = (t = Creator) /\ new.init = "wait" /\ new.grace = "none"
      /\ new.exit = "wait" /\ new.conv = (IF activation = t THEN task[t].conv ELSE None)
  <2>1. task[t].prompt \in Prompt
    BY <1>1 DEF PlaceOK, Prompted, Points
  <2> QED BY <1>2, <1>5, <2>1, TurnTyped DEF Turn
<1>7. Len(turns') = Len(turns) + 1 /\ turns'[k] = new /\ \A n \in 1 .. Len(turns) : turns'[n] = turns[n]
  BY <1>1, <1>5, <1>6, AppendProperties
<1>8. \A n \in Len(turns) + 1 .. Len(turns') : n = k
  BY <1>1, <1>7
<1>9. \A j \in DOMAIN sess \cup DOMAIN work : j \in 1 .. Len(turns) /\ j # k
  BY <1>1 DEF SuperOK
<1>10. /\ sess'[k] = [phase |-> "idle", turn |-> 0] /\ work'[k] = 0
       /\ \A j \in DOMAIN sess : sess'[j] = sess[j]
       /\ \A j \in DOMAIN work : work'[j] = work[j]
  BY <1>9
<1>11. \A n \in 1 .. Len(turns') : turns'[n].host = k => n = k
  BY <1>1, <1>7, <1>8 DEF SuperOK
<1>12. activation # Creator
  BY <1>1 DEF ConvsOK
<1>13. activation' = t \/ Unnamed(k)'
  <2>1. SUFFICES ASSUME activation # t PROVE Unnamed(k)'
    BY DEF store
  <2>2. k # None /\ k \in Int
    BY <1>2, NoneAssumption
  <2>3. binding' # k
    BY <1>1, <2>2 DEF ConvsOK, Named
  <2>4. \A u \in Task : task'[u].conv # k
    <3>1. \A u \in Task : task'[u].conv = task[u].conv
      BY <1>3, <1>4
    <3>2. \A u \in Task : task[u].conv # None => task[u].conv <= Len(turns)
      BY <1>1 DEF ConvsOK, Named
    <3>3. ASSUME NEW u \in Task, task[u].conv = k PROVE FALSE
      BY <1>1, <2>2, <3>2, <3>3
    <3> QED BY <3>1, <3>3
  <2>5. turns'[k].conv = None
    BY <1>6, <1>7, <2>1
  <2>6. \A n \in 1 .. Len(turns') : turns'[n].conv = k => n = k
    BY <1>1, <1>7, <1>8, <2>2 DEF ConvsOK, Named
  <2> QED BY <2>3, <2>4, <2>5, <2>6 DEF Unnamed
<1>14. SpotOK(t)'
  <2>1. t = Creator => binding' = None
    BY <1>1 DEF SpotOK, BeforeBinding
  <2>2. t # Creator => task'[t].conv # None
    BY <1>1, <1>3 DEF SpotOK
  <2> QED BY <1>3, <1>10, <1>11, <1>13, <2>1, <2>2, SpotFrom DEF WithConv
<1>15. ProcessOK(k)'
  BY <1>6, <1>7, <1>10 DEF ProcessOK
<1>16. GracesOK(k)'
  BY <1>6, <1>7, <1>11 DEF GracesOK, GraceOK
<1>17. ~Busily(k)'
  BY <1>10 DEF Busily
<1>18. \A u \in Task : u # t =>
          /\ task[u].pc = "write" => task[u].turn # k
          /\ task[u].pc = "reuse" /\ task[u].turn = k => sess'[k].phase = "idle"
          /\ task[u].pc = "flush" /\ turns[task[u].turn].host = k => ~Seen(k)'
  <2>1. \A n \in 1 .. Len(turns) : turns[n].host \in 1 .. Len(turns) /\ n # k
    BY <1>1 DEF SuperOK
  <2>2. k \notin 1 .. Len(turns)
    BY <1>1
  <2> QED BY <1>10, <2>1, <2>2 DEF AgyInv, TurnOK, HasTurn
<1>19. BusyOK(k)'
  BY <1>17 DEF BusyOK
<1>20. /\ t \in Dispatcher => task[t].pc \notin {"idle", "runtime", "head"} /\ task'[t].pc \notin {"idle", "runtime", "head"}
       /\ task[t].pc \notin FirstSpots /\ task[t].pc \notin PostWrite
  BY <1>1, <1>3 DEF FirstSpots, PostWrite
<1>21. \A n \in Len(turns) + 1 .. Len(turns') :
          /\ turns'[n].host = k /\ turns'[n].conv \in {None, task[t].conv}
          /\ turns'[n].first = (t = Creator) /\ turns'[n].init = "wait" /\ turns'[n].grace = "none"
          /\ t = Creator => k = n /\ turns'[n].conv = None
  BY <1>6, <1>7, <1>8, <1>12
<1>22. UNCHANGED <<queue, row, queuings, binding, activation>>
  BY DEF store
<1>23. k \in 1 .. Len(turns') /\ Len(turns') \in {Len(turns), Len(turns) + 1}
  BY <1>1, <1>7
<1>24. /\ DOMAIN sess' = DOMAIN sess \cup {k} /\ \A j \in DOMAIN sess : j # k => sess'[j] = sess[j]
       /\ DOMAIN work' \subseteq DOMAIN work \cup {k} /\ \A j \in DOMAIN work' : j # k => j \in DOMAIN work /\ work'[j] = work[j]
  BY <1>10
<1>25. /\ t = Creator /\ task[t].pc \in FirstSpots => task'[t].pc \in FirstSpots /\ task'[t].turn = task[t].turn
       /\ t \in Dispatcher /\ task[t].pc \in PostWrite => task'[t].pc \in PostWrite /\ task'[t].turn = task[t].turn
       /\ Busily(k)' => \A j \in DOMAIN sess : j # k => ~Busily(j)
       /\ activation' \in {activation, Released(t)}
  BY <1>17, <1>20, <1>22
<1>26. task'[t].prompt = task[t].prompt /\ task'[t].conv = task[t].conv /\ \A n \in 1 .. Len(turns) : turns'[n] = turns[n]
  BY <1>3, <1>7
<1>27. TaskGoes(t)
  BY <1>4, <1>20, <1>25, <1>26 DEF TaskGoes
<1>28. TurnComes(t, k)
  BY <1>21, <1>23, <1>26 DEF TurnComes
<1>29. OnlyAt(k)
  BY <1>24 DEF OnlyAt
<1>30. ClearOf(t, k)
  BY <1>18 DEF ClearOf
<1> QED BY <1>14, <1>15, <1>16, <1>19, <1>22, <1>25, <1>27, <1>28, <1>29, <1>30, BeginsSep

(* A process is started. *)
LEMMA SpawnSessionSep == ASSUME AgyInv, SepInv, NEW t \in Task, SpawnSession(t) PROVE SepInv'
<1>1. CASE StartFails(t) /\ activation' = Released(t) /\ UNCHANGED super
  BY <1>1, SpawnFailsSep DEF SpawnSession, store, super
<1>2. CASE ~(StartFails(t) /\ activation' = Released(t) /\ UNCHANGED super)
  <2>1. PICK k : k = Len(turns) + 1
    OBVIOUS
  <2> QED BY <1>2, <2>1, SpawnAddsSep DEF SpawnSession
<1> QED BY <1>1, <1>2

(* The line is to be written. *)
LEMMA ToFlush ==
    ASSUME AgyInv, NEW t \in Task, NEW k \in 0 .. MaxTurns, Takes(t, "flush", k)
    PROVE  /\ Moves(t) /\ task'[t].pc = "flush" /\ task'[t].prompt = task[t].prompt
           /\ task'[t].conv = task[t].conv /\ task'[t].turn = k
<1>1. "flush" \in Points
  BY DEF Points
<1> QED BY <1>1, TakesOn

(* The session takes the turn its process was started for. *)
LEMMA WriteFirstSep ==
    ASSUME AgyInv, SepInv, NEW t \in Task, At(t, "write"), NEW k, k = task[t].turn, k \in DOMAIN sess,
           sess' = [sess EXCEPT ![k] = [phase |-> "active", turn |-> k]],
           task' = [task EXCEPT ![t].pc = "flush", ![t].turn = k],
           UNCHANGED <<store, binding, activation, turns, work>>
    PROVE  SepInv'
<1>1. /\ SuperOK /\ Creator \notin Dispatcher /\ Len(turns) \in Nat /\ MaxTurns \in Nat /\ Len(turns) <= MaxTurns
      /\ task[t].pc = "write" /\ SpotOK(t) /\ PlaceOK(t) /\ TurnOK(t)
  BY Places, TurnsDomain, AgyAssumption DEF AgyInv, SepInv, SuperOK, At
<1>2. /\ k \in 1 .. Len(turns) /\ turns[k].host = k /\ turns[k].first = (t = Creator) /\ turns[k].prompt = task[t].prompt
      /\ k \in 0 .. MaxTurns /\ "flush" \in Points
  BY <1>1 DEF TurnOK, HasTurn, Points
<1>3. /\ Moves(t) /\ task'[t].pc = "flush" /\ task'[t].prompt = task[t].prompt
      /\ task'[t].conv = task[t].conv /\ task'[t].turn = k
  <2>1. k \in 0 .. MaxTurns
    BY <1>2
  <2>2. Takes(t, "flush", k)
    BY DEF Takes
  <2> QED BY <2>1, <2>2, ToFlush
<1>4. \A u \in Task : u # t => task'[u] = task[u]
  BY <1>3 DEF Moves
<1>5. /\ \A m \in 1 .. Len(turns) : turns[m].host = k => m = k
      /\ sess[k].phase = "idle" /\ (k \in DOMAIN work => work[k] = 0)
      /\ activation = t \/ Unnamed(k)
      /\ t = Creator => binding = None
      /\ t # Creator => task[t].conv # None
  BY <1>1 DEF SpotOK, BeforeBinding
<1>6. /\ DOMAIN sess' = DOMAIN sess /\ sess'[k] = [phase |-> "active", turn |-> k]
      /\ \A j \in DOMAIN sess : j # k => sess'[j] = sess[j]
  BY <1>1 DEF SuperOK
<1>7. SpotOK(t)'
  <2>1. turns'[k].host = k
    BY <1>2
  <2>2. k \in DOMAIN work' /\ k \in DOMAIN sess' /\ turns'[k].reader = "ok" => work'[k] = 0 /\ sess'[k].turn = k
    BY <1>5, <1>6
  <2>3. (t = Creator => binding' = None) /\ (t # Creator => task'[t].conv # None)
    BY <1>3, <1>5
  <2> QED BY <1>3, <2>1, <2>2, <2>3, SpotFrom DEF WithConv
<1>8. Seen(k)' <=> Seen(k)
  BY <1>6 DEF Seen
<1>9. ProcessOK(k)'
  BY <1>2, <1>5, <1>6, <1>8 DEF SepInv, ProcessOK
<1>10. ASSUME NEW n \in 1 .. Len(turns'), turns'[n].host = k PROVE GraceOK(n)'
  <2>1. n = k
    BY <1>5, <1>10
  <2>2. ~(turns[k].grace \in {"wait", "kill"} /\ Seen(k))
    BY <1>2, <1>5 DEF SepInv, GraceOK
  <2> QED BY <1>2, <1>8, <2>1, <2>2 DEF GraceOK, Seen
<1>11. ASSUME NEW u \in Task, u # t
       PROVE  /\ task[u].pc = "write" => task[u].turn # k
              /\ task[u].pc = "reuse" /\ task[u].turn = k => sess'[k].phase = "idle"
              /\ task[u].pc = "flush" /\ turns[task[u].turn].host = k => ~Seen(k)'
  <2>1. task[u].pc \in {"write", "flush"} => task[u].turn # k /\ task[u].turn \in 1 .. Len(turns)
    BY <1>1, <1>11, OwnTurn DEF HasTurn, AgyInv, TurnOK
  <2>2. ASSUME task[u].pc = "reuse", task[u].turn = k PROVE FALSE
    <3>1. activation = u /\ turns[k].conv = task[u].conv /\ PlaceOK(u)
      BY <2>2 DEF SepInv, SpotOK, AgyInv
    <3>2. task[u].conv # None
      BY <2>2, <3>1 DEF SepInv, SpotOK, PlaceOK, CreatorPoints, CreatorOnly
    <3> QED BY <1>5, <1>11, <3>1, <3>2 DEF Unnamed
  <2> QED BY <1>5, <2>1, <2>2
<1>12. BusyOK(k)'
  <2>1. CASE t = Creator
    <3>1. FirstOK(k)'
      BY <1>3, <1>5, <2>1 DEF FirstOK
    <3> QED BY <1>2, <1>6, <2>1, <3>1 DEF BusyOK
  <2>2. CASE t # Creator
    <3>1. t \in Dispatcher
      BY <2>2 DEF Task
    <3>2. PICK p \in Prompt : p = task[t].prompt
      BY <1>1 DEF PlaceOK, Prompted, Points
    <3>3. row[p].status = "sending" /\ row[p].begun
      BY <1>1, <2>2, <3>2 DEF PlaceOK, Holds, BeforeRow, AfterBegin
    <3>4. Head(queue) = p
      BY <1>1, <3>1, <3>2, <3>3 DEF SepInv, HeadOK
    <3>5. UNCHANGED <<queue, row>>
      BY DEF store
    <3>6. QueuedOK(k, p)'
      BY <1>3, <3>1, <3>2, <3>3, <3>4, <3>5 DEF QueuedOK, PostWrite
    <3>7. sess'[k].turn = k /\ ~turns'[k].first /\ turns'[k].prompt = p
      BY <1>2, <1>6, <2>2, <3>2
    <3> QED BY <3>6, <3>7 DEF BusyOK, QueuedOK, Awaited
  <2> QED BY <2>1, <2>2
<1>13. \A j \in DOMAIN sess : ~Busily(j)
  BY <1>1, AloneAtStart
<1>14. /\ t \in Dispatcher => task[t].pc \notin {"idle", "runtime", "head"} /\ task'[t].pc \notin {"idle", "runtime", "head"}
       /\ task[t].pc \notin FirstSpots /\ task[t].pc \notin PostWrite
  BY <1>1, <1>3 DEF FirstSpots, PostWrite
<1>15. ASSUME NEW n \in Len(turns) + 1 .. Len(turns') PROVE FALSE
  BY <1>1, <1>15
<1>16. UNCHANGED <<queue, row, queuings, binding, activation>>
  BY DEF store
<1>17. k \in 1 .. Len(turns') /\ Len(turns') \in {Len(turns), Len(turns) + 1} /\ \A n \in 1 .. Len(turns) : turns'[n] = turns[n]
  BY <1>2
<1>18. /\ DOMAIN sess' = DOMAIN sess \cup {k} /\ \A j \in DOMAIN sess : j # k => sess'[j] = sess[j]
       /\ DOMAIN work' \subseteq DOMAIN work \cup {k} /\ \A j \in DOMAIN work' : j # k => j \in DOMAIN work /\ work'[j] = work[j]
  BY <1>6
<1>19. /\ t = Creator /\ task[t].pc \in FirstSpots => task'[t].pc \in FirstSpots /\ task'[t].turn = task[t].turn
       /\ t \in Dispatcher /\ task[t].pc \in PostWrite => task'[t].pc \in PostWrite /\ task'[t].turn = task[t].turn
       /\ Busily(k)' => \A j \in DOMAIN sess : j # k => ~Busily(j)
       /\ activation' \in {activation, Released(t)}
  BY <1>13, <1>14, <1>16
<1>20. GracesOK(k)'
  BY <1>10 DEF GracesOK, GraceOK
<1>21. task'[t].prompt = task[t].prompt /\ task'[t].conv = task[t].conv
  BY <1>3
<1>22. TaskGoes(t)
  BY <1>4, <1>14, <1>19, <1>21 DEF TaskGoes
<1>23. TurnComes(t, k)
  BY <1>15, <1>17 DEF TurnComes
<1>24. OnlyAt(k)
  BY <1>18 DEF OnlyAt
<1>25. ClearOf(t, k)
  BY <1>11 DEF ClearOf
<1> QED BY <1>7, <1>9, <1>12, <1>16, <1>19, <1>20, <1>22, <1>23, <1>24, <1>25, BeginsSep

(* An idle session takes another turn. *)
LEMMA WriteAgainSep ==
    ASSUME AgyInv, SepInv, NEW t \in Task, At(t, "reuse"), NEW k, k = task[t].turn, k \in DOMAIN sess,
           NEW n, n = Len(turns) + 1, n <= MaxTurns,
           turns' = Append(turns, Turn(t, k)),
           sess' = [sess EXCEPT ![k] = [phase |-> "active", turn |-> n]],
           task' = [task EXCEPT ![t].pc = "flush", ![t].turn = n],
           UNCHANGED <<store, binding, activation, work>>
    PROVE  SepInv'
<1>1. /\ SuperOK /\ Creator \notin Dispatcher /\ Len(turns) \in Nat /\ MaxTurns \in Nat /\ turns \in Seq(TurnType)
      /\ task[t].pc = "reuse" /\ SpotOK(t) /\ PlaceOK(t) /\ TurnOK(t)
  BY Places, TurnsDomain, AgyAssumption DEF AgyInv, SepInv, SuperOK, At
<1>2. k \in 1 .. Len(turns) /\ turns[k].host = k /\ k \in 0 .. MaxTurns /\ n \in 0 .. MaxTurns
  BY <1>1 DEF SuperOK
<1>3. /\ Moves(t) /\ task'[t].pc = "flush" /\ task'[t].prompt = task[t].prompt
      /\ task'[t].conv = task[t].conv /\ task'[t].turn = n
  <2>1. Takes(t, "flush", n)
    BY DEF Takes
  <2> QED BY <1>2, <2>1, ToFlush
<1>4. \A u \in Task : u # t => task'[u] = task[u]
  BY <1>3 DEF Moves
<1>5. /\ activation = t /\ turns[k].conv = task[t].conv /\ sess[k].phase = "idle"
      /\ task[t].conv # None /\ t # Creator
  BY <1>1 DEF SpotOK, PlaceOK, CreatorPoints, CreatorOnly
<1>6. PICK new : new = Turn(t, k)
  OBVIOUS
<1>7. /\ new \in TurnType /\ new.host = k /\ ~new.first /\ new.init = "wait" /\ new.grace = "none"
      /\ new.conv = task[t].conv /\ new.prompt = task[t].prompt
  <2>1. task[t].prompt \in Prompt /\ k \in 1 .. MaxTurns
    BY <1>1, <1>2 DEF PlaceOK, Prompted, Points
  <2> QED BY <1>5, <1>6, <2>1, TurnTyped DEF Turn
<1>8. Len(turns') = n /\ turns'[n] = new /\ \A m \in 1 .. Len(turns) : turns'[m] = turns[m]
  BY <1>1, <1>6, <1>7, AppendProperties
<1>9. n \notin 1 .. Len(turns) /\ n # 0 /\ n # k /\ \A m \in Len(turns) + 1 .. Len(turns') : m = n
  BY <1>1, <1>2, <1>8
<1>10. /\ DOMAIN sess' = DOMAIN sess /\ sess'[k] = [phase |-> "active", turn |-> n]
       /\ \A j \in DOMAIN sess : j # k => sess'[j] = sess[j]
  BY <1>1 DEF SuperOK
<1>11. turns'[k] = turns[k] /\ (Seen(k)' <=> Seen(k))
  BY <1>2, <1>8, <1>10 DEF Seen
<1>12. ProcessOK(k) /\ sess[k].turn = 0 /\ (Seen(k) => work[k] = 0)
  BY <1>2, <1>5 DEF SepInv, ProcessOK
<1>13. ProcessOK(k)'
  BY <1>9, <1>10, <1>11, <1>12 DEF ProcessOK
<1>14. GracesOK(k)'
  <2>1. ASSUME NEW m \in 1 .. Len(turns'), turns'[m].host = k
        PROVE  ~(turns'[m].grace \in {"wait", "kill"} /\ k \in DOMAIN work' /\ k \in DOMAIN sess' /\ turns'[k].reader = "ok")
    <3>1. CASE m = n
      BY <1>7, <1>8, <3>1
    <3>2. CASE m # n
      <4>1. m \in 1 .. Len(turns) /\ turns'[m] = turns[m] /\ GraceOK(m)
        BY <1>1, <1>8, <3>2 DEF SepInv
      <4>2. turns[m].host = k
        BY <2>1, <4>1
      <4>3. ~(turns[m].grace \in {"wait", "kill"} /\ Seen(k))
        BY <1>5, <4>1, <4>2 DEF GraceOK
      <4> QED BY <1>10, <1>11, <4>1, <4>3 DEF Seen
    <3> QED BY <3>1, <3>2
  <2> QED BY <2>1 DEF GracesOK, GraceOK, Seen
<1>15. SpotOK(t)'
  <2>1. turns'[n].host = k /\ turns'[k].conv # None
    BY <1>5, <1>7, <1>8, <1>11
  <2>2. k \in DOMAIN work' /\ k \in DOMAIN sess' /\ turns'[k].reader = "ok" => work'[k] = 0 /\ sess'[k].turn = n
    BY <1>10, <1>11, <1>12 DEF Seen
  <2>3. (t = Creator => binding' = None) /\ (t # Creator => task'[t].conv # None)
    BY <1>3, <1>5
  <2>4. task'[t].pc \notin {"write", "reuse", "init", "kill"} \cup WithConv
    BY <1>3 DEF WithConv
  <2>5. task'[t].pc = "flush" /\ task'[t].turn = n
    BY <1>3
  <2> QED BY ONLY <2>1, <2>2, <2>3, <2>4, <2>5, SpotFrom, t \in Task
<1>16. ClearOf(t, k)
  <2>1. ASSUME NEW u \in Task, u # t
        PROVE  /\ task[u].pc = "write" => task[u].turn # k
               /\ task[u].pc = "reuse" /\ task[u].turn = k => sess'[k].phase = "idle"
               /\ task[u].pc = "flush" /\ turns[task[u].turn].host = k => ~Seen(k)'
    <3>1. SpotOK(u) /\ TurnOK(u) /\ activation # u
      BY <1>5, <2>1 DEF SepInv, AgyInv
    <3>2. ~Unnamed(k)
      BY <1>5 DEF Unnamed
    <3>3. task[u].pc = "write" => task[u].turn # k
      BY <3>1, <3>2 DEF SpotOK
    <3>4. task[u].pc # "reuse"
      BY <3>1 DEF SpotOK
    <3>5. PICK m : m = task[u].turn
      OBVIOUS
    <3>6. task[u].pc = "flush" => m \in 1 .. Len(turns)
      BY <3>1, <3>5 DEF TurnOK, HasTurn
    <3>7. task[u].pc = "flush" /\ turns[m].host = k => (Seen(k) => sess[k].turn = m)
      BY <3>1, <3>5 DEF SpotOK
    <3>8. task[u].pc = "flush" /\ turns[m].host = k => ~Seen(k)
      BY <1>12, <3>6, <3>7
    <3> QED BY <1>11, <3>3, <3>4, <3>5, <3>8
  <2> QED BY <2>1 DEF ClearOf
<1>17. BusyOK(k)'
  <2>1. t \in Dispatcher
    BY <1>5 DEF Task
  <2>2. PICK p \in Prompt : p = task[t].prompt
    BY <1>1 DEF PlaceOK, Prompted, Points
  <2>3. row[p].status = "sending" /\ row[p].begun
    BY <1>1, <1>5, <2>2 DEF PlaceOK, Holds, BeforeRow, AfterBegin
  <2>4. Head(queue) = p
    BY <1>1, <2>1, <2>2, <2>3 DEF SepInv, HeadOK
  <2>5. UNCHANGED <<queue, row>>
    BY DEF store
  <2>6. QueuedOK(n, p)'
    BY <1>3, <2>1, <2>2, <2>3, <2>4, <2>5 DEF QueuedOK, PostWrite
  <2>7. sess'[k].turn = n /\ ~turns'[n].first /\ turns'[n].prompt = p
    BY <1>7, <1>8, <1>10, <2>2
  <2> QED BY <2>6, <2>7 DEF BusyOK, QueuedOK, Awaited
<1>18. \A j \in DOMAIN sess : ~Busily(j)
  BY <1>1, AloneAtStart
<1>19. UNCHANGED <<queue, row, queuings, binding>> /\ activation' = activation
  BY DEF store
<1>20. TaskGoes(t)
  <2>1. task[t].pc \notin PostWrite /\ task[t].pc \notin FirstSpots
    BY <1>1 DEF FirstSpots, PostWrite
  <2>2. task[t].pc \notin {"idle", "runtime", "head"} /\ task'[t].pc \notin {"idle", "runtime", "head"}
    BY <1>1, <1>3
  <2>3. task'[t].prompt = task[t].prompt /\ task'[t].conv = task[t].conv
    BY <1>3
  <2> QED BY ONLY <1>4, <2>1, <2>2, <2>3 DEF TaskGoes
<1>21. TurnComes(t, k)
  <2>1. k \in 1 .. Len(turns') /\ Len(turns') \in {Len(turns), Len(turns) + 1}
    BY <1>1, <1>2, <1>8
  <2>2. ASSUME NEW m \in Len(turns) + 1 .. Len(turns')
        PROVE  /\ turns'[m].host = k /\ turns'[m].conv \in {None, task[t].conv}
               /\ turns'[m].first = (t = Creator) /\ turns'[m].init = "wait" /\ turns'[m].grace = "none"
               /\ t = Creator => k = m /\ turns'[m].conv = None
    <3>1. turns'[m] = new
      BY <1>8, <1>9, <2>2
    <3>2. new.first = (t = Creator)
      BY <1>6 DEF Turn
    <3> QED BY <1>5, <1>7, <3>1, <3>2
  <2> QED BY ONLY <1>8, <2>1, <2>2 DEF TurnComes
<1>22. OnlyAt(k)
  BY <1>10 DEF OnlyAt
<1> QED BY <1>13, <1>14, <1>15, <1>16, <1>17, <1>18, <1>19, <1>20, <1>21, <1>22, BeginsSep

(* The line is handed to the session. *)
LEMMA WritePromptSep == ASSUME AgyInv, SepInv, NEW t \in Task, WritePrompt(t) PROVE SepInv'
<1>1. PICK k : k = task[t].turn
  OBVIOUS
<1>2. At(t, "write") \/ At(t, "reuse")
  BY DEF WritePrompt
<1>3. UNCHANGED <<store, binding, work>> /\ UNCHANGED <<queue, row, queuings>>
  BY DEF WritePrompt, store
<1>4. CASE k \notin DOMAIN sess \/ (k \in DOMAIN sess /\ IsActive(k))
  <2>1. StartFails(t) /\ activation' = Released(t) /\ UNCHANGED <<turns, sess>>
    BY <1>1, <1>4 DEF WritePrompt
  <2> QED BY <1>2, <1>3, <2>1, WriteFailsSep
<1>5. CASE ~(k \notin DOMAIN sess \/ (k \in DOMAIN sess /\ IsActive(k))) /\ At(t, "write")
  <2>1. /\ k \in DOMAIN sess /\ turns' = turns /\ activation' = activation
        /\ sess' = [sess EXCEPT ![k] = [phase |-> "active", turn |-> k]]
        /\ task' = [task EXCEPT ![t].pc = "flush", ![t].turn = k]
    BY <1>1, <1>5 DEF WritePrompt
  <2> QED BY <1>1, <1>3, <1>5, <2>1, WriteFirstSep
<1>6. CASE ~(k \notin DOMAIN sess \/ (k \in DOMAIN sess /\ IsActive(k))) /\ ~At(t, "write")
  <2>1. PICK n : n = Len(turns) + 1
    OBVIOUS
  <2>2. k \in 1 .. Len(turns) /\ Len(turns) \in Nat /\ n # k
    BY <1>6, <2>1, TurnsDomain DEF AgyInv, SuperOK
  <2>3. /\ k \in DOMAIN sess /\ n <= MaxTurns /\ turns' = Append(turns, Turn(t, k)) /\ activation' = activation
        /\ sess' = [sess EXCEPT ![k] = [phase |-> "active", turn |-> n]]
        /\ task' = [task EXCEPT ![t].pc = "flush", ![t].turn = n]
    BY <1>1, <1>6, <2>1, <2>2 DEF WritePrompt
  <2> QED BY <1>1, <1>2, <1>3, <1>6, <2>1, <2>3, WriteAgainSep
<1> QED BY <1>4, <1>5, <1>6

(* The line is written to the process, which works on the turn. *)
LEMMA FlushOkSep ==
    ASSUME AgyInv, SepInv, NEW t \in Task, At(t, "flush"), NEW n, n = task[t].turn, NEW k, k = turns[n].host,
           k \in DOMAIN work, work' = [work EXCEPT ![k] = n],
           NEW point, point = (IF n = k THEN "init" ELSE Started(t)), Goto(t, point),
           activation' \in {activation, Released(t)}, UNCHANGED <<store, binding, turns, sess>>
    PROVE  SepInv'
<1>1. /\ SuperOK /\ ConvsOK /\ Len(turns) \in Nat /\ Creator \notin Dispatcher
      /\ task[t].pc = "flush" /\ SpotOK(t) /\ TurnOK(t)
  BY Places, TurnsDomain DEF AgyInv, SepInv, SuperOK, At
<1>2. n \in 1 .. Len(turns) /\ k \in 1 .. Len(turns) /\ turns[n].first = (t = Creator)
  BY <1>1 DEF TurnOK, HasTurn, SuperOK
<1>3. /\ Seen(k) => work[k] = 0 /\ sess[k].turn = n
      /\ n # k => turns[k].conv # None
      /\ t = Creator => binding = None
      /\ t # Creator => task[t].conv # None
      /\ t = Creator => n = k
  BY <1>1, <1>2 DEF SpotOK, BeforeBinding, ConvsOK
<1>4. /\ point \in {"init", "rotate", "persist"} /\ point \in Points /\ (t = Creator => point = "init") /\ (n # k => point # "init")
  BY <1>3 DEF Started, Points
<1>5. /\ Moves(t) /\ task'[t].pc = point /\ task'[t].prompt = task[t].prompt
      /\ task'[t].conv = task[t].conv /\ task'[t].turn = n
  BY <1>4, Went DEF AgyInv, PlainOK
<1>6. \A u \in Task : u # t => task'[u] = task[u]
  BY <1>5 DEF Moves
<1>7. DOMAIN work' = DOMAIN work /\ work'[k] = n /\ \A j \in DOMAIN work : j # k => work'[j] = work[j]
  BY <1>1 DEF SuperOK
<1>8. Seen(k)' <=> Seen(k)
  BY <1>7 DEF Seen
<1>9. ProcessOK(k)'
  <2>1. ProcessOK(k)
    BY <1>2 DEF SepInv
  <2> QED BY <1>3, <1>7, <1>8, <2>1 DEF ProcessOK
<1>10. GracesOK(k)'
  <2>1. ASSUME NEW m \in 1 .. Len(turns), turns[m].host = k PROVE GraceOK(m)'
    <3>1. GraceOK(m)
      BY <2>1 DEF SepInv
    <3> QED BY <1>7, <2>1, <3>1 DEF GraceOK, Seen
  <2> QED BY <2>1 DEF GracesOK, GraceOK
<1>11. SpotOK(t)'
  <2>1. turns'[n].host = k
    OBVIOUS
  <2>2. (t = Creator => binding' = None) /\ (t # Creator => task'[t].conv # None)
    BY <1>3, <1>5
  <2>3. task'[t].pc = point /\ task'[t].turn = n
    BY <1>5
  <2>4. point \in {"init", "kill"} => k = n
    BY <1>4
  <2>5. point \in WithConv => turns'[k].conv # None
    BY <1>3, <1>4 DEF WithConv
  <2>6. point \notin {"write", "reuse", "flush"}
    BY <1>4
  <2> QED BY ONLY <2>1, <2>2, <2>3, <2>4, <2>5, <2>6, SpotFrom, t \in Task
<1>12. ClearOf(t, k)
  <2>1. ASSUME NEW u \in Task, u # t
        PROVE  /\ task[u].pc = "write" => task[u].turn # k
               /\ task[u].pc = "reuse" /\ task[u].turn = k => k \notin DOMAIN sess' \/ sess'[k].phase = "idle"
               /\ task[u].pc = "flush" /\ turns[task[u].turn].host = k => ~Seen(k)'
    <3>1. SpotOK(u) /\ TurnOK(u)
      BY <2>1 DEF SepInv, AgyInv
    <3>2. PICK m : m = task[u].turn
      OBVIOUS
    <3>3. task[u].pc \in {"write", "flush"} => m # n
      BY <1>1, <2>1, <3>2, OwnTurn DEF HasTurn
    <3>4. task[u].pc = "write" /\ m = k => n = k
      BY <1>2, <3>1, <3>2 DEF SpotOK
    <3>5. task[u].pc = "reuse" /\ m = k => k \notin DOMAIN sess \/ sess[k].phase = "idle"
      BY <3>1, <3>2 DEF SpotOK
    <3>6. task[u].pc = "flush" /\ turns[m].host = k => (Seen(k) => sess[k].turn = m)
      BY <3>1, <3>2 DEF SpotOK
    <3>7. task[u].pc = "flush" /\ turns[m].host = k => ~Seen(k)
      BY <1>3, <3>3, <3>6
    <3> QED BY <1>8, <3>2, <3>3, <3>4, <3>5, <3>7
  <2> QED BY <2>1 DEF ClearOf
<1>13. UNCHANGED <<queue, row, queuings, binding>>
  BY DEF store
<1>14. TaskGoes(t)
  <2>1. t = Creator => task'[t].pc \in FirstSpots /\ task'[t].turn = task[t].turn
    BY <1>4, <1>5 DEF FirstSpots
  <2>2. t \in Dispatcher => task'[t].pc \in PostWrite /\ task'[t].turn = task[t].turn
    BY <1>4, <1>5 DEF PostWrite
  <2>3. task[t].pc \notin {"idle", "runtime", "head"} /\ task'[t].pc \notin {"idle", "runtime", "head"}
    BY <1>1, <1>4, <1>5
  <2>4. task'[t].prompt = task[t].prompt /\ task'[t].conv = task[t].conv
    BY <1>5
  <2> QED BY ONLY <1>6, <2>1, <2>2, <2>3, <2>4 DEF TaskGoes
<1>15. TurnComes(t, k)
  <2>1. turns' = turns /\ k \in 1 .. Len(turns) /\ Len(turns) \in Nat
    BY <1>1, <1>2
  <2> QED BY ONLY <2>1 DEF TurnComes
<1>16. OnlyAt(k)
  BY <1>7 DEF OnlyAt
<1>17. Busily(k)' => Busily(k) /\ k \in DOMAIN sess
  BY <1>8 DEF Busily, Seen
<1>18. BusyOK(k)'
  <2>1. CASE k \in DOMAIN sess
    <3>1. /\ t \in Dispatcher => task[t].pc \notin {"idle", "runtime"}
          /\ t = Creator /\ task[t].pc \in FirstSpots => task'[t].pc \in FirstSpots /\ task'[t].turn = task[t].turn
          /\ t \in Dispatcher /\ task[t].pc \in PostWrite =>
                task'[t].pc \in PostWrite /\ task'[t].turn = task[t].turn /\ task'[t].prompt = task[t].prompt
      BY <1>1, <1>14 DEF TaskGoes
    <3>2. /\ Len(turns') \in {Len(turns), Len(turns) + 1} /\ \A m \in 1 .. Len(turns) : turns'[m] = turns[m]
          /\ sess'[k] = sess[k] /\ UNCHANGED <<queue, row, binding>>
      BY <1>13
    <3> QED BY <1>6, <1>8, <2>1, <3>1, <3>2, BusyStays
  <2>2. CASE k \notin DOMAIN sess
    BY <1>17, <2>2 DEF BusyOK
  <2> QED BY <2>1, <2>2
<1>19. Busily(k)' => \A j \in DOMAIN sess : j # k => ~Busily(j)
  BY <1>17 DEF SepInv
<1> QED BY <1>9, <1>10, <1>11, <1>12, <1>13, <1>14, <1>15, <1>16, <1>18, <1>19, BeginsSep

(* The line is written, or the process is gone. *)
LEMMA FlushPromptSep == ASSUME AgyInv, SepInv, NEW t \in Task, FlushPrompt(t) PROVE SepInv'
<1>1. PICK n : n = task[t].turn
  OBVIOUS
<1>2. PICK k : k = turns[n].host
  OBVIOUS
<1>3. At(t, "flush") /\ UNCHANGED <<store, binding>> /\ UNCHANGED <<queue, row, queuings>>
  BY DEF FlushPrompt, store
<1>4. CASE k \notin DOMAIN work
  <2>1. Failed(k) /\ StartFails(t) /\ activation' = Released(t) /\ UNCHANGED work
    BY <1>1, <1>2, <1>4 DEF FlushPrompt
  <2> QED BY <1>1, <1>2, <1>3, <1>4, <2>1, FlushFailsSep
<1>5. CASE k \in DOMAIN work
  <2>1. /\ work' = [work EXCEPT ![k] = n] /\ UNCHANGED <<turns, sess>>
        /\ \/ n = k /\ Goto(t, "init") /\ activation' = activation
           \/ n # k /\ Goto(t, Started(t)) /\ activation' = Released(t)
    BY <1>1, <1>2, <1>5 DEF FlushPrompt
  <2>2. PICK point : point = (IF n = k THEN "init" ELSE Started(t))
    OBVIOUS
  <2>3. Goto(t, point) /\ activation' \in {activation, Released(t)}
    BY <2>1, <2>2
  <2> QED BY <1>1, <1>2, <1>3, <1>5, <2>1, <2>2, <2>3, FlushOkSep
<1> QED BY <1>4, <1>5

-----------------------------------------------------------------------------
(* A crash, the start, and all steps *)

(* A crash names no conversation anew. *)
LEMMA FallenKeeps ==
    ASSUME NEW r \in TurnType
    PROVE  /\ Fallen(r).conv = r.conv /\ Fallen(r).first = r.first /\ Fallen(r).host = r.host /\ Fallen(r).exit = "lost"
           /\ Fallen(r).init = "ok" => r.init = "ok"
<1>1. PICK final : final = IF r.final = "wait" THEN "lost" ELSE r.final
  OBVIOUS
<1>2. PICK a : a = [r EXCEPT !.final = final, !.exit = "lost", !.reader = "gone", !.grace = "done"]
  OBVIOUS
<1>3. a.init = r.init /\ a.conv = r.conv /\ a.first = r.first /\ a.host = r.host /\ a.exit = "lost" /\ DOMAIN a = DOMAIN r
  BY <1>2 DEF TurnType
<1>4. PICK ini : ini = IF r.init = "wait" THEN "error" ELSE r.init
  OBVIOUS
<1>5. Fallen(r) = [a EXCEPT !.init = ini]
  BY <1>1, <1>2, <1>3, <1>4 DEF Fallen, TurnType
<1>6. "init" \in DOMAIN a
  BY <1>3 DEF TurnType
<1>7. Fallen(r).init = ini
  BY <1>5, <1>6
<1> QED BY <1>3, <1>4, <1>5, <1>7

(* A crash leaves no session, and every task idle. *)
LEMMA CrashSep == ASSUME AgyInv, SepInv, Crash PROVE SepInv'
<1>1. /\ SuperOK /\ ConvsOK /\ Len(turns) \in Nat /\ DOMAIN turns = 1 .. Len(turns)
      /\ \A n \in 1 .. Len(turns) : turns[n] \in TurnType
      /\ Creator \in Task /\ Dispatcher \subseteq Task
  BY Places, TurnsDomain, TurnIsTyped DEF AgyInv, SepInv
<1>2. /\ \A t \in Task : task'[t] = Idle
      /\ activation' = None /\ sess' = [k \in {} |-> 0] /\ binding' = binding
  BY DEF Crash
<1>3. /\ DOMAIN turns' = 1 .. Len(turns) /\ \A n \in 1 .. Len(turns) : turns'[n] = Fallen(turns[n])
  BY <1>1 DEF Crash, Fallen
<1>4. Len(turns') = Len(turns)
  <2>1. \A n \in 1 .. Len(turns) : Fallen(turns[n]) \in TurnType
    BY <1>1, FallenTyped
  <2>2. turns' = [n \in 1 .. Len(turns) |-> Fallen(turns[n])]
    BY <1>1 DEF Crash, Fallen
  <2>3. turns' \in [1 .. Len(turns) -> TurnType]
    BY <2>1, <2>2
  <2> QED BY <1>1, <2>3, SeqDef, LenProperties
<1>5. \A n \in 1 .. Len(turns) :
         /\ turns'[n].conv = turns[n].conv /\ turns'[n].first = turns[n].first /\ turns'[n].host = turns[n].host
         /\ turns'[n].exit = "lost" /\ (turns'[n].init = "ok" => turns[n].init = "ok")
  BY <1>1, <1>3, FallenKeeps
<1>6. DOMAIN sess' = {} /\ DOMAIN work' \subseteq 1 .. Len(turns)
  <2>1. DOMAIN work' \subseteq DOMAIN work
    BY DEF Crash
  <2> QED BY <1>1, <1>2, <2>1 DEF SuperOK
<1>7. \A t \in Task : task'[t].pc = "idle" /\ task'[t].conv = None
  BY <1>2 DEF Idle
<1>8. ConvsOK'
  <2>1. None # Creator
    BY NoneAssumption
  <2> QED BY <1>1, <1>2, <1>4, <1>5, <1>7, <2>1 DEF ConvsOK, Named
<1>9. ASSUME NEW k \in 1 .. Len(turns') PROVE ProcessOK(k)' /\ GraceOK(k)'
  BY <1>4, <1>5, <1>6, <1>9 DEF ProcessOK, GraceOK, Seen
<1>10. \A t \in Task : SpotOK(t)'
  BY <1>7 DEF SpotOK, WithConv, BeforeBinding
<1>11. \A d \in Dispatcher : HeadOK(d)'
  BY <1>1, <1>7 DEF HeadOK
<1>12. binding' = None => (\A d \in Dispatcher : task'[d].pc = "idle") /\ \A n \in 1 .. Len(turns') : turns'[n].first
  BY <1>1, <1>2, <1>4, <1>5, <1>7 DEF SepInv
<1> QED BY <1>6, <1>8, <1>9, <1>10, <1>11, <1>12 DEF SepInv

(* The turns are apart at the start. *)
LEMMA InitSep == ASSUME Init PROVE SepInv
<1>1. /\ turns = <<>> /\ DOMAIN sess = {} /\ DOMAIN work = {} /\ activation = None
      /\ \A t \in Task : task[t].pc = "idle" /\ task[t].conv = None
  BY DEF Init
<1>2. Len(turns) = 0 /\ Creator \in Task /\ Dispatcher \subseteq Task
  BY <1>1, Places
<1>3. ConvsOK
  <2>1. None # Creator /\ (binding # None => binding = 0)
    BY NoneAssumption DEF Init
  <2> QED BY <1>1, <1>2, <2>1 DEF ConvsOK, Named
<1>4. \A t \in Task : SpotOK(t)
  BY <1>1 DEF SpotOK, WithConv, BeforeBinding
<1>5. \A d \in Dispatcher : HeadOK(d)
  BY <1>1, <1>2 DEF HeadOK
<1> QED BY <1>1, <1>2, <1>3, <1>4, <1>5 DEF SepInv

(* A step that changes nothing keeps the turns apart. *)
LEMMA StutterSep == ASSUME SepInv, UNCHANGED vars PROVE SepInv'
<1>1. UNCHANGED <<queue, row, queuings, binding, convs, task, activation, turns, sess, work>>
  BY DEF vars
<1>2. ConvsOK' <=> ConvsOK
  BY <1>1 DEF ConvsOK, Named
<1>3. \A k : (ProcessOK(k)' <=> ProcessOK(k)) /\ (GraceOK(k)' <=> GraceOK(k))
  BY <1>1 DEF ProcessOK, GraceOK, Seen
<1>4. \A t : SpotOK(t)' <=> SpotOK(t)
  BY <1>1 DEF SpotOK, Seen, Unnamed
<1>5. \A d : HeadOK(d)' <=> HeadOK(d)
  BY <1>1 DEF HeadOK
<1>6. \A k : (BusyOK(k)' <=> BusyOK(k)) /\ (Busily(k)' <=> Busily(k))
  BY <1>1 DEF BusyOK, Busily, Seen, FirstOK, QueuedOK, Awaited
<1> QED BY <1>1, <1>2, <1>3, <1>4, <1>5, <1>6 DEF SepInv

(* Every step of a task that delivers keeps the turns apart. *)
LEMMA TaskStepSep == ASSUME AgyInv, SepInv, NEW t \in Task, TaskStep(t) PROVE SepInv'
BY SpawnSessionSep, WritePromptSep, FlushPromptSep, AwaitInitSep,
   KillAfterTimeoutSep, PersistSep, StopOwnSep, FailRowSep
   DEF TaskStep

(* Every step of a dispatcher keeps the turns apart. *)
LEMMA DispatchStepSep == ASSUME AgyInv, SepInv, NEW d \in Dispatcher, DispatchStep(d) PROVE SepInv'
BY ReadRuntimeSep, ReadHeadSep, ClaimSep, RouteSep, RecheckSep, DiscardsSep, BeginSep,
   FindSessionSep, RotateSep, CompactRotatesSep
   DEF DispatchStep

(* Every step keeps the turns apart. *)
LEMMA NextSep == ASSUME AgyInv, SepInv, Next PROVE SepInv'
<1>1. ASSUME NEW p \in Prompt, Send(p) \/ Retry(p) \/ RemoveRow(p) \/ Create(p) PROVE SepInv'
  BY <1>1, SendSep, RetrySep, RemoveRowSep, CreateSep
<1>2. ASSUME NEW d \in Dispatcher, Spawned(d) \/ CompactAsked(d) \/ DispatchStep(d) PROVE SepInv'
  BY <1>2, SpawnedSep, CompactAskedSep, DispatchStepSep
<1>3. ASSUME NEW t \in Task, TaskStep(t) PROVE SepInv'
  BY <1>3, TaskStepSep
<1>4. CASE CreateStep
  BY <1>4, CreateRoutesSep, CreateBindsSep, CreateEnqueuesSep DEF CreateStep
<1>5. ASSUME NEW n \in Turns,
             \/ Stop(n) \/ GraceStep(n) \/ Inits(n) \/ Results(n, "success") \/ Results(n, "error")
             \/ ProcessFails(n) \/ SessionStep(n)
      PROVE  SepInv'
  BY <1>5, SupervisorSep
<1>6. ASSUME NEW n \in Turns, Finalize(n) PROVE SepInv'
  BY <1>6, FinalizeSep
<1> QED BY <1>1, <1>2, <1>3, <1>4, <1>5, <1>6, CrashSep DEF Next

(* Both invariants together hold in every state that can be reached. *)
LEMMA SepInvariant == Spec => [](AgyInv /\ SepInv)
<1>1. Init => AgyInv /\ SepInv
  BY InitKeeps, InitSep
<1>2. (AgyInv /\ SepInv) /\ [Next]_vars => (AgyInv /\ SepInv)'
  <2>1. ASSUME AgyInv, SepInv, Next PROVE AgyInv' /\ SepInv'
    BY <2>1, NextKeeps, NextSep
  <2>2. ASSUME AgyInv, SepInv, UNCHANGED vars PROVE AgyInv' /\ SepInv'
    BY <2>2, StutterKeeps, StutterSep
  <2> QED BY <2>1, <2>2
<1> QED BY <1>1, <1>2, PTL DEF Spec

(* The invariants say that one turn is at work, and that a kill hits it. *)
LEMMA InvSeparate == AgyInv /\ SepInv => TurnsAreSeparate
<1> SUFFICES ASSUME AgyInv, SepInv PROVE TurnsAreSeparate
  OBVIOUS
<1>1. /\ SuperOK /\ DOMAIN turns = 1 .. Len(turns)
      /\ \A k \in 1 .. Len(turns) : ProcessOK(k) /\ GraceOK(k)
      /\ \A j, k \in DOMAIN sess : Busily(j) /\ Busily(k) => j = k
  BY TurnsDomain DEF AgyInv, SepInv
<1>2. PICK S : S = {k \in DOMAIN work : /\ work[k] # 0 /\ turns[k].exit # "lost" /\ turns[k].reader = "ok"
                                        /\ k \in DOMAIN sess => sess[k].phase # "stopping"}
  OBVIOUS
<1>3. \A k \in S : k \in DOMAIN sess /\ Busily(k)
  <2>1. SUFFICES ASSUME NEW k \in S PROVE k \in DOMAIN sess /\ Busily(k)
    OBVIOUS
  <2>2. k \in DOMAIN work /\ k \in 1 .. Len(turns) /\ ProcessOK(k)
    BY <1>1, <1>2 DEF SuperOK
  <2>3. k \in DOMAIN sess /\ Seen(k)
    BY <1>2, <2>2 DEF ProcessOK, Seen
  <2> QED BY <1>2, <2>2, <2>3 DEF ProcessOK, Busily
<1>4. Cardinality(S) <= 1
  <2>1. CASE S = {}
    BY <2>1, FS_EmptySet
  <2>2. CASE S # {}
    <3>1. PICK k : k \in S
      BY <2>2
    <3>2. S = {k}
      BY <1>1, <1>3, <3>1
    <3> QED BY <3>2, FS_Singleton
  <2> QED BY <2>1, <2>2
<1>5. OneTurnAtWork
  BY <1>2, <1>4 DEF OneTurnAtWork
<1>6. GraceKillsOwn
  <2>1. SUFFICES ASSUME NEW n \in 1 .. Len(turns), NEW k, k = turns[n].host, turns[n].grace = "kill",
                        k \in DOMAIN sess \cap DOMAIN work, IsActive(k), turns[k].reader = "ok"
                 PROVE  sess[k].turn = n
    BY <1>1 DEF GraceKillsOwn
  <2>2. Seen(k) /\ k \in 1 .. Len(turns)
    BY <1>1, <2>1 DEF Seen, SuperOK
  <2>3. sess[k].phase # "stopped"
    BY <1>1, <2>1, <2>2 DEF ProcessOK, IsActive
  <2> QED BY <1>1, <2>1, <2>2, <2>3 DEF GraceOK
<1> QED BY <1>5, <1>6 DEF TurnsAreSeparate

(* The supervisor works at one turn for the thread at a time, and the kill  *)
(* after a stop hits its own turn (services/agy_provider.rs: start_turn,    *)
(* stop_turn, kill_session; commands/agy_provider.rs: dispatch, compaction, *)
(* first send): for every set of prompts and dispatchers and every setup.   *)
THEOREM TurnsStaySeparate == Spec => []TurnsAreSeparate
BY SepInvariant, InvSeparate, PTL

=============================================================================
