------------------------ MODULE CodexAppServerProofs ------------------------
(***************************************************************************)
(* Proofs about the supervisor of the Codex app-server, for every set of   *)
(* callers, requests, turns and faults.  First the inductive invariant     *)
(* ServerInv of CodexAppServer: the callers agree with the pending map and *)
(* with what is on the way to them (CallersOK), every process but the      *)
(* registered one was told to stop (ProcessesOK), and each evaluation is   *)
(* in one place (SeedsOK).  Then VoiceInv of CodexVoice, the same          *)
(* supervisor's voice sessions: the registered entry is the session whose  *)
(* audio flows or may flow.                                                *)
(***************************************************************************)
EXTENDS CodexAppServer, CodexVoice, SequenceTheorems, FiniteSetTheorems, TLAPS

-----------------------------------------------------------------------------
(* The inductive invariant of the supervisor *)

(* A caller has a sender registered, or had it answered, only while it      *)
(* writes and waits; what it is told during the handshake is about that.    *)
Waiting == {"initWait", "wait"}
Busy == {"initWrite", "write"} \cup Waiting
Handshake == {"initSend", "initWrite", "initWait", "initDone", "invalidate"}

(* The types, of turns that were asked for: n of them.                      *)
Requests(n) == [id : Id, kind : Kinds \cup {"initialize"}, turn : 0 .. n]
Lines(n) == [type : {"reply", "refused", "started", "completed", "garbage"},
             id : Id \cup {0}, turn : 0 .. n]
Inputs(n) == {m \in Requests(n) : m.kind = "start" => m.turn # 0}
Outputs(n) == {m \in Lines(n) : m.type \in {"started", "completed"} => m.turn # 0}
Processes(n) == [alive : BOOLEAN, killed : BOOLEAN, reaped : BOOLEAN, turn : 0 .. n,
                 stdin : Seq(Inputs(n)), stdout : Seq(Outputs(n))]
Told(n) == [ok : BOOLEAN, id : Id \cup {0}, turn : 0 .. n]
Calls(n) == [pc : Points, gen : Generation \cup {0}, id : Id \cup {0}, turn : 0 .. n,
             answer : Told(n)]
Seeds(n) == [waiting : 0 .. n, active : [Turn -> 0 .. n], finished : [Turn -> Nat]]

Bookkeeping ==
    /\ process \in [gen : 0 .. generation, ready : BOOLEAN]
    /\ generation \in 0 .. MaxFaults + 1
    /\ startup \in Caller \cup {None}
    /\ pending \subseteq Id
    /\ terminal \subseteq Turn
    /\ setup \in Setups /\ starts \in 0 .. setup.starts /\ faults \in Nat

(* The senders: each caller that waits has one, with some process, each has *)
(* its own id, and each is somebody's.                                      *)
IdsOK(cs, senders) ==
    /\ \A c \in Caller : cs[c].id # 0 <=> cs[c].pc \in Busy
    /\ \A c \in Caller : cs[c].pc \in Busy => cs[c].gen # 0
    /\ \A c, d \in Caller : cs[c].id = cs[d].id /\ cs[c].id # 0 => c = d
    /\ \A c \in Caller : cs[c].pc \in Waiting => cs[c].id \in senders
    /\ \A i \in senders : \E c \in Caller : cs[c].id = i

(* One caller at a time starts a turn, the last one asked for, and is       *)
(* answered with it.                                                        *)
Starts(c, cs) == KindOf[c] = "start" /\ cs[c].pc # "idle"
AnswerOK(c, cs) ==
    Starts(c, cs) /\ cs[c].pc \notin Handshake /\ cs[c].answer.ok
       => cs[c].answer.turn = cs[c].turn
TurnsOK(cs, n) ==
    /\ \A c, d \in Caller : Starts(c, cs) /\ Starts(d, cs) => c = d
    /\ \A c \in Caller : Starts(c, cs) => cs[c].turn = n /\ n # 0
    /\ \A c \in Caller : KindOf[c] = "interrupt" /\ cs[c].pc # "idle" => cs[c].turn # 0
    /\ \A c \in Caller : AnswerOK(c, cs)
    /\ \A c \in Caller : cs[c].pc = "idle" => ~cs[c].answer.ok
    /\ \A c \in Caller : cs[c].pc = "check" => KindOf[c] # "start"

(* What is on the way under the id of a start is about its turn.            *)
InputOf(c, cs, m) == m.id = cs[c].id => m.kind = "start" /\ m.turn = cs[c].turn
OutputOf(c, cs, m) == m.id = cs[c].id /\ m.type = "reply" => m.turn = cs[c].turn
Sender(c, cs) == KindOf[c] = "start" /\ cs[c].pc \in {"write", "wait"}
MessagesOK(cs, ps) ==
    \A c \in Caller, g \in Generation : Sender(c, cs) =>
        /\ \A i \in 1 .. Len(ps[g].stdin) : InputOf(c, cs, ps[g].stdin[i])
        /\ \A i \in 1 .. Len(ps[g].stdout) : OutputOf(c, cs, ps[g].stdout[i])

(* The callers, with their senders and what is on the way to them.          *)
CallersOK(cs, senders, ps, n) ==
    /\ cs \in [Caller -> Calls(n)]
    /\ IdsOK(cs, senders) /\ TurnsOK(cs, n) /\ MessagesOK(cs, ps)

(* Every process but the registered one was told to stop, and those to come *)
(* have not begun.                                                          *)
ProcessesOK(registered, last, ps, n) ==
    /\ ps \in [Generation -> Processes(n)]
    /\ \A g \in Generation : ps[g].alive /\ g # registered => ps[g].killed
    /\ \A g \in Generation : g > last => ps[g] = Unborn

(* The evaluation of each turn is in one place; one that waits is that of   *)
(* the start under way, and not captured yet.                               *)
Captures(s, m) == {t \in Turn : s.active[t] = m}
Places(s, m) == (IF s.waiting = m THEN 1 ELSE 0) + Cardinality(Captures(s, m)) + s.finished[m]
SeedsOK(s, n) ==
    /\ s \in Seeds(n)
    /\ \A m \in 1 .. n : Places(s, m) = 1
    /\ \A m \in Turn : m > n => s.finished[m] = 0 /\ s.active[m] = 0
    /\ s.waiting # 0 => s.waiting = n /\ s.active[n] = 0
Asked(s, cs) == s.waiting # 0 => \E c \in Caller : Starts(c, cs)

RuntimeOK(r, n) ==
    /\ r \in [phase : Phases, turn : 0 .. n]
    /\ r.phase \in {"active", "stopping"} => r.turn # 0

ServerInv ==
    /\ Bookkeeping
    /\ CallersOK(call, pending, os, starts)
    /\ ProcessesOK(process.gen, generation, os, starts)
    /\ SeedsOK(seeds, starts) /\ Asked(seeds, call)
    /\ RuntimeOK(runtime, starts)

-----------------------------------------------------------------------------
(* Lemmas about the parts *)

LEMMA Plain ==
    ASSUME Bookkeeping
    PROVE  /\ starts \in 0 .. MaxStarts /\ MaxStarts \in Nat /\ MaxFaults \in Nat
           /\ generation \in Nat /\ process.gen \in 0 .. generation
           /\ process \in [gen : Generation \cup {0}, ready : BOOLEAN]
           /\ 0 \notin Id /\ 0 \notin pending /\ 0 \notin Generation
           /\ Generation = 1 .. MaxFaults + 1
<1>1. setup \in SetupType
  BY SetupAssumption DEF Bookkeeping
<1>2. setup.starts \in 0 .. MaxStarts
  BY <1>1 DEF SetupType
<1>3. 0 \notin Id
  BY IdAssumption
<1> QED BY <1>2, <1>3, BoundAssumption DEF Bookkeeping, Generation

LEMMA ServerInvNext ==
    ASSUME Bookkeeping', CallersOK(call', pending', os', starts'),
           ProcessesOK(process'.gen, generation', os', starts'),
           SeedsOK(seeds', starts'), Asked(seeds', call'), RuntimeOK(runtime', starts')
    PROVE  ServerInv'
BY DEF ServerInv

(* One caller does not wait (any more); its sender, if it has one, is gone. *)
LEMMA CallerStepsAside ==
    ASSUME NEW cs, NEW senders, NEW ps, NEW n, CallersOK(cs, senders, ps, n),
           0 \notin senders,
           NEW cs2 \in [Caller -> Calls(n)], NEW c \in Caller,
           \A d \in Caller \ {c} : cs2[d] = cs[d],
           cs2[c].id = 0, cs2[c].pc \notin Busy,
           \/ cs2[c].pc = "idle" /\ ~cs2[c].answer.ok
           \/ cs2[c].pc # "idle" /\ cs[c].pc # "idle" /\ cs2[c].turn = cs[c].turn
           \/ /\ cs2[c].pc # "idle" /\ KindOf[c] # "start"
              /\ KindOf[c] = "interrupt" => cs2[c].turn # 0,
           AnswerOK(c, cs2), cs2[c].pc = "check" => KindOf[c] # "start"
    PROVE  CallersOK(cs2, senders \ {cs[c].id}, ps, n)
<1> USE DEF CallersOK
<1>1. IdsOK(cs2, senders \ {cs[c].id})
  BY DEF IdsOK, Waiting, Busy
<1>2. TurnsOK(cs2, n)
  <2>1. \A d \in Caller : Starts(d, cs2) => Starts(d, cs) /\ cs2[d].turn = cs[d].turn
    BY DEF Starts
  <2>2. \A d, e \in Caller : Starts(d, cs2) /\ Starts(e, cs2) => d = e
    BY <2>1 DEF TurnsOK
  <2>3. \A d \in Caller : Starts(d, cs2) => cs2[d].turn = n /\ n # 0
    BY <2>1 DEF TurnsOK
  <2>4. \A d \in Caller : KindOf[d] = "interrupt" /\ cs2[d].pc # "idle" => cs2[d].turn # 0
    BY DEF TurnsOK
  <2>5. \A d \in Caller : AnswerOK(d, cs2)
    BY DEF TurnsOK, AnswerOK, Starts
  <2>6. \A d \in Caller : cs2[d].pc = "idle" => ~cs2[d].answer.ok
    BY DEF TurnsOK
  <2>7. \A d \in Caller : cs2[d].pc = "check" => KindOf[d] # "start"
    BY DEF TurnsOK
  <2> QED BY <2>2, <2>3, <2>4, <2>5, <2>6, <2>7 DEF TurnsOK
<1>3. MessagesOK(cs2, ps)
  <2>1. \A d \in Caller : Sender(d, cs2) => d # c
    BY DEF Sender, Busy, Waiting
  <2> QED BY <2>1 DEF MessagesOK, Sender, InputOf, OutputOf
<1> QED BY <1>1, <1>2, <1>3

(* The callers whose senders are gone are answered. *)
AnsweredAll(cs, gone, answer) == [c \in Caller |->
    IF cs[c].id \in gone THEN Answered(cs, c, answer) ELSE cs[c]]

LEMMA AnsweredType ==
    ASSUME NEW n, NEW cs \in [Caller -> Calls(n)], NEW c \in Caller, NEW answer \in Told(n)
    PROVE  Answered(cs, c, answer) \in Calls(n)
BY DEF Answered, Calls, Points

LEMMA CallersAreAnswered ==
    ASSUME NEW cs, NEW senders, NEW ps, NEW n, CallersOK(cs, senders, ps, n),
           0 \notin senders, NEW gone \in SUBSET senders, NEW answer \in Told(n),
           \A c \in Caller : cs[c].id \in gone /\ Sender(c, cs) /\ answer.ok
                                => answer.turn = cs[c].turn
    PROVE  CallersOK(AnsweredAll(cs, gone, answer), senders \ gone, ps, n)
<1> DEFINE cs2 == AnsweredAll(cs, gone, answer)
           told == {c \in Caller : cs[c].id \in gone}
<1> USE DEF CallersOK
<1>d. /\ cs2 = [c \in Caller |-> cs2[c]]
      /\ \A c \in Caller : cs2[c] = IF c \in told THEN Answered(cs, c, answer) ELSE cs[c]
  BY DEF AnsweredAll
<1>e. /\ told \subseteq Caller /\ \A c \in Caller : c \in told <=> cs[c].id \in gone
      /\ \A c \in told : Sender(c, cs) /\ answer.ok => answer.turn = cs[c].turn
  OBVIOUS
<1> HIDE DEF cs2, told
<1>0. cs \in [Caller -> Calls(n)]
  OBVIOUS
<1>a. \A c \in Caller : cs2[c] \in Calls(n)
  BY <1>0, <1>d, <1>e, AnsweredType
<1>b. cs2 \in [Caller -> Calls(n)]
  BY <1>a, <1>d
<1>c. \A c \in Caller :
         /\ cs2[c].turn = cs[c].turn /\ cs2[c].gen = cs[c].gen
         /\ cs[c].pc # "idle" <=> cs2[c].pc # "idle"
         /\ cs2[c].id = IF c \in told /\ cs[c].pc \in Waiting THEN 0 ELSE cs[c].id
         /\ cs2[c].answer = IF c \in told THEN answer ELSE cs[c].answer
         /\ c \in told /\ cs[c].pc = "wait" => cs2[c].pc = "done"
         /\ c \in told /\ cs[c].pc = "initWait" => cs2[c].pc = "initDone"
         /\ c \notin told \/ cs[c].pc \notin Waiting => cs2[c].pc = cs[c].pc
  <2> TAKE c \in Caller
  <2>1. /\ cs[c] \in [pc : Points, gen : Generation \cup {0}, id : Id \cup {0}, turn : 0 .. n,
                      answer : Told(n)]
        /\ cs2[c] = IF c \in told THEN Answered(cs, c, answer) ELSE cs[c]
    BY <1>0, <1>d DEF Calls
  <2>2. CASE c \notin told
    BY <2>1, <2>2
  <2>3. CASE c \in told /\ cs[c].pc \in Waiting
    BY <2>1, <2>3 DEF Answered, Waiting
  <2>4. CASE c \in told /\ cs[c].pc \notin Waiting
    BY <2>1, <2>4 DEF Answered, Waiting
  <2> QED BY <2>2, <2>3, <2>4
<1>1. IdsOK(cs2, senders \ gone)
  <2>1. \A c \in Caller : cs2[c].id # 0 <=> cs2[c].pc \in Busy
    BY <1>c DEF IdsOK, Waiting, Busy
  <2>2. \A c, d \in Caller : cs2[c].id = cs2[d].id /\ cs2[c].id # 0 => c = d
    BY <1>c, <1>e DEF IdsOK
  <2>3. \A c \in Caller : cs2[c].pc \in Waiting => cs2[c].id \in senders \ gone
    BY <1>c, <1>e DEF IdsOK, Waiting
  <2>4. \A i \in senders \ gone : \E c \in Caller : cs2[c].id = i
    BY <1>c, <1>e DEF IdsOK
  <2>5. \A c \in Caller : cs2[c].pc \in Busy => cs2[c].gen # 0
    BY <1>c DEF IdsOK, Busy, Waiting
  <2> QED BY <2>1, <2>2, <2>3, <2>4, <2>5 DEF IdsOK
<1>2. TurnsOK(cs2, n)
  <2>1. \A c \in Caller : Starts(c, cs2) <=> Starts(c, cs)
    BY <1>c DEF Starts
  <2>2. \A c, d \in Caller : Starts(c, cs2) /\ Starts(d, cs2) => c = d
    BY <2>1 DEF TurnsOK
  <2>3. \A c \in Caller : Starts(c, cs2) => cs2[c].turn = n /\ n # 0
    BY <2>1, <1>c DEF TurnsOK
  <2>4. \A c \in Caller : KindOf[c] = "interrupt" /\ cs2[c].pc # "idle" => cs2[c].turn # 0
    BY <1>c DEF TurnsOK
  <2>5. ASSUME NEW c \in Caller
        PROVE  AnswerOK(c, cs2)
    <3>1. CASE c \notin told
      BY <3>1, <1>c DEF TurnsOK, AnswerOK, Starts
    <3>2. CASE c \in told
      <4>1. cs[c].id # 0
        BY <3>2, <1>e
      <4>2. cs[c].pc \in Busy
        BY <4>1 DEF IdsOK
      <4> QED BY <3>2, <4>2, <1>c, <1>e DEF AnswerOK, Starts, Handshake, Busy, Waiting, Sender
    <3> QED BY <3>1, <3>2
  <2>6. ASSUME NEW c \in Caller, cs2[c].pc = "idle"
        PROVE  ~cs2[c].answer.ok
    <3>1. cs[c].pc = "idle" /\ cs[c].id = 0
      BY <2>6, <1>c, <1>e DEF IdsOK, Busy, Waiting
    <3> QED BY <3>1, <1>c, <1>e DEF TurnsOK
  <2>7. \A c \in Caller : cs2[c].pc = "check" => KindOf[c] # "start"
    BY <1>c DEF TurnsOK, Waiting
  <2> QED BY <2>2, <2>3, <2>4, <2>5, <2>6, <2>7 DEF TurnsOK
<1>3. MessagesOK(cs2, ps)
  <2>1. \A c \in Caller : Sender(c, cs2) => Sender(c, cs) /\ cs2[c].id = cs[c].id /\ cs2[c].turn = cs[c].turn
    BY <1>c DEF Sender, Waiting
  <2> QED BY <2>1 DEF MessagesOK, InputOf, OutputOf
<1> QED BY <1>b, <1>1, <1>2, <1>3 DEF cs2

-----------------------------------------------------------------------------
(* Evaluations *)

LEMMA CapturesAreFinite == ASSUME NEW s, NEW m PROVE IsFiniteSet(Captures(s, m)) /\ Cardinality(Captures(s, m)) \in Nat
<1>1. IsFiniteSet(Turn)
  BY FS_Interval, BoundAssumption DEF Turn
<1>2. Captures(s, m) \in SUBSET Turn
  BY DEF Captures
<1>3. IsFiniteSet(Captures(s, m))
  BY <1>1, <1>2, FS_Subset
<1> QED BY <1>3, FS_CardinalityType

LEMMA SeedsAre ==
    ASSUME NEW n \in 0 .. MaxStarts, NEW s \in Seeds(n)
    PROVE  /\ s = [waiting |-> s.waiting, active |-> s.active, finished |-> s.finished]
           /\ s.waiting \in 0 .. n /\ s.active \in [Turn -> 0 .. n]
           /\ s.finished \in [Turn -> Nat]
           /\ 0 \notin Turn /\ (0 .. n) \ {0} \subseteq Turn
BY BoundAssumption DEF Seeds, Turn

LEMMA AllFinishedKeeps ==
    ASSUME NEW n \in 0 .. MaxStarts, NEW s, SeedsOK(s, n)
    PROVE  SeedsOK(AllFinished(s), n) /\ AllFinished(s).waiting = 0
<1> DEFINE r == AllFinished(s)
<1>0. s \in Seeds(n) /\ n \in Nat /\ MaxStarts \in Nat
  BY BoundAssumption DEF SeedsOK
<1>1. r.waiting = 0 /\ r.active = [t \in Turn |-> 0]
  BY <1>0 DEF AllFinished, Finish, Seeds
<1>2. /\ r = [waiting |-> r.waiting, active |-> r.active, finished |-> r.finished]
      /\ r.finished = [m \in Turn |-> (IF s.waiting = m THEN s.finished[m] + 1 ELSE s.finished[m])
                                          + Cardinality(Captures(s, m))]
  <2>1. /\ Finish(s, s.waiting) =
              [waiting |-> s.waiting, active |-> s.active,
               finished |-> IF s.waiting = 0 THEN s.finished
                            ELSE [s.finished EXCEPT ![s.waiting] = @ + 1]]
    BY <1>0, SeedsAre DEF Finish
  <2>2. \A m \in Turn : Finish(s, s.waiting).finished[m] =
                          IF s.waiting = m THEN s.finished[m] + 1 ELSE s.finished[m]
    BY <1>0, <2>1, SeedsAre
  <2>3. r = [waiting |-> 0, active |-> [t \in Turn |-> 0],
             finished |-> [m \in Turn |-> Finish(s, s.waiting).finished[m]
                                              + Cardinality(Captures(s, m))]]
    <3> DEFINE f == Finish(s, s.waiting)
    <3>1. r = [f EXCEPT !.waiting = 0, !.active = [t \in Turn |-> 0],
                        !.finished = [m \in Turn |-> @[m] + Cardinality(Captures(s, m))]]
      BY DEF AllFinished, Captures
    <3>2. f = [waiting |-> f.waiting, active |-> f.active, finished |-> f.finished]
      BY <2>1
    <3> HIDE DEF f, r
    <3>3. r = [waiting |-> 0, active |-> [t \in Turn |-> 0],
               finished |-> [m \in Turn |-> f.finished[m] + Cardinality(Captures(s, m))]]
      BY <3>1, <3>2
    <3> QED BY <3>3 DEF f, r
  <2> QED BY <2>2, <2>3
<1>3. \A m \in Turn : Cardinality(Captures(s, m)) \in Nat
  BY CapturesAreFinite
<1>4. r \in Seeds(n)
  BY <1>0, <1>1, <1>2, <1>3 DEF Seeds
<1>5. \A m \in Turn : Captures(r, m) = {}
  BY <1>1 DEF Captures, Turn
<1>6. \A m \in 1 .. n : Places(r, m) = 1
  <2> TAKE m \in 1 .. n
  <2>1. m \in Turn /\ Places(s, m) = 1
    BY <1>0 DEF SeedsOK, Turn
  <2>2. Cardinality(Captures(r, m)) = 0
    BY <1>5, <2>1, FS_EmptySet
  <2>3. s.finished[m] \in Nat
    BY <1>0, <2>1 DEF Seeds
  <2> QED BY <1>1, <1>2, <1>3, <2>1, <2>2, <2>3 DEF Places
<1>7. \A m \in Turn : m > n => r.finished[m] = 0 /\ r.active[m] = 0
  <2> SUFFICES ASSUME NEW m \in Turn, m > n PROVE r.finished[m] = 0 /\ r.active[m] = 0
    OBVIOUS
  <2>1. s.waiting # m /\ s.finished[m] = 0
    BY <1>0 DEF SeedsOK, Seeds, Turn
  <2>2. Captures(s, m) = {}
    BY <1>0 DEF Captures, Seeds, Turn
  <2>3. Cardinality(Captures(s, m)) = 0
    BY <2>2, FS_EmptySet
  <2> QED BY <1>1, <1>2, <2>1, <2>3
<1> QED BY <1>1, <1>4, <1>6, <1>7 DEF SeedsOK

LEMMA CapturedKeeps ==
    ASSUME NEW n \in 0 .. MaxStarts, NEW s, SeedsOK(s, n), NEW t \in 1 .. n
    PROVE  /\ SeedsOK(Captured(s, t), n)
           /\ Captured(s, t).waiting # 0 => s.waiting # 0
           /\ t = n => Captured(s, t).waiting = 0
<1> DEFINE r == Captured(s, t)
<1>0. s \in Seeds(n) /\ n \in Nat /\ MaxStarts \in Nat /\ t \in Turn /\ t \in Nat
  BY BoundAssumption DEF SeedsOK, Turn
<1>1. CASE s.active[t] # 0 \/ s.waiting = 0
  BY <1>1, <1>0 DEF Captured, SeedsOK
<1>2. CASE s.active[t] = 0 /\ s.waiting # 0
  <2>1. r = [s EXCEPT !.active[t] = s.waiting, !.waiting = 0]
    BY <1>2 DEF Captured
  <2>2. /\ r.waiting = 0 /\ r.finished = s.finished
        /\ r.active = [s.active EXCEPT ![t] = s.waiting]
        /\ r \in Seeds(n)
    <3>1. r = [waiting |-> 0, active |-> [s.active EXCEPT ![t] = s.waiting], finished |-> s.finished]
      BY <2>1, <1>0, SeedsAre
    <3> QED BY <3>1, <1>0, SeedsAre DEF Seeds
  <2>3. s.waiting = n
    BY <1>2 DEF SeedsOK
  <2>4. \A m \in 1 .. n : Places(r, m) = 1
    <3> TAKE m \in 1 .. n
    <3>1. m \in Turn /\ Places(s, m) = 1
      BY <1>0 DEF SeedsOK, Turn
    <3>2. s.finished[m] \in Nat
      BY <1>0, <3>1 DEF Seeds
    <3>3. IsFiniteSet(Captures(s, m)) /\ Cardinality(Captures(s, m)) \in Nat
      BY CapturesAreFinite
    <3>4. CASE m = s.waiting
      <4>1. Captures(r, m) = Captures(s, m) \cup {t}
        BY <3>4, <1>0, <2>2 DEF Captures, Seeds
      <4>2. t \notin Captures(s, m)
        BY <1>2, <3>1 DEF Captures, Turn
      <4>3. Cardinality(Captures(r, m)) = Cardinality(Captures(s, m)) + 1
        BY <3>3, <4>1, <4>2, FS_AddElement
      <4> QED BY <3>1, <3>2, <3>3, <3>4, <4>3, <2>2 DEF Places
    <3>5. CASE m # s.waiting
      <4>1. Captures(r, m) = Captures(s, m)
        BY <3>5, <1>2, <1>0, <2>2 DEF Captures, Seeds
      <4> QED BY <3>1, <3>2, <3>3, <3>5, <4>1, <2>2 DEF Places
    <3> QED BY <3>4, <3>5
  <2>5. \A m \in Turn : m > n => r.finished[m] = 0 /\ r.active[m] = 0
    BY <1>0, <2>2, SeedsAre DEF SeedsOK
  <2> QED BY <1>2, <2>2, <2>4, <2>5 DEF SeedsOK
<1> QED BY <1>1, <1>2

LEMMA CompletedKeeps ==
    ASSUME NEW n \in 0 .. MaxStarts, NEW s, SeedsOK(s, n), NEW t \in 1 .. n
    PROVE  SeedsOK(Completed(s, t), n) /\ Completed(s, t).waiting = s.waiting
<1> DEFINE r == Completed(s, t)
<1>0. s \in Seeds(n) /\ n \in Nat /\ MaxStarts \in Nat /\ t \in Turn /\ t \in Nat
  BY BoundAssumption DEF SeedsOK, Turn
<1>1. /\ r.waiting = s.waiting
      /\ r.active = [s.active EXCEPT ![t] = 0]
      /\ r.finished = IF s.active[t] = 0 THEN s.finished
                      ELSE [s.finished EXCEPT ![s.active[t]] = @ + 1]
      /\ r \in Seeds(n)
  <2>1. Finish(s, s.active[t]) =
              [waiting |-> s.waiting, active |-> s.active,
               finished |-> IF s.active[t] = 0 THEN s.finished
                            ELSE [s.finished EXCEPT ![s.active[t]] = @ + 1]]
    BY <1>0, SeedsAre DEF Finish
  <2>2. r = [waiting |-> s.waiting, active |-> [s.active EXCEPT ![t] = 0],
             finished |-> IF s.active[t] = 0 THEN s.finished
                          ELSE [s.finished EXCEPT ![s.active[t]] = @ + 1]]
    BY <2>1 DEF Completed
  <2>3. r.finished \in [Turn -> Nat] /\ r.active \in [Turn -> 0 .. n]
    BY <1>0, <2>2, SeedsAre
  <2> QED BY <1>0, <2>2, <2>3, SeedsAre DEF Seeds
<1>2. s.active[t] \in 0 .. n
  BY <1>0 DEF Seeds
<1>4. \A m \in 1 .. n : Places(r, m) = 1
  <2> TAKE m \in 1 .. n
  <2>1. m \in Turn /\ Places(s, m) = 1
    BY <1>0 DEF SeedsOK, Turn
  <2>2. s.finished[m] \in Nat /\ s.finished \in [Turn -> Nat]
    BY <1>0, <2>1 DEF Seeds
  <2>3. IsFiniteSet(Captures(s, m)) /\ Cardinality(Captures(s, m)) \in Nat
    BY CapturesAreFinite
  <2>4. CASE m = s.active[t]
    <3>1. Captures(r, m) = Captures(s, m) \ {t}
      <4>1. \A u \in Turn : r.active[u] = IF u = t THEN 0 ELSE s.active[u]
        BY <1>0, <1>1, SeedsAre
      <4>2. m # 0
        OBVIOUS
      <4> QED BY <4>1, <4>2, <1>0 DEF Captures
    <3>2. t \in Captures(s, m)
      BY <2>4, <1>0 DEF Captures
    <3>3. Cardinality(Captures(r, m)) = Cardinality(Captures(s, m)) - 1
      BY <2>3, <3>1, <3>2, FS_RemoveElement
    <3>4. r.finished[m] = s.finished[m] + 1
      BY <2>1, <2>2, <2>4, <1>1
    <3> QED BY <2>1, <2>2, <2>3, <3>3, <3>4, <1>1 DEF Places
  <2>5. CASE m # s.active[t]
    <3>1. Captures(r, m) = Captures(s, m)
      <4>1. \A u \in Turn : r.active[u] = IF u = t THEN 0 ELSE s.active[u]
        BY <1>0, <1>1, SeedsAre
      <4>2. m # 0
        OBVIOUS
      <4> QED BY <4>1, <4>2, <2>5, <1>0 DEF Captures
    <3>2. r.finished[m] = s.finished[m]
      BY <2>1, <2>2, <2>5, <1>1, <1>2 DEF Turn
    <3> QED BY <2>1, <3>1, <3>2, <1>1 DEF Places
  <2> QED BY <2>4, <2>5
<1>5. \A m \in Turn : m > n => r.finished[m] = 0 /\ r.active[m] = 0
  <2> SUFFICES ASSUME NEW m \in Turn, m > n PROVE r.finished[m] = 0 /\ r.active[m] = 0
    OBVIOUS
  <2>1. s.finished[m] = 0 /\ s.active[m] = 0
    BY DEF SeedsOK
  <2>2. s.active[t] # m
    BY <1>0, <1>2
  <2> QED BY <1>0, <1>1, <2>1, <2>2, SeedsAre
<1>6. r.waiting # 0 => r.waiting = n /\ r.active[n] = 0
  BY <1>0, <1>1 DEF SeedsOK, Seeds, Turn
<1> QED BY <1>1, <1>4, <1>5, <1>6 DEF SeedsOK

LEMMA RefusedKeeps ==
    ASSUME NEW n \in 0 .. MaxStarts, NEW s, SeedsOK(s, n)
    PROVE  SeedsOK([Finish(s, s.waiting) EXCEPT !.waiting = 0], n)
<1> DEFINE r == [Finish(s, s.waiting) EXCEPT !.waiting = 0]
<1>0. s \in Seeds(n) /\ n \in Nat /\ MaxStarts \in Nat
  BY BoundAssumption DEF SeedsOK
<1>1. /\ r.waiting = 0 /\ r.active = s.active
      /\ r.finished = IF s.waiting = 0 THEN s.finished
                      ELSE [s.finished EXCEPT ![s.waiting] = @ + 1]
      /\ r \in Seeds(n)
  <2>1. r = [waiting |-> 0, active |-> s.active,
             finished |-> IF s.waiting = 0 THEN s.finished
                          ELSE [s.finished EXCEPT ![s.waiting] = @ + 1]]
    BY <1>0, SeedsAre DEF Finish
  <2>2. r.finished \in [Turn -> Nat]
    BY <1>0, <2>1, SeedsAre
  <2> QED BY <1>0, <2>1, <2>2, SeedsAre DEF Seeds
<1>4. \A m \in 1 .. n : Places(r, m) = 1
  <2> TAKE m \in 1 .. n
  <2>1. m \in Turn /\ Places(s, m) = 1
    BY <1>0 DEF SeedsOK, Turn
  <2>2. s.finished[m] \in Nat /\ s.finished \in [Turn -> Nat] /\ s.waiting \in 0 .. n
    BY <1>0, <2>1 DEF Seeds
  <2>3. IsFiniteSet(Captures(s, m)) /\ Cardinality(Captures(s, m)) \in Nat
    BY CapturesAreFinite
  <2>4. Captures(r, m) = Captures(s, m)
    BY <1>1 DEF Captures
  <2>5. r.finished[m] = IF s.waiting = m THEN s.finished[m] + 1 ELSE s.finished[m]
    BY <2>1, <2>2, <1>1
  <2> QED BY <2>1, <2>2, <2>3, <2>4, <2>5, <1>1 DEF Places
<1>5. \A m \in Turn : m > n => r.finished[m] = 0 /\ r.active[m] = 0
  <2> SUFFICES ASSUME NEW m \in Turn, m > n PROVE r.finished[m] = 0 /\ r.active[m] = 0
    OBVIOUS
  <2>1. s.finished[m] = 0 /\ s.active[m] = 0
    BY DEF SeedsOK
  <2>2. s.waiting # m
    BY <1>0, SeedsAre
  <2> QED BY <1>1, <2>1, <2>2, <1>0, SeedsAre
<1> QED BY <1>1, <1>4, <1>5 DEF SeedsOK

LEMMA AskedKeeps ==
    ASSUME NEW n \in 0 .. MaxStarts, n < MaxStarts, NEW s, SeedsOK(s, n), s.waiting = 0
    PROVE  SeedsOK([s EXCEPT !.waiting = n + 1], n + 1)
<1> DEFINE r == [s EXCEPT !.waiting = n + 1]
<1>0. s \in Seeds(n) /\ n \in Nat /\ MaxStarts \in Nat /\ n + 1 \in Turn
  BY BoundAssumption DEF SeedsOK, Turn
<1>1. /\ r.waiting = n + 1 /\ r.active = s.active /\ r.finished = s.finished
      /\ r \in Seeds(n + 1)
  BY <1>0 DEF Seeds
<1>2. Captures(r, n + 1) = {}
  BY <1>0, <1>1 DEF Captures, Seeds
<1>3. Cardinality(Captures(r, n + 1)) = 0
  BY <1>2, FS_EmptySet
<1>4. \A m \in 1 .. n + 1 : Places(r, m) = 1
  <2> TAKE m \in 1 .. n + 1
  <2>1. CASE m = n + 1
    BY <2>1, <1>0, <1>1, <1>3 DEF Places, SeedsOK
  <2>2. CASE m # n + 1
    <3>1. m \in 1 .. n
      BY <2>2, <1>0
    <3>2. Places(s, m) = 1 /\ Captures(r, m) = Captures(s, m)
      BY <3>1, <1>1 DEF SeedsOK, Captures
    <3> QED BY <3>1, <3>2, <2>2, <1>1 DEF Places
  <2> QED BY <2>1, <2>2
<1>5. \A m \in Turn : m > n + 1 => r.finished[m] = 0 /\ r.active[m] = 0
  BY <1>0, <1>1 DEF SeedsOK, Turn
<1> QED BY <1>0, <1>1, <1>4, <1>5 DEF SeedsOK

-----------------------------------------------------------------------------
(* Processes *)

(* A process changes; what is on the way under the ids of starts stays      *)
(* about their turns.                                                       *)
LEMMA ProcessChanges ==
    ASSUME NEW reg, NEW last, NEW n, NEW ps, ProcessesOK(reg, last, ps, n),
           NEW ps2 \in [Generation -> Processes(n)],
           NEW g \in Generation, ~(g > last), \A h \in Generation \ {g} : ps2[h] = ps[h],
           ps2[g].alive => ps[g].alive, ps[g].killed => ps2[g].killed
    PROVE  ProcessesOK(reg, last, ps2, n)
BY DEF ProcessesOK

LEMMA MessagesChange ==
    ASSUME NEW cs, NEW senders, NEW n, NEW ps, CallersOK(cs, senders, ps, n),
           NEW ps2, NEW g \in Generation, \A h \in Generation \ {g} : ps2[h] = ps[h],
           \A c \in Caller : Sender(c, cs) =>
              /\ \A i \in 1 .. Len(ps2[g].stdin) : InputOf(c, cs, ps2[g].stdin[i])
              /\ \A i \in 1 .. Len(ps2[g].stdout) : OutputOf(c, cs, ps2[g].stdout[i])
    PROVE  CallersOK(cs, senders, ps2, n)
BY DEF CallersOK, MessagesOK

LEMMA StoppedKeeps ==
    ASSUME NEW last, NEW n, NEW ps, NEW reg \in Generation \cup {0}, ~(reg > last),
           ProcessesOK(reg, last, ps, n), NEW ps2, ps2 = Stopped(ps, reg)
    PROVE  /\ ProcessesOK(0, last, ps2, n)
           /\ \A g \in Generation : ps2[g].stdin = ps[g].stdin /\ ps2[g].stdout = ps[g].stdout
<1>1. ps \in [Generation -> Processes(n)]
  BY DEF ProcessesOK
<1>2. \A g \in Generation : ps2[g] = IF g = reg THEN [ps[g] EXCEPT !.killed = TRUE] ELSE ps[g]
  BY <1>1 DEF Stopped
<1>3. \A g \in Generation :
         /\ [ps[g] EXCEPT !.killed = TRUE] \in Processes(n)
         /\ [ps[g] EXCEPT !.killed = TRUE].killed
         /\ [ps[g] EXCEPT !.killed = TRUE].stdin = ps[g].stdin
         /\ [ps[g] EXCEPT !.killed = TRUE].stdout = ps[g].stdout
  BY <1>1 DEF Processes
<1>4. ps2 \in [Generation -> Processes(n)]
  BY <1>1, <1>2, <1>3 DEF Stopped
<1> QED BY <1>2, <1>3, <1>4 DEF ProcessesOK

LEMMA SameMessages ==
    ASSUME NEW cs, NEW senders, NEW n, NEW ps, CallersOK(cs, senders, ps, n), NEW ps2,
           \A g \in Generation : ps2[g].stdin = ps[g].stdin /\ ps2[g].stdout = ps[g].stdout
    PROVE  CallersOK(cs, senders, ps2, n)
BY DEF CallersOK, MessagesOK

(* invalidate_process, whatever the callers and the processes are just then.*)
LEMMA InvalidatedKeeps ==
    ASSUME ServerInv, NEW g, NEW cs, NEW ps, CallersOK(cs, pending, ps, starts),
           ProcessesOK(process.gen, generation, ps, starts), Asked(seeds, cs),
           Invalidated(g, cs, ps), startup' \in Caller \cup {None},
           UNCHANGED <<generation, starts, faults, setup>>
    PROVE  ServerInv'
<1>0. Bookkeeping /\ SeedsOK(seeds, starts) /\ RuntimeOK(runtime, starts)
  BY DEF ServerInv
<1>p. /\ starts \in 0 .. MaxStarts /\ generation \in Nat /\ process.gen \in 0 .. generation
      /\ process.gen \in Generation \cup {0} /\ ~(process.gen > generation)
      /\ 0 \notin pending
  BY <1>0, Plain DEF Bookkeeping
<1>u. /\ generation' = generation /\ starts' = starts
      /\ faults' = faults /\ setup' = setup
  OBVIOUS
<1>1. CASE ~IsRegistered(g)
  <2>1. /\ call' = cs /\ os' = ps /\ process' = process /\ terminal' = terminal
        /\ seeds' = seeds /\ runtime' = runtime /\ pending' = pending
    BY <1>1 DEF Invalidated
  <2>2. Bookkeeping'
    BY <1>0, <1>u, <2>1 DEF Bookkeeping
  <2> QED BY <1>0, <1>u, <2>1, <2>2, ServerInvNext
<1>2. CASE IsRegistered(g)
  <2>1. /\ process' = NoProcess /\ terminal' = {} /\ seeds' = AllFinished(seeds)
        /\ runtime' = [phase |-> "disconnected", turn |-> 0] /\ pending' = {}
        /\ call' = Drained(cs) /\ os' = Stopped(ps, process.gen)
    BY <1>2 DEF Invalidated
  <2>2. Bookkeeping'
    BY <1>0, <1>p, <1>u, <2>1 DEF Bookkeeping, NoProcess
  <2>3. SeedsOK(seeds', starts') /\ seeds'.waiting = 0
    BY <1>0, <1>p, <1>u, <2>1, AllFinishedKeeps
  <2>4. RuntimeOK(runtime', starts')
    BY <1>p, <1>u, <2>1 DEF RuntimeOK, Phases
  <2>5. /\ ProcessesOK(0, generation, os', starts)
        /\ \A h \in Generation : os'[h].stdin = ps[h].stdin /\ os'[h].stdout = ps[h].stdout
    BY <1>p, <2>1, StoppedKeeps
  <2>6. ProcessesOK(process'.gen, generation', os', starts')
    BY <2>1, <2>5, <1>u DEF NoProcess
  <2>7. CallersOK(Drained(cs), pending \ pending, ps, starts)
    <3>1. NoAnswer \in Told(starts) /\ ~NoAnswer.ok
      BY <1>p DEF NoAnswer, Told
    <3>2. Drained(cs) = AnsweredAll(cs, pending, NoAnswer)
      BY DEF Drained, AnsweredAll
    <3>3. CallersOK(AnsweredAll(cs, pending, NoAnswer), pending \ pending, ps, starts)
      BY <1>p, <3>1, CallersAreAnswered
    <3> QED BY <3>2, <3>3
  <2>8. CallersOK(call', pending', os', starts')
    <3>1. CallersOK(Drained(cs), {}, ps, starts)
      BY <2>7
    <3> QED BY <3>1, <2>1, <2>5, <1>u, SameMessages
  <2> QED BY <2>2, <2>3, <2>4, <2>6, <2>8, ServerInvNext DEF Asked
<1> QED BY <1>1, <1>2

(* A step of a caller that leaves the processes and the evaluations alone.  *)
LEMMA CallerAloneKeeps ==
    ASSUME ServerInv, CallersOK(call', pending', os', starts), Bookkeeping',
           \A c \in Caller : call[c].pc # "idle" => call'[c].pc # "idle",
           UNCHANGED <<process, generation, seeds, os, starts>>, RuntimeOK(runtime', starts)
    PROVE  ServerInv'
BY ServerInvNext DEF ServerInv, Asked, Starts

-----------------------------------------------------------------------------
(* The steps of a caller *)

LEMMA CallIs ==
    ASSUME ServerInv, NEW c \in Caller
    PROVE  /\ call \in [Caller -> Calls(starts)] /\ call[c] \in Calls(starts)
           /\ call[c] = [pc |-> call[c].pc, gen |-> call[c].gen, id |-> call[c].id,
                         turn |-> call[c].turn, answer |-> call[c].answer]
           /\ call[c].pc \in Points /\ call[c].gen \in Generation \cup {0}
           /\ call[c].id \in Id \cup {0} /\ call[c].turn \in 0 .. starts
           /\ call[c].answer \in Told(starts) /\ NoAnswer \in Told(starts) /\ ~NoAnswer.ok
           /\ call[c].pc \notin Busy => call[c].id = 0
           /\ starts \in Nat
<1>1. call \in [Caller -> Calls(starts)] /\ IdsOK(call, pending) /\ starts \in Nat
  BY BoundAssumption, Plain DEF ServerInv, CallersOK
<1>2. call[c] \in Calls(starts)
  BY <1>1
<1> QED BY <1>1, <1>2 DEF Calls, IdsOK, NoAnswer, Told

(* The caller that spawned a process, and the one that has a sender.        *)
Spawned(cs, c, gen) == [cs EXCEPT ![c].pc = "initSend", ![c].gen = gen]
Enrolled(cs, c, point, i, gen) == [cs EXCEPT ![c].pc = point, ![c].id = i, ![c].gen = gen]

(* A caller at another point, also with an error or for a turn.             *)
Moved(cs, c, point) == [cs EXCEPT ![c].pc = point]
Refused(cs, c, point) == [cs EXCEPT ![c].pc = point, ![c].answer = NoAnswer]
Calling(cs, c, turn) == [cs EXCEPT ![c].pc = "ensure", ![c].turn = turn]

Released(cs, c, point) == [cs EXCEPT ![c].pc = point, ![c].id = 0]

LEMMA MovedType ==
    ASSUME NEW n \in Nat, NEW cs \in [Caller -> Calls(n)], NEW c \in Caller, NEW point \in Points,
           NEW turn \in 0 .. n
    PROVE  /\ Moved(cs, c, point) \in [Caller -> Calls(n)]
           /\ Refused(cs, c, point) \in [Caller -> Calls(n)]
           /\ Released(cs, c, point) \in [Caller -> Calls(n)]
           /\ Calling(cs, c, turn) \in [Caller -> Calls(n)]
<1>1. NoAnswer \in Told(n) /\ "ensure" \in Points
  BY DEF NoAnswer, Told, Points
<1> DEFINE x == cs[c]
<1>2. x \in Calls(n) /\ 0 \in Id \cup {0}
  OBVIOUS
<1>3. Moved(cs, c, point) = [cs EXCEPT ![c] = [x EXCEPT !.pc = point]]
  BY DEF Moved
<1>4. Refused(cs, c, point) = [cs EXCEPT ![c] = [x EXCEPT !.pc = point, !.answer = NoAnswer]]
  BY DEF Refused
<1>5. Released(cs, c, point) = [cs EXCEPT ![c] = [x EXCEPT !.pc = point, !.id = 0]]
  BY DEF Released
<1>6. Calling(cs, c, turn) = [cs EXCEPT ![c] = [x EXCEPT !.pc = "ensure", !.turn = turn]]
  BY DEF Calling
<1> HIDE DEF x
<1>7. [x EXCEPT !.pc = point] \in Calls(n)
  BY <1>2 DEF Calls
<1>8. [x EXCEPT !.pc = point, !.answer = NoAnswer] \in Calls(n)
  BY <1>1, <1>2 DEF Calls
<1>9. [x EXCEPT !.pc = point, !.id = 0] \in Calls(n)
  BY <1>2 DEF Calls
<1>10. [x EXCEPT !.pc = "ensure", !.turn = turn] \in Calls(n)
  BY <1>1, <1>2 DEF Calls
<1> QED BY <1>3, <1>4, <1>5, <1>6, <1>7, <1>8, <1>9, <1>10

LEMMA SpawnUpdates ==
    ASSUME NEW n, NEW cs \in [Caller -> Calls(n)], NEW c \in Caller, NEW gen \in Generation,
           NEW cs2, cs2 = Spawned(cs, c, gen)
    PROVE  /\ cs2 \in [Caller -> Calls(n)] /\ \A d \in Caller \ {c} : cs2[d] = cs[d]
           /\ cs2[c].pc = "initSend" /\ cs2[c].id = cs[c].id
           /\ cs2[c].turn = cs[c].turn /\ cs2[c].answer = cs[c].answer
<1> DEFINE x == cs[c]
           y == [x EXCEPT !.pc = "initSend", !.gen = gen]
<1>1. x \in Calls(n) /\ cs2 = [cs EXCEPT ![c] = y]
  BY DEF Spawned
<1> HIDE DEF x
<1>2. y \in Calls(n) /\ y.pc = "initSend" /\ y.id = x.id /\ y.turn = x.turn /\ y.answer = x.answer
  BY <1>1 DEF Calls, Points
<1> HIDE DEF y
<1>3. cs2 \in [Caller -> Calls(n)] /\ cs2[c] = y /\ \A d \in Caller \ {c} : cs2[d] = cs[d]
  BY <1>1, <1>2
<1> QED BY <1>2, <1>3 DEF x

LEMMA SendUpdates ==
    ASSUME NEW n, NEW cs \in [Caller -> Calls(n)], NEW c \in Caller, NEW point \in Points,
           NEW gen \in Generation, NEW i \in Id,
           NEW cs2, cs2 = Enrolled(cs, c, point, i, gen)
    PROVE  /\ cs2 \in [Caller -> Calls(n)] /\ \A d \in Caller \ {c} : cs2[d] = cs[d]
           /\ cs2[c].pc = point /\ cs2[c].id = i /\ cs2[c].gen = gen
           /\ cs2[c].turn = cs[c].turn /\ cs2[c].answer = cs[c].answer
<1> DEFINE x == cs[c]
           y == [x EXCEPT !.pc = point, !.id = i, !.gen = gen]
<1>1. x \in Calls(n) /\ cs2 = [cs EXCEPT ![c] = y]
  BY DEF Enrolled
<1> HIDE DEF x
<1>2. /\ y \in Calls(n) /\ y.pc = point /\ y.id = i /\ y.gen = gen
      /\ y.turn = x.turn /\ y.answer = x.answer
  BY <1>1 DEF Calls
<1> HIDE DEF y
<1>3. cs2 \in [Caller -> Calls(n)] /\ cs2[c] = y /\ \A d \in Caller \ {c} : cs2[d] = cs[d]
  BY <1>1, <1>2
<1> QED BY <1>2, <1>3 DEF x

(* A caller goes on without a sender: it has not got one yet, or gives it   *)
(* back.                                                                    *)
GoesOn(cs, c, point) ==
    /\ call[c].pc # "idle" /\ cs \in [Caller -> Calls(starts)]
    /\ \A d \in Caller \ {c} : cs[d] = call[d]
    /\ cs[c].pc = point /\ cs[c].id = 0 /\ cs[c].turn = call[c].turn
    /\ \/ cs[c].answer = NoAnswer
       \/ /\ cs[c].answer = call[c].answer
          /\ call[c].pc \notin Handshake \/ point \in Handshake \/ ~call[c].answer.ok
    /\ point = "check" => KindOf[c] # "start"

LEMMA GoingOnSoFar ==
    ASSUME ServerInv, NEW c \in Caller, NEW point \in Points, call[c].pc # "idle",
           point = "check" => KindOf[c] # "start", NEW cs,
           \/ cs = Refused(call, c, point) /\ call[c].id = 0
           \/ /\ (cs = Moved(call, c, point) /\ call[c].id = 0) \/ cs = Released(call, c, point)
              /\ call[c].pc \notin Handshake \/ point \in Handshake \/ ~call[c].answer.ok
    PROVE  GoesOn(cs, c, point)
<1>1. call \in [Caller -> Calls(starts)] /\ call[c] \in Calls(starts) /\ starts \in Nat
  BY CallIs
<1>2. cs \in [Caller -> Calls(starts)]
  <2>1. 0 \in 0 .. starts
    BY <1>1
  <2> QED BY <1>1, <2>1, MovedType
<1>3. \A d \in Caller \ {c} : cs[d] = call[d]
  BY <1>1 DEF Refused, Moved, Released
<1> DEFINE x == call[c]
<1>4. /\ \/ cs[c] = [x EXCEPT !.pc = point, !.answer = NoAnswer]
         \/ cs[c] = [x EXCEPT !.pc = point] \/ cs[c] = [x EXCEPT !.pc = point, !.id = 0]
  BY <1>1 DEF Refused, Moved, Released
<1>5. cs[c] = [x EXCEPT !.pc = point, !.id = 0] \/ x.id = 0
  BY <1>1 DEF Refused, Moved, Released
<1>6. \/ cs[c] = [x EXCEPT !.pc = point, !.answer = NoAnswer]
      \/ x.pc \notin Handshake \/ point \in Handshake \/ ~x.answer.ok
  BY <1>1 DEF Refused
<1>7. x \in Calls(starts)
  BY <1>1
<1> HIDE DEF x
<1>8. /\ cs[c].pc = point /\ cs[c].id = 0 /\ cs[c].turn = x.turn
      /\ \/ cs[c].answer = NoAnswer
         \/ cs[c].answer = x.answer /\ (x.pc \notin Handshake \/ point \in Handshake \/ ~x.answer.ok)
  BY <1>4, <1>5, <1>6, <1>7 DEF Calls
<1> QED BY <1>2, <1>3, <1>8 DEF GoesOn, x

LEMMA GoingOnKeeps ==
    ASSUME ServerInv, NEW c \in Caller, NEW point \in Points \ (Busy \cup {"idle"}),
           NEW cs, GoesOn(cs, c, point), NEW senders, senders = pending \ {call[c].id}
    PROVE  /\ CallersOK(cs, senders, os, starts)
           /\ \A d \in Caller : call[d].pc # "idle" => cs[d].pc # "idle"
<1>1. CallersOK(call, pending, os, starts) /\ 0 \notin pending
  BY Plain DEF ServerInv
<1>2. AnswerOK(c, cs)
  <2>1. AnswerOK(c, call)
    BY <1>1 DEF CallersOK, TurnsOK
  <2> QED BY <2>1 DEF GoesOn, AnswerOK, Starts, NoAnswer
<1>3. CallersOK(cs, pending \ {call[c].id}, os, starts)
  <2>1. /\ cs \in [Caller -> Calls(starts)]
        /\ \A d \in Caller \ {c} : cs[d] = call[d]
        /\ cs[c].id = 0 /\ cs[c].pc \notin Busy
        /\ cs[c].pc # "idle" /\ call[c].pc # "idle" /\ cs[c].turn = call[c].turn
        /\ cs[c].pc = "check" => KindOf[c] # "start"
    BY DEF GoesOn
  <2> QED BY <1>1, <1>2, <2>1, CallerStepsAside
<1> QED BY <1>3 DEF GoesOn

LEMMA GoingOnAloneKeeps ==
    ASSUME ServerInv, NEW c \in Caller, NEW point \in Points \ (Busy \cup {"idle"}),
           GoesOn(call', c, point), pending' = pending \ {call[c].id},
           startup' \in Caller \cup {None}, faults' \in Nat,
           UNCHANGED <<process, generation, runtime, terminal, seeds, os, setup, starts>>
    PROVE  ServerInv'
<1>1. Bookkeeping /\ RuntimeOK(runtime, starts)
  BY DEF ServerInv
<1>2. Bookkeeping' /\ RuntimeOK(runtime', starts)
  BY <1>1 DEF Bookkeeping
<1>3. /\ CallersOK(call', pending', os, starts)
      /\ \A d \in Caller : call[d].pc # "idle" => call'[d].pc # "idle"
  BY GoingOnKeeps
<1>4. UNCHANGED <<process, generation, seeds, os, starts>>
  OBVIOUS
<1> QED BY <1>2, <1>3, <1>4, CallerAloneKeeps, Zenon

(* A caller that does not wait has no sender to give back. *)
LEMMA NothingTakenBack ==
    ASSUME ServerInv, NEW c \in Caller, call[c].pc \notin Busy
    PROVE  call[c].id = 0 /\ pending = pending \ {call[c].id}
BY CallIs, Plain DEF ServerInv

LEMMA EnsureFindsProcessKeeps ==
    ASSUME ServerInv, NEW c \in Caller, EnsureFindsProcess(c) PROVE ServerInv'
<1>1. GoesOn(call', c, AfterEnsure(c)) /\ AfterEnsure(c) \in {"check", "send"}
  <2>1. /\ AfterEnsure(c) \in {"check", "send"}
        /\ AfterEnsure(c) = "check" => KindOf[c] # "start"
        /\ call[c].pc = "ensure" /\ call' = Moved(call, c, AfterEnsure(c))
    BY DEF EnsureFindsProcess, At, Goto, AfterEnsure, Kind, Moved
  <2>2. call[c].id = 0 /\ call[c].pc \notin Handshake
    BY <2>1, CallIs DEF Busy, Waiting, Handshake
  <2>3. AfterEnsure(c) \in Points
    BY <2>1 DEF Points
  <2> QED BY <2>1, <2>2, <2>3, GoingOnSoFar
<1>2. pending' = pending \ {call[c].id}
  BY NothingTakenBack DEF EnsureFindsProcess, At, Busy, Waiting, supervisorVars
<1>3. /\ startup' \in Caller \cup {None} /\ faults' \in Nat
      /\ UNCHANGED <<process, generation, runtime, terminal, seeds, os, setup, starts>>
  BY DEF EnsureFindsProcess, supervisorVars, ServerInv, Bookkeeping
<1> QED BY <1>1, <1>2, <1>3, GoingOnAloneKeeps DEF Points, Busy, Waiting

(* A caller returns. *)
LEMMA ReturningKeeps ==
    ASSUME ServerInv, NEW c \in Caller, call[c].pc \notin Busy, Returns(c)
    PROVE  CallersOK(call', pending, os, starts)
<1>1. CallersOK(call, pending, os, starts) /\ 0 \notin pending
  BY Plain DEF ServerInv
<1>2. IdleCall \in Calls(starts)
  <2>1. NoAnswer \in Told(starts) /\ starts \in Nat
    BY CallIs
  <2> QED BY <2>1 DEF IdleCall, Calls, Points
<1>3. /\ call' \in [Caller -> Calls(starts)] /\ call'[c] = IdleCall
      /\ \A d \in Caller \ {c} : call'[d] = call[d]
  BY <1>2, CallIs DEF Returns
<1>4. /\ call'[c].id = 0 /\ call'[c].pc = "idle" /\ ~call'[c].answer.ok
      /\ call'[c].pc \notin Busy /\ AnswerOK(c, call')
  BY <1>3 DEF IdleCall, NoAnswer, Busy, Waiting, AnswerOK, Starts
<1>5. CallersOK(call', pending \ {call[c].id}, os, starts)
  BY <1>1, <1>3, <1>4, CallerStepsAside
<1> QED BY <1>5, NothingTakenBack

LEMMA ReturningAloneKeeps ==
    ASSUME ServerInv, NEW c \in Caller, call[c].pc \notin Busy, Returns(c),
           KindOf[c] # "start", RuntimeOK(runtime', starts),
           UNCHANGED <<process, generation, startup, pending, terminal, seeds, os, setup,
                       starts, faults>>
    PROVE  ServerInv'
<1>1. CallersOK(call', pending', os', starts')
  BY ReturningKeeps
<1>2. \A d \in Caller : Starts(d, call) => Starts(d, call')
  BY CallIs DEF Returns, Starts
<1>3. Bookkeeping'
  BY DEF ServerInv, Bookkeeping
<1> QED BY <1>1, <1>2, <1>3, ServerInvNext DEF ServerInv, Asked

LEMMA ResumeChecksKeeps ==
    ASSUME ServerInv, NEW c \in Caller, ResumeChecks(c) PROVE ServerInv'
<1>0. /\ call[c].pc = "check" /\ call[c].pc \notin Busy
      /\ UNCHANGED <<process, generation, startup, pending, runtime, terminal, seeds, os, setup,
                     starts, faults>>
  BY DEF ResumeChecks, At, Busy, Waiting, supervisorVars
<1>3. KindOf[c] # "start"
  BY <1>0 DEF ServerInv, CallersOK, TurnsOK
<1>1. CASE Returns(c)
  BY <1>0, <1>1, <1>3, ReturningAloneKeeps DEF ServerInv
<1>2. CASE Goto(c, "send")
  <2>1. GoesOn(call', c, "send")
    <3>1. call' = Moved(call, c, "send") /\ "send" \in Points
      BY <1>2 DEF Goto, Moved, Points
    <3>2. call[c].id = 0 /\ call[c].pc \notin Handshake
      BY <1>0, CallIs DEF Handshake
    <3> QED BY <1>0, <3>1, <3>2, GoingOnSoFar
  <2>2. pending' = pending \ {call[c].id}
    BY <1>0, NothingTakenBack
  <2>3. startup' \in Caller \cup {None} /\ faults' \in Nat
    BY <1>0 DEF ServerInv, Bookkeeping
  <2> QED BY <1>0, <2>1, <2>2, <2>3, GoingOnAloneKeeps DEF Points, Busy, Waiting
<1> QED BY <1>1, <1>2 DEF ResumeChecks

LEMMA EnsureFailsKeeps ==
    ASSUME ServerInv, NEW c \in Caller, EnsureFails(c) PROVE ServerInv'
<1>0. call[c].pc = "ensure" /\ call[c].pc \notin Busy
  BY DEF EnsureFails, At, Busy, Waiting
<1>1. GoesOn(call', c, "done")
  <2>1. call' = Refused(call, c, "done") /\ "done" \in Points
    BY DEF EnsureFails, Refused, Points
  <2>2. call[c].id = 0
    BY <1>0, CallIs
  <2> QED BY <1>0, <2>1, <2>2, GoingOnSoFar
<1>2. pending' = pending \ {call[c].id}
  BY <1>0, NothingTakenBack DEF EnsureFails, supervisorVars
<1>3. /\ startup' \in Caller \cup {None} /\ faults' \in Nat
      /\ UNCHANGED <<process, generation, runtime, terminal, seeds, os, setup, starts>>
  BY DEF EnsureFails, Fault, supervisorVars, ServerInv, Bookkeeping
<1> QED BY <1>1, <1>2, <1>3, GoingOnAloneKeeps DEF Points, Busy, Waiting

LEMMA TimesOutKeeps ==
    ASSUME ServerInv, NEW c \in Caller, TimesOut(c) PROVE ServerInv'
<1>1. GoesOn(call', c, "invalidate")
  <2>1. call' = Released(call, c, "invalidate") /\ call[c].pc # "idle"
    BY DEF TimesOut, Released
  <2>2. "invalidate" \in Points /\ "invalidate" \in Handshake
    BY DEF Points, Handshake
  <2> QED BY <2>1, <2>2, GoingOnSoFar
<1>2. pending' = pending \ {call[c].id}
  BY DEF TimesOut, TakenBack
<1>3. /\ startup' \in Caller \cup {None} /\ faults' \in Nat
      /\ UNCHANGED <<process, generation, runtime, terminal, seeds, os, setup, starts>>
  BY DEF TimesOut, Fault, ServerInv, Bookkeeping
<1> QED BY <1>1, <1>2, <1>3, GoingOnAloneKeeps DEF Points, Busy, Waiting

(* A process is spawned beside the one that was registered. *)
LEMMA EnsureSpawnsKeeps ==
    ASSUME ServerInv, NEW c \in Caller, EnsureSpawns(c) PROVE ServerInv'
<1> DEFINE g == generation + 1
           stopped == IF process.gen = 0 THEN os ELSE Stopped(os, process.gen)
           born == [Unborn EXCEPT !.alive = TRUE, !.reaped = FALSE]
<1>0. /\ Bookkeeping /\ CallersOK(call, pending, os, starts)
      /\ ProcessesOK(process.gen, generation, os, starts)
      /\ starts \in Nat /\ generation \in Nat /\ process.gen \in 0 .. generation
      /\ process.gen \in Generation \cup {0} /\ g \in Generation
      /\ Generation = 1 .. MaxFaults + 1 /\ MaxFaults \in Nat
  BY Plain, BoundAssumption DEF ServerInv, EnsureSpawns
<1>1. /\ call[c].pc = "ensure" /\ call[c].pc \notin Busy
      /\ call' = [call EXCEPT ![c].pc = "initSend", ![c].gen = g]
      /\ process' = [gen |-> g, ready |-> FALSE] /\ generation' = g /\ startup' = c
      /\ UNCHANGED <<pending, runtime, terminal, seeds, starts, faults, setup>>
  BY DEF EnsureSpawns, At, Busy, Waiting
<1>2. os' = [stopped EXCEPT ![g] = born]
  BY DEF EnsureSpawns
<1>3. /\ ProcessesOK(0, generation, stopped, starts)
      /\ \A h \in Generation : stopped[h].stdin = os[h].stdin /\ stopped[h].stdout = os[h].stdout
  <2>1. CASE process.gen = 0
    BY <1>0, <2>1
  <2>2. CASE process.gen # 0
    <3>1. ~(process.gen > generation)
      BY <1>0
    <3>2. stopped = Stopped(os, process.gen)
      BY <2>2
    <3> HIDE DEF stopped
    <3>3. ProcessesOK(process.gen, generation, os, starts) /\ process.gen \in Generation \cup {0}
      BY <1>0
    <3> QED BY <3>1, <3>2, <3>3, StoppedKeeps
  <2> QED BY <2>1, <2>2
<1>4. born \in Processes(starts) /\ born.stdin = <<>> /\ born.stdout = <<>>
  <2>1. <<>> \in Seq(Inputs(starts)) /\ <<>> \in Seq(Outputs(starts))
    BY EmptySeq
  <2>2. Unborn \in Processes(starts) /\ Unborn.stdin = <<>> /\ Unborn.stdout = <<>>
    BY <1>0, <2>1 DEF Unborn, Processes
  <2> QED BY <2>2 DEF Processes
<1> HIDE DEF born, stopped
<1>5. stopped \in [Generation -> Processes(starts)]
  BY <1>3 DEF ProcessesOK
<1>6. /\ os' \in [Generation -> Processes(starts)]
      /\ os'[g] = born /\ \A h \in Generation \ {g} : os'[h] = stopped[h]
  BY <1>0, <1>2, <1>4, <1>5
<1>7. ProcessesOK(process'.gen, generation', os', starts')
  <2>1. \A h \in Generation : os'[h].alive /\ h # g => os'[h].killed
    BY <1>0, <1>3, <1>6 DEF ProcessesOK
  <2>2. \A h \in Generation : h > g => os'[h] = Unborn
    <3> SUFFICES ASSUME NEW h \in Generation, h > g PROVE os'[h] = Unborn
      OBVIOUS
    <3>1. h # g /\ h > generation
      BY <1>0
    <3> QED BY <3>1, <1>3, <1>6 DEF ProcessesOK
  <2> QED BY <1>1, <1>6, <2>1, <2>2 DEF ProcessesOK
<1>8. GoesOn(call', c, "initSend")
  <2>1. call \in [Caller -> Calls(starts)] /\ call[c].id = 0
    BY <1>1, CallIs
  <2>2. g \in Generation /\ call' = Spawned(call, c, g)
    BY <1>0, <1>1 DEF Spawned
  <2> HIDE DEF g
  <2>3. /\ call' \in [Caller -> Calls(starts)] /\ \A d \in Caller \ {c} : call'[d] = call[d]
        /\ call'[c].pc = "initSend" /\ call'[c].id = call[c].id
        /\ call'[c].turn = call[c].turn /\ call'[c].answer = call[c].answer
    BY <2>1, <2>2, SpawnUpdates
  <2>4. call[c].pc = "ensure"
    BY <1>1
  <2> QED BY <2>1, <2>3, <2>4 DEF GoesOn, Handshake
<1>9. /\ CallersOK(call', pending', os, starts)
      /\ \A d \in Caller : call[d].pc # "idle" => call'[d].pc # "idle"
  BY <1>1, <1>8, GoingOnKeeps, NothingTakenBack DEF Points, Busy, Waiting
<1>10. CallersOK(call', pending', os', starts')
  <2>1. CallersOK(call', pending', stopped, starts)
    BY <1>3, <1>9, SameMessages
  <2>2. \A d \in Caller : Sender(d, call') =>
           /\ \A i \in 1 .. Len(os'[g].stdin) : InputOf(d, call', os'[g].stdin[i])
           /\ \A i \in 1 .. Len(os'[g].stdout) : OutputOf(d, call', os'[g].stdout[i])
    BY <1>4, <1>6, EmptySeq
  <2>3. CallersOK(call', pending', os', starts)
    BY <1>0, <1>6, <2>1, <2>2, MessagesChange
  <2> QED BY <1>1, <2>3
<1>11. Bookkeeping'
  BY <1>0, <1>1 DEF Bookkeeping
<1> QED BY <1>1, <1>7, <1>9, <1>10, <1>11, ServerInvNext DEF ServerInv, Asked, Starts

LEMMA FreshIdIsFree ==
    ASSUME \E i \in Id : IsFree(i) PROVE FreshId \in Id /\ IsFree(FreshId)
BY DEF FreshId

(* A sender is registered, under an id that nothing names. *)
LEMMA RegisteringKeeps ==
    ASSUME ServerInv, NEW c \in Caller, NEW i \in Id, IsFree(i),
           NEW from \in Points \ (Busy \cup {"idle"}), NEW to \in Busy \ Waiting,
           call[c].pc = from, from \notin Handshake \/ to \in Handshake,
           call' \in [Caller -> Calls(starts)], \A d \in Caller \ {c} : call'[d] = call[d],
           call'[c].pc = to, call'[c].id = i, call'[c].turn = call[c].turn,
           call'[c].answer = call[c].answer, call'[c].gen # 0, pending' = pending \cup {i}
    PROVE  CallersOK(call', pending', os, starts)
<1>0. /\ IdsOK(call, pending) /\ TurnsOK(call, starts) /\ MessagesOK(call, os)
      /\ 0 \notin Id /\ i # 0
      /\ os \in [Generation -> Processes(starts)]
  BY Plain DEF ServerInv, CallersOK, ProcessesOK
<1>1. /\ i \notin pending /\ \A d \in Caller : call[d].id # i
      /\ \A g \in Generation :
            /\ \A k \in 1 .. Len(os[g].stdin) : os[g].stdin[k].id # i
            /\ \A k \in 1 .. Len(os[g].stdout) : os[g].stdout[k].id # i
  BY DEF IsFree, OnItsWay
<1>2. IdsOK(call', pending')
  <2>1. \A d \in Caller : call'[d].id # 0 <=> call'[d].pc \in Busy
    BY <1>0 DEF IdsOK
  <2>2. \A d, e \in Caller : call'[d].id = call'[e].id /\ call'[d].id # 0 => d = e
    BY <1>0, <1>1 DEF IdsOK
  <2>3. \A d \in Caller : call'[d].pc \in Waiting => call'[d].id \in pending'
    BY <1>0 DEF IdsOK
  <2>4. call[c].id = 0
    BY <1>0 DEF IdsOK
  <2>5. \A k \in pending' : \E d \in Caller : call'[d].id = k
    <3> TAKE k \in pending'
    <3>1. CASE k = i
      BY <3>1
    <3>2. CASE k \in pending
      <4>1. PICK d \in Caller : call[d].id = k
        BY <1>0, <3>2 DEF IdsOK
      <4>2. k # 0
        BY <3>2, Plain DEF ServerInv
      <4>3. d # c
        BY <2>4, <4>1, <4>2
      <4> QED BY <4>1, <4>3
    <3> QED BY <3>1, <3>2
  <2>6. \A d \in Caller : call'[d].pc \in Busy => call'[d].gen # 0
    BY <1>0 DEF IdsOK
  <2> QED BY <2>1, <2>2, <2>3, <2>5, <2>6 DEF IdsOK
<1>3. TurnsOK(call', starts)
  <2>1. \A d \in Caller : /\ Starts(d, call') <=> Starts(d, call)
                          /\ call'[d].turn = call[d].turn /\ call'[d].answer = call[d].answer
    BY DEF Starts, Busy
  <2>2. \A d \in Caller : AnswerOK(d, call')
    BY <1>0, <2>1 DEF TurnsOK, AnswerOK, Handshake
  <2>3. /\ \A d, e \in Caller : Starts(d, call') /\ Starts(e, call') => d = e
        /\ \A d \in Caller : Starts(d, call') => call'[d].turn = starts /\ starts # 0
        /\ \A d \in Caller : KindOf[d] = "interrupt" /\ call'[d].pc # "idle" => call'[d].turn # 0
    BY <1>0, <2>1 DEF TurnsOK
  <2>4. /\ \A d \in Caller : call'[d].pc = "idle" => ~call'[d].answer.ok
        /\ \A d \in Caller : call'[d].pc = "check" => KindOf[d] # "start"
    BY <1>0, <2>1 DEF TurnsOK, Busy, Waiting
  <2> QED BY <2>2, <2>3, <2>4 DEF TurnsOK
<1>4. MessagesOK(call', os)
  <2> SUFFICES ASSUME NEW d \in Caller, NEW g \in Generation, Sender(d, call')
               PROVE  /\ \A k \in 1 .. Len(os[g].stdin) : InputOf(d, call', os[g].stdin[k])
                      /\ \A k \in 1 .. Len(os[g].stdout) : OutputOf(d, call', os[g].stdout[k])
    BY DEF MessagesOK
  <2>1. CASE d = c
    BY <2>1, <1>1 DEF InputOf, OutputOf
  <2>2. CASE d # c
    <3>1. Sender(d, call) /\ call'[d] = call[d]
      BY <2>2 DEF Sender
    <3> QED BY <3>1, <1>0 DEF MessagesOK, InputOf, OutputOf
  <2> QED BY <2>1, <2>2
<1> QED BY <1>2, <1>3, <1>4 DEF CallersOK

LEMMA SendsKeeps ==
    ASSUME ServerInv, NEW c \in Caller,
           NEW from, NEW to, NEW failed, Sends(c, from, to, failed),
           \/ from = "send" /\ to = "write" /\ failed = "done"
           \/ from = "initSend" /\ to = "initWrite" /\ failed = "initDone"
    PROVE  ServerInv'
<1>0. /\ call[c].pc = from /\ from \in Points /\ from \notin Busy \cup {"idle"}
      /\ process.gen \in Generation \cup {0}
      /\ UNCHANGED <<process, generation, startup, runtime, terminal, seeds, os, starts, faults,
                     setup>>
  BY Plain DEF Sends, At, Points, Busy, Waiting, ServerInv
<1>1. ASSUME process.gen # 0, \E i \in Id : IsFree(i), pending' = pending \cup {FreshId},
             call' = [call EXCEPT ![c].pc = to, ![c].id = FreshId, ![c].gen = process.gen]
      PROVE  ServerInv'
  <2>1. FreshId \in Id /\ IsFree(FreshId)
    BY <1>1, FreshIdIsFree
  <2> DEFINE i == FreshId
  <2>2. i \in Id /\ IsFree(i)
    BY <2>1
  <2>3. pending' = pending \cup {i}
    BY <1>1
  <2>4. call' = [call EXCEPT ![c].pc = to, ![c].id = i, ![c].gen = process.gen]
    BY <1>1
  <2> HIDE DEF i
  <2>5. /\ call' \in [Caller -> Calls(starts)] /\ \A d \in Caller \ {c} : call'[d] = call[d]
        /\ call'[c].pc = to /\ call'[c].id = i /\ call'[c].turn = call[c].turn
        /\ call'[c].answer = call[c].answer /\ call'[c].gen # 0
    <3>0. 0 \notin Generation
      BY Plain DEF ServerInv
    <3>1. to \in Points /\ process.gen \in Generation /\ call \in [Caller -> Calls(starts)]
      BY <1>0, <1>1, CallIs DEF Points
    <3>2. call' = Enrolled(call, c, to, i, process.gen)
      BY <2>4 DEF Enrolled
    <3> QED BY <2>2, <3>0, <3>1, <3>2, SendUpdates
  <2>6. to \in Busy \ Waiting /\ (from \notin Handshake \/ to \in Handshake)
    BY DEF Busy, Waiting, Handshake
  <2>7. CallersOK(call', pending', os, starts)
    BY <1>0, <2>2, <2>3, <2>5, <2>6, RegisteringKeeps
  <2>8. Bookkeeping' /\ RuntimeOK(runtime', starts)
    BY <1>0, <2>2, <2>3 DEF ServerInv, Bookkeeping
  <2>9. \A d \in Caller : call[d].pc # "idle" => call'[d].pc # "idle"
    BY <2>5, <2>6 DEF Busy, Waiting
  <2> QED BY <1>0, <2>7, <2>8, <2>9, CallerAloneKeeps
<1>2. ASSUME call' = [call EXCEPT ![c].pc = failed, ![c].answer = NoAnswer], UNCHANGED pending
      PROVE  ServerInv'
  <2>1. GoesOn(call', c, failed)
    <3>1. call' = Refused(call, c, failed) /\ failed \in Points /\ failed # "check"
      BY <1>2 DEF Refused, Points
    <3>2. call[c].id = 0
      BY <1>0, CallIs
    <3> QED BY <1>0, <3>1, <3>2, GoingOnSoFar
  <2>2. pending' = pending \ {call[c].id}
    BY <1>0, <1>2, NothingTakenBack
  <2>3. startup' \in Caller \cup {None} /\ faults' \in Nat
    BY <1>0 DEF ServerInv, Bookkeeping
  <2> QED BY <1>0, <2>1, <2>2, <2>3, GoingOnAloneKeeps DEF Points, Busy, Waiting
<1> QED BY <1>1, <1>2 DEF Sends

(* What a process has in its pipes changes. *)
Written(ps, g, m) == [ps EXCEPT ![g].stdin = Append(@, m)]

LEMMA InputAdded ==
    ASSUME NEW n, NEW ps \in [Generation -> Processes(n)], NEW g \in Generation,
           NEW m \in Inputs(n), NEW ps2, ps2 = Written(ps, g, m)
    PROVE  /\ ps2 \in [Generation -> Processes(n)]
           /\ \A h \in Generation \ {g} : ps2[h] = ps[h]
           /\ ps2[g].alive = ps[g].alive /\ ps2[g].killed = ps[g].killed
           /\ ps2[g].stdout = ps[g].stdout
           /\ \A i \in 1 .. Len(ps2[g].stdin) :
                 ps2[g].stdin[i] = m \/ \E k \in 1 .. Len(ps[g].stdin) : ps2[g].stdin[i] = ps[g].stdin[k]
<1> DEFINE q == ps[g].stdin
<1>1. ps[g] \in Processes(n) /\ q \in Seq(Inputs(n))
  BY DEF Processes
<1>2. /\ Append(q, m) \in Seq(Inputs(n)) /\ Len(Append(q, m)) = Len(q) + 1
      /\ Append(q, m)[Len(q) + 1] = m
      /\ \A i \in 1 .. Len(q) : Append(q, m)[i] = q[i]
  BY <1>1, AppendProperties
<1>3. Len(q) \in Nat
  BY <1>1, LenProperties
<1>4. \A i \in 1 .. Len(Append(q, m)) :
         Append(q, m)[i] = m \/ \E k \in 1 .. Len(q) : Append(q, m)[i] = q[k]
  BY <1>2, <1>3
<1>5. /\ ps2[g] = [ps[g] EXCEPT !.stdin = Append(q, m)]
      /\ ps2 = [ps EXCEPT ![g] = ps2[g]] /\ \A h \in Generation \ {g} : ps2[h] = ps[h]
  BY DEF Written
<1>6. /\ ps2[g] \in Processes(n) /\ ps2[g].stdin = Append(q, m) /\ ps2[g].alive = ps[g].alive
      /\ ps2[g].killed = ps[g].killed /\ ps2[g].stdout = ps[g].stdout
  <2> DEFINE x == ps[g]
             a == Append(q, m)
  <2>1. x \in Processes(n) /\ a \in Seq(Inputs(n)) /\ ps2[g] = [x EXCEPT !.stdin = a]
    BY <1>1, <1>2, <1>5
  <2> HIDE DEF x, a, q
  <2>2. /\ ps2[g] \in Processes(n) /\ ps2[g].stdin = a /\ ps2[g].alive = x.alive
        /\ ps2[g].killed = x.killed /\ ps2[g].stdout = x.stdout
    BY <2>1 DEF Processes
  <2> QED BY <2>2 DEF x, a
<1> HIDE DEF q
<1>7. \A i \in 1 .. Len(ps2[g].stdin) :
         ps2[g].stdin[i] = m \/ \E k \in 1 .. Len(q) : ps2[g].stdin[i] = q[k]
  BY <1>4, <1>6
<1>8. ps2 \in [Generation -> Processes(n)]
  BY <1>5, <1>6
<1> QED BY <1>5, <1>6, <1>7, <1>8 DEF q

LEMMA WritesKeeps ==
    ASSUME ServerInv, NEW c \in Caller, NEW from, NEW to, NEW kind, Writes(c, from, to, kind),
           \/ from = "write" /\ to = "wait" /\ kind = KindOf[c]
           \/ from = "initWrite" /\ to = "initWait" /\ kind = "initialize"
    PROVE  ServerInv'
<1> DEFINE g == call[c].gen
           request == [id |-> call[c].id, kind |-> kind, turn |-> call[c].turn]
<1>0. /\ Bookkeeping /\ CallersOK(call, pending, os, starts)
      /\ ProcessesOK(process.gen, generation, os, starts)
      /\ call[c].pc = from /\ call[c].pc \in Busy /\ call[c].id \in Id
      /\ process.gen \in Generation \cup {0} /\ 0 \notin pending
      /\ UNCHANGED <<process, generation, startup, runtime, terminal, seeds, starts, faults, setup>>
  <2>1. call[c].pc = from /\ call[c].pc \in Busy
    BY DEF Writes, At, Busy
  <2>2. call[c].id # 0
    BY <2>1 DEF ServerInv, CallersOK, IdsOK
  <2>3. call[c].id \in Id
    BY <2>2, CallIs
  <2> QED BY <2>1, <2>3, Plain DEF ServerInv, Writes
<1>1. CASE ~os[g].alive
  <2>1. /\ pending' = TakenBack(call[c].id) /\ UNCHANGED os
        /\ call' = [call EXCEPT ![c].pc = "invalidate", ![c].id = 0]
    BY <1>1 DEF Writes
  <2>2. GoesOn(call', c, "invalidate")
    <3>1. call' = Released(call, c, "invalidate") /\ call[c].pc # "idle"
      BY <1>0, <2>1 DEF Released
    <3>2. "invalidate" \in Points /\ "invalidate" \in Handshake
      BY DEF Points, Handshake
    <3> QED BY <3>1, <3>2, GoingOnSoFar
  <2>3. pending' = pending \ {call[c].id}
    BY <2>1 DEF TakenBack
  <2>4. startup' \in Caller \cup {None} /\ faults' \in Nat
    BY <1>0 DEF Bookkeeping
  <2> QED BY <1>0, <2>1, <2>2, <2>3, <2>4, GoingOnAloneKeeps DEF Points, Busy, Waiting
<1>2. CASE os[g].alive
  <2>1. /\ os' = [os EXCEPT ![g].stdin = Append(@, request)]
        /\ call' = [call EXCEPT ![c] =
                IF @.id \in pending THEN [@ EXCEPT !.pc = to]
                ELSE [@ EXCEPT !.pc = IF to = "initWait" THEN "initDone" ELSE "done", !.id = 0]]
        /\ UNCHANGED pending
    BY <1>2 DEF Writes
  <2>2. g \in Generation
    BY <1>0, CallIs DEF CallersOK, IdsOK
  <2>3. request \in Inputs(starts)
    <3>1. kind \in Kinds \cup {"initialize"}
      BY CallerAssumption
    <3>2. kind = "start" => call[c].turn # 0
      BY <1>0 DEF CallersOK, TurnsOK, Starts, Busy, Waiting
    <3> QED BY <1>0, <3>1, <3>2, CallIs DEF Inputs, Requests
  <2> HIDE DEF request
  <2>4. /\ os' \in [Generation -> Processes(starts)]
        /\ \A h \in Generation \ {g} : os'[h] = os[h]
        /\ os'[g].alive = os[g].alive /\ os'[g].killed = os[g].killed
        /\ os'[g].stdout = os[g].stdout
        /\ \A i \in 1 .. Len(os'[g].stdin) :
              os'[g].stdin[i] = request \/ \E k \in 1 .. Len(os[g].stdin) : os'[g].stdin[i] = os[g].stdin[k]
    <3>1. os' = Written(os, g, request)
      BY <2>1 DEF Written
    <3>2. os \in [Generation -> Processes(starts)]
      BY <1>0 DEF ProcessesOK
    <3> HIDE DEF g
    <3> QED BY <2>2, <2>3, <3>1, <3>2, InputAdded
  <2>5. ProcessesOK(process.gen, generation, os', starts)
    <3>1. ~(g > generation)
      BY <1>0, <1>2, <2>2 DEF ProcessesOK, Unborn
    <3> QED BY <1>0, <2>2, <2>4, <3>1, ProcessChanges
  <2>6. /\ CallersOK(call', pending', os, starts)
        /\ \A d \in Caller \ {c} : call'[d] = call[d]
        /\ call'[c].pc \in {"wait", "initWait", "done", "initDone"}
        /\ call'[c].pc = "wait" => kind = KindOf[c]
        /\ call'[c].turn = call[c].turn
    <3>1. CASE call[c].id \in pending
      <4>1. call' = [call EXCEPT ![c].pc = to]
        BY <2>1, <3>1, CallIs
      <4>2. /\ call' \in [Caller -> Calls(starts)] /\ \A d \in Caller \ {c} : call'[d] = call[d]
            /\ call'[c].pc = to /\ call'[c].id = call[c].id /\ call'[c].turn = call[c].turn
            /\ call'[c].answer = call[c].answer /\ call'[c].gen = call[c].gen
        BY <4>1, CallIs DEF Calls, Points
      <4>3. IdsOK(call', pending')
        BY <2>1, <3>1, <4>2, <1>0 DEF CallersOK, IdsOK, Busy, Waiting
      <4>4. TurnsOK(call', starts)
        <5>1. \A d \in Caller : /\ Starts(d, call') <=> Starts(d, call)
                                /\ call'[d].turn = call[d].turn /\ call'[d].answer = call[d].answer
          BY <1>0, <4>2 DEF Starts
        <5>2. \A d \in Caller : AnswerOK(d, call')
          BY <1>0, <4>2, <5>1 DEF CallersOK, TurnsOK, AnswerOK, Handshake
        <5>3. /\ \A d, e \in Caller : Starts(d, call') /\ Starts(e, call') => d = e
              /\ \A d \in Caller : Starts(d, call') => call'[d].turn = starts /\ starts # 0
              /\ \A d \in Caller : KindOf[d] = "interrupt" /\ call'[d].pc # "idle"
                                     => call'[d].turn # 0
          BY <1>0, <4>2, <5>1 DEF CallersOK, TurnsOK
        <5>4. /\ \A d \in Caller : call'[d].pc = "idle" => ~call'[d].answer.ok
              /\ \A d \in Caller : call'[d].pc = "check" => KindOf[d] # "start"
          BY <1>0, <4>2 DEF CallersOK, TurnsOK
        <5> QED BY <5>2, <5>3, <5>4 DEF TurnsOK
      <4>5. MessagesOK(call', os)
        <5>1. \A d \in Caller : Sender(d, call') => Sender(d, call) /\ call'[d].id = call[d].id
                                                      /\ call'[d].turn = call[d].turn
          BY <1>0, <4>2 DEF Sender
        <5> QED BY <1>0, <5>1 DEF CallersOK, MessagesOK, InputOf, OutputOf
      <4> QED BY <4>2, <4>3, <4>4, <4>5 DEF CallersOK
    <3>2. CASE call[c].id \notin pending
      <4> DEFINE point == IF to = "initWait" THEN "initDone" ELSE "done"
      <4>1. call' = [call EXCEPT ![c].pc = point, ![c].id = 0]
        BY <2>1, <3>2, CallIs
      <4>2. GoesOn(call', c, point)
        <5>1. point \in Points /\ point # "check" /\ (from \notin Handshake \/ point \in Handshake)
          BY DEF Points, Handshake
        <5> HIDE DEF point
        <5>2. call' = Released(call, c, point) /\ call[c].pc # "idle" /\ call[c].pc = from
          BY <1>0, <4>1 DEF Released
        <5> QED BY <5>1, <5>2, GoingOnSoFar
      <4>3. pending' = pending \ {call[c].id}
        BY <2>1, <3>2
      <4>4. point \in Points \ (Busy \cup {"idle"})
        BY DEF Points, Busy, Waiting
      <4> HIDE DEF point
      <4>5. CallersOK(call', pending', os, starts)
        BY <4>2, <4>3, <4>4, GoingOnKeeps
      <4> QED BY <4>2, <4>5 DEF GoesOn, point
    <3> QED BY <3>1, <3>2
  <2>7. \A d \in Caller : Sender(d, call') => InputOf(d, call', request)
    <3> SUFFICES ASSUME NEW d \in Caller, Sender(d, call'), request.id = call'[d].id
                 PROVE  request.kind = "start" /\ request.turn = call'[d].turn
      BY DEF InputOf
    <3>1. request.id = call[c].id /\ request.kind = kind /\ request.turn = call[c].turn
      BY DEF request
    <3>2. CASE d = c
      BY <2>6, <3>1, <3>2 DEF Sender
    <3>3. CASE d # c
      <4>1. call[d].id = call[c].id /\ call[c].id # 0
        BY <2>6, <3>1, <3>3, <1>0 DEF CallersOK, IdsOK
      <4> QED BY <3>3, <4>1, <1>0 DEF CallersOK, IdsOK
    <3> QED BY <3>2, <3>3
  <2>8. CallersOK(call', pending', os', starts)
    <3>1. \A d \in Caller : Sender(d, call') =>
             /\ \A i \in 1 .. Len(os'[g].stdin) : InputOf(d, call', os'[g].stdin[i])
             /\ \A i \in 1 .. Len(os'[g].stdout) : OutputOf(d, call', os'[g].stdout[i])
      BY <2>2, <2>4, <2>6, <2>7 DEF CallersOK, MessagesOK
    <3> QED BY <2>2, <2>4, <2>6, <3>1, MessagesChange
  <2>9. Bookkeeping' /\ RuntimeOK(runtime', starts) /\ \A d \in Caller : Starts(d, call) => Starts(d, call')
    BY <1>0, <2>1, <2>6 DEF Bookkeeping, ServerInv, Starts
  <2> QED BY <1>0, <2>5, <2>8, <2>9, ServerInvNext DEF ServerInv, Asked
<1> QED BY <1>1, <1>2

LEMMA InvalidatesProcessKeeps ==
    ASSUME ServerInv, NEW c \in Caller, InvalidatesProcess(c) PROVE ServerInv'
<1> DEFINE point == IF startup = c THEN "initDone" ELSE "done"
           cs == [call EXCEPT ![c].pc = point, ![c].answer = NoAnswer]
<1>1. /\ call[c].pc = "invalidate" /\ Invalidated(call[c].gen, cs, os)
      /\ UNCHANGED <<generation, startup, starts, faults, setup>>
  BY DEF InvalidatesProcess, At
<1>2. point \in Points \ (Busy \cup {"idle"}) /\ point # "check"
  BY DEF Points, Busy, Waiting
<1> HIDE DEF point
<1>3. GoesOn(cs, c, point)
  <2>1. call[c].id = 0
    BY <1>1, CallIs DEF Busy, Waiting
  <2>2. cs = Refused(call, c, point) /\ call[c].pc # "idle"
    BY <1>1 DEF Refused
  <2> HIDE DEF cs
  <2> QED BY <1>2, <2>1, <2>2, GoingOnSoFar
<1>4. pending = pending \ {call[c].id}
  BY <1>1, NothingTakenBack DEF Busy, Waiting
<1> HIDE DEF cs
<1>5. CallersOK(cs, pending, os, starts) /\ \A d \in Caller : call[d].pc # "idle" => cs[d].pc # "idle"
  BY <1>2, <1>3, <1>4, GoingOnKeeps
<1>6. Asked(seeds, cs) /\ ProcessesOK(process.gen, generation, os, starts)
  BY <1>5 DEF ServerInv, Asked, Starts
<1>7. startup' \in Caller \cup {None}
  BY <1>1 DEF ServerInv, Bookkeeping
<1> QED BY <1>1, <1>5, <1>6, <1>7, InvalidatedKeeps

LEMMA InitDoneKeeps ==
    ASSUME ServerInv, NEW c \in Caller, InitDone(c) PROVE ServerInv'
<1>0. /\ call[c].pc = "initDone" /\ call[c].id = 0 /\ startup' = None
      /\ UNCHANGED <<generation, starts, faults, setup>>
      /\ pending = pending \ {call[c].id}
  BY CallIs, NothingTakenBack DEF InitDone, At, Busy, Waiting
<1>1. CASE /\ call[c].answer.ok /\ IsRegistered(generation)
           /\ process' = [process EXCEPT !.ready = TRUE]
           /\ call' = [call EXCEPT ![c].pc = AfterEnsure(c), ![c].answer = NoAnswer]
           /\ UNCHANGED <<pending, runtime, terminal, seeds, os>>
  <2>1. /\ AfterEnsure(c) \in Points \ (Busy \cup {"idle"})
        /\ AfterEnsure(c) = "check" => KindOf[c] # "start"
    BY DEF AfterEnsure, Kind, Points, Busy, Waiting
  <2>2. GoesOn(call', c, AfterEnsure(c))
    <3> DEFINE point == AfterEnsure(c)
    <3>0. point \in Points /\ call' = [call EXCEPT ![c].pc = point, ![c].answer = NoAnswer]
      BY <1>1, <2>1
    <3> HIDE DEF point
    <3>1. call' = Refused(call, c, point) /\ call[c].pc # "idle"
      BY <1>0, <3>0 DEF Refused
    <3> QED BY <1>0, <2>1, <3>0, <3>1, GoingOnSoFar DEF point
  <2>3. /\ CallersOK(call', pending', os, starts)
        /\ \A d \in Caller : call[d].pc # "idle" => call'[d].pc # "idle"
    BY <1>0, <1>1, <2>1, <2>2, GoingOnKeeps
  <2>4. process' \in [gen : 0 .. generation, ready : BOOLEAN] /\ process'.gen = process.gen
    BY <1>1 DEF ServerInv, Bookkeeping
  <2>5. Bookkeeping'
    BY <1>0, <1>1, <2>4 DEF ServerInv, Bookkeeping
  <2> QED BY <1>0, <1>1, <2>3, <2>4, <2>5, ServerInvNext DEF ServerInv, Asked, Starts
<1>2. CASE /\ call' = [call EXCEPT ![c].pc = "done", ![c].answer = NoAnswer]
           /\ UNCHANGED <<process, pending, runtime, terminal, seeds, os>>
  <2>1. GoesOn(call', c, "done")
    <3>1. call' = Refused(call, c, "done") /\ "done" \in Points /\ call[c].pc # "idle"
      BY <1>0, <1>2 DEF Refused, Points
    <3> QED BY <1>0, <3>1, GoingOnSoFar
  <2>2. pending' = pending \ {call[c].id} /\ startup' \in Caller \cup {None} /\ faults' \in Nat
    BY <1>0, <1>2 DEF ServerInv, Bookkeeping
  <2> QED BY <1>0, <1>2, <2>1, <2>2, GoingOnAloneKeeps DEF Points, Busy, Waiting
<1>3. CASE ~call[c].answer.ok /\ Invalidated(generation, [call EXCEPT ![c].pc = "done"], os)
  <2> DEFINE cs == [call EXCEPT ![c].pc = "done"]
  <2>1. GoesOn(cs, c, "done")
    <3>1. cs = Moved(call, c, "done") /\ "done" \in Points /\ call[c].pc # "idle"
      BY <1>0 DEF Moved, Points
    <3> HIDE DEF cs
    <3> QED BY <1>0, <1>3, <3>1, GoingOnSoFar
  <2>2. Invalidated(generation, cs, os)
    BY <1>3
  <2> HIDE DEF cs
  <2>3. CallersOK(cs, pending, os, starts) /\ \A d \in Caller : call[d].pc # "idle" => cs[d].pc # "idle"
    BY <1>0, <2>1, GoingOnKeeps DEF Points, Busy, Waiting
  <2>4. Asked(seeds, cs) /\ ProcessesOK(process.gen, generation, os, starts)
    BY <2>3 DEF ServerInv, Asked, Starts
  <2> QED BY <1>0, <2>2, <2>3, <2>4, InvalidatedKeeps
<1> QED BY <1>1, <1>2, <1>3 DEF InitDone

LEMMA StartReturnsKeeps ==
    ASSUME ServerInv, NEW c \in Caller, StartReturns(c) PROVE ServerInv'
<1>0. /\ call[c].pc = "done" /\ KindOf[c] = "start" /\ call[c].pc \notin Busy
      /\ Returns(c)
      /\ UNCHANGED <<process, generation, startup, pending, terminal, os, starts, faults, setup>>
  BY DEF StartReturns, At, Kind, Busy, Waiting
<1>1. /\ Bookkeeping /\ SeedsOK(seeds, starts) /\ RuntimeOK(runtime, starts)
      /\ starts \in 0 .. MaxStarts
  BY Plain DEF ServerInv
<1>2. CallersOK(call', pending', os', starts')
  BY <1>0, ReturningKeeps
<1>3. call[c].turn = starts /\ starts # 0 /\ (call[c].answer.ok => call[c].answer.turn = starts)
  BY <1>0 DEF ServerInv, CallersOK, TurnsOK, Starts, AnswerOK, Handshake
<1>4. SeedsOK(seeds', starts) /\ seeds'.waiting = 0 /\ RuntimeOK(runtime', starts)
  <2>1. CASE call[c].answer.ok
    <3>1. runtime' = StartedRuntime(starts) /\ seeds' = Captured(seeds, starts)
      BY <1>3, <2>1 DEF StartReturns
    <3>2. starts \in 1 .. starts
      BY <1>1, <1>3, BoundAssumption
    <3>3. RuntimeOK(runtime', starts)
      BY <1>1, <1>3, <3>1, <3>2, BoundAssumption DEF RuntimeOK, StartedRuntime, IdleRuntime, Phases
    <3> QED BY <1>1, <3>1, <3>2, <3>3, CapturedKeeps
  <2>2. CASE ~call[c].answer.ok
    <3>1. seeds' = [Finish(seeds, seeds.waiting) EXCEPT !.waiting = 0] /\ runtime' = runtime
      BY <2>2 DEF StartReturns
    <3>2. seeds'.waiting = 0
      <4>1. seeds \in Seeds(starts)
        BY <1>1 DEF SeedsOK
      <4> QED BY <1>1, <3>1, <4>1 DEF Finish, Seeds
    <3> QED BY <1>1, <3>1, <3>2, RefusedKeeps
  <2> QED BY <2>1, <2>2
<1>5. Bookkeeping'
  BY <1>0, <1>1 DEF Bookkeeping
<1> QED BY <1>0, <1>2, <1>4, <1>5, ServerInvNext DEF ServerInv, Asked

LEMMA PageReturnsKeeps ==
    ASSUME ServerInv, NEW c \in Caller, PageReturns(c) PROVE ServerInv'
<1>0. /\ call[c].pc = "done" /\ KindOf[c] # "start" /\ call[c].pc \notin Busy
      /\ Returns(c)
      /\ UNCHANGED <<process, generation, startup, pending, terminal, seeds, os, setup, starts, faults>>
  BY DEF PageReturns, At, Kind, Busy, Waiting
<1>1. RuntimeOK(runtime', starts)
  <2>1. call[c].answer.turn \in 0 .. starts /\ starts \in Nat /\ RuntimeOK(runtime, starts)
    BY CallIs DEF Told, ServerInv
  <2> QED BY <2>1 DEF PageReturns, PageRuntime, RuntimeOK, IdleRuntime, Phases
<1> QED BY <1>0, <1>1, ReturningAloneKeeps

LEMMA InterruptReturnsKeeps ==
    ASSUME ServerInv, NEW c \in Caller, InterruptReturns(c) PROVE ServerInv'
<1>0. /\ call[c].pc = "done" /\ KindOf[c] = "interrupt" /\ call[c].pc \notin Busy
      /\ Returns(c)
      /\ UNCHANGED <<process, generation, startup, pending, terminal, seeds, os, setup, starts, faults>>
  BY DEF InterruptReturns, At, Kind, Busy, Waiting
<1>1. RuntimeOK(runtime', starts)
  <2>1. call[c].turn # 0 /\ RuntimeOK(runtime, starts)
    BY <1>0 DEF ServerInv, CallersOK, TurnsOK
  <2> QED BY <2>1 DEF InterruptReturns, MarksStopping, RuntimeOK, Phases
<1> QED BY <1>0, <1>1, ReturningAloneKeeps

(* A turn is asked for: nobody else asks, and no evaluation waits.          *)
LEMMA StartMadeKeeps ==
    ASSUME ServerInv, NEW c \in Caller, call[c].pc = "idle", KindOf[c] = "start",
           starts < setup.starts, \A d \in Caller : KindOf[d] = "start" => call[d].pc = "idle",
           starts' = starts + 1, seeds' = [seeds EXCEPT !.waiting = starts'],
           call' = [call EXCEPT ![c].pc = "ensure", ![c].turn = starts'],
           UNCHANGED <<process, generation, startup, pending, runtime, terminal, os, faults, setup>>
    PROVE  ServerInv'
<1> DEFINE n == starts + 1
<1>0. /\ Bookkeeping /\ CallersOK(call, pending, os, starts)
      /\ ProcessesOK(process.gen, generation, os, starts)
      /\ SeedsOK(seeds, starts) /\ Asked(seeds, call) /\ RuntimeOK(runtime, starts)
      /\ starts \in 0 .. MaxStarts /\ MaxStarts \in Nat /\ starts \in Nat
  BY Plain DEF ServerInv
<1>1. setup.starts \in 0 .. MaxStarts
  BY <1>0, SetupAssumption DEF Bookkeeping, SetupType
<1>2. starts' = n /\ n \in 0 .. MaxStarts /\ starts < MaxStarts /\ n # 0 /\ n \in Nat
      /\ 0 .. starts \subseteq 0 .. n /\ n \in 0 .. n
  BY <1>0, <1>1
<1>3. Calls(starts) \subseteq Calls(n)
  BY <1>2 DEF Calls, Told
<1>4. /\ \A d \in Caller \ {c} : call'[d] = call[d]
      /\ call' \in [Caller -> Calls(n)]
      /\ call'[c].pc = "ensure" /\ call'[c].turn = n /\ call'[c].id = call[c].id
      /\ call'[c].answer = call[c].answer
  <2>1. call \in [Caller -> Calls(n)] /\ call' = [call EXCEPT ![c].pc = "ensure", ![c].turn = n]
    BY <1>0, <1>2, <1>3 DEF CallersOK
  <2> HIDE DEF n
  <2>2. call' \in [Caller -> Calls(n)]
    <3>1. call' = Calling(call, c, n)
      BY <2>1 DEF Calling
    <3>2. \A point \in Points : Calling(call, c, n) \in [Caller -> Calls(n)]
      BY <1>2, <2>1, MovedType
    <3> QED BY <3>1, <3>2 DEF Points
  <2> QED BY <2>1, <2>2 DEF Calls
<1>5. /\ call[c].id = 0 /\ ~call[c].answer.ok
      /\ \A d \in Caller : Starts(d, call') => d = c
  BY <1>0, <1>4 DEF CallersOK, IdsOK, TurnsOK, Starts, Busy, Waiting
<1>6. IdsOK(call', pending')
  <2>1. 0 \notin pending
    BY <1>0, Plain
  <2> QED BY <1>0, <1>4, <1>5, <2>1 DEF CallersOK, IdsOK, Busy, Waiting
<1>7. TurnsOK(call', n)
  <2>1. \A d \in Caller : AnswerOK(d, call')
    BY <1>4, <1>5 DEF AnswerOK
  <2> QED BY <1>0, <1>2, <1>4, <1>5, <2>1 DEF CallersOK, TurnsOK, Starts
<1>8. MessagesOK(call', os')
  <2>1. \A d \in Caller : ~Sender(d, call')
    BY <1>4, <1>5 DEF Sender, Starts
  <2> QED BY <2>1 DEF MessagesOK
<1>9. ProcessesOK(process'.gen, generation', os', n)
  <2>1. Seq(Inputs(starts)) \subseteq Seq(Inputs(n)) /\ Seq(Outputs(starts)) \subseteq Seq(Outputs(n))
    <3>1. Inputs(starts) \subseteq Inputs(n) /\ Outputs(starts) \subseteq Outputs(n)
      BY <1>2 DEF Inputs, Outputs, Requests, Lines
    <3> QED BY <3>1, SeqMonotonic
  <2>2. Processes(starts) \subseteq Processes(n)
    BY <1>2, <2>1 DEF Processes
  <2> QED BY <1>0, <2>2 DEF ProcessesOK
<1>10. SeedsOK(seeds', n)
  <2>1. seeds.waiting = 0
    BY <1>0 DEF Asked, Starts
  <2> QED BY <1>0, <1>2, <2>1, AskedKeeps
<1>11. Asked(seeds', call') /\ RuntimeOK(runtime', n)
  BY <1>0, <1>2, <1>4 DEF Asked, Starts, RuntimeOK
<1>12. Bookkeeping'
  BY <1>0, <1>1 DEF Bookkeeping
<1> QED BY <1>2, <1>4, <1>6, <1>7, <1>8, <1>9, <1>10, <1>11, <1>12, ServerInvNext DEF CallersOK

(* Another call is made. *)
LEMMA OtherMadeKeeps ==
    ASSUME ServerInv, NEW c \in Caller, call[c].pc = "idle", KindOf[c] # "start",
           NEW t \in 0 .. starts, KindOf[c] = "interrupt" => t # 0,
           \/ call' = [call EXCEPT ![c].pc = "ensure", ![c].turn = t]
           \/ t = call[c].turn /\ call' = [call EXCEPT ![c].pc = "ensure"],
           UNCHANGED <<process, generation, startup, pending, runtime, terminal, seeds, os, starts,
                       faults, setup>>
    PROVE  ServerInv'
<1>1. call \in [Caller -> Calls(starts)] /\ call[c].id = 0 /\ CallersOK(call, pending, os, starts)
      /\ 0 \notin pending
  BY CallIs, Plain DEF Busy, Waiting, ServerInv
<1>2. call' \in [Caller -> Calls(starts)]
  BY <1>1 DEF Calls, Points
<1>3. /\ \A d \in Caller \ {c} : call'[d] = call[d]
      /\ call'[c].pc = "ensure" /\ call'[c].id = 0 /\ call'[c].turn = t
  BY <1>1, CallIs DEF Calls
<1>4. AnswerOK(c, call')
  BY DEF AnswerOK, Starts
<1>5. CallersOK(call', pending \ {call[c].id}, os, starts)
  <2>1. call'[c].pc \notin Busy /\ call'[c].pc # "idle" /\ call'[c].pc # "check"
    BY <1>3 DEF Busy, Waiting
  <2> QED BY <1>1, <1>2, <1>3, <1>4, <2>1, CallerStepsAside
<1>6. CallersOK(call', pending', os, starts)
  BY <1>1, <1>5
<1>7. Bookkeeping' /\ RuntimeOK(runtime', starts)
  BY DEF ServerInv, Bookkeeping
<1> QED BY <1>3, <1>6, <1>7, CallerAloneKeeps

LEMMA CallMadeKeeps == ASSUME ServerInv, NEW c \in Caller, CallMade(c) PROVE ServerInv'
<1>0. /\ call[c].pc = "idle" /\ RuntimeOK(runtime, starts) /\ call[c].turn \in 0 .. starts
      /\ UNCHANGED <<process, generation, startup, pending, runtime, terminal, os, faults, setup>>
  BY CallIs DEF CallMade, At, ServerInv
<1>1. CASE Kind(c) = "start"
  <2>1. /\ KindOf[c] = "start" /\ starts < setup.starts
        /\ \A d \in Caller : KindOf[d] = "start" => call[d].pc = "idle"
        /\ starts' = starts + 1 /\ seeds' = [seeds EXCEPT !.waiting = starts']
        /\ call' = [call EXCEPT ![c].pc = "ensure", ![c].turn = starts']
    BY <1>1 DEF CallMade, Kind, At
  <2> QED BY <1>0, <2>1, StartMadeKeeps
<1>2. CASE Kind(c) = "interrupt"
  <2>1. /\ KindOf[c] = "interrupt" /\ runtime.phase = "active"
        /\ call' = [call EXCEPT ![c].pc = "ensure", ![c].turn = runtime.turn]
        /\ UNCHANGED <<starts, seeds>>
    BY <1>2 DEF CallMade, Kind
  <2>2. runtime.turn \in 0 .. starts /\ runtime.turn # 0
    BY <1>0, <2>1 DEF RuntimeOK
  <2> QED BY <1>0, <2>1, <2>2, OtherMadeKeeps
<1>3. CASE Kind(c) \in {"reconcile", "resume"}
  <2>1. /\ KindOf[c] \in {"reconcile", "resume"}
        /\ call' = [call EXCEPT ![c].pc = "ensure"]
        /\ UNCHANGED <<starts, seeds>>
    BY <1>3 DEF CallMade, Kind, Goto
  <2> QED BY <1>0, <2>1, OtherMadeKeeps
<1> QED BY <1>1, <1>2, <1>3 DEF CallMade

-----------------------------------------------------------------------------
(* The steps of a process and of its readers *)

(* A line is read. *)
LEMMA LineTaken ==
    ASSUME ServerInv, NEW g \in Generation, os[g].stdout # <<>>,
           NEW ps, ps = TakenLine(g)
    PROVE  /\ Head(os[g].stdout) \in Outputs(starts)
           /\ \E k \in 1 .. Len(os[g].stdout) : Head(os[g].stdout) = os[g].stdout[k]
           /\ ProcessesOK(process.gen, generation, ps, starts)
           /\ CallersOK(call, pending, ps, starts)
<1> DEFINE q == os[g].stdout
<1>0. /\ ProcessesOK(process.gen, generation, os, starts) /\ generation \in Nat
      /\ CallersOK(call, pending, os, starts)
  BY Plain DEF ServerInv
<1>1. os \in [Generation -> Processes(starts)] /\ os[g] \in Processes(starts)
  BY <1>0 DEF ProcessesOK
<1>2. q \in Seq(Outputs(starts)) /\ q # <<>>
  BY <1>1 DEF Processes
<1>3. /\ Head(q) \in Outputs(starts) /\ Tail(q) \in Seq(Outputs(starts))
      /\ Len(Tail(q)) = Len(q) - 1 /\ Len(q) \in Nat /\ Head(q) = q[1]
      /\ \A i \in 1 .. Len(Tail(q)) : Tail(q)[i] = q[i + 1]
  BY <1>2, HeadTailProperties, LenProperties
<1>4. Len(q) # 0
  BY <1>2, EmptySeq
<1>5. /\ 1 \in 1 .. Len(q)
      /\ \A i \in 1 .. Len(Tail(q)) : i + 1 \in 1 .. Len(q)
  BY <1>3, <1>4
<1>6. \A h \in Generation \ {g} : ps[h] = os[h]
  BY <1>1 DEF TakenLine
<1>7. ps \in [Generation -> Processes(starts)]
  <2>1. [os[g] EXCEPT !.stdout = Tail(q)] \in Processes(starts)
    BY <1>1, <1>3 DEF Processes
  <2> QED BY <1>1, <2>1 DEF TakenLine
<1>8. /\ ps[g] \in Processes(starts) /\ ps[g].alive = os[g].alive /\ ps[g].killed = os[g].killed
      /\ ps[g].stdin = os[g].stdin /\ ps[g].stdout = Tail(q)
  <2>1. ps[g] = [os[g] EXCEPT !.stdout = Tail(q)]
    BY <1>1 DEF TakenLine
  <2> QED BY <1>1, <1>3, <2>1 DEF Processes
<1>9. ~(g > generation)
  BY <1>0, <1>2 DEF ProcessesOK, Unborn
<1> HIDE DEF q
<1>10. ProcessesOK(process.gen, generation, ps, starts)
  BY <1>0, <1>6, <1>7, <1>8, <1>9, ProcessChanges
<1>11. CallersOK(call, pending, ps, starts)
  <2>1. \A c \in Caller : Sender(c, call) =>
           /\ \A i \in 1 .. Len(ps[g].stdin) : InputOf(c, call, ps[g].stdin[i])
           /\ \A i \in 1 .. Len(ps[g].stdout) : OutputOf(c, call, ps[g].stdout[i])
    <3> SUFFICES ASSUME NEW c \in Caller, Sender(c, call)
                 PROVE  /\ \A i \in 1 .. Len(ps[g].stdin) : InputOf(c, call, ps[g].stdin[i])
                        /\ \A i \in 1 .. Len(ps[g].stdout) : OutputOf(c, call, ps[g].stdout[i])
      OBVIOUS
    <3>1. /\ \A i \in 1 .. Len(os[g].stdin) : InputOf(c, call, os[g].stdin[i])
          /\ \A i \in 1 .. Len(q) : OutputOf(c, call, q[i])
      BY <1>0 DEF CallersOK, MessagesOK, q
    <3>2. \A i \in 1 .. Len(Tail(q)) : OutputOf(c, call, Tail(q)[i])
      BY <1>3, <1>5, <3>1
    <3> QED BY <1>8, <3>1, <3>2
  <2> QED BY <1>0, <1>6, <2>1, MessagesChange
<1> QED BY <1>3, <1>5, <1>10, <1>11 DEF q

LEMMA ReadReplyKeeps ==
    ASSUME ServerInv, NEW g \in Generation, os[g].stdout # <<>>,
           NEW line, line = Head(os[g].stdout), ReadReply(g, line), os' = TakenLine(g),
           UNCHANGED <<generation, startup, starts, faults, setup>>
    PROVE  ServerInv'
<1> DEFINE answer == [ok |-> line.type = "reply", id |-> line.id, turn |-> line.turn]
           gone == {line.id} \cap pending
<1>1. /\ line \in Outputs(starts)
      /\ \E k \in 1 .. Len(os[g].stdout) : line = os[g].stdout[k]
      /\ ProcessesOK(process.gen, generation, os', starts)
      /\ CallersOK(call, pending, os', starts)
  BY LineTaken
<1>2. /\ pending' = pending \ {line.id} /\ call' = Replied(line.id, answer)
      /\ UNCHANGED <<process, runtime, terminal, seeds>>
  BY DEF ReadReply
<1>3. answer \in Told(starts) /\ answer.turn = line.turn /\ (answer.ok <=> line.type = "reply")
  BY <1>1 DEF Outputs, Lines, Told
<1> HIDE DEF answer
<1>4. call' = AnsweredAll(call, gone, answer)
  BY <1>2 DEF Replied, AnsweredAll
<1>5. pending' = pending \ gone /\ gone \in SUBSET pending /\ 0 \notin pending
  BY <1>2, Plain DEF ServerInv
<1>6. \A c \in Caller : call[c].id \in gone /\ Sender(c, call) /\ answer.ok
                          => answer.turn = call[c].turn
  <2>1. CallersOK(call, pending, os, starts)
    BY DEF ServerInv
  <2> QED BY <1>1, <1>3, <2>1 DEF CallersOK, MessagesOK, OutputOf
<1> HIDE DEF gone
<1>7. CallersOK(call', pending', os', starts')
  <2>1. CallersOK(AnsweredAll(call, gone, answer), pending \ gone, os', starts)
    BY <1>1, <1>3, <1>5, <1>6, CallersAreAnswered
  <2> QED BY <2>1, <1>4, <1>5
<1>8. \A c \in Caller : Starts(c, call) => Starts(c, call')
  <2>1. \A c \in Caller : call'[c] = IF call[c].id \in gone THEN Answered(call, c, answer) ELSE call[c]
    BY <1>4 DEF AnsweredAll
  <2>2. \A c \in Caller : call[c].pc # "idle" => Answered(call, c, answer).pc # "idle"
    BY CallIs DEF Answered, Calls
  <2> QED BY <2>1, <2>2 DEF Starts
<1>9. Bookkeeping' /\ RuntimeOK(runtime', starts')
  BY <1>2 DEF ServerInv, Bookkeeping
<1> QED BY <1>1, <1>2, <1>7, <1>8, <1>9, ServerInvNext DEF ServerInv, Asked

LEMMA ReadNoticeKeeps ==
    ASSUME ServerInv, NEW g \in Generation, os[g].stdout # <<>>,
           NEW line, line = Head(os[g].stdout),
           ReadStarted(g, line) \/ ReadCompleted(g, line) \/ ReadOfStaleProcess(g, line),
           os' = TakenLine(g), UNCHANGED <<generation, startup, starts, faults, setup>>
    PROVE  ServerInv'
<1>1. /\ line \in Outputs(starts)
      /\ ProcessesOK(process.gen, generation, os', starts)
      /\ CallersOK(call, pending, os', starts)
  BY LineTaken
<1>2. /\ Bookkeeping /\ SeedsOK(seeds, starts) /\ Asked(seeds, call) /\ RuntimeOK(runtime, starts)
      /\ starts \in 0 .. MaxStarts /\ MaxStarts \in Nat
  BY Plain DEF ServerInv
<1>3. UNCHANGED <<process, pending, call>>
  BY DEF ReadStarted, ReadCompleted, ReadOfStaleProcess
<1>4. CASE ReadStarted(g, line)
  <2>1. line.turn \in 1 .. starts
    BY <1>1, <1>2, <1>4 DEF ReadStarted, Outputs, Lines
  <2>2. /\ runtime' = [phase |-> "active", turn |-> line.turn]
        /\ seeds' = Captured(seeds, line.turn) /\ terminal' = terminal
    BY <1>4 DEF ReadStarted
  <2>3. RuntimeOK(runtime', starts)
    BY <2>1, <2>2 DEF RuntimeOK, Phases
  <2>4. SeedsOK(seeds', starts) /\ (seeds'.waiting # 0 => seeds.waiting # 0)
    BY <1>2, <2>1, <2>2, CapturedKeeps
  <2>5. Bookkeeping' /\ Asked(seeds', call')
    BY <1>2, <1>3, <2>2, <2>4 DEF Bookkeeping, Asked
  <2> QED BY <1>1, <1>3, <2>3, <2>4, <2>5, ServerInvNext
<1>5. CASE ReadCompleted(g, line)
  <2>1. line.turn \in 1 .. starts
    BY <1>1, <1>2, <1>5 DEF ReadCompleted, Outputs, Lines
  <2>2. /\ terminal' = terminal \cup {line.turn}
        /\ runtime' = IF runtime.turn = line.turn THEN IdleRuntime ELSE runtime
        /\ seeds' = Completed(seeds, line.turn)
    BY <1>5 DEF ReadCompleted
  <2>3. RuntimeOK(runtime', starts)
    BY <1>2, <2>2 DEF RuntimeOK, IdleRuntime, Phases
  <2>4. SeedsOK(seeds', starts) /\ seeds'.waiting = seeds.waiting
    BY <1>2, <2>1, <2>2, CompletedKeeps
  <2>5. Bookkeeping' /\ Asked(seeds', call')
    <3>1. terminal' \subseteq Turn
      <4>1. line.turn \in Turn
        BY <1>2, <2>1 DEF Turn
      <4>2. terminal \subseteq Turn
        BY <1>2 DEF Bookkeeping
      <4> QED BY <2>2, <4>1, <4>2
    <3> QED BY <1>2, <1>3, <2>4, <3>1 DEF Bookkeeping, Asked
  <2> QED BY <1>1, <1>3, <2>3, <2>4, <2>5, ServerInvNext
<1>6. CASE ReadOfStaleProcess(g, line)
  <2>1. UNCHANGED <<runtime, terminal, seeds>>
    BY <1>6 DEF ReadOfStaleProcess
  <2>2. Bookkeeping' /\ Asked(seeds', call')
    BY <1>2, <1>3, <2>1 DEF Bookkeeping, Asked
  <2> QED BY <1>1, <1>2, <1>3, <2>1, <2>2, ServerInvNext
<1> QED BY <1>4, <1>5, <1>6

LEMMA ReadLineKeeps == ASSUME ServerInv, NEW g \in Generation, ReadLine(g) PROVE ServerInv'
<1> DEFINE line == Head(os[g].stdout)
<1>0. os[g].stdout # <<>> /\ UNCHANGED <<generation, startup, starts, faults, setup>>
  BY DEF ReadLine
<1>1. CASE ReadReply(g, line) /\ os' = TakenLine(g)
  BY <1>0, <1>1, ReadReplyKeeps
<1>2. CASE /\ ReadStarted(g, line) \/ ReadCompleted(g, line) \/ ReadOfStaleProcess(g, line)
           /\ os' = TakenLine(g)
  BY <1>0, <1>2, ReadNoticeKeeps
<1>3. CASE Invalidated(g, call, TakenLine(g))
  <2> DEFINE ps == TakenLine(g)
  <2>1. Invalidated(g, call, ps) /\ ps = TakenLine(g)
    BY <1>3
  <2> HIDE DEF ps
  <2>2. ProcessesOK(process.gen, generation, ps, starts) /\ CallersOK(call, pending, ps, starts)
    BY <1>0, <2>1, LineTaken
  <2>3. Asked(seeds, call) /\ startup' \in Caller \cup {None}
    BY <1>0 DEF ServerInv, Bookkeeping
  <2> QED BY <1>0, <2>1, <2>2, <2>3, InvalidatedKeeps
<1> QED BY <1>1, <1>2, <1>3 DEF ReadLine

LEMMA ExitHandledKeeps == ASSUME ServerInv, NEW g \in Generation, ExitHandled(g) PROVE ServerInv'
<1> DEFINE ps == [os EXCEPT ![g].reaped = TRUE]
<1>0. /\ Invalidated(g, call, ps) /\ UNCHANGED <<generation, startup, starts, faults, setup>>
      /\ ~os[g].alive /\ ~os[g].reaped
      /\ ProcessesOK(process.gen, generation, os, starts) /\ generation \in Nat
      /\ CallersOK(call, pending, os, starts)
  BY Plain DEF ExitHandled, ServerInv
<1>1. os \in [Generation -> Processes(starts)] /\ os[g] \in Processes(starts)
  BY <1>0 DEF ProcessesOK
<1>2. \A h \in Generation \ {g} : ps[h] = os[h]
  BY <1>1
<1>3. /\ ps[g] \in Processes(starts) /\ ps[g].alive = os[g].alive /\ ps[g].killed = os[g].killed
      /\ ps[g].stdin = os[g].stdin /\ ps[g].stdout = os[g].stdout
  <2>1. ps[g] = [os[g] EXCEPT !.reaped = TRUE]
    BY <1>1
  <2> QED BY <1>1, <2>1 DEF Processes
<1>4. ~(g > generation)
  BY <1>0 DEF ProcessesOK, Unborn
<1>8. ps \in [Generation -> Processes(starts)]
  BY <1>1, <1>2, <1>3
<1> HIDE DEF ps
<1>5. ProcessesOK(process.gen, generation, ps, starts)
  BY <1>0, <1>2, <1>3, <1>4, <1>8, ProcessChanges
<1>6. CallersOK(call, pending, ps, starts)
  <2>1. \A h \in Generation : ps[h].stdin = os[h].stdin /\ ps[h].stdout = os[h].stdout
    BY <1>2, <1>3
  <2>2. CallersOK(call, pending, os, starts)
    BY <1>0
  <2> QED BY <2>1, <2>2, SameMessages
<1>7. Asked(seeds, call) /\ startup' \in Caller \cup {None}
  BY <1>0 DEF ServerInv, Bookkeeping
<1> QED BY <1>0, <1>5, <1>6, <1>7, InvalidatedKeeps

(* The process answers its first request with some lines.                   *)
Answering(g, turn, said) ==
    [os EXCEPT ![g].stdin = Tail(@), ![g].turn = turn, ![g].stdout = @ \o said]

LEMMA AnsweringKeeps ==
    ASSUME ServerInv, NEW g \in Generation, os[g].alive, os[g].stdin # <<>>,
           NEW turn \in 0 .. starts, NEW said \in Seq(Outputs(starts)),
           os' = Answering(g, turn, said),
           \A c \in Caller : Sender(c, call) /\ InputOf(c, call, Head(os[g].stdin)) =>
              \A k \in 1 .. Len(said) : OutputOf(c, call, said[k]),
           faults' \in Nat, UNCHANGED <<supervisorVars, call, starts, setup>>
    PROVE  ServerInv'
<1> DEFINE in == os[g].stdin
           out == os[g].stdout
<1>0. /\ ProcessesOK(process.gen, generation, os, starts) /\ generation \in Nat
      /\ CallersOK(call, pending, os, starts)
  BY Plain DEF ServerInv
<1>1. os \in [Generation -> Processes(starts)] /\ os[g] \in Processes(starts)
  BY <1>0 DEF ProcessesOK
<1>2. in \in Seq(Inputs(starts)) /\ out \in Seq(Outputs(starts)) /\ in # <<>>
  BY <1>1 DEF Processes
<1>3. /\ Head(in) = in[1] /\ Tail(in) \in Seq(Inputs(starts)) /\ Len(Tail(in)) = Len(in) - 1
      /\ Len(in) \in Nat /\ Len(in) # 0
      /\ \A i \in 1 .. Len(Tail(in)) : Tail(in)[i] = in[i + 1]
  BY <1>2, HeadTailProperties, LenProperties, EmptySeq
<1>4. /\ out \o said \in Seq(Outputs(starts)) /\ Len(out \o said) = Len(out) + Len(said)
      /\ Len(out) \in Nat /\ Len(said) \in Nat
      /\ \A i \in 1 .. Len(out) + Len(said) :
            (out \o said)[i] = IF i <= Len(out) THEN out[i] ELSE said[i - Len(out)]
  BY <1>2, ConcatProperties, LenProperties
<1> DEFINE new == [os[g] EXCEPT !.stdin = Tail(in), !.turn = turn, !.stdout = out \o said]
<1>5. /\ new \in Processes(starts) /\ new.alive = os[g].alive /\ new.killed = os[g].killed
      /\ new.stdin = Tail(in) /\ new.stdout = out \o said
  BY <1>1, <1>3, <1>4 DEF Processes
<1>6. os' = [os EXCEPT ![g] = new]
  BY <1>1 DEF Answering
<1> HIDE DEF new
<1>7. /\ os' \in [Generation -> Processes(starts)] /\ os'[g] = new
      /\ \A h \in Generation \ {g} : os'[h] = os[h]
  BY <1>1, <1>5, <1>6
<1>8. ~(g > generation)
  BY <1>0 DEF ProcessesOK, Unborn
<1>9. ProcessesOK(process.gen, generation, os', starts)
  BY <1>0, <1>5, <1>7, <1>8, ProcessChanges
<1>10. CallersOK(call, pending, os', starts)
  <2> SUFFICES ASSUME NEW c \in Caller, Sender(c, call)
               PROVE  /\ \A i \in 1 .. Len(os'[g].stdin) : InputOf(c, call, os'[g].stdin[i])
                      /\ \A i \in 1 .. Len(os'[g].stdout) : OutputOf(c, call, os'[g].stdout[i])
    BY <1>0, <1>7, MessagesChange
  <2>1. /\ \A i \in 1 .. Len(in) : InputOf(c, call, in[i])
        /\ \A i \in 1 .. Len(out) : OutputOf(c, call, out[i])
    BY <1>0 DEF CallersOK, MessagesOK
  <2>2. \A k \in 1 .. Len(said) : OutputOf(c, call, said[k])
    <3>1. 1 \in 1 .. Len(in)
      BY <1>3
    <3> QED BY <2>1, <1>3, <3>1
  <2>3. \A i \in 1 .. Len(Tail(in)) : InputOf(c, call, Tail(in)[i])
    <3> TAKE i \in 1 .. Len(Tail(in))
    <3>1. i + 1 \in 1 .. Len(in) /\ Tail(in)[i] = in[i + 1]
      BY <1>3
    <3> QED BY <2>1, <3>1
  <2>4. \A i \in 1 .. Len(out \o said) : OutputOf(c, call, (out \o said)[i])
    <3> TAKE i \in 1 .. Len(out \o said)
    <3>1. CASE i <= Len(out)
      <4>1. i \in 1 .. Len(out) /\ (out \o said)[i] = out[i]
        BY <3>1, <1>4
      <4> QED BY <2>1, <4>1
    <3>2. CASE ~(i <= Len(out))
      <4>1. i - Len(out) \in 1 .. Len(said) /\ (out \o said)[i] = said[i - Len(out)]
        BY <3>2, <1>4
      <4> QED BY <2>2, <4>1
    <3> QED BY <3>1, <3>2
  <2> QED BY <1>5, <1>7, <2>3, <2>4
<1>11. Bookkeeping' /\ Asked(seeds', call')
  BY DEF ServerInv, Bookkeeping, supervisorVars, Asked
<1> QED BY <1>9, <1>10, <1>11, ServerInvNext DEF ServerInv, supervisorVars

LEMMA SayIsAnswering ==
    ASSUME ServerInv, NEW g \in Generation, NEW said, Say(g, said)
    PROVE  os' = Answering(g, os[g].turn, said)
<1> DEFINE x == os[g]
           a == Tail(x.stdin)
           b == x.stdout \o said
<1>1. os \in [Generation -> Processes(starts)] /\ x \in Processes(starts)
  BY DEF ServerInv, ProcessesOK
<1>2. os' = [os EXCEPT ![g] = [x EXCEPT !.stdin = a, !.stdout = b]]
  BY <1>1 DEF Say
<1>3. Answering(g, x.turn, said) = [os EXCEPT ![g] = [x EXCEPT !.stdin = a, !.turn = x.turn, !.stdout = b]]
  BY <1>1 DEF Answering
<1> HIDE DEF a, b, x
<1>4. [x EXCEPT !.stdin = a, !.stdout = b] = [x EXCEPT !.stdin = a, !.turn = x.turn, !.stdout = b]
  BY <1>1 DEF Processes
<1> QED BY <1>2, <1>3, <1>4 DEF x

(* A reply is one to the request, and a start is answered with its turn.    *)
AnswersWith(g, turn, said) ==
    LET request == Head(os[g].stdin) IN
    /\ os' = Answering(g, turn, said)
    /\ \A k \in 1 .. Len(said) : said[k].type = "reply" =>
          said[k].id = request.id /\ (request.kind = "start" => said[k].turn = request.turn)

Says(g) == \E turn \in 0 .. starts, said \in Seq(Outputs(starts)) : AnswersWith(g, turn, said)

LEMMA ProcessSays == ASSUME ServerInv, NEW g \in Generation, ProcessAnswers(g) PROVE Says(g)
<1> DEFINE request == Head(os[g].stdin)
           turn == os[g].turn
           lines == Seq(Outputs(starts))
<1>0. os[g].stdin # <<>>
  BY DEF ProcessAnswers
<1>1. /\ request \in Inputs(starts) /\ turn \in 0 .. starts /\ starts \in Nat
      /\ 0 \notin Id
  <2>1. os[g] \in Processes(starts)
    BY DEF ServerInv, ProcessesOK
  <2>2. os[g].stdin \in Seq(Inputs(starts)) /\ turn \in 0 .. starts
    BY <2>1 DEF Processes
  <2>3. starts \in Nat /\ 0 \notin Id
    BY Plain, BoundAssumption DEF ServerInv
  <2> QED BY <1>0, <2>2, <2>3, HeadTailProperties
<1>2. request.id \in Id /\ request.turn \in 0 .. starts /\ (request.kind = "start" => request.turn # 0)
  BY <1>1 DEF Inputs, Requests
<1>3. ASSUME NEW said \in lines, NEW t \in 0 .. starts, os' = Answering(g, t, said),
             \A k \in 1 .. Len(said) :
                said[k].type = "reply" => said[k].id = request.id /\ (request.kind = "start" => said[k].turn = request.turn)
      PROVE  Says(g)
  BY <1>3 DEF Says, AnswersWith
<1>4. ASSUME NEW said \in lines, Say(g, said),
             \A k \in 1 .. Len(said) :
                said[k].type = "reply" => said[k].id = request.id /\ request.kind # "start"
      PROVE  Says(g)
  <2>1. os' = Answering(g, turn, said)
    BY <1>4, SayIsAnswering
  <2> HIDE DEF turn, request, lines
  <2> QED BY <1>1, <1>3, <1>4, <2>1
<1> DEFINE reply(t) == Line("reply", request.id, t)
           refusal == Line("refused", request.id, 0)
           started == Line("started", 0, request.turn)
           garbage == Line("garbage", 0, 0)
<1>5. /\ \A t \in 0 .. starts : reply(t) \in Outputs(starts)
      /\ refusal \in Outputs(starts) /\ garbage \in Outputs(starts)
      /\ request.kind = "start" => started \in Outputs(starts)
  BY <1>1, <1>2 DEF Line, Outputs, Lines
<1>6. /\ \A t : reply(t).type = "reply" /\ reply(t).id = request.id /\ reply(t).turn = t
      /\ refusal.type # "reply" /\ started.type # "reply" /\ garbage.type # "reply"
  BY DEF Line
<1>7. CASE /\ request.kind = "start" /\ turn = 0
           /\ \E first \in {"reply", "started"} :
                os' = Answering(g, request.turn,
                                IF first = "reply" THEN <<reply(request.turn), started>>
                                ELSE <<started, reply(request.turn)>>)
  <2>1. PICK first \in {"reply", "started"} :
                os' = Answering(g, request.turn,
                                IF first = "reply" THEN <<reply(request.turn), started>>
                                ELSE <<started, reply(request.turn)>>)
    BY <1>7
  <2> DEFINE r == reply(request.turn)
  <2>2. r \in Outputs(starts) /\ started \in Outputs(starts) /\ r.id = request.id
        /\ r.turn = request.turn /\ started.type # "reply"
    BY <1>2, <1>5, <1>6, <1>7
  <2> HIDE DEF request, turn, started, reply, refusal, garbage
  <2>3. CASE first = "reply"
    <3>1. os' = Answering(g, request.turn, <<r, started>>)
      BY <2>1, <2>3
    <3> HIDE DEF r
    <3>2. <<r, started>> \in lines
      BY <2>2
    <3>3. \A k \in 1 .. Len(<<r, started>>) : <<r, started>>[k] = r \/ <<r, started>>[k] = started
      OBVIOUS
    <3> HIDE DEF lines
    <3> QED BY <1>2, <1>3, <2>2, <3>1, <3>2, <3>3
  <2>4. CASE first # "reply"
    <3>1. os' = Answering(g, request.turn, <<started, r>>)
      BY <2>1, <2>4
    <3> HIDE DEF r
    <3>2. <<started, r>> \in lines
      BY <2>2
    <3>3. \A k \in 1 .. Len(<<started, r>>) : <<started, r>>[k] = r \/ <<started, r>>[k] = started
      OBVIOUS
    <3> HIDE DEF lines
    <3> QED BY <1>2, <1>3, <2>2, <3>1, <3>2, <3>3
  <2> QED BY <2>3, <2>4
<1>8. ASSUME NEW m \in Outputs(starts), Say(g, <<m>>),
             m.type = "reply" => m.id = request.id /\ request.kind # "start"
      PROVE  Says(g)
  <2>1. <<m>> \in lines
    OBVIOUS
  <2>2. \A k \in 1 .. Len(<<m>>) : <<m>>[k] = m
    OBVIOUS
  <2> HIDE DEF lines, request
  <2> QED BY <1>4, <1>8, <2>1, <2>2
<1>9. CASE Say(g, <<refusal>>)
  BY <1>5, <1>6, <1>8, <1>9
<1>10. CASE request.kind \in {"reconcile", "resume"} /\ Say(g, <<reply(turn)>>)
  BY <1>1, <1>5, <1>6, <1>8, <1>10
<1>11. CASE request.kind = "initialize" /\ Say(g, <<reply(0)>>)
  <2>1. 0 \in 0 .. starts
    BY <1>1
  <2> QED BY <2>1, <1>5, <1>6, <1>8, <1>11
<1>12. CASE request.kind = "interrupt" /\ Say(g, <<IF turn = request.turn THEN reply(0) ELSE refusal>>)
  <2>1. 0 \in 0 .. starts
    BY <1>1
  <2>2. CASE turn = request.turn
    BY <2>1, <2>2, <1>5, <1>6, <1>8, <1>12
  <2>3. CASE turn # request.turn
    BY <2>3, <1>5, <1>6, <1>8, <1>12
  <2> QED BY <2>2, <2>3
<1>13. CASE Say(g, <<garbage>>)
  BY <1>5, <1>6, <1>8, <1>13
<1>14. CASE Say(g, <<>>)
  <2>1. <<>> \in lines /\ Len(<<>>) = 0
    BY EmptySeq
  <2> HIDE DEF lines
  <2> QED BY <1>4, <1>14, <2>1
<1> QED BY <1>7, <1>9, <1>10, <1>11, <1>12, <1>13, <1>14 DEF ProcessAnswers, Answering

LEMMA ProcessAnswersKeeps == ASSUME ServerInv, NEW g \in Generation, ProcessAnswers(g) PROVE ServerInv'
<1>0. /\ os[g].alive /\ os[g].stdin # <<>>
      /\ UNCHANGED <<supervisorVars, call, starts, setup>> /\ faults' \in Nat
  <2>1. faults \in Nat
    BY DEF ServerInv, Bookkeeping
  <2>2. faults' = faults \/ faults' = faults + 1
    BY DEF ProcessAnswers, Fault
  <2>3. os[g].alive /\ os[g].stdin # <<>> /\ UNCHANGED <<supervisorVars, call, starts, setup>>
    BY DEF ProcessAnswers
  <2> QED BY <2>1, <2>2, <2>3
<1>1. PICK turn \in 0 .. starts, said \in Seq(Outputs(starts)) : AnswersWith(g, turn, said)
  BY ProcessSays DEF Says
<1>2. \A c \in Caller : Sender(c, call) /\ InputOf(c, call, Head(os[g].stdin)) =>
         \A k \in 1 .. Len(said) : OutputOf(c, call, said[k])
  BY <1>1 DEF AnswersWith, InputOf, OutputOf
<1> QED BY <1>0, <1>1, <1>2, AnsweringKeeps DEF AnswersWith

LEMMA TurnEndsKeeps == ASSUME ServerInv, NEW g \in Generation, TurnEnds(g) PROVE ServerInv'
<1> DEFINE out == os[g].stdout
           m == Line("completed", 0, os[g].turn)
<1>0. /\ ProcessesOK(process.gen, generation, os, starts) /\ generation \in Nat
      /\ CallersOK(call, pending, os, starts) /\ starts \in Nat
      /\ os[g].alive /\ os[g].turn # 0
      /\ UNCHANGED <<process, generation, startup, pending, runtime, terminal, seeds, call, starts,
                     faults, setup>>
  BY Plain, BoundAssumption DEF ServerInv, TurnEnds, supervisorVars
<1>1. os \in [Generation -> Processes(starts)] /\ os[g] \in Processes(starts)
  BY <1>0 DEF ProcessesOK
<1>2. out \in Seq(Outputs(starts)) /\ m \in Outputs(starts) /\ m.type = "completed"
  BY <1>0, <1>1 DEF Processes, Outputs, Lines, Line
<1>3. /\ Append(out, m) \in Seq(Outputs(starts)) /\ Len(Append(out, m)) = Len(out) + 1
      /\ Len(out) \in Nat /\ Append(out, m)[Len(out) + 1] = m
      /\ \A i \in 1 .. Len(out) : Append(out, m)[i] = out[i]
  BY <1>2, AppendProperties, LenProperties
<1> DEFINE new == [os[g] EXCEPT !.turn = 0, !.stdout = Append(out, m)]
<1>4. /\ new \in Processes(starts) /\ new.alive = os[g].alive /\ new.killed = os[g].killed
      /\ new.stdin = os[g].stdin /\ new.stdout = Append(out, m)
  <2> HIDE DEF out, m
  <2> DEFINE x == os[g]
             a == Append(out, m)
  <2>1. x \in Processes(starts) /\ a \in Seq(Outputs(starts)) /\ 0 \in 0 .. starts
    BY <1>0, <1>1, <1>3
  <2>2. new = [x EXCEPT !.turn = 0, !.stdout = a]
    OBVIOUS
  <2> HIDE DEF x, a, new
  <2>3. /\ new \in Processes(starts) /\ new.alive = x.alive /\ new.killed = x.killed
        /\ new.stdin = x.stdin /\ new.stdout = a
    BY <2>1, <2>2 DEF Processes
  <2> QED BY <2>3 DEF x, a
<1>5. os' = [os EXCEPT ![g] = new]
  BY <1>1 DEF TurnEnds
<1> HIDE DEF new, m
<1>6. /\ os' \in [Generation -> Processes(starts)] /\ os'[g] = new
      /\ \A h \in Generation \ {g} : os'[h] = os[h]
  BY <1>1, <1>4, <1>5
<1>7. ~(g > generation)
  BY <1>0 DEF ProcessesOK, Unborn
<1>8. ProcessesOK(process.gen, generation, os', starts)
  BY <1>0, <1>4, <1>6, <1>7, ProcessChanges
<1>9. CallersOK(call, pending, os', starts)
  <2> SUFFICES ASSUME NEW c \in Caller, Sender(c, call)
               PROVE  /\ \A i \in 1 .. Len(os'[g].stdin) : InputOf(c, call, os'[g].stdin[i])
                      /\ \A i \in 1 .. Len(os'[g].stdout) : OutputOf(c, call, os'[g].stdout[i])
    BY <1>0, <1>6, MessagesChange
  <2>1. /\ \A i \in 1 .. Len(os[g].stdin) : InputOf(c, call, os[g].stdin[i])
        /\ \A i \in 1 .. Len(out) : OutputOf(c, call, out[i])
    BY <1>0 DEF CallersOK, MessagesOK
  <2>2. OutputOf(c, call, m)
    BY <1>2 DEF OutputOf
  <2>3. \A i \in 1 .. Len(Append(out, m)) : i \in 1 .. Len(out) \/ i = Len(out) + 1
    BY <1>3
  <2>4. \A i \in 1 .. Len(Append(out, m)) : OutputOf(c, call, Append(out, m)[i])
    BY <1>3, <2>1, <2>2, <2>3
  <2> QED BY <1>4, <1>6, <2>1, <2>4
<1>10. Bookkeeping' /\ Asked(seeds', call')
  BY <1>0 DEF ServerInv, Bookkeeping, Asked
<1> QED BY <1>0, <1>8, <1>9, <1>10, ServerInvNext DEF ServerInv

LEMMA ProcessExitsKeeps == ASSUME ServerInv, NEW g \in Generation, ProcessExits(g) PROVE ServerInv'
<1>0. /\ ProcessesOK(process.gen, generation, os, starts) /\ generation \in Nat
      /\ CallersOK(call, pending, os, starts) /\ starts \in Nat
      /\ os[g].alive /\ faults' \in Nat
      /\ UNCHANGED <<process, generation, startup, pending, runtime, terminal, seeds, call, starts,
                     setup>>
  BY Plain, BoundAssumption DEF ServerInv, ProcessExits, supervisorVars, Fault, Bookkeeping
<1>1. os \in [Generation -> Processes(starts)] /\ os[g] \in Processes(starts)
  BY <1>0 DEF ProcessesOK
<1> DEFINE new == [os[g] EXCEPT !.alive = FALSE, !.turn = 0, !.stdin = <<>>]
<1>3. <<>> \in Seq(Inputs(starts)) /\ Len(<<>>) = 0
  BY EmptySeq
<1>4. /\ new \in Processes(starts) /\ ~new.alive /\ new.killed = os[g].killed
      /\ new.stdin = <<>> /\ new.stdout = os[g].stdout
  <2> DEFINE x == os[g]
  <2>1. x \in Processes(starts) /\ 0 \in 0 .. starts /\ <<>> \in Seq(Inputs(starts))
    BY <1>0, <1>1, <1>3
  <2>2. new = [x EXCEPT !.alive = FALSE, !.turn = 0, !.stdin = <<>>]
    OBVIOUS
  <2> HIDE DEF x, new
  <2>3. /\ new \in Processes(starts) /\ ~new.alive /\ new.killed = x.killed
        /\ new.stdin = <<>> /\ new.stdout = x.stdout
    BY <2>1, <2>2 DEF Processes
  <2> QED BY <2>3 DEF x
<1>5. os' = [os EXCEPT ![g] = new]
  BY <1>1 DEF ProcessExits
<1> HIDE DEF new
<1>6. /\ os' \in [Generation -> Processes(starts)] /\ os'[g] = new
      /\ \A h \in Generation \ {g} : os'[h] = os[h]
  BY <1>1, <1>4, <1>5
<1>7. ~(g > generation)
  BY <1>0 DEF ProcessesOK, Unborn
<1>8. ProcessesOK(process.gen, generation, os', starts)
  BY <1>0, <1>4, <1>6, <1>7, ProcessChanges
<1>9. CallersOK(call, pending, os', starts)
  <2> SUFFICES ASSUME NEW c \in Caller, Sender(c, call)
               PROVE  /\ \A i \in 1 .. Len(os'[g].stdin) : InputOf(c, call, os'[g].stdin[i])
                      /\ \A i \in 1 .. Len(os'[g].stdout) : OutputOf(c, call, os'[g].stdout[i])
    BY <1>0, <1>6, MessagesChange
  <2>1. \A i \in 1 .. Len(os[g].stdout) : OutputOf(c, call, os[g].stdout[i])
    BY <1>0 DEF CallersOK, MessagesOK
  <2> QED BY <1>3, <1>4, <1>6, <2>1
<1>10. Bookkeeping' /\ Asked(seeds', call')
  BY <1>0 DEF ServerInv, Bookkeeping, Asked
<1> QED BY <1>0, <1>8, <1>9, <1>10, ServerInvNext DEF ServerInv

-----------------------------------------------------------------------------
(* The invariant, of every state and every step *)

LEMMA CallStepKeeps == ASSUME ServerInv, NEW c \in Caller, CallStep(c) PROVE ServerInv'
<1>1. CASE Send(c)
  <2>1. Sends(c, "send", "write", "done")
    BY <1>1 DEF Send
  <2> QED BY <2>1, SendsKeeps
<1>2. CASE InitSend(c)
  <2>1. Sends(c, "initSend", "initWrite", "initDone")
    BY <1>2 DEF InitSend
  <2> QED BY <2>1, SendsKeeps
<1>3. CASE Write(c)
  <2>1. Writes(c, "write", "wait", KindOf[c])
    BY <1>3 DEF Write, Kind
  <2> QED BY <2>1, WritesKeeps
<1>4. CASE InitWrite(c)
  <2>1. Writes(c, "initWrite", "initWait", "initialize")
    BY <1>4 DEF InitWrite
  <2> QED BY <2>1, WritesKeeps
<1> QED BY <1>1, <1>2, <1>3, <1>4, EnsureFindsProcessKeeps, ResumeChecksKeeps, EnsureSpawnsKeeps,
           EnsureFailsKeeps, InvalidatesProcessKeeps, InitDoneKeeps, StartReturnsKeeps,
           PageReturnsKeeps, InterruptReturnsKeeps DEF CallStep

LEMMA NextKeeps == ASSUME ServerInv, [Next]_vars PROVE ServerInv'
<1>1. CASE UNCHANGED vars
  <2>1. UNCHANGED <<process, generation, startup, pending, runtime, terminal, seeds, call, os,
                    setup, starts, faults>>
    BY <1>1 DEF vars, supervisorVars
  <2>2. Bookkeeping' /\ Asked(seeds', call')
    BY <2>1 DEF ServerInv, Bookkeeping, Asked
  <2> QED BY <2>1, <2>2, ServerInvNext DEF ServerInv
<1>2. CASE Next
  BY <1>2, CallMadeKeeps, CallStepKeeps, TimesOutKeeps, ReadLineKeeps, ExitHandledKeeps,
     ProcessAnswersKeeps, TurnEndsKeeps, ProcessExitsKeeps DEF Next
<1> QED BY <1>1, <1>2

LEMMA InitServer == Init => ServerInv
<1> SUFFICES ASSUME Init PROVE ServerInv
  OBVIOUS
<1>1. /\ process = NoProcess /\ generation = 0 /\ startup = None /\ pending = {}
      /\ runtime = IdleRuntime /\ terminal = {} /\ starts = 0 /\ faults = 0 /\ setup \in Setups
      /\ call = [c \in Caller |-> IdleCall]
      /\ os = [g \in Generation |-> Unborn]
      /\ seeds = [waiting |-> 0, active |-> [t \in Turn |-> 0], finished |-> [m \in Turn |-> 0]]
  BY DEF Init
<1>2. /\ setup \in SetupType /\ setup.starts \in Nat /\ MaxFaults \in Nat
      /\ 0 \notin Generation
  <2>1. setup \in SetupType /\ MaxStarts \in Nat /\ MaxFaults \in Nat
    BY <1>1, SetupAssumption, BoundAssumption
  <2> QED BY <2>1 DEF SetupType, Generation
<1>3. Bookkeeping
  BY <1>1, <1>2 DEF Bookkeeping, NoProcess
<1>4. \A c \in Caller : call[c] = IdleCall
  BY <1>1
<1>5. CallersOK(call, pending, os, starts)
  <2>1. IdleCall \in Calls(0)
    BY DEF IdleCall, Calls, NoAnswer, Told, Points
  <2>2. call \in [Caller -> Calls(starts)]
    BY <1>1, <2>1
  <2>3. \A c \in Caller : call[c].pc = "idle" /\ call[c].id = 0 /\ ~call[c].answer.ok
    BY <1>4 DEF IdleCall, NoAnswer
  <2>4. IdsOK(call, pending) /\ TurnsOK(call, starts) /\ MessagesOK(call, os)
    BY <1>1, <2>3 DEF IdsOK, TurnsOK, MessagesOK, Busy, Waiting, Starts, AnswerOK, Sender
  <2> QED BY <2>2, <2>4 DEF CallersOK
<1>6. ProcessesOK(process.gen, generation, os, starts)
  <2>1. <<>> \in Seq(Inputs(0)) /\ <<>> \in Seq(Outputs(0))
    BY EmptySeq
  <2>2. Unborn \in Processes(0) /\ ~Unborn.alive
    BY <2>1 DEF Unborn, Processes
  <2> QED BY <1>1, <2>2 DEF ProcessesOK
<1>7. SeedsOK(seeds, starts) /\ Asked(seeds, call)
  <2>1. seeds \in Seeds(0) /\ seeds.waiting = 0
    BY <1>1 DEF Seeds
  <2>2. \A m \in Turn : seeds.finished[m] = 0 /\ seeds.active[m] = 0
    BY <1>1
  <2>3. 1 .. 0 = {}
    OBVIOUS
  <2> QED BY <1>1, <2>1, <2>2, <2>3 DEF SeedsOK, Asked
<1>8. RuntimeOK(runtime, starts)
  BY <1>1 DEF RuntimeOK, IdleRuntime, Phases
<1> QED BY <1>3, <1>5, <1>6, <1>7, <1>8 DEF ServerInv

(* The supervisor's bookkeeping keeps to the senders it registered, the     *)
(* processes it spawned and the turns that were asked for, whatever the     *)
(* callers do, in whatever order replies, notifications and exits come.     *)
THEOREM ServerInvariant == Spec => []ServerInv
BY InitServer, NextKeeps, PTL DEF Spec

LEMMA ServerTypes == ASSUME ServerInv PROVE AppServerTypeOK
<1> DEFINE n == starts
<1>1. /\ n \in 0 .. MaxStarts /\ MaxStarts \in Nat /\ 0 .. n \subseteq Turn \cup {0}
      /\ process \in [gen : Generation \cup {0}, ready : BOOLEAN] /\ generation \in Nat
  BY Plain DEF ServerInv, Turn
<1> HIDE DEF n
<1>2. /\ startup \in Caller \cup {None} /\ pending \subseteq Id /\ terminal \subseteq Turn
      /\ setup \in Setups /\ starts \in Nat /\ faults \in Nat
  BY <1>1 DEF ServerInv, Bookkeeping, n
<1>3. runtime \in [phase : Phases, turn : Turn \cup {0}]
  <2>1. runtime \in [phase : Phases, turn : 0 .. n]
    BY DEF ServerInv, RuntimeOK, n
  <2> QED BY <1>1, <2>1
<1>4. /\ seeds.waiting \in Turn \cup {0}
      /\ seeds.active \in [Turn -> Turn \cup {0}] /\ seeds.finished \in [Turn -> Nat]
  <2>1. seeds \in Seeds(n)
    BY DEF ServerInv, SeedsOK, n
  <2> QED BY <1>1, <2>1 DEF Seeds
<1>5. call \in [Caller -> CallType]
  <2>1. call \in [Caller -> Calls(n)]
    BY DEF ServerInv, CallersOK, n
  <2>2. Told(n) \subseteq AnswerType
    BY <1>1 DEF Told, AnswerType
  <2>3. Calls(n) \subseteq CallType
    BY <1>1, <2>2 DEF Calls, CallType
  <2> QED BY <2>1, <2>3
<1>6. os \in [Generation -> OsType]
  <2>1. os \in [Generation -> Processes(n)]
    BY DEF ServerInv, ProcessesOK, n
  <2>2. Inputs(n) \subseteq RequestType
    BY <1>1 DEF Inputs, Requests, RequestType
  <2>3. Outputs(n) \subseteq LineType
    BY <1>1 DEF Outputs, Lines, LineType
  <2>4. Seq(Inputs(n)) \subseteq Seq(RequestType) /\ Seq(Outputs(n)) \subseteq Seq(LineType)
    BY <2>2, <2>3, SeqMonotonic
  <2>5. Processes(n) \subseteq OsType
    BY <1>1, <2>4 DEF Processes, OsType
  <2> QED BY <2>1, <2>5
<1> QED BY <1>1, <1>2, <1>3, <1>4, <1>5, <1>6 DEF AppServerTypeOK

LEMMA ServerIsSound == ASSUME ServerInv PROVE SupervisorIsSound
<1>1. /\ CallersOK(call, pending, os, starts) /\ SeedsOK(seeds, starts)
      /\ ProcessesOK(process.gen, generation, os, starts) /\ RuntimeOK(runtime, starts)
      /\ 0 \notin pending
  BY Plain DEF ServerInv
<1>2. PendingIsExact
  <2>1. \A c \in Caller : call[c].pc \in {"wait", "initWait"} => call[c].id \in pending
    BY <1>1 DEF CallersOK, IdsOK, Waiting
  <2>2. ASSUME NEW i \in pending PROVE \E c \in Caller : call[c].id = i /\ call[c].pc # "done"
    <3>1. PICK c \in Caller : call[c].id = i
      BY <1>1 DEF CallersOK, IdsOK
    <3>2. call[c].pc \in Busy
      BY <1>1, <3>1 DEF CallersOK, IdsOK
    <3> QED BY <3>1, <3>2 DEF Busy, Waiting
  <2> QED BY <2>1, <2>2 DEF PendingIsExact
<1>3. AnswerIsOwn
  BY <1>1 DEF AnswerIsOwn, CallersOK, TurnsOK, AnswerOK, Starts, Handshake, At, Kind
<1>4. OneProcess
  BY <1>1 DEF OneProcess, ProcessesOK
<1>5. SeedInOnePlace
  BY <1>1 DEF SeedInOnePlace, SeedsOK, Places, Captures
<1>6. StoppingHasTurn
  BY <1>1 DEF StoppingHasTurn, RuntimeOK
<1> QED BY ServerTypes, <1>2, <1>3, <1>4, <1>5, <1>6 DEF SupervisorIsSound

(* In every state of every behaviour: the pending map holds the senders of  *)
(* exactly the callers that wait, a start is answered with its own turn,    *)
(* every process but the registered one was told to stop, the evaluation of *)
(* every turn asked for is in one place, and only a runtime with a turn is  *)
(* stopping.                                                                *)
THEOREM SupervisorStaysSound == Spec => []SupervisorIsSound
<1>1. ServerInv => SupervisorIsSound
  BY ServerIsSound
<1> QED BY <1>1, ServerInvariant, PTL

-----------------------------------------------------------------------------
(* What older processes and older replies say *)

LEMMA InvalidatedLeaves ==
    ASSUME ServerInv, NEW g, NEW cs, NEW ps, Invalidated(g, cs, ps), ps \in [Generation -> Processes(starts)]
    PROVE  /\ \A h \in Generation : os'[h].stdout = ps[h].stdout
           /\ \A c \in Caller : cs[c] \in Calls(starts) /\ cs[c].pc = "done"
                                  => call'[c].pc = "done"
<1>1. \A h \in Generation : os'[h].stdout = ps[h].stdout
  <2>1. os' = ps \/ os' = Stopped(ps, process.gen)
    BY DEF Invalidated
  <2>2. ASSUME NEW h \in Generation PROVE os'[h].stdout = ps[h].stdout
    <3> DEFINE x == ps[h]
    <3>1. x \in Processes(starts)
      OBVIOUS
    <3>2. os'[h] = x \/ os'[h] = [x EXCEPT !.killed = TRUE]
      BY <2>1 DEF Stopped
    <3> HIDE DEF x
    <3>3. os'[h].stdout = x.stdout
      BY <3>1, <3>2 DEF Processes
    <3> QED BY <3>3 DEF x
  <2> QED BY <2>2
<1>2. ASSUME NEW c \in Caller, cs[c] \in Calls(starts), cs[c].pc = "done" PROVE call'[c].pc = "done"
  <2> DEFINE x == cs[c]
  <2>1. call' = cs \/ call' = Drained(cs)
    BY DEF Invalidated
  <2>2. call'[c] = x \/ call'[c] = [x EXCEPT !.answer = NoAnswer]
    BY <2>1, <1>2 DEF Drained, Answered
  <2> HIDE DEF x
  <2>3. x \in Calls(starts) /\ x.pc = "done"
    BY <1>2 DEF x
  <2> QED BY <2>2, <2>3 DEF Calls
<1> QED BY <1>1, <1>2

(* Only its reader takes lines from a process's output.                     *)
LEMMA ReaderTakes ==
    ASSUME ServerInv, [Next]_vars, NEW g \in Generation, Len(os'[g].stdout) < Len(os[g].stdout)
    PROVE  ReadLine(g)
<1>1. /\ os \in [Generation -> Processes(starts)] /\ generation \in Nat
      /\ \A h \in Generation : h > generation => os[h] = Unborn
  BY Plain DEF ServerInv, ProcessesOK
<1>2. os[g].stdout \in Seq(Outputs(starts)) /\ Len(os[g].stdout) \in Nat
  BY <1>1, LenProperties DEF Processes
<1>3. os'[g].stdout # os[g].stdout
  BY <1>2
<1>4. ASSUME NEW k, NEW cs, Invalidated(k, cs, os) PROVE FALSE
  BY <1>1, <1>3, <1>4, InvalidatedLeaves
<1>5. ASSUME NEW c \in Caller, CallMade(c) \/ TimesOut(c) PROVE FALSE
  <2>1. os' = os
    BY <1>5 DEF CallMade, TimesOut
  <2> QED BY <2>1, <1>3
<1>6. ASSUME NEW c \in Caller, CallStep(c) PROVE FALSE
  <2>1. CASE EnsureFindsProcess(c) \/ ResumeChecks(c) \/ EnsureFails(c) \/ Send(c) \/ InitSend(c)
             \/ StartReturns(c) \/ PageReturns(c) \/ InterruptReturns(c)
    <3>1. os' = os
      BY <2>1 DEF EnsureFindsProcess, ResumeChecks, EnsureFails, Send, InitSend, Sends,
                  StartReturns, PageReturns, InterruptReturns
    <3> QED BY <3>1, <1>3
  <2>2. CASE EnsureSpawns(c)
    <3> DEFINE next == generation + 1
               stopped == IF process.gen = 0 THEN os ELSE Stopped(os, process.gen)
               born == [Unborn EXCEPT !.alive = TRUE, !.reaped = FALSE]
    <3>1. os' = [stopped EXCEPT ![next] = born] /\ next > generation
      BY <1>1, <2>2 DEF EnsureSpawns
    <3>2. stopped \in [Generation -> Processes(starts)] /\ stopped[g].stdout = os[g].stdout
      BY <1>1 DEF Stopped, Processes
    <3> HIDE DEF stopped, born, next
    <3>3. CASE g = next
      <4>1. os[g].stdout = <<>> /\ Len(<<>>) = 0
        BY <1>1, <3>1, <3>3, EmptySeq DEF Unborn
      <4>2. os'[g] = born /\ born.stdout = <<>>
        BY <3>1, <3>2, <3>3 DEF born, Unborn
      <4> QED BY <4>1, <4>2, <1>3
    <3>4. CASE g # next
      BY <1>3, <3>1, <3>2, <3>4
    <3> QED BY <3>3, <3>4
  <2>3. CASE Write(c) \/ InitWrite(c)
    <3> DEFINE x == os[g]
    <3>1. PICK h, sent : os' = os \/ os' = [os EXCEPT ![h].stdin = sent]
      BY <2>3 DEF Write, InitWrite, Writes
    <3>2. os'[g] = x \/ os'[g] = [x EXCEPT !.stdin = sent]
      BY <1>1, <3>1
    <3>3. x \in Processes(starts)
      BY <1>1
    <3> HIDE DEF x
    <3>4. os'[g].stdout = x.stdout
      BY <3>2, <3>3 DEF Processes
    <3> QED BY <3>4, <1>3 DEF x
  <2>4. CASE InvalidatesProcess(c)
    BY <1>4, <2>4 DEF InvalidatesProcess
  <2>5. CASE InitDone(c)
    <3>1. os' = os \/ Invalidated(generation, [call EXCEPT ![c].pc = "done"], os)
      BY <2>5 DEF InitDone
    <3> QED BY <3>1, <1>3, <1>4
  <2> QED BY <1>6, <2>1, <2>2, <2>3, <2>4, <2>5 DEF CallStep
<1>7. ASSUME NEW h \in Generation, h # g, ReadLine(h) PROVE FALSE
  <2> DEFINE ps == TakenLine(h)
  <2>1. os[h].stdout # <<>> /\ (os' = ps \/ Invalidated(h, call, ps))
    BY <1>7 DEF ReadLine
  <2>2. ps \in [Generation -> Processes(starts)]
    BY <2>1, LineTaken DEF ProcessesOK
  <2>3. ps[g].stdout = os[g].stdout
    BY <1>1, <1>7 DEF TakenLine
  <2> HIDE DEF ps
  <2> QED BY <1>3, <2>1, <2>2, <2>3, InvalidatedLeaves
<1>8. ASSUME NEW h \in Generation, ExitHandled(h) PROVE FALSE
  <2> DEFINE ps == [os EXCEPT ![h].reaped = TRUE]
  <2>1. Invalidated(h, call, ps)
    BY <1>8 DEF ExitHandled
  <2>2. ps \in [Generation -> Processes(starts)] /\ ps[g].stdout = os[g].stdout
    BY <1>1 DEF Processes
  <2> HIDE DEF ps
  <2> QED BY <1>3, <2>1, <2>2, InvalidatedLeaves
<1>9. ASSUME NEW h \in Generation, ProcessExits(h) PROVE FALSE
  <2>1. os' = [os EXCEPT ![h].alive = FALSE, ![h].turn = 0, ![h].stdin = <<>>]
    BY <1>9 DEF ProcessExits
  <2>2. os'[g].stdout = os[g].stdout
    BY <1>1, <2>1 DEF Processes
  <2> QED BY <2>2, <1>3
<1>10. ASSUME NEW h \in Generation, TurnEnds(h) PROVE FALSE
  <2> DEFINE m == Line("completed", 0, os[h].turn)
  <2>1. os' = [os EXCEPT ![h].turn = 0, ![h].stdout = Append(@, m)]
    BY <1>10 DEF TurnEnds
  <2> HIDE DEF m
  <2>2. os'[g].stdout = os[g].stdout \/ os'[g].stdout = Append(os[g].stdout, m)
    BY <1>1, <2>1 DEF Processes
  <2>3. Len(Append(os[g].stdout, m)) = Len(os[g].stdout) + 1
    BY <1>2
  <2> QED BY <1>2, <2>2, <2>3
<1>11. ASSUME NEW h \in Generation, ProcessAnswers(h) PROVE FALSE
  <2> DEFINE x == os[g]
             rest == Tail(x.stdin)
  <2>1. PICK t \in 0 .. starts, said \in Seq(Outputs(starts)) : AnswersWith(h, t, said)
    BY <1>11, ProcessSays DEF Says
  <2>2. x \in Processes(starts)
    BY <1>1
  <2>3. os'[g] = x \/ os'[g] = [x EXCEPT !.stdin = rest, !.turn = t, !.stdout = x.stdout \o said]
    BY <1>1, <2>1 DEF AnswersWith, Answering
  <2> HIDE DEF x, rest
  <2>4. os'[g].stdout = x.stdout \/ os'[g].stdout = x.stdout \o said
    BY <2>2, <2>3 DEF Processes
  <2>5. Len(x.stdout \o said) = Len(x.stdout) + Len(said) /\ Len(said) \in Nat /\ Len(x.stdout) \in Nat
    BY <1>2, ConcatProperties, LenProperties DEF x
  <2> QED BY <2>4, <2>5 DEF x
<1>12. ~(UNCHANGED vars)
  BY <1>3 DEF vars
<1> QED BY <1>5, <1>6, <1>7, <1>8, <1>9, <1>10, <1>11, <1>12 DEF Next

(* Only its own return takes a start that is done back to idle.             *)
LEMMA OtherLeavesDone ==
    ASSUME ServerInv, NEW c \in Caller, call[c].pc = "done", KindOf[c] = "start",
           [Next]_vars, call'[c].pc = "idle"
    PROVE  StartReturns(c)
<1>1. /\ call \in [Caller -> Calls(starts)]
      /\ os \in [Generation -> Processes(starts)]
  BY DEF ServerInv, CallersOK, ProcessesOK
<1>2. call'[c] # call[c] /\ call'[c].pc # "done"
  OBVIOUS
<1>3. ASSUME NEW g, NEW cs, NEW ps, Invalidated(g, cs, ps), cs[c] = call[c],
             ps \in [Generation -> Processes(starts)]
      PROVE  FALSE
  BY <1>1, <1>2, <1>3, InvalidatedLeaves
<1>4. ASSUME NEW d \in Caller, CallMade(d) \/ TimesOut(d) PROVE FALSE
  <2>1. d # c
    BY <1>4 DEF CallMade, TimesOut, At
  <2>2. PICK x : call' = [call EXCEPT ![d] = x]
    BY <1>1, <1>4 DEF CallMade, TimesOut, Goto
  <2> QED BY <1>1, <1>2, <2>1, <2>2
<1>5. ASSUME NEW d \in Caller, CallStep(d), ~StartReturns(c) PROVE FALSE
  <2>1. d # c
    BY <1>5 DEF CallStep, EnsureFindsProcess, ResumeChecks, EnsureSpawns, EnsureFails, Send, InitSend,
                Sends, Write, InitWrite, Writes, InvalidatesProcess, InitDone, PageReturns,
                InterruptReturns, At, Kind
  <2>2. CASE InvalidatesProcess(d)
    <3> DEFINE cs == [call EXCEPT ![d].pc = IF startup = d THEN "initDone" ELSE "done",
                                  ![d].answer = NoAnswer]
    <3>1. Invalidated(call[d].gen, cs, os) /\ cs[c] = call[c]
      BY <1>1, <2>1, <2>2 DEF InvalidatesProcess
    <3> HIDE DEF cs
    <3> QED BY <1>1, <1>3, <3>1
  <2>3. CASE InitDone(d)
    <3>1. CASE Invalidated(generation, [call EXCEPT ![d].pc = "done"], os)
      BY <1>1, <1>3, <2>1, <3>1
    <3>2. CASE \E x : call' = [call EXCEPT ![d] = x]
      BY <1>1, <1>2, <2>1, <3>2
    <3> QED BY <2>3, <3>1, <3>2 DEF InitDone
  <2>4. CASE \E x : call' = [call EXCEPT ![d] = x]
    BY <1>1, <1>2, <2>1, <2>4
  <2>5. CASE EnsureFindsProcess(d) \/ ResumeChecks(d) \/ EnsureSpawns(d) \/ EnsureFails(d)
    <3>1. \E x : call' = [call EXCEPT ![d] = x]
      BY <2>5 DEF EnsureFindsProcess, ResumeChecks, EnsureSpawns, EnsureFails, Returns, Goto
    <3> QED BY <2>4, <3>1
  <2>6. CASE Send(d) \/ InitSend(d)
    <3>1. \E x : call' = [call EXCEPT ![d] = x]
      BY <2>6 DEF Send, InitSend, Sends
    <3> QED BY <2>4, <3>1
  <2>7. CASE Write(d) \/ InitWrite(d)
    <3>1. \E x : call' = [call EXCEPT ![d] = x]
      BY <2>7 DEF Write, InitWrite, Writes
    <3> QED BY <2>4, <3>1
  <2>8. CASE StartReturns(d) \/ PageReturns(d) \/ InterruptReturns(d)
    <3>1. \E x : call' = [call EXCEPT ![d] = x]
      BY <2>8 DEF StartReturns, PageReturns, InterruptReturns, Returns
    <3> QED BY <2>4, <3>1
  <2> QED BY <1>5, <2>2, <2>3, <2>5, <2>6, <2>7, <2>8 DEF CallStep
<1>6. ASSUME NEW g \in Generation, ReadLine(g) PROVE FALSE
  <2> DEFINE line == Head(os[g].stdout)
             ps == TakenLine(g)
  <2>1. os[g].stdout # <<>> /\ ps \in [Generation -> Processes(starts)]
    BY <1>6, LineTaken DEF ReadLine, ProcessesOK
  <2>2. CASE Invalidated(g, call, ps)
    <3> HIDE DEF ps
    <3> QED BY <1>3, <2>1, <2>2
  <2>3. CASE ReadReply(g, line)
    <3>1. PICK answer : call' = Replied(line.id, answer)
      BY <2>3 DEF ReadReply
    <3>2. call'[c] = call[c] \/ call'[c] = [call[c] EXCEPT !.answer = answer]
      BY <3>1 DEF Replied, Answered
    <3> DEFINE x == call[c]
    <3>3. x \in Calls(starts) /\ x.pc = "done" /\ (call'[c] = x \/ call'[c] = [x EXCEPT !.answer = answer])
      BY <1>1, <3>2
    <3> HIDE DEF x
    <3>4. call'[c].pc = "done"
      BY <3>3 DEF Calls
    <3> QED BY <3>4, <1>2
  <2>4. CASE call' = call
    BY <1>2, <2>4
  <2> QED BY <1>6, <2>2, <2>3, <2>4 DEF ReadLine, ReadStarted, ReadCompleted, ReadOfStaleProcess
<1>7. ASSUME NEW g \in Generation, ExitHandled(g) PROVE FALSE
  <2> DEFINE ps == [os EXCEPT ![g].reaped = TRUE]
  <2>1. Invalidated(g, call, ps) /\ ps \in [Generation -> Processes(starts)]
    BY <1>1, <1>7 DEF ExitHandled, Processes
  <2> HIDE DEF ps
  <2> QED BY <1>3, <2>1
<1>8. ASSUME NEW g \in Generation, ProcessAnswers(g) \/ TurnEnds(g) \/ ProcessExits(g) PROVE FALSE
  BY <1>2, <1>8 DEF ProcessAnswers, TurnEnds, ProcessExits
<1>9. ~(UNCHANGED vars)
  BY <1>2 DEF vars
<1> QED BY <1>4, <1>5, <1>6, <1>7, <1>8, <1>9 DEF Next

LEMMA StaleIsSilent ==
    ASSUME ServerInv, [Next]_vars, NEW g \in Generation,
           g # process.gen, Len(os'[g].stdout) < Len(os[g].stdout)
    PROVE  UNCHANGED <<process, runtime, terminal, seeds>>
<1>1. ReadLine(g)
  BY ReaderTakes
<1> QED BY <1>1 DEF ReadLine, ReadReply, ReadStarted, ReadCompleted, ReadOfStaleProcess, Hears,
                    IsRegistered, Invalidated

LEMMA EndedStaysOver ==
    ASSUME ServerInv, [Next]_vars, NEW c \in Caller,
           At(c, "done"), Kind(c) = "start", call[c].answer.ok, call'[c].pc = "idle"
    PROVE  runtime'.turn \notin terminal
<1>1. runtime' = StartedRuntime(call[c].answer.turn)
  <2>1. StartReturns(c)
    BY OtherLeavesDone DEF At, Kind
  <2> QED BY <2>1 DEF StartReturns
<1>2. 0 \notin terminal
  BY DEF ServerInv, Bookkeeping, Turn
<1> QED BY <1>1, <1>2 DEF StartedRuntime, IdleRuntime

(* In every step: a line that is read from a process that was replaced      *)
(* changes neither the registered process nor the runtime, the turns that   *)
(* ended or the evaluations, and a start whose turn was seen to end is not  *)
(* shown as active when it returns.                                         *)
THEOREM LateNewsStaysIgnored == Spec => LateNewsIsIgnored
<1>1. ASSUME ServerInv, [Next]_vars
      PROVE  [\A g \in Generation :
                 g # process.gen /\ Len(os'[g].stdout) < Len(os[g].stdout)
                    => UNCHANGED <<process, runtime, terminal, seeds>>]_vars
  BY <1>1, StaleIsSilent
<1>2. ASSUME ServerInv, [Next]_vars
      PROVE  [\A c \in Caller :
                 At(c, "done") /\ Kind(c) = "start" /\ call[c].answer.ok /\ call'[c].pc = "idle"
                    => runtime'.turn \notin terminal]_vars
  BY <1>2, EndedStaysOver
<1> QED BY <1>1, <1>2, ServerInvariant, PTL
       DEF Spec, LateNewsIsIgnored, StaleProcessIsSilent, EndedTurnStaysOver

-----------------------------------------------------------------------------
(* The voice sessions of a thread *)

Unregistered == {"idle", "check", "insert", "failed"}
Registered == {"write", "await", "negotiate", "review", "connected",
               "stopCheck", "stopWrite", "stopAwait"}
Reached == {"negotiate", "review", "connected", "stopCheck", "stopWrite", "stopAwait"}

(* No request is in the pipe twice. *)
WrittenOnce == \A i, j \in DOMAIN inbox : inbox[i] = inbox[j] => i = j

(* A start that has not registered its session, or has cleaned up, has no   *)
(* entry.                                                                   *)
UnregisteredHasNone == \A s \in Session :
    task[Start(s)] \in Unregistered => entry # s

(* Until somebody asks to stop it, a session that was registered stays      *)
(* registered, up to the clean-up of its own start or the loss of the       *)
(* process.                                                                 *)
RegisteredStays == \A s \in Session :
    task[Start(s)] \in Registered /\ s \notin canceled => entry = s \/ lost

(* The record holds the sessions whose stop has passed its first step. *)
RecordIsOfStops == \A s \in Session :
    s \in canceled <=> task[Stop(s)] \notin {"idle", "cancel"}

(* A session that the app-server keeps and nobody stops has been answered   *)
(* and not been cleaned up.                                                 *)
LiveWasReached == live # NoSession /\ live \notin canceled /\ ~lost =>
    task[Start(live)] \in Reached

VoiceInv ==
    /\ VoiceTypeOK
    /\ WrittenOnce
    /\ UnregisteredHasNone
    /\ RegisteredStays
    /\ RecordIsOfStops
    /\ NoDeadEntry
    /\ LiveWasReached

-----------------------------------------------------------------------------
(* Tasks and the pipe *)

(* The two tasks of a session are told apart from each other and from those *)
(* of every other session.                                                  *)
LEMMA TasksAreDistinct ==
    /\ \A s \in Session : Start(s) \in Task /\ Stop(s) \in Task
    /\ \A s, u : (Start(s) = Start(u) <=> s = u) /\ (Stop(s) = Stop(u) <=> s = u)
    /\ \A s, u : Start(s) # Stop(u)
    /\ \A t \in Task : t[1] \in Session /\ (t = Start(t[1]) \/ t = Stop(t[1]))
    /\ \A s : Start(s)[1] = s /\ Start(s)[2] = "start" /\ Stop(s)[1] = s /\ Stop(s)[2] = "stop"
BY DEF Start, Stop, Task, Roles

(* What VoiceTypeOK says of the pipe q when the tasks stand at the points p. *)
Message == Session \X {"start", "stop", "cleanup"}
Awaits(p, m) ==
    IF m[2] = "stop" THEN p[Stop(m[1])] = "stopAwait"
    ELSE p[Start(m[1])] = (IF m[2] = "start" THEN "await" ELSE "stopAwait")
PipeOK(p, q) ==
    /\ q \in Seq(Message)
    /\ \A i \in DOMAIN q : Awaits(p, q[i])
    /\ \A i, j \in DOMAIN q : q[i] = q[j] => i = j

(* The types of everything but the pipe. *)
PlainTypeOK ==
    /\ entry \in Session \cup {NoSession}
    /\ canceled \subseteq Session
    /\ heard \in [Session -> Answers]
    /\ task \in [Task -> VoicePoints]
    /\ live \in Session \cup {NoSession}
    /\ lost \in BOOLEAN

(* The types are those of the variables and the order of the pipe. *)
LEMMA TypeParts == VoiceTypeOK /\ WrittenOnce <=> PlainTypeOK /\ PipeOK(task, inbox)
BY DEF VoiceTypeOK, WrittenOnce, PlainTypeOK, PipeOK, Awaits, Message, TaskAt

(* A step of tasks that await nothing leaves the pipe in order. *)
LEMMA PipeUndisturbed ==
    ASSUME NEW p, NEW p1, NEW q, PipeOK(p, q),
           \A t \in Task : p[t] \in {"await", "stopAwait"} => p1[t] = p[t]
    PROVE  PipeOK(p1, q)
<1>1. ASSUME NEW i \in DOMAIN q PROVE Awaits(p1, q[i])
  <2>1. q[i] \in Message /\ Awaits(p, q[i])
    BY <1>1, ElementOfSeq, LenProperties DEF PipeOK
  <2> QED BY <2>1, TasksAreDistinct DEF Awaits, Message
<1> QED BY <1>1 DEF PipeOK

(* A task that writes its request and then awaits it, when no other request *)
(* is written for it.                                                       *)
LEMMA PipeAppended ==
    ASSUME NEW p, NEW p1, NEW q, PipeOK(p, q), NEW m \in Message,
           ~Awaits(p, m), Awaits(p1, m),
           \A t \in Task : p[t] \in {"await", "stopAwait"} => p1[t] = p[t]
    PROVE  PipeOK(p1, Append(q, m))
<1> DEFINE q1 == Append(q, m)
<1>1. /\ q \in Seq(Message) /\ q1 \in Seq(Message)
      /\ Len(q1) = Len(q) + 1 /\ DOMAIN q = 1 .. Len(q) /\ DOMAIN q1 = 1 .. Len(q1)
      /\ Len(q) \in Nat
      /\ \A i \in 1 .. Len(q) : q1[i] = q[i]
      /\ q1[Len(q) + 1] = m
  BY AppendProperties, LenProperties DEF PipeOK
<1>2. PipeOK(p1, q)
  BY PipeUndisturbed
<1>3. \A i \in DOMAIN q : q[i] # m
  BY DEF PipeOK
<1> HIDE DEF q1
<1>4. \A i \in DOMAIN q1 : Awaits(p1, q1[i])
  BY <1>1, <1>2 DEF PipeOK
<1>5. \A i, j \in DOMAIN q1 : q1[i] = q1[j] => i = j
  BY <1>1, <1>2, <1>3 DEF PipeOK
<1> QED BY <1>1, <1>4, <1>5 DEF PipeOK, q1

(* The request at the head is answered and its task goes on: no other       *)
(* request of the pipe is that task's.                                      *)
LEMMA PipeAnswered ==
    ASSUME NEW p, NEW p1, NEW q, PipeOK(p, q), q # <<>>, NEW t \in Task,
           t = (IF Head(q)[2] = "stop" THEN Stop(Head(q)[1]) ELSE Start(Head(q)[1])),
           \A u \in Task : u # t => p1[u] = p[u]
    PROVE  /\ Head(q) \in Message /\ Awaits(p, Head(q))
           /\ PipeOK(p1, Tail(q))
<1> DEFINE q1 == Tail(q)
<1>1. /\ q \in Seq(Message) /\ q1 \in Seq(Message) /\ Head(q) = q[1]
      /\ Len(q1) = Len(q) - 1 /\ DOMAIN q = 1 .. Len(q) /\ DOMAIN q1 = 1 .. Len(q1)
      /\ Len(q) \in Nat /\ Len(q) > 0
      /\ \A i \in 1 .. Len(q1) : q1[i] = q[i + 1]
  BY HeadTailProperties, LenProperties, EmptySeq DEF PipeOK
<1> HIDE DEF q1
<1>2. \A i \in DOMAIN q : q[i] \in Message
  BY <1>1, ElementOfSeq
<1>3. Head(q) \in Message /\ Awaits(p, Head(q))
  BY <1>1, <1>2 DEF PipeOK
<1>4. ASSUME NEW i \in DOMAIN q1 PROVE Awaits(p1, q1[i])
  <2>1. i + 1 \in DOMAIN q /\ 1 \in DOMAIN q /\ i + 1 # 1
    BY <1>1
  <2>2. q1[i] \in Message /\ Awaits(p, q1[i]) /\ q1[i] # Head(q)
    BY <1>1, <1>2, <2>1 DEF PipeOK
  <2>3. q1[i] = <<q1[i][1], q1[i][2]>> /\ Head(q) = <<Head(q)[1], Head(q)[2]>>
    BY <1>3, <2>2 DEF Message
  <2> QED BY <1>3, <2>2, <2>3, TasksAreDistinct DEF Awaits, Message
<1>5. \A i, j \in DOMAIN q1 : q1[i] = q1[j] => i = j
  <2> SUFFICES ASSUME NEW i \in DOMAIN q1, NEW j \in DOMAIN q1, q1[i] = q1[j] PROVE i = j
    OBVIOUS
  <2>1. i + 1 \in DOMAIN q /\ j + 1 \in DOMAIN q /\ q[i + 1] = q[j + 1]
    BY <1>1
  <2>2. i + 1 = j + 1
    BY <2>1 DEF PipeOK
  <2> QED BY <1>1, <2>2
<1> QED BY <1>1, <1>3, <1>4, <1>5 DEF PipeOK, q1

-----------------------------------------------------------------------------
(* The invariant *)

(* What the invariant says of entries, beside the types. *)
EntriesOK ==
    UnregisteredHasNone /\ RegisteredStays /\ RecordIsOfStops /\ NoDeadEntry /\ LiveWasReached

(* The parts a step is proved to keep. *)
LEMMA InvParts ==
    /\ VoiceInv <=> PlainTypeOK /\ PipeOK(task, inbox) /\ EntriesOK
    /\ VoiceInv' <=> PlainTypeOK' /\ PipeOK(task', inbox') /\ EntriesOK'
<1>1. VoiceInv <=> PlainTypeOK /\ PipeOK(task, inbox) /\ EntriesOK
  BY TypeParts DEF VoiceInv, EntriesOK
<1>2. VoiceInv' <=> PlainTypeOK' /\ PipeOK(task, inbox)' /\ EntriesOK'
  BY <1>1, PTL
<1>3. PipeOK(task, inbox)' <=> PipeOK(task', inbox')
  BY DEF PipeOK, Awaits
<1> QED BY <1>1, <1>2, <1>3

(* Nothing is registered or written at first. *)
LEMMA InitVoice == VoiceInit => VoiceInv
<1> SUFFICES ASSUME VoiceInit PROVE PlainTypeOK /\ PipeOK(task, inbox) /\ EntriesOK
  BY InvParts
<1>1. \A t \in Task : task[t] = "idle"
  BY DEF VoiceInit
<1>2. PlainTypeOK
  BY DEF VoiceInit, PlainTypeOK, VoicePoints, Answers
<1>3. PipeOK(task, inbox)
  BY EmptySeq DEF VoiceInit, PipeOK
<1>4. EntriesOK
  BY <1>1, TasksAreDistinct, SessionAssumption
     DEF VoiceInit, EntriesOK, UnregisteredHasNone, RegisteredStays, RecordIsOfStops,
        NoDeadEntry, LiveWasReached, TaskAt, Unregistered, Registered
<1> QED BY <1>2, <1>3, <1>4

(* Every step of a start, a stop, the app-server or a loss keeps it. *)
LEMMA VoiceStep == VoiceInv /\ [VoiceNext]_voiceVars => VoiceInv'
<1> SUFFICES ASSUME PlainTypeOK, PipeOK(task, inbox), EntriesOK, [VoiceNext]_voiceVars
             PROVE  PlainTypeOK' /\ PipeOK(task', inbox') /\ EntriesOK'
  BY InvParts
<1> DEFINE Facts == PlainTypeOK' /\ PipeOK(task', inbox') /\ EntriesOK'
           Undisturbed == /\ \A t \in Task :
                               task[t] \in {"await", "stopAwait"} => task'[t] = task[t]
                          /\ inbox' = inbox
<1>0. Undisturbed => PipeOK(task', inbox')
  BY PipeUndisturbed
<1> USE TasksAreDistinct, SessionAssumption
    DEF TaskAt, TaskGoto, PlainTypeOK, VoicePoints, Answers, EntriesOK, UnregisteredHasNone,
        RegisteredStays, RecordIsOfStops, NoDeadEntry, LiveWasReached,
        Unregistered, Registered, Reached
<1>1. ASSUME NEW s \in Session, StartAsked(s) PROVE Facts
  <2>1. PlainTypeOK' /\ Undisturbed
    BY <1>1 DEF StartAsked
  <2>2. EntriesOK'
    BY <1>1 DEF StartAsked
  <2> QED BY <1>0, <2>1, <2>2
<1>2. ASSUME NEW s \in Session, StartChecks(s) PROVE Facts
  <2>1. PlainTypeOK' /\ Undisturbed
    BY <1>2 DEF StartChecks
  <2>2. EntriesOK'
    BY <1>2 DEF StartChecks
  <2> QED BY <1>0, <2>1, <2>2
<1>3. ASSUME NEW s \in Session, StartInserts(s) PROVE Facts
  <2>1. PlainTypeOK' /\ Undisturbed
    BY <1>3 DEF StartInserts, MayInsert
  <2>2. EntriesOK'
    BY <1>3 DEF StartInserts, MayInsert
  <2> QED BY <1>0, <2>1, <2>2
<1>4. ASSUME NEW s \in Session, StartWrites(s) PROVE Facts
  <2> DEFINE m == <<s, "start">>
  <2>1. PlainTypeOK' /\ EntriesOK'
    BY <1>4 DEF StartWrites
  <2>2. /\ inbox' = Append(inbox, m) /\ m \in Message
        /\ m[1] = s /\ m[2] = "start" /\ m = Start(s)
    BY <1>4 DEF StartWrites, Start, Message
  <2>3. task[m] = "write" /\ task' = [task EXCEPT ![m] = "await"] /\ m \in Task
    BY <1>4, <2>2 DEF StartWrites, TaskAt, TaskGoto, Task
  <2> HIDE DEF m
  <2>4. ~Awaits(task, m) /\ Awaits(task', m)
    BY <1>4, <2>2, <2>3 DEF Awaits, PlainTypeOK
  <2>5. \A u \in Task : task[u] \in {"await", "stopAwait"} => task'[u] = task[u]
    BY <2>3
  <2> QED BY <2>1, <2>2, <2>4, <2>5, PipeAppended
<1>5. ASSUME NEW s \in Session, StartNegotiates(s) PROVE Facts
  <2>1. PlainTypeOK' /\ Undisturbed
    BY <1>5 DEF StartNegotiates
  <2>2. EntriesOK'
    BY <1>5 DEF StartNegotiates
  <2> QED BY <1>0, <2>1, <2>2
<1>6. ASSUME NEW s \in Session, StartReviews(s) PROVE Facts
  <2>1. PlainTypeOK' /\ Undisturbed
    BY <1>6 DEF StartReviews, Reviewed
  <2>2. EntriesOK'
    BY <1>6 DEF StartReviews, Reviewed
  <2> QED BY <1>0, <2>1, <2>2
<1>7. ASSUME NEW s \in Session, StopAsked(s) PROVE Facts
  <2>1. PlainTypeOK' /\ Undisturbed
    BY <1>7 DEF StopAsked
  <2>2. EntriesOK'
    BY <1>7 DEF StopAsked
  <2> QED BY <1>0, <2>1, <2>2
<1>8. ASSUME NEW s \in Session, StopCancels(s) PROVE Facts
  <2>1. PlainTypeOK' /\ Undisturbed
    BY <1>8 DEF StopCancels
  <2>2. EntriesOK'
    BY <1>8 DEF StopCancels
  <2> QED BY <1>0, <2>1, <2>2
<1>9. ASSUME NEW t \in Task, StopChecks(t) PROVE Facts
  <2>1. PlainTypeOK' /\ Undisturbed
    BY <1>9 DEF StopChecks, Ended, Tell
  <2>2. EntriesOK'
    BY <1>9 DEF StopChecks, Ended, Tell
  <2> QED BY <1>0, <2>1, <2>2
<1>10. ASSUME NEW t \in Task, StopWrites(t) PROVE Facts
  <2> DEFINE m == <<t[1], IF t[2] = "start" THEN "cleanup" ELSE "stop">>
  <2>1. PlainTypeOK' /\ EntriesOK'
    BY <1>10 DEF StopWrites
  <2>2. /\ inbox' = Append(inbox, m) /\ m \in Message
        /\ ~Awaits(task, m) /\ Awaits(task', m)
        /\ \A u \in Task : task[u] \in {"await", "stopAwait"} => task'[u] = task[u]
    BY <1>10 DEF StopWrites, Message, Awaits
  <2> QED BY <2>1, <2>2, PipeAppended
<1>11. ASSUME NEW t \in Task, StopRemoves(t) PROVE Facts
  <2>1. PlainTypeOK' /\ Undisturbed
    BY <1>11 DEF StopRemoves, Ended, Removed
  <2>2. EntriesOK'
    BY <1>11 DEF StopRemoves, Ended, Removed
  <2> QED BY <1>0, <2>1, <2>2
<1>12. ASSUME HandlesStart PROVE Facts
  <2> DEFINE m == Head(inbox)
             x == IF live = NoSession THEN "negotiate" ELSE "stopCheck"
  <2>1. /\ inbox # <<>> /\ inbox' = Tail(inbox) /\ m[2] = "start"
        /\ task' = [task EXCEPT ![Start(m[1])] = x]
        /\ live' = (IF live = NoSession THEN m[1] ELSE live)
        /\ UNCHANGED <<entry, canceled, heard, lost>>
    BY <1>12 DEF HandlesStart
  <2>2. m \in Message /\ m[1] \in Session
    BY <2>1, HeadTailProperties DEF PipeOK, Message
  <2> HIDE DEF m, x
  <2>3. \A u \in Task : u # Start(m[1]) => task'[u] = task[u]
    BY <2>1
  <2>4. Awaits(task, m) /\ PipeOK(task', inbox')
    BY <2>1, <2>2, <2>3, PipeAnswered DEF m
  <2>5. PlainTypeOK' /\ EntriesOK'
    BY <2>1, <2>2, <2>4 DEF Awaits, x
  <2> QED BY <2>4, <2>5
<1>13. ASSUME HandlesStop PROVE Facts
  <2> DEFINE m == Head(inbox)
             t == <<m[1], IF m[2] = "cleanup" THEN "start" ELSE "stop">>
  <2>1. /\ inbox # <<>> /\ inbox' = Tail(inbox) /\ m[2] # "start"
        /\ task' = [task EXCEPT ![t] = "stopRemove"]
        /\ live' = NoSession /\ UNCHANGED <<entry, canceled, heard, lost>>
    BY <1>13 DEF HandlesStop
  <2>2. m \in Message
    BY <2>1, HeadTailProperties DEF PipeOK
  <2>3. t \in Task /\ t = (IF m[2] = "stop" THEN Stop(m[1]) ELSE Start(m[1]))
    BY <2>1, <2>2 DEF Message, Start, Stop
  <2> HIDE DEF m, t
  <2>4. \A u \in Task : u # t => task'[u] = task[u]
    BY <2>1
  <2>5. Awaits(task, m) /\ PipeOK(task', inbox')
    <3>1. m = Head(inbox) /\ PipeOK(task, inbox)
      BY DEF m
    <3>2. t = (IF Head(inbox)[2] = "stop" THEN Stop(Head(inbox)[1]) ELSE Start(Head(inbox)[1]))
      BY <2>3, <3>1
    <3>3. Awaits(task, Head(inbox)) /\ PipeOK(task', Tail(inbox))
      BY <2>1, <2>3, <2>4, <3>1, <3>2, PipeAnswered
    <3> QED BY <2>1, <3>1, <3>3
  <2>6. task[t] = "stopAwait"
    BY <2>1, <2>3, <2>5 DEF Awaits
  <2>7. PlainTypeOK' /\ EntriesOK'
    BY <2>1, <2>3, <2>6
  <2> QED BY <2>5, <2>7
<1>14. ASSUME NEW a \in {"sdp", "error"}, Notified(a) PROVE Facts
  <2>1. PlainTypeOK' /\ Undisturbed
    BY <1>14 DEF Notified, Tell
  <2>2. EntriesOK'
    BY <1>14 DEF Notified, Tell
  <2> QED BY <1>0, <2>1, <2>2
<1>15. ASSUME ProcessLost PROVE Facts
  <2>1. PlainTypeOK' /\ EntriesOK'
    BY <1>15 DEF ProcessLost, EntryAfterLoss, Tell
  <2>2. PipeOK(task', inbox')
    BY <1>15, EmptySeq DEF ProcessLost, InboxAfterLoss, PipeOK
  <2> QED BY <2>1, <2>2
<1>16. ASSUME UNCHANGED voiceVars PROVE Facts
  BY <1>16, <1>0 DEF voiceVars
<1> QED
  BY <1>1, <1>2, <1>3, <1>4, <1>5, <1>6, <1>7, <1>8, <1>9, <1>10, <1>11, <1>12,
     <1>13, <1>14, <1>15, <1>16
     DEF VoiceNext

(* The inductive invariant of starts, stops and the pipe holds throughout. *)
THEOREM VoiceInvariant == VoiceSpec => []VoiceInv
<1>1. VoiceInv /\ [VoiceNext]_voiceVars => VoiceInv'
  BY VoiceStep
<1> QED BY <1>1, InitVoice, PTL DEF VoiceSpec

(* The entry of the thread is the session whose audio flows or may flow,    *)
(* whatever starts, stops and losses of start_realtime and stop_realtime    *)
(* overlap, for any number of sessions.                                     *)
THEOREM EntriesBelongToOwners == VoiceSpec => []EntriesAreOwned
<1>1. VoiceInv => EntriesAreOwned
  BY SessionAssumption DEF VoiceInv, EntriesAreOwned, VoiceTypeOK,
     ConnectedIsRegistered, LiveIsRegistered, RegisteredStays, RecordIsOfStops,
     LiveWasReached, Registered, Reached, TaskAt
<1> QED BY <1>1, VoiceInvariant, PTL
=============================================================================
