------------------------- MODULE ProjectFolderProofs -------------------------
(* The folder of a thread, for every set of contents and clients and for    *)
(* every circumstance of ProjectFolder.                                     *)
(*                                                                          *)
(* BaseInv holds whatever happens: what the manifest, a draft, a preview or *)
(* the manifest that an apply will restore names is a version of the        *)
(* content it stands for. AloneInv adds, where no client applies and before *)
(* anything has failed, what the watcher's apply knows of its draft and its *)
(* preview at each of its places.                                           *)
(* CalmInv adds, where also every change is heard at once and nothing       *)
(* fails, that an apply that nobody interrupted works on the content that   *)
(* the file still has, so that what it returns is a verdict on it.          *)
EXTENDS ProjectFolder, SequenceTheorems, WellFoundedInduction, TLAPS

-----------------------------------------------------------------------------
(* The types *)

Version == [source : Source, status : Statuses, by : Actor \cup {None}]
Manifest == [of : Nat, digest : Source]
Contents == Source \cup {None}

(* The places of an apply: at rest, before there is a preview, and with one.*)
AtRest == {"idle", "begin", "done"}
BeforePreview == {"append", "render", "rendering", "fail", "find", "update", "create"}
WithPreview == {"mark", "publish", "check", "verify", "checkAgain", "rollback", "accept"}

Apply == [at : AtRest \cup BeforePreview \cup WithPreview, src : Contents,
          was : Manifest \cup {None}, base : Nat, draft : Nat, owns : BOOLEAN, preview : Nat,
          stop : {"free", "linked", "halted"}, join : Actor \cup {None},
          result : {None, "ok", "error", "rendered", "invalid", "changed", "conflict",
                    "dropped"}]

Memory == [pc : {"idle", "judge", "settled", "apply"}, seen : Contents, pending : Contents,
           failed : Contents, activity : BOOLEAN]

Kinds == {"edits", "commits", "exports", "applies", "faults", "switches", "leaves", "restarts"}

FolderTypeOK ==
    /\ setup \in Setups
    /\ file \in Source
    /\ manifest \in Manifest
    /\ versions \in Seq(Version)
    /\ failure \in Contents
    /\ memory \in Memory
    /\ apply \in [Actor -> Apply]
    /\ drafts \in [Actor -> Nat]
    /\ token \in [on : BOOLEAN, source : Contents, raised : BOOLEAN]
    /\ news \in BOOLEAN
    /\ active \in BOOLEAN
    /\ left \in [Kinds -> Nat]
    /\ \A k \in Kinds : left[k] <= setup.left[k]

-----------------------------------------------------------------------------
(* Versions *)

(* A set of numbers up to n has a greatest one.                             *)
LEMMA MaxExists ==
    ASSUME NEW n \in Nat, NEW S \in SUBSET (0 .. n), S # {}
    PROVE  \E x \in S : \A y \in S : x >= y
<1> DEFINE R == {p \in Nat \X Nat : p[1] < p[2]}
           T == {n - x : x \in S}
<1>1. IsWellFoundedOn(R, Nat)
  <2>1. R \cap (Nat \X Nat) \subseteq OpToRel(<, Nat)
    BY DEF OpToRel
  <2> QED BY <2>1, NatLessThanWellFounded, IsWellFoundedOnSubrelation
<1>2. T \subseteq Nat /\ T # {}
  <2>1. ASSUME NEW x \in S PROVE n - x \in Nat
    <3>1. x \in 0 .. n
      OBVIOUS
    <3> QED BY <3>1
  <2>2. PICK z \in S : TRUE
    OBVIOUS
  <2>3. n - z \in T
    OBVIOUS
  <2> QED BY <2>1, <2>3
<1>3. PICK x \in T : \A y \in T : ~(<<y, x>> \in R)
  <2> HIDE DEF R, T
  <2> QED BY <1>1, <1>2, WFMin
<1>4. PICK m \in S : x = n - m
  OBVIOUS
<1>5. \A y \in S : ~(n - y < n - m)
  BY <1>2, <1>3, <1>4
<1> QED BY <1>4, <1>5

(* The newest of a set of versions is one of them and no other is newer; it *)
(* is 0 for none.                                                           *)
LEMMA NewestFacts ==
    ASSUME NEW n \in Nat, NEW S \in SUBSET (1 .. n)
    PROVE  /\ Newest(S) \in S \cup {0}
           /\ \A v \in S : v <= Newest(S)
           /\ S # {} => Newest(S) \in S
           /\ S = {} => Newest(S) = 0
<1> DEFINE T == S \cup {0}
<1>1. T \in SUBSET (0 .. n) /\ T # {}
  OBVIOUS
<1>2. Max(T) \in T /\ \A y \in T : Max(T) >= y
  <2> HIDE DEF T
  <2> QED BY <1>1, MaxExists DEF Max
<1>3. Newest(S) = Max(T)
  BY DEF Newest
<1> HIDE DEF T
<1>4. Newest(S) \in T /\ \A y \in T : Newest(S) >= y
  BY <1>2, <1>3
<1>5. S # {} => Newest(S) # 0
  <2> SUFFICES ASSUME NEW y \in S PROVE Newest(S) # 0
    OBVIOUS
  <2>1. y \in 1 .. n /\ Newest(S) >= y
    BY <1>4 DEF T
  <2>2. Newest(S) \in 0 .. n
    BY <1>1, <1>4
  <2> QED BY <2>1, <2>2
<1> QED BY <1>4, <1>5 DEF T

(* The versions are numbered by their places.                               *)
LEMMA VersionFacts ==
    ASSUME versions \in Seq(Version)
    PROVE  /\ Len(versions) \in Nat
           /\ DOMAIN versions = 1 .. Len(versions)
           /\ \A v \in DOMAIN versions :
                /\ v \in Nat \ {0}
                /\ versions[v] \in Version
                /\ versions[v].source \in Source /\ versions[v].status \in Statuses
                /\ versions[v].by \in Actor \cup {None}
<1>1. /\ Len(versions) \in Nat /\ DOMAIN versions = 1 .. Len(versions)
  BY LenProperties
<1>2. \A v \in DOMAIN versions : versions[v] \in Version
  BY <1>1, ElementOfSeq
<1> QED BY <1>1, <1>2 DEF Version

(* The head of the thread is the last version that was not deleted.         *)
LEMMA LatestFacts ==
    ASSUME versions \in Seq(Version)
    PROVE  /\ Latest \in Nat
           /\ Latest # 0 => Latest \in Live
           /\ \A v \in Live : v <= Latest /\ Latest # 0
           /\ Live \subseteq DOMAIN versions
<1>1. Len(versions) \in Nat /\ Live \in SUBSET (1 .. Len(versions))
  BY VersionFacts DEF Live
<1>2. /\ Latest \in Live \cup {0}
      /\ \A v \in Live : v <= Latest
      /\ Live # {} => Latest \in Live
  BY <1>1, NewestFacts DEF Latest
<1> QED BY <1>1, <1>2, VersionFacts DEF Live

(* What a row is marked with is all that changes.                           *)
LEMMA MarkedFacts ==
    ASSUME versions \in Seq(Version), NEW v \in DOMAIN versions, NEW status \in Statuses
    PROVE  LET m == Marked(v, status)
           IN  /\ m \in Seq(Version) /\ DOMAIN m = DOMAIN versions
               /\ \A u \in DOMAIN versions :
                    /\ m[u].source = versions[u].source /\ m[u].by = versions[u].by
                    /\ u # v => m[u] = versions[u]
               /\ m[v].status = IF versions[v].status = "deleted" THEN "deleted" ELSE status
<1> DEFINE m == Marked(v, status)
           new == IF versions[v].status = "deleted" THEN "deleted" ELSE status
<1>1. versions[v] \in Version /\ new \in Statuses
  BY VersionFacts
<1>2. m = [versions EXCEPT ![v] = [versions[v] EXCEPT !.status = new]]
  BY <1>1 DEF Marked
<1> HIDE DEF new
<1>3. [versions[v] EXCEPT !.status = new] \in Version
  BY <1>1 DEF Version
<1>4. m \in Seq(Version) /\ DOMAIN m = DOMAIN versions
  BY <1>2, <1>3, VersionFacts, ExceptSeq
<1>5. \A u \in DOMAIN versions : m[u] = IF u = v THEN [versions[v] EXCEPT !.status = new]
                                        ELSE versions[u]
  BY <1>2
<1>6. /\ m[v].status = new /\ m[v].source = versions[v].source /\ m[v].by = versions[v].by
  BY <1>1, <1>5 DEF Version
<1> QED BY <1>4, <1>5, <1>6 DEF new

(* An appended version is the last one, and the others stay.                *)
LEMMA AppendedFacts ==
    ASSUME versions \in Seq(Version), NEW source \in Source, NEW status \in Statuses,
           NEW by \in Actor \cup {None}, NEW m, m = Appended(source, status, by)
    PROVE  /\ m \in Seq(Version) /\ Len(m) = Len(versions) + 1
           /\ DOMAIN m = 1 .. Len(versions) + 1
           /\ \A u \in DOMAIN versions : m[u] = versions[u]
           /\ m[Len(m)] = [source |-> source, status |-> status, by |-> by]
<1> DEFINE e == [source |-> source, status |-> status, by |-> by]
<1>1. e \in Version
  BY DEF Version
<1>2. m = Append(versions, e)
  BY DEF Appended
<1> HIDE DEF e
<1>3. /\ m \in Seq(Version) /\ Len(m) = Len(versions) + 1
      /\ \A u \in 1 .. Len(versions) : m[u] = versions[u]
      /\ m[Len(versions) + 1] = e
  BY <1>1, <1>2, AppendProperties
<1>4. DOMAIN m = 1 .. Len(versions) + 1
  BY <1>3, LenProperties
<1> QED BY <1>3, <1>4, VersionFacts DEF e

-----------------------------------------------------------------------------
(* The invariant of every circumstance *)

IsOf(v, source) == v \in DOMAIN versions /\ versions[v].source = source

(* What an apply remembers is of the content it applies, and the manifest   *)
(* it will restore is of its version.                                       *)
Grounded(p) ==
    /\ p.at \in AtRest => p.draft = 0 /\ p.preview = 0
    /\ p.at \notin AtRest =>
          p.src \in Source /\ p.was \in Manifest /\ IsOf(p.was.of, p.was.digest)
    /\ p.at \notin AtRest \cup {"append"} => p.draft # 0
    /\ p.at \in WithPreview => p.preview # 0
    /\ p.draft # 0 => IsOf(p.draft, p.src)
    /\ p.preview # 0 => IsOf(p.preview, p.src)
    /\ p.join # None => p.at = "rendering"

BaseInv ==
    /\ FolderTypeOK
    /\ IsOf(manifest.of, manifest.digest)
    /\ \A a \in Actor : drafts[a] \in {0} \cup DOMAIN versions
    /\ \A a \in Actor : Grounded(apply[a])
    /\ \A a \in Client : apply[a].at \notin {"begin", "done"}
    /\ memory.pc # "idle" => memory.seen \in Source
    /\ memory.pc = "apply" <=> apply[Watcher].at # "idle"

(* No version is lost and none changes its content.                         *)
VersionsLast ==
    /\ versions' \in Seq(Version)
    /\ \A v \in DOMAIN versions : v \in DOMAIN versions' /\ versions'[v].source = versions[v].source

(* IsOf and Grounded of the state that a step leads to.                     *)
IsOfNext(v, source) == v \in DOMAIN versions' /\ versions'[v].source = source
GroundedNext(p) ==
    /\ p.at \in AtRest => p.draft = 0 /\ p.preview = 0
    /\ p.at \notin AtRest =>
          p.src \in Source /\ p.was \in Manifest /\ IsOfNext(p.was.of, p.was.digest)
    /\ p.at \notin AtRest \cup {"append"} => p.draft # 0
    /\ p.at \in WithPreview => p.preview # 0
    /\ p.draft # 0 => IsOfNext(p.draft, p.src)
    /\ p.preview # 0 => IsOfNext(p.preview, p.src)
    /\ p.join # None => p.at = "rendering"

LEMMA NextFacts ==
    /\ \A a : Grounded(apply[a])' <=> GroundedNext(apply'[a])
    /\ IsOf(manifest.of, manifest.digest)' <=> IsOfNext(manifest'.of, manifest'.digest)
BY DEF Grounded, GroundedNext, IsOf, IsOfNext

(* While the versions last, what is grounded stays so.                      *)
LEMMA StaysGrounded ==
    ASSUME VersionsLast
    PROVE  /\ \A v, source : IsOf(v, source) => IsOfNext(v, source)
           /\ \A p : Grounded(p) => GroundedNext(p)
<1>1. \A v, source : IsOf(v, source) => IsOfNext(v, source)
  BY DEF VersionsLast, IsOf, IsOfNext
<1> QED BY <1>1 DEF Grounded, GroundedNext

(* An apply goes on with what it had, past the answer of a render it was in.*)
Carries(a) ==
    /\ apply'[a].src = apply[a].src /\ apply'[a].was = apply[a].was
    /\ apply'[a].draft = apply[a].draft /\ apply'[a].preview = apply[a].preview
    /\ \/ apply'[a].at = apply[a].at /\ apply'[a].join = apply[a].join
       \/ apply[a].at = "rendering" /\ apply'[a].at \in {"find", "fail"} /\ apply'[a].join = None

LEMMA CarriesGrounded ==
    ASSUME VersionsLast, NEW a \in Actor, Grounded(apply[a]), Carries(a)
    PROVE  GroundedNext(apply'[a])
<1>1. GroundedNext(apply[a])
  BY StaysGrounded
<1>2. CASE apply'[a].at = apply[a].at /\ apply'[a].join = apply[a].join
  BY <1>1, <1>2 DEF GroundedNext, Carries
<1>3. CASE /\ apply[a].at = "rendering" /\ apply'[a].at \in {"find", "fail"}
           /\ apply'[a].join = None
  BY <1>1, <1>3 DEF GroundedNext, Carries, AtRest, WithPreview
<1> QED BY <1>2, <1>3 DEF Carries

(* One apply moves: what is left to show is that its new state is grounded. *)
LEMMA OneMoves ==
    ASSUME BaseInv, VersionsLast, NEW a \in Actor, NEW p \in Apply,
           apply' = [apply EXCEPT ![a] = p], GroundedNext(p)
    PROVE  /\ apply' \in [Actor -> Apply] /\ apply'[a] = p
           /\ \A b \in Actor : Grounded(apply[b])'
           /\ \A b \in Actor \ {a} : apply'[b] = apply[b]
<1>1. /\ apply' \in [Actor -> Apply] /\ apply'[a] = p
      /\ \A b \in Actor \ {a} : apply'[b] = apply[b]
  BY DEF BaseInv, FolderTypeOK
<1>2. ASSUME NEW b \in Actor \ {a} PROVE GroundedNext(apply'[b])
  BY <1>1, CarriesGrounded DEF Carries, BaseInv
<1> QED BY <1>1, <1>2, NextFacts

(* While the versions, the manifest and the drafts stay, only the applies   *)
(* and the memory matter.                                                   *)
LEMMA SameVersionsLast ==
    ASSUME BaseInv, UNCHANGED versions
    PROVE  VersionsLast
BY DEF BaseInv, FolderTypeOK, VersionsLast

LEMMA MarkedLasts ==
    ASSUME BaseInv, NEW v \in DOMAIN versions, NEW status \in Statuses,
           versions' = Marked(v, status)
    PROVE  VersionsLast
BY MarkedFacts DEF BaseInv, FolderTypeOK, VersionsLast

LEMMA AppendedLasts ==
    ASSUME BaseInv, NEW source \in Source, NEW status \in Statuses,
           NEW by \in Actor \cup {None}, versions' = Appended(source, status, by)
    PROVE  /\ VersionsLast
           /\ Len(versions') = Len(versions) + 1 /\ DOMAIN versions' = 1 .. Len(versions')
           /\ \A u \in DOMAIN versions : versions'[u] = versions[u]
           /\ Len(versions') \in DOMAIN versions' /\ Len(versions') \in Nat \ {0}
           /\ versions'[Len(versions')] = [source |-> source, status |-> status, by |-> by]
<1>1. versions \in Seq(Version) /\ Len(versions) \in Nat /\ DOMAIN versions = 1 .. Len(versions)
  BY VersionFacts DEF BaseInv, FolderTypeOK
<1>2. /\ versions' \in Seq(Version) /\ Len(versions') = Len(versions) + 1
      /\ DOMAIN versions' = 1 .. Len(versions) + 1
      /\ \A u \in DOMAIN versions : versions'[u] = versions[u]
      /\ versions'[Len(versions')] = [source |-> source, status |-> status, by |-> by]
  BY <1>1, AppendedFacts
<1>3. VersionsLast
  BY <1>1, <1>2 DEF VersionsLast
<1>4. Len(versions') \in DOMAIN versions' /\ Len(versions') \in Nat \ {0}
  BY <1>1, <1>2
<1> QED BY <1>2, <1>3, <1>4

(* The head of the thread, when it has a content, is a version of it.       *)
LEMMA HeadFacts ==
    ASSUME BaseInv, NEW source, HeadHas(source)
    PROVE  Latest \in Live /\ Latest # 0 /\ Latest \in Nat /\ IsOf(Latest, source)
BY LatestFacts DEF BaseInv, FolderTypeOK, HeadHas, IsOf, Live

-----------------------------------------------------------------------------
(* Steps that BaseInv is shown for together *)

(* A circumstance that happened may happen less often.                      *)
LeftFalls == left' \in [Kinds -> Nat] /\ \A k \in Kinds : left'[k] <= left[k]

LEMMA SpendFalls ==
    ASSUME BaseInv, NEW k \in Kinds, Spend(k)
    PROVE  LeftFalls
BY DEF BaseInv, FolderTypeOK, Spend, LeftFalls

LEMMA LeftStays ==
    ASSUME BaseInv, UNCHANGED left
    PROVE  LeftFalls
BY DEF BaseInv, FolderTypeOK, LeftFalls

LEMMA LeftBound ==
    ASSUME BaseInv, LeftFalls, UNCHANGED setup
    PROVE  left' \in [Kinds -> Nat] /\ \A k \in Kinds : left'[k] <= setup'.left[k]
<1>1. setup \in Setups /\ left \in [Kinds -> Nat] /\ \A k \in Kinds : left[k] <= setup.left[k]
  BY DEF BaseInv, FolderTypeOK
<1>2. setup.left \in [Kinds -> Nat]
  BY <1>1, SetupAssumption DEF SetupType, Kinds
<1> QED BY <1>1, <1>2 DEF LeftFalls

(* The states of an apply at rest.                                          *)
LEMMA RestFacts ==
    /\ Idle \in Apply
    /\ \A result \in {"ok", "error"} : \A a \in Actor :
          /\ Ended(a, result) \in Apply
          /\ Ended(a, result).at = IF a = Watcher THEN "done" ELSE "idle"
          /\ a = Watcher => Ended(a, result).result = result
          /\ Ended(a, result).draft = 0 /\ Ended(a, result).preview = 0
          /\ Ended(a, result).join = None /\ Ended(a, result).stop = "free"
<1> DEFINE done(result) == [Idle EXCEPT !.at = "done", !.result = result]
<1>1. /\ Idle \in Apply /\ Idle.at = "idle"
      /\ Idle.draft = 0 /\ Idle.preview = 0 /\ Idle.join = None /\ Idle.stop = "free"
  BY DEF Idle, Apply, AtRest, Contents
<1>2. ASSUME NEW result \in {"ok", "error"}
      PROVE  /\ done(result) \in Apply /\ done(result).at = "done"
             /\ done(result).result = result
             /\ done(result).draft = 0 /\ done(result).preview = 0
             /\ done(result).join = None /\ done(result).stop = "free"
  BY <1>1 DEF Apply, AtRest
<1>3. \A result : \A a : Ended(a, result) = IF a = Watcher THEN done(result) ELSE Idle
  BY DEF Ended
<1> HIDE DEF done
<1> QED BY <1>1, <1>2, <1>3

LEMMA RestGrounded ==
    ASSUME NEW p, p.at \in AtRest, p.draft = 0, p.preview = 0, p.join = None
    PROVE  Grounded(p)
BY DEF Grounded, WithPreview, AtRest

Token == [on : BOOLEAN, source : Contents, raised : BOOLEAN]

(* The applies move; of everything but the watcher's memory a step may      *)
(* change what stays grounded.                                              *)
LEMMA AppliesKeepBase ==
    ASSUME BaseInv, VersionsLast, apply' \in [Actor -> Apply],
           \A b \in Actor : GroundedNext(apply'[b]),
           \A b \in Client : apply'[b].at \notin {"begin", "done"},
           apply'[Watcher].at = "idle" <=> apply[Watcher].at = "idle",
           file' \in Source, manifest' \in Manifest, IsOfNext(manifest'.of, manifest'.digest),
           drafts' \in [Actor -> Nat], \A b \in Actor : drafts'[b] \in {0} \cup DOMAIN versions',
           LeftFalls, token' \in Token, news' \in BOOLEAN, active' \in BOOLEAN,
           UNCHANGED <<setup, failure, memory>>
    PROVE  BaseInv'
<1>1. FolderTypeOK'
  BY LeftBound DEF BaseInv, FolderTypeOK, VersionsLast, Token
<1>2. memory'.pc = "apply" <=> apply'[Watcher].at # "idle"
  BY DEF BaseInv
<1>3. memory'.pc # "idle" => memory'.seen \in Source
  BY DEF BaseInv
<1> QED BY <1>1, <1>2, <1>3, NextFacts DEF BaseInv

(* One apply moves; of the versions, the manifest and the drafts it may     *)
(* change what stays grounded.                                              *)
LEMMA WorkKeepsBase ==
    ASSUME BaseInv, VersionsLast, NEW a \in Actor, NEW p \in Apply,
           apply' = [apply EXCEPT ![a] = p], GroundedNext(p),
           a = Watcher => (p.at = "idle" <=> apply[a].at = "idle"),
           a \in Client => p.at \notin {"begin", "done"},
           manifest' \in Manifest, IsOfNext(manifest'.of, manifest'.digest),
           drafts' \in [Actor -> Nat], \A b \in Actor : drafts'[b] \in {0} \cup DOMAIN versions',
           LeftFalls, UNCHANGED <<setup, file, failure, memory, token, news, active>>
    PROVE  BaseInv'
<1>1. /\ apply' \in [Actor -> Apply] /\ apply'[a] = p
      /\ \A b \in Actor : GroundedNext(apply'[b])
      /\ \A b \in Actor \ {a} : apply'[b] = apply[b]
  BY OneMoves, NextFacts
<1>2. \A b \in Client : apply'[b].at \notin {"begin", "done"}
  BY <1>1 DEF BaseInv, Actor
<1>3. apply'[Watcher].at = "idle" <=> apply[Watcher].at = "idle"
  BY <1>1 DEF Actor
<1>4. file' \in Source /\ token' \in Token /\ news' \in BOOLEAN /\ active' \in BOOLEAN
  BY DEF BaseInv, FolderTypeOK, Token
<1> QED BY <1>1, <1>2, <1>3, <1>4, AppliesKeepBase

(* The case of one that changes nothing but itself.                         *)
LEMMA MoveKeepsBase ==
    ASSUME BaseInv, NEW a \in Actor, NEW p \in Apply,
           apply' = [apply EXCEPT ![a] = p], GroundedNext(p),
           a = Watcher => (p.at = "idle" <=> apply[a].at = "idle"),
           a \in Client => p.at \notin {"begin", "done"}, LeftFalls,
           UNCHANGED <<setup, folder, versions, failure, memory, drafts, token, news, active>>
    PROVE  BaseInv'
<1>1. VersionsLast
  BY SameVersionsLast
<1>2. /\ manifest' \in Manifest /\ IsOfNext(manifest'.of, manifest'.digest)
      /\ drafts' \in [Actor -> Nat] /\ \A b \in Actor : drafts'[b] \in {0} \cup DOMAIN versions'
      /\ UNCHANGED <<setup, file, failure, memory, token, news, active>>
  BY DEF BaseInv, FolderTypeOK, folder, IsOf, IsOfNext
<1> QED BY <1>1, <1>2, WorkKeepsBase

(* The drafts and the manifest stay grounded while the versions last.       *)
LEMMA KeptGrounded ==
    ASSUME BaseInv, VersionsLast
    PROVE  /\ UNCHANGED manifest =>
                manifest' \in Manifest /\ IsOfNext(manifest'.of, manifest'.digest)
           /\ UNCHANGED drafts => /\ drafts' \in [Actor -> Nat]
                                  /\ \A b \in Actor : drafts'[b] \in {0} \cup DOMAIN versions'
BY StaysGrounded DEF BaseInv, FolderTypeOK, VersionsLast

-----------------------------------------------------------------------------
(* The steps of an apply *)

LEMMA ApplyFacts ==
    ASSUME BaseInv, NEW a \in Actor
    PROVE  /\ apply \in [Actor -> Apply] /\ apply[a] \in Apply /\ Grounded(apply[a])
           /\ apply[a].at \in AtRest \cup BeforePreview \cup WithPreview
           /\ versions \in Seq(Version)
BY DEF BaseInv, FolderTypeOK, Apply

LEMMA AppendDraftBase ==
    ASSUME BaseInv, NEW a \in Actor, AppendDraft(a)
    PROVE  BaseInv' /\ VersionsLast
<1> DEFINE q == apply[a]
<1>1. /\ apply \in [Actor -> Apply] /\ q \in Apply /\ Grounded(q)
      /\ q.at = "append" /\ q.src \in Source
  BY ApplyFacts DEF AppendDraft, Grounded, AtRest
<1>2. LeftFalls /\ UNCHANGED <<setup, file, manifest, failure, memory, drafts, token, news, active>>
  BY LeftStays DEF AppendDraft, folder
<1>3. CASE /\ HeadHas(q.src) /\ UNCHANGED versions
           /\ apply' = [apply EXCEPT ![a].at = "render", ![a].draft = Latest,
                                     ![a].owns = versions[Latest].status # "success"]
  <2> DEFINE p == [q EXCEPT !.at = "render", !.draft = Latest,
                            !.owns = versions[Latest].status # "success"]
  <2>1. Latest \in Nat /\ Latest # 0 /\ IsOf(Latest, q.src) /\ VersionsLast
    BY <1>3, HeadFacts, SameVersionsLast
  <2>2. p \in Apply /\ apply' = [apply EXCEPT ![a] = p] /\ p.at = "render"
    BY <1>1, <1>3, <2>1 DEF Apply, BeforePreview
  <2>3. GroundedNext(p)
    BY <1>1, <2>1, StaysGrounded DEF GroundedNext, AtRest, WithPreview, Apply
  <2> HIDE DEF p
  <2> QED BY <1>1, <1>2, <2>1, <2>2, <2>3, KeptGrounded, WorkKeepsBase
<1>4. CASE /\ versions' = Appended(q.src, "working", a)
           /\ apply' = [apply EXCEPT ![a].at = "render", ![a].draft = Len(versions'),
                                     ![a].owns = TRUE]
  <2> DEFINE n == Len(versions')
             p == [q EXCEPT !.at = "render", !.draft = n, !.owns = TRUE]
  <2>1. VersionsLast /\ n \in Nat \ {0} /\ IsOfNext(n, q.src)
    <3>1. "working" \in Statuses /\ a \in Actor \cup {None}
      BY DEF Statuses
    <3>2. /\ VersionsLast /\ n \in DOMAIN versions' /\ n \in Nat \ {0}
          /\ versions'[n] = [source |-> q.src, status |-> "working", by |-> a]
      BY <1>1, <1>4, <3>1, AppendedLasts
    <3> QED BY <3>2 DEF IsOfNext
  <2> HIDE DEF n
  <2>2. p \in Apply /\ apply' = [apply EXCEPT ![a] = p] /\ p.at = "render"
    BY <1>1, <1>4, <2>1 DEF Apply, BeforePreview, n
  <2>3. GroundedNext(p)
    BY <1>1, <2>1, StaysGrounded DEF GroundedNext, AtRest, WithPreview, Apply
  <2> HIDE DEF p
  <2> QED BY <1>1, <1>2, <2>1, <2>2, <2>3, KeptGrounded, WorkKeepsBase
<1> QED BY <1>3, <1>4 DEF AppendDraft

(* An apply that changes places and keeps what it remembers.                *)
Keeps(q, p) ==
    /\ p \in Apply /\ p.src = q.src /\ p.was = q.was /\ p.draft = q.draft
    /\ p.preview = q.preview /\ p.at \notin AtRest \cup {"append"}
    /\ p.join # None => p.at = "rendering"

LEMMA KeepsGrounded ==
    ASSUME BaseInv, VersionsLast, NEW q, Grounded(q), q.at \notin AtRest \cup {"append"},
           NEW p, Keeps(q, p), p.at \in WithPreview => q.preview # 0
    PROVE  GroundedNext(p)
BY StaysGrounded DEF Keeps, Grounded, GroundedNext

LEMMA RenderBase ==
    ASSUME BaseInv, NEW a \in Actor, Render(a)
    PROVE  BaseInv'
<1> DEFINE q == apply[a]
<1>1. apply \in [Actor -> Apply] /\ q \in Apply /\ Grounded(q) /\ q.at = "render"
  BY ApplyFacts DEF Render
<1>2. PICK p \in Apply : apply' = [apply EXCEPT ![a] = p] /\ Keeps(q, p) /\ p.at = "rendering"
  <2>1. CASE \E b \in Flight(a) : apply' = [apply EXCEPT ![a].at = "rendering", ![a].join = b]
    <3>1. PICK b \in Actor : apply' = [apply EXCEPT ![a].at = "rendering", ![a].join = b]
      BY <2>1 DEF Flight
    <3> DEFINE p == [q EXCEPT !.at = "rendering", !.join = b]
    <3>2. p \in Apply /\ apply' = [apply EXCEPT ![a] = p] /\ Keeps(q, p) /\ p.at = "rendering"
      BY <1>1, <3>1 DEF Apply, BeforePreview, Keeps, AtRest
    <3> QED BY <3>2
  <2>2. CASE apply' = [apply EXCEPT ![a].at = "rendering", ![a].stop = Holds(a)]
    <3> DEFINE p == [q EXCEPT !.at = "rendering", !.stop = Holds(a)]
    <3>1. Holds(a) \in {"free", "linked", "halted"}
      BY DEF Holds
    <3>2. p \in Apply /\ apply' = [apply EXCEPT ![a] = p] /\ Keeps(q, p) /\ p.at = "rendering"
      BY <1>1, <2>2, <3>1 DEF Apply, BeforePreview, Keeps, AtRest
    <3> QED BY <3>2
  <2> QED BY <2>1, <2>2 DEF Render
<1>3. VersionsLast /\ LeftFalls
  BY SameVersionsLast, LeftStays DEF Render
<1>4. GroundedNext(p)
  BY <1>1, <1>2, <1>3, KeepsGrounded DEF AtRest, WithPreview
<1> QED BY <1>1, <1>2, <1>3, <1>4, MoveKeepsBase DEF Render

(* An answer reaches the owner of a render and those who wait for it.       *)
LEMMA AnsweredFacts ==
    ASSUME BaseInv, NEW a \in Actor,
           NEW outcome \in {"rendered", "invalid", "changed", "dropped"},
           NEW m, m = Answered(a, outcome)
    PROVE  /\ m \in [Actor -> Apply]
           /\ \A b \in Actor : \/ m[b] = apply[b] /\ b # a
                              \/ /\ b = a \/ apply[b].at = "rendering"
                                 /\ m[b].at \in {"find", "fail"} /\ m[b].join = None
                                 /\ m[b].result = outcome /\ m[b].owns = apply[b].owns
                                 /\ m[b].at = "find" <=> outcome = "rendered"
                                 /\ m[b].stop = "free"
                                 /\ m[b].src = apply[b].src /\ m[b].was = apply[b].was
                                 /\ m[b].draft = apply[b].draft
                                 /\ m[b].preview = apply[b].preview
<1> SUFFICES ASSUME NEW b \in Actor
             PROVE  /\ m[b] \in Apply
                    /\ \/ m[b] = apply[b] /\ b # a
                       \/ /\ b = a \/ apply[b].at = "rendering"
                          /\ m[b].at \in {"find", "fail"} /\ m[b].join = None
                          /\ m[b].result = outcome /\ m[b].owns = apply[b].owns
                          /\ m[b].at = "find" <=> outcome = "rendered"
                          /\ m[b].stop = "free"
                          /\ m[b].src = apply[b].src /\ m[b].was = apply[b].was
                          /\ m[b].draft = apply[b].draft
                          /\ m[b].preview = apply[b].preview
  BY DEF Answered
<1>1. apply[b] \in Apply /\ Grounded(apply[b])
  BY ApplyFacts
<1>2. CASE b = a \/ apply[b].join = a
  <2> DEFINE at == IF outcome = "rendered" THEN "find" ELSE "fail"
  <2>1. m[b] = [apply[b] EXCEPT !.at = at, !.result = outcome, !.join = None, !.stop = "free"]
    BY <1>2 DEF Answered
  <2>2. at \in {"find", "fail"} /\ (at = "find" <=> outcome = "rendered")
    OBVIOUS
  <2> HIDE DEF at
  <2>3. apply[b].join = a => apply[b].at = "rendering"
    BY <1>1, FolderAssumption DEF Grounded, Actor
  <2> QED BY <1>1, <1>2, <2>1, <2>2, <2>3 DEF Apply, BeforePreview
<1>3. CASE ~(b = a \/ apply[b].join = a)
  BY <1>1, <1>3 DEF Answered
<1> QED BY <1>2, <1>3

LEMMA CompleteBase ==
    ASSUME BaseInv, NEW a \in Actor, Complete(a)
    PROVE  BaseInv'
<1>1. PICK outcome \in Outcomes(a) : apply' = Answered(a, outcome)
  BY DEF Complete
<1>2. outcome \in {"rendered", "invalid", "changed", "dropped"}
  BY <1>1 DEF Outcomes
<1>3. VersionsLast /\ LeftFalls
  BY SameVersionsLast, LeftStays DEF Complete
<1>4. /\ apply' \in [Actor -> Apply]
      /\ \A b \in Actor : Carries(b)
  BY <1>1, <1>2, AnsweredFacts DEF Carries, Complete
<1>5. /\ \A b \in Actor : GroundedNext(apply'[b])
      /\ \A b \in Client : apply'[b].at \notin {"begin", "done"}
      /\ apply'[Watcher].at = "idle" <=> apply[Watcher].at = "idle"
  BY <1>3, <1>4, ApplyFacts, CarriesGrounded DEF Carries, BaseInv, Actor
<1>6. /\ UNCHANGED <<setup, file, manifest, failure, memory, drafts, active, token, news>>
      /\ file \in Source /\ token \in Token /\ news \in BOOLEAN /\ active \in BOOLEAN
  BY DEF Complete, folder, BaseInv, FolderTypeOK, Token
<1> QED BY <1>3, <1>4, <1>5, <1>6, KeptGrounded, AppliesKeepBase

(* What an apply does with its versions.                                    *)
LEMMA OwnVersionLasts ==
    ASSUME BaseInv, NEW v, v \in Nat \ {0}, NEW source, IsOf(v, source), NEW status \in Statuses,
           UNCHANGED versions \/ versions' = Marked(v, status)
    PROVE  VersionsLast
BY SameVersionsLast, MarkedLasts DEF IsOf

(* The end of an apply, with the manifest it leaves.                        *)
LEMMA EndKeepsBase ==
    ASSUME BaseInv, VersionsLast, NEW a \in Actor, apply[a].at \notin AtRest \/ a = Watcher,
           apply[a].at # "idle",
           NEW result \in {"ok", "error"}, apply' = [apply EXCEPT ![a] = Ended(a, result)],
           manifest' \in Manifest, IsOfNext(manifest'.of, manifest'.digest),
           drafts' \in {drafts, [drafts EXCEPT ![a] = 0]},
           LeftFalls, UNCHANGED <<setup, file, failure, memory, token, news, active>>
    PROVE  BaseInv'
<1>1. /\ Ended(a, result) \in Apply
      /\ Ended(a, result).at = IF a = Watcher THEN "done" ELSE "idle"
      /\ Ended(a, result).draft = 0 /\ Ended(a, result).preview = 0
      /\ Ended(a, result).join = None
  BY RestFacts
<1>2. GroundedNext(Ended(a, result))
  BY <1>1 DEF GroundedNext, AtRest, WithPreview
<1>3. /\ drafts' \in [Actor -> Nat]
      /\ \A b \in Actor : drafts'[b] \in {0} \cup DOMAIN versions'
  BY DEF BaseInv, FolderTypeOK, VersionsLast
<1>4. /\ a = Watcher => (Ended(a, result).at = "idle" <=> apply[a].at = "idle")
      /\ a \in Client => Ended(a, result).at \notin {"begin", "done"}
  BY <1>1, FolderAssumption
<1> QED BY <1>1, <1>2, <1>3, <1>4, WorkKeepsBase

LEMMA FailBase ==
    ASSUME BaseInv, NEW a \in Actor, Fail(a)
    PROVE  BaseInv' /\ VersionsLast
<1>1. /\ Grounded(apply[a]) /\ apply[a] \in Apply /\ apply[a].at = "fail"
      /\ apply[a].draft \in Nat \ {0} /\ IsOf(apply[a].draft, apply[a].src)
  BY ApplyFacts DEF Fail, Grounded, AtRest, Apply
<1>2. PICK status \in Statuses :
        UNCHANGED versions \/ versions' = Marked(apply[a].draft, status)
  BY DEF Fail, Statuses
<1>3. VersionsLast
  BY <1>1, <1>2, OwnVersionLasts
<1>4. /\ LeftFalls /\ UNCHANGED <<setup, file, manifest, failure, memory, token, news, active>>
      /\ drafts' \in {drafts, [drafts EXCEPT ![a] = 0]}
  BY LeftStays DEF Fail, folder
<1>5. "error" \in {"ok", "error"} /\ apply' = [apply EXCEPT ![a] = Ended(a, "error")]
  BY DEF Fail
<1>6. apply[a].at \notin AtRest /\ apply[a].at # "idle"
  BY <1>1 DEF AtRest
<1> QED BY <1>3, <1>4, <1>5, <1>6, KeptGrounded, EndKeepsBase

LEMMA RollbackBase ==
    ASSUME BaseInv, NEW a \in Actor, Rollback(a)
    PROVE  BaseInv' /\ VersionsLast
<1>1. /\ Grounded(apply[a]) /\ apply[a] \in Apply /\ apply[a].at = "rollback"
      /\ apply[a].preview \in Nat \ {0} /\ IsOf(apply[a].preview, apply[a].src)
      /\ apply[a].was \in Manifest /\ IsOf(apply[a].was.of, apply[a].was.digest)
  BY ApplyFacts DEF Rollback, Grounded, AtRest, WithPreview, Apply
<1>2. "deleted" \in Statuses /\ versions' = Marked(apply[a].preview, "deleted")
  BY DEF Rollback, Statuses
<1>3. VersionsLast
  BY <1>1, <1>2, OwnVersionLasts
<1>4. /\ LeftFalls /\ UNCHANGED <<setup, file, failure, memory, token, news, active>>
      /\ drafts' \in {drafts, [drafts EXCEPT ![a] = 0]}
      /\ manifest' = apply[a].was
  BY LeftStays DEF Rollback
<1>5. "error" \in {"ok", "error"} /\ apply' = [apply EXCEPT ![a] = Ended(a, "error")]
  BY DEF Rollback
<1>6. apply[a].at \notin AtRest /\ apply[a].at # "idle"
  BY <1>1 DEF AtRest
<1> QED BY <1>1, <1>3, <1>4, <1>5, <1>6, StaysGrounded, EndKeepsBase

LEMMA FindBase ==
    ASSUME BaseInv, NEW a \in Actor, Find(a)
    PROVE  BaseInv'
<1> DEFINE q == apply[a]
<1>1. /\ apply \in [Actor -> Apply] /\ q \in Apply /\ Grounded(q) /\ q.at = "find"
      /\ q.join = None
  BY ApplyFacts DEF Find, Grounded
<1>2. VersionsLast /\ LeftFalls
  BY SameVersionsLast, LeftStays DEF Find
<1>3. CASE HeadIs(q.src, "success")
  <2> DEFINE p == [q EXCEPT !.at = "publish", !.preview = Latest]
  <2>1. Latest \in Nat /\ Latest # 0 /\ IsOf(Latest, q.src)
    BY <1>3, HeadFacts DEF HeadIs
  <2>2. p \in Apply /\ apply' = [apply EXCEPT ![a] = p] /\ p.at = "publish"
    BY <1>1, <1>3, <2>1 DEF Find, Apply, WithPreview
  <2>3. GroundedNext(p)
    BY <1>1, <1>2, <2>1, StaysGrounded DEF GroundedNext, AtRest, Apply
  <2> HIDE DEF p
  <2> QED BY <1>1, <1>2, <2>2, <2>3, MoveKeepsBase DEF Find
<1>4. CASE ~HeadIs(q.src, "success")
  <2>1. PICK at \in {"update", "create"} : apply' = [apply EXCEPT ![a] = [q EXCEPT !.at = at]]
    BY <1>4 DEF Find
  <2> DEFINE p == [q EXCEPT !.at = at]
  <2>2. p \in Apply /\ Keeps(q, p) /\ p.at \in {"update", "create"}
    BY <1>1, <2>1 DEF Apply, BeforePreview, Keeps, AtRest
  <2>3. GroundedNext(p)
    BY <1>1, <1>2, <2>2, KeepsGrounded DEF AtRest, WithPreview
  <2> HIDE DEF p
  <2> QED BY <1>1, <1>2, <2>1, <2>2, <2>3, MoveKeepsBase DEF Find, p
<1> QED BY <1>3, <1>4

LEMMA SaveBase ==
    ASSUME BaseInv, NEW a \in Actor, Save(a)
    PROVE  BaseInv' /\ VersionsLast
<1> DEFINE q == apply[a]
<1>1. /\ apply \in [Actor -> Apply] /\ q \in Apply /\ Grounded(q)
      /\ q.at \in {"update", "create"} /\ q.src \in Source /\ q.join = None
      /\ q.draft \in Nat \ {0} /\ IsOf(q.draft, q.src)
  BY ApplyFacts DEF Save, Grounded, AtRest, Apply
<1>2. LeftFalls /\ UNCHANGED <<setup, file, manifest, failure, memory, drafts, token, news, active>>
  BY LeftStays DEF Save, folder
<1>3. PICK n \in Nat \ {0} : /\ VersionsLast /\ IsOfNext(n, q.src)
                             /\ apply' = [apply EXCEPT ![a].at = "mark", ![a].preview = n]
  <2>1. CASE /\ versions' = Marked(q.draft, "success")
             /\ apply' = [apply EXCEPT ![a].at = "mark", ![a].preview = q.draft]
    <3>1. "success" \in Statuses
      BY DEF Statuses
    <3>2. VersionsLast
      BY <1>1, <2>1, <3>1, OwnVersionLasts
    <3> QED BY <1>1, <2>1, <3>2, StaysGrounded
  <2>2. CASE /\ versions' = Appended(q.src, "success", a)
             /\ apply' = [apply EXCEPT ![a].at = "mark", ![a].preview = Len(versions')]
    <3> DEFINE n == Len(versions')
    <3>1. "success" \in Statuses /\ a \in Actor \cup {None}
      BY DEF Statuses
    <3>2. /\ VersionsLast /\ n \in DOMAIN versions' /\ n \in Nat \ {0}
          /\ versions'[n] = [source |-> q.src, status |-> "success", by |-> a]
      BY <1>1, <2>2, <3>1, AppendedLasts
    <3>3. IsOfNext(n, q.src)
      BY <3>2 DEF IsOfNext
    <3> QED BY <2>2, <3>2, <3>3
  <2> QED BY <2>1, <2>2 DEF Save
<1> DEFINE p == [q EXCEPT !.at = "mark", !.preview = n]
<1>4. p \in Apply /\ apply' = [apply EXCEPT ![a] = p] /\ p.at = "mark"
  BY <1>1, <1>3 DEF Apply, WithPreview
<1>5. GroundedNext(p)
  BY <1>1, <1>3, StaysGrounded DEF GroundedNext, AtRest, WithPreview, Apply
<1> HIDE DEF p
<1> QED BY <1>1, <1>2, <1>3, <1>4, <1>5, KeptGrounded, WorkKeepsBase

(* A place with a preview is left for another one, and the preview's row is *)
(* marked or not.                                                           *)
LEMMA PreviewKeepsBase ==
    ASSUME BaseInv, NEW a \in Actor, apply[a].at \in WithPreview,
           NEW at \in WithPreview, apply' = [apply EXCEPT ![a].at = at],
           NEW status \in Statuses,
           UNCHANGED versions \/ versions' = Marked(apply[a].preview, status),
           UNCHANGED <<setup, folder, failure, memory, drafts, token, news, active, left>>
    PROVE  BaseInv' /\ VersionsLast
<1> DEFINE q == apply[a]
           p == [q EXCEPT !.at = at]
<1>1. /\ apply \in [Actor -> Apply] /\ q \in Apply /\ Grounded(q)
      /\ q.preview \in Nat \ {0} /\ IsOf(q.preview, q.src)
      /\ q.at \notin AtRest \cup {"append", "rendering"} /\ q.join = None
  BY ApplyFacts DEF Grounded, WithPreview, Apply, AtRest
<1>2. VersionsLast /\ LeftFalls
  BY <1>1, OwnVersionLasts, LeftStays
<1>3. /\ p \in Apply /\ apply' = [apply EXCEPT ![a] = p] /\ Keeps(q, p)
      /\ p.at \notin AtRest
  BY <1>1 DEF Apply, Keeps, WithPreview, AtRest
<1>4. GroundedNext(p)
  BY <1>1, <1>2, <1>3, KeepsGrounded
<1>5. UNCHANGED <<setup, file, manifest, failure, memory, drafts, token, news, active>>
  BY DEF folder
<1>6. /\ a = Watcher => (p.at = "idle" <=> apply[a].at = "idle")
      /\ a \in Client => p.at \notin {"begin", "done"}
  BY <1>1, <1>3 DEF AtRest
<1> HIDE DEF p
<1> QED BY <1>2, <1>3, <1>4, <1>5, <1>6, KeptGrounded, WorkKeepsBase

LEMMA MarkCheckVerifyBase ==
    ASSUME BaseInv, NEW a \in Actor, MarkWorking(a) \/ Check(a) \/ Verify(a)
    PROVE  BaseInv' /\ VersionsLast
<1>1. CASE MarkWorking(a)
  <2>1. "working" \in Statuses /\ "publish" \in WithPreview /\ apply[a].at \in WithPreview
    BY <1>1 DEF Statuses, WithPreview, MarkWorking
  <2> QED BY <1>1, <2>1, PreviewKeepsBase DEF MarkWorking
<1>2. CASE Check(a)
  <2>1. PICK at \in WithPreview : apply' = [apply EXCEPT ![a].at = at]
    BY <1>2 DEF WithPreview, Check
  <2>2. apply[a].at \in WithPreview /\ "working" \in Statuses
    BY <1>2 DEF WithPreview, Check, Statuses
  <2> QED BY <1>2, <2>1, <2>2, PreviewKeepsBase DEF Check
<1>3. CASE Verify(a)
  <2>1. /\ apply[a].at \in WithPreview
        /\ \E at \in WithPreview, status \in Statuses :
             /\ apply' = [apply EXCEPT ![a].at = at]
             /\ UNCHANGED versions \/ versions' = Marked(apply[a].preview, status)
    BY <1>3 DEF WithPreview, Verify, Statuses
  <2> QED BY <1>3, <2>1, PreviewKeepsBase DEF Verify
<1> QED BY <1>1, <1>2, <1>3

LEMMA AcceptBase ==
    ASSUME BaseInv, NEW a \in Actor, Accept(a)
    PROVE  BaseInv' /\ VersionsLast
<1>1. /\ Grounded(apply[a]) /\ apply[a] \in Apply /\ apply[a].at = "accept"
      /\ apply[a].preview \in Nat \ {0} /\ IsOf(apply[a].preview, apply[a].src)
      /\ apply[a].src \in Source
  BY ApplyFacts DEF Accept, Grounded, AtRest, WithPreview, Apply
<1>2. apply[a].at \notin AtRest /\ apply[a].at # "idle"
  BY <1>1 DEF AtRest
<1>3. /\ "success" \in Statuses
      /\ UNCHANGED versions \/ versions' = Marked(apply[a].preview, "success")
  BY DEF Accept, Statuses
<1>4. VersionsLast
  BY <1>1, <1>3, OwnVersionLasts
<1>5. LeftFalls
  <2>1. "faults" \in Kinds
    BY DEF Kinds
  <2>2. UNCHANGED left \/ Spend("faults")
    BY DEF Accept, Spend
  <2> QED BY <2>1, <2>2, SpendFalls, LeftStays
<1>6. manifest' \in Manifest /\ IsOfNext(manifest'.of, manifest'.digest)
  <2>1. CASE UNCHANGED manifest
    BY <1>4, <2>1, KeptGrounded
  <2>2. CASE manifest' = [of |-> apply[a].preview, digest |-> apply[a].src]
    BY <1>1, <1>4, <2>2, StaysGrounded DEF Manifest
  <2> QED BY <2>1, <2>2 DEF Accept
<1>7. PICK result \in {"ok", "error"} : apply' = [apply EXCEPT ![a] = Ended(a, result)]
  BY DEF Accept
<1>8. /\ UNCHANGED <<setup, file, failure, memory, token, news, active>>
      /\ drafts' \in {drafts, [drafts EXCEPT ![a] = 0]}
  BY DEF Accept
<1> QED BY <1>2, <1>4, <1>5, <1>6, <1>7, <1>8, EndKeepsBase

(* A failed read or write leaves the apply with nothing that is not of its  *)
(* content, wherever it happens.                                            *)
LEMMA BreaksBase ==
    ASSUME BaseInv, NEW a \in Actor, Breaks(a)
    PROVE  BaseInv' /\ VersionsLast
<1> DEFINE q == apply[a]
<1>1. /\ apply \in [Actor -> Apply] /\ q \in Apply /\ Grounded(q)
      /\ q.draft \in Nat /\ q.preview \in Nat
  BY ApplyFacts DEF Apply
<1>2. LeftFalls /\ UNCHANGED <<setup, file, failure, memory, token, news, active>>
  BY SpendFalls DEF Breaks, Kinds
<1>3. "error" \in {"ok", "error"} /\ "deleted" \in Statuses
  BY DEF Statuses
<1>4. CASE /\ q.at \in {"begin", "append", "fail", "check", "checkAgain", "accept", "rollback"}
           /\ apply' = [apply EXCEPT ![a] = Ended(a, "error")]
           /\ UNCHANGED <<manifest, versions, drafts>>
  <2>1. VersionsLast /\ drafts' \in {drafts, [drafts EXCEPT ![a] = 0]}
    BY <1>4, SameVersionsLast
  <2>2. q.at # "idle" /\ (q.at \notin AtRest \/ a = Watcher)
    BY <1>4 DEF AtRest, BaseInv, Actor
  <2> QED BY <1>2, <1>3, <1>4, <2>1, <2>2, KeptGrounded, EndKeepsBase
<1>5. CASE /\ q.at \in {"render", "find", "update", "create", "mark", "publish"}
           /\ apply' = [apply EXCEPT ![a].at = "fail", ![a].result = "error"]
           /\ UNCHANGED <<manifest, versions, drafts>>
  <2> DEFINE p == [q EXCEPT !.at = "fail", !.result = "error"]
  <2>1. VersionsLast /\ q.at \notin AtRest \cup {"append", "rendering"}
    BY <1>5, SameVersionsLast DEF AtRest
  <2>2. /\ p \in Apply /\ apply' = [apply EXCEPT ![a] = p] /\ p.at = "fail"
        /\ p.src = q.src /\ p.was = q.was /\ p.draft = q.draft /\ p.preview = q.preview
        /\ p.join = q.join
    BY <1>1, <1>5 DEF Apply, BeforePreview
  <2>3. q.join = None
    BY <1>1, <2>1 DEF Grounded
  <2>4. Keeps(q, p)
    BY <2>2, <2>3 DEF Keeps, AtRest
  <2> HIDE DEF p
  <2>5. GroundedNext(p)
    BY <1>1, <2>1, <2>2, <2>4, KeepsGrounded DEF WithPreview
  <2>6. p.at \notin AtRest
    BY <2>2 DEF AtRest
  <2>7. /\ a = Watcher => (p.at = "idle" <=> apply[a].at = "idle")
        /\ a \in Client => p.at \notin {"begin", "done"}
    BY <2>1, <2>6 DEF AtRest
  <2> QED BY <1>2, <1>5, <2>1, <2>2, <2>5, <2>7, KeptGrounded, WorkKeepsBase
<1>6. CASE /\ q.at = "verify" /\ apply' = [apply EXCEPT ![a].at = "rollback"]
           /\ UNCHANGED <<manifest, versions, drafts>>
  <2> DEFINE p == [q EXCEPT !.at = "rollback"]
  <2>1. VersionsLast /\ q.at \notin AtRest \cup {"append", "rendering"}
    BY <1>6, SameVersionsLast DEF AtRest
  <2>2. /\ p \in Apply /\ apply' = [apply EXCEPT ![a] = p] /\ p.at = "rollback"
        /\ p.src = q.src /\ p.was = q.was /\ p.draft = q.draft /\ p.preview = q.preview
        /\ p.join = q.join
    BY <1>1, <1>6 DEF Apply, WithPreview
  <2>3. q.join = None /\ q.preview # 0
    BY <1>1, <1>6, <2>1 DEF Grounded, WithPreview
  <2>4. Keeps(q, p)
    BY <2>2, <2>3 DEF Keeps, AtRest
  <2> HIDE DEF p
  <2>5. GroundedNext(p)
    BY <1>1, <2>1, <2>3, <2>4, KeepsGrounded
  <2>6. p.at \notin AtRest
    BY <2>2 DEF AtRest
  <2>7. /\ a = Watcher => (p.at = "idle" <=> apply[a].at = "idle")
        /\ a \in Client => p.at \notin {"begin", "done"}
    BY <2>1, <2>6 DEF AtRest
  <2> QED BY <1>2, <1>6, <2>1, <2>2, <2>5, <2>7, KeptGrounded, WorkKeepsBase
<1>7. CASE /\ q.at = "rollback" /\ versions' = Marked(q.preview, "deleted")
           /\ drafts' \in {drafts, [drafts EXCEPT ![a] = 0]}
           /\ apply' = [apply EXCEPT ![a] = Ended(a, "error")]
           /\ UNCHANGED manifest
  <2>1. q.at \notin AtRest /\ q.at # "idle" /\ q.preview # 0 /\ IsOf(q.preview, q.src)
    BY <1>1, <1>7 DEF AtRest, WithPreview, Grounded
  <2>2. VersionsLast
    BY <1>1, <1>3, <1>7, <2>1, OwnVersionLasts
  <2> QED BY <1>2, <1>3, <1>7, <2>1, <2>2, KeptGrounded, EndKeepsBase
<1> QED BY <1>4, <1>5, <1>6, <1>7 DEF Breaks

LEMMA BeginBase ==
    ASSUME BaseInv, NEW a \in Actor, Begin(a)
    PROVE  BaseInv'
<1> DEFINE p == [Idle EXCEPT !.at = "append", !.src = file, !.was = manifest, !.base = Latest]
<1>1. /\ LeftFalls /\ VersionsLast
      /\ a = Watcher => apply[a].at # "idle"
  <2>1. "applies" \in Kinds
    BY DEF Kinds
  <2>2. UNCHANGED left \/ Spend("applies")
    BY DEF Begin, Asked, Spend
  <2>3. a = Watcher => apply[a].at = "begin"
    BY FolderAssumption DEF Begin, Asked
  <2> QED BY <2>1, <2>2, <2>3, SpendFalls, LeftStays, SameVersionsLast DEF Begin
<1>2. CASE apply' = [apply EXCEPT ![a] = Ended(a, "ok")]
  <2>1. /\ Ended(a, "ok") \in Apply
        /\ Ended(a, "ok").at = IF a = Watcher THEN "done" ELSE "idle"
        /\ Ended(a, "ok").draft = 0 /\ Ended(a, "ok").preview = 0
        /\ Ended(a, "ok").join = None
    BY RestFacts
  <2>2. GroundedNext(Ended(a, "ok"))
    BY <2>1 DEF GroundedNext, AtRest, WithPreview
  <2>3. /\ a = Watcher => (Ended(a, "ok").at = "idle" <=> apply[a].at = "idle")
        /\ a \in Client => Ended(a, "ok").at \notin {"begin", "done"}
    BY <1>1, <2>1, FolderAssumption
  <2> QED BY <1>1, <1>2, <2>1, <2>2, <2>3, MoveKeepsBase DEF Begin
<1>3. CASE apply' = [apply EXCEPT ![a] = p]
  <2>1. /\ file \in Source /\ manifest \in Manifest /\ IsOf(manifest.of, manifest.digest)
        /\ Latest \in Nat
    BY LatestFacts DEF BaseInv, FolderTypeOK
  <2>2. /\ p \in Apply /\ p.at = "append" /\ p.src = file /\ p.was = manifest
        /\ p.draft = 0 /\ p.preview = 0 /\ p.join = None
    BY <2>1 DEF Idle, Apply, BeforePreview, Contents
  <2>3. GroundedNext(p)
    BY <1>1, <2>1, <2>2, StaysGrounded DEF GroundedNext, WithPreview, AtRest
  <2> HIDE DEF p
  <2> QED BY <1>1, <1>3, <2>2, <2>3, MoveKeepsBase DEF Begin
<1> QED BY <1>2, <1>3 DEF Begin

-----------------------------------------------------------------------------
(* The surroundings *)

(* Stopping a render leaves the rest of its apply.                          *)
LEMMA StoppedFacts ==
    ASSUME NEW ap \in [Actor -> Apply], NEW m, m = Stopped(ap) \/ m = ap
    PROVE  /\ m \in [Actor -> Apply]
           /\ \A b \in Actor :
                /\ m[b].at = ap[b].at /\ m[b].src = ap[b].src /\ m[b].was = ap[b].was
                /\ m[b].draft = ap[b].draft /\ m[b].preview = ap[b].preview
                /\ m[b].join = ap[b].join /\ m[b].result = ap[b].result
                /\ m[b].owns = ap[b].owns
                /\ \/ m[b].stop = ap[b].stop
                   \/ m = Stopped(ap) /\ m[b].stop = "halted"
BY DEF Stopped, Apply

(* The watcher hears of a change now or later.                              *)
LEMMA HeardFacts ==
    ASSUME BaseInv, NEW ap \in [Actor -> Apply],
           Written(ap) \/ (apply' = ap /\ UNCHANGED <<token, news>>)
    PROVE  /\ apply' = Stopped(ap) \/ apply' = ap
           /\ token' \in Token /\ news' \in BOOLEAN
BY DEF Written, Raised, BaseInv, FolderTypeOK, Token

(* The applies go on as in ap, with some renders stopped.                   *)
LEMMA HeardKeepsBase ==
    ASSUME BaseInv, VersionsLast, NEW ap \in [Actor -> Apply],
           apply' = Stopped(ap) \/ apply' = ap,
           \A b \in Actor : GroundedNext(ap[b]),
           \A b \in Client : ap[b].at \notin {"begin", "done"},
           ap[Watcher].at = "idle" <=> apply[Watcher].at = "idle",
           file' \in Source, manifest' \in Manifest, IsOfNext(manifest'.of, manifest'.digest),
           drafts' \in [Actor -> Nat], \A b \in Actor : drafts'[b] \in {0} \cup DOMAIN versions',
           LeftFalls, token' \in Token, news' \in BOOLEAN, active' \in BOOLEAN,
           UNCHANGED <<setup, failure, memory>>
    PROVE  BaseInv'
<1>1. /\ apply' \in [Actor -> Apply]
      /\ \A b \in Actor :
            /\ apply'[b].at = ap[b].at /\ apply'[b].src = ap[b].src
            /\ apply'[b].was = ap[b].was /\ apply'[b].draft = ap[b].draft
            /\ apply'[b].preview = ap[b].preview /\ apply'[b].join = ap[b].join
  BY StoppedFacts
<1>2. \A b \in Actor : GroundedNext(apply'[b])
  BY <1>1 DEF GroundedNext
<1>3. /\ \A b \in Client : apply'[b].at \notin {"begin", "done"}
      /\ apply'[Watcher].at = "idle" <=> apply[Watcher].at = "idle"
  BY <1>1 DEF Actor
<1> QED BY <1>1, <1>2, <1>3, AppliesKeepBase

(* The applies stay, but for stopped renders.                               *)
LEMMA StayGrounded ==
    ASSUME BaseInv, VersionsLast
    PROVE  /\ apply \in [Actor -> Apply]
           /\ \A b \in Actor : GroundedNext(apply[b])
           /\ \A b \in Client : apply[b].at \notin {"begin", "done"}
BY StaysGrounded DEF BaseInv, FolderTypeOK

LEMMA DeliverSwitchBase ==
    ASSUME BaseInv, Deliver \/ Switch
    PROVE  BaseInv'
<1>1. /\ VersionsLast /\ UNCHANGED <<setup, file, manifest, failure, memory, drafts>>
      /\ apply' = Stopped(apply) /\ token' = Raised
  BY SameVersionsLast DEF Deliver, Switch, folder
<1>2. /\ token' \in Token /\ news' \in BOOLEAN /\ active' \in BOOLEAN /\ file' \in Source
  BY <1>1 DEF Deliver, Switch, Raised, BaseInv, FolderTypeOK, Token
<1>3. LeftFalls
  <2>1. "switches" \in Kinds
    BY DEF Kinds
  <2>2. UNCHANGED left \/ Spend("switches")
    BY DEF Deliver, Switch
  <2> QED BY <2>1, <2>2, SpendFalls, LeftStays
<1> QED BY <1>1, <1>2, <1>3, StayGrounded, KeptGrounded, HeardKeepsBase

LEMMA EditBase ==
    ASSUME BaseInv, NEW source \in Source, Edit(source)
    PROVE  BaseInv'
<1>1. /\ VersionsLast /\ UNCHANGED <<setup, manifest, failure, memory, drafts>>
      /\ file' \in Source /\ active' \in BOOLEAN
  BY SameVersionsLast DEF Edit, BaseInv, FolderTypeOK
<1>2. apply \in [Actor -> Apply]
  BY DEF BaseInv, FolderTypeOK
<1>3. /\ apply' = Stopped(apply) \/ apply' = apply
      /\ token' \in Token /\ news' \in BOOLEAN
  BY <1>2, HeardFacts DEF Edit
<1>4. LeftFalls
  BY SpendFalls DEF Edit, Kinds
<1> QED BY <1>1, <1>2, <1>3, <1>4, StayGrounded, KeptGrounded, HeardKeepsBase

LEMMA ExportBase ==
    ASSUME BaseInv, Export
    PROVE  BaseInv'
<1>1. /\ VersionsLast /\ UNCHANGED <<setup, failure, memory, drafts>> /\ active' \in BOOLEAN
  BY SameVersionsLast DEF Export, BaseInv, FolderTypeOK
<1>2. apply \in [Actor -> Apply]
  BY DEF BaseInv, FolderTypeOK
<1>3. /\ apply' = Stopped(apply) \/ apply' = apply
      /\ token' \in Token /\ news' \in BOOLEAN
  BY <1>2, HeardFacts DEF Export
<1>4. LeftFalls
  BY SpendFalls DEF Export, Kinds
<1>5. /\ file' \in Source /\ manifest' \in Manifest
      /\ IsOfNext(manifest'.of, manifest'.digest)
  <2>1. versions \in Seq(Version) /\ UNCHANGED versions
    BY DEF BaseInv, FolderTypeOK, Export
  <2>2. Latest \in Nat /\ Latest \in DOMAIN versions /\ versions[Latest].source \in Source
    BY <2>1, LatestFacts, VersionFacts DEF Export
  <2> QED BY <2>1, <2>2 DEF Export, Manifest, IsOfNext
<1> QED BY <1>1, <1>2, <1>3, <1>4, <1>5, StayGrounded, KeptGrounded, HeardKeepsBase

(* A refresh leaves the folder or moves it to the version.                  *)
LEMMA RefreshFacts ==
    ASSUME BaseInv, VersionsLast, NEW v \in Nat, NEW source \in Source, IsOfNext(v, source),
           NEW ap \in [Actor -> Apply], Refresh(v, source, ap)
    PROVE  /\ file' \in Source /\ manifest' \in Manifest
           /\ IsOfNext(manifest'.of, manifest'.digest)
           /\ apply' = Stopped(ap) \/ apply' = ap
           /\ token' \in Token /\ news' \in BOOLEAN
<1>1. CASE /\ file' = source /\ manifest' = [of |-> v, digest |-> source] /\ Written(ap)
  BY <1>1, HeardFacts DEF Manifest
<1>2. CASE apply' = ap /\ UNCHANGED <<folder, token, news>>
  <2>1. UNCHANGED <<file, manifest, token, news>>
    BY <1>2 DEF folder
  <2> QED BY <1>2, <2>1, HeardFacts, KeptGrounded DEF BaseInv, FolderTypeOK
<1> QED BY <1>1, <1>2 DEF Refresh

LEMMA CommitBase ==
    ASSUME BaseInv, NEW source \in Source, Commit(source)
    PROVE  BaseInv' /\ VersionsLast
<1>1. apply \in [Actor -> Apply] /\ active' \in BOOLEAN
  BY DEF Commit, BaseInv, FolderTypeOK
<1>2. PICK v \in Nat : VersionsLast /\ IsOfNext(v, source) /\ Refresh(v, source, apply)
  <2>1. CASE HeadHas(source)
    <3>1. Latest \in Nat \ {0} /\ IsOf(Latest, source) /\ "success" \in Statuses
      BY <2>1, HeadFacts DEF Statuses
    <3>2. versions' = Marked(Latest, "success") /\ Refresh(Latest, source, apply)
      BY <2>1 DEF Commit
    <3>3. VersionsLast
      BY <3>1, <3>2, OwnVersionLasts
    <3> QED BY <3>1, <3>2, <3>3, StaysGrounded
  <2>2. CASE ~HeadHas(source)
    <3>1. versions' = Appended(source, "success", None) /\ Refresh(Len(versions'), source, apply)
      BY <2>2 DEF Commit
    <3>2. "success" \in Statuses /\ None \in Actor \cup {None}
      BY DEF Statuses
    <3>3. /\ VersionsLast /\ Len(versions') \in DOMAIN versions' /\ Len(versions') \in Nat
          /\ versions'[Len(versions')] = [source |-> source, status |-> "success", by |-> None]
      BY <3>1, <3>2, AppendedLasts
    <3>4. IsOfNext(Len(versions'), source)
      BY <3>3 DEF IsOfNext
    <3> QED BY <3>1, <3>3, <3>4
  <2> QED BY <2>1, <2>2
<1>3. /\ file' \in Source /\ manifest' \in Manifest /\ IsOfNext(manifest'.of, manifest'.digest)
      /\ apply' = Stopped(apply) \/ apply' = apply
      /\ token' \in Token /\ news' \in BOOLEAN
  BY <1>1, <1>2, RefreshFacts
<1>4. LeftFalls
  BY SpendFalls DEF Commit, Kinds
<1>5. UNCHANGED <<setup, failure, memory, drafts>>
  BY DEF Commit
<1> QED BY <1>1, <1>2, <1>3, <1>4, <1>5, StayGrounded, KeptGrounded, HeardKeepsBase

LEMMA PublishBase ==
    ASSUME BaseInv, NEW a \in Actor, Publish(a)
    PROVE  BaseInv'
<1> DEFINE q == apply[a]
<1>1. /\ apply \in [Actor -> Apply] /\ q \in Apply /\ Grounded(q) /\ q.at = "publish"
      /\ q.preview \in Nat \ {0} /\ IsOf(q.preview, q.src) /\ q.src \in Source
      /\ q.join = None
  BY ApplyFacts DEF Publish, Grounded, AtRest, WithPreview, Apply
<1>2. VersionsLast /\ LeftFalls
  BY SameVersionsLast, LeftStays DEF Publish
<1>3. CASE /\ apply' = [apply EXCEPT ![a].at = "fail", ![a].result = "conflict"]
           /\ UNCHANGED <<folder, drafts, token, news>>
  <2> DEFINE p == [q EXCEPT !.at = "fail", !.result = "conflict"]
  <2>1. p \in Apply /\ apply' = [apply EXCEPT ![a] = p] /\ Keeps(q, p) /\ p.at = "fail"
    <3>1. apply' = [apply EXCEPT ![a] = p]
      BY <1>1, <1>3
    <3>2. /\ p \in Apply /\ p.at = "fail" /\ p.src = q.src /\ p.was = q.was
          /\ p.draft = q.draft /\ p.preview = q.preview /\ p.join = q.join
      BY <1>1 DEF Apply, BeforePreview
    <3> HIDE DEF p
    <3> QED BY <1>1, <3>1, <3>2 DEF Keeps, AtRest
  <2>2. GroundedNext(p)
    BY <1>1, <1>2, <2>1, KeepsGrounded DEF AtRest, WithPreview
  <2> HIDE DEF p
  <2> QED BY <1>1, <1>2, <1>3, <2>1, <2>2, MoveKeepsBase DEF Publish
<1>4. CASE /\ drafts' = [drafts EXCEPT ![a] = q.preview]
           /\ IF a \in Client
              THEN Refresh(q.preview, q.src, [apply EXCEPT ![a].at = "check"])
              ELSE /\ apply' = [apply EXCEPT ![a].at = "check"]
                   /\ UNCHANGED <<folder, token, news>>
  <2> DEFINE p == [q EXCEPT !.at = "check"]
             ap == [apply EXCEPT ![a] = p]
  <2>1. p \in Apply /\ ap = [apply EXCEPT ![a].at = "check"] /\ Keeps(q, p) /\ p.at = "check"
    BY <1>1 DEF Apply, WithPreview, Keeps, AtRest
  <2>2. GroundedNext(p)
    BY <1>1, <1>2, <2>1, KeepsGrounded DEF AtRest
  <2> HIDE DEF p
  <2>3. ap \in [Actor -> Apply] /\ ap[a] = p /\ \A b \in Actor \ {a} : ap[b] = apply[b]
    BY <1>1, <2>1
  <2>4. /\ \A b \in Actor : GroundedNext(ap[b])
        /\ \A b \in Client : ap[b].at \notin {"begin", "done"}
        /\ ap[Watcher].at = "idle" <=> apply[Watcher].at = "idle"
    BY <1>1, <1>2, <2>1, <2>2, <2>3, StayGrounded DEF Actor
  <2> HIDE DEF ap
  <2>5. /\ file' \in Source /\ manifest' \in Manifest
        /\ IsOfNext(manifest'.of, manifest'.digest)
        /\ apply' = Stopped(ap) \/ apply' = ap
        /\ token' \in Token /\ news' \in BOOLEAN
    <3>1. CASE Refresh(q.preview, q.src, ap)
      <4>1. IsOfNext(q.preview, q.src)
        BY <1>1, <1>2, StaysGrounded
      <4> QED BY <1>1, <1>2, <2>3, <3>1, <4>1, RefreshFacts
    <3>2. CASE apply' = ap /\ UNCHANGED <<folder, token, news>>
      <4>1. UNCHANGED <<file, manifest, token, news>>
        BY <3>2 DEF folder
      <4> QED BY <1>2, <2>3, <3>2, <4>1, KeptGrounded DEF BaseInv, FolderTypeOK, Token
    <3> QED BY <1>4, <2>1, <3>1, <3>2
  <2>6. /\ drafts' \in [Actor -> Nat]
        /\ \A b \in Actor : drafts'[b] \in {0} \cup DOMAIN versions'
    BY <1>1, <1>2, <1>4 DEF BaseInv, FolderTypeOK, VersionsLast, IsOf
  <2>7. UNCHANGED <<setup, failure, memory>> /\ active' \in BOOLEAN
    BY DEF Publish, BaseInv, FolderTypeOK
  <2> QED BY <1>2, <2>3, <2>4, <2>5, <2>6, <2>7, HeardKeepsBase
<1> QED BY <1>3, <1>4 DEF Publish

LEMMA LeaveBase ==
    ASSUME BaseInv, NEW a \in Actor, Leave(a)
    PROVE  BaseInv'
<1> DEFINE m == Answered(a, "dropped")
<1>1. /\ m \in [Actor -> Apply]
      /\ \A b \in Actor \ {a} :
            \/ m[b] = apply[b]
            \/ /\ apply[b].at = "rendering"
               /\ m[b].at \in {"find", "fail"} /\ m[b].join = None
               /\ m[b].src = apply[b].src /\ m[b].was = apply[b].was
               /\ m[b].draft = apply[b].draft
               /\ m[b].preview = apply[b].preview
  BY AnsweredFacts
<1> HIDE DEF m
<1>2. apply' = [m EXCEPT ![a] = Idle] /\ a \in Client /\ a # Watcher
  BY FolderAssumption DEF Leave, m
<1>3. /\ apply' \in [Actor -> Apply] /\ apply'[a] = Idle
      /\ \A b \in Actor \ {a} : apply'[b] = m[b]
  BY <1>1, <1>2, RestFacts
<1>4. VersionsLast /\ LeftFalls
  <2>1. UNCHANGED versions /\ Spend("leaves") /\ "leaves" \in Kinds
    BY DEF Leave, Kinds
  <2> QED BY <2>1, SameVersionsLast, SpendFalls
<1>5. \A b \in Actor : GroundedNext(apply'[b])
  <2>1. ASSUME NEW b \in Actor \ {a} PROVE GroundedNext(apply'[b])
    <3>1. Carries(b)
      BY <1>1, <1>3 DEF Carries
    <3> QED BY <1>4, <3>1, ApplyFacts, CarriesGrounded
  <2>2. GroundedNext(apply'[a])
    BY <1>3 DEF GroundedNext, Idle, AtRest, WithPreview
  <2> QED BY <2>1, <2>2
<1>6. /\ \A b \in Client : apply'[b].at \notin {"begin", "done"}
      /\ apply'[Watcher].at = "idle" <=> apply[Watcher].at = "idle"
  <2>1. \A b \in Actor \ {a} :
          \/ apply'[b].at = apply[b].at
          \/ apply[b].at = "rendering" /\ apply'[b].at \in {"find", "fail"}
    BY <1>1, <1>3
  <2>2. apply'[a].at = "idle"
    BY <1>3 DEF Idle
  <2> QED BY <1>2, <2>1, <2>2 DEF BaseInv, Actor
<1>7. /\ UNCHANGED <<setup, file, manifest, failure, memory, drafts, active, token, news>>
      /\ file \in Source /\ token \in Token /\ news \in BOOLEAN /\ active \in BOOLEAN
  BY DEF Leave, folder, BaseInv, FolderTypeOK, Token
<1> QED BY <1>3, <1>4, <1>5, <1>6, <1>7, KeptGrounded, AppliesKeepBase

LEMMA RestartBase ==
    ASSUME BaseInv, Restart
    PROVE  BaseInv'
<1>1. /\ VersionsLast /\ LeftFalls
      /\ UNCHANGED <<setup, file, manifest, versions, failure, drafts, active>>
  BY SameVersionsLast, SpendFalls DEF Restart, folder, Kinds
<1>2. /\ apply' \in [Actor -> Apply] /\ memory' \in Memory /\ token' \in Token
      /\ news' \in BOOLEAN
  BY RestFacts DEF Restart, Rest, Memory, Off, Token, Contents
<1>3. \A b \in Actor : apply'[b] = Idle
  BY DEF Restart
<1>4. \A b \in Actor : GroundedNext(apply'[b])
  BY <1>3 DEF GroundedNext, Idle, AtRest, WithPreview
<1>5. FolderTypeOK'
  BY <1>1, <1>2, LeftBound DEF BaseInv, FolderTypeOK, Token
<1>6. /\ \A b \in Client : apply'[b].at \notin {"begin", "done"}
      /\ memory'.pc # "idle" => memory'.seen \in Source
      /\ memory'.pc = "apply" <=> apply'[Watcher].at # "idle"
  BY <1>3 DEF Restart, Rest, Idle, Actor
<1> QED BY <1>1, <1>4, <1>5, <1>6, KeptGrounded, NextFacts DEF BaseInv

LEMMA InitBase == Init => BaseInv
<1> SUFFICES ASSUME Init PROVE BaseInv
  OBVIOUS
<1>1. versions \in Seq(Version) /\ DOMAIN versions = {1} /\ versions[1].source = Initial
  BY FolderAssumption DEF Init, Version, Statuses
<1>2. /\ apply \in [Actor -> Apply] /\ memory \in Memory /\ token \in Token
      /\ \A b \in Actor : apply[b] = Idle
  BY RestFacts DEF Init, Rest, Memory, Off, Token, Contents
<1>3. left \in [Kinds -> Nat] /\ \A k \in Kinds : left[k] <= setup.left[k]
  BY SetupAssumption DEF Init, SetupType, Kinds
<1>4. FolderTypeOK
  BY <1>1, <1>2, <1>3, FolderAssumption DEF Init, FolderTypeOK, Manifest, Contents, Token
<1>5. IsOf(manifest.of, manifest.digest)
  BY <1>1 DEF Init, IsOf
<1>6. \A b \in Actor : Grounded(apply[b])
  BY <1>2 DEF Grounded, Idle, AtRest, WithPreview
<1>7. /\ \A b \in Client : apply[b].at \notin {"begin", "done"}
      /\ memory.pc # "idle" => memory.seen \in Source
      /\ memory.pc = "apply" <=> apply[Watcher].at # "idle"
      /\ \A a \in Actor : drafts[a] \in {0} \cup DOMAIN versions
  BY <1>2 DEF Init, Rest, Idle, Actor
<1> QED BY <1>4, <1>5, <1>6, <1>7 DEF BaseInv

-----------------------------------------------------------------------------
(* The watcher's tick *)

(* A tick moves the watcher's memory and what follows from it.              *)
LEMMA TickKeepsBase ==
    ASSUME BaseInv, manifest' \in Manifest, IsOf(manifest'.of, manifest'.digest),
           failure' \in Contents, memory' \in Memory, token' \in Token,
           memory'.pc # "idle" => memory'.seen \in Source,
           apply' \in [Actor -> Apply], \A b \in Actor : Grounded(apply'[b]),
           \A b \in Client : apply'[b].at \notin {"begin", "done"},
           memory'.pc = "apply" <=> apply'[Watcher].at # "idle",
           UNCHANGED <<setup, file, versions, drafts, news, active, left>>
    PROVE  BaseInv'
<1>1. VersionsLast /\ LeftFalls
  BY SameVersionsLast, LeftStays
<1>2. FolderTypeOK'
  BY <1>1, LeftBound DEF BaseInv, FolderTypeOK, Token
<1>3. /\ IsOfNext(manifest'.of, manifest'.digest)
      /\ \A b \in Actor : GroundedNext(apply'[b])
      /\ \A b \in Actor : drafts'[b] \in {0} \cup DOMAIN versions'
  BY <1>1, StaysGrounded DEF BaseInv
<1> QED BY <1>2, <1>3, NextFacts DEF BaseInv

(* The case of one without an apply.                                        *)
LEMMA WatchKeepsBase ==
    ASSUME BaseInv, manifest' \in Manifest, IsOf(manifest'.of, manifest'.digest),
           failure' \in Contents, memory' \in Memory,
           memory'.pc # "idle" => memory'.seen \in Source,
           memory.pc # "apply", memory'.pc # "apply",
           UNCHANGED <<setup, file, versions, apply, drafts, token, news, active, left>>
    PROVE  BaseInv'
<1>1. /\ token' \in Token /\ apply' \in [Actor -> Apply]
      /\ \A b \in Actor : Grounded(apply'[b])
      /\ \A b \in Client : apply'[b].at \notin {"begin", "done"}
      /\ memory'.pc = "apply" <=> apply'[Watcher].at # "idle"
  BY DEF BaseInv, FolderTypeOK, Token
<1> QED BY <1>1, TickKeepsBase

(* The repaired manifest is of its version.                                 *)
LEMMA RepairedFacts ==
    ASSUME BaseInv
    PROVE  /\ Repaired \in Manifest /\ IsOf(Repaired.of, Repaired.digest)
           /\ manifest \in Manifest /\ IsOf(manifest.of, manifest.digest)
<1> DEFINE good == {v \in DOMAIN versions : Succeeded(v)}
           n == Newest(good)
<1>1. /\ versions \in Seq(Version) /\ Len(versions) \in Nat
      /\ DOMAIN versions = 1 .. Len(versions)
      /\ manifest \in Manifest /\ IsOf(manifest.of, manifest.digest)
  BY VersionFacts DEF BaseInv, FolderTypeOK
<1>2. good \in SUBSET (1 .. Len(versions))
  BY <1>1
<1> HIDE DEF good
<1>3. good # {} => n \in good
  BY <1>1, <1>2, NewestFacts
<1>4. Repaired = IF Succeeded(manifest.of) \/ good = {} THEN manifest
                 ELSE [of |-> n, digest |-> versions[n].source]
  BY DEF Repaired, good
<1> HIDE DEF n
<1>5. good # {} => n \in DOMAIN versions /\ n \in Nat /\ versions[n].source \in Source
  BY <1>1, <1>2, <1>3, VersionFacts
<1> QED BY <1>1, <1>4, <1>5 DEF Manifest, IsOf

(* The memory after a verdict, and as it is moved otherwise.                *)
Gave(x) == [Rest EXCEPT !.failed = x]
Moved(pc, x, y) == [memory EXCEPT !.pc = pc, !.seen = x, !.pending = y]
Lit(m) == [m EXCEPT !.activity = TRUE]
Dark(m) == [m EXCEPT !.activity = FALSE]
Is(m, pc, seen, failed) == m \in Memory /\ m.pc = pc /\ m.seen = seen /\ m.failed = failed

LEMMA MemoryFacts ==
    ASSUME memory \in Memory
    PROVE  /\ Is(Rest, "idle", None, None)
           /\ \A x \in Contents : Is(Gave(x), "idle", None, x)
           /\ \A pc \in {"idle", "judge", "settled", "apply"}, x \in Contents, y \in Contents :
                /\ Is(Moved(pc, x, y), pc, x, memory.failed)
                /\ Is(Lit(Moved(pc, x, y)), pc, x, memory.failed)
                /\ Is(Dark(Moved(pc, x, y)), pc, x, memory.failed)
<1>1. Is(Rest, "idle", None, None)
  BY DEF Memory, Rest, Contents, Is
<1>2. ASSUME NEW x \in Contents
      PROVE  Is(Gave(x), "idle", None, x)
  BY <1>1 DEF Memory, Rest, Gave, Is
<1>3. ASSUME NEW pc \in {"idle", "judge", "settled", "apply"}, NEW x \in Contents,
             NEW y \in Contents
      PROVE  /\ Is(Moved(pc, x, y), pc, x, memory.failed)
             /\ Is(Lit(Moved(pc, x, y)), pc, x, memory.failed)
             /\ Is(Dark(Moved(pc, x, y)), pc, x, memory.failed)
  <2>1. Is(Moved(pc, x, y), pc, x, memory.failed)
    BY DEF Memory, Moved, Is
  <2> QED BY <2>1 DEF Memory, Lit, Dark, Is
<1> QED BY <1>1, <1>2, <1>3

(* What a tick makes of the memory.                                         *)
LEMMA MemoryMoves ==
    ASSUME BaseInv, Tick
    PROVE  /\ memory' \in Memory
           /\ memory'.failed \in {memory.failed, None, failure, memory.seen}
           /\ Ignore => memory'.pc = "idle" /\ memory'.failed = memory.failed
           /\ Look => /\ memory'.failed \in {memory.failed, None, failure}
                      /\ \/ memory'.pc = "idle"
                         \/ memory'.pc = "judge" /\ memory'.seen = file
           /\ Judge => \/ memory'.pc = "idle"
                       \/ memory'.pc = "settled" /\ memory'.seen = memory.seen
           /\ Settle => \/ file # memory.seen /\ memory'.pc = "idle"
                        \/ /\ file = memory.seen
                           /\ memory'.pc = "apply" /\ memory'.seen = memory.seen
           /\ Conclude => memory'.pc = "idle"
<1>1. /\ file \in Source /\ failure \in Contents /\ memory \in Memory
      /\ memory.seen \in Contents /\ memory.pending \in Contents
      /\ memory.pc \in {"idle", "judge", "settled", "apply"}
      /\ memory.activity \in BOOLEAN /\ file \in Contents /\ None \in Contents
  BY DEF BaseInv, FolderTypeOK, Memory, Contents
<1>2. /\ \A pc : [memory EXCEPT !.pc = pc] = Moved(pc, memory.seen, memory.pending)
      /\ \A pc, x : [memory EXCEPT !.pc = pc, !.seen = x] = Moved(pc, x, memory.pending)
      /\ \A pc, x, y : [memory EXCEPT !.pc = pc, !.seen = x, !.pending = y] = Moved(pc, x, y)
      /\ [memory EXCEPT !.pending = None, !.activity = FALSE]
            = Dark(Moved(memory.pc, memory.seen, None))
      /\ [memory EXCEPT !.pc = "idle", !.seen = None, !.pending = memory.seen, !.activity = TRUE]
            = Lit(Moved("idle", None, memory.seen))
  BY <1>1 DEF Memory, Moved, Lit, Dark
<1>3. /\ Is(Dark(Moved("idle", memory.seen, None)), "idle", memory.seen, memory.failed)
      /\ Is(Moved("judge", file, memory.pending), "judge", file, memory.failed)
      /\ Is(Moved("settled", memory.seen, memory.pending), "settled", memory.seen, memory.failed)
      /\ Is(Lit(Moved("idle", None, memory.seen)), "idle", None, memory.failed)
      /\ Is(Moved("idle", None, file), "idle", None, memory.failed)
      /\ Is(Moved("idle", None, None), "idle", None, memory.failed)
      /\ Is(Moved("apply", memory.seen, memory.pending), "apply", memory.seen, memory.failed)
  BY <1>1, MemoryFacts
<1>4. /\ Is(Rest, "idle", None, None) /\ Is(memory, memory.pc, memory.seen, memory.failed)
      /\ Is(Gave(file), "idle", None, file) /\ Is(Gave(memory.seen), "idle", None, memory.seen)
  <2>1. Is(memory, memory.pc, memory.seen, memory.failed)
    BY <1>1 DEF Is
  <2> QED BY <1>1, <2>1, MemoryFacts
<1>5. CASE Ignore
  <2>1. memory.pc = "idle" /\ memory' = Dark(Moved("idle", memory.seen, None))
    BY <1>2, <1>5 DEF Ignore
  <2>2. memory' \in Memory /\ memory'.pc = "idle" /\ memory'.failed = memory.failed
    BY <1>3, <2>1 DEF Is
  <2> QED BY <1>5, <2>1, <2>2 DEF Ignore, Look, Judge, Settle, Conclude
<1>6. CASE Look
  <2>1. memory.pc = "idle"
    BY <1>6 DEF Look
  <2>2. \/ memory' = Rest
        \/ memory' = memory
        \/ memory' = Gave(file) /\ file = failure
        \/ memory' = Moved("judge", file, memory.pending)
    BY <1>2, <1>6 DEF Look, Gave
  <2>3. /\ memory' \in Memory /\ memory'.failed \in {memory.failed, None, failure}
        /\ \/ memory'.pc = "idle"
           \/ memory'.pc = "judge" /\ memory'.seen = file
    BY <1>3, <1>4, <2>1, <2>2 DEF Is
  <2> QED BY <1>6, <2>1, <2>3 DEF Ignore, Look, Judge, Settle, Conclude
<1>7. CASE Judge
  <2>1. \/ memory' = Rest
        \/ memory' = Gave(memory.seen)
        \/ memory' = Moved("settled", memory.seen, memory.pending)
        \/ memory' = Lit(Moved("idle", None, memory.seen))
    <3>1. CASE ~KnownGood /\ ~KnownBad
      <4>1. [memory EXCEPT !.pc = "idle", !.seen = None, !.pending = memory.seen, !.activity = TRUE]
              = Lit(Moved("idle", None, memory.seen))
        BY <1>2
      <4>2. [memory EXCEPT !.pc = "settled"] = Moved("settled", memory.seen, memory.pending)
        BY <1>2
      <4>3. memory' = IF memory.pending = memory.seen
                      THEN [memory EXCEPT !.pc = "settled"]
                      ELSE [memory EXCEPT !.pc = "idle", !.seen = None,
                                          !.pending = memory.seen, !.activity = TRUE]
        BY <1>7, <3>1 DEF Judge
      <4> QED BY <4>1, <4>2, <4>3
    <3> QED BY <1>7, <3>1 DEF Judge, Gave
  <2>2. /\ memory' \in Memory /\ memory'.failed \in {memory.failed, None, memory.seen}
        /\ \/ memory'.pc = "idle"
           \/ memory'.pc = "settled" /\ memory'.seen = memory.seen
    BY <1>3, <1>4, <2>1 DEF Is
  <2> QED BY <1>7, <2>2 DEF Ignore, Look, Judge, Settle, Conclude
<1>8. CASE Settle
  <2>1. \/ file # memory.seen /\ memory' = Moved("idle", None, file)
        \/ /\ file = memory.seen
           /\ memory' = Moved("apply", memory.seen, memory.pending)
    BY <1>2, <1>8 DEF Settle
  <2>2. /\ memory' \in Memory /\ memory'.failed = memory.failed
        /\ \/ file # memory.seen /\ memory'.pc = "idle"
           \/ file = memory.seen /\ memory'.pc = "apply" /\ memory'.seen = memory.seen
    BY <1>3, <2>1 DEF Is
  <2> QED BY <1>8, <2>2 DEF Ignore, Look, Judge, Settle, Conclude
<1>9. CASE Conclude
  <2>1. \/ memory' = Rest
        \/ memory' = Gave(memory.seen)
        \/ memory' = Moved("idle", None, file)
        \/ memory' = Moved("idle", None, None)
    BY <1>2, <1>9 DEF Conclude, Gave
  <2>2. /\ memory' \in Memory /\ memory'.pc = "idle"
        /\ memory'.failed \in {memory.failed, None, memory.seen}
    BY <1>3, <1>4, <2>1 DEF Is
  <2> QED BY <1>9, <2>2 DEF Ignore, Look, Judge, Settle, Conclude
<1> QED BY <1>5, <1>6, <1>7, <1>8, <1>9 DEF Tick

LEMMA TickBase ==
    ASSUME BaseInv, Tick
    PROVE  BaseInv'
<1>1. /\ file \in Source /\ failure \in Contents /\ memory \in Memory
      /\ memory.pc # "idle" => memory.seen \in Source
      /\ memory.seen \in Contents /\ None \in Contents /\ memory' \in Memory
  BY MemoryMoves DEF BaseInv, FolderTypeOK, Memory, Contents
<1>2. CASE Ignore
  <2>1. memory'.pc = "idle" /\ memory.pc = "idle"
    BY <1>2, MemoryMoves DEF Ignore
  <2> QED BY <1>1, <1>2, <2>1, RepairedFacts, WatchKeepsBase DEF Ignore, folder
<1>3. CASE Look
  <2>1. /\ failure' \in Contents /\ memory.pc = "idle"
        /\ memory'.pc \in {"idle", "judge"}
        /\ memory'.pc # "idle" => memory'.seen = file
    BY <1>1, <1>3, MemoryMoves DEF Look
  <2> QED BY <1>1, <1>3, <2>1, RepairedFacts, WatchKeepsBase DEF Look
<1>4. CASE Judge
  <2>1. memory.pc = "judge" /\ memory.seen \in Source
    BY <1>1, <1>4 DEF Judge
  <2>2. /\ failure' \in Contents
        /\ memory'.pc \in {"idle", "settled"}
        /\ memory'.pc # "idle" => memory'.seen = memory.seen
    <3>1. \/ memory'.pc = "idle"
          \/ memory'.pc = "settled" /\ memory'.seen = memory.seen
      BY <1>4, MemoryMoves
    <3> QED BY <1>1, <1>4, <3>1 DEF Judge
  <2>3. manifest' \in Manifest /\ IsOf(manifest'.of, manifest'.digest)
    <3>1. CASE KnownGood /\ manifest' = [of |-> Latest, digest |-> memory.seen]
      BY <2>1, <3>1, HeadFacts DEF KnownGood, HeadIs, Manifest
    <3>2. CASE UNCHANGED manifest
      BY <3>2, RepairedFacts
    <3> QED BY <1>4, <3>1, <3>2 DEF Judge
  <2>4. /\ memory.pc # "apply" /\ memory'.pc # "apply"
        /\ memory'.pc # "idle" => memory'.seen \in Source
    BY <2>1, <2>2
  <2>5. UNCHANGED <<setup, file, versions, apply, drafts, token, news, active, left>>
    BY <1>4 DEF Judge
  <2> QED BY <1>1, <2>2, <2>3, <2>4, <2>5, WatchKeepsBase
<1>5. CASE Settle
  <2>1. CASE file # memory.seen
    <3>1. memory'.pc = "idle" /\ memory.pc # "apply" /\ memory'.pc # "apply"
      <4>1. memory'.pc = "idle"
        BY <1>5, <2>1, MemoryMoves
      <4> QED BY <1>5, <4>1 DEF Settle
    <3>2. UNCHANGED <<setup, file, manifest, versions, failure, apply, drafts, token, news, active,
                      left>>
      BY <1>5, <2>1 DEF Settle, folder
    <3> QED BY <1>1, <3>1, <3>2, RepairedFacts, WatchKeepsBase
  <2>2. CASE file = memory.seen
    <3> DEFINE p == [apply[Watcher] EXCEPT !.at = "begin"]
    <3>1. /\ memory'.pc = "apply" /\ memory'.seen \in Source /\ token' \in Token
      <4>1. memory'.pc = "apply" /\ memory'.seen = memory.seen
        BY <1>5, <2>2, MemoryMoves
      <4>2. token' = [on |-> TRUE, source |-> file, raised |-> FALSE]
        BY <1>5, <2>2 DEF Settle
      <4> QED BY <1>1, <2>2, <4>1, <4>2 DEF Token, Contents
    <3>2. /\ apply \in [Actor -> Apply] /\ Watcher \in Actor /\ apply[Watcher] \in Apply
          /\ Grounded(apply[Watcher]) /\ apply[Watcher].at = "idle"
      BY <1>5, ApplyFacts DEF Settle, BaseInv, Actor
    <3>3. p \in Apply /\ apply' = [apply EXCEPT ![Watcher] = p] /\ p.at = "begin" /\ Grounded(p)
      BY <1>5, <2>2, <3>2 DEF Settle, Apply, AtRest, Grounded, WithPreview
    <3> HIDE DEF p
    <3>4. /\ apply' \in [Actor -> Apply] /\ apply'[Watcher] = p
          /\ \A b \in Actor \ {Watcher} : apply'[b] = apply[b]
      BY <3>2, <3>3
    <3>5. /\ \A b \in Actor : Grounded(apply'[b])
          /\ \A b \in Client : apply'[b].at \notin {"begin", "done"}
      BY <3>3, <3>4, FolderAssumption DEF BaseInv, Actor
    <3>6. UNCHANGED <<setup, file, manifest, versions, failure, drafts, news, active, left>>
      BY <1>5 DEF Settle, folder
    <3> QED BY <1>1, <3>1, <3>3, <3>4, <3>5, <3>6, RepairedFacts, TickKeepsBase
  <2> QED BY <2>1, <2>2
<1>6. CASE Conclude
  <2>1. /\ memory'.pc = "idle" /\ failure' \in Contents /\ token' \in Token
    BY <1>1, <1>6, MemoryMoves DEF Conclude, Off, Token
  <2>2. /\ apply \in [Actor -> Apply] /\ \A b \in Actor : Grounded(apply[b])
    BY DEF BaseInv, FolderTypeOK
  <2>3. apply'[Watcher] = Idle /\ apply' \in [Actor -> Apply]
        /\ \A b \in Actor \ {Watcher} : apply'[b] \in {apply[b], [apply[b] EXCEPT !.stop = "free"]}
    <3>1. apply' = [b \in Actor |-> IF b = Watcher THEN Idle
                                    ELSE IF apply[b].stop = "linked"
                                         THEN [apply[b] EXCEPT !.stop = "free"] ELSE apply[b]]
      BY <1>6 DEF Conclude
    <3>2. \A b \in Actor : [apply[b] EXCEPT !.stop = "free"] \in Apply
      BY <2>2 DEF Apply
    <3> QED BY <2>2, <3>1, <3>2, RestFacts DEF Actor
  <2>4. ASSUME NEW b \in Actor \ {Watcher}
        PROVE  Grounded(apply'[b]) /\ apply'[b].at = apply[b].at
    <3>1. apply[b] \in Apply /\ Grounded(apply[b])
      BY <2>2
    <3> QED BY <2>3, <3>1 DEF Grounded, Apply
  <2>5. Grounded(apply'[Watcher]) /\ apply'[Watcher].at = "idle"
    BY <2>3 DEF Grounded, Idle, AtRest, WithPreview
  <2>6. /\ \A b \in Actor : Grounded(apply'[b])
        /\ \A b \in Client : apply'[b].at \notin {"begin", "done"}
    BY <2>4, <2>5, FolderAssumption DEF BaseInv, Actor
  <2>7. UNCHANGED <<setup, file, manifest, versions, drafts, news, active, left>>
    BY <1>6 DEF Conclude, folder
  <2> QED BY <1>1, <2>1, <2>3, <2>5, <2>6, <2>7, RepairedFacts, TickKeepsBase
<1> QED BY <1>2, <1>3, <1>4, <1>5, <1>6 DEF Tick

-----------------------------------------------------------------------------
(* What holds whatever happens *)

LEMMA WorkBase ==
    ASSUME BaseInv, NEW a \in Actor, Work(a)
    PROVE  BaseInv' /\ VersionsLast
<1>1. CASE AppendDraft(a) \/ Fail(a) \/ Save(a) \/ Accept(a) \/ Rollback(a)
  BY <1>1, AppendDraftBase, FailBase, SaveBase, AcceptBase, RollbackBase
<1>2. CASE MarkWorking(a) \/ Check(a) \/ Verify(a)
  BY <1>2, MarkCheckVerifyBase
<1>3. CASE Render(a) \/ Complete(a) \/ Find(a) \/ Publish(a)
  <2>1. UNCHANGED versions
    BY <1>3 DEF Render, Complete, Find, Publish
  <2> QED BY <1>3, <2>1, RenderBase, CompleteBase, FindBase, PublishBase, SameVersionsLast
<1> QED BY <1>1, <1>2, <1>3 DEF Work

LEMMA StepBase == BaseInv /\ [Next]_vars => BaseInv'
<1> SUFFICES ASSUME BaseInv, [Next]_vars PROVE BaseInv'
  OBVIOUS
<1>1. CASE Tick
  BY <1>1, TickBase
<1>2. CASE Deliver \/ Switch
  BY <1>2, DeliverSwitchBase
<1>3. CASE \E a \in Actor : Begin(a) \/ Work(a) \/ Breaks(a) \/ Leave(a)
  BY <1>3, BeginBase, WorkBase, BreaksBase, LeaveBase
<1>4. CASE \E source \in Source : Edit(source) \/ Commit(source)
  BY <1>4, EditBase, CommitBase
<1>5. CASE Export
  BY <1>5, ExportBase
<1>6. CASE Restart
  BY <1>6, RestartBase
<1>7. CASE UNCHANGED vars
  BY <1>7 DEF vars, BaseInv, FolderTypeOK, IsOf, Grounded
<1> QED BY <1>1, <1>2, <1>3, <1>4, <1>5, <1>6, <1>7 DEF Next

(* The types of the state; every version that the manifest, a draft or a    *)
(* preview names is one of its content.                                     *)
THEOREM FolderBase == Spec => []BaseInv
<1> QED BY InitBase, StepBase, PTL DEF Spec

-----------------------------------------------------------------------------
(* Versions that succeeded *)

Taken(v) == Succeeded(v) /\ versions'[v].status # "success"

(* A mark takes a success back from its own row only, an append from none.  *)
LEMMA MarkTakes ==
    ASSUME BaseInv, NEW u \in DOMAIN versions, NEW status \in Statuses,
           versions' = Marked(u, status), NEW v \in DOMAIN versions, Taken(v)
    PROVE  v = u /\ status # "success"
BY MarkedFacts DEF Taken, Succeeded, BaseInv, FolderTypeOK

LEMMA AppendTakesNone ==
    ASSUME BaseInv, NEW source \in Source, NEW status \in Statuses,
           NEW by \in Actor \cup {None}, versions' = Appended(source, status, by),
           NEW v \in DOMAIN versions
    PROVE  ~Taken(v)
<1>1. \A u \in DOMAIN versions : versions'[u] = versions[u]
  BY AppendedLasts
<1> QED BY <1>1 DEF Taken, Succeeded

(* Some apply of this content has the version for its draft or preview.     *)
Used(v) == \E a \in Actor : /\ apply[a].src = versions[v].source
                            /\ v \in {apply[a].draft, apply[a].preview}

LEMMA WorkTakes ==
    ASSUME BaseInv, NEW a \in Actor, Work(a), NEW v \in DOMAIN versions, Taken(v)
    PROVE  Used(v)
<1> DEFINE q == apply[a]
<1>1. /\ Grounded(q) /\ q.draft \in Nat /\ q.preview \in Nat
      /\ q.draft # 0 => q.draft \in DOMAIN versions /\ versions[q.draft].source = q.src
      /\ q.preview # 0 => q.preview \in DOMAIN versions /\ versions[q.preview].source = q.src
      /\ q.at \notin AtRest => q.src \in Source
      /\ q.at \notin AtRest \cup {"append"} => q.draft # 0
      /\ q.at \in WithPreview => q.preview # 0
  BY ApplyFacts DEF Grounded, IsOf, Apply
<1>2. /\ "working" \in Statuses /\ "success" \in Statuses /\ "error" \in Statuses
      /\ "deleted" \in Statuses /\ a \in Actor \cup {None}
  BY DEF Statuses
<1>3. versions' # versions
  BY DEF Taken, Succeeded
<1>4. CASE AppendDraft(a)
  <2>1. versions' = Appended(q.src, "working", a) /\ q.src \in Source
    BY <1>1, <1>3, <1>4 DEF AppendDraft, AtRest
  <2> QED BY <1>2, <2>1, AppendTakesNone
<1>5. CASE Fail(a)
  <2>1. PICK status \in Statuses : versions' = Marked(q.draft, status)
    BY <1>2, <1>3, <1>5 DEF Fail
  <2>2. q.draft \in DOMAIN versions /\ versions[q.draft].source = q.src
    BY <1>1, <1>5 DEF Fail, AtRest
  <2> QED BY <2>1, <2>2, MarkTakes DEF Used
<1>6. CASE Save(a)
  <2>1. q.src \in Source /\ q.draft \in DOMAIN versions
    BY <1>1, <1>6 DEF Save, AtRest
  <2>2. CASE versions' = Marked(q.draft, "success")
    BY <1>2, <2>1, <2>2, MarkTakes
  <2>3. CASE versions' = Appended(q.src, "success", a)
    BY <1>2, <2>1, <2>3, AppendTakesNone
  <2> QED BY <1>6, <2>2, <2>3 DEF Save
<1>7. CASE MarkWorking(a) \/ Verify(a) \/ Accept(a) \/ Rollback(a)
  <2>1. PICK status \in Statuses : versions' = Marked(q.preview, status)
    BY <1>2, <1>3, <1>7 DEF MarkWorking, Verify, Accept, Rollback
  <2>2. q.preview \in DOMAIN versions /\ versions[q.preview].source = q.src
    BY <1>1, <1>7 DEF MarkWorking, Verify, Accept, Rollback, WithPreview
  <2> QED BY <2>1, <2>2, MarkTakes DEF Used
<1>8. CASE Render(a) \/ Complete(a) \/ Find(a) \/ Publish(a) \/ Check(a)
  BY <1>3, <1>8 DEF Render, Complete, Find, Publish, Check
<1> QED BY <1>4, <1>5, <1>6, <1>7, <1>8 DEF Work

LEMMA BreaksTakes ==
    ASSUME BaseInv, NEW a \in Actor, Breaks(a), NEW v \in DOMAIN versions, Taken(v)
    PROVE  Used(v)
<1>1. versions' # versions /\ "deleted" \in Statuses
  BY DEF Taken, Succeeded, Statuses
<1>2. apply[a].at = "rollback" /\ versions' = Marked(apply[a].preview, "deleted")
  BY <1>1 DEF Breaks
<1>3. apply[a].preview \in DOMAIN versions /\ versions[apply[a].preview].source = apply[a].src
  BY <1>2, ApplyFacts DEF Grounded, IsOf, WithPreview
<1> QED BY <1>1, <1>2, <1>3, MarkTakes DEF Used

LEMMA StepTakes ==
    ASSUME BaseInv, [Next]_vars, NEW v \in DOMAIN versions, Taken(v)
    PROVE  Used(v)
<1>1. versions' # versions
  BY DEF Taken, Succeeded
<1>2. CASE \E a \in Actor : Begin(a) \/ Work(a) \/ Breaks(a) \/ Leave(a)
  BY <1>1, <1>2, WorkTakes, BreaksTakes DEF Begin, Leave
<1>3. CASE \E source \in Source : Edit(source) \/ Commit(source)
  <2>1. PICK source \in Source : Commit(source)
    BY <1>1, <1>3 DEF Edit
  <2>2. "success" \in Statuses /\ None \in Actor \cup {None}
    BY DEF Statuses
  <2>3. CASE HeadHas(source)
    <3>1. versions' = Marked(Latest, "success") /\ Latest \in DOMAIN versions
      BY <2>1, <2>3, HeadFacts DEF Commit, Live
    <3> QED BY <2>2, <3>1, MarkTakes
  <2>4. CASE ~HeadHas(source)
    BY <2>1, <2>2, <2>4, AppendTakesNone DEF Commit
  <2> QED BY <2>3, <2>4
<1>4. CASE Tick \/ Deliver \/ Export \/ Switch \/ Restart \/ UNCHANGED vars
  BY <1>1, <1>4 DEF Tick, Ignore, Look, Judge, Settle, Conclude, Deliver, Export, Switch,
                    Restart, vars
<1> QED BY <1>2, <1>3, <1>4 DEF Next

(* However the applies of the watcher and the clients interleave, a version *)
(* that succeeded is taken back only by an apply of its own content that    *)
(* uses it (handle_project_folder_apply, rollback_project_folder_preview).  *)
THEOREM SuccessIsKept == Spec => AcceptedIsKept
<1>1. BaseInv /\ [Next]_vars =>
        [\A v \in DOMAIN versions :
           Succeeded(v) /\ versions'[v].status # "success" =>
             \E a \in Actor : /\ apply[a].src = versions[v].source
                              /\ v \in {apply[a].draft, apply[a].preview}]_vars
  BY StepTakes DEF Taken, Used
<1> QED BY <1>1, FolderBase, PTL DEF Spec, AcceptedIsKept

-----------------------------------------------------------------------------
(* Where no client applies and nothing has failed yet *)

Waits(v) == v \in DOMAIN versions /\ versions[v].status = "working"
IsLive(v) == v \in DOMAIN versions /\ versions[v].status # "deleted"

(* The places where an apply has a draft that its failure would end.        *)
Early == {"render", "rendering", "fail", "find"}

(* What the watcher's apply knows of its versions. A draft that it does not *)
(* own waits for nobody; a draft that is not the preview either does not    *)
(* wait or has been replaced; and what was verified waits no more.          *)
OwnVersions(p) ==
    /\ p.at \in BeforePreview => p.preview = 0
    /\ p.at = "append" => p.draft = 0
    /\ p.at \in Early /\ ~p.owns => ~Waits(p.draft)
    /\ p.at \in WithPreview =>
          /\ IsLive(p.preview)
          /\ \/ p.draft = p.preview
             \/ ~Waits(p.draft)
             \/ Superseded(p.draft)
    /\ p.at \in {"checkAgain", "accept"} => ~Waits(p.preview)

Held(p) ==
    \A v \in DOMAIN versions : Waits(v) =>
        \/ v \in {p.draft, p.preview}
        \/ Superseded(v)

ClientsRest == \A a \in Client : apply[a].at = "idle" /\ drafts[a] = 0

AloneInv ==
    setup.left.applies = 0 /\ Unbroken =>
        /\ ClientsRest
        /\ OwnVersions(apply[Watcher])
        /\ setup.left.restarts = 0 => Held(apply[Watcher])

(* The same of the state that a step leads to.                              *)
WaitsNext(v) == v \in DOMAIN versions' /\ versions'[v].status = "working"
IsLiveNext(v) == v \in DOMAIN versions' /\ versions'[v].status # "deleted"
SupersededNext(v) ==
    \E u \in DOMAIN versions' : u > v /\ versions'[u].source = versions'[v].source
OwnVersionsNext(p) ==
    /\ p.at \in BeforePreview => p.preview = 0
    /\ p.at = "append" => p.draft = 0
    /\ p.at \in Early /\ ~p.owns => ~WaitsNext(p.draft)
    /\ p.at \in WithPreview =>
          /\ IsLiveNext(p.preview)
          /\ \/ p.draft = p.preview
             \/ ~WaitsNext(p.draft)
             \/ SupersededNext(p.draft)
    /\ p.at \in {"checkAgain", "accept"} => ~WaitsNext(p.preview)
HeldNext(p) ==
    \A v \in DOMAIN versions' : WaitsNext(v) =>
        \/ v \in {p.draft, p.preview}
        \/ SupersededNext(v)
OwnNext ==
    /\ OwnVersionsNext(apply'[Watcher])
    /\ setup.left.restarts = 0 => HeldNext(apply'[Watcher])

LEMMA AloneNext ==
    ASSUME UNCHANGED setup,
           setup.left.applies = 0 /\ Unbroken' =>
              OwnNext /\ \A a \in Client : apply'[a].at = "idle" /\ drafts'[a] = 0
    PROVE  AloneInv'
BY DEF AloneInv, ClientsRest, OwnNext, OwnVersions, OwnVersionsNext, Held, HeldNext, Waits,
       WaitsNext, IsLive, IsLiveNext, Superseded, SupersededNext

Alone == BaseInv /\ AloneInv /\ setup.left.applies = 0 /\ Unbroken

LEMMA AloneFacts ==
    ASSUME Alone
    PROVE  /\ BaseInv /\ ClientsRest /\ OwnVersions(apply[Watcher])
           /\ setup.left.restarts = 0 => Held(apply[Watcher])
           /\ Watcher \in Actor /\ apply \in [Actor -> Apply] /\ apply[Watcher] \in Apply
           /\ Grounded(apply[Watcher])
           /\ apply[Watcher].draft \in Nat /\ apply[Watcher].preview \in Nat
           /\ versions \in Seq(Version)
<1>1. BaseInv /\ Watcher \in Actor
  BY DEF Alone, Actor
<1> QED BY <1>1, ApplyFacts DEF Alone, AloneInv, Apply

(* No version begins to wait, and none but the deleted ones leaves.         *)
Still == VersionsLast /\ \A v : WaitsNext(v) => Waits(v)
Lives == \A v : IsLive(v) => IsLiveNext(v)

LEMMA SupersededLasts ==
    ASSUME VersionsLast, NEW v \in DOMAIN versions, Superseded(v)
    PROVE  SupersededNext(v)
BY DEF VersionsLast, Superseded, SupersededNext

LEMMA SameIsStill ==
    ASSUME BaseInv, UNCHANGED versions
    PROVE  Still /\ Lives
<1>1. VersionsLast
  BY SameVersionsLast
<1> QED BY <1>1 DEF Still, Lives, Waits, WaitsNext, IsLive, IsLiveNext

LEMMA MarkIs ==
    ASSUME BaseInv, NEW u \in DOMAIN versions, NEW status \in Statuses,
           versions' = Marked(u, status)
    PROVE  /\ VersionsLast /\ DOMAIN versions' = DOMAIN versions
           /\ \A v \in DOMAIN versions :
                 v # u => versions'[v].status = versions[v].status
           /\ versions'[u].status = IF versions[u].status = "deleted" THEN "deleted" ELSE status
           /\ \A v \in DOMAIN versions : versions'[v].by = versions[v].by
<1>1. VersionsLast
  BY MarkedLasts
<1>2. versions \in Seq(Version)
  BY DEF BaseInv, FolderTypeOK
<1> QED BY <1>1, <1>2, MarkedFacts

LEMMA MarkIsStill ==
    ASSUME BaseInv, NEW u \in DOMAIN versions, NEW status \in Statuses \ {"working"},
           versions' = Marked(u, status)
    PROVE  Still /\ ~WaitsNext(u) /\ (status # "deleted" => Lives)
<1>1. /\ VersionsLast /\ DOMAIN versions' = DOMAIN versions
      /\ \A v \in DOMAIN versions :
            v # u => versions'[v].status = versions[v].status
      /\ versions'[u].status = IF versions[u].status = "deleted" THEN "deleted" ELSE status
  BY MarkIs
<1> QED BY <1>1 DEF Still, Lives, Waits, WaitsNext, IsLive, IsLiveNext

LEMMA AppendSuccessIsStill ==
    ASSUME BaseInv, NEW source \in Source, NEW by \in Actor \cup {None},
           versions' = Appended(source, "success", by)
    PROVE  Still /\ Lives /\ IsLiveNext(Len(versions')) /\ ~WaitsNext(Len(versions'))
<1>1. "success" \in Statuses
  BY DEF Statuses
<1>2. /\ VersionsLast
      /\ Len(versions') = Len(versions) + 1 /\ DOMAIN versions' = 1 .. Len(versions')
      /\ \A u \in DOMAIN versions : versions'[u] = versions[u]
      /\ Len(versions') \in DOMAIN versions'
      /\ versions'[Len(versions')] = [source |-> source, status |-> "success", by |-> by]
  BY <1>1, AppendedLasts
<1>3. Len(versions) \in Nat /\ DOMAIN versions = 1 .. Len(versions)
  BY VersionFacts DEF BaseInv, FolderTypeOK
<1>4. versions'[Len(versions')].status = "success"
  BY <1>2
<1>5. \A v \in DOMAIN versions' : v \in DOMAIN versions \/ v = Len(versions')
  BY <1>2, <1>3
<1> QED BY <1>2, <1>4, <1>5 DEF Still, Lives, Waits, WaitsNext, IsLive, IsLiveNext

(* The watcher's apply goes on with the versions it has.                    *)
Follows(q, p) ==
    /\ p.draft = q.draft /\ p.preview = q.preview /\ p.owns = q.owns
    /\ \/ p.at = q.at
       \/ q.at \in Early /\ p.at \in Early \cup {"update", "create"}
       \/ q.at \in WithPreview /\ p.at \in WithPreview \ {"checkAgain", "accept"}
       \/ q.at = "checkAgain" /\ p.at = "accept"

LEMMA FollowsOwn ==
    ASSUME Alone, Still, Lives, Follows(apply[Watcher], apply'[Watcher])
    PROVE  OwnNext
<1> DEFINE q == apply[Watcher]
           p == apply'[Watcher]
<1>1. /\ OwnVersions(q) /\ (setup.left.restarts = 0 => Held(q))
      /\ VersionsLast /\ \A v : WaitsNext(v) => Waits(v)
      /\ \A v : IsLive(v) => IsLiveNext(v)
  BY AloneFacts DEF Still, Lives
<1>2. /\ p.draft = q.draft /\ p.preview = q.preview /\ p.owns = q.owns
      /\ p.at \in BeforePreview => q.at \in BeforePreview
      /\ p.at = "append" => q.at = "append"
      /\ p.at \in Early => q.at \in Early
      /\ p.at \in WithPreview => q.at \in WithPreview
      /\ p.at \in {"checkAgain", "accept"} => q.at \in {"checkAgain", "accept"}
  BY DEF Follows, Early, BeforePreview, WithPreview
<1>3. \A v : Waits(v) /\ Superseded(v) => SupersededNext(v)
  BY <1>1, SupersededLasts DEF Waits
<1> HIDE DEF p, q
<1>4. OwnVersionsNext(p)
  BY <1>1, <1>2, <1>3 DEF OwnVersions, OwnVersionsNext
<1>5. Held(q) => HeldNext(p)
  BY <1>1, <1>2, <1>3 DEF Held, HeldNext, Waits
<1> QED BY <1>1, <1>4, <1>5 DEF OwnNext, p

(* It comes to rest, and its versions wait for nobody.                      *)
LEMMA RestsOwn ==
    ASSUME Alone, Still, apply'[Watcher].at \in AtRest \cup {"append"},
           apply'[Watcher].draft = 0, apply'[Watcher].preview = 0,
           \A v \in {apply[Watcher].draft, apply[Watcher].preview} :
              WaitsNext(v) => SupersededNext(v)
    PROVE  OwnNext
<1> DEFINE q == apply[Watcher]
           p == apply'[Watcher]
<1>1. /\ (setup.left.restarts = 0 => Held(q))
      /\ VersionsLast /\ \A v : WaitsNext(v) => Waits(v)
  BY AloneFacts DEF Still
<1>2. \A v : Waits(v) /\ Superseded(v) => SupersededNext(v)
  BY <1>1, SupersededLasts DEF Waits
<1>3. OwnVersionsNext(p)
  BY DEF OwnVersionsNext, AtRest, BeforePreview, WithPreview, Early
<1> HIDE DEF p
<1>4. Held(q) => HeldNext(p)
  BY <1>1, <1>2 DEF Held, HeldNext, Waits
<1> QED BY <1>1, <1>3, <1>4 DEF OwnNext, p

(* Clients that rest do nothing, and stay at rest.                          *)
LEMMA ClientsDoNothing ==
    ASSUME Alone, NEW a \in Client
    PROVE  ~Begin(a) /\ ~Work(a) /\ ~Breaks(a) /\ ~Leave(a)
<1>1. apply[a].at = "idle" /\ a # Watcher
  BY AloneFacts, FolderAssumption DEF ClientsRest
<1>2. ~(left.applies > 0)
  <2>1. left \in [Kinds -> Nat] /\ left["applies"] <= setup.left["applies"] /\ "applies" \in Kinds
    BY DEF Alone, BaseInv, FolderTypeOK, Kinds
  <2> QED BY <2>1 DEF Alone
<1>3. ~Begin(a) /\ ~Breaks(a) /\ ~Leave(a)
  BY <1>1, <1>2 DEF Begin, Asked, Breaks, Leave
<1> QED BY <1>1, <1>3 DEF Work, AppendDraft, Render, Complete, Fail, Find, Save, MarkWorking,
                          Publish, Check, Verify, Accept, Rollback

(* The watcher's apply alone moves.                                         *)
LEMMA WatcherMoves ==
    ASSUME Alone, NEW p \in Apply, apply' = [apply EXCEPT ![Watcher] = p],
           drafts' = drafts \/ \E v : drafts' = [drafts EXCEPT ![Watcher] = v]
    PROVE  /\ apply'[Watcher] = p
           /\ \A a \in Client : apply'[a].at = "idle" /\ drafts'[a] = 0
<1>1. drafts \in [Actor -> Nat] /\ Client \subseteq Actor /\ Watcher \notin Client
  BY FolderAssumption DEF Alone, BaseInv, FolderTypeOK, Actor
<1> QED BY <1>1, AloneFacts DEF ClientsRest

(* What is shown of every step of the watcher.                              *)
AloneStep == OwnNext /\ \A a \in Client : apply'[a].at = "idle" /\ drafts'[a] = 0

LEMMA AloneAppendDraft ==
    ASSUME Alone, AppendDraft(Watcher)
    PROVE  AloneStep
<1> DEFINE q == apply[Watcher]
<1>1. /\ q \in Apply /\ q.at = "append" /\ q.draft = 0 /\ q.preview = 0 /\ q.src \in Source
      /\ apply \in [Actor -> Apply] /\ Watcher \in Actor /\ BaseInv
      /\ setup.left.restarts = 0 => Held(q)
      /\ versions \in Seq(Version) /\ Len(versions) \in Nat /\ DOMAIN versions = 1 .. Len(versions)
  BY AloneFacts, VersionFacts DEF AppendDraft, OwnVersions, BeforePreview, Grounded, AtRest
<1>2. \A v : v \in {q.draft, q.preview} => ~Waits(v)
  BY <1>1 DEF Waits
<1>3. CASE /\ HeadHas(q.src) /\ UNCHANGED versions
           /\ apply' = [apply EXCEPT ![Watcher].at = "render", ![Watcher].draft = Latest,
                                     ![Watcher].owns = versions[Latest].status # "success"]
  <2> DEFINE p == [q EXCEPT !.at = "render", !.draft = Latest,
                            !.owns = versions[Latest].status # "success"]
  <2>1. Latest \in Nat
    BY <1>1, LatestFacts
  <2>2. p \in Apply /\ apply' = [apply EXCEPT ![Watcher] = p]
    BY <1>1, <1>3, <2>1 DEF Apply, BeforePreview
  <2>3. /\ p.at = "render" /\ p.draft = Latest /\ p.preview = 0
        /\ ~p.owns => versions[Latest].status = "success"
    BY <1>1 DEF Apply
  <2> HIDE DEF p
  <2>4. apply'[Watcher] = p /\ \A a \in Client : apply'[a].at = "idle" /\ drafts'[a] = 0
    BY <2>2, WatcherMoves DEF AppendDraft
  <2>5. Still
    BY <1>1, <1>3, SameIsStill
  <2>6. OwnVersionsNext(p)
    BY <1>3, <2>3 DEF OwnVersionsNext, WaitsNext, BeforePreview, WithPreview
  <2>7. Held(q) => HeldNext(p)
    BY <1>2, <2>5, SupersededLasts DEF Held, HeldNext, Still, Waits
  <2> QED BY <1>1, <2>4, <2>6, <2>7 DEF AloneStep, OwnNext
<1>4. CASE /\ versions' = Appended(q.src, "working", Watcher)
           /\ apply' = [apply EXCEPT ![Watcher].at = "render", ![Watcher].draft = Len(versions'),
                                     ![Watcher].owns = TRUE]
  <2> DEFINE n == Len(versions')
             p == [q EXCEPT !.at = "render", !.draft = n, !.owns = TRUE]
  <2>1. "working" \in Statuses /\ Watcher \in Actor \cup {None}
    BY <1>1 DEF Statuses
  <2>2. /\ VersionsLast /\ n = Len(versions) + 1 /\ DOMAIN versions' = 1 .. n
        /\ \A u \in DOMAIN versions : versions'[u] = versions[u]
    BY <1>1, <1>4, <2>1, AppendedLasts
  <2> HIDE DEF n
  <2>3. /\ p \in Apply /\ apply' = [apply EXCEPT ![Watcher] = p]
        /\ p.at = "render" /\ p.draft = n /\ p.preview = 0 /\ p.owns
    BY <1>1, <1>4, <2>2 DEF Apply, BeforePreview, n
  <2> HIDE DEF p
  <2>4. apply'[Watcher] = p /\ \A a \in Client : apply'[a].at = "idle" /\ drafts'[a] = 0
    BY <2>3, WatcherMoves DEF AppendDraft
  <2>5. OwnVersionsNext(p)
    BY <2>3 DEF OwnVersionsNext, BeforePreview, WithPreview
  <2>6. Held(q) => HeldNext(p)
    <3> SUFFICES ASSUME Held(q), NEW v \in DOMAIN versions', WaitsNext(v), v # n
                 PROVE  SupersededNext(v)
      BY <2>3 DEF HeldNext
    <3>1. v \in DOMAIN versions /\ Waits(v)
      BY <1>1, <2>2 DEF Waits, WaitsNext
    <3> QED BY <1>2, <2>2, <3>1, SupersededLasts DEF Held
  <2> QED BY <1>1, <2>4, <2>5, <2>6 DEF AloneStep, OwnNext
<1> QED BY <1>3, <1>4 DEF AppendDraft

(* The steps that change places only.                                       *)
LEMMA AloneMove ==
    ASSUME Alone, NEW p \in Apply, apply' = [apply EXCEPT ![Watcher] = p],
           Follows(apply[Watcher], p), UNCHANGED versions,
           drafts' = drafts \/ \E v : drafts' = [drafts EXCEPT ![Watcher] = v]
    PROVE  AloneStep
<1>1. apply'[Watcher] = p /\ \A a \in Client : apply'[a].at = "idle" /\ drafts'[a] = 0
  BY WatcherMoves
<1>2. Still /\ Lives
  BY AloneFacts, SameIsStill
<1> QED BY <1>1, <1>2, FollowsOwn DEF AloneStep

LEMMA AloneRender ==
    ASSUME Alone, Render(Watcher)
    PROVE  AloneStep
<1> DEFINE q == apply[Watcher]
<1>1. q \in Apply /\ apply \in [Actor -> Apply] /\ q.at = "render" /\ Watcher \in Actor
  BY AloneFacts DEF Render
<1>2. \E p \in Apply : apply' = [apply EXCEPT ![Watcher] = p] /\ Follows(q, p)
  <2>1. CASE \E b \in Flight(Watcher) :
               apply' = [apply EXCEPT ![Watcher].at = "rendering", ![Watcher].join = b]
    <3>1. PICK b \in Actor :
            apply' = [apply EXCEPT ![Watcher].at = "rendering", ![Watcher].join = b]
      BY <2>1 DEF Flight
    <3> DEFINE p == [q EXCEPT !.at = "rendering", !.join = b]
    <3>2. p \in Apply /\ apply' = [apply EXCEPT ![Watcher] = p] /\ Follows(q, p)
      BY <1>1, <3>1 DEF Apply, BeforePreview, Follows, Early
    <3> QED BY <3>2
  <2>2. CASE apply' = [apply EXCEPT ![Watcher].at = "rendering", ![Watcher].stop = Holds(Watcher)]
    <3> DEFINE p == [q EXCEPT !.at = "rendering", !.stop = Holds(Watcher)]
    <3>1. Holds(Watcher) \in {"free", "linked", "halted"}
      BY DEF Holds
    <3>2. p \in Apply /\ apply' = [apply EXCEPT ![Watcher] = p] /\ Follows(q, p)
      BY <1>1, <2>2, <3>1 DEF Apply, BeforePreview, Follows, Early
    <3> QED BY <3>2
  <2> QED BY <2>1, <2>2 DEF Render
<1> QED BY <1>2, AloneMove DEF Render

LEMMA AloneComplete ==
    ASSUME Alone, Complete(Watcher)
    PROVE  AloneStep
<1>1. PICK outcome \in Outcomes(Watcher) : apply' = Answered(Watcher, outcome)
  BY DEF Complete
<1>2. outcome \in {"rendered", "invalid", "changed", "dropped"} /\ BaseInv /\ Watcher \in Actor
  BY <1>1, AloneFacts DEF Outcomes
<1>3. \A a \in Client : apply'[a].at = "idle" /\ drafts'[a] = 0
  <2>1. \A a \in Client : a \in Actor /\ a # Watcher /\ apply[a].at = "idle" /\ drafts[a] = 0
    BY AloneFacts, FolderAssumption DEF ClientsRest, Actor
  <2>2. \A b \in Actor : \/ apply'[b] = apply[b]
                         \/ b = Watcher \/ apply[b].at = "rendering"
    BY <1>1, <1>2, AnsweredFacts
  <2>3. \A a \in Client : apply'[a] = apply[a]
    BY <2>1, <2>2
  <2> QED BY <2>1, <2>3 DEF Complete
<1>4. Follows(apply[Watcher], apply'[Watcher])
  BY <1>1, <1>2, AnsweredFacts DEF Follows, Early, Complete
<1>5. Still /\ Lives
  BY <1>2, SameIsStill DEF Complete
<1> QED BY <1>3, <1>4, <1>5, FollowsOwn DEF AloneStep

(* The exits of an apply leave no version of its own waiting.               *)
LEMMA AloneEnd ==
    ASSUME Alone, Still, NEW result \in {"ok", "error"},
           apply' = [apply EXCEPT ![Watcher] = Ended(Watcher, result)],
           drafts' = drafts \/ \E v : drafts' = [drafts EXCEPT ![Watcher] = v],
           \A v \in {apply[Watcher].draft, apply[Watcher].preview} :
              WaitsNext(v) => SupersededNext(v)
    PROVE  AloneStep
<1>1. /\ Ended(Watcher, result) \in Apply /\ Ended(Watcher, result).at \in AtRest
      /\ Ended(Watcher, result).draft = 0 /\ Ended(Watcher, result).preview = 0
  BY RestFacts DEF Actor, AtRest
<1>2. /\ apply'[Watcher] = Ended(Watcher, result)
      /\ \A a \in Client : apply'[a].at = "idle" /\ drafts'[a] = 0
  BY <1>1, WatcherMoves
<1> QED BY <1>1, <1>2, RestsOwn DEF AloneStep

(* What the watcher's apply has at a place with a preview.                  *)
LEMMA PreviewFacts ==
    ASSUME Alone, apply[Watcher].at \in WithPreview
    PROVE  /\ apply[Watcher].preview \in DOMAIN versions /\ apply[Watcher].preview \in Live
           /\ IsLive(apply[Watcher].preview)
           /\ versions[apply[Watcher].preview].source = apply[Watcher].src
           /\ apply[Watcher].draft \in DOMAIN versions
           /\ versions[apply[Watcher].draft].source = apply[Watcher].src
           /\ \/ apply[Watcher].draft = apply[Watcher].preview
              \/ ~Waits(apply[Watcher].draft)
              \/ Superseded(apply[Watcher].draft)
<1> DEFINE q == apply[Watcher]
<1>1. OwnVersions(q) /\ Grounded(q) /\ q.at \notin AtRest \cup {"append"}
  BY AloneFacts DEF WithPreview, AtRest
<1> QED BY <1>1 DEF OwnVersions, Grounded, IsOf, IsLive, Live

LEMMA AloneFail ==
    ASSUME Alone, Fail(Watcher)
    PROVE  AloneStep
<1> DEFINE q == apply[Watcher]
<1>1. /\ q.at = "fail" /\ q.preview = 0 /\ q.draft \in DOMAIN versions /\ BaseInv
      /\ ~q.owns => ~Waits(q.draft)
  BY AloneFacts DEF Fail, OwnVersions, BeforePreview, Early, Grounded, IsOf, AtRest
<1>2. ~WaitsNext(0)
  <2>1. BaseInv' /\ Watcher \in Actor
    BY <1>1, AloneFacts, FailBase
  <2>2. versions' \in Seq(Version)
    BY <2>1 DEF BaseInv, FolderTypeOK
  <2>3. DOMAIN versions' = 1 .. Len(versions')
    BY <2>2, LenProperties
  <2> QED BY <2>3 DEF WaitsNext
<1>3. Still /\ ~WaitsNext(q.draft)
  <2>1. CASE ~q.owns
    <3>1. UNCHANGED versions
      BY <2>1 DEF Fail
    <3> QED BY <1>1, <2>1, <3>1, SameIsStill DEF Waits, WaitsNext
  <2>2. CASE q.owns
    <3>1. PICK status \in Statuses \ {"working"} : versions' = Marked(q.draft, status)
      BY <2>2 DEF Fail, Statuses
    <3> QED BY <1>1, <3>1, MarkIsStill
  <2> QED BY <2>1, <2>2
<1>4. "error" \in {"ok", "error"} /\ apply' = [apply EXCEPT ![Watcher] = Ended(Watcher, "error")]
  BY DEF Fail
<1> QED BY <1>1, <1>2, <1>3, <1>4, AloneEnd DEF Fail

LEMMA AloneRollback ==
    ASSUME Alone, Rollback(Watcher)
    PROVE  AloneStep
<1> DEFINE q == apply[Watcher]
<1>1. q.at \in WithPreview /\ BaseInv
  BY AloneFacts DEF Rollback, WithPreview
<1>2. "deleted" \in Statuses \ {"working"} /\ versions' = Marked(q.preview, "deleted")
  BY DEF Rollback, Statuses
<1>3. Still /\ ~WaitsNext(q.preview)
  BY <1>1, <1>2, PreviewFacts, MarkIsStill
<1>4. WaitsNext(q.draft) => SupersededNext(q.draft)
  BY <1>1, <1>3, PreviewFacts, SupersededLasts DEF Still
<1>5. "error" \in {"ok", "error"} /\ apply' = [apply EXCEPT ![Watcher] = Ended(Watcher, "error")]
  BY DEF Rollback
<1>6. drafts' = drafts \/ \E v : drafts' = [drafts EXCEPT ![Watcher] = v]
  BY DEF Rollback
<1> QED BY <1>3, <1>4, <1>5, <1>6, AloneEnd

LEMMA AloneAccept ==
    ASSUME Alone, Accept(Watcher)
    PROVE  AloneStep
<1> DEFINE q == apply[Watcher]
<1>1. q.at = "accept" /\ q.at \in WithPreview /\ BaseInv /\ ~Waits(q.preview)
  BY AloneFacts DEF Accept, WithPreview, OwnVersions
<1>2. "success" \in Statuses \ {"working"}
  BY DEF Statuses
<1>3. Still
  <2>1. UNCHANGED versions \/ versions' = Marked(q.preview, "success")
    BY DEF Accept
  <2> QED BY <1>1, <1>2, <2>1, PreviewFacts, MarkIsStill, SameIsStill
<1>4. /\ ~WaitsNext(q.preview)
      /\ WaitsNext(q.draft) => SupersededNext(q.draft)
  BY <1>1, <1>3, PreviewFacts, SupersededLasts DEF Still
<1>5. PICK result \in {"ok", "error"} : apply' = [apply EXCEPT ![Watcher] = Ended(Watcher, result)]
  BY DEF Accept
<1>6. drafts' = drafts \/ \E v : drafts' = [drafts EXCEPT ![Watcher] = v]
  BY DEF Accept
<1> QED BY <1>3, <1>4, <1>5, <1>6, AloneEnd

LEMMA AloneFind ==
    ASSUME Alone, Find(Watcher)
    PROVE  AloneStep
<1> DEFINE q == apply[Watcher]
<1>1. /\ q \in Apply /\ apply \in [Actor -> Apply] /\ q.at = "find" /\ Watcher \in Actor
      /\ q.preview = 0 /\ IsOf(q.draft, q.src) /\ q.draft \in Nat
      /\ BaseInv /\ versions \in Seq(Version)
      /\ setup.left.restarts = 0 => Held(q)
  BY AloneFacts DEF Find, OwnVersions, BeforePreview, Grounded, AtRest
<1>2. CASE HeadIs(q.src, "success")
  <2> DEFINE p == [q EXCEPT !.at = "publish", !.preview = Latest]
  <2>1. /\ Latest \in Live /\ Latest \in Nat /\ IsOf(Latest, q.src)
        /\ versions[Latest].status = "success"
    BY <1>1, <1>2, HeadFacts DEF HeadIs
  <2>2. /\ p \in Apply /\ apply' = [apply EXCEPT ![Watcher] = p]
        /\ p.at = "publish" /\ p.draft = q.draft /\ p.preview = Latest
    BY <1>1, <1>2, <2>1 DEF Find, Apply, WithPreview
  <2> HIDE DEF p
  <2>3. apply'[Watcher] = p /\ \A a \in Client : apply'[a].at = "idle" /\ drafts'[a] = 0
    BY <2>2, WatcherMoves DEF Find
  <2>4. Still /\ Lives /\ UNCHANGED versions
    BY <1>1, SameIsStill DEF Find
  <2>5. Waits(q.draft) => q.draft = Latest \/ Superseded(q.draft)
    <3> SUFFICES ASSUME Waits(q.draft), q.draft # Latest PROVE Superseded(q.draft)
      OBVIOUS
    <3>1. q.draft \in Live
      BY DEF Waits, Live
    <3>2. q.draft <= Latest
      BY <1>1, <3>1, LatestFacts
    <3>3. Latest > q.draft /\ Latest \in DOMAIN versions
      BY <1>1, <2>1, <3>2 DEF IsOf
    <3> QED BY <1>1, <2>1, <3>3 DEF Superseded, IsOf
  <2>6. /\ IsLiveNext(Latest)
        /\ WaitsNext(q.draft) => q.draft = Latest \/ SupersededNext(q.draft)
    <3>1. IsLive(Latest)
      BY <2>1 DEF Live, IsLive
    <3> QED BY <1>1, <2>4, <2>5, <3>1, SupersededLasts DEF Still, Lives, Waits
  <2>7. OwnVersionsNext(p)
    BY <2>2, <2>6 DEF OwnVersionsNext, BeforePreview, WithPreview, Early
  <2>8. Held(q) => HeldNext(p)
    <3> SUFFICES ASSUME Held(q), NEW v \in DOMAIN versions', WaitsNext(v)
                 PROVE  v \in {q.draft, Latest} \/ SupersededNext(v)
      BY <2>2 DEF HeldNext
    <3>1. Waits(v) /\ v # 0 /\ v \in DOMAIN versions
      <4>1. Waits(v)
        BY <2>4 DEF Still
      <4> QED BY <1>1, <4>1, VersionFacts DEF Waits
    <3>2. v = q.draft \/ Superseded(v)
      BY <1>1, <3>1 DEF Held
    <3> QED BY <2>4, <3>1, <3>2, SupersededLasts DEF Still
  <2> QED BY <1>1, <2>3, <2>7, <2>8 DEF AloneStep, OwnNext
<1>3. CASE ~HeadIs(q.src, "success")
  <2>1. PICK at \in {"update", "create"} : apply' = [apply EXCEPT ![Watcher] = [q EXCEPT !.at = at]]
    BY <1>3 DEF Find
  <2> DEFINE p == [q EXCEPT !.at = at]
  <2>2. p \in Apply /\ Follows(q, p)
    BY <1>1, <2>1 DEF Apply, BeforePreview, Follows, Early
  <2> HIDE DEF p
  <2> QED BY <2>1, <2>2, AloneMove DEF Find, p
<1> QED BY <1>2, <1>3

(* A new version of the content of the draft takes the draft's place.       *)
LEMMA AppendSupersedes ==
    ASSUME BaseInv, NEW v \in DOMAIN versions, NEW status \in Statuses,
           NEW by \in Actor \cup {None},
           versions' = Appended(versions[v].source, status, by)
    PROVE  SupersededNext(v)
<1>1. /\ versions \in Seq(Version) /\ Len(versions) \in Nat /\ v \in 1 .. Len(versions)
      /\ versions[v].source \in Source
  BY VersionFacts DEF BaseInv, FolderTypeOK
<1>2. /\ Len(versions') = Len(versions) + 1 /\ Len(versions') \in DOMAIN versions'
      /\ versions'[v] = versions[v]
      /\ versions'[Len(versions')] = [source |-> versions[v].source, status |-> status, by |-> by]
  BY <1>1, AppendedLasts
<1>3. Len(versions') > v /\ versions'[Len(versions')].source = versions'[v].source
  BY <1>1, <1>2
<1> QED BY <1>2, <1>3 DEF SupersededNext

LEMMA AloneSave ==
    ASSUME Alone, Save(Watcher)
    PROVE  AloneStep
<1> DEFINE q == apply[Watcher]
<1>1. /\ q \in Apply /\ apply \in [Actor -> Apply] /\ q.at \in {"update", "create"}
      /\ Watcher \in Actor /\ q.preview = 0 /\ q.draft \in Nat /\ q.src \in Source /\ BaseInv
      /\ q.draft \in DOMAIN versions /\ versions[q.draft].source = q.src
      /\ setup.left.restarts = 0 => Held(q)
      /\ versions \in Seq(Version)
  BY AloneFacts DEF Save, OwnVersions, BeforePreview, Grounded, IsOf, AtRest
<1>2. PICK n \in Nat : /\ apply' = [apply EXCEPT ![Watcher].at = "mark", ![Watcher].preview = n]
                       /\ Still /\ IsLiveNext(n)
                       /\ n = q.draft \/ SupersededNext(q.draft)
  <2>1. "success" \in Statuses /\ "success" \in Statuses \ {"working"} /\ "success" # "deleted"
        /\ Watcher \in Actor \cup {None}
    BY <1>1 DEF Statuses
  <2>2. CASE /\ q.draft \in Live /\ versions' = Marked(q.draft, "success")
             /\ apply' = [apply EXCEPT ![Watcher].at = "mark", ![Watcher].preview = q.draft]
    <3>1. Still /\ Lives
      BY <1>1, <2>1, <2>2, MarkIsStill
    <3>2. IsLiveNext(q.draft)
      BY <2>2, <3>1 DEF Lives, IsLive, Live
    <3> QED BY <1>1, <2>2, <3>1, <3>2
  <2>3. CASE /\ versions' = Appended(q.src, "success", Watcher)
             /\ apply' = [apply EXCEPT ![Watcher].at = "mark", ![Watcher].preview = Len(versions')]
    <3>1. Still /\ IsLiveNext(Len(versions')) /\ SupersededNext(q.draft)
      BY <1>1, <2>1, <2>3, AppendSuccessIsStill, AppendSupersedes
    <3>2. Len(versions') \in Nat
      BY <1>1, <2>1, <2>3, AppendedLasts
    <3> QED BY <2>3, <3>1, <3>2
  <2> QED BY <2>2, <2>3 DEF Save
<1> DEFINE p == [q EXCEPT !.at = "mark", !.preview = n]
<1>3. /\ p \in Apply /\ apply' = [apply EXCEPT ![Watcher] = p]
      /\ p.at = "mark" /\ p.draft = q.draft /\ p.preview = n
  BY <1>1, <1>2 DEF Apply, WithPreview
<1> HIDE DEF p
<1>4. apply'[Watcher] = p /\ \A a \in Client : apply'[a].at = "idle" /\ drafts'[a] = 0
  BY <1>3, WatcherMoves DEF Save
<1>5. OwnVersionsNext(p)
  BY <1>2, <1>3 DEF OwnVersionsNext, BeforePreview, WithPreview, Early
<1>6. Held(q) => HeldNext(p)
  <2> SUFFICES ASSUME Held(q), NEW v \in DOMAIN versions', WaitsNext(v)
               PROVE  v \in {q.draft, n} \/ SupersededNext(v)
    BY <1>3 DEF HeldNext
  <2>1. Waits(v) /\ v # 0 /\ v \in DOMAIN versions
    <3>1. Waits(v)
      BY <1>2 DEF Still
    <3> QED BY <1>1, <3>1, VersionFacts DEF Waits
  <2>2. v = q.draft \/ Superseded(v)
    BY <1>1, <2>1 DEF Held
  <2> QED BY <1>2, <2>1, <2>2, SupersededLasts DEF Still
<1> QED BY <1>1, <1>4, <1>5, <1>6 DEF AloneStep, OwnNext

LEMMA AloneMarkWorking ==
    ASSUME Alone, MarkWorking(Watcher)
    PROVE  AloneStep
<1> DEFINE q == apply[Watcher]
           p == [q EXCEPT !.at = "publish"]
<1>1. /\ q \in Apply /\ apply \in [Actor -> Apply] /\ q.at = "mark" /\ q.at \in WithPreview
      /\ Watcher \in Actor /\ BaseInv
      /\ setup.left.restarts = 0 => Held(q)
  BY AloneFacts DEF MarkWorking, WithPreview
<1>2. /\ q.preview \in DOMAIN versions /\ IsLive(q.preview) /\ q.draft \in DOMAIN versions
      /\ q.draft = q.preview \/ ~Waits(q.draft) \/ Superseded(q.draft)
  BY <1>1, PreviewFacts
<1>3. "working" \in Statuses /\ versions' = Marked(q.preview, "working")
  BY DEF MarkWorking, Statuses
<1>4. /\ VersionsLast /\ DOMAIN versions' = DOMAIN versions
      /\ \A v \in DOMAIN versions :
            v # q.preview => versions'[v].status = versions[v].status
      /\ IsLiveNext(q.preview)
  BY <1>1, <1>2, <1>3, MarkIs DEF IsLive, IsLiveNext
<1>5. /\ p \in Apply /\ apply' = [apply EXCEPT ![Watcher] = p]
      /\ p.at = "publish" /\ p.draft = q.draft /\ p.preview = q.preview
  BY <1>1 DEF MarkWorking, Apply, WithPreview
<1> HIDE DEF p
<1>6. apply'[Watcher] = p /\ \A a \in Client : apply'[a].at = "idle" /\ drafts'[a] = 0
  BY <1>5, WatcherMoves DEF MarkWorking
<1>7. \A v \in DOMAIN versions : v # q.preview /\ WaitsNext(v) => Waits(v)
  BY <1>4 DEF Waits, WaitsNext
<1>8. OwnVersionsNext(p)
  <2>1. q.draft = q.preview \/ ~WaitsNext(q.draft) \/ SupersededNext(q.draft)
    BY <1>2, <1>4, <1>7, SupersededLasts
  <2> QED BY <1>4, <1>5, <2>1 DEF OwnVersionsNext, BeforePreview, WithPreview, Early
<1>9. Held(q) => HeldNext(p)
  BY <1>4, <1>5, <1>7, SupersededLasts DEF Held, HeldNext
<1> QED BY <1>1, <1>6, <1>8, <1>9 DEF AloneStep, OwnNext

LEMMA AlonePublishCheck ==
    ASSUME Alone, Publish(Watcher) \/ Check(Watcher)
    PROVE  AloneStep /\ (Publish(Watcher) => apply'[Watcher].at = "check")
<1> DEFINE q == apply[Watcher]
<1>1. /\ q \in Apply /\ apply \in [Actor -> Apply] /\ Watcher \in Actor /\ q.at \in WithPreview
      /\ Grounded(q) /\ q.preview # 0
  BY AloneFacts DEF Publish, Check, WithPreview, Grounded
<1>2. Publish(Watcher) => \A b \in Actor \ {Watcher} : drafts[b] # q.preview
  BY <1>1, AloneFacts DEF ClientsRest, Actor
<1>3. PICK at \in WithPreview :
        /\ apply' = [apply EXCEPT ![Watcher].at = at]
        /\ Publish(Watcher) => at = "check"
        /\ q.at = "checkAgain" \/ at \notin {"checkAgain", "accept"}
        /\ at # "checkAgain"
  <2>1. CASE Publish(Watcher)
    BY <1>2, <2>1, FolderAssumption DEF Publish, WithPreview
  <2>2. CASE Check(Watcher)
    <3>1. q.at \in {"check", "checkAgain"}
      BY <2>2 DEF Check
    <3>2. ~Publish(Watcher)
      BY <3>1 DEF Publish
    <3> QED BY <2>2, <3>1, <3>2 DEF Check, WithPreview
  <2> QED BY <2>1, <2>2
<1> DEFINE p == [q EXCEPT !.at = at]
<1>4. p \in Apply /\ apply' = [apply EXCEPT ![Watcher] = p] /\ Follows(q, p) /\ p.at = at
  BY <1>1, <1>3 DEF Apply, Follows, Early, WithPreview
<1>5. /\ UNCHANGED versions
      /\ drafts' = drafts \/ \E v : drafts' = [drafts EXCEPT ![Watcher] = v]
  BY DEF Publish, Check
<1> HIDE DEF p
<1>6. AloneStep
  BY <1>4, <1>5, AloneMove
<1>7. apply'[Watcher] = p
  BY <1>1, <1>4
<1> QED BY <1>3, <1>4, <1>6, <1>7

LEMMA AloneVerify ==
    ASSUME Alone, Verify(Watcher)
    PROVE  AloneStep /\ apply'[Watcher].at = "checkAgain"
<1> DEFINE q == apply[Watcher]
           p == [q EXCEPT !.at = "checkAgain"]
<1>1. /\ q \in Apply /\ apply \in [Actor -> Apply] /\ q.at = "verify" /\ q.at \in WithPreview
      /\ Watcher \in Actor /\ BaseInv
      /\ setup.left.restarts = 0 => Held(q)
  BY AloneFacts DEF Verify, WithPreview
<1>2. /\ q.preview \in DOMAIN versions /\ q.preview \in Live /\ IsLive(q.preview)
      /\ q.draft \in DOMAIN versions
      /\ q.draft = q.preview \/ ~Waits(q.draft) \/ Superseded(q.draft)
  BY <1>1, PreviewFacts
<1>3. PICK status \in Statuses \ {"working"} :
        status # "deleted" /\ versions' = Marked(q.preview, status)
  BY <1>2 DEF Verify, Statuses
<1>4. Still /\ Lives /\ ~WaitsNext(q.preview)
  BY <1>1, <1>2, <1>3, MarkIsStill
<1>5. /\ p \in Apply /\ apply' = [apply EXCEPT ![Watcher] = p]
      /\ p.at = "checkAgain" /\ p.draft = q.draft /\ p.preview = q.preview
  BY <1>1, <1>2 DEF Verify, Apply, WithPreview
<1> HIDE DEF p
<1>6. apply'[Watcher] = p /\ \A a \in Client : apply'[a].at = "idle" /\ drafts'[a] = 0
  BY <1>5, WatcherMoves DEF Verify
<1>7. OwnVersionsNext(p)
  <2>1. q.draft = q.preview \/ ~WaitsNext(q.draft) \/ SupersededNext(q.draft)
    BY <1>2, <1>4, SupersededLasts DEF Still
  <2> QED BY <1>2, <1>4, <1>5, <2>1 DEF OwnVersionsNext, BeforePreview, WithPreview, Early, Lives
<1>8. Held(q) => HeldNext(p)
  BY <1>4, <1>5, SupersededLasts DEF Held, HeldNext, Still, Waits
<1> QED BY <1>1, <1>5, <1>6, <1>7, <1>8 DEF AloneStep, OwnNext

LEMMA AloneWork ==
    ASSUME Alone, NEW a \in Actor, Work(a)
    PROVE  AloneStep /\ a = Watcher
<1>1. a = Watcher
  BY ClientsDoNothing DEF Actor
<1>2. CASE AppendDraft(a) \/ Render(a) \/ Complete(a) \/ Fail(a) \/ Find(a) \/ Save(a)
  BY <1>1, <1>2, AloneAppendDraft, AloneRender, AloneComplete, AloneFail, AloneFind, AloneSave
<1>3. CASE MarkWorking(a) \/ Publish(a) \/ Check(a) \/ Verify(a) \/ Accept(a) \/ Rollback(a)
  BY <1>1, <1>3, AloneMarkWorking, AlonePublishCheck, AloneVerify, AloneAccept, AloneRollback
<1> QED BY <1>1, <1>2, <1>3 DEF Work

LEMMA AloneBegin ==
    ASSUME Alone, NEW a \in Actor, Begin(a)
    PROVE  AloneStep /\ a = Watcher
<1>1. a = Watcher /\ apply[Watcher].at = "begin"
  BY ClientsDoNothing, FolderAssumption DEF Actor, Begin, Asked
<1>2. PICK p \in Apply : /\ apply' = [apply EXCEPT ![Watcher] = p]
                         /\ p.at \in AtRest \cup {"append"} /\ p.draft = 0 /\ p.preview = 0
  <2>1. BaseInv /\ BaseInv' /\ Watcher \in Actor /\ apply \in [Actor -> Apply]
    BY <1>1, AloneFacts, BeginBase
  <2>2. apply' \in [Actor -> Apply]
    BY <2>1 DEF BaseInv, FolderTypeOK
  <2>3. PICK p : /\ apply' = [apply EXCEPT ![Watcher] = p]
                 /\ p = Ended(Watcher, "ok")
                    \/ p = [Idle EXCEPT !.at = "append", !.src = file, !.was = manifest,
                                        !.base = Latest]
    BY <1>1 DEF Begin
  <2>4. p.at \in AtRest \cup {"append"} /\ p.draft = 0 /\ p.preview = 0
    BY <2>3 DEF Ended, Idle, AtRest
  <2>5. p \in Apply
    BY <2>1, <2>2, <2>3
  <2> QED BY <2>3, <2>4, <2>5
<1>3. apply'[Watcher] = p /\ \A b \in Client : apply'[b].at = "idle" /\ drafts'[b] = 0
  BY <1>2, WatcherMoves DEF Begin
<1>4. Still /\ UNCHANGED versions
  BY AloneFacts, SameIsStill DEF Begin
<1>5. \A v \in {apply[Watcher].draft, apply[Watcher].preview} : ~WaitsNext(v)
  <2>1. apply[Watcher].draft = 0 /\ apply[Watcher].preview = 0
    BY <1>1, AloneFacts DEF Grounded, AtRest
  <2>2. 0 \notin DOMAIN versions
    BY AloneFacts, VersionFacts
  <2> QED BY <1>4, <2>1, <2>2 DEF WaitsNext
<1> QED BY <1>1, <1>2, <1>3, <1>4, <1>5, RestsOwn DEF AloneStep

(* The surroundings stop renders at most, and commit what succeeded.        *)
LEMMA AloneHeard ==
    ASSUME Alone, Still, Lives, apply' = Stopped(apply) \/ apply' = apply, UNCHANGED drafts
    PROVE  AloneStep
<1>1. \A b \in Actor : /\ apply'[b].at = apply[b].at /\ apply'[b].draft = apply[b].draft
                       /\ apply'[b].preview = apply[b].preview /\ apply'[b].owns = apply[b].owns
  BY AloneFacts, StoppedFacts
<1>2. Follows(apply[Watcher], apply'[Watcher])
  BY <1>1, AloneFacts DEF Follows
<1>3. \A a \in Client : apply'[a].at = "idle" /\ drafts'[a] = 0
  BY <1>1, AloneFacts DEF ClientsRest, Actor
<1> QED BY <1>2, <1>3, FollowsOwn DEF AloneStep

LEMMA CommitIsStill ==
    ASSUME BaseInv, NEW source \in Source, Commit(source)
    PROVE  /\ Still /\ Lives
           /\ apply' = Stopped(apply) \/ apply' = apply
           /\ UNCHANGED drafts
<1>1. apply' = Stopped(apply) \/ apply' = apply
  BY DEF Commit, Refresh, Written
<1>2. /\ "success" \in Statuses \ {"working"} /\ "success" # "deleted"
      /\ None \in Actor \cup {None}
  BY DEF Statuses
<1>3. CASE HeadHas(source)
  <2>1. versions' = Marked(Latest, "success") /\ Latest \in DOMAIN versions
    BY <1>3, HeadFacts DEF Commit, Live
  <2> QED BY <1>1, <1>2, <2>1, MarkIsStill DEF Commit
<1>4. CASE ~HeadHas(source)
  <2>1. versions' = Appended(source, "success", None)
    BY <1>4 DEF Commit
  <2> QED BY <1>1, <1>2, <2>1, AppendSuccessIsStill DEF Commit
<1> QED BY <1>3, <1>4

(* A verdict or a restart leaves an apply at rest.                          *)
LEMMA AloneIdle ==
    ASSUME Alone, UNCHANGED <<versions, drafts>>, apply'[Watcher] = Idle,
           \A a \in Client : apply'[a].at = "idle",
           apply[Watcher].at \in AtRest \/ setup.left.restarts # 0
    PROVE  AloneStep
<1>1. Still
  BY AloneFacts, SameIsStill
<1>2. Idle.at = "idle" /\ Idle.draft = 0 /\ Idle.preview = 0
  BY DEF Idle
<1>3. \A a \in Client : drafts'[a] = 0
  BY AloneFacts DEF ClientsRest
<1>4. CASE apply[Watcher].at \in AtRest
  <2>1. apply[Watcher].draft = 0 /\ apply[Watcher].preview = 0 /\ 0 \notin DOMAIN versions
    BY <1>4, AloneFacts, VersionFacts DEF Grounded
  <2>2. \A v \in {apply[Watcher].draft, apply[Watcher].preview} : ~WaitsNext(v)
    BY <2>1 DEF WaitsNext
  <2> QED BY <1>1, <1>2, <1>3, <2>2, RestsOwn DEF AloneStep, AtRest
<1>5. CASE setup.left.restarts # 0
  <2>1. OwnVersionsNext(apply'[Watcher])
    BY <1>2 DEF OwnVersionsNext, BeforePreview, WithPreview, Early
  <2> QED BY <1>3, <1>5, <2>1 DEF AloneStep, OwnNext
<1> QED BY <1>4, <1>5

LEMMA AloneTick ==
    ASSUME Alone, Tick
    PROVE  AloneStep
<1>1. CASE Ignore \/ Look \/ Judge \/ (Settle /\ UNCHANGED apply)
  <2>1. UNCHANGED <<versions, apply, drafts>>
    BY <1>1 DEF Ignore, Look, Judge, Settle
  <2> QED BY <2>1, AloneFacts, SameIsStill, AloneHeard
<1>2. CASE Settle /\ apply' = [apply EXCEPT ![Watcher].at = "begin"]
  <2> DEFINE q == apply[Watcher]
             p == [q EXCEPT !.at = "begin"]
  <2>1. /\ q \in Apply /\ apply \in [Actor -> Apply] /\ Watcher \in Actor
        /\ q.at = "idle" /\ Grounded(q) /\ UNCHANGED <<versions, drafts>>
    BY <1>2, AloneFacts DEF Settle, BaseInv
  <2>2. q.draft = 0 /\ q.preview = 0 /\ 0 \notin DOMAIN versions
    BY <2>1, AloneFacts, VersionFacts DEF Grounded, AtRest
  <2>3. /\ p \in Apply /\ apply' = [apply EXCEPT ![Watcher] = p]
        /\ p.at \in AtRest /\ p.draft = 0 /\ p.preview = 0
    BY <1>2, <2>1, <2>2 DEF Apply, AtRest
  <2> HIDE DEF p
  <2>4. apply'[Watcher] = p /\ \A a \in Client : apply'[a].at = "idle" /\ drafts'[a] = 0
    BY <2>1, <2>3, WatcherMoves
  <2>5. \A v \in {q.draft, q.preview} : ~WaitsNext(v)
    BY <2>1, <2>2 DEF WaitsNext
  <2>6. Still
    BY <2>1, AloneFacts, SameIsStill
  <2> QED BY <2>3, <2>4, <2>5, <2>6, RestsOwn DEF AloneStep
<1>3. CASE Conclude
  <2>1. apply' = [a \in Actor |-> IF a = Watcher THEN Idle
                                  ELSE IF apply[a].stop = "linked"
                                       THEN [apply[a] EXCEPT !.stop = "free"] ELSE apply[a]]
    BY <1>3 DEF Conclude
  <2>2. apply'[Watcher] = Idle
    BY <2>1 DEF Actor
  <2>3. \A a \in Client : apply'[a].at = "idle"
    <3> SUFFICES ASSUME NEW a \in Client PROVE apply'[a].at = "idle"
      OBVIOUS
    <3>1. a \in Actor /\ a # Watcher /\ apply[a].at = "idle" /\ apply[a] \in Apply
      BY AloneFacts, FolderAssumption DEF ClientsRest, Actor
    <3> QED BY <2>1, <3>1 DEF Apply
  <2>4. UNCHANGED <<versions, drafts>> /\ apply[Watcher].at \in AtRest
    BY <1>3 DEF Conclude, AtRest
  <2> QED BY <2>2, <2>3, <2>4, AloneIdle
<1> QED BY <1>1, <1>2, <1>3 DEF Tick, Settle

LEMMA AloneSurroundings ==
    ASSUME Alone,
           \/ Deliver \/ Export \/ Switch \/ Restart \/ UNCHANGED vars
           \/ \E source \in Source : Edit(source) \/ Commit(source)
    PROVE  AloneStep
<1>1. CASE \/ Deliver \/ Export \/ Switch \/ UNCHANGED vars
           \/ \E source \in Source : Edit(source)
  <2>1. /\ UNCHANGED <<versions, drafts>>
        /\ apply' = Stopped(apply) \/ apply' = apply
    BY <1>1 DEF Deliver, Export, Switch, Edit, Written, vars
  <2> QED BY <2>1, AloneFacts, SameIsStill, AloneHeard
<1>2. CASE \E source \in Source : Commit(source)
  BY <1>2, AloneFacts, CommitIsStill, AloneHeard
<1>3. CASE Restart
  <2>1. setup.left.restarts # 0
    <3>1. /\ left \in [Kinds -> Nat] /\ "restarts" \in Kinds
          /\ left["restarts"] <= setup.left["restarts"] /\ left["restarts"] > 0
      BY <1>3, AloneFacts DEF BaseInv, FolderTypeOK, Kinds, Restart, Spend
    <3> QED BY <3>1
  <2>2. /\ apply'[Watcher] = Idle /\ \A a \in Client : apply'[a] = Idle
        /\ UNCHANGED <<versions, drafts>>
    BY <1>3 DEF Restart, Actor
  <2> QED BY <2>1, <2>2, AloneIdle DEF Idle
<1> QED BY <1>1, <1>2, <1>3

LEMMA SetupStays ==
    ASSUME [Next]_vars
    PROVE  UNCHANGED setup
<1>1. ASSUME NEW a \in Actor, Work(a)
      PROVE  UNCHANGED setup
  BY <1>1 DEF Work, AppendDraft, Render, Complete, Fail, Find, Save, MarkWorking, Publish, Check,
              Verify, Accept, Rollback
<1>2. ASSUME Tick
      PROVE  UNCHANGED setup
  BY <1>2 DEF Tick, Ignore, Look, Judge, Settle, Conclude
<1>3. ASSUME \E a \in Actor : Begin(a) \/ Breaks(a) \/ Leave(a)
      PROVE  UNCHANGED setup
  BY <1>3 DEF Begin, Breaks, Leave
<1>4. ASSUME \/ Deliver \/ Export \/ Switch \/ Restart \/ UNCHANGED vars
             \/ \E source \in Source : Edit(source) \/ Commit(source)
      PROVE  UNCHANGED setup
  BY <1>4 DEF Deliver, Export, Switch, Restart, Edit, Commit, vars
<1> QED BY <1>1, <1>2, <1>3, <1>4 DEF Next

(* What has failed stays failed.                                            *)
LEMMA FaultsFall ==
    ASSUME BaseInv, [Next]_vars
    PROVE  left'.faults <= left.faults /\ ((\E a \in Actor : Breaks(a)) => left'.faults < left.faults)
<1>1. left \in [Kinds -> Nat] /\ "faults" \in Kinds /\ left.faults \in Nat
  BY DEF BaseInv, FolderTypeOK, Kinds
<1>2. \A k \in Kinds : Spend(k) => left'.faults <= left.faults
  BY <1>1 DEF Spend
<1>3. Spend("faults") => left'.faults < left.faults
  BY <1>1 DEF Spend
<1>4. UNCHANGED left => left'.faults <= left.faults
  BY <1>1
<1>5. ASSUME NEW a \in Actor, Begin(a) PROVE UNCHANGED left \/ Spend("applies")
  BY <1>5 DEF Begin, Asked, Spend
<1>6. ASSUME NEW a \in Actor, Work(a) PROVE UNCHANGED left \/ Spend("faults")
  <2>1. CASE Accept(a)
    BY <2>1 DEF Accept
  <2>2. CASE ~Accept(a)
    BY <1>6, <2>2 DEF Work, AppendDraft, Render, Complete, Fail, Find, Save, MarkWorking, Publish,
                      Check, Verify, Rollback
  <2> QED BY <2>1, <2>2
<1>7. ASSUME NEW a \in Actor, Leave(a) PROVE Spend("leaves")
  BY <1>7 DEF Leave
<1>8. ASSUME NEW a \in Actor, Breaks(a) PROVE Spend("faults")
  BY <1>8 DEF Breaks
<1>9. ASSUME NEW source \in Source, Edit(source) \/ Commit(source)
      PROVE  Spend("edits") \/ Spend("commits")
  BY <1>9 DEF Edit, Commit
<1>10. ASSUME Tick \/ Deliver \/ UNCHANGED vars PROVE UNCHANGED left
  BY <1>10 DEF Tick, Ignore, Look, Judge, Settle, Conclude, Deliver, vars
<1>11. ASSUME Export \/ Switch \/ Restart
       PROVE  UNCHANGED left \/ Spend("exports") \/ Spend("switches") \/ Spend("restarts")
  BY <1>11 DEF Export, Switch, Restart
<1>12. {"applies", "leaves", "edits", "commits", "exports", "switches", "restarts"} \subseteq Kinds
  BY DEF Kinds
<1>13. UNCHANGED left \/ \E k \in Kinds : Spend(k)
  BY <1>1, <1>5, <1>6, <1>7, <1>8, <1>9, <1>10, <1>11, <1>12 DEF Next
<1> QED BY <1>2, <1>3, <1>4, <1>8, <1>13

LEMMA AloneStepKeeps ==
    ASSUME Alone, [Next]_vars, Unbroken'
    PROVE  AloneStep
<1>1. CASE \E a \in Actor : Begin(a) \/ Work(a) \/ Breaks(a) \/ Leave(a)
  <2>1. \A a \in Actor : ~Leave(a)
    BY ClientsDoNothing DEF Leave
  <2>2. \A a \in Actor : ~Breaks(a)
    <3>1. setup' = setup /\ left'.faults = left.faults
      BY SetupStays DEF Alone, Unbroken
    <3>2. left.faults \in Nat
      BY DEF Alone, BaseInv, FolderTypeOK, Kinds
    <3> QED BY <3>1, <3>2, FaultsFall DEF Alone
  <2> QED BY <1>1, <2>1, <2>2, AloneBegin, AloneWork
<1> QED BY <1>1, AloneTick, AloneSurroundings DEF Next

LEMMA AloneInitStep ==
    /\ Init => AloneInv
    /\ BaseInv /\ AloneInv /\ [Next]_vars => AloneInv'
<1>1. ASSUME Init PROVE AloneInv
  <2>1. /\ \A a \in Actor : apply[a] = Idle /\ drafts[a] = 0
        /\ DOMAIN versions = {1} /\ versions[1].status = "success"
    BY <1>1 DEF Init
  <2> QED BY <2>1 DEF AloneInv, ClientsRest, OwnVersions, Held, Waits, Idle, Actor, BeforePreview,
                      WithPreview, Early
<1>2. ASSUME BaseInv, AloneInv, [Next]_vars PROVE AloneInv'
  <2>1. UNCHANGED setup
    BY <1>2, SetupStays
  <2>2. Unbroken' => Unbroken
    <3>1. left.faults \in Nat /\ left.faults <= setup.left.faults
      BY <1>2 DEF BaseInv, FolderTypeOK, Kinds
    <3>2. left'.faults <= left.faults /\ left'.faults \in Nat
      <4>1. BaseInv'
        BY <1>2, StepBase
      <4> QED BY <1>2, <4>1, FaultsFall DEF BaseInv, FolderTypeOK, Kinds
    <3>3. setup.left.faults \in Nat
      BY <1>2, SetupAssumption DEF BaseInv, FolderTypeOK, SetupType
    <3> QED BY <2>1, <3>1, <3>2, <3>3 DEF Unbroken
  <2>3. setup.left.applies = 0 /\ Unbroken' => AloneStep
    BY <1>2, <2>2, AloneStepKeeps DEF Alone
  <2> QED BY <2>1, <2>3, AloneNext DEF AloneStep
<1> QED BY <1>1, <1>2

(* Where no client applies and nothing has failed yet, the watcher's apply  *)
(* knows of every version that it left waiting for a verification.          *)
THEOREM FolderAlone == Spec => []AloneInv
<1> QED BY AloneInitStep, FolderBase, PTL DEF Spec

LEMMA BaseImpliesSound ==
    ASSUME BaseInv, AloneInv
    PROVE  FolderIsSound
<1>1. /\ setup \in Setups /\ versions \in Seq(Version) /\ IsOf(manifest.of, manifest.digest)
      /\ \A a \in Actor : drafts[a] \in {0} \cup DOMAIN versions
      /\ drafts \in [Actor -> Nat] /\ manifest \in Manifest /\ file \in Source
      /\ failure \in Contents
  BY DEF BaseInv, FolderTypeOK
<1>2. TypeOK
  <2>1. \A v \in DOMAIN versions : /\ versions[v].source \in Source
                                   /\ versions[v].status \in Statuses
                                   /\ versions[v].by \in Actor \cup {None}
    BY <1>1, VersionFacts
  <2>2. drafts \in [Actor -> {0} \cup DOMAIN versions]
    BY <1>1
  <2> QED BY <1>1, <2>1, <2>2 DEF TypeOK, IsOf, Manifest, Contents
<1>3. ManifestIsOfItsVersion
  BY <1>1 DEF IsOf, ManifestIsOfItsVersion
<1>4. WorkingIsHeld
  <2> SUFFICES ASSUME setup.left.applies + setup.left.restarts = 0, Unbroken,
                      NEW v \in DOMAIN versions, versions[v].status = "working"
               PROVE  \/ \E a \in Actor : v \in {apply[a].draft, apply[a].preview}
                      \/ Superseded(v)
    BY DEF WorkingIsHeld
  <2>1. setup.left.applies \in Nat /\ setup.left.restarts \in Nat
    BY <1>1, SetupAssumption DEF SetupType
  <2>2. setup.left.applies = 0 /\ setup.left.restarts = 0
    BY <2>1
  <2> QED BY <2>2 DEF AloneInv, Held, Waits, Actor
<1> QED BY <1>2, <1>3, <1>4 DEF FolderIsSound

(* The manifest names a version of its content, whatever fails, and as long *)
(* as no read or write has failed, no apply that has ended leaves a version *)
(* waiting for a verification that nobody will make                         *)
(* (handle_project_folder_apply, handle_macro_preview_render).              *)
THEOREM FolderStaysSound == Spec => []FolderIsSound
<1> QED BY FolderBase, FolderAlone, BaseImpliesSound, PTL

-----------------------------------------------------------------------------
(* Where every change is heard at once *)

(* A content that may be remembered as failed.                              *)
Known(s) ==
    \/ Verdict[s] \in {"invalid", "rejected"}
    \/ Verdict[s] = "tolerated" /\ setup.left.restarts > 0

(* What the watcher's apply p says of the content that the watcher saw: an  *)
(* apply that was not interrupted works on it, and fails for its verdict.   *)
CalmApply(p) ==
    /\ p.at = "idle" => p.stop = "free"
    /\ p.stop = "halted" => token.raised
    /\ p.at \notin AtRest /\ ~token.raised => p.src = memory.seen
    /\ p.at = "fail" => \/ token.raised /\ p.result = "changed"
                        \/ p.result = "invalid" /\ Verdict[p.src] = "invalid"
    /\ p.at = "rollback" => token.raised \/ Verdict[p.src] = "rejected"
    /\ p.at = "done" /\ p.result # "ok" => token.raised \/ Known(memory.seen)

(* An apply that nobody interrupted finds the file as the watcher saw it.   *)
CalmToken == memory.pc = "apply" => token.on /\ (token.raised \/ file = memory.seen)

(* A version of the watcher that failed has a content that may be           *)
(* remembered, or is verified and its tolerated content not yet accepted.   *)
Judging == {"checkAgain", "rollback", "accept"}
Wrong(v) == v \in DOMAIN versions /\ versions[v].by = Watcher /\ versions[v].status = "error"
CalmErrors(p) ==
    \A v : Wrong(v) => \/ Known(versions[v].source)
                       \/ /\ v = p.preview /\ p.at \in Judging
                          /\ Verdict[versions[v].source] = "tolerated"

CalmFailed == \A s \in {memory.failed, failure} : s = None \/ Known(s)

CalmInv ==
    Calm => /\ ~news
            /\ CalmToken /\ CalmFailed
            /\ CalmApply(apply[Watcher]) /\ CalmErrors(apply[Watcher])

(* The same of the state that a step leads to.                              *)
CalmApplyNext(p) ==
    /\ p.at = "idle" => p.stop = "free"
    /\ p.stop = "halted" => token'.raised
    /\ p.at \notin AtRest /\ ~token'.raised => p.src = memory'.seen
    /\ p.at = "fail" => \/ token'.raised /\ p.result = "changed"
                        \/ p.result = "invalid" /\ Verdict[p.src] = "invalid"
    /\ p.at = "rollback" => token'.raised \/ Verdict[p.src] = "rejected"
    /\ p.at = "done" /\ p.result # "ok" => token'.raised \/ Known(memory'.seen)
CalmTokenNext == memory'.pc = "apply" => token'.on /\ (token'.raised \/ file' = memory'.seen)
WrongNext(v) ==
    v \in DOMAIN versions' /\ versions'[v].by = Watcher /\ versions'[v].status = "error"
CalmErrorsNext(p) ==
    \A v : WrongNext(v) => \/ Known(versions'[v].source)
                           \/ /\ v = p.preview /\ p.at \in Judging
                              /\ Verdict[versions'[v].source] = "tolerated"
CalmFailedNext == \A s \in {memory'.failed, failure'} : s = None \/ Known(s)

CalmStep ==
    /\ ~news'
    /\ CalmTokenNext /\ CalmFailedNext
    /\ CalmApplyNext(apply'[Watcher]) /\ CalmErrorsNext(apply'[Watcher])

LEMMA CalmNext ==
    ASSUME UNCHANGED setup, Calm => CalmStep
    PROVE  CalmInv'
<1>1. Calm' <=> Calm
  BY DEF Calm
<1>2. \A s : Known(s)' <=> Known(s)
  BY DEF Known, Verdict
<1> QED BY <1>1, <1>2 DEF CalmInv, CalmStep, CalmApply, CalmApplyNext, CalmToken, CalmTokenNext,
                          CalmErrors, CalmErrorsNext, Wrong, WrongNext, CalmFailed,
                          CalmFailedNext, Verdict

Calmly == BaseInv /\ AloneInv /\ CalmInv /\ Calm

LEMMA CalmFacts ==
    ASSUME Calmly
    PROVE  /\ Alone /\ BaseInv /\ ~news /\ ~setup.late /\ setup.left.faults = 0
           /\ left.faults = 0
           /\ CalmToken /\ CalmFailed
           /\ CalmApply(apply[Watcher]) /\ CalmErrors(apply[Watcher])
           /\ memory.pc = "apply" <=> apply[Watcher].at # "idle"
<1>1. setup \in Setups /\ left \in [Kinds -> Nat] /\ \A k \in Kinds : left[k] <= setup.left[k]
  BY DEF Calmly, BaseInv, FolderTypeOK
<1>2. /\ setup.left.applies \in Nat /\ setup.left.faults \in Nat
      /\ ~setup.late /\ setup.left.applies + setup.left.faults = 0
  BY <1>1, SetupAssumption DEF SetupType, Calmly, Calm
<1>3. setup.left.applies = 0 /\ setup.left.faults = 0
  BY <1>2
<1>4. left.faults = 0
  <2>1. "faults" \in Kinds
    BY DEF Kinds
  <2>2. left["faults"] \in Nat /\ left["faults"] <= setup.left["faults"]
    BY <1>1, <2>1
  <2> QED BY <1>3, <2>2
<1>5. /\ BaseInv /\ CalmInv /\ Calm /\ AloneInv
      /\ memory.pc = "apply" <=> apply[Watcher].at # "idle"
  BY DEF Calmly, BaseInv
<1> QED BY <1>2, <1>3, <1>4, <1>5 DEF CalmInv, Alone, Unbroken

(* No version of the watcher begins to be a failed one.                     *)
KeepsWrong == VersionsLast /\ \A v : WrongNext(v) => Wrong(v)

LEMMA SameKeepsWrong ==
    ASSUME BaseInv, UNCHANGED versions
    PROVE  KeepsWrong
<1>1. VersionsLast
  BY SameVersionsLast
<1> QED BY <1>1 DEF KeepsWrong, Wrong, WrongNext

LEMMA MarkKeepsWrong ==
    ASSUME BaseInv, NEW u \in DOMAIN versions, NEW status \in Statuses \ {"error"},
           versions' = Marked(u, status)
    PROVE  KeepsWrong /\ ~WrongNext(u)
<1>1. /\ VersionsLast /\ DOMAIN versions' = DOMAIN versions
      /\ \A v \in DOMAIN versions :
           v # u => versions'[v].status = versions[v].status
      /\ versions'[u].status = IF versions[u].status = "deleted" THEN "deleted" ELSE status
      /\ \A v \in DOMAIN versions : versions'[v].by = versions[v].by
  BY MarkIs
<1> QED BY <1>1 DEF KeepsWrong, Wrong, WrongNext

LEMMA AppendKeepsWrong ==
    ASSUME BaseInv, NEW source \in Source, NEW status \in Statuses \ {"error"},
           NEW by \in Actor \cup {None}, versions' = Appended(source, status, by)
    PROVE  KeepsWrong
<1>1. /\ VersionsLast
      /\ Len(versions') = Len(versions) + 1 /\ DOMAIN versions' = 1 .. Len(versions')
      /\ \A u \in DOMAIN versions : versions'[u] = versions[u]
      /\ versions'[Len(versions')] = [source |-> source, status |-> status, by |-> by]
  BY AppendedLasts
<1>2. Len(versions) \in Nat /\ DOMAIN versions = 1 .. Len(versions)
  BY VersionFacts DEF BaseInv, FolderTypeOK
<1>3. versions'[Len(versions')].status # "error"
  BY <1>1
<1>4. \A v \in DOMAIN versions' : v \in DOMAIN versions \/ v = Len(versions')
  BY <1>1, <1>2
<1> QED BY <1>1, <1>3, <1>4 DEF KeepsWrong, Wrong, WrongNext

(* Where no version waits for its acceptance, all that failed may be        *)
(* remembered; where one does, it still does.                               *)
LEMMA ErrorsKept ==
    ASSUME Calmly, KeepsWrong, NEW p,
           \/ apply[Watcher].at \notin Judging
           \/ ~WrongNext(apply[Watcher].preview)
           \/ p.preview = apply[Watcher].preview /\ p.at \in Judging
    PROVE  CalmErrorsNext(p)
<1>1. CalmErrors(apply[Watcher])
  BY CalmFacts
<1> SUFFICES ASSUME NEW v, WrongNext(v)
             PROVE  \/ Known(versions'[v].source)
                    \/ /\ v = p.preview /\ p.at \in Judging
                       /\ Verdict[versions'[v].source] = "tolerated"
  BY DEF CalmErrorsNext
<1>2. Wrong(v) /\ versions'[v].source = versions[v].source
  BY DEF KeepsWrong, VersionsLast, Wrong
<1> QED BY <1>1, <1>2 DEF CalmErrors

(* An apply goes on from one place to another.                              *)
LEMMA CalmGoes ==
    ASSUME Calmly, apply[Watcher].at \notin AtRest,
           UNCHANGED <<file, failure, memory, token, news>>,
           NEW p, apply'[Watcher] = p, p.at \notin AtRest, p.src = apply[Watcher].src,
           p.stop = "halted" => token.raised,
           p.at = "fail" => \/ token.raised /\ p.result = "changed"
                            \/ p.result = "invalid" /\ Verdict[p.src] = "invalid",
           p.at = "rollback" => token.raised \/ Verdict[p.src] = "rejected",
           CalmErrorsNext(p)
    PROVE  CalmStep
<1>1. CalmApplyNext(p)
  BY CalmFacts DEF CalmApply, CalmApplyNext, AtRest
<1>2. CalmTokenNext /\ CalmFailedNext /\ ~news'
  BY CalmFacts DEF CalmToken, CalmTokenNext, CalmFailed, CalmFailedNext
<1> QED BY <1>1, <1>2 DEF CalmStep

(* An apply returns.                                                        *)
LEMMA CalmEnds ==
    ASSUME Calmly, apply[Watcher].at \notin AtRest,
           UNCHANGED <<file, failure, memory, token, news>>,
           NEW result \in {"ok", "error"},
           apply' = [apply EXCEPT ![Watcher] = Ended(Watcher, result)],
           result # "ok" => token.raised \/ Known(memory.seen),
           CalmErrorsNext(Ended(Watcher, result))
    PROVE  CalmStep
<1> DEFINE p == Ended(Watcher, result)
<1>1. p.at = "done" /\ p.result = result /\ p.stop = "free"
  BY RestFacts DEF Actor
<1>2. apply'[Watcher] = p
  BY CalmFacts, AloneFacts
<1> HIDE DEF p
<1>3. CalmApplyNext(p)
  BY <1>1 DEF CalmApplyNext, AtRest
<1>4. CalmTokenNext /\ CalmFailedNext /\ ~news'
  BY CalmFacts DEF CalmToken, CalmTokenNext, CalmFailed, CalmFailedNext
<1> QED BY <1>2, <1>3, <1>4 DEF CalmStep, p

LEMMA CalmAppendDraft ==
    ASSUME Calmly, AppendDraft(Watcher)
    PROVE  CalmStep
<1> DEFINE q == apply[Watcher]
           p == apply'[Watcher]
<1>1. /\ q \in Apply /\ apply \in [Actor -> Apply] /\ Watcher \in Actor /\ BaseInv
      /\ q.at = "append" /\ q.at \notin AtRest \cup Judging /\ q.src \in Source /\ CalmApply(q)
  BY CalmFacts, AloneFacts DEF AppendDraft, AtRest, Judging, Grounded
<1>2. p.at = "render" /\ p.src = q.src /\ p.stop = q.stop
  BY <1>1 DEF AppendDraft, Apply
<1>3. KeepsWrong
  <2>1. "working" \in Statuses \ {"error"} /\ Watcher \in Actor \cup {None}
    BY <1>1 DEF Statuses
  <2> QED BY <1>1, <2>1, SameKeepsWrong, AppendKeepsWrong DEF AppendDraft
<1>4. CalmErrorsNext(p)
  BY <1>1, <1>3, ErrorsKept
<1>5. UNCHANGED <<file, failure, memory, token, news>>
  BY DEF AppendDraft, folder
<1> HIDE DEF p
<1>6. /\ p.at \notin AtRest /\ p.at # "fail" /\ p.at # "rollback"
      /\ p.stop = "halted" => token.raised
  BY <1>1, <1>2 DEF AtRest, CalmApply
<1> QED BY <1>1, <1>2, <1>4, <1>5, <1>6, CalmGoes DEF p

LEMMA CalmRender ==
    ASSUME Calmly, Render(Watcher)
    PROVE  CalmStep
<1> DEFINE q == apply[Watcher]
           p == apply'[Watcher]
<1>1. /\ q \in Apply /\ apply \in [Actor -> Apply] /\ Watcher \in Actor /\ BaseInv
      /\ q.at = "render" /\ q.at \notin AtRest \cup Judging /\ CalmApply(q)
  BY CalmFacts, AloneFacts DEF Render, AtRest, Judging
<1>2. p.at = "rendering" /\ p.src = q.src /\ p.stop \in {q.stop, Holds(Watcher)}
  BY <1>1 DEF Render, Apply
<1>3. CalmErrorsNext(p)
  BY <1>1, SameKeepsWrong, ErrorsKept DEF Render
<1>4. UNCHANGED <<file, failure, memory, token, news>>
  BY DEF Render, folder
<1> HIDE DEF p
<1>5. /\ p.at \notin AtRest /\ p.at # "fail" /\ p.at # "rollback"
      /\ p.stop = "halted" => token.raised
  BY <1>1, <1>2 DEF AtRest, CalmApply, Holds
<1> QED BY <1>1, <1>2, <1>3, <1>4, <1>5, CalmGoes DEF p

LEMMA CalmComplete ==
    ASSUME Calmly, Complete(Watcher)
    PROVE  CalmStep
<1> DEFINE q == apply[Watcher]
           p == apply'[Watcher]
<1>1. /\ Watcher \in Actor /\ BaseInv
      /\ q.at = "rendering" /\ q.at \notin AtRest \cup Judging /\ CalmApply(q)
  BY CalmFacts, AloneFacts DEF Complete, AtRest, Judging
<1>2. PICK outcome \in Outcomes(Watcher) : apply' = Answered(Watcher, outcome)
  BY DEF Complete
<1>3. /\ outcome \in {"rendered", "invalid", "changed", "dropped"}
      /\ outcome = "invalid" => Verdict[q.src] = "invalid"
      /\ outcome = "changed" => q.stop = "halted"
      /\ outcome # "dropped"
  BY <1>2 DEF Outcomes
<1>4. /\ p.at \in {"find", "fail"} /\ p.src = q.src /\ p.stop = "free" /\ p.result = outcome
      /\ p.at = "find" <=> outcome = "rendered"
  BY <1>1, <1>2, <1>3, AnsweredFacts
<1>5. CalmErrorsNext(p)
  BY <1>1, SameKeepsWrong, ErrorsKept DEF Complete
<1>6. UNCHANGED <<file, failure, memory, token, news>>
  BY DEF Complete, folder
<1> HIDE DEF p
<1>7. /\ p.at \notin AtRest /\ p.at # "rollback" /\ p.stop # "halted"
      /\ p.at = "fail" => \/ token.raised /\ p.result = "changed"
                          \/ p.result = "invalid" /\ Verdict[p.src] = "invalid"
  BY <1>1, <1>3, <1>4 DEF AtRest, CalmApply
<1> QED BY <1>1, <1>4, <1>5, <1>6, <1>7, CalmGoes DEF p

LEMMA CalmFail ==
    ASSUME Calmly, Fail(Watcher)
    PROVE  CalmStep
<1> DEFINE q == apply[Watcher]
           p == Ended(Watcher, "error")
<1>1. /\ BaseInv /\ q.at = "fail" /\ q.at \notin AtRest \cup Judging /\ CalmApply(q)
      /\ q.draft \in DOMAIN versions /\ versions[q.draft].source = q.src
  BY CalmFacts, AloneFacts DEF Fail, AtRest, Judging, Grounded, IsOf
<1>2. \/ token.raised /\ q.result = "changed"
      \/ q.result = "invalid" /\ Verdict[q.src] = "invalid"
  BY <1>1 DEF CalmApply
<1>3. token.raised \/ Known(memory.seen)
  BY <1>1, <1>2 DEF CalmApply, Known
<1>4. CalmErrorsNext(p)
  <2>1. CASE ~q.owns
    <3>1. UNCHANGED versions
      BY <2>1 DEF Fail
    <3> QED BY <1>1, <3>1, SameKeepsWrong, ErrorsKept
  <2>2. CASE q.owns /\ q.result = "changed"
    <3>1. "deleted" \in Statuses \ {"error"} /\ versions' = Marked(q.draft, "deleted")
      BY <2>2 DEF Fail, Statuses
    <3> QED BY <1>1, <3>1, MarkKeepsWrong, ErrorsKept
  <2>3. CASE q.owns /\ q.result # "changed"
    <3>1. "error" \in Statuses /\ versions' = Marked(q.draft, "error")
      BY <2>3 DEF Fail, Statuses
    <3>2. /\ VersionsLast /\ DOMAIN versions' = DOMAIN versions
          /\ \A v \in DOMAIN versions :
               v # q.draft => versions'[v].status = versions[v].status
          /\ \A v \in DOMAIN versions : versions'[v].by = versions[v].by
      BY <1>1, <3>1, MarkIs
    <3>3. \A v : WrongNext(v) => /\ versions'[v].source = versions[v].source
                                 /\ v = q.draft \/ Wrong(v)
      BY <3>2 DEF Wrong, WrongNext, VersionsLast
    <3>4. Known(q.src)
      BY <1>2, <2>3 DEF Known
    <3>5. \A v : Wrong(v) => Known(versions[v].source)
      BY <1>1, CalmFacts DEF CalmErrors
    <3> QED BY <1>1, <3>3, <3>4, <3>5 DEF CalmErrorsNext
  <2> QED BY <2>1, <2>2, <2>3
<1>5. "error" \in {"ok", "error"} /\ apply' = [apply EXCEPT ![Watcher] = Ended(Watcher, "error")]
  BY DEF Fail
<1>6. UNCHANGED <<file, failure, memory, token, news>>
  BY DEF Fail, folder
<1> QED BY <1>1, <1>3, <1>4, <1>5, <1>6, CalmEnds

LEMMA CalmFindSave ==
    ASSUME Calmly, Find(Watcher) \/ Save(Watcher) \/ MarkWorking(Watcher) \/ Publish(Watcher)
    PROVE  CalmStep
<1> DEFINE q == apply[Watcher]
           p == apply'[Watcher]
<1>1. /\ q \in Apply /\ apply \in [Actor -> Apply] /\ Watcher \in Actor /\ BaseInv /\ Alone
      /\ q.at \in {"find", "update", "create", "mark", "publish"}
      /\ q.at \notin AtRest \cup Judging /\ CalmApply(q) /\ q.src \in Source
      /\ Publish(Watcher) => p.at = "check"
      /\ IsOf(q.draft, q.src)
  <2>1. CalmApply(q) /\ Alone
    BY CalmFacts
  <2>2. q.at \in {"find", "update", "create", "mark", "publish"}
    BY DEF Find, Save, MarkWorking, Publish
  <2> QED BY <2>1, <2>2, AloneFacts, AlonePublishCheck DEF AtRest, Judging, Grounded
<1>2. p.src = q.src /\ p.stop = q.stop /\ p.at \in BeforePreview \cup WithPreview
      /\ p.at # "fail" /\ p.at # "rollback" /\ p.at \notin AtRest
  <2>1. CASE Find(Watcher)
    BY <1>1, <2>1 DEF Find, Apply, BeforePreview, WithPreview, AtRest
  <2>2. CASE Save(Watcher)
    BY <1>1, <2>2 DEF Save, Apply, WithPreview, AtRest
  <2>3. CASE MarkWorking(Watcher)
    BY <1>1, <2>3 DEF MarkWorking, Apply, WithPreview, AtRest
  <2>4. CASE Publish(Watcher)
    <3>1. Watcher \notin Client /\ p.at = "check"
      BY <1>1, <2>4, FolderAssumption
    <3> QED BY <1>1, <2>4, <3>1 DEF Publish, Apply, WithPreview, AtRest
  <2> QED BY <2>1, <2>2, <2>3, <2>4
<1>3. KeepsWrong
  <2>1. /\ "success" \in Statuses \ {"error"} /\ "working" \in Statuses \ {"error"}
        /\ Watcher \in Actor \cup {None}
    BY <1>1 DEF Statuses
  <2>2. CASE Save(Watcher)
    <3>1. \/ versions' = Marked(q.draft, "success") /\ q.draft \in DOMAIN versions
          \/ versions' = Appended(q.src, "success", Watcher)
      BY <2>2 DEF Save, Live
    <3> QED BY <1>1, <2>1, <3>1, MarkKeepsWrong, AppendKeepsWrong
  <2>3. CASE MarkWorking(Watcher)
    <3>1. versions' = Marked(q.preview, "working") /\ q.at \in WithPreview
      BY <2>3 DEF MarkWorking, WithPreview
    <3> QED BY <1>1, <2>1, <3>1, PreviewFacts, MarkKeepsWrong
  <2>4. CASE Find(Watcher) \/ Publish(Watcher)
    BY <1>1, <2>4, SameKeepsWrong DEF Find, Publish
  <2> QED BY <2>2, <2>3, <2>4
<1>4. CalmErrorsNext(p)
  BY <1>1, <1>3, ErrorsKept
<1>5. UNCHANGED <<file, failure, memory, token, news>>
  BY FolderAssumption, <1>1, <1>2 DEF Find, Save, MarkWorking, Publish, folder
<1> HIDE DEF p
<1>6. p.stop = "halted" => token.raised
  BY <1>1, <1>2 DEF CalmApply
<1> QED BY <1>1, <1>2, <1>4, <1>5, <1>6, CalmGoes DEF p

(* An apply that nobody interrupted finds its own content in the file.      *)
LEMMA CalmFile ==
    ASSUME Calmly, apply[Watcher].at \notin AtRest, ~token.raised
    PROVE  file = apply[Watcher].src /\ apply[Watcher].src = memory.seen
<1>1. memory.pc = "apply"
  BY CalmFacts DEF AtRest
<1> QED BY <1>1, CalmFacts DEF CalmToken, CalmApply

LEMMA CalmCheck ==
    ASSUME Calmly, Check(Watcher)
    PROVE  CalmStep
<1> DEFINE q == apply[Watcher]
           p == apply'[Watcher]
<1>1. /\ q \in Apply /\ apply \in [Actor -> Apply] /\ Watcher \in Actor /\ BaseInv
      /\ q.at \in {"check", "checkAgain"} /\ q.at \notin AtRest /\ CalmApply(q)
  BY CalmFacts, AloneFacts DEF Check, AtRest
<1>2. /\ p.src = q.src /\ p.stop = q.stop /\ p.preview = q.preview
      /\ p.at = IF file # q.src THEN "rollback"
                ELSE IF q.at = "check" THEN "verify"
                ELSE IF Verdict[q.src] = "rejected" THEN "rollback" ELSE "accept"
  BY <1>1 DEF Check, Apply
<1>3. CalmErrorsNext(p)
  <2>1. KeepsWrong
    BY <1>1, SameKeepsWrong DEF Check
  <2>2. q.at \notin Judging \/ (p.preview = q.preview /\ p.at \in Judging)
    BY <1>1, <1>2 DEF Judging
  <2> QED BY <2>1, <2>2, ErrorsKept
<1>4. UNCHANGED <<file, failure, memory, token, news>>
  BY DEF Check, folder
<1>5. p.at = "rollback" => token.raised \/ Verdict[p.src] = "rejected"
  BY <1>1, <1>2, CalmFile
<1> HIDE DEF p
<1>6. p.at \notin AtRest /\ p.at # "fail" /\ (p.stop = "halted" => token.raised)
  BY <1>1, <1>2 DEF AtRest, CalmApply
<1> QED BY <1>1, <1>2, <1>3, <1>4, <1>5, <1>6, CalmGoes DEF p

LEMMA CalmVerify ==
    ASSUME Calmly, Verify(Watcher)
    PROVE  CalmStep
<1> DEFINE q == apply[Watcher]
           p == apply'[Watcher]
<1>1. /\ q \in Apply /\ apply \in [Actor -> Apply] /\ Watcher \in Actor /\ BaseInv /\ Alone
      /\ q.at = "verify" /\ q.at \in WithPreview /\ q.at \notin AtRest \cup Judging
      /\ CalmApply(q) /\ CalmErrors(q) /\ q.src \in Source
  BY CalmFacts, AloneFacts DEF Verify, WithPreview, AtRest, Judging, Grounded
<1>2. /\ q.preview \in DOMAIN versions /\ q.preview \in Live
      /\ versions[q.preview].source = q.src
  BY <1>1, PreviewFacts
<1> DEFINE status == IF Verdict[q.src] = "passes" THEN "success" ELSE "error"
<1>3. /\ versions' = Marked(q.preview, status) /\ status \in Statuses
      /\ apply' = [apply EXCEPT ![Watcher].at = "checkAgain"]
  BY <1>2 DEF Verify, Statuses
<1>4. p.at = "checkAgain" /\ p.src = q.src /\ p.stop = q.stop /\ p.preview = q.preview
  BY <1>1, <1>3 DEF Apply
<1>5. /\ VersionsLast /\ DOMAIN versions' = DOMAIN versions
      /\ \A v \in DOMAIN versions :
           v # q.preview => versions'[v].status = versions[v].status
      /\ versions'[q.preview].status =
           IF versions[q.preview].status = "deleted" THEN "deleted" ELSE status
      /\ \A v \in DOMAIN versions : versions'[v].by = versions[v].by
  <2> HIDE DEF status
  <2> QED BY <1>1, <1>2, <1>3, MarkIs
<1>6. CalmErrorsNext(p)
  <2>1. Verdict[q.src] \in Verdicts
    <3>1. setup \in SetupType
      BY <1>1, SetupAssumption DEF BaseInv, FolderTypeOK
    <3> QED BY <1>1, <3>1 DEF SetupType, Verdict
  <2>2. ASSUME NEW v, WrongNext(v), v # q.preview
        PROVE  Known(versions'[v].source)
    <3>1. Wrong(v) /\ versions'[v].source = versions[v].source
      BY <1>5, <2>2 DEF Wrong, WrongNext, VersionsLast
    <3> QED BY <1>1, <3>1 DEF CalmErrors
  <2>3. ASSUME WrongNext(q.preview)
        PROVE  Known(q.src) \/ Verdict[q.src] = "tolerated"
    <3>1. Verdict[q.src] # "passes"
      BY <1>5, <2>3 DEF WrongNext
    <3> QED BY <2>1, <3>1 DEF Known, Verdicts
  <2>4. versions'[q.preview].source = q.src
    BY <1>2, <1>5 DEF VersionsLast
  <2>5. p.at \in Judging
    BY <1>4 DEF Judging
  <2> HIDE DEF p
  <2> QED BY <1>4, <2>2, <2>3, <2>4, <2>5 DEF CalmErrorsNext
<1>7. UNCHANGED <<file, failure, memory, token, news>>
  BY DEF Verify, folder
<1> HIDE DEF p
<1>8. /\ p.at \notin AtRest /\ p.at # "fail" /\ p.at # "rollback"
      /\ p.stop = "halted" => token.raised
  BY <1>1, <1>4 DEF AtRest, CalmApply
<1> QED BY <1>1, <1>4, <1>6, <1>7, <1>8, CalmGoes DEF p

LEMMA CalmAccept ==
    ASSUME Calmly, Accept(Watcher)
    PROVE  CalmStep
<1> DEFINE q == apply[Watcher]
           p == Ended(Watcher, "ok")
<1>1. /\ BaseInv /\ Alone /\ q.at = "accept" /\ q.at \in WithPreview /\ q.at \notin AtRest
      /\ CalmErrors(q) /\ left.faults = 0
  BY CalmFacts DEF Accept, WithPreview, AtRest
<1>2. /\ q.preview \in DOMAIN versions /\ q.preview \in Live
      /\ versions[q.preview].source = q.src
  BY <1>1, PreviewFacts
<1>3. apply' = [apply EXCEPT ![Watcher] = p]
  BY <1>1, <1>2 DEF Accept, Spend
<1>4. CalmErrorsNext(p)
  <2>1. CASE Verdict[q.src] = "tolerated"
    <3>1. versions' = Marked(q.preview, "success") /\ "success" \in Statuses \ {"error"}
      BY <1>2, <2>1 DEF Accept, Statuses
    <3> QED BY <1>1, <1>2, <3>1, MarkKeepsWrong, ErrorsKept
  <2>2. CASE Verdict[q.src] # "tolerated"
    <3>1. UNCHANGED versions
      BY <1>2, <2>2 DEF Accept
    <3>2. ASSUME NEW v, Wrong(v)
          PROVE  Known(versions[v].source)
      BY <1>1, <1>2, <2>2, <3>2 DEF CalmErrors
    <3> QED BY <3>1, <3>2 DEF CalmErrorsNext, Wrong, WrongNext
  <2> QED BY <2>1, <2>2
<1>5. UNCHANGED <<file, failure, memory, token, news>> /\ "ok" \in {"ok", "error"}
  BY DEF Accept
<1> QED BY <1>1, <1>3, <1>4, <1>5, CalmEnds

LEMMA CalmRollback ==
    ASSUME Calmly, Rollback(Watcher)
    PROVE  CalmStep
<1> DEFINE q == apply[Watcher]
           p == Ended(Watcher, "error")
<1>1. /\ BaseInv /\ Alone /\ q.at = "rollback" /\ q.at \in WithPreview /\ q.at \notin AtRest
      /\ CalmApply(q)
  BY CalmFacts DEF Rollback, WithPreview, AtRest
<1>2. q.preview \in DOMAIN versions
  BY <1>1, PreviewFacts
<1>3. token.raised \/ Known(memory.seen)
  BY <1>1, CalmFile DEF CalmApply, Known
<1>4. CalmErrorsNext(p)
  <2>1. versions' = Marked(q.preview, "deleted") /\ "deleted" \in Statuses \ {"error"}
    BY DEF Rollback, Statuses
  <2> QED BY <1>1, <1>2, <2>1, MarkKeepsWrong, ErrorsKept
<1>5. /\ UNCHANGED <<file, failure, memory, token, news>> /\ "error" \in {"ok", "error"}
      /\ apply' = [apply EXCEPT ![Watcher] = p]
  BY DEF Rollback
<1> QED BY <1>1, <1>3, <1>4, <1>5, CalmEnds

(* What the watcher's apply does after it began.                            *)
LEMMA CalmWork ==
    ASSUME Calmly, Work(Watcher)
    PROVE  CalmStep
<1>1. CASE AppendDraft(Watcher) \/ Render(Watcher) \/ Complete(Watcher) \/ Fail(Watcher)
  BY <1>1, CalmAppendDraft, CalmRender, CalmComplete, CalmFail
<1>2. CASE Find(Watcher) \/ Save(Watcher) \/ MarkWorking(Watcher) \/ Publish(Watcher)
  BY <1>2, CalmFindSave
<1>3. CASE Check(Watcher) \/ Verify(Watcher) \/ Accept(Watcher) \/ Rollback(Watcher)
  BY <1>3, CalmCheck, CalmVerify, CalmAccept, CalmRollback
<1> QED BY <1>1, <1>2, <1>3 DEF Work

LEMMA CalmBegin ==
    ASSUME Calmly, Begin(Watcher)
    PROVE  CalmStep
<1> DEFINE q == apply[Watcher]
           p == apply'[Watcher]
<1>1. /\ apply \in [Actor -> Apply] /\ Watcher \in Actor /\ BaseInv
      /\ q.at = "begin" /\ q.at \notin Judging /\ memory.pc = "apply"
  <2>1. q.at = "begin"
    BY FolderAssumption DEF Begin, Asked
  <2> QED BY <2>1, CalmFacts, AloneFacts DEF Judging
<1>2. /\ \/ p.at = "done" /\ p.result = "ok"
         \/ p.at = "append" /\ p.src = file
      /\ p.stop = "free"
  <2> DEFINE begun == [Idle EXCEPT !.at = "append", !.src = file, !.was = manifest, !.base = Latest]
             ended == Ended(Watcher, "ok")
  <2>1. /\ begun.at = "append" /\ begun.src = file /\ begun.stop = "free"
        /\ ended.at = "done" /\ ended.result = "ok" /\ ended.stop = "free"
    BY DEF Ended, Idle
  <2>2. p = begun \/ p = ended
    BY <1>1 DEF Begin
  <2> HIDE DEF begun, ended, p
  <2> QED BY <2>1, <2>2
<1>3. CalmErrorsNext(p)
  BY <1>1, SameKeepsWrong, ErrorsKept DEF Begin
<1>4. UNCHANGED <<file, failure, memory, token, news>>
  BY DEF Begin, folder
<1>5. /\ CalmTokenNext /\ CalmFailedNext /\ ~news'
      /\ token.on /\ (token.raised \/ file = memory.seen)
  BY <1>1, <1>4, CalmFacts DEF CalmToken, CalmTokenNext, CalmFailed, CalmFailedNext
<1> HIDE DEF p
<1>6. CalmApplyNext(p)
  BY <1>2, <1>4, <1>5 DEF CalmApplyNext, AtRest
<1> QED BY <1>3, <1>5, <1>6 DEF CalmStep, p

(* A change is heard at once: the token of an apply that runs is raised.    *)
LEMMA CalmHears ==
    ASSUME Calmly, KeepsWrong, UNCHANGED <<failure, memory, news>>,
           \/ token' = Raised /\ apply' = Stopped(apply)
           \/ apply' = apply /\ UNCHANGED <<token, file>>
    PROVE  CalmStep
<1> DEFINE q == apply[Watcher]
           p == apply'[Watcher]
<1>1. /\ apply \in [Actor -> Apply] /\ Watcher \in Actor /\ q \in Apply /\ BaseInv
      /\ CalmApply(q) /\ CalmToken /\ CalmFailed /\ ~news
      /\ memory.pc = "apply" <=> q.at # "idle"
      /\ token \in Token
  BY CalmFacts, AloneFacts DEF BaseInv, FolderTypeOK, Token
<1>2. /\ p.at = q.at /\ p.src = q.src /\ p.preview = q.preview /\ p.result = q.result
      /\ p.stop = q.stop \/ (q.stop = "linked" /\ p.stop = "halted" /\ token' = Raised)
  BY <1>1 DEF Stopped, Apply
<1>3. CalmErrorsNext(p)
  BY <1>2, ErrorsKept DEF Judging
<1>4. ~news' /\ CalmFailedNext
  BY <1>1 DEF CalmFailed, CalmFailedNext
<1>5. \/ UNCHANGED <<token, file>> /\ p = q
      \/ token'.on = token.on /\ token'.raised = token.on
  BY <1>1 DEF Raised, Token
<1>6. CalmTokenNext
  BY <1>1, <1>5 DEF CalmToken, CalmTokenNext
<1>7. CalmApplyNext(p)
  <2>1. CASE UNCHANGED <<token, file>> /\ p = q
    BY <1>1, <2>1 DEF CalmApply, CalmApplyNext
  <2>2. CASE token'.on = token.on /\ token'.raised = token.on
    <3> HIDE DEF p, q
    <3>1. CASE q.at = "idle"
      BY <1>1, <1>2, <3>1 DEF CalmApply, CalmApplyNext, AtRest
    <3>2. CASE q.at # "idle"
      <4>1. token'.raised
        BY <1>1, <2>2, <3>2 DEF CalmToken
      <4> QED BY <1>1, <1>2, <3>2, <4>1 DEF CalmApply, CalmApplyNext
    <3> QED BY <3>1, <3>2
  <2> QED BY <1>5, <2>1, <2>2
<1> QED BY <1>3, <1>4, <1>6, <1>7 DEF CalmStep

LEMMA CalmSurroundings ==
    ASSUME Calmly,
           \/ Deliver \/ Export \/ Switch \/ Restart \/ UNCHANGED vars
           \/ \E source \in Source : Edit(source) \/ Commit(source)
    PROVE  CalmStep
<1>1. BaseInv /\ ~news /\ ~setup.late
  BY CalmFacts
<1>2. ~Deliver
  BY <1>1 DEF Deliver
<1>3. CASE Export \/ Switch \/ UNCHANGED vars \/ \E source \in Source : Edit(source)
  <2>1. /\ UNCHANGED <<versions, failure, memory, news>>
        /\ \/ token' = Raised /\ apply' = Stopped(apply)
           \/ apply' = apply /\ UNCHANGED <<token, file>>
    BY <1>1, <1>3 DEF Export, Switch, Edit, Written, vars, folder
  <2> QED BY <1>1, <2>1, SameKeepsWrong, CalmHears
<1>4. ASSUME NEW source \in Source, Commit(source)
      PROVE  CalmStep
  <2>1. "success" \in Statuses \ {"error"} /\ None \in Actor \cup {None}
    BY DEF Statuses
  <2>2. KeepsWrong
    <3>1. CASE HeadHas(source)
      <4>1. versions' = Marked(Latest, "success") /\ Latest \in DOMAIN versions
        BY <1>1, <1>4, <3>1, HeadFacts DEF Commit, Live
      <4> QED BY <1>1, <2>1, <4>1, MarkKeepsWrong
    <3>2. CASE ~HeadHas(source)
      <4>1. versions' = Appended(source, "success", None)
        BY <1>4, <3>2 DEF Commit
      <4> QED BY <1>1, <2>1, <4>1, AppendKeepsWrong
    <3> QED BY <3>1, <3>2
  <2>3. /\ UNCHANGED <<failure, memory>>
        /\ \E v : Refresh(v, source, apply)
    BY <1>4 DEF Commit
  <2>4. /\ UNCHANGED news
        /\ \/ token' = Raised /\ apply' = Stopped(apply)
           \/ apply' = apply /\ UNCHANGED <<token, file>>
    BY <1>1, <2>3 DEF Refresh, Written, folder
  <2> QED BY <2>2, <2>3, <2>4, CalmHears
<1>5. CASE Restart
  <2>1. setup.left.restarts > 0
    <3>1. /\ left \in [Kinds -> Nat] /\ "restarts" \in Kinds /\ setup \in SetupType
          /\ left["restarts"] <= setup.left["restarts"] /\ left["restarts"] > 0
      BY <1>1, <1>5, SetupAssumption DEF BaseInv, FolderTypeOK, Kinds, Restart, Spend
    <3>2. left["restarts"] \in Nat /\ setup.left["restarts"] \in Nat
      BY <3>1 DEF SetupType
    <3> QED BY <3>1, <3>2
  <2>2. /\ apply'[Watcher] = Idle /\ memory' = Rest /\ token' = Off /\ ~news'
        /\ UNCHANGED <<versions, failure>>
    BY <1>5 DEF Restart, Actor
  <2>3. CalmErrorsNext(Idle)
    <3>1. CalmErrors(apply[Watcher])
      BY CalmFacts
    <3> QED BY <2>1, <2>2, <3>1 DEF CalmErrors, CalmErrorsNext, Wrong, WrongNext, Known
  <2>4. CalmFailedNext
    BY <2>2, CalmFacts DEF CalmFailed, CalmFailedNext, Rest
  <2>5. CalmTokenNext /\ CalmApplyNext(Idle)
    BY <2>2 DEF CalmTokenNext, CalmApplyNext, Rest, Idle, AtRest
  <2> QED BY <2>2, <2>3, <2>4, <2>5 DEF CalmStep
<1> QED BY <1>2, <1>3, <1>4, <1>5

(* A tick leaves the watcher's apply as it was.                             *)
LEMMA CalmLooks ==
    ASSUME Calmly, Tick, UNCHANGED <<file, versions, apply, token, news>>,
           memory.pc # "apply", memory'.pc # "apply",
           CalmFailedNext
    PROVE  CalmStep
<1>1. apply[Watcher].at = "idle" /\ CalmApply(apply[Watcher]) /\ ~news /\ BaseInv
  BY CalmFacts
<1>2. CalmErrorsNext(apply'[Watcher])
  BY <1>1, SameKeepsWrong, ErrorsKept DEF Judging
<1>3. CalmApplyNext(apply'[Watcher]) /\ CalmTokenNext
  BY <1>1 DEF CalmApply, CalmApplyNext, CalmTokenNext, AtRest
<1> QED BY <1>1, <1>2, <1>3 DEF CalmStep

LEMMA CalmTick ==
    ASSUME Calmly, Tick
    PROVE  CalmStep
<1>1. /\ BaseInv /\ Alone /\ CalmFailed /\ ~news /\ CalmToken
      /\ apply \in [Actor -> Apply] /\ Watcher \in Actor
      /\ CalmApply(apply[Watcher]) /\ CalmErrors(apply[Watcher])
      /\ memory.pc = "apply" <=> apply[Watcher].at # "idle"
      /\ memory \in Memory
  BY CalmFacts, AloneFacts DEF BaseInv, FolderTypeOK
<1>2. CASE Ignore
  <2>1. memory.pc = "idle" /\ memory'.pc = "idle" /\ memory'.failed = memory.failed
    BY <1>1, <1>2, MemoryMoves DEF Ignore
  <2>2. UNCHANGED <<file, versions, apply, token, news, failure>>
    BY <1>2 DEF Ignore, folder
  <2>3. CalmFailedNext
    BY <1>1, <2>1, <2>2 DEF CalmFailed, CalmFailedNext
  <2> QED BY <2>1, <2>2, <2>3, CalmLooks
<1>3. CASE Look
  <2>1. memory.pc = "idle" /\ memory'.pc \in {"idle", "judge"}
    BY <1>1, <1>3, MemoryMoves DEF Look
  <2>2. /\ memory'.failed \in {memory.failed, None, failure}
        /\ failure' \in {failure, None}
    BY <1>1, <1>3, MemoryMoves DEF Look
  <2>3. UNCHANGED <<file, versions, apply, token, news>>
    BY <1>3 DEF Look
  <2>4. CalmFailedNext
    BY <1>1, <2>2 DEF CalmFailed, CalmFailedNext
  <2> QED BY <2>1, <2>3, <2>4, CalmLooks
<1>4. CASE Judge
  <2>1. memory.pc = "judge" /\ memory'.pc \in {"idle", "settled"}
    BY <1>1, <1>4, MemoryMoves DEF Judge
  <2>2. /\ memory'.failed \in {memory.failed, None, memory.seen}
        /\ failure' \in {failure, None, memory.seen}
        /\ KnownBad \/ (memory'.failed # memory.seen /\ failure' # memory.seen)
           \/ CalmFailedNext
    <3>1. CASE KnownGood
      BY <1>1, <1>4, <3>1 DEF Judge, Rest, CalmFailed, CalmFailedNext
    <3>2. CASE KnownBad
      BY <1>1, <1>4, <3>2 DEF Judge, Rest
    <3>3. CASE ~KnownGood /\ ~KnownBad
      BY <1>1, <1>4, <3>3 DEF Judge, Memory, CalmFailed, CalmFailedNext
    <3> QED BY <3>1, <3>2, <3>3
  <2>3. KnownBad => Known(memory.seen)
    <3> SUFFICES ASSUME KnownBad PROVE Known(memory.seen)
      OBVIOUS
    <3>1. /\ Latest \in DOMAIN versions /\ versions[Latest].source = memory.seen
          /\ versions[Latest].status = "error" /\ versions[Latest].by = Watcher
      <4>1. HeadHas(memory.seen) /\ versions[Latest].status = "error"
        BY DEF KnownBad, HeadIs
      <4> QED BY <1>1, <4>1, HeadFacts DEF KnownBad, HeadHas, IsOf
    <3>2. Wrong(Latest) /\ apply[Watcher].at \notin Judging
      BY <1>1, <2>1, <3>1 DEF Wrong, Judging
    <3> QED BY <1>1, <3>1, <3>2 DEF CalmErrors
  <2>4. UNCHANGED <<file, versions, apply, token, news>>
    BY <1>4 DEF Judge
  <2>5. CalmFailedNext
    BY <1>1, <2>2, <2>3 DEF CalmFailed, CalmFailedNext
  <2> QED BY <2>1, <2>4, <2>5, CalmLooks
<1>5. CASE Settle /\ UNCHANGED apply
  <2>1. memory.pc = "settled" /\ apply[Watcher].at = "idle"
    BY <1>1, <1>5 DEF Settle
  <2>2. file # memory.seen
    BY <1>1, <1>5, <2>1 DEF Settle, Apply
  <2>3. memory'.pc = "idle" /\ memory'.failed = memory.failed
    BY <1>1, <1>5, <2>2 DEF Settle, Memory
  <2>4. UNCHANGED <<file, versions, apply, token, news, failure>>
    BY <1>5, <2>2 DEF Settle, folder
  <2>5. CalmFailedNext
    BY <1>1, <2>3, <2>4 DEF CalmFailed, CalmFailedNext
  <2> QED BY <2>1, <2>3, <2>4, <2>5, CalmLooks
<1>6. CASE Settle /\ apply' # apply
  <2> DEFINE p == apply'[Watcher]
  <2>1. /\ file = memory.seen /\ memory' = [memory EXCEPT !.pc = "apply"]
        /\ token' = [on |-> TRUE, source |-> file, raised |-> FALSE]
        /\ apply' = [apply EXCEPT ![Watcher].at = "begin"]
        /\ UNCHANGED <<file, versions, failure, news>> /\ apply[Watcher].at = "idle"
    BY <1>1, <1>6 DEF Settle, folder
  <2>2. p.at = "begin" /\ p.stop = "free"
    BY <1>1, <2>1 DEF Apply, CalmApply
  <2>3. memory'.pc = "apply" /\ memory'.seen = memory.seen /\ memory'.failed = memory.failed
    BY <1>1, <2>1 DEF Memory
  <2>4. CalmErrorsNext(p)
    BY <1>1, <2>1, SameKeepsWrong, ErrorsKept DEF Judging
  <2>5. CalmTokenNext /\ CalmFailedNext
    BY <1>1, <2>1, <2>3 DEF CalmTokenNext, CalmFailed, CalmFailedNext
  <2> HIDE DEF p
  <2>6. CalmApplyNext(p)
    BY <2>2 DEF CalmApplyNext, AtRest
  <2> QED BY <1>1, <2>1, <2>4, <2>5, <2>6 DEF CalmStep, p
<1>7. CASE Conclude
  <2>1. /\ apply[Watcher].at = "done" /\ apply'[Watcher] = Idle /\ ~news'
        /\ UNCHANGED versions
    BY <1>1, <1>7 DEF Conclude
  <2>2. memory'.pc = "idle"
    BY <1>1, <1>7, MemoryMoves
  <2>3. CalmFailedNext
    <3>1. CASE token.raised
      <4>1. UNCHANGED failure /\ memory'.failed = memory.failed
        BY <1>1, <1>7, <3>1 DEF Conclude, Memory
      <4> QED BY <1>1, <4>1 DEF CalmFailed, CalmFailedNext
    <3>2. CASE ~token.raised /\ apply[Watcher].result = "ok"
      BY <1>7, <3>2 DEF Conclude, CalmFailedNext, Rest
    <3>3. CASE ~token.raised /\ apply[Watcher].result # "ok"
      <4>1. Known(memory.seen)
        BY <1>1, <2>1, <3>3 DEF CalmApply
      <4>2. failure' = memory.seen /\ memory'.failed = memory.seen
        BY <1>7, <3>3 DEF Conclude, Rest
      <4> QED BY <4>1, <4>2 DEF CalmFailedNext
    <3> QED BY <3>1, <3>2, <3>3
  <2>4. CalmErrorsNext(Idle)
    BY <1>1, <2>1, SameKeepsWrong, ErrorsKept DEF Judging
  <2>5. CalmTokenNext /\ CalmApplyNext(Idle)
    BY <2>2 DEF CalmTokenNext, CalmApplyNext, Idle, AtRest
  <2> QED BY <2>1, <2>3, <2>4, <2>5 DEF CalmStep
<1> QED BY <1>2, <1>3, <1>4, <1>5, <1>6, <1>7 DEF Tick

LEMMA CalmStepKeeps ==
    ASSUME Calmly, [Next]_vars
    PROVE  CalmStep
<1>1. CASE \E a \in Actor : Begin(a) \/ Work(a) \/ Breaks(a) \/ Leave(a)
  <2>1. Alone /\ left.faults = 0
    BY CalmFacts
  <2>2. \A a \in Actor : ~Leave(a) /\ ~Breaks(a)
    BY <2>1, ClientsDoNothing DEF Leave, Breaks, Spend
  <2>3. Begin(Watcher) \/ Work(Watcher)
    BY <1>1, <2>1, <2>2, ClientsDoNothing DEF Actor
  <2> QED BY <2>3, CalmBegin, CalmWork
<1> QED BY <1>1, CalmTick, CalmSurroundings DEF Next

LEMMA CalmInitStep ==
    /\ Init => CalmInv
    /\ BaseInv /\ AloneInv /\ CalmInv /\ [Next]_vars => CalmInv'
<1>1. ASSUME Init PROVE CalmInv
  <2>1. /\ apply[Watcher] = Idle /\ memory = Rest /\ failure = None /\ ~news
        /\ DOMAIN versions = {1} /\ versions[1].status = "success"
    BY <1>1 DEF Init, Actor
  <2>2. CalmApply(Idle)
    BY DEF CalmApply, Idle, AtRest
  <2>3. CalmErrors(Idle) /\ CalmToken /\ CalmFailed
    BY <2>1 DEF CalmErrors, Wrong, CalmToken, CalmFailed, Rest
  <2> QED BY <2>1, <2>2, <2>3 DEF CalmInv
<1>2. ASSUME BaseInv, AloneInv, CalmInv, [Next]_vars PROVE CalmInv'
  <2>1. UNCHANGED setup
    BY <1>2, SetupStays
  <2>2. Calm => CalmStep
    BY <1>2, CalmStepKeeps DEF Calmly
  <2> QED BY <2>1, <2>2, CalmNext
<1> QED BY <1>1, <1>2

(* Where every change is heard at once, no client applies and nothing       *)
(* fails, the watcher remembers as failed what cannot be accepted, and what *)
(* is tolerated only where a restart may come between its verification and  *)
(* its acceptance (finish_project_folder_apply, known_failed_project_source)*)
THEOREM FailuresStayJudged == Spec => []FailuresAreJudged
<1>1. CalmInv => FailuresAreJudged
  BY DEF CalmInv, CalmFailed, Known, FailuresAreJudged
<1> QED BY <1>1, CalmInitStep, FolderBase, FolderAlone, PTL DEF Spec

=============================================================================
