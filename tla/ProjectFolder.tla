--------------------------- MODULE ProjectFolder ---------------------------
(* The folder of a thread: the file model.ecky, the manifest beside it and  *)
(* the thread's versions, which the folder watcher keeps in step. The       *)
(* watcher applies an edited file by the handler that clients call too:     *)
(* append a draft, render it, store a preview, verify it, accept it or roll *)
(* it back. Nothing holds the thread meanwhile: the file may be edited, a   *)
(* client may apply, the editor may append and an export may overwrite.     *)
EXTENDS Integers, Sequences, FiniteSetsExt

CONSTANTS
    Source,         \* what model.ecky may contain
    Initial,        \* the content everything starts from
    Watcher,        \* the session of the folder watcher
    Client,         \* the sessions of clients
    None,
    Setups          \* what a behaviour may meet; see Init

ASSUME FolderAssumption ==
    /\ Initial \in Source /\ None \notin Source
    /\ Watcher \notin Client /\ None \notin Client /\ None # Watcher

(* What the render and the verification make of a content; a tolerated one  *)
(* fails the verification by issues that an apply accepts.                  *)
Verdicts == {"passes", "tolerated", "invalid", "rejected"}

SetupType ==
    [verdict : [Source -> Verdicts],
     late : BOOLEAN,            \* whether the watcher may hear of a change later
     left : [{"edits", "commits", "exports", "applies", "faults", "switches", "leaves",
              "restarts"} -> Nat]]    \* how often each may happen

ASSUME SetupAssumption == \A s \in Setups : s \in SetupType

Actor == {Watcher} \cup Client

VARIABLES
    setup,      \* [verdict, late, left] the circumstances of this behaviour
    file,       \* the content of model.ecky
    manifest,   \* [of, digest] the version the folder was last in step with
    versions,   \* the versions of the thread, in append order
    failure,    \* the persisted failure row: a content, or None
    memory,     \* the watcher's own state
    apply,      \* the apply each session is in
    drafts,     \* the durable draft of each session: its preview, or 0
    token,      \* the cancellation of the watcher's apply
    news,       \* a change of model.ecky that the watcher was not told yet
    active,     \* the thread is open in the application
    left        \* how much of each circumstance may still happen

vars == <<setup, file, manifest, versions, failure, memory, apply, drafts, token, news,
          active, left>>
folder == <<file, manifest>>

(* A circumstance happens once more. *)
Spend(what) == left[what] > 0 /\ left' = [left EXCEPT ![what] = @ - 1]

-----------------------------------------------------------------------------
(* Versions *)

Verdict == setup.verdict

Statuses == {"working", "success", "error", "deleted"}

(* The newest of a set of versions, or 0. *)
Newest(S) == Max(S \cup {0})

Live == {v \in DOMAIN versions : versions[v].status # "deleted"}
Latest == Newest(Live)
HeadHas(source) == Latest # 0 /\ versions[Latest].source = source
HeadIs(source, status) == HeadHas(source) /\ versions[Latest].status = status

Succeeded(v) == v \in DOMAIN versions /\ versions[v].status = "success"

(* A deleted version stays deleted, whatever is written to its row. *)
Marked(v, status) ==
    [versions EXCEPT ![v].status = IF @ = "deleted" THEN @ ELSE status]

Appended(source, status, by) ==
    Append(versions, [source |-> source, status |-> status, by |-> by])

-----------------------------------------------------------------------------
(* Cancellation *)

Off == [on |-> FALSE, source |-> None, raised |-> FALSE]

(* The watcher's token is raised and stops every render that holds it. *)
Raised == [token EXCEPT !.raised = token.on]
Stopped(ap) ==
    [a \in Actor |-> IF token.on /\ ap[a].stop = "linked"
                     THEN [ap[a] EXCEPT !.stop = "halted"] ELSE ap[a]]

(* model.ecky was written: the watcher's transport hears of it, now or later. *)
Written(ap) ==
    IF setup.late
    THEN news' = TRUE /\ apply' = ap /\ UNCHANGED token
    ELSE token' = Raised /\ apply' = Stopped(ap) /\ UNCHANGED news

Deliver ==
    /\ news
    /\ news' = FALSE
    /\ token' = Raised
    /\ apply' = Stopped(apply)
    /\ UNCHANGED <<setup, folder, versions, failure, memory, drafts, active, left>>

-----------------------------------------------------------------------------
(* The watcher's tick *)

Rest == [pc |-> "idle", seen |-> None, pending |-> None, failed |-> None, activity |-> FALSE]

Idle == [at |-> "idle", src |-> None, was |-> None, base |-> 0, draft |-> 0, owns |-> FALSE,
         preview |-> 0, stop |-> "free", join |-> None, result |-> None]

(* Fault: the manifest of a deleted version is left as it is. *)
RepairedFaultNone == manifest

(* A manifest of a version that did not succeed is moved to one that did. *)
Repaired ==
    LET good == {v \in DOMAIN versions : Succeeded(v)}
    IN  IF Succeeded(manifest.of) \/ good = {} THEN manifest
        ELSE [of |-> Newest(good), digest |-> versions[Newest(good)].source]

(* A thread that is not open is left alone. *)
Ignore ==
    /\ memory.pc = "idle"
    /\ ~active
    /\ memory' = [memory EXCEPT !.pending = None, !.activity = FALSE]
    /\ UNCHANGED <<setup, folder, versions, failure, apply, drafts, token, news, active, left>>

Look ==
    /\ memory.pc = "idle"
    /\ active
    /\ manifest' = Repaired
    /\ \/ /\ file = Repaired.digest
          /\ failure' = None
          /\ memory' = Rest
       \/ /\ file # Repaired.digest
          /\ file = memory.failed
          /\ UNCHANGED <<failure, memory>>
       \/ /\ file \notin {Repaired.digest, memory.failed}
          /\ file = failure
          /\ memory' = [Rest EXCEPT !.failed = file]
          /\ UNCHANGED failure
       \/ /\ file \notin {Repaired.digest, memory.failed, failure}
          /\ failure' = None
          /\ memory' = [memory EXCEPT !.pc = "judge", !.seen = file]
    /\ UNCHANGED <<setup, file, versions, apply, drafts, token, news, active, left>>

(* What the thread already knows of the content it saw is not rendered again. *)
KnownGood == HeadIs(memory.seen, "success")
KnownBad == HeadIs(memory.seen, "error") /\ versions[Latest].by = Watcher

Judge ==
    /\ memory.pc = "judge"
    /\ \/ /\ KnownGood
          /\ manifest' = [of |-> Latest, digest |-> memory.seen]
          /\ failure' = None
          /\ memory' = Rest
       \/ /\ KnownBad
          /\ failure' = memory.seen
          /\ memory' = [Rest EXCEPT !.failed = memory.seen]
          /\ UNCHANGED manifest
       \/ /\ ~KnownGood /\ ~KnownBad
          /\ memory' = IF memory.pending = memory.seen
                       THEN [memory EXCEPT !.pc = "settled"]
                       ELSE [memory EXCEPT !.pc = "idle", !.seen = None,
                                           !.pending = memory.seen, !.activity = TRUE]
          /\ UNCHANGED <<manifest, failure>>
    /\ UNCHANGED <<setup, file, versions, apply, drafts, token, news, active, left>>

(* Under the apply lock: still the same content, or it settles anew. *)
Settle ==
    /\ memory.pc = "settled"
    /\ \/ /\ file # memory.seen
          /\ memory' = [memory EXCEPT !.pc = "idle", !.seen = None, !.pending = file]
          /\ UNCHANGED <<apply, token>>
       \/ /\ file = memory.seen
          /\ memory' = [memory EXCEPT !.pc = "apply"]
          /\ token' = [on |-> TRUE, source |-> file, raised |-> FALSE]
          /\ apply' = [apply EXCEPT ![Watcher].at = "begin"]
    /\ UNCHANGED <<setup, folder, versions, failure, drafts, news, active, left>>

(* Fault: what a cancelled apply returned is taken for its verdict. *)
ConcludeFaultCancelled ==
    /\ memory.pc = "apply"
    /\ apply[Watcher].at = "done"
    /\ IF apply[Watcher].result = "ok"
       THEN failure' = None /\ memory' = Rest
       ELSE failure' = memory.seen /\ memory' = [Rest EXCEPT !.failed = memory.seen]
    /\ token' = Off
    /\ apply' = [apply EXCEPT ![Watcher] = Idle]
    /\ UNCHANGED <<setup, folder, versions, drafts, news, active, left>>

(* A cancelled apply settles nothing: whatever it returned, the file decides. *)
Conclude ==
    /\ memory.pc = "apply"
    /\ apply[Watcher].at = "done"
    /\ \/ /\ token.raised
          /\ memory' = [memory EXCEPT !.pc = "idle", !.seen = None,
                          !.pending = IF file = memory.seen THEN None ELSE file]
          /\ UNCHANGED failure
       \/ /\ ~token.raised
          /\ apply[Watcher].result = "ok"
          /\ failure' = None
          /\ memory' = Rest
       \/ /\ ~token.raised
          /\ apply[Watcher].result # "ok"
          /\ failure' = memory.seen
          /\ memory' = [Rest EXCEPT !.failed = memory.seen]
    /\ token' = Off
    /\ apply' = [a \in Actor |-> IF a = Watcher THEN Idle
                                 ELSE IF apply[a].stop = "linked"
                                      THEN [apply[a] EXCEPT !.stop = "free"] ELSE apply[a]]
    /\ UNCHANGED <<setup, folder, versions, drafts, news, active, left>>

-----------------------------------------------------------------------------
(* handle_project_folder_apply *)

(* The apply returns; the watcher looks at the result later. *)
Ended(a, result) ==
    IF a = Watcher THEN [Idle EXCEPT !.at = "done", !.result = result] ELSE Idle

Asked(a) ==
    \/ a = Watcher /\ apply[a].at = "begin" /\ UNCHANGED left
    \/ a \in Client /\ apply[a].at = "idle" /\ left.applies > 0
       /\ left' = [left EXCEPT !.applies = @ - 1]

Begin(a) ==
    /\ Asked(a)
    /\ apply' = [apply EXCEPT ![a] =
         IF file = manifest.digest /\ Latest \in {0, manifest.of}
         THEN Ended(a, "ok")
         ELSE [Idle EXCEPT !.at = "append", !.src = file, !.was = manifest, !.base = Latest]]
    /\ UNCHANGED <<setup, folder, versions, failure, memory, drafts, token, news, active>>

(* The head is the draft when it has the same content, whoever made it. *)
AppendDraft(a) ==
    /\ apply[a].at = "append"
    /\ \/ /\ HeadHas(apply[a].src)
          /\ apply' = [apply EXCEPT ![a].at = "render", ![a].draft = Latest,
                          ![a].owns = versions[Latest].status # "success"]
          /\ UNCHANGED versions
       \/ /\ ~HeadHas(apply[a].src)
          /\ versions' = Appended(apply[a].src, "working", a)
          /\ apply' = [apply EXCEPT ![a].at = "render", ![a].draft = Len(versions'),
                          ![a].owns = TRUE]
    /\ UNCHANGED <<setup, folder, failure, memory, drafts, token, news, active, left>>

(* One render of a content over a base at a time; the others wait for it. *)
Flight(a) ==
    {b \in Actor : /\ apply[b].at = "rendering" /\ apply[b].join = None
                   /\ apply[b].src = apply[a].src /\ apply[b].base = apply[a].base}

Holds(a) ==
    IF token.on /\ token.source = apply[a].src
    THEN IF token.raised THEN "halted" ELSE "linked"
    ELSE "free"

Render(a) ==
    /\ apply[a].at = "render"
    /\ \/ \E b \in Flight(a) :
            apply' = [apply EXCEPT ![a].at = "rendering", ![a].join = b]
       \/ /\ Flight(a) = {}
          /\ apply' = [apply EXCEPT ![a].at = "rendering", ![a].stop = Holds(a)]
    /\ UNCHANGED <<setup, folder, versions, failure, memory, drafts, token, news, active, left>>

(* The flight of a ends: its waiters get the same answer. *)
Answered(a, outcome) ==
    [b \in Actor |-> IF b = a \/ apply[b].join = a
                     THEN [apply[b] EXCEPT !.at = IF outcome = "rendered" THEN "find" ELSE "fail",
                                           !.result = outcome, !.join = None, !.stop = "free"]
                     ELSE apply[b]]

Outcomes(a) ==
    (IF Verdict[apply[a].src] = "invalid" THEN {"invalid"} ELSE {"rendered"})
        \cup (IF apply[a].stop = "halted" THEN {"changed"} ELSE {})

Complete(a) ==
    /\ apply[a].at = "rendering"
    /\ apply[a].join = None
    /\ \E outcome \in Outcomes(a) : apply' = Answered(a, outcome)
    /\ UNCHANGED <<setup, folder, versions, failure, memory, drafts, token, news, active, left>>

(* Fault: a draft that failed keeps its status. *)
FailFaultKeepsDraft(a) ==
    /\ apply[a].at = "fail"
    /\ versions' = IF apply[a].owns /\ apply[a].result = "changed"
                   THEN Marked(apply[a].draft, "deleted") ELSE versions
    /\ apply' = [apply EXCEPT ![a] = Ended(a, "error")]
    /\ UNCHANGED <<setup, folder, failure, memory, drafts, token, news, active, left>>

(* A failed preview ends its draft; one whose content changed leaves none.  *)
(* If that write fails too, the draft stays as it is: see Breaks.           *)
Fail(a) ==
    /\ apply[a].at = "fail"
    /\ versions' = IF ~apply[a].owns THEN versions
                   ELSE Marked(apply[a].draft,
                               IF apply[a].result = "changed" THEN "deleted" ELSE "error")
    /\ apply' = [apply EXCEPT ![a] = Ended(a, "error")]
    /\ UNCHANGED <<setup, folder, failure, memory, drafts, token, news, active, left>>

Finalizable(a) ==
    LET v == versions[apply[a].draft]
    IN  v.by = a /\ v.status \in {"working", "error"}

(* An unchanged head is the preview; else the own draft; else a new version. *)
Find(a) ==
    /\ apply[a].at = "find"
    /\ apply' = [apply EXCEPT ![a] =
         IF HeadIs(apply[a].src, "success")
         THEN [apply[a] EXCEPT !.at = "publish", !.preview = Latest]
         ELSE [apply[a] EXCEPT !.at = IF Finalizable(a) THEN "update" ELSE "create"]]
    /\ UNCHANGED <<setup, folder, versions, failure, memory, drafts, token, news, active, left>>

Save(a) ==
    /\ apply[a].at \in {"update", "create"}
    /\ \/ /\ apply[a].at = "update" /\ apply[a].draft \in Live
          /\ versions' = Marked(apply[a].draft, "success")
          /\ apply' = [apply EXCEPT ![a].at = "mark", ![a].preview = apply[a].draft]
       \/ /\ apply[a].at = "create" \/ apply[a].draft \notin Live
          /\ versions' = Appended(apply[a].src, "success", a)
          /\ apply' = [apply EXCEPT ![a].at = "mark", ![a].preview = Len(versions')]
    /\ UNCHANGED <<setup, folder, failure, memory, drafts, token, news, active, left>>

(* What was saved as a success waits for its verification after all. *)
MarkWorking(a) ==
    /\ apply[a].at = "mark"
    /\ versions' = Marked(apply[a].preview, "working")
    /\ apply' = [apply EXCEPT ![a].at = "publish"]
    /\ UNCHANGED <<setup, folder, failure, memory, drafts, token, news, active, left>>

(* refresh_on_version_append: other bytes than the folder knew are left alone. *)
Refresh(v, source, ap) ==
    IF file = manifest.digest \/ file = source
    THEN /\ file' = source
         /\ manifest' = [of |-> v, digest |-> source]
         /\ Written(ap)
    ELSE apply' = ap /\ UNCHANGED <<folder, token, news>>

(* A preview is one session's: the second one to publish it is refused. *)
Publish(a) ==
    LET v == apply[a].preview
        Kept == [apply EXCEPT ![a].at = "check"]
    IN  /\ apply[a].at = "publish"
        /\ \/ /\ \E b \in Actor \ {a} : drafts[b] = v
              /\ apply' = [apply EXCEPT ![a].at = "fail", ![a].result = "conflict"]
              /\ UNCHANGED <<folder, drafts, token, news>>
           \/ /\ \A b \in Actor \ {a} : drafts[b] # v
              /\ drafts' = [drafts EXCEPT ![a] = v]
              /\ IF a \in Client THEN Refresh(v, apply[a].src, Kept)
                 ELSE apply' = Kept /\ UNCHANGED <<folder, token, news>>
        /\ UNCHANGED <<setup, versions, failure, memory, active, left>>

(* Before and after the verification, the file must still be what was       *)
(* rendered.  If it cannot be read, nothing is rolled back: see Breaks.     *)
Check(a) ==
    /\ apply[a].at \in {"check", "checkAgain"}
    /\ apply' = [apply EXCEPT ![a].at =
         IF file # apply[a].src THEN "rollback"
         ELSE IF apply[a].at = "check" THEN "verify"
         ELSE IF Verdict[apply[a].src] = "rejected" THEN "rollback" ELSE "accept"]
    /\ UNCHANGED <<setup, folder, versions, failure, memory, drafts, token, news, active, left>>

Verify(a) ==
    /\ apply[a].at = "verify"
    /\ \/ /\ apply[a].preview \notin Live
          /\ apply' = [apply EXCEPT ![a].at = "rollback"]
          /\ UNCHANGED versions
       \/ /\ apply[a].preview \in Live
          /\ versions' = Marked(apply[a].preview,
                                IF Verdict[apply[a].src] = "passes" THEN "success" ELSE "error")
          /\ apply' = [apply EXCEPT ![a].at = "checkAgain"]
    /\ UNCHANGED <<setup, folder, failure, memory, drafts, token, news, active, left>>

(* The watcher rewrites the version it accepts, and so does who tolerates it. *)
Rewrites(a) == a = Watcher \/ Verdict[apply[a].src] = "tolerated"

(* After it, to clear the draft, to write the manifest or to index it may   *)
(* fail, one after the other.                                               *)
Accept(a) ==
    /\ apply[a].at = "accept"
    /\ \/ /\ Rewrites(a) /\ apply[a].preview \notin Live
          /\ apply' = [apply EXCEPT ![a] = Ended(a, "error")]
          /\ UNCHANGED <<manifest, versions, drafts, left>>
       \/ /\ ~Rewrites(a) \/ apply[a].preview \in Live
          /\ versions' = IF Verdict[apply[a].src] = "tolerated"
                         THEN Marked(apply[a].preview, "success") ELSE versions
          /\ \/ /\ drafts' = [drafts EXCEPT ![a] = 0]
                /\ manifest' = [of |-> apply[a].preview, digest |-> apply[a].src]
                /\ \/ apply' = [apply EXCEPT ![a] = Ended(a, "ok")] /\ UNCHANGED left
                   \/ apply' = [apply EXCEPT ![a] = Ended(a, "error")] /\ Spend("faults")
             \/ /\ Spend("faults")
                /\ drafts' \in {drafts, [drafts EXCEPT ![a] = 0]}
                /\ apply' = [apply EXCEPT ![a] = Ended(a, "error")]
                /\ UNCHANGED manifest
    /\ UNCHANGED <<setup, file, failure, memory, token, news, active>>

(* Fault: the rollback deletes the head, which may be another's by now. *)
RollbackFaultHead(a) ==
    /\ apply[a].at = "rollback"
    /\ versions' = Marked(Latest, "deleted")
    /\ drafts' = [drafts EXCEPT ![a] = 0]
    /\ manifest' = apply[a].was
    /\ apply' = [apply EXCEPT ![a] = Ended(a, "error")]
    /\ UNCHANGED <<setup, file, failure, memory, token, news, active, left>>

(* The version goes, then the draft, then the manifest is put back.  A      *)
(* failure in between leaves the rest undone: see Breaks.                   *)
Rollback(a) ==
    /\ apply[a].at = "rollback"
    /\ versions' = Marked(apply[a].preview, "deleted")
    /\ drafts' = [drafts EXCEPT ![a] = 0]
    /\ manifest' = apply[a].was
    /\ apply' = [apply EXCEPT ![a] = Ended(a, "error")]
    /\ UNCHANGED <<setup, file, failure, memory, token, news, active, left>>

(* A read or a write of the apply fails, of a file or of the database.  Only *)
(* the preview and the verification have an error path; everywhere else `?`  *)
(* returns at once and what was written stays: a draft nobody will fail, a   *)
(* version nobody will verify or delete, a manifest nobody will put back.    *)
Breaks(a) ==
    /\ Spend("faults")
    /\ \/ /\ apply[a].at \in {"begin", "append", "fail", "check", "checkAgain", "accept", "rollback"}
          /\ apply' = [apply EXCEPT ![a] = Ended(a, "error")]
          /\ UNCHANGED <<manifest, versions, drafts>>
       \/ /\ apply[a].at \in {"render", "find", "update", "create", "mark", "publish"}
          /\ apply' = [apply EXCEPT ![a].at = "fail", ![a].result = "error"]
          /\ UNCHANGED <<manifest, versions, drafts>>
       \/ /\ apply[a].at = "verify"
          /\ apply' = [apply EXCEPT ![a].at = "rollback"]
          /\ UNCHANGED <<manifest, versions, drafts>>
       \/ /\ apply[a].at = "rollback"
          /\ versions' = Marked(apply[a].preview, "deleted")
          /\ drafts' \in {drafts, [drafts EXCEPT ![a] = 0]}
          /\ apply' = [apply EXCEPT ![a] = Ended(a, "error")]
          /\ UNCHANGED manifest
    /\ UNCHANGED <<setup, file, failure, memory, token, news, active>>

-----------------------------------------------------------------------------
(* The surroundings *)

(* An external editor writes model.ecky. *)
Edit(source) ==
    /\ source # file
    /\ Spend("edits")
    /\ file' = source
    /\ Written(apply)
    /\ UNCHANGED <<setup, manifest, versions, failure, memory, drafts, active>>

(* The application's own editor commits a version that renders. *)
Commit(source) ==
    /\ Verdict[source] = "passes"
    /\ Spend("commits")
    /\ IF HeadHas(source)
       THEN versions' = Marked(Latest, "success") /\ Refresh(Latest, source, apply)
       ELSE /\ versions' = Appended(source, "success", None)
            /\ Refresh(Len(versions'), source, apply)
    /\ UNCHANGED <<setup, failure, memory, drafts, active>>

(* An export writes the head over whatever the folder holds. *)
Export ==
    /\ Latest # 0
    /\ Spend("exports")
    /\ file' = versions[Latest].source
    /\ manifest' = [of |-> Latest, digest |-> versions[Latest].source]
    /\ Written(apply)
    /\ UNCHANGED <<setup, versions, failure, memory, drafts, active>>

(* The user opens another thread, or this one again. *)
Switch ==
    /\ active' = ~active
    /\ IF active THEN Spend("switches") ELSE UNCHANGED left
    /\ token' = Raised
    /\ apply' = Stopped(apply)
    /\ UNCHANGED <<setup, folder, versions, failure, memory, drafts, news>>

(* A client goes away in the middle of its apply. *)
Leave(a) ==
    /\ a \in Client
    /\ apply[a].at # "idle"
    /\ Spend("leaves")
    /\ apply' = [Answered(a, "dropped") EXCEPT ![a] = Idle]
    /\ UNCHANGED <<setup, folder, versions, failure, memory, drafts, token, news, active>>

Restart ==
    /\ Spend("restarts")
    /\ memory' = Rest
    /\ apply' = [a \in Actor |-> Idle]
    /\ token' = Off
    /\ news' = FALSE
    /\ UNCHANGED <<setup, folder, versions, failure, drafts, active>>

-----------------------------------------------------------------------------

Init ==
    /\ setup \in Setups
    /\ file = Initial
    /\ manifest = [of |-> 1, digest |-> Initial]
    /\ versions = <<[source |-> Initial, status |-> "success", by |-> None]>>
    /\ failure = None
    /\ memory = Rest
    /\ apply = [a \in Actor |-> Idle]
    /\ drafts = [a \in Actor |-> 0]
    /\ token = Off
    /\ news = FALSE
    /\ active = TRUE
    /\ left = setup.left

Tick == Ignore \/ Look \/ Judge \/ Settle \/ Conclude

Work(a) ==
    \/ AppendDraft(a) \/ Render(a) \/ Complete(a) \/ Fail(a)
    \/ Find(a) \/ Save(a) \/ MarkWorking(a) \/ Publish(a)
    \/ Check(a) \/ Verify(a) \/ Accept(a) \/ Rollback(a)

Next ==
    \/ Tick \/ Deliver
    \/ \E a \in Actor : Begin(a) \/ Work(a) \/ Breaks(a) \/ Leave(a)
    \/ \E source \in Source : Edit(source) \/ Commit(source)
    \/ Export \/ Switch \/ Restart

Spec == Init /\ [][Next]_vars

FairSpec ==
    /\ Spec
    /\ WF_vars(Tick) /\ WF_vars(Deliver)
    /\ WF_vars(Begin(Watcher)) /\ \A a \in Actor : WF_vars(Work(a))
    /\ WF_vars(~active /\ Switch)

-----------------------------------------------------------------------------

(* The shape of the state. *)
TypeOK ==
    /\ setup \in Setups
    /\ file \in Source
    /\ manifest.of \in DOMAIN versions /\ manifest.digest \in Source
    /\ \A v \in DOMAIN versions : /\ versions[v].source \in Source
                                  /\ versions[v].status \in Statuses
                                  /\ versions[v].by \in Actor \cup {None}
    /\ failure \in Source \cup {None}
    /\ drafts \in [Actor -> {0} \cup DOMAIN versions]

(* The manifest names a version of the content it was written for. *)
ManifestIsOfItsVersion == versions[manifest.of].source = manifest.digest

(* A newer version of the same content has taken the place of v. *)
Superseded(v) == \E u \in DOMAIN versions : u > v /\ versions[u].source = versions[v].source

(* While no client applies beside the watcher, the application is not       *)
(* restarted and no read or write of an apply has failed, a version that    *)
(* waits for its verification has an apply that will verify it, fail it or  *)
(* delete it, or was left for a newer version of its content, committed by  *)
(* the editor, that the apply took for its preview.  One failure is enough  *)
(* to leave a version working with no apply.                                *)
Unbroken == left.faults = setup.left.faults
WorkingIsHeld ==
    setup.left.applies + setup.left.restarts = 0 /\ Unbroken =>
        \A v \in DOMAIN versions : versions[v].status = "working" =>
            \/ \E a \in Actor : v \in {apply[a].draft, apply[a].preview}
            \/ Superseded(v)

(* The folder and the versions agree: no manifest of another content's      *)
(* version, whatever fails; and, as long as nothing does, no version left   *)
(* working by an apply that has ended, for the exits of                     *)
(* handle_project_folder_apply and the preview's error path by a verdict, a *)
(* changed file, a conflict or a success.                                   *)
FolderIsSound == TypeOK /\ ManifestIsOfItsVersion /\ WorkingIsHeld

(* A version that succeeded is taken back (deleted by a rollback, marked    *)
(* failed or working again) only by an apply of its own content that uses   *)
(* it as draft or preview, however the applies of two sessions interleave.  *)
AcceptedIsKept ==
    [][\A v \in DOMAIN versions :
         Succeeded(v) /\ versions'[v].status # "success" =>
           \E a \in Actor : /\ apply[a].src = versions[v].source
                            /\ v \in {apply[a].draft, apply[a].preview}]_vars

(* While the watcher hears of every change at once, no client applies and   *)
(* nothing fails, it gives up only on content that cannot be accepted: an  *)
(* edit, commit, export or switch in the middle of an apply never makes it  *)
(* remember as failed, in memory or in the database, what would have passed.*)
(* A restart between the verification of a tolerated content and its        *)
(* acceptance leaves its version failed, and that is remembered.            *)
Calm == ~setup.late /\ setup.left.applies + setup.left.faults = 0
FailuresAreJudged ==
    Calm => \A s \in {memory.failed, failure} \ {None} :
                \/ Verdict[s] \in {"invalid", "rejected"}
                \/ Verdict[s] = "tolerated" /\ setup.left.restarts > 0

(* Once nobody disturbs the folder, the watcher brings it to rest: file,    *)
(* manifest and a version that succeeded agree and nothing is shown as being*)
(* rendered, or the content is remembered as failed; and every apply, also  *)
(* one that waits for another's render, has returned.                       *)
InStep == file = manifest.digest /\ Succeeded(manifest.of) /\ ~memory.activity
Settled ==
    /\ memory.pc = "idle"
    /\ \A a \in Actor : apply[a].at = "idle"
    /\ InStep \/ memory.failed = file
FolderSettles == <>[]Settled

=============================================================================
