----------------------------- MODULE ConfigStore -----------------------------
(***************************************************************************)
(* The configuration on disk and in memory: src-tauri/src/config_store.rs, *)
(* the start-up load (lib.rs), the transaction of the application's saves  *)
(* (commands/config.rs) and `cairn configure` (cairn.rs), a process of its *)
(* own.                                                                    *)
(*                                                                         *)
(* config.edn is replaced by a rename under an in-process mutex and a file *)
(* lock; a config.json of an earlier version is migrated and then deleted. *)
(* A save is of a whole configuration that was read before the lock was    *)
(* taken: the application's from memory, the command line's from the file. *)
(*                                                                         *)
(* The file system is external: after a power loss the directory may be    *)
(* found as it was after any of the changes since it was synced last, or,  *)
(* where it keeps no order, with any of them undone; a file that was not   *)
(* synced may be found torn.                                               *)
(***************************************************************************)
EXTENDS Naturals, FiniteSets

CONSTANTS
    Save,       \* saves of the application: the user's, the panel's, the repair's
    Configure,  \* runs of `cairn configure`
    Startup,    \* the start-up load
    None,       \* no file, no configuration, no holder
    Setups      \* the circumstances a behaviour may start in, with its bounds

Faults == {"invalid", "write", "rename", "parentSync", "verify", "delete", "scan"}

SetupType == [kinds : SUBSET Faults,    \* the faults that may happen
              faults : Nat,             \* bound: faults
              crashes : Nat,            \* bound: ends of the application
              losses : Nat,             \* bound: power losses
              ordered : BOOLEAN,        \* the file system keeps the order of changes
              edn : {"good", "bad", "none"},    \* the files found at first
              json : {"good", "bad", "none"}]

ASSUME TaskAssumption ==
    /\ Save \cap Configure = {} /\ Startup \notin Save \cup Configure
    /\ None \notin Save \cup Configure \cup {Startup}
ASSUME SetupAssumption == \A s \in Setups : s \in SetupType

VARIABLES
    edn,        \* config.edn as a process sees it
    json,       \* config.json as a process sees it
    after,      \* what a power loss may leave of the two
    holder,     \* the task that holds mutex and file lock
    memory,     \* AppState::config
    task,       \* the tasks with their local variables
    setup,      \* the circumstances of this behaviour
    faults, crashes, losses,
    writes,     \* history: configurations renamed into place
    saved,      \* history: the latest of them that was reported as saved
    astray,     \* history: config.edn has changed unknown to the application
    defaulted   \* history: a start-up fell back on the defaults

diskVars == <<edn, json, after>>
boundVars == <<setup, faults, crashes, losses>>
historyVars == <<writes, saved, astray, defaulted>>
vars == <<diskVars, holder, memory, task, boundVars, historyVars>>

Task == Save \cup Configure \cup {Startup}
App == Save \cup {Startup}

Origins == {"edn", "json", "default"}
(* A configuration: whose settings it holds, and which write it is.         *)
ConfigType == [origin : Origins, write : Nat]
(* A file: readable or not, and whether its content is on the disk.         *)
FileType == [origin : Origins \cup {"bad"}, write : Nat, synced : BOOLEAN]

(* No configuration, or no file, is neither of them.                        *)
ASSUME NoneIsNoValue == None \notin ConfigType \cup FileType

File(origin, write) == [origin |-> origin, write |-> write, synced |-> TRUE]
Readable(f) == f # None /\ f.origin # "bad"
ConfigOf(f) == [origin |-> f.origin, write |-> f.write]
Default == [origin |-> "default", write |-> 0]

Points == {"idle", "lock", "load", "validate", "write", "rename", "syncParent", "verify",
           "delete", "commit", "unlock", "derive", "defaults", "done"}
TaskType == [pc : Points,
             job : {"load", "migrate", "save"},
             base : ConfigType,     \* what was loaded, or what is saved with an edit
             write : Nat,           \* the number of its rename
             fresh : BOOLEAN]       \* start-up: there was no configuration
IdleTask == [pc |-> "idle", job |-> "save", base |-> Default, write |-> 0, fresh |-> FALSE]

Found(kind, name) ==
    CASE kind = "good" -> File(name, 0) [] kind = "bad" -> File("bad", 0) [] OTHER -> None

Init ==
    /\ setup \in Setups
    /\ edn = Found(setup.edn, "edn")
    /\ json = Found(setup.json, "json")
    /\ after = {[edn |-> edn, json |-> json]}
    /\ holder = None /\ memory = None
    /\ task = [t \in Task |-> IdleTask]
    /\ faults = 0 /\ crashes = 0 /\ losses = 0
    /\ writes = 0 /\ saved = 0 /\ astray = FALSE /\ defaulted = FALSE

At(t, point) == task[t].pc = point
Goto(t, point) == task' = [task EXCEPT ![t].pc = point]

Fault(kind) ==
    /\ kind \in setup.kinds /\ faults < setup.faults
    /\ faults' = faults + 1 /\ UNCHANGED <<setup, crashes, losses>>

NoFault == UNCHANGED boundVars

(* A failed task releases the lock and returns its error; a start-up goes   *)
(* on with the defaults.                                                    *)
Fail(t) ==
    /\ Goto(t, IF t = Startup THEN "defaults" ELSE "done")
    /\ holder' = IF holder = t THEN None ELSE holder

-----------------------------------------------------------------------------
(* The directory *)

Directory == [edn |-> edn, json |-> json]

(* The directory changes and is not synced. *)
Changes(e, j) ==
    LET ends == after \cup {[edn |-> e, json |-> j]} IN
    /\ edn' = e /\ json' = j
    /\ after' = IF setup.ordered THEN ends
                ELSE [edn : {d.edn : d \in ends}, json : {d.json : d \in ends}]

(* A file whose content did not reach the disk. *)
Torn(f) == IF f = None \/ f.synced THEN f ELSE File("bad", f.write)

-----------------------------------------------------------------------------
(* Where a task gets its configuration from *)

(* load_startup_config is called once, before anything else runs.           *)
StartupBegins ==
    /\ At(Startup, "idle") /\ memory = None
    /\ task' = [task EXCEPT ![Startup] = [IdleTask EXCEPT !.pc = "lock", !.job = "load"]]
    /\ UNCHANGED <<diskVars, holder, memory, boundVars, historyVars>>

(* The edited copy of the configuration was read outside the lock. *)
SaveAsked(t) ==
    /\ t \in Save /\ At(t, "idle") /\ memory # None
    /\ task' = [task EXCEPT ![t].pc = "lock", ![t].base = memory]
    /\ UNCHANGED <<diskVars, holder, memory, boundVars, historyVars>>

(* read_cli_config looks at the file without the lock. *)
ConfigureAsked(t) ==
    /\ t \in Configure /\ At(t, "idle")
    /\ IF Readable(edn)
       THEN task' = [task EXCEPT ![t].pc = "lock", ![t].base = ConfigOf(edn)]
       ELSE Goto(t, "done")
    /\ UNCHANGED <<diskVars, holder, memory, boundVars, historyVars>>

-----------------------------------------------------------------------------
(* with_lock *)

(* Fault: the lock keeps nobody out. *)
CanLockFaultShared == TRUE

CanLock == holder = None

(* What a section does first: a save writes a configuration, with its edit. *)
Lock(t) ==
    /\ At(t, "lock") /\ CanLock
    /\ holder' = t
    /\ Goto(t, IF task[t].job = "load" THEN "load" ELSE "validate")
    /\ UNCHANGED <<diskVars, memory, boundVars, historyVars>>

SameProcess(s, t) == {s, t} \subseteq App

(* Within a process the mutex is waited for; another process's file lock    *)
(* only for a quarter of a second.                                          *)
LockTimesOut(t) ==
    /\ At(t, "lock") /\ holder # None /\ ~SameProcess(holder, t)
    /\ Fail(t)
    /\ UNCHANGED <<diskVars, memory, boundVars, historyVars>>

-----------------------------------------------------------------------------
(* load_locked *)

(* config.edn wins if it exists at all, readable or not; else config.json,  *)
(* or else the default, which is not written.                               *)
Load(t) ==
    /\ At(t, "load")
    /\ \/ /\ Readable(edn)
          /\ task' = [task EXCEPT ![t].pc = "delete", ![t].base = ConfigOf(edn)]
          /\ astray' = FALSE
          /\ UNCHANGED holder
       \/ /\ edn = None /\ Readable(json)
          /\ task' = [task EXCEPT ![t].pc = "validate", ![t].job = "migrate",
                                  ![t].base = ConfigOf(json)]
          /\ UNCHANGED <<holder, astray>>
       \/ /\ edn = None /\ json = None
          /\ task' = [task EXCEPT ![t].pc = "unlock", ![t].base = Default, ![t].fresh = TRUE]
          /\ astray' = FALSE
          /\ UNCHANGED holder
       \/ /\ IF edn # None THEN ~Readable(edn) ELSE json # None /\ ~Readable(json)
          /\ Fail(t)
          /\ UNCHANGED astray
    /\ UNCHANGED <<diskVars, memory, boundVars, writes, saved, defaulted>>

-----------------------------------------------------------------------------
(* write_canonical and atomic_write *)

(* An invalid configuration, or one that cannot be encoded, is refused.     *)
Validate(t) ==
    /\ At(t, "validate")
    /\ \/ NoFault /\ Goto(t, "write") /\ UNCHANGED holder
       \/ Fault("invalid") /\ Fail(t)
    /\ UNCHANGED <<diskVars, memory, historyVars>>

(* A fresh temporary file is written and synced, or removed again.          *)
WriteTemp(t) ==
    /\ At(t, "write")
    /\ \/ NoFault /\ Goto(t, "rename") /\ UNCHANGED holder
       \/ Fault("write") /\ Fail(t)
    /\ UNCHANGED <<diskVars, memory, historyVars>>

(* The settings that were read, and an edit of them. *)
Written(t) == File(task[t].base.origin, writes + 1)

(* Fault: the directory is not synced after the rename. *)
AfterRenameFaultNoSync == "verify"

AfterRename == "syncParent"

Rename(t) ==
    /\ At(t, "rename")
    /\ \/ /\ NoFault
          /\ Changes(Written(t), json)
          /\ writes' = writes + 1
          /\ task' = [task EXCEPT ![t].pc = AfterRename, ![t].write = writes']
          /\ astray' = TRUE
          /\ UNCHANGED holder
       \/ /\ Fault("rename") /\ Fail(t)
          /\ UNCHANGED <<diskVars, writes, astray>>
    /\ UNCHANGED <<memory, saved, defaulted>>

(* CONFIG_DURABILITY_UNCONFIRMED leaves the new file in place.              *)
SyncParent(t) ==
    /\ At(t, "syncParent")
    /\ \/ /\ NoFault /\ Goto(t, "verify")
          /\ after' = {Directory}
          /\ UNCHANGED holder
       \/ Fault("parentSync") /\ Fail(t) /\ UNCHANGED after
    /\ UNCHANGED <<edn, json, memory, historyVars>>

(* What was written is read back and compared. *)
Verify(t) ==
    /\ At(t, "verify")
    /\ \/ NoFault /\ edn.write = task[t].write /\ Goto(t, "delete") /\ UNCHANGED holder
       \/ NoFault /\ edn.write # task[t].write /\ Fail(t)
       \/ Fault("verify") /\ Fail(t)
    /\ UNCHANGED <<diskVars, memory, historyVars>>

-----------------------------------------------------------------------------
(* The end of a section *)

(* What the section holds in its hands: the configuration it wrote or read. *)
Result(t) == IF task[t].write > 0 THEN [task[t].base EXCEPT !.write = task[t].write] ELSE task[t].base

(* delete_legacy_json; the directory is not synced after it.  A file that   *)
(* cannot be deleted is tried again by the next load or save.               *)
DeleteJson(t) ==
    /\ At(t, "delete")
    /\ Goto(t, IF t \in Save THEN "commit" ELSE "unlock")
    /\ \/ NoFault /\ Changes(edn, None)
       \/ json # None /\ Fault("delete") /\ UNCHANGED diskVars
    /\ UNCHANGED <<holder, memory, historyVars>>

(* persist_config_transaction replaces the memory inside the section.       *)
Commit(t) ==
    /\ At(t, "commit")
    /\ Goto(t, "unlock")
    /\ memory' = Result(t)
    /\ astray' = FALSE
    /\ UNCHANGED <<diskVars, holder, boundVars, writes, saved, defaulted>>

(* The caller is told. *)
Unlock(t) ==
    /\ At(t, "unlock")
    /\ holder' = None
    /\ task' = [task EXCEPT ![t].pc = IF t = Startup THEN "derive" ELSE "done",
                            ![t].base = Result(t), ![t].write = 0]
    /\ saved' = IF task[t].write > saved THEN task[t].write ELSE saved
    /\ astray' = IF t = Startup THEN FALSE ELSE astray
    /\ UNCHANGED <<diskVars, memory, boundVars, writes, defaulted>>

(* Start-up adds a primary agent and the assets it finds, and saves them in *)
(* a section of its own, unless there was no configuration.                 *)
Derive ==
    LET t == Startup IN
    /\ At(t, "derive")
    /\ \/ /\ NoFault
          /\ Goto(t, "done")
          /\ memory' = task[t].base
          /\ UNCHANGED holder
       \/ /\ NoFault
          /\ ~task[t].fresh /\ task[t].job # "save"
          /\ task' = [task EXCEPT ![t].pc = "lock", ![t].job = "save"]
          /\ UNCHANGED <<memory, holder>>
       \/ task[t].job # "save" /\ Fault("scan") /\ Fail(t) /\ UNCHANGED memory
    /\ UNCHANGED <<diskVars, historyVars>>

(* load_startup_config_or_default *)
UseDefaults ==
    /\ At(Startup, "defaults")
    /\ Goto(Startup, "done")
    /\ memory' = Default
    /\ defaulted' = TRUE
    /\ UNCHANGED <<diskVars, holder, boundVars, writes, saved, astray>>

-----------------------------------------------------------------------------
(* The end of a process and of the power *)

Gone(T) == [t \in Task |->
    IF t \notin T THEN task[t]
    ELSE IF t = Startup \/ At(t, "idle") THEN IdleTask ELSE [IdleTask EXCEPT !.pc = "done"]]

(* The application ends at any point; the system keeps what was written and *)
(* releases its lock.                                                       *)
AppEnds ==
    /\ crashes < setup.crashes
    /\ ~At(Startup, "idle")
    /\ crashes' = crashes + 1
    /\ task' = Gone(App)
    /\ holder' = IF holder \in App THEN None ELSE holder
    /\ memory' = None
    /\ UNCHANGED <<diskVars, setup, faults, losses, historyVars>>

PowerLoss ==
    /\ losses < setup.losses
    /\ losses' = losses + 1
    /\ \E d \in after : edn' = Torn(d.edn) /\ json' = Torn(d.json)
    /\ after' = {[edn |-> edn', json |-> json']}
    /\ task' = Gone(Task)
    /\ holder' = None
    /\ memory' = None
    /\ UNCHANGED <<setup, faults, crashes, historyVars>>

SectionStep(t) ==
    \/ Load(t) \/ Validate(t) \/ WriteTemp(t) \/ Rename(t) \/ SyncParent(t) \/ Verify(t)
    \/ DeleteJson(t) \/ Commit(t) \/ Unlock(t)

TaskStep(t) == Lock(t) \/ LockTimesOut(t) \/ SectionStep(t)

Next ==
    \/ StartupBegins \/ Derive \/ UseDefaults
    \/ \E t \in Task : SaveAsked(t) \/ ConfigureAsked(t) \/ TaskStep(t)
    \/ AppEnds \/ PowerLoss

Spec == Init /\ [][Next]_vars

-----------------------------------------------------------------------------
(* Properties *)

ConfigTypeOK ==
    /\ edn \in FileType \cup {None} /\ json \in FileType \cup {None}
    /\ after \subseteq [edn : FileType \cup {None}, json : FileType \cup {None}]
    /\ Directory \in after
    /\ holder \in Task \cup {None}
    /\ memory \in ConfigType \cup {None}
    /\ task \in [Task -> TaskType]
    /\ setup \in Setups /\ faults \in Nat /\ crashes \in Nat /\ losses \in Nat
    /\ writes \in Nat /\ saved \in 0 .. writes
    /\ astray \in BOOLEAN /\ defaulted \in BOOLEAN

InSection == {"load", "validate", "write", "rename", "syncParent", "verify",
              "delete", "commit", "unlock"}

(* No failure leaves the lock with a task that has left its section, where  *)
(* it would bar all others for ever; and nobody is in a section without it. *)
LockIsHeld == \A t \in Task : holder = t <=> task[t].pc \in InSection

(* A save that was reported as done survives a loss of the power at any     *)
(* later moment: what is found is its configuration or a later one, whole.  *)
SavedIsDurable == saved > 0 =>
    \A d \in after : LET f == Torn(d.edn) IN Readable(f) /\ f.write >= saved

(* What a start-up would read. *)
Effective(e, j) == IF e # None THEN e ELSE j

(* The settings that were there at first, in the file that counts.          *)
Settings == IF setup.edn = "none" THEN Found(setup.json, "json") ELSE Found(setup.edn, "edn")

(* A file system that keeps no order may undo the rename and not the        *)
(* deletion, if the directory was not synced between: after a sync that     *)
(* failed, or an end before it, the next load deletes config.json at once.  *)
DirectoryIsSound ==
    setup.ordered \/ ("parentSync" \notin setup.kinds /\ setup.crashes = 0)

(* Settings are never lost on the way from config.json to config.edn or     *)
(* from one save to the next, whenever the application or the power ends:   *)
(* what a start-up would read holds the settings of the file that counted   *)
(* at first.  (Unless a start-up fell back on the defaults, which the next  *)
(* save then writes.)                                                       *)
SettingsSurvive ==
    Readable(Settings) /\ ~defaulted /\ DirectoryIsSound => \A d \in after :
        LET f == Torn(Effective(d.edn, d.json)) IN
        Readable(f) /\ f.origin = Settings.origin

(* Once reported, and on the way there, a configuration is safe on disk.    *)
ConfigIsDurable == ConfigTypeOK /\ LockIsHeld /\ SavedIsDurable /\ SettingsSurvive

(* Saves of the application that overlap leave its memory equal to the      *)
(* file, whichever comes first and whichever fails; except while another    *)
(* process has written the file, or a save failed after its rename.         *)
MemoryIsDisk ==
    holder = None /\ memory # None /\ ~astray /\ ~defaulted =>
        memory = IF edn = None THEN Default ELSE ConfigOf(edn)

=============================================================================
