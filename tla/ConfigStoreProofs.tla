-------------------------- MODULE ConfigStoreProofs --------------------------
(* The configuration store, for any number of saves and of runs of          *)
(* `cairn configure`, any files found at first, and any number of faults,   *)
(* ends of the application and losses of the power.                         *)
(*                                                                          *)
(* What a save returns is durable because nothing but the section that      *)
(* holds the lock changes the directory, and because each change adds to    *)
(* what a power loss may leave only what that section has written.  So the  *)
(* invariant relates the place of every task to the file it has written,    *)
(* and every directory that a power loss may leave to the files it mixes.   *)
EXTENDS ConfigStore, TLAPS

-----------------------------------------------------------------------------
(* The inductive invariant *)

(* A place of the directory: a file or none.                                *)
Files == FileType \cup {None}
(* The configuration in config.edn, as a process sees it.                   *)
Disk == IF edn = None THEN Default ELSE ConfigOf(edn)

(* Every file that a power loss may leave is whole, and no write is         *)
(* unknown.                                                                 *)
WholeInv ==
    \A d \in after : \A f \in {d.edn, d.json} : f # None => f.synced /\ f.write <= writes

(* The places of a task before its rename, between the rename and the check *)
(* of the file, and after.                                                  *)
Fresh == {"idle", "lock", "load", "validate", "write", "rename", "derive"}
Wrote == {"syncParent", "verify"}
Ends == {"delete", "commit", "unlock"}

(* What its place says of a task: a task that has renamed a file finds it   *)
(* as config.edn, since it holds the lock; what it holds in its hands at    *)
(* the end is what is there; and what it has synced is, it or a later one,  *)
(* in every directory that a power loss may leave. Only start-up loads, and *)
(* only a save of the application replaces the memory.                      *)
TaskOK(t) ==
    /\ task[t].pc \in Fresh => task[t].write = 0
    /\ task[t].pc \in Wrote => task[t].write > 0
    /\ task[t].pc \in Wrote \cup {"delete", "commit"} => edn # None /\ edn.origin # "bad"
    /\ task[t].pc \in Wrote \cup Ends /\ task[t].write > 0 =>
          edn = File(task[t].base.origin, task[t].write)
    /\ task[t].pc \in Ends => Result(t) = Disk
    /\ task[t].pc \in {"verify"} \cup Ends /\ task[t].write > 0 =>
          \A d \in after : d.edn # None /\ d.edn.origin # "bad" /\ d.edn.write >= task[t].write
    /\ task[t].pc = "load" => task[t].job = "load"
    /\ t # Startup => task[t].job = "save" /\ task[t].pc \notin {"derive", "defaults"}
    /\ task[t].pc = "commit" => t \in Save
    /\ t \in Save /\ task[t].pc \notin {"idle", "done"} => memory # None

(* The memory is set when start-up is done, and is what config.edn holds    *)
(* unless the file has changed unknown to the application. Start-up keeps   *)
(* between its two sections what it has loaded.                             *)
MemoryInv ==
    /\ memory # None => task[Startup].pc = "done"
    /\ memory # None /\ ~astray /\ ~defaulted => memory = Disk
    /\ task[Startup].pc = "derive" /\ ~astray => task[Startup].base = Disk

(* Every directory that a power loss may leave has a readable config.edn    *)
(* that is at least as new as what was reported.                            *)
DurableInv == saved > 0 =>
    \A d \in after : d.edn # None /\ d.edn.origin # "bad" /\ d.edn.write >= saved

(* Without order, each of the two files may be left in each of its states,  *)
(* whatever becomes of the other; but config.edn does not vanish once it is *)
(* there, unless the directory could not be synced.                         *)
CrossInv == ~setup.ordered =>
    /\ \A d, e \in after : [edn |-> d.edn, json |-> e.json] \in after
    /\ /\ "parentSync" \notin setup.kinds /\ setup.crashes = 0
       /\ (\A t \in Task : task[t].pc # "syncParent") /\ edn # None
       => \A d \in after : d.edn # None

(* Task t has read a configuration, or was given one to save.               *)
Holding(t) ==
    \/ task[t].pc \in {"validate", "write", "rename", "derive"} \cup Wrote \cup Ends
    \/ task[t].pc = "lock" /\ task[t].job # "load"

(* A start-up that finds e and j reads settings that come from the file o.  *)
Good(e, j, o) == Effective(e, j) # None /\ Effective(e, j).origin = o

(* The settings of the file o are those that must survive.                  *)
Kept(o) ==
    Readable(Settings) /\ Settings.origin = o /\ ~defaulted /\ DirectoryIsSound

(* Settings that must survive are what any start-up would read, what the    *)
(* memory holds, and what every task that may write has in its hands.       *)
SettingsInv == \A o \in {"edn", "json"} : Kept(o) =>
    /\ \A d \in after : Good(d.edn, d.json, o)
    /\ memory # None => memory.origin = o
    /\ \A t \in Task : Holding(t) => task[t].base.origin = o

(* The inductive invariant.                                                 *)
ConfigInv == ConfigTypeOK /\ LockIsHeld /\ WholeInv /\ (\A t \in Task : TaskOK(t))
             /\ MemoryInv /\ DurableInv /\ CrossInv /\ SettingsInv

-----------------------------------------------------------------------------
(* What the steps that change much do *)

(* The circumstances never change, so the settings that must survive are    *)
(* the same until a start-up falls back on defaults.                        *)
LEMMA SettingsStay == ASSUME NEW o, UNCHANGED setup, defaulted' = defaulted \/ defaulted'
    PROVE Kept(o)' => Kept(o) /\ (DirectoryIsSound' <=> DirectoryIsSound)
BY DEF Kept, Settings, DirectoryIsSound, Found, Readable

(* The tasks that begin or have ended are tasks.                            *)
LEMMA TaskValues ==
    /\ IdleTask \in TaskType
    /\ [IdleTask EXCEPT !.pc = "done"] \in TaskType
    /\ [IdleTask EXCEPT !.pc = "lock", !.job = "load"] \in TaskType
BY DEF TaskType, IdleTask, Default, Points, ConfigType, Origins

(* What a section holds in its hands is a configuration.                    *)
LEMMA ResultType ==
    ASSUME ConfigTypeOK, NEW t \in Task PROVE Result(t) \in ConfigType
BY DEF ConfigTypeOK, Result, TaskType, ConfigType

(* A change of the directory keeps its types.                               *)
LEMMA ChangesTypes ==
    ASSUME ConfigTypeOK, NEW e \in Files, NEW j \in Files, Changes(e, j)
    PROVE  /\ edn' \in Files /\ json' \in Files
           /\ after' \subseteq [edn : Files, json : Files]
           /\ Directory' \in after'
<1>1. /\ after \subseteq [edn : Files, json : Files]
      /\ edn' = e /\ json' = j
      /\ Directory' = [edn |-> e, json |-> j]
  BY DEF ConfigTypeOK, Changes, Directory, Files
<1> DEFINE ends == after \cup {[edn |-> e, json |-> j]}
<1>2. ends \subseteq [edn : Files, json : Files] /\ [edn |-> e, json |-> j] \in ends
  BY <1>1
<1>3. after' = IF setup.ordered THEN ends
               ELSE [edn : {d.edn : d \in ends}, json : {d.json : d \in ends}]
  BY DEF Changes
<1> HIDE DEF ends
<1>4. CASE setup.ordered
  BY <1>1, <1>2, <1>3, <1>4
<1>5. CASE ~setup.ordered
  <2>1. after' = [edn : {d.edn : d \in ends}, json : {d.json : d \in ends}]
    BY <1>3, <1>5
  <2>2. e \in {d.edn : d \in ends} /\ j \in {d.json : d \in ends}
    BY <1>2
  <2>3. {d.edn : d \in ends} \subseteq Files /\ {d.json : d \in ends} \subseteq Files
    BY <1>2
  <2> QED BY ONLY <1>1, <2>1, <2>2, <2>3
<1> QED BY <1>4, <1>5

(* Tasks that end with their process are tasks.                             *)
LEMMA GoneType == ASSUME ConfigTypeOK, NEW T PROVE Gone(T) \in [Task -> TaskType]
BY TaskValues DEF ConfigTypeOK, Gone

(* The file that a save renames into place: whole, of the settings it was   *)
(* given, and newer than all others.                                        *)
LEMMA WrittenIs ==
    ASSUME ConfigInv, NEW t \in Task
    PROVE  /\ Written(t) \in Files /\ Written(t) # None
           /\ Written(t).origin = task[t].base.origin /\ Written(t).origin # "bad"
           /\ Written(t).synced /\ Written(t).write = writes + 1
           /\ json \in Files /\ Directory \in after /\ Directory.json = json
<1>1. Written(t) \in FileType
  BY DEF ConfigInv, ConfigTypeOK, Written, File, TaskType, ConfigType, FileType
<1>2. task[t].base.origin # "bad"
  BY DEF ConfigInv, ConfigTypeOK, TaskType, ConfigType, Origins
<1> QED BY <1>1, <1>2, NoneIsNoValue DEF ConfigInv, ConfigTypeOK, Written, File,
   Files, Directory

(* A change adds to what a power loss may leave only the new files, each in *)
(* its place; with order, only the new directory.                           *)
LEMMA ChangesEffect ==
    ASSUME ConfigTypeOK, NEW e \in Files, NEW j \in Files, Changes(e, j)
    PROVE  /\ edn' = e /\ json' = j
           /\ \A d \in after' :
                /\ d.edn = e \/ \E x \in after : d.edn = x.edn
                /\ d.json = j \/ \E x \in after : d.json = x.json
                /\ setup.ordered => d \in after \/ d = [edn |-> e, json |-> j]
<1> DEFINE ends == after \cup {[edn |-> e, json |-> j]}
<1>1. \A x \in ends : x \in after \/ x = [edn |-> e, json |-> j]
  OBVIOUS
<1>2. after' = IF setup.ordered THEN ends
               ELSE [edn : {d.edn : d \in ends}, json : {d.json : d \in ends}]
  BY DEF Changes
<1> HIDE DEF ends
<1>3. \A d \in after' :
        /\ \E x \in ends : d.edn = x.edn
        /\ \E x \in ends : d.json = x.json
        /\ setup.ordered => d \in ends
  <2>1. CASE setup.ordered
    BY <1>2, <2>1
  <2>2. CASE ~setup.ordered
    BY <1>2, <2>2
  <2> QED BY <2>1, <2>2
<1> QED BY <1>1, <1>3 DEF Changes

(* A section ends with what config.edn holds.                               *)
LEMMA UnlockEffect ==
    ASSUME ConfigInv, NEW t \in Task, Unlock(t)
    PROVE  /\ \A s \in Task : s # t => task'[s] = task[s]
           /\ task'[t].pc = IF t = Startup THEN "derive" ELSE "done"
           /\ task'[t].base = Disk /\ Result(t) = Disk /\ task'[t].write = 0
           /\ task'[t].job = task[t].job
           /\ UNCHANGED <<edn, json, after, memory, setup, writes, defaulted>>
           /\ holder' = None /\ t = holder /\ task[t].pc = "unlock"
           /\ astray' = (IF t = Startup THEN FALSE ELSE astray)
           /\ Disk' = Disk
<1>1. task[t].pc = "unlock"
  BY DEF Unlock, At
<1>2. Result(t) = Disk /\ t = holder
  BY <1>1 DEF ConfigInv, TaskOK, Ends, LockIsHeld, InSection
<1>3. PICK b : b = Result(t)
  OBVIOUS
<1>4. task' = [task EXCEPT ![t].pc = IF t = Startup THEN "derive" ELSE "done",
                           ![t].base = b, ![t].write = 0]
  BY <1>3 DEF Unlock
<1>5. task \in [Task -> TaskType]
  BY DEF ConfigInv, ConfigTypeOK
<1>6. /\ \A s \in Task : s # t => task'[s] = task[s]
      /\ task'[t].pc = IF t = Startup THEN "derive" ELSE "done"
      /\ task'[t].base = b /\ task'[t].write = 0 /\ task'[t].job = task[t].job
  BY <1>4, <1>5 DEF TaskType
<1> QED BY <1>1, <1>2, <1>3, <1>6 DEF Unlock, Disk, diskVars, boundVars

(* A step that does not touch the directory leaves what is durable.         *)
LEMMA OffDisk ==
    ASSUME ConfigInv, UNCHANGED <<diskVars, writes, saved>> PROVE WholeInv' /\ DurableInv'
BY DEF ConfigInv, WholeInv, DurableInv, diskVars

-----------------------------------------------------------------------------
(* Steps and types *)

(* StartupBegins keeps the types.                                           *)
LEMMA StartupBeginsTypes == ASSUME ConfigInv, StartupBegins PROVE ConfigTypeOK'
<1>1. task' \in [Task -> TaskType]
  BY TaskValues DEF ConfigInv, ConfigTypeOK, StartupBegins, Task
<1> QED BY <1>1, Zenon DEF ConfigInv, ConfigTypeOK, StartupBegins, Directory,
   diskVars, boundVars, historyVars

(* SaveAsked keeps the types.                                               *)
LEMMA SaveAskedTypes == ASSUME ConfigInv, NEW t \in Task, SaveAsked(t) PROVE ConfigTypeOK'
<1>1. PICK m \in ConfigType : m = memory
  BY DEF ConfigInv, ConfigTypeOK, SaveAsked
<1>2. task \in [Task -> TaskType] /\ task[t] \in TaskType
  BY DEF ConfigInv, ConfigTypeOK
<1>3. task' \in [Task -> TaskType]
  <2>1. task' = [task EXCEPT ![t] = [task[t] EXCEPT !.pc = "lock", !.base = m]]
    BY <1>1, <1>2 DEF SaveAsked
  <2>2. [task[t] EXCEPT !.pc = "lock", !.base = m] \in TaskType
    BY <1>1, <1>2 DEF TaskType, Points
  <2> QED BY <2>1, <2>2, <1>2
<1> QED BY <1>3, Zenon DEF ConfigInv, ConfigTypeOK, SaveAsked, Directory, diskVars,
   boundVars, historyVars

(* Rename keeps the types.                                                  *)
LEMMA RenameTypes == ASSUME ConfigInv, NEW t \in Task, Rename(t) PROVE ConfigTypeOK'
<1>1. CASE UNCHANGED <<diskVars, writes, astray>> /\ Fail(t) /\ Fault("rename")
  BY <1>1 DEF ConfigInv, ConfigTypeOK, Rename, Directory, diskVars, Fail, Goto,
     Fault, TaskType, Points
<1>2. CASE NoFault /\ Changes(Written(t), json) /\ writes' = writes + 1 /\ UNCHANGED holder
           /\ task' = [task EXCEPT ![t].pc = AfterRename, ![t].write = writes'] /\ astray' = TRUE
  <2>1. Written(t) \in Files /\ json \in Files
    BY DEF ConfigInv, ConfigTypeOK, Written, File, Files, TaskType, ConfigType,
       FileType
  <2>2. /\ edn' \in Files /\ json' \in Files /\ after' \subseteq [edn : Files, json : Files]
        /\ Directory' \in after'
    BY <1>2, <2>1, ChangesTypes DEF ConfigInv
  <2>3. task' \in [Task -> TaskType]
    <3>1. PICK w \in Nat : w = writes + 1
      BY DEF ConfigInv, ConfigTypeOK
    <3>2. task \in [Task -> TaskType] /\ task[t] \in TaskType
      BY DEF ConfigInv, ConfigTypeOK
    <3>3. task' = [task EXCEPT ![t] = [task[t] EXCEPT !.pc = AfterRename, !.write = w]]
      BY <1>2, <3>1, <3>2
    <3>4. [task[t] EXCEPT !.pc = AfterRename, !.write = w] \in TaskType
      BY <3>1, <3>2 DEF TaskType, Points, AfterRename
    <3> QED BY <3>2, <3>3, <3>4
  <2>4. saved' \in 0 .. writes' /\ writes' \in Nat
    BY <1>2 DEF ConfigInv, ConfigTypeOK, Rename
  <2> QED BY <1>2, <2>2, <2>3, <2>4, Zenon
     DEF ConfigInv, ConfigTypeOK, Rename, NoFault, boundVars, Files
<1> QED BY <1>1, <1>2 DEF Rename

(* DeleteJson keeps the types.                                              *)
LEMMA DeleteJsonTypes == ASSUME ConfigInv, NEW t \in Task, DeleteJson(t) PROVE ConfigTypeOK'
<1>1. task' \in [Task -> TaskType]
  BY DEF ConfigInv, ConfigTypeOK, DeleteJson, Goto, TaskType, Points
<1>2. /\ edn' \in Files /\ json' \in Files /\ after' \subseteq [edn : Files, json : Files]
      /\ Directory' \in after'
  <2>1. CASE Changes(edn, None)
    BY <2>1, ChangesTypes DEF ConfigInv, ConfigTypeOK, Files
  <2>2. CASE UNCHANGED diskVars
    BY <2>2, Zenon DEF ConfigInv, ConfigTypeOK, Files, Directory, diskVars
  <2> QED BY <2>1, <2>2 DEF DeleteJson
<1>3. setup' \in Setups /\ faults' \in Nat /\ crashes' \in Nat /\ losses' \in Nat
  BY DEF ConfigInv, ConfigTypeOK, DeleteJson, NoFault, Fault, boundVars
<1> QED BY <1>1, <1>2, <1>3, Zenon DEF ConfigInv, ConfigTypeOK, DeleteJson,
   historyVars, Files

(* Commit keeps the types.                                                  *)
LEMMA CommitTypes == ASSUME ConfigInv, NEW t \in Task, Commit(t) PROVE ConfigTypeOK'
<1>1. task' \in [Task -> TaskType]
  BY DEF ConfigInv, ConfigTypeOK, Commit, Goto, TaskType, Points
<1>2. memory' \in ConfigType \cup {None}
  BY ResultType DEF ConfigInv, Commit
<1> QED BY <1>1, <1>2, Zenon DEF ConfigInv, ConfigTypeOK, Commit, boundVars,
   diskVars, Directory

(* Unlock keeps the types.                                                  *)
LEMMA UnlockTypes == ASSUME ConfigInv, NEW t \in Task, Unlock(t) PROVE ConfigTypeOK'
<1>1. PICK b \in ConfigType : b = Result(t)
  BY ResultType DEF ConfigInv
<1>2. task' \in [Task -> TaskType]
  <2> DEFINE p == IF t = Startup THEN "derive" ELSE "done"
  <2>1. task' = [task EXCEPT ![t] = [task[t] EXCEPT !.pc = p, !.base = b, !.write = 0]]
    BY <1>1 DEF Unlock
  <2>2. task \in [Task -> TaskType] /\ task[t] \in TaskType
    BY DEF ConfigInv, ConfigTypeOK
  <2>3. p \in Points
    BY DEF Points
  <2> HIDE DEF p
  <2>4. [task[t] EXCEPT !.pc = p, !.base = b, !.write = 0] \in TaskType
    BY <2>2, <2>3 DEF TaskType
  <2> QED BY <2>1, <2>2, <2>4
<1>3. saved' \in 0 .. writes'
  <2>1. task[t].write > 0 => task[t].write <= writes
    <3> SUFFICES ASSUME task[t].write > 0 PROVE task[t].write <= writes
      OBVIOUS
    <3>1. edn = File(task[t].base.origin, task[t].write)
      BY DEF ConfigInv, TaskOK, Unlock, At, Ends
    <3>2. edn # None => edn.write <= writes
      BY DEF ConfigInv, WholeInv, ConfigTypeOK, Directory
    <3>3. File(task[t].base.origin, task[t].write) \in FileType
      BY DEF File, ConfigInv, ConfigTypeOK, TaskType, ConfigType, FileType
    <3> QED BY <3>1, <3>2, <3>3, NoneIsNoValue DEF File
  <2> QED BY <2>1 DEF ConfigInv, ConfigTypeOK, Unlock, TaskType
<1>4. astray' \in BOOLEAN
  BY Zenon DEF ConfigInv, ConfigTypeOK, Unlock
<1> QED BY <1>2, <1>3, <1>4, Zenon DEF ConfigInv, ConfigTypeOK, Unlock, boundVars,
   diskVars, Directory

(* Load keeps the types.                                                    *)
LEMMA LoadTypes == ASSUME ConfigInv, NEW t \in Task, Load(t) PROVE ConfigTypeOK'
<1>1. task' \in [Task -> TaskType]
  BY DEF ConfigInv, ConfigTypeOK, Load, TaskType, Points, Fail, Goto
<1>2. holder' \in Task \cup {None}
  BY DEF ConfigInv, ConfigTypeOK, Load, Fail
<1>3. astray' \in BOOLEAN
  BY Zenon DEF ConfigInv, ConfigTypeOK, Load
<1> QED BY <1>1, <1>2, <1>3, Zenon DEF ConfigInv, ConfigTypeOK, Load, boundVars,
   diskVars, Directory

(* AppEnds keeps the types.                                                 *)
LEMMA AppEndsTypes == ASSUME ConfigInv, AppEnds PROVE ConfigTypeOK'
<1>1. task' \in [Task -> TaskType]
  BY GoneType DEF ConfigInv, AppEnds
<1>2. holder' \in Task \cup {None} /\ crashes' \in Nat
  BY DEF ConfigInv, ConfigTypeOK, AppEnds
<1> QED BY <1>1, <1>2, Zenon DEF ConfigInv, ConfigTypeOK, AppEnds, diskVars,
   historyVars, Directory

(* PowerLoss keeps the types.                                               *)
LEMMA PowerLossTypes == ASSUME ConfigInv, PowerLoss PROVE ConfigTypeOK'
<1>1. task' \in [Task -> TaskType]
  BY GoneType DEF ConfigInv, PowerLoss
<1>2. edn' \in FileType \cup {None} /\ json' \in FileType \cup {None}
  BY DEF ConfigInv, ConfigTypeOK, PowerLoss, Torn, File, FileType
<1>3. /\ after' \subseteq [edn : FileType \cup {None}, json : FileType \cup {None}]
      /\ Directory' \in after'
  BY <1>2 DEF PowerLoss, Directory
<1>4. holder' \in Task \cup {None} /\ losses' \in Nat /\ memory' \in ConfigType \cup {None}
  BY DEF ConfigInv, ConfigTypeOK, PowerLoss
<1> QED BY <1>1, <1>2, <1>3, <1>4, Zenon
   DEF ConfigInv, ConfigTypeOK, PowerLoss, historyVars

-----------------------------------------------------------------------------
(* Where a task gets its configuration from *)

(* Start-up begins.                                                         *)
LEMMA StartupBeginsKeeps ==
    ASSUME ConfigInv, StartupBegins PROVE ConfigInv'
<1>1. ConfigTypeOK'
  BY StartupBeginsTypes
<1>2. WholeInv' /\ DurableInv'
  BY OffDisk DEF StartupBegins, historyVars
<1>3. LockIsHeld'
  BY DEF ConfigInv, LockIsHeld, InSection, StartupBegins, At
<1>4. \A s \in Task : TaskOK(s)'
  BY TaskAssumption DEF ConfigInv, TaskOK, Ends, Disk, Result, Wrote,
     StartupBegins, diskVars, IdleTask
<1>5. MemoryInv'
  BY DEF MemoryInv, StartupBegins, At
<1>6. CrossInv'
  BY DEF ConfigInv, CrossInv, StartupBegins, boundVars, diskVars, At
<1>7. SettingsInv'
  BY SettingsStay DEF ConfigInv, Ends, Wrote, SettingsInv, Holding, StartupBegins,
     historyVars, boundVars, diskVars
<1> QED BY ONLY <1>1, <1>2, <1>3, <1>4, <1>5, <1>6, <1>7 DEF ConfigInv

(* Start-up takes over what it loaded, or saves it in a second section.     *)
LEMMA DeriveKeeps ==
    ASSUME ConfigInv, Derive PROVE ConfigInv'
<1>1. ConfigTypeOK'
  BY DEF ConfigInv, ConfigTypeOK, TaskType, Points, Task, Directory, Derive,
     historyVars, diskVars, Fail, Goto, Fault, NoFault, boundVars
<1>2. WholeInv' /\ DurableInv'
  BY OffDisk DEF Derive, historyVars
<1>3. LockIsHeld'
  BY DEF ConfigInv, ConfigTypeOK, LockIsHeld, InSection, Derive, Fail, Goto, At,
     TaskType
<1>4. \A s \in Task : TaskOK(s)'
  BY TaskAssumption, NoneIsNoValue DEF ConfigInv, ConfigTypeOK, Task, TaskOK, Ends,
     Disk, Result, Wrote, Fresh, Derive, diskVars, Fail, Goto, TaskType
<1>5. MemoryInv'
  BY DEF ConfigInv, ConfigTypeOK, Task, Disk, MemoryInv, Derive, historyVars,
     diskVars, Fail, Goto, At, TaskType
<1>6. CrossInv'
  BY DEF ConfigInv, ConfigTypeOK, CrossInv, Derive, diskVars, Fail, Goto, Fault,
     NoFault, boundVars, At
<1>7. SettingsInv'
  BY SettingsStay DEF ConfigInv, ConfigTypeOK, Task, SettingsInv, Holding, Derive,
     historyVars, diskVars, Fail, Goto, Fault, NoFault, boundVars, At, TaskType
<1> QED BY ONLY <1>1, <1>2, <1>3, <1>4, <1>5, <1>6, <1>7 DEF ConfigInv

(* Start-up falls back on the defaults: from then on no settings are        *)
(* claimed to survive.                                                      *)
LEMMA UseDefaultsKeeps ==
    ASSUME ConfigInv, UseDefaults PROVE ConfigInv'
<1>1. ConfigTypeOK'
  BY DEF ConfigInv, ConfigTypeOK, TaskType, ConfigType, Origins, Points, Task,
     Directory, UseDefaults, boundVars, diskVars, Default, Goto
<1>2. WholeInv' /\ DurableInv'
  BY OffDisk DEF UseDefaults, historyVars
<1>3. LockIsHeld'
  BY DEF ConfigInv, LockIsHeld, InSection, UseDefaults, Goto, At
<1>4. \A s \in Task : TaskOK(s)'
  BY NoneIsNoValue DEF ConfigInv, TaskOK, Ends, Disk, Default, Result, Wrote,
     Fresh, UseDefaults, diskVars, Goto, ConfigType, Origins
<1>5. MemoryInv'
  BY <1>1 DEF ConfigTypeOK, MemoryInv, UseDefaults, Goto
<1>6. CrossInv'
  BY DEF ConfigInv, CrossInv, UseDefaults, boundVars, diskVars, Goto, At
<1>7. SettingsInv'
  BY DEF UseDefaults, SettingsInv, Kept
<1> QED BY ONLY <1>1, <1>2, <1>3, <1>4, <1>5, <1>6, <1>7 DEF ConfigInv

(* A save of the application takes its configuration from the memory.       *)
LEMMA SaveAskedKeeps ==
    ASSUME ConfigInv, NEW t \in Task, SaveAsked(t) PROVE ConfigInv'
<1>1. ConfigTypeOK'
  BY SaveAskedTypes
<1>2. WholeInv' /\ DurableInv'
  BY OffDisk DEF SaveAsked, historyVars
<1>3. LockIsHeld'
  BY DEF ConfigInv, ConfigTypeOK, LockIsHeld, InSection, SaveAsked, At
<1>4. \A s \in Task : TaskOK(s)'
  BY DEF ConfigInv, ConfigTypeOK, TaskOK, Ends, Disk, ConfigOf, Result, Wrote,
     Fresh, SaveAsked, diskVars, At, TaskType
<1>5. MemoryInv'
  BY TaskAssumption DEF ConfigInv, ConfigTypeOK, Task, Disk, MemoryInv, SaveAsked,
     historyVars, diskVars
<1>6. CrossInv'
  BY DEF ConfigInv, ConfigTypeOK, CrossInv, SaveAsked, boundVars, diskVars, At
<1>7. SettingsInv'
  <2>1. /\ UNCHANGED <<after, memory, setup, defaulted>> /\ memory # None
        /\ \A s \in Task : s # t => task'[s] = task[s]
        /\ task'[t].base = memory
    BY DEF ConfigInv, ConfigTypeOK, TaskType, SaveAsked, diskVars, boundVars,
       historyVars
  <2>2. \A s \in Task : Holding(s)' => s = t \/ (Holding(s) /\ task'[s] = task[s])
    BY <2>1 DEF Holding
  <2> QED BY <2>1, <2>2, SettingsStay DEF ConfigInv, SettingsInv
<1> QED BY ONLY <1>1, <1>2, <1>3, <1>4, <1>5, <1>6, <1>7 DEF ConfigInv

(* `cairn configure` takes its configuration from the file.                 *)
LEMMA ConfigureAskedKeeps ==
    ASSUME ConfigInv, NEW t \in Task, ConfigureAsked(t) PROVE ConfigInv'
<1>1. ConfigTypeOK'
  BY DEF ConfigInv, ConfigTypeOK, TaskType, Points, Directory, ConfigureAsked,
     historyVars, boundVars, diskVars, Goto
<1>2. WholeInv' /\ DurableInv'
  BY OffDisk DEF ConfigureAsked, historyVars
<1>3. LockIsHeld'
  BY DEF ConfigInv, ConfigTypeOK, LockIsHeld, InSection, ConfigureAsked, Goto, At,
     TaskType
<1>4. \A s \in Task : TaskOK(s)'
  BY TaskAssumption DEF ConfigInv, ConfigTypeOK, Task, TaskOK, Ends, Disk,
     ConfigOf, Result, Wrote, Fresh, ConfigureAsked, diskVars, Goto, At, TaskType
<1>5. MemoryInv'
  BY TaskAssumption DEF ConfigInv, ConfigTypeOK, Task, Disk, MemoryInv,
     ConfigureAsked, historyVars, diskVars, Goto
<1>6. CrossInv'
  BY DEF ConfigInv, ConfigTypeOK, CrossInv, ConfigureAsked, boundVars, diskVars,
     Goto, At
<1>7. SettingsInv'
  <2>1. /\ UNCHANGED <<edn, json, after, memory, setup, defaulted>>
        /\ \A s \in Task : s # t => task'[s] = task[s]
        /\ \/ task'[t].pc = "done"
           \/ Readable(edn) /\ task'[t].base = ConfigOf(edn)
    BY DEF ConfigInv, ConfigTypeOK, TaskType, ConfigureAsked, Goto, diskVars,
       boundVars, historyVars
  <2>2. \A s \in Task : Holding(s)' =>
          \/ Holding(s) /\ task'[s] = task[s]
          \/ s = t /\ Readable(edn) /\ task'[t].base = ConfigOf(edn)
    BY <2>1 DEF Holding, Wrote, Ends
  <2>3. \A o : Readable(edn) /\ Good(edn, json, o) => ConfigOf(edn).origin = o
    BY DEF Good, Effective, Readable, ConfigOf
  <2>4. Directory \in after /\ Directory.edn = edn /\ Directory.json = json
    BY DEF ConfigInv, ConfigTypeOK, Directory
  <2> QED BY <2>1, <2>2, <2>3, <2>4, SettingsStay DEF ConfigInv, SettingsInv
<1> QED BY ONLY <1>1, <1>2, <1>3, <1>4, <1>5, <1>6, <1>7 DEF ConfigInv

-----------------------------------------------------------------------------
(* The steps of a section *)

(* A task enters its section: nobody else is in one.                        *)
LEMMA LockKeeps ==
    ASSUME ConfigInv, NEW t \in Task, Lock(t) PROVE ConfigInv'
<1>1. ConfigTypeOK'
  BY DEF ConfigInv, ConfigTypeOK, TaskType, Points, Directory, Lock, historyVars,
     boundVars, diskVars, Goto
<1>2. WholeInv' /\ DurableInv'
  BY OffDisk DEF Lock, historyVars
<1>3. LockIsHeld'
  BY TaskAssumption DEF ConfigInv, ConfigTypeOK, LockIsHeld, InSection, Task, Lock,
     Goto, CanLock
<1>4. \A s \in Task : TaskOK(s)'
  BY DEF ConfigInv, TaskOK, Ends, Disk, Result, Wrote, Fresh, Lock, diskVars, Goto,
     At
<1>5. MemoryInv'
  BY DEF ConfigInv, Disk, MemoryInv, Lock, historyVars, diskVars, Goto, At
<1>6. CrossInv'
  BY DEF ConfigInv, CrossInv, Lock, boundVars, diskVars, Goto, At
<1>7. SettingsInv'
  BY SettingsStay DEF ConfigInv, Ends, Wrote, SettingsInv, Holding, Lock,
     historyVars, boundVars, diskVars, Goto, At
<1> QED BY ONLY <1>1, <1>2, <1>3, <1>4, <1>5, <1>6, <1>7 DEF ConfigInv

(* A task gives up waiting for the lock.                                    *)
LEMMA LockTimesOutKeeps ==
    ASSUME ConfigInv, NEW t \in Task, LockTimesOut(t) PROVE ConfigInv'
<1>1. ConfigTypeOK'
  BY DEF ConfigInv, ConfigTypeOK, TaskType, Points, Directory, LockTimesOut,
     historyVars, boundVars, diskVars, Fail, Goto
<1>2. WholeInv' /\ DurableInv'
  BY OffDisk DEF LockTimesOut, historyVars
<1>3. LockIsHeld'
  BY TaskAssumption DEF ConfigInv, ConfigTypeOK, LockIsHeld, InSection, Task,
     LockTimesOut, Fail, Goto
<1>4. \A s \in Task : TaskOK(s)'
  BY TaskAssumption DEF ConfigInv, TaskOK, Ends, Disk, Result, Wrote, Fresh,
     LockTimesOut, diskVars, Fail, Goto
<1>5. MemoryInv'
  BY DEF ConfigInv, Disk, MemoryInv, LockTimesOut, historyVars, diskVars, Fail,
     Goto, At
<1>6. CrossInv'
  BY DEF ConfigInv, CrossInv, LockTimesOut, boundVars, diskVars, Fail, Goto, At
<1>7. SettingsInv'
  BY SettingsStay DEF ConfigInv, Ends, Wrote, SettingsInv, Holding, LockTimesOut,
     historyVars, boundVars, diskVars, Fail, Goto
<1> QED BY ONLY <1>1, <1>2, <1>3, <1>4, <1>5, <1>6, <1>7 DEF ConfigInv

(* Start-up reads the directory: what it reads is what config.edn, or else  *)
(* config.json, holds.                                                      *)
LEMMA LoadKeeps ==
    ASSUME ConfigInv, NEW t \in Task, Load(t) PROVE ConfigInv'
<1>1. ConfigTypeOK'
  BY LoadTypes
<1>2. WholeInv' /\ DurableInv'
  BY OffDisk DEF Load, historyVars
<1>3. LockIsHeld'
  BY TaskAssumption DEF ConfigInv, ConfigTypeOK, LockIsHeld, InSection, Task, Load,
     Fail, Goto, At, TaskType
<1>4. \A s \in Task : TaskOK(s)'
  BY TaskAssumption DEF ConfigInv, ConfigTypeOK, LockIsHeld, Task, TaskOK, Ends,
     Disk, Result, Wrote, Fresh, Load, diskVars, Fail, Goto, Readable, At, TaskType
<1>5. MemoryInv'
  <2>1. t = Startup /\ memory = None /\ UNCHANGED <<memory, defaulted>>
    BY DEF ConfigInv, TaskOK, MemoryInv, Load, At
  <2>2. \E p \in {"delete", "validate", "unlock", "defaults"} : task'[t].pc = p
    BY <2>1 DEF ConfigInv, ConfigTypeOK, TaskType, Load, Fail, Goto
  <2> QED BY <2>1, <2>2 DEF MemoryInv
<1>6. CrossInv'
  BY DEF ConfigInv, LockIsHeld, InSection, CrossInv, Load, boundVars, diskVars, At
<1>7. SettingsInv'
  <2>1. /\ UNCHANGED <<edn, json, after, memory, setup, defaulted>>
        /\ \A s \in Task : s # t => task'[s] = task[s]
        /\ \/ task'[t].pc \in {"done", "defaults"}
           \/ Readable(edn) /\ task'[t].base = ConfigOf(edn)
           \/ edn = None /\ Readable(json) /\ task'[t].base = ConfigOf(json)
           \/ edn = None /\ json = None
    BY DEF ConfigInv, ConfigTypeOK, TaskType, Load, Fail, Goto, diskVars, boundVars
  <2>2. \A s \in Task : Holding(s)' =>
          \/ Holding(s) /\ task'[s] = task[s]
          \/ s = t /\ task'[t].pc \notin {"done", "defaults"}
    BY <2>1 DEF Holding, Wrote, Ends
  <2>3. \A o : Good(edn, json, o) =>
          /\ Readable(edn) => ConfigOf(edn).origin = o
          /\ edn = None => json # None /\ ConfigOf(json).origin = o
    BY DEF Good, Effective, Readable, ConfigOf
  <2>4. Directory \in after /\ Directory.edn = edn /\ Directory.json = json
    BY DEF ConfigInv, ConfigTypeOK, Directory
  <2>5. \A o \in {"edn", "json"} : Kept(o)' =>
          (Holding(t)' => task'[t].base.origin = o)
    BY <2>1, <2>2, <2>3, <2>4, SettingsStay DEF ConfigInv, SettingsInv
  <2> QED BY <2>1, <2>2, <2>5, SettingsStay DEF ConfigInv, SettingsInv
<1> QED BY ONLY <1>1, <1>2, <1>3, <1>4, <1>5, <1>6, <1>7 DEF ConfigInv

(* The configuration is refused, or goes on.                                *)
LEMMA ValidateKeeps ==
    ASSUME ConfigInv, NEW t \in Task, Validate(t) PROVE ConfigInv'
<1>1. ConfigTypeOK'
  BY DEF ConfigInv, ConfigTypeOK, TaskType, Points, Directory, Validate,
     historyVars, diskVars, Fail, Goto, Fault, NoFault, boundVars
<1>2. WholeInv' /\ DurableInv'
  BY OffDisk DEF Validate, historyVars
<1>3. LockIsHeld'
  BY TaskAssumption DEF ConfigInv, ConfigTypeOK, LockIsHeld, InSection, Task,
     Validate, Fail, Goto, At, TaskType
<1>4. \A s \in Task : TaskOK(s)'
  BY DEF ConfigInv, ConfigTypeOK, LockIsHeld, InSection, TaskOK, Ends, Wrote,
     Fresh, Validate, Fail, Goto, At, TaskType
<1>5. MemoryInv'
  BY DEF ConfigInv, ConfigTypeOK, Task, Disk, MemoryInv, Validate, historyVars,
     diskVars, Fail, Goto, At, TaskType
<1>6. CrossInv'
  BY DEF ConfigInv, LockIsHeld, InSection, CrossInv, Validate, diskVars, Fault,
     NoFault, boundVars, At
<1>7. SettingsInv'
  BY SettingsStay DEF ConfigInv, ConfigTypeOK, Task, SettingsInv, Holding,
     Validate, historyVars, diskVars, Fail, Goto, Fault, NoFault, boundVars, At,
     TaskType
<1> QED BY ONLY <1>1, <1>2, <1>3, <1>4, <1>5, <1>6, <1>7 DEF ConfigInv

(* The temporary file is written, or removed.                               *)
LEMMA WriteTempKeeps ==
    ASSUME ConfigInv, NEW t \in Task, WriteTemp(t) PROVE ConfigInv'
<1>1. ConfigTypeOK'
  BY DEF ConfigInv, ConfigTypeOK, TaskType, Points, Directory, WriteTemp,
     historyVars, diskVars, Fail, Goto, Fault, NoFault, boundVars
<1>2. WholeInv' /\ DurableInv'
  BY OffDisk DEF WriteTemp, historyVars
<1>3. LockIsHeld'
  BY TaskAssumption DEF ConfigInv, ConfigTypeOK, LockIsHeld, InSection, Task,
     WriteTemp, Fail, Goto, At, TaskType
<1>4. \A s \in Task : TaskOK(s)'
  BY DEF ConfigInv, ConfigTypeOK, LockIsHeld, InSection, TaskOK, Ends, Wrote,
     Fresh, WriteTemp, Fail, Goto, At, TaskType
<1>5. MemoryInv'
  BY DEF ConfigInv, ConfigTypeOK, Task, Disk, MemoryInv, WriteTemp, historyVars,
     diskVars, Fail, Goto, At, TaskType
<1>6. CrossInv'
  BY DEF ConfigInv, LockIsHeld, InSection, CrossInv, WriteTemp, diskVars, Fault,
     NoFault, boundVars, At
<1>7. SettingsInv'
  BY SettingsStay DEF ConfigInv, ConfigTypeOK, Task, SettingsInv, Holding,
     WriteTemp, historyVars, diskVars, Fail, Goto, Fault, NoFault, boundVars, At,
     TaskType
<1> QED BY ONLY <1>1, <1>2, <1>3, <1>4, <1>5, <1>6, <1>7 DEF ConfigInv

(* The new file appears, in some of the directories that a power loss may   *)
(* leave; the settings it holds are those it was given.                     *)
LEMMA RenameKeeps ==
    ASSUME ConfigInv, NEW t \in Task, Rename(t) PROVE ConfigInv'
<1>1. ConfigTypeOK'
  BY RenameTypes
<1>2. LockIsHeld'
  BY TaskAssumption DEF ConfigInv, ConfigTypeOK, LockIsHeld, InSection, Task,
     Rename, Fail, Goto, AfterRename, At, TaskType
<1>3. WholeInv'
  <2>1. CASE UNCHANGED <<diskVars, writes>>
    BY <2>1 DEF ConfigInv, WholeInv, diskVars
  <2>2. CASE Changes(Written(t), json) /\ writes' = writes + 1
    <3>1. Written(t) \in Files /\ json \in Files /\ Directory \in after
      BY WrittenIs
    <3>2. Written(t).synced /\ Written(t).write = writes'
      BY <2>2, WrittenIs
    <3>3. \A d \in after' : \A f \in {d.edn, d.json} :
            f = Written(t) \/ \E x \in after : f \in {x.edn, x.json}
      BY <2>2, <3>1, ChangesEffect DEF ConfigInv, Directory
    <3>4. \A f : f \in Files /\ f # None => f.write \in Nat
      BY DEF Files, FileType
    <3>5. \A x \in after : x.edn \in Files /\ x.json \in Files
      BY DEF ConfigInv, ConfigTypeOK, Files
    <3> QED BY <2>2, <3>2, <3>3, <3>4, <3>5 DEF ConfigInv, ConfigTypeOK, WholeInv
  <2> QED BY <2>1, <2>2 DEF Rename
<1>4. DurableInv'
  <2>1. CASE UNCHANGED diskVars
    BY <2>1 DEF ConfigInv, DurableInv, Rename, diskVars
  <2>2. CASE Changes(Written(t), json)
    <3>1. Written(t) \in Files /\ json \in Files
      BY WrittenIs
    <3>2. /\ Written(t) # None /\ Written(t).origin # "bad" /\ Written(t).write = writes + 1
          /\ saved' = saved /\ saved <= writes /\ writes \in Nat /\ saved \in Nat
      BY WrittenIs DEF ConfigInv, ConfigTypeOK, Rename
    <3>3. \A d \in after' : d.edn = Written(t) \/ \E x \in after : d.edn = x.edn
      BY <2>2, <3>1, ChangesEffect DEF ConfigInv
    <3> QED BY <3>2, <3>3 DEF ConfigInv, DurableInv
  <2> QED BY <2>1, <2>2 DEF Rename
<1>5. \A s \in Task : TaskOK(s)'
  BY DEF ConfigInv, ConfigTypeOK, LockIsHeld, InSection, TaskOK, Ends, Wrote,
     Fresh, Rename, Fail, Goto, At, TaskType
<1>6. MemoryInv'
  BY DEF ConfigInv, ConfigTypeOK, Task, Disk, MemoryInv, Rename, diskVars, Fail,
     Goto, At, TaskType
<1>7. CrossInv'
  BY DEF ConfigInv, ConfigTypeOK, TaskOK, Wrote, Fresh, CrossInv, Rename, diskVars,
     Fail, Goto, Fault, AfterRename, At, FileType, TaskType
<1>8. SettingsInv'
  <2> SUFFICES ASSUME NEW o \in {"edn", "json"}, Kept(o)'
               PROVE  /\ \A d \in after' : Good(d.edn, d.json, o)
                      /\ memory' # None => memory'.origin = o
                      /\ \A s \in Task : Holding(s)' => task'[s].base.origin = o
    BY DEF SettingsInv, Good, Effective
  <2>1. Kept(o) /\ task[t].base.origin = o
    BY SettingsStay DEF ConfigInv, SettingsInv, Holding, Rename, At, NoFault,
       Fault, boundVars
  <2>2. \A d \in after : Good(d.edn, d.json, o)
    BY <2>1 DEF ConfigInv, SettingsInv
  <2>3. \A d \in after' : Good(d.edn, d.json, o)
    <3>1. CASE UNCHANGED diskVars
      BY <2>2, <3>1 DEF diskVars
    <3>2. CASE Changes(Written(t), json)
      <4>1. Written(t) \in Files /\ json \in Files
        BY WrittenIs
      <4>2. Written(t) # None /\ Written(t).origin = o
        BY <2>1, WrittenIs
      <4>3. \A j : Good(Written(t), j, o)
        BY <4>2 DEF Good, Effective
      <4>4. \A d \in after' : \/ d.edn = Written(t)
                              \/ \E x \in after : d.edn = x.edn /\ d.json = x.json
        <5>1. CASE setup.ordered
          BY <3>2, <4>1, <5>1, ChangesEffect DEF ConfigInv
        <5>2. CASE ~setup.ordered
          <6>1. Directory \in after /\ Directory.json = json
            BY DEF ConfigInv, ConfigTypeOK, Directory
          <6>2. \A x, y \in after : [edn |-> x.edn, json |-> y.json] \in after
            BY <5>2 DEF ConfigInv, CrossInv
          <6>3. \A d \in after' : /\ d.edn = Written(t) \/ \E x \in after : d.edn = x.edn
                                  /\ \E y \in after : d.json = y.json
            BY <3>2, <4>1, <6>1, ChangesEffect DEF ConfigInv
          <6> QED BY <6>2, <6>3
        <5> QED BY <5>1, <5>2
      <4> QED BY <2>2, <4>3, <4>4
    <3> QED BY <3>1, <3>2 DEF Rename
  <2>4. \A s \in Task : Holding(s)' => Holding(s) /\ task'[s].base.origin = task[s].base.origin
    BY DEF ConfigInv, ConfigTypeOK, TaskType, Holding, Rename, At, Fail, Goto,
       AfterRename, Wrote, Ends
  <2> QED BY <2>1, <2>3, <2>4 DEF ConfigInv, SettingsInv, Rename
<1> QED BY ONLY <1>1, <1>2, <1>3, <1>4, <1>5, <1>6, <1>7, <1>8 DEF ConfigInv

(* The directory is synced: a power loss now leaves what is seen.           *)
LEMMA SyncParentKeeps ==
    ASSUME ConfigInv, NEW t \in Task, SyncParent(t) PROVE ConfigInv'
<1>1. ConfigTypeOK'
  BY DEF ConfigInv, ConfigTypeOK, TaskType, Points, Directory, SyncParent,
     historyVars, Fail, Goto, Fault, NoFault, boundVars
<1>2. LockIsHeld'
  BY TaskAssumption DEF ConfigInv, ConfigTypeOK, LockIsHeld, InSection, Task,
     SyncParent, Fail, Goto, At, TaskType
<1>3. WholeInv'
  BY DEF ConfigInv, ConfigTypeOK, WholeInv, SyncParent, historyVars
<1>4. DurableInv'
  BY DEF ConfigInv, ConfigTypeOK, DurableInv, SyncParent, historyVars
<1>5. \A s \in Task : TaskOK(s)'
  BY DEF ConfigInv, ConfigTypeOK, LockIsHeld, InSection, TaskOK, Ends, File, Wrote,
     Fresh, SyncParent, Fail, Goto, Directory, At, TaskType
<1>6. MemoryInv'
  BY DEF ConfigInv, ConfigTypeOK, Task, Disk, MemoryInv, SyncParent, historyVars,
     Fail, Goto, At, TaskType
<1>7. CrossInv'
  BY DEF ConfigInv, CrossInv, SyncParent, Fault, Directory
<1>8. SettingsInv'
  BY SettingsStay DEF ConfigInv, ConfigTypeOK, Wrote, SettingsInv, Holding, Good,
     SyncParent, historyVars, Fail, Goto, Fault, Directory, NoFault, boundVars, At,
     FileType, TaskType
<1> QED BY ONLY <1>1, <1>2, <1>3, <1>4, <1>5, <1>6, <1>7, <1>8 DEF ConfigInv

(* What was written is read back.                                           *)
LEMMA VerifyKeeps ==
    ASSUME ConfigInv, NEW t \in Task, Verify(t) PROVE ConfigInv'
<1>1. ConfigTypeOK'
  BY SetupAssumption DEF ConfigInv, ConfigTypeOK, TaskType, Points, Directory,
     Verify, historyVars, diskVars, Fail, Goto, Fault, NoFault, boundVars
<1>2. WholeInv' /\ DurableInv'
  BY OffDisk DEF Verify, historyVars
<1>3. LockIsHeld'
  BY TaskAssumption DEF ConfigInv, ConfigTypeOK, LockIsHeld, InSection, Task,
     Verify, Fail, Goto, At, TaskType
<1>4. \A s \in Task : TaskOK(s)'
  BY TaskAssumption DEF ConfigInv, ConfigTypeOK, Task, TaskOK, Disk, ConfigOf,
     Result, File, Wrote, Fresh, Verify, diskVars, Fail, Goto, At, ConfigType,
     TaskType
<1>5. MemoryInv'
  BY DEF ConfigInv, ConfigTypeOK, Task, Disk, MemoryInv, Verify, historyVars,
     diskVars, Fail, Goto, At, TaskType
<1>6. CrossInv'
  BY DEF ConfigInv, LockIsHeld, InSection, CrossInv, Verify, diskVars, Fault,
     NoFault, boundVars, At
<1>7. SettingsInv'
  BY SettingsStay DEF ConfigInv, ConfigTypeOK, Task, Wrote, SettingsInv, Holding,
     Verify, historyVars, diskVars, Fail, Goto, Fault, NoFault, boundVars, At,
     TaskType
<1> QED BY ONLY <1>1, <1>2, <1>3, <1>4, <1>5, <1>6, <1>7 DEF ConfigInv

(* config.json is deleted: config.edn is in every directory that a power    *)
(* loss may leave, so nothing depends on it.                                *)
LEMMA DeleteJsonKeeps ==
    ASSUME ConfigInv, NEW t \in Task, DeleteJson(t) PROVE ConfigInv'
<1>1. ConfigTypeOK'
  BY DeleteJsonTypes
<1>2. LockIsHeld'
  BY DEF ConfigInv, LockIsHeld, InSection, DeleteJson, Goto, At
<1>3. WholeInv'
  <2>1. CASE UNCHANGED diskVars
    BY <2>1 DEF ConfigInv, WholeInv, DeleteJson, diskVars, historyVars
  <2>2. CASE Changes(edn, None)
    <3>1. edn \in Files /\ None \in Files /\ Directory \in after
      BY DEF ConfigInv, ConfigTypeOK, Files
    <3>2. \A d \in after' : \A f \in {d.edn, d.json} :
            f = None \/ \E x \in after : f \in {x.edn, x.json}
      BY <2>2, <3>1, ChangesEffect DEF ConfigInv, Directory
    <3> QED BY <3>2 DEF ConfigInv, WholeInv, DeleteJson, historyVars
  <2> QED BY <2>1, <2>2 DEF DeleteJson
<1>4. DurableInv'
  <2>1. CASE UNCHANGED diskVars
    BY <2>1 DEF ConfigInv, DurableInv, DeleteJson, diskVars, historyVars
  <2>2. CASE Changes(edn, None)
    <3>1. edn \in Files /\ None \in Files /\ Directory \in after
      BY DEF ConfigInv, ConfigTypeOK, Files
    <3>2. \A d \in after' : \E x \in after : d.edn = x.edn
      BY <2>2, <3>1, ChangesEffect DEF ConfigInv, Directory
    <3> QED BY <3>2 DEF ConfigInv, DurableInv, DeleteJson, historyVars
  <2> QED BY <2>1, <2>2 DEF DeleteJson
<1>5. \A s \in Task : TaskOK(s)'
  BY <1>1, TaskAssumption DEF ConfigInv, ConfigTypeOK, WholeInv, LockIsHeld,
     InSection, Task, TaskOK, Ends, Disk, Result, File, Wrote, Fresh, DeleteJson,
     diskVars, Changes, Goto, At, TaskType
<1>6. MemoryInv'
  BY DEF ConfigInv, Disk, MemoryInv, DeleteJson, historyVars, diskVars, Changes,
     Goto, At
<1>7. CrossInv'
  BY <1>1 DEF ConfigInv, ConfigTypeOK, CrossInv, DeleteJson, historyVars, diskVars,
     Fault, Changes, NoFault, boundVars, Goto, At
<1>8. SettingsInv'
  <2> SUFFICES ASSUME NEW o \in {"edn", "json"}, Kept(o)'
               PROVE  /\ \A d \in after' : Good(d.edn, d.json, o)
                      /\ memory' # None => memory'.origin = o
                      /\ \A s \in Task : Holding(s)' => task'[s].base.origin = o
    BY DEF SettingsInv, Good, Effective
  <2>1. Kept(o) /\ task[t].pc = "delete" /\ edn # None
    BY SettingsStay DEF ConfigInv, TaskOK, DeleteJson, At, NoFault, Fault,
       boundVars, historyVars
  <2>2. \A d \in after : Good(d.edn, d.json, o)
    BY <2>1 DEF ConfigInv, SettingsInv
  <2>3. \A d \in after' : Good(d.edn, d.json, o)
    <3>1. CASE UNCHANGED diskVars
      BY <2>2, <3>1 DEF diskVars
    <3>2. CASE Changes(edn, None)
      <4>1. edn \in Files /\ None \in Files /\ Directory \in after /\ Directory.edn = edn
        BY DEF ConfigInv, ConfigTypeOK, Files, Directory
      <4>2. \A x \in after : \A j : x.edn # None => Good(x.edn, j, o)
        BY <2>2 DEF Good, Effective
      <4>3. CASE setup.ordered
        BY <2>1, <2>2, <3>2, <4>1, <4>2, <4>3, ChangesEffect DEF ConfigInv
      <4>4. CASE ~setup.ordered
        <5>1. \A s \in Task : task[s].pc # "syncParent"
          BY <2>1 DEF ConfigInv, LockIsHeld, InSection
        <5>2. \A x \in after : x.edn # None
          BY <2>1, <4>4, <5>1 DEF ConfigInv, CrossInv, Kept, DirectoryIsSound
        <5>3. \A d \in after' : \E x \in after : d.edn = x.edn
          BY <3>2, <4>1, ChangesEffect DEF ConfigInv
        <5> QED BY <4>2, <5>2, <5>3
      <4> QED BY <4>3, <4>4
    <3> QED BY <3>1, <3>2 DEF DeleteJson
  <2>4. \A s \in Task : Holding(s)' => Holding(s) /\ task'[s].base = task[s].base
    BY <2>1 DEF ConfigInv, ConfigTypeOK, TaskType, Holding, DeleteJson, Goto, Ends
  <2> QED BY <2>1, <2>3, <2>4 DEF ConfigInv, SettingsInv, DeleteJson
<1> QED BY ONLY <1>1, <1>2, <1>3, <1>4, <1>5, <1>6, <1>7, <1>8 DEF ConfigInv

(* The memory takes what the section has written.                           *)
LEMMA CommitKeeps ==
    ASSUME ConfigInv, NEW t \in Task, Commit(t) PROVE ConfigInv'
<1>1. ConfigTypeOK'
  BY CommitTypes
<1>2. WholeInv' /\ DurableInv'
  BY OffDisk DEF Commit, historyVars
<1>3. LockIsHeld'
  BY DEF ConfigInv, LockIsHeld, InSection, Commit, Goto, At
<1>4. \A s \in Task : TaskOK(s)'
  BY NoneIsNoValue DEF ConfigInv, ConfigTypeOK, TaskOK, Ends, Disk, Result, File,
     Wrote, Fresh, Commit, diskVars, Goto, At, ConfigType, TaskType
<1>5. MemoryInv'
  BY DEF ConfigInv, TaskOK, Ends, Disk, MemoryInv, Commit, diskVars, Goto, At
<1>6. CrossInv'
  BY DEF ConfigInv, CrossInv, Commit, boundVars, diskVars, Goto, At
<1>7. SettingsInv'
  BY SettingsStay DEF ConfigInv, Ends, Result, SettingsInv, Holding, Commit,
     boundVars, diskVars, Goto, At
<1> QED BY ONLY <1>1, <1>2, <1>3, <1>4, <1>5, <1>6, <1>7 DEF ConfigInv

(* The section ends, and what it wrote is reported.                         *)
LEMMA UnlockKeeps ==
    ASSUME ConfigInv, NEW t \in Task, Unlock(t) PROVE ConfigInv'
<1>1. ConfigTypeOK'
  BY UnlockTypes
<1>2. LockIsHeld'
  <2>1. task'[t].pc \notin InSection
    BY UnlockEffect DEF InSection
  <2>2. \A s \in Task : s # t => task'[s].pc \notin InSection
    BY UnlockEffect DEF ConfigInv, LockIsHeld
  <2>3. holder' = None /\ None \notin Task
    BY UnlockEffect, TaskAssumption DEF Task
  <2> QED BY <2>1, <2>2, <2>3 DEF LockIsHeld
<1>3. WholeInv'
  BY DEF ConfigInv, WholeInv, Unlock, diskVars
<1>4. DurableInv'
  <2>1. task[t].pc = "unlock" /\ UNCHANGED after /\ TaskOK(t) /\ DurableInv
    BY UnlockEffect DEF ConfigInv
  <2>2. saved' = IF task[t].write > saved THEN task[t].write ELSE saved
    BY DEF Unlock
  <2>3. saved \in Nat /\ task[t].write \in Nat
    BY DEF ConfigInv, ConfigTypeOK, TaskType
  <2>4. CASE task[t].write > saved
    BY <2>1, <2>2, <2>3, <2>4 DEF DurableInv, TaskOK, Ends
  <2>5. CASE ~(task[t].write > saved)
    BY <2>1, <2>2, <2>5 DEF DurableInv
  <2> QED BY <2>4, <2>5
<1>5. \A s \in Task : TaskOK(s)'
  <2>1. SUFFICES ASSUME NEW s \in Task PROVE TaskOK(s)'
    OBVIOUS
  <2>2. CASE s = t
    BY <2>2, UnlockEffect DEF ConfigInv, TaskOK, Fresh, Wrote, Ends, MemoryInv, Task
  <2>3. CASE s # t
    <3>1. task[s].pc \notin InSection
      BY <2>3, UnlockEffect DEF ConfigInv, LockIsHeld
    <3> QED BY <2>3, <3>1, UnlockEffect DEF ConfigInv, TaskOK, Fresh, Wrote, Ends,
       InSection
  <2> QED BY <2>2, <2>3
<1>6. MemoryInv'
  <2>1. CASE t = Startup
    BY <2>1, UnlockEffect DEF ConfigInv, MemoryInv
  <2>2. CASE t # Startup
    BY <2>2, UnlockEffect, <1>1 DEF ConfigInv, MemoryInv, Task
  <2> QED BY <2>1, <2>2
<1>7. CrossInv'
  BY UnlockEffect DEF ConfigInv, CrossInv
<1>8. SettingsInv'
  <2>1. Holding(t) /\ task[t].base.origin = Disk.origin
    BY UnlockEffect DEF Holding, Ends, Result, ConfigInv, ConfigTypeOK, TaskType,
       ConfigType
  <2>2. \A s \in Task : Holding(s)' => Holding(s) /\ task'[s].base.origin = task[s].base.origin
    BY <2>1, UnlockEffect DEF Holding
  <2>3. UNCHANGED <<after, memory, setup, defaulted>>
    BY UnlockEffect
  <2> QED BY <2>2, <2>3, SettingsStay DEF ConfigInv, SettingsInv
<1> QED BY ONLY <1>1, <1>2, <1>3, <1>4, <1>5, <1>6, <1>7, <1>8 DEF ConfigInv

-----------------------------------------------------------------------------
(* The end of a process and of the power *)

(* The application ends: its tasks and its memory are gone, the directory   *)
(* stays.                                                                   *)
LEMMA AppEndsKeeps ==
    ASSUME ConfigInv, AppEnds PROVE ConfigInv'
<1>1. ConfigTypeOK'
  BY AppEndsTypes
<1>2. WholeInv' /\ DurableInv'
  BY OffDisk DEF AppEnds, historyVars
<1>3. LockIsHeld'
  BY TaskAssumption DEF ConfigInv, LockIsHeld, InSection, Task, AppEnds, Gone,
     IdleTask
<1>4. \A s \in Task : TaskOK(s)'
  BY DEF ConfigInv, TaskOK, Ends, Disk, Result, Wrote, AppEnds, diskVars, App,
     Gone, IdleTask
<1>5. MemoryInv'
  BY DEF Task, MemoryInv, AppEnds, App, Gone, IdleTask
<1>6. CrossInv'
  BY DEF ConfigInv, ConfigTypeOK, CrossInv, AppEnds, diskVars
<1>7. SettingsInv'
  BY SettingsStay DEF ConfigInv, Ends, Wrote, SettingsInv, Holding, AppEnds,
     historyVars, diskVars, Gone, IdleTask
<1> QED BY ONLY <1>1, <1>2, <1>3, <1>4, <1>5, <1>6, <1>7 DEF ConfigInv

(* The power fails: the directory is one of those that may be left.         *)
LEMMA PowerLossKeeps ==
    ASSUME ConfigInv, PowerLoss PROVE ConfigInv'
<1>1. ConfigTypeOK'
  BY PowerLossTypes
<1>2. LockIsHeld'
  BY TaskAssumption DEF LockIsHeld, InSection, Task, PowerLoss, Gone, IdleTask
<1>3. WholeInv'
  BY DEF ConfigInv, WholeInv, PowerLoss, historyVars, Torn
<1>4. DurableInv'
  BY DEF ConfigInv, WholeInv, DurableInv, PowerLoss, historyVars, Torn
<1>5. \A s \in Task : TaskOK(s)'
  BY DEF TaskOK, Ends, Wrote, PowerLoss, Gone, IdleTask
<1>6. MemoryInv'
  BY DEF Task, MemoryInv, PowerLoss, Gone, IdleTask
<1>7. CrossInv'
  BY DEF CrossInv, PowerLoss
<1>8. SettingsInv'
  BY SettingsStay DEF ConfigInv, WholeInv, Ends, Wrote, SettingsInv, Holding,
     PowerLoss, historyVars, Gone, IdleTask, Torn
<1> QED BY ONLY <1>1, <1>2, <1>3, <1>4, <1>5, <1>6, <1>7, <1>8 DEF ConfigInv

-----------------------------------------------------------------------------
(* The theorems *)

(* The invariant holds at first.                                            *)
LEMMA InitConfig == Init => ConfigInv
<1> SUFFICES ASSUME Init PROVE ConfigInv
  OBVIOUS
<1>1. /\ edn \in Files /\ (edn # None => edn.synced /\ edn.write = 0)
      /\ json \in Files /\ (json # None => json.synced /\ json.write = 0)
  BY DEF Init, Found, File, FileType, Files, Origins
<1>2. /\ task = [t \in Task |-> IdleTask] /\ after = {[edn |-> edn, json |-> json]}
      /\ holder = None /\ memory = None /\ saved = 0 /\ writes = 0
  BY DEF Init
<1>3. ConfigTypeOK
  <2>1. task \in [Task -> TaskType] /\ saved \in 0 .. writes /\ writes \in Nat
    BY <1>2, TaskValues
  <2>2. /\ after \subseteq [edn : Files, json : Files] /\ Directory \in after
        /\ faults \in Nat /\ crashes \in Nat /\ losses \in Nat
    BY <1>1, <1>2 DEF Directory, Init
  <2>3. astray \in BOOLEAN /\ defaulted \in BOOLEAN
    BY Zenon DEF Init
  <2> QED BY <1>1, <1>2, <2>1, <2>2, <2>3, Zenon DEF Init, ConfigTypeOK, Files
<1>4. LockIsHeld
  BY <1>2, TaskAssumption DEF LockIsHeld, InSection, IdleTask, Task
<1>5. WholeInv /\ DurableInv
  BY <1>1, <1>2 DEF WholeInv, DurableInv
<1>6. \A t \in Task : TaskOK(t)
  BY <1>2 DEF TaskOK, IdleTask, Fresh, Wrote, Ends
<1>7. MemoryInv
  BY <1>2 DEF MemoryInv, IdleTask, Task
<1>8. CrossInv
  BY <1>2 DEF CrossInv
<1>9. SettingsInv
  <2>1. \A t \in Task : ~Holding(t)
    BY <1>2 DEF Holding, IdleTask, Wrote, Ends
  <2>2. Readable(Settings) => Effective(edn, json) = Settings
    BY <1>1, NoneIsNoValue DEF Init, Found, Settings, Effective, Readable, File,
       FileType, Files, Origins
  <2>3. \A o \in {"edn", "json"} : Kept(o) => Good(edn, json, o)
    BY <2>2 DEF Kept, Good, Readable
  <2> QED BY <1>2, <2>1, <2>3 DEF SettingsInv
<1> QED BY <1>3, <1>4, <1>5, <1>6, <1>7, <1>8, <1>9 DEF ConfigInv

(* Every step keeps the invariant.                                          *)
LEMMA NextConfig == ConfigInv /\ [Next]_vars => ConfigInv'
<1> SUFFICES ASSUME ConfigInv, [Next]_vars PROVE ConfigInv'
  OBVIOUS
<1>1. CASE StartupBegins \/ Derive \/ UseDefaults
  BY <1>1, StartupBeginsKeeps, DeriveKeeps, UseDefaultsKeeps
<1>2. ASSUME NEW t \in Task, SaveAsked(t) \/ ConfigureAsked(t) PROVE ConfigInv'
  BY <1>2, SaveAskedKeeps, ConfigureAskedKeeps
<1>3. ASSUME NEW t \in Task, Lock(t) \/ LockTimesOut(t) PROVE ConfigInv'
  BY <1>3, LockKeeps, LockTimesOutKeeps
<1>4. ASSUME NEW t \in Task, SectionStep(t) PROVE ConfigInv'
  BY <1>4, LoadKeeps, ValidateKeeps, WriteTempKeeps, RenameKeeps, SyncParentKeeps,
     VerifyKeeps, DeleteJsonKeeps, CommitKeeps, UnlockKeeps
     DEF SectionStep
<1>5. CASE AppEnds \/ PowerLoss
  BY <1>5, AppEndsKeeps, PowerLossKeeps
<1>6. CASE UNCHANGED vars
  <2>1. UNCHANGED <<edn, json, after, holder, memory, task, setup, faults, crashes, losses,
                    writes, saved, astray, defaulted>>
    BY <1>6 DEF vars, diskVars, boundVars, historyVars
  <2>2. ConfigTypeOK' /\ LockIsHeld' /\ WholeInv' /\ DurableInv'
    BY <2>1 DEF ConfigInv, ConfigTypeOK, Directory, LockIsHeld, WholeInv, DurableInv
  <2>3. (\A t \in Task : TaskOK(t)') /\ MemoryInv' /\ CrossInv'
    BY <2>1 DEF ConfigInv, TaskOK, Result, Disk, MemoryInv, CrossInv
  <2>4. SettingsInv'
    BY <2>1, SettingsStay DEF ConfigInv, SettingsInv, Good, Effective, Holding
  <2> QED BY <2>2, <2>3, <2>4 DEF ConfigInv
<1> QED BY <1>1, <1>2, <1>3, <1>4, <1>5, <1>6 DEF Next, TaskStep

(* The invariant always holds: the lock is with the task that is in its     *)
(* section, and the directory, the memory and every task agree as ConfigInv *)
(* says.                                                                    *)
THEOREM ConfigInvariant == Spec => []ConfigInv
BY InitConfig, NextConfig, PTL DEF Spec

(* A save of the configuration that was reported as done survives a power   *)
(* loss at any later moment (SavedIsDurable), the lock is never left with a *)
(* task outside its section (LockIsHeld), and settings survive the          *)
(* migration from config.json to config.edn and every save                  *)
(* (SettingsSurvive): save_config_transaction, write_canonical,             *)
(* atomic_write, delete_legacy_json and load_locked of config_store.rs.     *)
THEOREM ConfigurationsAreDurable == Spec => []ConfigIsDurable
<1>1. ConfigInv => ConfigIsDurable
  <2> SUFFICES ASSUME ConfigInv PROVE ConfigIsDurable
    OBVIOUS
  <2>1. \A d \in after : Torn(d.edn) = d.edn /\ Torn(d.json) = d.json
    BY DEF ConfigInv, WholeInv, Torn
  <2>2. SavedIsDurable
    BY <2>1 DEF ConfigInv, DurableInv, SavedIsDurable, Readable
  <2>3. SettingsSurvive
    <3> SUFFICES ASSUME Readable(Settings), ~defaulted, DirectoryIsSound, NEW d \in after
                 PROVE  /\ Readable(Torn(Effective(d.edn, d.json)))
                        /\ Torn(Effective(d.edn, d.json)).origin = Settings.origin
      BY DEF SettingsSurvive
    <3>1. Settings.origin \in {"edn", "json"} /\ Settings.origin # "bad"
      BY DEF Settings, Found, File, Readable
    <3>2. Good(d.edn, d.json, Settings.origin)
      BY <3>1 DEF ConfigInv, SettingsInv, Kept
    <3>3. Torn(Effective(d.edn, d.json)) = Effective(d.edn, d.json)
      BY <2>1 DEF Effective
    <3> QED BY <3>1, <3>2, <3>3 DEF Good, Readable
  <2> QED BY <2>2, <2>3 DEF ConfigInv, ConfigIsDurable
<1> QED BY <1>1, ConfigInvariant, PTL

(* Whenever nobody is in a section, AppState::config is what config.edn     *)
(* holds, whichever of the saves came last and whichever failed, unless     *)
(* another process wrote the file or a save failed after its rename:        *)
(* persist_config_transaction of commands/config.rs.                        *)
THEOREM MemoryAgreesWithDisk == Spec => []MemoryIsDisk
<1>1. ConfigInv => MemoryIsDisk
  BY DEF ConfigInv, MemoryInv, MemoryIsDisk, Disk
<1> QED BY <1>1, ConfigInvariant, PTL

=============================================================================
