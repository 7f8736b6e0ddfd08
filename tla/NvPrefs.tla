------------------------------- MODULE NvPrefs -------------------------------
(***************************************************************************)
(* The setting of the NVIDIA driver that the host changes while it runs    *)
(* (src/platform/windows/nvprefs).  What the user had is first written to  *)
(* an undo file, so that the next process can put it back when this one    *)
(* has crashed; an orderly exit puts it back itself.  Processes follow     *)
(* each other: the host, or one that only restores (entry_handler.cpp).    *)
(* Each of their steps is a call of the driver or the file system that may *)
(* fail, or the last one before a crash.                                   *)
(***************************************************************************)
EXTENDS Integers

CONSTANTS
  Values,       \* values of the setting; one of them stands for no setting
  Ours,         \* OGL_CPL_PREFER_DXPRESENT_PREFER_ENABLED
  NoValue,
  MaxCrashes, MaxPicks, MaxStreams   \* bounds

VARIABLES
  driver,     \* the setting in the driver's base profile
  user,       \* what the user has chosen last
  file,       \* nvprefs_undo.json: NoFile, Empty, or the value to undo to
  process,    \* none, host or restorer
  pc, op,     \* its next step, and what it is about
  session,    \* the setting in driver_settings_t's session
  found,      \* what modify_global_profile has found there
  undo_data, undo_file,     \* of nvprefs_interface
  spoiled,    \* a restore failed and its file was deleted anyway
  crashes, picks, streams   \* how often it happened

NoFile == "no file"
Empty == "empty"

memoryVars == <<session, found, undo_data, undo_file>>
processVars == <<process, pc, op>>
boundVars == <<crashes, picks, streams>>
vars ==
  <<driver, user, file, processVars, memoryVars, spoiled, boundVars>>

Init ==
  /\ driver \in Values /\ user = driver
  /\ file = NoFile
  /\ process = "none" /\ pc = "rest" /\ op = "none"
  /\ session = NoValue /\ found = NoValue
  /\ undo_data = NoValue /\ undo_file = "none"
  /\ spoiled = FALSE
  /\ crashes = 0 /\ picks = 0 /\ streams = 0

-----------------------------------------------------------------------------
(* The host starts, a stream starts, the host exits; or the process that   *)
(* only restores runs.                                                     *)

Start(kind) ==
  /\ process = "none" /\ process' = kind
  /\ pc' = "load" /\ op' = "start"
  /\ UNCHANGED <<driver, user, file, memoryVars, spoiled, boundVars>>

StreamingWillStart ==
  /\ process = "host" /\ pc = "rest"
  /\ streams < MaxStreams /\ streams' = streams + 1
  /\ pc' = "load" /\ op' = "stream"
  /\ UNCHANGED <<driver, user, file, process, memoryVars, spoiled, crashes,
                 picks>>

(* main restores before it returns, and ~nvprefs_interface tries again.    *)
Exit ==
  /\ process = "host" /\ pc = "rest"
  /\ pc' = IF undo_file = "none" THEN "gone" ELSE "load"
  /\ op' = "exit"
  /\ UNCHANGED <<driver, user, file, process, memoryVars, spoiled, boundVars>>

-----------------------------------------------------------------------------
Goto(step) == pc' = step /\ UNCHANGED <<process, op>>
Kept == UNCHANGED <<user, boundVars>>

Load ==
  /\ pc = "load"
  /\ \/ session' = driver
        /\ Goto(CASE op = "start" -> "open"
                  [] op = "stream" -> IF undo_file = "none" THEN "open"
                                      ELSE "application"
                  [] OTHER -> "restore own")
     \/ session' = NoValue /\ Goto("unload")
  /\ UNCHANGED <<driver, file, found, undo_data, undo_file, spoiled>> /\ Kept

Unload ==
  /\ pc = "unload"
  /\ session' = NoValue
  /\ IF op = "exit" /\ undo_file # "none"
     THEN pc' = "load" /\ op' = "again" /\ UNCHANGED process
     ELSE Goto(IF process = "host" /\ op \notin {"exit", "again"}
               THEN "rest" ELSE "gone")
  /\ UNCHANGED <<driver, file, found, undo_data, undo_file, spoiled>> /\ Kept

\* The process ends, and its handles are closed.
End ==
  /\ process' = "none" /\ pc' = "rest" /\ op' = "none"
  /\ session' = NoValue /\ found' = NoValue
  /\ undo_data' = NoValue /\ undo_file' = "none"
  /\ UNCHANGED <<driver, user, file, spoiled, picks, streams>>

Gone == pc = "gone" /\ End /\ UNCHANGED crashes

Crash ==
  /\ process # "none"
  /\ crashes < MaxCrashes /\ crashes' = crashes + 1
  /\ End

-----------------------------------------------------------------------------
(* restore_from_and_delete_undo_file_if_exists.  Nobody looks at what it   *)
(* returns.                                                                *)

AfterRestore == IF process = "host" THEN "application" ELSE "unload"

OpenExistingFile ==
  /\ pc = "open"
  /\ \/ file # NoFile /\ Goto("restore")
     \/ Goto(AfterRestore)   \* no file, or access denied
  /\ UNCHANGED <<driver, file, memoryVars, spoiled>> /\ Kept

\* What restore_global_profile_to_undo makes of the session's value.
Restored(undo) ==
  IF undo # Empty /\ session = Ours THEN undo ELSE session

RestoreToUndo ==
  /\ pc = "restore"
  /\ \/ session' = Restored(file) /\ Goto("save restored")
        /\ UNCHANGED spoiled
     \/ spoiled' = TRUE /\ Goto("delete") /\ UNCHANGED session
  /\ UNCHANGED <<driver, file, found, undo_data, undo_file>> /\ Kept

SaveRestored ==
  /\ pc = "save restored"
  /\ \/ driver' = session /\ UNCHANGED spoiled
     \/ spoiled' = TRUE /\ UNCHANGED driver
  /\ Goto("delete")
  /\ UNCHANGED <<file, memoryVars>> /\ Kept

DeleteRestored ==
  /\ pc = "delete"
  /\ file' \in {file, NoFile}
  /\ Goto(AfterRestore)
  /\ UNCHANGED <<driver, memoryVars, spoiled>> /\ Kept

-----------------------------------------------------------------------------
(* modify_application_profile: its save, if there is one, saves the        *)
(* session.                                                                *)
ApplicationProfile ==
  /\ pc = "application"
  /\ driver' \in {driver, session}
  /\ Goto("global")
  /\ UNCHANGED <<file, memoryVars, spoiled>> /\ Kept

-----------------------------------------------------------------------------
(* modify_global_profile.                                                  *)

MergeKeepsFirst(newer) ==   \* mutant: what was there at first is kept
  IF undo_data = NoValue THEN newer ELSE undo_data

\* Undo data of an earlier modification gives way to what is newer.
Merge(newer) == newer

CheckAndModify ==
  /\ pc = "global"
  /\ \/ session # Ours
        /\ session' = Ours /\ found' = session
        /\ Goto("create")
     \/ Goto("unload")   \* it is set, not wanted, or the driver refuses
        /\ UNCHANGED <<session, found>>
  /\ UNCHANGED <<driver, file, undo_data, undo_file, spoiled>> /\ Kept

CreateUndoFile ==
  /\ pc = "create"
  /\ \/ /\ undo_file = "none" /\ file = NoFile
        /\ file' = Empty /\ undo_file' = "open"
        /\ undo_data' = Merge(found) /\ Goto("clear")
     \/ /\ undo_file = "none"
        /\ Goto("revert") /\ UNCHANGED <<file, undo_file, undo_data>>
     \/ /\ undo_file # "none"
        /\ undo_data' = Merge(found) /\ Goto("clear")
        /\ UNCHANGED <<file, undo_file>>
  /\ UNCHANGED <<driver, session, found, spoiled>> /\ Kept

ClearUndoFile ==
  /\ pc = "clear"
  /\ \/ undo_file = "open" /\ file' = Empty /\ Goto("write")
     \/ Goto("drop") /\ UNCHANGED file
  /\ UNCHANGED <<driver, memoryVars, spoiled>> /\ Kept

WriteUndoFile ==
  /\ pc = "write"
  /\ \/ file' = undo_data /\ Goto("commit")
     \/ Goto("drop") /\ UNCHANGED file
  /\ UNCHANGED <<driver, memoryVars, spoiled>> /\ Kept

\* undo_file stays, with a handle that is closed.
DropUndoFile ==
  /\ pc = "drop"
  /\ \/ undo_file = "open" /\ file' = NoFile /\ undo_file' = "closed"
     \/ UNCHANGED <<file, undo_file>>
  /\ Goto("revert")
  /\ UNCHANGED <<driver, session, found, undo_data, spoiled>> /\ Kept

SaveModified ==
  /\ pc = "commit"
  /\ \/ driver' = session /\ Goto("unload")
     \/ Goto("revert") /\ UNCHANGED driver
  /\ UNCHANGED <<file, memoryVars, spoiled>> /\ Kept

Revert ==
  /\ pc = "revert"
  /\ session' = driver /\ Goto("unload")
  /\ UNCHANGED <<driver, file, found, undo_data, undo_file, spoiled>> /\ Kept

-----------------------------------------------------------------------------
(* restore_global_profile.                                                 *)

RestoreOwn ==
  /\ pc = "restore own"
  /\ \/ session' = Restored(undo_data) /\ Goto("save own")
     \/ Goto("unload") /\ UNCHANGED session
  /\ UNCHANGED <<driver, file, found, undo_data, undo_file, spoiled>> /\ Kept

SaveOwn ==
  /\ pc = "save own"
  /\ \/ driver' = session /\ Goto("delete own")
     \/ Goto("unload") /\ UNCHANGED driver
  /\ UNCHANGED <<file, memoryVars, spoiled>> /\ Kept

DeleteOwn ==
  /\ pc = "delete own"
  /\ \/ /\ undo_file = "open" /\ file' = NoFile
        /\ undo_file' = "none" /\ undo_data' = NoValue
     \/ UNCHANGED <<file, undo_file, undo_data>>
  /\ Goto("unload")
  /\ UNCHANGED <<driver, session, found, spoiled>> /\ Kept

-----------------------------------------------------------------------------
(* The user changes the setting, but not in the moments in which a process *)
(* has it loaded.                                                          *)
UserPicks ==
  /\ pc = "rest" /\ picks < MaxPicks /\ picks' = picks + 1
  /\ \E v \in Values : driver' = v /\ user' = v
  /\ UNCHANGED <<file, processVars, memoryVars, spoiled, crashes, streams>>

Restoring ==
  OpenExistingFile \/ RestoreToUndo \/ SaveRestored \/ DeleteRestored

Modifying ==
  \/ ApplicationProfile \/ CheckAndModify
  \/ CreateUndoFile \/ ClearUndoFile \/ WriteUndoFile \/ DropUndoFile
  \/ SaveModified \/ Revert

Next ==
  \/ \E kind \in {"host", "restorer"} : Start(kind)
  \/ StreamingWillStart \/ Exit \/ Load \/ Unload \/ Gone \/ Crash
  \/ Restoring \/ Modifying
  \/ RestoreOwn \/ SaveOwn \/ DeleteOwn
  \/ UserPicks

-----------------------------------------------------------------------------
(* Whatever fails and wherever a process crashes, what the user has chosen *)
(* is in the driver, or the undo file says so: nothing else remembers it   *)
(* after a crash (modify_global_profile, restore_global_profile_to_undo).  *)
(* A user who chooses our value himself cannot be told from us, and a      *)
(* restore that fails deletes its file on purpose.                         *)
UserValueSurvives ==
  spoiled \/ user = Ours \/ driver = user \/ (driver = Ours /\ file = user)

(* The inductive invariant behind it: what the session, the undo data and  *)
(* what was found hold, step by step.                                      *)
UndoIsKnown == driver = user \/ (driver = Ours /\ undo_data = user)
StepsKnowTheUser ==
  /\ undo_file # "none" => UndoIsKnown
  /\ pc \in {"open", "restore", "delete", "application", "global",
             "restore own"} => session = driver
  /\ pc \in {"save restored", "save own"} => session = user
  /\ pc \in {"delete", "create", "clear", "write", "drop", "commit",
             "delete own"} => driver = user
  /\ pc \in {"create", "clear", "write", "commit"} => session = Ours
  /\ pc = "create" => found = user
  /\ pc \in {"clear", "write", "commit"} => undo_data = user
  /\ pc = "commit" => file = user

IInv ==
  /\ user \in Values
  /\ UserValueSurvives
  /\ spoiled \/ user = Ours \/ StepsKnowTheUser
  /\ pc = "load" /\ op \notin {"start", "stream"} => undo_file # "none"
  /\ pc = "restore own" => undo_file # "none"
=============================================================================
