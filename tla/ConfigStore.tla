----------------------------- MODULE ConfigStore -----------------------------
(***************************************************************************)
(* FileConfigStore of kvm-config: saving a configuration is a list of file   *)
(* operations, any of which may fail, and the process may die between any    *)
(* two.  A file is the configuration it holds, "half" when it was being      *)
(* written, "v1" in the first format, which load migrates, or "future" in a   *)
(* format it refuses.  The operations take effect in the order they are       *)
(* issued, and one save runs at a time.                                       *)
(***************************************************************************)
EXTENDS Naturals

CONSTANTS Configs,       \* configurations that are saved
          MaxSaves,      \* bound: saves
          MaxDisasters   \* bound: failing operations and deaths

VARIABLES files,      \* primary, backup and temp
          saver,      \* the save under way: its next operation
          saved,      \* for the properties: what load may return
          saves, disasters

storeVars == <<files, saver, saved, saves, disasters>>

NoFile == "none"
NoSave == [at |-> "idle", value |-> NoFile, had |-> FALSE]

\* ConfigV1::migrate: what the first format becomes.
migrate(f) == "migrated"
decode_config(f) == IF f = "v1" THEN migrate(f) ELSE IF f \in {"half", "future"} THEN "Err" ELSE f

load == decode_config(IF files.primary # NoFile THEN files.primary ELSE files.backup)

StoreInit ==
    /\ \E f \in {NoFile, "v1", "future"} : files = [primary |-> f, backup |-> NoFile, temp |-> NoFile]
    /\ saver = NoSave /\ saved = {load} /\ saves = 0 /\ disasters = 0

\* encode_config refuses an invalid configuration before anything is touched.
SaveBegins(c) ==
    /\ saver.at = "idle" /\ saves < MaxSaves /\ saves' = saves + 1
    /\ saver' = [at |-> "open", value |-> c, had |-> FALSE]
    /\ saved' = saved \union {c}
    /\ UNCHANGED <<files, disasters>>

\* The operation at the saver's hand and the one after it; whether there was a
\* primary is asked once, after the new file is complete.
After ==
    CASE saver.at = "open"    -> "write"
      [] saver.at = "write"   -> IF files.primary # NoFile THEN "clear" ELSE "install"
      [] saver.at = "clear"   -> "backup"
      [] saver.at = "backup"  -> "install"
      [] saver.at = "install" -> "sync"
      [] saver.at = "sync"    -> IF saver.had THEN "discard" ELSE "done"
      [] saver.at = "discard" -> "done"

FileOperation(f) ==
    CASE saver.at = "open"    -> [f EXCEPT !.temp = "half"]
      [] saver.at = "write"   -> [f EXCEPT !.temp = saver.value]
      [] saver.at \in {"clear", "discard"} -> [f EXCEPT !.backup = NoFile]
      [] saver.at = "backup"  -> [f EXCEPT !.primary = NoFile, !.backup = f.primary]
      [] saver.at = "install" -> [f EXCEPT !.primary = f.temp, !.temp = NoFile]
      [] saver.at = "sync"    -> f

SaveGoesOn ==
    /\ saver.at \notin {"idle", "done"}
    /\ files' = FileOperation(files)
    /\ saver' = [saver EXCEPT !.at = After,
                              !.had = IF saver.at = "write" THEN files.primary # NoFile ELSE @]
    /\ UNCHANGED <<saved, saves, disasters>>

SaveReturns ==
    /\ saver.at = "done"
    /\ saver' = NoSave /\ saved' = {saver.value}
    /\ UNCHANGED <<files, saves, disasters>>

Disaster == disasters < MaxDisasters /\ disasters' = disasters + 1

\* The backup goes back when the new file cannot take its place, and the new
\* file is removed; either may fail silently, which leaves the file as it is.
Restored(f) == IF saver.at = "install" /\ saver.had /\ f.backup # NoFile
               THEN [f EXCEPT !.primary = f.backup, !.backup = NoFile, !.temp = NoFile]
               ELSE [f EXCEPT !.temp = NoFile]

SaveFails ==
    /\ saver.at \notin {"idle", "done"} /\ Disaster
    /\ files' \in {Restored(files), [files EXCEPT !.temp = NoFile], files}
    /\ saver' = NoSave
    /\ UNCHANGED <<saved, saves>>

\* The next process writes under another temporary name.
ProcessDies ==
    /\ saver.at # "idle" /\ Disaster
    /\ files' = [files EXCEPT !.temp = NoFile] /\ saver' = NoSave
    /\ UNCHANGED <<saved, saves>>

StoreNext == \/ \E c \in Configs : SaveBegins(c)
             \/ SaveGoesOn \/ SaveReturns \/ SaveFails \/ ProcessDies

StoreTypeOK == /\ files.primary \notin {"half"} /\ files.backup \notin {"half"}
               /\ saver.value \in Configs \union {NoFile}

-----------------------------------------------------------------------------
\* Whatever fails and whenever the process dies, load returns a complete
\* configuration: the one last saved successfully, or one whose saving was
\* reported as failed or never reported at all (FileConfigStore::save, load).
ConfigKept == load \in saved
=============================================================================
