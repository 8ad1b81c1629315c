---------------------------- MODULE ConfigStore ----------------------------
(***************************************************************************)
(* The configuration of one object on the flash file system:               *)
(* FileSystemSaveable (src/sensesp/system/saveable.cpp), the PUT handler of*)
(* the web server (src/sensesp/net/web/config_handler.cpp), Filesystem and *)
(* the factory reset.                                                      *)
(*                                                                         *)
(* Several tasks may save the same object: the HTTP server after a PUT, the*)
(* websocket worker after it was given a token. The device may restart     *)
(* between any two calls of the file system, and a file may not be opened  *)
(* or not be written to its end.                                           *)
(***************************************************************************)
EXTENDS Naturals

CONSTANTS
    Savers,      \* the tasks that save the object
    Configs,     \* the configurations it may have
    Default,     \* the one its constructor gives it
    MaxChanges   \* bound on changes

ASSUME ConfigAssumption == Default \in Configs /\ MaxChanges \in Nat

CONSTANTS Missing, Broken  \* a file that is not there; one that does not parse

ASSUME ContentAssumption ==
    Missing \notin Configs /\ Broken \notin Configs /\ Missing # Broken

VARIABLES
    disk,       \* the files the configuration may be in
    config,     \* the object
    saving,     \* where each task is in save()
    doc,        \* json_doc of its save()
    changes,
    crowded,    \* history: two tasks have been in save() at the same time
    lastSaved,  \* history: what the last undisturbed save wrote
    atRisk      \* history: a save has begun since, and did not end well

storeVars == <<disk, config, saving, doc, changes, crowded, lastSaved, atRisk>>

\* The file name now: a hash of the path; the one of version 2.4.0 and before,
\* with a newline at its end; the one of 2.1.0 and before, the path itself.
Names == {"hash", "newline", "path"}

StoreTypeOK ==
    /\ disk \in [Names -> Configs \cup {Missing, Broken}]
    /\ {config, lastSaved} \subseteq Configs
    /\ saving \in [Savers -> {"idle", "find", "encode", "open", "write"}]
    /\ doc \in [Savers -> Configs]
    /\ changes \in 0..MaxChanges
    /\ crowded \in BOOLEAN /\ atRisk \in BOOLEAN

-----------------------------------------------------------------------------
(* load() *)

\* find_config_file
Found ==
    CASE disk["hash"] # Missing -> {"hash"}
      [] disk["hash"] = Missing /\ disk["newline"] # Missing -> {"newline"}
      [] OTHER -> {n \in {"path"} : disk[n] # Missing}

\* What load() leaves in a new object: without a file, or with one that does not
\* parse, its constructor's values.
Loaded ==
    IF \E n \in Found : disk[n] # Broken
    THEN CHOOSE v \in Configs : \E n \in Found : disk[n] = v
    ELSE Default

\* A device that is new, or that ran an earlier version: at most one file.
StoreInit ==
    /\ \E n \in Names, v \in Configs \cup {Missing} :
         disk = [m \in Names |-> IF m = n THEN v ELSE Missing]
    /\ config = Loaded /\ lastSaved = Loaded
    /\ saving = [s \in Savers |-> "idle"] /\ doc = [s \in Savers |-> Default]
    /\ changes = 0 /\ crowded = FALSE /\ atRisk = FALSE

-----------------------------------------------------------------------------
(* A change and its save(). *)

\* from_json() of the PUT handler, or the websocket client with its token.
\* A request that is refused does not get here. from_json() may have taken a part
\* of one that it rejects: that is not saved.
Change(s) ==
    /\ saving[s] = "idle" /\ changes < MaxChanges
    /\ changes' = changes + 1
    /\ \E v \in Configs : config' = v
    /\ saving' \in {saving, [saving EXCEPT ![s] = "find"]}
    /\ UNCHANGED <<disk, doc, crowded, lastSaved, atRisk>>

InSave(T) == \E t \in T : saving[t] \in {"encode", "open", "write"}

Others(s) == InSave(Savers \ {s})

\* The file that a load would find is removed before the object is encoded.
RemoveOld(s) ==
    /\ saving[s] = "find"
    /\ disk' = [n \in Names |-> IF n \in Found THEN Missing ELSE disk[n]]
    /\ saving' = [saving EXCEPT ![s] = "encode"]
    /\ atRisk' = TRUE
    /\ crowded' = (Others(s) \/ crowded)
    /\ UNCHANGED <<config, doc, changes, lastSaved>>

\* Nobody else is in save() any more: the next one is undisturbed.
Leaves(s) == crowded' = (crowded /\ Others(s))

\* to_json()
Encode(s) ==
    /\ saving[s] = "encode"
    /\ doc' = [doc EXCEPT ![s] = config]
    /\ saving' = [saving EXCEPT ![s] = "open"]
    /\ UNCHANGED <<disk, config, changes, crowded, lastSaved, atRisk>>

\* to_json() returns false, and save() does.
EncodeFails(s) ==
    /\ saving[s] = "encode"
    /\ saving' = [saving EXCEPT ![s] = "idle"]
    /\ Leaves(s)
    /\ UNCHANGED <<disk, config, doc, changes, lastSaved, atRisk>>

\* open(): an empty file, which does not parse.
Open(s) ==
    /\ saving[s] = "open"
    /\ disk' = [disk EXCEPT !["hash"] = Broken]
    /\ saving' = [saving EXCEPT ![s] = "write"]
    /\ UNCHANGED <<config, doc, changes, crowded, lastSaved, atRisk>>

\* open() fails; save() does not look, and returns true.
OpenFails(s) ==
    /\ saving[s] = "open"
    /\ saving' = [saving EXCEPT ![s] = "idle"]
    /\ Leaves(s)
    /\ UNCHANGED <<disk, config, doc, changes, lastSaved, atRisk>>

\* A mistake: the file that a load would find is removed after the new one is
\* written.
VariantWritten(s) == [n \in Names |-> IF n \in Found THEN Missing ELSE disk[n]]

Written(s) == [disk EXCEPT !["hash"] = doc[s]]

\* serializeJson() and close(). If another task is in save() the file may be
\* gone, or hold what the two wrote into it; it may be full as well.
Write(s) ==
    /\ saving[s] = "write"
    /\ \/ /\ ~crowded /\ ~Others(s)
          /\ disk' = Written(s)
          /\ lastSaved' = doc[s] /\ atRisk' = FALSE
       \/ /\ \E content \in {Broken} \cup
                  (IF crowded THEN {doc[s], disk["hash"]} ELSE {}) :
               disk' = [disk EXCEPT !["hash"] = content]
          /\ UNCHANGED <<lastSaved, atRisk>>
    /\ saving' = [saving EXCEPT ![s] = "idle"]
    /\ Leaves(s)
    /\ UNCHANGED <<config, doc, changes>>

-----------------------------------------------------------------------------
(* Restarts and the factory reset. *)

\* A restart, a crash or a power failure, at any moment. begin() formats a file
\* system that it cannot mount.
Restart ==
    /\ \/ config' = Loaded /\ UNCHANGED disk
       \/ config' = Default /\ disk' = [n \in Names |-> Missing]
    /\ lastSaved' = config'
    /\ saving' = [s \in Savers |-> "idle"]
    /\ crowded' = FALSE /\ atRisk' = FALSE
    /\ UNCHANGED <<doc, changes>>

\* reset() formats the file system; the restart comes a second later, and saves
\* go on meanwhile. One that is under way may still write its file.
Reset ==
    /\ disk' = [n \in Names |-> Missing]
    /\ lastSaved' = Default
    /\ atRisk' = InSave(Savers) /\ crowded' = InSave(Savers)
    /\ UNCHANGED <<config, saving, doc, changes>>

SaveStep(s) ==
    \/ Change(s) \/ RemoveOld(s) \/ Encode(s) \/ EncodeFails(s)
    \/ Open(s) \/ OpenFails(s) \/ Write(s)

StoreNext == (\E s \in Savers : SaveStep(s)) \/ Restart \/ Reset

StoreSpec == StoreInit /\ [][StoreNext]_storeVars

-----------------------------------------------------------------------------
(* Properties. *)

\* Unless a save was interrupted, failed or was disturbed by another since, a
\* restart loads what the last save wrote (after a factory reset, the default):
\* no file of an earlier version comes back instead, and none is missing.
ConfigSurvives == ~atRisk => Loaded = lastSaved
=============================================================================
