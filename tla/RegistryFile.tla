---------------------------- MODULE RegistryFile ----------------------------
(***************************************************************************)
(* models.yaml on disk: write_registry_file and _overwrite_in_place of     *)
(* models/registry.py, under the admin's save handler, and the processes   *)
(* that load it when they start.  A save runs in a worker thread; each     *)
(* system call on the file is one action.                                  *)
(***************************************************************************)
EXTENDS AuditLog

CONSTANTS
  Docs,       \* the documents an admin may save
  Absent,     \* there is no file
  Empty,      \* a truncated file
  Torn,       \* a part of a document, or pieces of two
  Unread      \* the content could not be read

Contents == Docs \cup {Absent, Empty, Torn}

ASSUME FileAssumption ==
  /\ Docs \subseteq Documents
  /\ Absent \notin Docs \cup {Empty, Torn} /\ Empty \notin Docs /\ Torn \notin Docs
  /\ Unread \notin Contents

VARIABLES
  mounted,    \* models.yaml is a mount point of its own: a rename onto it fails
  file,       \* its content
  running,    \* running[p]: the registry process p serves, Refused if it did not boot
  doc,        \* doc[t]: the document save t writes, NoId to remove the file
  previous,   \* previous[t]: the content it has read to restore, or Unread
  errors,     \* errors[t]: the calls on the file that failed it
  found,      \* found[t]: the content when it began
  met         \* the saves that ran beside another one

fileVars == <<file, doc, previous, errors, found, met>>

Saving == {"temp", "replace", "readBack", "truncate", "write", "restore"}
Savers == {t \in Ops : pc[t] \in Saving}
OSError(t) == errors' = [errors EXCEPT ![t] = @ + 1]

(* load_registry: no file and an empty one are the env vars' single model.  *)
(* A torn one may be all comments, or may not parse.                        *)
Load(content) ==
  IF content \in {Absent, Empty} THEN {Synthesized}
  ELSE IF content = Torn THEN {Synthesized, Refused}
  ELSE {Build(content)}

BeginSaveUnchecked(t, p, d) ==      \* mutant: the document is not validated first
  /\ pc[t] = "idle" /\ "save" \in plan[t] /\ running[p] # Refused
  /\ home' = [home EXCEPT ![t] = p]
  /\ doc' = [doc EXCEPT ![t] = d]
  /\ found' = [found EXCEPT ![t] = file]
  /\ met' = IF Savers = {} THEN met ELSE met \cup Savers \cup {t}
  /\ Goto(t, IF d = NoId THEN "replace" ELSE "temp")
  /\ UNCHANGED <<plan, auditVars, file, previous, errors>>

(* save_model_registry: the whole document is validated first, else a 400;  *)
(* nothing to validate when the file is to be removed.                      *)
BeginSave(t, p, d) ==
  /\ pc[t] = "idle" /\ "save" \in plan[t] /\ running[p] # Refused
  /\ d # NoId => Build(d) # Refused
  /\ home' = [home EXCEPT ![t] = p]
  /\ doc' = [doc EXCEPT ![t] = d]
  /\ found' = [found EXCEPT ![t] = file]
  /\ met' = IF Savers = {} THEN met ELSE met \cup Savers \cup {t}
  /\ Goto(t, IF d = NoId THEN "replace" ELSE "temp")
  /\ UNCHANGED <<plan, auditVars, file, previous, errors>>

(* The payload is in a temporary file; the target is untouched. *)
WriteTemp(t) ==
  /\ pc[t] = "temp"
  /\ Goto(t, "replace")
  /\ UNCHANGED <<plan, home, auditVars, fileVars>>

(* os.replace, or os.remove: neither can be done to a mount point, and only *)
(* the rename has a fallback.                                               *)
Replace(t) ==
  /\ pc[t] = "replace"
  /\ \/ /\ ~mounted
        /\ file' = IF doc[t] = NoId THEN Absent ELSE doc[t]
        /\ Goto(t, "saved")
     \/ /\ mounted /\ doc[t] # NoId
        /\ Goto(t, "readBack")
        /\ UNCHANGED file
  /\ UNCHANGED <<plan, home, auditVars, doc, previous, errors, found, met>>

ReadNothing(t) ==      \* mutant: the content is not read, there is nothing to restore
  /\ pc[t] = "readBack"
  /\ previous' = [previous EXCEPT ![t] = Unread]
  /\ Goto(t, "truncate")
  /\ UNCHANGED <<plan, home, auditVars, file, doc, errors, found, met>>

(* A content that cannot be read is not restored, but written over.         *)
ReadBack(t) ==
  /\ pc[t] = "readBack"
  /\ \/ previous' = [previous EXCEPT ![t] = file] /\ UNCHANGED errors
     \/ previous' = [previous EXCEPT ![t] = Unread] /\ OSError(t)
  /\ Goto(t, "truncate")
  /\ UNCHANGED <<plan, home, auditVars, file, doc, found, met>>

(* The file could not be written over: the error is raised again, at once   *)
(* or when what was read has been put back.                                 *)
NotWritten(t) == OSError(t) /\ Goto(t, IF previous[t] = Unread THEN "failed" ELSE "restore")

Truncate(t) ==
  /\ pc[t] = "truncate"
  /\ \/ file' = Empty /\ Goto(t, "write") /\ UNCHANGED errors
     \/ NotWritten(t) /\ UNCHANGED file
  /\ UNCHANGED <<plan, home, auditVars, doc, previous, found, met>>

(* The write goes over whatever another save wrote since the truncation, or *)
(* stops at or before its end.                                              *)
WriteDoc(t) ==
  /\ pc[t] = "write"
  /\ \/ /\ file' \in {doc[t]} \cup (IF file = Empty THEN {} ELSE {Torn})
        /\ Goto(t, "saved")
        /\ UNCHANGED errors
     \/ /\ file' \in {file, Torn, doc[t]}
        /\ NotWritten(t)
  /\ UNCHANGED <<plan, home, auditVars, doc, previous, found, met>>

(* The error is answered as a 500 even when putting the content back fails  *)
(* as well, before the file is emptied, before it is written or half-way.   *)
Restore(t) ==
  /\ pc[t] = "restore"
  /\ \/ file' = previous[t] /\ UNCHANGED errors
     \/ file' \in {file, Empty, Torn, previous[t]} /\ OSError(t)
  /\ Goto(t, "failed")
  /\ UNCHANGED <<plan, home, auditVars, doc, previous, found, met>>

(* An OSError before the target is touched is a 500. *)
SaveFails(t) ==
  /\ pc[t] \in {"temp", "replace"}
  /\ OSError(t)
  /\ Goto(t, "failed")
  /\ UNCHANGED <<plan, home, auditVars, file, doc, previous, found, met>>

LogSave(t) ==
  /\ pc[t] = "saved"
  /\ LogEvent(t, {"global"})
  /\ Goto(t, "done")
  /\ UNCHANGED <<plan, home, fileVars>>

FileStep(t) ==
  \/ \E p \in Procs, d \in Docs \cup {NoId} : BeginSave(t, p, d)
  \/ WriteTemp(t) \/ Replace(t) \/ ReadBack(t) \/ Truncate(t) \/ WriteDoc(t) \/ Restore(t)
  \/ SaveFails(t) \/ LogSave(t)

(* A process ends and starts again from the file; its requests are over. *)
Restart(p) ==
  /\ running' \in {[running EXCEPT ![p] = r] : r \in Load(file)}
  /\ pc' = [t \in Ops |-> IF t \in Busy /\ home[t] = p THEN "dead" ELSE pc[t]]
  /\ UNCHANGED <<plan, home, auditVars, fileVars>>
=============================================================================
