----------------------------- MODULE AtomicFile -----------------------------
(***************************************************************************)
(* atomic_write_text and atomic_write_bytes of                             *)
(* src/sdetkit/utils/atomicio.py: several calls, in threads or processes   *)
(* of their own, on one path, with the failures of the file system, kills  *)
(* and power losses.  The reports, queue documents, cache entries, rate    *)
(* counters and conversations of the kit are written through it.           *)
(*                                                                         *)
(* What is on disk is kept apart from what the running system sees: the    *)
(* data of a file is there once the file was synced, a new name once the   *)
(* directory was, and either may be there earlier.                         *)
(***************************************************************************)
EXTENDS Naturals

CONSTANTS Writer,        \* calls, each with a payload of its own
          Initial,       \* content of the target before the first of them
          Torn,          \* an incomplete content
          MaxPowerLosses \* bound: power losses in one behaviour

ContentsOK ==
  /\ Initial \notin Writer
  /\ Torn \notin Writer \cup {Initial}

ASSUME ContentsAssumption == ContentsOK

ASSUME MaxPowerLossesAssumption == MaxPowerLosses \in Nat

VARIABLES stage,         \* per call, the statement it is at
          temps,      \* calls whose temporary file is in the directory
          data,       \* calls whose data is on disk
          target,     \* content of the target, as a reader sees it
          pending,    \* calls whose replacement a power loss may leave as the last one
          stamp,      \* history: per content, how many replacements came before it
          clock,      \* history: replacements so far
          keepsTemp,  \* history: calls that were killed or could not unlink
          losses

fileVars == <<stage, temps, data, target, pending, stamp, clock, keepsTemp, losses>>

Active == {"open", "written", "synced", "replaced", "cleanup"}

Stages == Active \cup {"idle", "durable", "done", "failed", "killed"}

Reaches(w, label) == stage' = [stage EXCEPT ![w] = label]

OnDisk(v) == IF v \in data \cup {Initial} THEN v ELSE Torn

FileInit ==
  /\ stage = [w \in Writer |-> "idle"]
  /\ temps = {} /\ data = {} /\ keepsTemp = {}
  /\ target = Initial /\ pending = {Initial}
  /\ stamp = [v \in Writer \cup {Initial} |-> 0]
  /\ clock = 0 /\ losses = 0

(* The parent directory or the temporary file cannot be created: nothing   *)
(* is left behind.                                                         *)
CreateFails(w) ==
  /\ stage[w] = "idle"
  /\ Reaches(w, "failed")
  /\ UNCHANGED <<temps, data, target, pending, stamp, clock, keepsTemp, losses>>

Create(w) ==
  /\ stage[w] = "idle"
  /\ Reaches(w, "open")
  /\ temps' = temps \cup {w}
  /\ UNCHANGED <<data, target, pending, stamp, clock, keepsTemp, losses>>

(* Mutant: the target itself is opened for writing. *)
WriteInPlace(w) ==
  /\ stage[w] = "open"
  /\ Reaches(w, "written")
  /\ target' \in {Torn, w}
  /\ UNCHANGED <<temps, data, pending, stamp, clock, keepsTemp, losses>>

(* f.write and f.flush; the data may reach the disk at any time from here. *)
Write(w) ==
  /\ stage[w] = "open"
  /\ Reaches(w, "written")
  /\ data' \in {data, data \cup {w}}
  /\ UNCHANGED <<temps, target, pending, stamp, clock, keepsTemp, losses>>

SyncData(w) ==
  /\ stage[w] = "written"
  /\ Reaches(w, "synced")
  /\ data' = data \cup {w}
  /\ UNCHANGED <<temps, target, pending, stamp, clock, keepsTemp, losses>>

(* write, fsync, before_replace or os.replace raises: to the finally block. *)
Raises(w) ==
  /\ stage[w] \in {"open", "written", "synced"}
  /\ Reaches(w, "cleanup")
  /\ UNCHANGED <<temps, data, target, pending, stamp, clock, keepsTemp, losses>>

(* Mutant: the temporary file is moved before it is synced. *)
ReplaceUnsynced(w) ==
  /\ stage[w] \in {"written", "synced"}
  /\ Reaches(w, "replaced")
  /\ temps' = temps \ {w}
  /\ target' = w /\ pending' = pending \cup {w}
  /\ clock' = clock + 1 /\ stamp' = [stamp EXCEPT ![w] = clock + 1]
  /\ UNCHANGED <<data, keepsTemp, losses>>

(* os.replace. *)
ReplaceTarget(w) ==
  /\ stage[w] = "synced"
  /\ Reaches(w, "replaced")
  /\ temps' = temps \ {w}
  /\ target' = w /\ pending' = pending \cup {w}
  /\ clock' = clock + 1 /\ stamp' = [stamp EXCEPT ![w] = clock + 1]
  /\ UNCHANGED <<data, keepsTemp, losses>>

(* Mutant: the file is synced a second time, the directory is not. *)
SyncFileAgain(w) ==
  /\ stage[w] = "replaced"
  /\ Reaches(w, "durable")
  /\ UNCHANGED <<temps, data, target, pending, stamp, clock, keepsTemp, losses>>

(* Mutant: the names that are on disk are lost count of. *)
SyncNothing(w) ==
  /\ stage[w] = "replaced"
  /\ Reaches(w, "durable")
  /\ pending' = {}
  /\ UNCHANGED <<temps, data, target, stamp, clock, keepsTemp, losses>>

(* os.fsync of the parent directory: every replacement so far is on disk.  *)
SyncDirectory(w) ==
  /\ stage[w] = "replaced"
  /\ Reaches(w, "durable")
  /\ pending' = {target}
  /\ UNCHANGED <<temps, data, target, stamp, clock, keepsTemp, losses>>

(* No O_DIRECTORY here, or the directory cannot be opened: not an error.   *)
SkipDirectory(w) ==
  /\ stage[w] = "replaced"
  /\ Reaches(w, "done")
  /\ UNCHANGED <<temps, data, target, pending, stamp, clock, keepsTemp, losses>>

(* The directory was opened but its fsync raises: the caller gets an error *)
(* for a file that was replaced.                                           *)
SyncDirectoryFails(w) ==
  /\ stage[w] = "replaced"
  /\ Reaches(w, "cleanup")
  /\ UNCHANGED <<temps, data, target, pending, stamp, clock, keepsTemp, losses>>

(* Mutant: the temporary file is only removed when the write succeeded. *)
CleanUpNothing(w) ==
  /\ stage[w] = "cleanup"
  /\ Reaches(w, "failed")
  /\ UNCHANGED <<temps, data, target, pending, stamp, clock, keepsTemp, losses>>

(* The finally block when something was raised.  A failing unlink is only  *)
(* logged.                                                                 *)
CleanUp(w) ==
  /\ stage[w] = "cleanup"
  /\ Reaches(w, "failed")
  /\ \/ temps' = temps \ {w} /\ UNCHANGED keepsTemp
     \/ w \in temps /\ keepsTemp' = keepsTemp \cup {w} /\ UNCHANGED temps
  /\ UNCHANGED <<data, target, pending, stamp, clock, losses>>

KillWriter(w) ==
  /\ stage[w] \in Active
  /\ Reaches(w, "killed")
  /\ keepsTemp' = keepsTemp \cup {w}
  /\ UNCHANGED <<temps, data, target, pending, stamp, clock, losses>>

(* Every running call ends; the target is what the disk has of one of the  *)
(* replacements that may be the last there, a temporary file is there if   *)
(* its name or the replacement that removed it did not make it.            *)
PowerLoss ==
  /\ losses < MaxPowerLosses
  /\ losses' = losses + 1
  /\ stage' = [w \in Writer |-> IF stage[w] \in Active THEN "killed" ELSE stage[w]]
  /\ temps' \in SUBSET (temps \cup (pending \cap Writer))
  /\ keepsTemp' = keepsTemp \cup temps'
  /\ \E v \in pending : target' = OnDisk(v) /\ pending' = {v}
  /\ UNCHANGED <<data, stamp, clock>>

Returned == {"durable", "done", "failed", "killed"}

AllReturned ==
  /\ \A w \in Writer : stage[w] \in Returned
  /\ UNCHANGED fileVars

WriterStep(w) ==
  \/ CreateFails(w) \/ Create(w) \/ Write(w) \/ SyncData(w) \/ Raises(w) \/ ReplaceTarget(w)
  \/ SyncDirectory(w) \/ SkipDirectory(w) \/ SyncDirectoryFails(w) \/ CleanUp(w)

FileNext ==
  \/ \E w \in Writer : WriterStep(w) \/ KillWriter(w)
  \/ PowerLoss
  \/ AllReturned

FileSpec == FileInit /\ [][FileNext]_fileVars

-----------------------------------------------------------------------------
FileTypeOK ==
  /\ stage \in [Writer -> Stages]
  /\ temps \subseteq Writer /\ data \subseteq Writer /\ keepsTemp \subseteq Writer
  /\ target \in Writer \cup {Initial, Torn}
  /\ pending \subseteq Writer \cup {Initial} /\ pending # {}
  /\ stamp \in [Writer \cup {Initial} -> Nat]
  /\ clock \in Nat /\ losses \in Nat

(* No reader ever meets a part of a document, whatever fails and even      *)
(* after a power loss: docs/security.md:21, "Atomic file writes for        *)
(* generated artifacts to prevent partial writes".                         *)
NeverPartial == target # Torn

(* What a power loss can bring back is never older than a write that       *)
(* returned after its directory was synced.                                *)
DurableSurvives ==
  \A w \in Writer, v \in pending : stage[w] = "durable" => stamp[v] >= stamp[w]

(* A call that returned, with or without an error, has removed its         *)
(* temporary file, unless it was killed or could not remove it.            *)
NoLitter ==
  \A w \in temps : stage[w] \in Returned => w \in keepsTemp

-----------------------------------------------------------------------------
(* Every behaviour is one of the register: a call takes effect at its      *)
(* os.replace.                                                             *)
Status(w) ==
  CASE stage[w] = "idle" -> "idle"
    [] stage[w] \in {"open", "written", "synced"} -> "active"
    [] stage[w] = "cleanup" -> IF stamp[w] = 0 THEN "active" ELSE "effective"
    [] stage[w] = "replaced" -> "effective"
    [] stage[w] \in {"durable", "done"} -> "ok"
    [] stage[w] = "failed" -> "error"
    [] stage[w] = "killed" -> "dead"

Register ==
  INSTANCE AtomicRegister
    WITH value <- target, survivors <- pending, call <- [w \in Writer |-> Status(w)]

(* Readers of a file written through atomicio see an atomic register.      *)
IsRegister == Register!Spec
=============================================================================
