---------------------------- MODULE AtomicOutput ----------------------------
(***************************************************************************)
(* AtomicOutput of benches/support/output.rs: records are written to a     *)
(* partial file beside the final path, and finish flushes it, syncs it,    *)
(* renames it over the final path and syncs the directory.                 *)
(***************************************************************************)
EXTENDS Naturals, Sequences

CONSTANT
  Previous                    \* what the final path held before the run

VARIABLES
  output,                     \* the writer: its state, and the records written so far
  disk                        \* the final path, the partial file, and what a power loss may leave

NoOutput == [state |-> "none", records |-> <<>>]

NewDisk(parent) ==
  [parent |-> parent, final |-> Previous, survives |-> {Previous}, partial |-> FALSE]

\* create_parent_durably finds the parent, or creates and syncs it; "unsynced" is a parent that
\* an earlier run created and was killed before it synced.
Parents == {"durable", "missing", "unsynced"}

\* The partial path is unique: another attempt is made while it exists.
CreateOutput ==
  /\ output.state = "none"
  /\ output' = [output EXCEPT !.state = "open"]
  /\ disk' = [disk EXCEPT !.partial = TRUE,
                          !.parent = IF disk.parent = "missing" THEN "durable" ELSE disk.parent]

Write(record) ==
  /\ output.state = "open"
  /\ output' = [output EXCEPT !.records = Append(@, record)]
  /\ UNCHANGED disk

\* Mutant of SyncAll: the file is renamed before it is synced.
SyncAllSkipped ==
  /\ output.state = "open"
  /\ output' = [output EXCEPT !.state = "flushed"]
  /\ UNCHANGED disk

\* flush and sync_all
SyncAll ==
  /\ output.state = "open"
  /\ output' = [output EXCEPT !.state = "synced"]
  /\ UNCHANGED disk

\* What a power loss may leave of the file that is renamed over the final path.
Remnants ==
  IF output.state = "synced" THEN {output.records}
  ELSE {SubSeq(output.records, 1, n) : n \in 0..Len(output.records)}

Rename ==
  /\ output.state \in {"flushed", "synced"}
  /\ output' = [output EXCEPT !.state = "published"]
  /\ disk' = [disk EXCEPT !.final = output.records, !.partial = FALSE,
                          !.survives = @ \cup Remnants]

\* Mutant of SyncDirectory: the rename is not made durable.
SyncDirectorySkipped ==
  /\ output.state = "published"
  /\ output' = [output EXCEPT !.state = "finished"]
  /\ UNCHANGED disk

SyncDirectory ==
  /\ output.state = "published"
  /\ output' = [output EXCEPT !.state = "finished"]
  /\ disk' = [disk EXCEPT !.survives = IF disk.parent = "durable" THEN @ \ {Previous} ELSE @]

\* Mutant of DropOutput: what was written so far is published.
DropPublishes(removed) ==
  /\ output' = [output EXCEPT !.state = "dropped"]
  /\ disk' = [disk EXCEPT !.partial = FALSE, !.final = output.records]

\* Drop; a file that cannot be removed is reported and left.
DropOutput(removed) ==
  /\ output' = [output EXCEPT !.state = "dropped"]
  /\ disk' = [disk EXCEPT !.partial = @ /\ ~removed]

PowerLoss == \E left \in disk.survives : disk' = [disk EXCEPT !.final = left]
=============================================================================
