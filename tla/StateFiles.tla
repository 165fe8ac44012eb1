------------------------------ MODULE StateFiles ------------------------------
(***************************************************************************)
(* The state file and its delta journal as files: what StateSaver,         *)
(* state::save, JournalWriter and the restore arms of spawn do to them,    *)
(* step by step, with kills and power cuts between any two steps, failing  *)
(* calls, a shutdown that races the follow loop for the saver's mutex, and *)
(* possibly a second process on the same path.                             *)
(*                                                                         *)
(* A state is a block number and cells; cells are known by the layouts     *)
(* that each block since the bootstrap left, as the cuckoo store may lay   *)
(* the same block out in several ways.  A digest stands for its content.   *)
(***************************************************************************)
EXTENDS Integers, Sequences, FiniteSets, SequencesExt

CONSTANTS Layouts,       \* ways a block can be laid out
          Processes,     \* processes started on this --state path
          MaxServed,     \* bound on the states served
          MaxStarts,     \* bound on the processes started
          LoopMayReject, \* blocks are rejected half-applied in these runs
          CallsMayFail   \* so may file operations

ASSUME FilesAssumption ==
    /\ MaxServed \in Nat /\ MaxStarts \in Nat
    /\ {LoopMayReject, CallsMayFail} \subseteq BOOLEAN

VARIABLES
    files,    \* what the system shows: state, tmp (its staging sibling), journal
    disk,     \* what is durable of state and journal
    dirSyncs, \* the parent directory can be fsynced (a bare file name has none)
    proc,     \* the memory of each process
    saver,    \* the saver's mutex: who holds it and how far it has come
    lock,     \* the processes that hold the advisory lock
    starts,   \* processes started so far
    served,   \* every state that was served
    acked,    \* the newest state reported to be on disk
    kept      \* the newest one reported while the names leading to it were on disk

fileVars == <<files, disk, dirSyncs, proc, saver, lock, starts, served, acked, kept>>

NoFile   == [kind |-> "none"]
Torn     == [kind |-> "torn"]
Whole(s) == [kind |-> "whole", of |-> s]
Journal(s) == [kind |-> "whole", base |-> s, items |-> <<>>]

Snapshot == [block |-> 0, cells |-> <<>>]
NoDelta  == [kind |-> "none"]
Idle     == [step |-> "idle", by |-> "nobody", of |-> Snapshot]
Down     == [up |-> "down", head |-> Snapshot, following |-> FALSE, signalled |-> FALSE,
             pending |-> NoDelta, journaling |-> FALSE, last |-> 0, broken |-> FALSE, saved |-> -1]

FilesInit ==
    /\ files = [state |-> NoFile, tmp |-> NoFile, journal |-> NoFile]
    /\ disk = [state |-> NoFile, journal |-> NoFile]
    /\ dirSyncs \in BOOLEAN
    /\ proc = [p \in Processes |-> Down]
    /\ saver = [p \in Processes |-> Idle]
    /\ lock = {} /\ starts = 0
    /\ served = {Snapshot}
    /\ acked = Snapshot /\ kept = Snapshot

-----------------------------------------------------------------------------
(* The blocks, in the follow loop of process p.                            *)

Delta(s, l) == [kind |-> "delta", block |-> s.block + 1, from |-> s.cells, to |-> Append(s.cells, l)]

(* state::save runs under the node's read lock, which excludes blocks.     *)
ReadLocked(p) == saver[p].step \in {"staging", "staged", "renamed"}

LoopRuns(p) == proc[p].up \in {"up", "exiting"} /\ proc[p].following /\ saver[p].by # "loop"

Serving(s) ==
    /\ served' = served \cup {s}
    /\ Cardinality(served') <= MaxServed

BlockApplied(p) ==
    /\ LoopRuns(p) /\ proc[p].pending = NoDelta
    /\ ~ReadLocked(p)
    /\ \E l \in Layouts :
         LET d == Delta(proc[p].head, l)
             s == [block |-> d.block, cells |-> d.to]
         IN  /\ proc' = [proc EXCEPT ![p].head = s, ![p].pending = d]
             /\ Serving(s)
    /\ UNCHANGED <<files, disk, dirSyncs, saver, lock, starts, acked, kept>>

(* The loop returns; the cells hold part of a block, the number stays.     *)
BlockRejected(p) ==
    /\ LoopMayReject
    /\ LoopRuns(p) /\ proc[p].pending = NoDelta
    /\ ~ReadLocked(p)
    /\ \E l \in Layouts :
         LET s == [proc[p].head EXCEPT !.cells = Append(@, l)]
         IN  /\ proc' = [proc EXCEPT ![p].head = s, ![p].following = FALSE]
             /\ Serving(s)
    /\ UNCHANGED <<files, disk, dirSyncs, saver, lock, starts, acked, kept>>

-----------------------------------------------------------------------------
(* append_delta, under the mutex: the writes of one record, then its sync. *)

(* Mutant of Extends: a record is appended whatever its block.             *)
ExtendsAny(p, d) == TRUE

Extends(p, d) == d.block = proc[p].last + 1

(* Journaling is off, or the record is already inside the journal's base   *)
(* because a shutdown save won the mutex: the loop goes on without it.     *)
(* A record ahead of the journal, which append refuses as a gap, cannot    *)
(* come about: a process appends its own blocks, one after the other.      *)
AppendSkipped(p) ==
    /\ LoopRuns(p) /\ proc[p].pending # NoDelta
    /\ saver[p] = Idle
    /\ \/ proc[p].broken \/ ~proc[p].journaling
       \/ ~Extends(p, proc[p].pending) /\ proc[p].pending.block <= proc[p].last
    /\ proc' = [proc EXCEPT ![p].pending = NoDelta]
    /\ UNCHANGED <<files, disk, dirSyncs, saver, lock, starts, served, acked, kept>>

AppendBegins(p) ==
    /\ LoopRuns(p) /\ proc[p].pending # NoDelta
    /\ saver[p] = Idle
    /\ ~proc[p].broken /\ proc[p].journaling
    /\ Extends(p, proc[p].pending)
    /\ saver' = [saver EXCEPT ![p] = [Idle EXCEPT !.step = "appending", !.by = "loop"]]
    /\ files' = [files EXCEPT !.journal.items = Append(@, Torn)]
    /\ UNCHANGED <<disk, dirSyncs, proc, lock, starts, served, acked, kept>>

AppendWritten(p) ==
    /\ saver[p].step = "appending"
    /\ saver' = [saver EXCEPT ![p].step = "written"]
    /\ files' = [files EXCEPT !.journal.items =
                   IF @ # <<>> /\ Last(@) = Torn THEN Append(Front(@), proc[p].pending) ELSE Append(@, Torn)]
    /\ UNCHANGED <<disk, dirSyncs, proc, lock, starts, served, acked, kept>>

SameJournal == disk.journal.kind = "whole" /\ disk.journal.base = files.journal.base

(* The record reaches the disk.  Its journal's name need not be there: no  *)
(* directory is synced for a journal that was renamed into place by a      *)
(* killed process and is adopted.                                          *)
AppendSynced(p) ==
    /\ saver[p].step = "written"
    /\ saver' = [saver EXCEPT ![p] = Idle]
    /\ disk' = IF SameJournal THEN [disk EXCEPT !.journal = files.journal] ELSE disk
    /\ proc' = [proc EXCEPT ![p].last = proc[p].pending.block, ![p].pending = NoDelta]
    /\ acked' = [block |-> proc[p].pending.block, cells |-> proc[p].pending.to]
    /\ kept' = IF SameJournal /\ disk.state = files.state THEN acked' ELSE kept
    /\ UNCHANGED <<files, dirSyncs, lock, starts, served>>

AppendFails(p) ==
    /\ CallsMayFail
    /\ saver[p].step \in {"appending", "written"}
    /\ saver' = [saver EXCEPT ![p] = Idle]
    /\ proc' = [proc EXCEPT ![p].pending = NoDelta, ![p].journaling = FALSE, ![p].broken = TRUE]
    /\ UNCHANGED <<files, disk, dirSyncs, lock, starts, served, acked, kept>>

-----------------------------------------------------------------------------
(* save_with, under the mutex: the state into its staging file, synced and *)
(* renamed, the directory synced, then a fresh journal renamed likewise.   *)

(* The mutex is released; a shutdown then exits, but not in the same step. *)
Finish(p, memory) ==
    /\ saver' = [saver EXCEPT ![p] = Idle]
    /\ proc' = [proc EXCEPT ![p] = IF saver[p].by = "shutdown" THEN [memory EXCEPT !.up = "exiting"] ELSE memory]

(* Mutant of SaveBegins: the state is written in place.                    *)
SaveBeginsInPlace(p, by) ==
    /\ saver[p] = Idle
    /\ saver' = [saver EXCEPT ![p] = [step |-> "staging", by |-> by, of |-> proc[p].head]]
    /\ files' = [files EXCEPT !.tmp = Torn, !.state = Torn]

SaveBegins(p, by) ==
    /\ saver[p] = Idle
    /\ saver' = [saver EXCEPT ![p] = [step |-> "staging", by |-> by, of |-> proc[p].head]]
    /\ files' = [files EXCEPT !.tmp = Torn]

(* maybe_save, between two blocks: due whenever the interval has elapsed.  *)
Autosave(p) ==
    /\ LoopRuns(p) /\ proc[p].pending = NoDelta
    /\ proc[p].saved # proc[p].head.block
    /\ SaveBegins(p, "loop")
    /\ UNCHANGED <<disk, dirSyncs, proc, lock, starts, served, acked, kept>>

(* save_now, whatever was saved before; the loop is not asked to stop.     *)
ShutdownSave(p) ==
    /\ proc[p].up = "up" /\ proc[p].signalled
    /\ SaveBegins(p, "shutdown")
    /\ UNCHANGED <<disk, dirSyncs, proc, lock, starts, served, acked, kept>>

(* Two processes in the same staging file make garbage.                    *)
SaveStaged(p) ==
    /\ saver[p].step = "staging"
    /\ saver' = [saver EXCEPT ![p].step = "staged"]
    /\ files' = [files EXCEPT !.tmp = IF @ = Torn /\ \A q \in Processes \ {p} : saver[q].step # "staging"
                                     THEN Whole(saver[p].of) ELSE @]
    /\ UNCHANGED <<disk, dirSyncs, proc, lock, starts, served, acked, kept>>

SaveRenamed(p) ==
    /\ saver[p].step = "staged"
    /\ files.tmp # NoFile
    /\ saver' = [saver EXCEPT ![p].step = "renamed"]
    /\ files' = [files EXCEPT !.state = files.tmp, !.tmp = NoFile]
    /\ UNCHANGED <<disk, dirSyncs, proc, lock, starts, served, acked, kept>>

SaveFails(p) ==
    /\ CallsMayFail \/ files.tmp = NoFile
    /\ saver[p].step \in {"staging", "staged"}
    /\ Finish(p, proc[p])
    /\ UNCHANGED <<files, disk, dirSyncs, lock, starts, served, acked, kept>>

(* The read lock is released, the mutex is not; a journal that broke stays *)
(* broken.  The sync of a directory is relied on for the name it follows,  *)
(* though it takes the name beside it along.                               *)
SaveSynced(p) ==
    LET memory == [proc[p] EXCEPT !.saved = saver[p].of.block]
    IN  /\ saver[p].step = "renamed"
        /\ disk' = IF dirSyncs THEN [disk EXCEPT !.state = files.state] ELSE disk
        /\ acked' = saver[p].of /\ kept' = saver[p].of
        /\ IF proc[p].broken
           THEN Finish(p, memory)
           ELSE /\ saver' = [saver EXCEPT ![p].step = "rotating"]
                /\ proc' = [proc EXCEPT ![p] = memory]
        /\ UNCHANGED <<files, dirSyncs, lock, starts, served>>

JournalRenamed(p) ==
    /\ saver[p].step = "rotating"
    /\ saver' = [saver EXCEPT ![p].step = "rotated"]
    /\ files' = [files EXCEPT !.journal = Journal(saver[p].of)]
    /\ UNCHANGED <<disk, dirSyncs, proc, lock, starts, served, acked, kept>>

JournalRotated(p) ==
    /\ saver[p].step = "rotated"
    /\ disk' = IF dirSyncs THEN [disk EXCEPT !.journal = files.journal] ELSE disk
    /\ Finish(p, [proc[p] EXCEPT !.journaling = TRUE, !.last = saver[p].of.block])
    /\ UNCHANGED <<files, dirSyncs, lock, starts, served, acked, kept>>

RotationFails(p) ==
    /\ CallsMayFail
    /\ saver[p].step \in {"rotating", "rotated"}
    /\ Finish(p, [proc[p] EXCEPT !.journaling = FALSE])
    /\ UNCHANGED <<files, disk, dirSyncs, lock, starts, served, acked, kept>>

-----------------------------------------------------------------------------
(* Restoring.  An image is what is found under the two names.              *)

(* Mutant of Usable: any well-formed journal is replayed.                  *)
UsableUnchecked(image) == image.journal.kind = "whole"

(* The journal's header names this base by its digest and its block.       *)
Usable(image) ==
    /\ image.journal.kind = "whole"
    /\ image.journal.base = image.state.of

(* The scan stops at the first record that is torn or not the next block.  *)
ValidRecords(journal) ==
    CHOOSE n \in 0 .. Len(journal.items) :
        /\ \A k \in 1 .. n : /\ journal.items[k].kind = "delta"
                             /\ journal.items[k].block = journal.base.block + k
        /\ n < Len(journal.items) =>
             journal.items[n + 1].kind = "torn" \/ journal.items[n + 1].block # journal.base.block + n + 1

(* Cells that a delta was applied to which was not computed from them.     *)
Scrambled == <<0>>

Replayed(state, journal) ==
    LET n == ValidRecords(journal)
        fits == \A k \in 1 .. n :
                  journal.items[k].from = IF k = 1 THEN state.cells ELSE journal.items[k - 1].to
    IN  IF n = 0 THEN state
        ELSE [block |-> journal.base.block + n,
              cells |-> IF fits THEN journal.items[n].to ELSE Scrambled]

Restored(image) ==
    IF Usable(image) THEN Replayed(image.state.of, image.journal) ELSE image.state.of

(* Mutant of Adopted: what follows the valid records stays in the file.    *)
AdoptedUncut(journal) == journal

(* Everything behind the valid records is cut off.                         *)
Adopted(journal) == [journal EXCEPT !.items = SubSeq(@, 1, ValidRecords(journal))]

(* What an operator who goes without the journal still claims of state s.  *)
Claimed(s, restore) ==
    IF restore \/ IsPrefix(s.cells, files.state.of.cells) THEN s ELSE files.state.of

(* spawn claims the path and restores, --no-journal-restore from the base  *)
(* alone.  The journal is adopted only where the restored state ends it.   *)
(* Nothing is synced: a name that a killed process left unsynced stays so. *)
Start(p, restore) ==
    LET head == IF restore THEN Restored(files) ELSE files.state.of
        ends == /\ Usable(files)
                /\ restore \/ ValidRecords(files.journal) = 0
    IN  /\ proc[p] = Down /\ starts < MaxStarts
        /\ lock = {}
        /\ files.state.kind = "whole"
        /\ lock' = {p} /\ starts' = starts + 1
        /\ \E adopted \in {ends} \cup (IF CallsMayFail THEN {FALSE} ELSE {}) :
             /\ proc' = [proc EXCEPT ![p] = [Down EXCEPT !.up = "starting", !.head = head,
                            !.journaling = adopted, !.last = head.block, !.saved = files.state.of.block]]
             /\ files' = IF adopted THEN [files EXCEPT !.journal = Adopted(@)] ELSE files
        /\ acked' = Claimed(acked, restore) /\ kept' = Claimed(kept, restore)
        /\ UNCHANGED <<disk, dirSyncs, saver, served>>

(* There is no state file: ingest the snapshot and save it.                *)
Bootstrap(p) ==
    /\ proc[p] = Down /\ starts < MaxStarts
    /\ lock = {}
    /\ files.state = NoFile
    /\ lock' = {p} /\ starts' = starts + 1
    /\ proc' = [proc EXCEPT ![p] = [Down EXCEPT !.up = "starting"]]
    /\ saver' = [saver EXCEPT ![p] = [step |-> "staging", by |-> "spawn", of |-> Snapshot]]
    /\ files' = [files EXCEPT !.tmp = Torn]
    /\ UNCHANGED <<disk, dirSyncs, served, acked, kept>>

(* spawn returns, and with it goes the lock, which was a local of it.      *)
Serve(p) ==
    /\ proc[p].up = "starting" /\ saver[p] = Idle
    /\ proc' = [proc EXCEPT ![p].up = "up", ![p].following = TRUE]
    /\ lock' = lock \ {p}
    /\ UNCHANGED <<files, disk, dirSyncs, saver, starts, served, acked, kept>>

Signal(p) ==
    /\ proc[p].up = "up" /\ ~proc[p].signalled
    /\ proc' = [proc EXCEPT ![p].signalled = TRUE]
    /\ UNCHANGED <<files, disk, dirSyncs, saver, lock, starts, served, acked, kept>>

-----------------------------------------------------------------------------
(* Faults.  A kill, or the exit that ends a shutdown, leaves the files as  *)
(* they are; a power cut leaves what is durable, or any of what was on its *)
(* way.                                                                    *)

Kill(p) ==
    /\ proc[p] # Down
    /\ proc' = [proc EXCEPT ![p] = Down]
    /\ saver' = [saver EXCEPT ![p] = Idle]
    /\ lock' = lock \ {p}
    /\ UNCHANGED <<files, disk, dirSyncs, starts, served, acked, kept>>

(* The last record is not durable yet.                                     *)
Unsynced ==
    /\ files.journal.kind = "whole" /\ files.journal.items # <<>>
    /\ SameJournal => Len(files.journal.items) > Len(disk.journal.items)

JournalImages ==
    {disk.journal, files.journal} \cup
    IF Unsynced THEN {[files.journal EXCEPT !.items = Append(Front(@), Torn)]} ELSE {}

Images == [state : {disk.state, files.state}, journal : JournalImages]

PowerLoss ==
    /\ proc # [p \in Processes |-> Down]
    /\ proc' = [p \in Processes |-> Down]
    /\ saver' = [p \in Processes |-> Idle]
    /\ lock' = {}
    /\ \E image \in Images :
         /\ disk' = image
         /\ files' = [files EXCEPT !.state = image.state, !.journal = image.journal]
    /\ UNCHANGED <<dirSyncs, starts, served, acked, kept>>

-----------------------------------------------------------------------------
AppendStep(p) == AppendSkipped(p) \/ AppendBegins(p) \/ AppendWritten(p) \/ AppendSynced(p)
SaveStep(p) ==
    \/ SaveStaged(p) \/ SaveRenamed(p) \/ SaveFails(p) \/ SaveSynced(p)
    \/ JournalRenamed(p) \/ JournalRotated(p) \/ RotationFails(p)

FilesNext ==
    \/ \E p \in Processes :
         \/ BlockApplied(p) \/ BlockRejected(p)
         \/ AppendStep(p) \/ AppendFails(p)
         \/ Autosave(p) \/ ShutdownSave(p) \/ SaveStep(p)
         \/ \E restore \in BOOLEAN : Start(p, restore)
         \/ Bootstrap(p) \/ Serve(p) \/ Signal(p) \/ Kill(p)
    \/ PowerLoss

FilesSpec == FilesInit /\ [][FilesNext]_fileVars

-----------------------------------------------------------------------------
(* The state file is there whole or not at all, through any fault.         *)
StateFileIsWhole == \A image \in Images : image.state # Torn

(* Whatever a fault leaves restores to a state that was served: no delta   *)
(* is replayed on cells it was not computed from.                          *)
RestoresToServed ==
    \A image \in Images : image.state.kind = "whole" => Restored(image) \in served

(* Without a state file the next start begins at the snapshot again.       *)
Recovered(image) == IF image.state.kind = "whole" THEN Restored(image).cells ELSE Snapshot.cells

(* What a save or an append reported to be on disk, while the names that   *)
(* lead to it were there, survives every fault, and whatever is saved,     *)
(* appended, cut off or adopted later.                                     *)
NothingAcknowledgedLost ==
    dirSyncs => \A image \in Images : IsPrefix(kept.cells, Recovered(image))

(* "fsyncing before returning so a crash right after can never see a       *)
(* record whose bytes never reached disk" (journal.rs:601): whatever was   *)
(* reported to be on disk is found again.                                  *)
EveryReportIsKept ==
    dirSyncs => \A image \in Images : IsPrefix(acked.cells, Recovered(image))

(* While journaling, the files lead to the very state that is served, but  *)
(* for the block being journaled.                                          *)
JournalKeepsUp ==
    \A p \in Processes :
        LoopRuns(p) /\ proc[p].journaling /\ saver[p] = Idle
          => Restored(files) \in {proc[p].head} \cup
               {[block |-> d.block - 1, cells |-> d.from] : d \in {proc[p].pending} \ {NoDelta}}

(* What is saved are the cells of one block, and of the block it names.    *)
SavedIsOneHeight ==
    files.state.kind = "whole" => Len(files.state.of.cells) = files.state.of.block
=============================================================================
