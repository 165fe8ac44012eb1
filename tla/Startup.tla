------------------------------ MODULE Startup -------------------------------
(* How a mainnet deployment starts, ends and starts again: what the command*)
(* line asks for, the checks that end the process, where the table comes   *)
(* from (the state file with or without its journal, a snapshot, nothing), *)
(* and what is left on disk for the next start. How a file is written byte *)
(* by byte is StateFiles' matter; here a save is one step.                 *)
EXTENDS Integers, Sequences, FiniteSets, SequencesExt

CONSTANTS CommandLines, \* sequences of [name, value]
          MAX_PREFETCH,
          ForeignFiles, \* state files that other versions have left
          MaxStarts, MaxStartHead,
          MaxAccidents  \* bound on damaged files and on calls that fail

ASSUME StartupAssumption ==
    /\ {MAX_PREFETCH, MaxStarts, MaxStartHead, MaxAccidents} \subseteq Nat
    /\ \A line \in CommandLines : line \in Seq(ToSet(line))

VARIABLES
    args,      \* the command line of the process
    process,   \* its phase, table, block, and whether it journals
    disk,      \* the file at --state; its journal
    latest,    \* the chain's finalized block
    started,   \* starts, and the saves there were: a save's number is its digest
    accidents

startupVars == <<args, process, disk, latest, started, accidents>>

-----------------------------------------------------------------------------
(* The command line.                                                       *)

Defaults ==
    [exit |-> "no", feeds |-> <<"drpc", "merkle">>, feedSeen |-> FALSE,
     refresh |-> <<"tenderly", "blastapi">>, refreshSeen |-> FALSE, checks |-> FALSE,
     snapshot |-> FALSE, snapshotBlock |-> -1, state |-> "none", partial |-> FALSE,
     interval |-> 21600, explicit |-> FALSE, restore |-> TRUE, prefetch |-> 1]

Exits(cfg, why) == [cfg EXCEPT !.exit = why]

(* The first --feed-url or --refresh-url takes the default list's place; a *)
(* flag that is not known, or whose value is missing or does not parse, is *)
(* a usage error.                                                          *)
WithFlag(cfg, flag) ==
    LET v == flag.value IN
    IF cfg.exit # "no" THEN cfg
    ELSE
    CASE flag.name = "--feed-url" ->
            [cfg EXCEPT !.feeds = Append(IF cfg.feedSeen THEN @ ELSE <<>>, v), !.feedSeen = TRUE]
      [] flag.name = "--refresh-url" ->
            [cfg EXCEPT !.refresh = Append(IF cfg.refreshSeen THEN @ ELSE <<>>, v),
                        !.refreshSeen = TRUE]
      [] flag.name = "--hard-refresh" -> [cfg EXCEPT !.checks = TRUE]
      [] flag.name = "--snapshot" -> [cfg EXCEPT !.snapshot = TRUE]
      [] flag.name = "--snapshot-block" -> [cfg EXCEPT !.snapshotBlock = v]
      [] flag.name = "--state" -> [cfg EXCEPT !.state = v]
      [] flag.name = "--partial" -> [cfg EXCEPT !.partial = TRUE]
      [] flag.name = "--save-interval" -> [cfg EXCEPT !.interval = v, !.explicit = TRUE]
      [] flag.name = "--journal-restore" -> [cfg EXCEPT !.restore = TRUE]
      [] flag.name = "--no-journal-restore" -> [cfg EXCEPT !.restore = FALSE]
      [] flag.name = "--prefetch" ->
            IF v \in 1..MAX_PREFETCH THEN [cfg EXCEPT !.prefetch = v] ELSE Exits(cfg, "usage")
      [] flag.name = "--help" -> Exits(cfg, "help")
      [] OTHER -> Exits(cfg, "usage")

(* The interval follows the journal's mode unless it was given.            *)
Parsed(line) ==
    LET cfg == FoldLeft(WithFlag, Defaults, line)
    IN IF cfg.explicit THEN cfg
       ELSE [cfg EXCEPT !.interval = IF cfg.restore THEN 21600 ELSE 1800]

config == Parsed(args)

-----------------------------------------------------------------------------

NoTable == [from |-> "nothing", current |-> TRUE]
NoProcess == [phase |-> "down", table |-> NoTable, complete |-> FALSE, block |-> 0, journals |-> FALSE]
NoFile == [present |-> FALSE]
NoJournal == [of |-> 0, from |-> 0, to |-> 0]

(* Another version's file, whole as that wrote it: no journal of ours goes *)
(* with it, and another layout of the cells has another magic or geometry. *)
ASSUME ForeignAssumption ==
    \A f \in ForeignFiles :
       /\ f = [present |-> TRUE, number |-> f.number, saved |-> f.saved, found |-> f.saved]
       /\ f.number \notin Nat
       /\ f.saved.magic = "RPST3" /\ f.saved.geometry
             => f.saved.table.current /\ (f.saved.flag = 1 <=> f.saved.table.from = "snapshot")

StartupInit ==
    /\ args = <<>> /\ process = NoProcess
    /\ disk \in [file : {NoFile} \cup ForeignFiles, journal : {NoJournal}]
    /\ latest = 1
    /\ started = [starts |-> 0, saves |-> 0]
    /\ accidents = 0

Accident == accidents < MaxAccidents /\ accidents' = accidents + 1

Phase(from, to) == process.phase = from /\ process' = [process EXCEPT !.phase = to]

(* die(), or the process is killed: what it had in memory is gone.         *)
Ends(phases) == process.phase \in phases /\ process' = NoProcess

Launch ==
    /\ process.phase = "down" /\ started.starts < MaxStarts
    /\ args' \in CommandLines
    /\ process' = [process EXCEPT !.phase = IF Parsed(args').exit = "no" THEN "feed" ELSE "down"]
    /\ started' = [started EXCEPT !.starts = @ + 1]
    /\ UNCHANGED <<disk, latest, accidents>>

(* One of the feed's endpoints has to be there and on this chain.          *)
FeedVerified ==
    /\ Phase("feed", "lock")
    /\ UNCHANGED <<args, disk, latest, started, accidents>>

RESERVED == {"journal", "tmp", "lock", "audit"}

(* acquire_state_path: a name that is the file's own sibling is refused.   *)
StatePathAcquired ==
    /\ config.state \notin RESERVED
    /\ Phase("lock", "urls")
    /\ UNCHANGED <<args, disk, latest, started, accidents>>

Distinct(urls) == Cardinality(ToSet(urls)) >= 2

RefreshUrlsValid ==
    /\ config.checks => Distinct(config.refresh)
    /\ Phase("urls", "table")
    /\ UNCHANGED <<args, disk, latest, started, accidents>>

FileThere == config.state # "none" /\ disk.file.present

(* What no start gets past; a feed, a lock or a port may fail any.         *)
Refuses ==
    \/ process.phase = "lock" /\ config.state \in RESERVED
    \/ process.phase = "urls" /\ config.checks /\ ~Distinct(config.refresh)
    \/ process.phase = "table" /\ ~FileThere
          /\ \/ ~config.snapshot /\ ~config.partial
             \/ config.snapshot /\ (config.snapshotBlock < 0 \/ ~Distinct(config.refresh))

-----------------------------------------------------------------------------
(* The state file, and what parse_raw makes of it: the parts in their      *)
(* order, and the digest of the whole at the end.                          *)

Table(from) == [from |-> from, current |-> TRUE]

Contents(isComplete, table, block) ==
    [magic |-> "RPST3", flag |-> IF isComplete THEN 1 ELSE 0, codec |-> TRUE, arity |-> 2,
     geometry |-> TRUE, length |-> 0, table |-> table, block |-> block]

Written(isComplete, table, block, number) ==
    [present |-> TRUE, number |-> number, saved |-> Contents(isComplete, table, block),
     found |-> Contents(isComplete, table, block)]

(* Mutant of Readable: the digest is not compared.                         *)
ReadableUndigested(file) ==
    LET f == file.found IN
    /\ f.magic = "RPST3" /\ f.flag \in {0, 1} /\ f.codec /\ f.arity = 2 /\ f.geometry /\ f.length = 0

(* geometry: the one this binary derives at the file's number of buckets;  *)
(* length: cells missing or bytes left over.                               *)
Readable(file) ==
    LET f == file.found IN
    /\ f.magic = "RPST3" /\ f.flag \in {0, 1}
    /\ f.codec /\ f.arity = 2 /\ f.geometry
    /\ f.length = 0
    /\ f = file.saved

JournalUsable == disk.journal.of = disk.file.number

Loaded(block, journals) ==
    [phase |-> "node", table |-> disk.file.found.table, complete |-> disk.file.found.flag = 1,
     block |-> block, journals |-> journals]

(* --journal-restore: the journal of this save is replayed to its end, and *)
(* goes on from there unless it cannot be opened for that.                 *)
LoadWithJournal ==
    /\ process.phase = "table" /\ FileThere /\ config.restore
    /\ Readable(disk.file)
    /\ \E adopted \in BOOLEAN :
          process' = IF JournalUsable THEN Loaded(disk.journal.to, adopted)
                     ELSE Loaded(disk.file.found.block, FALSE)
    /\ UNCHANGED <<args, disk, latest, started, accidents>>

(* --no-journal-restore: a journal that is ahead of the file is left as it *)
(* is, and nothing is appended to it.                                      *)
LoadBase ==
    /\ process.phase = "table" /\ FileThere /\ ~config.restore
    /\ Readable(disk.file)
    /\ \E adopted \in BOOLEAN :
          process' = Loaded(disk.file.found.block,
                            adopted /\ JournalUsable /\ disk.journal.to = disk.file.found.block)
    /\ UNCHANGED <<args, disk, latest, started, accidents>>

(* A start from a file that cannot be read ends, even if there would be a  *)
(* snapshot to start from.                                                 *)
LoadFails ==
    /\ process.phase = "table" /\ FileThere /\ ~Readable(disk.file)
    /\ process' = NoProcess
    /\ UNCHANGED <<args, disk, latest, started, accidents>>

(* A save, and the fresh journal behind it, which may fail on its own.     *)
Saved(p, rotated) ==
    /\ started' = [started EXCEPT !.saves = @ + 1]
    /\ disk' = [file |-> Written(p.complete, p.table, p.block, started.saves + 1),
                journal |-> IF rotated THEN [of |-> started.saves + 1, from |-> p.block, to |-> p.block]
                            ELSE disk.journal]
    /\ process' = [p EXCEPT !.journals = rotated]

IngestSnapshot ==
    /\ process.phase = "table" /\ ~FileThere /\ ~Refuses
    /\ config.snapshot
    /\ LET p == [phase |-> "node", table |-> Table("snapshot"), complete |-> TRUE,
                 block |-> config.snapshotBlock, journals |-> FALSE]
       IN \/ config.state # "none" /\ \E rotated \in BOOLEAN : Saved(p, rotated)
          \/ process' = p /\ UNCHANGED <<disk, started>>
    /\ UNCHANGED <<args, latest, accidents>>

StartEmpty ==
    /\ process.phase = "table" /\ ~FileThere /\ ~Refuses
    /\ ~config.snapshot /\ config.partial
    /\ process' = [phase |-> "node", table |-> Table("empty"), complete |-> FALSE,
                   block |-> latest, journals |-> FALSE]
    /\ UNCHANGED <<args, disk, latest, started, accidents>>

-----------------------------------------------------------------------------
(* The table is there: the PIR port, the follow loop, the JSON-RPC port.   *)

ServePir ==
    /\ Phase("node", "pir")
    /\ UNCHANGED <<args, disk, latest, started, accidents>>

(* The front's session is set up over HTTP from the node's own port, while *)
(* the follow loop already runs.                                           *)
ServeRpc ==
    /\ Phase("pir", "up")
    /\ UNCHANGED <<args, disk, latest, started, accidents>>

Follows == process.phase \in {"pir", "up"}

LatestRises ==
    /\ latest < MaxStartHead /\ latest' = latest + 1
    /\ UNCHANGED <<args, process, disk, started, accidents>>

FollowBlock ==
    /\ Follows /\ process.block < latest
    /\ process' = [process EXCEPT !.block = @ + 1]
    /\ disk' = IF process.journals THEN [disk EXCEPT !.journal.to = @ + 1] ELSE disk
    /\ UNCHANGED <<args, latest, started, accidents>>

AutosaveDue ==
    /\ Follows /\ config.state # "none" /\ config.interval > 0
    /\ disk.file.present => disk.file.found.block < process.block
    /\ \E rotated \in BOOLEAN : Saved(process, rotated)
    /\ UNCHANGED <<args, latest, accidents>>

(* The signal is waited for once all is up: a last save, or its failure.   *)
SignalSaves ==
    /\ process.phase = "up"
    /\ \/ config.state # "none" /\ \E rotated \in BOOLEAN : Saved([process EXCEPT !.phase = "exit"], rotated)
       \/ process' = [process EXCEPT !.phase = "exit"] /\ UNCHANGED <<disk, started>>
    /\ UNCHANGED <<args, latest, accidents>>

Exited ==
    /\ Ends({"exit"})
    /\ UNCHANGED <<args, disk, latest, started, accidents>>

RefusedStart ==
    /\ Refuses /\ process' = NoProcess
    /\ UNCHANGED <<args, disk, latest, started, accidents>>

(* A port in use, a directory that is missing, a kill.                     *)
ProcessEnds ==
    /\ Ends({"feed", "lock", "urls", "table", "node", "pir", "up"}) /\ Accident
    /\ UNCHANGED <<args, disk, latest, started>>

(* The file rots, is cut short or grows while nobody has it open.          *)
FileSpoilt ==
    /\ process.phase = "down" /\ disk.file.present /\ Accident
    /\ \E f \in {[disk.file.found EXCEPT !.flag = b] : b \in 0..2}
                \cup {[disk.file.found EXCEPT !.length = d] : d \in {-1, 1}}
                \cup {[disk.file.found EXCEPT !.block = @ + 1]} :
          disk' = [disk EXCEPT !.file.found = f]
    /\ UNCHANGED <<args, process, latest, started>>

(* The operator moves the file aside; the journal may stay.                *)
FileMovedAside ==
    /\ process.phase = "down" /\ disk.file.present
    /\ disk' = [disk EXCEPT !.file = NoFile]
    /\ UNCHANGED <<args, process, latest, started, accidents>>

StartupNext ==
    \/ Launch \/ FeedVerified \/ StatePathAcquired \/ RefreshUrlsValid \/ RefusedStart
    \/ LoadWithJournal \/ LoadBase \/ LoadFails \/ IngestSnapshot \/ StartEmpty
    \/ ServePir \/ ServeRpc \/ LatestRises \/ FollowBlock \/ AutosaveDue \/ SignalSaves \/ Exited
    \/ ProcessEnds \/ FileSpoilt \/ FileMovedAside

StartupSpec == StartupInit /\ [][StartupNext]_startupVars

-----------------------------------------------------------------------------

JournalModes == {"--journal-restore", "--no-journal-restore"}

(* The place of the last of the named flags, if there is any.              *)
LastOf(line, names) ==
    {i \in DOMAIN line : line[i].name \in names /\ \A j \in (i + 1) .. Len(line) : line[j].name \notin names}

(* A deployment that serves calls itself complete exactly if its balances  *)
(* came from a snapshot once, through any number of saves, restarts and    *)
(* command lines, and its cells are laid out as this binary reads them;    *)
(* the journal it appends to is that of the file on disk and ends at the   *)
(* deployment's own block, so that a replay has no hole; and it saves at   *)
(* the interval that was asked for, or else rarely only if the journal is  *)
(* used, in whatever order the flags came (mainnet.rs:599, main.rs:565).   *)
DeploymentIsAsSaid ==
    process.phase \in {"node", "pir", "up"} =>
       /\ process.complete <=> process.table.from = "snapshot"
       /\ process.table.current
       /\ process.journals => /\ disk.file.present /\ JournalUsable
                              /\ disk.journal.from = disk.file.saved.block
                              /\ disk.journal.to = process.block
       /\ \A i \in LastOf(args, {"--save-interval"}) : config.interval = args[i].value
       /\ LastOf(args, {"--save-interval"}) = {} =>
             config.interval = IF \E i \in LastOf(args, JournalModes) : args[i].name = "--no-journal-restore"
                               THEN 1800 ELSE 21600
       /\ config.state \notin RESERVED
=============================================================================
