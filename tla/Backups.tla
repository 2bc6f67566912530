-------------------------------- MODULE Backups --------------------------------
(***************************************************************************)
(* Making a backup of the router: one script there writes an archive to a   *)
(* fixed path, prints its length, dumps it in hexadecimal and removes it;   *)
(* what comes back is parsed.  A script goes on when the job that started   *)
(* it has given up, and another job's script may use the same path.         *)
(*                                                                         *)
(* An archive is a sequence of blocks, the lines of a dump, and a block is   *)
(* the configuration it was made of and its number.  Files are what paths   *)
(* and open descriptors lead to, as on the router.                          *)
(***************************************************************************)
EXTENDS Integers, Sequences

CONSTANTS
    Makers,         \* jobs that make a backup, one each
    MaxConfigs,     \* bound: configurations the router has one after another
    LastBlock       \* blocks of an archive

\* An archive is longer than a line of its dump: two of its blocks can be alike.
ASSUME BackupsAssumption == MaxConfigs \in Nat \ {0} /\ LastBlock \in Nat \ {0, 1}

VARIABLES
    repeats,        \* the last two blocks of every archive are the same
    routerConfig,   \* the router's configuration, as a number
    path,           \* the file the path leads to, or NoPath
    archive,        \* archive[f]: the blocks of file f; files are
                    \* named after the attempt that created them
    onRouter,       \* onRouter[j]: where j's script is on the router
    backup,         \* backup[j]: what became of the job
    disturbed       \* history: attempts whose script ran while another did

backupVars == <<repeats, routerConfig, path, archive, onRouter, backup, disturbed>>

NoPath == "none"
NoCount == -1
Block(config, i) == <<config, IF repeats /\ i = LastBlock THEN i - 1 ELSE i>>
Archive(config) == [i \in 1..LastBlock |-> Block(config, i)]

Unstarted == [at |-> "idle", file |-> NoPath, config |-> 0, offset |-> 0, count |-> NoCount, dump |-> <<>>]
Pending == [is |-> "pending", data |-> <<>>]

Working(j) == onRouter[j].at \notin {"idle", "ended", "failed"}

BackupsTypeOK ==
    /\ repeats \in BOOLEAN /\ routerConfig \in 1..MaxConfigs
    /\ path \in Makers \cup {NoPath} /\ disturbed \subseteq Makers
    /\ \A j \in Makers :
        /\ Len(archive[j]) <= LastBlock /\ Len(onRouter[j].dump) <= LastBlock
        /\ onRouter[j].at \in {"idle", "create", "write", "count", "open", "dump", "remove", "ended", "failed"}
        /\ backup[j].is \in {"pending", "succeeded", "failed"}

-----------------------------------------------------------------------------
(* The script, one system call after another.                              *)

StartBackup(j) ==
    /\ onRouter[j].at = "idle"
    /\ onRouter' = [onRouter EXCEPT ![j] = [Unstarted EXCEPT !.at = "create", !.config = routerConfig]]
    /\ disturbed' = disturbed \cup
          (IF \E k \in Makers : Working(k) THEN {j} \cup {k \in Makers : Working(k)} ELSE {})
    /\ UNCHANGED <<repeats, routerConfig, path, archive, backup>>

\* The archive's file is created, or emptied if it is there.
CreateArchive(j) ==
    LET file == IF path = NoPath THEN j ELSE path
    IN  /\ onRouter[j].at = "create"
        /\ path' = file
        /\ archive' = [archive EXCEPT ![file] = <<>>]
        /\ onRouter' = [onRouter EXCEPT ![j].at = "write", ![j].file = file]
        /\ UNCHANGED <<repeats, routerConfig, backup, disturbed>>

\* A block at the writer's own offset; what it skips is a hole of zeros.
Written(blocks, i, block) ==
    [k \in 1..(IF i > Len(blocks) THEN i ELSE Len(blocks)) |->
        IF k = i THEN block ELSE IF k \in DOMAIN blocks THEN blocks[k] ELSE <<0, 0>>]

WriteBlock(j) ==
    LET i == onRouter[j].offset + 1
    IN  /\ onRouter[j].at = "write"
        /\ archive' = [archive EXCEPT ![onRouter[j].file] = Written(@, i, Block(onRouter[j].config, i))]
        /\ onRouter' = [onRouter EXCEPT ![j].offset = i, ![j].at = IF i = LastBlock THEN "count" ELSE "write"]
        /\ UNCHANGED <<repeats, routerConfig, path, backup, disturbed>>

MutantAfterFailure == "count"
AfterFailure == "failed"

\* Creating or writing it fails, for want of space: the file stays as it is, or
\* is removed, and the script ends there, its steps being joined by &&.
ArchiveFails(j) ==
    /\ onRouter[j].at \in {"create", "write"}
    /\ onRouter' = [onRouter EXCEPT ![j].at = AfterFailure]
    /\ path' \in {path, NoPath}
    /\ UNCHANGED <<repeats, routerConfig, archive, backup, disturbed>>

\* wc, hexdump and rm go by the path.  Without a file echo prints no number, and
\* goes on; hexdump fails.
CountBytes(j) ==
    /\ onRouter[j].at = "count"
    /\ onRouter' = [onRouter EXCEPT ![j].at = "open",
                        ![j].count = IF path = NoPath THEN NoCount ELSE Len(archive[path])]
    /\ UNCHANGED <<repeats, routerConfig, path, archive, backup, disturbed>>

OpenDump(j) ==
    /\ onRouter[j].at = "open"
    /\ onRouter' = [onRouter EXCEPT ![j].at = IF path = NoPath THEN "failed" ELSE "dump",
                                    ![j].file = path, ![j].offset = 0]
    /\ UNCHANGED <<repeats, routerConfig, path, archive, backup, disturbed>>

\* A line that is like the one before is printed as a star, once.
DumpBlock(j) ==
    LET s == onRouter[j]
        i == s.offset + 1
        blocks == archive[s.file]
        same == i > 1 /\ blocks[i] = blocks[i - 1]
    IN  /\ s.at = "dump"
        /\ IF i \in DOMAIN blocks
             THEN onRouter' = [onRouter EXCEPT ![j].offset = i,
                                ![j].dump = IF same THEN @ ELSE Append(@, blocks[i])]
             ELSE onRouter' = [onRouter EXCEPT ![j].at = "remove"]
        /\ UNCHANGED <<repeats, routerConfig, path, archive, backup, disturbed>>

\* rm -f succeeds without a file too.  Who has the file open keeps it.
RemoveArchive(j) ==
    /\ onRouter[j].at = "remove"
    /\ path' = NoPath
    /\ onRouter' = [onRouter EXCEPT ![j].at = "ended"]
    /\ UNCHANGED <<repeats, routerConfig, archive, backup, disturbed>>

-----------------------------------------------------------------------------
(* The job.                                                                *)

\* build_backup: there must be a number, which is not compared with what came.
BackupOf(j) ==
    LET s == onRouter[j]
    IN  [is |-> IF s.at = "ended" /\ s.count # NoCount /\ s.dump # <<>> THEN "succeeded" ELSE "failed",
         data |-> s.dump]

Finish(j) ==
    /\ onRouter[j].at \in {"ended", "failed"} /\ backup[j] = Pending
    /\ backup' = [backup EXCEPT ![j] = BackupOf(j)]
    /\ UNCHANGED <<repeats, routerConfig, path, archive, onRouter, disturbed>>

\* The command takes too long or the connection is lost: the script runs on,
\* unless it misses the connection.
GiveUp(j) ==
    /\ Working(j) /\ backup[j] = Pending
    /\ backup' = [backup EXCEPT ![j] = [Pending EXCEPT !.is = "failed"]]
    /\ UNCHANGED <<repeats, routerConfig, path, archive, onRouter, disturbed>>

ScriptDies(j) ==
    /\ Working(j) /\ backup[j] # Pending
    /\ onRouter' = [onRouter EXCEPT ![j].at = "failed"]
    /\ UNCHANGED <<repeats, routerConfig, path, archive, backup, disturbed>>

\* The router is configured anew; a script works on what it found.
Reconfigure ==
    /\ routerConfig < MaxConfigs
    /\ routerConfig' = routerConfig + 1
    /\ UNCHANGED <<repeats, path, archive, onRouter, backup, disturbed>>

BackupsInit ==
    /\ repeats \in BOOLEAN
    /\ routerConfig = 1
    /\ path = NoPath /\ archive = [j \in Makers |-> <<>>]
    /\ onRouter = [j \in Makers |-> Unstarted]
    /\ backup = [j \in Makers |-> Pending]
    /\ disturbed = {}

BackupsNext ==
    \/ \E j \in Makers :
        \/ StartBackup(j) \/ CreateArchive(j) \/ WriteBlock(j) \/ ArchiveFails(j) \/ CountBytes(j)
        \/ OpenDump(j) \/ DumpBlock(j) \/ RemoveArchive(j) \/ Finish(j) \/ GiveUp(j)
        \/ ScriptDies(j)
    \/ Reconfigure

-----------------------------------------------------------------------------
(* Properties.                                                             *)

\* A backup that succeeded, and whose script ran alone, is the whole archive of
\* the configuration the router had when it began, whatever earlier attempts
\* left behind and however they ended, as long as no two lines of its dump are
\* alike: then the second is missing from the backup, which is offered all the
\* same.  A backup that others disturbed has something in it.
BackupsAreWhole ==
    \A j \in Makers : backup[j].is = "succeeded" =>
        LET whole == Archive(onRouter[j].config)
        IN  /\ backup[j].data # <<>>
            /\ j \notin disturbed =>
                /\ onRouter[j].count = LastBlock
                /\ backup[j].data = IF repeats THEN SubSeq(whole, 1, LastBlock - 1) ELSE whole
=============================================================================
