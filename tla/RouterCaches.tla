----------------------------- MODULE RouterCaches -----------------------------
(***************************************************************************)
(* What the backend remembers of the active router, beside the feed's last  *)
(* frame: the results of the router tools (RouterContextCache), the package *)
(* inventory and the list of available packages (RouterManagementService).  *)
(*                                                                         *)
(* The three work alike: a reader that finds nothing fresh asks the router, *)
(* or for the tools the feed, and stores what it got, in a thread, while    *)
(* handlers change the connection and jobs change the packages.  No lock is *)
(* held from the look to the store.                                        *)
(*                                                                         *)
(* The feed is taken at its word here: what it retains is a frame of the    *)
(* active router (module SnapshotFeed has the cases in which it is not).    *)
(* Time is left out: an entry may reach its time to live at any moment.     *)
(* Nothing ties one cache to another but the handler that clears them, so a *)
(* behaviour follows one of them.                                           *)
(***************************************************************************)
EXTENDS Integers, FiniteSets

CONSTANTS
    Routers,        \* routers a connection can be saved for
    Readers,        \* requests that read a cache
    MaxSwitches,    \* bound: changes of the active connection
    MaxPackageJobs  \* bound: package jobs

ASSUME RouterCachesAssumption == {MaxSwitches, MaxPackageJobs} \subseteq Nat

VARIABLES
    cache,          \* the cache that is followed
    active,         \* the active connection's router, or NoRouter
    framed,         \* the feed retains a frame of it
    content,        \* content[r]: the version of what r would answer
    entry,          \* what the cache holds
    reader,         \* reader[t]: what t does, and what it has got
    packageJob,     \* the package job at work
    uncleared,      \* caches the handler of a change of connection has yet to clear
    switches, packageJobs

cacheVars == <<cache, active, framed, content, entry, reader, packageJob, uncleared,
               switches, packageJobs>>

Caches == {"tools", "packages", "lists"}
Managed == {"packages", "lists"}
NoRouter == "none"
Versions == 0..MaxPackageJobs

\* What was read: of which router, in which version; a tool that finds no
\* frame, and a parser of an answer that never came, return nothing, which is
\* a result as good as any other.
Read(r, v) == [of |-> r, version |-> v]
Blank == Read(NoRouter, 0)

\* `late` (history): what is stored was read before something changed.
Entry(read, late) == [is |-> "entry", read |-> read, fresh |-> TRUE, late |-> late]
Empty == [is |-> "empty", read |-> Blank, fresh |-> FALSE, late |-> FALSE]

IdleReader == [at |-> "idle", read |-> Blank, late |-> FALSE]
NoPackageJob == [at |-> "idle", of |-> NoRouter]

Reads == {Blank} \cup [of : Routers, version : Versions]

CachesTypeOK ==
    /\ cache \in Caches
    /\ active \in Routers \cup {NoRouter} /\ framed \in BOOLEAN
    /\ content \in [Routers -> Versions]
    /\ entry \in {Empty} \cup [is : {"entry"}, read : Reads, fresh : BOOLEAN, late : BOOLEAN]
    /\ reader \in [Readers -> [at : {"idle", "asks", "stores"}, read : Reads, late : BOOLEAN]]
    /\ packageJob \in [at : {"idle", "asks", "runs", "clears"}, of : Routers \cup {NoRouter}]
    /\ uncleared \subseteq Caches
    /\ switches \in 0..MaxSwitches /\ packageJobs \in Versions

-----------------------------------------------------------------------------
(* Readers.                                                                *)

\* A reader finds an entry that has not expired and is done, or goes and asks:
\* always, for the inventory, when the caller wants it anew.  An expired entry
\* is as good as none.
LookUp(t) ==
    /\ reader[t] = IdleReader
    /\ ~ entry.fresh \/ cache = "packages"
    /\ reader' = [reader EXCEPT ![t].at = "asks"]
    /\ UNCHANGED <<cache, active, framed, content, entry, packageJob, uncleared, switches,
                   packageJobs>>

\* What the reader gets.  A command that fails leaves empty text to parse.
Obtainable ==
    IF cache = "tools" THEN {IF framed THEN Read(active, 0) ELSE Blank}
    ELSE IF active = NoRouter THEN {}
    ELSE {Read(active, content[active]), Blank}

Ask(t) ==
    /\ reader[t].at = "asks"
    /\ \/ \E read \in Obtainable :
             reader' = [reader EXCEPT ![t] = [at |-> "stores", read |-> read, late |-> FALSE]]
       \/ cache # "tools" /\ reader' = [reader EXCEPT ![t] = IdleReader]
    /\ UNCHANGED <<cache, active, framed, content, entry, packageJob, uncleared, switches,
                   packageJobs>>

\* Nothing is kept of an empty list of packages: it is asked for again.
Worthless(read) == cache = "lists" /\ read = Blank

Stored(t) ==
    IF Worthless(reader[t].read) THEN Empty ELSE Entry(reader[t].read, reader[t].late)

Store(t) ==
    /\ reader[t].at = "stores"
    /\ entry' = Stored(t)
    /\ reader' = [reader EXCEPT ![t] = IdleReader]
    /\ UNCHANGED <<cache, active, framed, content, packageJob, uncleared, switches, packageJobs>>

Expire ==
    /\ entry.fresh
    /\ entry' = [entry EXCEPT !.fresh = FALSE]
    /\ UNCHANGED <<cache, active, framed, content, reader, packageJob, uncleared, switches,
                   packageJobs>>

-----------------------------------------------------------------------------
(* Changes of the connection: save and delete_connection.                  *)

\* What readers have got is out of date.
Overtaken ==
    [t \in Readers |->
        IF reader[t].at = "stores" THEN [reader[t] EXCEPT !.late = TRUE] ELSE reader[t]]

Repoint(r) ==
    /\ uncleared = {} /\ switches < MaxSwitches
    /\ active' = r
    /\ framed' = FALSE
    /\ uncleared' = Caches
    /\ reader' = Overtaken
    /\ switches' = switches + 1
    /\ UNCHANGED <<cache, content, entry, packageJob, packageJobs>>

Invalidated == Managed

\* RouterManager.invalidate, and after it invalidate_caches.
Clear ==
    LET cs == IF "tools" \in uncleared THEN {"tools"} ELSE Invalidated IN
    /\ uncleared # {}
    /\ entry' = IF cache \in cs THEN Empty ELSE entry
    /\ uncleared' = IF "tools" \in uncleared THEN Managed ELSE {}
    /\ UNCHANGED <<cache, active, framed, content, reader, packageJob, switches, packageJobs>>

FrameArrives ==
    /\ active # NoRouter
    /\ framed' = TRUE
    /\ UNCHANGED <<cache, active, content, entry, reader, packageJob, uncleared, switches,
                   packageJobs>>

-----------------------------------------------------------------------------
(* Package jobs: _pkg_mutate, and update_feeds, which changes the lists.    *)

BeginPackageJob ==
    /\ cache \in Managed
    /\ packageJob.at = "idle" /\ packageJobs < MaxPackageJobs /\ active # NoRouter
    /\ packageJob' = [at |-> "asks", of |-> NoRouter]
    /\ packageJobs' = packageJobs + 1
    /\ UNCHANGED <<cache, active, framed, content, entry, reader, uncleared, switches>>

\* Every command opens a session of its own, to the router active by then.
OpenPackageJob ==
    /\ packageJob.at = "asks"
    /\ packageJob' = IF active = NoRouter THEN NoPackageJob
                     ELSE [at |-> "runs", of |-> active]
    /\ UNCHANGED <<cache, active, framed, content, entry, reader, uncleared, switches,
                   packageJobs>>

\* The command takes effect or not, and its answer comes or not.
Clears(ok) == ok \/ cache = "lists"

RunPackageJob(effect, ok) ==
    /\ packageJob.at = "runs"
    /\ content' = IF effect THEN [content EXCEPT ![packageJob.of] = @ + 1] ELSE content
    /\ reader' = IF effect THEN Overtaken ELSE reader
    /\ entry' = IF effect /\ ~ ok THEN [entry EXCEPT !.late = (entry # Empty)] ELSE entry
    /\ packageJob' = IF Clears(ok) THEN [packageJob EXCEPT !.at = "clears"] ELSE NoPackageJob
    /\ UNCHANGED <<cache, active, framed, uncleared, switches, packageJobs>>

ClearAfterPackageJob ==
    /\ packageJob.at = "clears"
    /\ entry' = Empty
    /\ packageJob' = NoPackageJob
    /\ UNCHANGED <<cache, active, framed, content, reader, uncleared, switches, packageJobs>>

-----------------------------------------------------------------------------

CachesInit ==
    /\ cache \in Caches
    /\ active \in Routers \cup {NoRouter}
    /\ framed = FALSE
    /\ content = [r \in Routers |-> 0]
    /\ entry = Empty
    /\ reader = [t \in Readers |-> IdleReader]
    /\ packageJob = NoPackageJob
    /\ uncleared = {}
    /\ switches = 0 /\ packageJobs = 0

CachesNext ==
    \/ \E t \in Readers : LookUp(t) \/ Ask(t) \/ Store(t)
    \/ \E r \in Routers \cup {NoRouter} : Repoint(r)
    \/ Expire \/ Clear \/ FrameArrives
    \/ BeginPackageJob \/ OpenPackageJob \/ ClearAfterPackageJob
    \/ \E effect, ok \in BOOLEAN : RunPackageJob(effect, ok)

-----------------------------------------------------------------------------
(* Properties.                                                             *)

\* What a caller would be told is what the active router would answer.
Current ==
    \/ entry.read = Blank
    \/ /\ entry.read.of = active
       /\ cache = "tools" \/ entry.read.version = content[active]

\* A cache never answers for another router, or with packages as they were
\* before a job changed them (invalidate_caches: "these cached bytes would
\* otherwise describe the previous device"; _pkg_mutate: "bust the inventory
\* cache on success"), but for the moment before the handler or the job clears
\* it, for a job whose answer was lost, and for what a reader had read before
\* the change and stored after it.
CachesAreCurrent ==
    (entry.fresh /\ ~ entry.late) =>
        Current \/ cache \in uncleared \/ packageJob.at = "clears"
=============================================================================
