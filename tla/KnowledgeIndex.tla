---------------------------- MODULE KnowledgeIndex ----------------------------
(***************************************************************************)
(* The incremental index of the knowledge platform: runs of                 *)
(* KnowledgeManager.index_collection over the files of a directory, and the *)
(* state FileSystemKnowledgeIndexer keeps in memory and in a JSON file that *)
(* it writes anew, in place, after every change.                            *)
(*                                                                         *)
(* Runs are coroutines: each reads a file in a thread and does the rest on  *)
(* the event loop, up to the next read.  Files change at any time, also     *)
(* while a run lists or reads them.  One collection of one source is        *)
(* modelled; of a document its content is kept (two texts with one checksum *)
(* are one content), and chunks and the list of versions are left out.      *)
(***************************************************************************)
EXTENDS Integers, Sequences, FiniteSets, SequencesExt

CONSTANTS
    Refs,       \* references, numbered as list_documents sorts them
    Contents,   \* what a file may hold
    Runs        \* runs that may be under way together

ASSUME KnowledgeIndexAssumption == Refs \subseteq Nat /\ IsFiniteSet(Refs)

VARIABLES
    file,       \* file[r]: the content of r, or None
    up,         \* the process runs
    index,      \* index[r]: the content of the document stored for r, or None
    disk,       \* the state file
    run,        \* run[u]: what u has yet to read, has seen and has just read
    calm        \* history: complete runs in a row, up to two, since a file
                \* changed, that had the index to themselves

knowledgeVars == <<file, up, index, disk, run, calm>>

None == "none"
NoDocuments == [r \in Refs |-> None]
Indexes == [Refs -> Contents \cup {None}]

Whole(documents) == [is |-> "whole", documents |-> documents]
Torn == [is |-> "torn", documents |-> NoDocuments]

NoRun == [on |-> FALSE, todo |-> {}, seen |-> {}, read |-> None, alone |-> FALSE]

KnowledgeTypeOK ==
    /\ file \in Indexes /\ index \in Indexes
    /\ up \in BOOLEAN
    /\ disk \in [is : {"whole"}, documents : Indexes] \cup {Torn}
    /\ run \in [Runs -> [on : BOOLEAN, todo : SUBSET Refs, seen : SUBSET Refs,
                         read : Contents \cup {None}, alone : BOOLEAN]]
    /\ calm \in 0..2

-----------------------------------------------------------------------------
(* What a run does to the index.                                           *)

NextRef(u) == CHOOSE r \in run[u].todo : \A q \in run[u].todo : r <= q

\* A document that is new, with a content that some document of the index has,
\* is a duplicate and is not stored.
Ingested(r, content) ==
    IF index[r] = None /\ \E q \in Refs : index[q] = content THEN index
    ELSE [index EXCEPT ![r] = content]

\* Documents the run has not seen are removed when it has read its last one.
Unseen(documents, seen) == {r \in Refs : documents[r] # None /\ r \notin seen}

\* The index after each change, which is when it is written.
Saves(documents, order) ==
    (IF documents = index THEN <<>> ELSE <<documents>>) \o
    [i \in 1..Len(order) |->
        [r \in Refs |-> IF \E h \in 1..i : order[h] = r THEN None ELSE documents[r]]]

MutantOnDisk(saves) == Whole(Head(saves))
OnDisk(saves) == Whole(Last(saves))

Alone(after, u) ==
    [v \in Runs |-> IF after[v].on /\ after[u].on /\ v # u
                    THEN [after[v] EXCEPT !.alone = FALSE] ELSE after[v]]

Dies == up' = FALSE /\ index' = NoDocuments /\ run' = [u \in Runs |-> NoRun] /\ calm' = 0

\* All that is to be saved is; or a write fails, or the process dies, halfway.
Persist(u, saves, after) ==
    \/ /\ index' = IF saves = <<>> THEN index ELSE Last(saves)
       /\ disk' = IF saves = <<>> THEN disk ELSE OnDisk(saves)
       /\ run' = [run EXCEPT ![u] = after]
       /\ calm' = IF after.on THEN calm
                  ELSE IF ~ run[u].alone THEN 0
                  ELSE IF calm = 2 THEN 2 ELSE calm + 1
       /\ UNCHANGED up
    \/ /\ \E k \in 1..Len(saves) : index' = saves[k]
       /\ disk' = Torn
       /\ run' = [run EXCEPT ![u] = NoRun]
       /\ calm' = 0
       /\ UNCHANGED up
    \/ /\ saves # <<>>
       /\ Dies
       /\ disk' \in {Torn} \cup {Whole(saves[k]) : k \in 1..Len(saves)}

-----------------------------------------------------------------------------
(* Steps of a run.                                                         *)

\* The references are listed; if there are none, the rest follows at once.
StartRun(u) ==
    LET refs == {r \in Refs : file[r] # None}
        alone == \A v \in Runs : ~ run[v].on
        started == [on |-> TRUE, todo |-> refs, seen |-> {}, read |-> None, alone |-> alone]
    IN
    /\ up /\ ~ run[u].on /\ refs # {}
    /\ run' = Alone([run EXCEPT ![u] = started], u)
    /\ UNCHANGED <<file, up, index, disk, calm>>

RunOverNothing(u) ==
    /\ up /\ ~ run[u].on
    /\ file = NoDocuments
    /\ \E order \in SetToSeqs(Unseen(index, {})) : Persist(u, Saves(index, order), NoRun)
    /\ UNCHANGED file

\* The thread reads the file, or fails and ends the run.
Load(u) ==
    /\ run[u].on /\ run[u].read = None
    /\ \/ /\ file[NextRef(u)] # None
          /\ run' = [run EXCEPT ![u].read = file[NextRef(u)]]
          /\ UNCHANGED calm
       \/ run' = [run EXCEPT ![u] = NoRun] /\ calm' = 0
    /\ UNCHANGED <<file, up, index, disk>>

Ingest(u) ==
    LET r == NextRef(u)
        todo == run[u].todo \ {r}
        seen == run[u].seen \cup {r}
        documents == Ingested(r, run[u].read)
        gone == IF todo = {} THEN Unseen(documents, seen) ELSE {}
        after == IF todo = {} THEN NoRun
                 ELSE [run[u] EXCEPT !.todo = todo, !.seen = seen, !.read = None]
    IN
    /\ run[u].on /\ run[u].read # None
    /\ \E order \in SetToSeqs(gone) : Persist(u, Saves(documents, order), after)
    /\ UNCHANGED file

-----------------------------------------------------------------------------
(* The world.                                                              *)

FileChanges(r, content) ==
    /\ file[r] # content
    /\ file' = [file EXCEPT ![r] = content]
    /\ run' = [u \in Runs |-> [run[u] EXCEPT !.alone = FALSE]]
    /\ calm' = 0
    /\ UNCHANGED <<up, index, disk>>

Killed == up /\ Dies /\ UNCHANGED <<file, disk>>

\* A file that is not whole makes the constructor raise, now and for ever.
Restart ==
    /\ ~ up /\ disk.is = "whole"
    /\ up' = TRUE
    /\ index' = disk.documents
    /\ UNCHANGED <<file, disk, run, calm>>

KnowledgeInit ==
    /\ file \in Indexes
    /\ up = TRUE
    /\ index = NoDocuments
    /\ disk = Whole(NoDocuments)
    /\ run = [u \in Runs |-> NoRun]
    /\ calm = 0

KnowledgeNext ==
    \/ \E u \in Runs : StartRun(u) \/ RunOverNothing(u) \/ Load(u) \/ Ingest(u)
    \/ \E r \in Refs, content \in Contents \cup {None} : FileChanges(r, content)
    \/ Killed \/ Restart

-----------------------------------------------------------------------------
(* Properties.                                                             *)

\* Two complete runs in a row over files that stay as they are leave in the
\* index every content some file has and no other, each under a file that has
\* it, whatever was there before.  One run is not enough: the content of a file
\* that was renamed is a duplicate of the old document, which the same run then
\* removes (ingest, reconcile).
StillRunsConverge ==
    calm = 2 =>
        /\ \A r \in Refs : index[r] \in {None, file[r]}
        /\ \A r \in Refs : file[r] # None => \E q \in Refs : index[q] = file[r]

\* Unless it was left torn by a write that failed or was cut short, the state
\* file is what memory holds: a restart finds the index as it was
\* (FileSystemKnowledgeIndexer: "enabling true incremental indexing across
\* process runs").
RestartFindsIndex == (up /\ disk.is = "whole") => disk.documents = index

\* The two together, over files that change and runs that overlap, fail and are
\* killed: incremental indexing follows the files and a restart changes nothing.
IndexFollowsFiles == StillRunsConverge /\ RestartFindsIndex
=============================================================================
