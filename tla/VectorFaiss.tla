------------------------------ MODULE VectorFaiss ------------------------------
(***************************************************************************)
(* FAISSVectorStore: one collection kept in a file with the vectors and a   *)
(* JSON file beside it with everything else, and in memory once it has been *)
(* loaded.                                                                  *)
(*                                                                         *)
(* A lock serialises the requests.  Each changes the copy in memory, writes *)
(* the index and then writes the JSON file in place, so a crash or a failed *)
(* write can come between the two files, or leave the second one torn.      *)
(* A vector is found by its position in the index, and the position is      *)
(* looked up in the order of ids the JSON file holds.                       *)
(***************************************************************************)
EXTENDS VectorDocuments, Sequences, SequencesExt, Lists

CONSTANTS
    MaxCuts         \* bound: writes cut short before the files are rebuilt

ASSUME VectorFaissAssumption == MaxCuts \in Nat

VARIABLES
    json,           \* the JSON file: the documents, and the order of their ids
    indexFile,      \* the index file: the vectors in their order
    cache,          \* _cached: what has been loaded
    work,           \* the data the request at work persists
    at,             \* at[c]: where c's request stands
    cuts            \* history: the writes cut short since the files were rebuilt

faissVars == <<json, indexFile, cache, work, at, cuts>>

\* A file is missing, torn or whole; data in memory are missing or whole.
File(is, docs, order) == [is |-> is, docs |-> docs, order |-> order]
IndexFile(is, vectors) == [is |-> is, vectors |-> vectors]
Data(docs, order, index) == [is |-> "whole", docs |-> docs, order |-> order, index |-> index]
NoData == [is |-> "missing", docs |-> Nothing, order |-> <<>>, index |-> <<>>]

\* A vector is known by the document and the version it was computed from.
Vectors(docs, order) == [k \in DOMAIN order |-> <<order[k], docs[order[k]].version>>]

FaissTypeOK ==
    /\ json.is \in {"missing", "torn", "whole"} /\ json.docs \in [Ids -> Documents]
    /\ indexFile.is \in {"missing", "torn", "whole"}
    /\ \A d \in {cache, work} :
          d.is \in {"missing", "whole"} /\ d.docs \in [Ids -> Documents]
    /\ at \in [Clients -> {"idle", "waiting", "index", "json"}]
    /\ cuts \in 0..MaxCuts

-----------------------------------------------------------------------------
(* One request, under the lock.                                            *)

FaissCall(c, r) ==
    /\ request[c] = Idle
    /\ request' = [request EXCEPT ![c] = r]
    /\ at' = [at EXCEPT ![c] = "waiting"]
    /\ UNCHANGED <<backend, outcome, json, indexFile, cache, work, cuts>>

LockFree == \A c \in Clients : at[c] \in {"idle", "waiting"}

FaissEnds(c, o) ==
    /\ request' = [request EXCEPT ![c] = Idle]
    /\ outcome' = o
    /\ at' = [at EXCEPT ![c] = "idle"]
    /\ work' = NoData
    /\ UNCHANGED backend

\* _load: neither a torn file nor a missing index can be read.
Unreadable ==
    /\ cache.is = "missing"
    /\ json.is = "torn" \/ (json.is = "whole" /\ indexFile.is # "whole")

Loaded ==
    IF cache.is = "whole" THEN cache
    ELSE IF json.is = "missing" THEN NoData
    ELSE Data(json.docs, json.order, indexFile.vectors)

FaissRefuses(r) ==
    \/ r.op = "create" <=> Loaded.is = "whole"
    \/ r.op = "add" /\ r.ids \cap Present(Loaded.docs) # {}
    \/ r.op = "set_metadata" /\ ~ r.ids \subseteq Present(Loaded.docs)

NothingToDelete(r) == r.op = "delete" /\ r.ids \cap Present(Loaded.docs) = {}

Kept(order, ids) == Among(order, Ids \ ids)

\* _rebuild_index
MutantRebuilt(docs, order) == [Loaded EXCEPT !.docs = docs, !.order = order]
Rebuilt(docs, order) == Data(docs, order, Vectors(docs, order))

\* What add appends, one document after the other, to the ids and the index.
Appended(new) ==
    LET docs == Added(Loaded.docs, Range(new))
    IN Data(docs, Loaded.order \o new, Loaded.index \o Vectors(docs, new))

\* The data after the request; new is the order its new documents come in.
Changed(r, new) ==
    LET docs == Loaded.docs IN
    CASE r.op = "create" -> Data(Nothing, <<>>, <<>>)
      [] r.op = "drop" -> NoData
      [] r.op = "add" -> Appended(new)
      [] r.op = "update" -> Rebuilt(Updated(docs, r.ids, docs), Loaded.order \o new)
      [] r.op = "delete" -> Rebuilt(Deleted(docs, r.ids), Kept(Loaded.order, r.ids))
      [] OTHER -> [Loaded EXCEPT !.docs = WithMetadata(docs, r.ids, docs)]

NewIds(r) ==
    IF r.op \in {"add", "update"} THEN SetToSeqs(r.ids \ Present(Loaded.docs)) ELSE {<<>>}

\* A collection that is created is not cached, one that is dropped no longer.
MutantCacheAfter(r, data) == IF r.op = "drop" THEN cache ELSE data
CacheAfter(r, data) == IF r.op \in {"create", "drop"} THEN NoData ELSE data

FaissWithinBound(r) == r.op = "update" => \A i \in r.ids : Loaded.docs[i].version < MaxVersion

\* The request's operation runs as far as its first write.
Begin(c) ==
    LET r == request[c] IN
    /\ at[c] = "waiting" /\ LockFree
    /\ UNCHANGED <<json, indexFile, cuts>>
    /\ \/ Unreadable /\ FaissEnds(c, "failed") /\ UNCHANGED cache
       \/ ~ Unreadable /\ FaissRefuses(r) /\ FaissEnds(c, "refused") /\ cache' = Loaded
       \/ /\ ~ Unreadable /\ ~ FaissRefuses(r) /\ NothingToDelete(r)
          /\ FaissEnds(c, "ok") /\ cache' = Loaded
       \/ /\ ~ Unreadable /\ ~ FaissRefuses(r) /\ ~ NothingToDelete(r) /\ FaissWithinBound(r)
          /\ \E new \in NewIds(r) : work' = Changed(r, new)
          /\ cache' = CacheAfter(r, work')
          /\ at' = [at EXCEPT ![c] = "index"]
          /\ UNCHANGED <<backend, request, outcome>>

\* _persist writes the index, or delete_collection unlinks it ...
WriteIndex(c) ==
    /\ at[c] = "index"
    /\ indexFile' = IndexFile(work.is, work.index)
    /\ at' = [at EXCEPT ![c] = "json"]
    /\ UNCHANGED <<backend, request, outcome, json, cache, work, cuts>>

\* ... and then the JSON file.  The two are in step again when the request
\* rebuilt the index, began a new one or removed both.
Heals(r) == r.op \in {"create", "drop", "update", "delete"}

WriteJson(c) ==
    /\ at[c] = "json"
    /\ json' = File(work.is, work.docs, work.order)
    /\ cuts' = IF Heals(request[c]) THEN 0 ELSE cuts
    /\ FaissEnds(c, "ok")
    /\ UNCHANGED <<indexFile, cache>>

-----------------------------------------------------------------------------
(* What can go wrong with the files.                                       *)

\* A file as a write leaves it that does not come to its end: as it was, or
\* cut off.  The unlinking of a file is not cut short.
CutShort(file, torn) == {file} \cup (IF work.is = "whole" THEN {torn} ELSE {})

Writing == \E c \in Clients : at[c] \in {"index", "json"}

FilesCutShort ==
    /\ indexFile' \in IF \E c \in Clients : at[c] = "index" THEN CutShort(indexFile, IndexFile("torn", <<>>)) ELSE {indexFile}
    /\ json' \in IF \E c \in Clients : at[c] = "json" THEN CutShort(json, File("torn", Nothing, <<>>)) ELSE {json}
    /\ cuts' = IF Writing THEN cuts + 1 ELSE cuts
    /\ cuts' <= MaxCuts

\* The disk refuses a write.  The data in memory stay as they are.
PersistFails(c) ==
    /\ at[c] \in {"index", "json"}
    /\ FilesCutShort
    /\ FaissEnds(c, "failed")
    /\ UNCHANGED cache

\* The process dies and starts again.
FaissRestart ==
    /\ FilesCutShort
    /\ request' = [c \in Clients |-> Idle]
    /\ at' = [c \in Clients |-> "idle"]
    /\ cache' = NoData /\ work' = NoData
    /\ UNCHANGED <<backend, outcome>>

-----------------------------------------------------------------------------

FaissInit ==
    /\ json = File("missing", Nothing, <<>>) /\ indexFile = IndexFile("missing", <<>>)
    /\ cache = NoData /\ work = NoData
    /\ at = [c \in Clients |-> "idle"]
    /\ cuts = 0

FaissNext ==
    /\ backend = "faiss"
    /\ \/ \E c \in Clients : Begin(c) \/ WriteIndex(c) \/ WriteJson(c) \/ PersistFails(c)
       \/ \E c \in Clients, r \in Requests : FaissCall(c, r)
       \/ FaissRestart
=============================================================================
