--------------------------- MODULE VectorDocuments ---------------------------
(***************************************************************************)
(* What the vector stores keep and what is asked of them, for one           *)
(* collection of one namespace: versioned documents, and the requests of    *)
(* vectorstore.protocols.VectorStore that write.                            *)
(*                                                                         *)
(* Of a document the version and the metadata are kept: the metadata are    *)
(* the writer's own ("plain") until set_metadata replaces them ("set").     *)
(* Vectors have the dimension of the collection, and no batch is empty or   *)
(* repeats an id.                                                           *)
(*                                                                         *)
(* An operator named Mutant... is the next one with a mistake in it.  No    *)
(* specification uses it: it stands there to show that a property notices.  *)
(***************************************************************************)
EXTENDS Integers, FiniteSets

CONSTANTS
    Clients,        \* callers of the store, tasks of one process
    Ids,            \* document ids
    MaxVersion      \* bound: no update goes beyond this version

ASSUME VectorAssumption == MaxVersion \in Nat \ {0} /\ IsFiniteSet(Ids)

VARIABLES
    backend,    \* the store in use, of the four of vectorstore.factory
    request,    \* request[c]: the request c waits for, or Idle
    outcome     \* how the last request that ended did: see Outcomes

Backends == {"sqlite", "qdrant", "chroma", "faiss"}

\* A request succeeds, or is refused by the errors of the protocol (the
\* collection or document exists, or does not), or fails by another one.
Outcomes == {"ok", "refused", "failed"}

Absent == [version |-> 0, metadata |-> "none"]
Plain(v) == [version |-> v, metadata |-> "plain"]
Nothing == [i \in Ids |-> Absent]
Present(docs) == {i \in Ids : docs[i] # Absent}
Documents == {Absent} \cup [version : 1..MaxVersion, metadata : {"plain", "set"}]

Idle == [op |-> "idle", ids |-> {}]
Requests ==
    [op : {"create", "drop"}, ids : {{}}]
    \cup [op : {"add", "update", "delete"}, ids : (SUBSET Ids) \ {{}}]
    \cup [op : {"set_metadata"}, ids : {{i} : i \in Ids}]

\* The documents after each kind of write.
Added(docs, ids) == [i \in Ids |-> IF i \in ids THEN Plain(1) ELSE docs[i]]
Updated(docs, ids, seen) ==
    [i \in Ids |-> IF i \in ids THEN Plain(seen[i].version + 1) ELSE docs[i]]
MutantDeleted(docs, ids) == [i \in Ids |-> IF i \in ids THEN Plain(0) ELSE docs[i]]
Deleted(docs, ids) == [i \in Ids |-> IF i \in ids THEN Absent ELSE docs[i]]
WithMetadata(docs, ids, seen) ==
    [i \in Ids |-> IF i \in ids THEN [seen[i] EXCEPT !.metadata = "set"] ELSE docs[i]]
=============================================================================
