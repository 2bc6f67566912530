----------------------------- MODULE VectorStores -----------------------------
(***************************************************************************)
(* The four vector stores, one of which an installation uses, and what they *)
(* keep of the contract they share.                                         *)
(***************************************************************************)
EXTENDS VectorShared, VectorFaiss, VectorSearch, FiniteSets

vars == <<backend, request, outcome, sharedVars, faissVars>>

Init ==
    /\ backend \in Backends
    /\ request = [c \in Clients |-> Idle]
    /\ outcome = "ok"
    /\ SharedInit /\ FaissInit

Next ==
    \/ SharedNext /\ UNCHANGED faissVars
    \/ FaissNext /\ UNCHANGED sharedVars

Spec == Init /\ [][Next]_vars

\* Nothing tells one client from another.
Symmetry == Permutations(Clients)

TypeOK ==
    /\ backend \in Backends
    /\ request \in [Clients -> Requests \cup {Idle}]
    /\ outcome \in Outcomes
    /\ SharedTypeOK
    /\ FaissTypeOK

\* Documents of a collection that is not there: SQLite keeps the two in
\* tables of their own, with nothing that ties them to each other.
Orphans == ~ there /\ docs # Nothing

Contract == INSTANCE VectorStore WITH
    exists <- IF backend = "faiss" THEN json.is = "whole" ELSE there,
    content <- IF backend = "faiss" THEN json.docs ELSE IF there THEN docs ELSE Nothing,
    void <- IF backend = "faiss" THEN cuts > 0 ELSE raced \/ Orphans

\* Every store does what the protocol's docstrings say of create_collection,
\* delete_collection, add_documents, update_documents, delete_documents and
\* set_metadata, as if requests came one at a time: FAISS as long as no write
\* of its files is cut short, and again once they are rebuilt; SQLite, Qdrant
\* and Chroma but for a write whose request read, in a statement or HTTP
\* request before, something another request has changed since.
KeepsContract == Contract!Spec

\* What a search and a filter answer between the requests that write: the
\* documents there are, each once and with the score of its own vector, nearest
\* first; and without a filter the scores SQLite, "the behavioral reference for
\* all other backends" (backends/sqlite.py), gives.  FAISS gets there by way of
\* positions in an index and a list of ids kept in two files.
SearchFindsDocuments ==
    \A r \in SearchRequests :
        /\ (backend = "faiss" /\ LockFree /\ cuts = 0) =>
              /\ ~ Unreadable
              /\ Answers(json.docs, r, FaissSearch(Loaded.docs, Loaded.order, Loaded.index, r))
              /\ Lists(json.docs, r, Listed(Loaded.docs, Loaded.order, r))
        /\ (backend # "faiss" /\ \A c \in Clients : request[c] = Idle) =>
              \A order \in SetToSeqs(Present(docs)) :
                  /\ Answers(docs, r, CASE backend = "sqlite" -> SqliteSearch(docs, order, r)
                                       [] backend = "qdrant" -> QdrantSearch(docs, order, r)
                                       [] OTHER -> ChromaSearch(docs, order, r))
                  /\ Lists(docs, r, Listed(docs, order, r))

\* The copy in memory is what the files hold, from one request to the next:
\* a restart changes nothing a caller sees (_cached, _persist).
RestartChangesNothing ==
    (LockFree /\ cuts = 0 /\ cache.is = "whole") =>
        /\ json = File("whole", cache.docs, cache.order)
        /\ indexFile = IndexFile("whole", cache.index)
=============================================================================
