---------------------------- MODULE VectorSearch ----------------------------
(***************************************************************************)
(* The requests of the vector stores that only read: search and             *)
(* filter_documents.                                                        *)
(*                                                                         *)
(* A query's vector is that of one version of one document, which it is     *)
(* near to, and no other: a score is 1 or 0.  SQLite filters all documents  *)
(* before it cuts the list to top_k; the others fetch a pool of the nearest *)
(* ones, as large as the page needs, and filter it.                         *)
(***************************************************************************)
EXTENDS VectorDocuments, Sequences, SequencesExt, FiniteSets, Lists

\* A limit of 0 stands for None.
SearchRequests ==
    [vector : Ids \X (1..MaxVersion), top_k : 1..2, filter : {"any", "set"},
     offset : 0..1, limit : 0..1]

\* The metadata filters of a request, as one: "any" document, or those whose
\* metadata have been "set".
Matches(doc, filter) == filter = "any" \/ doc.metadata = filter

Hit(i, score) == [id |-> i, score |-> score]

WithScore(hits, score) == Among(hits, {h \in Range(hits) : h.score = score})
NearestFirst(hits) == WithScore(hits, 1) \o WithScore(hits, 0)

Upto(hits, n) == SubSeq(hits, 1, IF n < Len(hits) THEN n ELSE Len(hits))

Page(hits, offset, limit) ==
    LET rest == SubSeq(hits, offset + 1, Len(hits))
    IN IF limit = 0 THEN rest ELSE Upto(rest, limit)

\* The documents `order` lists, each with the score of its vector.
Scored(docs, order, vector) ==
    [k \in DOMAIN order |->
        Hit(order[k], IF <<order[k], docs[order[k]].version>> = vector THEN 1 ELSE 0)]

Filtered(docs, hits, filter) == Among(hits, {h \in Range(hits) : Matches(docs[h.id], filter)})

SqliteSearch(docs, order, r) ==
    LET all == Scored(docs, order, r.vector)
    IN Page(Upto(NearestFirst(Filtered(docs, all, r.filter)), r.top_k), r.offset, r.limit)

Pool(r) == IF r.top_k < r.offset + r.limit THEN r.offset + r.limit ELSE r.top_k

QdrantSearch(docs, order, r) ==
    LET nearest == Upto(NearestFirst(Scored(docs, order, r.vector)), Pool(r))
    IN Page(NearestFirst(Filtered(docs, nearest, r.filter)), r.offset, r.limit)

ChromaSearch(docs, order, r) == QdrantSearch(docs, order, r)

\* FAISS scores the vectors of its index, and finds the document of a position
\* in its list of ids.
FaissSearch(docs, order, index, r) ==
    LET scored == [k \in DOMAIN index |-> Hit(k, IF index[k] = r.vector THEN 1 ELSE 0)]
        nearest == Among(Upto(NearestFirst(scored), Pool(r)), [id : DOMAIN order, score : 0..1])
        named == [k \in DOMAIN nearest |-> Hit(order[nearest[k].id], nearest[k].score)]
    IN Page(Filtered(docs, named, r.filter), r.offset, r.limit)

\* filter_documents: everything that matches, in the store's order.
Listed(docs, order, r) ==
    Page(Among(order, {i \in Ids : Matches(docs[i], r.filter)}), r.offset, r.limit)

-----------------------------------------------------------------------------
(* What a search may answer over `docs`, whatever order they are kept in.  *)

Scores(hits) == [k \in DOMAIN hits |-> hits[k].score]

Answers(docs, r, hits) ==
    LET order == SetToSeq(Present(docs))
        all == SqliteSearch(docs, order,
                   [r EXCEPT !.top_k = Len(order), !.offset = 0, !.limit = 0])
    IN /\ Range(hits) \subseteq Range(all)
       /\ Cardinality(Range(hits)) = Len(hits)
       /\ hits = NearestFirst(hits)
       /\ (r.filter = "any" /\ r.offset + r.limit <= r.top_k) =>
              Scores(hits) = Scores(SqliteSearch(docs, order, r))

Lists(docs, r, ids) ==
    LET all == {i \in Present(docs) : Matches(docs[i], r.filter)} IN
    /\ Range(ids) \subseteq all /\ Cardinality(Range(ids)) = Len(ids)
    /\ (r.offset = 0 /\ r.limit = 0) => Range(ids) = all
=============================================================================
