-------------------------------- MODULE Prompts --------------------------------
(***************************************************************************)
(* From a question to the prompt the provider is sent: the best chunks of   *)
(* the collection, found or still in the retrieval cache, are reranked,     *)
(* grouped by document, capped and cited; the conversation's history is     *)
(* added; and what is too long for the budget is cut down.  Requests share  *)
(* the cache, which lives for a while and is not told when the collection   *)
(* changes.                                                                *)
(*                                                                         *)
(* A chunk is its number; Document, Content and Size say what it is of.     *)
(* Lengths are in tokens.  One question is asked, in conversations with     *)
(* different histories.                                                    *)
(***************************************************************************)
EXTENDS Integers, Sequences, SequencesExt, Lists

CONSTANTS
    TopK,           \* chunks to retrieve
    MaxDocuments,   \* documents of a context
    MaxPerDocument, \* chunks of each
    MaxPrompt,      \* tokens of a prompt
    MaxPrompts      \* bound: prompts built

ASSUME PromptsAssumption == {TopK, MaxDocuments, MaxPerDocument, MaxPrompt, MaxPrompts} \subseteq Nat \ {0}

VARIABLES
    question,       \* how long the question is
    indexed,        \* the chunks the collection has
    retrieved,      \* the retrieval cache's entry for the question, or NoEntry
    since,          \* history: chunks the collection had since that entry was made
    prompt,         \* the last prompt, or NoPrompt if something else came after it
    prompts         \* prompts built so far

promptVars == <<question, indexed, retrieved, since, prompt, prompts>>

ChunkIds == 1..5
Document == <<1, 1, 1, 2, 3>>
Content == <<1, 2, 3, 1, 4>>    \* the first chunk is in two documents
Size == <<1, 2, 1, 1, 2>>

System == 1
CiteThem == 1
HistoryBudget == 3
Histories == {<<>>, <<1, 2, 1>>}

NoEntry == <<0>>
NoPrompt == [failed |-> FALSE, chunks |-> <<>>, cited |-> <<>>, citations |-> <<>>, history |-> <<>>,
             of |-> [chunks |-> <<>>, history |-> <<>>]]

Sizes(chunks) == [i \in DOMAIN chunks |-> Size[chunks[i]]]
AtMost(s, n) == SubSeq(s, 1, IF Len(s) < n THEN Len(s) ELSE n)

-----------------------------------------------------------------------------
(* Retrieval.                                                              *)

\* The first of several chunks that say the same.
DeduplicatedByText(hits) == Firsts(hits, Content)

\* What the store finds: its best TopK, of which those below the threshold are
\* dropped.  Scores are relative to the best, which is never dropped.
Found(hits) ==
    LET deduped == DeduplicatedByText(AtMost(hits, TopK))
    IN  {SubSeq(deduped, 1, n) : n \in {m \in 0..Len(deduped) : m > 0 \/ deduped = <<>>}}

\* A reranker's own order, or that of the store without one or when it fails.
\* (It may leave chunks out.)
Reranked(chunks) ==
    {chunks, Reverse(chunks)} \cup (IF Len(chunks) > 1 THEN {Tail(chunks)} ELSE {})

Rankings(chunks) == SetToSeqs(chunks)
Retrievals(chunks) == UNION {Reranked(s) : s \in UNION {Found(hits) : hits \in Rankings(chunks)}}

-----------------------------------------------------------------------------
(* The context.                                                            *)

OfDocument(chunks, d) == Among(chunks, {c \in ChunkIds : Document[c] = d})

\* Documents in the order of their best chunk.
DocumentsOf(chunks) ==
    LET best == Firsts(chunks, Document)
    IN  [i \in DOMAIN best |-> Document[best[i]]]

GroupByDocument(chunks) ==
    LET documents == AtMost(DocumentsOf(chunks), MaxDocuments)
    IN  FlattenSeq([i \in DOMAIN documents |-> AtMost(OfDocument(chunks, documents[i]), MaxPerDocument)])

\* The most recent messages there is room for.
TrimHistory(history, budget) ==
    LET room == {n \in 0..Len(history) : Total(SubSeq(history, n + 1, Len(history))) <= budget}
        dropped == CHOOSE n \in room : \A k \in room : n <= k
    IN  SubSeq(history, dropped + 1, Len(history))

AssembleContext(chunks, history) ==
    LET flat == GroupByDocument(chunks)
    IN  [chunks |-> flat, cited |-> DocumentsOf(flat), history |-> TrimHistory(history, HistoryBudget)]

-----------------------------------------------------------------------------
(* Reduction.                                                              *)

\* The system prompt asks for citations if there are any to make.
Estimate(context) ==
    System + (IF context.cited = <<>> THEN 0 ELSE CiteThem) + Total(context.history)
    + Total(Sizes(context.chunks)) + question
Fits(context) == Estimate(context) <= MaxPrompt

\* Of what is left after 0, 1, 2 ... cuts, the first that fits, or else the last.
Reduced(left) ==
    LET enough == {n \in DOMAIN left : Fits(left[n]) \/ n + 1 \notin DOMAIN left}
    IN  left[CHOOSE n \in enough : \A k \in enough : n <= k]

WithoutLast(context, n) == [context EXCEPT !.chunks = SubSeq(@, 1, Len(@) - n)]
MutantWithoutOldest(context, n) == [context EXCEPT !.history = SubSeq(@, 1, Len(@) - n)]
WithoutOldest(context, n) == [context EXCEPT !.history = SubSeq(@, n + 1, Len(@))]

TrimChunks(context) == Reduced([n \in 0..Len(context.chunks) |-> WithoutLast(context, n)])
TrimMessages(context) == Reduced([n \in 0..Len(context.history) |-> WithoutOldest(context, n)])
DropContext(context) ==
    IF Fits(context) THEN context ELSE [context EXCEPT !.chunks = <<>>, !.cited = <<>>]

\* The citations are those of the context as it was before.
Optimize(context) ==
    IF Fits(context) THEN context ELSE DropContext(TrimMessages(TrimChunks(context)))

-----------------------------------------------------------------------------

\* What the client is told: of every document cited the best chunk the context
\* had, with its score as long as that chunk is quoted, and with zero otherwise.
Citations(final, context) ==
    LET best(d) == OfDocument(context.chunks, d)[1]
    IN  [i \in DOMAIN final.cited |->
            [chunk |-> best(final.cited[i]), scored |-> Contains(final.chunks, best(final.cited[i]))]]

Answer(chunks, history) ==
    LET context == AssembleContext(chunks, history)
        final == Optimize(context)
        of == [chunks |-> context.chunks, history |-> history]
    IN  IF Fits(final)
          THEN [failed |-> FALSE, chunks |-> final.chunks, cited |-> final.cited,
                citations |-> Citations(final, context), history |-> final.history, of |-> of]
          ELSE [NoPrompt EXCEPT !.failed = TRUE, !.of = of]

AnswerWithPrompt(history) ==
    /\ prompts < MaxPrompts
    /\ IF retrieved # NoEntry THEN UNCHANGED <<retrieved, since>>
       ELSE retrieved' \in Retrievals(indexed) /\ since' = indexed
    /\ prompt' = Answer(retrieved', history)
    /\ prompts' = prompts + 1
    /\ UNCHANGED <<question, indexed>>

\* The entry's time is over, or newer ones have pushed it out.
ForgetRetrieval ==
    /\ retrieved # NoEntry
    /\ retrieved' = NoEntry /\ since' = {}
    /\ prompt' = NoPrompt
    /\ UNCHANGED <<question, indexed, prompts>>

\* The collection gains or loses a chunk; nobody tells the cache.
Reindex ==
    /\ prompts < MaxPrompts
    /\ \E c \in ChunkIds : indexed' = IF c \in indexed THEN indexed \ {c} ELSE indexed \cup {c}
    /\ prompt' = NoPrompt
    /\ since' = IF retrieved = NoEntry THEN {} ELSE since \cup indexed'
    /\ UNCHANGED <<question, retrieved, prompts>>

PromptsInit ==
    /\ question \in {2, MaxPrompt - 1, MaxPrompt}
    /\ indexed = ChunkIds
    /\ retrieved = NoEntry /\ since = {}
    /\ prompt = NoPrompt /\ prompts = 0

PromptsNext ==
    \/ \E history \in Histories : AnswerWithPrompt(history)
    \/ ForgetRetrieval
    \/ Reindex

PromptsTypeOK ==
    /\ question \in {2, MaxPrompt - 1, MaxPrompt}
    /\ indexed \subseteq ChunkIds /\ since \subseteq ChunkIds
    /\ retrieved = NoEntry \/ Range(retrieved) \subseteq since
    /\ prompt.failed \in BOOLEAN /\ prompts \in 0..MaxPrompts

-----------------------------------------------------------------------------
(* Properties.                                                             *)

\* A prompt fits, and there is none only when the bare question does not fit.
\* What it quotes the collection had when the answer was retrieved or later, in
\* the context's order, no text twice, with a citation for every document
\* quoted, which shows a score as long as it is; its history is the end of the
\* conversation's, and is cut further only when nothing is quoted.  (A document
\* may be cited that is no longer quoted, and chunks are dropped from the end of
\* the last document, which need not be the lowest-ranked.)
PromptsAreGrounded ==
    LET context == AssembleContext(retrieved, prompt.of.history)
        quoted == prompt.chunks
        texts == [i \in DOMAIN quoted |-> Content[quoted[i]]]
    IN  prompt # NoPrompt =>
        /\ prompt.failed => System + question > MaxPrompt
        /\ ~prompt.failed => Fits(prompt)
        /\ IsPrefix(quoted, prompt.of.chunks) /\ Cardinality(Range(texts)) = Len(quoted)
        /\ {Document[c] : c \in Range(quoted)} \subseteq Range(prompt.cited)
        /\ \A i \in DOMAIN prompt.cited :
              /\ Document[prompt.citations[i].chunk] = prompt.cited[i]
              /\ prompt.citations[i].scored <=> \E c \in Range(quoted) : Document[c] = prompt.cited[i]
        /\ IsSuffix(prompt.history, prompt.of.history)
        /\ quoted # <<>> => prompt.history = TrimHistory(prompt.of.history, HistoryBudget)
        /\ retrieved # NoEntry => Range(quoted) \subseteq since /\ prompt.of.chunks = context.chunks
=============================================================================
