----------------------------- MODULE Conversations -----------------------------
(***************************************************************************)
(* One conversation of one account: the turns kept in the database, and the *)
(* rolling memory the RAG service keeps of them in the process.  The memory *)
(* is filled from the database when a request finds none, and from then on  *)
(* the two are written apart: the question first in the database, in memory *)
(* when the retrieval is done, the answer first in memory and then in the   *)
(* database.  In between a handler waits for the retriever, the provider or *)
(* the client, other requests go on, clients hang up, providers are         *)
(* reloaded (which begins a new RAG service, or none) and the process ends. *)
(*                                                                         *)
(* A turn is the number of its question and its length in tokens; only an   *)
(* answer can be empty.  A request that no provider could take stores       *)
(* nothing and is left out.                                                *)
(***************************************************************************)
EXTENDS Integers, Sequences, SequencesExt, Lists

CONSTANTS
    Callers,        \* requests that can be under way at once
    WindowSize,     \* turns the memory keeps
    CompressAt,     \* turns not yet summarised at which it summarises some
    HistoryTokens,  \* tokens of history a prompt has room for
    OldestTurns,    \* turns get_messages returns
    MaxQuestions,   \* bound: questions asked
    MaxServices     \* bound: RAG services built

ASSUME ConversationsAssumption ==
    /\ {WindowSize, HistoryTokens, OldestTurns, MaxQuestions, MaxServices} \subseteq Nat \ {0}
    /\ CompressAt \in Nat \ {0, 1}

VARIABLES
    turns,          \* the rows of the conversation, oldest first
    service,        \* app.state.rag_service, services being numbered; 0 is none
    services,       \* RAG services built so far
    memory,         \* memory[s]: what service s remembers
    request,        \* request[c]: where the handler of c is
    asked,          \* questions asked so far
    odd             \* history: questions the memory and the database may
                    \* disagree about, for a reason the code accepts

chatVars == <<turns, service, services, memory, request, asked, odd>>

Turn(role, n, size) == [role |-> role, of |-> n, size |-> size]
Turns == [role : {"user"}, of : 1..MaxQuestions, size : {1}]
         \cup [role : {"assistant"}, of : 1..MaxQuestions, size : {0, 2}]

Nobody == [begun |-> FALSE, live |-> <<>>, tokens |-> 0, pending |-> 0]
Unasked == [at |-> "idle", of |-> 0, streams |-> FALSE, service |-> 0, read |-> 0, prompt |-> <<>>]
ChatStages == {"idle", "told", "seeded", "retrieving", "generating", "citing"}

\* How many turns a summary takes.
Chunk == CompressAt \div 2

ChatTypeOK ==
    /\ turns \in Seq(Turns)
    /\ service \in 0..services /\ services \in 0..MaxServices
    /\ \A s \in 1..MaxServices :
        /\ memory[s].begun \in BOOLEAN /\ memory[s].live \in Seq(Turns)
        /\ Len(memory[s].live) <= WindowSize
        /\ memory[s].pending \in Nat /\ (Chunk <= WindowSize => memory[s].pending < CompressAt)
    /\ \A c \in Callers :
        /\ request[c].at \in ChatStages /\ request[c].of \in 0..asked
        /\ request[c].service \in 0..services
        /\ request[c].prompt \in Seq(Turns)
    /\ asked \in 0..MaxQuestions /\ odd \subseteq 1..asked

InFlight == {request[c].of : c \in {d \in Callers : request[d].at # "idle"}}

-----------------------------------------------------------------------------
(* The memory.                                                             *)

Tokens(s) == Total([i \in DOMAIN s |-> s[i].size])
Newest(s, k) == IF Len(s) > k THEN SubSeq(s, Len(s) - k + 1, Len(s)) ELSE s

\* The oldest turns beyond the window are dropped.
Trim(m) ==
    LET kept == Newest(m.live, WindowSize)
    IN  [m EXCEPT !.live = kept, !.tokens = @ - (Tokens(m.live) - Tokens(kept))]

\* Once enough turns have come, the oldest of those still there are made a
\* summary, which nothing reads.
Compress(m) ==
    IF m.pending >= CompressAt /\ Len(m.live) >= Chunk
      THEN LET kept == Newest(m.live, Len(m.live) - Chunk)
           IN  [m EXCEPT !.live = kept, !.pending = @ - Chunk,
                         !.tokens = @ - (Tokens(m.live) - Tokens(kept))]
      ELSE m

\* A turn without content is not remembered, though the memory has begun.
Add(m, t) ==
    IF t.size = 0 THEN [m EXCEPT !.begun = TRUE]
    ELSE Compress(Trim([m EXCEPT !.begun = TRUE, !.live = Append(@, t),
                                 !.tokens = @ + t.size, !.pending = @ + 1]))

\* The most recent turns that fit in the budget.
History(m) ==
    LET fits == {k \in 0..Len(m.live) : Tokens(Newest(m.live, k)) <= HistoryTokens}
    IN  Newest(m.live, CHOOSE k \in fits : \A l \in fits : l <= k)

Filled(m, history) ==
    LET filled[i \in 0..Len(history)] == IF i = 0 THEN m ELSE Add(filled[i - 1], history[i])
    IN  filled[Len(history)]

\* Only a conversation the service does not know yet is filled.
MutantSeeded(m, history) == Filled(m, history)

Seeded(m, history) ==
    IF m.begun THEN m ELSE Filled(m, history)

-----------------------------------------------------------------------------
(* A request, from one suspension of its handler to the next.              *)

\* The database returns the oldest turns, however many there are.
Oldest(k) == SubSeq(turns, 1, k)
TurnsRead == IF Len(turns) > OldestTurns THEN OldestTurns ELSE Len(turns)

\* Turns a memory that is filled now does not get.
Overlooked(s, k) ==
    IF memory[s].begun THEN {} ELSE {turns[i].of : i \in k + 1..Len(turns)}

Undisturbed == InFlight = {}

\* chat: nothing is awaited before the retriever is.
AskWhole(c) ==
    LET n == asked + 1
        known == Seeded(memory[service], Oldest(TurnsRead))
        waits == [Unasked EXCEPT !.of = n, !.service = service]
    IN  /\ request[c].at = "idle" /\ asked < MaxQuestions
        /\ asked' = n
        /\ turns' = Append(turns, Turn("user", n, 1))
        /\ IF service = 0
             THEN /\ request' = [request EXCEPT ![c] = [waits EXCEPT !.at = "generating",
                                                            !.prompt = Oldest(TurnsRead)]]
                  /\ UNCHANGED memory
             ELSE /\ memory' = [memory EXCEPT ![service] = known]
                  /\ request' = [request EXCEPT ![c] = [waits EXCEPT !.at = "retrieving",
                                                            !.prompt = History(known)]]
        /\ odd' = odd \cup (IF service = 0 THEN {} ELSE Overlooked(service, TurnsRead))
                      \cup (IF Undisturbed THEN {} ELSE {n} \cup InFlight)
        /\ UNCHANGED <<service, services>>

\* chat_stream: the client is told the session first.
AskStream(c) ==
    LET n == asked + 1
    IN  /\ request[c].at = "idle" /\ asked < MaxQuestions
        /\ asked' = n
        /\ turns' = Append(turns, Turn("user", n, 1))
        /\ request' = [request EXCEPT ![c] = [Unasked EXCEPT !.at = "told", !.of = n, !.streams = TRUE,
                                                !.service = service, !.read = TurnsRead]]
        /\ odd' = odd \cup (IF Undisturbed THEN {} ELSE {n} \cup InFlight)
        /\ UNCHANGED <<service, services, memory>>

\* Filled with what was read before the question was stored.
SeedStream(c) ==
    LET q == request[c]
    IN  /\ q.at = "told"
        /\ IF q.service = 0
             THEN /\ request' = [request EXCEPT ![c].at = "generating", ![c].prompt = Oldest(q.read)]
                  /\ UNCHANGED <<memory, odd>>
             ELSE /\ memory' = [memory EXCEPT ![q.service] = Seeded(@, Oldest(q.read))]
                  /\ odd' = odd \cup (Overlooked(q.service, q.read) \ {q.of})
                  /\ request' = [request EXCEPT ![c].at = "seeded"]
        /\ UNCHANGED <<turns, service, services, asked>>

BuildPrompt(c) ==
    /\ request[c].at = "seeded"
    /\ request' = [request EXCEPT ![c].at = "retrieving",
                                  ![c].prompt = History(memory[request[c].service])]
    /\ UNCHANGED <<turns, service, services, memory, asked, odd>>

\* With the same question in the cache of retrievals nothing is waited for: the
\* step follows at once.  The prompt is the provider's from here on.
Retrieved(c) ==
    LET q == request[c]
    IN  /\ q.at = "retrieving"
        /\ memory' = [memory EXCEPT ![q.service] = Add(@, Turn("user", q.of, 1))]
        /\ request' = [request EXCEPT ![c].at = "generating", ![c].prompt = <<>>]
        /\ UNCHANGED <<turns, service, services, asked, odd>>

\* complete_turn, in the memory the request began with.
Remembered(c, answer) ==
    [memory EXCEPT ![request[c].service] = Add(@, answer)]

\* answer: what the provider gave is remembered, and stored, at once; it is only
\* stored where there is no RAG service.
AnswerWhole(c) ==
    \E size \in {0, 2} :
        LET q == request[c]
            answer == Turn("assistant", q.of, size)
        IN  /\ q.at = "generating" /\ (q.service = 0 \/ ~ q.streams)
            /\ memory' = IF q.service = 0 THEN memory ELSE Remembered(c, answer)
            /\ request' = [request EXCEPT ![c] = Unasked]
            /\ turns' = Append(turns, answer)
            /\ UNCHANGED <<service, services, asked, odd>>

\* stream: remembered when the provider's stream is over, before the citations
\* and the last event go out.
AnswerStream(c) ==
    \E size \in {0, 2} :
        LET q == request[c]
        IN  /\ q.at = "generating" /\ q.service # 0 /\ q.streams
            /\ memory' = Remembered(c, Turn("assistant", q.of, size))
            /\ request' = [request EXCEPT ![c].at = "citing", ![c].read = size]
            /\ UNCHANGED <<turns, service, services, asked, odd>>

\* The stream's last event goes out between the two.
StoreAnswer(c) ==
    LET q == request[c]
    IN  /\ q.at = "citing"
        /\ turns' = Append(turns, Turn("assistant", q.of, q.read))
        /\ request' = [request EXCEPT ![c] = Unasked]
        /\ UNCHANGED <<service, services, memory, asked, odd>>

\* The retriever or the provider fails: the question stays, without an answer.
RequestFails(c) ==
    /\ request[c].at \in {"retrieving", "generating"}
    /\ request' = [request EXCEPT ![c] = Unasked]
    /\ odd' = odd \cup (IF request[c].at = "retrieving" THEN {request[c].of} ELSE {})
    /\ UNCHANGED <<turns, service, services, memory, asked>>

\* A client hangs up: its generator is closed where it stands.
HangsUp(c) ==
    LET q == request[c]
    IN  /\ q.streams
        /\ request' = [request EXCEPT ![c] = Unasked]
        /\ odd' = odd \cup (IF q.service # 0 /\ q.at # "generating" THEN {q.of} ELSE {})
        /\ UNCHANGED <<turns, service, services, memory, asked>>

-----------------------------------------------------------------------------
(* The service and the process.                                            *)

\* What no request can reach any more is forgotten.
Reachable(s, requests) ==
    [r \in 1..MaxServices |->
        IF r = s \/ \E c \in Callers : requests[c].service = r THEN memory[r] ELSE Nobody]

\* A service is built, or rag.yaml is gone: requests keep the service they have.
ReloadRag(s) ==
    /\ s \in {0, services + 1} /\ services < MaxServices
    /\ service' = s
    /\ services' = services + 1
    /\ memory' = Reachable(s, request)
    /\ UNCHANGED <<turns, request, asked, odd>>

RestartChat(s) ==
    /\ s \in {0, services + 1} /\ services < MaxServices
    /\ service' = s
    /\ services' = services + 1
    /\ request' = [c \in Callers |-> Unasked]
    /\ memory' = Reachable(s, request')
    /\ UNCHANGED <<turns, asked, odd>>

ChatInit ==
    /\ turns = <<>>
    /\ service = 1 /\ services = 1
    /\ memory = [s \in 1..MaxServices |-> Nobody]
    /\ request = [c \in Callers |-> Unasked]
    /\ asked = 0 /\ odd = {}

ChatNext ==
    \/ \E c \in Callers :
        \/ AskWhole(c) \/ AskStream(c) \/ SeedStream(c) \/ BuildPrompt(c)
        \/ Retrieved(c) \/ AnswerWhole(c) \/ AnswerStream(c) \/ StoreAnswer(c) \/ RequestFails(c) \/ HangsUp(c)
    \/ \E s \in 0..MaxServices : ReloadRag(s) \/ RestartChat(s)

-----------------------------------------------------------------------------
(* Properties.                                                             *)

\* The turns that the database and the memory agree about.
InStep == {t \in Turns : t.of \notin odd \cup InFlight}
Said == {t \in Turns : t.size > 0}

\* How many turns there are at least in a memory that has let one go.
Fewest ==
    IF WindowSize < Chunk THEN WindowSize
    ELSE IF WindowSize < CompressAt THEN WindowSize - Chunk ELSE CompressAt - Chunk

\* What the memory holds is the end of what the database holds, whatever
\* requests, services and restarts came before: no turn twice, none out of its
\* place, none forgotten while there is room, its tokens counted right; and no
\* question is in its own history.  (seed_history: "restarting the backend does
\* not lose the durable SQLite history for a session".)  Left aside are the
\* questions that the code lets fall out: asked while another was, cut off or
\* failed between the two writes, or not among the oldest turns when the memory
\* was filled.
ConversationIsKept ==
    /\ service # 0 /\ memory[service].begun =>
        LET m == memory[service]
            known == Among(m.live, InStep)
            kept == Among(turns, InStep \cap Said)
        IN  /\ IsSuffix(known, kept)
            /\ Len(m.live) < Fewest => known = kept
            /\ m.tokens = Tokens(m.live)
    /\ \A c \in Callers : \A i \in 1..Len(request[c].prompt) :
        request[c].of \notin odd => request[c].prompt[i].of # request[c].of
=============================================================================
