---------------------------- MODULE SnapshotFeed ----------------------------
(***************************************************************************)
(* The live snapshot feed: SnapshotService, the onboarding endpoints that   *)
(* re-point it, the saved router rows it is restored from, and the         *)
(* dashboard WebSocket handlers it feeds.                                   *)
(*                                                                         *)
(* Two kinds of concurrency meet here.  Handlers and the poll task run on   *)
(* one event loop, so the code between two awaits is one action.  The       *)
(* collection itself runs in a worker thread of the default executor, and   *)
(* a thread is not stopped by cancelling the task that waits for it: a      *)
(* worker whose task was cancelled keeps running, and still writes          *)
(* _sequence and _latest when it finishes.  Worker steps are therefore      *)
(* separate actions that interleave with every handler.                     *)
(*                                                                         *)
(* A thread of CPython 3.12 is preempted at calls, not inside               *)
(* "self._sequence += 1", so _frame is two steps in a worker: it stamps a   *)
(* frame (increment, reads), and stores it after the DashboardUpdate call.  *)
(*                                                                         *)
(* An operator named Mutant... is the next one with a mistake in it.  No    *)
(* specification uses it: it stands there to show that a property notices.  *)
(***************************************************************************)
EXTENDS Integers, FiniteSets, Sequences

CONSTANTS
    Routers,    \* the devices an operator can attach (host and credentials)
    NoRouter,   \* no device
    RowIds,     \* primary keys of the saved router rows
    Workers,    \* threads of the default executor
    NoWorker,   \* no thread
    Clients,    \* dashboard WebSocket connections
    MaxSeq      \* frames are numbered up to MaxSeq, and MaxSeq from then on

ASSUME FeedAssumption ==
    /\ NoRouter \notin Routers
    /\ NoWorker \notin Workers
    /\ RowIds \subseteq Nat
    /\ MaxSeq \in Nat \ {0}

(***************************************************************************)
(* A frame (DashboardUpdate).  What matters of its snapshot is the device   *)
(* it was collected from: NoRouter when there is no snapshot.               *)
(***************************************************************************)
RouterOrNone == Routers \cup {NoRouter}
Frames  == [seq : 0..MaxSeq, device : RouterOrNone, connected : BOOLEAN, snap : RouterOrNone]
NoFrame == [seq |-> 0, device |-> NoRouter, connected |-> FALSE, snap |-> NoRouter]

\* maxsize of a subscriber queue.
QueueSize == 1

VARIABLES
    rows,       \* rows[i]: the device saved in row i, or NoRouter
    conn,       \* _connection: the device the feed is pointed at
    device,     \* _device_id: the label of frames when nothing was collected
    latest,     \* _latest
    sequence,   \* _sequence
    task,       \* where the poll task stands
    owner,      \* the worker the poll task waits for
    result,     \* the frame that worker returned to the poll task
    wpc,        \* wpc[w]: where worker w stands in _collect_once
    target,     \* target[w]: the connection worker w read
    wframe,     \* wframe[w]: the frame worker w stamped and has not stored
    ws,         \* ws[c]: where the WebSocket handler of c stands
    gone,       \* the clients that hung up
    queue,      \* queue[c]: the subscriber queue of c
    first,      \* first[c]: the frame c is sent on connecting
    shown,      \* shown[c]: the last frame sent to c
    pushed      \* history: the last frame put in the queue of c

storeVars  == <<rows, conn, device>>
pollVars   == <<task, owner, result>>
workerVars == <<wpc, target, wframe>>
clientVars == <<ws, gone, queue, first, shown, pushed>>
vars == <<rows, conn, device, latest, sequence, task, owner, result,
          wpc, target, wframe, ws, gone, queue, first, shown, pushed>>

TypeOK ==
    /\ rows \in [RowIds -> RouterOrNone]
    /\ conn \in RouterOrNone
    /\ device \in RouterOrNone
    /\ latest \in Frames
    /\ sequence \in 0..MaxSeq
    /\ task \in {"none", "idle", "running", "done", "failed"}
    /\ owner \in Workers \cup {NoWorker}
    /\ result \in Frames
    /\ wpc \in [Workers -> {"free", "start", "collect", "store"}]
    /\ target \in [Workers -> RouterOrNone]
    /\ wframe \in [Workers -> Frames]
    /\ ws \in [Clients -> {"closed", "open", "live", "leaked"}]
    /\ gone \subseteq Clients
    /\ queue \in [Clients -> Seq(Frames)]
    /\ \A c \in Clients : Len(queue[c]) <= QueueSize
    /\ first \in [Clients -> Frames]
    /\ shown \in [Clients -> Frames]
    /\ pushed \in [Clients -> Frames]

-----------------------------------------------------------------------------
(* Saved rows.                                                             *)

Saved == {i \in RowIds : rows[i] # NoRouter}

\* get_most_recent: the row created last, whether or not another one was
\* updated since.  r is the device the lifespan resumes with.
Restores(r) ==
    \/ Saved = {} /\ r = NoRouter
    \/ \E i \in Saved : r = rows[i] /\ \A j \in Saved : j <= i

\* upsert: the named row, else the most recent one, else a new one.
CanUpsert(i) ==
    \/ rows[i] # NoRouter
    \/ Saved = {}

-----------------------------------------------------------------------------
(* Frames.                                                                 *)

NextSeq == IF sequence < MaxSeq THEN sequence + 1 ELSE MaxSeq

\* _frame without a snapshot of its own retains the previous frame's
\* snapshot and device.
MutantFrameDevice == device
FrameDevice == IF latest # NoFrame THEN latest.device ELSE device
RetainedFrame ==
    [seq |-> NextSeq, device |-> FrameDevice, connected |-> FALSE, snap |-> latest.snap]

CollectedFrame(r) ==
    [seq |-> NextSeq, device |-> r, connected |-> TRUE, snap |-> r]

\* _broadcast_disconnected drops the snapshot.
DisconnectedFrame ==
    [seq |-> NextSeq, device |-> device, connected |-> FALSE, snap |-> NoRouter]

\* _send: a queue of one element that drops the oldest frame for the newest.
MutantOfferNoDrop(q, f) == Append(q, f)
MutantOfferKeepOldest(q, f) == IF Len(q) < QueueSize THEN Append(q, f) ELSE q
Offer(q, f) == IF Len(q) < QueueSize THEN Append(q, f) ELSE Append(Tail(q), f)

\* The subscriber set: a handler that died in its first send never leaves it.
Subscribed == {c \in Clients : ws[c] # "closed"}

Publish(f) ==
    /\ queue' = [c \in Clients |-> IF c \in Subscribed THEN Offer(queue[c], f) ELSE queue[c]]
    /\ pushed' = [c \in Clients |-> IF c \in Subscribed THEN f ELSE pushed[c]]
    /\ UNCHANGED <<ws, gone, first, shown>>

-----------------------------------------------------------------------------
(* Handlers on the event loop: save, delete, and a restart of the process. *)

StartPolling ==
    /\ task' = IF task = "none" THEN "idle" ELSE task
    /\ UNCHANGED <<owner, result>>

\* clear_connection cancels the poll task.  A collection that has begun
\* goes on in its thread with nobody waiting.
MutantCancelTask == UNCHANGED pollVars
CancelTask ==
    /\ task' = "none"
    /\ owner' = NoWorker
    /\ result' = NoFrame

\* POST /router/save: upsert the row, configure_connection, start.
Save(i, r) ==
    /\ CanUpsert(i)
    /\ rows' = [rows EXCEPT ![i] = r]
    /\ conn' = r
    /\ device' = r
    /\ latest' = NoFrame
    /\ StartPolling
    /\ UNCHANGED sequence
    /\ UNCHANGED <<workerVars, clientVars>>

\* The deleted row is the active one when host and username agree.
MutantIsActive(i) == FALSE
IsActive(i) == conn # NoRouter /\ conn = rows[i]

ClearConnection ==
    /\ conn' = NoRouter
    /\ CancelTask
    /\ sequence' = NextSeq
    /\ latest' = DisconnectedFrame
    /\ Publish(DisconnectedFrame)

\* DELETE /router/connections/{id}.
Delete(i) ==
    /\ rows[i] # NoRouter
    /\ rows' = [rows EXCEPT ![i] = NoRouter]
    /\ IF IsActive(i)
       THEN ClearConnection
       ELSE UNCHANGED <<conn, latest, sequence>> /\ UNCHANGED <<pollVars, clientVars>>
    /\ UNCHANGED device /\ UNCHANGED workerVars

\* The process dies and the lifespan runs again: rows survive, threads and
\* sockets do not, and the feed resumes with the most recent row.
Restart(r) ==
    /\ Restores(r)
    /\ conn' = r
    /\ device' = r
    /\ task' = IF r = NoRouter THEN "none" ELSE "idle"
    /\ latest' = NoFrame
    /\ sequence' = 0
    /\ owner' = NoWorker
    /\ result' = NoFrame
    /\ wpc' = [w \in Workers |-> "free"]
    /\ target' = [w \in Workers |-> NoRouter]
    /\ wframe' = [w \in Workers |-> NoFrame]
    /\ ws' = [c \in Clients |-> "closed"]
    /\ gone' = {}
    /\ queue' = [c \in Clients |-> << >>]
    /\ first' = [c \in Clients |-> NoFrame]
    /\ shown' = [c \in Clients |-> NoFrame]
    /\ pushed' = [c \in Clients |-> NoFrame]
    /\ UNCHANGED rows

-----------------------------------------------------------------------------
(* The poll task: _run.                                                    *)

PublishResult ==
    /\ task = "done"
    /\ Publish(result)
    /\ task' = "idle"
    /\ result' = NoFrame
    /\ UNCHANGED <<owner, latest, sequence>>
    /\ UNCHANGED <<storeVars, workerVars>>

\* The collection raised: a disconnected frame that retains the snapshot,
\* and polling goes on.
MutantPollingGoesOn == "none"
PollingGoesOn == "idle"
PublishFailure ==
    /\ task = "failed"
    /\ sequence' = NextSeq
    /\ latest' = RetainedFrame
    /\ Publish(RetainedFrame)
    /\ task' = PollingGoesOn
    /\ UNCHANGED <<owner, result>>
    /\ UNCHANGED <<storeVars, workerVars>>

-----------------------------------------------------------------------------
(* Worker threads: _collect_once.                                          *)

\* A free thread takes the collection the task submitted after its sleep.
\* Waiting for a thread and sleeping are one state, "idle": a cancellation
\* drops the task in both.
Pick(w) ==
    /\ task = "idle" /\ wpc[w] = "free"
    /\ task' = "running"
    /\ owner' = w
    /\ wpc' = [wpc EXCEPT ![w] = "start"]
    /\ UNCHANGED <<result, latest, sequence, target, wframe>>
    /\ UNCHANGED <<storeVars, clientVars>>

\* _source is "none" exactly when no connection is configured; the thread
\* reads both before its first call.
ReadConnection(w) ==
    /\ wpc[w] = "start"
    /\ IF conn = NoRouter
       THEN /\ sequence' = NextSeq
            /\ wframe' = [wframe EXCEPT ![w] = RetainedFrame]
            /\ wpc' = [wpc EXCEPT ![w] = "store"]
            /\ UNCHANGED target
       ELSE /\ target' = [target EXCEPT ![w] = conn]
            /\ wpc' = [wpc EXCEPT ![w] = "collect"]
            /\ UNCHANGED <<sequence, wframe>>
    /\ UNCHANGED latest /\ UNCHANGED <<storeVars, pollVars, clientVars>>

\* Collecting raises out of the thread when the SSHTransport constructor
\* cannot connect.
CollectFails(w) ==
    /\ wpc[w] = "collect"
    /\ wpc' = [wpc EXCEPT ![w] = "free"]
    /\ target' = [target EXCEPT ![w] = NoRouter]
    /\ task' = IF owner = w THEN "failed" ELSE task
    /\ owner' = IF owner = w THEN NoWorker ELSE owner
    /\ UNCHANGED <<latest, sequence, result, wframe>>
    /\ UNCHANGED <<storeVars, clientVars>>

\* build_snapshot contains the failures of single collectors, so once
\* connected there is a snapshot.  Then the first half of _frame.
Collect(w) ==
    /\ wpc[w] = "collect"
    /\ sequence' = NextSeq
    /\ wframe' = [wframe EXCEPT ![w] = CollectedFrame(target[w])]
    /\ target' = [target EXCEPT ![w] = NoRouter]
    /\ wpc' = [wpc EXCEPT ![w] = "store"]
    /\ UNCHANGED latest /\ UNCHANGED <<storeVars, pollVars, clientVars>>

\* The second half of _frame, and the thread's return.
Store(w) ==
    /\ wpc[w] = "store"
    /\ latest' = wframe[w]
    /\ wframe' = [wframe EXCEPT ![w] = NoFrame]
    /\ wpc' = [wpc EXCEPT ![w] = "free"]
    /\ task' = IF owner = w THEN "done" ELSE task
    /\ owner' = IF owner = w THEN NoWorker ELSE owner
    /\ result' = IF owner = w THEN wframe[w] ELSE result
    /\ UNCHANGED <<sequence, target>>
    /\ UNCHANGED <<storeVars, clientVars>>

-----------------------------------------------------------------------------
(* Dashboard WebSocket handlers: dashboard_ws.                             *)

\* subscribe, and latest() read before the first await.
Subscribe(c) ==
    /\ ws[c] = "closed"
    /\ ws' = [ws EXCEPT ![c] = IF latest = NoFrame THEN "live" ELSE "open"]
    /\ first' = [first EXCEPT ![c] = latest]
    /\ UNCHANGED <<gone, queue, shown, pushed, latest, sequence>>
    /\ UNCHANGED <<storeVars, pollVars, workerVars>>

\* The first send stands outside the try: when it raises, the queue stays
\* subscribed and nobody reads it.
SendFirst(c) ==
    /\ ws[c] = "open"
    /\ first' = [first EXCEPT ![c] = NoFrame]
    /\ IF c \in gone
       THEN /\ ws' = [ws EXCEPT ![c] = "leaked"]
            /\ UNCHANGED shown
       ELSE /\ ws' = [ws EXCEPT ![c] = "live"]
            /\ shown' = [shown EXCEPT ![c] = first[c]]
    /\ UNCHANGED <<gone, queue, pushed, latest, sequence>>
    /\ UNCHANGED <<storeVars, pollVars, workerVars>>

\* One round of the handler's loop; a failed send ends it and unsubscribes.
MutantHandlerEnds(c) ==
    /\ queue' = [queue EXCEPT ![c] = Tail(queue[c])]
    /\ UNCHANGED <<ws, gone, shown, pushed>>
HandlerEnds(c) ==
    /\ queue' = [queue EXCEPT ![c] = << >>]
    /\ ws' = [ws EXCEPT ![c] = "closed"]
    /\ gone' = gone \ {c}
    /\ shown' = [shown EXCEPT ![c] = NoFrame]
    /\ pushed' = [pushed EXCEPT ![c] = NoFrame]

Deliver(c) ==
    /\ ws[c] = "live" /\ queue[c] # << >>
    /\ IF c \in gone
       THEN HandlerEnds(c)
       ELSE /\ queue' = [queue EXCEPT ![c] = Tail(queue[c])]
            /\ shown' = [shown EXCEPT ![c] = Head(queue[c])]
            /\ UNCHANGED <<ws, gone, pushed>>
    /\ UNCHANGED <<first, latest, sequence>>
    /\ UNCHANGED <<storeVars, pollVars, workerVars>>

-----------------------------------------------------------------------------
(* The environment.                                                        *)

HangUp(c) ==
    /\ ws[c] \in {"open", "live"} /\ c \notin gone
    /\ gone' = gone \cup {c}
    /\ UNCHANGED <<ws, queue, first, shown, pushed, latest, sequence>>
    /\ UNCHANGED <<storeVars, pollVars, workerVars>>

-----------------------------------------------------------------------------

\* A process starts: legacy databases may hold several rows.
Init ==
    /\ rows \in [RowIds -> RouterOrNone]
    /\ conn \in RouterOrNone /\ Restores(conn)
    /\ device = conn
    /\ latest = NoFrame
    /\ sequence = 0
    /\ task = IF conn = NoRouter THEN "none" ELSE "idle"
    /\ owner = NoWorker
    /\ result = NoFrame
    /\ wpc = [w \in Workers |-> "free"]
    /\ target = [w \in Workers |-> NoRouter]
    /\ wframe = [w \in Workers |-> NoFrame]
    /\ ws = [c \in Clients |-> "closed"]
    /\ gone = {}
    /\ queue = [c \in Clients |-> << >>]
    /\ first = [c \in Clients |-> NoFrame]
    /\ shown = [c \in Clients |-> NoFrame]
    /\ pushed = [c \in Clients |-> NoFrame]

Handler == \/ \E i \in RowIds, r \in Routers : Save(i, r)
           \/ \E i \in RowIds : Delete(i)
           \/ \E r \in RouterOrNone : Restart(r)
PollStep == PublishResult \/ PublishFailure
WorkerStep(w) == ReadConnection(w) \/ CollectFails(w) \/ Collect(w) \/ Store(w)
ClientStep(c) == SendFirst(c) \/ Deliver(c)
Environment == \E c \in Clients : Subscribe(c) \/ HangUp(c)

Next ==
    \/ Handler
    \/ PollStep
    \/ \E w \in Workers : Pick(w) \/ WorkerStep(w)
    \/ \E c \in Clients : ClientStep(c)
    \/ Environment

(***************************************************************************)
(* Fairness: the event loop runs every ready task, the executor every       *)
(* queued call, and a thread's SSH commands all have a timeout.  Nothing is *)
(* assumed of the operator, the clients or the network.                     *)
(***************************************************************************)
Fairness ==
    /\ WF_vars(PollStep)
    /\ WF_vars(\E w \in Workers : Pick(w))
    /\ \A w \in Workers : WF_vars(WorkerStep(w))
    /\ \A c \in Clients : WF_vars(ClientStep(c))

Spec == Init /\ [][Next]_vars
FairSpec == Spec /\ Fairness
=============================================================================
