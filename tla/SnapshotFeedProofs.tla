------------------------- MODULE SnapshotFeedProofs -------------------------
(***************************************************************************)
(* Proofs of the snapshot feed's safety properties, for every set of        *)
(* devices, rows, threads and clients and every bound on the sequence.      *)
(***************************************************************************)
EXTENDS SnapshotFeedProperties, SequenceTheorems, TLAPS

-----------------------------------------------------------------------------
(* Frames and queues.                                                      *)

\* Numbering a frame keeps the sequence in range (_frame).
LEMMA NextSeqInRange ==
    ASSUME TypeOK
    PROVE  NextSeq \in 0..MaxSeq /\ NextSeq >= sequence
           /\ (NextSeq > sequence \/ NextSeq = MaxSeq)
BY FeedAssumption DEF TypeOK, NextSeq

\* Every frame the service builds is a frame.
LEMMA BuiltFrames ==
    ASSUME TypeOK
    PROVE  /\ NoFrame \in Frames
           /\ RetainedFrame \in Frames
           /\ DisconnectedFrame \in Frames
           /\ \A r \in RouterOrNone : CollectedFrame(r) \in Frames
<1>1. NextSeq \in 0..MaxSeq
    BY NextSeqInRange
<1>2. NoFrame \in Frames
    BY FeedAssumption DEF NoFrame, Frames, RouterOrNone
<1>3. latest.device \in RouterOrNone /\ latest.snap \in RouterOrNone /\ device \in RouterOrNone
    BY DEF TypeOK, Frames
<1>4. NoRouter \in RouterOrNone
    BY DEF RouterOrNone
<1> QED
    BY <1>1, <1>2, <1>3, <1>4
    DEF RetainedFrame, FrameDevice, DisconnectedFrame, CollectedFrame, Frames

\* A frame appended to an empty queue is its head.
LEMMA AppendToEmpty ==
    ASSUME NEW F, NEW q \in Seq(F), Len(q) = 0, NEW f \in F
    PROVE  Append(q, f) \in Seq(F) /\ Len(Append(q, f)) = 1 /\ Head(Append(q, f)) = f
OBVIOUS

\* The tail of a one-element queue is empty.
LEMMA TailOfOne ==
    ASSUME NEW F, NEW q \in Seq(F), Len(q) = 1
    PROVE  Tail(q) \in Seq(F) /\ Len(Tail(q)) = 0 /\ Head(q) \in F
<1>1. q # << >>
    BY EmptySeq
<1>2. Tail(q) \in Seq(F) /\ Len(Tail(q)) = Len(q) - 1 /\ Head(q) \in F
    BY <1>1, HeadTailProperties
<1> QED
    BY <1>2

\* A queue that is not empty holds one frame, and none once it is taken.
LEMMA OneFrameQueue ==
    ASSUME NEW F, NEW q \in Seq(F), q # << >>, Len(q) <= 1
    PROVE  Len(q) = 1 /\ Tail(q) = << >>
<1>1. Len(q) = 1
    <2>1. Len(q) # 0
        BY EmptySeq
    <2>2. Len(q) \in Nat
        BY LenProperties
    <2> QED
        BY <2>1, <2>2
<1>2. Tail(q) \in Seq(F) /\ Len(Tail(q)) = 0
    BY <1>1, TailOfOne
<1>3. Tail(q) = << >>
    BY <1>2, EmptySeq
<1> QED
    BY <1>1, <1>3

\* After _send the queue holds exactly the frame just offered.
LEMMA OfferKeepsNewest ==
    ASSUME NEW F, NEW q \in Seq(F), Len(q) <= QueueSize, NEW f \in F
    PROVE  Offer(q, f) \in Seq(F) /\ Len(Offer(q, f)) = 1 /\ Head(Offer(q, f)) = f
<1>1. Len(q) = 0 \/ Len(q) = 1
    BY LenProperties DEF QueueSize
<1>2. CASE Len(q) = 0
    <2>1. Offer(q, f) = Append(q, f)
        BY <1>2 DEF Offer, QueueSize
    <2> QED
        BY <1>2, <2>1, AppendToEmpty
<1>3. CASE Len(q) = 1
    <2>1. Offer(q, f) = Append(Tail(q), f)
        BY <1>3 DEF Offer, QueueSize
    <2>2. Tail(q) \in Seq(F) /\ Len(Tail(q)) = 0
        BY <1>3, TailOfOne
    <2>3. Append(Tail(q), f) \in Seq(F) /\ Len(Append(Tail(q), f)) = 1 /\ Head(Append(Tail(q), f)) = f
        BY <2>2, AppendToEmpty
    <2> QED
        BY <2>1, <2>3, Zenon
<1> QED
    BY <1>1, <1>2, <1>3

\* Publishing keeps the queues well formed.
LEMMA PublishType ==
    ASSUME TypeOK, NEW f \in Frames, Publish(f)
    PROVE  /\ queue' \in [Clients -> Seq(Frames)]
           /\ \A c \in Clients : Len(queue'[c]) <= QueueSize
           /\ pushed' \in [Clients -> Frames]
<1>1. \A c \in Clients : Offer(queue[c], f) \in Seq(Frames) /\ Len(Offer(queue[c], f)) <= QueueSize
    <2> TAKE c \in Clients
    <2>1. queue[c] \in Seq(Frames) /\ Len(queue[c]) <= QueueSize
        BY DEF TypeOK
    <2>2. Offer(queue[c], f) \in Seq(Frames) /\ Len(Offer(queue[c], f)) = 1
        BY <2>1, OfferKeepsNewest
    <2> QED
        BY <2>2 DEF QueueSize
<1>2. queue' \in [Clients -> Seq(Frames)]
    BY <1>1 DEF TypeOK, Publish
<1>3. \A c \in Clients : Len(queue'[c]) <= QueueSize
    BY <1>1 DEF TypeOK, Publish
<1>4. pushed' \in [Clients -> Frames]
    BY DEF TypeOK, Publish
<1> QED
    BY <1>2, <1>3, <1>4

-----------------------------------------------------------------------------
(* Type correctness.                                                       *)

LEMMA TypeInit == Init => TypeOK
<1> SUFFICES ASSUME Init PROVE TypeOK
    OBVIOUS
<1>1. NoFrame \in Frames
    BY FeedAssumption DEF NoFrame, Frames, RouterOrNone
<1>2. queue \in [Clients -> Seq(Frames)]
    BY EmptySeq DEF Init
<1>3. \A c \in Clients : Len(queue[c]) <= QueueSize
    BY EmptySeq DEF Init, QueueSize
<1>4. NoRouter \in RouterOrNone
    BY DEF RouterOrNone
<1>5. sequence \in 0..MaxSeq
    BY FeedAssumption DEF Init
<1> QED
    BY <1>1, <1>2, <1>3, <1>4, <1>5 DEF Init, TypeOK

LEMMA TypeStep == TypeOK /\ [Next]_vars => TypeOK'
<1> SUFFICES ASSUME TypeOK, [Next]_vars PROVE TypeOK'
    OBVIOUS
<1>a. NextSeq \in 0..MaxSeq
    BY NextSeqInRange
<1>b. /\ NoFrame \in Frames /\ RetainedFrame \in Frames /\ DisconnectedFrame \in Frames
      /\ \A r \in RouterOrNone : CollectedFrame(r) \in Frames
    BY BuiltFrames
<1>c. NoRouter \in RouterOrNone /\ Routers \subseteq RouterOrNone
    BY DEF RouterOrNone
<1>1. ASSUME NEW i \in RowIds, NEW r \in Routers, Save(i, r) PROVE TypeOK'
    BY <1>1, <1>b, <1>c DEF TypeOK, Save, StartPolling, workerVars, clientVars
<1>2. ASSUME NEW i \in RowIds, Delete(i) PROVE TypeOK'
    <2>1. CASE IsActive(i)
        <3>1. ClearConnection /\ Publish(DisconnectedFrame)
            BY <1>2, <2>1 DEF Delete, ClearConnection
        <3>2. /\ queue' \in [Clients -> Seq(Frames)]
              /\ \A c \in Clients : Len(queue'[c]) <= QueueSize
              /\ pushed' \in [Clients -> Frames]
            BY <3>1, <1>b, PublishType
        <3> QED
            BY <1>2, <2>1, <3>1, <3>2, <1>a, <1>b, <1>c
            DEF TypeOK, Delete, ClearConnection, CancelTask, Publish, workerVars
    <2>2. CASE ~IsActive(i)
        BY <1>2, <2>2, <1>c DEF TypeOK, Delete, workerVars, pollVars, clientVars
    <2> QED
        BY <2>1, <2>2
<1>3. ASSUME NEW r \in RouterOrNone, Restart(r) PROVE TypeOK'
    <2>1. << >> \in Seq(Frames) /\ Len(<< >>) <= QueueSize
        BY DEF QueueSize
    <2> QED
        BY <1>3, <2>1, <1>b, <1>c, FeedAssumption DEF TypeOK, Restart
<1>4. ASSUME PublishResult PROVE TypeOK'
    <2>1. /\ queue' \in [Clients -> Seq(Frames)]
          /\ \A c \in Clients : Len(queue'[c]) <= QueueSize
          /\ pushed' \in [Clients -> Frames]
        BY <1>4, PublishType DEF PublishResult, TypeOK
    <2> QED
        BY <1>4, <2>1, <1>b DEF TypeOK, PublishResult, Publish, storeVars, workerVars
<1>5. ASSUME PublishFailure PROVE TypeOK'
    <2>1. /\ queue' \in [Clients -> Seq(Frames)]
          /\ \A c \in Clients : Len(queue'[c]) <= QueueSize
          /\ pushed' \in [Clients -> Frames]
        BY <1>5, <1>b, PublishType DEF PublishFailure
    <2> QED
        BY <1>5, <2>1, <1>a, <1>b
        DEF TypeOK, PublishFailure, PollingGoesOn, Publish, storeVars, workerVars
<1>6. ASSUME NEW w \in Workers, Pick(w) PROVE TypeOK'
    BY <1>6 DEF TypeOK, Pick, storeVars, clientVars
<1>7. ASSUME NEW w \in Workers, ReadConnection(w) PROVE TypeOK'
    BY <1>7, <1>a, <1>b DEF TypeOK, ReadConnection, storeVars, pollVars, clientVars
<1>8. ASSUME NEW w \in Workers, CollectFails(w) PROVE TypeOK'
    BY <1>8, <1>c DEF TypeOK, CollectFails, storeVars, clientVars
<1>9. ASSUME NEW w \in Workers, Collect(w) PROVE TypeOK'
    <2>1. CollectedFrame(target[w]) \in Frames
        BY <1>b DEF TypeOK
    <2> QED
        BY <1>9, <2>1, <1>a, <1>c DEF TypeOK, Collect, storeVars, pollVars, clientVars
<1>10. ASSUME NEW w \in Workers, Store(w) PROVE TypeOK'
    <2>1. wframe[w] \in Frames
        BY DEF TypeOK
    <2>2. /\ latest' = wframe[w] /\ (result' = wframe[w] \/ result' = result)
          /\ wframe' = [wframe EXCEPT ![w] = NoFrame] /\ wpc' = [wpc EXCEPT ![w] = "free"]
          /\ (task' = "done" \/ task' = task) /\ (owner' = NoWorker \/ owner' = owner)
        BY <1>10 DEF Store
    <2>3. UNCHANGED <<sequence, target, storeVars, clientVars>>
        BY <1>10 DEF Store
    <2>4. /\ latest' \in Frames /\ result' \in Frames
          /\ wframe' \in [Workers -> Frames]
        BY <2>1, <2>2, <1>b DEF TypeOK
    <2>5. /\ task' \in {"none", "idle", "running", "done", "failed"}
          /\ owner' \in Workers \cup {NoWorker}
          /\ wpc' \in [Workers -> {"free", "start", "collect", "store"}]
        BY <2>2 DEF TypeOK
    <2>6. UNCHANGED <<rows, conn, device, ws, gone, queue, first, shown, pushed>>
        BY <2>3 DEF storeVars, clientVars
    <2> QED
        BY <2>3, <2>4, <2>5, <2>6 DEF TypeOK
<1>11. ASSUME NEW c \in Clients, SendFirst(c) PROVE TypeOK'
    BY <1>11, <1>b DEF TypeOK, SendFirst, storeVars, pollVars, workerVars
<1>12. ASSUME NEW c \in Clients, Deliver(c) PROVE TypeOK'
    <2>1. /\ queue[c] \in Seq(Frames) /\ queue[c] # << >>
          /\ Head(queue[c]) \in Frames /\ Tail(queue[c]) \in Seq(Frames)
          /\ Len(Tail(queue[c])) <= QueueSize
        BY <1>12, HeadTailProperties DEF TypeOK, Deliver, QueueSize
    <2>2. CASE c \in gone
        <3>1. queue' = [queue EXCEPT ![c] = << >>]
            BY <1>12, <2>2 DEF Deliver, HandlerEnds
        <3>2. << >> \in Seq(Frames) /\ Len(<< >>) <= QueueSize
            BY EmptySeq DEF QueueSize
        <3>3. queue' \in [Clients -> Seq(Frames)] /\ \A d \in Clients : Len(queue'[d]) <= QueueSize
            BY <3>1, <3>2, Zenon DEF TypeOK
        <3>4. /\ ws' = [ws EXCEPT ![c] = "closed"] /\ gone' = gone \ {c}
              /\ shown' = [shown EXCEPT ![c] = NoFrame]
              /\ pushed' = [pushed EXCEPT ![c] = NoFrame]
              /\ UNCHANGED <<first, latest, sequence, storeVars, pollVars, workerVars>>
            BY <1>12, <2>2 DEF Deliver, HandlerEnds
        <3>5. /\ ws' \in [Clients -> {"closed", "open", "live", "leaked"}]
              /\ gone' \subseteq Clients
              /\ shown' \in [Clients -> Frames] /\ pushed' \in [Clients -> Frames]
            BY <3>4, <1>b DEF TypeOK
        <3> QED
            BY <3>3, <3>4, <3>5 DEF TypeOK, storeVars, pollVars, workerVars
    <2>3. CASE c \notin gone
        BY <1>12, <2>1, <2>3 DEF TypeOK, Deliver, storeVars, pollVars, workerVars
    <2> QED
        BY <2>2, <2>3
<1>13. ASSUME NEW c \in Clients, Subscribe(c) PROVE TypeOK'
    BY <1>13 DEF TypeOK, Subscribe, storeVars, pollVars, workerVars
<1>14. ASSUME NEW c \in Clients, HangUp(c) PROVE TypeOK'
    BY <1>14 DEF TypeOK, HangUp, storeVars, pollVars, workerVars
<1>15. CASE UNCHANGED vars
    BY <1>15 DEF TypeOK, vars
<1> QED
    BY <1>1, <1>2, <1>3, <1>4, <1>5, <1>6, <1>7, <1>8, <1>9, <1>10, <1>11, <1>12,
       <1>13, <1>14, <1>15
    DEF Next, Handler, PollStep, WorkerStep, ClientStep, Environment

\* Every variable of the feed keeps its type, and no subscriber queue ever
\* holds more than one frame (SnapshotService, dashboard_ws).
THEOREM TypeCorrect == Spec => []TypeOK
BY TypeInit, TypeStep, PTL DEF Spec

-----------------------------------------------------------------------------
(* The active connection is a saved row.                                   *)

\* A deleted row is the active one, or another row holds the connection.
LEMMA ActiveIsSavedStep == TypeOK /\ ActiveIsSaved /\ [Next]_vars => ActiveIsSaved'
<1> SUFFICES ASSUME TypeOK, ActiveIsSaved, [Next]_vars PROVE ActiveIsSaved'
    OBVIOUS
<1>1. ASSUME NEW i \in RowIds, NEW r \in Routers, Save(i, r) PROVE ActiveIsSaved'
    BY <1>1 DEF TypeOK, ActiveIsSaved, Save
<1>2. ASSUME NEW i \in RowIds, Delete(i) PROVE ActiveIsSaved'
    BY <1>2 DEF TypeOK, ActiveIsSaved, Delete, IsActive, ClearConnection
<1>3. ASSUME NEW r \in RouterOrNone, Restart(r) PROVE ActiveIsSaved'
    BY <1>3 DEF ActiveIsSaved, Restart, Restores, Saved
<1>4. CASE UNCHANGED <<rows, conn>>
    BY <1>4 DEF ActiveIsSaved
<1> QED
    BY <1>1, <1>2, <1>3, <1>4
    DEF Next, Handler, PollStep, WorkerStep, ClientStep, Environment, PublishResult,
        PublishFailure, Pick, ReadConnection, CollectFails, Collect, Store, SendFirst,
        Deliver, Subscribe, HangUp, storeVars, vars

\* The feed is only ever pointed at a device that is saved, and comes back
\* from a restart pointed at one (save, delete_connection, lifespan).
THEOREM ActiveIsSavedHolds == Spec => []ActiveIsSaved
<1>1. Init => ActiveIsSaved
    BY DEF Init, ActiveIsSaved, Restores, Saved
<1> QED
    BY <1>1, ActiveIsSavedStep, TypeCorrect, PTL DEF Spec

-----------------------------------------------------------------------------
(* Labels.                                                                 *)

\* Publishing a correctly labelled frame leaves correct labels in the queues.
LEMMA PublishLabels ==
    ASSUME TypeOK, LabelMatchesSnapshot, NEW f \in Frames, Labelled(f), Publish(f)
    PROVE  \A c \in Clients :
             /\ Labelled(first'[c]) /\ Labelled(shown'[c]) /\ Labelled(pushed'[c])
             /\ queue'[c] # << >> => Labelled(Head(queue'[c]))
<1> SUFFICES ASSUME NEW c \in Clients
             PROVE  /\ Labelled(first'[c]) /\ Labelled(shown'[c]) /\ Labelled(pushed'[c])
                    /\ queue'[c] # << >> => Labelled(Head(queue'[c]))
    OBVIOUS
<1>1. Labelled(first'[c]) /\ Labelled(shown'[c]) /\ Labelled(pushed'[c])
    BY DEF LabelMatchesSnapshot, Publish
<1>2. CASE c \in Subscribed
    <2>1. queue'[c] = Offer(queue[c], f)
        BY <1>2 DEF Publish
    <2>2. queue[c] \in Seq(Frames) /\ Len(queue[c]) <= QueueSize
        BY DEF TypeOK
    <2>3. Head(Offer(queue[c], f)) = f
        BY <2>2, OfferKeepsNewest
    <2> QED
        BY <1>1, <2>1, <2>3
<1>3. CASE c \notin Subscribed
    BY <1>1, <1>3 DEF Publish, LabelMatchesSnapshot
<1> QED
    BY <1>2, <1>3

\* The frames the service builds are labelled; a retained snapshot keeps the
\* device id of the frame it is taken from.
LEMMA BuiltLabels ==
    ASSUME TypeOK, LabelMatchesSnapshot
    PROVE  /\ Labelled(NoFrame) /\ Labelled(RetainedFrame) /\ Labelled(DisconnectedFrame)
           /\ \A r \in RouterOrNone : Labelled(CollectedFrame(r))
BY DEF Labelled, NoFrame, RetainedFrame, FrameDevice, DisconnectedFrame, CollectedFrame,
       LabelMatchesSnapshot

LEMMA LabelStep == TypeOK /\ LabelMatchesSnapshot /\ [Next]_vars => LabelMatchesSnapshot'
<1> SUFFICES ASSUME TypeOK, LabelMatchesSnapshot, [Next]_vars PROVE LabelMatchesSnapshot'
    OBVIOUS
<1>a. /\ Labelled(NoFrame) /\ Labelled(RetainedFrame) /\ Labelled(DisconnectedFrame)
      /\ \A r \in RouterOrNone : Labelled(CollectedFrame(r))
    BY BuiltLabels
<1>b. RetainedFrame \in Frames /\ DisconnectedFrame \in Frames
    BY BuiltFrames
<1>1. ASSUME NEW i \in RowIds, NEW r \in Routers, Save(i, r) PROVE LabelMatchesSnapshot'
    BY <1>1, <1>a DEF LabelMatchesSnapshot, Labelled, Save, StartPolling, workerVars, clientVars
<1>2. ASSUME NEW i \in RowIds, Delete(i) PROVE LabelMatchesSnapshot'
    <2>1. CASE IsActive(i)
        <3>1. ClearConnection /\ Publish(DisconnectedFrame) /\ UNCHANGED workerVars
            BY <1>2, <2>1 DEF Delete, ClearConnection
        <3>2. \A c \in Clients :
                /\ Labelled(first'[c]) /\ Labelled(shown'[c]) /\ Labelled(pushed'[c])
                /\ queue'[c] # << >> => Labelled(Head(queue'[c]))
            BY <3>1, <1>a, <1>b, PublishLabels
        <3>3. latest' = DisconnectedFrame /\ result' = NoFrame /\ wframe' = wframe
            BY <3>1 DEF ClearConnection, CancelTask, workerVars
        <3>4. Labelled(latest') /\ Labelled(result') /\ \A w \in Workers : Labelled(wframe'[w])
            BY <3>3, <1>a DEF LabelMatchesSnapshot
        <3> QED
            BY <3>2, <3>4 DEF LabelMatchesSnapshot, Labelled
    <2>2. CASE ~IsActive(i)
        BY <1>2, <2>2 DEF LabelMatchesSnapshot, Labelled, Delete, workerVars, pollVars, clientVars
    <2> QED
        BY <2>1, <2>2
<1>3. ASSUME NEW r \in RouterOrNone, Restart(r) PROVE LabelMatchesSnapshot'
    BY <1>3, <1>a DEF LabelMatchesSnapshot, Labelled, Restart
<1>4. ASSUME PublishResult PROVE LabelMatchesSnapshot'
    <2>1. \A c \in Clients :
            /\ Labelled(first'[c]) /\ Labelled(shown'[c]) /\ Labelled(pushed'[c])
            /\ queue'[c] # << >> => Labelled(Head(queue'[c]))
        BY <1>4, PublishLabels DEF PublishResult, TypeOK, LabelMatchesSnapshot
    <2>2. Labelled(latest') /\ Labelled(result') /\ \A w \in Workers : Labelled(wframe'[w])
        BY <1>4, <1>a DEF PublishResult, LabelMatchesSnapshot, workerVars
    <2> QED
        BY <2>1, <2>2 DEF LabelMatchesSnapshot, Labelled
<1>5. ASSUME PublishFailure PROVE LabelMatchesSnapshot'
    <2>1. \A c \in Clients :
            /\ Labelled(first'[c]) /\ Labelled(shown'[c]) /\ Labelled(pushed'[c])
            /\ queue'[c] # << >> => Labelled(Head(queue'[c]))
        BY <1>5, <1>a, <1>b, PublishLabels DEF PublishFailure
    <2>2. Labelled(latest') /\ Labelled(result') /\ \A w \in Workers : Labelled(wframe'[w])
        BY <1>5, <1>a DEF PublishFailure, LabelMatchesSnapshot, workerVars
    <2> QED
        BY <2>1, <2>2 DEF LabelMatchesSnapshot, Labelled
<1>6. ASSUME NEW w \in Workers, ReadConnection(w) \/ Collect(w) \/ Store(w)
      PROVE  LabelMatchesSnapshot'
    <2>1. CASE ReadConnection(w)
        <3>1. /\ wframe' = wframe \/ wframe' = [wframe EXCEPT ![w] = RetainedFrame]
              /\ UNCHANGED <<latest, result, first, shown, pushed, queue>>
            BY <2>1 DEF ReadConnection, pollVars, clientVars
        <3>2. \A v \in Workers : Labelled(wframe'[v])
            BY <3>1, <1>a DEF TypeOK, LabelMatchesSnapshot
        <3> QED
            BY <3>1, <3>2 DEF LabelMatchesSnapshot, Labelled
    <2>2. CASE Collect(w)
        BY <2>2, <1>a DEF TypeOK, LabelMatchesSnapshot, Labelled, Collect, pollVars, clientVars
    <2>3. CASE Store(w)
        BY <2>3, <1>a DEF TypeOK, LabelMatchesSnapshot, Labelled, Store, clientVars
    <2> QED
        BY <1>6, <2>1, <2>2, <2>3
<1>7. ASSUME NEW c \in Clients, SendFirst(c) \/ Subscribe(c) PROVE LabelMatchesSnapshot'
    <2>1. UNCHANGED <<queue, pushed, latest, result, wframe>>
        BY <1>7 DEF SendFirst, Subscribe, pollVars, workerVars
    <2>2. \A d \in Clients : Labelled(first'[d]) /\ Labelled(shown'[d])
        <3> USE DEF TypeOK, LabelMatchesSnapshot
        <3>1. CASE SendFirst(c)
            BY <3>1, <1>a DEF SendFirst
        <3>2. CASE Subscribe(c)
            BY <3>2 DEF Subscribe
        <3> QED
            BY <1>7, <3>1, <3>2
    <2> QED
        BY <2>1, <2>2 DEF LabelMatchesSnapshot, Labelled
<1>8. ASSUME NEW c \in Clients, Deliver(c) PROVE LabelMatchesSnapshot'
    <2>1. queue[c] \in Seq(Frames) /\ queue[c] # << >> /\ Len(queue[c]) <= 1
        BY <1>8 DEF TypeOK, Deliver, QueueSize
    <2>2. Tail(queue[c]) = << >>
        BY <2>1, OneFrameQueue
    <2>3. queue' = [queue EXCEPT ![c] = << >>]
        BY <1>8, <2>2 DEF Deliver, HandlerEnds
    <2>4. \A d \in Clients : queue'[d] # << >> => Labelled(Head(queue'[d]))
        BY <2>3 DEF TypeOK, LabelMatchesSnapshot
    <2>5. \A d \in Clients : Labelled(first'[d]) /\ Labelled(shown'[d]) /\ Labelled(pushed'[d])
        <3> USE DEF TypeOK, LabelMatchesSnapshot
        <3>1. CASE c \in gone
            BY <1>8, <3>1, <1>a DEF Deliver, HandlerEnds
        <3>2. CASE c \notin gone
            BY <1>8, <3>2 DEF Deliver
        <3> QED
            BY <3>1, <3>2
    <2>6. UNCHANGED <<latest, result, wframe>>
        BY <1>8 DEF Deliver, pollVars, workerVars
    <2> QED
        BY <2>4, <2>5, <2>6 DEF LabelMatchesSnapshot, Labelled
<1>9. CASE UNCHANGED <<latest, result, wframe, first, shown, pushed, queue>>
    BY <1>9 DEF LabelMatchesSnapshot, Labelled
<1> QED
    BY <1>1, <1>2, <1>3, <1>4, <1>5, <1>6, <1>7, <1>8, <1>9
    DEF Next, Handler, PollStep, WorkerStep, ClientStep, Environment, Pick, CollectFails,
        HangUp, storeVars, pollVars, workerVars, clientVars, vars

\* No frame that is stored, queued or sent names a device other than the one
\* its snapshot was collected from (SnapshotService._frame).
THEOREM LabelsAreRight == Spec => []LabelMatchesSnapshot
<1>1. Init => LabelMatchesSnapshot
    BY DEF Init, LabelMatchesSnapshot, Labelled, NoFrame
<1> QED
    BY <1>1, LabelStep, TypeCorrect, PTL DEF Spec

-----------------------------------------------------------------------------
(* What is waiting for a client.                                           *)

\* The poll task waits for a worker exactly while it is running.
OwnerMatchesTask ==
    task = "running" <=> owner # NoWorker

\* A closed connection has nothing waiting, and one that has not been sent
\* its first frame has been offered nothing that is not still waiting.
NothingLost ==
    \A c \in Clients :
        /\ ws[c] = "closed" => queue[c] = << >> /\ pushed[c] = NoFrame
        /\ ws[c] = "open" /\ queue[c] = << >> => pushed[c] = NoFrame

LEMMA OwnerStep == TypeOK /\ OwnerMatchesTask /\ [Next]_vars => OwnerMatchesTask'
BY FeedAssumption
DEF TypeOK, OwnerMatchesTask, Next, Handler, PollStep, WorkerStep, ClientStep, Environment,
    Save, StartPolling, Delete, ClearConnection, CancelTask, Restart, PublishResult,
    PublishFailure, PollingGoesOn, Pick, ReadConnection, CollectFails, Collect, Store,
    SendFirst, Deliver, Subscribe, HangUp, pollVars, vars

\* After a publication the frame is what waits for every subscriber.
LEMMA PublishReaches ==
    ASSUME TypeOK, NEW f \in Frames, Publish(f), NEW c \in Subscribed
    PROVE  queue'[c] # << >> /\ Head(queue'[c]) = f /\ pushed'[c] = f
<1>1. c \in Clients /\ queue[c] \in Seq(Frames) /\ Len(queue[c]) <= QueueSize
    BY DEF TypeOK, Subscribed
<1>2. queue'[c] = Offer(queue[c], f) /\ pushed'[c] = f
    BY <1>1 DEF Publish
<1>3. /\ Offer(queue[c], f) \in Seq(Frames) /\ Len(Offer(queue[c], f)) = 1
      /\ Head(Offer(queue[c], f)) = f
    BY <1>1, OfferKeepsNewest
<1>4. Offer(queue[c], f) # << >>
    BY <1>3, EmptySeq
<1> QED
    BY <1>2, <1>3, <1>4

\* A publication leaves the others alone.
LEMMA PublishSpares ==
    ASSUME TypeOK, NEW f \in Frames, Publish(f), NEW c \in Clients, c \notin Subscribed
    PROVE  queue'[c] = queue[c] /\ pushed'[c] = pushed[c]
BY DEF Publish

LEMMA PublishKeeps ==
    ASSUME TypeOK, NothingLost, NewestReachesClient, NEW f \in Frames, Publish(f)
    PROVE  NothingLost' /\ NewestReachesClient'
<1>1. ws' = ws /\ shown' = shown
    BY DEF Publish
<1>2. \A c \in Clients : c \in Subscribed <=> ws[c] # "closed"
    BY DEF Subscribed
<1>3. \A c \in Subscribed : queue'[c] # << >> /\ Head(queue'[c]) = f /\ pushed'[c] = f
    BY PublishReaches
<1>4. \A c \in Clients : c \notin Subscribed => queue'[c] = queue[c] /\ pushed'[c] = pushed[c]
    BY PublishSpares
<1>5. NothingLost'
    BY <1>1, <1>2, <1>3, <1>4 DEF NothingLost, NoFrame
<1>6. NewestReachesClient'
    BY <1>1, <1>2, <1>3 DEF NewestReachesClient, NoFrame
<1> QED
    BY <1>5, <1>6

LEMMA NewestStep ==
    TypeOK /\ NothingLost /\ NewestReachesClient /\ [Next]_vars
        => NothingLost' /\ NewestReachesClient'
<1> SUFFICES ASSUME TypeOK, NothingLost, NewestReachesClient, [Next]_vars
             PROVE  NothingLost' /\ NewestReachesClient'
    OBVIOUS
<1>a. RetainedFrame \in Frames /\ DisconnectedFrame \in Frames /\ result \in Frames
    BY BuiltFrames DEF TypeOK
<1>b. NoFrame' = NoFrame
    BY DEF NoFrame
<1>1. CASE UNCHANGED clientVars
    BY <1>1, <1>b DEF clientVars, NothingLost, NewestReachesClient
<1>2. ASSUME NEW f \in Frames, Publish(f) PROVE NothingLost' /\ NewestReachesClient'
    BY <1>2, PublishKeeps
<1>3. ASSUME NEW r \in RouterOrNone, Restart(r) PROVE NothingLost' /\ NewestReachesClient'
    BY <1>3, <1>b DEF Restart, NothingLost, NewestReachesClient
<1>4. ASSUME NEW c \in Clients, SendFirst(c) PROVE NothingLost' /\ NewestReachesClient'
    <2>1. ws[c] = "open" /\ UNCHANGED <<queue, pushed>>
        BY <1>4 DEF SendFirst
    <2>2. \A d \in Clients : d # c => ws'[d] = ws[d] /\ shown'[d] = shown[d]
        BY <1>4 DEF SendFirst, TypeOK
    <2>3. ws'[c] \in {"leaked", "live"}
        BY <1>4 DEF SendFirst, TypeOK
    <2>4. NothingLost'
        BY <2>1, <2>2, <2>3, <1>b DEF NothingLost
    <2>5. NewestReachesClient'
        BY <2>1, <2>2, <2>3, <1>b DEF NothingLost, NewestReachesClient
    <2> QED
        BY <2>4, <2>5
<1>5. ASSUME NEW c \in Clients, Deliver(c) PROVE NothingLost' /\ NewestReachesClient'
    <2>1. ws[c] = "live" /\ queue[c] \in Seq(Frames) /\ queue[c] # << >> /\ Len(queue[c]) <= 1
        BY <1>5 DEF TypeOK, Deliver, QueueSize
    <2>2. Tail(queue[c]) = << >>
        BY <2>1, OneFrameQueue
    <2>3. queue' = [queue EXCEPT ![c] = << >>]
        BY <1>5, <2>2 DEF Deliver, HandlerEnds
    <2>4. \A d \in Clients : d # c => /\ ws'[d] = ws[d] /\ shown'[d] = shown[d]
                                     /\ pushed'[d] = pushed[d] /\ queue'[d] = queue[d]
        BY <1>5, <2>3 DEF Deliver, HandlerEnds, TypeOK
    <2>5. queue'[c] = << >>
        BY <2>3 DEF TypeOK
    <2>6. CASE c \in gone
        <3>1. ws'[c] = "closed" /\ pushed'[c] = NoFrame
            BY <1>5, <2>6 DEF Deliver, HandlerEnds, TypeOK
        <3> QED
            BY <2>4, <2>5, <3>1, <1>b DEF NothingLost, NewestReachesClient
    <2>7. CASE c \notin gone
        <3>1. ws'[c] = "live" /\ pushed'[c] = pushed[c] /\ shown'[c] = Head(queue[c])
            BY <1>5, <2>1, <2>7 DEF Deliver, TypeOK
        <3>2. Head(queue[c]) = pushed[c]
            BY <2>1 DEF NewestReachesClient
        <3> QED
            BY <2>4, <2>5, <3>1, <3>2, <1>b DEF NothingLost, NewestReachesClient
    <2> QED
        BY <2>6, <2>7
<1>6. ASSUME NEW c \in Clients, Subscribe(c) PROVE NothingLost' /\ NewestReachesClient'
    <2>1. ws[c] = "closed" /\ UNCHANGED <<queue, pushed, shown>>
        BY <1>6 DEF Subscribe
    <2>2. \A d \in Clients : d # c => ws'[d] = ws[d]
        BY <1>6 DEF Subscribe, TypeOK
    <2>3. queue[c] = << >> /\ pushed[c] = NoFrame
        BY <2>1 DEF NothingLost
    <2> QED
        BY <2>1, <2>2, <2>3, <1>b DEF NothingLost, NewestReachesClient
<1>7. ASSUME NEW c \in Clients, HangUp(c) PROVE NothingLost' /\ NewestReachesClient'
    BY <1>7, <1>b DEF HangUp, NothingLost, NewestReachesClient
<1>8. ASSUME NEW i \in RowIds, Delete(i) PROVE UNCHANGED clientVars \/ Publish(DisconnectedFrame)
    BY <1>8 DEF Delete, ClearConnection
<1>9. PublishResult => Publish(result)
    BY DEF PublishResult
<1>10. PublishFailure => Publish(RetainedFrame)
    BY DEF PublishFailure
<1> QED
    BY <1>a, <1>1, <1>2, <1>3, <1>4, <1>5, <1>6, <1>7, <1>8, <1>9, <1>10
    DEF Next, Handler, PollStep, WorkerStep, ClientStep, Environment, Save, Pick,
        ReadConnection, CollectFails, Collect, Store, vars, clientVars

\* What a connected client has been sent, or is about to be, is the last
\* frame published to it (_send, dashboard_ws).
THEOREM NewestIsNotLost == Spec => []NewestReachesClient
<1>1. Init => NothingLost /\ NewestReachesClient
    BY DEF Init, NothingLost, NewestReachesClient
<1> QED
    BY <1>1, NewestStep, TypeCorrect, PTL DEF Spec

-----------------------------------------------------------------------------
(* Detaching.                                                              *)

LEMMA QuietStep ==
    TypeOK /\ OwnerMatchesTask /\ NothingLost /\ DetachedIsQuiet /\ [Next]_vars
        => DetachedIsQuiet'
<1> SUFFICES ASSUME TypeOK, OwnerMatchesTask, NothingLost, DetachedIsQuiet, [Next]_vars,
                    conn' = NoRouter
             PROVE  /\ task' = "none"
                    /\ \A c \in Clients : queue'[c] # << >> => Head(queue'[c]).snap = NoRouter
    BY DEF DetachedIsQuiet
<1>1. ASSUME NEW i \in RowIds, Delete(i), IsActive(i)
      PROVE  /\ task' = "none"
             /\ \A c \in Clients : queue'[c] # << >> => Head(queue'[c]).snap = NoRouter
    <2>1. Publish(DisconnectedFrame) /\ task' = "none"
        BY <1>1 DEF Delete, ClearConnection, CancelTask
    <2>2. DisconnectedFrame \in Frames /\ DisconnectedFrame.snap = NoRouter
        BY BuiltFrames DEF DisconnectedFrame
    <2>3. \A c \in Subscribed : Head(queue'[c]) = DisconnectedFrame
        BY <2>1, <2>2, PublishReaches
    <2>4. \A c \in Clients : c \notin Subscribed => queue'[c] = queue[c] /\ queue[c] = << >>
        BY <2>1, <2>2, PublishSpares DEF NothingLost, Subscribed
    <2> QED
        BY <2>1, <2>2, <2>3, <2>4
<1>2. ASSUME NEW r \in RouterOrNone, Restart(r)
      PROVE  task' = "none" /\ \A c \in Clients : queue'[c] = << >>
    BY <1>2 DEF Restart
<1>3. ASSUME NEW i \in RowIds, NEW r \in Routers, Save(i, r) PROVE FALSE
    BY <1>3, FeedAssumption DEF Save
<1>4. ASSUME conn = NoRouter, task' = task, queue' = queue
      PROVE  /\ task' = "none"
             /\ \A c \in Clients : queue'[c] # << >> => Head(queue'[c]).snap = NoRouter
    BY <1>4 DEF DetachedIsQuiet
<1>5. ASSUME conn = NoRouter PROVE task = "none" /\ owner = NoWorker
    BY <1>5 DEF DetachedIsQuiet, OwnerMatchesTask
<1>6. ASSUME NEW i \in RowIds, Delete(i), ~IsActive(i)
      PROVE  conn = NoRouter /\ task' = task /\ queue' = queue
    BY <1>6 DEF Delete, pollVars, clientVars
<1>7. ASSUME NEW c \in Clients, Deliver(c)
      PROVE  /\ task' = "none"
             /\ \A d \in Clients : queue'[d] # << >> => Head(queue'[d]).snap = NoRouter
    <2>1. conn = NoRouter /\ task' = task
        BY <1>7 DEF Deliver, storeVars, pollVars
    <2>2. queue[c] \in Seq(Frames) /\ queue[c] # << >> /\ Len(queue[c]) <= 1
        BY <1>7 DEF TypeOK, Deliver, QueueSize
    <2>3. Tail(queue[c]) = << >>
        BY <2>2, OneFrameQueue
    <2>4. queue' = [queue EXCEPT ![c] = << >>]
        BY <1>7, <2>3 DEF Deliver, HandlerEnds
    <2> QED
        BY <2>1, <2>4 DEF DetachedIsQuiet, TypeOK
<1>8. ASSUME PublishResult \/ PublishFailure PROVE FALSE
    <2>1. conn = NoRouter /\ task # "none"
        BY <1>8 DEF PublishResult, PublishFailure, storeVars
    <2> QED
        BY <2>1, <1>5
<1>9. ASSUME NEW w \in Workers, Pick(w) \/ WorkerStep(w)
      PROVE  conn = NoRouter /\ task' = task /\ queue' = queue
    <2>1. conn = NoRouter /\ queue' = queue
        BY <1>9 DEF Pick, WorkerStep, ReadConnection, CollectFails, Collect, Store, storeVars, clientVars
    <2>2. task = "none" /\ owner # w
        BY <2>1, <1>5, FeedAssumption
    <2> QED
        BY <1>9, <2>1, <2>2
        DEF Pick, WorkerStep, ReadConnection, CollectFails, Collect, Store, pollVars
<1>10. ASSUME NEW c \in Clients, SendFirst(c) \/ Subscribe(c) \/ HangUp(c)
       PROVE  conn = NoRouter /\ task' = task /\ queue' = queue
    BY <1>10 DEF SendFirst, Subscribe, HangUp, storeVars, pollVars
<1>11. ASSUME UNCHANGED vars PROVE conn = NoRouter /\ task' = task /\ queue' = queue
    BY <1>11 DEF vars
<1> QED
    BY <1>1, <1>2, <1>3, <1>4, <1>6, <1>7, <1>8, <1>9, <1>10, <1>11
    DEF Next, Handler, PollStep, ClientStep, Environment

\* With no router configured nothing polls, and no subscriber is left with a
\* router's snapshot in its queue (clear_connection).
THEOREM DetachedFeedIsQuiet == Spec => []DetachedIsQuiet
<1>1. Init => OwnerMatchesTask /\ NothingLost /\ DetachedIsQuiet
    BY FeedAssumption DEF Init, OwnerMatchesTask, NothingLost, DetachedIsQuiet
<1>2. Init => NewestReachesClient
    BY DEF Init, NewestReachesClient
<1> QED
    BY <1>1, <1>2, OwnerStep, NewestStep, QuietStep, TypeCorrect, PTL DEF Spec

-----------------------------------------------------------------------------
(* The order of publication.                                               *)

Newer(f, g) == f.seq > g.seq \/ f.seq = MaxSeq

\* Every frame that is held or was published carries a number that was drawn.
NumbersDrawn ==
    /\ result.seq <= sequence
    /\ \A w \in Workers : wframe[w].seq <= sequence
    /\ \A c \in Clients : pushed[c].seq <= sequence

\* The frame the poll task's own worker stamped, which the task will publish,
\* is newer than all a client was offered: nobody else publishes until then.
OwnFrameIsNewer ==
    /\ owner # NoWorker =>
         /\ wpc[owner] # "free"
         /\ wpc[owner] = "store" => \A c \in Clients : Newer(wframe[owner], pushed[c])
    /\ task = "done" => \A c \in Clients : Newer(result, pushed[c])

OrderInv == TypeOK /\ OwnerMatchesTask /\ NumbersDrawn /\ OwnFrameIsNewer

\* A frame that is newer than one is newer than none.
LEMMA NewerThanNone ==
    ASSUME NEW f \in Frames, NEW g \in Frames, Newer(f, g)
    PROVE  Newer(f, NoFrame)
BY FeedAssumption DEF Newer, Frames, NoFrame

\* A frame stamped now is newer than any that was published.
LEMMA StampedIsNewer ==
    ASSUME TypeOK, NumbersDrawn, NEW c \in Clients
    PROVE  \A f \in Frames : f.seq = NextSeq => Newer(f, pushed[c])
<1>1. pushed[c].seq \in 0..MaxSeq /\ pushed[c].seq <= sequence /\ sequence \in 0..MaxSeq
    BY DEF NumbersDrawn, TypeOK, Frames
<1> QED
    BY <1>1, FeedAssumption DEF NextSeq, Newer

\* The frames the service builds carry the next number.
LEMMA BuiltNumbers ==
    /\ RetainedFrame.seq = NextSeq /\ DisconnectedFrame.seq = NextSeq
    /\ \A r \in RouterOrNone : CollectedFrame(r).seq = NextSeq
BY DEF RetainedFrame, DisconnectedFrame, CollectedFrame

LEMMA DrawnStep == TypeOK /\ NumbersDrawn /\ [Next]_vars => NumbersDrawn'
<1> SUFFICES ASSUME TypeOK, NumbersDrawn, [Next]_vars PROVE NumbersDrawn'
    OBVIOUS
<1>a. /\ result.seq \in Nat /\ sequence \in Nat /\ NextSeq \in Nat /\ sequence <= NextSeq
      /\ \A w \in Workers : wframe[w].seq \in Nat
      /\ \A c \in Clients : pushed[c].seq \in Nat
    <2>1. NextSeq \in 0..MaxSeq /\ sequence \in 0..MaxSeq /\ NextSeq >= sequence
        BY NextSeqInRange DEF TypeOK
    <2>2. \A f \in Frames : f.seq \in 0..MaxSeq
        BY DEF Frames
    <2>3. result \in Frames /\ wframe \in [Workers -> Frames] /\ pushed \in [Clients -> Frames]
        BY DEF TypeOK
    <2> QED
        BY <2>1, <2>2, <2>3, FeedAssumption
<1>b. NoFrame.seq = 0
    BY DEF NoFrame
<1>1. CASE UNCHANGED <<sequence, result, wframe, pushed>>
    BY <1>1 DEF NumbersDrawn
<1>2. ASSUME NEW i \in RowIds, Delete(i), IsActive(i) PROVE NumbersDrawn'
    <2>1. /\ sequence' = NextSeq /\ result' = NoFrame /\ wframe' = wframe
          /\ Publish(DisconnectedFrame)
        BY <1>2 DEF Delete, ClearConnection, CancelTask, workerVars
    <2>2. \A c \in Clients : pushed'[c] \in {pushed[c], DisconnectedFrame}
        BY <2>1 DEF Publish
    <2> QED
        BY <2>1, <2>2, <1>a, <1>b, BuiltNumbers DEF NumbersDrawn
<1>3. ASSUME NEW i \in RowIds, Delete(i), ~IsActive(i) PROVE NumbersDrawn'
    BY <1>3 DEF Delete, workerVars, pollVars, clientVars, NumbersDrawn
<1>4. ASSUME NEW r \in RouterOrNone, Restart(r) PROVE NumbersDrawn'
    BY <1>4, <1>b DEF Restart, NumbersDrawn
<1>5. ASSUME PublishResult PROVE NumbersDrawn'
    <2>1. /\ sequence' = sequence /\ result' = NoFrame /\ wframe' = wframe
          /\ \A c \in Clients : pushed'[c] \in {pushed[c], result}
        BY <1>5 DEF PublishResult, Publish, workerVars
    <2> QED
        BY <2>1, <1>a, <1>b DEF NumbersDrawn
<1>6. ASSUME PublishFailure PROVE NumbersDrawn'
    <2>1. /\ sequence' = NextSeq /\ result' = result /\ wframe' = wframe
          /\ \A c \in Clients : pushed'[c] \in {pushed[c], RetainedFrame}
        BY <1>6 DEF PublishFailure, Publish, workerVars
    <2> QED
        BY <2>1, <1>a, BuiltNumbers DEF NumbersDrawn
<1>7. ASSUME NEW w \in Workers, ReadConnection(w) \/ Collect(w) PROVE NumbersDrawn'
    <2>1. /\ sequence' \in {sequence, NextSeq} /\ result' = result /\ pushed' = pushed
          /\ \A v \in Workers : v # w => wframe'[v] = wframe[v]
          /\ wframe'[w] = wframe[w] \/ (sequence' = NextSeq /\ wframe'[w].seq = NextSeq)
        <3> USE BuiltNumbers DEF TypeOK, pollVars, clientVars
        <3>1. CASE ReadConnection(w)
            BY <3>1 DEF ReadConnection
        <3>2. CASE Collect(w)
            BY <3>2 DEF Collect
        <3> QED
            BY <1>7, <3>1, <3>2
    <2> QED
        BY <2>1, <1>a DEF NumbersDrawn
<1>8. ASSUME NEW w \in Workers, Store(w) PROVE NumbersDrawn'
    <2>1. /\ sequence' = sequence /\ result' \in {result, wframe[w]} /\ pushed' = pushed
          /\ \A v \in Workers : wframe'[v] \in {wframe[v], NoFrame}
        BY <1>8 DEF TypeOK, Store, clientVars
    <2> QED
        BY <2>1, <1>a, <1>b DEF NumbersDrawn
<1>9. ASSUME NEW c \in Clients, Deliver(c) PROVE NumbersDrawn'
    <2>1. /\ UNCHANGED <<sequence, result, wframe>>
          /\ \A d \in Clients : pushed'[d] \in {pushed[d], NoFrame}
        BY <1>9 DEF TypeOK, Deliver, HandlerEnds, pollVars, workerVars
    <2> QED
        BY <2>1, <1>a, <1>b DEF NumbersDrawn
<1> QED
    BY <1>1, <1>2, <1>3, <1>4, <1>5, <1>6, <1>7, <1>8, <1>9
    DEF Next, Handler, PollStep, WorkerStep, ClientStep, Environment, Save, StartPolling,
        Pick, CollectFails, SendFirst, Subscribe, HangUp, pollVars, workerVars, clientVars, vars

LEMMA OrderStep == OrderInv /\ [Next]_vars => OwnFrameIsNewer'
<1> SUFFICES ASSUME OrderInv, [Next]_vars PROVE OwnFrameIsNewer'
    OBVIOUS
<1>a. TypeOK /\ OwnerMatchesTask /\ NumbersDrawn /\ OwnFrameIsNewer
    BY DEF OrderInv
<1>b. RetainedFrame \in Frames /\ \A r \in RouterOrNone : CollectedFrame(r) \in Frames
    BY <1>a, BuiltFrames
<1>c. /\ result \in Frames /\ \A w \in Workers : wframe[w] \in Frames
      /\ \A c \in Clients : pushed[c] \in Frames
    BY <1>a DEF TypeOK
<1>1. ASSUME owner' = NoWorker, task' # "done" PROVE OwnFrameIsNewer'
    BY <1>1 DEF OwnFrameIsNewer
<1>2. CASE UNCHANGED <<task, owner, result, wpc, wframe, pushed>>
    BY <1>2, <1>a DEF OwnFrameIsNewer, Newer
<1>3. ASSUME NEW i \in RowIds, NEW r \in Routers, Save(i, r) PROVE OwnFrameIsNewer'
    BY <1>3, <1>a DEF Save, StartPolling, workerVars, clientVars, OwnFrameIsNewer, Newer
<1>4. ASSUME NEW i \in RowIds, Delete(i) PROVE OwnFrameIsNewer'
    BY <1>1, <1>2, <1>4 DEF Delete, ClearConnection, CancelTask, workerVars, pollVars, clientVars
<1>5. ASSUME NEW r \in RouterOrNone, Restart(r) PROVE OwnFrameIsNewer'
    BY <1>1, <1>5 DEF Restart
<1>6. ASSUME PublishResult \/ PublishFailure PROVE OwnFrameIsNewer'
    <2>1. owner' = NoWorker /\ task' = "idle"
        BY <1>6, <1>a DEF PublishResult, PublishFailure, PollingGoesOn, OwnerMatchesTask
    <2> QED
        BY <1>1, <2>1
<1>7. ASSUME NEW w \in Workers, Pick(w) PROVE OwnFrameIsNewer'
    <2>1. owner' = w /\ wpc'[w] = "start" /\ task' = "running"
        BY <1>7, <1>a DEF Pick, TypeOK
    <2> QED
        BY <2>1 DEF OwnFrameIsNewer
<1>8. ASSUME NEW w \in Workers, ReadConnection(w) \/ Collect(w) PROVE OwnFrameIsNewer'
    <2>1. /\ UNCHANGED <<task, owner, result, pushed>>
          /\ \A v \in Workers : v # w => wframe'[v] = wframe[v] /\ wpc'[v] = wpc[v]
        BY <1>8, <1>a DEF ReadConnection, Collect, pollVars, clientVars, TypeOK
    <2>2. /\ wpc'[w] # "free"
          /\ wpc'[w] = "store" => wframe'[w] \in Frames /\ wframe'[w].seq = NextSeq
        <3> USE <1>a, <1>b, BuiltNumbers DEF TypeOK
        <3>1. CASE ReadConnection(w)
            BY <3>1 DEF ReadConnection
        <3>2. CASE Collect(w)
            BY <3>2 DEF Collect
        <3> QED
            BY <1>8, <3>1, <3>2
    <2>3. wpc'[w] = "store" => \A c \in Clients : Newer(wframe'[w], pushed[c])
        BY <2>2, <1>a, StampedIsNewer
    <2>4. owner \in Workers \cup {NoWorker}
        BY <1>a DEF TypeOK
    <2> QED
        BY <2>1, <2>2, <2>3, <2>4, <1>a DEF OwnFrameIsNewer, Newer
<1>9. ASSUME NEW w \in Workers, CollectFails(w) \/ Store(w) PROVE OwnFrameIsNewer'
    <2>1. pushed' = pushed /\ \A v \in Workers : v # w => wframe'[v] = wframe[v] /\ wpc'[v] = wpc[v]
        BY <1>9, <1>a DEF CollectFails, Store, clientVars, TypeOK
    <2>2. CASE owner # w
        <3>1. UNCHANGED <<task, owner, result>> /\ owner \in Workers \cup {NoWorker}
            BY <1>9, <1>a, <2>2 DEF CollectFails, Store, TypeOK
        <3> QED
            BY <2>1, <2>2, <3>1, <1>a DEF OwnFrameIsNewer, Newer
    <2>3. CASE owner = w /\ CollectFails(w)
        BY <1>1, <2>3 DEF CollectFails
    <2>4. CASE owner = w /\ Store(w)
        <3>1. owner' = NoWorker /\ result' = wframe[w] /\ wpc[w] = "store"
            BY <2>4 DEF Store
        <3>2. \A c \in Clients : Newer(wframe[w], pushed[c])
            BY <2>4, <3>1, <1>a, FeedAssumption DEF OwnFrameIsNewer
        <3> QED
            BY <2>1, <3>1, <3>2 DEF OwnFrameIsNewer, Newer
    <2> QED
        BY <1>9, <2>2, <2>3, <2>4
<1>10. ASSUME NEW c \in Clients, Deliver(c) PROVE OwnFrameIsNewer'
    <2>1. /\ UNCHANGED <<task, owner, result, wpc, wframe>>
          /\ \A d \in Clients : pushed'[d] \in {pushed[d], NoFrame}
        BY <1>10, <1>a DEF TypeOK, Deliver, HandlerEnds, pollVars, workerVars
    <2>2. \A f \in Frames, d \in Clients : Newer(f, pushed[d]) => Newer(f, pushed'[d])
        BY <2>1, <1>c, NewerThanNone, FeedAssumption DEF Newer
    <2>3. owner \in Workers \cup {NoWorker}
        BY <1>a DEF TypeOK
    <2> QED
        BY <2>1, <2>2, <2>3, <1>a, <1>c DEF OwnFrameIsNewer, Newer
<1> QED
    BY <1>2, <1>3, <1>4, <1>5, <1>6, <1>7, <1>8, <1>9, <1>10
    DEF Next, Handler, PollStep, WorkerStep, ClientStep, Environment, SendFirst, Subscribe,
        HangUp, pollVars, workerVars, clientVars, vars

\* A step publishes the next number, or the frame of the task's own worker.
LEMMA PublishesNewer ==
    OrderInv /\ [Next]_vars =>
        \A c \in Clients :
            pushed'[c] \notin {pushed[c], NoFrame} => Newer(pushed'[c], pushed[c])
<1> SUFFICES ASSUME OrderInv, [Next]_vars, NEW c \in Clients, pushed'[c] \notin {pushed[c], NoFrame}
             PROVE  Newer(pushed'[c], pushed[c])
    OBVIOUS
<1>a. TypeOK /\ NumbersDrawn /\ OwnFrameIsNewer
    BY DEF OrderInv
<1>1. ASSUME NEW f \in Frames, Publish(f) PROVE pushed'[c] = f
    BY <1>1 DEF Publish
<1>2. ASSUME NEW f \in Frames, Publish(f), f.seq = NextSeq PROVE Newer(pushed'[c], pushed[c])
    BY <1>1, <1>2, <1>a, StampedIsNewer
<1>3. RetainedFrame \in Frames /\ DisconnectedFrame \in Frames /\ result \in Frames
    BY <1>a, BuiltFrames DEF TypeOK
<1>4. ASSUME NEW i \in RowIds, Delete(i) PROVE Newer(pushed'[c], pushed[c])
    <2>1. Publish(DisconnectedFrame)
        BY <1>4 DEF Delete, ClearConnection, clientVars
    <2> QED
        BY <2>1, <1>2, <1>3, BuiltNumbers
<1>5. ASSUME PublishResult PROVE Newer(pushed'[c], pushed[c])
    BY <1>1, <1>3, <1>5, <1>a DEF PublishResult, OwnFrameIsNewer
<1>6. ASSUME PublishFailure PROVE Newer(pushed'[c], pushed[c])
    BY <1>2, <1>3, <1>6, BuiltNumbers DEF PublishFailure
<1>7. ASSUME NEW r \in RouterOrNone, Restart(r) PROVE FALSE
    BY <1>7 DEF Restart
<1>8. ASSUME NEW d \in Clients, Deliver(d) PROVE FALSE
    BY <1>8, <1>a DEF Deliver, HandlerEnds, TypeOK
<1>9. pushed' # pushed
    OBVIOUS
<1> QED
    BY <1>4, <1>5, <1>6, <1>7, <1>8, <1>9
    DEF Next, Handler, PollStep, WorkerStep, ClientStep, Environment, Save, Pick, ReadConnection,
        CollectFails, Collect, Store, SendFirst, Subscribe, HangUp, vars, clientVars

\* Frames are published in the order of their numbers, up to the model's cap
\* on numbers, although threads of cancelled tasks draw numbers as well
\* (SnapshotService._run, _frame, clear_connection).
THEOREM FramesAreInOrder == Spec => PublishedInOrder
<1>1. Init => OrderInv
    BY TypeInit, FeedAssumption
    DEF Init, OrderInv, OwnerMatchesTask, NumbersDrawn, OwnFrameIsNewer, NoFrame
<1>2. OrderInv /\ [Next]_vars => OrderInv'
    BY TypeStep, OwnerStep, DrawnStep, OrderStep DEF OrderInv
<1>3. OrderInv /\ [Next]_vars =>
        [\A c \in Clients : pushed'[c] \notin {pushed[c], NoFrame} =>
              pushed'[c].seq > pushed[c].seq \/ pushed'[c].seq = MaxSeq]_vars
    BY PublishesNewer DEF Newer
<1> QED
    BY <1>1, <1>2, <1>3, PTL DEF Spec, PublishedInOrder
=============================================================================
