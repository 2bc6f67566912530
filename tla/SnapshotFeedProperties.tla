----------------------- MODULE SnapshotFeedProperties -----------------------
(***************************************************************************)
(* What the snapshot feed promises the dashboard, the chat and the          *)
(* management layer.                                                        *)
(***************************************************************************)
EXTENDS SnapshotFeed

Labelled(f) == f.snap # NoRouter => f.device = f.snap

\* A frame never labels one device's snapshot with another device's id, even
\* when _frame retains a snapshot across a re-point of the feed, a failed
\* collection or a late worker (SnapshotService._frame).
LabelMatchesSnapshot ==
    /\ Labelled(latest) /\ Labelled(result)
    /\ \A w \in Workers : Labelled(wframe[w])
    /\ \A c \in Clients :
          /\ Labelled(first[c]) /\ Labelled(shown[c]) /\ Labelled(pushed[c])
          /\ queue[c] # << >> => Labelled(Head(queue[c]))

\* The active connection is always one of the saved rows, so a restart never
\* resurrects a device the feed had been detached from, and the feed is never
\* pointed at a device the operator deleted (save, delete_connection).
ActiveIsSaved ==
    conn # NoRouter => \E i \in RowIds : rows[i] = conn

\* While no router is configured nothing polls, and no subscriber still has
\* a router's snapshot waiting in its queue: the disconnected frame replaced
\* it (clear_connection, _broadcast_disconnected, _send).
DetachedIsQuiet ==
    conn = NoRouter =>
        /\ task = "none"
        /\ \A c \in Clients : queue[c] # << >> => Head(queue[c]).snap = NoRouter

\* The one-element queue loses old frames and never the newest: what a
\* connected client has last been sent, or is about to be, is the last frame
\* published since it subscribed (_send, dashboard_ws).
NewestReachesClient ==
    \A c \in Clients : ws[c] \in {"open", "live"} =>
        IF queue[c] # << >> THEN Head(queue[c]) = pushed[c]
                            ELSE pushed[c] # NoFrame => shown[c] = pushed[c]

\* Frames are published to a subscriber in the order of their sequence
\* numbers, although threads left over from cancelled tasks also draw
\* numbers (clear_connection cancels the task, so only one task publishes).
PublishedInOrder ==
    [][\A c \in Clients :
          pushed'[c] \notin {pushed[c], NoFrame} =>
              pushed'[c].seq > pushed[c].seq \/ pushed'[c].seq = MaxSeq]_vars

\* Polling survives failures and re-configuration: once the device stays
\* configured and collections stop failing, a client that stays connected
\* ends up with that device's connected frames only (_run: "keep polling
\* after failures").
FeedRecovers ==
    \A c \in Clients :
        /\ <>[](conn # NoRouter /\ ws[c] = "live" /\ c \notin gone)
        /\ <>[][conn' = conn /\ \A w \in Workers : ~CollectFails(w)]_vars
        => <>[](shown[c].connected /\ shown[c].snap = conn)

\* A client that hangs up in the receive loop does not stay subscribed while
\* a router is polled (the handler only notices when it sends).
HangUpIsNoticed ==
    \A c \in Clients :
        ~<>[](ws[c] = "live" /\ c \in gone /\ conn # NoRouter)

\* onboarding.py promises of a deletion that "stale snapshots are never
\* served for a removed router": with no router configured, latest() carries
\* no snapshot.  A collection still running in its thread breaks it.
RemovedRouterNotServed ==
    conn = NoRouter => latest.snap = NoRouter
=============================================================================
