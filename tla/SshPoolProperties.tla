-------------------------- MODULE SshPoolProperties --------------------------
(***************************************************************************)
(* What the connection pool promises its callers.                           *)
(***************************************************************************)
EXTENDS SshPool

\* Callers that own a permit.
Holders == {t \in Callers : pc[t] \notin {"out", "waiting"}}

\* Callers that own a connection, or one in the making.
Users == {t \in Callers : hand[t] # NoConn}

\* The pool never manages more than pool_size connections, idle ones and
\* those leased, validated, opened or closed for a caller together, although
\* idle connections need no permit and callers open new ones as soon as none
\* is idle; and no cancellation or failure ever returns a permit twice
\* (SSHConnectionPool._get_connection, release, acquire's finally clause).
NeverOverbooked ==
    /\ Len(idle) + Cardinality(Users) <= PoolSize
    /\ permits + Cardinality(Holders) <= PoolSize

\* A connection has one owner: it is idle once, or one caller's, or close's
\* (two callers never talk over one lease, release never doubles).
OneOwner ==
    /\ \A i, j \in 1..Len(idle) : idle[i] = idle[j] => i = j
    /\ \A t, u \in Users : hand[t] = hand[u] => t = u
    /\ \A i \in 1..Len(idle) : idle[i] # draining /\ \A t \in Users : idle[i] # hand[t]
    /\ \A t \in Users : hand[t] # draining

\* A permit never lies unused while callers queue: someone woken is about to
\* take it or to pass it on (asyncio.Semaphore, acquire and cancellation).
NoLostWakeup ==
    waiting # << >> /\ permits > 0 => \E t \in Callers : pc[t] = "woken"

\* Once close has returned, the pool keeps no connection, whichever leases
\* were out when it was called (close, acquire's finally clause).
ClosedPoolIsEmpty == closed /\ draining = NoConn => idle = << >>

\* Every queued caller is served or cancelled in the end, as long as no
\* cancelled close has lost a permit (acquire).
WaitersAreServed ==
    [](permits + Cardinality(Holders) = PoolSize) =>
        \A t \in Callers : pc[t] = "waiting" ~> pc[t] # "waiting"

\* close "marks the pool unusable": no connection is opened by a closed
\* pool.  A caller that queued before the close still opens one.
ClosedPoolOpensNothing ==
    [][closed => \A c \in Conns : link[c] = "none" => link'[c] # "opening"]_vars
=============================================================================
