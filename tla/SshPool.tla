------------------------------ MODULE SshPool ------------------------------
(***************************************************************************)
(* SSHConnectionPool over the paramiko backend, the one the router agent    *)
(* installs.  All callers run on one event loop, so the code between two    *)
(* suspensions is one action.  The suspensions are the semaphore, and the   *)
(* three calls paramiko makes in a thread: connect, the probe of validate,  *)
(* and close.  is_alive never suspends.                                     *)
(*                                                                         *)
(* A caller may be cancelled at each suspension.  The thread it waited for  *)
(* then finishes on its own: a connection being closed is closed, and one   *)
(* being opened may end up open with nobody to close it.                    *)
(*                                                                         *)
(* An operator named Mutant... is the next one with a mistake in it.  No    *)
(* specification uses it: it stands there to show that a property notices.  *)
(***************************************************************************)
EXTENDS Integers, FiniteSets, Sequences, SequencesExt

CONSTANTS
    Callers,    \* tasks that lease connections, one lease at a time
    Conns,      \* numbers of connections
    NoConn,     \* no connection
    PoolSize,   \* config.pool_size
    MaxCancels  \* how many times a caller is cancelled

ASSUME PoolAssumption ==
    /\ NoConn \notin Conns
    /\ IsFiniteSet(Callers)
    /\ Conns \subseteq Nat
    /\ PoolSize \in Nat \ {0}
    /\ MaxCancels \in Nat

VARIABLES
    permits,    \* the semaphore's value
    waiting,    \* the semaphore's queue: callers not woken yet
    idle,       \* _idle
    closed,     \* _closed
    draining,   \* the connection close() is closing
    pc,         \* pc[t]: where caller t stands
    hand,       \* hand[t]: the connection caller t works on
    probes,     \* probes[t]: caller t asked for validate=True
    link,       \* link[c]: the connection behind an SSHConnection
    cancels     \* cancellations so far

poolVars   == <<permits, waiting, idle, closed, draining>>
callerVars == <<pc, hand, probes>>
vars == <<permits, waiting, idle, closed, draining, pc, hand, probes, link, cancels>>

Stages == {"out", "waiting", "woken", "validating", "discarding", "connecting",
           "leased", "closing"}

TypeOK ==
    /\ permits \in 0..PoolSize
    /\ waiting \in Seq(Callers)
    /\ idle \in Seq(Conns)
    /\ closed \in BOOLEAN
    /\ draining \in Conns \cup {NoConn}
    /\ pc \in [Callers -> Stages]
    /\ hand \in [Callers -> Conns \cup {NoConn}]
    /\ probes \in [Callers -> BOOLEAN]
    /\ link \in [Conns -> {"none", "opening", "open", "dead"}]
    /\ cancels \in 0..MaxCancels

-----------------------------------------------------------------------------
(* asyncio.Semaphore.                                                      *)

\* locked: no permit, or someone is queued or woken and has not run yet.
Locked == permits = 0 \/ waiting # << >> \/ \E u \in Callers : pc[u] = "woken"

\* Of p permits, hand one to each of the first n callers queued in q.  stage
\* is where the callers stand otherwise.
PassOn(q, p, n, stage) ==
    LET k == IF n <= Len(q) THEN n ELSE Len(q)
        woken == {q[i] : i \in 1..k}
    IN  /\ permits' = p - k
        /\ waiting' = SubSeq(q, k + 1, Len(q))
        /\ pc' = [u \in Callers |-> IF u \in woken THEN "woken" ELSE stage[u]]

\* release: a new permit, and one caller woken.
MutantReleasePermit(t) == PassOn(waiting, permits + 1, 0, [pc EXCEPT ![t] = "out"])
ReleasePermit(t) == PassOn(waiting, permits + 1, 1, [pc EXCEPT ![t] = "out"])

\* The end of an acquire, cancelled or not: wake callers while permits are
\* left.
MutantShare(q, p, t, s) == PassOn(q, p, 0, [pc EXCEPT ![t] = s])
Share(q, p, t, s) == PassOn(q, p, p, [pc EXCEPT ![t] = s])

-----------------------------------------------------------------------------
(* _get_connection, from the top of its loop to the next suspension.       *)

\* A new SSHConnection takes the first number that is free.
Opens(t, links) ==
    \E c \in Conns :
       /\ links[c] = "none" /\ \A d \in Conns : links[d] = "none" => c <= d
       /\ hand' = [hand EXCEPT ![t] = c]
       /\ link' = [links EXCEPT ![c] = "opening"]

\* Where that is: the caller has an idle connection, or opens a new one.
NextStage(t, probe) ==
    IF idle = << >> THEN "connecting"
    ELSE IF link[Head(idle)] = "dead" THEN "discarding"
    ELSE IF probe THEN "validating"
    ELSE "leased"

MutantAlwaysOpens(t, links) == Opens(t, links) /\ UNCHANGED idle
MutantPeeks(t, links) ==
    IF idle # << >>
    THEN hand' = [hand EXCEPT ![t] = Head(idle)] /\ idle' = idle /\ link' = links
    ELSE Opens(t, links) /\ UNCHANGED idle
GetConnection(t, links) ==
    IF idle # << >>
    THEN /\ hand' = [hand EXCEPT ![t] = Head(idle)]
         /\ idle' = Tail(idle)
         /\ link' = links
    ELSE Opens(t, links) /\ UNCHANGED idle

-----------------------------------------------------------------------------
(* One lease, from acquire to the end of its context.                      *)

\* The caller goes straight on, or queues for a permit.
Acquire(t, probe) ==
    /\ pc[t] = "out" /\ ~closed
    /\ probes' = [probes EXCEPT ![t] = probe]
    /\ IF Locked
       THEN /\ waiting' = Append(waiting, t)
            /\ pc' = [pc EXCEPT ![t] = "waiting"]
            /\ UNCHANGED <<permits, idle, hand, link>>
       ELSE /\ Share(waiting, permits - 1, t, NextStage(t, probe))
            /\ GetConnection(t, link)
    /\ UNCHANGED <<closed, draining, cancels>>

\* A woken caller runs.  It does not look at _closed again.
Resume(t) ==
    /\ pc[t] = "woken"
    /\ Share(waiting, permits, t, NextStage(t, probes[t]))
    /\ GetConnection(t, link)
    /\ UNCHANGED <<closed, draining, probes, cancels>>

\* The probe answered, or failed.
Validated(t, ok) ==
    /\ pc[t] = "validating"
    /\ ok => link[hand[t]] = "open"
    /\ pc' = [pc EXCEPT ![t] = IF ok THEN "leased" ELSE "discarding"]
    /\ UNCHANGED <<hand, probes, link, cancels>> /\ UNCHANGED poolVars

\* The unusable candidate is closed; the loop tries the next one.
Discarded(t) ==
    /\ pc[t] = "discarding"
    /\ pc' = [pc EXCEPT ![t] = NextStage(t, probes[t])]
    /\ GetConnection(t, [link EXCEPT ![hand[t]] = "none"])
    /\ UNCHANGED <<permits, waiting, closed, draining, probes, cancels>>

Connected(t) ==
    /\ pc[t] = "connecting"
    /\ pc' = [pc EXCEPT ![t] = "leased"]
    /\ link' = [link EXCEPT ![hand[t]] = "open"]
    /\ UNCHANGED <<hand, probes, cancels>> /\ UNCHANGED poolVars

\* connect raised: no connection to return, the permit is.
ConnectFails(t) ==
    /\ pc[t] = "connecting"
    /\ ReleasePermit(t)
    /\ link' = [link EXCEPT ![hand[t]] = "none"]
    /\ hand' = [hand EXCEPT ![t] = NoConn]
    /\ UNCHANGED <<idle, closed, draining, probes, cancels>>

\* The context ends, however it ends.  A live connection goes back to an
\* open pool; any other one is closed first.
MutantPoolTakesBack == TRUE
PoolTakesBack == ~closed
Return(t) ==
    /\ pc[t] = "leased"
    /\ IF PoolTakesBack /\ link[hand[t]] = "open"
       THEN /\ idle' = Append(idle, hand[t])
            /\ hand' = [hand EXCEPT ![t] = NoConn]
            /\ ReleasePermit(t)
       ELSE /\ pc' = [pc EXCEPT ![t] = "closing"]
            /\ UNCHANGED <<permits, waiting, idle, hand>>
    /\ UNCHANGED <<closed, draining, probes, link, cancels>>

Returned(t) ==
    /\ pc[t] = "closing"
    /\ ReleasePermit(t)
    /\ link' = [link EXCEPT ![hand[t]] = "none"]
    /\ hand' = [hand EXCEPT ![t] = NoConn]
    /\ UNCHANGED <<idle, closed, draining, probes, cancels>>

-----------------------------------------------------------------------------
(* Cancellation of the caller's task.  In the body of a lease it ends the   *)
(* context, which is Return.                                               *)

MutantCancelQueued(t) ==
    /\ \E i \in 1..Len(waiting) :
          waiting[i] = t /\ Share(RemoveAt(waiting, i), permits + 1, t, "out")
    /\ UNCHANGED <<hand, link>>
CancelQueued(t) ==
    /\ \E i \in 1..Len(waiting) :
          waiting[i] = t /\ Share(RemoveAt(waiting, i), permits, t, "out")
    /\ UNCHANGED <<hand, link>>

\* The caller already owned the permit: it is given on.
CancelWoken(t) ==
    /\ pc[t] = "woken"
    /\ Share(waiting, permits + 1, t, "out")
    /\ UNCHANGED <<hand, link>>

\* In _get_connection the finally clause sees no connection and releases the
\* permit.  A candidate under validation is dropped as it is, a half open
\* one may still open, one being closed is closed.
CancelGetting(t) ==
    /\ pc[t] \in {"validating", "connecting", "discarding"}
    /\ ReleasePermit(t)
    /\ hand' = [hand EXCEPT ![t] = NoConn]
    /\ \E s \in IF pc[t] = "validating" THEN {link[hand[t]]}
                ELSE IF pc[t] = "connecting" THEN {"open", "none"} ELSE {"none"} :
          link' = [link EXCEPT ![hand[t]] = s]

\* The semaphore is released only after the close: the permit is lost.
CancelClosing(t) ==
    /\ pc[t] = "closing"
    /\ pc' = [pc EXCEPT ![t] = "out"]
    /\ hand' = [hand EXCEPT ![t] = NoConn]
    /\ link' = [link EXCEPT ![hand[t]] = "none"]
    /\ UNCHANGED <<permits, waiting>>

Cancel(t) ==
    /\ cancels < MaxCancels
    /\ cancels' = cancels + 1
    /\ CancelQueued(t) \/ CancelWoken(t) \/ CancelGetting(t) \/ CancelClosing(t)
    /\ UNCHANGED <<idle, closed, draining, probes>>

-----------------------------------------------------------------------------
(* close, and the network.                                                 *)

\* Take the next idle connection to close, if there is one.
DrainNext ==
    IF idle # << >>
    THEN draining' = Head(idle) /\ idle' = Tail(idle)
    ELSE draining' = NoConn /\ UNCHANGED idle

Close ==
    /\ draining = NoConn
    /\ closed' = TRUE
    /\ DrainNext
    /\ UNCHANGED <<permits, waiting, link, cancels>> /\ UNCHANGED callerVars

Drained ==
    /\ draining # NoConn
    /\ link' = [link EXCEPT ![draining] = "none"]
    /\ DrainNext
    /\ UNCHANGED <<permits, waiting, closed, cancels>> /\ UNCHANGED callerVars

\* The device or the network ends a connection, at any time.
Die(c) ==
    /\ link[c] = "open"
    /\ link' = [link EXCEPT ![c] = "dead"]
    /\ UNCHANGED cancels /\ UNCHANGED poolVars /\ UNCHANGED callerVars

-----------------------------------------------------------------------------

Init ==
    /\ permits = PoolSize
    /\ waiting = << >>
    /\ idle = << >>
    /\ closed = FALSE
    /\ draining = NoConn
    /\ pc = [t \in Callers |-> "out"]
    /\ hand = [t \in Callers |-> NoConn]
    /\ probes = [t \in Callers |-> FALSE]
    /\ link = [c \in Conns |-> "none"]
    /\ cancels = 0

\* What the event loop and paramiko's threads do by themselves.
CallerStep(t) ==
    \/ Resume(t)
    \/ \E ok \in BOOLEAN : Validated(t, ok)
    \/ Discarded(t)
    \/ Connected(t) \/ ConnectFails(t)
    \/ Return(t) \/ Returned(t)

Next ==
    \/ \E t \in Callers :
          \/ \E probe \in BOOLEAN : Acquire(t, probe)
          \/ CallerStep(t)
          \/ Cancel(t)
    \/ Close \/ Drained
    \/ \E c \in Conns : Die(c)

(***************************************************************************)
(* Fairness: the event loop runs ready tasks, connect, probe and close end  *)
(* (connect and commands have timeouts), and a caller ends its lease.       *)
(***************************************************************************)
Fairness ==
    /\ \A t \in Callers : WF_vars(CallerStep(t))
    /\ WF_vars(Drained)

Spec == Init /\ [][Next]_vars
FairSpec == Spec /\ Fairness
=============================================================================
