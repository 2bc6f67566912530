------------------------------ MODULE HostKeys ------------------------------
(***************************************************************************)
(* SSH sessions and the host keys they trust: SSHTransport, the retries and *)
(* reconnects of SSHClient, and the HostKeyStore behind verify_host_key.    *)
(*                                                                         *)
(* Every transport runs its session on an event loop in a thread of its     *)
(* own, so transports interleave at every step.  A connection attempt       *)
(* builds its own HostKeyStore, which reads the file once, when the key is  *)
(* checked, and writes the whole of its copy back when it records a key.    *)
(* _STORE_LOCK makes the reading one step and the writing another.          *)
(*                                                                         *)
(* All callers use the "auto" policy, trust on first use.  The file is      *)
(* replaced atomically, so a crash leaves the old one or the new one.       *)
(*                                                                         *)
(* An operator named Mutant... is the next one with a mistake in it.  No    *)
(* specification uses it: it stands there to show that a property notices.  *)
(***************************************************************************)
EXTENDS Integers, FiniteSets

CONSTANTS
    Transports,     \* SSHTransport objects a process can have at a time
    Endpoints,      \* (host, port) pairs
    Keys,           \* host keys: type and blob
    RetryCount      \* SSHConfig.retry_count

ASSUME HostKeysAssumption == RetryCount \in Nat

VARIABLES
    file,       \* the known_hosts file: the keys recorded for each endpoint
    presents,   \* the key the router at each endpoint presents
    backend,    \* the SSH library this installation has
    pc,         \* pc[t]: where transport t stands; "none" before and after it
    mode,       \* mode[t]: the call t is in, "connect" or "run"
    tries,      \* tries[t]: attempts of that call that failed
    ep,         \* ep[t]: the configured endpoint
    key,        \* key[t]: the key presented to the current attempt or session
    copy,       \* copy[t]: _records of the store of the current attempt
    alive,      \* the transports whose session is up
    stale,      \* history: transports whose copy is older than the file
    raced       \* history: a copy older than the file was written

sessionVars == <<pc, mode, tries, ep, key, alive>>
storeVars   == <<file, copy, stale, raced>>
vars == <<file, presents, backend, pc, mode, tries, ep, key, copy, alive, stale, raced>>

Records == [Endpoints -> SUBSET Keys]
Nothing == [e \in Endpoints |-> {}]

\* The steps of one connection attempt, and of one command.
Connecting == {"dial", "check", "record", "login"}
Working    == Connecting \cup {"command"}

TypeOK ==
    /\ file \in Records
    /\ presents \in [Endpoints -> Keys]
    /\ backend \in {"asyncssh", "paramiko"}
    /\ pc \in [Transports -> {"none", "idle"} \cup Working]
    /\ mode \in [Transports -> {"connect", "run"}]
    /\ tries \in [Transports -> 0..RetryCount]
    /\ ep \in [Transports -> Endpoints]
    /\ key \in [Transports -> Keys]
    /\ copy \in [Transports -> Records]
    /\ alive \subseteq Transports
    /\ stale \subseteq Transports
    /\ raced \in BOOLEAN

-----------------------------------------------------------------------------
(* How a call ends.                                                        *)

\* The exception reaches the caller.  From the constructor it takes the
\* transport with it; from run it leaves the transport for the next command.
Surfaces(t) ==
    /\ pc' = [pc EXCEPT ![t] = IF mode[t] = "connect" THEN "none" ELSE "idle"]
    /\ UNCHANGED tries

\* A transient failure is tried again on a new connection.
MutantTransient(t) ==
    /\ pc' = [pc EXCEPT ![t] = "dial"]
    /\ UNCHANGED tries
MutantTransientOnceMore(t) ==
    IF tries[t] <= RetryCount
    THEN /\ pc' = [pc EXCEPT ![t] = "dial"]
         /\ tries' = [tries EXCEPT ![t] = @ + 1]
    ELSE Surfaces(t)
Transient(t) ==
    IF tries[t] < RetryCount
    THEN /\ pc' = [pc EXCEPT ![t] = "dial"]
         /\ tries' = [tries EXCEPT ![t] = @ + 1]
    ELSE Surfaces(t)

\* asyncssh reports a refused key as itself.  paramiko lets the HostKeyError
\* of missing_host_key through connect, which makes it a transient failure.
Refused(t) == IF backend = "asyncssh" THEN Surfaces(t) ELSE Transient(t)

-----------------------------------------------------------------------------
(* The constructor, commands and close.                                    *)

Open(t, e) ==
    /\ pc[t] = "none"
    /\ pc' = [pc EXCEPT ![t] = "dial"]
    /\ mode' = [mode EXCEPT ![t] = "connect"]
    /\ tries' = [tries EXCEPT ![t] = 0]
    /\ ep' = [ep EXCEPT ![t] = e]
    /\ UNCHANGED <<presents, backend, key, alive, storeVars>>

\* run connects again when it finds the session dead.
Run(t) ==
    /\ pc[t] = "idle"
    /\ pc' = [pc EXCEPT ![t] = IF t \in alive THEN "command" ELSE "dial"]
    /\ mode' = [mode EXCEPT ![t] = "run"]
    /\ tries' = [tries EXCEPT ![t] = 0]
    /\ UNCHANGED <<presents, backend, ep, key, alive, storeVars>>

\* The command answers, with success or with an error of its own.
Answer(t) ==
    /\ pc[t] = "command" /\ t \in alive
    /\ pc' = [pc EXCEPT ![t] = "idle"]
    /\ UNCHANGED <<presents, backend, mode, tries, ep, key, alive, storeVars>>

\* A command that times out or loses its connection closes the session.
CommandFails(t) ==
    /\ pc[t] = "command"
    /\ alive' = alive \ {t}
    /\ Transient(t)
    /\ UNCHANGED <<presents, backend, mode, ep, key, storeVars>>

Close(t) ==
    /\ pc[t] = "idle"
    /\ pc' = [pc EXCEPT ![t] = "none"]
    /\ alive' = alive \ {t}
    /\ UNCHANGED <<presents, backend, mode, tries, ep, key, storeVars>>

-----------------------------------------------------------------------------
(* One connection attempt: SSHBackend.connect.                             *)

\* The router cannot be reached, or the handshake breaks off.  asyncssh lets
\* an OSError through, which is not retried.
Unreachable(t) ==
    /\ pc[t] \in {"dial", "login"}
    /\ Transient(t) \/ (backend = "asyncssh" /\ pc[t] = "dial" /\ Surfaces(t))
    /\ UNCHANGED <<presents, backend, mode, ep, key, alive, storeVars>>

Handshake(t) ==
    /\ pc[t] = "dial"
    /\ pc' = [pc EXCEPT ![t] = "check"]
    /\ key' = [key EXCEPT ![t] = presents[ep[t]]]
    /\ UNCHANGED <<presents, backend, mode, tries, ep, alive, storeVars>>

\* check, which loads the file: the key is known, another one is, or none is.
MutantCheck(t) ==
    /\ pc' = [pc EXCEPT ![t] = IF key[t] \in file[ep[t]] THEN "login" ELSE "record"]
    /\ UNCHANGED tries
Check(t) ==
    \/ /\ key[t] \in file[ep[t]]
       /\ pc' = [pc EXCEPT ![t] = "login"]
       /\ UNCHANGED tries
    \/ /\ file[ep[t]] = {}
       /\ pc' = [pc EXCEPT ![t] = "record"]
       /\ UNCHANGED tries
    \/ /\ file[ep[t]] # {} /\ key[t] \notin file[ep[t]]
       /\ Refused(t)

VerifyHostKey(t) ==
    /\ pc[t] = "check"
    /\ Check(t)
    /\ copy' = [copy EXCEPT ![t] = IF pc'[t] = "record" THEN file ELSE Nothing]
    /\ UNCHANGED <<presents, backend, mode, ep, key, alive, file, stale, raced>>

\* What record writes: the store's copy, with the key added to it.
MutantWritten(t) == [Nothing EXCEPT ![ep[t]] = {key[t]}]
MutantReread(t) == [file EXCEPT ![ep[t]] = @ \cup {key[t]}]
Written(t) == [copy[t] EXCEPT ![ep[t]] = @ \cup {key[t]}]

RecordHostKey(t) ==
    /\ pc[t] = "record"
    /\ file' = Written(t)
    /\ pc' = [pc EXCEPT ![t] = "login"]
    /\ copy' = [copy EXCEPT ![t] = Nothing]
    /\ stale' = {u \in Transports \ {t} : pc[u] = "record"}
    /\ raced' = (raced \/ t \in stale)
    /\ UNCHANGED <<presents, backend, mode, tries, ep, key, alive>>

\* The session is up: connect returns, run goes on with its command.
LoggedIn(t) ==
    /\ pc[t] = "login"
    /\ pc' = [pc EXCEPT ![t] = IF mode[t] = "connect" THEN "idle" ELSE "command"]
    /\ alive' = alive \cup {t}
    /\ UNCHANGED <<presents, backend, mode, tries, ep, key, storeVars>>

\* AuthenticationError is not retried.
LoginFails(t) ==
    /\ pc[t] = "login"
    /\ Surfaces(t)
    /\ UNCHANGED <<presents, backend, mode, ep, key, alive, storeVars>>

-----------------------------------------------------------------------------
(* The environment.                                                        *)

\* The router drops a session.
Drop(t) ==
    /\ t \in alive
    /\ alive' = alive \ {t}
    /\ UNCHANGED <<presents, backend, pc, mode, tries, ep, key, storeVars>>

\* A router is reset or replaced, and presents another key from then on.
NewKey(e, k) ==
    /\ presents' = [presents EXCEPT ![e] = k]
    /\ UNCHANGED <<backend, sessionVars, storeVars>>

\* The process dies and starts again.
Restart ==
    /\ pc' = [t \in Transports |-> "none"]
    /\ copy' = [t \in Transports |-> Nothing]
    /\ alive' = {}
    /\ stale' = {}
    /\ UNCHANGED <<file, presents, backend, mode, tries, ep, key, raced>>

-----------------------------------------------------------------------------

\* A first start: no file yet.
Init ==
    /\ file = Nothing
    /\ presents \in [Endpoints -> Keys]
    /\ backend \in {"asyncssh", "paramiko"}
    /\ pc = [t \in Transports |-> "none"]
    /\ mode = [t \in Transports |-> "connect"]
    /\ tries = [t \in Transports |-> 0]
    /\ \E e \in Endpoints : ep = [t \in Transports |-> e]
    /\ \E k \in Keys : key = [t \in Transports |-> k]
    /\ copy = [t \in Transports |-> Nothing]
    /\ alive = {}
    /\ stale = {}
    /\ raced = FALSE

\* What a call goes on to do by itself.
CallStep(t) ==
    \/ Answer(t) \/ CommandFails(t)
    \/ Unreachable(t) \/ Handshake(t) \/ VerifyHostKey(t) \/ RecordHostKey(t)
    \/ LoggedIn(t) \/ LoginFails(t)

Next ==
    \/ \E t \in Transports : CallStep(t)
    \/ \E t \in Transports, e \in Endpoints : Open(t, e)
    \/ \E t \in Transports : Run(t) \/ Close(t) \/ Drop(t)
    \/ \E e \in Endpoints, k \in Keys : NewKey(e, k)
    \/ Restart

(***************************************************************************)
(* Fairness: the event loop of a transport runs, and connecting and every   *)
(* command have a timeout.                                                  *)
(***************************************************************************)
Fairness == \A t \in Transports : WF_vars(CallStep(t))

Spec == Init /\ [][Next]_vars
FairSpec == Spec /\ Fairness
=============================================================================
