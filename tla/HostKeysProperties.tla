------------------------- MODULE HostKeysProperties -------------------------
(***************************************************************************)
(* What the SSH sessions promise the services that open them.               *)
(***************************************************************************)
EXTENDS HostKeys

\* Transports that accepted the key they were presented.
Accepted == alive \cup {t \in Transports : pc[t] = "login"}

\* The file never holds two keys for one endpoint, even when transports meet
\* a router for the first time at once and its key changes between them: a
\* store writes back the copy its check was made on, so it adds a key only
\* where it saw none (check, record, _write_locked).
OneKeyPerEndpoint == \A e \in Endpoints : Cardinality(file[e]) <= 1

\* As long as no copy of the file was overtaken by another writer, every
\* session talks to the one router its endpoint has on record, through
\* retries, reconnects, restarts and changes of key: a later different key is
\* rejected (verify_host_key, SSHClient.run).
SessionsMatchRecords ==
    ~raced => \A t \in Accepted : file[ep[t]] = {key[t]}

\* A record is lost only by a store that wrote a copy older than the file:
\* retries, failed logins, refused keys and restarts never undo one
\* (_write_locked).
LostOnlyByStaleCopies ==
    [][(\A e \in Endpoints : file[e] \subseteq file'[e]) \/ raced']_vars

\* Every constructor and every command returns or raises, however often the
\* router breaks off (SSHClient.connect, SSHClient.run).
CallsEnd == \A t \in Transports : ~<>[](pc[t] \in Working)

\* "_STORE_LOCK guards all file access so concurrent transports sharing one
\* store stay safe": a recorded key stays recorded.  Each lock section is
\* safe, and the copy one transport writes is older than another's record.
RecordsAreKept == [][\A e \in Endpoints : file[e] \subseteq file'[e]]_vars
=============================================================================
