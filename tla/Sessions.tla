------------------------------- MODULE Sessions -------------------------------
(***************************************************************************)
(* Browser sessions: a token is handed out at login, or by the setup of the *)
(* first administrator, and looked up by every request that presents it; it *)
(* ends by logout, after a time, and with the process, whose memory has it. *)
(* An operator's static keys are no sessions.                              *)
(*                                                                         *)
(* A request is looked up on the event loop and then handled in a thread,   *)
(* which for the session endpoints goes to the store again: in between      *)
(* there is time for other requests.  A dashboard socket is looked up once, *)
(* when it is opened.  An upgrade from an origin that is not allowed is     *)
(* closed before, and left out.                                            *)
(***************************************************************************)
EXTENDS Integers

CONSTANTS
    Visitors,       \* requests that can be under way at once
    SessionTokens,  \* tokens secrets.token_urlsafe may return
    Lifetime,       \* auth_session_ttl
    LastTime        \* bound: where the clock stops

ASSUME SessionsAssumption ==
    Lifetime \in Nat \ {0} /\ LastTime \in Nat /\ "no token" \notin SessionTokens

VARIABLES
    accounts,   \* roles for which there is an account
    sessions,   \* sessions[t]: the store's record of t, or NoSession
    issued,     \* history: the record with which t was handed out, or NoSession
    ended,      \* history: tokens logged out, or lost with the process
    now,        \* the time
    visit       \* visit[c]: the request c makes, or its answer

sessionVars == <<accounts, sessions, issued, ended, now, visit>>

Roles == {"admin", "readonly"}
Scopes(role) ==
    CASE role = "admin" -> {"devices.read", "devices.write", "ai.chat", "admin"}
      [] role = "readonly" -> {"devices.read", "ai.chat"}
      [] OTHER -> {}

\* What an endpoint asks for; "socket" has its token in a header, "query" in
\* the address.
Needs == [session |-> {}, logout |-> {}, write |-> {"devices.write"},
          socket |-> {"devices.read"}, query |-> {"devices.read"}]
Endpoints == DOMAIN Needs
Upgrades == {"socket", "query"}

NoSession == [role |-> "nobody", until |-> 0]
Away == [at |-> "away", endpoint |-> "session", token |-> "no token", role |-> "nobody",
         code |-> 0, late |-> FALSE, type |-> "static"]

\* The operator's keys are tokens of no session, like whatever is neither.
OperatorKey == [admin |-> "admin key", readonly |-> "readonly key"]
Presented == {t \in SessionTokens : issued[t] # NoSession}
             \cup {OperatorKey[role] : role \in Roles} \cup {"no token"}

Expired(record) == record.until <= now

SessionsTypeOK ==
    /\ accounts \subseteq Roles /\ now \in 0..LastTime /\ ended \subseteq SessionTokens
    /\ \A t \in SessionTokens : {sessions[t], issued[t]} \subseteq
            {NoSession} \cup [role : Roles, until : Lifetime..(LastTime + Lifetime)]
    /\ \A c \in Visitors :
        /\ visit[c].at \in {"away", "handled", "open", "answered"}
        /\ visit[c].endpoint \in Endpoints /\ visit[c].role \in Roles \cup {"nobody"}
        /\ visit[c].code \in {0, 200, 401, 403, 409} /\ visit[c].type \in {"session", "static"}

-----------------------------------------------------------------------------
(* The store.                                                              *)

\* Records whose time is over go whenever the store is asked.
Swept == [t \in SessionTokens |-> IF Expired(sessions[t]) THEN NoSession ELSE sessions[t]]

\* A new token, for an account of that role.
CreateSession(role) ==
    LET record == [role |-> role, until |-> now + Lifetime]
    IN  \E t \in SessionTokens :
        /\ issued[t] = NoSession
        /\ issued' = [issued EXCEPT ![t] = record]
        /\ sessions' = [Swept EXCEPT ![t] = record]

MutantRevoke(t) == sessions
Revoke(t) == [s \in SessionTokens |-> IF s = t THEN NoSession ELSE sessions[s]]

\* The role of whoever presents the token: that of its session, or of the
\* operator's key it is, which is not accepted in an address.
Principal(token, endpoint) ==
    IF token \in SessionTokens THEN Swept[token].role
    ELSE IF endpoint # "query" /\ \E role \in Roles : OperatorKey[role] = token
      THEN CHOOSE role \in Roles : OperatorKey[role] = token
      ELSE "nobody"

-----------------------------------------------------------------------------
(* Getting a session.                                                      *)

Free(c) == visit[c].at \in {"away", "answered"}

\* What was answered is forgotten when something else happens.
Under == [c \in Visitors |-> IF Free(c) THEN Away ELSE visit[c]]
Replied(c, code) == [Under EXCEPT ![c].at = "answered", ![c].code = code]

Login(c, role) ==
    /\ Free(c) /\ role \in accounts
    /\ CreateSession(role)
    /\ visit' = Under
    /\ UNCHANGED <<accounts, ended, now>>

\* No such account, or not its password: a pause, and no session.
LoginFails(c) ==
    /\ Free(c)
    /\ visit' = Replied(c, 401)
    /\ UNCHANGED <<accounts, sessions, issued, ended, now>>

\* The first account there is.
SetupAdmin(c) ==
    /\ Free(c)
    /\ IF accounts = {}
         THEN /\ accounts' = {"admin"}
              /\ CreateSession("admin")
              /\ visit' = Under
         ELSE /\ visit' = Replied(c, 409)
              /\ UNCHANGED <<accounts, sessions, issued>>
    /\ UNCHANGED <<ended, now>>

-----------------------------------------------------------------------------
(* Using it.                                                               *)

\* require_authentication, require_read and require_write, or for an upgrade
\* authenticate_websocket.  Whatever token is presented, the store is swept of
\* sessions whose time is over.
Authenticate(c, token, endpoint) ==
    LET role == Principal(token, endpoint)
        admitted == role # "nobody" /\ Needs[endpoint] \subseteq Scopes(role)
        code == IF admitted THEN 200
                ELSE IF role = "nobody" \/ endpoint \in Upgrades THEN 401 ELSE 403
        at == IF ~ admitted THEN "answered"
              ELSE IF endpoint \in Upgrades THEN "open"
              ELSE IF endpoint \in {"session", "logout"} THEN "handled" ELSE "answered"
    IN  /\ Free(c)
        /\ sessions' = IF token = "no token" THEN sessions ELSE Swept
        /\ visit' = [Under EXCEPT ![c] =
                        [at |-> at, endpoint |-> endpoint, token |-> token, role |-> role,
                         code |-> code, type |-> "static",
                         late |-> token \in SessionTokens /\ (token \in ended \/ Expired(issued[token]))]]
        /\ UNCHANGED <<accounts, issued, ended, now>>

\* session_info looks the token up a second time.
SessionInfo(c) ==
    LET token == visit[c].token
        found == token \in SessionTokens /\ Swept[token] # NoSession
    IN  /\ visit[c].at = "handled" /\ visit[c].endpoint = "session"
        /\ sessions' = Swept
        /\ visit' = [Under EXCEPT ![c].at = "answered",
                                  ![c].type = IF found THEN "session" ELSE "static"]
        /\ UNCHANGED <<accounts, issued, ended, now>>

\* An operator's key is no session, and the answer is the same.
Logout(c) ==
    LET token == visit[c].token
    IN  /\ visit[c].at = "handled" /\ visit[c].endpoint = "logout"
        /\ sessions' = Revoke(token)
        /\ ended' = ended \cup ({token} \cap SessionTokens)
        /\ visit' = [Under EXCEPT ![c].at = "answered"]
        /\ UNCHANGED <<accounts, issued, now>>

\* A socket stays open, whatever becomes of its session, until a side closes it.
SocketCloses(c) ==
    /\ visit[c].at = "open"
    /\ visit' = [Under EXCEPT ![c] = Away]
    /\ UNCHANGED <<accounts, sessions, issued, ended, now>>

TimePasses ==
    /\ now < LastTime
    /\ now' = now + 1 /\ visit' = Under
    /\ UNCHANGED <<accounts, sessions, issued, ended>>

\* The accounts are in the database; the sessions are not.
RestartSessions ==
    /\ sessions' = [t \in SessionTokens |-> NoSession]
    /\ ended' = {t \in SessionTokens : issued[t] # NoSession}
    /\ visit' = [c \in Visitors |-> Away]
    /\ UNCHANGED <<accounts, issued, now>>

SessionsInit ==
    /\ accounts \in {{}, Roles}
    /\ sessions = [t \in SessionTokens |-> NoSession] /\ issued = sessions
    /\ ended = {} /\ now = 0
    /\ visit = [c \in Visitors |-> Away]

SessionsNext ==
    \/ \E c \in Visitors :
        \/ \E role \in Roles : Login(c, role)
        \/ \E token \in Presented, endpoint \in Endpoints : Authenticate(c, token, endpoint)
        \/ LoginFails(c) \/ SetupAdmin(c) \/ SessionInfo(c) \/ Logout(c) \/ SocketCloses(c)
    \/ TimePasses \/ RestartSessions

-----------------------------------------------------------------------------
(* Properties.                                                             *)

\* Whoever is admitted has the role of the account whose login or setup handed
\* out the token, a role that has the scope asked for, and the session was not
\* over: a logout that was answered, before any other request came in, is for
\* good, however requests in threads overlap (logout: "Every future use of a
\* revoked session token is rejected with 401").  Nobody is turned away whose
\* session is not over, and session_info takes a session for a static key only
\* if it ended while it was looking.
SessionsAreHonest ==
    /\ \A c \in Visitors :
        LET v == visit[c]
            isSession == v.token \in SessionTokens
        IN  /\ v.code = 200 =>
                /\ ~ v.late /\ Needs[v.endpoint] \subseteq Scopes(v.role)
                /\ isSession => v.role = issued[v.token].role
                /\ isSession /\ v.at = "answered" /\ v.endpoint = "session" =>
                    v.type = "session" \/ v.token \in ended \/ Expired(issued[v.token])
                /\ v.endpoint = "query" => isSession
            /\ v.code = 401 /\ isSession /\ v.endpoint \notin Upgrades => v.late
    /\ \A t \in SessionTokens : sessions[t] # NoSession => t \notin ended /\ sessions[t] = issued[t]
=============================================================================
