----------------------------- MODULE VectorShared -----------------------------
(***************************************************************************)
(* The vector stores that take no lock of their own: SQLite, and Qdrant and *)
(* Chroma behind their HTTP interfaces.                                     *)
(*                                                                         *)
(* A request runs in up to three stages, and other clients' stages may come *)
(* between any two of them:                                                 *)
(*   check   the collection is there;                                       *)
(*   look    the documents the request names, and their versions;           *)
(*   write   one transaction, or one HTTP request, that changes the store.  *)
(* SQLite begins its transaction only at the first statement that writes    *)
(* (the sqlite3 module's default), so what it selected before may have      *)
(* changed; of an update's documents it selects the first one before and    *)
(* the others within the transaction.                                       *)
(***************************************************************************)
EXTENDS VectorDocuments

CONSTANTS
    First           \* the document of an update that comes first in its batch

ASSUME VectorSharedAssumption == First \in Ids

VARIABLES
    there,      \* the collection's row, or the server's collection
    docs,       \* the documents stored under its name
    stage,      \* stage[c]: the stage c's request is in
    seen,       \* seen[c]: the documents as c's look found them
    gone,       \* clients whose collection, known by its id, was dropped
    overtaken,  \* history: clients that have read what has changed since
    raced       \* history: an overtaken client wrote in the last step

sharedVars == <<there, docs, stage, seen, gone, overtaken, raced>>

Stages == {"idle", "check", "look", "write"}

SharedTypeOK ==
    /\ there \in BOOLEAN
    /\ docs \in [Ids -> Documents]
    /\ stage \in [Clients -> Stages]
    /\ seen \in [Clients -> [Ids -> Documents]]
    /\ gone \subseteq Clients /\ overtaken \subseteq Clients
    /\ raced \in BOOLEAN

-----------------------------------------------------------------------------
(* The stages of a request, by store.                                      *)

Looks(r) ==
    IF backend = "sqlite" THEN r.op = "update" ELSE r.op \notin {"create", "drop"}

FirstStage(r) ==
    IF r.op = "create" \/ (backend = "sqlite" /\ r.op \in {"drop", "set_metadata"})
    THEN "write" ELSE "check"

\* The documents a request looks at before it writes, and goes by.
LookedAt(r) ==
    IF backend # "sqlite" THEN r.ids
    ELSE IF First \in r.ids THEN {First} ELSE r.ids

SharedCall(c, r) ==
    /\ request[c] = Idle
    /\ request' = [request EXCEPT ![c] = r]
    /\ stage' = [stage EXCEPT ![c] = FirstStage(r)]
    /\ raced' = FALSE
    /\ UNCHANGED <<backend, outcome, there, docs, seen, gone, overtaken>>

Ends(c, o) ==
    /\ request' = [request EXCEPT ![c] = Idle]
    /\ outcome' = o
    /\ stage' = [stage EXCEPT ![c] = "idle"]
    /\ seen' = [seen EXCEPT ![c] = Nothing]
    /\ UNCHANGED backend

EndsUnwritten(c, o) ==
    /\ Ends(c, o)
    /\ gone' = gone \ {c}
    /\ overtaken' = overtaken \ {c}
    /\ raced' = FALSE
    /\ UNCHANGED <<there, docs>>

GoesOn(c, s) ==
    /\ stage' = [stage EXCEPT ![c] = s]
    /\ raced' = FALSE
    /\ UNCHANGED <<backend, request, outcome, there, docs, gone, overtaken>>

Check(c) ==
    /\ stage[c] = "check"
    /\ \/ ~ there /\ EndsUnwritten(c, "refused")
       \/ there /\ GoesOn(c, IF Looks(request[c]) THEN "look" ELSE "write") /\ UNCHANGED seen

\* A server that has no such collection answers with an error of its own.
\* Qdrant knows a collection by its name, Chroma by the id the check returned.
Unknown(c) ==
    /\ request[c].op # "create"
    /\ \/ backend = "qdrant" /\ ~ there
       \/ backend = "chroma" /\ c \in gone

LookFinds(c) == Present(docs) \cap request[c].ids

Look(c) ==
    /\ stage[c] = "look"
    /\ \/ Unknown(c) /\ EndsUnwritten(c, "failed")
       \/ /\ ~ Unknown(c)
          /\ \/ /\ request[c].op = "add" /\ LookFinds(c) # {}
                /\ EndsUnwritten(c, "refused")
             \/ /\ request[c].op = "set_metadata" /\ LookFinds(c) = {}
                /\ EndsUnwritten(c, "refused")
             \/ /\ request[c].op = "delete" /\ LookFinds(c) = {}
                /\ EndsUnwritten(c, "ok")
             \/ /\ request[c].op = "add" => LookFinds(c) = {}
                /\ request[c].op \in {"set_metadata", "delete"} => LookFinds(c) # {}
                /\ seen' = [seen EXCEPT ![c] =
                       [i \in Ids |-> IF i \in LookedAt(request[c]) THEN docs[i] ELSE Absent]]
                /\ GoesOn(c, "write")

-----------------------------------------------------------------------------
(* The write of each store: does it refuse or fail, and if not, what it     *)
(* leaves of the collection and of its documents.                           *)

\* The unique keys of the two tables, or a row count of zero, roll back.
MutantSqliteRefuses(r) ==
    \/ r.op = "create" /\ there
    \/ r.op = "drop" /\ ~ there
    \/ r.op = "set_metadata" /\ ~ r.ids \subseteq Present(docs)
SqliteRefuses(r) ==
    \/ r.op = "create" /\ there
    \/ r.op = "drop" /\ ~ there
    \/ r.op = "add" /\ r.ids \cap Present(docs) # {}
    \/ r.op = "set_metadata" /\ ~ r.ids \subseteq Present(docs)

SqliteSees(c) == [i \in Ids |-> IF i \in LookedAt(request[c]) THEN seen[c][i] ELSE docs[i]]

\* Qdrant and Chroma refuse to create a collection twice.
ServerRefuses(r) == r.op = "create" /\ there

WriteRefused(c) ==
    IF backend = "sqlite" THEN SqliteRefuses(request[c]) ELSE ServerRefuses(request[c])

\* The documents a write reaches.  A server is asked to delete those the look
\* found.  Chroma's add leaves ids it has alone, and its update those it has
\* not.
Reaches(c) ==
    LET r == request[c] IN
    CASE r.op = "delete" /\ backend # "sqlite" -> r.ids \cap Present(seen[c])
      [] r.op = "add" /\ backend = "chroma" -> r.ids \ Present(docs)
      [] r.op = "set_metadata" /\ backend = "chroma" -> r.ids \cap Present(docs)
      [] OTHER -> r.ids

\* What a write goes by: what it saw, or what is there.
Basis(c) ==
    IF backend # "sqlite" THEN seen[c]
    ELSE IF request[c].op = "update" THEN SqliteSees(c)
    ELSE docs

Written(c) ==
    LET r == request[c] IN
    CASE r.op = "create" -> docs
      [] r.op = "drop" -> Nothing
      [] r.op = "add" -> Added(docs, Reaches(c))
      [] r.op = "update" -> Updated(docs, Reaches(c), Basis(c))
      [] r.op = "delete" -> Deleted(docs, Reaches(c))
      [] OTHER -> WithMetadata(docs, Reaches(c), Basis(c))

\* d has found the collection to be there.
Checked(d) == stage[d] \in {"look", "write"} /\ FirstStage(request[d]) = "check"

\* Another request has read what this step changes.
Overtakes(c) ==
    {d \in Clients \ {c} :
        \/ Checked(d) /\ there' # there
        \/ stage[d] = "write" /\ Looks(request[d])
           /\ \E i \in LookedAt(request[d]) : docs'[i] # docs[i]}

WithinBound(c) ==
    request[c].op = "update" => \A i \in request[c].ids : Basis(c)[i].version < MaxVersion

\* An answer may be lost on its way back from a server.
WriteLands(c) ==
    /\ ~ WriteRefused(c) /\ ~ Unknown(c) /\ WithinBound(c)
    /\ there' = CASE request[c].op = "create" -> TRUE
                  [] request[c].op = "drop" -> FALSE
                  [] OTHER -> there
    /\ docs' = Written(c)
    /\ gone' = (gone \cup {d \in Clients : backend = "chroma" /\ there /\ ~ there' /\ Checked(d)})
                 \ {c}
    /\ overtaken' = (overtaken \cup Overtakes(c)) \ {c}
    /\ raced' = (c \in overtaken)
    /\ \E o \in IF backend = "sqlite" THEN {"ok"} ELSE {"ok", "failed"} : Ends(c, o)

Write(c) ==
    /\ stage[c] = "write"
    /\ \/ WriteLands(c)
       \/ WriteRefused(c) /\ EndsUnwritten(c, "refused")
       \/ ~ WriteRefused(c) /\ Unknown(c) /\ EndsUnwritten(c, "failed")

\* The server cannot be reached, or SQLite is busy for longer than its timeout.
Unavailable(c) ==
    /\ stage[c] # "idle"
    /\ EndsUnwritten(c, "failed")

SharedRestart ==
    /\ request' = [c \in Clients |-> Idle]
    /\ stage' = [c \in Clients |-> "idle"]
    /\ seen' = [c \in Clients |-> Nothing]
    /\ gone' = {} /\ overtaken' = {}
    /\ raced' = FALSE
    /\ UNCHANGED <<backend, outcome, there, docs>>

-----------------------------------------------------------------------------

SharedInit ==
    /\ there = FALSE
    /\ docs = Nothing
    /\ stage = [c \in Clients |-> "idle"]
    /\ seen = [c \in Clients |-> Nothing]
    /\ gone = {} /\ overtaken = {}
    /\ raced = FALSE

SharedNext ==
    /\ backend # "faiss"
    /\ \/ \E c \in Clients : Check(c) \/ Look(c) \/ Write(c) \/ Unavailable(c)
       \/ \E c \in Clients, r \in Requests : SharedCall(c, r)
       \/ SharedRestart
=============================================================================
