----------------------------- MODULE VectorStore -----------------------------
(***************************************************************************)
(* What vectorstore.protocols.VectorStore promises its callers: the         *)
(* requests on a collection take effect one at a time, each as a whole, in  *)
(* one step between its call and its return, and a request is refused       *)
(* exactly when its docstring says so.  A request that fails by an error of *)
(* the connection has taken effect or has not; nothing is left half done.   *)
(*                                                                         *)
(* While `void` is TRUE the promise does not bind: what a store does in      *)
(* steps to and from such a state is its own affair.                        *)
(***************************************************************************)
EXTENDS VectorDocuments

VARIABLES
    exists,     \* there is such a collection
    content,    \* its documents
    void        \* the promise does not bind

contractVars == <<backend, request, outcome, exists, content, void>>

\* The requests the store must refuse.
Refused(r) ==
    \/ exists <=> r.op = "create"
    \/ r.op = "add" /\ r.ids \cap Present(content) # {}
    \/ r.op = "set_metadata" /\ ~ r.ids \subseteq Present(content)

\* The documents after a request that is not refused.
Effect(r) ==
    CASE r.op \in {"create", "drop"} -> Nothing
      [] r.op = "add" -> Added(content, r.ids)
      [] r.op = "update" -> Updated(content, r.ids, content)
      [] r.op = "delete" -> Deleted(content, r.ids)
      [] OTHER -> WithMetadata(content, r.ids, content)

Call(c, r) ==
    /\ request[c] = Idle
    /\ request' = [request EXCEPT ![c] = r]
    /\ UNCHANGED <<backend, outcome, exists, content>>

Return(c, o) ==
    /\ request[c] # Idle
    /\ request' = [request EXCEPT ![c] = Idle]
    /\ outcome' = o
    /\ UNCHANGED backend

Refuse(c) == Refused(request[c]) /\ Return(c, "refused") /\ UNCHANGED <<exists, content>>

Perform(c) ==
    /\ ~ Refused(request[c])
    /\ exists' = (request[c].op # "drop")
    /\ content' = Effect(request[c])
    /\ \E o \in {"ok", "failed"} : Return(c, o)

Fail(c) == Return(c, "failed") /\ UNCHANGED <<exists, content>>

\* The process dies with the requests it was working on.
Restart ==
    /\ request' = [c \in Clients |-> Idle]
    /\ UNCHANGED <<backend, outcome, exists, content>>

Init ==
    /\ backend \in Backends
    /\ request = [c \in Clients |-> Idle]
    /\ outcome = "ok"
    /\ exists = FALSE
    /\ content = Nothing
    /\ void = FALSE

Next ==
    \/ \E c \in Clients : Refuse(c) \/ Perform(c) \/ Fail(c)
    \/ \E c \in Clients, r \in Requests : Call(c, r)
    \/ Restart

\* A step between two states in which the promise binds is one of these.
Promised == void \/ void' \/ Next

Spec == Init /\ [][Promised]_contractVars
=============================================================================
