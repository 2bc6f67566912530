------------------------- MODULE VectorStoresProofs -------------------------
(***************************************************************************)
(* Proofs that the four vector stores implement the contract of             *)
(* vectorstore.protocols.VectorStore, and that their searches find what is  *)
(* there, for every number of clients and documents.                        *)
(*                                                                         *)
(* The stores without a lock: a request that no other has overtaken still   *)
(* finds what it read, so its write is the contract's.  FAISS: while no     *)
(* write has been cut short, the data a request is about to write are what  *)
(* the contract makes of the JSON file; and what is in memory is either     *)
(* nothing or what the files hold.                                         *)
(*                                                                         *)
(* Searches: what a store answers is a part of a list of hits, each with    *)
(* its own score and none twice, nearest first (Honest, Falling); FAISS     *)
(* finds such a list as long as its order lists the documents and its index *)
(* holds their vectors in that order (OrdersInv).                           *)
(***************************************************************************)
EXTENDS VectorStores, ListsProofs, FiniteSetTheorems, TLAPS

Table == [Ids -> Documents]

-----------------------------------------------------------------------------
(* Documents.                                                              *)

\* The contract speaks of documents and requests as the stores do.
LEMMA SameTerms ==
    /\ Contract!Idle = Idle
    /\ Contract!Requests = Requests
    /\ Contract!Nothing = Nothing
    /\ Contract!Backends = Backends
    /\ \A d : Contract!Present(d) = Present(d)
    /\ \A d, ids : Contract!Added(d, ids) = Added(d, ids)
    /\ \A d, ids : Contract!Deleted(d, ids) = Deleted(d, ids)
    /\ \A d, ids, s : Contract!Updated(d, ids, s) = Updated(d, ids, s)
    /\ \A d, ids, s : Contract!WithMetadata(d, ids, s) = WithMetadata(d, ids, s)
BY DEF Contract!Idle, Idle, Contract!Requests, Requests, Contract!Nothing, Nothing,
       Contract!Absent, Absent, Contract!Plain, Plain, Contract!Present, Present,
       Contract!Added, Added, Contract!Deleted, Deleted, Contract!Updated, Updated,
       Contract!WithMetadata, WithMetadata, Contract!Backends, Backends

LEMMA DocumentTypes ==
    /\ Absent \in Documents /\ Nothing \in Table
    /\ \A v \in 1..MaxVersion : Plain(v) \in Documents /\ Plain(v) # Absent
    /\ Plain(1) \in Documents
    /\ \A d \in Documents : d.version \in 0..MaxVersion
    /\ \A d \in Documents : d # Absent => [d EXCEPT !.metadata = "set"] \in Documents \ {Absent}
    /\ Present(Nothing) = {}
<1>1. MaxVersion \in Nat \ {0}
  BY VectorAssumption
<1>2. Absent \in Documents /\ Nothing \in Table
  BY DEF Documents, Nothing, Table
<1>3. \A v \in 1..MaxVersion : Plain(v) \in Documents /\ Plain(v) # Absent
  BY <1>1 DEF Plain, Documents, Absent
<1>4. \A d \in Documents : d.version \in 0..MaxVersion
  BY <1>1 DEF Documents, Absent
<1>5. \A d \in Documents : d # Absent => [d EXCEPT !.metadata = "set"] \in Documents \ {Absent}
  BY <1>1 DEF Documents, Absent
<1>6. Present(Nothing) = {}
  BY DEF Present, Nothing
<1> QED BY <1>1, <1>2, <1>3, <1>4, <1>5, <1>6

\* What each write makes of well-typed documents is well typed.
LEMMA WriteTypes ==
    ASSUME NEW d \in Table, NEW ids
    PROVE  /\ Added(d, ids) \in Table
           /\ Deleted(d, ids) \in Table
           /\ \A s \in Table : (\A i \in ids \cap Ids : s[i].version < MaxVersion)
                  => Updated(d, ids, s) \in Table
           /\ \A s \in Table : ids \subseteq Present(s) => WithMetadata(d, ids, s) \in Table
<1>1. Added(d, ids) \in Table /\ Deleted(d, ids) \in Table
  BY DocumentTypes DEF Added, Deleted, Table
<1>2. ASSUME NEW s \in Table, \A i \in ids \cap Ids : s[i].version < MaxVersion
      PROVE  Updated(d, ids, s) \in Table
  <2>1. \A i \in Ids : s[i].version \in 0..MaxVersion
    BY DocumentTypes DEF Table
  <2>2. \A i \in Ids \cap ids : s[i].version + 1 \in 1..MaxVersion
    BY <1>2, <2>1, VectorAssumption
  <2> QED BY <2>2, DocumentTypes DEF Updated, Table
<1>3. ASSUME NEW s \in Table, ids \subseteq Present(s) PROVE WithMetadata(d, ids, s) \in Table
  BY <1>3, DocumentTypes DEF WithMetadata, Present, Table
<1> QED BY <1>1, <1>2, <1>3

\* Deleting what is not there changes nothing.
LEMMA DeleteNothing ==
    ASSUME NEW d \in Table, NEW ids, ids \cap Present(d) = {}
    PROVE  Deleted(d, ids) = d
BY DEF Deleted, Present, Table

LEMMA RequestParts ==
    ASSUME NEW r \in Requests
    PROVE  /\ r.op \in {"create", "drop", "add", "update", "delete", "set_metadata"}
           /\ r.ids \subseteq Ids
           /\ r.op \notin {"create", "drop"} => r.ids # {}
           /\ r.op = "set_metadata" => \E i \in Ids : r.ids = {i}
           /\ r # Idle
<1>0. Idle.op = "idle"
  BY DEF Idle
<1>1. CASE r \in [op : {"create", "drop"}, ids : {{}}]
  <2>1. r.op \in {"create", "drop"} /\ r.ids = {}
    BY <1>1
  <2> QED BY <1>0, <2>1
<1>2. CASE r \in [op : {"add", "update", "delete"}, ids : (SUBSET Ids) \ {{}}]
  <2>1. r.op \in {"add", "update", "delete"} /\ r.ids \subseteq Ids /\ r.ids # {}
    BY <1>2
  <2> QED BY <1>0, <2>1
<1>3. CASE r \in [op : {"set_metadata"}, ids : {{i} : i \in Ids}]
  <2>1. r.op = "set_metadata" /\ r.ids \in {{i} : i \in Ids}
    BY <1>3
  <2>2. PICK i \in Ids : r.ids = {i}
    BY <2>1
  <2> QED BY <1>0, <2>1, <2>2
<1> QED BY <1>1, <1>2, <1>3 DEF Requests

-----------------------------------------------------------------------------
(* The stores without a lock.                                              *)

Served ==
    /\ request \in [Clients -> Requests \cup {Idle}]
    /\ outcome \in Outcomes
    /\ backend \in Backends

\* What a client that has looked knows of the documents.
Knows(c) ==
    stage[c] = "write" /\ Looks(request[c]) =>
        /\ c \notin overtaken => \A i \in LookedAt(request[c]) : seen[c][i] = docs[i]
        /\ request[c].op = "add" => \A i \in request[c].ids : seen[c][i] = Absent
        /\ request[c].op = "set_metadata" => request[c].ids \subseteq Present(seen[c])

\* What a client that has checked knows of the collection.
KnowsThere(c) ==
    Checked(c) =>
        /\ c \notin overtaken => there
        /\ backend = "chroma" /\ c \notin gone => there

InStage(c) ==
    /\ stage[c] = "idle" <=> request[c] = Idle
    /\ stage[c] \in {"check", "look"} => FirstStage(request[c]) = "check"
    /\ stage[c] = "look" => Looks(request[c])

SharedInv ==
    /\ SharedTypeOK
    /\ backend # "faiss" => \A c \in Clients : InStage(c) /\ Knows(c) /\ KnowsThere(c)

\* Which requests check and look, by store.
LEMMA StagesOfRequests ==
    ASSUME NEW r \in Requests, backend \in {"sqlite", "qdrant", "chroma"}
    PROVE  /\ r.op = "create" => FirstStage(r) = "write" /\ ~Looks(r)
           /\ FirstStage(r) \in {"check", "write"}
           /\ FirstStage(r) = "write" => ~Looks(r)
           /\ backend = "sqlite" =>
                 /\ r.op \in {"drop", "set_metadata"} => FirstStage(r) = "write" /\ ~Looks(r)
                 /\ r.op \in {"add", "delete", "update"} => FirstStage(r) = "check"
                 /\ Looks(r) <=> r.op = "update"
           /\ backend # "sqlite" =>
                 /\ r.op # "create" => FirstStage(r) = "check"
                 /\ Looks(r) <=> r.op \in {"add", "update", "delete", "set_metadata"}
                 /\ LookedAt(r) = r.ids
           /\ LookedAt(r) \subseteq r.ids
BY RequestParts DEF FirstStage, Looks, LookedAt

\* A client that reads on its own account changes nothing for another one.
LEMMA OthersKeep ==
    ASSUME NEW d, InStage(d) /\ Knows(d) /\ KnowsThere(d),
           stage'[d] = stage[d], request'[d] = request[d], seen'[d] = seen[d],
           d \in gone' <=> d \in gone, d \in overtaken' <=> d \in overtaken,
           UNCHANGED <<backend, there, docs>>
    PROVE  InStage(d)' /\ Knows(d)' /\ KnowsThere(d)'
<1>1. /\ Looks(request[d])' <=> Looks(request[d])
      /\ LookedAt(request[d])' = LookedAt(request[d])
      /\ FirstStage(request[d])' = FirstStage(request[d])
      /\ Checked(d)' <=> Checked(d)
  BY DEF Looks, LookedAt, FirstStage, Checked
<1>2. InStage(d)'
  BY <1>1 DEF InStage
<1>3. Knows(d)'
  BY <1>1 DEF Knows, Present
<1>4. KnowsThere(d)'
  BY <1>1 DEF KnowsThere
<1> QED BY <1>2, <1>3, <1>4

\* A request ends without a write (EndsUnwritten).
LEMMA UnwrittenKeeps ==
    ASSUME SharedInv, Served, backend # "faiss", NEW c \in Clients, NEW o \in Outcomes,
           EndsUnwritten(c, o)
    PROVE  SharedInv' /\ Served'
<1>1. SharedTypeOK' /\ Served'
  BY DocumentTypes DEF SharedInv, SharedTypeOK, Served, EndsUnwritten, Ends, Stages, Table
<1>2. ASSUME NEW d \in Clients PROVE (InStage(d) /\ Knows(d) /\ KnowsThere(d))'
  <2>1. CASE d = c
    <3>1. stage'[c] = "idle" /\ request'[c] = Idle
      BY DEF EndsUnwritten, Ends, SharedInv, SharedTypeOK, Served
    <3> QED BY <2>1, <3>1 DEF InStage, Knows, KnowsThere, Checked
  <2>2. CASE d # c
    <3>1. /\ stage'[d] = stage[d] /\ request'[d] = request[d] /\ seen'[d] = seen[d]
          /\ d \in gone' <=> d \in gone
          /\ d \in overtaken' <=> d \in overtaken
          /\ UNCHANGED <<backend, there, docs>>
      BY <2>2 DEF EndsUnwritten, Ends, SharedInv, SharedTypeOK, Served
    <3> QED BY <3>1, OthersKeep DEF SharedInv
  <2> QED BY <2>1, <2>2
<1> QED BY <1>1, <1>2 DEF SharedInv

LEMMA CallKeeps ==
    ASSUME SharedInv, Served, backend # "faiss", NEW c \in Clients, NEW r \in Requests,
           SharedCall(c, r)
    PROVE  SharedInv' /\ Served'
<1>0. backend \in {"sqlite", "qdrant", "chroma"} /\ UNCHANGED backend
  BY DEF Served, Backends, SharedCall
<1>1. SharedTypeOK' /\ Served'
  BY <1>0, StagesOfRequests DEF SharedInv, SharedTypeOK, Served, SharedCall, Stages
<1>2. ASSUME NEW d \in Clients PROVE (InStage(d) /\ Knows(d) /\ KnowsThere(d))'
  <2>1. CASE d = c
    <3>1. stage'[c] = FirstStage(r) /\ request'[c] = r
      BY DEF SharedCall, SharedInv, SharedTypeOK, Served
    <3>2. FirstStage(r)' = FirstStage(r) /\ (Looks(r)' <=> Looks(r))
      BY <1>0 DEF FirstStage, Looks
    <3>3. /\ FirstStage(r) \in {"check", "write"} /\ r # Idle
          /\ FirstStage(r) = "write" => ~Looks(r)
      BY <1>0, StagesOfRequests, RequestParts
    <3>4. InStage(c)'
      BY <3>1, <3>2, <3>3 DEF InStage, FirstStage, Looks
    <3>5. ~ Checked(c)' /\ Knows(c)'
      BY <3>1, <3>2, <3>3 DEF Checked, Knows, FirstStage, Looks
    <3> QED BY <2>1, <3>4, <3>5 DEF KnowsThere
  <2>2. CASE d # c
    <3>1. /\ stage'[d] = stage[d] /\ request'[d] = request[d] /\ seen'[d] = seen[d]
          /\ d \in gone' <=> d \in gone
          /\ d \in overtaken' <=> d \in overtaken
          /\ UNCHANGED <<backend, there, docs>>
      BY <2>2 DEF SharedCall, SharedInv, SharedTypeOK, Served
    <3> QED BY <3>1, OthersKeep DEF SharedInv
  <2> QED BY <2>1, <2>2
<1> QED BY <1>1, <1>2 DEF SharedInv

LEMMA CheckKeeps ==
    ASSUME SharedInv, Served, backend # "faiss", NEW c \in Clients, Check(c)
    PROVE  SharedInv' /\ Served'
<1>0. backend \in {"sqlite", "qdrant", "chroma"}
  BY DEF Served, Backends
<1>1. CASE ~there /\ EndsUnwritten(c, "refused")
  BY <1>1, UnwrittenKeeps DEF Outcomes
<1>2. CASE there /\ GoesOn(c, IF Looks(request[c]) THEN "look" ELSE "write") /\ UNCHANGED seen
  <2> DEFINE s == IF Looks(request[c]) THEN "look" ELSE "write"
  <2>1. /\ stage' = [stage EXCEPT ![c] = s]
        /\ UNCHANGED <<backend, request, outcome, there, docs, gone, overtaken, seen>>
        /\ raced' = FALSE
    BY <1>2 DEF GoesOn
  <2>2. SharedTypeOK' /\ Served'
    BY <2>1 DEF SharedInv, SharedTypeOK, Served, Stages
  <2>3. ASSUME NEW d \in Clients PROVE (InStage(d) /\ Knows(d) /\ KnowsThere(d))'
    <3>1. CASE d = c
      <4>1. stage'[c] = s /\ stage[c] = "check" /\ request'[c] = request[c]
        BY <2>1 DEF Check, SharedInv, SharedTypeOK
      <4>2. /\ Looks(request[c])' <=> Looks(request[c])
            /\ FirstStage(request[c])' = FirstStage(request[c])
        BY <2>1 DEF Looks, FirstStage
      <4>3. FirstStage(request[c]) = "check" /\ request[c] # Idle
        BY <4>1 DEF SharedInv, InStage
      <4>4. InStage(c)'
        BY <4>1, <4>2, <4>3, <2>1 DEF InStage
      <4>5. Knows(c)'
        BY <4>1, <4>2 DEF Knows
      <4>6. KnowsThere(c)'
        BY <1>2, <2>1 DEF KnowsThere
      <4> QED BY <3>1, <4>4, <4>5, <4>6
    <3>2. CASE d # c
      BY <2>1, <3>2, OthersKeep DEF SharedInv, SharedTypeOK
    <3> QED BY <3>1, <3>2
  <2> QED BY <2>2, <2>3, <2>1 DEF SharedInv
<1> QED BY <1>1, <1>2 DEF Check

\* The look that goes on to the write remembers the documents as they are.
LEMMA LookGoesOn ==
    ASSUME SharedInv, Served, backend # "faiss", NEW c \in Clients, stage[c] = "look",
           request[c].op = "add" => LookFinds(c) = {},
           request[c].op \in {"set_metadata", "delete"} => LookFinds(c) # {},
           seen' = [seen EXCEPT ![c] =
               [i \in Ids |-> IF i \in LookedAt(request[c]) THEN docs[i] ELSE Absent]],
           GoesOn(c, "write")
    PROVE  SharedInv' /\ Served'
<1> DEFINE r == request[c]
<1>1. /\ stage' = [stage EXCEPT ![c] = "write"]
      /\ UNCHANGED <<backend, request, outcome, there, docs, gone, overtaken>>
      /\ raced' = FALSE
  BY DEF GoesOn
<1>2. /\ InStage(c) /\ KnowsThere(c) /\ request[c] # Idle /\ r \in Requests
      /\ Looks(r) /\ FirstStage(r) = "check"
      /\ backend \in {"sqlite", "qdrant", "chroma"}
  BY DEF SharedInv, InStage, Served, Backends
<1>3. \A i \in Ids : seen'[c][i] = IF i \in LookedAt(r) THEN docs[i] ELSE Absent
  BY DEF SharedInv, SharedTypeOK
<1>4. SharedTypeOK' /\ Served'
  BY <1>1, DocumentTypes DEF SharedInv, SharedTypeOK, Served, Stages
<1>5. r.ids \subseteq Ids /\ LookedAt(r) \subseteq r.ids
  BY <1>2, RequestParts, StagesOfRequests
<1>6. \A i \in LookedAt(r) : seen'[c][i] = docs[i]
  BY <1>3, <1>5
<1>7. r.op = "add" => \A i \in r.ids : seen'[c][i] = Absent
  BY <1>3, <1>5 DEF LookFinds, Present
<1>8. r.op = "set_metadata" => r.ids \subseteq Present(seen'[c])
  <2> SUFFICES ASSUME r.op = "set_metadata" PROVE r.ids \subseteq Present(seen'[c])
    OBVIOUS
  <2>1. backend # "sqlite" /\ LookedAt(r) = r.ids
    BY <1>2, StagesOfRequests
  <2>2. PICK i \in Ids : r.ids = {i}
    BY <1>2, RequestParts
  <2>3. docs[i] # Absent
    BY <2>2 DEF LookFinds, Present
  <2> QED BY <1>3, <2>1, <2>2, <2>3 DEF Present
<1>9. ASSUME NEW d \in Clients PROVE (InStage(d) /\ Knows(d) /\ KnowsThere(d))'
  <2>1. CASE d = c
    <3>1. stage'[c] = "write" /\ request'[c] = r
      BY <1>1 DEF SharedInv, SharedTypeOK
    <3>2. /\ LookedAt(r)' = LookedAt(r) /\ FirstStage(r)' = FirstStage(r)
          /\ Checked(c) /\ Checked(c)'
      BY <1>1, <1>2, <3>1 DEF LookedAt, FirstStage, Checked
    <3>3. InStage(c)'
      BY <1>2, <3>1 DEF InStage
    <3>4. KnowsThere(c)'
      BY <1>1, <1>2, <3>2 DEF KnowsThere
    <3>5. Knows(c)'
      BY <1>1, <1>6, <1>7, <1>8, <3>1, <3>2 DEF Knows, LookedAt, Present
    <3> QED BY <2>1, <3>3, <3>4, <3>5
  <2>2. CASE d # c
    BY <1>1, <2>2, OthersKeep DEF SharedInv, SharedTypeOK
  <2> QED BY <2>1, <2>2
<1> QED BY <1>4, <1>9 DEF SharedInv

LEMMA LookKeeps ==
    ASSUME SharedInv, Served, backend # "faiss", NEW c \in Clients, Look(c)
    PROVE  SharedInv' /\ Served'
<1>1. CASE \E o \in Outcomes : EndsUnwritten(c, o)
  BY <1>1, UnwrittenKeeps
<1>2. CASE ~ \E o \in Outcomes : EndsUnwritten(c, o)
  BY <1>2, LookGoesOn DEF Look, Outcomes
<1> QED BY <1>1, <1>2

\* What a landing write leaves: the documents are well typed.
LEMMA WrittenType ==
    ASSUME SharedInv, Served, backend # "faiss", NEW c \in Clients,
           stage[c] = "write", ~ WriteRefused(c), WithinBound(c)
    PROVE  Written(c) \in Table /\ request[c] \in Requests
<1> DEFINE r == request[c]
<1>1. r \in Requests /\ backend \in {"sqlite", "qdrant", "chroma"} /\ Knows(c)
  BY DEF SharedInv, InStage, Served, Backends
<1>2. docs \in Table /\ seen[c] \in Table
  BY DEF SharedInv, SharedTypeOK, Table
<1>3. Basis(c) \in Table
  BY <1>2 DEF Basis, SqliteSees, Table
<1>4. r.ids \subseteq Ids
  BY <1>1, RequestParts
<1>5. Reaches(c) \subseteq r.ids
  BY DEF Reaches
<1>6. CASE r.op \in {"create", "drop", "add", "delete"}
  BY <1>1, <1>2, <1>6, WriteTypes, DocumentTypes DEF Written
<1>7. CASE r.op = "update"
  <2>1. \A i \in Reaches(c) \cap Ids : Basis(c)[i].version < MaxVersion
    BY <1>5, <1>7 DEF WithinBound
  <2> QED BY <1>1, <1>2, <1>3, <1>7, <2>1, WriteTypes DEF Written
<1>8. CASE r.op = "set_metadata"
  <2>1. r.ids \subseteq Present(Basis(c))
    <3>1. CASE backend = "sqlite"
      BY <1>8, <3>1 DEF WriteRefused, SqliteRefuses, Basis
    <3>2. CASE backend # "sqlite"
      BY <1>1, <1>8, <3>2, StagesOfRequests DEF Knows, Basis
    <3> QED BY <3>1, <3>2
  <2>2. Reaches(c) \subseteq Present(Basis(c))
    BY <1>5, <2>1
  <2> QED BY <1>1, <1>2, <1>3, <1>8, <2>2, WriteTypes DEF Written
<1> QED BY <1>1, <1>6, <1>7, <1>8, RequestParts

LEMMA WriteLandsKeeps ==
    ASSUME SharedInv, Served, backend # "faiss", NEW c \in Clients,
           stage[c] = "write", WriteLands(c)
    PROVE  SharedInv' /\ Served'
<1>1. PICK o \in Outcomes : Ends(c, o)
  BY DEF WriteLands, Outcomes
<1>2. docs' \in Table
  BY WrittenType DEF WriteLands
<1>3. there' \in BOOLEAN
  BY DEF WriteLands, SharedInv, SharedTypeOK
<1>4. SharedTypeOK' /\ Served'
  <2>0. raced' = (c \in overtaken)
    BY DEF WriteLands
  <2>1. gone' \subseteq Clients /\ overtaken' \subseteq Clients /\ raced' \in BOOLEAN
    <3>1. gone' \subseteq Clients /\ overtaken' \subseteq Clients
      BY DEF WriteLands, SharedInv, SharedTypeOK, Overtakes
    <3>2. raced' \in BOOLEAN
      <4>1. (c \in overtaken) = TRUE \/ (c \in overtaken) = FALSE
        OBVIOUS
      <4> QED BY <2>0, <4>1, Zenon
    <3> QED BY <3>1, <3>2
  <2>2. stage' \in [Clients -> Stages] /\ seen' \in [Clients -> Table] /\ Served'
    BY <1>1, DocumentTypes DEF Ends, SharedInv, SharedTypeOK, Stages, Table, Served
  <2> QED BY <1>2, <1>3, <2>1, <2>2 DEF SharedTypeOK, Table
<1>5. ASSUME NEW d \in Clients PROVE (InStage(d) /\ Knows(d) /\ KnowsThere(d))'
  <2>1. CASE d = c
    <3>1. stage'[c] = "idle" /\ request'[c] = Idle
      BY <1>1 DEF Ends, SharedInv, SharedTypeOK, Served
    <3> QED BY <2>1, <3>1 DEF InStage, Knows, KnowsThere, Checked
  <2>2. CASE d # c
    <3>1. /\ stage'[d] = stage[d] /\ request'[d] = request[d] /\ seen'[d] = seen[d]
          /\ UNCHANGED backend
      BY <1>1, <2>2 DEF Ends, SharedInv, SharedTypeOK, Served
    <3>2. /\ Looks(request[d])' <=> Looks(request[d])
          /\ LookedAt(request[d])' = LookedAt(request[d])
          /\ FirstStage(request[d])' = FirstStage(request[d])
          /\ Checked(d)' <=> Checked(d)
      BY <3>1 DEF Looks, LookedAt, FirstStage, Checked
    <3>3. InStage(d) /\ Knows(d) /\ KnowsThere(d)
      BY DEF SharedInv
    <3>4. d \notin overtaken' =>
            /\ d \notin overtaken
            /\ Checked(d) => there' = there
            /\ stage[d] = "write" /\ Looks(request[d]) =>
                  \A i \in LookedAt(request[d]) : docs'[i] = docs[i]
      BY <2>2 DEF WriteLands, Overtakes
    <3>5. InStage(d)'
      BY <3>1, <3>2, <3>3 DEF InStage
    <3>6. Knows(d)'
      BY <3>1, <3>2, <3>3, <3>4 DEF Knows, Present
    <3>7. d \notin gone' /\ backend = "chroma" /\ Checked(d) => d \notin gone /\ (there => there')
      BY <2>2 DEF WriteLands
    <3>8. KnowsThere(d)'
      BY <3>1, <3>2, <3>3, <3>4, <3>7 DEF KnowsThere
    <3> QED BY <3>5, <3>6, <3>8
  <2> QED BY <2>1, <2>2
<1> QED BY <1>4, <1>5 DEF SharedInv

LEMMA WriteKeeps ==
    ASSUME SharedInv, Served, backend # "faiss", NEW c \in Clients,
           Write(c) \/ Unavailable(c)
    PROVE  SharedInv' /\ Served'
<1>1. CASE \E o \in Outcomes : EndsUnwritten(c, o)
  BY <1>1, UnwrittenKeeps
<1>2. CASE ~ \E o \in Outcomes : EndsUnwritten(c, o)
  BY <1>2, WriteLandsKeeps DEF Write, Unavailable, Outcomes
<1> QED BY <1>1, <1>2

LEMMA RestartKeeps ==
    ASSUME SharedInv, Served, SharedRestart
    PROVE  SharedInv' /\ Served'
<1>1. SharedTypeOK' /\ Served'
  BY DocumentTypes DEF SharedRestart, SharedInv, SharedTypeOK, Served, Stages, Table
<1>2. ASSUME NEW d \in Clients PROVE (InStage(d) /\ Knows(d) /\ KnowsThere(d))'
  BY DEF SharedRestart, InStage, Knows, KnowsThere, Checked
<1> QED BY <1>1, <1>2 DEF SharedInv

LEMMA SharedNextKeeps ==
    ASSUME SharedInv, Served, SharedNext
    PROVE  SharedInv' /\ Served'
<1>1. backend # "faiss"
  BY DEF SharedNext
<1>2. \/ \E c \in Clients : Check(c) \/ Look(c) \/ Write(c) \/ Unavailable(c)
      \/ \E c \in Clients, r \in Requests : SharedCall(c, r)
      \/ SharedRestart
  BY DEF SharedNext
<1> QED BY <1>1, <1>2, CheckKeeps, LookKeeps, WriteKeeps, CallKeeps, RestartKeeps

-----------------------------------------------------------------------------
(* FAISS.                                                                  *)

Busy(c) == at[c] \in {"index", "json"}

\* Data in memory are missing or whole, and never anything else.
IsData(d) == d = NoData \/ d = Data(d.docs, d.order, d.index)

\* What the contract asks of a request, over the documents of the JSON file.
Barred(r) ==
    \/ json.is = "whole" <=> r.op = "create"
    \/ r.op = "add" /\ r.ids \cap Present(json.docs) # {}
    \/ r.op = "set_metadata" /\ ~ r.ids \subseteq Present(json.docs)

EffectOn(r, d) ==
    CASE r.op \in {"create", "drop"} -> Nothing
      [] r.op = "add" -> Added(d, r.ids)
      [] r.op = "update" -> Updated(d, r.ids, d)
      [] r.op = "delete" -> Deleted(d, r.ids)
      [] OTHER -> WithMetadata(d, r.ids, d)

\* Shapes.
FilesShape ==
    /\ FaissTypeOK
    /\ json = File(json.is, json.docs, json.order)
    /\ indexFile = IndexFile(indexFile.is, indexFile.vectors)
    /\ IsData(cache) /\ IsData(work)
    /\ json.is # "whole" => json.docs = Nothing

\* One request at a time is at work; a copy in memory is then what it writes.
UnderLock ==
    /\ \A c \in Clients : at[c] = "idle" <=> request[c] = Idle
    /\ \A c, d \in Clients : Busy(c) /\ Busy(d) => c = d
    /\ \A c \in Clients : Busy(c) => cache \in {NoData, work}
    /\ \A c \in Clients : at[c] = "json" => indexFile = IndexFile(work.is, work.index)

\* Between requests the files agree, and memory agrees with them.
Agreed ==
    /\ indexFile.is = json.is /\ json.is # "torn"
    /\ cache.is = "whole" =>
          /\ json = File("whole", cache.docs, cache.order)
          /\ indexFile = IndexFile("whole", cache.index)

\* What a request is about to write is what the contract says.
Prepared(c) ==
    /\ json.is # "torn"
    /\ ~ Barred(request[c])
    /\ work.is = IF request[c].op = "drop" THEN "missing" ELSE "whole"
    /\ work.docs = EffectOn(request[c], json.docs)

FaissInv ==
    /\ FilesShape
    /\ backend = "faiss" =>
          /\ UnderLock
          /\ cuts = 0 /\ LockFree => Agreed
          /\ cuts = 0 => \A c \in Clients : Busy(c) => Prepared(c)

LEMMA DataShapes ==
    /\ NoData.is = "missing" /\ NoData.docs = Nothing
    /\ IsData(NoData)
    /\ \A d, o, x : /\ Data(d, o, x).is = "whole" /\ Data(d, o, x).docs = d
                    /\ Data(d, o, x).order = o /\ Data(d, o, x).index = x
                    /\ IsData(Data(d, o, x))
    /\ \A is, d, o : File(is, d, o).is = is /\ File(is, d, o).docs = d /\ File(is, d, o).order = o
    /\ \A is, v : IndexFile(is, v).is = is /\ IndexFile(is, v).vectors = v
BY DEF NoData, IsData, Data, File, IndexFile

\* What a request finds in memory after _load.
LEMMA LoadedShape ==
    ASSUME FilesShape
    PROVE  /\ IsData(Loaded) /\ Loaded.docs \in Table
           /\ Loaded.is \in {"missing", "whole"}
<1>1. CASE cache.is = "whole"
  BY <1>1 DEF FilesShape, FaissTypeOK, Loaded, Table
<1>2. CASE cache.is # "whole" /\ json.is = "missing"
  BY <1>2, DataShapes, DocumentTypes DEF Loaded
<1>3. CASE cache.is # "whole" /\ json.is # "missing"
  BY <1>3, DataShapes DEF FilesShape, FaissTypeOK, Loaded, Table
<1> QED BY <1>1, <1>2, <1>3

LEMMA LoadedIsCurrent ==
    ASSUME FilesShape, Agreed
    PROVE  /\ ~ Unreadable
           /\ Loaded.docs = json.docs
           /\ Loaded.is = "whole" <=> json.is = "whole"
           /\ Loaded.is = "whole" =>
                 /\ json = File("whole", Loaded.docs, Loaded.order)
                 /\ indexFile = IndexFile("whole", Loaded.index)
<1>0. /\ cache.is \in {"missing", "whole"} /\ json.is \in {"missing", "torn", "whole"}
      /\ ~ Unreadable
  BY DEF FilesShape, FaissTypeOK, Agreed, Unreadable
<1>1. CASE cache.is = "whole"
  <2>1. Loaded = cache
    BY <1>1 DEF Loaded
  <2>2. json.is = "whole" /\ json.docs = cache.docs
    BY <1>1, DataShapes DEF Agreed
  <2> QED BY <1>0, <1>1, <2>1, <2>2 DEF Agreed
<1>2. CASE cache.is # "whole" /\ json.is = "missing"
  <2>1. Loaded = NoData
    BY <1>2 DEF Loaded
  <2> QED BY <1>0, <1>2, <2>1, DataShapes DEF FilesShape
<1>3. CASE cache.is # "whole" /\ json.is # "missing"
  <2>1. Loaded = Data(json.docs, json.order, indexFile.vectors)
    BY <1>3 DEF Loaded
  <2>2. json.is = "whole" /\ indexFile.is = "whole"
    BY <1>0, <1>3 DEF Agreed
  <2> QED BY <1>0, <2>1, <2>2, DataShapes DEF FilesShape
<1> QED BY <1>1, <1>2, <1>3

\* The new ids of a request, in whatever order, are all its new ids.
LEMMA OrderedIds ==
    ASSUME NEW S, IsFiniteSet(S), NEW q \in SetToSeqs(S)
    PROVE  Range(q) = S
<1> DEFINE D == 1..Cardinality(S)
<1>1. Cardinality(S) \in Nat
  BY FS_CardinalityType
<1>2. IsFiniteSet(D) /\ Cardinality(D) = Cardinality(S)
  BY <1>1, FS_Interval
<1>3. q \in [D -> S] /\ \A i, j \in D : i # j => q[i] # q[j]
  BY DEF SetToSeqs
<1> HIDE DEF D
<1>4. q \in Injection(D, S)
  BY <1>3 DEF Injection, IsInjective
<1>5. q \in Surjection(D, S)
  BY <1>2, <1>4, FS_Injection
<1> QED BY <1>3, <1>5 DEF Surjection, Range

\* The data a request has prepared when it starts to write.
LEMMA ChangedEffect ==
    ASSUME FilesShape, NEW r \in Requests, ~ FaissRefuses(r), FaissWithinBound(r),
           NEW new \in NewIds(r)
    PROVE  /\ IsData(Changed(r, new))
           /\ Changed(r, new).is = IF r.op = "drop" THEN "missing" ELSE "whole"
           /\ Changed(r, new).docs = EffectOn(r, Loaded.docs)
           /\ Changed(r, new).docs \in Table
<1> DEFINE d == Loaded.docs
           ch == Changed(r, new)
<1>1. /\ d \in Table /\ IsData(Loaded) /\ r.ids \subseteq Ids
      /\ r.op \in {"create", "drop", "add", "update", "delete", "set_metadata"}
  BY LoadedShape, RequestParts
<1>2. CASE r.op = "create"
  <2>1. ch = Data(Nothing, <<>>, <<>>)
    BY <1>2 DEF Changed
  <2>2. EffectOn(r, d) = Nothing
    BY <1>2 DEF EffectOn
  <2> QED BY <1>2, <2>1, <2>2, DataShapes, DocumentTypes
<1>3. CASE r.op = "drop"
  <2>1. ch = NoData
    BY <1>3 DEF Changed
  <2>2. EffectOn(r, d) = Nothing
    BY <1>3 DEF EffectOn
  <2> QED BY <1>3, <2>1, <2>2, DataShapes, DocumentTypes
<1>4. CASE r.op = "add"
  <2>1. ch = Appended(new)
    BY <1>4 DEF Changed
  <2>2. r.ids \cap Present(d) = {}
    BY <1>4 DEF FaissRefuses
  <2>3. Range(new) = r.ids
    <3>1. IsFiniteSet(r.ids)
      BY <1>1, VectorAssumption, FS_Subset
    <3>2. new \in SetToSeqs(r.ids \ Present(d)) /\ r.ids \ Present(d) = r.ids
      BY <1>4, <2>2 DEF NewIds
    <3>3. new \in SetToSeqs(r.ids)
      BY <3>2
    <3> QED BY <3>1, <3>3, OrderedIds
  <2>4. EffectOn(r, d) = Added(d, r.ids)
    BY <1>4 DEF EffectOn
  <2>5. ch.docs = Added(d, r.ids) /\ ch.is = "whole" /\ IsData(ch)
    BY <2>1, <2>3, DataShapes DEF Appended
  <2> QED BY <1>1, <1>4, <2>4, <2>5, WriteTypes
<1>5. CASE r.op = "update"
  <2>1. ch = Rebuilt(Updated(d, r.ids, d), Loaded.order \o new)
    BY <1>5 DEF Changed
  <2>2. EffectOn(r, d) = Updated(d, r.ids, d)
    BY <1>5 DEF EffectOn
  <2>3. \A i \in r.ids \cap Ids : d[i].version < MaxVersion
    BY <1>5 DEF FaissWithinBound
  <2>4. ch.docs = Updated(d, r.ids, d) /\ ch.is = "whole" /\ IsData(ch)
    BY <2>1, DataShapes DEF Rebuilt
  <2> QED BY <1>1, <1>5, <2>2, <2>3, <2>4, WriteTypes
<1>6. CASE r.op = "delete"
  <2>1. ch = Rebuilt(Deleted(d, r.ids), Kept(Loaded.order, r.ids))
    BY <1>6 DEF Changed
  <2>2. EffectOn(r, d) = Deleted(d, r.ids)
    BY <1>6 DEF EffectOn
  <2>3. ch.docs = Deleted(d, r.ids) /\ ch.is = "whole" /\ IsData(ch)
    BY <2>1, DataShapes DEF Rebuilt
  <2> QED BY <1>1, <1>6, <2>2, <2>3, WriteTypes
<1>7. CASE r.op = "set_metadata"
  <2>1. ch = [Loaded EXCEPT !.docs = WithMetadata(d, r.ids, d)]
    BY <1>7 DEF Changed
  <2>2. EffectOn(r, d) = WithMetadata(d, r.ids, d)
    BY <1>7 DEF EffectOn
  <2>3. r.ids \subseteq Present(d) /\ Loaded.is = "whole"
    BY <1>7, LoadedShape DEF FaissRefuses
  <2>4. Loaded = Data(d, Loaded.order, Loaded.index)
    BY <1>1, <2>3, DataShapes DEF IsData
  <2>5. ch = Data(WithMetadata(d, r.ids, d), Loaded.order, Loaded.index)
    BY <2>1, <2>4 DEF Data
  <2>6. WithMetadata(d, r.ids, d) \in Table
    BY <1>1, <2>3, WriteTypes
  <2>7. ch.docs = WithMetadata(d, r.ids, d) /\ ch.is = "whole" /\ IsData(ch)
    BY <2>5, DataShapes
  <2> QED BY <1>7, <2>2, <2>6, <2>7
<1> QED BY <1>1, <1>2, <1>3, <1>4, <1>5, <1>6, <1>7

\* The files as a write cut short leaves them (FilesCutShort).
LEMMA CutShortFiles ==
    ASSUME FilesShape, FilesCutShort
    PROVE  /\ json'.is \in {"missing", "torn", "whole"} /\ json'.docs \in Table
           /\ json' = File(json'.is, json'.docs, json'.order)
           /\ indexFile'.is \in {"missing", "torn", "whole"}
           /\ indexFile' = IndexFile(indexFile'.is, indexFile'.vectors)
           /\ json'.is # "whole" => json'.docs = Nothing
           /\ cuts' \in 0..MaxCuts
           /\ cuts' = 0 => cuts = 0 /\ ~ Writing /\ UNCHANGED <<json, indexFile>>
<1>1. json' \in {json, File("torn", Nothing, <<>>)}
  BY DEF FilesCutShort, CutShort
<1>2. indexFile' \in {indexFile, IndexFile("torn", <<>>)}
  BY DEF FilesCutShort, CutShort
<1>3. /\ json'.is \in {"missing", "torn", "whole"} /\ json'.docs \in Table
      /\ json' = File(json'.is, json'.docs, json'.order)
      /\ json'.is # "whole" => json'.docs = Nothing
  BY <1>1, DataShapes, DocumentTypes DEF FilesShape, FaissTypeOK, Table
<1>4. /\ indexFile'.is \in {"missing", "torn", "whole"}
      /\ indexFile' = IndexFile(indexFile'.is, indexFile'.vectors)
  BY <1>2, DataShapes DEF FilesShape, FaissTypeOK
<1>5. /\ cuts \in Nat /\ MaxCuts \in Nat /\ cuts' = (IF Writing THEN cuts + 1 ELSE cuts)
      /\ cuts' <= MaxCuts
  BY VectorFaissAssumption DEF FilesCutShort, FilesShape, FaissTypeOK
<1>6. cuts' \in 0..MaxCuts
  BY <1>5
<1>7. cuts' = 0 => cuts = 0 /\ ~ Writing
  BY <1>5
<1>8. ~ Writing => UNCHANGED <<json, indexFile>>
  BY DEF FilesCutShort, Writing
<1> QED BY <1>3, <1>4, <1>6, <1>7, <1>8

LEMMA FaissCallKeeps ==
    ASSUME FaissInv, Served, backend = "faiss", NEW c \in Clients, NEW r \in Requests,
           FaissCall(c, r)
    PROVE  FaissInv' /\ Served'
<1>1. Served'
  BY DEF FaissCall, Served
<1>2. FilesShape'
  BY DEF FaissCall, FaissInv, FilesShape, FaissTypeOK, IsData
<1>3. /\ at[c] = "idle" /\ at'[c] = "waiting" /\ request'[c] = r /\ r # Idle
      /\ \A d \in Clients \ {c} : at'[d] = at[d] /\ request'[d] = request[d]
      /\ \A d \in Clients : Busy(d)' => Busy(d) /\ d # c
  BY RequestParts DEF FaissCall, FaissInv, UnderLock, FilesShape, FaissTypeOK, Served, Busy
<1>4. UnderLock'
  <2>1. \A d \in Clients : at'[d] = "idle" <=> request'[d] = Idle
    BY <1>3 DEF FaissInv, UnderLock
  <2>2. \A d, e \in Clients : Busy(d)' /\ Busy(e)' => d = e
    BY <1>3 DEF FaissInv, UnderLock
  <2>3. \A d \in Clients : Busy(d)' => cache' \in {NoData, work'}
    BY <1>3 DEF FaissInv, UnderLock, FaissCall
  <2>4. \A d \in Clients : at'[d] = "json" => indexFile' = IndexFile(work'.is, work'.index)
    BY <1>3 DEF FaissInv, UnderLock, FaissCall
  <2> QED BY <2>1, <2>2, <2>3, <2>4 DEF UnderLock
<1>5. cuts' = 0 /\ LockFree' => Agreed'
  <2>1. LockFree' => LockFree
    BY <1>3 DEF LockFree
  <2> QED BY <2>1 DEF FaissInv, Agreed, FaissCall
<1>6. cuts' = 0 => \A d \in Clients : Busy(d)' => Prepared(d)'
  <2> SUFFICES ASSUME cuts = 0, NEW d \in Clients, Busy(d)' PROVE Prepared(d)'
    BY DEF FaissCall
  <2>1. Prepared(d) /\ request'[d] = request[d] /\ UNCHANGED <<json, work>>
    BY <1>3 DEF FaissInv, FaissCall
  <2> QED BY <2>1 DEF Prepared, Barred
<1> QED BY <1>1, <1>2, <1>4, <1>5, <1>6 DEF FaissInv

\* A request that ends frees the lock, whoever held it.
LEMMA FaissEndsLock ==
    ASSUME FaissInv, Served, backend = "faiss", NEW c \in Clients, NEW o \in Outcomes,
           FaissEnds(c, o), Busy(c) \/ LockFree
    PROVE  /\ Served' /\ backend' = "faiss"
           /\ at' \in [Clients -> {"idle", "waiting", "index", "json"}]
           /\ LockFree' /\ work' = NoData
           /\ \A d \in Clients : ~ Busy(d)'
           /\ \A d \in Clients : at'[d] = "idle" <=> request'[d] = Idle
<1>1. /\ at \in [Clients -> {"idle", "waiting", "index", "json"}]
      /\ request \in [Clients -> Requests \cup {Idle}]
  BY DEF FaissInv, FilesShape, FaissTypeOK, Served
<1>2. /\ at'[c] = "idle" /\ request'[c] = Idle
      /\ \A d \in Clients \ {c} : at'[d] = at[d] /\ request'[d] = request[d]
  BY <1>1 DEF FaissEnds
<1>3. \A d \in Clients \ {c} : ~ Busy(d)
  BY DEF FaissInv, UnderLock, LockFree, Busy
<1>4. \A d \in Clients : at'[d] \in {"idle", "waiting"}
  BY <1>1, <1>2, <1>3 DEF Busy
<1>5. \A d \in Clients : at'[d] = "idle" <=> request'[d] = Idle
  BY <1>2 DEF FaissInv, UnderLock
<1> QED BY <1>1, <1>4, <1>5 DEF FaissEnds, Served, LockFree, Busy

\* After a request has ended, what the files and memory hold decides.
LEMMA FaissEnded ==
    ASSUME backend' = "faiss", LockFree', \A d \in Clients : ~ Busy(d)',
           \A d \in Clients : at'[d] = "idle" <=> request'[d] = Idle,
           FilesShape', cuts' = 0 => Agreed'
    PROVE  FaissInv'
<1>1. UnderLock'
  BY DEF UnderLock, Busy
<1> QED BY <1>1 DEF FaissInv

LEMMA BeginKeeps ==
    ASSUME FaissInv, Served, backend = "faiss", NEW c \in Clients, Begin(c)
    PROVE  FaissInv' /\ Served'
<1> DEFINE r == request[c]
<1>1. /\ at[c] = "waiting" /\ LockFree /\ FilesShape
      /\ UNCHANGED <<json, indexFile, cuts>>
      /\ r \in Requests
      /\ cuts = 0 => Agreed
  BY DEF Begin, FaissInv, UnderLock, Served
<1>2. ASSUME NEW o \in Outcomes, FaissEnds(c, o), cache' \in {cache, Loaded},
             cuts = 0 => ~ Unreadable
      PROVE  FaissInv' /\ Served'
  <2>1. /\ Served' /\ backend' = "faiss" /\ LockFree' /\ work' = NoData
        /\ at' \in [Clients -> {"idle", "waiting", "index", "json"}]
        /\ \A d \in Clients : ~ Busy(d)'
        /\ \A d \in Clients : at'[d] = "idle" <=> request'[d] = Idle
    BY <1>1, <1>2, FaissEndsLock
  <2>2. IsData(cache') /\ cache'.docs \in Table /\ cache'.is \in {"missing", "whole"}
    BY <1>1, <1>2, LoadedShape DEF FilesShape, FaissTypeOK, Table
  <2>3. FilesShape'
    BY <1>1, <2>1, <2>2, DataShapes, DocumentTypes DEF FilesShape, FaissTypeOK, IsData, Table
  <2>4. cuts' = 0 => Agreed'
    <3> SUFFICES ASSUME cuts = 0 PROVE Agreed'
      BY <1>1
    <3>1. CASE cache' = cache
      BY <1>1, <3>1 DEF Agreed
    <3>2. CASE cache' = Loaded
      <4>1. Loaded.is = "whole" =>
              /\ json = File("whole", Loaded.docs, Loaded.order)
              /\ indexFile = IndexFile("whole", Loaded.index)
        BY <1>1, LoadedIsCurrent
      <4> QED BY <1>1, <3>2, <4>1 DEF Agreed
    <3> QED BY <1>2, <3>1, <3>2
  <2> QED BY <2>1, <2>3, <2>4, FaissEnded
<1>3. ASSUME ~ Unreadable, ~ FaissRefuses(r), FaissWithinBound(r), NEW new \in NewIds(r),
             work' = Changed(r, new), cache' = CacheAfter(r, work'),
             at' = [at EXCEPT ![c] = "index"], UNCHANGED <<backend, request, outcome>>
      PROVE  FaissInv' /\ Served'
  <2>1. /\ IsData(work')
        /\ work'.is = IF r.op = "drop" THEN "missing" ELSE "whole"
        /\ work'.docs = EffectOn(r, Loaded.docs)
        /\ work'.docs \in Table
    BY <1>1, <1>3, ChangedEffect
  <2>2. cache' \in {NoData, work'}
    BY <1>3 DEF CacheAfter
  <2>3. IsData(cache') /\ cache'.docs \in Table /\ cache'.is \in {"missing", "whole"}
    BY <2>1, <2>2, DataShapes, DocumentTypes
  <2>4. /\ at' \in [Clients -> {"idle", "waiting", "index", "json"}]
        /\ at'[c] = "index" /\ \A d \in Clients \ {c} : at'[d] = at[d] /\ ~ Busy(d)
    BY <1>1, <1>3 DEF FilesShape, FaissTypeOK, LockFree, Busy
  <2>5. FilesShape'
    BY <1>1, <2>1, <2>3, <2>4 DEF FilesShape, FaissTypeOK, IsData, Table
  <2>6. \A d \in Clients : Busy(d)' <=> d = c
    BY <2>4 DEF Busy
  <2>7. UnderLock'
    <3>1. \A d \in Clients : at'[d] = "idle" <=> request'[d] = Idle
      BY <1>1, <1>3, <2>4 DEF FaissInv, UnderLock
    <3>2. \A d \in Clients : at'[d] # "json"
      BY <2>4 DEF Busy
    <3> QED BY <2>2, <2>6, <3>1, <3>2 DEF UnderLock
  <2>8. ~ LockFree'
    BY <2>4 DEF LockFree
  <2>9. cuts' = 0 => Prepared(c)'
    <3> SUFFICES ASSUME cuts = 0 PROVE Prepared(c)'
      BY <1>1
    <3>1. /\ Loaded.docs = json.docs /\ json.is # "torn"
          /\ Loaded.is = "whole" <=> json.is = "whole"
      BY <1>1, LoadedIsCurrent DEF Agreed
    <3>2. ~ Barred(r)
      BY <1>3, <3>1 DEF FaissRefuses, Barred
    <3> QED BY <1>1, <1>3, <2>1, <3>1, <3>2 DEF Prepared, Barred
  <2>10. Served' /\ backend' = "faiss"
    BY <1>3 DEF Served
  <2> QED BY <2>5, <2>6, <2>7, <2>8, <2>9, <2>10 DEF FaissInv
<1>4. cuts = 0 => ~ Unreadable
  BY <1>1, LoadedIsCurrent
<1>5. CASE Unreadable /\ FaissEnds(c, "failed") /\ UNCHANGED cache
  BY <1>2, <1>4, <1>5 DEF Outcomes
<1>6. CASE ~ Unreadable /\ FaissEnds(c, "refused") /\ cache' = Loaded
  BY <1>2, <1>6 DEF Outcomes
<1>7. CASE ~ Unreadable /\ FaissEnds(c, "ok") /\ cache' = Loaded
  BY <1>2, <1>7 DEF Outcomes
<1>8. CASE /\ ~ Unreadable /\ ~ FaissRefuses(r) /\ ~ NothingToDelete(r) /\ FaissWithinBound(r)
           /\ \E new \in NewIds(r) : work' = Changed(r, new)
           /\ cache' = CacheAfter(r, work')
           /\ at' = [at EXCEPT ![c] = "index"]
           /\ UNCHANGED <<backend, request, outcome>>
  BY <1>3, <1>8
<1> QED BY <1>5, <1>6, <1>7, <1>8 DEF Begin

\* The index is written, or unlinked: what it holds is what memory holds.
LEMMA WriteIndexKeeps ==
    ASSUME FaissInv, Served, backend = "faiss", NEW c \in Clients, WriteIndex(c)
    PROVE  FaissInv' /\ Served'
<1>1. /\ FilesShape /\ UnderLock
      /\ at \in [Clients -> {"idle", "waiting", "index", "json"}]
      /\ cuts = 0 => \A d \in Clients : Busy(d) => Prepared(d)
  BY DEF FaissInv, FilesShape, FaissTypeOK
<1>2. /\ at[c] = "index" /\ at'[c] = "json"
      /\ at' \in [Clients -> {"idle", "waiting", "index", "json"}]
      /\ \A d \in Clients \ {c} : at'[d] = at[d]
      /\ indexFile' = IndexFile(work.is, work.index)
      /\ UNCHANGED <<backend, request, outcome, json, cache, work, cuts>>
  BY <1>1 DEF WriteIndex
<1>3. Served'
  BY <1>2 DEF Served
<1>4. work.is \in {"missing", "whole"}
  BY <1>1 DEF FilesShape, FaissTypeOK
<1>5. FilesShape'
  BY <1>1, <1>2, <1>4, DataShapes DEF FilesShape, FaissTypeOK, IsData
<1>6. \A d \in Clients : Busy(d)' <=> Busy(d)
  BY <1>2 DEF Busy
<1>7. \A d \in Clients : at'[d] = "json" => d = c
  BY <1>1, <1>2 DEF UnderLock, Busy
<1>8. UnderLock'
  <2>1. \A d \in Clients : at'[d] = "idle" <=> request'[d] = Idle
    BY <1>1, <1>2 DEF UnderLock
  <2>2. \A d, e \in Clients : Busy(d)' /\ Busy(e)' => d = e
    BY <1>1, <1>6 DEF UnderLock
  <2>3. \A d \in Clients : Busy(d)' => cache' \in {NoData, work'}
    BY <1>1, <1>2, <1>6 DEF UnderLock
  <2> QED BY <1>2, <1>7, <2>1, <2>2, <2>3 DEF UnderLock
<1>9. ~ LockFree'
  BY <1>2 DEF LockFree
<1>10. cuts' = 0 => \A d \in Clients : Busy(d)' => Prepared(d)'
  BY <1>1, <1>2, <1>6 DEF Prepared, Barred
<1> QED BY <1>2, <1>3, <1>5, <1>8, <1>9, <1>10 DEF FaissInv

\* The JSON file is written, or unlinked, and the files are in step.
LEMMA WriteJsonKeeps ==
    ASSUME FaissInv, Served, backend = "faiss", NEW c \in Clients, WriteJson(c)
    PROVE  FaissInv' /\ Served'
<1>1. /\ FilesShape /\ UnderLock /\ at[c] = "json" /\ Busy(c) /\ FaissEnds(c, "ok")
      /\ json' = File(work.is, work.docs, work.order)
      /\ cuts' \in {0, cuts} /\ UNCHANGED <<indexFile, cache>>
  BY DEF FaissInv, WriteJson, Busy
<1>2. /\ Served' /\ backend' = "faiss" /\ LockFree' /\ work' = NoData
      /\ at' \in [Clients -> {"idle", "waiting", "index", "json"}]
      /\ \A d \in Clients : ~ Busy(d)'
      /\ \A d \in Clients : at'[d] = "idle" <=> request'[d] = Idle
  BY <1>1, FaissEndsLock DEF Outcomes
<1>3. /\ work.is \in {"missing", "whole"} /\ work.docs \in Table /\ IsData(work)
      /\ cuts \in 0..MaxCuts /\ MaxCuts \in Nat
  BY <1>1, VectorFaissAssumption DEF FilesShape, FaissTypeOK, Table
<1>4. json'.is = work.is /\ json'.docs = work.docs /\ json'.order = work.order
  BY <1>1, DataShapes
<1>5. work.is # "whole" => work = NoData
  BY <1>3, DataShapes DEF IsData
<1>6. FilesShape'
  <2>1. json'.is # "whole" => json'.docs = Nothing
    BY <1>4, <1>5, DataShapes
  <2>2. cuts' \in 0..MaxCuts
    BY <1>1, <1>3
  <2>3. json' = File(json'.is, json'.docs, json'.order)
    BY <1>1, <1>4
  <2>4. FaissTypeOK'
    BY <1>1, <1>2, <1>3, <1>4, <2>2, DataShapes, DocumentTypes
       DEF FilesShape, FaissTypeOK, Table
  <2> QED BY <1>1, <1>2, <2>1, <2>3, <2>4, DataShapes DEF FilesShape, IsData
<1>7. Agreed'
  <2>1. indexFile = IndexFile(work.is, work.index) /\ indexFile.is = work.is
    BY <1>1, DataShapes DEF UnderLock
  <2>2. cache \in {NoData, work}
    BY <1>1 DEF UnderLock
  <2>3. cache.is = "whole" => cache = work
    BY <2>2, DataShapes
  <2> QED BY <1>1, <1>3, <1>4, <2>1, <2>3 DEF Agreed
<1> QED BY <1>2, <1>6, <1>7, FaissEnded

\* A write that is cut short leaves the promise suspended.
LEMMA PersistFailsKeeps ==
    ASSUME FaissInv, Served, backend = "faiss", NEW c \in Clients, PersistFails(c)
    PROVE  FaissInv' /\ Served' /\ cuts' > 0
<1>1. /\ FilesShape /\ Busy(c) /\ Writing /\ FaissEnds(c, "failed")
      /\ FilesCutShort /\ UNCHANGED cache
  BY DEF FaissInv, PersistFails, Busy, Writing
<1>2. /\ Served' /\ backend' = "faiss" /\ LockFree' /\ work' = NoData
      /\ at' \in [Clients -> {"idle", "waiting", "index", "json"}]
      /\ \A d \in Clients : ~ Busy(d)'
      /\ \A d \in Clients : at'[d] = "idle" <=> request'[d] = Idle
  BY <1>1, FaissEndsLock DEF Outcomes
<1>3. /\ json'.is \in {"missing", "torn", "whole"} /\ json'.docs \in Table
      /\ json' = File(json'.is, json'.docs, json'.order)
      /\ indexFile'.is \in {"missing", "torn", "whole"}
      /\ indexFile' = IndexFile(indexFile'.is, indexFile'.vectors)
      /\ json'.is # "whole" => json'.docs = Nothing
      /\ cuts' \in 0..MaxCuts /\ cuts' # 0
  BY <1>1, CutShortFiles
<1>4. FilesShape'
  BY <1>1, <1>2, <1>3, DataShapes, DocumentTypes DEF FilesShape, FaissTypeOK, IsData, Table
<1>5. cuts' > 0
  BY <1>3, VectorFaissAssumption
<1> QED BY <1>2, <1>3, <1>4, <1>5, FaissEnded

\* The process dies: between two requests that loses nothing, and during one
\* it leaves the promise suspended.
LEMMA FaissRestartKeeps ==
    ASSUME FaissInv, Served, backend = "faiss", FaissRestart
    PROVE  FaissInv' /\ Served' /\ (cuts' = 0 => UNCHANGED json /\ cuts = 0)
<1>1. /\ FilesShape /\ FilesCutShort
      /\ request' = [d \in Clients |-> Idle] /\ at' = [d \in Clients |-> "idle"]
      /\ cache' = NoData /\ work' = NoData
      /\ UNCHANGED <<backend, outcome>>
  BY DEF FaissInv, FaissRestart
<1>2. /\ json'.is \in {"missing", "torn", "whole"} /\ json'.docs \in Table
      /\ json' = File(json'.is, json'.docs, json'.order)
      /\ indexFile'.is \in {"missing", "torn", "whole"}
      /\ indexFile' = IndexFile(indexFile'.is, indexFile'.vectors)
      /\ json'.is # "whole" => json'.docs = Nothing
      /\ cuts' \in 0..MaxCuts
      /\ cuts' = 0 => cuts = 0 /\ ~ Writing /\ UNCHANGED <<json, indexFile>>
  BY <1>1, CutShortFiles
<1>3. Served' /\ backend' = "faiss"
  BY <1>1 DEF Served
<1>4. FilesShape'
  BY <1>1, <1>2, DataShapes, DocumentTypes DEF FilesShape, FaissTypeOK, IsData, Table
<1>5. /\ LockFree' /\ \A d \in Clients : ~ Busy(d)'
      /\ \A d \in Clients : at'[d] = "idle" <=> request'[d] = Idle
  BY <1>1 DEF LockFree, Busy
<1>6. cuts' = 0 => Agreed'
  <2> SUFFICES ASSUME cuts' = 0 PROVE Agreed'
    OBVIOUS
  <2>1. cuts = 0 /\ LockFree /\ UNCHANGED <<json, indexFile>>
    BY <1>1, <1>2 DEF Writing, LockFree, FilesShape, FaissTypeOK
  <2>2. Agreed /\ cache'.is # "whole"
    BY <1>1, <2>1, DataShapes DEF FaissInv
  <2> QED BY <2>1, <2>2 DEF Agreed
<1> QED BY <1>2, <1>3, <1>4, <1>5, <1>6, FaissEnded

LEMMA FaissNextKeeps ==
    ASSUME FaissInv, Served, FaissNext
    PROVE  FaissInv' /\ Served'
<1>1. backend = "faiss"
  BY DEF FaissNext
<1>2. \/ \E c \in Clients : Begin(c) \/ WriteIndex(c) \/ WriteJson(c) \/ PersistFails(c)
      \/ \E c \in Clients, r \in Requests : FaissCall(c, r)
      \/ FaissRestart
  BY DEF FaissNext
<1> QED BY <1>1, <1>2, BeginKeeps, WriteIndexKeeps, WriteJsonKeeps, PersistFailsKeeps,
           FaissCallKeeps, FaissRestartKeeps

-----------------------------------------------------------------------------
(* All four: the invariant.                                                *)

StoresInv ==
    /\ Served /\ SharedInv /\ FaissInv
    /\ backend # "faiss" => cache = NoData

LEMMA InitInv == Init => StoresInv
<1> SUFFICES ASSUME Init PROVE StoresInv
  OBVIOUS
<1>1. Served
  BY DEF Init, Served, Outcomes
<1>2. SharedInv
  BY DocumentTypes DEF Init, SharedInit, SharedInv, SharedTypeOK, Stages, Table,
                       InStage, Knows, KnowsThere, Checked
<1>3. FilesShape /\ LockFree /\ cache = NoData /\ cuts = 0
  BY DataShapes, DocumentTypes, VectorFaissAssumption
     DEF Init, FaissInit, FilesShape, FaissTypeOK, IsData, Table, LockFree
<1>4. UnderLock /\ Agreed /\ \A c \in Clients : ~ Busy(c)
  BY <1>3, DataShapes DEF Init, FaissInit, UnderLock, Agreed, Busy
<1> QED BY <1>1, <1>2, <1>3, <1>4 DEF StoresInv, FaissInv

\* What the stores of the other kind keep, and a step in which nothing happens.
LEMMA SharedFrame ==
    ASSUME SharedInv, backend = "faiss", backend' = backend, UNCHANGED sharedVars
    PROVE  SharedInv'
BY DEF SharedInv, SharedTypeOK, sharedVars

LEMMA FaissFrame ==
    ASSUME FaissInv, backend # "faiss", backend' = backend, UNCHANGED faissVars
    PROVE  FaissInv'
BY DEF FaissInv, FilesShape, FaissTypeOK, IsData, faissVars

LEMMA NextInv ==
    ASSUME StoresInv, [Next]_vars PROVE StoresInv'
<1>1. CASE SharedNext /\ UNCHANGED faissVars
  <2>1. backend # "faiss" /\ backend' = backend
    BY <1>1 DEF SharedNext, Check, Look, Write, WriteLands, Unavailable, EndsUnwritten, Ends,
                GoesOn, SharedCall, SharedRestart
  <2> QED BY <1>1, <2>1, SharedNextKeeps, FaissFrame DEF StoresInv, faissVars
<1>2. CASE FaissNext /\ UNCHANGED sharedVars
  <2>1. backend = "faiss" /\ backend' = backend
    BY <1>2 DEF FaissNext, Begin, WriteIndex, WriteJson, PersistFails, FaissCall, FaissRestart,
                FaissEnds
  <2> QED BY <1>2, <2>1, FaissNextKeeps, SharedFrame DEF StoresInv
<1>3. CASE UNCHANGED vars
  <2>1. Served' /\ backend' = backend /\ UNCHANGED <<cache, request>>
    BY <1>3 DEF StoresInv, Served, vars, faissVars
  <2>2. SharedInv'
    BY <1>3 DEF StoresInv, vars, SharedInv, SharedTypeOK, sharedVars, InStage, Knows,
                KnowsThere, Checked, Looks, LookedAt, FirstStage, Present
  <2>3. FaissInv'
    BY <1>3 DEF StoresInv, vars, FaissInv, FilesShape, FaissTypeOK, IsData, faissVars,
                UnderLock, Agreed, Prepared, Barred, Busy, LockFree
  <2> QED BY <2>1, <2>2, <2>3 DEF StoresInv
<1> QED BY <1>1, <1>2, <1>3 DEF Next

-----------------------------------------------------------------------------
(* The contract: what a step is under the refinement mapping.              *)

Content == IF there THEN docs ELSE Nothing

LEMMA SharedTerms ==
    ASSUME backend # "faiss", NEW r
    PROVE  /\ Contract!Refused(r) <=>
                 \/ there <=> r.op = "create"
                 \/ r.op = "add" /\ r.ids \cap Present(Content) # {}
                 \/ r.op = "set_metadata" /\ ~ r.ids \subseteq Present(Content)
           /\ Contract!Effect(r) = EffectOn(r, Content)
<1>1. Contract!Refused(r) <=>
         \/ there <=> r.op = "create"
         \/ r.op = "add" /\ r.ids \cap Present(Content) # {}
         \/ r.op = "set_metadata" /\ ~ r.ids \subseteq Present(Content)
  BY SameTerms DEF Contract!Refused, Content
<1>2. Contract!Effect(r) = EffectOn(r, Content)
  BY SameTerms DEF Contract!Effect, EffectOn, Content
<1> QED BY <1>1, <1>2

LEMMA FaissTerms ==
    ASSUME backend = "faiss", NEW r
    PROVE  /\ Contract!Refused(r) <=> Barred(r)
           /\ Contract!Effect(r) = EffectOn(r, json.docs)
<1>1. Contract!Refused(r) <=> Barred(r)
  BY SameTerms DEF Contract!Refused, Barred
<1>2. Contract!Effect(r) = EffectOn(r, json.docs)
  BY SameTerms DEF Contract!Effect, EffectOn
<1> QED BY <1>1, <1>2

\* A request ends as the contract says (Ends), without a change ...
LEMMA SharedReturns ==
    ASSUME backend # "faiss", NEW c, request[c] # Idle, NEW o, Ends(c, o),
           UNCHANGED <<there, docs>>
    PROVE  /\ o = "failed" => Contract!Fail(c)
           /\ o = "refused" /\ Contract!Refused(request[c]) => Contract!Refuse(c)
BY SameTerms DEF Ends, Contract!Fail, Contract!Refuse, Contract!Return

\* ... or with its whole effect.
LEMMA SharedPerforms ==
    ASSUME backend # "faiss", NEW c, request[c] # Idle, NEW o \in {"ok", "failed"}, Ends(c, o),
           ~ Contract!Refused(request[c]), there' = (request[c].op # "drop"),
           Content' = EffectOn(request[c], Content)
    PROVE  Contract!Perform(c)
<1>1. Contract!Return(c, o)
  BY SameTerms DEF Ends, Contract!Return
<1>2. Contract!Effect(request[c]) = EffectOn(request[c], Content) /\ backend' # "faiss"
  BY SharedTerms DEF Ends
<1>3. (IF backend = "faiss" THEN json.docs ELSE IF there THEN docs ELSE Nothing)' = Content'
  BY <1>2, SameTerms DEF Content
<1>4. (IF backend = "faiss" THEN json.is = "whole" ELSE there)' = (request[c].op # "drop")
  BY <1>2
<1> QED BY <1>1, <1>2, <1>3, <1>4 DEF Contract!Perform

\* A write that lands and has not been overtaken is the contract's: what it
\* read before still holds (WriteLands).
LEMMA LandsWhole ==
    ASSUME SharedInv, Served, backend # "faiss", NEW c \in Clients, stage[c] = "write",
           WriteLands(c), ~ Orphans, ~ Orphans', ~ raced'
    PROVE  Contract!Perform(c)
<1> DEFINE r == request[c]
<1>1. /\ r # Idle /\ r \in Requests /\ backend \in {"sqlite", "qdrant", "chroma"}
      /\ Knows(c) /\ KnowsThere(c) /\ docs \in Table /\ seen[c] \in Table
  BY DEF SharedInv, SharedTypeOK, InStage, Served, Backends, Table
<1>2. /\ r.op \in {"create", "drop", "add", "update", "delete", "set_metadata"}
      /\ r.ids \subseteq Ids /\ (r.op \notin {"create", "drop"} => r.ids # {})
      /\ LookedAt(r) \subseteq r.ids
  BY <1>1, RequestParts, StagesOfRequests
<1>3. /\ ~ WriteRefused(c) /\ ~ Unknown(c) /\ docs' = Written(c)
      /\ there' = CASE r.op = "create" -> TRUE [] r.op = "drop" -> FALSE [] OTHER -> there
      /\ c \notin overtaken
  BY DEF WriteLands
<1>4. PICK o \in {"ok", "failed"} : Ends(c, o)
  BY DEF WriteLands
<1>5. Content = docs
  BY DEF Content, Orphans
<1>6. backend # "sqlite" /\ r.op # "create" => there
  BY <1>1, <1>3, StagesOfRequests DEF KnowsThere, Checked
<1>7. backend = "sqlite" /\ r.op \in {"add", "update", "delete"} => there
  BY <1>1, <1>3, StagesOfRequests DEF KnowsThere, Checked
<1>8. backend = "sqlite" /\ r.op = "drop" => there
  BY <1>3 DEF WriteRefused, SqliteRefuses
<1>9. backend = "sqlite" /\ r.op = "set_metadata" => there /\ r.ids \subseteq Present(docs)
  <2> SUFFICES ASSUME backend = "sqlite", r.op = "set_metadata"
               PROVE  there /\ r.ids \subseteq Present(docs)
    OBVIOUS
  <2>1. r.ids \subseteq Present(docs)
    BY <1>3 DEF WriteRefused, SqliteRefuses
  <2>2. docs # Nothing
    BY <1>2, <2>1, DocumentTypes
  <2> QED BY <2>1, <2>2 DEF Orphans
<1>10. r.op # "create" => there
  BY <1>2, <1>6, <1>7, <1>8, <1>9
<1>11. r.op = "create" => ~ there /\ docs = Nothing
  BY <1>3 DEF WriteRefused, SqliteRefuses, ServerRefuses, Orphans
<1>12. backend # "sqlite" /\ r.op \in {"add", "update", "delete", "set_metadata"} =>
          \A i \in r.ids : seen[c][i] = docs[i]
  BY <1>1, <1>3, StagesOfRequests DEF Knows
<1>13. backend = "sqlite" /\ r.op = "update" => \A i \in LookedAt(r) : seen[c][i] = docs[i]
  BY <1>1, <1>3, StagesOfRequests DEF Knows
<1>14. r.op = "add" => r.ids \cap Present(docs) = {}
  <2>1. CASE backend = "sqlite"
    BY <1>3, <2>1 DEF WriteRefused, SqliteRefuses
  <2>2. CASE backend # "sqlite"
    BY <1>1, <1>12, <2>2, StagesOfRequests DEF Knows, Present
  <2> QED BY <2>1, <2>2
<1>15. r.op = "set_metadata" => r.ids \subseteq Present(docs)
  <2>1. CASE backend # "sqlite"
    BY <1>1, <1>2, <1>12, <2>1, StagesOfRequests DEF Knows, Present
  <2> QED BY <1>9, <2>1
<1>16. ~ Contract!Refused(r)
  BY <1>5, <1>10, <1>11, <1>14, <1>15, SharedTerms
<1>17. there' = (r.op # "drop")
  BY <1>2, <1>3, <1>10
<1>18. Written(c) = EffectOn(r, docs)
  <2>1. CASE r.op = "create"
    BY <1>11, <2>1 DEF Written, EffectOn
  <2>2. CASE r.op = "drop"
    BY <2>2 DEF Written, EffectOn
  <2>3. CASE r.op = "add"
    <3>1. Reaches(c) = r.ids
      BY <1>14, <2>3 DEF Reaches
    <3> QED BY <2>3, <3>1 DEF Written, EffectOn
  <2>4. CASE r.op = "update"
    <3>1. Reaches(c) = r.ids
      BY <2>4 DEF Reaches
    <3>2. \A i \in r.ids : Basis(c)[i] = docs[i]
      BY <1>2, <1>12, <1>13, <2>4 DEF Basis, SqliteSees
    <3>3. Updated(docs, r.ids, Basis(c)) = Updated(docs, r.ids, docs)
      BY <3>2 DEF Updated
    <3> QED BY <2>4, <3>1, <3>3 DEF Written, EffectOn
  <2>5. CASE r.op = "delete"
    <3>1. Deleted(docs, Reaches(c)) = Deleted(docs, r.ids)
      <4>1. CASE backend = "sqlite"
        BY <2>5, <4>1 DEF Reaches
      <4>2. CASE backend # "sqlite"
        <5>1. Reaches(c) = r.ids \cap Present(seen[c])
          BY <2>5, <4>2 DEF Reaches
        <5>2. \A i \in r.ids \ Reaches(c) : docs[i] = Absent
          BY <1>2, <1>12, <2>5, <4>2, <5>1 DEF Present
        <5> QED BY <5>1, <5>2 DEF Deleted
      <4> QED BY <4>1, <4>2
    <3> QED BY <2>5, <3>1 DEF Written, EffectOn
  <2>6. CASE r.op = "set_metadata"
    <3>1. Reaches(c) = r.ids
      BY <1>15, <2>6 DEF Reaches
    <3>2. \A i \in r.ids : Basis(c)[i] = docs[i]
      BY <1>12, <2>6 DEF Basis
    <3>3. WithMetadata(docs, r.ids, Basis(c)) = WithMetadata(docs, r.ids, docs)
      BY <3>2 DEF WithMetadata
    <3> QED BY <2>6, <3>1, <3>3 DEF Written, EffectOn
  <2> QED BY <1>2, <2>1, <2>2, <2>3, <2>4, <2>5, <2>6
<1>19. Content' = EffectOn(r, Content)
  <2>1. Content' = docs'
    BY DEF Content, Orphans, Nothing
  <2> QED BY <1>3, <1>5, <1>18, <2>1
<1> HIDE DEF r
<1> QED BY <1>1, <1>4, <1>16, <1>17, <1>19, SharedPerforms DEF r

\* A request that ends unwritten is one the contract refuses, or a failure,
\* or the deletion of documents that are not there.
LEMMA UnwrittenRefused ==
    ASSUME SharedInv, Served, backend # "faiss", NEW c \in Clients, request[c] # Idle,
           EndsUnwritten(c, "refused"), Contract!Refused(request[c])
    PROVE  Contract!Refuse(c)
BY SharedReturns DEF EndsUnwritten

LEMMA UnwrittenFails ==
    ASSUME backend # "faiss", NEW c \in Clients, request[c] # Idle,
           EndsUnwritten(c, "failed")
    PROVE  Contract!Fail(c)
BY SharedReturns DEF EndsUnwritten

\* A stage that goes on shows nothing of itself.
LEMMA GoesOnUnseen ==
    ASSUME backend # "faiss", NEW c, NEW s, GoesOn(c, s),
           ~ (raced \/ Orphans), ~ (raced \/ Orphans)'
    PROVE  UNCHANGED Contract!contractVars
<1>1. UNCHANGED <<backend, request, outcome, there, docs>> /\ Nothing' = Nothing
  BY DEF GoesOn, Nothing
<1>2. (IF backend = "faiss" THEN cuts > 0 ELSE raced \/ Orphans)' =
          (IF backend = "faiss" THEN cuts > 0 ELSE raced \/ Orphans)
  BY <1>1
<1> QED BY <1>1, <1>2 DEF Contract!contractVars

LEMMA CheckImplements ==
    ASSUME SharedInv, Served, backend # "faiss", NEW c \in Clients, Check(c)
    PROVE  Contract!Refuse(c) \/ \E s : GoesOn(c, s)
<1>1. /\ request[c] # Idle /\ request[c] \in Requests /\ FirstStage(request[c]) = "check"
      /\ backend \in {"sqlite", "qdrant", "chroma"}
  BY DEF Check, SharedInv, InStage, Served, Backends
<1>2. request[c].op # "create"
  BY <1>1, StagesOfRequests
<1>3. CASE ~ there /\ EndsUnwritten(c, "refused")
  BY <1>1, <1>2, <1>3, SharedTerms, UnwrittenRefused
<1>4. CASE there /\ GoesOn(c, IF Looks(request[c]) THEN "look" ELSE "write")
  BY <1>4
<1> QED BY <1>3, <1>4 DEF Check

LEMMA LookImplements ==
    ASSUME SharedInv, Served, backend # "faiss", NEW c \in Clients, Look(c), ~ Orphans
    PROVE  \/ Contract!Refuse(c) \/ Contract!Fail(c) \/ Contract!Perform(c)
           \/ \E s : GoesOn(c, s)
<1> DEFINE r == request[c]
<1>1. /\ r # Idle /\ r \in Requests /\ FirstStage(r) = "check" /\ Looks(r) /\ stage[c] = "look"
      /\ backend \in {"sqlite", "qdrant", "chroma"} /\ docs \in Table /\ KnowsThere(c)
  BY DEF Look, SharedInv, SharedTypeOK, InStage, Served, Backends, Table
<1>2. r.op # "create" /\ r.ids \subseteq Ids /\ r.ids # {} /\ Content = docs
  BY <1>1, StagesOfRequests, RequestParts DEF Content, Orphans
<1>3. CASE EndsUnwritten(c, "failed")
  BY <1>1, <1>3, UnwrittenFails
<1>4. CASE r.op = "add" /\ LookFinds(c) # {} /\ EndsUnwritten(c, "refused")
  <2>1. Contract!Refused(r)
    BY <1>2, <1>4, SharedTerms DEF LookFinds
  <2> QED BY <1>1, <1>4, <2>1, UnwrittenRefused
<1>5. CASE r.op = "set_metadata" /\ LookFinds(c) = {} /\ EndsUnwritten(c, "refused")
  <2>1. ~ r.ids \subseteq Present(docs)
    BY <1>2, <1>5 DEF LookFinds
  <2>2. Contract!Refused(r)
    BY <1>2, <1>5, <2>1, SharedTerms
  <2> QED BY <1>1, <1>5, <2>2, UnwrittenRefused
<1>6. CASE ~ Unknown(c) /\ r.op = "delete" /\ LookFinds(c) = {} /\ EndsUnwritten(c, "ok")
  <2>1. backend # "sqlite"
    BY <1>1, <1>6, StagesOfRequests
  <2>2. there
    BY <1>1, <1>6, <2>1 DEF Unknown, KnowsThere, Checked
  <2>3. ~ Contract!Refused(r)
    BY <1>6, <2>2, SharedTerms
  <2>4. EffectOn(r, docs) = docs
    BY <1>1, <1>6, DeleteNothing DEF EffectOn, LookFinds
  <2>5. UNCHANGED <<there, docs>> /\ Content' = EffectOn(r, Content)
    BY <1>2, <1>6, <2>2, <2>4 DEF EndsUnwritten, Content
  <2>6. Ends(c, "ok") /\ there' = (r.op # "drop")
    BY <1>6, <2>2, <2>5 DEF EndsUnwritten
  <2> HIDE DEF r
  <2>7. Contract!Perform(c)
    BY <1>1, <2>3, <2>5, <2>6, SharedPerforms DEF r
  <2> QED BY <2>7
<1>7. CASE GoesOn(c, "write")
  BY <1>7
<1> QED BY <1>3, <1>4, <1>5, <1>6, <1>7 DEF Look

LEMMA WriteImplements ==
    ASSUME SharedInv, Served, backend # "faiss", NEW c \in Clients, Write(c) \/ Unavailable(c),
           ~ Orphans, ~ Orphans', ~ raced'
    PROVE  Contract!Refuse(c) \/ Contract!Fail(c) \/ Contract!Perform(c)
<1> DEFINE r == request[c]
<1>1. /\ r # Idle /\ r \in Requests
      /\ backend \in {"sqlite", "qdrant", "chroma"} /\ docs \in Table
  BY DEF Write, Unavailable, SharedInv, SharedTypeOK, InStage, Served, Backends, Table
<1>2. Content = docs
  BY DEF Content, Orphans
<1>3. CASE EndsUnwritten(c, "failed")
  BY <1>1, <1>3, UnwrittenFails
<1>4. CASE WriteRefused(c) /\ EndsUnwritten(c, "refused")
  <2>1. Contract!Refused(r)
    BY <1>2, <1>4, SharedTerms DEF WriteRefused, SqliteRefuses, ServerRefuses
  <2> QED BY <1>1, <1>4, <2>1, UnwrittenRefused
<1>5. CASE stage[c] = "write" /\ WriteLands(c)
  BY <1>5, LandsWhole
<1> QED BY <1>3, <1>4, <1>5 DEF Write, Unavailable

LEMMA SharedImplements ==
    ASSUME StoresInv, SharedNext, ~ (raced \/ Orphans), ~ (raced \/ Orphans)'
    PROVE  Contract!Next \/ UNCHANGED Contract!contractVars
<1>1. SharedInv /\ Served /\ backend # "faiss"
  BY DEF StoresInv, SharedNext
<1>2. ASSUME NEW c \in Clients, Check(c) \/ Look(c) \/ Write(c) \/ Unavailable(c)
      PROVE  Contract!Next \/ UNCHANGED Contract!contractVars
  <2>0. ~ Orphans /\ ~ Orphans' /\ ~ raced'
    OBVIOUS
  <2>1. CASE Contract!Refuse(c) \/ Contract!Fail(c) \/ Contract!Perform(c)
    BY <2>1 DEF Contract!Next
  <2>2. CASE \E s : GoesOn(c, s)
    BY <1>1, <2>2, GoesOnUnseen
  <2> QED BY <1>1, <1>2, <2>0, <2>1, <2>2, CheckImplements, LookImplements, WriteImplements
<1>3. ASSUME NEW c \in Clients, NEW r \in Requests, SharedCall(c, r)
      PROVE  Contract!Next
  <2>1. Contract!Call(c, r)
    BY <1>1, <1>3, SameTerms DEF SharedCall, Contract!Call, Nothing
  <2> QED BY <2>1, SameTerms DEF Contract!Next
<1>4. ASSUME SharedRestart PROVE Contract!Next
  <2>1. Contract!Restart
    BY <1>1, <1>4, SameTerms DEF SharedRestart, Contract!Restart, Nothing
  <2> QED BY <2>1 DEF Contract!Next
<1> QED BY <1>2, <1>3, <1>4 DEF SharedNext

\* A FAISS request under the lock is the contract's when it ends.
LEMMA BeginImplements ==
    ASSUME FaissInv, Served, backend = "faiss", NEW c \in Clients, Begin(c), cuts = 0
    PROVE  \/ Contract!Refuse(c) \/ Contract!Perform(c)
           \/ UNCHANGED <<backend, request, outcome, json, cuts>>
<1> DEFINE r == request[c]
<1>1. /\ FilesShape /\ LockFree /\ Agreed /\ UNCHANGED <<json, indexFile, cuts>>
      /\ r # Idle /\ r \in Requests
  BY DEF Begin, FaissInv, UnderLock, Served
<1>2. /\ ~ Unreadable /\ Loaded.docs = json.docs /\ json.docs \in Table
      /\ Loaded.is = "whole" <=> json.is = "whole"
  BY <1>1, LoadedIsCurrent DEF FilesShape, FaissTypeOK, Table
<1>3. FaissRefuses(r) <=> Barred(r)
  BY <1>2 DEF FaissRefuses, Barred
<1>4. CASE FaissRefuses(r) /\ FaissEnds(c, "refused")
  <2>1. Contract!Refused(r)
    BY <1>3, <1>4, FaissTerms
  <2> QED BY <1>1, <1>4, <2>1, SameTerms DEF FaissEnds, Contract!Refuse, Contract!Return
<1>5. CASE ~ FaissRefuses(r) /\ NothingToDelete(r) /\ FaissEnds(c, "ok")
  <2>1. ~ Contract!Refused(r) /\ Contract!Effect(r) = EffectOn(r, json.docs)
    BY <1>3, <1>5, FaissTerms
  <2>2. EffectOn(r, json.docs) = json.docs /\ json.is = "whole" /\ r.op # "drop"
    BY <1>2, <1>3, <1>5, DeleteNothing DEF EffectOn, NothingToDelete, Barred
  <2>3. Contract!Return(c, "ok") /\ backend' = "faiss"
    BY <1>1, <1>5, SameTerms DEF FaissEnds, Contract!Return
  <2> QED BY <1>1, <2>1, <2>2, <2>3 DEF Contract!Perform
<1>6. CASE UNCHANGED <<backend, request, outcome>>
  BY <1>1, <1>6
<1> QED BY <1>2, <1>4, <1>5, <1>6 DEF Begin

LEMMA WriteJsonImplements ==
    ASSUME FaissInv, Served, backend = "faiss", NEW c \in Clients, WriteJson(c), cuts = 0
    PROVE  Contract!Perform(c)
<1> DEFINE r == request[c]
<1>1. /\ Prepared(c) /\ r # Idle /\ FaissEnds(c, "ok")
      /\ json' = File(work.is, work.docs, work.order)
  BY DEF WriteJson, FaissInv, UnderLock, Busy
<1>2. json'.is = work.is /\ json'.docs = work.docs
  BY <1>1, DataShapes
<1>3. ~ Contract!Refused(r) /\ Contract!Effect(r) = EffectOn(r, json.docs)
  BY <1>1, FaissTerms DEF Prepared
<1>4. Contract!Return(c, "ok") /\ backend' = "faiss"
  BY <1>1, SameTerms DEF FaissEnds, Contract!Return
<1>5. (json'.is = "whole") = (r.op # "drop") /\ json'.docs = EffectOn(r, json.docs)
  BY <1>1, <1>2 DEF Prepared
<1> QED BY <1>3, <1>4, <1>5 DEF Contract!Perform

LEMMA FaissImplements ==
    ASSUME StoresInv, FaissNext, UNCHANGED sharedVars, ~ (cuts > 0), ~ (cuts > 0)'
    PROVE  Contract!Next \/ UNCHANGED Contract!contractVars
<1>1. /\ FaissInv /\ Served /\ backend = "faiss" /\ cuts = 0
      /\ FaissNext => cuts' = 0
  <2>1. FaissInv /\ Served /\ backend = "faiss" /\ FaissInv'
    BY FaissNextKeeps DEF StoresInv, FaissNext
  <2>2. cuts \in 0..MaxCuts /\ cuts' \in 0..MaxCuts /\ MaxCuts \in Nat
    BY <2>1, VectorFaissAssumption DEF FaissInv, FilesShape, FaissTypeOK
  <2> QED BY <2>1, <2>2
<1>2. ASSUME UNCHANGED <<backend, request, outcome, json, cuts>>
      PROVE  UNCHANGED Contract!contractVars
  BY <1>1, <1>2 DEF Contract!contractVars
<1>3. ASSUME NEW c \in Clients, Begin(c) \/ WriteIndex(c) \/ WriteJson(c) \/ PersistFails(c)
      PROVE  Contract!Next \/ UNCHANGED Contract!contractVars
  <2>1. CASE Begin(c)
    BY <1>1, <1>2, <2>1, BeginImplements DEF Contract!Next
  <2>2. CASE WriteIndex(c)
    BY <1>2, <2>2 DEF WriteIndex
  <2>3. CASE WriteJson(c)
    BY <1>1, <2>3, WriteJsonImplements DEF Contract!Next
  <2>4. CASE PersistFails(c)
    BY <1>1, <2>4, PersistFailsKeeps
  <2> QED BY <1>3, <2>1, <2>2, <2>3, <2>4
<1>4. ASSUME NEW c \in Clients, NEW r \in Requests, FaissCall(c, r)
      PROVE  Contract!Next
  <2>1. Contract!Call(c, r)
    BY <1>1, <1>4, SameTerms DEF FaissCall, Contract!Call
  <2> QED BY <2>1, SameTerms DEF Contract!Next
<1>5. ASSUME FaissRestart PROVE Contract!Next
  <2>1. UNCHANGED json
    BY <1>1, <1>5, FaissRestartKeeps
  <2>2. Contract!Restart
    BY <1>1, <1>5, <2>1, SameTerms DEF FaissRestart, Contract!Restart
  <2> QED BY <2>2 DEF Contract!Next
<1> QED BY <1>3, <1>4, <1>5 DEF FaissNext

-----------------------------------------------------------------------------
(* Theorems.                                                               *)

LEMMA Invariant == Spec => []StoresInv
<1>1. StoresInv /\ [Next]_vars => StoresInv'
  BY NextInv
<1> QED BY InitInv, <1>1, PTL DEF Spec

\* Whatever requests come in, in whatever order their stages run and the disk
\* refuses its writes, the state of all four stores is of its types.
THEOREM TypeCorrect == Spec => []TypeOK
<1>1. StoresInv => TypeOK
  BY DEF StoresInv, Served, SharedInv, FaissInv, FilesShape, TypeOK
<1> QED BY Invariant, <1>1, PTL

\* FAISSVectorStore's copy in memory (_cached) is what its two files hold
\* whenever no request is at work and no write has been cut short since they
\* were last rebuilt (_persist), so the process may die there unnoticed.
THEOREM MemoryIsOnDisk == Spec => []RestartChangesNothing
<1>1. StoresInv => RestartChangesNothing
  BY DataShapes DEF StoresInv, FaissInv, Agreed, RestartChangesNothing
<1> QED BY Invariant, <1>1, PTL

\* Each store does what the docstrings of vectorstore.protocols.VectorStore
\* say, one request at a time: SqliteVectorStore, QdrantVectorStore and
\* ChromaVectorStore but for a write that another request has overtaken,
\* FAISSVectorStore but for the time from a write cut short to the next one
\* that rebuilds the files.
THEOREM StoresKeepContract == Spec => KeepsContract
<1>1. Init => Contract!Init
  <2> SUFFICES ASSUME Init PROVE Contract!Init
    OBVIOUS
  <2>1. /\ there = FALSE /\ docs = Nothing /\ raced = FALSE /\ cuts = 0
        /\ json.is = "missing" /\ json.docs = Nothing
    BY DataShapes DEF Init, SharedInit, FaissInit
  <2> QED BY <2>1, SameTerms DEF Init, Contract!Init, Orphans
<1>2. StoresInv /\ [Next]_vars => [Contract!Promised]_(Contract!contractVars)
  <2> SUFFICES ASSUME StoresInv, [Next]_vars
               PROVE  Contract!Promised \/ UNCHANGED Contract!contractVars
    OBVIOUS
  <2>1. CASE SharedNext /\ UNCHANGED faissVars
    <3>1. backend # "faiss" /\ backend' # "faiss"
      BY <2>1, SharedNextKeeps, NextInv DEF SharedNext, StoresInv, Check, Look, Write,
         WriteLands, Unavailable, EndsUnwritten, Ends, GoesOn, SharedCall, SharedRestart
    <3>2. CASE ~ (raced \/ Orphans) /\ ~ (raced \/ Orphans)'
      BY <2>1, <3>2, SharedImplements DEF Contract!Promised
    <3>3. CASE (raced \/ Orphans) \/ (raced \/ Orphans)'
      BY <3>1, <3>3 DEF Contract!Promised
    <3> QED BY <3>2, <3>3
  <2>2. CASE FaissNext /\ UNCHANGED sharedVars
    <3>1. backend = "faiss" /\ backend' = "faiss"
      BY <2>2 DEF FaissNext, Begin, WriteIndex, WriteJson, PersistFails, FaissCall,
                  FaissRestart, FaissEnds
    <3>2. CASE ~ (cuts > 0) /\ ~ (cuts > 0)'
      BY <2>2, <3>2, FaissImplements DEF Contract!Promised
    <3>3. CASE (cuts > 0) \/ (cuts > 0)'
      BY <3>1, <3>3 DEF Contract!Promised
    <3> QED BY <3>2, <3>3
  <2>3. CASE UNCHANGED vars
    BY <2>3 DEF vars, sharedVars, faissVars, Contract!contractVars, Orphans, Nothing
  <2> QED BY <2>1, <2>2, <2>3 DEF Next
<1> QED BY Invariant, <1>1, <1>2, PTL DEF Spec, KeepsContract, Contract!Spec

-----------------------------------------------------------------------------
(* Parts of lists.                                                         *)

\* t is what comes after n elements of s, or some of it.
PartOf(t, s, n) == Len(t) + n <= Len(s) /\ \A i \in 1..Len(t) : t[i] = s[n + i]

LEMMA UptoIs ==
    ASSUME NEW S, NEW s \in Seq(S), NEW n \in Nat
    PROVE  /\ Upto(s, n) \in Seq(S) /\ Len(Upto(s, n)) = (IF n < Len(s) THEN n ELSE Len(s))
           /\ PartOf(Upto(s, n), s, 0)
<1> DEFINE m == IF n < Len(s) THEN n ELSE Len(s)
<1>1. m \in 0..Len(s) /\ Len(s) \in Nat
  OBVIOUS
<1>2. Upto(s, n) = SubSeq(s, 1, m)
  BY DEF Upto
<1> HIDE DEF m
<1>3. SubSeq(s, 1, m) \in Seq(S) /\ Len(SubSeq(s, 1, m)) = m /\ \A i \in 1..m : SubSeq(s, 1, m)[i] = s[i]
  BY <1>1, BeginningIs
<1>4. \A i \in 1..m : s[0 + i] = s[i]
  BY <1>1
<1>5. PartOf(Upto(s, n), s, 0)
  BY <1>1, <1>2, <1>3, <1>4 DEF PartOf
<1> QED BY <1>2, <1>3, <1>5 DEF m

\* What is after the offset.
LEMMA RestOf ==
    ASSUME NEW S, NEW s \in Seq(S), NEW n \in Nat
    PROVE  /\ SubSeq(s, n + 1, Len(s)) \in Seq(S)
           /\ Len(SubSeq(s, n + 1, Len(s))) = (IF n < Len(s) THEN Len(s) - n ELSE 0)
           /\ \A i \in 1..Len(SubSeq(s, n + 1, Len(s))) : SubSeq(s, n + 1, Len(s))[i] = s[n + i]
<1> DEFINE t == SubSeq(s, n + 1, Len(s))
<1>0. Len(s) \in Nat
  OBVIOUS
<1>1. CASE n < Len(s)
  <2>1. n + 1 \in 1..(Len(s) + 1) /\ Len(s) \in 0..Len(s) /\ n + 1 <= Len(s) + 1
        /\ Len(s) - (n + 1) + 1 = Len(s) - n
    BY <1>0, <1>1
  <2>2. t \in Seq(S) /\ Len(t) = Len(s) - n /\ \A i \in 1..(Len(s) - n) : t[i] = s[n + 1 + i - 1]
    BY <2>1, PartIs
  <2> HIDE DEF t
  <2>3. \A i \in 1..(Len(s) - n) : n + 1 + i - 1 = n + i
    BY <1>0
  <2> QED BY <1>1, <2>2, <2>3 DEF t
<1>2. CASE ~ n < Len(s)
  <2>1. t = <<>>
    BY <1>0, <1>2
  <2>2. <<>> \in Seq(S) /\ Len(<<>>) = 0
    OBVIOUS
  <2> HIDE DEF t
  <2> QED BY <1>2, <2>1, <2>2 DEF t
<1> QED BY <1>1, <1>2

\* How long a page is of so many.
PageLen(n, offset, limit) ==
    LET rest == IF offset < n THEN n - offset ELSE 0
    IN  IF limit # 0 /\ limit < rest THEN limit ELSE rest

LEMMA PageIs ==
    ASSUME NEW S, NEW s \in Seq(S), NEW offset \in Nat, NEW limit \in Nat
    PROVE  /\ Page(s, offset, limit) \in Seq(S)
           /\ Len(Page(s, offset, limit)) = PageLen(Len(s), offset, limit)
           /\ \A i \in 1..Len(Page(s, offset, limit)) : Page(s, offset, limit)[i] = s[offset + i]
           /\ \E n \in Nat : PartOf(Page(s, offset, limit), s, n)
<1> DEFINE rest == SubSeq(s, offset + 1, Len(s))
           page == Page(s, offset, limit)
<1>0. Len(s) \in Nat
  OBVIOUS
<1>1. /\ rest \in Seq(S) /\ Len(rest) = (IF offset < Len(s) THEN Len(s) - offset ELSE 0)
      /\ \A i \in 1..Len(rest) : rest[i] = s[offset + i]
  BY RestOf
<1>2. page = IF limit = 0 THEN rest ELSE Upto(rest, limit)
  BY DEF Page
<1> HIDE DEF rest
<1>3. /\ Upto(rest, limit) \in Seq(S)
      /\ Len(Upto(rest, limit)) = (IF limit < Len(rest) THEN limit ELSE Len(rest))
      /\ \A i \in 1..Len(Upto(rest, limit)) : Upto(rest, limit)[i] = rest[0 + i]
      /\ Len(Upto(rest, limit)) + 0 <= Len(rest)
  BY <1>1, UptoIs DEF PartOf
<1>4. \A i \in 1..Len(rest) : 0 + i = i /\ i \in Nat
  BY <1>0, <1>1
<1>5. page \in Seq(S) /\ Len(page) = PageLen(Len(s), offset, limit)
  BY <1>0, <1>1, <1>2, <1>3 DEF PageLen
<1>6. Len(page) \in Nat /\ Len(rest) \in Nat /\ Len(page) <= Len(rest)
  BY <1>0, <1>1, <1>2, <1>3
<1>7. ASSUME NEW i \in 1..Len(page) PROVE page[i] = s[offset + i]
  <2>1. i \in 1..Len(rest)
    BY <1>6
  <2>2. page[i] = rest[i]
    BY <1>2, <1>3, <1>4, <2>1
  <2> QED BY <1>1, <2>1, <2>2
<1>8. \E n \in Nat : PartOf(page, s, n)
  <2>1. CASE offset < Len(s)
    <3>1. Len(page) + offset <= Len(s)
      BY <1>0, <1>1, <1>6, <2>1
    <3> QED BY <1>7, <3>1 DEF PartOf
  <2>2. CASE ~ offset < Len(s)
    <3>1. Len(page) = 0
      BY <1>0, <1>1, <1>6, <2>2
    <3>2. PartOf(page, s, 0)
      BY <1>0, <3>1 DEF PartOf
    <3> QED BY <3>2
  <2> QED BY <2>1, <2>2
<1> HIDE DEF page
<1> QED BY <1>5, <1>7, <1>8 DEF page

-----------------------------------------------------------------------------
(* Hits.                                                                   *)

\* Hits on things of I.
Hits(I) == [id : I, score : {0, 1}]
OfScore(I, x) == [id : I, score : {x}]
Falling(hits) == \A i, j \in 1..Len(hits) : i < j => hits[i].score >= hits[j].score

LEMMA HitIs ==
    ASSUME NEW I, NEW h \in Hits(I)
    PROVE  /\ h.id \in I /\ h.score \in {0, 1}
           /\ \A x : h \in OfScore(I, x) <=> h.score = x
BY DEF Hits, OfScore

LEMMA WithScoreIs ==
    ASSUME NEW I, NEW hits \in Seq(Hits(I)), NEW x
    PROVE  WithScore(hits, x) = Among(hits, OfScore(I, x))
<1> DEFINE S == Range(hits)
           V == {h \in S : h.score = x}
           W == OfScore(I, x)
<1>1. hits \in Seq(S) /\ S \subseteq Hits(I)
  <2>1. \A i \in 1..Len(hits) : hits[i] \in Hits(I)
    OBVIOUS
  <2>2. DOMAIN hits = 1..Len(hits) /\ Len(hits) \in Nat
    OBVIOUS
  <2>3. S = {hits[i] : i \in 1..Len(hits)}
    BY <2>2 DEF Range
  <2>4. S \subseteq Hits(I)
    BY <2>1, <2>3
  <2>5. hits \in [1..Len(hits) -> S]
    BY <2>3, <2>2
  <2> HIDE DEF S
  <2>6. hits \in Seq(S)
    BY <2>2, <2>5
  <2> QED BY <2>4, <2>6
<1> HIDE DEF S
<1>2. S \cap V = S \cap W
  <2>1. ASSUME NEW h \in S PROVE h \in V <=> h \in W
    <3>1. h \in Hits(I)
      BY <1>1
    <3> QED BY <3>1, HitIs
  <2> HIDE DEF V, W
  <2> QED BY <2>1
<1> HIDE DEF V, W
<1>3. Among(hits, V) = Among(hits, W)
  BY <1>1, <1>2, AmongSame
<1> QED BY <1>3 DEF WithScore, V, W, S

LEMMA NearestFirstIs ==
    ASSUME NEW I, NEW hits \in Seq(Hits(I))
    PROVE  NearestFirst(hits) = Among(hits, OfScore(I, 1)) \o Among(hits, OfScore(I, 0))
BY WithScoreIs DEF NearestFirst

LEMMA AmongScore ==
    ASSUME NEW I, NEW hits \in Seq(Hits(I)), NEW x \in {0, 1}
    PROVE  LET part == Among(hits, OfScore(I, x))
           IN  /\ part \in Seq(Hits(I)) /\ Len(part) \in Nat
               /\ \A i \in 1..Len(part) : part[i].score = x /\ \E j \in 1..Len(hits) : part[i] = hits[j]
               /\ \A j \in 1..Len(hits) : hits[j].score = x => \E i \in 1..Len(part) : part[i] = hits[j]
<1> DEFINE part == Among(hits, OfScore(I, x))
<1>1. part \in Seq(Hits(I))
  BY AmongIn
<1>2. /\ From(part, hits)
      /\ \A i \in 1..Len(part) : part[i] \in OfScore(I, x)
      /\ \A j \in 1..Len(hits) : hits[j] \in OfScore(I, x) => \E i \in 1..Len(part) : part[i] = hits[j]
  BY AmongElements
<1> HIDE DEF part
<1>3. Len(part) \in Nat /\ \A i \in 1..Len(part) : part[i] \in Hits(I)
  BY <1>1
<1>4. \A j \in 1..Len(hits) : hits[j] \in Hits(I)
  OBVIOUS
<1>5. \A i \in 1..Len(part) : part[i].score = x
  BY <1>2, <1>3, HitIs
<1>6. \A j \in 1..Len(hits) : hits[j].score = x => hits[j] \in OfScore(I, x)
  BY <1>4, HitIs
<1>7. \A i \in 1..Len(part) : \E j \in 1..Len(hits) : part[i] = hits[j]
  BY <1>2 DEF From
<1>8. \A j \in 1..Len(hits) : hits[j].score = x => \E i \in 1..Len(part) : part[i] = hits[j]
  BY <1>2, <1>6
<1> QED BY <1>1, <1>3, <1>5, <1>7, <1>8 DEF part

LEMMA SortedIs ==
    ASSUME NEW I, NEW hits \in Seq(Hits(I))
    PROVE  LET sorted == NearestFirst(hits)
           IN  /\ sorted \in Seq(Hits(I)) /\ Falling(sorted) /\ From(sorted, hits)
               /\ \A j \in 1..Len(hits) : \E i \in 1..Len(sorted) : sorted[i] = hits[j]
<1> DEFINE ones == Among(hits, OfScore(I, 1))
           zeros == Among(hits, OfScore(I, 0))
           sorted == ones \o zeros
<1>1. NearestFirst(hits) = sorted
  BY NearestFirstIs
<1>2. /\ ones \in Seq(Hits(I)) /\ Len(ones) \in Nat
      /\ \A i \in 1..Len(ones) : ones[i].score = 1 /\ \E j \in 1..Len(hits) : ones[i] = hits[j]
      /\ \A j \in 1..Len(hits) : hits[j].score = 1 => \E i \in 1..Len(ones) : ones[i] = hits[j]
  BY AmongScore
<1>3. /\ zeros \in Seq(Hits(I)) /\ Len(zeros) \in Nat
      /\ \A i \in 1..Len(zeros) : zeros[i].score = 0 /\ \E j \in 1..Len(hits) : zeros[i] = hits[j]
      /\ \A j \in 1..Len(hits) : hits[j].score = 0 => \E i \in 1..Len(zeros) : zeros[i] = hits[j]
  BY AmongScore
<1> HIDE DEF ones, zeros
<1>4. /\ sorted \in Seq(Hits(I)) /\ Len(sorted) = Len(ones) + Len(zeros)
      /\ \A i \in 1..Len(ones) : sorted[i] = ones[i]
      /\ \A i \in 1..Len(zeros) : sorted[Len(ones) + i] = zeros[i]
  BY <1>2, <1>3
<1> HIDE DEF sorted
<1>5. ASSUME NEW i \in 1..Len(sorted), i > Len(ones)
      PROVE  i - Len(ones) \in 1..Len(zeros) /\ sorted[i] = zeros[i - Len(ones)]
  <2>1. i - Len(ones) \in 1..Len(zeros) /\ Len(ones) + (i - Len(ones)) = i
    BY <1>2, <1>3, <1>4, <1>5
  <2> QED BY <1>4, <2>1
<1>6. ASSUME NEW i \in 1..Len(sorted)
      PROVE  /\ sorted[i].score = IF i <= Len(ones) THEN 1 ELSE 0
             /\ \E j \in 1..Len(hits) : sorted[i] = hits[j]
  <2>1. CASE i <= Len(ones)
    <3>1. i \in 1..Len(ones)
      BY <1>2, <1>3, <1>4, <2>1
    <3> QED BY <1>2, <1>4, <2>1, <3>1
  <2>2. CASE ~ i <= Len(ones)
    <3>1. i > Len(ones)
      BY <1>2, <1>3, <1>4, <2>2
    <3> QED BY <1>3, <1>5, <2>2, <3>1
  <2> QED BY <2>1, <2>2
<1>7. Falling(sorted)
  <2>1. ASSUME NEW i \in 1..Len(sorted), NEW j \in 1..Len(sorted), i < j
        PROVE  sorted[i].score >= sorted[j].score
    <3>1. i \in Nat /\ j \in Nat /\ Len(ones) \in Nat
      BY <1>2, <1>3, <1>4
    <3>2. sorted[i].score = (IF i <= Len(ones) THEN 1 ELSE 0) /\ sorted[j].score = IF j <= Len(ones) THEN 1 ELSE 0
      BY <1>6
    <3> QED BY <2>1, <3>1, <3>2
  <2> QED BY <2>1 DEF Falling
<1>8. From(sorted, hits)
  BY <1>6 DEF From
<1>9. ASSUME NEW j \in 1..Len(hits) PROVE \E i \in 1..Len(sorted) : sorted[i] = hits[j]
  <2>1. hits[j].score \in {0, 1}
    <3>1. hits[j] \in Hits(I)
      OBVIOUS
    <3> QED BY <3>1, HitIs
  <2>2. CASE hits[j].score = 1
    <3>1. PICK i \in 1..Len(ones) : ones[i] = hits[j]
      BY <1>2, <2>2
    <3>2. i \in 1..Len(sorted) /\ sorted[i] = hits[j]
      BY <1>2, <1>3, <1>4, <3>1
    <3> QED BY <3>2
  <2>3. CASE hits[j].score = 0
    <3>1. PICK i \in 1..Len(zeros) : zeros[i] = hits[j]
      BY <1>3, <2>3
    <3>2. Len(ones) + i \in 1..Len(sorted) /\ sorted[Len(ones) + i] = hits[j]
      BY <1>2, <1>3, <1>4, <3>1
    <3> QED BY <3>2
  <2> QED BY <2>1, <2>2, <2>3
<1> QED BY <1>1, <1>4, <1>7, <1>8, <1>9

LEMMA SortedNoTwice ==
    ASSUME NEW I, NEW hits \in Seq(Hits(I)), NEW key, NoTwice(hits, key),
           \A g, h \in Hits(I) : key[g] = key[h] => g.id = h.id,
           \A i, j \in 1..Len(hits) : hits[i].id = hits[j].id => i = j
    PROVE  NoTwice(NearestFirst(hits), key)
<1> DEFINE ones == Among(hits, OfScore(I, 1))
           zeros == Among(hits, OfScore(I, 0))
<1>1. NearestFirst(hits) = ones \o zeros
  BY NearestFirstIs
<1>2. /\ ones \in Seq(Hits(I)) /\ Len(ones) \in Nat
      /\ \A i \in 1..Len(ones) : ones[i].score = 1 /\ \E j \in 1..Len(hits) : ones[i] = hits[j]
  BY AmongScore
<1>3. /\ zeros \in Seq(Hits(I)) /\ Len(zeros) \in Nat
      /\ \A i \in 1..Len(zeros) : zeros[i].score = 0 /\ \E j \in 1..Len(hits) : zeros[i] = hits[j]
  BY AmongScore
<1>4. NoTwice(ones, key) /\ NoTwice(zeros, key)
  BY AmongNoTwice
<1> HIDE DEF ones, zeros
<1>5. ASSUME NEW i \in 1..Len(ones), NEW j \in 1..Len(zeros), key[ones[i]] = key[zeros[j]] PROVE FALSE
  <2>1. PICK k \in 1..Len(hits) : ones[i] = hits[k]
    BY <1>2
  <2>2. PICK l \in 1..Len(hits) : zeros[j] = hits[l]
    BY <1>3
  <2>3. ones[i] \in Hits(I) /\ zeros[j] \in Hits(I)
    BY <1>2, <1>3
  <2>4. hits[k].id = hits[l].id
    BY <1>5, <2>1, <2>2, <2>3
  <2>5. k = l
    BY <2>4
  <2>6. ones[i].score = 1 /\ zeros[j].score = 0
    BY <1>2, <1>3
  <2> QED BY <2>1, <2>2, <2>5, <2>6
<1>6. \A i \in 1..Len(ones), j \in 1..Len(zeros) : key[ones[i]] # key[zeros[j]]
  BY <1>5
<1>7. NoTwice(ones \o zeros, key)
  BY <1>2, <1>3, <1>4, <1>6, ConcatNoTwice
<1> QED BY <1>1, <1>7

\* What is in order stays as it is.
LEMMA FallingStays ==
    ASSUME NEW I
    PROVE  \A hits \in Seq(Hits(I)) : Falling(hits) => NearestFirst(hits) = hits
<1> DEFINE O == OfScore(I, 1)
           Z == OfScore(I, 0)
           T == {s \in Seq(Hits(I)) : Falling(s) => Among(s, O) \o Among(s, Z) = s}
<1> HIDE DEF O, Z
<1>1. <<>> \in T
  <2>1. Among(<<>>, O) = <<>> /\ Among(<<>>, Z) = <<>>
    BY AmongEmpty
  <2>2. <<>> \in Seq(Hits(I)) /\ <<>> \o <<>> = <<>>
    OBVIOUS
  <2> QED BY <2>1, <2>2
<1>2. ASSUME NEW s \in Seq(Hits(I)), NEW e \in Hits(I), s \in T PROVE Append(s, e) \in T
  <2> DEFINE t == Append(s, e)
  <2>1. /\ t \in Seq(Hits(I)) /\ Len(t) = Len(s) + 1 /\ t[Len(s) + 1] = e
        /\ (\A i \in 1..Len(s) : t[i] = s[i]) /\ Len(s) \in Nat
    BY AppendIs
  <2>2. /\ Among(t, O) = IF e \in O THEN Append(Among(s, O), e) ELSE Among(s, O)
        /\ Among(t, Z) = IF e \in Z THEN Append(Among(s, Z), e) ELSE Among(s, Z)
    BY AmongAppend
  <2> HIDE DEF t
  <2> SUFFICES ASSUME Falling(t) PROVE Among(t, O) \o Among(t, Z) = t
    BY <2>1 DEF t
  <2>3. Falling(s)
    <3>1. ASSUME NEW i \in 1..Len(s), NEW j \in 1..Len(s), i < j PROVE s[i].score >= s[j].score
      <4>1. i \in 1..Len(t) /\ j \in 1..Len(t)
        BY <2>1
      <4> QED BY <2>1, <3>1, <4>1 DEF Falling
    <3> QED BY <3>1 DEF Falling
  <2>4. Among(s, O) \o Among(s, Z) = s
    BY <1>2, <2>3
  <2>5. Among(s, O) \in Seq(Hits(I)) /\ Among(s, Z) \in Seq(Hits(I))
    BY AmongIn
  <2>6. CASE e.score = 0
    <3>1. e \notin O /\ e \in Z
      BY <2>6, HitIs DEF O, Z
    <3>2. Among(t, O) \o Among(t, Z) = Among(s, O) \o Append(Among(s, Z), e)
      BY <2>2, <3>1
    <3>3. Among(s, O) \o Append(Among(s, Z), e) = Append(Among(s, O) \o Among(s, Z), e)
      BY <2>5
    <3> QED BY <2>4, <3>2, <3>3 DEF t
  <2>7. CASE e.score = 1
    <3>1. e \in O /\ e \notin Z
      BY <2>7, HitIs DEF O, Z
    <3>2. \A i \in 1..Len(s) : s[i].score = 1
      <4>1. ASSUME NEW i \in 1..Len(s) PROVE s[i].score = 1
        <5>1. i \in 1..Len(t) /\ Len(s) + 1 \in 1..Len(t) /\ i < Len(s) + 1
          BY <2>1
        <5>2. t[i].score >= t[Len(s) + 1].score
          BY <5>1 DEF Falling
        <5>3. s[i] \in Hits(I)
          OBVIOUS
        <5>4. s[i].score \in {0, 1} /\ s[i].score >= 1
          BY <2>1, <2>7, <5>2, <5>3, HitIs
        <5> QED BY <5>4
      <4> QED BY <4>1
    <3>3. s \in Seq(O)
      <4>1. \A i \in 1..Len(s) : s[i] \in O
        <5>1. \A i \in 1..Len(s) : s[i] \in Hits(I)
          OBVIOUS
        <5> QED BY <3>2, <5>1, HitIs DEF O
      <4>2. Len(s) \in Nat /\ s \in [1..Len(s) -> O]
        BY <4>1
      <4> QED BY <4>2
    <3>4. O \cap Z = {}
      <4>1. \A h \in O : h.score = 1
        BY DEF O, OfScore
      <4>2. \A h \in Z : h.score = 0
        BY DEF Z, OfScore
      <4> QED BY <4>1, <4>2
    <3>5. Among(s, O) = s /\ Among(s, Z) = <<>>
      BY <3>3, <3>4, AmongAll, AmongNone
    <3>6. Among(t, O) \o Among(t, Z) = Append(s, e) \o <<>>
      BY <2>2, <3>1, <3>5
    <3>7. Append(s, e) \o <<>> = Append(s, e)
      OBVIOUS
    <3> QED BY <3>6, <3>7 DEF t
  <2> QED BY <2>6, <2>7, HitIs
<1> HIDE DEF T
<1>3. Seq(Hits(I)) \subseteq T
  BY <1>1, <1>2, ListInduction
<1>4. ASSUME NEW hits \in Seq(Hits(I)), Falling(hits) PROVE NearestFirst(hits) = hits
  <2>1. hits \in T
    BY <1>3
  <2> QED BY <1>4, <2>1, NearestFirstIs DEF T, O, Z
<1> QED BY <1>4

-----------------------------------------------------------------------------
(* What a list of hits says of the documents.                              *)

\* The documents' table, as a list of their ids.
Self == [i \in Ids |-> i]
Enumerates(order, table) ==
    /\ order \in Seq(Ids) /\ NoTwice(order, Self)
    /\ \A i \in Ids : i \in Present(table) <=> \E k \in 1..Len(order) : order[k] = i

ScoreOf(table, v, i) == IF <<i, table[i].version>> = v THEN 1 ELSE 0
ById == [h \in Hits(Ids) |-> h.id]
Honest(table, v, hits) ==
    /\ hits \in Seq(Hits(Ids)) /\ NoTwice(hits, ById)
    /\ \A k \in 1..Len(hits) : hits[k].id \in Present(table) /\ hits[k].score = ScoreOf(table, v, hits[k].id)
Complete(table, hits) == \A i \in Present(table) : \E k \in 1..Len(hits) : hits[k].id = i

LEMMA EachHit ==
    ASSUME NEW I, NEW hits \in Seq(Hits(I))
    PROVE  /\ Len(hits) \in Nat
           /\ \A k \in 1..Len(hits) : hits[k] \in Hits(I) /\ hits[k].id \in I /\ hits[k].score \in {0, 1}
<1>1. Len(hits) \in Nat /\ \A k \in 1..Len(hits) : hits[k] \in Hits(I)
  OBVIOUS
<1> QED BY <1>1, HitIs

LEMMA ByIdIs ==
    /\ \A h \in Hits(Ids) : ById[h] = h.id
    /\ \A i \in Ids : Self[i] = i
    /\ \A hits \in Seq(Hits(Ids)) :
          NoTwice(hits, ById) <=> \A i, j \in 1..Len(hits) : hits[i].id = hits[j].id => i = j
    /\ \A order \in Seq(Ids) :
          NoTwice(order, Self) <=> \A i, j \in 1..Len(order) : order[i] = order[j] => i = j
<1>1. (\A h \in Hits(Ids) : ById[h] = h.id) /\ \A i \in Ids : Self[i] = i
  BY DEF ById, Self
<1>2. ASSUME NEW hits \in Seq(Hits(Ids))
      PROVE  NoTwice(hits, ById) <=> \A i, j \in 1..Len(hits) : hits[i].id = hits[j].id => i = j
  <2>1. \A k \in 1..Len(hits) : ById[hits[k]] = hits[k].id
    BY <1>1, EachHit
  <2> QED BY <2>1 DEF NoTwice
<1>3. ASSUME NEW order \in Seq(Ids)
      PROVE  NoTwice(order, Self) <=> \A i, j \in 1..Len(order) : order[i] = order[j] => i = j
  <2>1. \A k \in 1..Len(order) : Self[order[k]] = order[k]
    <3>1. \A k \in 1..Len(order) : order[k] \in Ids
      OBVIOUS
    <3> QED BY <1>1, <3>1
  <2> QED BY <2>1 DEF NoTwice
<1> QED BY <1>1, <1>2, <1>3

LEMMA ScoreIs ==
    ASSUME NEW table, NEW v, NEW i
    PROVE  ScoreOf(table, v, i) \in {0, 1} /\ (ScoreOf(table, v, i) = 1 => i = v[1])
BY DEF ScoreOf

LEMMA ScoredIs ==
    ASSUME NEW table, NEW v, NEW order, Enumerates(order, table)
    PROVE  Honest(table, v, Scored(table, order, v)) /\ Complete(table, Scored(table, order, v))
<1> DEFINE scored == Scored(table, order, v)
<1>1. order \in Seq(Ids) /\ NoTwice(order, Self)
      /\ \A i \in Ids : i \in Present(table) <=> \E k \in 1..Len(order) : order[k] = i
  BY DEF Enumerates
<1>2. DOMAIN order = 1..Len(order) /\ Len(order) \in Nat /\ \A k \in 1..Len(order) : order[k] \in Ids
  BY <1>1
<1>3. scored = [k \in 1..Len(order) |-> Hit(order[k], ScoreOf(table, v, order[k]))]
  BY <1>2 DEF Scored, ScoreOf
<1>4. ASSUME NEW k \in 1..Len(order)
      PROVE  /\ Hit(order[k], ScoreOf(table, v, order[k])) \in Hits(Ids)
             /\ Hit(order[k], ScoreOf(table, v, order[k])).id = order[k]
             /\ Hit(order[k], ScoreOf(table, v, order[k])).score = ScoreOf(table, v, order[k])
  BY <1>2, ScoreIs DEF Hit, Hits
<1>5. scored \in Seq(Hits(Ids)) /\ Len(scored) = Len(order)
  BY <1>2, <1>3, <1>4
<1>6. \A k \in 1..Len(order) : scored[k].id = order[k] /\ scored[k].score = ScoreOf(table, v, order[k])
  BY <1>3, <1>4
<1> HIDE DEF scored
<1>7. NoTwice(scored, ById)
  <2>1. \A i, j \in 1..Len(order) : order[i] = order[j] => i = j
    BY <1>1, ByIdIs
  <2>2. \A i, j \in 1..Len(scored) : scored[i].id = scored[j].id => i = j
    BY <1>5, <1>6, <2>1
  <2> QED BY <1>5, <2>2, ByIdIs
<1>8. \A k \in 1..Len(scored) : scored[k].id \in Present(table)
  BY <1>1, <1>2, <1>5, <1>6
<1>9. Honest(table, v, scored)
  BY <1>5, <1>6, <1>7, <1>8 DEF Honest
<1>10. Complete(table, scored)
  <2>1. Present(table) \subseteq Ids
    BY DEF Present
  <2> QED BY <1>1, <1>5, <1>6, <2>1 DEF Complete
<1> QED BY <1>9, <1>10 DEF scored

LEMMA HonestAmong ==
    ASSUME NEW table, NEW v, NEW hits, Honest(table, v, hits), NEW V
    PROVE  Honest(table, v, Among(hits, V))
<1> DEFINE part == Among(hits, V)
<1>1. hits \in Seq(Hits(Ids)) /\ NoTwice(hits, ById)
  BY DEF Honest
<1>2. part \in Seq(Hits(Ids)) /\ NoTwice(part, ById) /\ From(part, hits)
  BY <1>1, AmongIn, AmongNoTwice, AmongElements
<1> HIDE DEF part
<1>3. Honest(table, v, part)
  BY <1>2 DEF Honest, From
<1> QED BY <1>3 DEF part

LEMMA FilteredIs ==
    ASSUME NEW table, NEW v, NEW hits, Honest(table, v, hits), NEW filter
    PROVE  LET part == Filtered(table, hits, filter)
           IN  /\ Honest(table, v, part)
               /\ \A k \in 1..Len(part) : Matches(table[part[k].id], filter)
               /\ \A k \in 1..Len(hits) : Matches(table[hits[k].id], filter) => \E i \in 1..Len(part) : part[i] = hits[k]
               /\ filter = "any" => part = hits
               /\ Falling(hits) => Falling(part)
<1> DEFINE S == Range(hits)
           V == {h \in S : Matches(table[h.id], filter)}
           part == Among(hits, V)
<1>1. hits \in Seq(Hits(Ids)) /\ DOMAIN hits = 1..Len(hits)
  BY DEF Honest
<1>2. S = {hits[i] : i \in 1..Len(hits)}
  BY <1>1 DEF Range
<1>3. hits \in Seq(S)
  <2>1. hits \in [1..Len(hits) -> S] /\ Len(hits) \in Nat
    BY <1>1, <1>2
  <2> HIDE DEF S
  <2> QED BY <2>1
<1>4. /\ From(part, hits) /\ (\A i \in 1..Len(part) : part[i] \in V)
      /\ \A j \in 1..Len(hits) : hits[j] \in V => \E i \in 1..Len(part) : part[i] = hits[j]
  <2> HIDE DEF S, V
  <2> QED BY <1>3, AmongElements
<1>5. Filtered(table, hits, filter) = part
  BY DEF Filtered
<1>6. Honest(table, v, part)
  BY HonestAmong
<1>7. \A h : h \in V <=> h \in S /\ Matches(table[h.id], filter)
  OBVIOUS
<1>8. \A k \in 1..Len(hits) : hits[k] \in S
  BY <1>2
<1>9. filter = "any" => part = hits
  <2> SUFFICES ASSUME filter = "any" PROVE part = hits
    OBVIOUS
  <2>1. S \subseteq V
    BY <1>7 DEF Matches
  <2> HIDE DEF S, V
  <2> QED BY <1>3, <2>1, AmongAll
<1>10. ASSUME Falling(hits) PROVE Falling(part)
  <2>1. NearestFirst(hits) = hits
    BY <1>1, <1>10, FallingStays
  <2> DEFINE O == OfScore(Ids, 1)  Z == OfScore(Ids, 0)
  <2> HIDE DEF S, V, part, O, Z
  <2>2. hits = Among(hits, O) \o Among(hits, Z)
    BY <1>1, <2>1, NearestFirstIs DEF O, Z
  <2>3. Among(hits, O) \in Seq(Hits(Ids)) /\ Among(hits, Z) \in Seq(Hits(Ids))
    BY <1>1, AmongIn
  <2>4. part = Among(Among(hits, O), V) \o Among(Among(hits, Z), V)
    <3> DEFINE x == Among(hits, O)  y == Among(hits, Z)
    <3> HIDE DEF x, y
    <3>1. x \in Seq(Hits(Ids)) /\ y \in Seq(Hits(Ids))
      BY <2>3 DEF x, y
    <3>2. Among(x \o y, V) = Among(x, V) \o Among(y, V)
      BY <3>1, AmongConcat
    <3>3. hits = x \o y
      BY <2>2, Zenon DEF x, y
    <3>4. Among(hits, V) = Among(x, V) \o Among(y, V)
      BY <3>2, <3>3, Zenon
    <3> QED BY <3>4, Zenon DEF part, x, y
  <2>5. /\ Among(Among(hits, O), V) = Among(hits, O \cap V) /\ Among(Among(hits, Z), V) = Among(hits, Z \cap V)
        /\ Among(Among(hits, V), O) = Among(hits, V \cap O) /\ Among(Among(hits, V), Z) = Among(hits, V \cap Z)
    BY <1>1, AmongTwice
  <2>6. O \cap V = V \cap O /\ Z \cap V = V \cap Z
    OBVIOUS
  <2>7. part \in Seq(Hits(Ids))
    BY <1>6 DEF Honest
  <2>8. NearestFirst(part) = Among(part, O) \o Among(part, Z)
    BY <2>7, NearestFirstIs DEF O, Z
  <2>9. NearestFirst(part) = part
    BY <2>4, <2>5, <2>6, <2>8 DEF part
  <2>10. Falling(NearestFirst(part))
    BY <2>7, SortedIs
  <2> QED BY <2>9, <2>10
<1> HIDE DEF part, V, S
<1> QED BY <1>4, <1>5, <1>6, <1>7, <1>8, <1>9, <1>10

Sorts(table, v, hits, sorted) ==
    /\ Honest(table, v, sorted) /\ Falling(sorted) /\ From(sorted, hits)
    /\ \A j \in 1..Len(hits) : \E i \in 1..Len(sorted) : sorted[i] = hits[j]
    /\ Complete(table, hits) => Complete(table, sorted)

LEMMA HonestSorted ==
    ASSUME NEW table, NEW v, NEW hits, Honest(table, v, hits)
    PROVE  Sorts(table, v, hits, NearestFirst(hits))
<1> DEFINE sorted == NearestFirst(hits)
<1>1. hits \in Seq(Hits(Ids)) /\ NoTwice(hits, ById)
  BY DEF Honest
<1>2. /\ sorted \in Seq(Hits(Ids)) /\ Falling(sorted) /\ From(sorted, hits)
      /\ \A j \in 1..Len(hits) : \E i \in 1..Len(sorted) : sorted[i] = hits[j]
  BY <1>1, SortedIs
<1>3. NoTwice(sorted, ById)
  <2>1. \A g, h \in Hits(Ids) : ById[g] = ById[h] => g.id = h.id
    BY ByIdIs
  <2>2. \A i, j \in 1..Len(hits) : hits[i].id = hits[j].id => i = j
    BY <1>1, ByIdIs
  <2> QED BY <1>1, <2>1, <2>2, SortedNoTwice
<1> HIDE DEF sorted
<1>4. Honest(table, v, sorted)
  BY <1>2, <1>3 DEF Honest, From
<1>5. Complete(table, hits) => Complete(table, sorted)
  BY <1>2 DEF Complete
<1> QED BY <1>2, <1>4, <1>5 DEF sorted, Sorts

LEMMA HonestPart ==
    ASSUME NEW table, NEW v, NEW hits, Honest(table, v, hits), Falling(hits),
           NEW t \in Seq(Hits(Ids)), NEW n \in Nat, PartOf(t, hits, n)
    PROVE  Honest(table, v, t) /\ Falling(t) /\ From(t, hits)
<1>1. hits \in Seq(Hits(Ids)) /\ Len(hits) \in Nat /\ Len(t) \in Nat
  BY EachHit DEF Honest
<1>2. \A i \in 1..Len(t) : n + i \in 1..Len(hits) /\ t[i] = hits[n + i]
  BY <1>1 DEF PartOf
<1>3. NoTwice(t, ById)
  <2>1. \A i, j \in 1..Len(hits) : hits[i].id = hits[j].id => i = j
    BY <1>1, ByIdIs DEF Honest
  <2>2. ASSUME NEW i \in 1..Len(t), NEW j \in 1..Len(t), t[i].id = t[j].id PROVE i = j
    <3>1. n + i = n + j
      BY <1>2, <2>1, <2>2
    <3> QED BY <1>1, <3>1
  <2> QED BY <2>2, ByIdIs
<1>4. Honest(table, v, t)
  BY <1>2, <1>3 DEF Honest
<1>5. Falling(t)
  <2>1. ASSUME NEW i \in 1..Len(t), NEW j \in 1..Len(t), i < j PROVE t[i].score >= t[j].score
    <3>1. n + i < n + j
      BY <1>1, <2>1
    <3> QED BY <1>2, <3>1 DEF Falling
  <2> QED BY <2>1 DEF Falling
<1>6. From(t, hits)
  BY <1>2 DEF From
<1> QED BY <1>4, <1>5, <1>6

LEMMA PresentIsFinite ==
    ASSUME NEW table
    PROVE  IsFiniteSet(Present(table)) /\ Present(table) \subseteq Ids /\ Cardinality(Present(table)) \in Nat
<1>1. Present(table) \subseteq Ids
  BY DEF Present
<1>2. IsFiniteSet(Ids)
  BY VectorAssumption
<1> QED BY <1>1, <1>2, FS_Subset, FS_CardinalityType

\* A list has no more hits than there are documents, and as many when it is
\* complete.
LEMMA HonestCount ==
    ASSUME NEW table, NEW v, NEW hits, Honest(table, v, hits)
    PROVE  /\ Cardinality(Range(hits)) = Len(hits)
           /\ Len(hits) <= Cardinality(Present(table))
           /\ Complete(table, hits) => Len(hits) = Cardinality(Present(table))
<1> DEFINE P == Present(table)
           ids == [k \in DOMAIN hits |-> ById[hits[k]]]
           H == [h \in Hits(Ids) |-> h]
<1>1. /\ hits \in Seq(Hits(Ids)) /\ NoTwice(hits, ById) /\ Len(hits) \in Nat
      /\ DOMAIN hits = 1..Len(hits) /\ \A k \in 1..Len(hits) : hits[k] \in Hits(Ids)
  BY EachHit DEF Honest
<1>2. Cardinality(Range(ids)) = Len(hits)
  BY <1>1, KeysCount
<1>3. Range(ids) = {hits[k].id : k \in 1..Len(hits)}
  <2>1. \A k \in 1..Len(hits) : ids[k] = hits[k].id
    BY <1>1, ByIdIs
  <2>2. DOMAIN ids = 1..Len(hits)
    BY <1>1
  <2> HIDE DEF ids
  <2> QED BY <2>1, <2>2 DEF Range
<1> HIDE DEF ids
<1>4. Range(ids) \subseteq P
  BY <1>3 DEF Honest
<1>5. IsFiniteSet(P)
  BY PresentIsFinite
<1> HIDE DEF P
<1>6. Len(hits) <= Cardinality(P)
  BY <1>2, <1>4, <1>5, FS_Subset
<1>7. Complete(table, hits) => P \subseteq Range(ids)
  <2> SUFFICES ASSUME Complete(table, hits), NEW i \in P PROVE i \in Range(ids)
    OBVIOUS
  <2>1. PICK k \in 1..Len(hits) : hits[k].id = i
    BY DEF P, Complete
  <2> QED BY <1>3, <2>1
<1>8. Complete(table, hits) => Len(hits) = Cardinality(P)
  BY <1>2, <1>4, <1>7
<1>9. Cardinality(Range(hits)) = Len(hits)
  <2>1. \A h \in Hits(Ids) : H[h] = h
    OBVIOUS
  <2> HIDE DEF H
  <2>2. NoTwice(hits, H)
    <3>1. \A i, j \in 1..Len(hits) : hits[i].id = hits[j].id => i = j
      BY <1>1, ByIdIs
    <3>2. ASSUME NEW i \in 1..Len(hits), NEW j \in 1..Len(hits), H[hits[i]] = H[hits[j]] PROVE i = j
      <4>1. hits[i] = hits[j]
        BY <1>1, <2>1, <3>2
      <4> QED BY <3>1, <4>1
    <3> QED BY <3>2 DEF NoTwice
  <2> DEFINE same == [k \in DOMAIN hits |-> H[hits[k]]]
  <2>3. Cardinality(Range(same)) = Len(hits)
    BY <1>1, <2>2, KeysCount
  <2>4. \A k \in DOMAIN hits : same[k] = hits[k]
    BY <1>1, <2>1
  <2>5. DOMAIN same = DOMAIN hits
    OBVIOUS
  <2> HIDE DEF same
  <2>6. Range(same) = Range(hits)
    BY <2>4, <2>5 DEF Range
  <2> QED BY <2>3, <2>6
<1> QED BY <1>6, <1>8, <1>9 DEF P

\* One document at most has the vector, so a complete list has its scores.
LEMMA SameScores ==
    ASSUME NEW table, NEW v, NEW s, NEW t, Honest(table, v, s), Falling(s), Complete(table, s),
           Honest(table, v, t), Falling(t), Complete(table, t)
    PROVE  Len(s) = Len(t) /\ \A k \in 1..Len(s) : s[k].score = t[k].score
<1> DEFINE top == \E i \in Present(table) : ScoreOf(table, v, i) = 1
<1>1. ASSUME NEW u, Honest(table, v, u), Falling(u), Complete(table, u), NEW k \in 1..Len(u)
      PROVE  u[k].score = IF k = 1 /\ top THEN 1 ELSE 0
  <2>1. /\ Len(u) \in Nat /\ u \in Seq(Hits(Ids))
        /\ \A l \in 1..Len(u) : u[l].score \in {0, 1} /\ u[l].score = ScoreOf(table, v, u[l].id)
                                /\ u[l].id \in Present(table)
    BY <1>1, EachHit DEF Honest
  <2>2. \A i, j \in 1..Len(u) : u[i].id = u[j].id => i = j
    BY <1>1, <2>1, ByIdIs DEF Honest
  <2>3. \A l \in 1..Len(u) : u[l].score = 1 => u[l].id = v[1]
    BY <2>1, ScoreIs
  <2>4. 1 \in 1..Len(u) /\ k \in Nat
    BY <2>1
  <2>5. \A l \in 1..Len(u) : u[l].score = 1 => l = 1
    <3> SUFFICES ASSUME NEW l \in 1..Len(u), u[l].score = 1, l # 1 PROVE FALSE
      OBVIOUS
    <3>1. 1 < l
      BY <2>1
    <3>2. u[1].score >= u[l].score
      BY <1>1, <2>4, <3>1 DEF Falling
    <3>3. u[1].score = 1
      BY <2>1, <2>4, <3>2
    <3> QED BY <2>2, <2>3, <2>4, <3>3
  <2>6. u[1].score = 1 <=> top
    <3>1. u[1].score = 1 => top
      BY <2>1, <2>4
    <3>2. ASSUME top PROVE u[1].score = 1
      <4>1. PICK i \in Present(table) : ScoreOf(table, v, i) = 1
        BY <3>2
      <4>2. PICK l \in 1..Len(u) : u[l].id = i
        BY <1>1, <4>1 DEF Complete
      <4> QED BY <2>1, <2>5, <4>1, <4>2
    <3> QED BY <3>1, <3>2
  <2> HIDE DEF top
  <2>7. u[k].score \in {0, 1}
    BY <2>1
  <2>8. CASE k = 1
    BY <2>6, <2>7, <2>8
  <2>9. CASE k # 1
    BY <2>5, <2>7, <2>9
  <2> QED BY <2>8, <2>9
<1> HIDE DEF top
<1>2. Len(s) = Len(t)
  BY HonestCount
<1> QED BY <1>1, <1>2

LEMMA SamePages ==
    ASSUME NEW s \in Seq(Hits(Ids)), NEW t \in Seq(Hits(Ids)), Len(s) = Len(t),
           \A k \in 1..Len(s) : s[k].score = t[k].score,
           NEW n \in Nat, NEW offset \in Nat, NEW limit \in Nat
    PROVE  Scores(Page(Upto(s, n), offset, limit)) = Scores(Page(Upto(t, n), offset, limit))
<1> DEFINE a == Upto(s, n)
           b == Upto(t, n)
           p == Page(a, offset, limit)
           q == Page(b, offset, limit)
<1>0. Len(s) \in Nat /\ Len(t) \in Nat
  BY EachHit
<1>1. /\ a \in Seq(Hits(Ids)) /\ Len(a) = (IF n < Len(s) THEN n ELSE Len(s)) /\ PartOf(a, s, 0)
      /\ b \in Seq(Hits(Ids)) /\ Len(b) = (IF n < Len(t) THEN n ELSE Len(t)) /\ PartOf(b, t, 0)
  BY UptoIs
<1>2. Len(a) = Len(b) /\ Len(a) \in Nat /\ Len(a) <= Len(s)
  BY <1>0, <1>1
<1> HIDE DEF a, b
<1>3. \A k \in 1..Len(a) : a[k].score = b[k].score
  <2>1. ASSUME NEW k \in 1..Len(a) PROVE a[k].score = b[k].score
    <3>1. 0 + k = k /\ k \in 1..Len(s)
      BY <1>0, <1>2
    <3>2. a[k] = s[k] /\ b[k] = t[k]
      BY <1>1, <1>2, <3>1 DEF PartOf
    <3> QED BY <3>1, <3>2
  <2> QED BY <2>1
<1>4. /\ p \in Seq(Hits(Ids)) /\ Len(p) = PageLen(Len(a), offset, limit)
      /\ \A i \in 1..Len(p) : p[i] = a[offset + i]
      /\ \E m \in Nat : PartOf(p, a, m)
  BY <1>1, PageIs
<1>5. /\ q \in Seq(Hits(Ids)) /\ Len(q) = PageLen(Len(b), offset, limit)
      /\ \A i \in 1..Len(q) : q[i] = b[offset + i]
  BY <1>1, PageIs
<1>6. Len(p) = Len(q) /\ Len(p) \in Nat
  BY <1>2, <1>4, <1>5, EachHit
<1>7. \A i \in 1..Len(p) : offset + i \in 1..Len(a)
  <2>1. Len(p) > 0 => Len(p) + offset <= Len(a)
    <3>1. Len(p) = PageLen(Len(a), offset, limit)
      BY <1>4
    <3> HIDE DEF p
    <3> QED BY <1>2, <1>6, <3>1 DEF PageLen
  <2> HIDE DEF p
  <2> QED BY <1>2, <1>6, <2>1
<1> HIDE DEF p, q
<1>8. \A i \in 1..Len(p) : p[i].score = q[i].score
  BY <1>3, <1>4, <1>5, <1>6, <1>7
<1>9. DOMAIN p = 1..Len(p) /\ DOMAIN q = 1..Len(p)
  BY <1>4, <1>5, <1>6
<1>10. Scores(p) = Scores(q)
  BY <1>8, <1>9 DEF Scores
<1> QED BY <1>10 DEF p, q, a, b

LEMMA RequestIs ==
    ASSUME NEW r \in SearchRequests
    PROVE  /\ r.top_k \in Nat /\ r.offset \in Nat /\ r.limit \in Nat /\ r.filter \in {"any", "set"}
           /\ \A n : /\ [r EXCEPT !.top_k = n, !.offset = 0, !.limit = 0].vector = r.vector
                     /\ [r EXCEPT !.top_k = n, !.offset = 0, !.limit = 0].filter = r.filter
                     /\ [r EXCEPT !.top_k = n, !.offset = 0, !.limit = 0].top_k = n
                     /\ [r EXCEPT !.top_k = n, !.offset = 0, !.limit = 0].offset = 0
                     /\ [r EXCEPT !.top_k = n, !.offset = 0, !.limit = 0].limit = 0
BY DEF SearchRequests

\* Whatever order a store keeps its documents in lists them.
LEMMA OrdersEnumerate ==
    ASSUME NEW table, NEW order \in SetToSeqs(Present(table))
    PROVE  Enumerates(order, table) /\ Len(order) = Cardinality(Present(table))
<1> DEFINE P == Present(table)
           n == Cardinality(P)
<1>1. IsFiniteSet(P) /\ P \subseteq Ids /\ n \in Nat
  BY PresentIsFinite
<1> HIDE DEF P
<1>2. order \in [1..n -> P] /\ \A i, j \in 1..n : i # j => order[i] # order[j]
  BY DEF SetToSeqs, P
<1>3. order \in Injection(1..n, P)
  BY <1>2 DEF Injection, IsInjective
<1>4. Cardinality(1..n) = n /\ IsFiniteSet(1..n)
  BY <1>1, FS_Interval
<1>5. order \in Surjection(1..n, P)
  BY <1>1, <1>3, <1>4, FS_Injection
<1>6. \A i \in P : \E k \in 1..n : order[k] = i
  BY <1>5 DEF Surjection
<1> HIDE DEF n
<1>7. order \in Seq(Ids) /\ Len(order) = n
  BY <1>1, <1>2
<1>8. NoTwice(order, Self)
  BY <1>2, <1>7, ByIdIs
<1>9. \A i \in Ids : i \in P <=> \E k \in 1..n : order[k] = i
  BY <1>2, <1>6
<1> QED BY <1>7, <1>8, <1>9 DEF Enumerates, P, n

LEMMA SomeOrder ==
    ASSUME NEW table
    PROVE  SetToSeq(Present(table)) \in SetToSeqs(Present(table))
<1> DEFINE P == Present(table)
           n == Cardinality(P)
<1>1. IsFiniteSet(P) /\ n \in Nat
  BY PresentIsFinite
<1> HIDE DEF P
<1>2. PICK f : f \in Bijection(1..n, P)
  BY <1>1, FS_CardinalityType DEF ExistsBijection
<1>3. f \in [1..n -> P] /\ IsInjective(f)
  BY <1>2 DEF Bijection, Injection
<1>4. SetToSeq(P) \in [1..n -> P] /\ IsInjective(SetToSeq(P))
  BY <1>3 DEF SetToSeq
<1>5. SetToSeq(P) \in SetToSeqs(P)
  BY <1>4 DEF SetToSeqs, IsInjective
<1> QED BY <1>5 DEF P

\* The hits of a list that keeps them all.
LEMMA SqliteIs ==
    ASSUME NEW table, NEW order, Enumerates(order, table), NEW r \in SearchRequests
    PROVE  LET all == NearestFirst(Filtered(table, Scored(table, order, r.vector), r.filter))
           IN  /\ SqliteSearch(table, order, r) = Page(Upto(all, r.top_k), r.offset, r.limit)
               /\ Honest(table, r.vector, all) /\ Falling(all)
               /\ \A k \in 1..Len(all) : Matches(table[all[k].id], r.filter)
               /\ \A i \in Present(table) : Matches(table[i], r.filter) =>
                     \E k \in 1..Len(all) : all[k].id = i
<1> DEFINE scored == Scored(table, order, r.vector)
           found == Filtered(table, scored, r.filter)
           all == NearestFirst(found)
<1>1. SqliteSearch(table, order, r) = Page(Upto(all, r.top_k), r.offset, r.limit)
  BY DEF SqliteSearch
<1>2. Honest(table, r.vector, scored) /\ Complete(table, scored)
  BY ScoredIs
<1> HIDE DEF scored
<1>3. /\ Honest(table, r.vector, found)
      /\ \A k \in 1..Len(found) : Matches(table[found[k].id], r.filter)
      /\ \A k \in 1..Len(scored) : Matches(table[scored[k].id], r.filter) =>
            \E i \in 1..Len(found) : found[i] = scored[k]
  BY <1>2, FilteredIs
<1> HIDE DEF found
<1>4. /\ Honest(table, r.vector, all) /\ Falling(all) /\ From(all, found)
      /\ \A j \in 1..Len(found) : \E i \in 1..Len(all) : all[i] = found[j]
  <2>1. Honest(table, r.vector, found)
    BY <1>3
  <2> DEFINE v == r.vector
  <2>2. Honest(table, v, found)
    BY <2>1
  <2> HIDE DEF v
  <2>3. Sorts(table, v, found, all)
    BY <2>2, HonestSorted
  <2> HIDE DEF all
  <2> QED BY <2>3 DEF v, Sorts
<1> HIDE DEF all
<1>5. \A k \in 1..Len(all) : Matches(table[all[k].id], r.filter)
  BY <1>3, <1>4 DEF From
<1>6. ASSUME NEW i \in Present(table), Matches(table[i], r.filter) PROVE \E k \in 1..Len(all) : all[k].id = i
  <2>1. PICK k \in 1..Len(scored) : scored[k].id = i
    BY <1>2 DEF Complete
  <2>2. PICK j \in 1..Len(found) : found[j] = scored[k]
    BY <1>3, <1>6, <2>1
  <2>3. PICK l \in 1..Len(all) : all[l] = found[j]
    BY <1>4
  <2> QED BY <2>1, <2>2, <2>3
<1> QED BY <1>1, <1>4, <1>5, <1>6 DEF all, found, scored

\* Everything a search may answer, from nothing cut off.
LEMMA AllIs ==
    ASSUME NEW table, NEW r \in SearchRequests, NEW i \in Present(table), Matches(table[i], r.filter),
           NEW h \in Hits(Ids), h.id = i, h.score = ScoreOf(table, r.vector, i)
    PROVE  LET order == SetToSeq(Present(table))
           IN  h \in Range(SqliteSearch(table, order,
                               [r EXCEPT !.top_k = Len(order), !.offset = 0, !.limit = 0]))
<1> DEFINE order == SetToSeq(Present(table))
           whole == [r EXCEPT !.top_k = Len(order), !.offset = 0, !.limit = 0]
           all == NearestFirst(Filtered(table, Scored(table, order, r.vector), r.filter))
           answer == SqliteSearch(table, order, whole)
<1>1. Enumerates(order, table) /\ Len(order) = Cardinality(Present(table))
  BY SomeOrder, OrdersEnumerate
<1>2. whole.vector = r.vector /\ whole.filter = r.filter /\ whole.top_k = Len(order)
      /\ whole.offset = 0 /\ whole.limit = 0
  BY RequestIs
<1> HIDE DEF order, whole
<1>3. answer = Page(Upto(all, Len(order)), 0, 0)
  BY <1>2 DEF SqliteSearch
<1>4. /\ Honest(table, r.vector, all)
      /\ \E k \in 1..Len(all) : all[k].id = i
  BY <1>1, SqliteIs
<1>5. Len(all) <= Len(order)
  BY <1>1, <1>4, HonestCount
<1>6. all \in Seq(Hits(Ids)) /\ Len(all) \in Nat /\ Len(order) \in Nat
      /\ \A k \in 1..Len(all) : all[k] \in Hits(Ids) /\ all[k].score = ScoreOf(table, r.vector, all[k].id)
  BY <1>1, <1>4, EachHit DEF Honest, Enumerates
<1> HIDE DEF all
<1> DEFINE upto == Upto(all, Len(order))
<1>7. upto \in Seq(Hits(Ids)) /\ Len(upto) = Len(all) /\ \A k \in 1..Len(upto) : upto[k] = all[0 + k]
  BY <1>5, <1>6, UptoIs DEF PartOf
<1> HIDE DEF upto
<1>8. Page(upto, 0, 0) \in Seq(Hits(Ids)) /\ Len(Page(upto, 0, 0)) = PageLen(Len(upto), 0, 0)
      /\ \A k \in 1..Len(Page(upto, 0, 0)) : Page(upto, 0, 0)[k] = upto[0 + k]
  BY <1>7, PageIs
<1> DEFINE page == Page(upto, 0, 0)
<1>9. Len(page) = Len(all)
  BY <1>6, <1>7, <1>8 DEF PageLen
<1>10. page \in Seq(Hits(Ids)) /\ \A k \in 1..Len(page) : page[k] = upto[0 + k]
  BY <1>8
<1> HIDE DEF page
<1>11. PICK k \in 1..Len(all) : all[k].id = i
  BY <1>4
<1>12. page[k] = all[k]
  <2>1. 0 + k = k
    BY <1>6
  <2> QED BY <1>7, <1>9, <1>10, <2>1
<1>13. h = all[k]
  <2>1. all[k].score = h.score /\ all[k].id = h.id /\ all[k] \in Hits(Ids)
    BY <1>6, <1>11
  <2> QED BY <2>1 DEF Hits
<1>14. k \in DOMAIN page
  BY <1>9, <1>10
<1>15. h \in Range(page)
  BY <1>12, <1>13, <1>14 DEF Range
<1> QED BY <1>3, <1>15 DEF order, whole, page, upto, answer, all

\* An answer, of hits that tell what is so, nearest first, is one the search may
\* give; without a filter when it is a page of all of them.
LEMMA AnswersAre ==
    ASSUME NEW table, NEW r \in SearchRequests, NEW hits, Honest(table, r.vector, hits), Falling(hits),
           \A k \in 1..Len(hits) : Matches(table[hits[k].id], r.filter),
           r.filter = "any" /\ r.offset + r.limit <= r.top_k =>
              \E list : /\ Honest(table, r.vector, list) /\ Falling(list) /\ Complete(table, list)
                        /\ hits = Page(Upto(list, r.top_k), r.offset, r.limit)
    PROVE  Answers(table, r, hits)
<1> DEFINE order == SetToSeq(Present(table))
           all == SqliteSearch(table, order, [r EXCEPT !.top_k = Len(order), !.offset = 0, !.limit = 0])
<1>1. hits \in Seq(Hits(Ids)) /\ DOMAIN hits = 1..Len(hits) /\ \A k \in 1..Len(hits) : hits[k] \in Hits(Ids)
  BY EachHit DEF Honest
<1>2. Range(hits) \subseteq Range(all)
  <2>1. ASSUME NEW k \in 1..Len(hits) PROVE hits[k] \in Range(all)
    <3>1. /\ hits[k].id \in Present(table) /\ Matches(table[hits[k].id], r.filter) /\ hits[k] \in Hits(Ids)
          /\ hits[k].score = ScoreOf(table, r.vector, hits[k].id)
      BY <1>1 DEF Honest
    <3> QED BY <3>1, AllIs
  <2> HIDE DEF all
  <2> QED BY <1>1, <2>1 DEF Range
<1>3. Cardinality(Range(hits)) = Len(hits)
  BY HonestCount
<1>4. hits = NearestFirst(hits)
  BY <1>1, FallingStays
<1>5. ASSUME r.filter = "any", r.offset + r.limit <= r.top_k
      PROVE  Scores(hits) = Scores(SqliteSearch(table, order, r))
  <2>1. PICK list : /\ Honest(table, r.vector, list) /\ Falling(list) /\ Complete(table, list)
                    /\ hits = Page(Upto(list, r.top_k), r.offset, r.limit)
    BY <1>5
  <2> DEFINE first == NearestFirst(Filtered(table, Scored(table, order, r.vector), r.filter))
  <2>2. Enumerates(order, table)
    BY SomeOrder, OrdersEnumerate
  <2> HIDE DEF order
  <2>3. /\ SqliteSearch(table, order, r) = Page(Upto(first, r.top_k), r.offset, r.limit)
        /\ Honest(table, r.vector, first) /\ Falling(first)
        /\ \A i \in Present(table) : Matches(table[i], r.filter) => \E k \in 1..Len(first) : first[k].id = i
    BY <2>2, SqliteIs
  <2> HIDE DEF first
  <2>4. Complete(table, first)
    BY <1>5, <2>3 DEF Complete, Matches
  <2>5. Len(list) = Len(first) /\ \A k \in 1..Len(list) : list[k].score = first[k].score
    BY <2>1, <2>3, <2>4, SameScores
  <2>6. list \in Seq(Hits(Ids)) /\ first \in Seq(Hits(Ids))
    BY <2>1, <2>3 DEF Honest
  <2>7. r.top_k \in Nat /\ r.offset \in Nat /\ r.limit \in Nat
    BY RequestIs
  <2> QED BY <2>1, <2>3, <2>5, <2>6, <2>7, SamePages
<1> QED BY <1>2, <1>3, <1>4, <1>5 DEF Answers

-----------------------------------------------------------------------------
(* What each store answers.                                                *)

\* filter_documents, from a list of the documents.
LEMMA ListsAre ==
    ASSUME NEW table, NEW order, Enumerates(order, table), NEW r \in SearchRequests
    PROVE  Lists(table, r, Listed(table, order, r))
<1> DEFINE V == {i \in Ids : Matches(table[i], r.filter)}
           found == Among(order, V)
           ids == Page(found, r.offset, r.limit)
<1>1. /\ order \in Seq(Ids) /\ NoTwice(order, Self)
      /\ \A i \in Ids : i \in Present(table) <=> \E k \in 1..Len(order) : order[k] = i
  BY DEF Enumerates
<1>2. \A i \in Ids : i \in V <=> Matches(table[i], r.filter)
  OBVIOUS
<1>3. Listed(table, order, r) = ids
  BY DEF Listed
<1> HIDE DEF V
<1>4. /\ found \in Seq(Ids) /\ NoTwice(found, Self) /\ From(found, order)
      /\ \A k \in 1..Len(found) : found[k] \in V
      /\ \A j \in 1..Len(order) : order[j] \in V => \E k \in 1..Len(found) : found[k] = order[j]
  BY <1>1, AmongIn, AmongNoTwice, AmongElements
<1>5. r.offset \in Nat /\ r.limit \in Nat
  BY RequestIs
<1> HIDE DEF found
<1>6. /\ ids \in Seq(Ids) /\ Len(ids) = PageLen(Len(found), r.offset, r.limit)
      /\ \A i \in 1..Len(ids) : ids[i] = found[r.offset + i]
      /\ \E n \in Nat : PartOf(ids, found, n)
  <2>1. found \in Seq(Ids)
    BY <1>4
  <2> DEFINE offset == r.offset  limit == r.limit
  <2>2. offset \in Nat /\ limit \in Nat
    BY <1>5
  <2> HIDE DEF offset, limit
  <2> DEFINE page == Page(found, offset, limit)
  <2>3. /\ page \in Seq(Ids) /\ Len(page) = PageLen(Len(found), offset, limit)
        /\ \A i \in 1..Len(page) : page[i] = found[offset + i]
        /\ \E n \in Nat : PartOf(page, found, n)
    BY <2>1, <2>2, PageIs
  <2> HIDE DEF page
  <2> QED BY <2>3 DEF page, offset, limit
<1>7. Len(ids) \in Nat /\ Len(found) \in Nat /\ DOMAIN ids = 1..Len(ids)
      /\ (\A k \in 1..Len(ids) : ids[k] \in Ids) /\ \A k \in 1..Len(found) : found[k] \in Ids
  <2> HIDE DEF ids
  <2> QED BY <1>4, <1>6
<1> HIDE DEF ids
<1>8. PICK n \in Nat : Len(ids) + n <= Len(found) /\ \A i \in 1..Len(ids) : ids[i] = found[n + i]
  BY <1>6 DEF PartOf
<1>9. \A k \in 1..Len(ids) : n + k \in 1..Len(found)
  BY <1>7, <1>8
<1>10. ASSUME NEW k \in 1..Len(ids) PROVE ids[k] \in Present(table) /\ Matches(table[ids[k]], r.filter)
  <2>1. n + k \in 1..Len(found) /\ ids[k] = found[n + k]
    BY <1>8, <1>9
  <2>2. PICK j \in 1..Len(order) : found[n + k] = order[j]
    BY <1>4, <2>1 DEF From
  <2>3. ids[k] \in Ids /\ ids[k] \in V
    BY <1>4, <1>7, <2>1
  <2>4. ids[k] = order[j]
    BY <2>1, <2>2
  <2> QED BY <1>1, <1>2, <2>3, <2>4
<1>11. NoTwice(ids, Self)
  <2>1. \A i, j \in 1..Len(found) : found[i] = found[j] => i = j
    BY <1>4, ByIdIs
  <2>2. ASSUME NEW i \in 1..Len(ids), NEW j \in 1..Len(ids), ids[i] = ids[j] PROVE i = j
    <3>1. n + i = n + j
      BY <1>8, <1>9, <2>1, <2>2
    <3> QED BY <1>7, <1>8, <3>1
  <2> QED BY <1>6, <2>2, ByIdIs
<1>12. Cardinality(Range(ids)) = Len(ids)
  <2> DEFINE same == [k \in DOMAIN ids |-> Self[ids[k]]]
  <2>1. Cardinality(Range(same)) = Len(ids)
    BY <1>6, <1>11, KeysCount
  <2>2. \A k \in DOMAIN ids : Self[ids[k]] = ids[k]
    BY <1>7, ByIdIs
  <2>3. same = ids
    <3>1. DOMAIN same = DOMAIN ids /\ \A k \in DOMAIN ids : same[k] = ids[k]
      BY <2>2
    <3>2. same = [k \in DOMAIN ids |-> ids[k]] /\ ids = [k \in DOMAIN ids |-> ids[k]]
      BY <1>6, <2>2
    <3> QED BY <3>2
  <2> HIDE DEF same
  <2> QED BY <2>1, <2>3
<1> DEFINE all == {i \in Present(table) : Matches(table[i], r.filter)}
<1>13. Range(ids) = {ids[k] : k \in 1..Len(ids)}
  BY <1>7 DEF Range
<1>14. Range(ids) \subseteq all
  BY <1>10, <1>13
<1>15. ASSUME r.offset = 0, r.limit = 0 PROVE all \subseteq Range(ids)
  <2>1. Len(ids) = Len(found)
    BY <1>6, <1>7, <1>15 DEF PageLen
  <2>2. \A k \in 1..Len(ids) : ids[k] = found[k]
    BY <1>6, <1>7, <1>15
  <2>3. ASSUME NEW i \in all PROVE \E k \in 1..Len(ids) : ids[k] = i
    <3>1. i \in Ids /\ i \in Present(table) /\ i \in V
      BY <1>2 DEF Present
    <3>2. PICK j \in 1..Len(order) : order[j] = i
      BY <1>1, <3>1
    <3>3. PICK k \in 1..Len(found) : found[k] = order[j]
      BY <1>4, <3>1, <3>2
    <3> QED BY <2>1, <2>2, <3>2, <3>3
  <2> HIDE DEF all
  <2> QED BY <1>13, <2>3
<1> HIDE DEF all
<1>16. (r.offset = 0 /\ r.limit = 0) => Range(ids) = all
  BY <1>14, <1>15
<1> QED BY <1>3, <1>12, <1>14, <1>16 DEF Lists, all

\* What is cut off a list tells nothing else.
LEMMA HonestUpto ==
    ASSUME NEW table, NEW v, NEW hits, Honest(table, v, hits), Falling(hits), NEW n \in Nat
    PROVE  Honest(table, v, Upto(hits, n)) /\ Falling(Upto(hits, n)) /\ From(Upto(hits, n), hits)
<1>1. hits \in Seq(Hits(Ids))
  BY DEF Honest
<1>2. Upto(hits, n) \in Seq(Hits(Ids)) /\ PartOf(Upto(hits, n), hits, 0)
  BY <1>1, UptoIs
<1> DEFINE t == Upto(hits, n)
<1>3. t \in Seq(Hits(Ids)) /\ PartOf(t, hits, 0) /\ 0 \in Nat
  BY <1>2
<1> HIDE DEF t
<1>4. Honest(table, v, t) /\ Falling(t) /\ From(t, hits)
  BY <1>3, HonestPart
<1> QED BY <1>4 DEF t

LEMMA HonestPage ==
    ASSUME NEW table, NEW v, NEW hits, Honest(table, v, hits), Falling(hits),
           NEW offset \in Nat, NEW limit \in Nat
    PROVE  /\ Honest(table, v, Page(hits, offset, limit)) /\ Falling(Page(hits, offset, limit))
           /\ From(Page(hits, offset, limit), hits)
<1> DEFINE t == Page(hits, offset, limit)
<1>1. hits \in Seq(Hits(Ids))
  BY DEF Honest
<1>2. t \in Seq(Hits(Ids)) /\ \E n \in Nat : PartOf(t, hits, n)
  BY <1>1, PageIs
<1> HIDE DEF t
<1>3. PICK n \in Nat : PartOf(t, hits, n)
  BY <1>2
<1>4. Honest(table, v, t) /\ Falling(t) /\ From(t, hits)
  BY <1>2, <1>3, HonestPart
<1> QED BY <1>4 DEF t

\* SQLite filters, sorts and cuts.
LEMMA SqliteAnswers ==
    ASSUME NEW table, NEW order, Enumerates(order, table), NEW r \in SearchRequests
    PROVE  Answers(table, r, SqliteSearch(table, order, r))
<1> DEFINE all == NearestFirst(Filtered(table, Scored(table, order, r.vector), r.filter))
           first == Upto(all, r.top_k)
           hits == Page(first, r.offset, r.limit)
<1>1. /\ SqliteSearch(table, order, r) = hits
      /\ Honest(table, r.vector, all) /\ Falling(all)
      /\ \A k \in 1..Len(all) : Matches(table[all[k].id], r.filter)
      /\ \A i \in Present(table) : Matches(table[i], r.filter) => \E k \in 1..Len(all) : all[k].id = i
  BY SqliteIs
<1>2. r.top_k \in Nat /\ r.offset \in Nat /\ r.limit \in Nat
  BY RequestIs
<1> HIDE DEF all
<1>3. Honest(table, r.vector, first) /\ Falling(first) /\ From(first, all)
  BY <1>1, <1>2, HonestUpto
<1>4. hits = Page(Upto(all, r.top_k), r.offset, r.limit)
  OBVIOUS
<1> HIDE DEF first
<1>5. Honest(table, r.vector, hits) /\ Falling(hits) /\ From(hits, first)
  BY <1>2, <1>3, HonestPage
<1> HIDE DEF hits
<1>6. \A k \in 1..Len(hits) : Matches(table[hits[k].id], r.filter)
  BY <1>1, <1>3, <1>5 DEF From
<1>7. r.filter = "any" => Complete(table, all)
  BY <1>1 DEF Complete, Matches
<1>8. r.filter = "any" /\ r.offset + r.limit <= r.top_k =>
         \E list : /\ Honest(table, r.vector, list) /\ Falling(list) /\ Complete(table, list)
                   /\ hits = Page(Upto(list, r.top_k), r.offset, r.limit)
  BY <1>1, <1>4, <1>7
<1>9. Answers(table, r, hits)
  BY <1>5, <1>6, <1>8, AnswersAre
<1> QED BY <1>1, <1>9

\* The others cut a list of all to the pool and filter what is left of it.
LEMMA PoolAnswers ==
    ASSUME NEW table, NEW r \in SearchRequests, NEW list,
           Honest(table, r.vector, list), Falling(list), Complete(table, list)
    PROVE  LET found == Filtered(table, Upto(list, Pool(r)), r.filter)
           IN  /\ Answers(table, r, Page(found, r.offset, r.limit))
               /\ NearestFirst(found) = found
<1> DEFINE nearest == Upto(list, Pool(r))
           found == Filtered(table, nearest, r.filter)
           hits == Page(found, r.offset, r.limit)
<1>1. r.top_k \in Nat /\ r.offset \in Nat /\ r.limit \in Nat
  BY RequestIs
<1>2. Pool(r) \in Nat /\ (r.offset + r.limit <= r.top_k => Pool(r) = r.top_k)
  BY <1>1 DEF Pool
<1>3. Honest(table, r.vector, nearest) /\ Falling(nearest)
  BY <1>2, HonestUpto
<1>4. r.offset + r.limit <= r.top_k => nearest = Upto(list, r.top_k)
  BY <1>2
<1> HIDE DEF nearest
<1>5. /\ Honest(table, r.vector, found) /\ Falling(found)
      /\ \A k \in 1..Len(found) : Matches(table[found[k].id], r.filter)
      /\ r.filter = "any" => found = nearest
  BY <1>3, FilteredIs
<1> HIDE DEF found
<1>6. NearestFirst(found) = found
  BY <1>5, FallingStays DEF Honest
<1>7. Honest(table, r.vector, hits) /\ Falling(hits) /\ From(hits, found)
  BY <1>1, <1>5, HonestPage
<1>8. r.filter = "any" /\ r.offset + r.limit <= r.top_k =>
         hits = Page(Upto(list, r.top_k), r.offset, r.limit)
  BY <1>4, <1>5
<1> HIDE DEF hits
<1>9. \A k \in 1..Len(hits) : Matches(table[hits[k].id], r.filter)
  BY <1>5, <1>7 DEF From
<1>10. Answers(table, r, hits)
  BY <1>7, <1>8, <1>9, AnswersAre
<1> QED BY <1>6, <1>10 DEF hits, found, nearest

LEMMA ServerAnswers ==
    ASSUME NEW table, NEW order, Enumerates(order, table), NEW r \in SearchRequests
    PROVE  /\ Answers(table, r, QdrantSearch(table, order, r))
           /\ Answers(table, r, ChromaSearch(table, order, r))
<1> DEFINE scored == Scored(table, order, r.vector)
           list == NearestFirst(scored)
           found == Filtered(table, Upto(list, Pool(r)), r.filter)
<1>1. QdrantSearch(table, order, r) = Page(NearestFirst(found), r.offset, r.limit)
  BY DEF QdrantSearch
<1>2. ChromaSearch(table, order, r) = QdrantSearch(table, order, r)
  BY DEF ChromaSearch
<1> DEFINE v == r.vector
<1>3. Honest(table, v, scored) /\ Complete(table, scored)
  BY ScoredIs
<1> HIDE DEF scored, v
<1>4. Sorts(table, v, scored, list)
  BY <1>3, HonestSorted
<1> HIDE DEF list
<1>5. Honest(table, r.vector, list) /\ Falling(list) /\ Complete(table, list)
  BY <1>3, <1>4 DEF Sorts, v
<1>6. Answers(table, r, Page(found, r.offset, r.limit)) /\ NearestFirst(found) = found
  BY <1>5, PoolAnswers
<1> HIDE DEF found
<1> QED BY <1>1, <1>2, <1>6

\* FAISS finds the same by way of positions, while its index holds the vectors
\* of its documents.
LEMMA FaissAnswers ==
    ASSUME NEW table, NEW order, Enumerates(order, table), NEW r \in SearchRequests
    PROVE  Answers(table, r, FaissSearch(table, order, Vectors(table, order), r))
<1> DEFINE n == Len(order)
           index == Vectors(table, order)
           v == r.vector
           scored == [k \in DOMAIN index |-> Hit(k, IF index[k] = r.vector THEN 1 ELSE 0)]
           P == NearestFirst(scored)
           W == [id : DOMAIN order, score : 0..1]
           cut == Upto(P, Pool(r))
           nearest == Among(cut, W)
           named == [k \in DOMAIN nearest |-> Hit(order[nearest[k].id], nearest[k].score)]
           list == [k \in DOMAIN P |-> Hit(order[P[k].id], P[k].score)]
<1>0. FaissSearch(table, order, index, r) = Page(Filtered(table, named, r.filter), r.offset, r.limit)
  BY DEF FaissSearch
<1>1. /\ order \in Seq(Ids) /\ n \in Nat /\ DOMAIN order = 1..n
      /\ \A i, j \in 1..n : order[i] = order[j] => i = j
      /\ \A i \in Ids : i \in Present(table) <=> \E k \in 1..n : order[k] = i
  BY ByIdIs DEF Enumerates
<1>2. DOMAIN index = 1..n /\ \A k \in 1..n : index[k] = <<order[k], table[order[k]].version>>
  BY <1>1 DEF Vectors
<1>3. scored \in Seq(Hits(1..n)) /\ Len(scored) = n
      /\ \A k \in 1..n : scored[k].id = k /\ scored[k].score = ScoreOf(table, v, order[k])
  <2>1. scored = [k \in 1..n |-> Hit(k, ScoreOf(table, v, order[k]))]
    BY <1>2 DEF ScoreOf
  <2>2. ASSUME NEW k \in 1..n
        PROVE  /\ Hit(k, ScoreOf(table, v, order[k])) \in Hits(1..n)
               /\ Hit(k, ScoreOf(table, v, order[k])).id = k
               /\ Hit(k, ScoreOf(table, v, order[k])).score = ScoreOf(table, v, order[k])
    BY ScoreIs DEF Hit, Hits
  <2> HIDE DEF scored, n, v
  <2>3. scored \in [1..n -> Hits(1..n)]
    BY <2>1, <2>2
  <2> QED BY <1>1, <2>1, <2>2, <2>3
<1> HIDE DEF index, scored, n, v
<1>4. /\ P \in Seq(Hits(1..n)) /\ Falling(P) /\ From(P, scored)
      /\ \A j \in 1..Len(scored) : \E i \in 1..Len(P) : P[i] = scored[j]
  BY <1>3, SortedIs
<1> DEFINE posn == [h \in Hits(1..n) |-> h.id]
<1>5. \A i, j \in 1..Len(P) : P[i].id = P[j].id => i = j
  <2>1. \A h \in Hits(1..n) : posn[h] = h.id
    OBVIOUS
  <2> HIDE DEF posn
  <2>2. \A k \in 1..n : scored[k] \in Hits(1..n)
    BY <1>3, EachHit
  <2>3. \A i, j \in 1..Len(scored) : scored[i].id = scored[j].id => i = j
    BY <1>3
  <2>4. NoTwice(scored, posn)
    BY <1>3, <2>1, <2>2, <2>3 DEF NoTwice
  <2>5. \A g, h \in Hits(1..n) : posn[g] = posn[h] => g.id = h.id
    BY <2>1
  <2>6. NoTwice(P, posn)
    BY <1>3, <2>3, <2>4, <2>5, SortedNoTwice
  <2> HIDE DEF P
  <2>7. \A k \in 1..Len(P) : P[k] \in Hits(1..n)
    BY <1>4, EachHit
  <2> QED BY <2>1, <2>6, <2>7 DEF NoTwice
<1> HIDE DEF P, posn
<1>6. Len(P) \in Nat /\ DOMAIN P = 1..Len(P)
      /\ \A k \in 1..Len(P) : P[k] \in Hits(1..n) /\ P[k].id \in 1..n /\ P[k].score \in {0, 1}
  <2>1. P \in Seq(Hits(1..n))
    BY <1>4
  <2>2. Len(P) \in Nat /\ DOMAIN P = 1..Len(P) /\ \A k \in 1..Len(P) : P[k] \in Hits(1..n)
    BY <2>1
  <2>3. \A k \in 1..Len(P) : P[k].id \in 1..n /\ P[k].score \in {0, 1}
    BY <2>2, HitIs
  <2> QED BY <2>2, <2>3
<1>7. \A k \in 1..Len(P) : P[k].score = ScoreOf(table, v, order[P[k].id])
  <2>1. TAKE k \in 1..Len(P)
  <2>2. PICK j \in 1..n : P[k] = scored[j]
    BY <1>3, <1>4 DEF From
  <2> QED BY <1>3, <2>2
<1>8. \A i \in Ids, x \in {0, 1} : Hit(i, x) \in Hits(Ids) /\ Hit(i, x).id = i /\ Hit(i, x).score = x
  BY DEF Hit, Hits
<1>9. /\ list \in Seq(Hits(Ids)) /\ Len(list) = Len(P)
      /\ \A k \in 1..Len(P) : list[k] = Hit(order[P[k].id], P[k].score)
      /\ \A k \in 1..Len(P) : list[k].id = order[P[k].id] /\ list[k].score = P[k].score
  <2>1. list = [k \in 1..Len(P) |-> Hit(order[P[k].id], P[k].score)]
    BY <1>6
  <2>2. ASSUME NEW k \in 1..Len(P)
        PROVE  /\ Hit(order[P[k].id], P[k].score) \in Hits(Ids)
               /\ Hit(order[P[k].id], P[k].score).id = order[P[k].id]
               /\ Hit(order[P[k].id], P[k].score).score = P[k].score
    <3>1. order[P[k].id] \in Ids
      BY <1>1, <1>6
    <3>2. P[k].score \in {0, 1}
      BY <1>6
    <3> QED BY <3>1, <3>2 DEF Hit, Hits
  <2> HIDE DEF list
  <2>3. list \in [1..Len(P) -> Hits(Ids)]
    BY <2>1, <2>2
  <2> QED BY <1>6, <2>1, <2>2, <2>3
<1> HIDE DEF list
<1>10. ASSUME NEW k \in 1..Len(list)
       PROVE  list[k].id \in Present(table) /\ list[k].score = ScoreOf(table, v, list[k].id)
  <2>1. k \in 1..Len(P) /\ P[k].id \in 1..n
    BY <1>6, <1>9
  <2>2. order[P[k].id] \in Ids /\ order[P[k].id] \in Present(table)
    BY <1>1, <2>1
  <2> QED BY <1>7, <1>9, <2>1, <2>2
<1>11. Honest(table, v, list)
  <2>1. ASSUME NEW i \in 1..Len(list), NEW j \in 1..Len(list), list[i].id = list[j].id PROVE i = j
    <3>1. i \in 1..Len(P) /\ j \in 1..Len(P)
      BY <1>9
    <3>2. order[P[i].id] = order[P[j].id]
      BY <1>9, <2>1, <3>1
    <3>3. P[i].id = P[j].id
      BY <1>1, <1>6, <3>1, <3>2
    <3> QED BY <1>5, <3>1, <3>3
  <2>2. NoTwice(list, ById)
    BY <1>9, <2>1, ByIdIs
  <2> QED BY <1>9, <1>10, <2>2 DEF Honest
<1>12. Falling(list)
  BY <1>4, <1>9 DEF Falling
<1>13. Complete(table, list)
  <2>1. ASSUME NEW i \in Present(table) PROVE \E k \in 1..Len(list) : list[k].id = i
    <3>1. i \in Ids
      BY DEF Present
    <3>2. PICK k \in 1..n : order[k] = i
      BY <1>1, <3>1
    <3>3. PICK l \in 1..Len(P) : P[l] = scored[k]
      BY <1>3, <1>4
    <3>4. P[l].id = k
      BY <1>3, <3>3
    <3> QED BY <1>9, <3>2, <3>3, <3>4
  <2> QED BY <2>1 DEF Complete
<1>14. Pool(r) \in Nat
  BY RequestIs DEF Pool
<1>15. /\ cut \in Seq(Hits(1..n)) /\ Len(cut) = (IF Pool(r) < Len(P) THEN Pool(r) ELSE Len(P))
       /\ \A k \in 1..Len(cut) : cut[k] = P[0 + k]
  <2>1. P \in Seq(Hits(1..n))
    BY <1>4
  <2> QED BY <1>14, <2>1, UptoIs DEF PartOf
<1> HIDE DEF cut
<1>16. nearest = cut
  <2>1. Hits(1..n) \subseteq W
    BY <1>1 DEF Hits
  <2> HIDE DEF W
  <2> QED BY <1>15, <2>1, AmongAll
<1>17. Len(cut) \in Nat /\ Len(cut) <= Len(P) /\ DOMAIN cut = 1..Len(cut)
  BY <1>6, <1>14, <1>15
<1>18. named = [k \in 1..Len(cut) |-> list[k]]
  <2>1. \A k \in 1..Len(cut) : cut[k] = P[k] /\ k \in 1..Len(P)
    <3>1. \A k \in 1..Len(cut) : 0 + k = k
      OBVIOUS
    <3> QED BY <1>6, <1>15, <1>17, <3>1
  <2>2. \A k \in 1..Len(cut) : Hit(order[cut[k].id], cut[k].score) = list[k]
    BY <1>9, <2>1
  <2> HIDE DEF nearest
  <2>3. named = [k \in 1..Len(cut) |-> Hit(order[cut[k].id], cut[k].score)]
    BY <1>16, <1>17
  <2> HIDE DEF named
  <2> QED BY <2>2, <2>3
<1>19. Upto(list, Pool(r)) = [k \in 1..Len(cut) |-> list[k]]
  <2> DEFINE t == Upto(list, Pool(r))
  <2>1. t \in Seq(Hits(Ids)) /\ Len(t) = (IF Pool(r) < Len(list) THEN Pool(r) ELSE Len(list))
        /\ \A k \in 1..Len(t) : t[k] = list[0 + k]
    BY <1>9, <1>14, UptoIs DEF PartOf
  <2> HIDE DEF t
  <2>2. Len(t) = Len(cut)
    BY <1>9, <1>15, <2>1
  <2>3. \A k \in 1..Len(t) : 0 + k = k
    OBVIOUS
  <2>4. t = [k \in 1..Len(t) |-> t[k]]
    BY <2>1
  <2>5. \A k \in 1..Len(t) : t[k] = list[k]
    BY <2>1, <2>3
  <2>6. t = [k \in 1..Len(cut) |-> list[k]]
    BY <2>2, <2>4, <2>5
  <2> QED BY <2>6 DEF t
<1>20. named = Upto(list, Pool(r))
  BY <1>18, <1>19
<1> HIDE DEF named
<1>21. Honest(table, r.vector, list)
  BY <1>11 DEF v
<1> DEFINE found == Filtered(table, Upto(list, Pool(r)), r.filter)
<1>22. Answers(table, r, Page(found, r.offset, r.limit))
  BY <1>12, <1>13, <1>21, PoolAnswers
<1> HIDE DEF found
<1>23. found = Filtered(table, named, r.filter)
  BY <1>20 DEF found
<1> QED BY <1>0, <1>22, <1>23 DEF index

-----------------------------------------------------------------------------
(* The order FAISS keeps the ids in, and the vectors of its index.         *)

LEMMA EnumeratesNone ==
    /\ Enumerates(<<>>, Nothing) /\ Vectors(Nothing, <<>>) = <<>>
    /\ NoData.order = <<>> /\ NoData.index = <<>> /\ NoData.docs = Nothing
<1>1. Present(Nothing) = {}
  BY DEF Nothing, Present
<1>2. <<>> \in Seq(Ids) /\ Len(<<>>) = 0
  OBVIOUS
<1>3. NoTwice(<<>>, Self)
  BY <1>2 DEF NoTwice
<1>4. Enumerates(<<>>, Nothing)
  BY <1>1, <1>2, <1>3 DEF Enumerates
<1>5. Vectors(Nothing, <<>>) = <<>>
  BY DEF Vectors
<1> QED BY <1>4, <1>5 DEF NoData

\* Which documents are there after each kind of write.
LEMMA PresentAfter ==
    ASSUME NEW table \in Table, NEW ids \in SUBSET Ids
    PROVE  /\ Present(Added(table, ids)) = Present(table) \cup ids
           /\ Present(Updated(table, ids, table)) = Present(table) \cup ids
           /\ Present(Deleted(table, ids)) = Present(table) \ ids
           /\ ids \subseteq Present(table) => Present(WithMetadata(table, ids, table)) = Present(table)
<1>1. \A v : Plain(v) # Absent
  BY DEF Plain, Absent
<1>2. Present(Added(table, ids)) = Present(table) \cup ids
  BY <1>1 DEF Present, Added
<1>3. Present(Updated(table, ids, table)) = Present(table) \cup ids
  BY <1>1 DEF Present, Updated
<1>4. Present(Deleted(table, ids)) = Present(table) \ ids
  BY DEF Present, Deleted
<1>5. ASSUME ids \subseteq Present(table)
      PROVE  Present(WithMetadata(table, ids, table)) = Present(table)
  <2>1. ASSUME NEW i \in ids PROVE [table[i] EXCEPT !.metadata = "set"] # Absent
    <3>1. table[i] \in Documents /\ table[i] # Absent
      BY <1>5 DEF Table, Present
    <3>2. table[i] \in [version : 1..MaxVersion, metadata : {"plain", "set"}]
      BY <3>1 DEF Documents
    <3>3. [table[i] EXCEPT !.metadata = "set"].metadata = "set"
      BY <3>2
    <3> QED BY <3>3 DEF Absent
  <2> QED BY <1>5, <2>1 DEF Present, WithMetadata
<1> QED BY <1>2, <1>3, <1>4, <1>5

LEMMA EnumeratesSame ==
    ASSUME NEW order, NEW a, NEW b, Enumerates(order, a), Present(a) = Present(b)
    PROVE  Enumerates(order, b)
BY DEF Enumerates

LEMMA EnumeratesMore ==
    ASSUME NEW order, NEW new, NEW a, NEW b, NEW c, Enumerates(order, a), Enumerates(new, b),
           Present(a) \cap Present(b) = {}, Present(c) = Present(a) \cup Present(b)
    PROVE  Enumerates(order \o new, c)
<1> DEFINE all == order \o new
<1>1. /\ order \in Seq(Ids) /\ NoTwice(order, Self) /\ new \in Seq(Ids) /\ NoTwice(new, Self)
      /\ \A i \in Ids : i \in Present(a) <=> \E k \in 1..Len(order) : order[k] = i
      /\ \A i \in Ids : i \in Present(b) <=> \E k \in 1..Len(new) : new[k] = i
  BY DEF Enumerates
<1>2. /\ all \in Seq(Ids) /\ Len(all) = Len(order) + Len(new) /\ Len(order) \in Nat /\ Len(new) \in Nat
      /\ \A k \in 1..Len(order) : all[k] = order[k]
      /\ \A k \in 1..Len(new) : all[Len(order) + k] = new[k]
  BY <1>1
<1>3. /\ \A k \in 1..Len(order) : order[k] \in Ids /\ Self[order[k]] = order[k]
      /\ \A k \in 1..Len(new) : new[k] \in Ids /\ Self[new[k]] = new[k]
  BY <1>1, ByIdIs
<1>4. \A i \in 1..Len(order), j \in 1..Len(new) : Self[order[i]] # Self[new[j]]
  BY <1>1, <1>3
<1>5. NoTwice(all, Self)
  BY <1>1, <1>4, ConcatNoTwice
<1> HIDE DEF all
<1>6. ASSUME NEW i \in Ids, i \in Present(c) PROVE \E k \in 1..Len(all) : all[k] = i
  <2>1. CASE i \in Present(a)
    <3>1. PICK k \in 1..Len(order) : order[k] = i
      BY <1>1, <2>1
    <3>2. k \in 1..Len(all) /\ all[k] = i
      BY <1>2, <3>1
    <3> QED BY <3>2
  <2>2. CASE i \in Present(b)
    <3>1. PICK k \in 1..Len(new) : new[k] = i
      BY <1>1, <2>2
    <3>2. Len(order) + k \in 1..Len(all) /\ all[Len(order) + k] = i
      BY <1>2, <3>1
    <3> QED BY <3>2
  <2> QED BY <1>6, <2>1, <2>2
<1>7. ASSUME NEW k \in 1..Len(all) PROVE all[k] \in Present(c)
  <2>1. CASE k <= Len(order)
    <3>1. k \in 1..Len(order) /\ all[k] = order[k]
      BY <1>2, <2>1
    <3> QED BY <1>1, <1>3, <3>1
  <2>2. CASE ~ k <= Len(order)
    <3>1. k - Len(order) \in 1..Len(new) /\ Len(order) + (k - Len(order)) = k
      BY <1>2, <2>2
    <3>2. all[k] = new[k - Len(order)]
      BY <1>2, <3>1
    <3> QED BY <1>1, <1>3, <3>1, <3>2
  <2> QED BY <2>1, <2>2
<1> QED BY <1>2, <1>5, <1>6, <1>7 DEF Enumerates, all

LEMMA EnumeratesKept ==
    ASSUME NEW order, NEW a, NEW b, Enumerates(order, a), NEW ids, Present(b) = Present(a) \ ids
    PROVE  Enumerates(Kept(order, ids), b)
<1> DEFINE V == Ids \ ids
           kept == Among(order, V)
<1>1. /\ order \in Seq(Ids) /\ NoTwice(order, Self)
      /\ \A i \in Ids : i \in Present(a) <=> \E k \in 1..Len(order) : order[k] = i
  BY DEF Enumerates
<1>2. \A i : i \in V <=> i \in Ids /\ i \notin ids
  OBVIOUS
<1> HIDE DEF V
<1>3. /\ kept \in Seq(Ids) /\ NoTwice(kept, Self) /\ From(kept, order)
      /\ \A k \in 1..Len(kept) : kept[k] \in V
      /\ \A j \in 1..Len(order) : order[j] \in V => \E k \in 1..Len(kept) : kept[k] = order[j]
  BY <1>1, AmongIn, AmongNoTwice, AmongElements
<1> HIDE DEF kept
<1>4. ASSUME NEW i \in Ids, i \in Present(b) PROVE \E k \in 1..Len(kept) : kept[k] = i
  <2>1. i \in Present(a) /\ i \in V
    BY <1>2, <1>4
  <2>2. PICK j \in 1..Len(order) : order[j] = i
    BY <1>1, <2>1
  <2> QED BY <1>3, <2>1, <2>2
<1>5. ASSUME NEW k \in 1..Len(kept) PROVE kept[k] \in Present(b)
  <2>1. PICK j \in 1..Len(order) : kept[k] = order[j]
    BY <1>3 DEF From
  <2>2. kept[k] \in V
    BY <1>3
  <2>3. kept[k] \in Present(a)
    BY <1>1, <1>2, <2>1, <2>2
  <2> QED BY <1>2, <2>2, <2>3
<1>6. Kept(order, ids) = kept
  BY DEF Kept, kept, V
<1> QED BY <1>3, <1>4, <1>5, <1>6 DEF Enumerates

\* New ids, in the order they come in.
LEMMA NewOrder ==
    ASSUME NEW S \in SUBSET Ids, NEW new \in SetToSeqs(S)
    PROVE  Enumerates(new, Added(Nothing, S)) /\ Present(Added(Nothing, S)) = S
<1>1. Present(Nothing) = {}
  BY DEF Nothing, Present
<1>2. Present(Added(Nothing, S)) = S
  <2>1. Nothing \in Table
    BY DocumentTypes
  <2>2. Present(Added(Nothing, S)) = Present(Nothing) \cup S
    BY <2>1, PresentAfter
  <2> QED BY <1>1, <2>2
<1> DEFINE table == Added(Nothing, S)
<1> HIDE DEF table
<1>3. new \in SetToSeqs(Present(table))
  BY <1>2 DEF table
<1>4. Enumerates(new, table)
  BY <1>3, OrdersEnumerate
<1> QED BY <1>2, <1>4 DEF table

\* A vector is that of a version: it changes with it.
LEMMA VectorsSame ==
    ASSUME NEW order \in Seq(Ids), NEW a, NEW b, \A k \in 1..Len(order) : a[order[k]].version = b[order[k]].version
    PROVE  Vectors(a, order) = Vectors(b, order)
BY DEF Vectors

LEMMA VectorsMore ==
    ASSUME NEW order \in Seq(Ids), NEW new \in Seq(Ids), NEW a
    PROVE  Vectors(a, order \o new) = Vectors(a, order) \o Vectors(a, new)
<1> DEFINE S == Ids \X {a[i].version : i \in Ids}
           all == order \o new
           x == Vectors(a, order)
           y == Vectors(a, new)
           z == Vectors(a, all)
<1>1. /\ all \in Seq(Ids) /\ Len(all) = Len(order) + Len(new) /\ Len(order) \in Nat /\ Len(new) \in Nat
      /\ \A k \in 1..Len(order) : all[k] = order[k]
      /\ \A k \in 1..Len(new) : all[Len(order) + k] = new[k]
  OBVIOUS
<1>2. ASSUME NEW o \in Seq(Ids)
      PROVE  /\ Vectors(a, o) \in Seq(S) /\ Len(Vectors(a, o)) = Len(o)
             /\ \A k \in 1..Len(o) : Vectors(a, o)[k] = <<o[k], a[o[k]].version>>
  <2>1. Vectors(a, o) = [k \in 1..Len(o) |-> <<o[k], a[o[k]].version>>]
    BY DEF Vectors
  <2>2. \A k \in 1..Len(o) : <<o[k], a[o[k]].version>> \in S
    <3>1. TAKE k \in 1..Len(o)
    <3>2. o[k] \in Ids
      OBVIOUS
    <3> QED BY <3>2
  <2> HIDE DEF S
  <2> QED BY <2>1, <2>2
<1> HIDE DEF all, S
<1>3. /\ x \in Seq(S) /\ Len(x) = Len(order) /\ y \in Seq(S) /\ Len(y) = Len(new)
      /\ z \in Seq(S) /\ Len(z) = Len(order) + Len(new)
      /\ \A k \in 1..Len(order) : x[k] = <<order[k], a[order[k]].version>>
      /\ \A k \in 1..Len(new) : y[k] = <<new[k], a[new[k]].version>>
      /\ \A k \in 1..Len(all) : z[k] = <<all[k], a[all[k]].version>>
  BY <1>1, <1>2
<1> HIDE DEF x, y, z
<1>4. /\ x \o y \in Seq(S) /\ Len(x \o y) = Len(order) + Len(new)
      /\ \A k \in 1..Len(x) : (x \o y)[k] = x[k]
      /\ \A k \in 1..Len(y) : (x \o y)[Len(x) + k] = y[k]
  <2>1. x \in Seq(S) /\ y \in Seq(S)
    BY <1>3
  <2>2. /\ x \o y \in Seq(S) /\ Len(x \o y) = Len(x) + Len(y)
        /\ \A k \in 1..Len(x) : (x \o y)[k] = x[k]
        /\ \A k \in 1..Len(y) : (x \o y)[Len(x) + k] = y[k]
    BY <2>1
  <2> QED BY <1>3, <2>2
<1>5. ASSUME NEW k \in 1..(Len(order) + Len(new)) PROVE z[k] = (x \o y)[k]
  <2>1. CASE k <= Len(order)
    <3>1. k \in 1..Len(order) /\ k \in 1..Len(all) /\ k \in 1..Len(x)
      BY <1>1, <1>3, <2>1
    <3>2. all[k] = order[k]
      BY <1>1, <3>1
    <3>3. z[k] = <<order[k], a[order[k]].version>>
      BY <1>3, <3>1, <3>2
    <3>4. (x \o y)[k] = x[k]
      BY <1>4, <3>1
    <3> QED BY <1>3, <3>1, <3>3, <3>4
  <2>2. CASE ~ k <= Len(order)
    <3> DEFINE l == k - Len(order)
    <3>1. l \in 1..Len(new) /\ k = Len(order) + l /\ k \in 1..Len(all) /\ l \in 1..Len(y)
      BY <1>1, <1>3, <2>2
    <3> HIDE DEF l
    <3>2. all[k] = new[l]
      BY <1>1, <3>1
    <3>3. z[k] = <<new[l], a[new[l]].version>>
      BY <1>3, <3>1, <3>2
    <3>4. (x \o y)[k] = y[l]
      BY <1>3, <1>4, <3>1
    <3> QED BY <1>3, <3>1, <3>3, <3>4
  <2> QED BY <2>1, <2>2
<1>6. z = x \o y
  BY <1>1, <1>3, <1>4, <1>5
<1> QED BY <1>6 DEF x, y, z, all

\* Data whose index holds the vectors of their documents, in their order.
Matched(d) == d.index = Vectors(d.docs, d.order)

OrdersInv ==
    /\ Enumerates(json.order, json.docs) /\ Enumerates(cache.order, cache.docs)
    /\ Enumerates(work.order, work.docs)
    /\ backend = "faiss" =>
          /\ LockFree /\ cuts = 0 => indexFile.vectors = Vectors(json.docs, json.order)
          /\ \A c \in Clients : Busy(c) /\ (cuts = 0 \/ Heals(request[c])) => Matched(work)

LEMMA NoDataMatched == Enumerates(NoData.order, NoData.docs) /\ Matched(NoData)
BY EnumeratesNone DEF Matched

LEMMA LoadedOrder ==
    ASSUME Enumerates(json.order, json.docs), Enumerates(cache.order, cache.docs)
    PROVE  /\ Enumerates(Loaded.order, Loaded.docs)
           /\ (FilesShape /\ Agreed /\ indexFile.vectors = Vectors(json.docs, json.order)) => Matched(Loaded)
<1>1. CASE cache.is = "whole"
  <2>1. Loaded = cache
    BY <1>1 DEF Loaded
  <2>2. Agreed => /\ json.docs = cache.docs /\ json.order = cache.order
                  /\ indexFile.vectors = cache.index
    BY <1>1, DataShapes DEF Agreed
  <2> QED BY <2>1, <2>2 DEF Matched
<1>2. CASE cache.is # "whole" /\ json.is = "missing"
  <2>1. Loaded = NoData
    BY <1>2 DEF Loaded
  <2> QED BY <2>1, NoDataMatched
<1>3. CASE cache.is # "whole" /\ json.is # "missing"
  <2>1. Loaded = Data(json.docs, json.order, indexFile.vectors)
    BY <1>3 DEF Loaded
  <2>2. Loaded.docs = json.docs /\ Loaded.order = json.order /\ Loaded.index = indexFile.vectors
    BY <2>1, DataShapes
  <2> QED BY <2>2 DEF Matched
<1> QED BY <1>1, <1>2, <1>3

\* What a request is about to write lists its documents, and its index holds
\* their vectors when the one it found did or when it makes a new one.
LEMMA ChangedOrder ==
    ASSUME FilesShape, Enumerates(Loaded.order, Loaded.docs), NEW r \in Requests, ~ FaissRefuses(r),
           NEW new \in NewIds(r)
    PROVE  /\ Enumerates(Changed(r, new).order, Changed(r, new).docs)
           /\ Heals(r) \/ Matched(Loaded) => Matched(Changed(r, new))
<1> DEFINE d == Loaded.docs
           o == Loaded.order
           ch == Changed(r, new)
           S == r.ids \ Present(d)
<1>1. /\ d \in Table /\ IsData(Loaded) /\ r.ids \subseteq Ids /\ r.ids \in SUBSET Ids
      /\ r.op \in {"create", "drop", "add", "update", "delete", "set_metadata"}
      /\ o \in Seq(Ids) /\ Enumerates(o, d) /\ S \in SUBSET Ids
      /\ \A k \in 1..Len(o) : o[k] \in Present(d)
  <2>1. \A k \in 1..Len(o) : o[k] \in Present(d)
    <3>1. o \in Seq(Ids) /\ \A i \in Ids : i \in Present(d) <=> \E k \in 1..Len(o) : o[k] = i
      BY DEF Enumerates
    <3>2. \A k \in 1..Len(o) : o[k] \in Ids
      BY <3>1
    <3> QED BY <3>1, <3>2
  <2>2. o \in Seq(Ids)
    BY DEF Enumerates
  <2> QED BY <2>1, <2>2, LoadedShape, RequestParts
<1> HIDE DEF S
<1>2. CASE r.op = "create"
  <2>1. ch = Data(Nothing, <<>>, <<>>)
    BY <1>2 DEF Changed
  <2>2. ch.docs = Nothing /\ ch.order = <<>> /\ ch.index = <<>>
    BY <2>1, DataShapes
  <2> QED BY <2>2, EnumeratesNone DEF Matched
<1>3. CASE r.op = "drop"
  <2>1. ch = NoData
    BY <1>3 DEF Changed
  <2> QED BY <2>1, NoDataMatched
<1>4. CASE r.op = "add"
  <2>1. ch = Appended(new)
    BY <1>4 DEF Changed
  <2>2. r.ids \cap Present(d) = {} /\ S = r.ids
    BY <1>4 DEF FaissRefuses, S
  <2>3. new \in SetToSeqs(S)
    BY <1>4 DEF NewIds, S
  <2>4. Range(new) = r.ids
    <3>1. IsFiniteSet(r.ids)
      BY <1>1, VectorAssumption, FS_Subset
    <3> QED BY <2>2, <2>3, <3>1, OrderedIds
  <2> DEFINE table == Added(d, r.ids)
  <2>5. /\ ch.docs = table /\ ch.order = o \o new
        /\ ch.index = Loaded.index \o Vectors(table, new)
    <3> DEFINE all == o \o new
               vectors == Loaded.index \o Vectors(table, new)
    <3>1. ch = Data(table, all, vectors)
      BY <2>1, <2>4 DEF Appended
    <3> HIDE DEF ch, all, vectors, table
    <3>2. ch.docs = table /\ ch.order = all /\ ch.index = vectors
      BY <3>1, DataShapes
    <3> QED BY <3>2 DEF all, vectors
  <2>6. Enumerates(new, Added(Nothing, S)) /\ Present(Added(Nothing, S)) = S
    BY <1>1, <2>3, NewOrder
  <2>7. Present(table) = Present(d) \cup S
    BY <1>1, <2>2, PresentAfter
  <2>8. \A i \in Present(d) : table[i] = d[i]
    BY <2>2 DEF Added, Present
  <2> HIDE DEF table
  <2>9. Enumerates(o \o new, table)
    <3> DEFINE b == Added(Nothing, S)
    <3>1. Enumerates(new, b) /\ Present(b) = S
      BY <2>6
    <3> HIDE DEF b
    <3>2. Present(d) \cap Present(b) = {} /\ Present(table) = Present(d) \cup Present(b)
      BY <2>2, <2>7, <3>1
    <3> QED BY <1>1, <3>1, <3>2, EnumeratesMore
  <2>10. new \in Seq(Ids)
    BY <2>6 DEF Enumerates
  <2>11. ASSUME Matched(Loaded) PROVE Matched(ch)
    <3>1. Loaded.index = Vectors(d, o)
      BY <2>11 DEF Matched
    <3>2. \A k \in 1..Len(o) : d[o[k]].version = table[o[k]].version
      BY <1>1, <2>8
    <3>3. Vectors(d, o) = Vectors(table, o)
      BY <1>1, <3>2, VectorsSame
    <3>4. Vectors(table, o \o new) = Vectors(table, o) \o Vectors(table, new)
      BY <1>1, <2>10, VectorsMore
    <3> HIDE DEF ch, o
    <3> QED BY <2>5, <3>1, <3>3, <3>4 DEF Matched
  <2>12. ~ Heals(r)
    BY <1>4 DEF Heals
  <2> HIDE DEF ch, o
  <2>13. Enumerates(ch.order, ch.docs)
    BY <2>5, <2>9
  <2> QED BY <2>11, <2>12, <2>13 DEF ch
<1>5. CASE r.op = "update"
  <2> DEFINE table == Updated(d, r.ids, d)
  <2>1. ch = Rebuilt(table, o \o new)
    BY <1>5 DEF Changed
  <2>2. ch.docs = table /\ ch.order = o \o new /\ ch.index = Vectors(table, o \o new)
    <3> DEFINE all == o \o new
    <3>1. ch = Data(table, all, Vectors(table, all))
      BY <2>1 DEF Rebuilt
    <3> HIDE DEF ch, all, table
    <3>2. ch.docs = table /\ ch.order = all /\ ch.index = Vectors(table, all)
      BY <3>1, DataShapes
    <3> QED BY <3>2 DEF all
  <2>3. new \in SetToSeqs(S)
    BY <1>5 DEF NewIds, S
  <2>4. Enumerates(new, Added(Nothing, S)) /\ Present(Added(Nothing, S)) = S
    BY <1>1, <2>3, NewOrder
  <2>5. Present(table) = Present(d) \cup r.ids
    BY <1>1, PresentAfter
  <2> HIDE DEF table
  <2>6. Present(table) = Present(d) \cup S /\ Present(d) \cap S = {}
    BY <2>5 DEF S
  <2>7. Enumerates(o \o new, table)
    <3> DEFINE b == Added(Nothing, S)
    <3>1. Enumerates(new, b) /\ Present(b) = S
      BY <2>4
    <3> HIDE DEF b
    <3> QED BY <1>1, <2>6, <3>1, EnumeratesMore
  <2> HIDE DEF ch, o
  <2>8. Enumerates(ch.order, ch.docs) /\ Matched(ch)
    BY <2>2, <2>7 DEF Matched
  <2> QED BY <2>8 DEF ch
<1>6. CASE r.op = "delete"
  <2> DEFINE table == Deleted(d, r.ids)
             kept == Kept(o, r.ids)
  <2>1. ch = Rebuilt(table, kept)
    BY <1>6 DEF Changed
  <2>2. ch.docs = table /\ ch.order = kept /\ ch.index = Vectors(table, kept)
    BY <2>1, DataShapes DEF Rebuilt
  <2>3. Present(table) = Present(d) \ r.ids
    BY <1>1, PresentAfter
  <2> HIDE DEF table
  <2>4. Enumerates(kept, table)
    BY <1>1, <2>3, EnumeratesKept
  <2> HIDE DEF ch, kept
  <2>5. Enumerates(ch.order, ch.docs) /\ Matched(ch)
    BY <2>2, <2>4 DEF Matched
  <2> QED BY <2>5 DEF ch
<1>7. CASE r.op = "set_metadata"
  <2> DEFINE table == WithMetadata(d, r.ids, d)
  <2>1. ch = [Loaded EXCEPT !.docs = table]
    BY <1>7 DEF Changed
  <2>2. r.ids \subseteq Present(d) /\ Loaded.is = "whole"
    BY <1>7, LoadedShape DEF FaissRefuses
  <2>3. Loaded = Data(d, o, Loaded.index)
    BY <1>1, <2>2, DataShapes DEF IsData
  <2>4. ch = Data(table, o, Loaded.index)
    BY <2>1, <2>3 DEF Data
  <2>5. ch.docs = table /\ ch.order = o /\ ch.index = Loaded.index
    BY <2>4, DataShapes
  <2>6. Present(table) = Present(d)
    BY <1>1, <2>2, PresentAfter
  <2>7. \A i \in Present(d) : table[i].version = d[i].version
    <3>1. ASSUME NEW i \in r.ids PROVE [d[i] EXCEPT !.metadata = "set"].version = d[i].version
      <4>1. d[i] \in [version : 1..MaxVersion, metadata : {"plain", "set"}]
        BY <1>1, <2>2 DEF Table, Present, Documents
      <4> QED BY <4>1
    <3> QED BY <3>1 DEF WithMetadata, Present
  <2> HIDE DEF table
  <2>8. Enumerates(o, table)
    BY <1>1, <2>6, EnumeratesSame
  <2>9. Vectors(d, o) = Vectors(table, o)
    <3>1. \A k \in 1..Len(o) : d[o[k]].version = table[o[k]].version
      BY <1>1, <2>7
    <3> QED BY <1>1, <3>1, VectorsSame
  <2>10. Matched(Loaded) => Matched(ch)
    BY <2>5, <2>9 DEF Matched
  <2>11. ~ Heals(r)
    BY <1>7 DEF Heals
  <2> HIDE DEF ch
  <2>12. Enumerates(ch.order, ch.docs)
    BY <2>5, <2>8
  <2> QED BY <2>10, <2>11, <2>12 DEF ch
<1> QED BY <1>1, <1>2, <1>3, <1>4, <1>5, <1>6, <1>7

Ordered == OrdersInv /\ FaissInv /\ Served /\ backend = "faiss"

\* Between requests, what the files and memory hold decides.
LEMMA OrdersEnded ==
    ASSUME backend' = "faiss", \A d \in Clients : ~ Busy(d)', work' = NoData,
           Enumerates(json'.order, json'.docs), Enumerates(cache'.order, cache'.docs),
           cuts' = 0 => indexFile'.vectors = Vectors(json'.docs, json'.order)
    PROVE  OrdersInv'
<1>1. Enumerates(work'.order, work'.docs)
  BY NoDataMatched
<1> QED BY <1>1 DEF OrdersInv

LEMMA OrdersCall ==
    ASSUME Ordered, NEW c \in Clients, NEW r \in Requests, FaissCall(c, r)
    PROVE  OrdersInv'
<1>1. /\ at[c] = "idle" /\ at'[c] = "waiting"
      /\ \A d \in Clients \ {c} : at'[d] = at[d] /\ request'[d] = request[d]
      /\ \A d \in Clients : Busy(d)' => Busy(d) /\ d # c
      /\ UNCHANGED <<backend, json, indexFile, cache, work, cuts>>
  BY RequestParts DEF Ordered, FaissCall, FaissInv, UnderLock, FilesShape, FaissTypeOK, Served, Busy
<1>2. LockFree' => LockFree
  BY <1>1 DEF LockFree
<1>3. \A d \in Clients : Busy(d)' => Busy(d) /\ request'[d] = request[d]
  BY <1>1
<1> QED BY <1>1, <1>2, <1>3 DEF Ordered, OrdersInv

LEMMA OrdersBegin ==
    ASSUME Ordered, NEW c \in Clients, Begin(c)
    PROVE  OrdersInv'
<1> DEFINE r == request[c]
<1>1. /\ LockFree /\ FilesShape /\ UNCHANGED <<json, indexFile, cuts>>
      /\ r \in Requests
      /\ cuts = 0 => Agreed
  BY DEF Ordered, Begin, FaissInv, UnderLock, Served
<1>2. /\ Enumerates(json.order, json.docs) /\ Enumerates(cache.order, cache.docs)
      /\ Enumerates(Loaded.order, Loaded.docs)
      /\ cuts = 0 => indexFile.vectors = Vectors(json.docs, json.order)
  BY <1>1, LoadedOrder DEF Ordered, OrdersInv
<1>3. ASSUME NEW o \in Outcomes, FaissEnds(c, o), cache' \in {cache, Loaded}
      PROVE  OrdersInv'
  <2>1. /\ backend' = "faiss" /\ work' = NoData
        /\ \A d \in Clients : ~ Busy(d)'
    BY <1>1, <1>3, FaissEndsLock DEF Ordered
  <2>2. Enumerates(json'.order, json'.docs) /\ Enumerates(cache'.order, cache'.docs)
    BY <1>1, <1>2, <1>3
  <2> QED BY <1>1, <1>2, <2>1, <2>2, OrdersEnded
<1>4. ASSUME ~ FaissRefuses(r), NEW new \in NewIds(r), work' = Changed(r, new),
             cache' = CacheAfter(r, work'), at' = [at EXCEPT ![c] = "index"],
             UNCHANGED <<backend, request, outcome>>
      PROVE  OrdersInv'
  <2>1. /\ Enumerates(work'.order, work'.docs)
        /\ Heals(r) \/ Matched(Loaded) => Matched(work')
    <3> DEFINE ch == Changed(r, new)
    <3>1. Enumerates(ch.order, ch.docs) /\ (Heals(r) \/ Matched(Loaded) => Matched(ch))
      BY <1>1, <1>2, <1>4, ChangedOrder
    <3> HIDE DEF ch
    <3>2. work' = ch
      BY <1>4 DEF ch
    <3> QED BY <3>1, <3>2
  <2>2. cache' \in {NoData, work'}
    BY <1>4 DEF CacheAfter
  <2>3. Enumerates(cache'.order, cache'.docs)
    BY <2>1, <2>2, NoDataMatched
  <2>4. /\ at'[c] = "index" /\ \A d \in Clients \ {c} : at'[d] = at[d] /\ ~ Busy(d)
    BY <1>1, <1>4 DEF FilesShape, FaissTypeOK, LockFree, Busy
  <2>5. ~ LockFree' /\ \A d \in Clients : Busy(d)' => d = c
    BY <2>4 DEF LockFree, Busy
  <2>6. cuts = 0 => Matched(Loaded)
    BY <1>1, <1>2, LoadedOrder
  <2>7. \A d \in Clients : Busy(d)' /\ (cuts' = 0 \/ Heals(request'[d])) => Matched(work')
    BY <1>1, <1>4, <2>1, <2>5, <2>6
  <2>8. Enumerates(json'.order, json'.docs)
    BY <1>1, <1>2
  <2> QED BY <2>1, <2>3, <2>5, <2>7, <2>8 DEF OrdersInv
<1>5. CASE Unreadable /\ FaissEnds(c, "failed") /\ UNCHANGED cache
  BY <1>3, <1>5 DEF Outcomes
<1>6. CASE ~ Unreadable /\ FaissEnds(c, "refused") /\ cache' = Loaded
  BY <1>3, <1>6 DEF Outcomes
<1>7. CASE ~ Unreadable /\ FaissEnds(c, "ok") /\ cache' = Loaded
  BY <1>3, <1>7 DEF Outcomes
<1>8. CASE /\ ~ Unreadable /\ ~ FaissRefuses(r) /\ ~ NothingToDelete(r) /\ FaissWithinBound(r)
           /\ \E new \in NewIds(r) : work' = Changed(r, new)
           /\ cache' = CacheAfter(r, work')
           /\ at' = [at EXCEPT ![c] = "index"]
           /\ UNCHANGED <<backend, request, outcome>>
  BY <1>4, <1>8
<1> QED BY <1>5, <1>6, <1>7, <1>8 DEF Begin

LEMMA OrdersWriteIndex ==
    ASSUME Ordered, NEW c \in Clients, WriteIndex(c)
    PROVE  OrdersInv'
<1>1. /\ at[c] = "index" /\ at'[c] = "json" /\ \A d \in Clients \ {c} : at'[d] = at[d]
      /\ UNCHANGED <<backend, request, outcome, json, cache, work, cuts>>
  BY DEF Ordered, FaissInv, FilesShape, FaissTypeOK, WriteIndex
<1>2. ~ LockFree' /\ \A d \in Clients : Busy(d)' <=> Busy(d)
  BY <1>1 DEF LockFree, Busy
<1> QED BY <1>1, <1>2 DEF Ordered, OrdersInv

\* The index that was written before is the one the JSON file's order is for.
LEMMA OrdersWriteJson ==
    ASSUME Ordered, NEW c \in Clients, WriteJson(c)
    PROVE  OrdersInv'
<1>1. /\ at[c] = "json" /\ Busy(c) /\ FaissEnds(c, "ok")
      /\ json' = File(work.is, work.docs, work.order)
      /\ cuts' = (IF Heals(request[c]) THEN 0 ELSE cuts)
      /\ UNCHANGED <<indexFile, cache>>
      /\ indexFile = IndexFile(work.is, work.index)
  BY DEF Ordered, FaissInv, UnderLock, WriteJson, Busy
<1>2. /\ backend' = "faiss" /\ work' = NoData /\ \A d \in Clients : ~ Busy(d)'
  BY <1>1, FaissEndsLock DEF Ordered, Outcomes
<1>3. json'.docs = work.docs /\ json'.order = work.order /\ indexFile'.vectors = work.index
  BY <1>1, DataShapes
<1>4. cuts' = 0 => cuts = 0 \/ Heals(request[c])
  BY <1>1
<1>5. cuts' = 0 => Matched(work)
  BY <1>1, <1>4 DEF Ordered, OrdersInv
<1>6. cuts' = 0 => indexFile'.vectors = Vectors(json'.docs, json'.order)
  BY <1>3, <1>5 DEF Matched
<1>7. Enumerates(json'.order, json'.docs) /\ Enumerates(cache'.order, cache'.docs)
  BY <1>1, <1>3 DEF Ordered, OrdersInv
<1> QED BY <1>2, <1>6, <1>7, OrdersEnded

\* A file that is cut off holds nothing that could be searched.
LEMMA OrdersCut ==
    ASSUME Ordered, FilesCutShort
    PROVE  Enumerates(json'.order, json'.docs)
<1>1. json' \in {json, File("torn", Nothing, <<>>)}
  BY DEF FilesCutShort, CutShort
<1>2. /\ File("torn", Nothing, <<>>).order = <<>> /\ File("torn", Nothing, <<>>).docs = Nothing
  BY DataShapes
<1> QED BY <1>1, <1>2, EnumeratesNone DEF Ordered, OrdersInv

LEMMA OrdersPersistFails ==
    ASSUME Ordered, NEW c \in Clients, PersistFails(c)
    PROVE  OrdersInv'
<1>1. /\ Busy(c) /\ FaissEnds(c, "failed") /\ FilesCutShort /\ UNCHANGED cache
  BY DEF PersistFails, Busy
<1>2. /\ backend' = "faiss" /\ work' = NoData /\ \A d \in Clients : ~ Busy(d)'
  BY <1>1, FaissEndsLock DEF Ordered, Outcomes
<1>3. cuts' > 0
  BY PersistFailsKeeps DEF Ordered
<1>4. Enumerates(json'.order, json'.docs) /\ Enumerates(cache'.order, cache'.docs)
  BY <1>1, OrdersCut DEF Ordered, OrdersInv
<1> QED BY <1>2, <1>3, <1>4, OrdersEnded

LEMMA OrdersRestart ==
    ASSUME Ordered, FaissRestart
    PROVE  OrdersInv'
<1>1. /\ FilesShape /\ FilesCutShort /\ at' = [d \in Clients |-> "idle"]
      /\ cache' = NoData /\ work' = NoData /\ backend' = "faiss"
  BY DEF Ordered, FaissInv, FaissRestart
<1>2. cuts' = 0 => cuts = 0 /\ ~ Writing /\ UNCHANGED <<json, indexFile>>
  BY <1>1, CutShortFiles
<1>3. \A d \in Clients : ~ Busy(d)'
  BY <1>1 DEF Busy
<1>4. ~ Writing => LockFree
  BY <1>1 DEF Writing, LockFree, FilesShape, FaissTypeOK
<1>5. cuts' = 0 => indexFile'.vectors = Vectors(json'.docs, json'.order)
  BY <1>2, <1>4 DEF Ordered, OrdersInv
<1>6. Enumerates(json'.order, json'.docs) /\ Enumerates(cache'.order, cache'.docs)
  BY <1>1, OrdersCut, NoDataMatched
<1> QED BY <1>1, <1>3, <1>5, <1>6, OrdersEnded

LEMMA OrdersNext ==
    ASSUME StoresInv, OrdersInv, [Next]_vars PROVE OrdersInv'
<1>1. CASE SharedNext /\ UNCHANGED faissVars
  <2>1. backend # "faiss" /\ backend' = backend
    BY <1>1 DEF SharedNext, Check, Look, Write, WriteLands, Unavailable, EndsUnwritten, Ends,
                GoesOn, SharedCall, SharedRestart
  <2> QED BY <1>1, <2>1 DEF OrdersInv, faissVars
<1>2. CASE FaissNext /\ UNCHANGED sharedVars
  <2>1. Ordered
    BY <1>2 DEF FaissNext, Ordered, StoresInv
  <2>2. \/ \E c \in Clients : Begin(c) \/ WriteIndex(c) \/ WriteJson(c) \/ PersistFails(c)
        \/ \E c \in Clients, r \in Requests : FaissCall(c, r)
        \/ FaissRestart
    BY <1>2 DEF FaissNext
  <2> QED BY <2>1, <2>2, OrdersBegin, OrdersWriteIndex, OrdersWriteJson, OrdersPersistFails,
             OrdersCall, OrdersRestart
<1>3. CASE UNCHANGED vars
  BY <1>3 DEF OrdersInv, vars, faissVars, LockFree, Busy
<1> QED BY <1>1, <1>2, <1>3 DEF Next

LEMMA InitOrders == Init => OrdersInv
<1> SUFFICES ASSUME Init PROVE OrdersInv
  OBVIOUS
<1>1. /\ json.docs = Nothing /\ json.order = <<>> /\ indexFile.vectors = <<>>
      /\ cache = NoData /\ work = NoData /\ \A c \in Clients : ~ Busy(c)
  BY DataShapes DEF Init, FaissInit, Busy
<1> QED BY <1>1, EnumeratesNone, NoDataMatched DEF OrdersInv

\* Whatever is asked of whichever store, between the requests that write.
LEMMA SearchesAnswer ==
    ASSUME StoresInv, OrdersInv
    PROVE  SearchFindsDocuments
<1> SUFFICES ASSUME NEW r \in SearchRequests
             PROVE  /\ (backend = "faiss" /\ LockFree /\ cuts = 0) =>
                          /\ ~ Unreadable
                          /\ Answers(json.docs, r, FaissSearch(Loaded.docs, Loaded.order, Loaded.index, r))
                          /\ Lists(json.docs, r, Listed(Loaded.docs, Loaded.order, r))
                    /\ \A order \in SetToSeqs(Present(docs)) :
                          /\ Answers(docs, r, SqliteSearch(docs, order, r))
                          /\ Answers(docs, r, QdrantSearch(docs, order, r))
                          /\ Answers(docs, r, ChromaSearch(docs, order, r))
                          /\ Lists(docs, r, Listed(docs, order, r))
  BY DEF SearchFindsDocuments
<1>1. ASSUME backend = "faiss", LockFree, cuts = 0
      PROVE  /\ ~ Unreadable
             /\ Answers(json.docs, r, FaissSearch(Loaded.docs, Loaded.order, Loaded.index, r))
             /\ Lists(json.docs, r, Listed(Loaded.docs, Loaded.order, r))
  <2>1. /\ FilesShape /\ Agreed /\ Enumerates(json.order, json.docs) /\ Enumerates(cache.order, cache.docs)
        /\ indexFile.vectors = Vectors(json.docs, json.order)
    BY <1>1 DEF StoresInv, FaissInv, OrdersInv
  <2>2. ~ Unreadable /\ Loaded.docs = json.docs
    BY <2>1, LoadedIsCurrent
  <2> DEFINE order == Loaded.order
             table == json.docs
  <2>3. Enumerates(order, table) /\ Loaded.index = Vectors(table, order)
    BY <2>1, <2>2, LoadedOrder DEF Matched
  <2> HIDE DEF order, table
  <2>4. /\ Answers(table, r, FaissSearch(table, order, Vectors(table, order), r))
        /\ Lists(table, r, Listed(table, order, r))
    BY <2>3, FaissAnswers, ListsAre
  <2> QED BY <2>2, <2>3, <2>4 DEF order, table
<1>2. ASSUME NEW order \in SetToSeqs(Present(docs))
      PROVE  /\ Answers(docs, r, SqliteSearch(docs, order, r))
             /\ Answers(docs, r, QdrantSearch(docs, order, r))
             /\ Answers(docs, r, ChromaSearch(docs, order, r))
             /\ Lists(docs, r, Listed(docs, order, r))
  <2>1. Enumerates(order, docs)
    BY OrdersEnumerate
  <2> QED BY <2>1, SqliteAnswers, ServerAnswers, ListsAre
<1> QED BY <1>1, <1>2

\* A search answers with documents that are there, each once and with its own
\* score, nearest first, and without a filter with the scores SqliteVectorStore
\* gives; filter_documents lists what matches.  FAISSVectorStore finds them by
\* their positions in the index (_rebuild_index, index.search), whatever
\* requests, failed writes and restarts came before, once its files are in step.
THEOREM SearchFindsWhatIsThere == Spec => []SearchFindsDocuments
<1>1. StoresInv /\ OrdersInv /\ [Next]_vars => OrdersInv'
  BY OrdersNext
<1>2. Spec => [](StoresInv /\ OrdersInv)
  BY Invariant, InitOrders, <1>1, PTL DEF Spec
<1>3. StoresInv /\ OrdersInv => SearchFindsDocuments
  BY SearchesAnswer
<1> QED BY <1>2, <1>3, PTL
=============================================================================
