--------------------------- MODULE HostKeysProofs ---------------------------
(***************************************************************************)
(* Theorems about SSH sessions and host keys, for any number of transports, *)
(* endpoints, keys and retries.                                             *)
(*                                                                         *)
(* The argument is about the copy a store checks and later writes back.     *)
(* Until another transport writes, the copy is the file; and whatever       *)
(* happens, it holds no key for the endpoint that is being recorded.        *)
(***************************************************************************)
EXTENDS HostKeysProperties, FiniteSetTheorems, TLAPS

-----------------------------------------------------------------------------
(* The inductive invariant.                                                *)

\* One key at most for every endpoint of a set of records.
Single(r) == \A e \in Endpoints : \A k, l \in r[e] : k = l

\* The copy a transport is about to write back.
CopyInv ==
    \A t \in Transports : pc[t] = "record" =>
        /\ Single(copy[t])
        /\ copy[t][ep[t]] = {}
        /\ t \notin stale => copy[t] = file

\* Only a copy about to be written can be stale, and only a transport between
\* or in commands has a session.
PlaceInv ==
    /\ \A t \in stale : pc[t] = "record"
    /\ \A t \in alive : pc[t] \in {"idle", "command"}

Inv == TypeOK /\ Single(file) /\ CopyInv /\ PlaceInv /\ SessionsMatchRecords

-----------------------------------------------------------------------------
(* How a call ends.                                                        *)

\* What the end of an attempt does to the control state, whichever way it
\* ends (Surfaces, Transient).
LEMMA EndOfAttempt ==
    ASSUME TypeOK, NEW t \in Transports, Surfaces(t) \/ Transient(t)
    PROVE  /\ \E p \in {"none", "idle", "dial"} : pc' = [pc EXCEPT ![t] = p]
           /\ tries' \in [Transports -> 0..RetryCount]
<1>1. CASE Surfaces(t)
  BY <1>1 DEF Surfaces, TypeOK
<1>2. CASE tries[t] < RetryCount /\ pc' = [pc EXCEPT ![t] = "dial"]
           /\ tries' = [tries EXCEPT ![t] = @ + 1]
  <2>1. tries[t] \in 0..RetryCount /\ RetryCount \in Nat
    BY HostKeysAssumption DEF TypeOK
  <2>2. tries[t] + 1 \in 0..RetryCount
    BY <1>2, <2>1
  <2> QED BY <1>2, <2>2 DEF TypeOK
<1> QED BY <1>1, <1>2 DEF Transient

\* A refused key ends the attempt too (Refused).
LEMMA RefusalEndsAttempt ==
    ASSUME NEW t \in Transports, Refused(t)
    PROVE  Surfaces(t) \/ Transient(t)
BY DEF Refused

\* What the check of a key decides (check): the key is on file, or the
\* endpoint has none and the key goes on to be recorded, or the attempt ends.
LEMMA CheckDecides ==
    ASSUME TypeOK, NEW t \in Transports, Check(t)
    PROVE  /\ tries' \in [Transports -> 0..RetryCount]
           /\ \E p \in {"none", "idle", "dial", "login", "record"} :
                 /\ pc' = [pc EXCEPT ![t] = p]
                 /\ p = "login" => key[t] \in file[ep[t]]
                 /\ p = "record" => file[ep[t]] = {}
<1>1. CASE key[t] \in file[ep[t]] /\ pc' = [pc EXCEPT ![t] = "login"] /\ UNCHANGED tries
  BY <1>1 DEF TypeOK
<1>2. CASE file[ep[t]] = {} /\ pc' = [pc EXCEPT ![t] = "record"] /\ UNCHANGED tries
  BY <1>2 DEF TypeOK
<1>3. CASE Refused(t)
  <2>1. Surfaces(t) \/ Transient(t)
    BY <1>3, RefusalEndsAttempt
  <2>2. PICK p \in {"none", "idle", "dial"} : pc' = [pc EXCEPT ![t] = p]
    BY <2>1, EndOfAttempt
  <2>3. p \notin {"login", "record"}
    BY <2>2
  <2>4. p \in {"none", "idle", "dial", "login", "record"}
    BY <2>2
  <2>5. tries' \in [Transports -> 0..RetryCount]
    BY <2>1, EndOfAttempt
  <2> QED BY <2>2, <2>3, <2>4, <2>5
<1> QED BY <1>1, <1>2, <1>3 DEF Check

-----------------------------------------------------------------------------
(* Steps that leave the store alone.                                       *)

\* The invariant survives a step that writes no record and moves one
\* transport without letting it accept a key.
LEMMA QuietStep ==
    ASSUME Inv, TypeOK', NEW t \in Transports,
           UNCHANGED <<ep, storeVars>>,
           \E p \in {"none", "idle", "dial", "check", "command"} : pc' = [pc EXCEPT ![t] = p],
           pc[t] # "record",
           alive' \subseteq alive,
           t \in alive' => pc'[t] \in {"idle", "command"},
           \A u \in Transports : u \in alive' \/ pc[u] = "login" => key'[u] = key[u]
    PROVE  Inv'
<1> USE DEF Inv, storeVars
<1>1. \A u \in Transports : u # t => pc'[u] = pc[u]
  BY DEF TypeOK
<1>2. pc'[t] \in {"none", "idle", "dial", "check", "command"}
  BY DEF TypeOK
<1>3. Single(file)'
  BY DEF Single
<1>4. CopyInv'
  BY <1>1, <1>2 DEF CopyInv, Single
<1>5. PlaceInv'
  BY <1>1, <1>2 DEF PlaceInv, TypeOK
<1>6. SessionsMatchRecords'
  <2> SUFFICES ASSUME ~raced, NEW u \in Transports, u \in Accepted'
               PROVE  file[ep[u]] = {key'[u]}
    BY DEF SessionsMatchRecords, Accepted, TypeOK
  <2>1. u \in alive' \/ pc'[u] = "login"
    BY DEF Accepted
  <2>2. u \in alive' \/ pc[u] = "login"
    BY <2>1, <1>1, <1>2
  <2>3. key'[u] = key[u] /\ u \in Accepted
    BY <2>2 DEF Accepted
  <2> QED BY <2>3 DEF SessionsMatchRecords
<1> QED BY <1>3, <1>4, <1>5, <1>6

-----------------------------------------------------------------------------
(* Types.                                                                  *)

\* Moving one transport keeps the control state well typed.
LEMMA MoveTypes ==
    ASSUME TypeOK, NEW t \in Transports, NEW p \in {"none", "idle"} \cup Working,
           pc' = [pc EXCEPT ![t] = p]
    PROVE  pc' \in [Transports -> {"none", "idle"} \cup Working]
BY DEF TypeOK

\* Every step of a call keeps the types.
LEMMA CallTypes ==
    ASSUME TypeOK, NEW t \in Transports, CallStep(t)
    PROVE  TypeOK'
<1> USE DEF storeVars, Working, Connecting
<1>1. CASE Answer(t)
  BY <1>1 DEF Answer, TypeOK
<1>2. CASE CommandFails(t)
  <2>1. Surfaces(t) \/ Transient(t)
    BY <1>2 DEF CommandFails
  <2>2. PICK p \in {"none", "idle", "dial"} : pc' = [pc EXCEPT ![t] = p]
    BY <2>1, EndOfAttempt
  <2>3. pc' \in [Transports -> {"none", "idle"} \cup Working] /\ tries' \in [Transports -> 0..RetryCount]
    BY <2>1, <2>2, MoveTypes, EndOfAttempt
  <2> QED BY <1>2, <2>3 DEF CommandFails, TypeOK
<1>3. CASE Unreachable(t)
  <2>1. Surfaces(t) \/ Transient(t)
    BY <1>3 DEF Unreachable
  <2>2. PICK p \in {"none", "idle", "dial"} : pc' = [pc EXCEPT ![t] = p]
    BY <2>1, EndOfAttempt
  <2>3. pc' \in [Transports -> {"none", "idle"} \cup Working] /\ tries' \in [Transports -> 0..RetryCount]
    BY <2>1, <2>2, MoveTypes, EndOfAttempt
  <2> QED BY <1>3, <2>3 DEF Unreachable, TypeOK
<1>4. CASE Handshake(t)
  <2>1. presents[ep[t]] \in Keys
    BY DEF TypeOK
  <2>2. key' \in [Transports -> Keys]
    BY <1>4, <2>1 DEF Handshake, TypeOK
  <2> QED BY <1>4, <2>2 DEF Handshake, TypeOK
<1>5. CASE VerifyHostKey(t)
  <2>1. Check(t)
    BY <1>5 DEF VerifyHostKey
  <2>2. PICK p \in {"none", "idle", "dial", "login", "record"} : pc' = [pc EXCEPT ![t] = p]
    BY <2>1, CheckDecides
  <2>3. pc' \in [Transports -> {"none", "idle"} \cup Working] /\ tries' \in [Transports -> 0..RetryCount]
    BY <2>1, <2>2, MoveTypes, CheckDecides
  <2>4. copy' \in [Transports -> Records]
    <3>1. Nothing \in Records
      BY DEF Nothing, Records
    <3>2. (IF pc'[t] = "record" THEN file ELSE Nothing) \in Records
      BY <3>1 DEF TypeOK
    <3> QED BY <1>5, <3>2 DEF VerifyHostKey, TypeOK
  <2> QED BY <1>5, <2>3, <2>4 DEF VerifyHostKey, TypeOK
<1>6. CASE RecordHostKey(t)
  <2>1. Written(t) \in Records
    BY DEF Written, TypeOK, Records
  <2>2. Nothing \in Records
    BY DEF Nothing, Records
  <2>3. copy' \in [Transports -> Records]
    BY <1>6, <2>2 DEF RecordHostKey, TypeOK
  <2>4. pc' \in [Transports -> {"none", "idle"} \cup Working]
    BY <1>6 DEF RecordHostKey, TypeOK
  <2>5. stale' \subseteq Transports /\ raced' \in BOOLEAN
    BY <1>6 DEF RecordHostKey
  <2> QED BY <1>6, <2>1, <2>3, <2>4, <2>5 DEF RecordHostKey, TypeOK
<1>7. CASE LoggedIn(t)
  BY <1>7 DEF LoggedIn, TypeOK
<1>8. CASE LoginFails(t)
  <2>1. PICK p \in {"none", "idle", "dial"} : pc' = [pc EXCEPT ![t] = p]
    BY <1>8, EndOfAttempt DEF LoginFails
  <2>2. pc' \in [Transports -> {"none", "idle"} \cup Working]
    BY <2>1, MoveTypes
  <2> QED BY <1>8, <2>2 DEF LoginFails, Surfaces, TypeOK
<1> QED BY <1>1, <1>2, <1>3, <1>4, <1>5, <1>6, <1>7, <1>8 DEF CallStep

\* The types hold at first and after every step.
LEMMA TypesAtStart == Init => TypeOK
<1> SUFFICES ASSUME Init PROVE TypeOK
  OBVIOUS
<1>1. Nothing \in Records
  BY DEF Nothing, Records
<1>2. PICK e \in Endpoints : ep = [t \in Transports |-> e]
  BY DEF Init
<1>3. PICK k \in Keys : key = [t \in Transports |-> k]
  BY DEF Init
<1>4. 0 \in 0..RetryCount
  BY HostKeysAssumption
<1> QED BY <1>1, <1>2, <1>3, <1>4 DEF Init, TypeOK

LEMMA TypesStay == TypeOK /\ [Next]_vars => TypeOK'
<1> SUFFICES ASSUME TypeOK, [Next]_vars PROVE TypeOK'
  OBVIOUS
<1> USE DEF storeVars, Working, Connecting
<1>1. ASSUME NEW t \in Transports, CallStep(t) PROVE TypeOK'
  BY <1>1, CallTypes
<1>2. ASSUME NEW t \in Transports, NEW e \in Endpoints, Open(t, e) PROVE TypeOK'
  <2>1. 0 \in 0..RetryCount
    BY HostKeysAssumption
  <2> QED BY <1>2, <2>1 DEF Open, TypeOK
<1>3. ASSUME NEW t \in Transports, Run(t) PROVE TypeOK'
  <2>1. 0 \in 0..RetryCount
    BY HostKeysAssumption
  <2>2. pc' \in [Transports -> {"none", "idle"} \cup Working]
    BY <1>3 DEF Run, TypeOK
  <2> QED BY <1>3, <2>1, <2>2 DEF Run, TypeOK
<1>4. ASSUME NEW t \in Transports, Close(t) PROVE TypeOK'
  BY <1>4 DEF Close, TypeOK
<1>5. ASSUME NEW t \in Transports, Drop(t) PROVE TypeOK'
  BY <1>5 DEF Drop, TypeOK
<1>6. ASSUME NEW e \in Endpoints, NEW k \in Keys, NewKey(e, k) PROVE TypeOK'
  BY <1>6 DEF NewKey, sessionVars, TypeOK
<1>7. CASE Restart
  <2>1. Nothing \in Records
    BY DEF Nothing, Records
  <2> QED BY <1>7, <2>1 DEF Restart, TypeOK
<1>8. CASE UNCHANGED vars
  BY <1>8 DEF vars, TypeOK
<1> QED BY <1>1, <1>2, <1>3, <1>4, <1>5, <1>6, <1>7, <1>8 DEF Next

\* Every variable keeps its type, and no call is tried more often than
\* retry_count allows (SSHClient.connect, SSHClient.run).
THEOREM TypeCorrect == Spec => []TypeOK
<1>1. Init => TypeOK
  BY TypesAtStart
<1>2. TypeOK /\ [Next]_vars => TypeOK'
  BY TypesStay
<1> QED BY <1>1, <1>2, PTL DEF Spec

-----------------------------------------------------------------------------
(* The steps of the store.                                                 *)

\* The check of a key: an accepted one is the endpoint's only record, and a
\* copy that will be written back is the file itself (check).
LEMMA CheckStep ==
    ASSUME Inv, NEW t \in Transports, VerifyHostKey(t)
    PROVE  Inv'
<1> USE DEF Inv
<1>1. PICK p \in {"none", "idle", "dial", "login", "record"} :
         /\ pc' = [pc EXCEPT ![t] = p]
         /\ p = "login" => key[t] \in file[ep[t]]
         /\ p = "record" => file[ep[t]] = {}
  BY CheckDecides DEF VerifyHostKey
<1>2. pc'[t] = p /\ \A u \in Transports : u # t => pc'[u] = pc[u]
  BY <1>1 DEF TypeOK
<1>3. TypeOK'
  BY CallTypes DEF CallStep
<1>4. pc[t] = "check" /\ UNCHANGED <<ep, key, alive, file, stale, raced>>
  BY DEF VerifyHostKey
<1>5. t \notin stale /\ t \notin alive
  BY <1>4 DEF PlaceInv
<1>6. copy'[t] = (IF p = "record" THEN file ELSE Nothing)
      /\ \A u \in Transports : u # t => copy'[u] = copy[u]
  BY <1>2 DEF VerifyHostKey, TypeOK
<1>7. Single(file)'
  BY <1>4 DEF Single
<1>8. CopyInv'
  <2> SUFFICES ASSUME NEW u \in Transports, pc'[u] = "record"
               PROVE  /\ Single(copy'[u])
                      /\ copy'[u][ep[u]] = {}
                      /\ u \notin stale => copy'[u] = file
    BY <1>4 DEF CopyInv, Single
  <2>1. CASE u = t
    BY <2>1, <1>1, <1>2, <1>6 DEF Single
  <2>2. CASE u # t
    BY <2>2, <1>2, <1>6 DEF CopyInv
  <2> QED BY <2>1, <2>2
<1>9. PlaceInv'
  <2>1. \A u \in stale : pc'[u] = "record"
    BY <1>2, <1>5 DEF PlaceInv, TypeOK
  <2>2. \A u \in alive : pc'[u] \in {"idle", "command"}
    BY <1>2, <1>5 DEF PlaceInv, TypeOK
  <2> QED BY <2>1, <2>2, <1>4 DEF PlaceInv
<1>10. SessionsMatchRecords'
  <2> SUFFICES ASSUME ~raced, NEW u \in Transports, u \in alive \/ pc'[u] = "login"
               PROVE  file[ep[u]] = {key[u]}
    BY <1>3, <1>4 DEF SessionsMatchRecords, Accepted, TypeOK
  <2>1. CASE u # t
    <3>1. u \in Accepted
      BY <2>1, <1>2 DEF Accepted
    <3> QED BY <3>1 DEF SessionsMatchRecords
  <2>2. CASE u = t
    <3>1. key[t] \in file[ep[t]]
      BY <2>2, <1>1, <1>2, <1>5
    <3>2. ep[t] \in Endpoints
      BY DEF TypeOK
    <3>3. \A k \in file[ep[t]] : k = key[t]
      BY <3>1, <3>2 DEF Single
    <3> QED BY <2>2, <3>1, <3>3
  <2> QED BY <2>1, <2>2
<1> QED BY <1>3, <1>7, <1>8, <1>9, <1>10

\* What record writes has one key for the transport's endpoint, and for any
\* other endpoint what the copy has (record).
LEMMA WrittenRecords ==
    ASSUME Inv, NEW t \in Transports, pc[t] = "record"
    PROVE  /\ Written(t)[ep[t]] = {key[t]}
           /\ \A e \in Endpoints : e # ep[t] => Written(t)[e] = copy[t][e]
           /\ Single(Written(t))
<1>1. copy[t] \in Records /\ ep[t] \in Endpoints
  BY DEF Inv, TypeOK
<1>2. copy[t][ep[t]] = {} /\ Single(copy[t])
  BY DEF Inv, CopyInv
<1>3. Written(t)[ep[t]] = {key[t]}
  BY <1>1, <1>2 DEF Written, Records
<1>4. \A e \in Endpoints : e # ep[t] => Written(t)[e] = copy[t][e]
  BY <1>1 DEF Written, Records
<1>5. Single(Written(t))
  BY <1>2, <1>3, <1>4 DEF Single
<1> QED BY <1>3, <1>4, <1>5

\* Writing a copy that is the file adds one record and disturbs no session:
\* nobody has accepted a key for an endpoint without a record (record).
LEMMA RecordStep ==
    ASSUME Inv, NEW t \in Transports, RecordHostKey(t)
    PROVE  Inv'
<1> USE DEF Inv
<1>1. TypeOK'
  BY CallTypes DEF CallStep
<1>2. /\ pc[t] = "record" /\ pc'[t] = "login"
      /\ \A u \in Transports : u # t => pc'[u] = pc[u] /\ copy'[u] = copy[u]
      /\ file' = Written(t)
      /\ UNCHANGED <<ep, key, alive>>
      /\ stale' = {u \in Transports \ {t} : pc[u] = "record"}
      /\ raced' = (raced \/ t \in stale)
  BY DEF RecordHostKey, TypeOK
<1>3. /\ Written(t)[ep[t]] = {key[t]}
      /\ \A e \in Endpoints : e # ep[t] => Written(t)[e] = copy[t][e]
      /\ Single(Written(t))
  BY <1>2, WrittenRecords
<1>4. Single(file)'
  BY <1>2, <1>3 DEF Single
<1>5. CopyInv'
  <2> SUFFICES ASSUME NEW u \in Transports, pc'[u] = "record"
               PROVE  /\ Single(copy'[u])
                      /\ copy'[u][ep[u]] = {}
                      /\ u \notin stale' => copy'[u] = file'
    BY <1>2 DEF CopyInv, Single
  <2>1. u # t
    BY <1>2
  <2>2. pc[u] = "record" /\ copy'[u] = copy[u] /\ u \in stale'
    BY <2>1, <1>2
  <2> QED BY <2>2 DEF CopyInv
<1>6. PlaceInv'
  <2>1. t \notin alive
    BY <1>2 DEF PlaceInv
  <2>2. \A u \in alive : pc'[u] \in {"idle", "command"}
    BY <2>1, <1>2 DEF PlaceInv, TypeOK
  <2>3. \A u \in stale' : pc'[u] = "record"
    BY <1>2
  <2> QED BY <2>2, <2>3, <1>2 DEF PlaceInv
<1>7. SessionsMatchRecords'
  <2> SUFFICES ASSUME ~raced, t \notin stale, NEW u \in Transports,
                      u \in alive \/ pc'[u] = "login"
               PROVE  file'[ep[u]] = {key[u]}
    BY <1>1, <1>2 DEF SessionsMatchRecords, Accepted, TypeOK
  <2>1. CASE u = t
    BY <2>1, <1>2, <1>3
  <2>2. CASE u # t
    <3>1. u \in Accepted
      BY <2>2, <1>2 DEF Accepted
    <3>2. file[ep[u]] = {key[u]}
      BY <3>1 DEF SessionsMatchRecords
    <3>3. copy[t] = file /\ file[ep[t]] = {}
      BY <1>2 DEF CopyInv
    <3>4. ep[u] # ep[t] /\ ep[u] \in Endpoints
      BY <3>2, <3>3 DEF TypeOK
    <3> QED BY <3>2, <3>3, <3>4, <1>2, <1>3
  <2> QED BY <2>1, <2>2
<1> QED BY <1>1, <1>4, <1>5, <1>6, <1>7

\* A session that comes up was accepted before (LoggedIn).
LEMMA LoginStep ==
    ASSUME Inv, NEW t \in Transports, LoggedIn(t)
    PROVE  Inv'
<1> USE DEF Inv
<1>1. TypeOK'
  BY CallTypes DEF CallStep
<1>2. /\ pc[t] = "login" /\ pc'[t] \in {"idle", "command"}
      /\ \A u \in Transports : u # t => pc'[u] = pc[u]
      /\ alive' = alive \cup {t}
      /\ UNCHANGED <<ep, key, file, copy, stale, raced>>
  BY DEF LoggedIn, storeVars, TypeOK
<1>3. Single(file)'
  BY <1>2 DEF Single
<1>4. CopyInv'
  BY <1>2 DEF CopyInv, Single
<1>5. PlaceInv'
  BY <1>2 DEF PlaceInv, TypeOK
<1>6. SessionsMatchRecords'
  <2> SUFFICES ASSUME ~raced, NEW u \in Transports, u \in Accepted'
               PROVE  file[ep[u]] = {key[u]}
    BY <1>1, <1>2 DEF SessionsMatchRecords, Accepted, TypeOK
  <2>1. u \in Accepted
    BY <1>2 DEF Accepted
  <2> QED BY <2>1 DEF SessionsMatchRecords
<1> QED BY <1>1, <1>3, <1>4, <1>5, <1>6

-----------------------------------------------------------------------------
(* The invariant holds.                                                    *)

LEMMA InvAtStart == Init => Inv
<1> SUFFICES ASSUME Init PROVE Inv
  OBVIOUS
<1>1. TypeOK
  BY TypesAtStart
<1>2. pc = [t \in Transports |-> "none"] /\ alive = {} /\ stale = {} /\ file = Nothing
  BY DEF Init
<1>3. Accepted = {}
  BY <1>2 DEF Accepted
<1>4. Single(file)
  BY <1>2 DEF Single, Nothing
<1>5. CopyInv
  BY <1>2 DEF CopyInv
<1>6. PlaceInv
  BY <1>2 DEF PlaceInv
<1>7. SessionsMatchRecords
  BY <1>3 DEF SessionsMatchRecords
<1> QED BY <1>1, <1>4, <1>5, <1>6, <1>7 DEF Inv

\* The steps of a call that write nothing and accept nothing, one by one.
LEMMA CallSteps ==
    ASSUME Inv, NEW t \in Transports, CallStep(t)
    PROVE  Inv'
<1>1. TypeOK /\ TypeOK'
  BY CallTypes DEF Inv
<1>2. t \in alive => pc[t] \in {"idle", "command"}
  BY DEF Inv, PlaceInv
<1>3. CASE Answer(t)
  <2>1. pc[t] = "command" /\ pc' = [pc EXCEPT ![t] = "idle"]
        /\ UNCHANGED <<ep, key, alive, storeVars>>
    BY <1>3 DEF Answer
  <2>2. pc'[t] = "idle"
    BY <2>1, <1>1 DEF TypeOK
  <2> QED BY <2>1, <2>2, <1>1, QuietStep
<1>4. CASE CommandFails(t)
  <2>1. pc[t] = "command" /\ UNCHANGED <<ep, key, storeVars>> /\ alive' = alive \ {t}
    BY <1>4 DEF CommandFails
  <2>2. PICK p \in {"none", "idle", "dial"} : pc' = [pc EXCEPT ![t] = p]
    BY <1>4, <1>1, EndOfAttempt DEF CommandFails
  <2> QED BY <2>1, <2>2, <1>1, QuietStep
<1>5. CASE Unreachable(t)
  <2>1. pc[t] \in {"dial", "login"} /\ UNCHANGED <<ep, key, alive, storeVars>>
    BY <1>5 DEF Unreachable
  <2>2. PICK p \in {"none", "idle", "dial"} : pc' = [pc EXCEPT ![t] = p]
    BY <1>5, <1>1, EndOfAttempt DEF Unreachable
  <2>3. t \notin alive'
    BY <2>1, <1>2
  <2> QED BY <2>1, <2>2, <2>3, <1>1, QuietStep
<1>6. CASE Handshake(t)
  <2>1. pc[t] = "dial" /\ pc' = [pc EXCEPT ![t] = "check"] /\ UNCHANGED <<ep, alive, storeVars>>
    BY <1>6 DEF Handshake
  <2>2. t \notin alive'
    BY <2>1, <1>2
  <2>3. \A u \in Transports : u \in alive' \/ pc[u] = "login" => key'[u] = key[u]
    BY <1>6, <2>1, <2>2, <1>1 DEF Handshake, TypeOK
  <2> QED BY <2>1, <2>2, <2>3, <1>1, QuietStep
<1>7. CASE VerifyHostKey(t)
  BY <1>7, CheckStep
<1>8. CASE RecordHostKey(t)
  BY <1>8, RecordStep
<1>9. CASE LoggedIn(t)
  BY <1>9, LoginStep
<1>10. CASE LoginFails(t)
  <2>1. pc[t] = "login" /\ UNCHANGED <<ep, key, alive, storeVars>>
    BY <1>10 DEF LoginFails
  <2>2. PICK p \in {"none", "idle", "dial"} : pc' = [pc EXCEPT ![t] = p]
    BY <1>10, <1>1, EndOfAttempt DEF LoginFails
  <2>3. t \notin alive'
    BY <2>1, <1>2
  <2> QED BY <2>1, <2>2, <2>3, <1>1, QuietStep
<1> QED BY <1>3, <1>4, <1>5, <1>6, <1>7, <1>8, <1>9, <1>10 DEF CallStep

LEMMA InvStays == Inv /\ [Next]_vars => Inv'
<1> SUFFICES ASSUME Inv, [Next]_vars PROVE Inv'
  OBVIOUS
<1>1. TypeOK /\ TypeOK'
  BY TypesStay DEF Inv
<1>2. ASSUME NEW t \in Transports, CallStep(t) PROVE Inv'
  BY <1>2, CallSteps
<1>3. ASSUME NEW t \in Transports, NEW e \in Endpoints, Open(t, e) PROVE Inv'
  <2>1. pc[t] = "none" /\ pc' = [pc EXCEPT ![t] = "dial"]
        /\ ep' = [ep EXCEPT ![t] = e] /\ UNCHANGED <<key, alive, storeVars>>
    BY <1>3 DEF Open
  <2>2. t \notin alive /\ t \notin stale /\ pc'[t] = "dial"
    BY <2>1, <1>1 DEF Inv, PlaceInv, TypeOK
  <2>3. \A u \in Transports : u # t => pc'[u] = pc[u] /\ ep'[u] = ep[u]
    BY <2>1, <1>1 DEF TypeOK
  <2>4. UNCHANGED <<key, alive, file, copy, stale, raced>>
    BY <2>1 DEF storeVars
  <2>5. Single(file)'
    BY <2>4 DEF Inv, Single
  <2>6. CopyInv'
    BY <2>2, <2>3, <2>4 DEF Inv, CopyInv, Single
  <2>7. PlaceInv'
    BY <2>2, <2>3, <2>4, <1>1 DEF Inv, PlaceInv, TypeOK
  <2>8. SessionsMatchRecords'
    <3> SUFFICES ASSUME ~raced, NEW u \in Transports, u \in Accepted'
                 PROVE  file[ep'[u]] = {key[u]}
      BY <1>1, <2>4 DEF SessionsMatchRecords, Accepted, TypeOK
    <3>1. u # t /\ u \in Accepted
      BY <2>2, <2>3, <2>4 DEF Accepted
    <3> QED BY <3>1, <2>3 DEF Inv, SessionsMatchRecords
  <2> QED BY <1>1, <2>5, <2>6, <2>7, <2>8 DEF Inv
<1>4. ASSUME NEW t \in Transports, Run(t) PROVE Inv'
  <2>1. pc[t] = "idle" /\ UNCHANGED <<ep, key, alive, storeVars>>
        /\ pc' = [pc EXCEPT ![t] = IF t \in alive THEN "command" ELSE "dial"]
    BY <1>4 DEF Run
  <2>2. t \in alive' => pc'[t] \in {"idle", "command"}
    BY <2>1, <1>1 DEF TypeOK
  <2>3. \E p \in {"none", "idle", "dial", "check", "command"} : pc' = [pc EXCEPT ![t] = p]
    BY <2>1
  <2> QED BY <2>1, <2>2, <2>3, <1>1, QuietStep
<1>5. ASSUME NEW t \in Transports, Close(t) PROVE Inv'
  <2>1. pc[t] = "idle" /\ UNCHANGED <<ep, key, storeVars>>
        /\ pc' = [pc EXCEPT ![t] = "none"] /\ alive' = alive \ {t}
    BY <1>5 DEF Close
  <2> QED BY <2>1, <1>1, QuietStep
<1>6. ASSUME NEW t \in Transports, Drop(t) PROVE Inv'
  <2>1. pc[t] \in {"idle", "command"} /\ UNCHANGED <<ep, key, storeVars>>
        /\ pc' = [pc EXCEPT ![t] = pc[t]] /\ alive' = alive \ {t}
    BY <1>6, <1>1 DEF Drop, Inv, PlaceInv, TypeOK
  <2> QED BY <2>1, <1>1, QuietStep
<1>7. ASSUME NEW e \in Endpoints, NEW k \in Keys, NewKey(e, k) PROVE Inv'
  <2>1. UNCHANGED <<pc, ep, key, alive, file, copy, stale, raced>>
    BY <1>7 DEF NewKey, sessionVars, storeVars
  <2> QED BY <2>1, <1>1 DEF Inv, Single, CopyInv, PlaceInv, SessionsMatchRecords, Accepted
<1>8. CASE Restart
  <2>1. /\ pc' = [t \in Transports |-> "none"] /\ alive' = {} /\ stale' = {}
        /\ file' = file
    BY <1>8 DEF Restart
  <2>2. Accepted' = {}
    BY <2>1 DEF Accepted
  <2> QED BY <1>1, <2>1, <2>2 DEF Inv, Single, CopyInv, PlaceInv, SessionsMatchRecords
<1>9. CASE UNCHANGED vars
  BY <1>9, <1>1 DEF vars, Inv, Single, CopyInv, PlaceInv, SessionsMatchRecords, Accepted
<1> QED BY <1>2, <1>3, <1>4, <1>5, <1>6, <1>7, <1>8, <1>9 DEF Next

LEMMA InvHolds == Spec => []Inv
<1>1. Init => Inv
  BY InvAtStart
<1>2. Inv /\ [Next]_vars => Inv'
  BY InvStays
<1> QED BY <1>1, <1>2, PTL DEF Spec

-----------------------------------------------------------------------------
(* The properties.                                                         *)

\* A set whose members are all equal has one member at most.
LEMMA OneMember ==
    ASSUME NEW S, \A k, l \in S : k = l
    PROVE  Cardinality(S) <= 1
<1>1. CASE S = {}
  BY <1>1, FS_EmptySet
<1>2. CASE \E k \in S : S = {k}
  BY <1>2, FS_Singleton
<1> QED BY <1>1, <1>2

\* The file never holds two keys for one endpoint, however first contacts
\* overlap (record, _write_locked).
THEOREM OneKeyOnRecord == Spec => []OneKeyPerEndpoint
<1>1. Inv => OneKeyPerEndpoint
  BY OneMember DEF Inv, Single, OneKeyPerEndpoint
<1> QED BY <1>1, InvHolds, PTL

\* Until a stale copy is written, every session talks to the router on
\* record (verify_host_key, SSHClient.run).
THEOREM SessionsAreOnRecord == Spec => []SessionsMatchRecords
<1>1. Inv => SessionsMatchRecords
  BY DEF Inv
<1> QED BY <1>1, InvHolds, PTL

\* Nothing but a stale copy undoes a record (_write_locked).
THEOREM RecordsOutliveTheRest == Spec => LostOnlyByStaleCopies
<1> DEFINE Kept == (\A e \in Endpoints : file[e] \subseteq file'[e]) \/ raced'
<1>1. Inv /\ [Next]_vars => [Kept]_vars
  <2> SUFFICES ASSUME Inv, Next PROVE Kept
    OBVIOUS
  <2>1. ASSUME NEW t \in Transports, RecordHostKey(t) PROVE Kept
    <3>1. pc[t] = "record" /\ file' = Written(t) /\ raced' = (raced \/ t \in stale)
      BY <2>1 DEF RecordHostKey
    <3>2. CASE t \in stale
      BY <3>1, <3>2
    <3>3. CASE t \notin stale
      <4>1. copy[t] = file /\ file[ep[t]] = {}
        BY <3>1, <3>3 DEF Inv, CopyInv
      <4>2. \A e \in Endpoints : file[e] \subseteq Written(t)[e]
        BY <3>1, <4>1, WrittenRecords
      <4> QED BY <3>1, <4>2
    <3> QED BY <3>2, <3>3
  <2>2. ASSUME file' = file PROVE Kept
    BY <2>2
  <2>3. ASSUME NEW t \in Transports, CallStep(t) PROVE Kept
    BY <2>1, <2>2, <2>3 DEF CallStep, Answer, CommandFails, Unreachable, Handshake,
       VerifyHostKey, LoggedIn, LoginFails, storeVars
  <2>4. ASSUME NEW t \in Transports, NEW e \in Endpoints, Open(t, e) PROVE Kept
    BY <2>2, <2>4 DEF Open, storeVars
  <2>5. ASSUME NEW t \in Transports, Run(t) \/ Close(t) \/ Drop(t) PROVE Kept
    BY <2>2, <2>5 DEF Run, Close, Drop, storeVars
  <2>6. ASSUME NEW e \in Endpoints, NEW k \in Keys, NewKey(e, k) PROVE Kept
    BY <2>2, <2>6 DEF NewKey, storeVars
  <2>7. CASE Restart
    BY <2>2, <2>7 DEF Restart
  <2> QED BY <2>3, <2>4, <2>5, <2>6, <2>7 DEF Next
<1>2. Spec => [][Kept]_vars
  BY <1>1, InvHolds, PTL DEF Spec
<1> QED BY <1>2 DEF LostOnlyByStaleCopies
=============================================================================
