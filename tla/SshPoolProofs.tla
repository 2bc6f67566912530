--------------------------- MODULE SshPoolProofs ---------------------------
(***************************************************************************)
(* Proofs of the connection pool's safety properties, for every set of      *)
(* callers and connections, every pool size and any number of               *)
(* cancellations.                                                          *)
(*                                                                         *)
(* The invariant has two halves that meet only in the control state: the    *)
(* semaphore (who holds a permit, who is queued), and the connections (who  *)
(* owns one).  An idle connection needs no permit, and what bounds idle     *)
(* and used connections together is that a caller opens a connection only   *)
(* when none is idle: the users alone are then at most the holders.         *)
(***************************************************************************)
EXTENDS SshPoolProperties, FiniteSetTheorems, SequenceTheorems, TLAPS

\* The stages of a caller that works on a connection.
Working == {"validating", "discarding", "connecting", "leased", "closing"}

Links == {"none", "opening", "open", "dead"}

\* Callers that own a permit when the callers stand at stage.
HoldersAt(stage) == {t \in Callers : stage[t] \notin {"out", "waiting"}}

\* A queue holds a caller once, and only callers that wait.
Queued(q, stage) ==
    /\ \A i, j \in 1..Len(q) : q[i] = q[j] => i = j
    /\ \A i \in 1..Len(q) : stage[q[i]] = "waiting"

SemaphoreInv ==
    /\ permits \in 0..PoolSize
    /\ waiting \in Seq(Callers)
    /\ pc \in [Callers -> Stages]
    /\ Queued(waiting, pc)
    /\ permits + Cardinality(Holders) <= PoolSize
    /\ NoLostWakeup

\* A caller works on a connection exactly when it stands at such a stage.
Handed == \A t \in Callers : hand[t] # NoConn <=> pc[t] \in Working

\* A connection that somebody owns has a number that is not free.
Linked(links) ==
    /\ \A i \in 1..Len(idle) : links[idle[i]] # "none"
    /\ \A t \in Users : links[hand[t]] # "none"
    /\ draining # NoConn => links[draining] # "none"

ConnType ==
    /\ idle \in Seq(Conns)
    /\ closed \in BOOLEAN
    /\ draining \in Conns \cup {NoConn}
    /\ hand \in [Callers -> Conns \cup {NoConn}]
    /\ link \in [Conns -> Links]

Bounded == Len(idle) + Cardinality(Users) <= PoolSize

Owned == ConnType /\ OneOwner /\ Linked(link)

ConnInv == Owned /\ ClosedPoolIsEmpty /\ Bounded

OtherType == probes \in [Callers -> BOOLEAN] /\ cancels \in 0..MaxCancels

PoolInv == SemaphoreInv /\ ConnInv /\ Handed /\ OtherType

-----------------------------------------------------------------------------
(* Counting.                                                               *)

LEMMA CallersCount ==
    ASSUME NEW S \in SUBSET Callers
    PROVE  IsFiniteSet(S) /\ Cardinality(S) \in Nat
BY PoolAssumption, FS_Subset, FS_CardinalityType

\* A caller that moves from one stage to another.
LEMMA HoldersMove ==
    ASSUME NEW stage \in [Callers -> Stages], NEW t \in Callers, NEW s \in Stages
    PROVE  Cardinality(HoldersAt([stage EXCEPT ![t] = s])) =
             Cardinality(HoldersAt(stage))
               + (IF s \in {"out", "waiting"} THEN 0 ELSE 1)
               - (IF stage[t] \in {"out", "waiting"} THEN 0 ELSE 1)
<1> DEFINE H == HoldersAt(stage)
           G == HoldersAt([stage EXCEPT ![t] = s])
           n == Cardinality(H)
<1>1. IsFiniteSet(H) /\ n \in Nat
  BY CallersCount DEF HoldersAt
<1>2. G = IF s \in {"out", "waiting"} THEN H \ {t} ELSE H \cup {t}
  BY DEF HoldersAt
<1>3. t \in H <=> stage[t] \notin {"out", "waiting"}
  BY DEF HoldersAt
<1>4. Cardinality(H \ {t}) = IF t \in H THEN n - 1 ELSE n
  BY <1>1, FS_RemoveElement
<1>5. Cardinality(H \cup {t}) = IF t \in H THEN n ELSE n + 1
  BY <1>1, FS_AddElement
<1>6. SUFFICES Cardinality(G) = n + (IF s \in {"out", "waiting"} THEN 0 ELSE 1)
                                  - (IF stage[t] \in {"out", "waiting"} THEN 0 ELSE 1)
  OBVIOUS
<1> HIDE DEF H, G, n
<1>7. CASE s \in {"out", "waiting"}
  <2>1. Cardinality(G) = IF t \in H THEN n - 1 ELSE n
    BY <1>2, <1>4, <1>7
  <2> QED BY <1>1, <1>3, <1>7, <2>1
<1>8. CASE s \notin {"out", "waiting"}
  <2>1. Cardinality(G) = IF t \in H THEN n ELSE n + 1
    BY <1>2, <1>5, <1>8
  <2> QED BY <1>1, <1>3, <1>8, <2>1
<1> QED BY <1>7, <1>8

\* A caller that takes or gives up a connection.
LEMMA UsersMove ==
    ASSUME ConnType, NEW t \in Callers, NEW c \in Conns \cup {NoConn},
           hand' = [hand EXCEPT ![t] = c]
    PROVE  /\ Users' = IF c = NoConn THEN Users \ {t} ELSE Users \cup {t}
           /\ Cardinality(Users') =
                Cardinality(Users) + (IF c = NoConn THEN 0 ELSE 1)
                  - (IF hand[t] = NoConn THEN 0 ELSE 1)
<1>1. IsFiniteSet(Users) /\ Cardinality(Users) \in Nat
  BY CallersCount DEF Users
<1>2. Users' = IF c = NoConn THEN Users \ {t} ELSE Users \cup {t}
  BY DEF Users, ConnType
<1>3. t \in Users <=> hand[t] # NoConn
  BY DEF Users
<1>4. Cardinality(Users \ {t}) =
        IF t \in Users THEN Cardinality(Users) - 1 ELSE Cardinality(Users)
  BY <1>1, FS_RemoveElement
<1>5. Cardinality(Users \cup {t}) =
        IF t \in Users THEN Cardinality(Users) ELSE Cardinality(Users) + 1
  BY <1>1, FS_AddElement
<1>6. CASE c = NoConn
  BY <1>1, <1>2, <1>3, <1>4, <1>6
<1>7. CASE c # NoConn
  BY <1>1, <1>2, <1>3, <1>5, <1>7
<1> QED BY <1>2, <1>6, <1>7

-----------------------------------------------------------------------------
(* The semaphore.                                                          *)

\* What is left of a queue after its first k members.
LEMMA RestOfQueue ==
    ASSUME NEW q \in Seq(Callers), NEW k \in 0..Len(q)
    PROVE  /\ SubSeq(q, k + 1, Len(q)) \in Seq(Callers)
           /\ Len(SubSeq(q, k + 1, Len(q))) = Len(q) - k
           /\ \A i \in 1..Len(q) - k : SubSeq(q, k + 1, Len(q))[i] = q[i + k]
<1>1. Len(q) \in Nat /\ k \in Nat /\ k + 1 \in Int /\ Len(q) \in Int
  BY LenProperties
<1>2. \A i \in k + 1 .. Len(q) : q[i] \in Callers
  BY <1>1, LenProperties
<1>3. /\ SubSeq(q, k + 1, Len(q)) \in Seq(Callers)
      /\ Len(SubSeq(q, k + 1, Len(q))) =
           IF k + 1 <= Len(q) THEN Len(q) - (k + 1) + 1 ELSE 0
      /\ \A i \in 1 .. Len(q) - (k + 1) + 1 :
            SubSeq(q, k + 1, Len(q))[i] = q[(k + 1) + i - 1]
  BY <1>1, <1>2, SubSeqProperties
<1> QED BY <1>1, <1>3

\* The callers woken by PassOn are at most the permits handed on.
LEMMA WokenCount ==
    ASSUME NEW q \in Seq(Callers), NEW k \in 0..Len(q)
    PROVE  /\ {q[i] : i \in 1..k} \in SUBSET Callers
           /\ Cardinality({q[i] : i \in 1..k}) <= k
<1> DEFINE W == {q[i] : i \in 1..k}
           f == [i \in 1..k |-> q[i]]
<1>1. k \in Nat /\ \A i \in 1..k : i \in 1..Len(q) /\ q[i] \in Callers
  BY LenProperties
<1>2. f \in Surjection(1..k, W)
  BY DEF Surjection
<1>3. ExistsSurjection(1..k, W)
  BY <1>2 DEF ExistsSurjection
<1>4. Cardinality(W) <= k
  BY <1>1, <1>3, FS_SurjCardinalityBound
<1> QED BY <1>1, <1>4

\* What the hand-over of permits does (_wake_up_next), told without the
\* queue: some waiting callers are woken, at most one for each permit.
LEMMA PassOnEffect ==
    ASSUME NEW q \in Seq(Callers), NEW p \in Nat, NEW n \in Nat, n <= p,
           NEW stage \in [Callers -> Stages], Queued(q, stage),
           PassOn(q, p, n, stage)
    PROVE  /\ permits' \in 0..p
           /\ waiting' \in Seq(Callers)
           /\ pc' \in [Callers -> Stages]
           /\ Queued(waiting', pc')
           /\ \A u \in Callers : stage[u] # "waiting" => pc'[u] = stage[u]
           /\ \A u \in Callers : pc'[u] \in {stage[u], "woken"}
           /\ permits' + Cardinality(Holders') <= p + Cardinality(HoldersAt(stage))
           /\ n > 0 /\ q # << >> => \E u \in Callers : pc'[u] = "woken"
           /\ waiting' # << >> => permits' = p - n
<1> DEFINE k == IF n <= Len(q) THEN n ELSE Len(q)
           W == {q[i] : i \in 1..k}
<1>1. /\ Len(q) \in Nat /\ k \in 0..Len(q) /\ k <= n
      /\ \A i \in 1..Len(q) : q[i] \in Callers
  BY LenProperties
<1>2. /\ permits' = p - k
      /\ waiting' = SubSeq(q, k + 1, Len(q))
      /\ pc' = [u \in Callers |-> IF u \in W THEN "woken" ELSE stage[u]]
  BY DEF PassOn
<1>3. W \in SUBSET Callers /\ Cardinality(W) <= k
  BY <1>1, WokenCount
<1>4. /\ waiting' \in Seq(Callers)
      /\ Len(waiting') = Len(q) - k
      /\ \A i \in 1..Len(waiting') : waiting'[i] = q[i + k] /\ i + k \in 1..Len(q)
  <2> HIDE DEF k
  <2>1. /\ waiting' \in Seq(Callers)
        /\ Len(waiting') = Len(q) - k
        /\ \A i \in 1..Len(q) - k : waiting'[i] = q[i + k]
    BY <1>1, <1>2, RestOfQueue
  <2> QED BY <1>1, <2>1
<1>5. \A u \in W : stage[u] = "waiting"
  BY <1>1 DEF Queued
<1> HIDE DEF k
<1>6. Queued(waiting', pc')
  <2>1. \A i, j \in 1..Len(waiting') : waiting'[i] = waiting'[j] => i = j
    BY <1>1, <1>4 DEF Queued
  <2>2. \A i \in 1..Len(waiting') : waiting'[i] \notin W
    <3> SUFFICES ASSUME NEW i \in 1..Len(waiting'), NEW j \in 1..k, waiting'[i] = q[j]
                 PROVE  FALSE
      OBVIOUS
    <3> QED BY <1>1, <1>4 DEF Queued
  <2>3. \A i \in 1..Len(waiting') : pc'[waiting'[i]] = "waiting"
    <3> SUFFICES ASSUME NEW i \in 1..Len(waiting') PROVE pc'[waiting'[i]] = "waiting"
      OBVIOUS
    <3>1. waiting'[i] \in Callers /\ waiting'[i] \notin W
      BY <1>1, <1>4, <2>2
    <3>2. stage[waiting'[i]] = "waiting"
      BY <1>4 DEF Queued
    <3> HIDE DEF W
    <3> QED BY <1>2, <3>1, <3>2
  <2> HIDE DEF W
  <2> QED BY <2>1, <2>3 DEF Queued
<1> HIDE DEF W
<1>7. Holders' = HoldersAt(stage) \cup W
  BY <1>2, <1>3, <1>5 DEF Holders, HoldersAt
<1>8. Cardinality(Holders') <= Cardinality(HoldersAt(stage)) + k
  <2>1. IsFiniteSet(HoldersAt(stage)) /\ Cardinality(HoldersAt(stage)) \in Nat
    BY CallersCount DEF HoldersAt
  <2>2. IsFiniteSet(W) /\ Cardinality(W) \in Nat
    BY <1>3, CallersCount
  <2>3. Cardinality(HoldersAt(stage) \cap W) \in Nat
    BY <1>3, CallersCount DEF HoldersAt
  <2>4. Cardinality(HoldersAt(stage) \cup W) =
            Cardinality(HoldersAt(stage)) + Cardinality(W)
              - Cardinality(HoldersAt(stage) \cap W)
    BY <2>1, <2>2, FS_Union
  <2> QED BY <1>1, <1>3, <1>7, <2>1, <2>2, <2>3, <2>4
<1>9. permits' + Cardinality(Holders') <= p + Cardinality(HoldersAt(stage))
  <2>1. Cardinality(Holders') \in Nat /\ Cardinality(HoldersAt(stage)) \in Nat
    BY <1>3, <1>7, CallersCount DEF HoldersAt
  <2> QED BY <1>1, <1>2, <1>8, <2>1
<1>10. n > 0 /\ q # << >> => \E u \in Callers : pc'[u] = "woken"
  <2> SUFFICES ASSUME n > 0, q # << >> PROVE q[1] \in Callers /\ pc'[q[1]] = "woken"
    OBVIOUS
  <2>1. Len(q) > 0
    BY EmptySeq
  <2>2. 1 \in 1..k
    BY <1>1, <2>1 DEF k
  <2> QED BY <1>1, <1>2, <2>2 DEF W
<1>11. waiting' # << >> => permits' = p - n
  <2> SUFFICES ASSUME waiting' # << >> PROVE k = n
    BY <1>2
  <2>1. Len(waiting') > 0
    BY <1>4, EmptySeq
  <2> QED BY <1>1, <1>4, <2>1 DEF k
<1>12. permits' \in 0..p
  BY <1>1, <1>2
<1>13. /\ pc' \in [Callers -> Stages]
       /\ \A u \in Callers : stage[u] # "waiting" => pc'[u] = stage[u]
       /\ \A u \in Callers : pc'[u] \in {stage[u], "woken"}
  BY <1>2, <1>5 DEF Stages
<1> QED BY <1>4, <1>6, <1>9, <1>10, <1>11, <1>12, <1>13

\* What a hand-over does to the rest of the pool: caller t stands at s, and
\* every other caller where it stood, or woken.
Passed(t, s) ==
    /\ pc'[t] = s
    /\ \A u \in Callers \ {t} : pc'[u] \in {pc[u], "woken"}
    /\ \A u \in Callers \ {t} : pc[u] # "waiting" => pc'[u] = pc[u]

LEMMA SemaphorePasses ==
    ASSUME SemaphoreInv, NEW t \in Callers, NEW s \in Stages \ {"waiting"},
           NEW q \in Seq(Callers), NEW p \in Nat, NEW n \in Nat, n <= p, n > 0 \/ n = p,
           Queued(q, [pc EXCEPT ![t] = s]),
           p + Cardinality(HoldersAt([pc EXCEPT ![t] = s])) <= PoolSize,
           PassOn(q, p, n, [pc EXCEPT ![t] = s])
    PROVE  SemaphoreInv' /\ Passed(t, s)
<1> DEFINE stage == [pc EXCEPT ![t] = s]
<1>1. stage \in [Callers -> Stages] /\ Queued(q, stage) /\ PassOn(q, p, n, stage)
  BY DEF SemaphoreInv
<1>2. /\ permits' \in 0..p
      /\ waiting' \in Seq(Callers)
      /\ pc' \in [Callers -> Stages]
      /\ Queued(waiting', pc')
      /\ \A u \in Callers : stage[u] # "waiting" => pc'[u] = stage[u]
      /\ \A u \in Callers : pc'[u] \in {stage[u], "woken"}
      /\ permits' + Cardinality(Holders') <= p + Cardinality(HoldersAt(stage))
      /\ n > 0 /\ q # << >> => \E u \in Callers : pc'[u] = "woken"
      /\ waiting' # << >> => permits' = p - n
  <2> HIDE DEF stage
  <2> QED BY <1>1, PassOnEffect
<1>3. stage[t] = s /\ \A u \in Callers \ {t} : stage[u] = pc[u]
  BY DEF SemaphoreInv
<1>4. Passed(t, s)
  BY <1>2, <1>3 DEF Passed
<1>5. Cardinality(HoldersAt(stage)) \in Nat /\ Cardinality(Holders') \in Nat
  BY CallersCount DEF HoldersAt, Holders
<1>6. permits' + Cardinality(Holders') <= PoolSize /\ permits' \in 0..PoolSize
  <2> HIDE DEF stage
  <2>1. PoolSize \in Nat /\ p + Cardinality(HoldersAt(stage)) <= PoolSize
    BY PoolAssumption DEF stage
  <2> QED BY <1>2, <1>5, <2>1
<1>7. NoLostWakeup'
  <2> SUFFICES ASSUME waiting' # << >>, permits' > 0
               PROVE  \E u \in Callers : pc'[u] = "woken"
    BY DEF NoLostWakeup
  <2>1. permits' = p - n
    BY <1>2
  <2>2. n > 0
    BY <2>1
  <2>3. q # << >>
    <3> SUFFICES ASSUME q = << >> PROVE FALSE
      OBVIOUS
    <3>1. n \in Nat \ {0} /\ Len(q) = 0 /\ waiting' = SubSeq(q, 1, 0)
      BY <2>2, EmptySeq DEF PassOn
    <3>2. waiting' = << >>
      BY <3>1, SubSeqEmpty
    <3> QED BY <3>2
  <2> QED BY <1>2, <2>2, <2>3
<1> QED BY <1>2, <1>4, <1>6, <1>7 DEF SemaphoreInv

\* release (ReleasePermit).
LEMMA SemaphoreReleases ==
    ASSUME SemaphoreInv, NEW t \in Callers, pc[t] \in Working, ReleasePermit(t)
    PROVE  SemaphoreInv' /\ Passed(t, "out")
<1> DEFINE stage == [pc EXCEPT ![t] = "out"]
<1>1. /\ permits \in Nat /\ waiting \in Seq(Callers) /\ pc \in [Callers -> Stages]
      /\ PoolSize \in Nat /\ permits + Cardinality(Holders) <= PoolSize
  BY PoolAssumption DEF SemaphoreInv
<1>2. pc[t] \notin {"out", "waiting", "woken"}
  BY DEF Working
<1>3. Queued(waiting, stage)
  <2>1. \A i \in 1..Len(waiting) : waiting[i] \in Callers /\ waiting[i] # t
    BY <1>1, <1>2, LenProperties DEF SemaphoreInv, Queued
  <2> QED BY <1>1, <2>1 DEF SemaphoreInv, Queued
<1>4. Cardinality(HoldersAt(stage)) = Cardinality(Holders) - 1
  <2>1. HoldersAt(pc) = Holders /\ Cardinality(Holders) \in Nat
    BY CallersCount DEF HoldersAt, Holders
  <2>2. Cardinality(HoldersAt(stage)) = Cardinality(HoldersAt(pc)) + 0 - 1
    BY <1>1, <1>2, HoldersMove DEF Stages
  <2> QED BY <2>1, <2>2
<1>5. permits + 1 + Cardinality(HoldersAt(stage)) <= PoolSize
  <2>1. Cardinality(Holders) \in Nat
    BY CallersCount DEF Holders
  <2> HIDE DEF stage
  <2> QED BY <1>1, <1>4, <2>1
<1>6. PassOn(waiting, permits + 1, 1, stage)
  BY DEF ReleasePermit
<1>7. /\ permits + 1 \in Nat /\ 1 \in Nat /\ 1 <= permits + 1
      /\ 1 > 0 \/ 1 = permits + 1
      /\ "out" \in Stages \ {"waiting"}
  BY <1>1 DEF Stages
<1> QED BY <1>1, <1>3, <1>5, <1>6, <1>7, SemaphorePasses, Zenon

\* The end of an acquire (Share), by a caller that goes on with q queued and
\* p permits left.
LEMMA SemaphoreShares ==
    ASSUME SemaphoreInv, NEW t \in Callers, NEW s \in Stages \ {"waiting"},
           NEW q \in Seq(Callers), NEW p \in Nat, Queued(q, pc),
           \A i \in 1..Len(q) : q[i] # t,
           p + Cardinality(HoldersAt([pc EXCEPT ![t] = s])) <= PoolSize,
           Share(q, p, t, s)
    PROVE  SemaphoreInv' /\ Passed(t, s)
<1>1. pc \in [Callers -> Stages]
  BY DEF SemaphoreInv
<1>2. \A i \in 1..Len(q) : q[i] \in Callers
  BY LenProperties
<1>3. Queued(q, [pc EXCEPT ![t] = s])
  BY <1>1, <1>2 DEF Queued
<1>4. PassOn(q, p, p, [pc EXCEPT ![t] = s])
  BY DEF Share
<1> QED BY <1>3, <1>4, SemaphorePasses

\* A caller goes on without touching the semaphore, or gives its permit up.
LEMMA SemaphoreStays ==
    ASSUME SemaphoreInv, NEW t \in Callers, NEW s \in Working \cup {"out"},
           pc[t] \in Working, pc' = [pc EXCEPT ![t] = s], UNCHANGED <<permits, waiting>>
    PROVE  SemaphoreInv' /\ Passed(t, s)
<1>1. /\ permits \in 0..PoolSize /\ waiting \in Seq(Callers) /\ pc \in [Callers -> Stages]
      /\ PoolSize \in Nat /\ permits + Cardinality(Holders) <= PoolSize
  BY PoolAssumption DEF SemaphoreInv
<1>2. pc[t] \notin {"out", "waiting", "woken"} /\ s \in Stages \ {"waiting", "woken"}
  BY DEF Working, Stages
<1>3. pc' \in [Callers -> Stages]
  BY <1>1, <1>2
<1>4. Queued(waiting, pc')
  <2>1. \A i \in 1..Len(waiting) : waiting[i] \in Callers /\ waiting[i] # t
    BY <1>1, <1>2, LenProperties DEF SemaphoreInv, Queued
  <2> QED BY <1>1, <2>1 DEF SemaphoreInv, Queued
<1>5. Cardinality(Holders') <= Cardinality(Holders)
  <2>1. /\ HoldersAt(pc) = Holders /\ Cardinality(Holders) \in Nat
        /\ Holders' = HoldersAt([pc EXCEPT ![t] = s])
    BY CallersCount DEF HoldersAt, Holders
  <2>2. Cardinality(HoldersAt([pc EXCEPT ![t] = s])) =
          Cardinality(HoldersAt(pc)) + (IF s \in {"out", "waiting"} THEN 0 ELSE 1)
            - (IF pc[t] \in {"out", "waiting"} THEN 0 ELSE 1)
    BY <1>1, <1>2, HoldersMove
  <2> QED BY <1>2, <2>1, <2>2
<1>6. Cardinality(Holders') \in Nat /\ Cardinality(Holders) \in Nat
  BY CallersCount DEF Holders
<1>7. permits' + Cardinality(Holders') <= PoolSize
  BY <1>1, <1>5, <1>6
<1>8. NoLostWakeup'
  BY <1>1, <1>2 DEF SemaphoreInv, NoLostWakeup
<1>9. Passed(t, s)
  BY <1>1 DEF Passed
<1> QED BY <1>1, <1>3, <1>4, <1>7, <1>8, <1>9 DEF SemaphoreInv

LEMMA SemaphoreUntouched ==
    ASSUME SemaphoreInv, UNCHANGED <<permits, waiting, pc>>
    PROVE  SemaphoreInv'
BY DEF SemaphoreInv, Queued, Holders, NoLostWakeup

\* A caller queues (acquire of a locked semaphore).
LEMMA SemaphoreQueues ==
    ASSUME SemaphoreInv, NEW t \in Callers, pc[t] = "out", Locked,
           waiting' = Append(waiting, t), pc' = [pc EXCEPT ![t] = "waiting"],
           UNCHANGED permits
    PROVE  SemaphoreInv' /\ Passed(t, "waiting")
<1>1. /\ permits \in 0..PoolSize /\ waiting \in Seq(Callers) /\ pc \in [Callers -> Stages]
      /\ PoolSize \in Nat /\ permits + Cardinality(Holders) <= PoolSize
  BY PoolAssumption DEF SemaphoreInv
<1>2. /\ waiting' \in Seq(Callers)
      /\ Len(waiting) \in Nat /\ Len(waiting') = Len(waiting) + 1
      /\ \A i \in 1..Len(waiting) : waiting[i] \in Callers
      /\ \A i \in 1..Len(waiting') :
            waiting'[i] = IF i = Len(waiting) + 1 THEN t ELSE waiting[i]
  BY <1>1, AppendProperties, LenProperties
<1>3. \A i \in 1..Len(waiting) : waiting[i] # t
  BY DEF SemaphoreInv, Queued
<1>4. Queued(waiting', pc')
  BY <1>1, <1>2, <1>3 DEF SemaphoreInv, Queued
<1>5. Holders' = Holders
  BY <1>1 DEF Holders
<1>6. NoLostWakeup'
  <2> SUFFICES ASSUME permits > 0 PROVE \E u \in Callers : pc'[u] = "woken"
    BY DEF NoLostWakeup
  <2>1. PICK u \in Callers : pc[u] = "woken"
    BY DEF Locked, SemaphoreInv, NoLostWakeup
  <2> QED BY <1>1, <2>1
<1>7. pc' \in [Callers -> Stages] /\ Passed(t, "waiting")
  BY <1>1 DEF Stages, Passed
<1> QED BY <1>1, <1>2, <1>4, <1>5, <1>6, <1>7 DEF SemaphoreInv

-----------------------------------------------------------------------------
(* The connections.                                                        *)

LEMMA HandedKept ==
    ASSUME Handed, NEW t \in Callers, NEW s, Passed(t, s),
           \A u \in Callers \ {t} : hand'[u] = hand[u],
           hand'[t] # NoConn <=> s \in Working
    PROVE  Handed'
BY DEF Handed, Passed, Working

LEMMA IdleTail ==
    ASSUME ConnType, idle # << >>
    PROVE  /\ Head(idle) = idle[1] /\ 1 \in 1..Len(idle)
           /\ Head(idle) \in Conns /\ Tail(idle) \in Seq(Conns)
           /\ Len(idle) \in Nat /\ Len(Tail(idle)) = Len(idle) - 1
           /\ \A i \in 1..Len(Tail(idle)) :
                 Tail(idle)[i] = idle[i + 1] /\ i + 1 \in 1..Len(idle)
<1>1. idle \in Seq(Conns) /\ Len(idle) \in Nat /\ Len(idle) # 0
  BY LenProperties, EmptySeq DEF ConnType
<1>2. /\ Head(idle) \in Conns /\ Tail(idle) \in Seq(Conns)
      /\ Len(Tail(idle)) = Len(idle) - 1
      /\ \A i \in 1..Len(Tail(idle)) : Tail(idle)[i] = idle[i + 1]
  BY <1>1, HeadTailProperties
<1>3. Head(idle) = idle[1]
  BY <1>1
<1> QED BY <1>1, <1>2, <1>3

\* A caller gets a connection (_get_connection), over links in which nobody
\* else's connection is free.
LEMMA Takes ==
    ASSUME ConnType, OneOwner, NEW t \in Callers, NEW links \in [Conns -> Links],
           \A i \in 1..Len(idle) : links[idle[i]] # "none",
           \A u \in Users \ {t} : links[hand[u]] # "none",
           draining # NoConn => links[draining] # "none",
           GetConnection(t, links), UNCHANGED <<closed, draining>>
    PROVE  /\ Owned'
           /\ hand' = [hand EXCEPT ![t] = hand'[t]] /\ hand'[t] \in Conns
           /\ Users' = Users \cup {t}
           /\ ClosedPoolIsEmpty => ClosedPoolIsEmpty'
           /\ IF idle = << >> THEN idle' = << >> ELSE Len(idle') = Len(idle) - 1
<1>0. /\ idle \in Seq(Conns) /\ Len(idle) \in Nat
      /\ \A i \in 1..Len(idle) : idle[i] \in Conns
      /\ hand \in [Callers -> Conns \cup {NoConn}] /\ NoConn \notin Conns
      /\ \A u \in Users : hand[u] \in Conns
  BY LenProperties, PoolAssumption DEF ConnType, Users
<1>1. CASE idle # << >>
  <2> DEFINE h == Head(idle)
  <2>1. hand' = [hand EXCEPT ![t] = h] /\ idle' = Tail(idle) /\ link' = links
    BY <1>1 DEF GetConnection
  <2>2. /\ h = idle[1] /\ 1 \in 1..Len(idle) /\ h \in Conns
        /\ idle' \in Seq(Conns) /\ Len(idle') = Len(idle) - 1
        /\ \A i \in 1..Len(idle') : idle'[i] = idle[i + 1] /\ i + 1 \in 1..Len(idle)
    BY <1>1, <2>1, IdleTail
  <2> HIDE DEF h
  <2>3. Users' = Users \cup {t} /\ hand'[t] = h /\ \A u \in Users \ {t} : hand'[u] = hand[u]
    BY <1>0, <2>1, <2>2 DEF Users
  <2>4. \A i \in 1..Len(idle') : idle'[i] # h
    BY <2>2 DEF OneOwner
  <2>5. \A u \in Users : hand[u] # h
    BY <2>2 DEF OneOwner
  <2>6. h # draining
    BY <2>2 DEF OneOwner
  <2>7. \A i, j \in 1..Len(idle') : idle'[i] = idle'[j] => i = j
    BY <2>2 DEF OneOwner
  <2>8. \A u, v \in Users' : hand'[u] = hand'[v] => u = v
    BY <2>3, <2>5 DEF OneOwner
  <2>9. \A i \in 1..Len(idle') : idle'[i] # draining /\ \A u \in Users' : idle'[i] # hand'[u]
    BY <2>2, <2>3, <2>4 DEF OneOwner
  <2>10. \A u \in Users' : hand'[u] # draining
    BY <2>3, <2>6 DEF OneOwner
  <2>11. OneOwner'
    BY <2>7, <2>8, <2>9, <2>10 DEF OneOwner
  <2>12. Linked(link)'
    BY <2>1, <2>2, <2>3 DEF Linked
  <2>13. ConnType'
    BY <2>1, <2>2 DEF ConnType
  <2>14. ClosedPoolIsEmpty => ClosedPoolIsEmpty'
    BY <1>1 DEF ClosedPoolIsEmpty
  <2> QED BY <1>1, <2>1, <2>2, <2>3, <2>11, <2>12, <2>13, <2>14 DEF Owned
<1>2. CASE idle = << >>
  <2>1. idle' = << >> /\ Opens(t, links)
    BY <1>2 DEF GetConnection
  <2>2. PICK c \in Conns : /\ links[c] = "none"
                           /\ hand' = [hand EXCEPT ![t] = c]
                           /\ link' = [links EXCEPT ![c] = "opening"]
    BY <2>1 DEF Opens
  <2>3. Users' = Users \cup {t} /\ hand'[t] = c /\ \A u \in Users \ {t} : hand'[u] = hand[u]
    BY <1>0, <2>2 DEF Users
  <2>4. Len(idle') = 0 /\ idle' \in Seq(Conns)
    BY <2>1, EmptySeq
  <2>5. \A u \in Users \ {t} : hand[u] # c
    BY <2>2
  <2>6. c # draining
    BY <1>0, <2>2
  <2>7. OneOwner'
    BY <2>3, <2>4, <2>5, <2>6 DEF OneOwner
  <2>8. Linked(link)'
    <3>1. \A u \in Users' : link'[hand'[u]] # "none"
      BY <1>0, <2>2, <2>3
    <3>2. draining # NoConn => link'[draining] # "none"
      BY <2>2 DEF ConnType
    <3> QED BY <2>4, <3>1, <3>2 DEF Linked
  <2>9. ConnType'
    BY <2>2, <2>4 DEF ConnType, Links
  <2> QED BY <1>2, <2>1, <2>2, <2>3, <2>7, <2>8, <2>9 DEF Owned, ClosedPoolIsEmpty
<1> QED BY <1>1, <1>2

\* A caller gives its connection up, which is then closed, or left behind.
LEMMA GivesUp ==
    ASSUME ConnInv, NEW t \in Users, NEW s \in Links,
           hand' = [hand EXCEPT ![t] = NoConn], link' = [link EXCEPT ![hand[t]] = s],
           UNCHANGED <<idle, closed, draining>>
    PROVE  ConnInv'
<1>1. /\ hand \in [Callers -> Conns \cup {NoConn}] /\ NoConn \notin Conns
      /\ t \in Callers /\ hand[t] \in Conns /\ Len(idle) \in Nat
      /\ link \in [Conns -> Links] /\ \A i \in 1..Len(idle) : idle[i] \in Conns
      /\ ConnType
  BY LenProperties, PoolAssumption DEF ConnInv, Owned, ConnType, Users
<1>2. Users' = Users \ {t} /\ \A u \in Users \ {t} : hand'[u] = hand[u] /\ hand[u] \in Conns
  BY <1>1 DEF Users
<1>3. ConnType'
  BY <1>1 DEF ConnType
<1>4. OneOwner'
  BY <1>2 DEF ConnInv, Owned, OneOwner
<1>5. Linked(link)'
  <2>1. \A i \in 1..Len(idle) : link'[idle[i]] # "none"
    BY <1>1 DEF ConnInv, Owned, OneOwner, Linked
  <2>2. \A u \in Users' : link'[hand'[u]] # "none"
    BY <1>1, <1>2 DEF ConnInv, Owned, OneOwner, Linked
  <2>3. draining # NoConn => link'[draining] # "none"
    BY <1>1 DEF ConnInv, Owned, OneOwner, Linked, ConnType
  <2> QED BY <2>1, <2>2, <2>3 DEF Linked
<1>6. Bounded'
  <2>1. Cardinality(Users') = Cardinality(Users) + 0 - 1
    BY <1>1, UsersMove
  <2>2. Cardinality(Users) \in Nat /\ PoolSize \in Nat
    BY CallersCount, PoolAssumption DEF Users
  <2> QED BY <1>1, <2>1, <2>2 DEF ConnInv, Bounded
<1>7. ClosedPoolIsEmpty'
  BY DEF ConnInv, ClosedPoolIsEmpty
<1> QED BY <1>3, <1>4, <1>5, <1>6, <1>7 DEF ConnInv, Owned

\* A connection gets a state, its owners stay.
LEMMA LinkChanges ==
    ASSUME ConnInv, NEW c \in Conns, NEW s \in Links \ {"none"},
           link' = [link EXCEPT ![c] = s], UNCHANGED <<idle, closed, draining, hand>>
    PROVE  ConnInv'
<1>1. Users' = Users
  BY DEF Users
<1>2. Linked(link)'
  <2>1. \A d \in Conns : link[d] # "none" => link'[d] # "none"
    BY DEF ConnInv, Owned, ConnType
  <2>2. /\ \A i \in 1..Len(idle) : idle[i] \in Conns
        /\ \A u \in Users : hand[u] \in Conns
        /\ draining # NoConn => draining \in Conns
    BY LenProperties DEF ConnInv, Owned, ConnType, Users
  <2> QED BY <1>1, <2>1, <2>2 DEF ConnInv, Owned, Linked
<1>3. ConnType' /\ OneOwner'
  BY <1>1 DEF ConnInv, Owned, ConnType, OneOwner
<1>4. Bounded' /\ ClosedPoolIsEmpty'
  BY <1>1 DEF ConnInv, Bounded, ClosedPoolIsEmpty
<1> QED BY <1>2, <1>3, <1>4 DEF ConnInv, Owned

\* A live connection goes back to an open pool.
LEMMA PutsBack ==
    ASSUME ConnInv, NEW t \in Users, ~closed,
           idle' = Append(idle, hand[t]), hand' = [hand EXCEPT ![t] = NoConn],
           UNCHANGED <<closed, draining, link>>
    PROVE  ConnInv'
<1>1. /\ idle \in Seq(Conns) /\ Len(idle) \in Nat
      /\ hand \in [Callers -> Conns \cup {NoConn}] /\ NoConn \notin Conns
      /\ t \in Callers /\ hand[t] \in Conns /\ ConnType
  BY LenProperties, PoolAssumption DEF ConnInv, Owned, ConnType, Users
<1>2. Users' = Users \ {t} /\ \A u \in Users \ {t} : hand'[u] = hand[u]
  BY <1>1 DEF Users
<1>3. /\ idle' \in Seq(Conns) /\ Len(idle') = Len(idle) + 1
      /\ \A i \in 1..Len(idle) : idle'[i] = idle[i]
      /\ idle'[Len(idle) + 1] = hand[t]
  BY <1>1, AppendProperties
<1>4. \A i \in 1..Len(idle') : i \in 1..Len(idle) \/ i = Len(idle) + 1
  BY <1>1, <1>3
<1>5. ConnType'
  BY <1>1, <1>3 DEF ConnType
<1>6. OneOwner'
  <2>1. \A i \in 1..Len(idle) : idle[i] # hand[t]
    BY DEF ConnInv, Owned, OneOwner
  <2>2. \A i, j \in 1..Len(idle') : idle'[i] = idle'[j] => i = j
    BY <1>3, <1>4, <2>1 DEF ConnInv, Owned, OneOwner
  <2>3. \A u, v \in Users' : hand'[u] = hand'[v] => u = v
    BY <1>2 DEF ConnInv, Owned, OneOwner
  <2>4. \A i \in 1..Len(idle') : idle'[i] # draining /\ \A u \in Users' : idle'[i] # hand'[u]
    BY <1>2, <1>3, <1>4 DEF ConnInv, Owned, OneOwner
  <2>5. \A u \in Users' : hand'[u] # draining
    BY <1>2 DEF ConnInv, Owned, OneOwner
  <2> QED BY <2>2, <2>3, <2>4, <2>5 DEF OneOwner
<1>7. Linked(link)'
  BY <1>2, <1>3, <1>4 DEF ConnInv, Owned, Linked
<1>8. Bounded'
  <2>1. Cardinality(Users') = Cardinality(Users) + 0 - 1
    BY <1>1, UsersMove DEF Users
  <2>2. Cardinality(Users) \in Nat /\ PoolSize \in Nat
    BY CallersCount, PoolAssumption DEF Users
  <2> QED BY <1>1, <1>3, <2>1, <2>2 DEF ConnInv, Bounded
<1> QED BY <1>5, <1>6, <1>7, <1>8 DEF ConnInv, Owned, ClosedPoolIsEmpty

\* close takes the next idle connection, over links in which only the one it
\* has just closed is free.
LEMMA Drains ==
    ASSUME ConnInv, link' \in [Conns -> Links],
           \A c \in Conns \ {draining} : link'[c] = link[c],
           DrainNext, UNCHANGED <<hand>>, closed' \in BOOLEAN
    PROVE  ConnInv'
<1>0. /\ idle \in Seq(Conns) /\ Len(idle) \in Nat
      /\ \A i \in 1..Len(idle) : idle[i] \in Conns
      /\ NoConn \notin Conns /\ Users' = Users /\ ConnType
      /\ \A u \in Users : hand[u] \in Conns
  BY LenProperties, PoolAssumption DEF ConnInv, Owned, ConnType, Users
<1>1. CASE idle # << >>
  <2> DEFINE h == Head(idle)
  <2>1. draining' = h /\ idle' = Tail(idle)
    BY <1>1 DEF DrainNext
  <2>2. /\ h = idle[1] /\ 1 \in 1..Len(idle) /\ h \in Conns
        /\ idle' \in Seq(Conns) /\ Len(idle') = Len(idle) - 1
        /\ \A i \in 1..Len(idle') : idle'[i] = idle[i + 1] /\ i + 1 \in 1..Len(idle)
    BY <1>0, <1>1, <2>1, IdleTail
  <2> HIDE DEF h
  <2>3. ConnType'
    BY <1>0, <2>1, <2>2 DEF ConnType
  <2>4. \A i, j \in 1..Len(idle') : idle'[i] = idle'[j] => i = j
    BY <2>2 DEF ConnInv, Owned, OneOwner
  <2>5. \A i \in 1..Len(idle') : idle'[i] # draining' /\ \A u \in Users : idle'[i] # hand[u]
    BY <2>1, <2>2 DEF ConnInv, Owned, OneOwner
  <2>6. \A u \in Users : hand[u] # draining'
    BY <2>1, <2>2 DEF ConnInv, Owned, OneOwner
  <2>7. OneOwner'
    BY <1>0, <2>4, <2>5, <2>6 DEF ConnInv, Owned, OneOwner
  <2>8. /\ \A i \in 1..Len(idle) : link'[idle[i]] # "none"
        /\ \A u \in Users : link'[hand[u]] # "none"
    BY <1>0 DEF ConnInv, Owned, OneOwner, Linked
  <2>9. Linked(link)'
    BY <1>0, <2>1, <2>2, <2>8 DEF Linked
  <2>10. Bounded'
    <3>1. Cardinality(Users) \in Nat /\ PoolSize \in Nat
      BY CallersCount, PoolAssumption DEF Users
    <3> QED BY <1>0, <2>2, <3>1 DEF ConnInv, Bounded
  <2>11. ClosedPoolIsEmpty'
    BY <1>0, <2>1, <2>2 DEF ClosedPoolIsEmpty
  <2> QED BY <2>3, <2>7, <2>9, <2>10, <2>11 DEF ConnInv, Owned
<1>2. CASE idle = << >>
  <2>1. draining' = NoConn /\ idle' = << >> /\ Len(idle) = 0
    BY <1>2, EmptySeq DEF DrainNext
  <2>2. ConnType'
    BY <1>0, <1>2, <2>1 DEF ConnType
  <2>3. OneOwner'
    BY <1>0, <1>2, <2>1 DEF ConnInv, Owned, OneOwner
  <2>4. Linked(link)'
    BY <1>0, <1>2, <2>1 DEF ConnInv, Owned, OneOwner, Linked
  <2> QED BY <1>0, <1>2, <2>1, <2>2, <2>3, <2>4 DEF ConnInv, Owned, Bounded, ClosedPoolIsEmpty
<1> QED BY <1>1, <1>2

-----------------------------------------------------------------------------
(* The steps.                                                              *)

LEMMA Places ==
    ASSUME PoolInv
    PROVE  /\ permits \in Nat /\ PoolSize \in Nat /\ waiting \in Seq(Callers)
           /\ pc \in [Callers -> Stages] /\ hand \in [Callers -> Conns \cup {NoConn}]
           /\ NoConn \notin Conns /\ link \in [Conns -> Links] /\ ConnType
           /\ \A t \in Users : t \in Callers /\ hand[t] \in Conns
           /\ \A t \in Callers : pc[t] \in Working <=> t \in Users
           /\ HoldersAt(pc) = Holders /\ Cardinality(Holders) \in Nat
           /\ permits + Cardinality(Holders) <= PoolSize
           /\ \A i \in 1..Len(waiting) : waiting[i] \in Callers
<1>1. NoConn \notin Conns /\ PoolSize \in Nat
  BY PoolAssumption
<1>2. HoldersAt(pc) = Holders /\ Cardinality(Holders) \in Nat
  BY CallersCount DEF HoldersAt, Holders
<1>3. \A i \in 1..Len(waiting) : waiting[i] \in Callers
  BY LenProperties DEF PoolInv, SemaphoreInv
<1> QED BY <1>1, <1>2, <1>3 DEF PoolInv, SemaphoreInv, ConnInv, Owned, ConnType, Handed, Users

\* The stage to which a caller goes is one of work.
LEMMA NextStageWorks ==
    ASSUME NEW t, NEW probe
    PROVE  NextStage(t, probe) \in Working /\ NextStage(t, probe) \in Stages \ {"waiting"}
BY DEF NextStage, Working, Stages

\* A caller with a permit and no connection gets one (acquire, and a woken
\* caller): q, p are the queue and the permits it leaves.
LEMMA Goes ==
    ASSUME PoolInv, NEW t \in Callers, pc[t] \in {"out", "woken"}, NEW probe,
           NEW p \in Nat, p + (IF pc[t] = "out" THEN 1 ELSE 0) = permits,
           Share(waiting, p, t, NextStage(t, probe)), GetConnection(t, link),
           UNCHANGED <<closed, draining>>
    PROVE  SemaphoreInv' /\ ConnInv' /\ Handed'
<1> DEFINE s == NextStage(t, probe)
<1>0. s \in Working /\ s \in Stages \ {"waiting"} /\ s \notin {"out", "waiting"}
  BY NextStageWorks DEF Working
<1> HIDE DEF s
<1>1. t \notin Users /\ hand[t] = NoConn
  BY Places DEF Working, Users
<1>2. Cardinality(HoldersAt([pc EXCEPT ![t] = s])) =
        Cardinality(Holders) + 1 - (IF pc[t] = "out" THEN 0 ELSE 1)
  <2>1. Cardinality(HoldersAt([pc EXCEPT ![t] = s])) =
          Cardinality(HoldersAt(pc)) + (IF s \in {"out", "waiting"} THEN 0 ELSE 1)
            - (IF pc[t] \in {"out", "waiting"} THEN 0 ELSE 1)
    BY <1>0, Places, HoldersMove
  <2> QED BY <1>0, <2>1, Places
<1>3. p + Cardinality(HoldersAt([pc EXCEPT ![t] = s])) <= PoolSize
  BY <1>2, Places
<1>4. /\ Queued(waiting, pc)
      /\ \A i \in 1..Len(waiting) : waiting[i] # t
      /\ Share(waiting, p, t, s)
  BY DEF PoolInv, SemaphoreInv, Queued, s
<1>5. SemaphoreInv' /\ Passed(t, s)
  BY <1>0, <1>3, <1>4, Places, SemaphoreShares DEF PoolInv
<1>6. /\ Owned'
      /\ hand' = [hand EXCEPT ![t] = hand'[t]] /\ hand'[t] \in Conns
      /\ Users' = Users \cup {t}
      /\ ClosedPoolIsEmpty => ClosedPoolIsEmpty'
      /\ IF idle = << >> THEN idle' = << >> ELSE Len(idle') = Len(idle) - 1
  <2>1. ConnType /\ OneOwner /\ Linked(link)
    BY DEF PoolInv, ConnInv, Owned
  <2> QED BY <2>1, Places, Takes DEF Linked
<1>7. Handed'
  BY <1>0, <1>5, <1>6, Places, HandedKept DEF PoolInv
<1>8. Bounded'
  <2>1. Cardinality(Users') = Cardinality(Users) + 1
    <3>1. ConnType /\ hand'[t] \in Conns \cup {NoConn} /\ hand'[t] # NoConn
      BY <1>6, Places
    <3>2. Cardinality(Users') = Cardinality(Users) + (IF hand'[t] = NoConn THEN 0 ELSE 1)
                                  - (IF hand[t] = NoConn THEN 0 ELSE 1)
      BY <1>6, <3>1, UsersMove
    <3>3. Cardinality(Users) \in Nat
      BY CallersCount DEF Users
    <3> QED BY <1>1, <3>1, <3>2, <3>3
  <2>2. Cardinality(Users') \in Nat /\ Cardinality(Users) \in Nat /\ Len(idle) \in Nat
    BY CallersCount, LenProperties DEF Users, PoolInv, ConnInv, Owned, ConnType
  <2>3. CASE idle # << >>
    BY <1>6, <2>1, <2>2, <2>3, Places DEF PoolInv, ConnInv, Bounded
  <2>4. CASE idle = << >>
    <3>1. Users' \subseteq Holders' /\ Holders' \in SUBSET Callers
      BY <1>5, <1>7 DEF Users, Holders, Handed, Working
    <3>2. Cardinality(Users') <= Cardinality(Holders') /\ Cardinality(Holders') \in Nat
      BY <3>1, CallersCount, FS_Subset
    <3>3. Cardinality(Holders') <= PoolSize
      BY <1>5, <3>2, PoolAssumption DEF SemaphoreInv
    <3>4. Len(idle') = 0
      BY <1>6, <2>4, EmptySeq
    <3> QED BY <2>2, <3>2, <3>3, <3>4, Places DEF Bounded
  <2> QED BY <2>3, <2>4
<1> QED BY <1>5, <1>6, <1>7, <1>8 DEF PoolInv, ConnInv

LEMMA AcquireKeeps ==
    ASSUME PoolInv, NEW t \in Callers, NEW probe \in BOOLEAN, Acquire(t, probe)
    PROVE  PoolInv'
<1>1. OtherType'
  BY DEF PoolInv, OtherType, Acquire
<1>2. CASE Locked
  <2>1. SemaphoreInv' /\ Passed(t, "waiting")
    BY <1>2, SemaphoreQueues DEF PoolInv, Acquire
  <2>2. ConnInv'
    BY <1>2 DEF PoolInv, ConnInv, Owned, ConnType, OneOwner, Linked, Bounded, Users,
                ClosedPoolIsEmpty, Acquire
  <2>3. UNCHANGED hand /\ hand[t] = NoConn
    BY <1>2, Places DEF Acquire, Users, Working
  <2>4. Handed'
    BY <2>1, <2>3, HandedKept DEF PoolInv, Working
  <2> QED BY <1>1, <2>1, <2>2, <2>4 DEF PoolInv
<1>3. CASE ~Locked
  <2>1. permits - 1 \in Nat /\ permits - 1 + 1 = permits
    BY <1>3, Places DEF Locked
  <2>2. SemaphoreInv' /\ ConnInv' /\ Handed'
    BY <1>3, <2>1, Goes DEF Acquire
  <2> QED BY <1>1, <2>2 DEF PoolInv
<1> QED BY <1>2, <1>3

LEMMA ResumeKeeps ==
    ASSUME PoolInv, NEW t \in Callers, Resume(t)
    PROVE  PoolInv'
<1>1. OtherType'
  BY DEF PoolInv, OtherType, Resume
<1>2. permits \in Nat /\ permits + 0 = permits
  BY Places
<1>3. SemaphoreInv' /\ ConnInv' /\ Handed'
  BY <1>2, Goes DEF Resume
<1> QED BY <1>1, <1>3 DEF PoolInv

LEMMA ValidatedKeeps ==
    ASSUME PoolInv, NEW t \in Callers, NEW ok \in BOOLEAN, Validated(t, ok)
    PROVE  PoolInv'
<1> DEFINE s == IF ok THEN "leased" ELSE "discarding"
<1>1. SemaphoreInv' /\ Passed(t, s)
  BY SemaphoreStays DEF PoolInv, Validated, Working, poolVars
<1>2. ConnInv'
  BY DEF PoolInv, ConnInv, Owned, ConnType, OneOwner, Linked, Bounded, Users,
         ClosedPoolIsEmpty, Validated, poolVars
<1>3. Handed'
  BY <1>1, HandedKept, Places DEF PoolInv, Validated, Working, Users
<1>4. OtherType'
  BY DEF PoolInv, OtherType, Validated
<1> QED BY <1>1, <1>2, <1>3, <1>4 DEF PoolInv

LEMMA DiscardedKeeps ==
    ASSUME PoolInv, NEW t \in Callers, Discarded(t)
    PROVE  PoolInv'
<1> DEFINE s == NextStage(t, probes[t])
           links == [link EXCEPT ![hand[t]] = "none"]
<1>0. s \in Working
  BY NextStageWorks
<1>1. /\ t \in Users /\ hand[t] \in Conns /\ GetConnection(t, links)
      /\ pc' = [pc EXCEPT ![t] = s] /\ UNCHANGED <<permits, waiting>>
      /\ pc[t] \in Working
  BY Places DEF Discarded, Working
<1> HIDE DEF s
<1>2. SemaphoreInv' /\ Passed(t, s)
  BY <1>0, <1>1, SemaphoreStays DEF PoolInv
<1>3. /\ Owned'
      /\ hand' = [hand EXCEPT ![t] = hand'[t]] /\ hand'[t] \in Conns
      /\ Users' = Users \cup {t}
      /\ ClosedPoolIsEmpty => ClosedPoolIsEmpty'
      /\ IF idle = << >> THEN idle' = << >> ELSE Len(idle') = Len(idle) - 1
  <2>1. ConnType /\ OneOwner /\ Linked(link)
    BY DEF PoolInv, ConnInv, Owned
  <2>2. links \in [Conns -> Links] /\ \A c \in Conns \ {hand[t]} : links[c] = link[c]
    BY Places DEF Links
  <2>3. /\ \A i \in 1..Len(idle) : idle[i] \in Conns \ {hand[t]}
        /\ \A u \in Users \ {t} : hand[u] \in Conns \ {hand[t]}
        /\ draining # NoConn => draining \in Conns \ {hand[t]}
    BY <1>1, <2>1, Places, LenProperties DEF OneOwner, ConnType
  <2>4. /\ \A i \in 1..Len(idle) : links[idle[i]] # "none"
        /\ \A u \in Users \ {t} : links[hand[u]] # "none"
        /\ draining # NoConn => links[draining] # "none"
    BY <2>1, <2>2, <2>3 DEF Linked
  <2> HIDE DEF links
  <2> QED BY <1>1, <2>1, <2>2, <2>4, Takes DEF Discarded
<1>4. Handed'
  BY <1>0, <1>2, <1>3, Places, HandedKept DEF PoolInv
<1>5. Bounded'
  <2>1. Users' = Users
    BY <1>1, <1>3
  <2>2. Cardinality(Users) \in Nat /\ Len(idle) \in Nat /\ Len(<< >>) = 0
    BY CallersCount, LenProperties, EmptySeq DEF Users, PoolInv, ConnInv, Owned, ConnType
  <2>3. Len(idle) + Cardinality(Users) <= PoolSize /\ PoolSize \in Nat
    BY Places DEF PoolInv, ConnInv, Bounded
  <2>4. Len(idle') <= Len(idle) /\ Len(idle') \in Nat
    <3>1. CASE idle = << >>
      BY <1>3, <2>2, <3>1
    <3>2. CASE idle # << >>
      BY <1>3, <2>2, <3>2, IdleTail, LenProperties DEF Owned, ConnType
    <3> QED BY <3>1, <3>2
  <2>5. Len(idle') + Cardinality(Users') <= PoolSize
    BY <2>1, <2>2, <2>3, <2>4
  <2> QED BY <2>5 DEF Bounded
<1>6. OtherType'
  BY DEF PoolInv, OtherType, Discarded
<1> QED BY <1>2, <1>3, <1>4, <1>5, <1>6 DEF PoolInv, ConnInv

LEMMA ConnectedKeeps ==
    ASSUME PoolInv, NEW t \in Callers, Connected(t)
    PROVE  PoolInv'
<1>1. t \in Users /\ hand[t] \in Conns /\ pc[t] \in Working
  BY Places DEF Connected, Working
<1>2. SemaphoreInv' /\ Passed(t, "leased")
  BY <1>1, SemaphoreStays DEF PoolInv, Connected, Working, poolVars
<1>3. ConnInv'
  BY <1>1, LinkChanges DEF PoolInv, Connected, poolVars, Links
<1>4. Handed'
  BY <1>1, <1>2, HandedKept DEF PoolInv, Connected, Users, Working
<1>5. OtherType'
  BY DEF PoolInv, OtherType, Connected
<1> QED BY <1>2, <1>3, <1>4, <1>5 DEF PoolInv

\* The ways a caller leaves: it gives up connection and permit, or queue and
\* wake-up.
LEMMA LeavesKeeps ==
    ASSUME PoolInv, NEW t \in Callers, pc[t] \in Working, ReleasePermit(t),
           NEW s \in Links, link' = [link EXCEPT ![hand[t]] = s],
           hand' = [hand EXCEPT ![t] = NoConn], UNCHANGED <<idle, closed, draining>>
    PROVE  SemaphoreInv' /\ ConnInv' /\ Handed'
<1>1. t \in Users
  BY Places
<1>2. SemaphoreInv' /\ Passed(t, "out")
  BY SemaphoreReleases DEF PoolInv
<1>3. ConnInv'
  BY <1>1, GivesUp DEF PoolInv
<1>4. Handed'
  BY <1>2, Places, HandedKept DEF PoolInv, Working
<1> QED BY <1>2, <1>3, <1>4

LEMMA ConnectFailsKeeps ==
    ASSUME PoolInv, NEW t \in Callers, ConnectFails(t) \/ Returned(t)
    PROVE  PoolInv'
<1>1. SemaphoreInv' /\ ConnInv' /\ Handed'
  BY LeavesKeeps DEF ConnectFails, Returned, Working, Links
<1>2. OtherType'
  BY DEF PoolInv, OtherType, ConnectFails, Returned
<1> QED BY <1>1, <1>2 DEF PoolInv

LEMMA ReturnKeeps ==
    ASSUME PoolInv, NEW t \in Callers, Return(t)
    PROVE  PoolInv'
<1>1. t \in Users /\ pc[t] \in Working
  BY Places DEF Return, Working
<1>2. OtherType'
  BY DEF PoolInv, OtherType, Return
<1>3. CASE PoolTakesBack /\ link[hand[t]] = "open"
  <2>1. SemaphoreInv' /\ Passed(t, "out")
    BY <1>1, <1>3, SemaphoreReleases DEF PoolInv, Return
  <2>2. ConnInv'
    BY <1>1, <1>3, PutsBack DEF PoolInv, Return, PoolTakesBack
  <2>3. Handed'
    BY <1>3, <2>1, Places, HandedKept DEF PoolInv, Working, Return
  <2> QED BY <1>2, <2>1, <2>2, <2>3 DEF PoolInv
<1>4. CASE ~(PoolTakesBack /\ link[hand[t]] = "open")
  <2>1. SemaphoreInv' /\ Passed(t, "closing")
    BY <1>1, <1>4, SemaphoreStays DEF PoolInv, Return, Working
  <2>2. ConnInv'
    BY <1>4 DEF PoolInv, ConnInv, Owned, ConnType, OneOwner, Linked, Bounded, Users,
                ClosedPoolIsEmpty, Return
  <2>3. Handed'
    BY <1>1, <1>4, <2>1, HandedKept DEF PoolInv, Working, Return, Users
  <2> QED BY <1>2, <2>1, <2>2, <2>3 DEF PoolInv
<1> QED BY <1>3, <1>4

\* A queue without the member at place k (the finally clause of acquire,
\* _waiters.remove).
LEMMA Removed ==
    ASSUME NEW q \in Seq(Callers), NEW k \in 1..Len(q)
    PROVE  /\ RemoveAt(q, k) \in Seq(Callers)
           /\ Len(RemoveAt(q, k)) = Len(q) - 1
           /\ \A i \in 1..Len(q) - 1 :
                 RemoveAt(q, k)[i] = IF i < k THEN q[i] ELSE q[i + 1]
<1> DEFINE a == SubSeq(q, 1, k - 1)
           b == SubSeq(q, k + 1, Len(q))
<1>1. /\ Len(q) \in Nat /\ k \in Nat /\ k - 1 \in Int /\ k + 1 \in Int /\ 1 \in Int
      /\ k \in 0..Len(q)
      /\ \A i \in 1..k - 1 : q[i] \in Callers
  BY LenProperties
<1>2. /\ a \in Seq(Callers)
      /\ Len(a) = IF 1 <= k - 1 THEN k - 1 - 1 + 1 ELSE 0
      /\ \A i \in 1..k - 1 - 1 + 1 : a[i] = q[1 + i - 1]
  BY <1>1, SubSeqProperties
<1>3. Len(a) = k - 1 /\ \A i \in 1..k - 1 : a[i] = q[i]
  BY <1>1, <1>2
<1>4. /\ b \in Seq(Callers)
      /\ Len(b) = Len(q) - k
      /\ \A i \in 1..Len(q) - k : b[i] = q[i + k]
  BY <1>1, RestOfQueue
<1>5. RemoveAt(q, k) = a \o b
  BY DEF RemoveAt
<1> HIDE DEF a, b
<1>6. /\ a \o b \in Seq(Callers)
      /\ Len(a \o b) = Len(a) + Len(b)
      /\ \A i \in 1..Len(a) + Len(b) : (a \o b)[i] = IF i <= Len(a) THEN a[i] ELSE b[i - Len(a)]
  BY <1>2, <1>4, ConcatProperties
<1>7. ASSUME NEW i \in 1..Len(q) - 1
      PROVE  (a \o b)[i] = IF i < k THEN q[i] ELSE q[i + 1]
  <2>1. (a \o b)[i] = IF i <= k - 1 THEN a[i] ELSE b[i - (k - 1)]
    BY <1>1, <1>3, <1>4, <1>6
  <2>2. CASE i < k
    BY <1>1, <1>3, <2>1, <2>2
  <2>3. CASE ~(i < k)
    <3>1. i - (k - 1) \in 1..Len(q) - k /\ i - (k - 1) + k = i + 1
      BY <1>1, <2>3
    <3> QED BY <1>1, <1>4, <2>1, <2>3, <3>1
  <2> QED BY <2>2, <2>3
<1> QED BY <1>1, <1>3, <1>4, <1>5, <1>6, <1>7

LEMMA CancelQueuedKeeps ==
    ASSUME PoolInv, NEW t \in Callers, CancelQueued(t), UNCHANGED <<idle, closed, draining>>
    PROVE  SemaphoreInv' /\ ConnInv' /\ Handed'
<1>1. PICK k \in 1..Len(waiting) :
          waiting[k] = t /\ Share(RemoveAt(waiting, k), permits, t, "out")
  BY DEF CancelQueued
<1> DEFINE q == RemoveAt(waiting, k)
<1>2. pc[t] = "waiting"
  BY <1>1 DEF PoolInv, SemaphoreInv, Queued
<1>3. /\ waiting \in Seq(Callers) /\ Len(waiting) \in Nat
      /\ q \in Seq(Callers) /\ Len(q) = Len(waiting) - 1
      /\ \A i \in 1..Len(q) : q[i] = IF i < k THEN waiting[i] ELSE waiting[i + 1]
  BY Removed, Places, LenProperties
<1> HIDE DEF q
<1> DEFINE place(i) == IF i < k THEN i ELSE i + 1
<1>31. /\ \A i, j \in 1..Len(waiting) : waiting[i] = waiting[j] => i = j
      /\ \A i \in 1..Len(waiting) : pc[waiting[i]] = "waiting"
  BY DEF PoolInv, SemaphoreInv, Queued
<1>32. \A i \in 1..Len(q) : place(i) \in 1..Len(waiting) \ {k} /\ q[i] = waiting[place(i)]
  BY <1>3
<1>33. \A i, j \in 1..Len(q) : place(i) = place(j) => i = j
  BY <1>3
<1> HIDE DEF place
<1>4. \A i, j \in 1..Len(q) : q[i] = q[j] => i = j
  BY <1>31, <1>32, <1>33
<1>5. \A i \in 1..Len(q) : pc[q[i]] = "waiting" /\ q[i] # t
  BY <1>1, <1>31, <1>32
<1>6. Cardinality(HoldersAt([pc EXCEPT ![t] = "out"])) = Cardinality(Holders)
  <2>1. Cardinality(HoldersAt([pc EXCEPT ![t] = "out"])) = Cardinality(HoldersAt(pc)) + 0 - 0
    BY <1>2, Places, HoldersMove DEF Stages
  <2> QED BY <2>1, Places
<1>7. /\ permits \in Nat /\ permits + Cardinality(HoldersAt([pc EXCEPT ![t] = "out"])) <= PoolSize
      /\ "out" \in Stages \ {"waiting"} /\ Queued(q, pc) /\ Share(q, permits, t, "out")
  BY <1>1, <1>4, <1>5, <1>6, Places DEF Queued, Stages, q
<1>8. SemaphoreInv' /\ Passed(t, "out")
  BY <1>3, <1>5, <1>7, SemaphoreShares DEF PoolInv
<1>9. ConnInv'
  BY DEF PoolInv, ConnInv, Owned, ConnType, OneOwner, Linked, Bounded, Users,
         ClosedPoolIsEmpty, CancelQueued
<1>10. Handed'
  BY <1>2, <1>8, Places, HandedKept DEF PoolInv, Working, Users, CancelQueued
<1> QED BY <1>8, <1>9, <1>10

LEMMA CancelWokenKeeps ==
    ASSUME PoolInv, NEW t \in Callers, CancelWoken(t), UNCHANGED <<idle, closed, draining>>
    PROVE  SemaphoreInv' /\ ConnInv' /\ Handed'
<1>1. pc[t] = "woken" /\ Share(waiting, permits + 1, t, "out")
  BY DEF CancelWoken
<1>2. Cardinality(HoldersAt([pc EXCEPT ![t] = "out"])) = Cardinality(Holders) - 1
  <2>1. Cardinality(HoldersAt([pc EXCEPT ![t] = "out"])) = Cardinality(HoldersAt(pc)) + 0 - 1
    BY <1>1, Places, HoldersMove DEF Stages
  <2> QED BY <2>1, Places
<1>3. /\ permits + 1 \in Nat
      /\ permits + 1 + Cardinality(HoldersAt([pc EXCEPT ![t] = "out"])) <= PoolSize
      /\ "out" \in Stages \ {"waiting"} /\ Queued(waiting, pc)
      /\ \A i \in 1..Len(waiting) : waiting[i] # t
  BY <1>1, <1>2, Places DEF PoolInv, SemaphoreInv, Queued, Stages
<1>4. SemaphoreInv' /\ Passed(t, "out")
  BY <1>1, <1>3, Places, SemaphoreShares DEF PoolInv
<1>5. ConnInv'
  BY DEF PoolInv, ConnInv, Owned, ConnType, OneOwner, Linked, Bounded, Users,
         ClosedPoolIsEmpty, CancelWoken
<1>6. Handed'
  BY <1>1, <1>4, Places, HandedKept DEF PoolInv, Working, Users, CancelWoken
<1> QED BY <1>4, <1>5, <1>6

LEMMA CancelKeeps ==
    ASSUME PoolInv, NEW t \in Callers, Cancel(t)
    PROVE  PoolInv'
<1>1. OtherType'
  BY PoolAssumption DEF PoolInv, OtherType, Cancel
<1>2. CASE CancelQueued(t)
  BY <1>1, <1>2, CancelQueuedKeeps DEF Cancel, PoolInv
<1>3. CASE CancelWoken(t)
  BY <1>1, <1>3, CancelWokenKeeps DEF Cancel, PoolInv
<1>4. CASE CancelGetting(t)
  <2>1. pc[t] \in Working /\ t \in Users
    BY <1>4, Places DEF CancelGetting, Working
  <2>2. PICK s \in IF pc[t] = "validating" THEN {link[hand[t]]}
                   ELSE IF pc[t] = "connecting" THEN {"open", "none"} ELSE {"none"} :
                 link' = [link EXCEPT ![hand[t]] = s]
    BY <1>4 DEF CancelGetting
  <2>3. s \in Links
    <3>1. link[hand[t]] \in Links
      BY <2>1, Places
    <3> QED BY <2>2, <3>1 DEF Links
  <2>4. SemaphoreInv' /\ ConnInv' /\ Handed'
    BY <1>4, <2>1, <2>2, <2>3, LeavesKeeps DEF CancelGetting, Cancel
  <2> QED BY <1>1, <2>4 DEF PoolInv
<1>5. CASE CancelClosing(t)
  <2>1. pc[t] \in Working /\ t \in Users
    BY <1>5, Places DEF CancelClosing, Working
  <2>2. SemaphoreInv' /\ Passed(t, "out")
    BY <1>5, <2>1, SemaphoreStays DEF PoolInv, CancelClosing
  <2>3. ConnInv'
    BY <1>5, <2>1, GivesUp DEF PoolInv, CancelClosing, Cancel, Links
  <2>4. Handed'
    BY <1>5, <2>2, Places, HandedKept DEF PoolInv, CancelClosing, Working
  <2> QED BY <1>1, <2>2, <2>3, <2>4 DEF PoolInv
<1> QED BY <1>2, <1>3, <1>4, <1>5 DEF Cancel

LEMMA CloseKeeps ==
    ASSUME PoolInv, Close \/ Drained
    PROVE  PoolInv'
<1>1. SemaphoreInv' /\ OtherType' /\ Handed'
  BY SemaphoreUntouched DEF PoolInv, OtherType, Handed, Close, Drained, callerVars
<1>2. CASE Close
  <2>1. link' \in [Conns -> Links] /\ \A c \in Conns \ {draining} : link'[c] = link[c]
    BY <1>2, Places DEF Close
  <2> QED BY <1>1, <1>2, <2>1, Drains DEF PoolInv, Close, callerVars
<1>3. CASE Drained
  <2>1. link' \in [Conns -> Links] /\ \A c \in Conns \ {draining} : link'[c] = link[c]
    BY <1>3, Places DEF Drained, Links
  <2>2. closed' \in BOOLEAN
    BY <1>3, Places DEF Drained, ConnType
  <2> QED BY <1>1, <1>3, <2>1, <2>2, Drains DEF PoolInv, Drained, callerVars
<1> QED BY <1>2, <1>3

LEMMA DieKeeps ==
    ASSUME PoolInv, NEW c \in Conns, Die(c)
    PROVE  PoolInv'
<1>1. SemaphoreInv' /\ OtherType' /\ Handed'
  BY SemaphoreUntouched DEF PoolInv, OtherType, Handed, Die, callerVars, poolVars
<1>2. ConnInv'
  BY LinkChanges DEF PoolInv, Die, callerVars, poolVars, Links
<1> QED BY <1>1, <1>2 DEF PoolInv

-----------------------------------------------------------------------------
(* The invariant.                                                          *)

LEMMA PoolInit == Init => PoolInv
<1> SUFFICES ASSUME Init PROVE PoolInv
  OBVIOUS
<1>1. Holders = {} /\ Users = {}
  BY DEF Init, Holders, Users
<1>2. Cardinality({}) = 0 /\ Len(<< >>) = 0
  BY FS_EmptySet, EmptySeq
<1>3. << >> \in Seq(Callers) /\ << >> \in Seq(Conns)
  BY EmptySeq
<1>4. SemaphoreInv
  BY <1>1, <1>2, <1>3, PoolAssumption DEF Init, SemaphoreInv, Stages, Queued, NoLostWakeup
<1>5. ConnType /\ OneOwner /\ Linked(link)
  <2>1. Len(idle) = 0 /\ draining = NoConn
    BY <1>2 DEF Init
  <2>2. ConnType
    BY <1>3 DEF Init, ConnType, Links
  <2>3. OneOwner
    BY <1>1, <2>1 DEF OneOwner
  <2>4. Linked(link)
    BY <1>1, <2>1 DEF Linked
  <2> QED BY <2>2, <2>3, <2>4
<1>6. Bounded /\ ClosedPoolIsEmpty
  <2>1. Len(idle) = 0 /\ Cardinality(Users) = 0 /\ PoolSize \in Nat
    BY <1>1, <1>2, PoolAssumption DEF Init
  <2>2. Bounded
    BY <2>1 DEF Bounded
  <2> QED BY <2>2 DEF Init, ClosedPoolIsEmpty
<1>7. Handed /\ OtherType
  BY PoolAssumption DEF Init, Handed, OtherType, Working
<1> QED BY <1>4, <1>5, <1>6, <1>7 DEF PoolInv, ConnInv, Owned

LEMMA PoolNext ==
    ASSUME PoolInv, [Next]_vars
    PROVE  PoolInv'
<1>1. ASSUME NEW t \in Callers, CallerStep(t) PROVE PoolInv'
  BY <1>1, ResumeKeeps, ValidatedKeeps, DiscardedKeeps, ConnectedKeeps, ConnectFailsKeeps,
     ReturnKeeps DEF CallerStep
<1>2. ASSUME NEW t \in Callers, NEW probe \in BOOLEAN, Acquire(t, probe) PROVE PoolInv'
  BY <1>2, AcquireKeeps
<1>3. ASSUME NEW t \in Callers, Cancel(t) PROVE PoolInv'
  BY <1>3, CancelKeeps
<1>4. ASSUME Close \/ Drained PROVE PoolInv'
  BY <1>4, CloseKeeps
<1>5. ASSUME NEW c \in Conns, Die(c) PROVE PoolInv'
  BY <1>5, DieKeeps
<1>6. ASSUME UNCHANGED vars PROVE PoolInv'
  <2>1. UNCHANGED <<permits, waiting, idle, closed, draining, pc, hand, probes, link, cancels>>
    BY <1>6 DEF vars
  <2>2. SemaphoreInv'
    BY <2>1, SemaphoreUntouched DEF PoolInv
  <2>3. ConnInv'
    BY <2>1 DEF PoolInv, ConnInv, Owned, ConnType, OneOwner, Linked, Bounded, Users,
                ClosedPoolIsEmpty
  <2>4. Handed' /\ OtherType'
    BY <2>1 DEF PoolInv, Handed, OtherType
  <2> QED BY <2>2, <2>3, <2>4 DEF PoolInv
<1>7. ASSUME Next PROVE PoolInv'
  <2>1. \/ \E t \in Callers : \/ \E probe \in BOOLEAN : Acquire(t, probe)
                              \/ CallerStep(t)
                              \/ Cancel(t)
        \/ Close \/ Drained
        \/ \E c \in Conns : Die(c)
    BY <1>7 DEF Next
  <2> QED BY <2>1, <1>1, <1>2, <1>3, <1>4, <1>5
<1> QED BY <1>6, <1>7

LEMMA PoolInvariant == Spec => []PoolInv
BY PoolInit, PoolNext, PTL DEF Spec

\* Every variable of the pool has its type in every reachable state
\* (SSHConnectionPool).
THEOREM TypeCorrect == Spec => []TypeOK
<1>1. PoolInv => TypeOK
  BY DEF PoolInv, SemaphoreInv, ConnInv, Owned, ConnType, OtherType, TypeOK, Links
<1> QED BY <1>1, PoolInvariant, PTL

\* The pool never manages more than pool_size connections, and no failure or
\* cancellation gives a permit back twice (_get_connection, release, the
\* finally clause of acquire).
THEOREM PoolIsBounded == Spec => []NeverOverbooked
<1>1. PoolInv => NeverOverbooked
  BY DEF PoolInv, SemaphoreInv, ConnInv, Bounded, NeverOverbooked
<1> QED BY <1>1, PoolInvariant, PTL

\* A connection is idle once, or one caller's, or close's (_get_connection,
\* release, close).
THEOREM ConnectionsHaveOneOwner == Spec => []OneOwner
<1>1. PoolInv => OneOwner
  BY DEF PoolInv, ConnInv, Owned
<1> QED BY <1>1, PoolInvariant, PTL

\* While callers queue, a permit is never left lying: someone woken will take
\* it or pass it on, whoever is cancelled (asyncio.Semaphore as acquire uses
\* it).
THEOREM WakeupsAreKept == Spec => []NoLostWakeup
<1>1. PoolInv => NoLostWakeup
  BY DEF PoolInv, SemaphoreInv
<1> QED BY <1>1, PoolInvariant, PTL

\* A closed pool keeps no connection, whichever leases were out when it was
\* closed (close, the finally clause of acquire).
THEOREM ClosedPoolKeepsNothing == Spec => []ClosedPoolIsEmpty
<1>1. PoolInv => ClosedPoolIsEmpty
  BY DEF PoolInv, ConnInv
<1> QED BY <1>1, PoolInvariant, PTL
=============================================================================
