--------------------------- MODULE SharedBus_proofs ---------------------------
(***************************************************************************)
(* Theorems about SharedBus, for every number of ports, every cycle count, *)
(* queue depth, number of receive slots, threshold, policy and flow.       *)
(***************************************************************************)
EXTENDS SharedBus, FiniteSetTheorems, SequenceTheorems, TLAPS

-------------------------------------------------------------------------------
(***************************************************************************)
(* Lemmas about the operators of the model.                                *)
(***************************************************************************)

\* A cycle of waiting changes neither the identity nor the address of a message.
LEMMA OlderMessage ==
  ASSUME NEW m \in Message
  PROVE  /\ Older(m) \in Message
         /\ Older(m).id = m.id
         /\ Older(m).src = m.src
         /\ Older(m).dst = m.dst
         /\ Older(m).channel = m.channel
<1> DEFINE w == m.age + 1
           age == IF w < StarvationThreshold THEN w ELSE StarvationThreshold
           warned == m.warned \/ w >= StarvationThreshold
<1>1. age \in Nat /\ warned \in BOOLEAN
  BY ConfigAssumption DEF Message
<1>2. Older(m) = [m EXCEPT !.age = age, !.warned = warned]
  BY DEF Older
<1> HIDE DEF age, warned
<1>3. QED
  BY <1>1, <1>2 DEF Message

\* The scan from ptr reaches every port within N steps.
LEMMA DistanceBound ==
  ASSUME NEW ptr \in Port, NEW p \in Port
  PROVE  Distance(ptr, p, N) \in 0 .. N - 1
BY ConfigAssumption DEF Distance, Port

\* A queue whose messages have waited a cycle is the same queue, but for the
\* ages and warnings.
LEMMA OlderQueue ==
  ASSUME NEW q \in Seq(Message)
  PROVE  LET r == [i \in DOMAIN q |-> Older(q[i])] IN
         /\ r \in Seq(Message)
         /\ Len(r) = Len(q)
         /\ \A i \in DOMAIN q : r[i] = Older(q[i])
<1> DEFINE r == [i \in DOMAIN q |-> Older(q[i])]
<1>1. DOMAIN q = 1 .. Len(q) /\ Len(q) \in Nat
  OBVIOUS
<1>2. \A i \in 1 .. Len(q) : q[i] \in Message
  OBVIOUS
<1>3. \A i \in 1 .. Len(q) : Older(q[i]) \in Message
  BY <1>2, OlderMessage
<1>4. r \in [1 .. Len(q) -> Message]
  BY <1>1, <1>3
<1>5. r \in Seq(Message) /\ Len(r) = Len(q)
  BY <1>1, <1>4
<1>6. QED
  BY <1>5

\* The counter of starvation warnings stays a natural number.
LEMMA NewlyStarvedFinite ==
  ASSUME NEW q \in Seq(Message)
  PROVE  Cardinality(NewlyStarved(q)) \in Nat
<1>1. NewlyStarved(q) \in SUBSET (1 .. Len(q))
  BY DEF NewlyStarved
<1>2. IsFiniteSet(1 .. Len(q))
  BY FS_Interval
<1>3. QED
  BY <1>1, <1>2, FS_Subset, FS_CardinalityType

\* What Wait does to every queue.
LEMMA WaitFacts ==
  ASSUME NEW Q \in [Port -> Seq(Message)], Wait(Q), starved \in [Port -> Nat]
  PROVE  /\ pending' \in [Port -> Seq(Message)]
         /\ starved' \in [Port -> Nat]
         /\ \A p \in Port :
              /\ Len(pending'[p]) = Len(Q[p])
              /\ DOMAIN pending'[p] = DOMAIN Q[p]
              /\ \A i \in DOMAIN Q[p] :
                   /\ pending'[p][i].id = Q[p][i].id
                   /\ pending'[p][i].src = Q[p][i].src
                   /\ pending'[p][i].dst = Q[p][i].dst
                   /\ pending'[p][i].channel = Q[p][i].channel
<1>1. ASSUME NEW p \in Port
      PROVE  /\ pending'[p] \in Seq(Message)
             /\ Len(pending'[p]) = Len(Q[p])
             /\ DOMAIN pending'[p] = DOMAIN Q[p]
             /\ \A i \in DOMAIN Q[p] :
                   /\ pending'[p][i].id = Q[p][i].id
                   /\ pending'[p][i].src = Q[p][i].src
                   /\ pending'[p][i].dst = Q[p][i].dst
                   /\ pending'[p][i].channel = Q[p][i].channel
  <2> DEFINE q == Q[p]
  <2>1. q \in Seq(Message)
    OBVIOUS
  <2>2. pending'[p] = [i \in DOMAIN q |-> Older(q[i])]
    BY DEF Wait
  <2>3. /\ pending'[p] \in Seq(Message)
        /\ Len(pending'[p]) = Len(q)
        /\ \A i \in DOMAIN q : pending'[p][i] = Older(q[i])
    BY <2>1, <2>2, OlderQueue
  <2>4. \A i \in DOMAIN q : q[i] \in Message
    BY <2>1
  <2>5. QED
    BY <2>2, <2>3, <2>4, OlderMessage
<1>2. pending' = [p \in Port |-> pending'[p]]
  BY DEF Wait
<1>3. \A p \in Port : Cardinality(NewlyStarved(Q[p])) \in Nat
  BY NewlyStarvedFinite
<1>4. starved' \in [Port -> Nat]
  BY <1>3 DEF Wait
<1>5. QED
  BY <1>1, <1>2, <1>4

\* Whose front competes for the bus depends only on the channels of the fronts.
LEMMA SameContenders ==
  ASSUME pending \in [Port -> Seq(Message)],
         pending' \in [Port -> Seq(Message)],
         \A q \in Port :
           /\ Len(pending'[q]) = Len(pending[q])
           /\ DOMAIN pending'[q] = DOMAIN pending[q]
           /\ \A i \in DOMAIN pending[q] : pending'[q][i].channel = pending[q][i].channel
  PROVE  \A c \in Channel : Contenders(c)' = Contenders(c)
<1>1. ASSUME NEW q \in Port
      PROVE  /\ pending'[q] # <<>> <=> pending[q] # <<>>
             /\ pending[q] # <<>> => Head(pending'[q]).channel = Head(pending[q]).channel
  <2>1. pending[q] \in Seq(Message) /\ pending'[q] \in Seq(Message)
    OBVIOUS
  <2>2. pending[q] # <<>> => 1 \in DOMAIN pending[q]
    BY <2>1
  <2>3. QED
    BY <2>1, <2>2
<1>2. QED
  BY <1>1 DEF Contenders

\* An id is held for port d and channel c if a message with that id and
\* address is queued, on the bus or arrived.
QueueHolds(x, d, c) ==
  \E p \in Port : \E i \in DOMAIN pending[p] :
    pending[p][i].id = x /\ pending[p][i].dst = d /\ pending[p][i].channel = c
BusHolds(x, d, c) ==
  \E i \in DOMAIN active :
    active[i].id = x /\ active[i].dst = d /\ active[i].channel = c
InboxHolds(x, d, c) == \E i \in DOMAIN inbox[d][c] : inbox[d][c][i].id = x

\* The three places a held message can be in, now and after a step.
LEMMA HeldMember ==
  ASSUME NEW d \in Port, NEW c \in Channel, NEW x
  PROVE  /\ x \in Held(d, c) <=> QueueHolds(x, d, c) \/ BusHolds(x, d, c) \/ InboxHolds(x, d, c)
         /\ x \in Held(d, c)' <=>
              QueueHolds(x, d, c)' \/ BusHolds(x, d, c)' \/ InboxHolds(x, d, c)'
BY DEF Held, Addressed, UnderWay, Queued, OnBus, Arrived, QueueHolds, BusHolds, InboxHolds

\* The id of a held message is that of an accepted message, so finitely many
\* ids are held.
LEMMA HeldAccepted ==
  ASSUME IInv, NEW d \in Port, NEW c \in Channel
  PROVE  /\ \A x \in Held(d, c) : x \in 1 .. accepted
         /\ IsFiniteSet(Held(d, c))
<1>1. ASSUME NEW x \in Held(d, c) PROVE x \in 1 .. accepted
  BY HeldMember DEF IInv, IdsAccepted, QueueHolds, BusHolds, InboxHolds
<1>2. IsFiniteSet(1 .. accepted)
  BY FS_Interval DEF IInv, TypeOK
<1>3. QED
  BY <1>1, <1>2, FS_Subset

\* A step that changes neither the counter nor the held messages keeps the
\* account of a port and channel.
LEMMA CreditKept ==
  ASSUME IInv, NEW e \in Port, NEW k \in Channel,
         reserved'[e][k] = reserved[e][k],
         \A x : x \in Held(e, k)' <=> x \in Held(e, k)
  PROVE  /\ reserved'[e][k] = Cardinality(Held(e, k)')
         /\ ReceiveSlots # 0 => reserved'[e][k] <= ReceiveSlots
<1>1. Held(e, k)' = Held(e, k)
  OBVIOUS
<1>2. QED
  BY <1>1 DEF IInv, CreditConservation

-------------------------------------------------------------------------------
(***************************************************************************)
(* The invariant holds initially.                                          *)
(***************************************************************************)
LEMMA InitIInv == Init => IInv
<1> SUFFICES ASSUME Init PROVE IInv
  OBVIOUS
<1> USE ConfigAssumption
<1>1. 0 \in Port
  BY DEF Port
<1>2. TypeOK
  BY <1>1 DEF Init, TypeOK
<1>3. ActiveShape
  BY DEF Init, ActiveShape
<1>4. /\ QueuedAtSource /\ ArrivedAtDestination
      /\ IdsAccepted /\ QueuesInOrder /\ BusBeforeQueue
  BY DEF Init, QueuedAtSource, ArrivedAtDestination, IdsAccepted, QueuesInOrder, BusBeforeQueue
<1>5. OneCopy
  BY DEF Init, OneCopy, QueuesApart, InboxesApart, QueueInboxApart, QueueBusApart, InboxBusApart
<1>6. OvertakenIsWaiting
  BY DEF Init, OvertakenIsWaiting
<1>7. CreditConservation
  <2> SUFFICES ASSUME NEW d \in Port, NEW c \in Channel
               PROVE  /\ reserved[d][c] = Cardinality(Held(d, c))
                      /\ ReceiveSlots # 0 => reserved[d][c] <= ReceiveSlots
    BY DEF CreditConservation
  <2>1. Held(d, c) = {}
    BY HeldMember DEF Init, QueueHolds, BusHolds, InboxHolds
  <2>2. reserved[d][c] = 0
    BY DEF Init
  <2>3. QED
    BY <2>1, <2>2, FS_EmptySet
<1>8. BoundedOvertaking
  BY DEF Init, BoundedOvertaking, Contenders
<1>9. QED
  BY <1>2, <1>3, <1>4, <1>5, <1>6, <1>7, <1>8 DEF IInv

-------------------------------------------------------------------------------
(***************************************************************************)
(* An accepted send adds one message, with a new id, to one queue.         *)
(***************************************************************************)
LEMMA SendIInv ==
  ASSUME IInv, NEW p \in Port, NEW d \in Port, NEW c \in Channel, Send(p, d, c)
  PROVE  IInv'
<1> DEFINE m == [id |-> accepted + 1, src |-> p, dst |-> d, channel |-> c,
                 age |-> 0, warned |-> FALSE]
           n == Len(pending[p]) + 1
<1> USE ConfigAssumption
<1>1. TypeOK
  BY DEF IInv
<1>2. /\ accepted' = accepted + 1
      /\ pending' = [pending EXCEPT ![p] = Append(@, m)]
      /\ reserved' = [reserved EXCEPT ![d][c] = @ + 1]
      /\ HasCredit(d, c)
      /\ active' = active /\ remaining' = remaining /\ inbox' = inbox
      /\ next' = next /\ starved' = starved /\ overtaken' = overtaken
  BY DEF Send
<1>3. /\ m \in Message
      /\ m.id = accepted + 1 /\ m.src = p /\ m.dst = d /\ m.channel = c
      /\ accepted \in Nat
  BY <1>1 DEF TypeOK, Message
<1> HIDE DEF m
<1>4. /\ pending' \in [Port -> Seq(Message)]
      /\ n \in Nat /\ n \in DOMAIN pending'[p] /\ pending'[p][n] = m
      /\ \A q \in Port : \A i \in DOMAIN pending[q] :
           /\ i \in DOMAIN pending'[q] /\ pending'[q][i] = pending[q][i]
           /\ i \in Nat /\ (q = p => i < n)
      /\ \A q \in Port : \A i \in DOMAIN pending'[q] :
           \/ q = p /\ i = n
           \/ i \in DOMAIN pending[q] /\ pending'[q][i] = pending[q][i]
  <2>1. /\ \A q \in Port : pending[q] \in Seq(Message)
        /\ pending'[p] = Append(pending[p], m)
        /\ \A q \in Port : q # p => pending'[q] = pending[q]
        /\ pending' \in [Port -> Seq(Message)]
    <3>1. pending \in [Port -> Seq(Message)]
      BY <1>1 DEF TypeOK
    <3>2. pending[p] \in Seq(Message) /\ Append(pending[p], m) \in Seq(Message)
      BY <1>3, <3>1, AppendProperties
    <3>3. pending' = [pending EXCEPT ![p] = Append(pending[p], m)]
      BY <1>2
    <3>4. QED
      BY <3>1, <3>2, <3>3
  <2>2. /\ Len(pending[p]) \in Nat
        /\ DOMAIN pending'[p] = 1 .. n
        /\ DOMAIN pending[p] = 1 .. Len(pending[p])
        /\ pending'[p][n] = m
        /\ \A i \in 1 .. Len(pending[p]) : pending'[p][i] = pending[p][i]
    BY <1>3, <2>1, AppendProperties, LenProperties
  <2>3. n \in Nat /\ n \in DOMAIN pending'[p]
    BY <2>2
  <2>4. \A q \in Port : \A i \in DOMAIN pending[q] : i \in Nat
    BY <2>1
  <2>5. ASSUME NEW q \in Port, NEW i \in DOMAIN pending[q]
        PROVE  i \in DOMAIN pending'[q] /\ pending'[q][i] = pending[q][i] /\ (q = p => i < n)
    <3>1. CASE q # p
      BY <2>1, <3>1
    <3>2. CASE q = p
      <4>1. i \in 1 .. Len(pending[p])
        BY <2>2, <3>2
      <4>2. i \in 1 .. n /\ i < n
        BY <2>2, <4>1
      <4>3. QED
        BY <2>2, <3>2, <4>1, <4>2
    <3>3. QED
      BY <3>1, <3>2
  <2>6. ASSUME NEW q \in Port, NEW i \in DOMAIN pending'[q]
        PROVE  \/ q = p /\ i = n
               \/ i \in DOMAIN pending[q] /\ pending'[q][i] = pending[q][i]
    <3>1. CASE q # p
      BY <2>1, <3>1
    <3>2. CASE q = p /\ i # n
      <4>1. i \in 1 .. Len(pending[p])
        BY <2>2, <3>2
      <4>2. QED
        BY <2>2, <3>2, <4>1
    <3>3. QED
      BY <3>1, <3>2
  <2>7. QED
    BY <2>1, <2>2, <2>3, <2>4, <2>5, <2>6
<1> HIDE DEF n
<1>5. /\ \A q \in Port : \A i \in DOMAIN pending[q] : pending[q][i].id \in 1 .. accepted
      /\ \A i \in DOMAIN active : active[i].id \in 1 .. accepted
      /\ \A e \in Port, k \in Channel : \A i \in DOMAIN inbox[e][k] :
           inbox[e][k][i].id \in 1 .. accepted
  BY DEF IInv, IdsAccepted
<1>6. TypeOK'
  <2>1. reserved' \in [Port -> [Channel -> Nat]]
    <3>1. reserved \in [Port -> [Channel -> Nat]]
      BY <1>1 DEF TypeOK
    <3>2. reserved[d][c] + 1 \in Nat
      BY <3>1
    <3>3. reserved' = [reserved EXCEPT ![d] = [reserved[d] EXCEPT ![c] = reserved[d][c] + 1]]
      BY <1>2
    <3>4. [reserved[d] EXCEPT ![c] = reserved[d][c] + 1] \in [Channel -> Nat]
      BY <3>1, <3>2
    <3>5. QED
      BY <3>1, <3>3, <3>4
  <2>2. accepted' \in Nat
    BY <1>2, <1>3
  <2>3. QED
    BY <1>1, <1>2, <1>4, <2>1, <2>2 DEF TypeOK
<1>7. ActiveShape' /\ ArrivedAtDestination'
  BY <1>2 DEF IInv, ActiveShape, ArrivedAtDestination
<1>8. QueuedAtSource'
  <2>1. ASSUME NEW q \in Port, NEW i \in DOMAIN pending'[q]
        PROVE  pending'[q][i].src = q
    BY <1>3, <1>4 DEF IInv, QueuedAtSource
  <2>2. QED
    BY <2>1 DEF QueuedAtSource
<1>9. IdsAccepted'
  <2>1. ASSUME NEW q \in Port, NEW i \in DOMAIN pending'[q]
        PROVE  pending'[q][i].id \in 1 .. accepted'
    BY <1>2, <1>3, <1>4, <1>5
  <2>2. 1 .. accepted \subseteq 1 .. accepted'
    BY <1>2, <1>3
  <2>3. /\ \A i \in DOMAIN active' : active'[i].id \in 1 .. accepted'
        /\ \A e \in Port, k \in Channel : \A i \in DOMAIN inbox'[e][k] :
             inbox'[e][k][i].id \in 1 .. accepted'
    <3>1. active' = active /\ inbox' = inbox
      BY <1>2
    <3>2. QED
      BY <1>5, <2>2, <3>1
  <2>4. QED
    BY <2>1, <2>3 DEF IdsAccepted
<1>10. QueuesInOrder'
  <2>1. ASSUME NEW q \in Port, NEW i \in DOMAIN pending'[q], NEW j \in DOMAIN pending'[q], i < j
        PROVE  pending'[q][i].id < pending'[q][j].id
    <3>1. CASE j \in DOMAIN pending[q]
      <4>1. i \in DOMAIN pending[q]
        BY <1>4, <2>1, <3>1
      <4>2. pending[q][i].id < pending[q][j].id
        BY <2>1, <3>1, <4>1 DEF IInv, QueuesInOrder
      <4>3. QED
        BY <1>4, <3>1, <4>1, <4>2
    <3>2. CASE j \notin DOMAIN pending[q]
      <4>1. q = p /\ j = n
        BY <1>4, <3>2
      <4>2. i \in DOMAIN pending[q]
        BY <1>4, <2>1, <4>1
      <4>3. QED
        BY <1>3, <1>4, <1>5, <4>1, <4>2
    <3>3. QED
      BY <3>1, <3>2
  <2>2. QED
    BY <2>1 DEF QueuesInOrder
<1>11. BusBeforeQueue'
  <2>1. ASSUME NEW q \in Port, NEW i \in DOMAIN pending'[q], NEW j \in DOMAIN active,
               active[j].src = q
        PROVE  active[j].id < pending'[q][i].id
    <3>1. CASE i \in DOMAIN pending[q]
      BY <1>4, <2>1, <3>1 DEF IInv, BusBeforeQueue
    <3>2. CASE i \notin DOMAIN pending[q]
      BY <1>3, <1>4, <1>5, <3>2
    <3>3. QED
      BY <3>1, <3>2
  <2>2. QED
    BY <1>2, <2>1 DEF BusBeforeQueue
<1>12. OneCopy'
  <2>1. ASSUME NEW q \in Port, NEW i \in DOMAIN pending'[q]
        PROVE  \/ q = p /\ pending'[q][i].id = accepted + 1
               \/ i \in DOMAIN pending[q] /\ pending'[q][i].id = pending[q][i].id
    BY <1>3, <1>4
  <2>2. /\ \A q \in Port : \A i \in DOMAIN pending[q] : pending[q][i].id # accepted + 1
        /\ \A i \in DOMAIN active : active[i].id # accepted + 1
        /\ \A e \in Port, k \in Channel : \A i \in DOMAIN inbox[e][k] :
             inbox[e][k][i].id # accepted + 1
    BY <1>3, <1>5
  <2>3. QueuesApart'
    BY <2>1, <2>2 DEF IInv, OneCopy, QueuesApart
  <2>4. QueueInboxApart'
    BY <1>2, <2>1, <2>2 DEF IInv, OneCopy, QueueInboxApart
  <2>5. QueueBusApart'
    BY <1>2, <2>1, <2>2 DEF IInv, OneCopy, QueueBusApart
  <2>6. InboxesApart' /\ InboxBusApart'
    BY <1>2 DEF IInv, OneCopy, InboxesApart, InboxBusApart
  <2>7. QED
    BY <2>3, <2>4, <2>5, <2>6 DEF OneCopy
<1>13. ASSUME NEW q \in Port
       PROVE  q \in Contenders(Request) => q \in Contenders(Request)'
  <2>1. pending[q] \in Seq(Message) /\ pending'[q] \in Seq(Message)
    BY <1>1, <1>4 DEF TypeOK
  <2>2. pending[q] # <<>> => pending'[q] # <<>> /\ pending'[q][1] = pending[q][1]
    BY <1>4, <2>1
  <2>3. QED
    BY <2>1, <2>2 DEF Contenders
<1>14. OvertakenIsWaiting'
  BY <1>2, <1>13 DEF IInv, OvertakenIsWaiting
<1>15. CreditConservation'
  <2> SUFFICES ASSUME NEW e \in Port, NEW k \in Channel
               PROVE  /\ reserved'[e][k] = Cardinality(Held(e, k)')
                      /\ ReceiveSlots # 0 => reserved'[e][k] <= ReceiveSlots
    BY DEF CreditConservation
  <2>1. ASSUME NEW x
        PROVE  /\ BusHolds(x, e, k)' <=> BusHolds(x, e, k)
               /\ InboxHolds(x, e, k)' <=> InboxHolds(x, e, k)
    BY <1>2 DEF BusHolds, InboxHolds
  <2>2. ASSUME NEW x
        PROVE  QueueHolds(x, e, k)' <=>
                 QueueHolds(x, e, k) \/ (x = accepted + 1 /\ e = d /\ k = c)
    BY <1>3, <1>4 DEF QueueHolds
  <2>3. CASE e = d /\ k = c
    <3>1. \A x : x \in Held(e, k)' <=> x \in Held(e, k) \/ x = accepted + 1
      BY <2>1, <2>2, <2>3, HeldMember
    <3>2. Held(e, k)' = Held(e, k) \cup {accepted + 1}
      BY <3>1
    <3>3. IsFiniteSet(Held(e, k)) /\ accepted + 1 \notin Held(e, k)
      BY <1>3, HeldAccepted
    <3>4. Cardinality(Held(e, k)') = Cardinality(Held(e, k)) + 1
      BY <3>2, <3>3, FS_AddElement
    <3>5. reserved'[e][k] = reserved[e][k] + 1 /\ reserved[e][k] \in Nat
      BY <1>1, <1>2, <2>3 DEF TypeOK
    <3>6. ReceiveSlots # 0 => reserved[e][k] < ReceiveSlots
      BY <1>2, <2>3 DEF HasCredit
    <3>7. reserved[e][k] = Cardinality(Held(e, k))
      BY DEF IInv, CreditConservation
    <3>8. QED
      BY <3>4, <3>5, <3>6, <3>7
  <2>4. CASE ~(e = d /\ k = c)
    <3>1. \A x : x \in Held(e, k)' <=> x \in Held(e, k)
      BY <2>1, <2>2, <2>4, HeldMember
    <3>2. reserved'[e][k] = reserved[e][k]
      BY <1>1, <1>2, <2>4 DEF TypeOK
    <3>3. QED
      BY <3>1, <3>2, CreditKept
  <2>5. QED
    BY <2>3, <2>4
<1>16. BoundedOvertaking'
  <2> SUFFICES ASSUME ~FixedPriority, NEW q \in Contenders(Request)'
               PROVE  overtaken'[q] + Distance(next', q, N) <= N - 1
    BY DEF BoundedOvertaking
  <2>1. q \in Port
    BY DEF Contenders
  <2>2. CASE q \in Contenders(Request)
    BY <1>2, <2>2 DEF IInv, BoundedOvertaking
  <2>3. CASE q \notin Contenders(Request)
    <3>1. overtaken[q] = 0
      BY <1>1, <2>1, <2>3 DEF IInv, OvertakenIsWaiting, TypeOK
    <3>2. next' \in Port
      BY <1>6 DEF TypeOK
    <3>3. QED
      BY <1>2, <2>1, <3>1, <3>2, DistanceBound
  <2>4. QED
    BY <2>2, <2>3
<1>17. QED
  BY <1>6, <1>7, <1>8, <1>9, <1>10, <1>11, <1>12, <1>14, <1>15, <1>16 DEF IInv

(***************************************************************************)
(* A receive takes the front message out of one inbox.                     *)
(***************************************************************************)
LEMMA RecvIInv ==
  ASSUME IInv, NEW p \in Port, NEW c \in Channel, Recv(p, c)
  PROVE  IInv'
<1> DEFINE id == inbox[p][c][1].id
<1> USE ConfigAssumption
<1>1. TypeOK
  BY DEF IInv
<1>2. /\ inbox[p][c] # <<>>
      /\ inbox' = [inbox EXCEPT ![p][c] = Tail(@)]
      /\ reserved' = [reserved EXCEPT ![p][c] = @ - 1]
      /\ pending' = pending /\ active' = active /\ remaining' = remaining /\ next' = next
      /\ accepted' = accepted /\ starved' = starved /\ overtaken' = overtaken
  BY DEF Recv, CanRecv
<1>3. /\ inbox' \in [Port -> [Channel -> Seq(Message)]]
      /\ 1 \in DOMAIN inbox[p][c]
      /\ \A e \in Port, k \in Channel : e # p \/ k # c => inbox'[e][k] = inbox[e][k]
      /\ \A i \in DOMAIN inbox'[p][c] :
           /\ i \in Nat \ {0}
           /\ i + 1 \in DOMAIN inbox[p][c] /\ inbox'[p][c][i] = inbox[p][c][i + 1]
      /\ \A i \in DOMAIN inbox[p][c] :
           i # 1 => i - 1 \in DOMAIN inbox'[p][c] /\ inbox'[p][c][i - 1] = inbox[p][c][i]
  <2> DEFINE q == inbox[p][c]
             r == inbox'[p][c]
  <2>1. /\ q \in Seq(Message) /\ q # <<>> /\ r = Tail(q)
        /\ \A e \in Port, k \in Channel : e # p \/ k # c => inbox'[e][k] = inbox[e][k]
        /\ inbox' \in [Port -> [Channel -> Seq(Message)]]
    BY <1>1, <1>2 DEF TypeOK
  <2> HIDE DEF q, r
  <2>2. /\ DOMAIN q = 1 .. Len(q)
        /\ Len(q) \in Nat \ {0}
        /\ DOMAIN r = 1 .. Len(q) - 1
        /\ \A i \in 1 .. Len(q) - 1 : r[i] = q[i + 1]
    BY <2>1
  <2>3. /\ 1 \in DOMAIN q
        /\ \A i \in DOMAIN r : i \in Nat \ {0} /\ i + 1 \in DOMAIN q /\ r[i] = q[i + 1]
        /\ \A i \in DOMAIN q : i # 1 => i - 1 \in DOMAIN r /\ r[i - 1] = q[i]
    BY <2>2
  <2>4. QED
    BY <2>1, <2>3 DEF q, r
<1>4. \A e \in Port, k \in Channel : \A i \in DOMAIN inbox'[e][k] :
        \E j \in DOMAIN inbox[e][k] :
          /\ inbox'[e][k][i] = inbox[e][k][j]
          /\ j = IF e = p /\ k = c THEN i + 1 ELSE i
  BY <1>3
<1>5. Held(p, c)' = Held(p, c) \ {id} /\ id \in Held(p, c)
  <2>1. id \in Held(p, c)
    BY <1>3, HeldMember DEF InboxHolds
  <2>2. ASSUME NEW x
        PROVE  /\ BusHolds(x, p, c)' <=> BusHolds(x, p, c)
               /\ QueueHolds(x, p, c)' <=> QueueHolds(x, p, c)
    BY <1>2 DEF BusHolds, QueueHolds
  <2>3. ~BusHolds(id, p, c) /\ ~QueueHolds(id, p, c)
    BY <1>3 DEF IInv, OneCopy, InboxBusApart, QueueInboxApart, BusHolds, QueueHolds
  <2>4. ASSUME NEW x
        PROVE  InboxHolds(x, p, c)' <=> InboxHolds(x, p, c) /\ x # id
    <3>1. ASSUME NEW i \in DOMAIN inbox'[p][c] PROVE inbox'[p][c][i].id # id
      <4>1. i + 1 \in DOMAIN inbox[p][c] /\ i + 1 # 1 /\ inbox'[p][c][i] = inbox[p][c][i + 1]
        BY <1>3
      <4>2. inbox[p][c][i + 1].id # id
        BY <1>3, <4>1 DEF IInv, OneCopy, InboxesApart
      <4>3. QED
        BY <4>1, <4>2
    <3>2. InboxHolds(x, p, c)' => InboxHolds(x, p, c) /\ x # id
      BY <1>4, <3>1 DEF InboxHolds
    <3>3. ASSUME NEW i \in DOMAIN inbox[p][c], inbox[p][c][i].id = x, x # id
          PROVE  InboxHolds(x, p, c)'
      <4>1. i - 1 \in DOMAIN inbox'[p][c] /\ inbox'[p][c][i - 1].id = x
        BY <1>3, <3>3
      <4>2. QED
        BY <4>1 DEF InboxHolds
    <3>4. QED
      BY <3>2, <3>3 DEF InboxHolds
  <2>5. \A x : x \in Held(p, c)' <=> x \in Held(p, c) /\ x # id
    BY <2>2, <2>3, <2>4, HeldMember
  <2>6. QED
    BY <2>1, <2>5
<1> HIDE DEF id
<1>6. /\ Cardinality(Held(p, c)') = Cardinality(Held(p, c)) - 1
      /\ Cardinality(Held(p, c)') \in Nat
  <2> DEFINE H == Held(p, c)
  <2>1. IsFiniteSet(H) /\ id \in H
    BY <1>5, HeldAccepted
  <2> HIDE DEF H
  <2>2. IsFiniteSet(H \ {id}) /\ Cardinality(H \ {id}) = Cardinality(H) - 1
    BY <2>1, FS_RemoveElement
  <2>3. Cardinality(H \ {id}) \in Nat
    BY <2>2, FS_CardinalityType
  <2>4. QED
    BY <1>5, <2>2, <2>3 DEF H
<1>7. reserved[p][c] = Cardinality(Held(p, c)) /\ reserved[p][c] \in Nat
  BY <1>1 DEF IInv, CreditConservation, TypeOK
<1>8. CreditConservation'
  <2> SUFFICES ASSUME NEW e \in Port, NEW k \in Channel
               PROVE  /\ reserved'[e][k] = Cardinality(Held(e, k)')
                      /\ ReceiveSlots # 0 => reserved'[e][k] <= ReceiveSlots
    BY DEF CreditConservation
  <2>1. CASE e = p /\ k = c
    <3>1. reserved'[e][k] = reserved[e][k] - 1
      BY <1>1, <1>2, <2>1 DEF TypeOK
    <3>2. ReceiveSlots # 0 => reserved[e][k] <= ReceiveSlots
      BY DEF IInv, CreditConservation
    <3>3. QED
      BY <1>6, <1>7, <2>1, <3>1, <3>2
  <2>2. CASE ~(e = p /\ k = c)
    <3>1. inbox'[e][k] = inbox[e][k]
      BY <1>3, <2>2
    <3>2. reserved'[e][k] = reserved[e][k]
      <4>1. reserved \in [Port -> [Channel -> Nat]]
        BY <1>1 DEF TypeOK
      <4>2. QED
        BY <1>2, <2>2, <4>1
    <3>3. ASSUME NEW x
          PROVE  /\ BusHolds(x, e, k)' <=> BusHolds(x, e, k)
                 /\ QueueHolds(x, e, k)' <=> QueueHolds(x, e, k)
                 /\ InboxHolds(x, e, k)' <=> InboxHolds(x, e, k)
      BY <1>2, <3>1 DEF BusHolds, QueueHolds, InboxHolds
    <3>4. \A x : x \in Held(e, k)' <=> x \in Held(e, k)
      BY <3>3, HeldMember
    <3>5. QED
      BY <3>2, <3>4, CreditKept
  <2>3. QED
    BY <2>1, <2>2
<1>9. TypeOK'
  <2>1. reserved[p][c] - 1 \in Nat
    BY <1>6, <1>7
  <2>2. reserved' \in [Port -> [Channel -> Nat]]
    BY <1>1, <1>2, <2>1 DEF TypeOK
  <2>3. QED
    BY <1>1, <1>2, <1>3, <2>2 DEF TypeOK
<1>10. ActiveShape' /\ OvertakenIsWaiting' /\ BoundedOvertaking'
  BY <1>2 DEF IInv, ActiveShape, OvertakenIsWaiting, BoundedOvertaking, Contenders
<1>11. QueuedAtSource' /\ QueuesInOrder' /\ BusBeforeQueue'
  BY <1>2 DEF IInv, QueuedAtSource, QueuesInOrder, BusBeforeQueue
<1>12. ArrivedAtDestination'
  BY <1>4 DEF IInv, ArrivedAtDestination
<1>13. IdsAccepted'
  <2>1. \A e \in Port, k \in Channel : \A i \in DOMAIN inbox'[e][k] :
          inbox'[e][k][i].id \in 1 .. accepted
    BY <1>4 DEF IInv, IdsAccepted
  <2>2. QED
    BY <1>2, <2>1 DEF IInv, IdsAccepted
<1>14. OneCopy'
  <2>1. ASSUME NEW d \in Port, NEW e \in Port, NEW k \in Channel, NEW l \in Channel,
               NEW i \in DOMAIN inbox'[d][k], NEW j \in DOMAIN inbox'[e][l],
               inbox'[d][k][i].id = inbox'[e][l][j].id
        PROVE  d = e /\ k = l /\ i = j
    <3>1. PICK ii \in DOMAIN inbox[d][k] :
            inbox'[d][k][i] = inbox[d][k][ii] /\ ii = IF d = p /\ k = c THEN i + 1 ELSE i
      BY <1>4
    <3>2. PICK jj \in DOMAIN inbox[e][l] :
            inbox'[e][l][j] = inbox[e][l][jj] /\ jj = IF e = p /\ l = c THEN j + 1 ELSE j
      BY <1>4
    <3>3. d = e /\ k = l /\ ii = jj
      BY <2>1, <3>1, <3>2 DEF IInv, OneCopy, InboxesApart
    <3>4. i \in Nat /\ j \in Nat
      BY <1>3 DEF TypeOK
    <3>5. QED
      BY <3>1, <3>2, <3>3, <3>4
  <2>2. InboxesApart'
    BY <2>1 DEF InboxesApart
  <2>3. QueueInboxApart'
    <3>1. QueueInboxApart
      BY DEF IInv, OneCopy
    <3>2. QED
      BY <1>2, <1>4, <3>1 DEF QueueInboxApart
  <2>4. InboxBusApart'
    BY <1>2, <1>4 DEF IInv, OneCopy, InboxBusApart
  <2>5. QueuesApart' /\ QueueBusApart'
    BY <1>2 DEF IInv, OneCopy, QueuesApart, QueueBusApart
  <2>6. QED
    BY <2>2, <2>3, <2>4, <2>5 DEF OneCopy
<1>15. QED
  BY <1>8, <1>9, <1>10, <1>11, <1>12, <1>13, <1>14 DEF IInv

-------------------------------------------------------------------------------
(***************************************************************************)
(* Cycles.  In every cycle the queues keep their messages, in their order, *)
(* except that a grant takes one front message away: element i of queue q  *)
(* is the former element i + s[q].                                         *)
(***************************************************************************)
SameAddress(m, k) ==
  m.id = k.id /\ m.src = k.src /\ m.dst = k.dst /\ m.channel = k.channel

Shifted(s) ==
  \A q \in Port : \A i \in DOMAIN pending'[q] :
    /\ i \in Nat
    /\ i + s[q] \in DOMAIN pending[q]
    /\ SameAddress(pending'[q][i], pending[q][i + s[q]])

\* What only concerns the queues survives every cycle.
LEMMA ShiftedQueues ==
  ASSUME IInv, NEW s \in [Port -> Nat], Shifted(s)
  PROVE  /\ QueuedAtSource' /\ QueuesInOrder' /\ QueuesApart'
         /\ \A q \in Port : \A i \in DOMAIN pending'[q] : pending'[q][i].id \in 1 .. accepted
<1>1. QueuedAtSource'
  BY DEF IInv, QueuedAtSource, Shifted, SameAddress
<1>2. QueuesInOrder'
  <2>1. ASSUME NEW q \in Port, NEW i \in DOMAIN pending'[q], NEW j \in DOMAIN pending'[q], i < j
        PROVE  pending'[q][i].id < pending'[q][j].id
    <3>1. /\ i \in Nat /\ j \in Nat /\ s[q] \in Nat
          /\ i + s[q] \in DOMAIN pending[q] /\ j + s[q] \in DOMAIN pending[q]
          /\ pending'[q][i].id = pending[q][i + s[q]].id
          /\ pending'[q][j].id = pending[q][j + s[q]].id
      BY DEF Shifted, SameAddress
    <3>2. i + s[q] < j + s[q]
      BY <2>1, <3>1
    <3>3. QED
      BY <3>1, <3>2 DEF IInv, QueuesInOrder
  <2>2. QED
    BY <2>1 DEF QueuesInOrder
<1>3. QueuesApart'
  BY DEF IInv, OneCopy, QueuesApart, Shifted, SameAddress
<1>4. QED
  BY <1>1, <1>2, <1>3 DEF IInv, IdsAccepted, Shifted, SameAddress

(***************************************************************************)
(* A cycle in the middle of a transfer only ages the waiting messages.     *)
(***************************************************************************)
LEMMA TransferIInv ==
  ASSUME IInv, Transfer
  PROVE  IInv'
<1> DEFINE s == [q \in Port |-> 0]
<1> USE ConfigAssumption
<1>1. TypeOK
  BY DEF IInv
<1>2. /\ active # <<>> /\ remaining > 1 /\ remaining' = remaining - 1 /\ Wait(pending)
      /\ active' = active /\ inbox' = inbox /\ reserved' = reserved /\ next' = next
      /\ accepted' = accepted /\ overtaken' = overtaken
  BY DEF Transfer
<1>3. pending \in [Port -> Seq(Message)] /\ starved \in [Port -> Nat]
  BY <1>1 DEF TypeOK
<1>4. /\ pending' \in [Port -> Seq(Message)]
      /\ starved' \in [Port -> Nat]
  BY <1>2, <1>3, WaitFacts
<1>5. ASSUME NEW q \in Port
      PROVE  /\ DOMAIN pending'[q] = DOMAIN pending[q]
             /\ \A i \in DOMAIN pending[q] :
                  i \in Nat /\ SameAddress(pending'[q][i], pending[q][i])
  <2>1. \A i \in DOMAIN pending[q] : i \in Nat
    BY <1>3
  <2>2. QED
    BY <1>2, <1>3, <2>1, WaitFacts DEF SameAddress
<1>6. \A c \in Channel : Contenders(c)' = Contenders(c)
  BY <1>3, <1>4, <1>5, SameContenders DEF SameAddress
<1>7. s \in [Port -> Nat] /\ Shifted(s)
  BY <1>5 DEF Shifted
<1> HIDE DEF s
<1>8. TypeOK'
  BY <1>1, <1>2, <1>4 DEF TypeOK
<1>9. ActiveShape'
  BY <1>1, <1>2 DEF IInv, ActiveShape, TypeOK
<1>10. QueuedAtSource' /\ QueuesInOrder' /\ QueuesApart'
  BY <1>7, ShiftedQueues
<1>11. ArrivedAtDestination'
  BY <1>2 DEF IInv, ArrivedAtDestination
<1>12. IdsAccepted'
  <2>1. \A q \in Port : \A i \in DOMAIN pending'[q] : pending'[q][i].id \in 1 .. accepted
    BY <1>7, ShiftedQueues
  <2>2. QED
    BY <1>2, <2>1 DEF IInv, IdsAccepted
<1>13. BusBeforeQueue'
  BY <1>2, <1>5 DEF IInv, BusBeforeQueue, SameAddress
<1>14. OneCopy'
  <2>1. QueueInboxApart'
    BY <1>2, <1>5 DEF IInv, OneCopy, QueueInboxApart, SameAddress
  <2>2. QueueBusApart'
    BY <1>2, <1>5 DEF IInv, OneCopy, QueueBusApart, SameAddress
  <2>3. InboxesApart' /\ InboxBusApart'
    BY <1>2 DEF IInv, OneCopy, InboxesApart, InboxBusApart
  <2>4. QED
    BY <1>10, <2>1, <2>2, <2>3 DEF OneCopy
<1>15. OvertakenIsWaiting' /\ BoundedOvertaking'
  BY <1>2, <1>6 DEF IInv, OvertakenIsWaiting, BoundedOvertaking, Channel
<1>16. CreditConservation'
  <2> SUFFICES ASSUME NEW e \in Port, NEW k \in Channel
               PROVE  /\ reserved'[e][k] = Cardinality(Held(e, k)')
                      /\ ReceiveSlots # 0 => reserved'[e][k] <= ReceiveSlots
    BY DEF CreditConservation
  <2>1. ASSUME NEW x
        PROVE  /\ BusHolds(x, e, k)' <=> BusHolds(x, e, k)
               /\ InboxHolds(x, e, k)' <=> InboxHolds(x, e, k)
    BY <1>2 DEF BusHolds, InboxHolds
  <2>2. ASSUME NEW x
        PROVE  QueueHolds(x, e, k)' <=> QueueHolds(x, e, k)
    BY <1>5 DEF QueueHolds, SameAddress
  <2>3. \A x : x \in Held(e, k)' <=> x \in Held(e, k)
    BY <2>1, <2>2, HeldMember
  <2>4. QED
    BY <1>2, <2>3, CreditKept
<1>17. QED
  BY <1>8, <1>9, <1>10, <1>11, <1>12, <1>13, <1>14, <1>15, <1>16 DEF IInv

(***************************************************************************)
(* The last cycle of a transfer moves the message from the bus to the      *)
(* inbox of its destination.                                               *)
(***************************************************************************)
LEMMA DeliverIInv ==
  ASSUME IInv, Deliver
  PROVE  IInv'
<1> DEFINE m == active[1]
           n == Len(inbox[m.dst][m.channel]) + 1
           s == [q \in Port |-> 0]
<1> USE ConfigAssumption
<1>1. TypeOK
  BY DEF IInv
<1>2. /\ active # <<>> /\ remaining' = 0 /\ active' = <<>> /\ Wait(pending)
      /\ inbox' = [inbox EXCEPT ![m.dst][m.channel] = Append(@, m)]
      /\ reserved' = reserved /\ next' = next
      /\ accepted' = accepted /\ overtaken' = overtaken
  BY DEF Deliver
<1>3. /\ m \in Message /\ m.dst \in Port /\ m.channel \in Channel
      /\ DOMAIN active = {1}
  <2>1. active \in Seq(Message) /\ Len(active) <= 1 /\ active # <<>>
    BY <1>1, <1>2 DEF IInv, ActiveShape, TypeOK
  <2>2. Len(active) = 1 /\ DOMAIN active = 1 .. Len(active)
    <3>1. Len(active) \in Nat \ {0} /\ DOMAIN active = 1 .. Len(active)
      BY <2>1, EmptySeq, LenProperties
    <3>2. QED
      BY <2>1, <3>1
  <2>3. DOMAIN active = {1}
    BY <2>2
  <2>4. m \in Message
    BY <2>1, <2>2, ElementOfSeq
  <2>5. QED
    BY <2>3, <2>4 DEF Message
<1>4. /\ m.id \in 1 .. accepted
      /\ \A q \in Port : \A i \in DOMAIN pending[q] : pending[q][i].id # m.id
      /\ \A e \in Port, k \in Channel : \A i \in DOMAIN inbox[e][k] : inbox[e][k][i].id # m.id
  BY <1>3 DEF IInv, IdsAccepted, OneCopy, QueueBusApart, InboxBusApart
<1>5. ASSUME NEW x, NEW e \in Port, NEW k \in Channel
      PROVE  BusHolds(x, e, k) <=> x = m.id /\ e = m.dst /\ k = m.channel
  BY <1>3 DEF BusHolds
<1> HIDE DEF m
<1>6. pending \in [Port -> Seq(Message)] /\ starved \in [Port -> Nat]
  BY <1>1 DEF TypeOK
<1>7. /\ pending' \in [Port -> Seq(Message)]
      /\ starved' \in [Port -> Nat]
  BY <1>2, <1>6, WaitFacts
<1>8. ASSUME NEW q \in Port
      PROVE  /\ DOMAIN pending'[q] = DOMAIN pending[q]
             /\ \A i \in DOMAIN pending[q] :
                  i \in Nat /\ SameAddress(pending'[q][i], pending[q][i])
  <2>1. \A i \in DOMAIN pending[q] : i \in Nat
    BY <1>6
  <2>2. QED
    BY <1>2, <1>6, <2>1, WaitFacts DEF SameAddress
<1>9. \A c \in Channel : Contenders(c)' = Contenders(c)
  BY <1>6, <1>7, <1>8, SameContenders DEF SameAddress
<1>10. s \in [Port -> Nat] /\ Shifted(s)
  BY <1>8 DEF Shifted
<1> HIDE DEF s
<1>11. /\ inbox' \in [Port -> [Channel -> Seq(Message)]]
       /\ n \in DOMAIN inbox'[m.dst][m.channel] /\ inbox'[m.dst][m.channel][n] = m
       /\ \A e \in Port, k \in Channel : \A i \in DOMAIN inbox[e][k] :
            i \in DOMAIN inbox'[e][k] /\ inbox'[e][k][i] = inbox[e][k][i]
       /\ \A e \in Port, k \in Channel : \A i \in DOMAIN inbox'[e][k] :
            \/ e = m.dst /\ k = m.channel /\ i = n
            \/ i \in DOMAIN inbox[e][k] /\ inbox'[e][k][i] = inbox[e][k][i]
  <2> DEFINE q == inbox[m.dst][m.channel]
             r == inbox'[m.dst][m.channel]
  <2>1. inbox \in [Port -> [Channel -> Seq(Message)]]
    BY <1>1 DEF TypeOK
  <2>2. /\ q \in Seq(Message)
        /\ r = Append(q, m)
        /\ \A e \in Port, k \in Channel :
             ~(e = m.dst /\ k = m.channel) => inbox'[e][k] = inbox[e][k]
        /\ inbox' \in [Port -> [Channel -> Seq(Message)]]
    BY <1>2, <1>3, <2>1
  <2>3. n = Len(q) + 1
    BY DEF n
  <2> HIDE DEF q, r, n
  <2>4. /\ Len(q) \in Nat /\ DOMAIN q = 1 .. Len(q)
        /\ DOMAIN r = 1 .. Len(q) + 1
        /\ r[Len(q) + 1] = m
        /\ \A i \in 1 .. Len(q) : r[i] = q[i]
    BY <1>3, <2>2, AppendProperties, LenProperties
  <2>5. n \in DOMAIN r /\ r[n] = m
    BY <2>3, <2>4
  <2>6. \A i \in DOMAIN q : i \in DOMAIN r /\ r[i] = q[i]
    BY <2>4
  <2>7. ASSUME NEW i \in DOMAIN r, i # n PROVE i \in DOMAIN q /\ r[i] = q[i]
    BY <2>3, <2>4, <2>7
  <2>8. \A e \in Port, k \in Channel :
          \/ e = m.dst /\ k = m.channel /\ inbox[e][k] = q /\ inbox'[e][k] = r
          \/ ~(e = m.dst /\ k = m.channel) /\ inbox'[e][k] = inbox[e][k]
    BY <2>2 DEF q, r
  <2>9. n \in DOMAIN inbox'[m.dst][m.channel] /\ inbox'[m.dst][m.channel][n] = m
    BY <2>5 DEF r
  <2>10. ASSUME NEW e \in Port, NEW k \in Channel, NEW i \in DOMAIN inbox[e][k]
         PROVE  i \in DOMAIN inbox'[e][k] /\ inbox'[e][k][i] = inbox[e][k][i]
    BY <2>6, <2>8
  <2>11. ASSUME NEW e \in Port, NEW k \in Channel, NEW i \in DOMAIN inbox'[e][k]
         PROVE  \/ e = m.dst /\ k = m.channel /\ i = n
                \/ i \in DOMAIN inbox[e][k] /\ inbox'[e][k][i] = inbox[e][k][i]
    BY <2>7, <2>8
  <2>12. QED
    BY <2>2, <2>9, <2>10, <2>11
<1> HIDE DEF n
<1>12. TypeOK'
  <2>1. active' \in Seq(Message) /\ remaining' \in 0 .. AddressCycles + DataCycles - 1
    BY <1>2, EmptySeq
  <2>2. /\ reserved' \in [Port -> [Channel -> Nat]] /\ next' \in Port
        /\ accepted' \in Nat /\ overtaken' \in [Port -> Nat]
    BY <1>1, <1>2 DEF TypeOK
  <2>3. QED
    BY <1>7, <1>11, <2>1, <2>2 DEF TypeOK
<1>13. ActiveShape'
  BY <1>2 DEF ActiveShape
<1>14. QueuedAtSource' /\ QueuesInOrder' /\ QueuesApart'
  BY <1>10, ShiftedQueues
<1>15. ArrivedAtDestination'
  <2>1. ASSUME NEW e \in Port, NEW k \in Channel, NEW i \in DOMAIN inbox'[e][k]
        PROVE  inbox'[e][k][i].dst = e /\ inbox'[e][k][i].channel = k
    <3>1. CASE e = m.dst /\ k = m.channel /\ i = n
      BY <1>4, <1>11, <3>1
    <3>2. CASE i \in DOMAIN inbox[e][k] /\ inbox'[e][k][i] = inbox[e][k][i]
      BY <3>2 DEF IInv, ArrivedAtDestination
    <3>3. QED
      BY <1>11, <3>1, <3>2
  <2>2. QED
    BY <2>1 DEF ArrivedAtDestination
<1>16. IdsAccepted'
  <2>1. \A q \in Port : \A i \in DOMAIN pending'[q] : pending'[q][i].id \in 1 .. accepted
    BY <1>10, ShiftedQueues
  <2>2. ASSUME NEW e \in Port, NEW k \in Channel, NEW i \in DOMAIN inbox'[e][k]
        PROVE  inbox'[e][k][i].id \in 1 .. accepted
    <3>1. CASE e = m.dst /\ k = m.channel /\ i = n
      BY <1>4, <1>11, <3>1
    <3>2. CASE i \in DOMAIN inbox[e][k] /\ inbox'[e][k][i] = inbox[e][k][i]
      BY <3>2 DEF IInv, IdsAccepted
    <3>3. QED
      BY <1>11, <3>1, <3>2
  <2>3. accepted' = accepted /\ \A i \in DOMAIN active' : active'[i].id \in 1 .. accepted
    BY <1>2
  <2>4. QED
    BY <2>1, <2>2, <2>3 DEF IdsAccepted
<1>17. BusBeforeQueue'
  BY <1>2 DEF BusBeforeQueue
<1>18. OneCopy'
  <2>1. ASSUME NEW d \in Port, NEW e \in Port, NEW c \in Channel, NEW k \in Channel,
               NEW i \in DOMAIN inbox'[d][c], NEW j \in DOMAIN inbox'[e][k],
               inbox'[d][c][i].id = inbox'[e][k][j].id
        PROVE  d = e /\ c = k /\ i = j
    <3>1. CASE d = m.dst /\ c = m.channel /\ i = n
      <4>1. inbox'[e][k][j].id = m.id
        BY <1>11, <2>1, <3>1
      <4>2. ~(j \in DOMAIN inbox[e][k] /\ inbox'[e][k][j] = inbox[e][k][j])
        BY <1>4, <4>1
      <4>3. QED
        BY <1>11, <3>1, <4>2
    <3>2. CASE e = m.dst /\ k = m.channel /\ j = n
      <4>1. inbox'[d][c][i].id = m.id
        BY <1>11, <2>1, <3>2
      <4>2. ~(i \in DOMAIN inbox[d][c] /\ inbox'[d][c][i] = inbox[d][c][i])
        BY <1>4, <4>1
      <4>3. QED
        BY <1>11, <3>2, <4>2
    <3>3. CASE /\ i \in DOMAIN inbox[d][c] /\ inbox'[d][c][i] = inbox[d][c][i]
               /\ j \in DOMAIN inbox[e][k] /\ inbox'[e][k][j] = inbox[e][k][j]
      BY <2>1, <3>3 DEF IInv, OneCopy, InboxesApart
    <3>4. QED
      BY <1>11, <3>1, <3>2, <3>3
  <2>2. InboxesApart'
    BY <2>1 DEF InboxesApart
  <2>3. ASSUME NEW q \in Port, NEW e \in Port, NEW k \in Channel,
               NEW i \in DOMAIN pending'[q], NEW j \in DOMAIN inbox'[e][k]
        PROVE  pending'[q][i].id # inbox'[e][k][j].id
    <3>1. i \in DOMAIN pending[q] /\ pending'[q][i].id = pending[q][i].id
      BY <1>8 DEF SameAddress
    <3>2. CASE e = m.dst /\ k = m.channel /\ j = n
      BY <1>4, <1>11, <3>1, <3>2
    <3>3. CASE j \in DOMAIN inbox[e][k] /\ inbox'[e][k][j] = inbox[e][k][j]
      BY <3>1, <3>3 DEF IInv, OneCopy, QueueInboxApart
    <3>4. QED
      BY <1>11, <3>2, <3>3
  <2>4. QueueInboxApart'
    BY <2>3 DEF QueueInboxApart
  <2>5. QueueBusApart' /\ InboxBusApart'
    BY <1>2 DEF QueueBusApart, InboxBusApart
  <2>6. QED
    BY <1>14, <2>2, <2>4, <2>5 DEF OneCopy
<1>19. OvertakenIsWaiting' /\ BoundedOvertaking'
  BY <1>2, <1>9 DEF IInv, OvertakenIsWaiting, BoundedOvertaking, Channel
<1>20. CreditConservation'
  <2> SUFFICES ASSUME NEW e \in Port, NEW k \in Channel
               PROVE  /\ reserved'[e][k] = Cardinality(Held(e, k)')
                      /\ ReceiveSlots # 0 => reserved'[e][k] <= ReceiveSlots
    BY DEF CreditConservation
  <2>1. ASSUME NEW x
        PROVE  QueueHolds(x, e, k)' <=> QueueHolds(x, e, k)
    BY <1>8 DEF QueueHolds, SameAddress
  <2>2. ASSUME NEW x
        PROVE  /\ ~BusHolds(x, e, k)'
               /\ InboxHolds(x, e, k)' <=> InboxHolds(x, e, k) \/ BusHolds(x, e, k)
    <3>1. ~BusHolds(x, e, k)'
      BY <1>2 DEF BusHolds
    <3>2. ASSUME InboxHolds(x, e, k)'
          PROVE  InboxHolds(x, e, k) \/ (x = m.id /\ e = m.dst /\ k = m.channel)
      <4>1. PICK i \in DOMAIN inbox'[e][k] : inbox'[e][k][i].id = x
        BY <3>2 DEF InboxHolds
      <4>2. CASE e = m.dst /\ k = m.channel /\ i = n
        BY <1>11, <4>1, <4>2
      <4>3. CASE i \in DOMAIN inbox[e][k] /\ inbox'[e][k][i] = inbox[e][k][i]
        BY <4>1, <4>3 DEF InboxHolds
      <4>4. QED
        BY <1>11, <4>2, <4>3
    <3>3. InboxHolds(x, e, k) => InboxHolds(x, e, k)'
      BY <1>11 DEF InboxHolds
    <3>4. x = m.id /\ e = m.dst /\ k = m.channel => InboxHolds(x, e, k)'
      BY <1>11 DEF InboxHolds
    <3>5. QED
      BY <1>5, <3>1, <3>2, <3>3, <3>4
  <2>3. \A x : x \in Held(e, k)' <=> x \in Held(e, k)
    BY <2>1, <2>2, HeldMember
  <2>4. QED
    BY <1>2, <2>3, CreditKept
<1>21. QED
  BY <1>12, <1>13, <1>14, <1>15, <1>16, <1>17, <1>18, <1>19, <1>20 DEF IInv

\* Once the port that the scan meets first has been served, the scan reaches
\* every other ready port one step earlier at least.
LEMMA DistanceAfterService ==
  ASSUME NEW ptr \in Port, NEW p \in Port, NEW q \in Port, q # p,
         Distance(ptr, p, N) <= Distance(ptr, q, N)
  PROVE  /\ Successor(p, N) \in Port
         /\ Distance(Successor(p, N), q, N) + 1 <= Distance(ptr, q, N)
<1> USE ConfigAssumption
<1>1. N \in Nat /\ ptr \in 0 .. N - 1 /\ p \in 0 .. N - 1 /\ q \in 0 .. N - 1
  BY DEF Port
<1>2. CASE p + 1 = N
  BY <1>1, <1>2 DEF Successor, Distance, Port
<1>3. CASE p + 1 # N
  BY <1>1, <1>3 DEF Successor, Distance, Port
<1>4. QED
  BY <1>2, <1>3

\* The scan pointer stays within the ports.
LEMMA SuccessorPort ==
  ASSUME NEW p \in Port
  PROVE  Successor(p, N) \in Port
BY ConfigAssumption DEF Successor, Port

(***************************************************************************)
(* A grant moves the front message of one queue onto the bus.              *)
(***************************************************************************)
LEMMA GrantIInv ==
  ASSUME IInv, NEW p \in Port, Grant(p)
  PROVE  IInv'
<1> DEFINE m == Head(pending[p])
           Q == [pending EXCEPT ![p] = Tail(@)]
           s == [q \in Port |-> IF q = p THEN 1 ELSE 0]
<1> USE ConfigAssumption
<1>1. TypeOK
  BY DEF IInv
<1>2. /\ active = <<>> /\ Winner(p)
      /\ active' = <<m>> /\ remaining' = CyclesAfterGrant
      /\ next' = ScanAfter(p, m) /\ overtaken' = Overtake(p, m)
      /\ Wait(Q)
      /\ inbox' = inbox /\ reserved' = reserved /\ accepted' = accepted
  BY DEF Grant
<1>3. p \in Candidates /\ pending[p] # <<>>
  BY <1>2 DEF Winner, MetFirst, Candidates, Contenders
<1>4. pending \in [Port -> Seq(Message)] /\ starved \in [Port -> Nat]
  BY <1>1 DEF TypeOK
<1>5. /\ Q \in [Port -> Seq(Message)]
      /\ m \in Message
      /\ 1 \in DOMAIN pending[p] /\ m = pending[p][1]
      /\ \A q \in Port : \A i \in DOMAIN Q[q] :
           /\ i \in Nat \ {0}
           /\ i + s[q] \in DOMAIN pending[q] /\ Q[q][i] = pending[q][i + s[q]]
      /\ \A i \in DOMAIN pending[p] :
           i # 1 => i - 1 \in DOMAIN Q[p] /\ Q[p][i - 1] = pending[p][i]
      /\ \A q \in Port : q # p => Q[q] = pending[q]
  <2> DEFINE h == pending[p]
             r == Q[p]
  <2>1. /\ h \in Seq(Message) /\ h # <<>> /\ r = Tail(h) /\ m = Head(h)
        /\ \A q \in Port : q # p => Q[q] = pending[q]
        /\ Q \in [Port -> Seq(Message)]
    BY <1>3, <1>4
  <2> HIDE DEF h, r, Q, m
  <2>2. /\ DOMAIN h = 1 .. Len(h)
        /\ Len(h) \in Nat \ {0}
        /\ DOMAIN r = 1 .. Len(h) - 1
        /\ \A i \in 1 .. Len(h) - 1 : r[i] = h[i + 1]
        /\ m \in Message /\ m = h[1]
    BY <2>1
  <2>3. /\ 1 \in DOMAIN h
        /\ \A i \in DOMAIN r : i \in Nat \ {0} /\ i + 1 \in DOMAIN h /\ r[i] = h[i + 1]
        /\ \A i \in DOMAIN h : i # 1 => i - 1 \in DOMAIN r /\ r[i - 1] = h[i]
    BY <2>2
  <2>4. ASSUME NEW q \in Port, NEW i \in DOMAIN Q[q]
        PROVE  /\ i \in Nat \ {0}
               /\ i + s[q] \in DOMAIN pending[q] /\ Q[q][i] = pending[q][i + s[q]]
    <3>1. CASE q = p
      BY <2>3, <3>1 DEF h, r
    <3>2. CASE q # p
      <4>1. i \in Nat \ {0} /\ i \in DOMAIN pending[q]
        BY <1>4, <2>1, <3>2
      <4>2. QED
        BY <2>1, <3>2, <4>1
    <3>3. QED
      BY <3>1, <3>2
  <2>5. QED
    BY <2>1, <2>2, <2>3, <2>4 DEF h, r
<1> HIDE DEF Q, m
<1>6. /\ pending' \in [Port -> Seq(Message)]
      /\ starved' \in [Port -> Nat]
  BY <1>2, <1>4, <1>5, WaitFacts
<1>7. ASSUME NEW q \in Port
      PROVE  /\ DOMAIN pending'[q] = DOMAIN Q[q]
             /\ \A i \in DOMAIN Q[q] : SameAddress(pending'[q][i], Q[q][i])
  <2>1. Q \in [Port -> Seq(Message)] /\ Wait(Q) /\ starved \in [Port -> Nat]
    BY <1>2, <1>4, <1>5
  <2>2. /\ DOMAIN pending'[q] = DOMAIN Q[q]
        /\ \A i \in DOMAIN Q[q] :
              /\ pending'[q][i].id = Q[q][i].id
              /\ pending'[q][i].src = Q[q][i].src
              /\ pending'[q][i].dst = Q[q][i].dst
              /\ pending'[q][i].channel = Q[q][i].channel
    BY <2>1, WaitFacts
  <2>3. QED
    BY <2>2 DEF SameAddress
<1>8. s \in [Port -> Nat] /\ Shifted(s)
  BY <1>5, <1>7 DEF Shifted
<1>9. ASSUME NEW q \in Port, q # p
      PROVE  /\ DOMAIN pending'[q] = DOMAIN pending[q]
             /\ \A i \in DOMAIN pending[q] : SameAddress(pending'[q][i], pending[q][i])
  BY <1>5, <1>7, <1>9
<1>10. ASSUME NEW i \in DOMAIN pending[p], i # 1
       PROVE  i - 1 \in DOMAIN pending'[p] /\ SameAddress(pending'[p][i - 1], pending[p][i])
  BY <1>5, <1>7, <1>10
<1>11. ASSUME NEW i \in DOMAIN pending'[p]
       PROVE  /\ i \in Nat \ {0} /\ i + 1 \in DOMAIN pending[p]
              /\ SameAddress(pending'[p][i], pending[p][i + 1])
  BY <1>5, <1>7
<1> HIDE DEF s
<1>12. /\ m.id \in 1 .. accepted /\ m.src = p
       /\ m.dst \in Port /\ m.channel \in Channel
       /\ \A e \in Port, k \in Channel : \A i \in DOMAIN inbox[e][k] : inbox[e][k][i].id # m.id
       /\ \A i \in DOMAIN pending'[p] : m.id < pending'[p][i].id
       /\ \A q \in Port : q # p => \A i \in DOMAIN pending'[q] : pending'[q][i].id # m.id
  <2>1. m.id \in 1 .. accepted /\ m.src = p
    BY <1>5 DEF IInv, IdsAccepted, QueuedAtSource
  <2>2. m.dst \in Port /\ m.channel \in Channel
    BY <1>5 DEF Message
  <2>3. \A e \in Port, k \in Channel : \A i \in DOMAIN inbox[e][k] : inbox[e][k][i].id # m.id
    BY <1>5 DEF IInv, OneCopy, QueueInboxApart
  <2>4. ASSUME NEW i \in DOMAIN pending'[p] PROVE m.id < pending'[p][i].id
    <3>1. /\ i + 1 \in DOMAIN pending[p] /\ 1 < i + 1
          /\ pending'[p][i].id = pending[p][i + 1].id
      BY <1>11 DEF SameAddress
    <3>2. pending[p][1].id < pending[p][i + 1].id
      BY <1>5, <3>1 DEF IInv, QueuesInOrder
    <3>3. QED
      BY <1>5, <3>1, <3>2
  <2>5. ASSUME NEW q \in Port, q # p, NEW i \in DOMAIN pending'[q]
        PROVE  pending'[q][i].id # m.id
    <3>1. i \in DOMAIN pending[q] /\ pending'[q][i].id = pending[q][i].id
      BY <1>9, <2>5 DEF SameAddress
    <3>2. QED
      BY <1>5, <2>5, <3>1 DEF IInv, OneCopy, QueuesApart
  <2>6. QED
    BY <2>1, <2>2, <2>3, <2>4, <2>5
<1>13. DOMAIN active' = {1} /\ active'[1] = m /\ active' \in Seq(Message) /\ Len(active') = 1
       /\ active' # <<>>
  BY <1>2, <1>5
<1>14. next' \in Port
  BY <1>1, <1>2, SuccessorPort DEF ScanAfter, TypeOK
<1>15. overtaken' \in [Port -> Nat]
  <2>1. overtaken \in [Port -> Nat]
    BY <1>1 DEF TypeOK
  <2>2. overtaken' = Overtake(p, m)
    BY <1>2
  <2>3. \A q \in Port : overtaken[q] \in Nat /\ overtaken[q] + 1 \in Nat /\ 0 \in Nat
    BY <2>1
  <2>4. QED
    BY <2>2, <2>3 DEF Overtake
<1>16. remaining' \in 1 .. AddressCycles + DataCycles - 1
  BY <1>2 DEF CyclesAfterGrant
<1>17. TypeOK'
  <2>1. /\ inbox' \in [Port -> [Channel -> Seq(Message)]]
        /\ reserved' \in [Port -> [Channel -> Nat]] /\ accepted' \in Nat
    BY <1>1, <1>2 DEF TypeOK
  <2>2. active' \in Seq(Message) /\ remaining' \in 0 .. AddressCycles + DataCycles - 1
    BY <1>13, <1>16
  <2>3. QED
    BY <1>6, <1>14, <1>15, <2>1, <2>2 DEF TypeOK
<1>18. ActiveShape'
  BY <1>13, <1>16 DEF ActiveShape
<1>19. QueuedAtSource' /\ QueuesInOrder' /\ QueuesApart'
  BY <1>8, ShiftedQueues
<1>20. ArrivedAtDestination'
  BY <1>2 DEF IInv, ArrivedAtDestination
<1>21. IdsAccepted'
  <2>1. \A q \in Port : \A i \in DOMAIN pending'[q] : pending'[q][i].id \in 1 .. accepted
    BY <1>8, ShiftedQueues
  <2>2. \A i \in DOMAIN active' : active'[i].id \in 1 .. accepted
    BY <1>12, <1>13
  <2>3. QED
    BY <1>2, <2>1, <2>2 DEF IInv, IdsAccepted
<1>22. BusBeforeQueue'
  BY <1>12, <1>13 DEF BusBeforeQueue
<1>23. OneCopy'
  <2>1. QueueInboxApart'
    <3>1. ASSUME NEW q \in Port, NEW i \in DOMAIN pending'[q]
          PROVE  \E j \in DOMAIN pending[q] : pending'[q][i].id = pending[q][j].id
      BY <1>8 DEF Shifted, SameAddress
    <3>2. inbox' = inbox
      BY <1>2
    <3>3. QED
      BY <3>1, <3>2 DEF IInv, OneCopy, QueueInboxApart
  <2>2. QueueBusApart'
    <3>1. ASSUME NEW q \in Port, NEW i \in DOMAIN pending'[q]
          PROVE  pending'[q][i].id # m.id
      <4>1. CASE q = p
        <5>1. m.id < pending'[p][i].id
          BY <1>12, <4>1
        <5>2. m.id \in Int
          BY <1>12
        <5>3. QED
          BY <4>1, <5>1, <5>2
      <4>2. CASE q # p
        BY <1>12, <4>2
      <4>3. QED
        BY <4>1, <4>2
    <3>2. QED
      BY <1>13, <3>1 DEF QueueBusApart
  <2>3. InboxBusApart'
    BY <1>2, <1>12, <1>13 DEF InboxBusApart
  <2>4. InboxesApart'
    BY <1>2 DEF IInv, OneCopy, InboxesApart
  <2>5. QED
    BY <1>19, <2>1, <2>2, <2>3, <2>4 DEF OneCopy
<1>24. ASSUME NEW q \in Port, q # p, NEW c \in Channel
       PROVE  q \in Contenders(c)' <=> q \in Contenders(c)
  <2>1. /\ pending[q] \in Seq(Message) /\ pending'[q] \in Seq(Message)
        /\ Q[q] = pending[q]
    BY <1>4, <1>5, <1>6, <1>24
  <2>2. /\ pending'[q] # <<>> <=> pending[q] # <<>>
        /\ pending[q] # <<>> => 1 \in DOMAIN pending[q]
    BY <1>9, <1>24, <2>1
  <2>3. pending[q] # <<>> => pending'[q][1].channel = pending[q][1].channel
    BY <1>9, <1>24, <2>2 DEF SameAddress
  <2>4. QED
    BY <2>1, <2>2, <2>3 DEF Contenders
<1>25. overtaken'[p] = 0
  BY <1>2 DEF Overtake
<1>26. ASSUME NEW q \in Port, q # p
       PROVE  overtaken'[q] = IF m.channel = Request /\ q \in Contenders(Request)
                                THEN overtaken[q] + 1 ELSE overtaken[q]
  BY <1>2, <1>26 DEF Overtake
<1>27. OvertakenIsWaiting'
  <2>1. ASSUME NEW q \in Port, overtaken'[q] > 0 PROVE q \in Contenders(Request)'
    <3>1. q # p
      BY <1>25, <2>1
    <3>2. q \in Contenders(Request)
      BY <1>26, <2>1, <3>1 DEF IInv, OvertakenIsWaiting
    <3>3. QED
      BY <1>24, <3>1, <3>2 DEF Channel
  <2>2. QED
    BY <2>1 DEF OvertakenIsWaiting
<1>28. BoundedOvertaking'
  <2> SUFFICES ASSUME ~FixedPriority, NEW q \in Contenders(Request)'
               PROVE  overtaken'[q] + Distance(next', q, N) <= N - 1
    BY DEF BoundedOvertaking
  <2>1. q \in Port
    BY DEF Contenders
  <2>2. CASE q = p
    BY <1>14, <1>25, <2>1, <2>2, DistanceBound
  <2>3. CASE q # p
    <3>1. q \in Contenders(Request)
      BY <1>24, <2>1, <2>3 DEF Channel
    <3>2. overtaken[q] + Distance(next, q, N) <= N - 1 /\ overtaken[q] \in Nat /\ next \in Port
      BY <1>1, <2>1, <3>1 DEF IInv, BoundedOvertaking, TypeOK
    <3>3. CASE m.channel = Request
      <4>1. Candidates = Contenders(Request)
        BY <1>3, <1>5, <3>3 DEF Candidates, Contenders, m, Request, Response
      <4>2. Distance(next, p, N) <= Distance(next, q, N)
        BY <1>2, <3>1, <4>1 DEF Winner, MetFirst, ScanStart
      <4>3. next' = Successor(p, N)
        BY <1>2, <3>3 DEF ScanAfter
      <4>4. Distance(next', q, N) + 1 <= Distance(next, q, N)
        BY <2>1, <2>3, <3>2, <4>2, <4>3, DistanceAfterService
      <4>5. overtaken'[q] = overtaken[q] + 1
        BY <1>26, <2>1, <2>3, <3>1, <3>3
      <4>6. Distance(next, q, N) \in Int /\ Distance(next', q, N) \in Int
        BY <1>14, <2>1, <3>2, DistanceBound
      <4>7. QED
        BY <3>2, <4>4, <4>5, <4>6
    <3>4. CASE m.channel # Request
      <4>1. next' = next
        BY <1>2, <3>4 DEF ScanAfter
      <4>2. overtaken'[q] = overtaken[q]
        BY <1>26, <2>1, <2>3, <3>4
      <4>3. QED
        BY <3>2, <4>1, <4>2
    <3>5. QED
      BY <3>3, <3>4
  <2>4. QED
    BY <2>2, <2>3
<1>29. CreditConservation'
  <2> SUFFICES ASSUME NEW e \in Port, NEW k \in Channel
               PROVE  /\ reserved'[e][k] = Cardinality(Held(e, k)')
                      /\ ReceiveSlots # 0 => reserved'[e][k] <= ReceiveSlots
    BY DEF CreditConservation
  <2>1. ASSUME NEW x
        PROVE  /\ InboxHolds(x, e, k)' <=> InboxHolds(x, e, k)
               /\ ~BusHolds(x, e, k)
    BY <1>2 DEF BusHolds, InboxHolds
  <2>2. ASSUME NEW x
        PROVE  BusHolds(x, e, k)' <=> x = m.id /\ e = m.dst /\ k = m.channel
    BY <1>13 DEF BusHolds
  <2>3. ASSUME NEW x
        PROVE  QueueHolds(x, e, k) <=>
                 QueueHolds(x, e, k)' \/ (x = m.id /\ e = m.dst /\ k = m.channel)
    <3>1. QueueHolds(x, e, k)' => QueueHolds(x, e, k)
      BY <1>8 DEF QueueHolds, Shifted, SameAddress
    <3>2. x = m.id /\ e = m.dst /\ k = m.channel => QueueHolds(x, e, k)
      BY <1>5 DEF QueueHolds
    <3>3. ASSUME NEW q \in Port, NEW i \in DOMAIN pending[q],
                 pending[q][i].id = x, pending[q][i].dst = e, pending[q][i].channel = k
          PROVE  QueueHolds(x, e, k)' \/ (x = m.id /\ e = m.dst /\ k = m.channel)
      <4>1. CASE q # p
        BY <1>9, <3>3, <4>1 DEF QueueHolds, SameAddress
      <4>2. CASE q = p /\ i = 1
        BY <1>5, <3>3, <4>2
      <4>3. CASE q = p /\ i # 1
        <5>1. i - 1 \in DOMAIN pending'[p] /\ SameAddress(pending'[p][i - 1], pending[p][i])
          BY <1>10, <4>3
        <5>2. QED
          BY <3>3, <4>3, <5>1 DEF QueueHolds, SameAddress
      <4>4. QED
        BY <4>1, <4>2, <4>3
    <3>4. QED
      BY <3>1, <3>2, <3>3 DEF QueueHolds
  <2>4. \A x : x \in Held(e, k)' <=> x \in Held(e, k)
    BY <2>1, <2>2, <2>3, HeldMember
  <2>5. QED
    BY <1>2, <2>4, CreditKept
<1>30. QED
  BY <1>17, <1>18, <1>19, <1>20, <1>21, <1>22, <1>23, <1>27, <1>28, <1>29 DEF IInv

-------------------------------------------------------------------------------
(***************************************************************************)
(* Every step preserves the invariant.                                     *)
(***************************************************************************)
LEMMA NextIInv == IInv /\ [Next]_vars => IInv'
<1> SUFFICES ASSUME IInv, [Next]_vars PROVE IInv'
  OBVIOUS
<1>1. CASE \E p \in Port, d \in Port, c \in Channel : Send(p, d, c)
  BY <1>1, SendIInv
<1>2. CASE \E p \in Port, c \in Channel : Recv(p, c)
  BY <1>2, RecvIInv
<1>3. CASE \E p \in Port : Grant(p)
  BY <1>3, GrantIInv
<1>4. CASE Transfer
  BY <1>4, TransferIInv
<1>5. CASE Deliver
  BY <1>5, DeliverIInv
<1>6. CASE UNCHANGED vars
  <2>1. /\ pending' = pending /\ active' = active /\ remaining' = remaining
        /\ inbox' = inbox /\ reserved' = reserved /\ next' = next
        /\ accepted' = accepted /\ starved' = starved /\ overtaken' = overtaken
    BY <1>6 DEF vars
  <2>2. TypeOK' /\ ActiveShape' /\ QueuedAtSource' /\ ArrivedAtDestination'
    BY <2>1 DEF IInv, TypeOK, ActiveShape, QueuedAtSource, ArrivedAtDestination
  <2>3. IdsAccepted' /\ QueuesInOrder' /\ BusBeforeQueue'
    BY <2>1 DEF IInv, IdsAccepted, QueuesInOrder, BusBeforeQueue
  <2>4. QueuesApart' /\ InboxesApart' /\ QueueInboxApart' /\ QueueBusApart' /\ InboxBusApart'
    BY <2>1 DEF IInv, OneCopy, QueuesApart, InboxesApart, QueueInboxApart,
                QueueBusApart, InboxBusApart
  <2>5. OvertakenIsWaiting' /\ BoundedOvertaking'
    BY <2>1 DEF IInv, OvertakenIsWaiting, BoundedOvertaking, Contenders
  <2>6. ASSUME NEW d \in Port, NEW c \in Channel
        PROVE  Held(d, c)' = Held(d, c)
    BY <2>1 DEF Held, Addressed, UnderWay, Queued, OnBus, Arrived
  <2>7. CreditConservation'
    BY <2>1, <2>6 DEF IInv, CreditConservation
  <2>8. QED
    BY <2>2, <2>3, <2>4, <2>5, <2>7 DEF IInv, OneCopy
<1>7. QED
  BY <1>1, <1>2, <1>3, <1>4, <1>5, <1>6 DEF Next, Tick, Idle

\* The inductive invariant holds in every reachable state.
THEOREM Invariant == Spec => []IInv
<1>1. Init => IInv
  BY InitIInv
<1>2. IInv /\ [Next]_vars => IInv'
  BY NextIInv
<1>3. QED
  BY <1>1, <1>2, PTL DEF Spec

(***************************************************************************)
(* Type correctness: in particular the unsigned receive-slot counters and  *)
(* the countdown of the active transfer never underflow.                   *)
(***************************************************************************)
THEOREM TypeCorrect == Spec => []TypeOK
<1>1. IInv => TypeOK
  BY DEF IInv
<1>2. QED
  BY <1>1, Invariant, PTL

(***************************************************************************)
(* No receive slot is leaked, given back twice or handed out beyond the    *)
(* limit, for any number of ports and slots and under both policies.       *)
(***************************************************************************)
THEOREM CreditsConserved == Spec => []CreditConservation
<1>1. IInv => CreditConservation
  BY DEF IInv
<1>2. QED
  BY <1>1, Invariant, PTL

(***************************************************************************)
(* Round robin is fair: a request at the front of its queue is overtaken   *)
(* at most once by every other port, for any number of ports.              *)
(***************************************************************************)
THEOREM OvertakingBounded == Spec => []BoundedOvertaking
<1>1. IInv => BoundedOvertaking
  BY DEF IInv
<1>2. QED
  BY <1>1, Invariant, PTL

(***************************************************************************)
(* A refused send is always explained by traffic: with nothing under way   *)
(* and the inbox in question empty, every send is accepted, so a caller    *)
(* that retries cannot be refused for ever on an idle bus.                 *)
(***************************************************************************)
THEOREM RefusalsJustified == Spec => []RefusalsExplained
<1>1. ASSUME IInv, NEW f \in Flows, ~Bus!MayRefuse(f[2], f[3])
      PROVE  CanSend(f[1]) /\ HasCredit(f[2], f[3])
  <2> DEFINE p == f[1]
             d == f[2]
             c == f[3]
             q == inbox[d][c]
             letters == [i \in DOMAIN q |-> Letter(q[i])]
  <2>1. p \in Port /\ d \in Port /\ c \in Channel
    BY <1>1, ConfigAssumption
  <2>2. TypeOK /\ CreditConservation
    BY <1>1 DEF IInv
  <2>3. UnderWay = {}
    BY <1>1 DEF Bus!MayRefuse
  <2>4. letters = <<>>
    BY <1>1, <2>1 DEF Bus!MayRefuse
  <2>5. pending[p] \in Seq(Message) /\ q \in Seq(Message)
    BY <2>1, <2>2 DEF TypeOK
  <2>6. Len(pending[p]) = 0
    <3>1. Queued(p) = {}
      BY <2>1, <2>3 DEF UnderWay
    <3>2. DOMAIN pending[p] = {}
      BY <3>1 DEF Queued
    <3>3. Len(pending[p]) \in Nat /\ DOMAIN pending[p] = 1 .. Len(pending[p])
      BY <2>5
    <3>4. QED
      BY <3>2, <3>3
  <2>7. DOMAIN q = {}
    <3>1. DOMAIN letters = DOMAIN q
      OBVIOUS
    <3>2. DOMAIN letters = {}
      <4> HIDE DEF letters
      <4>1. QED
        BY <2>4
    <3>3. QED
      BY <3>1, <3>2
  <2>8. Held(d, c) = {}
    BY <2>3, <2>7 DEF Held, Addressed, Arrived
  <2>9. reserved[d][c] = 0
    BY <2>1, <2>2, <2>8, FS_EmptySet DEF CreditConservation
  <2>10. CanSend(p)
    BY <2>6, ConfigAssumption DEF CanSend
  <2>11. HasCredit(d, c)
    BY <2>9, ConfigAssumption DEF HasCredit
  <2>12. QED
    BY <2>10, <2>11
<1>2. IInv => RefusalsExplained
  BY <1>1 DEF RefusalsExplained
<1>3. QED
  BY <1>2, Invariant, PTL

-------------------------------------------------------------------------------
(***************************************************************************)
(* The shared bus keeps the promise of IBus, for every configuration: the  *)
(* initial states map to those of IBus, and every step of the bus maps to  *)
(* a step of IBus or leaves what IBus sees alone.  The argument needs the  *)
(* inductive invariant in one place, the delivery: the delivered message   *)
(* is the oldest of its flow because the queues hold ids in order and the  *)
(* message on the bus precedes all those its source still has in queue.    *)
(***************************************************************************)

(***************************************************************************)
(* What IBus sees of a state.                                              *)
(***************************************************************************)
Transit == {Letter(m) : m \in UnderWay}
LettersOf(q) == [i \in DOMAIN q |-> Letter(q[i])]
Inboxes == [p \in Port |-> [c \in Channel |-> LettersOf(inbox[p][c])]]

InQueues(l) == \E q \in Port : \E i \in DOMAIN pending[q] : l = Letter(pending[q][i])
OnTheBus(l) == \E i \in DOMAIN active : l = Letter(active[i])

\* A letter is in transit when its message is queued or on the bus.
LEMMA TransitMember ==
  ASSUME NEW l
  PROVE  /\ l \in Transit <=> InQueues(l) \/ OnTheBus(l)
         /\ l \in Transit' <=> InQueues(l)' \/ OnTheBus(l)'
BY DEF Transit, UnderWay, Queued, OnBus, InQueues, OnTheBus

\* A letter says where a message is from and to, and nothing of its age.
LEMMA SameLetter ==
  ASSUME NEW m, NEW k, SameAddress(m, k)
  PROVE  Letter(m) = Letter(k)
BY DEF SameAddress, Letter

\* The letter of a message is one that IBus knows.
LEMMA LetterType ==
  ASSUME NEW m \in Message
  PROVE  Letter(m) \in Bus!Letter
BY DEF Message, Letter, Bus!Letter

\* The letters of a sequence of messages are a sequence of the same length.
LEMMA LettersOfSeq ==
  ASSUME NEW q \in Seq(Message)
  PROVE  /\ LettersOf(q) \in Seq(Bus!Letter)
         /\ Len(LettersOf(q)) = Len(q)
         /\ \A i \in 1 .. Len(q) : LettersOf(q)[i] = Letter(q[i])
<1>1. DOMAIN q = 1 .. Len(q) /\ Len(q) \in Nat
  OBVIOUS
<1>2. \A i \in 1 .. Len(q) : Letter(q[i]) \in Bus!Letter
  BY LetterType, ElementOfSeq
<1>3. LettersOf(q) = [i \in 1 .. Len(q) |-> Letter(q[i])]
  BY <1>1 DEF LettersOf
<1> DEFINE F(i) == Letter(q[i])
           r == [i \in 1 .. Len(q) |-> F(i)]
<1>4. \A i \in 1 .. Len(q) : F(i) \in Bus!Letter
  BY <1>2
<1> HIDE DEF F
<1>5. r \in Seq(Bus!Letter) /\ Len(r) = Len(q) /\ \A i \in 1 .. Len(q) : r[i] = F(i)
  BY <1>1, <1>4
<1>6. QED
  BY <1>3, <1>5 DEF F

\* Inboxes that differ in one place only.
LEMMA OneCell ==
  ASSUME NEW S, NEW T, NEW U, NEW V, NEW f \in [S -> [T -> U]], NEW h \in [S -> [T -> V]],
         NEW x \in S, NEW y \in T, NEW v,
         \A s \in S, t \in T : h[s][t] = IF s = x /\ t = y THEN v ELSE f[s][t]
  PROVE  h = [f EXCEPT ![x][y] = v]
<1> DEFINE g == [f EXCEPT ![x][y] = v]
<1>1. g = [s \in S |-> IF s = x THEN [f[x] EXCEPT ![y] = v] ELSE f[s]]
  OBVIOUS
<1>2. ASSUME NEW s \in S PROVE g[s] = h[s]
  <2>1. /\ h[s] = [t \in T |-> h[s][t]]
        /\ f[s] = [t \in T |-> f[s][t]]
    OBVIOUS
  <2>2. CASE s = x
    <3>1. g[s] = [t \in T |-> IF t = y THEN v ELSE f[x][t]]
      BY <1>1, <2>2
    <3>2. QED
      BY <2>1, <2>2, <3>1
  <2>3. CASE s # x
    BY <1>1, <2>1, <2>3
  <2>4. QED
    BY <2>2, <2>3
<1>3. g = [s \in S |-> g[s]] /\ h = [s \in S |-> h[s]]
  BY <1>1
<1> HIDE DEF g
<1>4. g = h
  BY <1>2, <1>3
<1>5. QED
  BY <1>4 DEF g

\* No letter in an empty inbox.
LEMMA LettersOfEmpty == LettersOf(<<>>) = <<>>
<1>1. << >> \in Seq(Message) /\ Len(<< >>) = 0
  BY EmptySeq
<1>2. LettersOf(<<>>) \in Seq(Bus!Letter) /\ Len(LettersOf(<<>>)) = 0
  BY <1>1, LettersOfSeq
<1>3. QED
  BY <1>2, EmptySeq

\* Receiving the first message is receiving the first letter.
LEMMA LettersOfTail ==
  ASSUME NEW q \in Seq(Message), q # <<>>
  PROVE  LettersOf(q) # <<>> /\ LettersOf(Tail(q)) = Tail(LettersOf(q))
<1> DEFINE r == LettersOf(q)
           t == LettersOf(Tail(q))
<1>1. /\ Tail(q) \in Seq(Message) /\ Len(q) \in Nat \ {0} /\ Len(Tail(q)) = Len(q) - 1
      /\ \A i \in 1 .. Len(q) - 1 : Tail(q)[i] = q[i + 1]
  OBVIOUS
<1>2. /\ r \in Seq(Bus!Letter) /\ Len(r) = Len(q)
      /\ \A i \in 1 .. Len(q) : r[i] = Letter(q[i])
  BY LettersOfSeq
<1>3. /\ t \in Seq(Bus!Letter) /\ Len(t) = Len(q) - 1
      /\ \A i \in 1 .. Len(q) - 1 : t[i] = Letter(Tail(q)[i])
  BY <1>1, LettersOfSeq
<1> HIDE DEF r, t
<1>4. /\ r # <<>> /\ Tail(r) \in Seq(Bus!Letter) /\ Len(Tail(r)) = Len(q) - 1
      /\ \A i \in 1 .. Len(q) - 1 : Tail(r)[i] = r[i + 1]
  BY <1>1, <1>2
<1>5. \A i \in 1 .. Len(t) : t[i] = Tail(r)[i]
  BY <1>1, <1>2, <1>3, <1>4
<1>6. t = Tail(r)
  BY <1>3, <1>4, <1>5, SeqEqual
<1>7. QED
  BY <1>4, <1>6 DEF r, t

\* A message that arrives last is the last letter.
LEMMA LettersOfAppend ==
  ASSUME NEW q \in Seq(Message), NEW m \in Message
  PROVE  LettersOf(Append(q, m)) = Append(LettersOf(q), Letter(m))
<1> DEFINE r == LettersOf(q)
           t == LettersOf(Append(q, m))
           l == Letter(m)
<1>1. /\ Append(q, m) \in Seq(Message) /\ Len(q) \in Nat /\ Len(Append(q, m)) = Len(q) + 1
      /\ \A i \in 1 .. Len(q) : Append(q, m)[i] = q[i]
      /\ Append(q, m)[Len(q) + 1] = m
  OBVIOUS
<1>2. /\ r \in Seq(Bus!Letter) /\ Len(r) = Len(q)
      /\ \A i \in 1 .. Len(q) : r[i] = Letter(q[i])
  BY LettersOfSeq
<1>3. /\ t \in Seq(Bus!Letter) /\ Len(t) = Len(q) + 1
      /\ \A i \in 1 .. Len(q) + 1 : t[i] = Letter(Append(q, m)[i])
  BY <1>1, LettersOfSeq
<1>4. l \in Bus!Letter
  BY LetterType
<1>5. \A i \in 1 .. Len(q) : t[i] = r[i]
  BY <1>1, <1>2, <1>3
<1>6. t[Len(q) + 1] = l
  BY <1>1, <1>3
<1> HIDE DEF r, t, l
<1>7. /\ Append(r, l) \in Seq(Bus!Letter) /\ Len(Append(r, l)) = Len(q) + 1
      /\ \A i \in 1 .. Len(q) : Append(r, l)[i] = r[i]
      /\ Append(r, l)[Len(q) + 1] = l
  BY <1>2, <1>4
<1>8. \A i \in 1 .. Len(t) : t[i] = Append(r, l)[i]
  BY <1>1, <1>3, <1>5, <1>6, <1>7
<1>9. t = Append(r, l)
  BY <1>3, <1>7, <1>8, SeqEqual
<1>10. QED
  BY <1>9 DEF r, t, l

-------------------------------------------------------------------------------
(***************************************************************************)
(* The initial states, and the steps that IBus sees.                       *)
(***************************************************************************)
LEMMA InitRefines == Init => Bus!Init
<1> SUFFICES ASSUME Init PROVE Bus!Init
  OBVIOUS
<1>1. Transit = {}
  <2>1. \A q \in Port : DOMAIN pending[q] = {}
    BY DEF Init
  <2>2. DOMAIN active = {}
    BY DEF Init
  <2>3. QED
    BY <2>1, <2>2, TransitMember DEF InQueues, OnTheBus
<1>2. Inboxes = [p \in Port |-> [c \in Channel |-> <<>>]]
  BY LettersOfEmpty DEF Init, Inboxes
<1>3. accepted = 0
  BY DEF Init
<1>4. QED
  BY <1>1, <1>2, <1>3 DEF Bus!Init, Transit, Inboxes, LettersOf

\* An accepted message is in transit: the letters are those of before and its own.
LEMMA SendRefines ==
  ASSUME IInv, NEW p \in Port, NEW d \in Port, NEW c \in Channel, Send(p, d, c)
  PROVE  Bus!Send(p, d, c, Opaque)
<1> DEFINE m == [id |-> accepted + 1, src |-> p, dst |-> d, channel |-> c,
                 age |-> 0, warned |-> FALSE]
           l == [id |-> accepted', src |-> p, dst |-> d, channel |-> c, body |-> Opaque]
           n == Len(pending[p]) + 1
<1>1. /\ accepted' = accepted + 1 /\ active' = active /\ inbox' = inbox
      /\ pending' = [pending EXCEPT ![p] = Append(@, m)]
  BY DEF Send
<1>2. pending \in [Port -> Seq(Message)]
  BY DEF IInv, TypeOK
<1>3. Letter(m) = l
  BY <1>1 DEF Letter
<1> HIDE DEF m, l
<1>4. /\ DOMAIN pending'[p] = DOMAIN pending[p] \cup {n}
      /\ \A i \in DOMAIN pending[p] : pending'[p][i] = pending[p][i]
      /\ pending'[p][n] = m
  <2> DEFINE h == pending[p]
             r == Append(h, m)
  <2>1. h \in Seq(Message) /\ pending'[p] = r
    BY <1>1, <1>2
  <2>2. /\ DOMAIN h = 1 .. Len(h) /\ Len(h) \in Nat
        /\ DOMAIN r = 1 .. Len(h) + 1
        /\ \A i \in 1 .. Len(h) : r[i] = h[i]
        /\ r[Len(h) + 1] = m
    BY <2>1
  <2>3. QED
    BY <2>1, <2>2
<1>5. \A q \in Port : q # p => pending'[q] = pending[q]
  BY <1>1, <1>2
<1>6. ASSUME NEW x
      PROVE  InQueues(x)' <=> InQueues(x) \/ x = l
  BY <1>3, <1>4, <1>5 DEF InQueues
<1>7. ASSUME NEW x
      PROVE  OnTheBus(x)' <=> OnTheBus(x)
  BY <1>1 DEF OnTheBus
<1>8. Transit' = Transit \cup {l}
  BY <1>6, <1>7, TransitMember
<1>9. Inboxes' = Inboxes
  BY <1>1 DEF Inboxes, LettersOf
<1>10. QED
  BY <1>1, <1>8, <1>9 DEF Bus!Send, Transit, Inboxes, LettersOf, l

\* Receiving takes the first letter of the inbox.
LEMMA RecvRefines ==
  ASSUME IInv, NEW p \in Port, NEW c \in Channel, Recv(p, c)
  PROVE  Bus!Recv(p, c)
<1>1. /\ inbox[p][c] # <<>> /\ inbox' = [inbox EXCEPT ![p][c] = Tail(@)]
      /\ pending' = pending /\ active' = active /\ accepted' = accepted
  BY DEF Recv, CanRecv
<1>2. inbox \in [Port -> [Channel -> Seq(Message)]]
  BY DEF IInv, TypeOK
<1>3. Transit' = Transit
  BY <1>1 DEF Transit, UnderWay, Queued, OnBus
<1>4. /\ Inboxes[p][c] # <<>>
      /\ LettersOf(Tail(inbox[p][c])) = Tail(Inboxes[p][c])
  BY <1>1, <1>2, LettersOfTail DEF Inboxes
<1>5. Inboxes' = [Inboxes EXCEPT ![p][c] = Tail(@)]
  <2> DEFINE f == Inboxes
             h == Inboxes'
             v == Tail(Inboxes[p][c])
             U == {f[d][k] : d \in Port, k \in Channel}
             V == {h[d][k] : d \in Port, k \in Channel}
  <2>1. ASSUME NEW d \in Port, NEW k \in Channel
        PROVE  h[d][k] = IF d = p /\ k = c THEN v ELSE f[d][k]
    <3>1. inbox'[d][k] = IF d = p /\ k = c THEN Tail(inbox[p][c]) ELSE inbox[d][k]
      BY <1>1, <1>2
    <3>2. h[d][k] = LettersOf(inbox'[d][k]) /\ f[d][k] = LettersOf(inbox[d][k])
      BY DEF Inboxes, LettersOf
    <3>3. QED
      BY <1>4, <3>1, <3>2
  <2>2. f \in [Port -> [Channel -> U]] /\ h \in [Port -> [Channel -> V]]
    BY DEF Inboxes
  <2> HIDE DEF f, h, v, U, V
  <2>3. h = [f EXCEPT ![p][c] = v]
    BY <2>1, <2>2, OneCell
  <2>4. QED
    BY <2>3 DEF f, h, v
<1>6. QED
  BY <1>1, <1>3, <1>4, <1>5 DEF Bus!Recv, Transit, Inboxes, LettersOf

-------------------------------------------------------------------------------
(***************************************************************************)
(* Cycles.                                                                 *)
(***************************************************************************)

\* Waiting changes no letter.
LEMMA WaitLetters ==
  ASSUME NEW Q \in [Port -> Seq(Message)], Wait(Q), starved \in [Port -> Nat]
  PROVE  \A q \in Port :
           /\ DOMAIN pending'[q] = DOMAIN Q[q]
           /\ \A i \in DOMAIN Q[q] : Letter(pending'[q][i]) = Letter(Q[q][i])
BY WaitFacts, SameLetter DEF SameAddress

\* A cycle in the middle of a transfer is invisible.
LEMMA TransferRefines ==
  ASSUME IInv, Transfer
  PROVE  UNCHANGED Bus!vars
<1>1. /\ Wait(pending) /\ active' = active /\ inbox' = inbox /\ accepted' = accepted
      /\ pending \in [Port -> Seq(Message)] /\ starved \in [Port -> Nat]
  BY DEF Transfer, IInv, TypeOK
<1>2. ASSUME NEW x
      PROVE  /\ InQueues(x)' <=> InQueues(x)
             /\ OnTheBus(x)' <=> OnTheBus(x)
  BY <1>1, WaitLetters DEF InQueues, OnTheBus
<1>3. Transit' = Transit
  BY <1>2, TransitMember
<1>4. QED
  BY <1>1, <1>3 DEF Bus!vars, Transit

\* A grant moves a message from its queue to the bus: it stays in transit.
LEMMA GrantRefines ==
  ASSUME IInv, NEW p \in Port, Grant(p)
  PROVE  UNCHANGED Bus!vars
<1> DEFINE m == Head(pending[p])
           Q == [pending EXCEPT ![p] = Tail(@)]
<1>1. /\ active = <<>> /\ active' = <<m>> /\ Wait(Q) /\ Winner(p)
      /\ inbox' = inbox /\ accepted' = accepted
      /\ pending \in [Port -> Seq(Message)] /\ starved \in [Port -> Nat]
  BY DEF Grant, IInv, TypeOK
<1>2. pending[p] # <<>>
  BY <1>1 DEF Winner, MetFirst, Candidates, Contenders
<1>3. /\ Q \in [Port -> Seq(Message)]
      /\ \A q \in Port : q # p => Q[q] = pending[q]
      /\ \A i \in DOMAIN Q[p] : i + 1 \in DOMAIN pending[p] /\ Q[p][i] = pending[p][i + 1]
      /\ \A i \in DOMAIN pending[p] :
           i # 1 => i - 1 \in DOMAIN Q[p] /\ Q[p][i - 1] = pending[p][i]
      /\ 1 \in DOMAIN pending[p] /\ m = pending[p][1]
  <2> DEFINE h == pending[p]
             r == Q[p]
  <2>1. /\ h \in Seq(Message) /\ h # <<>> /\ r = Tail(h) /\ m = Head(h)
        /\ \A q \in Port : q # p => Q[q] = pending[q]
        /\ Q \in [Port -> Seq(Message)]
    BY <1>1, <1>2
  <2> HIDE DEF h, r, Q, m
  <2>2. /\ DOMAIN h = 1 .. Len(h)
        /\ Len(h) \in Nat \ {0}
        /\ DOMAIN r = 1 .. Len(h) - 1
        /\ \A i \in 1 .. Len(h) - 1 : r[i] = h[i + 1]
        /\ m = h[1]
    BY <2>1
  <2>3. /\ 1 \in DOMAIN h
        /\ \A i \in DOMAIN r : i + 1 \in DOMAIN h /\ r[i] = h[i + 1]
        /\ \A i \in DOMAIN h : i # 1 => i - 1 \in DOMAIN r /\ r[i - 1] = h[i]
    BY <2>2
  <2>4. QED
    BY <2>1, <2>2, <2>3 DEF h, r
<1>4. DOMAIN active = {} /\ DOMAIN active' = {1} /\ active'[1] = m
  BY <1>1
<1>5. \A q \in Port :
        /\ DOMAIN pending'[q] = DOMAIN Q[q]
        /\ \A i \in DOMAIN Q[q] : Letter(pending'[q][i]) = Letter(Q[q][i])
  <2> HIDE DEF Q
  <2>1. QED
    BY <1>1, <1>3, WaitLetters
<1> HIDE DEF m, Q
<1>6. ASSUME NEW x
      PROVE  InQueues(x)' \/ x = Letter(m) <=> InQueues(x)
  <2>1. InQueues(x)' <=> \E q \in Port : \E i \in DOMAIN Q[q] : x = Letter(Q[q][i])
    BY <1>5 DEF InQueues
  <2>2. ASSUME NEW q \in Port, NEW i \in DOMAIN Q[q], x = Letter(Q[q][i])
        PROVE  InQueues(x)
    BY <1>3, <2>2 DEF InQueues
  <2>3. ASSUME NEW q \in Port, NEW i \in DOMAIN pending[q], x = Letter(pending[q][i]),
               x # Letter(m)
        PROVE  \E k \in DOMAIN Q[q] : x = Letter(Q[q][k])
    <3>1. CASE q = p
      <4>1. i # 1
        BY <1>3, <2>3, <3>1
      <4>2. QED
        BY <1>3, <2>3, <3>1, <4>1
    <3>2. CASE q # p
      BY <1>3, <2>3, <3>2
    <3>3. QED
      BY <3>1, <3>2
  <2>4. x = Letter(m) => InQueues(x)
    BY <1>3 DEF InQueues
  <2>5. QED
    BY <2>1, <2>2, <2>3, <2>4 DEF InQueues
<1>7. ASSUME NEW x
      PROVE  ~OnTheBus(x) /\ (OnTheBus(x)' <=> x = Letter(m))
  BY <1>4 DEF OnTheBus
<1>8. Transit' = Transit
  BY <1>6, <1>7, TransitMember
<1>9. QED
  BY <1>1, <1>8 DEF Bus!vars, Transit

\* The message on the bus is an older one than any other of its flow.
LEMMA OldestOnBus ==
  ASSUME IInv, active # <<>>
  PROVE  /\ DOMAIN active = {1} /\ active[1] \in Message
         /\ ~InQueues(Letter(active[1]))
         /\ \A k \in Transit :
              k.src = active[1].src => active[1].id <= k.id
<1> DEFINE m == active[1]
<1>1. TypeOK /\ Len(active) <= 1
  BY DEF IInv, ActiveShape
<1>2. DOMAIN active = {1} /\ m \in Message
  <2>1. active \in Seq(Message)
    BY <1>1 DEF TypeOK
  <2>2. Len(active) \in Nat \ {0} /\ DOMAIN active = 1 .. Len(active)
    BY <2>1, EmptySeq, LenProperties
  <2>3. Len(active) = 1 /\ DOMAIN active = {1}
    BY <1>1, <2>2
  <2>4. m \in Message
    BY <2>1, <2>3, ElementOfSeq
  <2>5. QED
    BY <2>3, <2>4
<1>3. ASSUME NEW q \in Port, NEW i \in DOMAIN pending[q]
      PROVE  /\ pending[q][i].src = q
             /\ pending[q][i].id # m.id
             /\ m.src = q => m.id < pending[q][i].id
  BY <1>2 DEF IInv, QueuedAtSource, OneCopy, QueueBusApart, BusBeforeQueue
<1>4. m.id \in Nat /\ \A q \in Port : \A i \in DOMAIN pending[q] : pending[q][i].id \in Nat
  BY <1>2 DEF IInv, IdsAccepted, TypeOK
<1> HIDE DEF m
<1>5. ~InQueues(Letter(m))
  BY <1>3 DEF InQueues, Letter
<1>6. ASSUME NEW k \in Transit, k.src = m.src
      PROVE  m.id <= k.id
  <2>1. CASE InQueues(k)
    <3>1. PICK q \in Port : \E i \in DOMAIN pending[q] : k = Letter(pending[q][i])
      BY <2>1 DEF InQueues
    <3>2. PICK i \in DOMAIN pending[q] : k = Letter(pending[q][i])
      BY <3>1
    <3>3. k.src = pending[q][i].src /\ k.id = pending[q][i].id
      BY <3>2 DEF Letter
    <3>4. QED
      BY <1>3, <1>4, <1>6, <3>3
  <2>2. CASE OnTheBus(k)
    <3>1. k = Letter(m)
      BY <1>2, <2>2 DEF OnTheBus, m
    <3>2. k.id = m.id
      BY <3>1 DEF Letter
    <3>3. QED
      BY <1>4, <3>2
  <2>3. QED
    BY <1>6, <2>1, <2>2, TransitMember
<1>7. QED
  BY <1>2, <1>5, <1>6 DEF m

\* The last cycle of a transfer lets one letter arrive.
LEMMA DeliverRefines ==
  ASSUME IInv, Deliver
  PROVE  Bus!Deliver
<1> DEFINE m == active[1]
<1>0. PICK l : l = Letter(m)
  OBVIOUS
<1>1. /\ active # <<>> /\ active' = <<>> /\ Wait(pending) /\ accepted' = accepted
      /\ inbox' = [inbox EXCEPT ![m.dst][m.channel] = Append(@, m)]
      /\ pending \in [Port -> Seq(Message)] /\ starved \in [Port -> Nat]
      /\ inbox \in [Port -> [Channel -> Seq(Message)]]
  BY DEF Deliver, IInv, TypeOK
<1>2. /\ DOMAIN active = {1} /\ m \in Message
      /\ ~InQueues(l)
      /\ \A k \in Transit : k.src = m.src => m.id <= k.id
  BY <1>0, <1>1, OldestOnBus DEF InQueues
<1>3. m.dst \in Port /\ m.channel \in Channel
  BY <1>2 DEF Message
<1>4. l.src = m.src /\ l.dst = m.dst /\ l.channel = m.channel /\ l.id = m.id
  BY <1>0 DEF Letter
<1>5. ASSUME NEW x
      PROVE  /\ InQueues(x)' <=> InQueues(x)
             /\ OnTheBus(x) <=> x = l
             /\ ~OnTheBus(x)'
  <2>1. DOMAIN active' = {}
    BY <1>1
  <2>2. InQueues(x)' <=> InQueues(x)
    BY <1>1, WaitLetters DEF InQueues
  <2>3. OnTheBus(x) <=> x = l
    BY <1>0, <1>2 DEF OnTheBus
  <2>4. ~OnTheBus(x)'
    BY <2>1 DEF OnTheBus
  <2>5. QED
    BY <2>2, <2>3, <2>4
<1> HIDE DEF m
<1>6. l \in Transit /\ Transit' = Transit \ {l}
  BY <1>2, <1>5, TransitMember
<1>7. \A k \in Transit : Bus!SameFlow(l, k) => l.id <= k.id
  BY <1>2, <1>4 DEF Bus!SameFlow
<1>8. ASSUME NEW d \in Port, NEW c \in Channel
      PROVE  Inboxes'[d][c] = IF l.dst = d /\ l.channel = c
                                THEN Append(Inboxes[d][c], l) ELSE Inboxes[d][c]
  <2>1. inbox'[d][c] = IF m.dst = d /\ m.channel = c
                         THEN Append(inbox[d][c], m) ELSE inbox[d][c]
    BY <1>1, <1>3
  <2>2. Inboxes'[d][c] = LettersOf(inbox'[d][c]) /\ Inboxes[d][c] = LettersOf(inbox[d][c])
    BY DEF Inboxes, LettersOf
  <2>3. inbox[d][c] \in Seq(Message)
    BY <1>1
  <2>4. LettersOf(Append(inbox[d][c], m)) = Append(Inboxes[d][c], l)
    BY <1>0, <1>2, <2>2, <2>3, LettersOfAppend
  <2>5. QED
    BY <1>4, <2>1, <2>2, <2>4
<1>9. ASSUME NEW d \in Port, NEW c \in Channel
      PROVE  Bus!Arrived({l}, d, c) = IF l.dst = d /\ l.channel = c
                                        THEN Append(Inboxes[d][c], l) ELSE Inboxes[d][c]
  <2>1. (\E k \in {l} : k.dst = d /\ k.channel = c) <=> l.dst = d /\ l.channel = c
    OBVIOUS
  <2>2. l.dst = d /\ l.channel = c => (CHOOSE k \in {l} : k.dst = d /\ k.channel = c) = l
    OBVIOUS
  <2>3. QED
    BY <2>1, <2>2 DEF Bus!Arrived, Inboxes, LettersOf
<1>10. Inboxes' = [d \in Port |-> [c \in Channel |-> Bus!Arrived({l}, d, c)]]
  <2> DEFINE h == Inboxes'
             g == [d \in Port |-> [c \in Channel |-> Bus!Arrived({l}, d, c)]]
  <2>1. h = [d \in Port |-> [c \in Channel |-> h[d][c]]]
    BY DEF Inboxes
  <2>2. ASSUME NEW d \in Port, NEW c \in Channel PROVE h[d][c] = g[d][c]
    <3>1. g[d][c] = Bus!Arrived({l}, d, c)
      OBVIOUS
    <3> HIDE DEF g
    <3>2. h[d][c] = IF l.dst = d /\ l.channel = c
                      THEN Append(Inboxes[d][c], l) ELSE Inboxes[d][c]
      BY <1>8
    <3>3. Bus!Arrived({l}, d, c) = IF l.dst = d /\ l.channel = c
                                     THEN Append(Inboxes[d][c], l) ELSE Inboxes[d][c]
      BY <1>9
    <3> HIDE DEF g, h
    <3>4. QED
      BY <3>1, <3>2, <3>3
  <2>3. g = [d \in Port |-> [c \in Channel |-> g[d][c]]]
    OBVIOUS
  <2> HIDE DEF g, h
  <2>4. g = h
    BY <2>1, <2>2, <2>3
  <2>5. QED
    BY <2>4 DEF g, h
<1>11. Bus!Arrive({l})
  BY <1>1, <1>6, <1>7, <1>10 DEF Bus!Arrive, Bus!OldestOfFlow, Transit, Inboxes, LettersOf
<1>12. {l} \in SUBSET Transit
  BY <1>6
<1>13. \E S \in SUBSET Transit : Bus!Arrive(S)
  <2> HIDE DEF Transit
  <2>1. QED
    BY <1>11, <1>12
<1>14. QED
  BY <1>13 DEF Bus!Deliver, Transit

\* Every step of the bus is one of IBus or invisible to it.
LEMMA StepRefines == IInv /\ [Next]_vars => [Bus!Next]_(Bus!vars)
<1> SUFFICES ASSUME IInv, [Next]_vars PROVE [Bus!Next]_(Bus!vars)
  OBVIOUS
<1>1. CASE \E p \in Port, d \in Port, c \in Channel : Send(p, d, c)
  BY <1>1, SendRefines DEF Bus!Next
<1>2. CASE \E p \in Port, c \in Channel : Recv(p, c)
  BY <1>2, RecvRefines DEF Bus!Next
<1>3. CASE \E p \in Port : Grant(p)
  BY <1>3, GrantRefines
<1>4. CASE Transfer
  BY <1>4, TransferRefines
<1>5. CASE Deliver
  BY <1>5, DeliverRefines DEF Bus!Next
<1>6. CASE Idle \/ UNCHANGED vars
  BY <1>6 DEF Idle, vars, Bus!vars, UnderWay, Queued, OnBus
<1>7. QED
  BY <1>1, <1>2, <1>3, <1>4, <1>5, <1>6 DEF Next, Tick

(***************************************************************************)
(* The bus implements IBus: no message is lost, duplicated or invented, no *)
(* flow is reordered, and receive takes messages in the order of arrival,  *)
(* whatever the parameters and the arbitration policy.                     *)
(***************************************************************************)
THEOREM BusImplemented == Spec => BusSpec
<1>1. Init => Bus!Init
  BY InitRefines
<1>2. IInv /\ [Next]_vars => [Bus!Next]_(Bus!vars)
  BY StepRefines
<1>3. QED
  BY <1>1, <1>2, Invariant, PTL DEF Spec, BusSpec, Bus!Spec
===============================================================================
