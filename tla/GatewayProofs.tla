--------------------------- MODULE GatewayProofs ----------------------------
(***************************************************************************)
(* Proofs about a realtime-gateway pod, for any connections, users, keys,  *)
(* queue sizes and faults.  Every session is sent updates in the order     *)
(* they were published (DeliveredInOrder).  The registry, the references   *)
(* and the one Redis subscription agree (RoutesExact): GwInv relates them  *)
(* to the sessions; the steps that move a reference count the connections  *)
(* that hold a channel.                                                    *)
(***************************************************************************)
EXTENDS Gateway, FiniteSetTheorems, TLAPS

(***************************************************************************)
(* Gateway: updates.                                                       *)
(***************************************************************************)
Updates == [u : Users, n : Nat]

\* Numbers grow along a queue.
Grows(s) == \A i, j \in 1..Len(s) : i < j => s[i] < s[j]

\* They grow along the pod's queue too, and none is above the last published.
QueueRight == /\ \A i, j \in 1..Len(podq) : i < j => podq[i].n < podq[j].n
              /\ \A i \in 1..Len(podq) : podq[i].n <= published

\* What a session holds was published, before anything the pod still holds.
OutRight(c) == /\ Grows(out[c])
               /\ \A i \in 1..Len(out[c]) : out[c][i] <= published
               /\ \A i \in 1..Len(out[c]), j \in 1..Len(podq) : out[c][i] < podq[j].n

\* The update being fanned out comes between the two.
CurRight == cur # Nobody =>
  /\ cur.n <= published /\ (cur.sending # Nobody => cur.sending \in cur.targets)
  /\ \A j \in 1..Len(podq) : cur.n < podq[j].n
  /\ \A c \in cur.targets : \A i \in 1..Len(out[c]) : out[c][i] < cur.n

\* The sessions an update can be fanned out to.
RegistryShape == registry \in [Users -> SUBSET Conns]

OrderTypes == /\ podq \in Seq(Updates) /\ cur \in FanOuts \union {Nobody}
              /\ out \in [Conns -> Seq(Nat)] /\ published \in Nat

OrderInv == OrderTypes /\ QueueRight /\ CurRight /\ \A c \in Conns : OutRight(c)

\* Append and Tail, element by element.
LEMMA AppendAt ==
  ASSUME NEW S, NEW s \in Seq(S), NEW x \in S
  PROVE  /\ Append(s, x) \in Seq(S) /\ Len(Append(s, x)) = Len(s) + 1 /\ Len(s) \in Nat
         /\ \A i \in 1..Len(s) : Append(s, x)[i] = s[i] /\ s[i] \in S
         /\ Append(s, x)[Len(s) + 1] = x
OBVIOUS

LEMMA TailAt ==
  ASSUME NEW S, NEW s \in Seq(S), s # <<>>
  PROVE  /\ Tail(s) \in Seq(S) /\ Len(Tail(s)) = Len(s) - 1 /\ Len(s) \in Nat /\ Len(s) >= 1
         /\ \A i \in 1..Len(Tail(s)) : Tail(s)[i] = s[i + 1] /\ i + 1 \in 1..Len(s)
         /\ Head(s) = s[1] /\ Head(s) \in S
OBVIOUS

\* What FanOut makes is an update with targets left, or nothing.
LEMMA FanOutShape ==
  ASSUME NEW n \in Nat, NEW T \in SUBSET Conns
  PROVE  /\ FanOut(n, T) \in FanOuts \union {Nobody}
         /\ FanOut(n, T) # Nobody => /\ FanOut(n, T).n = n /\ FanOut(n, T).targets = T
                                     /\ FanOut(n, T).sending = Nobody
BY Zenon DEF FanOut, FanOuts

\* A step that publishes, queues and sends nothing; a session may end.
LEMMA OrderElsewhere ==
  ASSUME OrderInv, UNCHANGED <<podq, cur, published>>,
         UNCHANGED out \/ \E c \in Conns : out' = [out EXCEPT ![c] = <<>>]
  PROVE  OrderInv'
<1>1. /\ out' \in [Conns -> Seq(Nat)]
      /\ \A c \in Conns : \A i \in 1..Len(out'[c]) : i \in 1..Len(out[c]) /\ out'[c][i] = out[c][i]
  <2>1. <<>> \in Seq(Nat) /\ 1..Len(<<>>) = {} /\ out \in [Conns -> Seq(Nat)]
    BY DEF OrderInv, OrderTypes
  <2>2. ASSUME NEW c \in Conns, out' = [out EXCEPT ![c] = <<>>]
        PROVE  /\ out' \in [Conns -> Seq(Nat)] /\ out'[c] = <<>>
               /\ \A d \in Conns \ {c} : out'[d] = out[d]
    BY <2>1, <2>2, Zenon
  <2>3. CASE UNCHANGED out
    BY <2>1, <2>3, Zenon
  <2> QED
    BY <2>1, <2>2, <2>3, Zenon
<1>2. OrderTypes' /\ QueueRight'
  BY <1>1, Zenon DEF OrderInv, OrderTypes, QueueRight
<1>3. CurRight'
  <2> SUFFICES ASSUME cur # Nobody PROVE CurRight'
    BY Zenon DEF CurRight
  <2>1. cur.targets \subseteq Conns
    BY Zenon DEF OrderInv, OrderTypes, FanOuts
  <2> QED
    BY <1>1, <2>1, Zenon DEF OrderInv, CurRight
<1>4. ASSUME NEW c \in Conns PROVE OutRight(c)'
  BY <1>1, <1>4, Zenon DEF OrderInv, OutRight, Grows
<1> QED
  BY <1>2, <1>3, <1>4, Zenon DEF OrderInv

\* PUBLISH: the new number is above all that is under way.
LEMMA OrderPublish ==
  ASSUME OrderInv, NEW u \in Users, PublishUpdate(u)
  PROVE  OrderInv'
<1>1. /\ published' = published + 1 /\ published \in Nat /\ UNCHANGED <<cur, out>>
      /\ podq \in Seq(Updates) /\ out \in [Conns -> Seq(Nat)]
      /\ podq' = Append(podq, [u |-> u, n |-> published']) \/ podq' = podq
  BY Zenon DEF PublishUpdate, OrderInv, OrderTypes
<1>2. CASE podq' = podq
  <2>1. OrderTypes'
    BY <1>1, <1>2 DEF OrderInv, OrderTypes
  <2>2. \A k \in Nat : k <= published => k <= published'
    BY <1>1
  <2>3. \A i \in 1..Len(podq) : podq[i].n \in Nat
    <3>1. \A i \in 1..Len(podq) : podq[i] \in Updates
      BY <1>1
    <3> QED
      BY <3>1, Zenon DEF Updates
  <2>4. QueueRight'
    BY <1>2, <2>2, <2>3, Zenon DEF OrderInv, QueueRight
  <2>5. CurRight'
    BY <1>1, <1>2, <2>2, Zenon DEF OrderInv, OrderTypes, CurRight, FanOuts
  <2>6. ASSUME NEW c \in Conns PROVE OutRight(c)'
    <3>1. \A i \in 1..Len(out[c]) : out[c][i] \in Nat
      BY <1>1, <2>6
    <3> QED
      BY <1>1, <1>2, <2>2, <2>6, <3>1, Zenon DEF OrderInv, OutRight, Grows
  <2> QED
    BY <2>1, <2>4, <2>5, <2>6, Zenon DEF OrderInv
<1>3. CASE podq' = Append(podq, [u |-> u, n |-> published'])
  <2>1. PICK m \in Updates : podq' = Append(podq, m) /\ m.n = published + 1
    BY <1>1, <1>3 DEF Updates
  <2>2. /\ podq' \in Seq(Updates) /\ Len(podq') = Len(podq) + 1 /\ Len(podq) \in Nat
        /\ \A i \in 1..Len(podq) : podq'[i].n = podq[i].n /\ podq[i].n \in Nat
        /\ podq'[Len(podq) + 1].n = published + 1
    <3>1. /\ podq' \in Seq(Updates) /\ Len(podq') = Len(podq) + 1 /\ Len(podq) \in Nat
          /\ \A i \in 1..Len(podq) : podq'[i] = podq[i] /\ podq[i] \in Updates
          /\ podq'[Len(podq) + 1] = m
      BY <1>1, <2>1, AppendAt
    <3> QED
      BY <2>1, <3>1, Zenon DEF Updates
  <2>3. OrderTypes'
    BY <1>1, <2>2 DEF OrderInv, OrderTypes
  <2>4. \A i \in 1..Len(podq) : podq[i].n <= published
    BY Zenon DEF OrderInv, QueueRight
  <2>5. QueueRight'
    <3>1. \A i \in 1..Len(podq') : i \in 1..Len(podq) \/ i = Len(podq) + 1
      BY <2>2
    <3>2. ASSUME NEW i \in 1..Len(podq'), NEW j \in 1..Len(podq'), i < j
          PROVE  podq'[i].n < podq'[j].n
      <4>1. i \in 1..Len(podq)
        BY <2>2, <3>2
      <4>2. CASE j \in 1..Len(podq)
        BY <2>2, <3>2, <4>1, <4>2, Zenon DEF OrderInv, QueueRight
      <4>3. CASE j = Len(podq) + 1
        <5>1. podq'[i].n = podq[i].n /\ podq[i].n \in Nat /\ podq[i].n <= published
          BY <2>2, <2>4, <4>1, Zenon
        <5>2. podq'[j].n = published + 1 /\ published \in Nat
          BY <1>1, <2>2, <4>3, Zenon
        <5> QED
          BY <5>1, <5>2
      <4> QED
        BY <3>1, <4>2, <4>3, Zenon
    <3>3. ASSUME NEW i \in 1..Len(podq') PROVE podq'[i].n <= published'
      <4>1. CASE i = Len(podq) + 1
        BY <1>1, <2>2, <4>1
      <4>2. CASE i \in 1..Len(podq)
        <5>1. podq'[i].n \in Nat /\ podq'[i].n <= published
          BY <2>2, <2>4, <4>2, Zenon
        <5> QED
          BY <1>1, <5>1
      <4> QED
        BY <3>1, <4>1, <4>2, Zenon
    <3> QED
      BY <3>2, <3>3, Zenon DEF QueueRight
  <2>6. CurRight'
    BY <1>1, <2>2 DEF OrderInv, OrderTypes, CurRight, FanOuts
  <2>7. ASSUME NEW c \in Conns PROVE OutRight(c)'
    <3>1. OutRight(c) /\ \A i \in 1..Len(out[c]) : out[c][i] \in Nat
      BY <1>1, <2>7 DEF OrderInv
    <3>2. ASSUME NEW i \in 1..Len(out[c])
          PROVE  /\ out[c][i] <= published'
                 /\ \A j \in 1..Len(podq') : out[c][i] < podq'[j].n
      <4>1. out[c][i] \in Nat /\ out[c][i] <= published
        BY <3>1, Zenon DEF OutRight
      <4>2. \A j \in 1..Len(podq) : out[c][i] < podq'[j].n
        BY <2>2, <3>1, Zenon DEF OutRight
      <4>3. published' = published + 1 /\ podq'[Len(podq) + 1].n = published + 1 /\ published \in Nat
        BY <1>1, <2>2, Zenon
      <4>4. out[c][i] <= published' /\ out[c][i] < podq'[Len(podq) + 1].n
        BY <4>1, <4>3
      <4>5. \A j \in 1..Len(podq') : j \in 1..Len(podq) \/ j = Len(podq) + 1
        BY <2>2
      <4> QED
        BY <4>2, <4>4, <4>5, Zenon
    <3> QED
      BY <1>1, <3>1, <3>2, Zenon DEF OutRight
  <2> QED
    BY <2>3, <2>5, <2>6, <2>7, Zenon DEF OrderInv
<1> QED
  BY <1>1, <1>2, <1>3, Zenon

\* dispatchUpdates takes the oldest update of the pod's queue.
LEMMA OrderDispatch ==
  ASSUME OrderInv, RegistryShape, Dispatch
  PROVE  OrderInv'
<1>1. /\ cur = Nobody /\ podq # <<>> /\ podq' = Tail(podq) /\ UNCHANGED <<out, published>>
      /\ cur' = FanOut(Head(podq).n, registry[Head(podq).u])
      /\ podq \in Seq(Updates) /\ out \in [Conns -> Seq(Nat)] /\ published \in Nat
  BY Zenon DEF Dispatch, OrderInv, OrderTypes
<1>2. /\ podq' \in Seq(Updates) /\ Len(podq') = Len(podq) - 1 /\ Len(podq) \in Nat /\ Len(podq) >= 1
      /\ \A i \in 1..Len(podq') : podq'[i] = podq[i + 1] /\ i + 1 \in 1..Len(podq)
      /\ Head(podq) = podq[1] /\ Head(podq) \in Updates
  BY <1>1, TailAt, Zenon
<1>3. Head(podq).n \in Nat /\ registry[Head(podq).u] \in SUBSET Conns
  BY <1>2, Zenon DEF Updates, RegistryShape
<1>4. /\ cur' \in FanOuts \union {Nobody}
      /\ cur' # Nobody => cur'.n = podq[1].n /\ cur'.sending = Nobody /\ cur'.targets \subseteq Conns
  BY <1>1, <1>2, <1>3, FanOutShape
<1>5. OrderTypes' /\ QueueRight'
  <2>1. OrderTypes'
    BY <1>1, <1>2, <1>4, Zenon DEF OrderTypes
  <2>2. \A i \in 1..Len(podq') : podq'[i].n <= published'
    BY <1>1, <1>2, Zenon DEF OrderInv, QueueRight
  <2>3. ASSUME NEW i \in 1..Len(podq'), NEW j \in 1..Len(podq'), i < j
        PROVE  podq'[i].n < podq'[j].n
    <3>1. i + 1 \in 1..Len(podq) /\ j + 1 \in 1..Len(podq) /\ i + 1 < j + 1
      BY <1>2, <2>3
    <3> QED
      BY <1>2, <3>1, Zenon DEF OrderInv, QueueRight
  <2> QED
    BY <2>1, <2>2, <2>3, Zenon DEF QueueRight
<1>6. CurRight'
  BY <1>1, <1>2, <1>4 DEF OrderInv, QueueRight, CurRight, OutRight
<1>7. ASSUME NEW c \in Conns PROVE OutRight(c)'
  BY <1>1, <1>2, <1>7, Zenon DEF OrderInv, OutRight
<1> QED
  BY <1>5, <1>6, <1>7, Zenon DEF OrderInv

\* Enqueue's check of a closed session.
LEMMA OrderCheck ==
  ASSUME OrderInv, EnqueueCheck
  PROVE  OrderInv'
<1>1. /\ cur # Nobody /\ cur \in FanOuts /\ UNCHANGED <<podq, out, published>>
      /\ cur.n \in Nat /\ cur.targets \in SUBSET Conns
  BY Zenon DEF EnqueueCheck, OrderInv, OrderTypes, FanOuts
<1>2. PICK c \in cur.targets : cur' = FanOut(cur.n, cur.targets \ {c}) \/ cur' = [cur EXCEPT !.sending = c]
  BY Zenon DEF EnqueueCheck
<1>3. /\ cur' \in FanOuts \union {Nobody}
      /\ cur' # Nobody => /\ cur'.n = cur.n /\ cur'.targets \subseteq cur.targets
                          /\ cur'.sending # Nobody => cur'.sending \in cur'.targets
  <2>1. CASE cur' = FanOut(cur.n, cur.targets \ {c})
    BY <1>1, <2>1, FanOutShape
  <2>2. CASE cur' = [cur EXCEPT !.sending = c]
    BY <1>1, <1>2, <2>2, Zenon DEF FanOuts
  <2> QED
    BY <1>2, <2>1, <2>2, Zenon
<1>4. OrderTypes' /\ QueueRight'
  BY <1>1, <1>3, Zenon DEF OrderInv, OrderTypes, QueueRight
<1>5. CurRight'
  BY <1>1, <1>3, Zenon DEF OrderInv, CurRight
<1>6. ASSUME NEW d \in Conns PROVE OutRight(d)'
  BY <1>1, <1>6, Zenon DEF OrderInv, OutRight
<1> QED
  BY <1>4, <1>5, <1>6, Zenon DEF OrderInv

\* Enqueue's send puts the update behind older ones.
LEMMA OrderSend ==
  ASSUME OrderInv, NEW c, c = cur.sending, cur # Nobody, c # Nobody,
         out' = (IF Len(out[c]) < OutSize THEN [out EXCEPT ![c] = Append(@, cur.n)] ELSE out),
         cur' = FanOut(cur.n, cur.targets \ {c}), UNCHANGED <<podq, published>>
  PROVE  OrderInv'
<1>1. /\ cur.n \in Nat /\ cur.targets \in SUBSET Conns /\ c \in cur.targets /\ c \in Conns
      /\ out \in [Conns -> Seq(Nat)] /\ published \in Nat
  BY Zenon DEF OrderInv, OrderTypes, FanOuts, CurRight
<1>2. PICK n \in Nat : n = cur.n
  BY <1>1, Zenon
<1>3. /\ cur' \in FanOuts \union {Nobody}
      /\ cur' # Nobody => /\ cur'.n = n /\ cur'.targets = cur.targets \ {c} /\ cur'.sending = Nobody
  <2>1. PICK T \in SUBSET Conns : T = cur.targets \ {c}
    BY <1>1, Zenon
  <2>2. cur' = FanOut(n, T)
    BY <1>2, <2>1, Zenon
  <2>3. /\ FanOut(n, T) \in FanOuts \union {Nobody}
        /\ FanOut(n, T) # Nobody => /\ FanOut(n, T).n = n /\ FanOut(n, T).targets = T
                                    /\ FanOut(n, T).sending = Nobody
    BY FanOutShape, Zenon
  <2> QED
    BY <2>1, <2>2, <2>3, Zenon
<1>4. /\ out' \in [Conns -> Seq(Nat)] /\ \A d \in Conns \ {c} : out'[d] = out[d]
      /\ out'[c] = out[c] \/ out'[c] = Append(out[c], n)
  <2>1. Append(out[c], n) \in Seq(Nat)
    BY <1>1, AppendAt, Zenon
  <2> QED
    BY <1>1, <1>2, <2>1, Zenon
<1>5. OrderTypes' /\ QueueRight'
  BY <1>3, <1>4, Zenon DEF OrderInv, OrderTypes, QueueRight
<1>6. CurRight'
  BY <1>1, <1>2, <1>3, <1>4, Zenon DEF OrderInv, CurRight
<1>7. ASSUME NEW d \in Conns \ {c} PROVE OutRight(d)'
  BY <1>4, <1>7, Zenon DEF OrderInv, OutRight
<1>8. OutRight(c)'
  <2>1. CASE out'[c] = out[c]
    BY <1>1, <2>1, Zenon DEF OrderInv, OutRight
  <2>2. CASE out'[c] = Append(out[c], n)
    <3>1. PICK s \in Seq(Nat), t \in Seq(Nat) : s = out[c] /\ t = out'[c] /\ t = Append(s, n)
      BY <1>1, <1>4, <2>2, Zenon
    <3>2. /\ Len(t) = Len(s) + 1 /\ Len(s) \in Nat /\ t[Len(s) + 1] = n
          /\ \A i \in 1..Len(s) : t[i] = s[i] /\ s[i] \in Nat
      BY <3>1, AppendAt
    <3>3. /\ Grows(s) /\ \A i \in 1..Len(s) : s[i] < n /\ s[i] <= published
          /\ \A i \in 1..Len(s), j \in 1..Len(podq) : s[i] < podq[j].n
          /\ n <= published /\ \A j \in 1..Len(podq) : n < podq[j].n
      BY <1>1, <1>2, <3>1, Zenon DEF OrderInv, OutRight, CurRight
    <3>4. \A i \in 1..Len(t) : i \in 1..Len(s) \/ i = Len(s) + 1
      BY <3>2
    <3>5. Grows(t)
      <4> SUFFICES ASSUME NEW i \in 1..Len(t), NEW j \in 1..Len(t), i < j PROVE t[i] < t[j]
        BY Zenon DEF Grows
      <4>1. i \in 1..Len(s)
        BY <3>2
      <4> QED
        BY <3>2, <3>3, <3>4, <4>1, Zenon DEF Grows
    <3>6. \A i \in 1..Len(t) : t[i] <= published /\ \A j \in 1..Len(podq) : t[i] < podq[j].n
      BY <3>2, <3>3, <3>4, Zenon
    <3> QED
      BY <3>1, <3>5, <3>6, Zenon DEF OutRight
  <2> QED
    BY <1>4, <2>1, <2>2, Zenon
<1> QED
  BY <1>5, <1>6, <1>7, <1>8, Zenon DEF OrderInv

\* writeLoop takes the oldest update of a session.
LEMMA OrderWrite ==
  ASSUME OrderInv, NEW c \in Conns, WriteUpdate(c)
  PROVE  OrderInv'
<1>1. /\ out[c] # <<>> /\ out' = [out EXCEPT ![c] = Tail(@)] /\ UNCHANGED <<podq, cur, published>>
      /\ out \in [Conns -> Seq(Nat)]
  BY Zenon DEF WriteUpdate, OrderInv, OrderTypes
<1>2. PICK s \in Seq(Nat), t \in Seq(Nat) : s = out[c] /\ t = out'[c] /\ t = Tail(s)
  BY <1>1, TailAt, Zenon
<1>3. Len(s) \in Nat /\ Len(t) = Len(s) - 1 /\ \A i \in 1..Len(t) : t[i] = s[i + 1] /\ i + 1 \in 1..Len(s)
  BY <1>1, <1>2, TailAt
<1>4. out' \in [Conns -> Seq(Nat)] /\ \A d \in Conns \ {c} : out'[d] = out[d]
  BY <1>1, <1>2, Zenon
<1>5. OrderTypes' /\ QueueRight'
  BY <1>1, <1>4, Zenon DEF OrderInv, OrderTypes, QueueRight
<1>6. CurRight'
  <2> SUFFICES ASSUME cur # Nobody PROVE CurRight'
    BY <1>1, Zenon DEF CurRight
  <2>1. cur.targets \subseteq Conns /\ CurRight
    BY Zenon DEF OrderInv, OrderTypes, FanOuts
  <2>2. ASSUME NEW d \in cur.targets, NEW i \in 1..Len(out'[d]) PROVE out'[d][i] < cur.n
    <3>1. CASE d = c
      <4>1. i \in 1..Len(t) /\ out'[d][i] = t[i]
        BY <1>2, <2>2, <3>1, Zenon
      <4>2. t[i] = out[c][i + 1] /\ i + 1 \in 1..Len(out[c])
        BY <1>2, <1>3, <4>1, Zenon
      <4> QED
        BY <2>1, <2>2, <3>1, <4>1, <4>2, Zenon DEF CurRight
    <3>2. CASE d # c
      BY <1>4, <2>1, <2>2, <3>2, Zenon DEF CurRight
    <3> QED
      BY <3>1, <3>2, Zenon
  <2> QED
    BY <1>1, <2>1, <2>2, Zenon DEF CurRight
<1>7. ASSUME NEW d \in Conns \ {c} PROVE OutRight(d)'
  BY <1>1, <1>4, <1>7, Zenon DEF OrderInv, OutRight
<1>8. OutRight(c)'
  <2>1. /\ Grows(s) /\ \A i \in 1..Len(s) : s[i] <= published
        /\ \A i \in 1..Len(s), j \in 1..Len(podq) : s[i] < podq[j].n
    BY <1>2, Zenon DEF OrderInv, OutRight
  <2>2. Grows(t)
    <3> SUFFICES ASSUME NEW i \in 1..Len(t), NEW j \in 1..Len(t), i < j PROVE t[i] < t[j]
      BY Zenon DEF Grows
    <3>1. i + 1 \in 1..Len(s) /\ j + 1 \in 1..Len(s) /\ i + 1 < j + 1
      BY <1>3
    <3> QED
      BY <1>3, <2>1, <3>1, Zenon DEF Grows
  <2> QED
    BY <1>1, <1>2, <1>3, <2>1, <2>2 DEF OutRight
<1> QED
  BY <1>5, <1>6, <1>7, <1>8, Zenon DEF OrderInv

\* A pod that dies holds no updates.
LEMMA OrderPodGone ==
  ASSUME OrderInv, PodGone
  PROVE  OrderInv'
<1>1. /\ podq' = <<>> /\ cur' = Nobody /\ published' = published /\ published \in Nat
      /\ out' = [c \in Conns |-> <<>>]
  BY Zenon DEF PodGone, OrderInv, OrderTypes
<1>2. podq' \in Seq(Updates) /\ <<>> \in Seq(Nat) /\ 1..Len(<<>>) = {}
  BY <1>1
<1>3. out' \in [Conns -> Seq(Nat)] /\ \A c \in Conns : out'[c] = <<>>
  BY <1>1, <1>2, Zenon
<1>4. OrderTypes' /\ QueueRight' /\ CurRight'
  BY <1>1, <1>2, <1>3, Zenon DEF OrderTypes, QueueRight, CurRight
<1>5. ASSUME NEW c \in Conns PROVE OutRight(c)'
  BY <1>2, <1>3, <1>5, Zenon DEF OutRight, Grows
<1> QED
  BY <1>4, <1>5, Zenon DEF OrderInv

\* Whatever enters or leaves the registry is a connection.
LEMMA RegistryKept ==
  ASSUME RegistryShape, [GwNext]_gwVars
  PROVE  RegistryShape'
<1>1. CASE UNCHANGED registry
  BY <1>1, Zenon DEF RegistryShape
<1>2. ASSUME NEW c \in Conns, NEW x, registry' = [registry EXCEPT ![x] = @ \union {c}]
      PROVE  RegistryShape'
  BY <1>2, Zenon DEF RegistryShape
<1>3. ASSUME NEW c \in Conns, NEW x, registry' = [registry EXCEPT ![x] = @ \ {c}]
      PROVE  RegistryShape'
  BY <1>3, Zenon DEF RegistryShape
<1>4. CASE PodGone
  BY <1>4, Zenon DEF PodGone, RegistryShape
<1>5. ASSUME NEW c \in Conns, Step(c) PROVE RegistryShape'
  <2>1. CASE Attach(c)
    BY <1>1, <1>2, <1>5, <2>1, Zenon DEF Attach
  <2>2. CASE Subscribe(c)
    BY <1>1, <1>3, <1>5, <2>2, Zenon DEF Subscribe
  <2>3. CASE CloseChannel(c)
    BY <1>3, <1>5, <2>3, Zenon DEF CloseChannel
  <2>4. CASE LoadBinding(c) \/ AddRef(c) \/ Online(c) \/ Unref(c) \/ Unsub(c) \/ CloseEnd(c)
    BY <1>1, <2>4, Zenon DEF LoadBinding, AddRef, Online, Unref, Unsub, CloseEnd, subVars
  <2> QED
    BY <1>5, <2>1, <2>2, <2>3, <2>4, Zenon DEF Step
<1>6. ASSUME NEW c \in Conns,
             \/ Handshake(c) \/ Resume(c) \/ Disconnect(c) \/ DestroySession(c) \/ Heartbeat(c)
             \/ WriteUpdate(c) \/ \E u \in Users : AuthBind(c, u)
      PROVE  UNCHANGED registry
  BY <1>6, Zenon DEF Handshake, Resume, Disconnect, DestroySession, Heartbeat, WriteUpdate, AuthBind, subVars
<1>7. ASSUME NEW u \in Users, ExpirePresence(u) \/ PublishUpdate(u) PROVE UNCHANGED registry
  BY <1>7, Zenon DEF ExpirePresence, PublishUpdate, subVars
<1>8. ASSUME NEW e \in events, ApplyEvent(e) PROVE UNCHANGED registry
  BY <1>8, Zenon DEF ApplyEvent, subVars
<1>9. CASE Dispatch \/ EnqueueCheck \/ EnqueueSend \/ PodCrash
  BY <1>1, <1>4, <1>9, Zenon DEF Dispatch, EnqueueCheck, EnqueueSend, PodCrash, subVars
<1>10. CASE UNCHANGED gwVars
  BY <1>1, <1>10, Zenon DEF gwVars, subVars
<1> QED
  BY <1>1, <1>5, <1>6, <1>7, <1>8, <1>9, <1>10, Zenon DEF GwNext

\* In every reachable state numbers grow from a session's queue over the update
\* being fanned out to the pod's queue.
THEOREM OrderInductive == GwSpec => [](RegistryShape /\ OrderInv)
<1>1. GwInit => OrderInv
  <2> SUFFICES ASSUME GwInit PROVE OrderInv
    BY Zenon
  <2>1. /\ podq = <<>> /\ cur = Nobody /\ published = 0 /\ out = [c \in Conns |-> <<>>]
    BY Zenon DEF GwInit
  <2>2. podq \in Seq(Updates) /\ <<>> \in Seq(Nat) /\ 1..Len(<<>>) = {}
    BY <2>1
  <2>3. out \in [Conns -> Seq(Nat)] /\ \A c \in Conns : out[c] = <<>>
    BY <2>1, <2>2, Zenon
  <2>4. OrderTypes /\ QueueRight /\ CurRight
    BY <2>1, <2>2, <2>3, Zenon DEF OrderTypes, QueueRight, CurRight
  <2>5. ASSUME NEW c \in Conns PROVE OutRight(c)
    BY <2>2, <2>3, <2>5, Zenon DEF OutRight, Grows
  <2> QED
    BY <2>4, <2>5, Zenon DEF OrderInv
<1>2. RegistryShape /\ OrderInv /\ [GwNext]_gwVars => OrderInv'
  <2> SUFFICES ASSUME RegistryShape, OrderInv, [GwNext]_gwVars PROVE OrderInv'
    BY Zenon
  <2>1. CASE UNCHANGED gwVars
    BY <2>1, OrderElsewhere, Zenon DEF gwVars, updVars
  <2>2. ASSUME NEW c \in Conns,
               \/ Handshake(c) \/ Resume(c) \/ Disconnect(c) \/ DestroySession(c) \/ Heartbeat(c)
               \/ \E u \in Users : AuthBind(c, u)
        PROVE  OrderInv'
    BY <2>2, OrderElsewhere, Zenon DEF Handshake, Resume, Disconnect, DestroySession, Heartbeat, AuthBind,
                                updVars
  <2>3. ASSUME NEW c \in Conns, Step(c) PROVE OrderInv'
    <3>1. CASE CloseEnd(c)
      BY <3>1, OrderElsewhere, Zenon DEF CloseEnd
    <3>2. CASE LoadBinding(c) \/ Attach(c) \/ AddRef(c) \/ Subscribe(c) \/ Online(c)
      BY <3>2, OrderElsewhere, Zenon DEF LoadBinding, Attach, AddRef, Subscribe, Online, updVars
    <3>3. CASE CloseChannel(c) \/ Unref(c) \/ Unsub(c)
      BY <3>3, OrderElsewhere, Zenon DEF CloseChannel, Unref, Unsub, updVars
    <3> QED
      BY <2>3, <3>1, <3>2, <3>3, Zenon DEF Step
  <2>4. ASSUME NEW c \in Conns, WriteUpdate(c) PROVE OrderInv'
    BY <2>4, OrderWrite, Zenon
  <2>5. ASSUME NEW u \in Users, ExpirePresence(u) \/ PublishUpdate(u) PROVE OrderInv'
    BY <2>5, OrderElsewhere, OrderPublish, Zenon DEF ExpirePresence, updVars
  <2>6. ASSUME NEW e \in events, ApplyEvent(e) PROVE OrderInv'
    BY <2>6, OrderElsewhere, Zenon DEF ApplyEvent, updVars
  <2>7. CASE Dispatch \/ EnqueueCheck
    BY <2>7, OrderDispatch, OrderCheck, Zenon
  <2>8. CASE EnqueueSend \/ PodCrash
    BY <2>8, OrderSend, OrderPodGone, Zenon DEF EnqueueSend, PodCrash
  <2> QED
    BY <2>1, <2>2, <2>3, <2>4, <2>5, <2>6, <2>7, <2>8, Zenon DEF GwNext
<1>3. GwInit => RegistryShape
  BY Zenon DEF GwInit, RegistryShape
<1> QED
  BY <1>1, <1>2, <1>3, RegistryKept, PTL DEF GwSpec

\* Two growing queues, the first below the second, are one growing queue.
LEMMA Joined ==
  ASSUME NEW s \in Seq(Nat), NEW t \in Seq(Nat), Grows(s), Grows(t),
         \A i \in 1..Len(s), j \in 1..Len(t) : s[i] < t[j]
  PROVE  /\ s \o t \in Seq(Nat) /\ Grows(s \o t)
         /\ \A k \in 1..Len(s \o t) : \/ \E i \in 1..Len(s) : (s \o t)[k] = s[i]
                                     \/ \E j \in 1..Len(t) : (s \o t)[k] = t[j]
<1>1. /\ s \o t \in Seq(Nat) /\ Len(s \o t) = Len(s) + Len(t) /\ Len(s) \in Nat /\ Len(t) \in Nat
      /\ \A k \in 1..Len(s) : (s \o t)[k] = s[k]
      /\ \A k \in 1..Len(s \o t) : k > Len(s) => /\ (s \o t)[k] = t[k - Len(s)]
                                                 /\ k - Len(s) \in 1..Len(t)
  OBVIOUS
<1>2. \A k \in 1..Len(s \o t) : k \in 1..Len(s) \/ k > Len(s)
  BY <1>1
<1>3. ASSUME NEW i \in 1..Len(s \o t), NEW j \in 1..Len(s \o t), i < j
      PROVE  (s \o t)[i] < (s \o t)[j]
  <2>1. CASE i > Len(s)
    <3>1. j > Len(s) /\ i - Len(s) < j - Len(s)
      BY <1>1, <1>3, <2>1
    <3> QED
      BY <1>1, <2>1, <3>1, Zenon DEF Grows
  <2>2. CASE i \in 1..Len(s) /\ j > Len(s)
    BY <1>1, <2>2, Zenon
  <2>3. CASE i \in 1..Len(s) /\ j \in 1..Len(s)
    BY <1>1, <1>3, <2>3, Zenon DEF Grows
  <2> QED
    BY <1>2, <2>1, <2>2, <2>3, Zenon
<1> QED
  BY <1>1, <1>2, <1>3, Zenon DEF Grows

\* Every session is sent updates in the order they were published
\* (dispatchUpdates, Enqueue, writeLoop), whatever is dropped.
THEOREM UpdatesStayInOrder == GwSpec => []DeliveredInOrder
<1>1. OrderInv => DeliveredInOrder
  <2> SUFFICES ASSUME OrderInv, NEW c \in Conns
               PROVE  Grows(out[c] \o (IF cur # Nobody /\ c \in cur.targets THEN <<cur.n>> ELSE <<>>)
                                   \o [i \in 1..Len(podq) |-> podq[i].n])
    BY Zenon DEF DeliveredInOrder, Grows
  <2> DEFINE mid == IF cur # Nobody /\ c \in cur.targets THEN <<cur.n>> ELSE <<>>
             last == [i \in 1..Len(podq) |-> podq[i].n]
  <2>1. out[c] \in Seq(Nat) /\ podq \in Seq(Updates) /\ OutRight(c) /\ Grows(out[c])
    BY Zenon DEF OrderInv, OrderTypes, OutRight
  <2>2. /\ mid \in Seq(Nat) /\ Grows(mid)
        /\ \A i \in 1..Len(mid) : /\ \A k \in 1..Len(out[c]) : out[c][k] < mid[i]
                                  /\ \A j \in 1..Len(podq) : mid[i] < podq[j].n
    <3>1. CASE cur # Nobody /\ c \in cur.targets
      <4>1. cur.n \in Nat
        BY <3>1, Zenon DEF OrderInv, OrderTypes, FanOuts
      <4>2. mid = <<cur.n>> /\ mid \in Seq(Nat) /\ Len(mid) = 1 /\ mid[1] = cur.n
        BY <3>1, <4>1
      <4> QED
        BY <3>1, <4>2 DEF OrderInv, CurRight, Grows
    <3>2. CASE ~(cur # Nobody /\ c \in cur.targets)
      <4>1. mid = <<>> /\ mid \in Seq(Nat) /\ 1..Len(mid) = {}
        BY <3>2
      <4> QED
        BY <4>1, Zenon DEF Grows
    <3> QED
      BY <3>1, <3>2, Zenon
  <2>3. /\ last \in Seq(Nat) /\ Len(last) = Len(podq)
        /\ \A j \in 1..Len(podq) : last[j] = podq[j].n
    <3>1. Len(podq) \in Nat /\ \A i \in 1..Len(podq) : podq[i] \in Updates
      BY <2>1
    <3>2. \A i \in 1..Len(podq) : podq[i].n \in Nat
      BY <3>1, Zenon DEF Updates
    <3> QED
      BY <3>1, <3>2
  <2>4. Grows(last)
    BY <2>3, Zenon DEF OrderInv, QueueRight, Grows
  <2> HIDE DEF mid, last
  <2>5. out[c] \o mid \in Seq(Nat) /\ Grows(out[c] \o mid)
    BY <2>1, <2>2, Joined, Zenon
  <2>6. \A k \in 1..Len(out[c] \o mid), j \in 1..Len(last) : (out[c] \o mid)[k] < last[j]
    <3>1. \A k \in 1..Len(out[c] \o mid) :
            \/ \E i \in 1..Len(out[c]) : (out[c] \o mid)[k] = out[c][i]
            \/ \E j \in 1..Len(mid) : (out[c] \o mid)[k] = mid[j]
      BY <2>1, <2>2, Joined, Zenon
    <3>2. \A i \in 1..Len(out[c]), j \in 1..Len(last) : out[c][i] < last[j]
      BY <2>1, <2>3, Zenon DEF OutRight
    <3>3. \A i \in 1..Len(mid), j \in 1..Len(last) : mid[i] < last[j]
      BY <2>1, <2>2, <2>3, Zenon
    <3> QED
      BY <3>1, <3>2, <3>3, Zenon
  <2>7. Grows((out[c] \o mid) \o last)
    BY <2>3, <2>4, <2>5, <2>6, Joined, Zenon
  <2> QED
    BY <2>7, Zenon DEF mid, last
<1> QED
  BY <1>1, OrderInductive, PTL

(***************************************************************************)
(* Where a connection stands with a channel.                               *)
(***************************************************************************)
\* Its Add failed and gave the reference back: it is about to give it back again.
Fails(c, u) == at[c] = u /\ doing[c] = "unref" /\ ~closed[c]

\* Its Add found no reference: it is about to SUBSCRIBE.
Joins(c, u) == at[c] = u /\ doing[c] = "subscribe"

\* Its Remove dropped the last reference: it is about to UNSUBSCRIBE.
Leaves(c, u) == at[c] = u /\ doing[c] = "unsub"

\* A reference taken by c and not given back.
Holds(c, u) == /\ u \in channels[c] /\ ~Fails(c, u) /\ ~Leaves(c, u)
               /\ ~(at[c] = u /\ doing[c] = "add")

Holders(u) == {c \in Conns : Holds(c, u)}

(***************************************************************************)
(* The inductive invariant.                                                *)
(***************************************************************************)
\* A connection: what its step says of its other fields, and its registrations.
ConnInv(c) ==
  /\ doing[c] \in {"closing", "gone"} => closed[c]
  /\ closed[c] => doing[c] \in {"closing", "gone", "unref", "unsub"}
  /\ doing[c] \in {"plain", "loaded", "gone"} => channels[c] = {}
  /\ doing[c] \in {"add", "subscribe", "unref", "unsub"} => at[c] \in channels[c]
  /\ doing[c] = "attach" => userOf[c] \in Users
  /\ doing[c] # "plain" /\ ~closed[c] => key[c] \in AuthKeys
  /\ \A u \in Users : c \in registry[u] <=>
       u \in channels[c] /\ ~(at[c] = u /\ doing[c] \in {"unref", "unsub"})

\* A channel: its count is never above the references held, and exact unless it
\* was crossed; who subscribed it, or who will unsubscribe it, is still there.
UserInv(u) ==
  /\ refs[u] <= Cardinality(Holders(u))
  /\ refs[u] < 0 => \E c \in Conns : Fails(c, u)
  /\ subscribed[u] => Holders(u) # {} \/ \E c \in Conns : Fails(c, u) \/ Leaves(c, u)
  /\ ~crossed[u] => refs[u] = Cardinality(Holders(u))
  /\ ~crossed[u] /\ Holders(u) # {} =>
       subscribed[u] \/ \E c \in Conns : Fails(c, u) \/ Joins(c, u)

GwInv == /\ GwTypeOK /\ boundTo \in [AuthKeys -> Users \union {Nobody}]
         /\ \A c \in Conns : ConnInv(c)
         /\ \A u \in Users : UserInv(u)

\* Nothing about channel u changes.
Untouched(u) ==
  /\ \A d \in Conns : /\ Holds(d, u)' <=> Holds(d, u)
                      /\ Fails(d, u)' <=> Fails(d, u)
                      /\ Joins(d, u)' <=> Joins(d, u)
                      /\ Leaves(d, u)' <=> Leaves(d, u)
  /\ refs'[u] = refs[u] /\ subscribed'[u] = subscribed[u] /\ crossed'[u] = crossed[u]

\* What was known of such a channel still holds.
LEMMA UserKept ==
  ASSUME NEW u \in Users, UserInv(u), Untouched(u)
  PROVE  UserInv(u)'
<1>1. Holders(u)' = Holders(u)
  BY Zenon DEF Untouched, Holders
<1> QED
  BY <1>1, Zenon DEF UserInv, Untouched

\* A session, as far as channels and the registry are concerned.
SameSession(d) == /\ doing'[d] = doing[d] /\ at'[d] = at[d] /\ channels'[d] = channels[d]
                  /\ closed'[d] = closed[d] /\ userOf'[d] = userOf[d] /\ key'[d] = key[d]

\* Its relations to every channel are then the same.
LEMMA SameRelations ==
  ASSUME NEW d \in Conns, SameSession(d), NEW u \in Users
  PROVE  /\ Holds(d, u)' <=> Holds(d, u)
         /\ Fails(d, u)' <=> Fails(d, u)
         /\ Joins(d, u)' <=> Joins(d, u)
         /\ Leaves(d, u)' <=> Leaves(d, u)
BY Zenon DEF SameSession, Holds, Fails, Joins, Leaves

\* A step of connection c on channel u leaves the other sessions and channels.
LEMMA StepAt ==
  ASSUME GwInv, NEW c \in Conns, NEW u \in Users,
         GwTypeOK', boundTo' \in [AuthKeys -> Users \union {Nobody}],
         \A d \in Conns \ {c} : SameSession(d) /\ \A x \in Users : d \in registry'[x] <=> d \in registry[x],
         \A x \in Users \ {u} : /\ Holds(c, x)' <=> Holds(c, x)
                                /\ Fails(c, x)' <=> Fails(c, x)
                                /\ Joins(c, x)' <=> Joins(c, x)
                                /\ Leaves(c, x)' <=> Leaves(c, x)
                                /\ refs'[x] = refs[x] /\ subscribed'[x] = subscribed[x]
                                /\ crossed'[x] = crossed[x],
         ConnInv(c)', UserInv(u)'
  PROVE  GwInv'
<1>1. ASSUME NEW d \in Conns \ {c} PROVE ConnInv(d)'
  BY <1>1 DEF GwInv, ConnInv, SameSession
<1>2. ASSUME NEW x \in Users \ {u} PROVE UserInv(x)'
  <2>1. Untouched(x)
    BY <1>2, SameRelations, Zenon DEF Untouched
  <2> QED
    BY <2>1, UserKept, Zenon DEF GwInv
<1> QED
  BY <1>1, <1>2, Zenon DEF GwInv

CallSteps == {"add", "subscribe", "unref", "unsub"}

\* A step of connection c that is not on a channel.
QuietMove(c, l) ==
  /\ UNCHANGED <<channels, at, registry, refs, subscribed, crossed>>
  /\ MovesTo(c, l) /\ l \in Labels \ CallSteps /\ doing[c] \notin CallSteps
  /\ \A d \in Conns \ {c} : closed'[d] = closed[d] /\ userOf'[d] = userOf[d] /\ key'[d] = key[d]

\* Such a step keeps what is known of every channel.
LEMMA QuietStep ==
  ASSUME GwInv, NEW c \in Conns, NEW l, QuietMove(c, l),
         GwTypeOK', boundTo' \in [AuthKeys -> Users \union {Nobody}], ConnInv(c)'
  PROVE  GwInv'
<1>1. doing'[c] = l /\ \A d \in Conns \ {c} : SameSession(d)
  BY Zenon DEF QuietMove, MovesTo, GwInv, GwTypeOK, SameSession
<1>2. ASSUME NEW d \in Conns \ {c} PROVE ConnInv(d)'
  BY <1>1, <1>2 DEF GwInv, ConnInv, SameSession, QuietMove
<1>3. ASSUME NEW u \in Users PROVE UserInv(u)'
  <2>1. /\ Holds(c, u)' <=> Holds(c, u)
        /\ Fails(c, u)' <=> Fails(c, u)
        /\ Joins(c, u)' <=> Joins(c, u)
        /\ Leaves(c, u)' <=> Leaves(c, u)
    BY <1>1, Zenon DEF QuietMove, CallSteps, Holds, Fails, Joins, Leaves
  <2>2. Untouched(u)
    BY <1>1, <1>3, <2>1, SameRelations, Zenon DEF Untouched, QuietMove
  <2> QED
    BY <1>3, <2>2, UserKept, Zenon DEF GwInv
<1> QED
  BY <1>2, <1>3, Zenon DEF GwInv

\* Handshake, resumption, binding, logout and the end of the read loop.
LEMMA SessionInv ==
  ASSUME GwInv, NEW c \in Conns,
         \/ Handshake(c) \/ Resume(c) \/ Disconnect(c) \/ DestroySession(c) \/ LoadBinding(c)
         \/ \E u \in Users : AuthBind(c, u)
  PROVE  GwInv'
<1>1. ConnInv(c) /\ doing \in [Conns -> Labels] /\ closed \in [Conns -> BOOLEAN]
  BY Zenon DEF GwInv, GwTypeOK
<1>2. /\ \A k \in AuthKeys : [key EXCEPT ![c] = k] \in [Conns -> AuthKeys \union {Nobody}]
      /\ \A u \in Users : [userOf EXCEPT ![c] = u] \in [Conns -> Users \union {Nobody}]
      /\ \A l \in Labels : [doing EXCEPT ![c] = l] \in [Conns -> Labels]
      /\ [closed EXCEPT ![c] = TRUE] \in [Conns -> BOOLEAN]
  BY Zenon DEF GwInv, GwTypeOK
<1>3. ASSUME UNCHANGED <<channels, at, registry, refs, subscribed, crossed>>,
             doing[c] \notin CallSteps, NEW l \in Labels \ CallSteps, MovesTo(c, l),
             \/ UNCHANGED closed /\ l \notin {"closing", "gone"} /\ ~closed[c]
             \/ closed' = [closed EXCEPT ![c] = TRUE] /\ l = "closing",
             UNCHANGED key \/ \E k \in AuthKeys : key' = [key EXCEPT ![c] = k],
             l \in {"closing", "plain"} \/ key'[c] \in AuthKeys,
             UNCHANGED userOf \/ \E u \in Users : userOf' = [userOf EXCEPT ![c] = u],
             l = "attach" => userOf'[c] \in Users,
             l \in {"plain", "loaded", "gone"} => doing[c] = "plain",
             boundTo' \in [AuthKeys -> Users \union {Nobody}]
      PROVE  GwInv'
  <2>1. GwTypeOK'
    <3>1. key' \in [Conns -> AuthKeys \union {Nobody}]
      BY <1>2, <1>3 DEF GwInv, GwTypeOK
    <3>2. userOf' \in [Conns -> Users \union {Nobody}]
      BY <1>2, <1>3 DEF GwInv, GwTypeOK
    <3>3. doing' \in [Conns -> Labels] /\ closed' \in [Conns -> BOOLEAN]
      BY <1>1, <1>2, <1>3, Zenon DEF MovesTo
    <3> QED
      BY <1>3, <3>1, <3>2, <3>3, Zenon DEF GwInv, GwTypeOK
  <2>2. QuietMove(c, l)
    BY <1>1, <1>3, Zenon DEF QuietMove, GwInv, GwTypeOK
  <2>3. doing'[c] = l /\ (closed'[c] <=> l = "closing")
    <3>1. doing'[c] = l
      BY <1>1, <1>3, Zenon DEF MovesTo
    <3>2. CASE UNCHANGED closed /\ l \notin {"closing", "gone"} /\ ~closed[c]
      BY <3>1, <3>2, Zenon
    <3>3. CASE closed' = [closed EXCEPT ![c] = TRUE] /\ l = "closing"
      BY <1>1, <3>1, <3>3, Zenon
    <3> QED
      BY <1>3, <3>2, <3>3, Zenon
  <2>4. ConnInv(c)'
    BY <1>1, <1>3, <2>3, Zenon DEF ConnInv, CallSteps
  <2> QED
    BY <1>3, <2>1, <2>2, <2>4, QuietStep, Zenon
<1>4. boundTo \in [AuthKeys -> Users \union {Nobody}]
  BY Zenon DEF GwInv
<1>5. CASE Handshake(c)
  <2>1. doing[c] = "plain" /\ UNCHANGED <<channels, at, registry, refs, subscribed, crossed, boundTo>>
    BY <1>5, Zenon DEF Handshake, Speaks, End, subVars
  <2>2. CASE /\ \E k \in AuthKeys : key' = [key EXCEPT ![c] = k]
             /\ MovesTo(c, "ready") /\ UNCHANGED <<userOf, closed>>
    <3>1. key'[c] \in AuthKeys /\ ~closed[c]
      BY <1>1, <2>1, <2>2 DEF GwInv, GwTypeOK, ConnInv
    <3> QED
      BY <1>3, <1>4, <2>1, <2>2, <3>1, Zenon DEF CallSteps, Labels
  <2>3. CASE End(c)
    BY <1>3, <1>4, <2>1, <2>3, Zenon DEF End, CallSteps, Labels
  <2> QED
    BY <1>5, <2>2, <2>3, Zenon DEF Handshake
<1>6. CASE Resume(c)
  <2>1. /\ doing[c] = "plain" /\ UNCHANGED <<channels, at, registry, refs, subscribed, crossed, boundTo>>
    BY <1>6, Zenon DEF Resume, Speaks, End, subVars, keyVars
  <2>2. PICK k \in {key[d] : d \in Conns} \ {Nobody} :
          \/ key' = [key EXCEPT ![c] = k] /\ MovesTo(c, "loaded") /\ UNCHANGED <<userOf, closed>>
          \/ End(c)
    BY <1>6, Zenon DEF Resume
  <2>3. CASE key' = [key EXCEPT ![c] = k] /\ MovesTo(c, "loaded") /\ UNCHANGED <<userOf, closed>>
    <3>1. k \in AuthKeys /\ key'[c] = k /\ ~closed[c]
      BY <1>1, <2>1, <2>2, <2>3 DEF GwInv, GwTypeOK, ConnInv
    <3> QED
      BY <1>3, <1>4, <2>1, <2>3, <3>1, Zenon DEF CallSteps, Labels
  <2>4. CASE End(c)
    BY <1>3, <1>4, <2>1, <2>4, Zenon DEF End, CallSteps, Labels
  <2> QED
    BY <2>2, <2>3, <2>4, Zenon
<1>7. CASE Disconnect(c)
  <2>1. /\ doing[c] \in {"ready", "zeroed"} /\ End(c)
        /\ UNCHANGED <<channels, at, registry, refs, subscribed, crossed, boundTo>>
    BY <1>7, Zenon DEF Disconnect, End, subVars, keyVars
  <2> QED
    BY <1>3, <1>4, <2>1, Zenon DEF End, CallSteps, Labels
<1>8. CASE DestroySession(c)
  <2>1. /\ doing[c] = "ready" /\ MovesTo(c, "zeroed") /\ UNCHANGED <<key, userOf, closed>>
        /\ UNCHANGED <<channels, at, registry, refs, subscribed, crossed>>
    BY <1>8, Zenon DEF DestroySession, subVars
  <2>2. key[c] \in AuthKeys /\ ~closed[c] /\ boundTo' \in [AuthKeys -> Users \union {Nobody}]
    BY <1>1, <1>4, <1>8, <2>1, Zenon DEF ConnInv, DestroySession, keyVars
  <2> QED
    BY <1>3, <2>1, <2>2, Zenon DEF CallSteps, Labels
<1>9. CASE LoadBinding(c)
  <2>1. /\ doing[c] = "loaded" /\ UNCHANGED <<key, closed, boundTo>>
        /\ UNCHANGED <<channels, at, registry, refs, subscribed, crossed>>
        /\ \/ /\ boundTo[key[c]] # Nobody /\ userOf' = [userOf EXCEPT ![c] = boundTo[key[c]]]
              /\ MovesTo(c, "attach")
           \/ MovesTo(c, "ready") /\ UNCHANGED userOf
    BY <1>9, Zenon DEF LoadBinding, subVars, keyVars
  <2>2. key[c] \in AuthKeys /\ ~closed[c]
    BY <1>1, <2>1, Zenon DEF ConnInv
  <2>3. CASE /\ boundTo[key[c]] # Nobody /\ userOf' = [userOf EXCEPT ![c] = boundTo[key[c]]]
             /\ MovesTo(c, "attach")
    <3>1. boundTo[key[c]] \in Users /\ userOf'[c] = boundTo[key[c]]
      BY <1>4, <2>2, <2>3, Zenon DEF GwInv, GwTypeOK
    <3> QED
      BY <1>3, <1>4, <2>1, <2>2, <2>3, <3>1, Zenon DEF CallSteps, Labels
  <2>4. CASE MovesTo(c, "ready") /\ UNCHANGED userOf
    BY <1>3, <1>4, <2>1, <2>2, <2>4, Zenon DEF CallSteps, Labels
  <2> QED
    BY <2>1, <2>3, <2>4, Zenon
<1>10. ASSUME NEW u \in Users, AuthBind(c, u) PROVE GwInv'
  <2>1. /\ doing[c] = "ready" /\ MovesTo(c, "attach") /\ UNCHANGED <<key, closed>>
        /\ userOf' = [userOf EXCEPT ![c] = u]
        /\ UNCHANGED <<channels, at, registry, refs, subscribed, crossed>>
    BY <1>10, Zenon DEF AuthBind, subVars
  <2>2. /\ key[c] \in AuthKeys /\ ~closed[c] /\ boundTo' \in [AuthKeys -> Users \union {Nobody}]
        /\ userOf'[c] = u
    BY <1>1, <1>4, <1>10, <2>1 DEF ConnInv, AuthBind, GwInv, GwTypeOK
  <2> QED
    BY <1>3, <2>1, <2>2, Zenon DEF CallSteps, Labels
<1> QED
  BY <1>5, <1>6, <1>7, <1>8, <1>9, <1>10, Zenon

\* Presence.Online and the end of Close.
LEMMA OnlineInv ==
  ASSUME GwInv, NEW c \in Conns, Online(c) \/ CloseEnd(c)
  PROVE  GwInv'
<1>1. ConnInv(c) /\ boundTo \in [AuthKeys -> Users \union {Nobody}]
  BY Zenon DEF GwInv
<1>2. CASE Online(c)
  <2>1. /\ doing[c] = "online" /\ MovesTo(c, "ready") /\ UNCHANGED <<key, userOf, closed, boundTo>>
        /\ UNCHANGED <<channels, at, registry, refs, subscribed, crossed>>
    BY <1>2, Zenon DEF Online, subVars, keyVars
  <2>2. doing' \in [Conns -> Labels] /\ doing'[c] = "ready"
    BY <2>1, Zenon DEF MovesTo, GwInv, GwTypeOK, Labels
  <2>3. GwTypeOK' /\ QuietMove(c, "ready") /\ ConnInv(c)'
    BY <1>1, <2>1, <2>2, Zenon DEF GwInv, GwTypeOK, QuietMove, CallSteps, Labels, ConnInv
  <2> QED
    BY <1>1, <2>1, <2>3, QuietStep, Zenon
<1>3. CASE CloseEnd(c)
  <2>1. /\ doing[c] = "closing" /\ channels[c] = {} /\ MovesTo(c, "gone")
        /\ UNCHANGED <<key, closed, boundTo>> /\ userOf' = [userOf EXCEPT ![c] = Nobody]
        /\ UNCHANGED <<channels, at, registry, refs, subscribed, crossed>>
    BY <1>3, Zenon DEF CloseEnd, subVars, keyVars
  <2>2. /\ doing' \in [Conns -> Labels] /\ doing'[c] = "gone"
        /\ userOf' \in [Conns -> Users \union {Nobody}]
        /\ \A d \in Conns \ {c} : userOf'[d] = userOf[d]
    BY <2>1, Zenon DEF MovesTo, GwInv, GwTypeOK, Labels
  <2>3. GwTypeOK' /\ QuietMove(c, "gone") /\ ConnInv(c)'
    BY <1>1, <2>1, <2>2, Zenon DEF GwInv, GwTypeOK, QuietMove, CallSteps, Labels, ConnInv
  <2> QED
    BY <1>1, <2>1, <2>3, QuietStep, Zenon
<1> QED
  BY <1>2, <1>3, Zenon

\* attachIdentity: the session has the channel already, or registers for it.
LEMMA AttachInv ==
  ASSUME GwInv, NEW c \in Conns, Attach(c)
  PROVE  GwInv'
<1>0. PICK u : u = userOf[c]
  BY Zenon
<1>1. /\ doing[c] = "attach" /\ UNCHANGED <<key, userOf, closed, refs, subscribed, crossed, boundTo>>
      /\ ConnInv(c) /\ u \in Users /\ boundTo \in [AuthKeys -> Users \union {Nobody}]
  BY <1>0, Zenon DEF Attach, GwInv, ConnInv, keyVars
<1>2. CASE MovesTo(c, "online") /\ UNCHANGED <<channels, at, registry>>
  <2>1. doing' \in [Conns -> Labels] /\ doing'[c] = "online"
    BY <1>2, Zenon DEF MovesTo, GwInv, GwTypeOK, Labels
  <2>2. GwTypeOK' /\ QuietMove(c, "online") /\ ConnInv(c)'
    BY <1>1, <1>2, <2>1, Zenon DEF GwInv, GwTypeOK, QuietMove, CallSteps, Labels, ConnInv
  <2> QED
    BY <1>1, <2>2, QuietStep, Zenon
<1>3. CASE /\ u \notin channels[c] /\ channels' = [channels EXCEPT ![c] = @ \union {u}]
           /\ registry' = [registry EXCEPT ![u] = @ \union {c}]
           /\ at' = [at EXCEPT ![c] = u] /\ MovesTo(c, "add")
  <2>1. /\ doing' \in [Conns -> Labels] /\ doing'[c] = "add"
        /\ channels' \in [Conns -> SUBSET Users] /\ channels'[c] = channels[c] \union {u}
        /\ at' \in [Conns -> Users \union {Nobody}] /\ at'[c] = u
    BY <1>1, <1>3, Zenon DEF MovesTo, GwInv, GwTypeOK, Labels
  <2>2. /\ registry' \in [Users -> SUBSET Conns] /\ c \in registry'[u]
        /\ \A x \in Users, d \in Conns : x # u \/ d # c => (d \in registry'[x] <=> d \in registry[x])
    BY <1>1, <1>3, Zenon DEF GwInv, GwTypeOK
  <2>3. \A d \in Conns \ {c} : SameSession(d)
    BY <1>1, <1>3, Zenon DEF SameSession, MovesTo, GwInv, GwTypeOK
  <2>4. GwTypeOK'
    BY <1>1, <2>1, <2>2, Zenon DEF GwInv, GwTypeOK
  <2>5. \A x \in Users : /\ Holds(c, x)' <=> Holds(c, x)
                         /\ Fails(c, x)' <=> Fails(c, x)
                         /\ Joins(c, x)' <=> Joins(c, x)
                         /\ Leaves(c, x)' <=> Leaves(c, x)
    BY <1>1, <1>3, <2>1, Zenon DEF Holds, Fails, Joins, Leaves
  <2>6. UserInv(u)'
    <3>1. Untouched(u)
      BY <1>1, <2>3, <2>5, SameRelations, Zenon DEF Untouched
    <3> QED
      BY <1>1, <3>1, UserKept, Zenon DEF GwInv
  <2>7. ConnInv(c)'
    BY <1>1, <2>1, <2>2, Zenon DEF ConnInv
  <2> QED
    BY <1>1, <2>2, <2>3, <2>4, <2>5, <2>6, <2>7, StepAt, Zenon
<1> QED
  BY <1>0, <1>2, <1>3, Zenon DEF Attach

\* A step of connection c on channel u changes no other session or registration.
OnlyAt(c, u) ==
  /\ \A d \in Conns \ {c} : SameSession(d) /\ \A x \in Users : d \in registry'[x] <=> d \in registry[x]
  /\ \A x \in Users \ {u} : /\ Holds(c, x)' <=> Holds(c, x)
                            /\ Fails(c, x)' <=> Fails(c, x)
                            /\ Joins(c, x)' <=> Joins(c, x)
                            /\ Leaves(c, x)' <=> Leaves(c, x)
                            /\ refs'[x] = refs[x] /\ subscribed'[x] = subscribed[x]
                            /\ crossed'[x] = crossed[x]

\* Close gives up the channels one by one: the registry first.
LEMMA CloseChannelInv ==
  ASSUME GwInv, NEW c \in Conns, CloseChannel(c)
  PROVE  GwInv'
<1>0. PICK u \in channels[c] : /\ at' = [at EXCEPT ![c] = u]
                               /\ registry' = [registry EXCEPT ![u] = @ \ {c}]
  BY Zenon DEF CloseChannel
<1>1. /\ doing[c] = "closing" /\ UNCHANGED <<key, userOf, channels, closed, refs, subscribed, crossed,
                                            boundTo>>
      /\ ConnInv(c) /\ u \in Users /\ UserInv(u) /\ closed[c]
      /\ boundTo \in [AuthKeys -> Users \union {Nobody}]
  BY Zenon DEF CloseChannel, GwInv, ConnInv, keyVars, GwTypeOK
<1>2. /\ doing' \in [Conns -> Labels] /\ doing'[c] = "unref"
      /\ at' \in [Conns -> Users \union {Nobody}] /\ at'[c] = u
  BY <1>0, <1>1, Zenon DEF CloseChannel, MovesTo, GwInv, GwTypeOK, Labels
<1>3. /\ registry' \in [Users -> SUBSET Conns] /\ c \notin registry'[u]
      /\ \A x \in Users, d \in Conns : x # u \/ d # c => (d \in registry'[x] <=> d \in registry[x])
  BY <1>0, <1>1, Zenon DEF GwInv, GwTypeOK
<1>4. GwTypeOK'
  BY <1>1, <1>2, <1>3, Zenon DEF GwInv, GwTypeOK
<1>5. \A d \in Conns \ {c} : SameSession(d)
  BY <1>0, <1>1, Zenon DEF CloseChannel, SameSession, MovesTo, GwInv, GwTypeOK
<1>6. \A x \in Users : /\ Holds(c, x)' <=> Holds(c, x)
                       /\ Fails(c, x)' <=> Fails(c, x)
                       /\ Joins(c, x)' <=> Joins(c, x)
                       /\ Leaves(c, x)' <=> Leaves(c, x)
  BY <1>1, <1>2, Zenon DEF Holds, Fails, Joins, Leaves
<1>7. OnlyAt(c, u)
  BY <1>1, <1>3, <1>5, <1>6, Zenon DEF OnlyAt
<1>8. UserInv(u)'
  <2>1. Untouched(u)
    BY <1>1, <1>5, <1>6, SameRelations, Zenon DEF Untouched
  <2> QED
    BY <1>1, <2>1, UserKept, Zenon
<1>9. ConnInv(c)'
  BY <1>0, <1>1, <1>2, <1>3 DEF ConnInv
<1> QED
  BY <1>1, <1>4, <1>7, <1>8, <1>9, StepAt, Zenon DEF OnlyAt

\* A channel that is released: what Released leaves of connection c.
LEMMA ReleasedShape ==
  ASSUME GwInv, NEW c \in Conns, NEW u \in Users, u = at[c], Released(c)
  PROVE  /\ doing' \in [Conns -> Labels] /\ channels' \in [Conns -> SUBSET Users]
         /\ at' \in [Conns -> Users \union {Nobody}]
         /\ doing'[c] = (IF closed[c] THEN "closing" ELSE "ready")
         /\ channels'[c] = channels[c] \ {u} /\ at'[c] = Nobody
         /\ \A d \in Conns \ {c} : /\ doing'[d] = doing[d] /\ channels'[d] = channels[d]
                                   /\ at'[d] = at[d]
<1>1. /\ doing \in [Conns -> Labels] /\ channels \in [Conns -> SUBSET Users]
      /\ at \in [Conns -> Users \union {Nobody}]
  BY Zenon DEF GwInv, GwTypeOK
<1>2. /\ doing' = [doing EXCEPT ![c] = IF closed[c] THEN "closing" ELSE "ready"]
      /\ channels' = [channels EXCEPT ![c] = @ \ {u}] /\ at' = [at EXCEPT ![c] = Nobody]
  BY Zenon DEF Released, MovesTo
<1>3. (IF closed[c] THEN "closing" ELSE "ready") \in Labels
  BY Zenon DEF Labels
<1> QED
  BY <1>1, <1>2, <1>3, Zenon

\* Steps that touch neither a session nor a subscription.
LEMMA ElsewhereInv ==
  ASSUME GwInv, UNCHANGED <<sessVars, subVars, keyVars>>
  PROVE  GwInv'
<1>1. /\ UNCHANGED <<doing, key, userOf, channels, at, closed, registry, refs, subscribed, crossed>>
      /\ UNCHANGED boundTo
  BY Zenon DEF sessVars, subVars, keyVars
<1>2. GwTypeOK' /\ boundTo' \in [AuthKeys -> Users \union {Nobody}]
  BY <1>1, Zenon DEF GwInv, GwTypeOK
<1>3. ASSUME NEW c \in Conns PROVE ConnInv(c)'
  BY <1>1, <1>3, Zenon DEF GwInv, ConnInv
<1>4. ASSUME NEW u \in Users PROVE UserInv(u)'
  <2>1. Untouched(u)
    BY <1>1, Zenon DEF Untouched, Holds, Fails, Joins, Leaves
  <2> QED
    BY <1>4, <2>1, UserKept, Zenon DEF GwInv
<1> QED
  BY <1>2, <1>3, <1>4, Zenon DEF GwInv

(***************************************************************************)
(* Lemmas.                                                                 *)
(***************************************************************************)
\* The holders of a channel are finitely many, so they can be counted.
LEMMA HoldersCount ==
  ASSUME NEW u \in Users
  PROVE  /\ IsFiniteSet(Holders(u)) /\ Cardinality(Holders(u)) \in Nat
         /\ Cardinality(Holders(u)) = 0 <=> Holders(u) = {}
BY GatewayAssumption, FS_Subset, FS_CardinalityType, FS_EmptySet, Zenon DEF Holders

\* The same of the next state, and how the count follows one connection.
LEMMA HoldersMove ==
  ASSUME NEW u \in Users, NEW c \in Conns,
         \A d \in Conns \ {c} : Holds(d, u)' <=> Holds(d, u)
  PROVE  /\ Holds(c, u)' /\ ~Holds(c, u) =>
              /\ c \in Holders(u)' /\ Cardinality(Holders(u)') = Cardinality(Holders(u)) + 1
         /\ ~Holds(c, u)' /\ Holds(c, u) =>
              /\ Holders(u)' = Holders(u) \ {c}
              /\ Cardinality(Holders(u)') = Cardinality(Holders(u)) - 1
         /\ (Holds(c, u)' <=> Holds(c, u)) => Holders(u)' = Holders(u)
         /\ Cardinality(Holders(u)') \in Nat
         /\ Cardinality(Holders(u)') = 0 <=> Holders(u)' = {}
<1>1. Holds(c, u)' /\ ~Holds(c, u) => Holders(u)' = Holders(u) \union {c} /\ c \notin Holders(u)
  BY Zenon DEF Holders
<1>2. ~Holds(c, u)' /\ Holds(c, u) => Holders(u)' = Holders(u) \ {c} /\ c \in Holders(u)
  BY Zenon DEF Holders
<1>3. (Holds(c, u)' <=> Holds(c, u)) => Holders(u)' = Holders(u)
  BY Zenon DEF Holders
<1>4. IsFiniteSet(Holders(u)') /\ Cardinality(Holders(u)') \in Nat
      /\ (Cardinality(Holders(u)') = 0 <=> Holders(u)' = {})
  BY GatewayAssumption, FS_Subset, FS_CardinalityType, FS_EmptySet, Zenon DEF Holders
<1> QED
  BY <1>1, <1>2, <1>3, <1>4, HoldersCount, FS_AddElement, FS_RemoveElement

\* A pod starts with nothing.
LEMMA GwInitInv == GwInit => GwInv
<1> SUFFICES ASSUME GwInit PROVE GwInv
  BY Zenon
<1>1. GwTypeOK /\ boundTo \in [AuthKeys -> Users \union {Nobody}]
  BY DEF GwInit, GwTypeOK, Labels
<1>2. ASSUME NEW c \in Conns PROVE ConnInv(c)
  BY <1>2, Zenon DEF GwInit, ConnInv
<1>3. ASSUME NEW u \in Users PROVE UserInv(u)
  <2>1. Holders(u) = {}
    BY <1>3, Zenon DEF GwInit, Holders, Holds
  <2>2. refs[u] = 0 /\ ~subscribed[u] /\ Cardinality(Holders(u)) = 0
    BY <1>3, <2>1, HoldersCount, Zenon DEF GwInit
  <2> QED
    BY <2>1, <2>2 DEF UserInv
<1> QED
  BY <1>1, <1>2, <1>3, Zenon DEF GwInv

\* Subscription.Add takes a reference: a channel without one is to be subscribed.
LEMMA AddRefInv ==
  ASSUME GwInv, NEW c \in Conns, AddRef(c)
  PROVE  GwInv'
<1>0. PICK u : u = at[c]
  BY Zenon
<1>1. /\ doing[c] = "add" /\ UNCHANGED <<key, userOf, channels, at, closed, registry, subscribed,
                                        crossed, boundTo>>
      /\ ConnInv(c) /\ u \in channels[c] /\ u \in Users /\ UserInv(u) /\ refs[u] \in Int
      /\ boundTo \in [AuthKeys -> Users \union {Nobody}]
  BY <1>0, Zenon DEF AddRef, GwInv, ConnInv, keyVars, GwTypeOK
<1>2. /\ doing' \in [Conns -> Labels] /\ refs' \in [Users -> Int] /\ refs'[u] = refs[u] + 1
      /\ doing'[c] = (IF refs[u] > 0 THEN "online" ELSE "subscribe")
      /\ \A x \in Users \ {u} : refs'[x] = refs[x]
  BY <1>0, <1>1 DEF AddRef, MovesTo, GwInv, GwTypeOK, Labels
<1>3. \A d \in Conns \ {c} : SameSession(d)
  BY <1>1, Zenon DEF AddRef, SameSession, MovesTo, GwInv, GwTypeOK
<1>4. GwTypeOK'
  BY <1>1, <1>2, Zenon DEF GwInv, GwTypeOK
<1>5. \A x \in Users \ {u} : /\ Holds(c, x)' <=> Holds(c, x)
                             /\ Fails(c, x)' <=> Fails(c, x)
                             /\ Joins(c, x)' <=> Joins(c, x)
                             /\ Leaves(c, x)' <=> Leaves(c, x)
  BY <1>0, <1>1, <1>2, Zenon DEF Holds, Fails, Joins, Leaves
<1>6. /\ ~Holds(c, u) /\ Holds(c, u)' /\ ~Fails(c, u) /\ ~Joins(c, u) /\ ~Leaves(c, u)
      /\ refs[u] <= 0 => Joins(c, u)'
  BY <1>0, <1>1, <1>2 DEF Holds, Fails, Joins, Leaves
<1>7. UserInv(u)'
  <2>1. \A d \in Conns \ {c} : /\ Holds(d, u)' <=> Holds(d, u)
                               /\ Fails(d, u)' <=> Fails(d, u)
                               /\ Joins(d, u)' <=> Joins(d, u)
                               /\ Leaves(d, u)' <=> Leaves(d, u)
    BY <1>1, <1>3, SameRelations, Zenon
  <2>2. /\ c \in Holders(u)' /\ Cardinality(Holders(u)') = Cardinality(Holders(u)) + 1
        /\ Cardinality(Holders(u)) \in Nat /\ (Cardinality(Holders(u)) = 0 <=> Holders(u) = {})
    BY <1>1, <1>6, <2>1, HoldersMove, HoldersCount, Zenon
  <2>3. /\ refs'[u] <= Cardinality(Holders(u)')
        /\ ~crossed'[u] => refs'[u] = Cardinality(Holders(u)')
    BY <1>1, <1>2, <2>2 DEF UserInv
  <2>4. (refs'[u] < 0 => refs[u] < 0) /\ (refs[u] > 0 => Cardinality(Holders(u)) # 0)
    BY <1>1, <1>2, <2>2 DEF UserInv
  <2>5. refs[u] > 0 \/ refs[u] <= 0
    BY <1>1
  <2> QED
    BY <1>1, <1>6, <2>1, <2>2, <2>3, <2>4, <2>5, Zenon DEF UserInv
<1>8. ConnInv(c)'
  BY <1>0, <1>1, <1>2, Zenon DEF ConnInv
<1> QED
  BY <1>1, <1>2, <1>3, <1>4, <1>5, <1>7, <1>8, StepAt, Zenon

\* What the others are to channel u, and how many hold it, after such a step.
LEMMA OthersAt ==
  ASSUME GwInv, NEW c \in Conns, NEW u \in Users, OnlyAt(c, u)
  PROVE  /\ \A d \in Conns \ {c} : /\ Fails(d, u)' <=> Fails(d, u)
                                   /\ Joins(d, u)' <=> Joins(d, u)
                                   /\ Leaves(d, u)' <=> Leaves(d, u)
         /\ Cardinality(Holders(u)) \in Nat /\ (Cardinality(Holders(u)) = 0 <=> Holders(u) = {})
         /\ Cardinality(Holders(u)') \in Nat /\ (Cardinality(Holders(u)') = 0 <=> Holders(u)' = {})
         /\ Holds(c, u) => c \in Holders(u)
         /\ Holds(c, u)' => c \in Holders(u)'
         /\ ~Holds(c, u)' /\ Holds(c, u) => Cardinality(Holders(u)') = Cardinality(Holders(u)) - 1
         /\ (Holds(c, u)' <=> Holds(c, u)) => Holders(u)' = Holders(u)
<1>1. \A d \in Conns \ {c} : /\ Holds(d, u)' <=> Holds(d, u)
                             /\ Fails(d, u)' <=> Fails(d, u)
                             /\ Joins(d, u)' <=> Joins(d, u)
                             /\ Leaves(d, u)' <=> Leaves(d, u)
  BY SameRelations, Zenon DEF OnlyAt
<1>2. (Holds(c, u) => c \in Holders(u)) /\ (Holds(c, u)' => c \in Holders(u)')
  BY Zenon DEF Holders
<1> QED
  BY <1>1, <1>2, HoldersMove, HoldersCount, Zenon

\* Subscription.Add's SUBSCRIBE: it arrives, or the reference is given back.
LEMMA SubscribeInv ==
  ASSUME GwInv, NEW c \in Conns, Subscribe(c)
  PROVE  GwInv'
<1>0. PICK u : u = at[c]
  BY Zenon
<1>1. /\ doing[c] = "subscribe" /\ UNCHANGED <<key, userOf, channels, at, closed, crossed, boundTo>>
      /\ ConnInv(c) /\ u \in channels[c] /\ u \in Users /\ UserInv(u) /\ refs[u] \in Int
      /\ boundTo \in [AuthKeys -> Users \union {Nobody}] /\ ~closed[c]
  BY <1>0, Zenon DEF Subscribe, GwInv, ConnInv, keyVars, GwTypeOK
<1>2. CASE /\ subscribed' = [subscribed EXCEPT ![u] = TRUE]
           /\ MovesTo(c, "online") /\ UNCHANGED <<registry, refs>>
  <2>1. /\ doing' \in [Conns -> Labels] /\ doing'[c] = "online"
        /\ subscribed' \in [Users -> BOOLEAN] /\ subscribed'[u]
        /\ \A x \in Users \ {u} : subscribed'[x] = subscribed[x]
    BY <1>1, <1>2, Zenon DEF MovesTo, GwInv, GwTypeOK, Labels
  <2>2. GwTypeOK'
    BY <1>1, <1>2, <2>1, Zenon DEF GwInv, GwTypeOK
  <2>3. \A d \in Conns \ {c} : SameSession(d)
    BY <1>1, <1>2, Zenon DEF SameSession, MovesTo, GwInv, GwTypeOK
  <2>4. OnlyAt(c, u)
    BY <1>0, <1>1, <1>2, <2>1, <2>3, Zenon DEF OnlyAt, Holds, Fails, Joins, Leaves
  <2>5. Holds(c, u) /\ Holds(c, u)' /\ ~Fails(c, u)
    BY <1>0, <1>1, <2>1, Zenon DEF Holds, Fails, Leaves
  <2>6. UserInv(u)'
    BY <1>1, <1>2, <2>1, <2>4, <2>5, OthersAt, Zenon DEF UserInv
  <2>7. ConnInv(c)'
    BY <1>0, <1>1, <1>2, <2>1, Zenon DEF ConnInv
  <2> QED
    BY <1>1, <2>2, <2>4, <2>6, <2>7, StepAt, Zenon DEF OnlyAt
<1>3. CASE /\ refs' = [refs EXCEPT ![u] = @ - 1]
           /\ registry' = [registry EXCEPT ![u] = @ \ {c}]
           /\ MovesTo(c, "unref") /\ UNCHANGED subscribed
  <2>1. /\ doing' \in [Conns -> Labels] /\ doing'[c] = "unref"
        /\ refs' \in [Users -> Int] /\ refs'[u] = refs[u] - 1
        /\ \A x \in Users \ {u} : refs'[x] = refs[x]
    BY <1>1, <1>3 DEF MovesTo, GwInv, GwTypeOK, Labels
  <2>2. /\ registry' \in [Users -> SUBSET Conns] /\ c \notin registry'[u]
        /\ \A x \in Users, d \in Conns : x # u \/ d # c => (d \in registry'[x] <=> d \in registry[x])
    BY <1>1, <1>3, Zenon DEF GwInv, GwTypeOK
  <2>3. GwTypeOK'
    BY <1>1, <1>3, <2>1, <2>2, Zenon DEF GwInv, GwTypeOK
  <2>4. \A d \in Conns \ {c} : SameSession(d)
    BY <1>1, <1>3, Zenon DEF SameSession, MovesTo, GwInv, GwTypeOK
  <2>5. OnlyAt(c, u)
    BY <1>0, <1>1, <1>3, <2>1, <2>2, <2>4, Zenon DEF OnlyAt, Holds, Fails, Joins, Leaves
  <2>6. Holds(c, u) /\ ~Holds(c, u)' /\ Fails(c, u)'
    BY <1>0, <1>1, <2>1, Zenon DEF Holds, Fails, Leaves
  <2>7. /\ refs'[u] <= Cardinality(Holders(u)')
        /\ ~crossed'[u] => refs'[u] = Cardinality(Holders(u)')
    BY <1>1, <2>1, <2>5, <2>6, OthersAt DEF UserInv
  <2>8. UserInv(u)'
    BY <2>6, <2>7, Zenon DEF UserInv
  <2>9. ConnInv(c)'
    BY <1>0, <1>1, <2>1, <2>2, Zenon DEF ConnInv
  <2> QED
    BY <1>1, <2>3, <2>5, <2>8, <2>9, StepAt, Zenon DEF OnlyAt
<1> QED
  BY <1>0, <1>2, <1>3, Zenon DEF Subscribe

\* Subscription.Remove up to its unlock, of a session that closes or of one whose
\* Add failed.
LEMMA UnrefInv ==
  ASSUME GwInv, NEW c \in Conns, Unref(c)
  PROVE  GwInv'
<1>0. PICK u : u = at[c]
  BY Zenon
<1>1. /\ doing[c] = "unref" /\ UNCHANGED <<key, userOf, closed, registry, subscribed, boundTo>>
      /\ ConnInv(c) /\ u \in channels[c] /\ u \in Users /\ UserInv(u) /\ refs[u] \in Int
      /\ boundTo \in [AuthKeys -> Users \union {Nobody}] /\ u # Nobody
  BY <1>0, GatewayAssumption DEF Unref, GwInv, ConnInv, keyVars, GwTypeOK
<1>2. /\ refs' \in [Users -> Int] /\ refs'[u] = (IF refs[u] <= 1 THEN 0 ELSE refs[u] - 1)
      /\ \A x \in Users \ {u} : refs'[x] = refs[x]
  BY <1>0, <1>1 DEF Unref, GwInv, GwTypeOK
<1>3. crossed \in [Users -> BOOLEAN] /\ crossed' = [crossed EXCEPT ![u] = @ \/ (~closed[c] /\ refs[u] > 0)]
  BY <1>0, Zenon DEF Unref, GwInv, GwTypeOK
<1>4. /\ crossed' \in [Users -> BOOLEAN] /\ \A x \in Users \ {u} : crossed'[x] = crossed[x]
      /\ crossed'[u] <=> crossed[u] \/ (~closed[c] /\ refs[u] > 0)
  BY <1>1, <1>3, Zenon
<1>5. CASE refs[u] <= 1 /\ MovesTo(c, "unsub") /\ UNCHANGED <<channels, at>>
  <2>1. doing' \in [Conns -> Labels] /\ doing'[c] = "unsub" /\ GwTypeOK'
    BY <1>1, <1>2, <1>4, <1>5, Zenon DEF MovesTo, GwInv, GwTypeOK, Labels
  <2>2. \A d \in Conns \ {c} : SameSession(d)
    BY <1>1, <1>5, Zenon DEF SameSession, MovesTo, GwInv, GwTypeOK
  <2>3. OnlyAt(c, u)
    BY <1>0, <1>1, <1>2, <1>4, <1>5, <2>1, <2>2, Zenon DEF OnlyAt, Holds, Fails, Joins, Leaves
  <2>4. /\ ~Holds(c, u)' /\ Leaves(c, u)' /\ (closed[c] <=> Holds(c, u))
    BY <1>0, <1>1, <1>5, <2>1, Zenon DEF Holds, Fails, Leaves
  <2>5. refs'[u] = 0 /\ refs'[u] <= Cardinality(Holders(u)') /\ ~(refs'[u] < 0)
    BY <1>1, <1>2, <1>5, <2>3, OthersAt
  <2>6. ~crossed'[u] => refs'[u] = Cardinality(Holders(u)')
    <3>1. CASE closed[c]
      <4>1. /\ Cardinality(Holders(u)') = Cardinality(Holders(u)) - 1
            /\ Cardinality(Holders(u)) \in Nat /\ Cardinality(Holders(u)') \in Nat
        BY <1>1, <2>3, <2>4, <3>1, OthersAt, Zenon
      <4> QED
        BY <1>1, <1>4, <1>5, <2>5, <4>1 DEF UserInv
    <3>2. CASE ~closed[c]
      <4>1. Holders(u)' = Holders(u) /\ Cardinality(Holders(u)) \in Nat
        BY <1>1, <2>3, <2>4, <3>2, OthersAt, Zenon
      <4> QED
        BY <1>1, <1>4, <2>5, <3>2, <4>1 DEF UserInv
    <3> QED
      BY <3>1, <3>2, Zenon
  <2>7. ~crossed'[u] => Holders(u)' = {}
    BY <1>1, <2>3, <2>5, <2>6, OthersAt, Zenon
  <2>8. UserInv(u)'
    BY <2>4, <2>5, <2>6, <2>7, Zenon DEF UserInv
  <2>9. ConnInv(c)'
    BY <1>0, <1>1, <1>5, <2>1, Zenon DEF ConnInv
  <2> QED
    BY <1>1, <2>1, <2>3, <2>8, <2>9, StepAt, Zenon DEF OnlyAt
<1>6. CASE ~(refs[u] <= 1) /\ Released(c)
  <2>1. /\ doing'[c] = (IF closed[c] THEN "closing" ELSE "ready")
        /\ channels'[c] = channels[c] \ {u} /\ at'[c] = Nobody
    BY <1>0, <1>1, <1>6, ReleasedShape, Zenon
  <2>2. GwTypeOK' /\ \A d \in Conns \ {c} : SameSession(d)
    <3>1. /\ doing' \in [Conns -> Labels] /\ channels' \in [Conns -> SUBSET Users]
          /\ at' \in [Conns -> Users \union {Nobody}]
          /\ \A d \in Conns \ {c} : /\ doing'[d] = doing[d] /\ channels'[d] = channels[d]
                                    /\ at'[d] = at[d]
      BY <1>0, <1>1, <1>6, ReleasedShape, Zenon
    <3> QED
      BY <1>1, <1>2, <1>4, <3>1, Zenon DEF GwInv, GwTypeOK, SameSession
  <2>3. OnlyAt(c, u)
    BY <1>0, <1>1, <1>2, <1>4, <2>1, <2>2, Zenon DEF OnlyAt, Holds, Fails, Joins, Leaves
  <2>4. /\ ~Holds(c, u)' /\ (closed[c] <=> Holds(c, u)) /\ ~Joins(c, u) /\ ~Leaves(c, u)
        /\ Fails(c, u) <=> ~closed[c]
    BY <1>0, <1>1, <2>1, Zenon DEF Holds, Fails, Leaves, Joins
  <2>5. refs'[u] = refs[u] - 1 /\ refs'[u] > 0
    BY <1>1, <1>2, <1>6
  <2>6. /\ refs'[u] <= Cardinality(Holders(u)') /\ Holders(u)' # {}
        /\ ~crossed'[u] => closed[c] /\ ~crossed[u] /\ refs'[u] = Cardinality(Holders(u)')
    <3>1. CASE closed[c]
      <4>1. /\ Cardinality(Holders(u)') = Cardinality(Holders(u)) - 1
            /\ Cardinality(Holders(u)) \in Nat /\ (Cardinality(Holders(u)') = 0 <=> Holders(u)' = {})
        BY <1>1, <2>3, <2>4, <3>1, OthersAt, Zenon
      <4>2. /\ refs'[u] <= Cardinality(Holders(u)') /\ Cardinality(Holders(u)') # 0
            /\ ~crossed[u] => refs'[u] = Cardinality(Holders(u)')
        BY <1>1, <2>5, <4>1 DEF UserInv
      <4> QED
        BY <1>4, <3>1, <4>1, <4>2, Zenon
    <3>2. CASE ~closed[c]
      <4>1. /\ Holders(u)' = Holders(u) /\ Cardinality(Holders(u)) \in Nat
            /\ Cardinality(Holders(u)') = 0 <=> Holders(u)' = {}
        BY <1>1, <2>3, <2>4, <3>2, OthersAt, Zenon
      <4>2. refs'[u] <= Cardinality(Holders(u)) /\ Cardinality(Holders(u)) # 0 /\ refs[u] > 0
        BY <1>1, <2>5, <4>1 DEF UserInv
      <4> QED
        BY <1>4, <3>2, <4>1, <4>2, Zenon
    <3> QED
      BY <3>1, <3>2, Zenon
  <2>7. ~crossed'[u] => subscribed'[u] \/ \E d \in Conns : Fails(d, u)' \/ Joins(d, u)'
    <3>1. ~crossed'[u] => Holders(u) # {}
      <4>1. Cardinality(Holders(u)) = 0 <=> Holders(u) = {}
        BY <1>1, HoldersCount, Zenon
      <4>2. Cardinality(Holders(u)) # 0
        BY <1>1, <1>6, HoldersCount DEF UserInv
      <4> QED
        BY <4>1, <4>2, Zenon
    <3>2. ~crossed'[u] => subscribed[u] \/ \E d \in Conns \ {c} : Fails(d, u) \/ Joins(d, u)
      BY <1>1, <2>4, <2>6, <3>1, Zenon DEF UserInv
    <3> QED
      BY <1>1, <2>3, <3>2, OthersAt, Zenon
  <2>8. UserInv(u)'
    <3>1. ~(refs'[u] < 0)
      BY <1>1, <2>5
    <3> QED
      BY <2>6, <2>7, <3>1, Zenon DEF UserInv
  <2>9. ConnInv(c)'
    BY <1>0, <1>1, <2>1, Zenon DEF ConnInv
  <2> QED
    BY <1>1, <2>2, <2>3, <2>8, <2>9, StepAt, Zenon DEF OnlyAt
<1> QED
  BY <1>0, <1>5, <1>6, Zenon DEF Unref

\* The UNSUBSCRIBE after the unlock: a reference taken in between is crossed.
LEMMA UnsubInv ==
  ASSUME GwInv, NEW c \in Conns, Unsub(c)
  PROVE  GwInv'
<1>0. PICK u : u = at[c]
  BY Zenon
<1>1. /\ doing[c] = "unsub" /\ UNCHANGED <<key, userOf, closed, registry, refs, boundTo>>
      /\ ConnInv(c) /\ u \in channels[c] /\ u \in Users /\ UserInv(u) /\ refs[u] \in Int
      /\ boundTo \in [AuthKeys -> Users \union {Nobody}] /\ u # Nobody /\ Released(c)
  BY <1>0, GatewayAssumption DEF Unsub, GwInv, ConnInv, keyVars, GwTypeOK
<1>2. /\ crossed \in [Users -> BOOLEAN] /\ crossed' = [crossed EXCEPT ![u] = @ \/ refs[u] > 0]
      /\ subscribed \in [Users -> BOOLEAN] /\ subscribed' = [subscribed EXCEPT ![u] = FALSE]
  BY <1>0, Zenon DEF Unsub, GwInv, GwTypeOK
<1>3. /\ crossed' \in [Users -> BOOLEAN] /\ subscribed' \in [Users -> BOOLEAN] /\ ~subscribed'[u]
      /\ \A x \in Users \ {u} : crossed'[x] = crossed[x] /\ subscribed'[x] = subscribed[x]
      /\ crossed'[u] <=> crossed[u] \/ refs[u] > 0
  BY <1>1, <1>2, Zenon
<1>4. /\ doing'[c] = (IF closed[c] THEN "closing" ELSE "ready")
      /\ channels'[c] = channels[c] \ {u} /\ at'[c] = Nobody
  BY <1>0, <1>1, ReleasedShape, Zenon
<1>5. GwTypeOK' /\ \A d \in Conns \ {c} : SameSession(d)
  <2>1. /\ doing' \in [Conns -> Labels] /\ channels' \in [Conns -> SUBSET Users]
        /\ at' \in [Conns -> Users \union {Nobody}]
        /\ \A d \in Conns \ {c} : /\ doing'[d] = doing[d] /\ channels'[d] = channels[d]
                                  /\ at'[d] = at[d]
    BY <1>0, <1>1, ReleasedShape, Zenon
  <2> QED
    BY <1>1, <1>3, <2>1, Zenon DEF GwInv, GwTypeOK, SameSession
<1>6. OnlyAt(c, u)
  BY <1>0, <1>1, <1>3, <1>4, <1>5, Zenon DEF OnlyAt, Holds, Fails, Joins, Leaves
<1>7. ~Holds(c, u)' /\ ~Holds(c, u) /\ ~Fails(c, u)
  BY <1>0, <1>1, <1>4, Zenon DEF Holds, Fails, Leaves
<1>8. /\ Holders(u)' = Holders(u) /\ Cardinality(Holders(u)) \in Nat
      /\ Cardinality(Holders(u)) = 0 <=> Holders(u) = {}
  BY <1>1, <1>6, <1>7, OthersAt, Zenon
<1>9. ~crossed'[u] => Cardinality(Holders(u)) = 0
  BY <1>1, <1>3, <1>8 DEF UserInv
<1>10. refs'[u] < 0 => \E d \in Conns : Fails(d, u)'
  BY <1>1, <1>6, <1>7, OthersAt, Zenon DEF UserInv
<1>11. UserInv(u)'
  BY <1>1, <1>3, <1>8, <1>9, <1>10, Zenon DEF UserInv
<1>12. ConnInv(c)'
  BY <1>0, <1>1, <1>4, Zenon DEF ConnInv
<1> QED
  BY <1>1, <1>5, <1>6, <1>11, <1>12, StepAt, Zenon DEF OnlyAt

\* The pod dies, by itself or of a send on a closed queue.
LEMMA PodGoneInv ==
  ASSUME GwInv, PodGone
  PROVE  GwInv'
<1>1. \A c \in Conns : /\ doing'[c] = (IF doing[c] = "plain" THEN "plain" ELSE "gone")
                       /\ closed'[c] <=> doing[c] # "plain"
                       /\ channels'[c] = {} /\ at'[c] = Nobody
  BY Zenon DEF PodGone
<1>2. /\ closed' \in [Conns -> BOOLEAN] /\ subscribed' \in [Users -> BOOLEAN]
      /\ crossed' \in [Users -> BOOLEAN]
  BY Zenon DEF PodGone
<1>3. /\ doing' \in [Conns -> Labels] /\ channels' \in [Conns -> SUBSET Users]
      /\ at' \in [Conns -> Users \union {Nobody}] /\ userOf' \in [Conns -> Users \union {Nobody}]
      /\ registry' \in [Users -> SUBSET Conns] /\ refs' \in [Users -> Int]
      /\ key' = key /\ boundTo' = boundTo
      /\ \A u \in Users : registry'[u] = {} /\ refs'[u] = 0
  BY DEF PodGone, Labels, keyVars
<1>4. GwTypeOK' /\ boundTo' \in [AuthKeys -> Users \union {Nobody}]
  BY <1>2, <1>3, Zenon DEF GwInv, GwTypeOK
<1>5. ASSUME NEW c \in Conns PROVE ConnInv(c)'
  BY <1>1, <1>3, <1>5, Zenon DEF ConnInv
<1>6. ASSUME NEW u \in Users PROVE UserInv(u)'
  <2>1. ~subscribed'[u]
    BY <1>6, Zenon DEF PodGone
  <2>2. Holders(u)' = {}
    BY <1>1, <1>6, Zenon DEF Holders, Holds
  <2>3. Cardinality(Holders(u)') = 0
    BY <2>2, FS_EmptySet, Zenon
  <2> QED
    BY <1>3, <1>6, <2>1, <2>2, <2>3 DEF UserInv
<1> QED
  BY <1>4, <1>5, <1>6, Zenon DEF GwInv

(***************************************************************************)
(* Theorems.                                                               *)
(***************************************************************************)
\* In every reachable state the count of a channel is at most the references held
\* and exact until it is crossed, and the registry mirrors the sessions' channels
\* up to the call in progress.
THEOREM GwInductive == GwSpec => []GwInv
<1>1. GwInit => GwInv
  BY GwInitInv, Zenon
<1>2. GwInv /\ [GwNext]_gwVars => GwInv'
  <2> SUFFICES ASSUME GwInv, [GwNext]_gwVars PROVE GwInv'
    BY Zenon
  <2>1. CASE UNCHANGED gwVars
    BY <2>1, ElsewhereInv, Zenon DEF gwVars
  <2>2. ASSUME NEW c \in Conns,
               \/ Handshake(c) \/ Resume(c) \/ Disconnect(c) \/ DestroySession(c)
               \/ \E u \in Users : AuthBind(c, u)
        PROVE  GwInv'
    BY <2>2, SessionInv, Zenon
  <2>3. ASSUME NEW c \in Conns, Step(c) PROVE GwInv'
    BY <2>3, SessionInv, AttachInv, AddRefInv, SubscribeInv, OnlineInv, CloseChannelInv, UnrefInv,
       UnsubInv, Zenon DEF Step
  <2>4. ASSUME NEW c \in Conns, Heartbeat(c) \/ WriteUpdate(c) PROVE GwInv'
    BY <2>4, ElsewhereInv, Zenon DEF Heartbeat, WriteUpdate
  <2>5. ASSUME NEW u \in Users, ExpirePresence(u) \/ PublishUpdate(u) PROVE GwInv'
    BY <2>5, ElsewhereInv, Zenon DEF ExpirePresence, PublishUpdate
  <2>6. ASSUME NEW e \in events, ApplyEvent(e) PROVE GwInv'
    BY <2>6, ElsewhereInv, Zenon DEF ApplyEvent
  <2>7. CASE Dispatch \/ EnqueueCheck \/ EnqueueSend \/ PodCrash
    BY <2>7, ElsewhereInv, PodGoneInv, Zenon DEF Dispatch, EnqueueCheck, EnqueueSend, PodCrash
  <2> QED
    BY <2>1, <2>2, <2>3, <2>4, <2>5, <2>6, <2>7, Zenon DEF GwNext
<1> QED
  BY <1>1, <1>2, PTL DEF GwSpec

\* The registry is exact, no channel stays subscribed for nobody, and a session
\* loses its subscription only to a crossed UNSUBSCRIBE or reference
\* (Registry, Subscription and Session.Close), for any number of connections.
THEOREM RoutesAlwaysExact == GwSpec => []RoutesExact
<1>1. GwInv => RoutesExact
  <2> SUFFICES ASSUME GwInv PROVE RoutesExact
    BY Zenon
  <2>1. ASSUME NEW c \in Conns, NEW u \in Users
        PROVE  /\ c \in registry[u] => u \in channels[c] /\ doing[c] # "gone"
               /\ u \in channels[c] /\ ~Busy(c, u) => c \in registry[u]
    BY <2>1, Zenon DEF GwInv, ConnInv, Busy
  <2>2. ASSUME NEW u \in Users, registry[u] = {}, \A c \in Conns : ~Busy(c, u)
        PROVE  ~subscribed[u] /\ refs[u] = 0
    <3>1. \A c \in Conns : ~Fails(c, u) /\ ~Leaves(c, u) /\ ~Holds(c, u)
      BY <2>2, Zenon DEF GwInv, ConnInv, Busy, Fails, Leaves, Holds
    <3>2. Holders(u) = {} /\ Cardinality(Holders(u)) = 0
      BY <2>2, <3>1, FS_EmptySet, Zenon DEF Holders
    <3>3. UserInv(u) /\ refs[u] \in Int
      BY <2>2, Zenon DEF GwInv, GwTypeOK
    <3> QED
      BY <3>1, <3>2, <3>3 DEF UserInv
  <2>3. ASSUME NEW c \in Conns, NEW u \in Users, c \in registry[u], ~crossed[u],
               \A d \in Conns : ~Busy(d, u)
        PROVE  subscribed[u]
    <3>1. \A d \in Conns : ~Fails(d, u) /\ ~Joins(d, u)
      BY <2>3, Zenon DEF Busy, Fails, Joins
    <3>2. c \in Holders(u)
      BY <2>3, Zenon DEF GwInv, ConnInv, Busy, Fails, Leaves, Holds, Holders
    <3> QED
      BY <2>3, <3>1, <3>2, Zenon DEF GwInv, UserInv
  <2> QED
    BY <2>1, <2>2, <2>3, Zenon DEF GwInv, RoutesExact, RegistryIsExact, NoSubscriptionLeak,
                            SubscribedUnlessCrossed
<1> QED
  BY <1>1, GwInductive, PTL
=============================================================================
