------------------------- MODULE VerificationProofs -------------------------
(***************************************************************************)
(* Theorems about the verification loops: candidates alone                 *)
(* (CandidateAdmission), routine checks alone (RoutineChecks), and both    *)
(* together (Verification), for any endpoints, goroutines and capacities.  *)
(*                                                                         *)
(* The argument: channels keep their values in order, so a claim moves     *)
(* with its endpoint from hand to hand and is in one hand at a time; a     *)
(* semaphore's slots are those of its users that do not wait, whoever they *)
(* are, so the two loops need not know of each other.                      *)
(***************************************************************************)
EXTENDS Verification, FiniteSetTheorems, SequenceTheorems, TLAPS

-----------------------------------------------------------------------------
(* Queues *)

\* Nobody waits at a channel that has room.
Buffered(q, capacity) ==
    /\ Len(q.buffer) <= capacity
    /\ q.line # << >> => Len(q.buffer) = capacity

Waiters(G, V) == [by : G, value : V]

LEMMA QueueFields ==
    ASSUME NEW G, NEW V
    PROVE  /\ \A q \in Queues(G, V) :
                /\ q.buffer \in Seq(V) /\ q.line \in Seq(Waiters(G, V))
                /\ q = [buffer |-> q.buffer, line |-> q.line]
           /\ \A b \in Seq(V), l \in Seq(Waiters(G, V)) :
                [buffer |-> b, line |-> l] \in Queues(G, V)
           /\ \A w \in Waiters(G, V) : w.by \in G /\ w.value \in V
           /\ \A g \in G, v \in V : [by |-> g, value |-> v] \in Waiters(G, V)
<1> DEFINE B == Seq(V)
           L == Seq(Waiters(G, V))
<1>1. Queues(G, V) = [buffer : B, line : L]
  BY DEF Queues, Waiters
<1> HIDE DEF B, L
<1>2. /\ \A q \in Queues(G, V) :
           q.buffer \in B /\ q.line \in L /\ q = [buffer |-> q.buffer, line |-> q.line]
      /\ \A b \in B, l \in L : [buffer |-> b, line |-> l] \in Queues(G, V)
  BY <1>1
<1>3. /\ \A w \in Waiters(G, V) : w.by \in G /\ w.value \in V
      /\ \A g \in G, v \in V : [by |-> g, value |-> v] \in Waiters(G, V)
  BY DEF Waiters
<1> QED
  BY <1>2, <1>3 DEF B, L

\* The values of buffer b and then those of line l.
Joined(b, l) == b \o [i \in 1 .. Len(l) |-> l[i].value]

IsJoined(s, b, l) ==
    /\ Len(s) = Len(b) + Len(l)
    /\ \A i \in 1 .. Len(b) : s[i] = b[i]
    /\ \A i \in 1 .. Len(l) : s[Len(b) + i] = l[i].value

LEMMA JoinedElements ==
    ASSUME NEW V, NEW W, \A w \in W : w.value \in V
    PROVE  \A b \in Seq(V), l \in Seq(W) :
             Joined(b, l) \in Seq(V) /\ IsJoined(Joined(b, l), b, l)
<1> SUFFICES ASSUME NEW b \in Seq(V), NEW l \in Seq(W)
             PROVE  Joined(b, l) \in Seq(V) /\ IsJoined(Joined(b, l), b, l)
  OBVIOUS
<1> DEFINE waiting == [i \in 1 .. Len(l) |-> l[i].value]
<1>1. \A i \in 1 .. Len(l) : l[i].value \in V
  <2>1. \A i \in 1 .. Len(l) : l[i] \in W
    OBVIOUS
  <2> QED
    BY <2>1
<1>2. waiting \in Seq(V) /\ Len(waiting) = Len(l)
      /\ \A i \in 1 .. Len(l) : waiting[i] = l[i].value
  BY <1>1
<1>3. Joined(b, l) = b \o waiting
  BY DEF Joined
<1> HIDE DEF waiting
<1>4. /\ b \o waiting \in Seq(V) /\ Len(b \o waiting) = Len(b) + Len(waiting)
      /\ \A i \in 1 .. Len(b) : (b \o waiting)[i] = b[i]
  BY <1>2
<1>5. \A i \in 1 .. Len(waiting) : (b \o waiting)[Len(b) + i] = waiting[i]
  BY <1>2
<1> QED
  BY <1>2, <1>3, <1>4, <1>5 DEF IsJoined

\* The values of a channel are those buffered and then those of the blocked senders.
LEMMA QueueValues ==
    ASSUME NEW G, NEW V, NEW q \in Queues(G, V)
    PROVE  Values(q) \in Seq(V) /\ IsJoined(Values(q), q.buffer, q.line)
<1>1. /\ q.buffer \in Seq(V) /\ q.line \in Seq(Waiters(G, V))
      /\ \A w \in Waiters(G, V) : w.value \in V
  BY QueueFields
<1>2. Values(q) = Joined(q.buffer, q.line)
  BY DEF Values, Joined
<1> QED
  BY <1>1, <1>2, JoinedElements

\* What a send and a receive do to the values of a channel.
IsAppended(t, s, v) ==
    /\ Len(t) = Len(s) + 1 /\ t[Len(s) + 1] = v
    /\ \A i \in 1 .. Len(s) : t[i] = s[i]

IsTailOf(t, s, v) ==
    /\ Len(s) = Len(t) + 1 /\ s[1] = v
    /\ \A i \in 1 .. Len(t) : t[i] = s[i + 1]

LEMMA JoinedAppends ==
    ASSUME NEW V, NEW W, NEW b \in Seq(V), NEW l \in Seq(W),
           NEW s \in Seq(V), IsJoined(s, b, l), NEW t \in Seq(V), NEW v
    PROVE  /\ l = << >> /\ v \in V /\ IsJoined(t, Append(b, v), l) => IsAppended(t, s, v)
           /\ \A w \in W : w.value = v /\ IsJoined(t, b, Append(l, w))
                          => IsAppended(t, s, v)
<1>1. ASSUME l = << >>, v \in V, IsJoined(t, Append(b, v), l)
      PROVE  IsAppended(t, s, v)
  <2>1. Len(l) = 0 /\ Len(Append(b, v)) = Len(b) + 1 /\ Append(b, v)[Len(b) + 1] = v
        /\ \A i \in 1 .. Len(b) : Append(b, v)[i] = b[i]
    BY <1>1
  <2> QED
    BY <1>1, <2>1 DEF IsJoined, IsAppended
<1>2. ASSUME NEW w \in W, w.value = v, IsJoined(t, b, Append(l, w))
      PROVE  IsAppended(t, s, v)
  <2> DEFINE k == Append(l, w)
  <2>1. Len(k) = Len(l) + 1 /\ k[Len(l) + 1] = w /\ \A i \in 1 .. Len(l) : k[i] = l[i]
    OBVIOUS
  <2>2. IsJoined(t, b, k)
    BY <1>2
  <2> HIDE DEF k
  <2>3. Len(s) = Len(b) + Len(l) /\ Len(t) = Len(b) + Len(l) + 1
    BY <2>1, <2>2 DEF IsJoined
  <2>4. t[Len(b) + Len(l) + 1] = v
    <3>1. Len(l) + 1 \in 1 .. Len(k) /\ Len(b) + (Len(l) + 1) = Len(b) + Len(l) + 1
      BY <2>1
    <3> QED
      BY <1>2, <2>1, <2>2, <3>1 DEF IsJoined
  <2>5. ASSUME NEW i \in 1 .. Len(s), i <= Len(b)
        PROVE  t[i] = s[i]
    BY <2>2, <2>5 DEF IsJoined
  <2>6. ASSUME NEW i \in 1 .. Len(s), ~(i <= Len(b))
        PROVE  t[i] = s[i]
    <3> DEFINE j == i - Len(b)
    <3>1. j \in 1 .. Len(l) /\ j \in 1 .. Len(k) /\ i = Len(b) + j
      BY <2>1, <2>3, <2>6
    <3> HIDE DEF j
    <3>2. t[Len(b) + j] = k[j].value /\ s[Len(b) + j] = l[j].value /\ k[j] = l[j]
      BY <2>1, <2>2, <3>1 DEF IsJoined
    <3> QED
      BY <3>1, <3>2
  <2> QED
    BY <2>3, <2>4, <2>5, <2>6 DEF IsAppended
<1> QED
  BY <1>1, <1>2

LEMMA JoinedTails ==
    ASSUME NEW V, NEW W, NEW b \in Seq(V), b # << >>, NEW l \in Seq(W),
           NEW s \in Seq(V), IsJoined(s, b, l), NEW t \in Seq(V)
    PROVE  /\ l = << >> /\ IsJoined(t, Tail(b), l) => IsTailOf(t, s, Head(b))
           /\ \A v \in V : l # << >> /\ v = Head(l).value
                           /\ IsJoined(t, Append(Tail(b), v), Tail(l))
                             => IsTailOf(t, s, Head(b))
<1>1. /\ Len(b) \in Nat \ {0} /\ Tail(b) \in Seq(V) /\ Len(Tail(b)) = Len(b) - 1
      /\ \A i \in 1 .. Len(b) - 1 : Tail(b)[i] = b[i + 1]
      /\ Head(b) = b[1]
  OBVIOUS
<1>2. ASSUME l = << >>, IsJoined(t, Tail(b), l)
      PROVE  IsTailOf(t, s, Head(b))
  <2>1. Len(l) = 0
    BY <1>2
  <2> QED
    BY <1>1, <1>2, <2>1 DEF IsJoined, IsTailOf
<1>3. ASSUME NEW v \in V, l # << >>, v = Head(l).value,
             IsJoined(t, Append(Tail(b), v), Tail(l))
      PROVE  IsTailOf(t, s, Head(b))
  <2> DEFINE c == Append(Tail(b), v)
             k == Tail(l)
  <2>1. /\ Len(c) = Len(b) /\ c[Len(b)] = v
        /\ \A i \in 1 .. Len(b) - 1 : c[i] = b[i + 1]
    BY <1>1
  <2>2. /\ Len(l) \in Nat \ {0} /\ Len(k) = Len(l) - 1
        /\ \A i \in 1 .. Len(l) - 1 : k[i] = l[i + 1]
        /\ v = l[1].value
    BY <1>3
  <2>3. IsJoined(t, c, k)
    BY <1>3
  <2> HIDE DEF c, k
  <2>4. Len(s) = Len(b) + Len(l) /\ Len(t) = Len(b) + Len(l) - 1
    BY <1>1, <2>1, <2>2, <2>3 DEF IsJoined
  <2>5. s[1] = Head(b)
    BY <1>1 DEF IsJoined
  <2>6. ASSUME NEW i \in 1 .. Len(t), i < Len(b)
        PROVE  t[i] = s[i + 1]
    <3>1. i \in 1 .. Len(b) - 1 /\ i \in 1 .. Len(c) /\ i + 1 \in 1 .. Len(b)
      BY <1>1, <2>1, <2>6
    <3> QED
      BY <2>1, <2>3, <3>1 DEF IsJoined
  <2>7. ASSUME NEW i \in 1 .. Len(t), i = Len(b)
        PROVE  t[i] = s[i + 1]
    <3>1. i \in 1 .. Len(c) /\ 1 \in 1 .. Len(l)
      BY <2>1, <2>2, <2>7
    <3>2. t[i] = c[i]
      BY <2>3, <3>1 DEF IsJoined
    <3>3. s[Len(b) + 1] = l[1].value
      BY <3>1 DEF IsJoined
    <3> QED
      BY <2>1, <2>2, <2>7, <3>2, <3>3
  <2>8. ASSUME NEW i \in 1 .. Len(t), i > Len(b)
        PROVE  t[i] = s[i + 1]
    <3> DEFINE j == i - Len(b)
    <3>1. /\ j \in 1 .. Len(k) /\ j \in 1 .. Len(l) - 1 /\ j + 1 \in 1 .. Len(l)
          /\ i = Len(b) + j /\ i + 1 = Len(b) + (j + 1)
      BY <1>1, <2>2, <2>4, <2>8
    <3> HIDE DEF j
    <3>2. t[Len(c) + j] = k[j].value
      BY <2>3, <3>1 DEF IsJoined
    <3>3. s[Len(b) + (j + 1)] = l[j + 1].value
      BY <3>1 DEF IsJoined
    <3> QED
      BY <2>1, <2>2, <3>1, <3>2, <3>3
  <2>9. \A i \in 1 .. Len(t) : t[i] = s[i + 1]
    <3> SUFFICES ASSUME NEW i \in 1 .. Len(t)
                 PROVE  t[i] = s[i + 1]
      OBVIOUS
    <3>0. i \in Int /\ Len(b) \in Int
      OBVIOUS
    <3>1. i < Len(b) \/ i = Len(b) \/ i > Len(b)
      BY <3>0
    <3>2. CASE i < Len(b)
      BY <2>6, <3>2
    <3>3. CASE i = Len(b)
      BY <2>7, <3>3
    <3>4. CASE i > Len(b)
      BY <2>8, <3>4
    <3> QED
      BY <3>1, <3>2, <3>3, <3>4
  <2>10. Len(s) = Len(t) + 1
    BY <1>1, <2>2, <2>4
  <2> QED
    BY <2>5, <2>9, <2>10 DEF IsTailOf
<1> QED
  BY <1>2, <1>3
\* A value that is sent is the last of the channel, blocked senders included.
LEMMA SendAppends ==
    ASSUME NEW G, NEW V, NEW q \in Queues(G, V), NEW capacity \in Nat,
           Buffered(q, capacity), NEW g \in G, NEW v \in V
    PROVE  LET r == Send(q, capacity, g, v)
           IN  /\ r \in Queues(G, V) /\ Buffered(r, capacity)
               /\ IsAppended(Values(r), Values(q), v)
<1> DEFINE W == Waiters(G, V)
           w == [by |-> g, value |-> v]
           r == Send(q, capacity, g, v)
<1>1. PICK b \in Seq(V), l \in Seq(W) : q = [buffer |-> b, line |-> l]
  BY QueueFields
<1>2. w \in W /\ w.value = v /\ q.buffer = b /\ q.line = l
  BY <1>1, QueueFields
<1>3. Values(q) \in Seq(V) /\ IsJoined(Values(q), b, l)
  BY <1>2, QueueValues
<1>4. Len(b) <= capacity /\ (l # << >> => Len(b) = capacity)
  BY <1>2 DEF Buffered
<1>5. \A c \in Seq(V), k \in Seq(W) : r = [buffer |-> c, line |-> k] =>
        /\ r \in Queues(G, V) /\ r.buffer = c /\ r.line = k
        /\ Values(r) \in Seq(V) /\ IsJoined(Values(r), c, k)
  <2>1. \A c \in Seq(V), k \in Seq(W) : [buffer |-> c, line |-> k] \in Queues(G, V)
    BY QueueFields
  <2>2. \A p \in Queues(G, V) :
           Values(p) \in Seq(V) /\ IsJoined(Values(p), p.buffer, p.line)
    BY QueueValues
  <2> QED
    BY <2>1, <2>2
<1>6. r = IF Len(b) < capacity THEN [buffer |-> Append(b, v), line |-> l]
                               ELSE [buffer |-> b, line |-> Append(l, w)]
  <2>1. \A c, k : /\ [q EXCEPT !.buffer = c] = [buffer |-> c, line |-> l]
                  /\ [q EXCEPT !.line = k] = [buffer |-> b, line |-> k]
    BY <1>1
  <2>2. r = IF Len(b) < capacity THEN [q EXCEPT !.buffer = Append(b, v)]
                                 ELSE [q EXCEPT !.line = Append(l, w)]
    BY <1>2 DEF Send
  <2> QED
    BY <2>1, <2>2
<1> HIDE DEF W, w, r
<1>7. CASE Len(b) < capacity
  <2> DEFINE c == Append(b, v)
  <2>1. c \in Seq(V) /\ r = [buffer |-> c, line |-> l] /\ l = << >>
    BY <1>4, <1>6, <1>7
  <2>2. Len(c) = Len(b) + 1
    OBVIOUS
  <2>3. /\ r \in Queues(G, V) /\ r.buffer = c /\ r.line = l
        /\ Values(r) \in Seq(V) /\ IsJoined(Values(r), c, l)
    BY <1>5, <2>1
  <2>4. IsAppended(Values(r), Values(q), v)
    BY <1>3, <2>1, <2>3, JoinedAppends
  <2>5. Len(c) <= capacity
    BY <1>7, <2>2
  <2> HIDE DEF c
  <2>6. Buffered(r, capacity)
    BY <2>1, <2>3, <2>5 DEF Buffered
  <2> QED
    BY <2>3, <2>4, <2>6 DEF r
<1>8. CASE ~(Len(b) < capacity)
  <2> DEFINE k == Append(l, w)
  <2>1. k \in Seq(W) /\ r = [buffer |-> b, line |-> k]
    BY <1>2, <1>6, <1>8
  <2>2. /\ r \in Queues(G, V) /\ r.buffer = b /\ r.line = k
        /\ Values(r) \in Seq(V) /\ IsJoined(Values(r), b, k)
    BY <1>5, <2>1
  <2>3. IsAppended(Values(r), Values(q), v)
    BY <1>2, <1>3, <2>2, JoinedAppends
  <2>4. Len(b) = capacity
    BY <1>4, <1>8
  <2> HIDE DEF k
  <2>5. Buffered(r, capacity)
    BY <2>2, <2>4 DEF Buffered
  <2> QED
    BY <2>2, <2>3, <2>5 DEF r
<1> QED
  BY <1>7, <1>8

\* A receive takes the first value of the channel; nobody waits longer than needed.
LEMMA ReceiveTakesFirst ==
    ASSUME NEW G, NEW V, NEW q \in Queues(G, V), NEW capacity \in Nat,
           Buffered(q, capacity), q.buffer # << >>
    PROVE  LET r == Receive(q)
           IN  /\ r \in Queues(G, V) /\ Buffered(r, capacity)
               /\ IsTailOf(Values(r), Values(q), Head(q.buffer))
               /\ Head(q.buffer) \in V
<1> DEFINE W == Waiters(G, V)
           r == Receive(q)
<1>1. PICK b \in Seq(V), l \in Seq(W) : q = [buffer |-> b, line |-> l]
  BY QueueFields
<1>2. q.buffer = b /\ q.line = l /\ b # << >> /\ Head(b) \in V
  BY <1>1
<1>3. Values(q) \in Seq(V) /\ IsJoined(Values(q), b, l)
  BY <1>2, QueueValues
<1>4. Len(b) <= capacity /\ (l # << >> => Len(b) = capacity)
  BY <1>2 DEF Buffered
<1>5. \A c \in Seq(V), k \in Seq(W) : r = [buffer |-> c, line |-> k] =>
        /\ r \in Queues(G, V) /\ r.buffer = c /\ r.line = k
        /\ Values(r) \in Seq(V) /\ IsJoined(Values(r), c, k)
  <2>1. \A c \in Seq(V), k \in Seq(W) : [buffer |-> c, line |-> k] \in Queues(G, V)
    BY QueueFields
  <2>2. \A p \in Queues(G, V) :
           Values(p) \in Seq(V) /\ IsJoined(Values(p), p.buffer, p.line)
    BY QueueValues
  <2> QED
    BY <2>1, <2>2
<1>6. r = IF l = << >> THEN [buffer |-> Tail(b), line |-> l]
                       ELSE [buffer |-> Append(Tail(b), Head(l).value), line |-> Tail(l)]
  <2>1. [q EXCEPT !.buffer = Tail(b)] = [buffer |-> Tail(b), line |-> l]
    <3>1. \A x, y, z : [[buffer |-> x, line |-> y] EXCEPT !.buffer = z] = [buffer |-> z, line |-> y]
      OBVIOUS
    <3> QED
      BY <1>1, <3>1
  <2>2. r = IF l = << >> THEN [q EXCEPT !.buffer = Tail(b)]
                         ELSE [buffer |-> Append(Tail(b), Head(l).value), line |-> Tail(l)]
    BY <1>2 DEF Receive
  <2> QED
    BY <2>1, <2>2
<1>7. \A w \in W : w.value \in V
  BY QueueFields
<1> HIDE DEF W, r
<1>8. Tail(b) \in Seq(V) /\ Len(Tail(b)) = Len(b) - 1 /\ Len(b) \in Nat
  BY <1>2
<1>9. CASE l = << >>
  <2> DEFINE c == Tail(b)
  <2>1. c \in Seq(V) /\ r = [buffer |-> c, line |-> l]
    BY <1>6, <1>8, <1>9
  <2>2. /\ r \in Queues(G, V) /\ r.buffer = c /\ r.line = l
        /\ Values(r) \in Seq(V) /\ IsJoined(Values(r), c, l)
    BY <1>5, <2>1
  <2>3. IsTailOf(Values(r), Values(q), Head(b))
    BY <1>2, <1>3, <1>9, <2>2, JoinedTails
  <2>4. Len(c) <= capacity
    <3> HIDE DEF c
    <3>1. Len(c) = Len(b) - 1 /\ Len(b) \in Nat
      BY <1>8 DEF c
    <3> QED
      BY <1>4, <3>1
  <2> HIDE DEF c
  <2>5. Buffered(r, capacity)
    BY <1>9, <2>2, <2>4 DEF Buffered
  <2> QED
    BY <1>2, <2>2, <2>3, <2>5 DEF r
<1>10. CASE l # << >>
  <2>1. PICK v \in V : v = Head(l).value
    <3>1. Head(l) \in W
      BY <1>10
    <3> QED
      BY <1>7, <3>1
  <2> DEFINE c == Append(Tail(b), v)
             k == Tail(l)
  <2>2. c \in Seq(V) /\ k \in Seq(W) /\ r = [buffer |-> c, line |-> k]
    BY <1>6, <1>8, <1>10, <2>1
  <2>3. Len(c) = Len(b)
    BY <1>8
  <2>4. /\ r \in Queues(G, V) /\ r.buffer = c /\ r.line = k
        /\ Values(r) \in Seq(V) /\ IsJoined(Values(r), c, k)
    BY <1>5, <2>2
  <2>5. IsTailOf(Values(r), Values(q), Head(b))
    BY <1>2, <1>3, <1>10, <2>1, <2>4, JoinedTails
  <2>6. Len(c) = capacity
    BY <1>4, <1>10, <2>3
  <2> HIDE DEF c, k
  <2>7. Buffered(r, capacity)
    BY <2>4, <2>6 DEF Buffered
  <2> QED
    BY <1>2, <2>4, <2>5, <2>7 DEF r
<1> QED
  BY <1>9, <1>10

\* An empty channel.
LEMMA EmptyQueueIsFine ==
    ASSUME NEW G, NEW V, NEW capacity \in Nat
    PROVE  /\ EmptyQueue \in Queues(G, V) /\ Buffered(EmptyQueue, capacity)
           /\ Values(EmptyQueue) \in Seq(V) /\ Len(Values(EmptyQueue)) = 0
<1>1. EmptyQueue.buffer = << >> /\ EmptyQueue.line = << >>
  BY DEF EmptyQueue
<1>2. EmptyQueue \in Queues(G, V)
  <2>1. << >> \in Seq(V) /\ << >> \in Seq(Waiters(G, V))
    OBVIOUS
  <2> QED
    BY <2>1, QueueFields DEF EmptyQueue
<1>3. Values(EmptyQueue) \in Seq(V) /\ IsJoined(Values(EmptyQueue), << >>, << >>)
  BY <1>1, <1>2, QueueValues
<1>4. Len(Values(EmptyQueue)) = 0
  BY <1>3 DEF IsJoined
<1>5. Buffered(EmptyQueue, capacity)
  BY <1>1 DEF Buffered
<1> QED
  BY <1>2, <1>3, <1>4, <1>5
-----------------------------------------------------------------------------
(* Semaphores *)

InLine(l) == {l[i] : i \in 1 .. Len(l)}

\* n slots are taken, by those users that do not stand in line l; nobody stands in it
\* twice, or while a slot is free.
Accounted(n, l, capacity, U) ==
    /\ InLine(l) \subseteq U
    /\ \A i, j \in 1 .. Len(l) : l[i] = l[j] => i = j
    /\ IsFiniteSet(U \ InLine(l))
    /\ n = Cardinality(U \ InLine(l))
    /\ n <= capacity
    /\ l # << >> => n = capacity

LEMMA LineGrows ==
    ASSUME NEW G, NEW l \in Seq(G), NEW g \in G
    PROVE  InLine(Append(l, g)) = InLine(l) \cup {g}
<1> DEFINE k == Append(l, g)
<1>1. Len(k) = Len(l) + 1 /\ k[Len(l) + 1] = g /\ \A i \in 1 .. Len(l) : k[i] = l[i]
  OBVIOUS
<1>2. Len(l) \in Nat
  OBVIOUS
<1> HIDE DEF k
<1>3. \A x \in InLine(k) : x \in InLine(l) \cup {g}
  <2> SUFFICES ASSUME NEW i \in 1 .. Len(k)
               PROVE  k[i] \in InLine(l) \cup {g}
    BY DEF InLine
  <2>1. i \in 1 .. Len(l) \/ i = Len(l) + 1
    BY <1>1, <1>2
  <2> QED
    BY <1>1, <2>1 DEF InLine
<1>4. \A x \in InLine(l) : x \in InLine(k)
  <2> SUFFICES ASSUME NEW i \in 1 .. Len(l)
               PROVE  l[i] \in InLine(k)
    BY DEF InLine
  <2>1. i \in 1 .. Len(k)
    BY <1>1, <1>2
  <2> QED
    BY <1>1, <2>1 DEF InLine
<1>5. g \in InLine(k)
  <2>1. Len(l) + 1 \in 1 .. Len(k)
    BY <1>1, <1>2
  <2> QED
    BY <1>1, <2>1 DEF InLine
<1> QED
  BY <1>3, <1>4, <1>5 DEF k

LEMMA LineMovesUp ==
    ASSUME NEW G, NEW l \in Seq(G), l # << >>,
           \A i, j \in 1 .. Len(l) : l[i] = l[j] => i = j
    PROVE  /\ InLine(Tail(l)) = InLine(l) \ {Head(l)} /\ Head(l) \in InLine(l)
           /\ \A i, j \in 1 .. Len(Tail(l)) : Tail(l)[i] = Tail(l)[j] => i = j
<1> DEFINE k == Tail(l)
<1>1. /\ Len(l) \in Nat \ {0} /\ Len(k) = Len(l) - 1 /\ Head(l) = l[1]
      /\ \A i \in 1 .. Len(l) - 1 : k[i] = l[i + 1]
  OBVIOUS
<1> HIDE DEF k
<1>2. \A i \in 1 .. Len(k) : k[i] = l[i + 1] /\ i + 1 \in 1 .. Len(l) /\ i + 1 # 1
  BY <1>1
<1>3. \A x \in InLine(k) : x \in InLine(l) /\ x # Head(l)
  <2> SUFFICES ASSUME NEW i \in 1 .. Len(k)
               PROVE  k[i] \in InLine(l) /\ k[i] # Head(l)
    BY DEF InLine
  <2>1. 1 \in 1 .. Len(l)
    BY <1>1
  <2> QED
    BY <1>1, <1>2, <2>1 DEF InLine
<1>4. \A x \in InLine(l) : x # Head(l) => x \in InLine(k)
  <2> SUFFICES ASSUME NEW i \in 1 .. Len(l), l[i] # Head(l)
               PROVE  l[i] \in InLine(k)
    BY DEF InLine
  <2>1. i # 1
    BY <1>1
  <2>2. i - 1 \in 1 .. Len(k) /\ (i - 1) + 1 = i
    BY <1>1, <2>1
  <2>3. k[i - 1] = l[i]
    BY <1>2, <2>2
  <2> QED
    BY <2>2, <2>3 DEF InLine
<1>5. Head(l) \in InLine(l)
  <2>1. 1 \in 1 .. Len(l)
    BY <1>1
  <2> QED
    BY <1>1, <2>1 DEF InLine
<1>6. ASSUME NEW i \in 1 .. Len(k), NEW j \in 1 .. Len(k), k[i] = k[j]
      PROVE  i = j
  <2>1. i + 1 = j + 1
    BY <1>2, <1>6
  <2> QED
    BY <1>1, <2>1
<1> QED
  BY <1>3, <1>4, <1>5, <1>6 DEF k

LEMMA SlotTaken ==
    ASSUME NEW G, NEW n \in Nat, NEW l \in Seq(G), NEW capacity \in Nat, NEW U,
           Accounted(n, l, capacity, U), NEW g \in G, g \notin U
    PROVE  /\ n < capacity => Accounted(n + 1, l, capacity, U \cup {g})
           /\ ~(n < capacity) => Accounted(n, Append(l, g), capacity, U \cup {g})
<1>1. ASSUME n < capacity
      PROVE  Accounted(n + 1, l, capacity, U \cup {g})
  <2>1. l = << >>
    BY <1>1 DEF Accounted
  <2>2. InLine(l) = {} /\ Len(l) = 0
    BY <2>1 DEF InLine
  <2>3. IsFiniteSet(U) /\ n = Cardinality(U)
    <3>1. U \ InLine(l) = U
      BY <2>2
    <3> QED
      BY <3>1 DEF Accounted
  <2>4. IsFiniteSet(U \cup {g}) /\ Cardinality(U \cup {g}) = n + 1
    BY <2>3, FS_AddElement
  <2>5. (U \cup {g}) \ InLine(l) = U \cup {g}
    BY <2>2
  <2>6. n + 1 <= capacity
    BY <1>1
  <2> QED
    BY <2>1, <2>2, <2>4, <2>5, <2>6 DEF Accounted
<1>2. ASSUME ~(n < capacity)
      PROVE  Accounted(n, Append(l, g), capacity, U \cup {g})
  <2> DEFINE k == Append(l, g)
  <2>1. InLine(k) = InLine(l) \cup {g}
    BY LineGrows
  <2>2. Len(k) = Len(l) + 1 /\ k[Len(l) + 1] = g /\ \A i \in 1 .. Len(l) : k[i] = l[i]
    OBVIOUS
  <2>3. Len(l) \in Nat
    OBVIOUS
  <2> HIDE DEF k
  <2>4. \A i \in 1 .. Len(l) : l[i] # g
    BY DEF Accounted, InLine
  <2>5. ASSUME NEW i \in 1 .. Len(k), NEW j \in 1 .. Len(k), k[i] = k[j]
        PROVE  i = j
    <3>1. i \in 1 .. Len(l) \/ i = Len(l) + 1
      BY <2>2, <2>3
    <3>2. j \in 1 .. Len(l) \/ j = Len(l) + 1
      BY <2>2, <2>3
    <3> QED
      BY <2>2, <2>4, <2>5, <3>1, <3>2 DEF Accounted
  <2>6. (U \cup {g}) \ InLine(k) = U \ InLine(l)
    BY <2>1
  <2>7. InLine(k) \subseteq U \cup {g}
    BY <2>1 DEF Accounted
  <2>8. n = capacity
    BY <1>2 DEF Accounted
  <2> QED
    BY <2>5, <2>6, <2>7, <2>8 DEF Accounted, k
<1> QED
  BY <1>1, <1>2

LEMMA SlotGivenBack ==
    ASSUME NEW G, NEW n \in Nat, NEW l \in Seq(G), NEW capacity \in Nat, NEW U,
           Accounted(n, l, capacity, U), NEW g \in U, g \notin InLine(l)
    PROVE  /\ l = << >> => n - 1 \in Nat /\ Accounted(n - 1, l, capacity, U \ {g})
           /\ l # << >> => Accounted(n, Tail(l), capacity, U \ {g})
<1>1. ASSUME l = << >>
      PROVE  n - 1 \in Nat /\ Accounted(n - 1, l, capacity, U \ {g})
  <2>1. InLine(l) = {} /\ Len(l) = 0
    BY <1>1 DEF InLine
  <2>2. IsFiniteSet(U) /\ n = Cardinality(U)
    <3>1. U \ InLine(l) = U
      BY <2>1
    <3> QED
      BY <3>1 DEF Accounted
  <2>3. IsFiniteSet(U \ {g}) /\ Cardinality(U \ {g}) = n - 1
    BY <2>2, FS_RemoveElement
  <2>4. (U \ {g}) \ InLine(l) = U \ {g}
    BY <2>1
  <2>5. n - 1 \in Nat
    BY <2>3, FS_CardinalityType
  <2>6. n - 1 <= capacity
    BY DEF Accounted
  <2> QED
    BY <1>1, <2>1, <2>3, <2>4, <2>5, <2>6 DEF Accounted
<1>2. ASSUME l # << >>
      PROVE  Accounted(n, Tail(l), capacity, U \ {g})
  <2> DEFINE k == Tail(l)
             h == Head(l)
             H == U \ InLine(l)
  <2>1. /\ InLine(k) = InLine(l) \ {h} /\ h \in InLine(l)
        /\ \A i, j \in 1 .. Len(k) : k[i] = k[j] => i = j
    BY <1>2, LineMovesUp DEF Accounted
  <2>2. IsFiniteSet(H) /\ Cardinality(H) = n /\ g \in H /\ h \notin H /\ n = capacity
    BY <1>2, <2>1 DEF Accounted
  <2> HIDE DEF k, h
  <2>3. (U \ {g}) \ InLine(k) = (H \ {g}) \cup {h} /\ InLine(k) \subseteq U \ {g}
    BY <2>1 DEF Accounted
  <2> HIDE DEF H
  <2>4. IsFiniteSet(H \ {g}) /\ Cardinality(H \ {g}) = n - 1
    BY <2>2, FS_RemoveElement
  <2>5. IsFiniteSet((H \ {g}) \cup {h}) /\ Cardinality((H \ {g}) \cup {h}) = n - 1 + 1
    BY <2>2, <2>4, FS_AddElement
  <2>6. n - 1 + 1 = n
    OBVIOUS
  <2> QED
    BY <2>1, <2>2, <2>3, <2>5, <2>6 DEF Accounted, k
<1> QED
  BY <1>1, <1>2
\* Semaphore s, of this capacity, with the users U: those in a slot and those in line.
UsedBy(s, capacity, G, U) ==
    s \in Semaphores(G) /\ Accounted(s.taken, s.line, capacity, U)

LEMMA SemaphoreFields ==
    ASSUME NEW G
    PROVE  /\ \A s \in Semaphores(G) :
                \E n \in Nat, l \in Seq(G) : s = [taken |-> n, line |-> l]
           /\ \A n \in Nat, l \in Seq(G) :
                LET s == [taken |-> n, line |-> l]
                IN  s \in Semaphores(G) /\ s.taken = n /\ s.line = l
<1> DEFINE L == Seq(G)
<1>1. Semaphores(G) = [taken : Nat, line : L]
  BY DEF Semaphores
<1> HIDE DEF L
<1>2. /\ \A s \in Semaphores(G) : \E n \in Nat, l \in L : s = [taken |-> n, line |-> l]
      /\ \A n \in Nat, l \in L : [taken |-> n, line |-> l] \in Semaphores(G)
  BY <1>1
<1> QED
  BY <1>2 DEF L

\* What a change of one field makes of a semaphore.
LEMMA SlotFields ==
    \A n, l, x : /\ [[taken |-> n, line |-> l] EXCEPT !.taken = x] = [taken |-> x, line |-> l]
                 /\ [[taken |-> n, line |-> l] EXCEPT !.line = x] = [taken |-> n, line |-> x]
OBVIOUS

LEMMA WaitsInLine ==
    ASSUME NEW s, NEW x
    PROVE  Waits(s, x) <=> x \in InLine(s.line)
  BY DEF Waits, InLine

\* To enter makes a user, who may have to wait; it makes nobody else wait.
LEMMA Enters ==
    ASSUME NEW G, NEW s, NEW capacity \in Nat, NEW U, UsedBy(s, capacity, G, U),
           NEW g \in G, g \notin U
    PROVE  /\ UsedBy(Enter(s, capacity, g), capacity, G, U \cup {g})
           /\ \A x : Waits(Enter(s, capacity, g), x) => Waits(s, x) \/ x = g
<1> DEFINE r == Enter(s, capacity, g)
<1>1. PICK n \in Nat, l \in Seq(G) : s = [taken |-> n, line |-> l]
  BY SemaphoreFields DEF UsedBy
<1>2. s.taken = n /\ s.line = l /\ Accounted(n, l, capacity, U)
  BY <1>1 DEF UsedBy
<1>3. r = IF n < capacity THEN [taken |-> n + 1, line |-> l]
                          ELSE [taken |-> n, line |-> Append(l, g)]
  <2>1. r = IF n < capacity THEN [s EXCEPT !.taken = n + 1] ELSE [s EXCEPT !.line = Append(l, g)]
    BY <1>2 DEF Enter
  <2>2. [s EXCEPT !.taken = n + 1] = [taken |-> n + 1, line |-> l]
    BY <1>1, SlotFields
  <2>3. [s EXCEPT !.line = Append(l, g)] = [taken |-> n, line |-> Append(l, g)]
    BY <1>1, SlotFields
  <2> HIDE DEF r
  <2> QED
    BY <2>1, <2>2, <2>3
<1> HIDE DEF r
<1>4. CASE n < capacity
  <2>1. r \in Semaphores(G) /\ r.taken = n + 1 /\ r.line = l
    <3> DEFINE m == n + 1
    <3>1. m \in Nat
      OBVIOUS
    <3>2. r = [taken |-> m, line |-> l]
      BY <1>3, <1>4
    <3> HIDE DEF m
    <3>3. r \in Semaphores(G) /\ r.taken = m /\ r.line = l
      BY <3>1, <3>2, SemaphoreFields
    <3> QED
      BY <3>3 DEF m
  <2>2. Accounted(n + 1, l, capacity, U \cup {g})
    BY <1>2, <1>4, SlotTaken
  <2>3. UsedBy(r, capacity, G, U \cup {g})
    BY <2>1, <2>2 DEF UsedBy
  <2> QED
    BY <1>2, <2>1, <2>3, WaitsInLine DEF r
<1>5. CASE ~(n < capacity)
  <2> DEFINE k == Append(l, g)
  <2>1. k \in Seq(G)
    OBVIOUS
  <2>2. InLine(k) = InLine(l) \cup {g}
    BY LineGrows
  <2>3. Accounted(n, k, capacity, U \cup {g})
    BY <1>2, <1>5, SlotTaken
  <2>4. r = [taken |-> n, line |-> k]
    BY <1>3, <1>5
  <2> HIDE DEF k
  <2>5. r \in Semaphores(G) /\ r.taken = n /\ r.line = k
    BY <2>1, <2>4, SemaphoreFields
  <2>6. UsedBy(r, capacity, G, U \cup {g})
    BY <2>3, <2>5 DEF UsedBy
  <2> QED
    BY <1>2, <2>2, <2>5, <2>6, WaitsInLine DEF r
<1> QED
  BY <1>4, <1>5

\* Who leaves stops being a user; the first in line, if any, stops waiting.
LEMMA Leaves ==
    ASSUME NEW G, NEW s, NEW capacity \in Nat, NEW U, UsedBy(s, capacity, G, U),
           NEW g \in U, ~Waits(s, g)
    PROVE  /\ UsedBy(Leave(s), capacity, G, U \ {g})
           /\ \A x : Waits(Leave(s), x) => Waits(s, x)
<1> DEFINE r == Leave(s)
<1>1. PICK n \in Nat, l \in Seq(G) : s = [taken |-> n, line |-> l]
  BY SemaphoreFields DEF UsedBy
<1>2. s.taken = n /\ s.line = l /\ Accounted(n, l, capacity, U)
  BY <1>1 DEF UsedBy
<1>3. r = IF l = << >> THEN [taken |-> n - 1, line |-> l]
                       ELSE [taken |-> n, line |-> Tail(l)]
  <2>1. r = IF l = << >> THEN [s EXCEPT !.taken = n - 1] ELSE [s EXCEPT !.line = Tail(l)]
    BY <1>2 DEF Leave
  <2>2. [s EXCEPT !.taken = n - 1] = [taken |-> n - 1, line |-> l]
    BY <1>1, SlotFields
  <2>3. [s EXCEPT !.line = Tail(l)] = [taken |-> n, line |-> Tail(l)]
    BY <1>1, SlotFields
  <2> HIDE DEF r
  <2> QED
    BY <2>1, <2>2, <2>3
<1>4. g \notin InLine(l)
  BY <1>2, WaitsInLine
<1> HIDE DEF r
<1>5. CASE l = << >>
  <2>1. n - 1 \in Nat /\ Accounted(n - 1, l, capacity, U \ {g})
    BY <1>2, <1>4, <1>5, SlotGivenBack
  <2>2. r \in Semaphores(G) /\ r.taken = n - 1 /\ r.line = l
    BY <1>3, <1>5, <2>1, SemaphoreFields
  <2>3. UsedBy(r, capacity, G, U \ {g})
    BY <2>1, <2>2 DEF UsedBy
  <2> QED
    BY <1>2, <2>2, <2>3, WaitsInLine DEF r
<1>6. CASE l # << >>
  <2> DEFINE k == Tail(l)
  <2>1. k \in Seq(G) /\ r = [taken |-> n, line |-> k]
    BY <1>3, <1>6
  <2>2. Accounted(n, k, capacity, U \ {g})
    BY <1>2, <1>4, <1>6, SlotGivenBack
  <2>3. InLine(k) \subseteq InLine(l)
    <3>1. InLine(k) = InLine(l) \ {Head(l)}
      BY <1>2, <1>6, LineMovesUp DEF Accounted
    <3> QED
      BY <3>1
  <2> HIDE DEF k
  <2>4. r \in Semaphores(G) /\ r.taken = n /\ r.line = k
    BY <2>1, SemaphoreFields
  <2>5. UsedBy(r, capacity, G, U \ {g})
    BY <2>2, <2>4 DEF UsedBy
  <2> QED
    BY <1>2, <2>3, <2>4, <2>5, WaitsInLine DEF r
<1> QED
  BY <1>5, <1>6

LEMMA AllFreeIsFine ==
    ASSUME NEW G, NEW capacity \in Nat
    PROVE  UsedBy(AllFree, capacity, G, {}) /\ \A x : ~Waits(AllFree, x)
<1>1. AllFree \in Semaphores(G) /\ AllFree.taken = 0 /\ AllFree.line = << >>
  <2> DEFINE none == << >>
  <2>1. 0 \in Nat /\ none \in Seq(G)
    OBVIOUS
  <2>2. AllFree = [taken |-> 0, line |-> none]
    BY DEF AllFree
  <2> HIDE DEF none
  <2>3. AllFree \in Semaphores(G) /\ AllFree.taken = 0 /\ AllFree.line = none
    BY <2>1, <2>2, SemaphoreFields
  <2> QED
    BY <2>3 DEF none
<1>2. InLine(<< >>) = {}
  BY DEF InLine
<1>3. Accounted(0, << >>, capacity, {})
  <2>1. {} \ InLine(<< >>) = {}
    BY <1>2
  <2> QED
    BY <1>2, <2>1, FS_EmptySet DEF Accounted
<1> QED
  BY <1>1, <1>2, <1>3, WaitsInLine DEF UsedBy

\* What it means for the slots.
LEMMA Slots ==
    ASSUME NEW G, NEW s, NEW capacity \in Nat, NEW U, UsedBy(s, capacity, G, U)
    PROVE  LET held == {u \in U : ~Waits(s, u)}
           IN  /\ IsFiniteSet(held) /\ s.taken = Cardinality(held) /\ s.taken <= capacity
               /\ s.line # << >> => s.taken = capacity
<1>1. {u \in U : ~Waits(s, u)} = U \ InLine(s.line)
  BY WaitsInLine
<1> QED
  BY <1>1 DEF UsedBy, Accounted
-----------------------------------------------------------------------------
(* The capacities, and the state of the endpoints *)

LEMMA Capacities ==
    /\ ValidationCapacity \in Nat \ {0} /\ ValidationCapacity = Workers
    /\ CandidateCapacity \in Nat \ {0}
    /\ CandidateCapacity = Workers - ReservedOf(Workers, Reserve)
<1>1. Workers \in Nat \ {0} /\ Reserve \in Int
  BY WorkersAssumption
<1>2. Workers \div 5 \in Int
  BY <1>1
<1>3. ReservedOf(Workers, Reserve) \in Int /\ ReservedOf(Workers, Reserve) <= Workers - 1
  BY <1>1, <1>2 DEF ReservedOf
<1> QED
  BY <1>1, <1>3 DEF ValidationCapacity, CandidateCapacity

StoredTypeOK ==
    /\ PoolTypeOK
    /\ aged \in SUBSET Endpoint
    /\ backingOff \in SUBSET Endpoint

LEMMA PoolSteps ==
    ASSUME StoredTypeOK
    PROVE  /\ \A e \in Endpoint : Verified(e) => PoolTypeOK' /\ aged' \in SUBSET Endpoint
           /\ \A e \in Endpoint : Failed(e) => PoolTypeOK' /\ aged' \in SUBSET Endpoint
           /\ \A e \in Endpoint : Misplace(e) => PoolTypeOK'
           /\ \A ip \in IP : LockOut(ip) => PoolTypeOK'
           /\ Elapse => PoolTypeOK'
           /\ UNCHANGED pool => PoolTypeOK'
<1>1. ASSUME NEW e \in Endpoint, Verified(e)
      PROVE  PoolTypeOK' /\ aged' \in SUBSET Endpoint
  BY <1>1 DEF StoredTypeOK, PoolTypeOK, Verified, Accept, Verdicts
<1>2. ASSUME NEW e \in Endpoint, Failed(e)
      PROVE  PoolTypeOK' /\ aged' \in SUBSET Endpoint
  BY <1>2 DEF StoredTypeOK, PoolTypeOK, Failed, Quarantine, Verdicts
<1>3. ASSUME NEW e \in Endpoint, Misplace(e)
      PROVE  PoolTypeOK'
  BY <1>3 DEF StoredTypeOK, PoolTypeOK, Misplace
<1>4. ASSUME NEW ip \in IP, LockOut(ip)
      PROVE  PoolTypeOK'
  <2>1. verdict' \in [Endpoint -> Verdicts]
    BY <1>4 DEF StoredTypeOK, PoolTypeOK, LockOut, Verdicts
  <2> QED
    BY <1>4, <2>1 DEF StoredTypeOK, PoolTypeOK, LockOut
<1>5. ASSUME Elapse
      PROVE  PoolTypeOK'
  BY <1>5 DEF StoredTypeOK, PoolTypeOK, Elapse
<1>6. ASSUME UNCHANGED pool
      PROVE  PoolTypeOK'
  BY <1>6 DEF StoredTypeOK, PoolTypeOK, pool
<1> QED
  BY <1>1, <1>2, <1>3, <1>4, <1>5, <1>6

-----------------------------------------------------------------------------
(* Candidate admission: the fetchers' and the validators' locals, the keys and
   the channel. *)

AdmissionLocals ==
    /\ queued \in SUBSET Endpoint /\ pending \in SUBSET Endpoint
    /\ fpc \in [Fetcher -> FetchLabels]
    /\ fe \in [Fetcher -> Endpoint \cup {Nothing}]
    /\ fn \in [Fetcher -> 0 .. FetchLimit]
    /\ \A f \in Fetcher : fpc[f] # "offer" => fe[f] \in Endpoint /\ fn[f] < FetchLimit
    /\ vpc \in [Validator -> ValidateLabels]
    /\ ve \in [Validator -> Endpoint \cup {Nothing}]
    /\ \A v \in Validator : vpc[v] # "receive" => ve[v] \in Endpoint

JobsOK == jobs \in Queues(Fetcher, Endpoint) /\ Buffered(jobs, QueueCapacity)

Owns(v) == vpc[v] \notin {"receive", "claim"}
Carries(v) == vpc[v] \notin {"receive", "unpend"}

\* A validator that owns an endpoint owns a key of pendingValidate, and each key has
\* one owner.
PendingKeys ==
    /\ \A v \in Validator : Owns(v) => ve[v] \in pending
    /\ \A v, w \in Validator : Owns(v) /\ Owns(w) /\ ve[v] = ve[w] => v = w
    /\ \A e \in pending : \E v \in Validator : Owns(v) /\ ve[v] = e

\* An endpoint under way has a key of queuedCandidates and is in one hand: with a
\* fetcher about to send it, at a place in the channel, or with a validator.
QueuedKeys ==
    LET J == Values(jobs)
        sending == {f \in Fetcher : fpc[f] = "send"}
        carrying == {v \in Validator : Carries(v)}
    IN  /\ \A f \in sending : fe[f] \in queued
        /\ \A i \in 1 .. Len(J) : J[i] \in queued
        /\ \A v \in carrying : ve[v] \in queued
        /\ \A f, g \in sending : fe[f] = fe[g] => f = g
        /\ \A i, j \in 1 .. Len(J) : J[i] = J[j] => i = j
        /\ \A v, w \in carrying : ve[v] = ve[w] => v = w
        /\ \A f \in sending, i \in 1 .. Len(J) : fe[f] # J[i]
        /\ \A f \in sending, v \in carrying : fe[f] # ve[v]
        /\ \A i \in 1 .. Len(J), v \in carrying : J[i] # ve[v]

AdmissionCore == AdmissionLocals /\ JobsOK /\ PendingKeys /\ QueuedKeys

\* The labels between the claim and the release of the keys.
Working == ValidateLabels \ {"receive", "claim", "unqueue", "unpend"}

\* What a step of validator v means to the keys and the channel.
Moves(v, label, e) ==
    /\ vpc' = [vpc EXCEPT ![v] = label]
    /\ ve' = [ve EXCEPT ![v] = e]
    /\ UNCHANGED fetchers

Receives(v) ==
    /\ vpc[v] = "receive" /\ jobs.buffer # << >>
    /\ Moves(v, "claim", Head(jobs.buffer)) /\ jobs' = Receive(jobs)
    /\ UNCHANGED keys

Drops(v) == vpc[v] = "claim" /\ Moves(v, "receive", Nothing) /\ UNCHANGED <<jobs, keys>>

Claims(v) ==
    /\ vpc[v] = "claim" /\ ve[v] \notin pending
    /\ Moves(v, "locked", ve[v])
    /\ pending' = pending \cup {ve[v]} /\ UNCHANGED <<jobs, queued>>

Works(v) ==
    /\ vpc[v] \in Working
    /\ \E label \in Working \cup {"unqueue"} : Moves(v, label, ve[v])
    /\ UNCHANGED <<jobs, keys>>

Unqueues(v) ==
    /\ vpc[v] = "unqueue" /\ Moves(v, "unpend", ve[v])
    /\ queued' = queued \ {ve[v]} /\ UNCHANGED <<jobs, pending>>

Unpends(v) ==
    /\ vpc[v] = "unpend" /\ Moves(v, "receive", Nothing)
    /\ pending' = pending \ {ve[v]} /\ UNCHANGED <<jobs, queued>>

LEMMA ValidatorSteps ==
    ASSUME AdmissionLocals, NEW v \in Validator, Validate(v)
    PROVE  Receives(v) \/ Drops(v) \/ Claims(v) \/ Works(v) \/ Unqueues(v) \/ Unpends(v)
<1>0. ve' = ve => ve' = [ve EXCEPT ![v] = ve[v]]
  BY DEF AdmissionLocals
<1>1. ASSUME ValidateReceive(v) PROVE Receives(v)
  BY <1>1 DEF ValidateReceive, Receives, Moves
<1>2. ASSUME ValidateClaim(v) PROVE Drops(v) \/ Claims(v)
  BY <1>0, <1>2 DEF ValidateClaim, ValidateNext, ValidateTo, Drops, Claims, Moves, keys
<1>3. ASSUME ValidateLocked(v) PROVE Works(v)
  <2>1. vpc[v] \in Working /\ UNCHANGED <<jobs, keys, fetchers, ve>>
    BY <1>3 DEF ValidateLocked, ValidateTo, Working, ValidateLabels,
           keys, fetchers
  <2>2. \E label \in Working \cup {"unqueue"} : vpc' = [vpc EXCEPT ![v] = label]
    BY <1>3 DEF ValidateLocked, ValidateTo, Working, ValidateLabels
  <2> QED
    BY <1>0, <2>1, <2>2 DEF Works, Moves
<1>4. ASSUME ValidateLive(v) PROVE Works(v)
  <2>1. vpc[v] \in Working /\ UNCHANGED <<jobs, keys, fetchers, ve>>
    BY <1>4 DEF ValidateLive, ValidateTo, Working, ValidateLabels,
           keys, fetchers
  <2>2. \E label \in Working \cup {"unqueue"} : vpc' = [vpc EXCEPT ![v] = label]
    BY <1>4 DEF ValidateLive, ValidateTo, Working, ValidateLabels
  <2> QED
    BY <1>0, <2>1, <2>2 DEF Works, Moves
<1>5. ASSUME ValidateDue(v) PROVE Works(v)
  <2>1. vpc[v] \in Working /\ UNCHANGED <<jobs, keys, fetchers, ve>>
    BY <1>5 DEF ValidateDue, ValidateTo, Working, ValidateLabels,
           keys, fetchers
  <2>2. \E label \in Working \cup {"unqueue"} : vpc' = [vpc EXCEPT ![v] = label]
    BY <1>5 DEF ValidateDue, ValidateTo, Working, ValidateLabels
  <2> QED
    BY <1>0, <2>1, <2>2 DEF Works, Moves
<1>6. ASSUME ValidateCandidateSlot(v) PROVE Works(v)
  <2>1. vpc[v] \in Working /\ UNCHANGED <<jobs, keys, fetchers, ve>>
    BY <1>6 DEF ValidateCandidateSlot, ValidateTo, Working, ValidateLabels,
           keys, fetchers
  <2>2. \E label \in Working \cup {"unqueue"} : vpc' = [vpc EXCEPT ![v] = label]
    BY <1>6 DEF ValidateCandidateSlot, ValidateTo, Working, ValidateLabels
  <2> QED
    BY <1>0, <2>1, <2>2 DEF Works, Moves
<1>7. ASSUME ValidateSlot(v) PROVE Works(v)
  <2>1. vpc[v] \in Working /\ UNCHANGED <<jobs, keys, fetchers, ve>>
    BY <1>7 DEF ValidateSlot, ValidateTo, Working, ValidateLabels,
           keys, fetchers
  <2>2. \E label \in Working \cup {"unqueue"} : vpc' = [vpc EXCEPT ![v] = label]
    BY <1>7 DEF ValidateSlot, ValidateTo, Working, ValidateLabels
  <2> QED
    BY <1>0, <2>1, <2>2 DEF Works, Moves
<1>8. ASSUME ValidateProbe(v) PROVE Works(v)
  <2>1. vpc[v] \in Working /\ UNCHANGED <<jobs, keys, fetchers, ve>>
    BY <1>8 DEF ValidateProbe, ValidateTo, Working, ValidateLabels,
           keys, fetchers
  <2>2. \E label \in Working \cup {"unqueue"} : vpc' = [vpc EXCEPT ![v] = label]
    BY <1>8 DEF ValidateProbe, ValidateTo, Working, ValidateLabels
  <2> QED
    BY <1>0, <2>1, <2>2 DEF Works, Moves
<1>9. ASSUME ValidateDeep(v) PROVE Works(v)
  <2>1. vpc[v] \in Working /\ UNCHANGED <<jobs, keys, fetchers, ve>>
    BY <1>9 DEF ValidateDeep, ValidateTo, Working, ValidateLabels,
           keys, fetchers
  <2>2. \E label \in Working \cup {"unqueue"} : vpc' = [vpc EXCEPT ![v] = label]
    BY <1>9 DEF ValidateDeep, ValidateTo, Working, ValidateLabels
  <2> QED
    BY <1>0, <2>1, <2>2 DEF Works, Moves
<1>10. ASSUME ValidateStrike(v) PROVE Works(v)
  <2>1. vpc[v] \in Working /\ UNCHANGED <<jobs, keys, fetchers, ve>>
    BY <1>10 DEF ValidateStrike, ValidateTo, Working, ValidateLabels,
           keys, fetchers
  <2>2. \E label \in Working \cup {"unqueue"} : vpc' = [vpc EXCEPT ![v] = label]
    BY <1>10 DEF ValidateStrike, ValidateTo, Working, ValidateLabels
  <2> QED
    BY <1>0, <2>1, <2>2 DEF Works, Moves
<1>11. ASSUME ValidateUpsert(v) PROVE Works(v)
  <2>1. vpc[v] \in Working /\ UNCHANGED <<jobs, keys, fetchers, ve>>
    BY <1>11 DEF ValidateUpsert, ValidateTo, Working, ValidateLabels,
           keys, fetchers
  <2>2. \E label \in Working \cup {"unqueue"} : vpc' = [vpc EXCEPT ![v] = label]
    BY <1>11 DEF ValidateUpsert, ValidateTo, Working, ValidateLabels
  <2> QED
    BY <1>0, <2>1, <2>2 DEF Works, Moves
<1>12. ASSUME ValidateClear(v) PROVE Works(v)
  <2>1. vpc[v] \in Working /\ UNCHANGED <<jobs, keys, fetchers, ve>>
    BY <1>12 DEF ValidateClear, ValidateTo, Working, ValidateLabels,
           keys, fetchers
  <2>2. \E label \in Working \cup {"unqueue"} : vpc' = [vpc EXCEPT ![v] = label]
    BY <1>12 DEF ValidateClear, ValidateTo, Working, ValidateLabels
  <2> QED
    BY <1>0, <2>1, <2>2 DEF Works, Moves
<1>13. ASSUME ValidateLeaveSlot(v) PROVE Works(v)
  <2>1. vpc[v] \in Working /\ UNCHANGED <<jobs, keys, fetchers, ve>>
    BY <1>13 DEF ValidateLeaveSlot, ValidateTo, Working, ValidateLabels,
           keys, fetchers
  <2>2. \E label \in Working \cup {"unqueue"} : vpc' = [vpc EXCEPT ![v] = label]
    BY <1>13 DEF ValidateLeaveSlot, ValidateTo, Working, ValidateLabels
  <2> QED
    BY <1>0, <2>1, <2>2 DEF Works, Moves
<1>14. ASSUME ValidateLeaveCandidateSlot(v) PROVE Works(v)
  <2>1. vpc[v] \in Working /\ UNCHANGED <<jobs, keys, fetchers, ve>>
    BY <1>14 DEF ValidateLeaveCandidateSlot, ValidateTo, Working, ValidateLabels,
           keys, fetchers
  <2>2. \E label \in Working \cup {"unqueue"} : vpc' = [vpc EXCEPT ![v] = label]
    BY <1>14 DEF ValidateLeaveCandidateSlot, ValidateTo, Working, ValidateLabels
  <2> QED
    BY <1>0, <2>1, <2>2 DEF Works, Moves
<1>15. ASSUME ValidateUnqueue(v) PROVE Unqueues(v)
  BY <1>0, <1>15 DEF ValidateUnqueue, ValidateTo, Unqueues, Moves
<1>16. ASSUME ValidateUnpend(v) PROVE Unpends(v)
  BY <1>16 DEF ValidateUnpend, ValidateNext, Unpends, Moves
<1> QED
  BY <1>1, <1>2, <1>3, <1>4, <1>5, <1>6, <1>7, <1>8, <1>9, <1>10, <1>11,
     <1>12, <1>13, <1>14, <1>15, <1>16 DEF Validate
LEMMA MovesLocals ==
    ASSUME AdmissionLocals, NEW v \in Validator, NEW label \in ValidateLabels,
           NEW e \in Endpoint \cup {Nothing}, Moves(v, label, e),
           label # "receive" => e \in Endpoint,
           queued' \in SUBSET Endpoint, pending' \in SUBSET Endpoint
    PROVE  /\ AdmissionLocals'
           /\ vpc'[v] = label /\ ve'[v] = e
           /\ \A w \in Validator : w # v => vpc'[w] = vpc[w] /\ ve'[w] = ve[w]
<1>1. /\ vpc' \in [Validator -> ValidateLabels]
      /\ ve' \in [Validator -> Endpoint \cup {Nothing}]
      /\ vpc'[v] = label /\ ve'[v] = e
      /\ \A w \in Validator : w # v => vpc'[w] = vpc[w] /\ ve'[w] = ve[w]
  BY DEF AdmissionLocals, Moves
<1>2. UNCHANGED <<fpc, fe, fn>>
  BY DEF Moves, fetchers
<1> QED
  BY <1>1, <1>2 DEF AdmissionLocals

Sends(f) == fpc[f] = "send"

\* Nobody new has a candidate at hand, and those who still have one keep its key.
LEMMA FewerCarriers ==
    ASSUME QueuedKeys, JobsOK, jobs' = jobs,
           \A f \in Fetcher : Sends(f)' => Sends(f) /\ fe'[f] = fe[f],
           \A v \in Validator : Carries(v)' => Carries(v) /\ ve'[v] = ve[v],
           \A e \in queued \ queued' :
             /\ \A f \in Fetcher : Sends(f)' => fe[f] # e
             /\ \A i \in 1 .. Len(Values(jobs)) : Values(jobs)[i] # e
             /\ \A v \in Validator : Carries(v)' => ve[v] # e
    PROVE  QueuedKeys'
<1> DEFINE J == Values(jobs)
<1>1. Values(jobs)' = J
  OBVIOUS
<1>2. /\ \A f \in Fetcher : Sends(f) => fe[f] \in queued
      /\ \A i \in 1 .. Len(J) : J[i] \in queued
      /\ \A w \in Validator : Carries(w) => ve[w] \in queued
      /\ \A f, g \in Fetcher : Sends(f) /\ Sends(g) /\ fe[f] = fe[g] => f = g
      /\ \A i, j \in 1 .. Len(J) : J[i] = J[j] => i = j
      /\ \A w, x \in Validator : Carries(w) /\ Carries(x) /\ ve[w] = ve[x] => w = x
      /\ \A f \in Fetcher, i \in 1 .. Len(J) : Sends(f) => fe[f] # J[i]
      /\ \A f \in Fetcher, w \in Validator : Sends(f) /\ Carries(w) => fe[f] # ve[w]
      /\ \A i \in 1 .. Len(J), w \in Validator : Carries(w) => J[i] # ve[w]
  BY DEF QueuedKeys, Sends
<1> HIDE DEF J
<1>3. /\ \A f \in Fetcher : Sends(f)' => fe'[f] \in queued'
      /\ \A i \in 1 .. Len(J) : J[i] \in queued'
      /\ \A w \in Validator : Carries(w)' => ve'[w] \in queued'
  BY <1>2 DEF J
<1>4. /\ \A f, g \in Fetcher : Sends(f)' /\ Sends(g)' /\ fe'[f] = fe'[g] => f = g
      /\ \A w, x \in Validator : Carries(w)' /\ Carries(x)' /\ ve'[w] = ve'[x] => w = x
      /\ \A f \in Fetcher, i \in 1 .. Len(J) : Sends(f)' => fe'[f] # J[i]
      /\ \A f \in Fetcher, w \in Validator : Sends(f)' /\ Carries(w)' => fe'[f] # ve'[w]
      /\ \A i \in 1 .. Len(J), w \in Validator : Carries(w)' => J[i] # ve'[w]
  BY <1>2
<1> QED
  BY <1>1, <1>2, <1>3, <1>4 DEF QueuedKeys, Sends

\* Fetchers about to send and the values of the channel are untouched by most steps.
LEMMA ValidateKeepsCore ==
    ASSUME AdmissionCore, NEW v \in Validator, Validate(v)
    PROVE  AdmissionCore'
<1> DEFINE J == Values(jobs)
<1>0. /\ AdmissionLocals /\ JobsOK /\ PendingKeys /\ QueuedKeys
      /\ J \in Seq(Endpoint) /\ QueueCapacity \in Nat
  BY QueueValues, AdmissionAssumption DEF AdmissionCore, JobsOK
<1>1. CASE Receives(v)
  <2> DEFINE e == Head(jobs.buffer)
             K == Values(Receive(jobs))
  <2>1. /\ vpc[v] = "receive" /\ Moves(v, "claim", e) /\ jobs' = Receive(jobs)
        /\ queued' = queued /\ pending' = pending
    BY <1>1 DEF Receives, keys
  <2>2. /\ Receive(jobs) \in Queues(Fetcher, Endpoint)
        /\ Buffered(Receive(jobs), QueueCapacity)
        /\ IsTailOf(K, J, e) /\ e \in Endpoint
    BY <1>0, <1>1, ReceiveTakesFirst DEF JobsOK, Receives
  <2>3. JobsOK' /\ Values(jobs') = K
    BY <2>1, <2>2 DEF JobsOK
  <2> HIDE DEF e
  <2>4. /\ AdmissionLocals' /\ vpc'[v] = "claim" /\ ve'[v] = e
        /\ \A w \in Validator : w # v => vpc'[w] = vpc[w] /\ ve'[w] = ve[w]
    <3>1. "claim" \in ValidateLabels
      BY DEF ValidateLabels
    <3> QED
      BY <1>0, <2>1, <2>2, <3>1, MovesLocals DEF AdmissionLocals
  <2>5. PendingKeys'
    BY <1>0, <2>1, <2>4 DEF PendingKeys, Owns
  <2>6. K \in Seq(Endpoint)
    BY <2>2, QueueValues
  <2> HIDE DEF J, K
  <2>7. /\ Len(J) = Len(K) + 1 /\ Len(K) \in Nat /\ J[1] = e
        /\ \A i \in 1 .. Len(K) : K[i] = J[i + 1] /\ i + 1 \in 1 .. Len(J) /\ i + 1 # 1
        /\ 1 \in 1 .. Len(J)
    BY <1>0, <2>2, <2>6 DEF IsTailOf
  <2>8. fpc' = fpc /\ fe' = fe
    BY <2>1 DEF Moves, fetchers
  <2>9. QueuedKeys'
    <3> DEFINE sending == {f \in Fetcher : fpc[f] = "send"}
    <3>1. /\ \A f \in sending : fe[f] \in queued
          /\ \A i \in 1 .. Len(J) : J[i] \in queued
          /\ \A w \in Validator : Carries(w) => ve[w] \in queued
          /\ \A f, g \in sending : fe[f] = fe[g] => f = g
          /\ \A i, j \in 1 .. Len(J) : J[i] = J[j] => i = j
          /\ \A w, x \in Validator : Carries(w) /\ Carries(x) /\ ve[w] = ve[x] => w = x
          /\ \A f \in sending, i \in 1 .. Len(J) : fe[f] # J[i]
          /\ \A f \in sending, w \in Validator : Carries(w) => fe[f] # ve[w]
          /\ \A i \in 1 .. Len(J), w \in Validator : Carries(w) => J[i] # ve[w]
      BY <1>0 DEF QueuedKeys, J
    <3>2. /\ ~Carries(v) /\ Carries(v)'
          /\ \A w \in Validator : w # v => (Carries(w)' <=> Carries(w))
      BY <2>1, <2>4 DEF Carries
    <3>3. /\ \A i \in 1 .. Len(K) : K[i] \in queued /\ K[i] # e
          /\ \A i, j \in 1 .. Len(K) : K[i] = K[j] => i = j
          /\ \A f \in sending, i \in 1 .. Len(K) : fe[f] # K[i]
          /\ \A i \in 1 .. Len(K), w \in Validator : Carries(w) => K[i] # ve[w]
      <4>1. ASSUME NEW i \in 1 .. Len(K), NEW j \in 1 .. Len(K), K[i] = K[j]
            PROVE  i = j
        <5>1. i + 1 = j + 1
          BY <2>7, <3>1, <4>1
        <5> QED
          BY <2>7, <5>1
      <4>2. ASSUME NEW i \in 1 .. Len(K)
            PROVE  /\ K[i] \in queued /\ K[i] # e
                   /\ \A f \in sending : fe[f] # K[i]
                   /\ \A w \in Validator : Carries(w) => K[i] # ve[w]
        <5> DEFINE k == i + 1
        <5>1. K[i] = J[k] /\ k \in 1 .. Len(J) /\ k # 1 /\ 1 \in 1 .. Len(J) /\ J[1] = e
          BY <2>7
        <5> HIDE DEF k
        <5> QED
          BY <3>1, <5>1
      <4> QED
        BY <4>1, <4>2
    <3>4. /\ \A w \in Validator : Carries(w)' => ve'[w] \in queued
          /\ \A f \in sending, w \in Validator : Carries(w)' => fe[f] # ve'[w]
          /\ \A w, x \in Validator : Carries(w)' /\ Carries(x)' /\ ve'[w] = ve'[x] => w = x
          /\ \A i \in 1 .. Len(K), w \in Validator : Carries(w)' => K[i] # ve'[w]
      BY <2>4, <2>7, <3>1, <3>2, <3>3
    <3> QED
      BY <2>1, <2>3, <2>8, <3>1, <3>3, <3>4 DEF QueuedKeys
  <2> QED
    BY <2>3, <2>4, <2>5, <2>9 DEF AdmissionCore
<1>2. CASE Drops(v)
  <2>1. /\ Moves(v, "receive", Nothing) /\ UNCHANGED <<jobs, queued, pending>>
        /\ vpc[v] = "claim"
    BY <1>2 DEF Drops, keys
  <2>2. /\ AdmissionLocals' /\ vpc'[v] = "receive" /\ ve'[v] = Nothing
        /\ \A w \in Validator : w # v => vpc'[w] = vpc[w] /\ ve'[w] = ve[w]
    <3>1. "receive" \in ValidateLabels
      BY DEF ValidateLabels
    <3> QED
      BY <1>0, <2>1, <3>1, MovesLocals DEF AdmissionLocals
  <2>3. PendingKeys'
    BY <1>0, <2>1, <2>2 DEF PendingKeys, Owns
  <2>4. QueuedKeys'
    <3>1. \A f \in Fetcher : Sends(f)' => Sends(f) /\ fe'[f] = fe[f]
      BY <2>1 DEF Moves, fetchers, Sends
    <3>2. \A w \in Validator : Carries(w)' => Carries(w) /\ ve'[w] = ve[w]
      BY <2>1, <2>2 DEF Carries
    <3> QED
      BY <1>0, <2>1, <3>1, <3>2, FewerCarriers
  <2> QED
    BY <1>0, <2>1, <2>2, <2>3, <2>4 DEF AdmissionCore, JobsOK
<1>3. CASE Claims(v)
  <2>1. /\ Moves(v, "locked", ve[v]) /\ UNCHANGED <<jobs, queued>> /\ vpc[v] = "claim"
        /\ ve[v] \notin pending /\ pending' = pending \cup {ve[v]}
    BY <1>3 DEF Claims
  <2>2. /\ AdmissionLocals' /\ vpc'[v] = "locked" /\ ve'[v] = ve[v] /\ ve[v] \in Endpoint
        /\ \A w \in Validator : w # v => vpc'[w] = vpc[w] /\ ve'[w] = ve[w]
    <3>1. "locked" \in ValidateLabels
      BY DEF ValidateLabels
    <3>2. ve[v] \in Endpoint
      BY <1>0, <2>1 DEF AdmissionLocals
    <3> QED
      BY <1>0, <2>1, <3>1, <3>2, MovesLocals DEF AdmissionLocals
  <2>3. PendingKeys'
    BY <1>0, <2>1, <2>2 DEF PendingKeys, Owns
  <2>4. QueuedKeys'
    <3>1. \A f \in Fetcher : Sends(f)' => Sends(f) /\ fe'[f] = fe[f]
      BY <2>1 DEF Moves, fetchers, Sends
    <3>2. \A w \in Validator : Carries(w)' => Carries(w) /\ ve'[w] = ve[w]
      BY <2>1, <2>2 DEF Carries
    <3> QED
      BY <1>0, <2>1, <3>1, <3>2, FewerCarriers
  <2> QED
    BY <1>0, <2>1, <2>2, <2>3, <2>4 DEF AdmissionCore, JobsOK
<1>4. CASE Works(v)
  <2>1. PICK label \in Working \cup {"unqueue"} :
          /\ Moves(v, label, ve[v]) /\ UNCHANGED <<jobs, queued, pending>>
          /\ vpc[v] \in Working
    BY <1>4 DEF Works, keys
  <2>2. /\ AdmissionLocals' /\ vpc'[v] = label /\ ve'[v] = ve[v]
        /\ \A w \in Validator : w # v => vpc'[w] = vpc[w] /\ ve'[w] = ve[w]
    <3>1. label \in ValidateLabels
      BY DEF ValidateLabels, Working
    <3>2. ve[v] \in Endpoint
      BY <1>0, <2>1 DEF AdmissionLocals, Working
    <3> QED
      BY <1>0, <2>1, <3>1, <3>2, MovesLocals DEF AdmissionLocals
  <2>3. /\ Owns(v) /\ Owns(v)' /\ Carries(v) /\ Carries(v)'
        /\ \A w \in Validator : (Owns(w)' <=> Owns(w)) /\ (Carries(w)' <=> Carries(w))
                                /\ ve'[w] = ve[w]
    BY <2>1, <2>2 DEF Owns, Carries, Working
  <2>4. PendingKeys'
    BY <1>0, <2>1, <2>3 DEF PendingKeys
  <2>5. QueuedKeys'
    <3>1. \A f \in Fetcher : Sends(f)' => Sends(f) /\ fe'[f] = fe[f]
      BY <2>1 DEF Moves, fetchers, Sends
    <3> QED
      BY <1>0, <2>1, <2>3, <3>1, FewerCarriers
  <2> QED
    BY <1>0, <2>1, <2>2, <2>4, <2>5 DEF AdmissionCore, JobsOK
<1>5. CASE Unqueues(v)
  <2>1. /\ Moves(v, "unpend", ve[v]) /\ UNCHANGED <<jobs, pending>> /\ vpc[v] = "unqueue"
        /\ queued' = queued \ {ve[v]}
    BY <1>5 DEF Unqueues
  <2>2. /\ AdmissionLocals' /\ vpc'[v] = "unpend" /\ ve'[v] = ve[v]
        /\ \A w \in Validator : w # v => vpc'[w] = vpc[w] /\ ve'[w] = ve[w]
    <3>1. "unpend" \in ValidateLabels
      BY DEF ValidateLabels
    <3>2. ve[v] \in Endpoint
      BY <1>0, <2>1 DEF AdmissionLocals
    <3> QED
      BY <1>0, <2>1, <3>1, <3>2, MovesLocals DEF AdmissionLocals
  <2>3. \A w \in Validator : (Owns(w)' <=> Owns(w)) /\ ve'[w] = ve[w]
    BY <2>1, <2>2 DEF Owns
  <2>4. PendingKeys'
    BY <1>0, <2>1, <2>3 DEF PendingKeys
  <2>5. QueuedKeys'
    <3>1. \A f \in Fetcher : Sends(f)' => Sends(f) /\ fe'[f] = fe[f]
      BY <2>1 DEF Moves, fetchers, Sends
    <3>2. \A w \in Validator : Carries(w)' => w # v /\ Carries(w) /\ ve'[w] = ve[w]
      BY <2>1, <2>2 DEF Carries
    <3>3. Carries(v)
      BY <2>1 DEF Carries
    <3>4. \A e \in queued \ queued' : e = ve[v]
      BY <2>1
    <3>5. /\ \A f \in Fetcher : Sends(f) => fe[f] # ve[v]
          /\ \A i \in 1 .. Len(J) : J[i] # ve[v]
          /\ \A w \in Validator : Carries(w) /\ w # v => ve[w] # ve[v]
      BY <1>0, <3>3 DEF QueuedKeys, Sends
    <3> QED
      BY <1>0, <2>1, <3>1, <3>2, <3>4, <3>5, FewerCarriers
  <2> QED
    BY <1>0, <2>1, <2>2, <2>4, <2>5 DEF AdmissionCore, JobsOK
<1>6. CASE Unpends(v)
  <2>1. /\ Moves(v, "receive", Nothing) /\ UNCHANGED <<jobs, queued>> /\ vpc[v] = "unpend"
        /\ pending' = pending \ {ve[v]}
    BY <1>6 DEF Unpends
  <2>2. /\ AdmissionLocals' /\ vpc'[v] = "receive" /\ ve'[v] = Nothing
        /\ \A w \in Validator : w # v => vpc'[w] = vpc[w] /\ ve'[w] = ve[w]
    <3>1. "receive" \in ValidateLabels
      BY DEF ValidateLabels
    <3> QED
      BY <1>0, <2>1, <3>1, MovesLocals DEF AdmissionLocals
  <2>3. PendingKeys'
    <3>1. /\ Owns(v) /\ ~Owns(v)'
          /\ \A w \in Validator : w # v => (Owns(w)' <=> Owns(w)) /\ ve'[w] = ve[w]
      BY <2>1, <2>2 DEF Owns
    <3> QED
      BY <1>0, <2>1, <3>1 DEF PendingKeys
  <2>4. QueuedKeys'
    <3>1. \A f \in Fetcher : Sends(f)' => Sends(f) /\ fe'[f] = fe[f]
      BY <2>1 DEF Moves, fetchers, Sends
    <3>2. \A w \in Validator : Carries(w)' => Carries(w) /\ ve'[w] = ve[w]
      BY <2>1, <2>2 DEF Carries
    <3> QED
      BY <1>0, <2>1, <3>1, <3>2, FewerCarriers
  <2> QED
    BY <1>0, <2>1, <2>2, <2>3, <2>4 DEF AdmissionCore, JobsOK
<1> QED
  BY <1>0, <1>1, <1>2, <1>3, <1>4, <1>5, <1>6, ValidatorSteps
\* A fetcher takes a key for its candidate only when nobody has it, and sends it once.
LEMMA FetchKeepsCore ==
    ASSUME AdmissionCore, NEW f \in Fetcher, Fetch(f)
    PROVE  AdmissionCore'
<1> DEFINE J == Values(jobs)
<1>0. /\ AdmissionLocals /\ JobsOK /\ PendingKeys /\ QueuedKeys
      /\ J \in Seq(Endpoint) /\ QueueCapacity \in Nat /\ FetchLimit \in Nat \ {0}
  BY QueueValues, AdmissionAssumption DEF AdmissionCore, JobsOK
<1>00. ASSUME UNCHANGED <<queued, pending, jobs, vpc, ve>>, AdmissionLocals',
              \A g \in Fetcher : Sends(g)' => Sends(g) /\ fe'[g] = fe[g]
       PROVE  AdmissionCore'
  <2>1. PendingKeys' /\ JobsOK'
    BY <1>0, <1>00 DEF PendingKeys, Owns, JobsOK
  <2>2. \A w \in Validator : Carries(w)' => Carries(w) /\ ve'[w] = ve[w]
    BY <1>00 DEF Carries
  <2>3. QueuedKeys'
    BY <1>0, <1>00, <2>2, FewerCarriers
  <2> QED
    BY <1>00, <2>1, <2>3 DEF AdmissionCore
<1>01. ASSUME FetchDone(f, 0), UNCHANGED <<queued, pending, vpc, ve>>
       PROVE  AdmissionLocals' /\ \A g \in Fetcher : Sends(g)' => Sends(g) /\ fe'[g] = fe[g]
  <2>1. /\ fpc' = [fpc EXCEPT ![f] = "offer"] /\ fe' = [fe EXCEPT ![f] = Nothing]
        /\ fn' = [fn EXCEPT ![f] = fn[f] + 0]
    BY <1>01 DEF FetchDone, FetchTo
  <2>2. fn' = fn
    BY <1>0, <2>1 DEF AdmissionLocals
  <2>3. fpc' \in [Fetcher -> FetchLabels] /\ fe' \in [Fetcher -> Endpoint \cup {Nothing}]
    BY <1>0, <2>1 DEF AdmissionLocals, FetchLabels
  <2> QED
    BY <1>0, <1>01, <2>1, <2>2, <2>3 DEF AdmissionLocals, Sends
<1>02. ASSUME NEW label \in FetchLabels \ {"offer", "send"}, fpc[f] # "offer",
              FetchTo(f, label), UNCHANGED <<queued, pending, vpc, ve, fe, fn>>
       PROVE  AdmissionLocals' /\ \A g \in Fetcher : Sends(g)' => Sends(g) /\ fe'[g] = fe[g]
  BY <1>0, <1>02 DEF AdmissionLocals, FetchTo, FetchLabels, Sends
<1>1. ASSUME NEW e \in Endpoint, Offer(f, e) PROVE AdmissionCore'
  <2>1. UNCHANGED <<queued, pending, jobs, vpc, ve>>
    BY <1>1 DEF Offer, keys, validators
  <2>2. /\ AdmissionLocals'
        /\ \A g \in Fetcher : Sends(g)' => Sends(g) /\ fe'[g] = fe[g]
    BY <1>0, <1>1, <2>1 DEF Offer, FetchTo, AdmissionLocals, FetchLabels, Sends
  <2> QED
    BY <1>0, <1>00, <2>1, <2>2
<1>2. ASSUME FetchEnds(f) PROVE AdmissionCore'
  <2>1. UNCHANGED <<queued, pending, jobs, vpc, ve>>
    BY <1>2 DEF FetchEnds, keys, validators
  <2>2. /\ AdmissionLocals'
        /\ \A g \in Fetcher : Sends(g)' => Sends(g) /\ fe'[g] = fe[g]
    BY <1>0, <1>2, <2>1 DEF FetchEnds, FetchTo, AdmissionLocals, FetchLabels, Sends
  <2> QED
    BY <1>0, <1>00, <2>1, <2>2
<1>3. ASSUME FetchLive(f) PROVE AdmissionCore'
  <2>1. UNCHANGED <<queued, pending, jobs, vpc, ve>>
    BY <1>3 DEF FetchLive, keys, validators
  <2>2. /\ AdmissionLocals'
        /\ \A g \in Fetcher : Sends(g)' => Sends(g) /\ fe'[g] = fe[g]
    <3>1. CASE fe[f] \in served
      BY <1>3, <1>01, <2>1, <3>1 DEF FetchLive
    <3>2. CASE ~(fe[f] \in served)
      <4>1. FetchTo(f, "due") /\ UNCHANGED <<fe, fn>> /\ fpc[f] # "offer"
        BY <1>3, <3>2 DEF FetchLive
      <4> QED
        BY <1>02, <2>1, <4>1 DEF FetchLabels
    <3> QED
      BY <3>1, <3>2
  <2> QED
    BY <1>0, <1>00, <2>1, <2>2
<1>4. ASSUME FetchDue(f) PROVE AdmissionCore'
  <2>1. UNCHANGED <<queued, pending, jobs, vpc, ve>>
    BY <1>4 DEF FetchDue, keys, validators
  <2>2. /\ AdmissionLocals'
        /\ \A g \in Fetcher : Sends(g)' => Sends(g) /\ fe'[g] = fe[g]
    <3>1. CASE fe[f] \in delayed \cup backingOff
      BY <1>4, <1>01, <2>1, <3>1 DEF FetchDue
    <3>2. CASE ~(fe[f] \in delayed \cup backingOff)
      <4>1. FetchTo(f, "claim") /\ UNCHANGED <<fe, fn>> /\ fpc[f] # "offer"
        BY <1>4, <3>2 DEF FetchDue
      <4> QED
        BY <1>02, <2>1, <4>1 DEF FetchLabels
    <3> QED
      BY <3>1, <3>2
  <2> QED
    BY <1>0, <1>00, <2>1, <2>2
<1>5. ASSUME FetchSent(f) PROVE AdmissionCore'
  <2>1. UNCHANGED <<queued, pending, jobs, vpc, ve>>
    BY <1>5 DEF FetchSent, keys, validators
  <2>2. /\ AdmissionLocals'
        /\ \A g \in Fetcher : Sends(g)' => Sends(g) /\ fe'[g] = fe[g]
    <3>1. /\ fpc' = [fpc EXCEPT ![f] = "offer"] /\ fe' = [fe EXCEPT ![f] = Nothing]
          /\ fn' = [fn EXCEPT ![f] = fn[f] + 1] /\ fpc[f] = "sent"
      BY <1>5 DEF FetchSent, FetchDone, FetchTo
    <3>2. fpc' \in [Fetcher -> FetchLabels] /\ fe' \in [Fetcher -> Endpoint \cup {Nothing}]
      BY <1>0, <3>1 DEF AdmissionLocals, FetchLabels
    <3>3. fn' \in [Fetcher -> 0 .. FetchLimit]
      BY <1>0, <3>1 DEF AdmissionLocals
    <3>4. \A g \in Fetcher : g # f => fpc'[g] = fpc[g] /\ fe'[g] = fe[g] /\ fn'[g] = fn[g]
      BY <1>0, <3>1 DEF AdmissionLocals
    <3>5. fpc'[f] = "offer"
      BY <1>0, <3>1 DEF AdmissionLocals
    <3> QED
      BY <1>0, <2>1, <3>2, <3>3, <3>4, <3>5 DEF AdmissionLocals, Sends
  <2> QED
    BY <1>0, <1>00, <2>1, <2>2
<1>6. ASSUME FetchClaim(f) PROVE AdmissionCore'
  <2>1. CASE fe[f] \in queued
    <3>1. UNCHANGED <<queued, pending, jobs, vpc, ve>>
      BY <1>6, <2>1 DEF FetchClaim, validators
    <3>2. /\ AdmissionLocals'
          /\ \A g \in Fetcher : Sends(g)' => Sends(g) /\ fe'[g] = fe[g]
      BY <1>6, <1>01, <2>1, <3>1 DEF FetchClaim
    <3> QED
      BY <1>0, <1>00, <3>1, <3>2
  <2>2. CASE fe[f] \notin queued
    <3>1. /\ UNCHANGED <<pending, jobs, vpc, ve, fe, fn>>
          /\ queued' = queued \cup {fe[f]} /\ fpc[f] = "claim"
          /\ fpc' = [fpc EXCEPT ![f] = "send"] /\ fe[f] \in Endpoint
      BY <1>0, <1>6, <2>2 DEF FetchClaim, FetchTo, validators, AdmissionLocals
    <3>2. AdmissionLocals'
      BY <1>0, <3>1 DEF AdmissionLocals, FetchLabels
    <3>3. PendingKeys' /\ JobsOK'
      BY <1>0, <3>1 DEF PendingKeys, Owns, JobsOK
    <3>4. QueuedKeys'
      <4> HIDE DEF J
      <4>1. /\ Sends(f)' /\ \A g \in Fetcher : g # f => (Sends(g)' <=> Sends(g))
            /\ \A w \in Validator : Carries(w)' <=> Carries(w)
        BY <1>0, <3>1 DEF Sends, Carries, AdmissionLocals
      <4>2. /\ \A g \in Fetcher : Sends(g) => fe[g] \in queued
            /\ \A i \in 1 .. Len(J) : J[i] \in queued
            /\ \A w \in Validator : Carries(w) => ve[w] \in queued
            /\ \A g, h \in Fetcher : Sends(g) /\ Sends(h) /\ fe[g] = fe[h] => g = h
            /\ \A i, j \in 1 .. Len(J) : J[i] = J[j] => i = j
            /\ \A w, x \in Validator : Carries(w) /\ Carries(x) /\ ve[w] = ve[x] => w = x
            /\ \A g \in Fetcher, i \in 1 .. Len(J) : Sends(g) => fe[g] # J[i]
            /\ \A g \in Fetcher, w \in Validator : Sends(g) /\ Carries(w) => fe[g] # ve[w]
            /\ \A i \in 1 .. Len(J), w \in Validator : Carries(w) => J[i] # ve[w]
        BY <1>0 DEF QueuedKeys, Sends, J
      <4>3. Values(jobs)' = J
        BY <3>1 DEF J
      <4>4. /\ \A g \in Fetcher : Sends(g)' => fe[g] \in queued'
            /\ \A g, h \in Fetcher : Sends(g)' /\ Sends(h)' /\ fe[g] = fe[h] => g = h
            /\ \A g \in Fetcher, i \in 1 .. Len(J) : Sends(g)' => fe[g] # J[i]
            /\ \A g \in Fetcher, w \in Validator : Sends(g)' /\ Carries(w) => fe[g] # ve[w]
        BY <2>2, <3>1, <4>1, <4>2
      <4> QED
        BY <3>1, <4>1, <4>2, <4>3, <4>4 DEF QueuedKeys, Sends
    <3> QED
      BY <3>2, <3>3, <3>4 DEF AdmissionCore
  <2> QED
    BY <2>1, <2>2
<1>7. ASSUME FetchSend(f) PROVE AdmissionCore'
  <2> DEFINE r == Send(jobs, QueueCapacity, f, fe[f])
             K == Values(r)
  <2>1. /\ UNCHANGED <<queued, pending, vpc, ve, fe, fn>> /\ fpc[f] = "send"
        /\ fpc' = [fpc EXCEPT ![f] = "sent"] /\ jobs' = r /\ fe[f] \in Endpoint
    BY <1>0, <1>7 DEF FetchSend, FetchTo, keys, validators, AdmissionLocals
  <2>2. /\ r \in Queues(Fetcher, Endpoint) /\ Buffered(r, QueueCapacity)
        /\ IsAppended(K, J, fe[f])
    BY <1>0, <2>1, SendAppends DEF JobsOK
  <2>3. JobsOK' /\ Values(jobs') = K /\ K \in Seq(Endpoint)
    BY <2>1, <2>2, QueueValues DEF JobsOK
  <2>4. AdmissionLocals'
    BY <1>0, <2>1 DEF AdmissionLocals, FetchLabels
  <2>5. PendingKeys'
    BY <1>0, <2>1 DEF PendingKeys, Owns
  <2> HIDE DEF J, K, r
  <2>6. QueuedKeys'
    <3>1. /\ Sends(f) /\ ~Sends(f)' /\ \A g \in Fetcher : g # f => (Sends(g)' <=> Sends(g))
          /\ \A w \in Validator : Carries(w)' <=> Carries(w)
      BY <1>0, <2>1 DEF Sends, Carries, AdmissionLocals
    <3>2. /\ \A g \in Fetcher : Sends(g) => fe[g] \in queued
          /\ \A i \in 1 .. Len(J) : J[i] \in queued
          /\ \A w \in Validator : Carries(w) => ve[w] \in queued
          /\ \A g, h \in Fetcher : Sends(g) /\ Sends(h) /\ fe[g] = fe[h] => g = h
          /\ \A i, j \in 1 .. Len(J) : J[i] = J[j] => i = j
          /\ \A w, x \in Validator : Carries(w) /\ Carries(x) /\ ve[w] = ve[x] => w = x
          /\ \A g \in Fetcher, i \in 1 .. Len(J) : Sends(g) => fe[g] # J[i]
          /\ \A g \in Fetcher, w \in Validator : Sends(g) /\ Carries(w) => fe[g] # ve[w]
          /\ \A i \in 1 .. Len(J), w \in Validator : Carries(w) => J[i] # ve[w]
      BY <1>0 DEF QueuedKeys, Sends, J
    <3>3. /\ Len(J) \in Nat /\ Len(K) = Len(J) + 1 /\ K[Len(J) + 1] = fe[f]
          /\ \A i \in 1 .. Len(J) : K[i] = J[i]
      BY <1>0, <2>2 DEF IsAppended
    <3>4. \A i \in 1 .. Len(K) : i \in 1 .. Len(J) \/ i = Len(J) + 1
      BY <3>3
    <3>5. /\ \A i \in 1 .. Len(K) : K[i] \in queued
          /\ \A i, j \in 1 .. Len(K) : K[i] = K[j] => i = j
      <4>1. \A i \in 1 .. Len(J) : K[i] # fe[f]
        BY <3>1, <3>2, <3>3
      <4> QED
        BY <3>1, <3>2, <3>3, <3>4, <4>1
    <3>6. ASSUME NEW g \in Fetcher, NEW i \in 1 .. Len(K), Sends(g)'
          PROVE  fe[g] # K[i]
      BY <3>1, <3>2, <3>3, <3>4, <3>6
    <3>7. ASSUME NEW i \in 1 .. Len(K), NEW w \in Validator, Carries(w)
          PROVE  K[i] # ve[w]
      BY <3>1, <3>2, <3>3, <3>4, <3>7
    <3>8. /\ \A g \in Fetcher : Sends(g)' => fe[g] \in queued
          /\ \A g, h \in Fetcher : Sends(g)' /\ Sends(h)' /\ fe[g] = fe[h] => g = h
          /\ \A g \in Fetcher, w \in Validator : Sends(g)' /\ Carries(w) => fe[g] # ve[w]
      BY <3>1, <3>2
    <3> QED
      BY <2>1, <2>3, <3>1, <3>2, <3>5, <3>6, <3>7, <3>8 DEF QueuedKeys, Sends
  <2> QED
    BY <2>3, <2>4, <2>5, <2>6 DEF AdmissionCore
<1> QED
  BY <1>1, <1>2, <1>3, <1>4, <1>5, <1>6, <1>7 DEF Fetch
-----------------------------------------------------------------------------
(* The checks before a probe, and the slots *)

\* From the second look at the delays to the probe.
Careful == {"due", "candidate_slot", "slot", "probe"}

DueOK ==
    \A v \in Validator : vpc[v] \in Careful =>
        ve[v] \notin served /\ (vpc[v] # "due" => ve[v] \notin backingOff)

\* A validator makes live or backs off only the endpoint it has, after the probe, ...
Touches(v) ==
    \/ served' \subseteq served /\ backingOff' \subseteq backingOff
    \/ /\ Carries(v) /\ vpc'[v] \notin Careful
       /\ served' \subseteq served \cup {ve[v]}
       /\ backingOff' \subseteq backingOff \cup {ve[v]}

\* ... and goes on to the probe only with an endpoint that is due.
StaysDue(v) ==
    vpc'[v] \in Careful =>
        ve'[v] \notin served' /\ (vpc'[v] # "due" => ve'[v] \notin backingOff')

SlotLabels == {"slot", "probe", "deep", "strike", "upsert", "clear", "leave_slot"}
CandidateLabels == SlotLabels \cup {"candidate_slot", "leave_candidate_slot"}

\* What a step of v from its label in pc to that in pd is to a semaphore whose users are
\* at these labels and wait at entry: s before, t after.
UsesAs(v, pc, pd, s, t, capacity, labels, entry) ==
    \/ /\ t = s
       /\ pd[v] \in labels <=> pc[v] \in labels
       /\ pc[v] = entry => ~Waits(s, v)
    \/ /\ pc[v] \notin labels /\ pd[v] = entry
       /\ t = Enter(s, capacity, v)
    \/ /\ pc[v] \in labels \ {entry} /\ pd[v] \notin labels
       /\ t = Leave(s)

\* The users of semaphore s: those goroutines P that are at these labels, who wait at
\* entry only, and others.
SharedBy(s, capacity, G, P, pc, labels, entry, others) ==
    /\ UsedBy(s, capacity, G, {v \in P : pc[v] \in labels} \cup others)
    /\ \A v \in P : Waits(s, v) => pc[v] = entry

LEMMA SemaphoreSteps ==
    ASSUME NEW G, NEW P, P \subseteq G, NEW others, P \cap others = {},
           NEW v \in P, NEW pc, NEW pd, \A w \in P : w # v => pd[w] = pc[w],
           NEW labels, NEW entry \in labels, NEW capacity \in Nat, NEW s, NEW t,
           SharedBy(s, capacity, G, P, pc, labels, entry, others),
           UsesAs(v, pc, pd, s, t, capacity, labels, entry)
    PROVE  /\ SharedBy(t, capacity, G, P, pd, labels, entry, others)
           /\ \A x : x # v /\ Waits(t, x) => Waits(s, x)
<1> DEFINE U == {w \in P : pc[w] \in labels} \cup others
           W == {w \in P : pd[w] \in labels} \cup others
<1>0. UsedBy(s, capacity, G, U) /\ \A w \in P : Waits(s, w) => pc[w] = entry
  BY DEF SharedBy
<1>1. CASE /\ t = s
           /\ pd[v] \in labels <=> pc[v] \in labels
           /\ pc[v] = entry => ~Waits(s, v)
  <2>1. W = U
    BY <1>1
  <2> QED
    BY <1>0, <1>1, <2>1 DEF SharedBy
<1>2. CASE /\ pc[v] \notin labels /\ pd[v] = entry
           /\ t = Enter(s, capacity, v)
  <2>1. W = U \cup {v} /\ v \notin U /\ v \in G
    BY <1>2
  <2>2. /\ UsedBy(t, capacity, G, U \cup {v})
        /\ \A x : Waits(t, x) => Waits(s, x) \/ x = v
    BY <1>0, <1>2, <2>1, Enters
  <2> QED
    BY <1>0, <1>2, <2>1, <2>2 DEF SharedBy
<1>3. CASE /\ pc[v] \in labels \ {entry} /\ pd[v] \notin labels
           /\ t = Leave(s)
  <2>1. W = U \ {v} /\ v \in U
    BY <1>3
  <2>2. ~Waits(s, v)
    BY <1>0, <1>3
  <2>3. /\ UsedBy(t, capacity, G, U \ {v})
        /\ \A x : Waits(t, x) => Waits(s, x)
    BY <1>0, <1>3, <2>1, <2>2, Leaves
  <2> QED
    BY <1>0, <1>3, <2>1, <2>2, <2>3 DEF SharedBy
<1> QED
  BY <1>1, <1>2, <1>3 DEF UsesAs


LEMMA OthersStay ==
    ASSUME AdmissionLocals, NEW v \in Validator, Validate(v)
    PROVE  \A w \in Validator : w # v => vpc'[w] = vpc[w] /\ ve'[w] = ve[w]
<1>1. ASSUME NEW label, NEW e, Moves(v, label, e)
      PROVE  \A w \in Validator : w # v => vpc'[w] = vpc[w] /\ ve'[w] = ve[w]
  BY <1>1 DEF Moves, AdmissionLocals
<1>2. \E label, e : Moves(v, label, e)
  BY ValidatorSteps DEF Receives, Drops, Claims, Works, Unqueues, Unpends
<1> QED
  BY <1>1, <1>2

LEMMA ValidatorEffects ==
    ASSUME AdmissionLocals, DueOK, NEW v \in Validator, Validate(v)
    PROVE  /\ Touches(v) /\ StaysDue(v)
<1>0. vpc \in [Validator -> ValidateLabels] /\ ve \in [Validator -> Endpoint \cup {Nothing}]
  BY DEF AdmissionLocals
<1>1. ASSUME ValidateReceive(v) PROVE Touches(v) /\ StaysDue(v)
  BY <1>0, <1>1 DEF ValidateReceive, ValidateTo, ValidateNext, Careful, Touches,
         StaysDue, Carries, DueOK, stored, pool
<1>2. ASSUME ValidateClaim(v) PROVE Touches(v) /\ StaysDue(v)
  BY <1>0, <1>2 DEF ValidateClaim, ValidateTo, ValidateNext, Careful, Touches,
         StaysDue, Carries, DueOK, stored, pool
<1>3. ASSUME ValidateLocked(v) PROVE Touches(v) /\ StaysDue(v)
  BY <1>0, <1>3 DEF ValidateLocked, ValidateTo, ValidateNext, Careful, Touches,
         StaysDue, Carries, DueOK, stored, pool
<1>4. ASSUME ValidateLive(v) PROVE Touches(v) /\ StaysDue(v)
  BY <1>0, <1>4 DEF ValidateLive, ValidateTo, ValidateNext, Careful, Touches,
         StaysDue, Carries, DueOK, stored, pool, BackOff, ClearBackOff
<1>5. ASSUME ValidateDue(v) PROVE Touches(v) /\ StaysDue(v)
  BY <1>0, <1>5 DEF ValidateDue, ValidateTo, ValidateNext, Careful, Touches,
         StaysDue, Carries, DueOK, stored, pool
<1>6. ASSUME ValidateCandidateSlot(v) PROVE Touches(v) /\ StaysDue(v)
  BY <1>0, <1>6 DEF ValidateCandidateSlot, ValidateTo, ValidateNext, Careful, Touches,
         StaysDue, Carries, DueOK, stored, pool
<1>7. ASSUME ValidateSlot(v) PROVE Touches(v) /\ StaysDue(v)
  BY <1>0, <1>7 DEF ValidateSlot, ValidateTo, ValidateNext, Careful, Touches,
         StaysDue, Carries, DueOK, stored, pool
<1>8. ASSUME ValidateProbe(v) PROVE Touches(v) /\ StaysDue(v)
  BY <1>0, <1>8 DEF ValidateProbe, ValidateTo, ValidateNext, Careful, Touches,
         StaysDue, Carries, DueOK, stored, pool, BackOff, ClearBackOff
<1>9. ASSUME ValidateDeep(v) PROVE Touches(v) /\ StaysDue(v)
  BY <1>0, <1>9 DEF ValidateDeep, ValidateTo, ValidateNext, Careful, Touches,
         StaysDue, Carries, DueOK, stored, pool, BackOff, ClearBackOff
<1>10. ASSUME ValidateStrike(v) PROVE Touches(v) /\ StaysDue(v)
  BY <1>0, <1>10 DEF ValidateStrike, ValidateTo, ValidateNext, Careful, Touches,
         StaysDue, Carries, DueOK, stored, pool, LockOut
<1>11. ASSUME ValidateUpsert(v) PROVE Touches(v) /\ StaysDue(v)
  BY <1>0, <1>11 DEF ValidateUpsert, ValidateTo, ValidateNext, Careful, Touches,
         StaysDue, Carries, DueOK, stored, pool, Verified, Accept
<1>12. ASSUME ValidateClear(v) PROVE Touches(v) /\ StaysDue(v)
  BY <1>0, <1>12 DEF ValidateClear, ValidateTo, ValidateNext, Careful, Touches,
         StaysDue, Carries, DueOK, stored, pool, BackOff, ClearBackOff
<1>13. ASSUME ValidateLeaveSlot(v) PROVE Touches(v) /\ StaysDue(v)
  BY <1>0, <1>13 DEF ValidateLeaveSlot, ValidateTo, ValidateNext, Careful, Touches,
         StaysDue, Carries, DueOK, stored, pool
<1>14. ASSUME ValidateLeaveCandidateSlot(v) PROVE Touches(v) /\ StaysDue(v)
  BY <1>0, <1>14 DEF ValidateLeaveCandidateSlot, ValidateTo, ValidateNext, Careful, Touches,
         StaysDue, Carries, DueOK, stored, pool
<1>15. ASSUME ValidateUnqueue(v) PROVE Touches(v) /\ StaysDue(v)
  BY <1>0, <1>15 DEF ValidateUnqueue, ValidateTo, ValidateNext, Careful, Touches,
         StaysDue, Carries, DueOK, stored, pool
<1>16. ASSUME ValidateUnpend(v) PROVE Touches(v) /\ StaysDue(v)
  BY <1>0, <1>16 DEF ValidateUnpend, ValidateTo, ValidateNext, Careful, Touches,
         StaysDue, Carries, DueOK, stored, pool
<1> QED
  BY <1>1, <1>2, <1>3, <1>4, <1>5, <1>6, <1>7, <1>8, <1>9, <1>10, <1>11,
     <1>12, <1>13, <1>14, <1>15, <1>16 DEF Validate

UsesCandidateSlots(v) ==
    UsesAs(v, vpc, vpc', candidateSlots, candidateSlots', CandidateCapacity,
           CandidateLabels, "candidate_slot")

UsesValidationSlots(v) ==
    UsesAs(v, vpc, vpc', validationSlots, validationSlots', ValidationCapacity,
           SlotLabels, "slot")

LEMMA CandidateSlotUse ==
    ASSUME AdmissionLocals, NEW v \in Validator, Validate(v)
    PROVE  UsesCandidateSlots(v)
<1>0. vpc \in [Validator -> ValidateLabels]
  BY DEF AdmissionLocals
<1>1. ASSUME ValidateReceive(v) PROVE UsesCandidateSlots(v)
  BY <1>0, <1>1 DEF ValidateReceive, ValidateTo, ValidateNext, UsesAs,
         UsesCandidateSlots, CandidateLabels, SlotLabels
<1>2. ASSUME ValidateClaim(v) PROVE UsesCandidateSlots(v)
  BY <1>0, <1>2 DEF ValidateClaim, ValidateTo, ValidateNext, UsesAs,
         UsesCandidateSlots, CandidateLabels, SlotLabels
<1>3. ASSUME ValidateLocked(v) PROVE UsesCandidateSlots(v)
  BY <1>0, <1>3 DEF ValidateLocked, ValidateTo, ValidateNext, UsesAs,
         UsesCandidateSlots, CandidateLabels, SlotLabels
<1>4. ASSUME ValidateLive(v) PROVE UsesCandidateSlots(v)
  BY <1>0, <1>4 DEF ValidateLive, ValidateTo, ValidateNext, UsesAs,
         UsesCandidateSlots, CandidateLabels, SlotLabels
<1>5. ASSUME ValidateDue(v) PROVE UsesCandidateSlots(v)
  BY <1>0, <1>5 DEF ValidateDue, ValidateTo, ValidateNext, UsesAs,
         UsesCandidateSlots, CandidateLabels, SlotLabels
<1>6. ASSUME ValidateCandidateSlot(v) PROVE UsesCandidateSlots(v)
  BY <1>0, <1>6 DEF ValidateCandidateSlot, ValidateTo, ValidateNext, UsesAs,
         UsesCandidateSlots, CandidateLabels, SlotLabels
<1>7. ASSUME ValidateSlot(v) PROVE UsesCandidateSlots(v)
  BY <1>0, <1>7 DEF ValidateSlot, ValidateTo, ValidateNext, UsesAs,
         UsesCandidateSlots, CandidateLabels, SlotLabels
<1>8. ASSUME ValidateProbe(v) PROVE UsesCandidateSlots(v)
  BY <1>0, <1>8 DEF ValidateProbe, ValidateTo, ValidateNext, UsesAs,
         UsesCandidateSlots, CandidateLabels, SlotLabels
<1>9. ASSUME ValidateDeep(v) PROVE UsesCandidateSlots(v)
  BY <1>0, <1>9 DEF ValidateDeep, ValidateTo, ValidateNext, UsesAs,
         UsesCandidateSlots, CandidateLabels, SlotLabels
<1>10. ASSUME ValidateStrike(v) PROVE UsesCandidateSlots(v)
  BY <1>0, <1>10 DEF ValidateStrike, ValidateTo, ValidateNext, UsesAs,
         UsesCandidateSlots, CandidateLabels, SlotLabels
<1>11. ASSUME ValidateUpsert(v) PROVE UsesCandidateSlots(v)
  BY <1>0, <1>11 DEF ValidateUpsert, ValidateTo, ValidateNext, UsesAs,
         UsesCandidateSlots, CandidateLabels, SlotLabels
<1>12. ASSUME ValidateClear(v) PROVE UsesCandidateSlots(v)
  BY <1>0, <1>12 DEF ValidateClear, ValidateTo, ValidateNext, UsesAs,
         UsesCandidateSlots, CandidateLabels, SlotLabels
<1>13. ASSUME ValidateLeaveSlot(v) PROVE UsesCandidateSlots(v)
  BY <1>0, <1>13 DEF ValidateLeaveSlot, ValidateTo, ValidateNext, UsesAs,
         UsesCandidateSlots, CandidateLabels, SlotLabels
<1>14. ASSUME ValidateLeaveCandidateSlot(v) PROVE UsesCandidateSlots(v)
  BY <1>0, <1>14 DEF ValidateLeaveCandidateSlot, ValidateTo, ValidateNext, UsesAs,
         UsesCandidateSlots, CandidateLabels, SlotLabels
<1>15. ASSUME ValidateUnqueue(v) PROVE UsesCandidateSlots(v)
  BY <1>0, <1>15 DEF ValidateUnqueue, ValidateTo, ValidateNext, UsesAs,
         UsesCandidateSlots, CandidateLabels, SlotLabels
<1>16. ASSUME ValidateUnpend(v) PROVE UsesCandidateSlots(v)
  BY <1>0, <1>16 DEF ValidateUnpend, ValidateTo, ValidateNext, UsesAs,
         UsesCandidateSlots, CandidateLabels, SlotLabels
<1> QED
  BY <1>1, <1>2, <1>3, <1>4, <1>5, <1>6, <1>7, <1>8, <1>9, <1>10, <1>11,
     <1>12, <1>13, <1>14, <1>15, <1>16 DEF Validate

LEMMA ValidationSlotUse ==
    ASSUME AdmissionLocals, NEW v \in Validator, Validate(v)
    PROVE  UsesValidationSlots(v)
<1>0. vpc \in [Validator -> ValidateLabels]
  BY DEF AdmissionLocals
<1>1. ASSUME ValidateReceive(v) PROVE UsesValidationSlots(v)
  BY <1>0, <1>1 DEF ValidateReceive, ValidateTo, ValidateNext, UsesAs,
         UsesValidationSlots, SlotLabels
<1>2. ASSUME ValidateClaim(v) PROVE UsesValidationSlots(v)
  BY <1>0, <1>2 DEF ValidateClaim, ValidateTo, ValidateNext, UsesAs,
         UsesValidationSlots, SlotLabels
<1>3. ASSUME ValidateLocked(v) PROVE UsesValidationSlots(v)
  BY <1>0, <1>3 DEF ValidateLocked, ValidateTo, ValidateNext, UsesAs,
         UsesValidationSlots, SlotLabels
<1>4. ASSUME ValidateLive(v) PROVE UsesValidationSlots(v)
  BY <1>0, <1>4 DEF ValidateLive, ValidateTo, ValidateNext, UsesAs,
         UsesValidationSlots, SlotLabels
<1>5. ASSUME ValidateDue(v) PROVE UsesValidationSlots(v)
  BY <1>0, <1>5 DEF ValidateDue, ValidateTo, ValidateNext, UsesAs,
         UsesValidationSlots, SlotLabels
<1>6. ASSUME ValidateCandidateSlot(v) PROVE UsesValidationSlots(v)
  BY <1>0, <1>6 DEF ValidateCandidateSlot, ValidateTo, ValidateNext, UsesAs,
         UsesValidationSlots, SlotLabels
<1>7. ASSUME ValidateSlot(v) PROVE UsesValidationSlots(v)
  BY <1>0, <1>7 DEF ValidateSlot, ValidateTo, ValidateNext, UsesAs,
         UsesValidationSlots, SlotLabels
<1>8. ASSUME ValidateProbe(v) PROVE UsesValidationSlots(v)
  BY <1>0, <1>8 DEF ValidateProbe, ValidateTo, ValidateNext, UsesAs,
         UsesValidationSlots, SlotLabels
<1>9. ASSUME ValidateDeep(v) PROVE UsesValidationSlots(v)
  BY <1>0, <1>9 DEF ValidateDeep, ValidateTo, ValidateNext, UsesAs,
         UsesValidationSlots, SlotLabels
<1>10. ASSUME ValidateStrike(v) PROVE UsesValidationSlots(v)
  BY <1>0, <1>10 DEF ValidateStrike, ValidateTo, ValidateNext, UsesAs,
         UsesValidationSlots, SlotLabels
<1>11. ASSUME ValidateUpsert(v) PROVE UsesValidationSlots(v)
  BY <1>0, <1>11 DEF ValidateUpsert, ValidateTo, ValidateNext, UsesAs,
         UsesValidationSlots, SlotLabels
<1>12. ASSUME ValidateClear(v) PROVE UsesValidationSlots(v)
  BY <1>0, <1>12 DEF ValidateClear, ValidateTo, ValidateNext, UsesAs,
         UsesValidationSlots, SlotLabels
<1>13. ASSUME ValidateLeaveSlot(v) PROVE UsesValidationSlots(v)
  BY <1>0, <1>13 DEF ValidateLeaveSlot, ValidateTo, ValidateNext, UsesAs,
         UsesValidationSlots, SlotLabels
<1>14. ASSUME ValidateLeaveCandidateSlot(v) PROVE UsesValidationSlots(v)
  BY <1>0, <1>14 DEF ValidateLeaveCandidateSlot, ValidateTo, ValidateNext, UsesAs,
         UsesValidationSlots, SlotLabels
<1>15. ASSUME ValidateUnqueue(v) PROVE UsesValidationSlots(v)
  BY <1>0, <1>15 DEF ValidateUnqueue, ValidateTo, ValidateNext, UsesAs,
         UsesValidationSlots, SlotLabels
<1>16. ASSUME ValidateUnpend(v) PROVE UsesValidationSlots(v)
  BY <1>0, <1>16 DEF ValidateUnpend, ValidateTo, ValidateNext, UsesAs,
         UsesValidationSlots, SlotLabels
<1> QED
  BY <1>1, <1>2, <1>3, <1>4, <1>5, <1>6, <1>7, <1>8, <1>9, <1>10, <1>11,
     <1>12, <1>13, <1>14, <1>15, <1>16 DEF Validate
-----------------------------------------------------------------------------
(* Candidate admission on its own *)

CandidateSlotsOK ==
    SharedBy(candidateSlots, CandidateCapacity, Validator, Validator, vpc, CandidateLabels,
             "candidate_slot", {})

\* The validators' part in validationSlots, which others may use too.
ValidatorSlotsOK(G, others) ==
    SharedBy(validationSlots, ValidationCapacity, G, Validator, vpc, SlotLabels, "slot",
             others)

AdmissionInv ==
    /\ StoredTypeOK
    /\ AdmissionCore
    /\ DueOK
    /\ CandidateSlotsOK
    /\ ValidatorSlotsOK(Validator, {})

LEMMA ValidateKeepsDue ==
    ASSUME AdmissionCore, DueOK, NEW v \in Validator, Validate(v)
    PROVE  DueOK'
<1>1. /\ AdmissionLocals /\ QueuedKeys
      /\ \A w \in Validator : w # v => vpc'[w] = vpc[w] /\ ve'[w] = ve[w]
      /\ Touches(v) /\ StaysDue(v)
  BY OthersStay, ValidatorEffects DEF AdmissionCore
<1>2. ASSUME NEW w \in Validator, w # v, vpc[w] \in Careful
      PROVE  ve[w] \notin served' /\ (vpc[w] # "due" => ve[w] \notin backingOff')
  <2>1. Carries(w)
    BY <1>2 DEF Carries, Careful
  <2>2. Carries(v) => ve[v] # ve[w]
    BY <1>1, <1>2, <2>1 DEF QueuedKeys
  <2>3. ve[w] \notin served /\ (vpc[w] # "due" => ve[w] \notin backingOff)
    BY <1>2 DEF DueOK
  <2> QED
    BY <1>1, <2>2, <2>3 DEF Touches
<1> QED
  BY <1>1, <1>2 DEF DueOK, StaysDue

LEMMA ValidateKeepsStored ==
    ASSUME StoredTypeOK, AdmissionLocals, NEW v \in Validator, Validate(v)
    PROVE  StoredTypeOK'
<1>1. vpc[v] # "receive" => ve[v] \in Endpoint /\ IpOf[ve[v]] \in IP
  BY AddressAssumption DEF AdmissionLocals
<1>2. PoolTypeOK' /\ aged' \in SUBSET Endpoint
  <2>1. ASSUME UNCHANGED stored
        PROVE  PoolTypeOK' /\ aged' \in SUBSET Endpoint
    BY <2>1, PoolSteps DEF stored, StoredTypeOK
  <2>2. CASE ValidateStrike(v)
    BY <1>1, <2>2, PoolSteps DEF ValidateStrike, StoredTypeOK
  <2>3. CASE ValidateUpsert(v)
    <3>1. Verified(ve[v]) \/ UNCHANGED stored
      BY <2>3 DEF ValidateUpsert
    <3>2. ve[v] \in Endpoint
      BY <1>1, <2>3 DEF ValidateUpsert
    <3> QED
      BY <2>1, <3>1, <3>2, PoolSteps
  <2>4. ASSUME ~ValidateStrike(v), ~ValidateUpsert(v)
        PROVE  UNCHANGED stored
    BY <2>4 DEF Validate, ValidateReceive, ValidateClaim,
         ValidateLocked, ValidateLive,
       ValidateDue, ValidateCandidateSlot, ValidateSlot, ValidateProbe,
       ValidateDeep, ValidateClear, ValidateLeaveSlot, ValidateLeaveCandidateSlot,
       ValidateUnqueue, ValidateUnpend
  <2> QED
    BY <2>1, <2>2, <2>3, <2>4
<1>3. backingOff' \in SUBSET Endpoint
  <2>1. CASE ~Carries(v)
    <3>1. UNCHANGED backingOff
      BY <2>1 DEF Carries, Validate, ValidateReceive, ValidateClaim,
         ValidateLocked, ValidateLive,
         ValidateDue, ValidateCandidateSlot, ValidateSlot, ValidateProbe,
         ValidateDeep, ValidateClear, ValidateLeaveSlot, ValidateLeaveCandidateSlot,
         ValidateUnqueue, ValidateUnpend, ValidateStrike, ValidateUpsert
    <3> QED
      BY <3>1 DEF StoredTypeOK
  <2>2. CASE Carries(v)
    <3>1. ve[v] \in Endpoint
      BY <1>1, <2>2 DEF Carries
    <3>2. backingOff' \subseteq backingOff \cup {ve[v]}
      BY DEF BackOff, ClearBackOff, Validate, ValidateReceive, ValidateClaim,
         ValidateLocked, ValidateLive,
         ValidateDue, ValidateCandidateSlot, ValidateSlot, ValidateProbe,
         ValidateDeep, ValidateClear, ValidateLeaveSlot, ValidateLeaveCandidateSlot,
         ValidateUnqueue, ValidateUnpend, ValidateStrike, ValidateUpsert
    <3> QED
      BY <3>1, <3>2 DEF StoredTypeOK
  <2> QED
    BY <2>1, <2>2
<1> QED
  BY <1>2, <1>3 DEF StoredTypeOK

LEMMA FetchKeepsStored ==
    ASSUME StoredTypeOK, NEW f \in Fetcher, Fetch(f)
    PROVE  /\ StoredTypeOK' /\ UNCHANGED stored /\ backingOff' \subseteq backingOff
           /\ UNCHANGED <<validationSlots, candidateSlots, vpc, ve>>
<1>1. /\ UNCHANGED stored /\ backingOff' \subseteq backingOff
      /\ UNCHANGED <<validationSlots, candidateSlots, vpc, ve>>
  <2>1. ASSUME NEW e \in Endpoint, Offer(f, e)
        PROVE  /\ UNCHANGED stored /\ backingOff' \subseteq backingOff
               /\ UNCHANGED <<validationSlots, candidateSlots, vpc, ve>>
    BY <2>1 DEF Offer, validators
  <2>2. CASE FetchEnds(f)
    BY <2>2 DEF FetchEnds, validators
  <2>3. CASE FetchLive(f)
    BY <2>3 DEF FetchLive, validators, ClearBackOff
  <2>4. CASE FetchDue(f)
    BY <2>4 DEF FetchDue, validators
  <2>5. CASE FetchClaim(f)
    BY <2>5 DEF FetchClaim, validators
  <2>6. CASE FetchSend(f)
    BY <2>6 DEF FetchSend, validators
  <2>7. CASE FetchSent(f)
    BY <2>7 DEF FetchSent, validators
  <2> QED
    BY <2>1, <2>2, <2>3, <2>4, <2>5, <2>6, <2>7 DEF Fetch
<1>2. PoolTypeOK' /\ aged' = aged
  BY <1>1, PoolSteps DEF stored
<1> QED
  BY <1>1, <1>2 DEF StoredTypeOK

LEMMA SurroundingsKeepStored ==
    ASSUME StoredTypeOK,
           DelaysEnd \/ \E e \in Endpoint : Ages(e) \/ ClientRefused(e)
    PROVE  StoredTypeOK' /\ served' \subseteq served /\ backingOff' \subseteq backingOff
<1>1. CASE DelaysEnd
  BY <1>1, PoolSteps DEF DelaysEnd, BackOffsEnd, StoredTypeOK, Elapse
<1>2. ASSUME NEW e \in Endpoint, Ages(e)
      PROVE  StoredTypeOK' /\ served' \subseteq served /\ backingOff' \subseteq backingOff
  BY <1>2, PoolSteps DEF Ages, StoredTypeOK, pool
<1>3. ASSUME NEW e \in Endpoint, ClientRefused(e)
      PROVE  StoredTypeOK' /\ served' \subseteq served /\ backingOff' \subseteq backingOff
  BY <1>3, PoolSteps DEF ClientRefused, Failed, Quarantine, StoredTypeOK
<1> QED
  BY <1>1, <1>2, <1>3
LEMMA StartsStored ==
    ASSUME SharedInit
    PROVE  StoredTypeOK /\ served = {} /\ backingOff = {} /\ validationSlots = AllFree
  BY DEF SharedInit, PoolInit, NoneBacksOff, StoredTypeOK, PoolTypeOK, Verdicts

LEMMA StartsCore ==
    ASSUME AdmissionInit
    PROVE  /\ AdmissionCore /\ CandidateSlotsOK
           /\ \A v \in Validator : vpc[v] = "receive"
<1>1. /\ QueueCapacity \in Nat /\ FetchLimit \in Nat \ {0} /\ CandidateCapacity \in Nat
  BY AdmissionAssumption, Capacities
<1>2. AdmissionLocals /\ \A v \in Validator : vpc[v] = "receive"
  BY <1>1 DEF AdmissionInit, AdmissionLocals, FetchLabels, ValidateLabels
<1>3. JobsOK /\ Len(Values(jobs)) = 0
  BY <1>1, EmptyQueueIsFine DEF AdmissionInit, JobsOK
<1>4. PendingKeys
  BY <1>2 DEF AdmissionInit, PendingKeys, Owns
<1>5. QueuedKeys
  BY <1>2, <1>3 DEF AdmissionInit, QueuedKeys, Carries
<1>6. CandidateSlotsOK
  <2>1. {v \in Validator : vpc[v] \in CandidateLabels} \cup {} = {}
    BY <1>2 DEF CandidateLabels, SlotLabels
  <2>2. candidateSlots = AllFree
    BY DEF AdmissionInit
  <2> QED
    BY <1>1, <2>1, <2>2, AllFreeIsFine DEF CandidateSlotsOK, SharedBy
<1> QED
  BY <1>2, <1>3, <1>4, <1>5, <1>6 DEF AdmissionCore

LEMMA AdmissionStarts == Init => AdmissionInv
<1> SUFFICES ASSUME Init
             PROVE  AdmissionInv
  OBVIOUS
<1>1. /\ StoredTypeOK /\ validationSlots = AllFree
      /\ AdmissionCore /\ CandidateSlotsOK
      /\ \A v \in Validator : vpc[v] = "receive"
  BY StartsStored, StartsCore DEF Init
<1>2. DueOK
  BY <1>1 DEF DueOK, Careful
<1>3. ValidatorSlotsOK(Validator, {})
  <2>1. {v \in Validator : vpc[v] \in SlotLabels} \cup {} = {}
    BY <1>1 DEF SlotLabels
  <2> QED
    BY <1>1, <2>1, AllFreeIsFine, Capacities DEF ValidatorSlotsOK, SharedBy
<1> QED
  BY <1>1, <1>2, <1>3 DEF AdmissionInv

LEMMA ValidateKeepsCandidateSlots ==
    ASSUME AdmissionLocals, CandidateSlotsOK, NEW v \in Validator, Validate(v)
    PROVE  CandidateSlotsOK'
<1>1. \A w \in Validator : w # v => vpc'[w] = vpc[w]
  BY OthersStay
<1>2. "candidate_slot" \in CandidateLabels /\ CandidateCapacity \in Nat
  BY Capacities DEF CandidateLabels
<1>3. UsesAs(v, vpc, vpc', candidateSlots, candidateSlots', CandidateCapacity,
             CandidateLabels, "candidate_slot")
  BY CandidateSlotUse DEF UsesCandidateSlots
<1> QED
  BY <1>1, <1>2, <1>3, SemaphoreSteps DEF CandidateSlotsOK, CandidateCapacity

LEMMA ValidateKeepsSlots ==
    ASSUME AdmissionLocals, NEW v \in Validator, Validate(v), NEW G, Validator \subseteq G,
           NEW others, Validator \cap others = {}, ValidatorSlotsOK(G, others)
    PROVE  /\ ValidatorSlotsOK(G, others)'
           /\ \A x : x # v /\ Waits(validationSlots', x) => Waits(validationSlots, x)
<1>1. \A w \in Validator : w # v => vpc'[w] = vpc[w]
  BY OthersStay
<1>2. "slot" \in SlotLabels /\ ValidationCapacity \in Nat
  BY Capacities DEF SlotLabels
<1>3. UsesAs(v, vpc, vpc', validationSlots, validationSlots', ValidationCapacity,
             SlotLabels, "slot")
  BY ValidationSlotUse DEF UsesValidationSlots
<1> QED
  BY <1>1, <1>2, <1>3, SemaphoreSteps DEF ValidatorSlotsOK, ValidationCapacity

LEMMA AdmissionSteps == AdmissionInv /\ [Next]_vars => AdmissionInv'
<1> SUFFICES ASSUME AdmissionInv, [Next]_vars
             PROVE  AdmissionInv'
  OBVIOUS
<1>0. /\ StoredTypeOK /\ AdmissionCore /\ AdmissionLocals /\ DueOK
      /\ CandidateSlotsOK /\ ValidatorSlotsOK(Validator, {})
  BY DEF AdmissionInv, AdmissionCore
<1>1. ASSUME NEW f \in Fetcher, Fetch(f)
      PROVE  AdmissionInv'
  <2>1. /\ StoredTypeOK' /\ UNCHANGED stored /\ backingOff' \subseteq backingOff
        /\ UNCHANGED <<validationSlots, candidateSlots, vpc, ve>>
    BY <1>0, <1>1, FetchKeepsStored
  <2>2. AdmissionCore'
    BY <1>0, <1>1, FetchKeepsCore
  <2>3. DueOK'
    BY <1>0, <2>1 DEF DueOK, stored, pool
  <2>4. CandidateSlotsOK' /\ ValidatorSlotsOK(Validator, {})'
    BY <1>0, <2>1 DEF CandidateSlotsOK, ValidatorSlotsOK, ValidationCapacity,
                      CandidateCapacity
  <2> QED
    BY <2>1, <2>2, <2>3, <2>4 DEF AdmissionInv
<1>2. ASSUME NEW v \in Validator, Validate(v)
      PROVE  AdmissionInv'
  <2>1. StoredTypeOK'
    BY <1>0, <1>2, ValidateKeepsStored
  <2>2. AdmissionCore'
    BY <1>0, <1>2, ValidateKeepsCore
  <2>3. DueOK'
    BY <1>0, <1>2, ValidateKeepsDue
  <2>4. CandidateSlotsOK' /\ ValidatorSlotsOK(Validator, {})'
    BY <1>0, <1>2, ValidateKeepsCandidateSlots, ValidateKeepsSlots
  <2> QED
    BY <2>1, <2>2, <2>3, <2>4 DEF AdmissionInv
<1>3. ASSUME UNCHANGED <<validationSlots, admission>>, StoredTypeOK',
             served' \subseteq served, backingOff' \subseteq backingOff
      PROVE  AdmissionInv'
  <2>1. UNCHANGED <<queued, pending, jobs, candidateSlots, fpc, fe, fn, vpc, ve,
                    validationSlots>>
    BY <1>3 DEF admission, keys, fetchers, validators
  <2>2. AdmissionCore'
    BY <1>0, <2>1 DEF AdmissionCore, AdmissionLocals, JobsOK, PendingKeys, QueuedKeys,
                      Owns, Carries
  <2>3. DueOK'
    BY <1>0, <1>3, <2>1 DEF DueOK
  <2>4. CandidateSlotsOK' /\ ValidatorSlotsOK(Validator, {})'
    BY <1>0, <2>1 DEF CandidateSlotsOK, ValidatorSlotsOK, ValidationCapacity,
                      CandidateCapacity
  <2> QED
    BY <1>3, <2>2, <2>3, <2>4 DEF AdmissionInv
<1>4. CASE Surroundings
  BY <1>0, <1>3, <1>4, SurroundingsKeepStored DEF Surroundings
<1>5. CASE UNCHANGED vars
  <2>1. /\ UNCHANGED stored /\ UNCHANGED <<validationSlots, admission>>
        /\ served' = served /\ backingOff' = backingOff
    BY <1>5 DEF vars, stored, pool
  <2>2. StoredTypeOK'
    BY <1>0, <2>1, PoolSteps DEF stored, StoredTypeOK
  <2> QED
    BY <1>3, <2>1, <2>2
<1> QED
  BY <1>1, <1>2, <1>4, <1>5 DEF Next
LEMMA AdmissionInvariant == Spec => []AdmissionInv
<1>1. Init => AdmissionInv
  BY AdmissionStarts
<1>2. AdmissionInv /\ [Next]_vars => AdmissionInv'
  BY AdmissionSteps
<1> QED
  BY <1>1, <1>2, PTL DEF Spec

\* Every variable of candidate admission has its type, the channel never holds more
\* than its capacity, and no fetch admits more than its limit.
THEOREM AdmissionTypeCorrect == Spec => []AdmissionTypeOK
<1>1. AdmissionInv => AdmissionTypeOK
  <2> SUFFICES ASSUME AdmissionInv
               PROVE  AdmissionTypeOK
    OBVIOUS
  <2>1. StoredTypeOK /\ AdmissionLocals /\ JobsOK
    BY DEF AdmissionInv, AdmissionCore
  <2>2. /\ validationSlots \in Semaphores(Validator)
        /\ candidateSlots \in Semaphores(Validator)
    BY DEF AdmissionInv, CandidateSlotsOK, ValidatorSlotsOK, SharedBy, UsedBy
  <2> QED
    BY <2>1, <2>2
       DEF AdmissionTypeOK, StoredTypeOK, AdmissionLocals, JobsOK, Buffered
<1> QED
  BY <1>1, AdmissionInvariant, PTL

LEMMA ClaimsExact ==
    ASSUME AdmissionCore
    PROVE  ClaimsAreExact
<1>0. AdmissionLocals /\ PendingKeys /\ QueuedKeys
  BY DEF AdmissionCore
<1>1. PendingIsOwned
  <2> SUFFICES ASSUME NEW e \in Endpoint
               PROVE  Cardinality(Owners(e)) = IF e \in pending THEN 1 ELSE 0
    BY DEF PendingIsOwned
  <2>1. Owners(e) = {v \in Validator : Owns(v) /\ ve[v] = e}
    BY DEF Owners, Owns
  <2>2. CASE e \in pending
    <3>1. PICK v \in Validator : Owns(v) /\ ve[v] = e
      BY <1>0, <2>2 DEF PendingKeys
    <3>2. Owners(e) = {v}
      BY <1>0, <2>1, <3>1 DEF PendingKeys
    <3> QED
      BY <2>2, <3>2, FS_Singleton
  <2>3. CASE e \notin pending
    <3>1. Owners(e) = {}
      BY <1>0, <2>1, <2>3 DEF PendingKeys
    <3> QED
      BY <2>3, <3>1, FS_EmptySet
  <2> QED
    BY <2>2, <2>3
<1>2. QueuedOnce
  <2> SUFFICES ASSUME NEW e \in Endpoint, Carriers(e) # {}
               PROVE  e \in queued /\ Cardinality(Carriers(e)) = 1
    BY DEF QueuedOnce
  <2> DEFINE J == Values(jobs)
             senders == {f \in Fetcher : Sends(f) /\ fe[f] = e}
             places == {i \in 1 .. Len(J) : J[i] = e}
             holders == {v \in Validator : Carries(v) /\ ve[v] = e}
  <2>1. Carriers(e) = senders \cup places \cup holders
    BY DEF Carriers, Sends, Carries
  <2>2. /\ \A f, g \in senders : f = g
        /\ \A i, j \in places : i = j
        /\ \A v, w \in holders : v = w
        /\ senders # {} => places = {} /\ holders = {} /\ e \in queued
        /\ places # {} => holders = {} /\ e \in queued
        /\ holders # {} => e \in queued
    BY <1>0 DEF QueuedKeys, Sends
  <2> HIDE DEF senders, places, holders
  <2>3. PICK x : x \in Carriers(e)
    OBVIOUS
  <2>4. Carriers(e) = {x} /\ e \in queued
    BY <2>1, <2>2, <2>3
  <2> QED
    BY <2>4, FS_Singleton
<1> QED
  BY <1>1, <1>2 DEF ClaimsAreExact

\* pendingValidate and queuedCandidates name exactly what is under way: one validator
\* for each endpoint in the first, one hand for each endpoint on its way, whose key is
\* in the second all the time (crawler.go:189-205, candidate_admission.go:176).
THEOREM ClaimsAlwaysExact == Spec => []ClaimsAreExact
<1>1. AdmissionInv => ClaimsAreExact
  BY ClaimsExact DEF AdmissionInv
<1> QED
  BY <1>1, AdmissionInvariant, PTL

\* No candidate is probed while it is live or waits for its retry
\* (crawler.go:208-220).
THEOREM ProbesAlwaysDue == Spec => []ProbesAreDue
<1>1. AdmissionInv => ProbesAreDue
  BY DEF AdmissionInv, DueOK, ProbesAreDue, Careful
<1> QED
  BY <1>1, AdmissionInvariant, PTL

LEMMA ReserveSpared ==
    ASSUME CandidateSlotsOK
    PROVE  ReserveIsSpared
<1> DEFINE U == {v \in Validator : vpc[v] \in CandidateLabels} \cup {}
           held == {u \in U : ~Waits(candidateSlots, u)}
           probing == {v \in Validator : InSlot(v)}
<1>1. /\ UsedBy(candidateSlots, CandidateCapacity, Validator, U)
      /\ \A v \in Validator : Waits(candidateSlots, v) => vpc[v] = "candidate_slot"
  BY DEF CandidateSlotsOK, SharedBy
<1>2. /\ IsFiniteSet(held) /\ candidateSlots.taken = Cardinality(held)
      /\ candidateSlots.taken <= CandidateCapacity
  <2>1. CandidateCapacity \in Nat
    BY Capacities
  <2> HIDE DEF U, probing
  <2> QED
    BY <1>1, <2>1, Slots
<1>3. probing \in SUBSET held
  <2> SUFFICES ASSUME NEW v \in Validator, InSlot(v)
               PROVE  v \in held
    OBVIOUS
  <2>1. vpc[v] \in SlotLabels
    BY DEF InSlot, SlotLabels
  <2>2. vpc[v] \in CandidateLabels /\ vpc[v] # "candidate_slot"
    BY <2>1 DEF CandidateLabels, SlotLabels
  <2> QED
    BY <1>1, <2>2
<1> HIDE DEF U, held, probing
<1>4. /\ IsFiniteSet(probing) /\ Cardinality(probing) <= Cardinality(held)
      /\ Cardinality(probing) \in Nat /\ Cardinality(held) \in Nat
  BY <1>2, <1>3, FS_Subset, FS_CardinalityType
<1>5. Cardinality(probing) <= CandidateCapacity
  <2>1. ASSUME NEW a \in Nat, NEW b \in Nat, NEW c \in Nat, a <= b, b <= c
        PROVE  a <= c
    BY <2>1
  <2> QED
    BY <1>2, <1>4, <2>1, Capacities
<1> QED
  BY <1>5, Capacities DEF ReserveIsSpared, probing

\* However many validators there are, candidates take at most the slots that are not
\* reserved for the routine checks (verify.go:54-66, 104-107).
THEOREM ReserveAlwaysSpared == Spec => []ReserveIsSpared
<1>1. AdmissionInv => ReserveIsSpared
  BY ReserveSpared DEF AdmissionInv
<1> QED
  BY <1>1, AdmissionInvariant, PTL

-----------------------------------------------------------------------------
(* Routine checks: the cron job's and the checkers' locals, the claims and the
   channel. *)

RoutineLocals ==
    /\ pendingVerify \in SUBSET Endpoint
    /\ cpc \in CronLabels /\ clist \in SUBSET Snapshots /\ cp \in Snapshots \cup {NoJob}
    /\ cpc \in {"refresh", "send", "sent"} => cp \in Snapshots
    /\ kpc \in [Checker -> CheckLabels]
    /\ kp \in [Checker -> Snapshots \cup {NoJob}]
    /\ \A c \in Checker : kpc[c] # "receive" => kp[c] \in Snapshots

VerifyJobOK ==
    verifyJob \in Queues({"cron"}, Snapshots) /\ Buffered(verifyJob, VerifyCapacity)

CronHas == cpc \in {"refresh", "send"}
Busy(c) == kpc[c] # "receive"

\* Who has a row, the cron job, the channel or a checker, has the claim on its
\* endpoint, and nobody else does; every claim has somebody.
VerifyClaims ==
    LET J == Values(verifyJob)
    IN  /\ CronHas => cp.e \in pendingVerify
        /\ \A i \in 1 .. Len(J) : J[i].e \in pendingVerify
        /\ \A c \in Checker : Busy(c) => kp[c].e \in pendingVerify
        /\ \A i, j \in 1 .. Len(J) : J[i].e = J[j].e => i = j
        /\ \A c, d \in Checker : Busy(c) /\ Busy(d) /\ kp[c].e = kp[d].e => c = d
        /\ \A i \in 1 .. Len(J) : CronHas => cp.e # J[i].e
        /\ \A c \in Checker : CronHas /\ Busy(c) => cp.e # kp[c].e
        /\ \A i \in 1 .. Len(J), c \in Checker : Busy(c) => J[i].e # kp[c].e
        /\ \A e \in pendingVerify :
             \/ CronHas /\ cp.e = e
             \/ \E i \in 1 .. Len(J) : J[i].e = e
             \/ \E c \in Checker : Busy(c) /\ kp[c].e = e

RoutineCore == RoutineLocals /\ VerifyJobOK /\ VerifyClaims

LEMMA Rows ==
    /\ \A s \in Snapshots : s.e \in Endpoint /\ s.available \in BOOLEAN
    /\ \A e \in Endpoint, b \in BOOLEAN : [e |-> e, available |-> b] \in Snapshots
  BY DEF Snapshots

\* Steps that change nothing of who has what.
LEMMA SameClaims ==
    ASSUME VerifyClaims, UNCHANGED <<pendingVerify, verifyJob, kp>>,
           CronHas' <=> CronHas, CronHas => cp' = cp,
           \A c \in Checker : Busy(c)' <=> Busy(c)
    PROVE  VerifyClaims'
<1> DEFINE J == Values(verifyJob)
<1>1. Values(verifyJob)' = J
  OBVIOUS
<1> HIDE DEF J
<1> QED
  BY <1>1 DEF VerifyClaims, J

\* A place of the channel is one of the old ones or the last.
LEMMA CronSendKeepsCore ==
    ASSUME RoutineCore, CronSend
    PROVE  RoutineCore'
<1> DEFINE J == Values(verifyJob)
           r == Send(verifyJob, VerifyCapacity, "cron", cp)
           K == Values(r)
<1>1. /\ cpc = "send" /\ cpc' = "sent" /\ verifyJob' = r /\ cp \in Snapshots
      /\ UNCHANGED <<pendingVerify, clist, cp, kpc, kp>>
  BY DEF CronSend, RoutineCore, RoutineLocals, checkers
<1>2. /\ verifyJob \in Queues({"cron"}, Snapshots) /\ Buffered(verifyJob, VerifyCapacity)
      /\ VerifyCapacity \in Nat /\ "cron" \in {"cron"}
  BY RoutineAssumption DEF RoutineCore, VerifyJobOK
<1>3. /\ r \in Queues({"cron"}, Snapshots) /\ Buffered(r, VerifyCapacity)
      /\ IsAppended(K, J, cp)
  BY <1>1, <1>2, SendAppends
<1>4. VerifyJobOK' /\ Values(verifyJob') = K
  BY <1>1, <1>3 DEF VerifyJobOK
<1>5. J \in Seq(Snapshots) /\ K \in Seq(Snapshots)
  BY <1>2, <1>3, QueueValues
<1>6. RoutineLocals'
  BY <1>1 DEF RoutineCore, RoutineLocals, CronLabels
<1> HIDE DEF J, K, r
<1>7. /\ Len(J) \in Nat /\ Len(K) = Len(J) + 1 /\ K[Len(J) + 1] = cp
      /\ \A i \in 1 .. Len(J) : K[i] = J[i]
  BY <1>3, <1>5 DEF IsAppended
<1>8. /\ \A i \in 1 .. Len(K) : i \in 1 .. Len(J) \/ i = Len(J) + 1
      /\ \A i \in 1 .. Len(J) : i \in 1 .. Len(K)
      /\ Len(J) + 1 \in 1 .. Len(K)
  BY <1>7
<1>9. CronHas /\ ~CronHas' /\ \A c \in Checker : Busy(c)' <=> Busy(c)
  BY <1>1 DEF CronHas, Busy
<1>10. /\ cp.e \in pendingVerify
       /\ \A i \in 1 .. Len(J) : J[i].e \in pendingVerify /\ J[i].e # cp.e
       /\ \A c \in Checker : Busy(c) => kp[c].e \in pendingVerify /\ kp[c].e # cp.e
       /\ \A i, j \in 1 .. Len(J) : J[i].e = J[j].e => i = j
       /\ \A c, d \in Checker : Busy(c) /\ Busy(d) /\ kp[c].e = kp[d].e => c = d
       /\ \A i \in 1 .. Len(J), c \in Checker : Busy(c) => J[i].e # kp[c].e
       /\ \A e \in pendingVerify :
            \/ cp.e = e
            \/ \E i \in 1 .. Len(J) : J[i].e = e
            \/ \E c \in Checker : Busy(c) /\ kp[c].e = e
  BY <1>9 DEF RoutineCore, VerifyClaims, J
<1>11. /\ \A i \in 1 .. Len(K) : K[i].e \in pendingVerify
       /\ \A i, j \in 1 .. Len(K) : K[i].e = K[j].e => i = j
       /\ \A i \in 1 .. Len(K), c \in Checker : Busy(c) => K[i].e # kp[c].e
       /\ \A e \in pendingVerify :
            \/ \E i \in 1 .. Len(K) : K[i].e = e
            \/ \E c \in Checker : Busy(c) /\ kp[c].e = e
  <2>1. ASSUME NEW i \in 1 .. Len(K)
        PROVE  /\ K[i].e \in pendingVerify
               /\ \A c \in Checker : Busy(c) => K[i].e # kp[c].e
    BY <1>7, <1>8, <1>10
  <2>2. ASSUME NEW i \in 1 .. Len(K), NEW j \in 1 .. Len(K), K[i].e = K[j].e
        PROVE  i = j
    BY <1>7, <1>8, <1>10, <2>2
  <2>3. ASSUME NEW e \in pendingVerify
        PROVE  \/ \E i \in 1 .. Len(K) : K[i].e = e
               \/ \E c \in Checker : Busy(c) /\ kp[c].e = e
    <3>1. CASE cp.e = e
      BY <1>7, <1>8, <3>1
    <3>2. CASE \E i \in 1 .. Len(J) : J[i].e = e
      BY <1>7, <1>8, <3>2
    <3> QED
      BY <1>10, <3>1, <3>2
  <2> QED
    BY <2>1, <2>2, <2>3
<1>12. VerifyClaims'
  <2>1. Values(verifyJob)' = K
    BY <1>4
  <2> QED
    BY <1>1, <1>9, <1>10, <1>11, <2>1 DEF VerifyClaims
<1> QED
  BY <1>4, <1>6, <1>12 DEF RoutineCore

LEMMA CronKeepsCore ==
    ASSUME RoutineCore, Cron
    PROVE  RoutineCore'
<1>0. RoutineLocals /\ VerifyJobOK /\ VerifyClaims
  BY DEF RoutineCore
<1>1. ASSUME CronStart PROVE RoutineCore'
  <2>1. /\ cpc = "idle" /\ cpc' = "claim"
        /\ UNCHANGED <<pendingVerify, verifyJob, cp, kpc, kp>>
    BY <1>1 DEF CronStart, checkers
  <2>2. clist' \in SUBSET Snapshots
    BY <1>1, Rows DEF CronStart
  <2>3. RoutineLocals' /\ VerifyJobOK'
    BY <1>0, <2>1, <2>2 DEF RoutineLocals, CronLabels, VerifyJobOK
  <2>4. VerifyClaims'
    BY <1>0, <2>1, SameClaims DEF CronHas, Busy
  <2> QED
    BY <2>3, <2>4 DEF RoutineCore
<1>2. ASSUME CronEnd PROVE RoutineCore'
  <2>1. /\ cpc = "claim" /\ cpc' = "idle"
        /\ UNCHANGED <<pendingVerify, verifyJob, clist, cp, kpc, kp>>
    BY <1>2 DEF CronEnd, checkers
  <2>2. RoutineLocals' /\ VerifyJobOK'
    BY <1>0, <2>1 DEF RoutineLocals, CronLabels, VerifyJobOK
  <2>3. VerifyClaims'
    BY <1>0, <2>1, SameClaims DEF CronHas, Busy
  <2> QED
    BY <2>2, <2>3 DEF RoutineCore
<1>3. ASSUME NEW s \in clist, CronClaim(s) PROVE RoutineCore'
  <2>1. /\ cpc = "claim" /\ clist' = clist \ {s} /\ s \in Snapshots /\ s.e \in Endpoint
        /\ UNCHANGED <<verifyJob, kpc, kp>>
    BY <1>0, <1>3, Rows DEF CronClaim, checkers, RoutineLocals
  <2>2. CASE s.e \in pendingVerify
    <3>1. UNCHANGED <<pendingVerify, cpc, cp>>
      BY <1>3, <2>2 DEF CronClaim
    <3>2. RoutineLocals' /\ VerifyJobOK'
      BY <1>0, <2>1, <3>1 DEF RoutineLocals, VerifyJobOK
    <3>3. VerifyClaims'
      BY <1>0, <2>1, <3>1, SameClaims DEF CronHas, Busy
    <3> QED
      BY <3>2, <3>3 DEF RoutineCore
  <2>3. CASE s.e \notin pendingVerify
    <3>1. pendingVerify' = pendingVerify \cup {s.e} /\ cpc' = "refresh" /\ cp' = s
      BY <1>3, <2>3 DEF CronClaim
    <3>2. RoutineLocals' /\ VerifyJobOK'
      BY <1>0, <2>1, <3>1 DEF RoutineLocals, CronLabels, VerifyJobOK
    <3>3. VerifyClaims'
      <4> DEFINE J == Values(verifyJob)
      <4>1. Values(verifyJob)' = J
        BY <2>1
      <4>2. ~CronHas /\ CronHas' /\ \A c \in Checker : Busy(c)' <=> Busy(c)
        BY <2>1, <3>1 DEF CronHas, Busy
      <4> HIDE DEF J
      <4> QED
        BY <1>0, <2>1, <2>3, <3>1, <4>1, <4>2 DEF VerifyClaims, J
    <3> QED
      BY <3>2, <3>3 DEF RoutineCore
  <2> QED
    BY <2>2, <2>3
<1>4. ASSUME CronRefresh PROVE RoutineCore'
  <2>1. /\ cpc = "refresh" /\ cp \in Snapshots
        /\ UNCHANGED <<verifyJob, clist, kpc, kp>>
    BY <1>0, <1>4 DEF CronRefresh, checkers, RoutineLocals
  <2>2. CASE cpc' = "send" /\ UNCHANGED <<pendingVerify, cp>>
    <3>1. RoutineLocals' /\ VerifyJobOK'
      BY <1>0, <2>1, <2>2 DEF RoutineLocals, CronLabels, VerifyJobOK
    <3>2. VerifyClaims'
      BY <1>0, <2>1, <2>2, SameClaims DEF CronHas, Busy
    <3> QED
      BY <3>1, <3>2 DEF RoutineCore
  <2>3. CASE /\ pendingVerify' = pendingVerify \ {cp.e}
             /\ cpc' = "claim" /\ cp' = NoJob
    <3>1. RoutineLocals' /\ VerifyJobOK'
      BY <1>0, <2>1, <2>3 DEF RoutineLocals, CronLabels, VerifyJobOK
    <3>2. VerifyClaims'
      <4> DEFINE J == Values(verifyJob)
      <4>1. Values(verifyJob)' = J
        BY <2>1
      <4>2. CronHas /\ ~CronHas' /\ \A c \in Checker : Busy(c)' <=> Busy(c)
        BY <2>1, <2>3 DEF CronHas, Busy
      <4> HIDE DEF J
      <4> QED
        BY <1>0, <2>1, <2>3, <4>1, <4>2 DEF VerifyClaims, J
    <3> QED
      BY <3>1, <3>2 DEF RoutineCore
  <2> QED
    BY <1>4, <2>2, <2>3 DEF CronRefresh
<1>5. ASSUME CronSent PROVE RoutineCore'
  <2>1. /\ cpc = "sent" /\ cpc' = "claim" /\ cp' = NoJob
        /\ UNCHANGED <<pendingVerify, verifyJob, clist, kpc, kp>>
    BY <1>5 DEF CronSent, checkers
  <2>2. RoutineLocals' /\ VerifyJobOK'
    BY <1>0, <2>1 DEF RoutineLocals, CronLabels, VerifyJobOK
  <2>3. VerifyClaims'
    BY <1>0, <2>1, SameClaims DEF CronHas, Busy
  <2> QED
    BY <2>2, <2>3 DEF RoutineCore
<1> QED
  BY <1>1, <1>2, <1>3, <1>4, <1>5, CronSendKeepsCore DEF Cron

\* What a step of checker c means to the claims and the channel.
Takes(c) ==
    /\ kpc[c] = "receive" /\ verifyJob.buffer # << >>
    /\ kpc' = [kpc EXCEPT ![c] = "locked"]
    /\ kp' = [kp EXCEPT ![c] = Head(verifyJob.buffer)]
    /\ verifyJob' = Receive(verifyJob)
    /\ UNCHANGED <<pendingVerify, cron>>

Checks(c) ==
    /\ kpc[c] # "receive"
    /\ \E label \in CheckLabels \ {"receive"} : kpc' = [kpc EXCEPT ![c] = label]
    /\ UNCHANGED <<kp, pendingVerify, verifyJob, cron>>

Releases(c) ==
    /\ kpc[c] = "release"
    /\ kpc' = [kpc EXCEPT ![c] = "receive"]
    /\ kp' = [kp EXCEPT ![c] = NoJob]
    /\ pendingVerify' = pendingVerify \ {kp[c].e}
    /\ UNCHANGED <<verifyJob, cron>>

LEMMA CheckerSteps ==
    ASSUME RoutineLocals, NEW c \in Checker, Check(c)
    PROVE  Takes(c) \/ Checks(c) \/ Releases(c)
<1>1. ASSUME CheckReceive(c) PROVE Takes(c)
  BY <1>1 DEF CheckReceive, Takes
<1>2. ASSUME CheckRelease(c) PROVE Releases(c)
  BY <1>2 DEF CheckRelease, Releases
<1>3. ASSUME CheckLocked(c) PROVE Checks(c)
  BY <1>3 DEF CheckLocked, CheckTo, Checks, CheckLabels
<1>4. ASSUME CheckSlot(c) PROVE Checks(c)
  BY <1>4 DEF CheckSlot, CheckTo, Checks, CheckLabels
<1>5. ASSUME CheckProbe(c) PROVE Checks(c)
  BY <1>5 DEF CheckProbe, CheckTo, Checks, CheckLabels
<1>6. ASSUME CheckDeep(c) PROVE Checks(c)
  BY <1>6 DEF CheckDeep, CheckTo, Checks, CheckLabels
<1>7. ASSUME CheckSuccess(c) PROVE Checks(c)
  BY <1>7 DEF CheckSuccess, CheckTo, Checks, CheckLabels
<1>8. ASSUME CheckReloadError(c) PROVE Checks(c)
  BY <1>8 DEF CheckReloadError, CheckTo, Checks, CheckLabels
<1>9. ASSUME CheckClear(c) PROVE Checks(c)
  BY <1>9 DEF CheckClear, CheckTo, Checks, CheckLabels
<1>10. ASSUME CheckFailed(c) PROVE Checks(c)
  BY <1>10 DEF CheckFailed, CheckTo, Checks, CheckLabels
<1>11. ASSUME CheckBackOff(c) PROVE Checks(c)
  BY <1>11 DEF CheckBackOff, CheckTo, Checks, CheckLabels
<1>12. ASSUME CheckStrike(c) PROVE Checks(c)
  BY <1>12 DEF CheckStrike, CheckTo, Checks, CheckLabels
<1>13. ASSUME CheckLeaveSlot(c) PROVE Checks(c)
  BY <1>13 DEF CheckLeaveSlot, CheckTo, Checks, CheckLabels
<1> QED
  BY <1>1, <1>2, <1>3, <1>4, <1>5, <1>6, <1>7, <1>8, <1>9, <1>10, <1>11,
     <1>12, <1>13 DEF Check

LEMMA CheckersStay ==
    ASSUME RoutineLocals, NEW c \in Checker, Check(c)
    PROVE  \A d \in Checker : d # c => kpc'[d] = kpc[d]
<1>1. \E label : kpc' = [kpc EXCEPT ![c] = label]
  BY CheckerSteps DEF Takes, Checks, Releases
<1> QED
  BY <1>1 DEF RoutineLocals

LEMMA CheckKeepsCore ==
    ASSUME RoutineCore, NEW c \in Checker, Check(c)
    PROVE  RoutineCore'
<1> DEFINE J == Values(verifyJob)
<1>0. /\ RoutineLocals /\ VerifyJobOK /\ VerifyClaims
      /\ J \in Seq(Snapshots) /\ VerifyCapacity \in Nat
  BY QueueValues, RoutineAssumption DEF RoutineCore, VerifyJobOK
<1>1. CASE Takes(c)
  <2> DEFINE s == Head(verifyJob.buffer)
             K == Values(Receive(verifyJob))
  <2>1. /\ kpc[c] = "receive" /\ kpc' = [kpc EXCEPT ![c] = "locked"]
        /\ kp' = [kp EXCEPT ![c] = s] /\ verifyJob' = Receive(verifyJob)
        /\ UNCHANGED <<pendingVerify, cpc, clist, cp>>
    BY <1>1 DEF Takes, cron
  <2>2. /\ Receive(verifyJob) \in Queues({"cron"}, Snapshots)
        /\ Buffered(Receive(verifyJob), VerifyCapacity)
        /\ IsTailOf(K, J, s) /\ s \in Snapshots
    BY <1>0, <1>1, ReceiveTakesFirst DEF VerifyJobOK, Takes
  <2>3. VerifyJobOK' /\ Values(verifyJob') = K /\ K \in Seq(Snapshots)
    BY <2>1, <2>2, QueueValues DEF VerifyJobOK
  <2> HIDE DEF s, J, K
  <2>4. RoutineLocals'
    BY <1>0, <2>1, <2>2 DEF RoutineLocals, CheckLabels
  <2>5. /\ ~Busy(c) /\ Busy(c)' /\ kp'[c] = s /\ (CronHas' <=> CronHas)
        /\ \A d \in Checker : d # c => (Busy(d)' <=> Busy(d)) /\ kp'[d] = kp[d]
    BY <1>0, <2>1 DEF RoutineLocals, Busy, CronHas
  <2>6. /\ Len(J) = Len(K) + 1 /\ Len(K) \in Nat /\ J[1] = s
        /\ \A i \in 1 .. Len(K) : K[i] = J[i + 1] /\ i + 1 \in 1 .. Len(J) /\ i + 1 # 1
        /\ 1 \in 1 .. Len(J)
    BY <1>0, <2>2, <2>3 DEF IsTailOf
  <2>7. /\ CronHas => cp.e \in pendingVerify
        /\ \A i \in 1 .. Len(J) : J[i].e \in pendingVerify
        /\ \A d \in Checker : Busy(d) => kp[d].e \in pendingVerify
        /\ \A i, j \in 1 .. Len(J) : J[i].e = J[j].e => i = j
        /\ \A d, x \in Checker : Busy(d) /\ Busy(x) /\ kp[d].e = kp[x].e => d = x
        /\ \A i \in 1 .. Len(J) : CronHas => cp.e # J[i].e
        /\ \A d \in Checker : CronHas /\ Busy(d) => cp.e # kp[d].e
        /\ \A i \in 1 .. Len(J), d \in Checker : Busy(d) => J[i].e # kp[d].e
        /\ \A e \in pendingVerify :
             \/ CronHas /\ cp.e = e
             \/ \E i \in 1 .. Len(J) : J[i].e = e
             \/ \E d \in Checker : Busy(d) /\ kp[d].e = e
    BY <1>0 DEF VerifyClaims, J
  <2>8. /\ \A i \in 1 .. Len(K) : K[i].e \in pendingVerify /\ K[i].e # s.e
        /\ \A i \in 1 .. Len(K) : CronHas => cp.e # K[i].e
        /\ \A i \in 1 .. Len(K), d \in Checker : Busy(d) => K[i].e # kp[d].e
        /\ s.e \in pendingVerify /\ (CronHas => cp.e # s.e)
        /\ \A d \in Checker : Busy(d) => s.e # kp[d].e
    <3>1. ASSUME NEW i \in 1 .. Len(K)
          PROVE  /\ K[i].e \in pendingVerify /\ K[i].e # s.e
                 /\ CronHas => cp.e # K[i].e
                 /\ \A d \in Checker : Busy(d) => K[i].e # kp[d].e
      <4> DEFINE k == i + 1
      <4>1. K[i] = J[k] /\ k \in 1 .. Len(J) /\ k # 1 /\ 1 \in 1 .. Len(J) /\ J[1] = s
        BY <2>6
      <4> HIDE DEF k
      <4> QED
        BY <2>7, <4>1
    <3>2. /\ s.e \in pendingVerify /\ (CronHas => cp.e # s.e)
          /\ \A d \in Checker : Busy(d) => s.e # kp[d].e
      BY <2>6, <2>7
    <3> QED
      BY <3>1, <3>2
  <2>9. ASSUME NEW i \in 1 .. Len(K), NEW j \in 1 .. Len(K), K[i].e = K[j].e
        PROVE  i = j
    <3>1. i + 1 = j + 1
      BY <2>6, <2>7, <2>9
    <3> QED
      BY <2>6, <3>1
  <2>10. ASSUME NEW e \in pendingVerify
         PROVE  \/ CronHas /\ cp.e = e
                \/ \E i \in 1 .. Len(K) : K[i].e = e
                \/ \E d \in Checker : Busy(d)' /\ kp'[d].e = e
    <3>1. CASE \E i \in 1 .. Len(J) : J[i].e = e
      <4>1. PICK i \in 1 .. Len(J) : J[i].e = e
        BY <3>1
      <4>2. CASE i = 1
        BY <2>5, <2>6, <4>1, <4>2
      <4>3. CASE i # 1
        <5>1. i - 1 \in 1 .. Len(K) /\ (i - 1) + 1 = i
          BY <2>6, <4>3
        <5>2. K[i - 1].e = e
          BY <2>6, <4>1, <5>1
        <5> QED
          BY <5>1, <5>2
      <4> QED
        BY <4>2, <4>3
    <3>2. CASE \E d \in Checker : Busy(d) /\ kp[d].e = e
      BY <2>5, <3>2
    <3> QED
      BY <2>7, <3>1, <3>2
  <2>11. /\ \A d \in Checker : Busy(d)' => kp'[d].e \in pendingVerify
         /\ \A d, x \in Checker : Busy(d)' /\ Busy(x)' /\ kp'[d].e = kp'[x].e => d = x
         /\ \A d \in Checker : CronHas /\ Busy(d)' => cp.e # kp'[d].e
         /\ \A i \in 1 .. Len(K), d \in Checker : Busy(d)' => K[i].e # kp'[d].e
    BY <2>5, <2>7, <2>8
  <2>12. VerifyClaims'
    <3>1. Values(verifyJob)' = K
      BY <2>3
    <3> QED
      BY <2>1, <2>5, <2>7, <2>8, <2>9, <2>10, <2>11, <3>1 DEF VerifyClaims
  <2> QED
    BY <2>3, <2>4, <2>12 DEF RoutineCore
<1>2. CASE Checks(c)
  <2>1. /\ kpc[c] # "receive" /\ UNCHANGED <<kp, pendingVerify, verifyJob, cpc, clist, cp>>
        /\ \E label \in CheckLabels \ {"receive"} : kpc' = [kpc EXCEPT ![c] = label]
    BY <1>2 DEF Checks, cron
  <2>2. /\ kpc' \in [Checker -> CheckLabels]
        /\ \A d \in Checker : kpc'[d] = "receive" <=> kpc[d] = "receive"
    BY <1>0, <2>1 DEF RoutineLocals
  <2>3. RoutineLocals' /\ VerifyJobOK'
    BY <1>0, <2>1, <2>2 DEF RoutineLocals, VerifyJobOK
  <2>4. VerifyClaims'
    BY <1>0, <2>1, <2>2, SameClaims DEF CronHas, Busy
  <2> QED
    BY <2>3, <2>4 DEF RoutineCore
<1>3. CASE Releases(c)
  <2>1. /\ kpc[c] = "release" /\ kpc' = [kpc EXCEPT ![c] = "receive"]
        /\ kp' = [kp EXCEPT ![c] = NoJob] /\ pendingVerify' = pendingVerify \ {kp[c].e}
        /\ UNCHANGED <<verifyJob, cpc, clist, cp>>
    BY <1>3 DEF Releases, cron
  <2>2. RoutineLocals' /\ VerifyJobOK'
    BY <1>0, <2>1 DEF RoutineLocals, CheckLabels, VerifyJobOK
  <2>3. /\ Busy(c) /\ ~Busy(c)' /\ (CronHas' <=> CronHas)
        /\ \A d \in Checker : d # c => (Busy(d)' <=> Busy(d)) /\ kp'[d] = kp[d]
    BY <1>0, <2>1 DEF RoutineLocals, Busy, CronHas
  <2>4. VerifyClaims'
    <3>1. Values(verifyJob)' = J
      BY <2>1
    <3> HIDE DEF J
    <3> QED
      BY <1>0, <2>1, <2>3, <3>1 DEF VerifyClaims, J
  <2> QED
    BY <2>2, <2>4 DEF RoutineCore
<1> QED
  BY <1>0, <1>1, <1>2, <1>3, CheckerSteps

-----------------------------------------------------------------------------
(* Routine checks on their own *)

CheckSlotLabels ==
    {"slot", "probe", "deep", "success", "deep_success", "reload", "clear", "failed",
     "back_off", "strike", "leave_slot"}

\* The checkers' part in validationSlots, which others may use too.
CheckerSlotsOK(G, others) ==
    SharedBy(validationSlots, ValidationCapacity, G, Checker, kpc, CheckSlotLabels, "slot",
             others)

RoutineInv == StoredTypeOK /\ RoutineCore /\ CheckerSlotsOK(Checker, {})

CheckerUsesSlots(c) ==
    UsesAs(c, kpc, kpc', validationSlots, validationSlots', ValidationCapacity,
           CheckSlotLabels, "slot")

LEMMA CheckSlotUse ==
    ASSUME RoutineLocals, NEW c \in Checker, Check(c)
    PROVE  CheckerUsesSlots(c)
<1>0. kpc \in [Checker -> CheckLabels]
  BY DEF RoutineLocals
<1>1. ASSUME CheckReceive(c) PROVE CheckerUsesSlots(c)
  BY <1>0, <1>1 DEF CheckReceive, CheckTo, UsesAs, CheckerUsesSlots, CheckSlotLabels
<1>2. ASSUME CheckLocked(c) PROVE CheckerUsesSlots(c)
  BY <1>0, <1>2 DEF CheckLocked, CheckTo, UsesAs, CheckerUsesSlots, CheckSlotLabels
<1>3. ASSUME CheckSlot(c) PROVE CheckerUsesSlots(c)
  BY <1>0, <1>3 DEF CheckSlot, CheckTo, UsesAs, CheckerUsesSlots, CheckSlotLabels
<1>4. ASSUME CheckProbe(c) PROVE CheckerUsesSlots(c)
  BY <1>0, <1>4 DEF CheckProbe, CheckTo, UsesAs, CheckerUsesSlots, CheckSlotLabels
<1>5. ASSUME CheckDeep(c) PROVE CheckerUsesSlots(c)
  BY <1>0, <1>5 DEF CheckDeep, CheckTo, UsesAs, CheckerUsesSlots, CheckSlotLabels
<1>6. ASSUME CheckSuccess(c) PROVE CheckerUsesSlots(c)
  BY <1>0, <1>6 DEF CheckSuccess, CheckTo, UsesAs, CheckerUsesSlots, CheckSlotLabels
<1>7. ASSUME CheckReloadError(c) PROVE CheckerUsesSlots(c)
  BY <1>0, <1>7 DEF CheckReloadError, CheckTo, UsesAs, CheckerUsesSlots, CheckSlotLabels
<1>8. ASSUME CheckClear(c) PROVE CheckerUsesSlots(c)
  BY <1>0, <1>8 DEF CheckClear, CheckTo, UsesAs, CheckerUsesSlots, CheckSlotLabels
<1>9. ASSUME CheckFailed(c) PROVE CheckerUsesSlots(c)
  BY <1>0, <1>9 DEF CheckFailed, CheckTo, UsesAs, CheckerUsesSlots, CheckSlotLabels
<1>10. ASSUME CheckBackOff(c) PROVE CheckerUsesSlots(c)
  BY <1>0, <1>10 DEF CheckBackOff, CheckTo, UsesAs, CheckerUsesSlots, CheckSlotLabels
<1>11. ASSUME CheckStrike(c) PROVE CheckerUsesSlots(c)
  BY <1>0, <1>11 DEF CheckStrike, CheckTo, UsesAs, CheckerUsesSlots, CheckSlotLabels
<1>12. ASSUME CheckLeaveSlot(c) PROVE CheckerUsesSlots(c)
  BY <1>0, <1>12 DEF CheckLeaveSlot, CheckTo, UsesAs, CheckerUsesSlots, CheckSlotLabels
<1>13. ASSUME CheckRelease(c) PROVE CheckerUsesSlots(c)
  BY <1>0, <1>13 DEF CheckRelease, CheckTo, UsesAs, CheckerUsesSlots, CheckSlotLabels
<1> QED
  BY <1>1, <1>2, <1>3, <1>4, <1>5, <1>6, <1>7, <1>8, <1>9, <1>10, <1>11,
     <1>12, <1>13 DEF Check

LEMMA CheckKeepsSlots ==
    ASSUME RoutineLocals, NEW c \in Checker, Check(c), NEW G, Checker \subseteq G,
           NEW others, Checker \cap others = {}, CheckerSlotsOK(G, others)
    PROVE  /\ CheckerSlotsOK(G, others)'
           /\ \A x : x # c /\ Waits(validationSlots', x) => Waits(validationSlots, x)
<1>1. \A d \in Checker : d # c => kpc'[d] = kpc[d]
  BY CheckersStay
<1>2. "slot" \in CheckSlotLabels /\ ValidationCapacity \in Nat
  BY Capacities DEF CheckSlotLabels
<1>3. UsesAs(c, kpc, kpc', validationSlots, validationSlots', ValidationCapacity,
             CheckSlotLabels, "slot")
  BY CheckSlotUse DEF CheckerUsesSlots
<1> QED
  BY <1>1, <1>2, <1>3, SemaphoreSteps DEF CheckerSlotsOK, ValidationCapacity

LEMMA CheckKeepsStored ==
    ASSUME StoredTypeOK, RoutineLocals, NEW c \in Checker, Check(c)
    PROVE  StoredTypeOK'
<1>1. kpc[c] # "receive" => kp[c].e \in Endpoint /\ IpOf[kp[c].e] \in IP
  BY AddressAssumption, Rows DEF RoutineLocals
<1>2. UNCHANGED stored => PoolTypeOK' /\ aged' \in SUBSET Endpoint
  BY PoolSteps DEF stored, StoredTypeOK
<1>3. UNCHANGED pool /\ UNCHANGED aged => PoolTypeOK' /\ aged' \in SUBSET Endpoint
  BY PoolSteps DEF StoredTypeOK
<1>4. UNCHANGED backingOff => backingOff' \in SUBSET Endpoint
  BY DEF StoredTypeOK
<1>5. CASE CheckSuccess(c)
  <2>1. kp[c].e \in Endpoint
    BY <1>1, <1>5 DEF CheckSuccess
  <2>2. (Verified(kp[c].e) \/ UNCHANGED stored) /\ UNCHANGED backingOff
    BY <1>5 DEF CheckSuccess
  <2> QED
    BY <1>2, <1>4, <2>1, <2>2, PoolSteps DEF StoredTypeOK
<1>6. CASE CheckReloadError(c)
  <2>1. kp[c].e \in Endpoint
    BY <1>1, <1>6 DEF CheckReloadError
  <2>2. (Misplace(kp[c].e) \/ UNCHANGED pool) /\ UNCHANGED <<aged, backingOff>>
    BY <1>6 DEF CheckReloadError
  <2> QED
    BY <1>3, <1>4, <2>1, <2>2, PoolSteps DEF StoredTypeOK
<1>7. CASE CheckFailed(c)
  <2>1. kp[c].e \in Endpoint
    BY <1>1, <1>7 DEF CheckFailed
  <2>2. (Failed(kp[c].e) \/ UNCHANGED stored) /\ UNCHANGED backingOff
    BY <1>7 DEF CheckFailed
  <2> QED
    BY <1>2, <1>4, <2>1, <2>2, PoolSteps DEF StoredTypeOK
<1>8. CASE CheckStrike(c)
  <2>1. IpOf[kp[c].e] \in IP
    BY <1>1, <1>8 DEF CheckStrike
  <2>2. (LockOut(IpOf[kp[c].e]) \/ UNCHANGED pool) /\ UNCHANGED <<aged, backingOff>>
    BY <1>8 DEF CheckStrike
  <2> QED
    BY <1>3, <1>4, <2>1, <2>2, PoolSteps DEF StoredTypeOK
<1>9. CASE CheckClear(c)
  <2>1. UNCHANGED stored /\ backingOff' \subseteq backingOff
    BY <1>9 DEF CheckClear, ClearBackOff
  <2> QED
    BY <1>2, <2>1 DEF StoredTypeOK
<1>10. CASE CheckBackOff(c)
  <2>1. UNCHANGED stored /\ backingOff' = backingOff \cup {kp[c].e} /\ kp[c].e \in Endpoint
    BY <1>1, <1>10 DEF CheckBackOff, BackOff
  <2> QED
    BY <1>2, <2>1 DEF StoredTypeOK
<1>11. CASE \/ CheckReceive(c) \/ CheckLocked(c) \/ CheckSlot(c) \/ CheckProbe(c)
            \/ CheckDeep(c) \/ CheckLeaveSlot(c) \/ CheckRelease(c)
  <2>1. UNCHANGED stored /\ UNCHANGED backingOff
    BY <1>11 DEF CheckReceive, CheckLocked, CheckSlot, CheckProbe, CheckDeep,
                 CheckLeaveSlot, CheckRelease
  <2> QED
    BY <1>2, <1>4, <2>1 DEF StoredTypeOK
<1> QED
  BY <1>5, <1>6, <1>7, <1>8, <1>9, <1>10, <1>11 DEF Check

LEMMA CronKeepsStored ==
    ASSUME Cron
    PROVE  UNCHANGED <<stored, backingOff, validationSlots, checkers>>
  BY DEF Cron, CronStart, CronEnd, CronClaim, CronRefresh, CronSend, CronSent

LEMMA SameStored ==
    ASSUME StoredTypeOK, UNCHANGED <<stored, backingOff>>
    PROVE  StoredTypeOK'
  BY PoolSteps DEF stored, StoredTypeOK

LEMMA RoutineCoreStarts ==
    ASSUME RoutineInit
    PROVE  RoutineCore /\ \A c \in Checker : kpc[c] = "receive"
<1>1. RoutineLocals /\ \A c \in Checker : kpc[c] = "receive"
  BY DEF RoutineInit, RoutineLocals, CronLabels, CheckLabels
<1>2. VerifyJobOK /\ Len(Values(verifyJob)) = 0
  BY EmptyQueueIsFine, RoutineAssumption DEF RoutineInit, VerifyJobOK
<1>3. VerifyClaims
  BY <1>1, <1>2 DEF RoutineInit, VerifyClaims, CronHas, Busy
<1> QED
  BY <1>1, <1>2, <1>3 DEF RoutineCore

LEMMA RoutineStarts == RoutineStart => RoutineInv
<1> SUFFICES ASSUME RoutineStart
             PROVE  RoutineInv
  OBVIOUS
<1>1. /\ StoredTypeOK /\ validationSlots = AllFree /\ RoutineCore
      /\ \A c \in Checker : kpc[c] = "receive"
  BY StartsStored, RoutineCoreStarts DEF RoutineStart
<1>2. CheckerSlotsOK(Checker, {})
  <2>1. {c \in Checker : kpc[c] \in CheckSlotLabels} \cup {} = {}
    BY <1>1 DEF CheckSlotLabels
  <2> QED
    BY <1>1, <2>1, AllFreeIsFine, Capacities DEF CheckerSlotsOK, SharedBy
<1> QED
  BY <1>1, <1>2 DEF RoutineInv

LEMMA SameRoutine ==
    ASSUME RoutineCore, UNCHANGED routine
    PROVE  RoutineCore'
<1>1. UNCHANGED <<pendingVerify, verifyJob, cpc, clist, cp, kpc, kp>>
  BY DEF routine, cron, checkers
<1> QED
  BY <1>1 DEF RoutineCore, RoutineLocals, VerifyJobOK, VerifyClaims, CronHas, Busy

LEMMA RoutineSteps == RoutineInv /\ [RoutineNext]_routineVars => RoutineInv'
<1> SUFFICES ASSUME RoutineInv, [RoutineNext]_routineVars
             PROVE  RoutineInv'
  OBVIOUS
<1>0. StoredTypeOK /\ RoutineCore /\ RoutineLocals /\ CheckerSlotsOK(Checker, {})
  BY DEF RoutineInv, RoutineCore
<1>1. ASSUME UNCHANGED <<validationSlots, checkers>>
      PROVE  CheckerSlotsOK(Checker, {})'
  BY <1>0, <1>1 DEF CheckerSlotsOK, ValidationCapacity, checkers
<1>2. CASE Cron
  <2>1. StoredTypeOK' /\ UNCHANGED <<validationSlots, checkers>>
    BY <1>0, <1>2, CronKeepsStored, SameStored
  <2>2. RoutineCore'
    BY <1>0, <1>2, CronKeepsCore
  <2> QED
    BY <1>1, <2>1, <2>2 DEF RoutineInv
<1>3. ASSUME NEW c \in Checker, Check(c)
      PROVE  RoutineInv'
  <2>1. StoredTypeOK'
    BY <1>0, <1>3, CheckKeepsStored
  <2>2. RoutineCore'
    BY <1>0, <1>3, CheckKeepsCore
  <2>3. CheckerSlotsOK(Checker, {})'
    BY <1>0, <1>3, CheckKeepsSlots
  <2> QED
    BY <2>1, <2>2, <2>3 DEF RoutineInv
<1>4. ASSUME UNCHANGED <<validationSlots, routine>>, StoredTypeOK'
      PROVE  RoutineInv'
  <2>1. RoutineCore' /\ UNCHANGED <<validationSlots, checkers>>
    BY <1>0, <1>4, SameRoutine DEF routine
  <2> QED
    BY <1>1, <1>4, <2>1 DEF RoutineInv
<1>5. CASE RoutineSurroundings
  <2>1. ASSUME NEW e \in Endpoint, CandidateAccepted(e)
        PROVE  StoredTypeOK'
    BY <1>0, <2>1, PoolSteps DEF CandidateAccepted, StoredTypeOK
  <2>2. StoredTypeOK'
    BY <1>0, <1>5, <2>1, SurroundingsKeepStored DEF RoutineSurroundings
  <2> QED
    BY <1>4, <1>5, <2>2 DEF RoutineSurroundings
<1>6. CASE UNCHANGED routineVars
  <2>1. UNCHANGED <<validationSlots, routine>> /\ StoredTypeOK'
    BY <1>0, <1>6, SameStored DEF routineVars
  <2> QED
    BY <1>4, <2>1
<1> QED
  BY <1>2, <1>3, <1>5, <1>6 DEF RoutineNext

LEMMA RoutineInvariant == RoutineSpec => []RoutineInv
<1>1. RoutineStart => RoutineInv
  BY RoutineStarts
<1>2. RoutineInv /\ [RoutineNext]_routineVars => RoutineInv'
  BY RoutineSteps
<1> QED
  BY <1>1, <1>2, PTL DEF RoutineSpec

\* Every variable of the routine checks has its type, and verifyJob never holds more
\* than its capacity.
THEOREM RoutineTypeCorrect == RoutineSpec => []RoutineTypeOK
<1>1. RoutineInv => RoutineTypeOK
  <2> SUFFICES ASSUME RoutineInv
               PROVE  RoutineTypeOK
    OBVIOUS
  <2>1. StoredTypeOK /\ RoutineLocals /\ VerifyJobOK
    BY DEF RoutineInv, RoutineCore
  <2>2. validationSlots \in Semaphores(Checker)
    BY DEF RoutineInv, CheckerSlotsOK, SharedBy, UsedBy
  <2> QED
    BY <2>1, <2>2 DEF RoutineTypeOK, StoredTypeOK, RoutineLocals, VerifyJobOK, Buffered
<1> QED
  BY <1>1, RoutineInvariant, PTL

LEMMA ClaimsOwned ==
    ASSUME RoutineCore
    PROVE  ClaimsAreOwned
<1> SUFFICES ASSUME NEW e \in Endpoint
             PROVE  Cardinality(Claimants(e)) = IF e \in pendingVerify THEN 1 ELSE 0
  BY DEF ClaimsAreOwned
<1> DEFINE J == Values(verifyJob)
           job == {x \in {0} : CronHas /\ cp.e = e}
           places == {i \in 1 .. Len(J) : J[i].e = e}
           busy == {c \in Checker : Busy(c) /\ kp[c].e = e}
<1>1. Claimants(e) = job \cup places \cup busy
  BY DEF Claimants, CronHas, Busy
<1>2. /\ \A x, y \in job : x = y
      /\ \A i, j \in places : i = j
      /\ \A c, d \in busy : c = d
      /\ job # {} => places = {} /\ busy = {} /\ e \in pendingVerify
      /\ places # {} => busy = {} /\ e \in pendingVerify
      /\ busy # {} => e \in pendingVerify
      /\ e \in pendingVerify => job # {} \/ places # {} \/ busy # {}
  <2>1. /\ job # {} <=> CronHas /\ cp.e = e
        /\ \A x, y \in job : x = y
    OBVIOUS
  <2>2. VerifyClaims
    BY DEF RoutineCore
  <2> HIDE DEF job
  <2> QED
    BY <2>1, <2>2 DEF VerifyClaims
<1> HIDE DEF job, places, busy
<1>3. CASE e \in pendingVerify
  <2>1. PICK x : x \in Claimants(e)
    BY <1>1, <1>2, <1>3
  <2>2. Claimants(e) = {x}
    BY <1>1, <1>2, <2>1
  <2> QED
    BY <1>3, <2>2, FS_Singleton
<1>4. CASE e \notin pendingVerify
  <2>1. Claimants(e) = {}
    BY <1>1, <1>2, <1>4
  <2> QED
    BY <1>4, <2>1, FS_EmptySet
<1> QED
  BY <1>3, <1>4

\* Every claim of the routine checks has exactly one owner, who will release it, and
\* nothing is checked without one (verify.go:128-142, 155-157).
THEOREM ClaimsAlwaysOwned == RoutineSpec => []ClaimsAreOwned
<1>1. RoutineInv => ClaimsAreOwned
  BY ClaimsOwned DEF RoutineInv
<1> QED
  BY <1>1, RoutineInvariant, PTL

-----------------------------------------------------------------------------
(* Both loops together *)

Goroutines == Validator \cup Checker
ValidatorUsers == {v \in Validator : vpc[v] \in SlotLabels}
CheckerUsers == {c \in Checker : kpc[c] \in CheckSlotLabels}

\* To each loop, the users of validationSlots the other one has are just others.
SharedSlotsOK ==
    /\ ValidatorSlotsOK(Goroutines, CheckerUsers)
    /\ CheckerSlotsOK(Goroutines, ValidatorUsers)

VerificationInv ==
    /\ StoredTypeOK
    /\ AdmissionCore /\ CandidateSlotsOK
    /\ RoutineCore
    /\ SharedSlotsOK

LEMMA Disjoint ==
    /\ Validator \subseteq Goroutines /\ Checker \subseteq Goroutines
    /\ Validator \cap CheckerUsers = {} /\ Checker \cap ValidatorUsers = {}
  BY GoroutinesAssumption DEF Goroutines, CheckerUsers, ValidatorUsers

LEMMA ValidateKeepsShared ==
    ASSUME AdmissionLocals, SharedSlotsOK, NEW v \in Validator, Validate(v),
           UNCHANGED routine
    PROVE  SharedSlotsOK'
<1>1. PICK others : others = CheckerUsers
  OBVIOUS
<1>2. UNCHANGED kpc /\ CheckerUsers' = others
  BY <1>1 DEF routine, checkers, CheckerUsers
<1>3. /\ ValidatorSlotsOK(Goroutines, others)'
      /\ \A x : x # v /\ Waits(validationSlots', x) => Waits(validationSlots, x)
  BY <1>1, Disjoint, ValidateKeepsSlots DEF SharedSlotsOK
<1>4. /\ \A c \in Checker : Waits(validationSlots, c) => kpc[c] = "slot"
      /\ v \notin Checker
  BY GoroutinesAssumption DEF SharedSlotsOK, CheckerSlotsOK, SharedBy
<1>5. UsedBy(validationSlots', ValidationCapacity, Goroutines, ValidatorUsers' \cup others)
  BY <1>3 DEF ValidatorSlotsOK, SharedBy, ValidatorUsers, ValidationCapacity, Goroutines
<1>6. CheckerUsers' \cup ValidatorUsers' = ValidatorUsers' \cup others
  BY <1>2
<1>7. CheckerSlotsOK(Goroutines, ValidatorUsers)'
  <2>1. UsedBy(validationSlots', ValidationCapacity, Goroutines,
               CheckerUsers' \cup ValidatorUsers')
    BY <1>5, <1>6
  <2> QED
    BY <1>2, <1>3, <1>4, <2>1
       DEF CheckerSlotsOK, SharedBy, CheckerUsers, ValidationCapacity, Goroutines
<1> QED
  BY <1>2, <1>3, <1>7 DEF SharedSlotsOK

LEMMA CheckKeepsShared ==
    ASSUME RoutineLocals, SharedSlotsOK, NEW c \in Checker, Check(c),
           UNCHANGED admission
    PROVE  SharedSlotsOK'
<1>1. PICK others : others = ValidatorUsers
  OBVIOUS
<1>2. UNCHANGED vpc /\ ValidatorUsers' = others
  BY <1>1 DEF admission, validators, ValidatorUsers
<1>3. /\ CheckerSlotsOK(Goroutines, others)'
      /\ \A x : x # c /\ Waits(validationSlots', x) => Waits(validationSlots, x)
  BY <1>1, Disjoint, CheckKeepsSlots DEF SharedSlotsOK
<1>4. /\ \A v \in Validator : Waits(validationSlots, v) => vpc[v] = "slot"
      /\ c \notin Validator
  BY GoroutinesAssumption DEF SharedSlotsOK, ValidatorSlotsOK, SharedBy
<1>5. UsedBy(validationSlots', ValidationCapacity, Goroutines, CheckerUsers' \cup others)
  BY <1>3 DEF CheckerSlotsOK, SharedBy, CheckerUsers, ValidationCapacity, Goroutines
<1>6. ValidatorUsers' \cup CheckerUsers' = CheckerUsers' \cup others
  BY <1>2
<1>7. ValidatorSlotsOK(Goroutines, CheckerUsers)'
  <2>1. UsedBy(validationSlots', ValidationCapacity, Goroutines,
               ValidatorUsers' \cup CheckerUsers')
    BY <1>5, <1>6
  <2> QED
    BY <1>2, <1>3, <1>4, <2>1
       DEF ValidatorSlotsOK, SharedBy, ValidatorUsers, ValidationCapacity, Goroutines
<1> QED
  BY <1>2, <1>3, <1>7 DEF SharedSlotsOK

LEMMA SameShared ==
    ASSUME SharedSlotsOK, UNCHANGED <<validationSlots, vpc, kpc>>
    PROVE  SharedSlotsOK'
<1>1. ValidatorUsers' = ValidatorUsers /\ CheckerUsers' = CheckerUsers
  BY DEF ValidatorUsers, CheckerUsers
<1> QED
  BY <1>1
     DEF SharedSlotsOK, ValidatorSlotsOK, CheckerSlotsOK, ValidationCapacity, Goroutines

LEMMA SameAdmission ==
    ASSUME AdmissionCore, CandidateSlotsOK, UNCHANGED admission
    PROVE  AdmissionCore' /\ CandidateSlotsOK' /\ UNCHANGED vpc
<1>1. UNCHANGED <<queued, pending, jobs, candidateSlots, fpc, fe, fn, vpc, ve>>
  BY DEF admission, keys, fetchers, validators
<1>2. AdmissionCore'
  BY <1>1 DEF AdmissionCore, AdmissionLocals, JobsOK, PendingKeys, QueuedKeys, Owns, Carries
<1> QED
  BY <1>1, <1>2 DEF CandidateSlotsOK, CandidateCapacity

LEMMA VerificationStarts == VerificationInit => VerificationInv
<1> SUFFICES ASSUME VerificationInit
             PROVE  VerificationInv
  OBVIOUS
<1>1. /\ StoredTypeOK /\ validationSlots = AllFree
      /\ AdmissionCore /\ CandidateSlotsOK /\ RoutineCore
      /\ \A v \in Validator : vpc[v] = "receive"
      /\ \A c \in Checker : kpc[c] = "receive"
  BY StartsStored, StartsCore, RoutineCoreStarts DEF VerificationInit
<1>2. ValidatorUsers \cup CheckerUsers = {} /\ CheckerUsers \cup ValidatorUsers = {}
  BY <1>1 DEF ValidatorUsers, CheckerUsers, SlotLabels, CheckSlotLabels
<1>3. UsedBy(AllFree, ValidationCapacity, Goroutines, {}) /\ \A x : ~Waits(AllFree, x)
  BY AllFreeIsFine, Capacities
<1>4. SharedSlotsOK
  BY <1>1, <1>2, <1>3 DEF SharedSlotsOK, ValidatorSlotsOK, CheckerSlotsOK, SharedBy,
                          ValidatorUsers, CheckerUsers
<1> QED
  BY <1>1, <1>4 DEF VerificationInv

LEMMA VerificationSteps == VerificationInv /\ [VerificationNext]_allVars => VerificationInv'
<1> SUFFICES ASSUME VerificationInv, [VerificationNext]_allVars
             PROVE  VerificationInv'
  OBVIOUS
<1>0. /\ StoredTypeOK /\ AdmissionCore /\ AdmissionLocals /\ CandidateSlotsOK
      /\ RoutineCore /\ RoutineLocals /\ SharedSlotsOK
  BY DEF VerificationInv, AdmissionCore, RoutineCore
<1>1. ASSUME NEW f \in Fetcher, Fetch(f), UNCHANGED routine
      PROVE  VerificationInv'
  <2>1. StoredTypeOK' /\ UNCHANGED <<validationSlots, candidateSlots, vpc, ve>>
    BY <1>0, <1>1, FetchKeepsStored
  <2>2. AdmissionCore' /\ CandidateSlotsOK'
    BY <1>0, <1>1, <2>1, FetchKeepsCore DEF CandidateSlotsOK, CandidateCapacity
  <2>3. RoutineCore' /\ UNCHANGED kpc
    BY <1>0, <1>1, SameRoutine DEF routine, checkers
  <2>4. SharedSlotsOK'
    BY <1>0, <2>1, <2>3, SameShared
  <2> QED
    BY <2>1, <2>2, <2>3, <2>4 DEF VerificationInv
<1>2. ASSUME NEW v \in Validator, Validate(v), UNCHANGED routine
      PROVE  VerificationInv'
  <2>1. StoredTypeOK'
    BY <1>0, <1>2, ValidateKeepsStored
  <2>2. AdmissionCore' /\ CandidateSlotsOK'
    BY <1>0, <1>2, ValidateKeepsCore, ValidateKeepsCandidateSlots
  <2>3. RoutineCore'
    BY <1>0, <1>2, SameRoutine
  <2>4. SharedSlotsOK'
    BY <1>0, <1>2, ValidateKeepsShared
  <2> QED
    BY <2>1, <2>2, <2>3, <2>4 DEF VerificationInv
<1>3. ASSUME Cron, UNCHANGED admission
      PROVE  VerificationInv'
  <2>1. StoredTypeOK' /\ UNCHANGED <<validationSlots, kpc>>
    BY <1>0, <1>3, CronKeepsStored, SameStored DEF checkers
  <2>2. AdmissionCore' /\ CandidateSlotsOK' /\ UNCHANGED vpc
    BY <1>0, <1>3, SameAdmission
  <2>3. RoutineCore'
    BY <1>0, <1>3, CronKeepsCore
  <2>4. SharedSlotsOK'
    BY <1>0, <2>1, <2>2, SameShared
  <2> QED
    BY <2>1, <2>2, <2>3, <2>4 DEF VerificationInv
<1>4. ASSUME NEW c \in Checker, Check(c), UNCHANGED admission
      PROVE  VerificationInv'
  <2>1. StoredTypeOK'
    BY <1>0, <1>4, CheckKeepsStored
  <2>2. AdmissionCore' /\ CandidateSlotsOK'
    BY <1>0, <1>4, SameAdmission
  <2>3. RoutineCore'
    BY <1>0, <1>4, CheckKeepsCore
  <2>4. SharedSlotsOK'
    BY <1>0, <1>4, CheckKeepsShared
  <2> QED
    BY <2>1, <2>2, <2>3, <2>4 DEF VerificationInv
<1>5. ASSUME UNCHANGED <<validationSlots, loops>>, StoredTypeOK'
      PROVE  VerificationInv'
  <2>1. AdmissionCore' /\ CandidateSlotsOK' /\ UNCHANGED vpc
    BY <1>0, <1>5, SameAdmission DEF loops
  <2>2. RoutineCore' /\ UNCHANGED kpc
    BY <1>0, <1>5, SameRoutine DEF loops, routine, checkers
  <2>3. SharedSlotsOK'
    BY <1>0, <1>5, <2>1, <2>2, SameShared
  <2> QED
    BY <1>5, <2>1, <2>2, <2>3 DEF VerificationInv
<1>6. CASE AllSurroundings
  BY <1>0, <1>5, <1>6, SurroundingsKeepStored DEF AllSurroundings
<1>7. CASE UNCHANGED allVars
  <2>1. UNCHANGED <<validationSlots, loops>> /\ StoredTypeOK'
    BY <1>0, <1>7, SameStored DEF allVars
  <2> QED
    BY <1>5, <2>1
<1> QED
  BY <1>1, <1>2, <1>3, <1>4, <1>6, <1>7 DEF VerificationNext

LEMMA VerificationInvariant == VerificationSpec => []VerificationInv
<1>1. VerificationInit => VerificationInv
  BY VerificationStarts
<1>2. VerificationInv /\ [VerificationNext]_allVars => VerificationInv'
  BY VerificationSteps
<1> QED
  BY <1>1, <1>2, PTL DEF VerificationSpec

\* With both loops at work, the slots taken are exactly those of the network checks
\* under way, no more than there are, and nobody waits while one is free
\* (verify.go:68-94, 164-167; crawler.go:222-228).
THEOREM SlotsAlwaysAccounted == VerificationSpec => []SlotsAreAccounted
<1>1. VerificationInv => SlotsAreAccounted
  <2> SUFFICES ASSUME VerificationInv
               PROVE  SlotsAreAccounted
    OBVIOUS
  <2> DEFINE U == ValidatorUsers \cup CheckerUsers
             held == {u \in U : ~Waits(validationSlots, u)}
             V == {v \in Validator : InSlot(v)}
             C == {c \in Checker : CheckerInSlot(c)}
  <2>1. /\ UsedBy(validationSlots, Workers, Goroutines, U)
        /\ \A v \in Validator : Waits(validationSlots, v) => vpc[v] = "slot"
        /\ \A c \in Checker : Waits(validationSlots, c) => kpc[c] = "slot"
    BY Capacities DEF VerificationInv, SharedSlotsOK, ValidatorSlotsOK, CheckerSlotsOK,
                      SharedBy, ValidatorUsers
  <2>2. /\ IsFiniteSet(held) /\ validationSlots.taken = Cardinality(held)
        /\ validationSlots.taken <= Workers
        /\ validationSlots.line # << >> => validationSlots.taken = Workers
    <3>1. Workers \in Nat
      BY WorkersAssumption
    <3> HIDE DEF U, V, C
    <3> QED
      BY <2>1, <3>1, Slots
  <2>3. held = V \cup C
    <3>1. \A v \in Validator :
             InSlot(v) <=> vpc[v] \in SlotLabels /\ ~Waits(validationSlots, v)
      BY <2>1 DEF InSlot, SlotLabels
    <3>2. \A c \in Checker :
             CheckerInSlot(c) <=> kpc[c] \in CheckSlotLabels /\ ~Waits(validationSlots, c)
      BY <2>1 DEF CheckerInSlot, CheckSlotLabels
    <3>3. V = {v \in ValidatorUsers : ~Waits(validationSlots, v)}
      BY <3>1 DEF ValidatorUsers
    <3>4. C = {c \in CheckerUsers : ~Waits(validationSlots, c)}
      BY <3>2 DEF CheckerUsers
    <3> HIDE DEF V, C
    <3> QED
      BY <3>3, <3>4
  <2>4. V \cap C = {}
    BY GoroutinesAssumption
  <2> HIDE DEF U, held, V, C
  <2>5. IsFiniteSet(V) /\ IsFiniteSet(C)
    BY <2>2, <2>3, FS_Subset
  <2>6. Cardinality(held) = Cardinality(V) + Cardinality(C)
    <3>1. Cardinality(V \cup C) = Cardinality(V) + Cardinality(C) - Cardinality({})
      BY <2>4, <2>5, FS_Union
    <3>2. /\ Cardinality({}) = 0 /\ Cardinality(V) \in Nat /\ Cardinality(C) \in Nat
      BY <2>5, FS_EmptySet, FS_CardinalityType
    <3> QED
      BY <2>3, <3>1, <3>2
  <2> QED
    BY <2>2, <2>6 DEF SlotsAreAccounted, V, C
<1> QED
  BY <1>1, VerificationInvariant, PTL

\* The loops keep their own promises in each other's presence too: the claims of both
\* are exact, and candidates spare the reserve (crawler.go:189-205, verify.go:54-66,
\* 128-142).
THEOREM BothLoopsKeepTheirClaims ==
    VerificationSpec => [](ClaimsAreExact /\ ClaimsAreOwned /\ ReserveIsSpared)
<1>1. VerificationInv => ClaimsAreExact /\ ClaimsAreOwned /\ ReserveIsSpared
  BY ClaimsExact, ClaimsOwned, ReserveSpared DEF VerificationInv
<1> QED
  BY <1>1, VerificationInvariant, PTL
=============================================================================
