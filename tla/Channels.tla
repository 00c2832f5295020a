------------------------------ MODULE Channels ------------------------------
(***************************************************************************)
(* Buffered Go channels, as the crawler uses them: as queues of jobs and,  *)
(* holding empty structs, as counting semaphores.  A sender into a full    *)
(* channel waits in the channel's line; a receive frees a place, which     *)
(* goes to the first in line (chansend and chanrecv of the Go runtime).    *)
(***************************************************************************)
EXTENDS Integers, Sequences, FiniteSets

-----------------------------------------------------------------------------
(* Queues: the buffered values, and the blocked senders with theirs. *)

EmptyQueue == [buffer |-> << >>, line |-> << >>]

Queues(G, V) == [buffer : Seq(V), line : Seq([by : G, value : V])]

Send(q, capacity, g, v) ==
    IF Len(q.buffer) < capacity
    THEN [q EXCEPT !.buffer = Append(@, v)]
    ELSE [q EXCEPT !.line = Append(@, [by |-> g, value |-> v])]

\* Goroutine g is still blocked in its send.
Blocked(q, g) == \E i \in 1 .. Len(q.line) : q.line[i].by = g

Receive(q) ==
    IF q.line = << >>
    THEN [q EXCEPT !.buffer = Tail(@)]
    ELSE [buffer |-> Append(Tail(q.buffer), Head(q.line).value),
          line |-> Tail(q.line)]

\* The values in the channel, those of blocked senders included.
Values(q) == q.buffer \o [i \in 1 .. Len(q.line) |-> q.line[i].value]

-----------------------------------------------------------------------------
(* Semaphores: how many slots are taken, and who waits for one. *)

AllFree == [taken |-> 0, line |-> << >>]

Semaphores(G) == [taken : Nat, line : Seq(G)]

Enter(s, capacity, g) ==
    IF s.taken < capacity
    THEN [s EXCEPT !.taken = @ + 1]
    ELSE [s EXCEPT !.line = Append(@, g)]

\* Goroutine g is still blocked in Enter.
Waits(s, g) == \E i \in 1 .. Len(s.line) : s.line[i] = g

\* The slot goes to the first in line.
Leave(s) ==
    IF s.line = << >> THEN [s EXCEPT !.taken = @ - 1] ELSE [s EXCEPT !.line = Tail(@)]
=============================================================================
