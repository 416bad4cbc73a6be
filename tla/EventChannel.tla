---------------------------- MODULE EventChannel ----------------------------
(***************************************************************************)
(* What libvoyeur promises to the callbacks of the observer, whatever the  *)
(* sockets, the select() loop and the scan order do: each connection is a  *)
(* queue of events that is delivered once, in order and without gaps; the  *)
(* first event of a connection comes after the first event of every        *)
(* connection that had reported one before it was made; and once the       *)
(* server is over no callback is made.                                     *)
(***************************************************************************)
EXTENDS Integers, Sequences, FiniteSets

CONSTANTS
    Writers,     \* the connections, named by the writers that open them
    MayLose      \* a connection may be given up before the server is over

VARIABLES
    posted,      \* per connection: events sent in full
    seen,        \* per connection: those that had posted when it was made
    log,         \* the callbacks: <<connection, number>>
    lost,        \* connections given up with something unread
    over         \* the server has stopped

chan == <<posted, seen, log, lost, over>>

Delivered(w) == Cardinality({i \in DOMAIN log : log[i][1] = w})

Init ==
    /\ posted = [w \in Writers |-> 0]
    /\ seen = [w \in Writers |-> {}]
    /\ log = <<>>
    /\ lost = {}
    /\ over = FALSE

Connect(w) ==
    /\ posted[w] = 0
    /\ seen' = [seen EXCEPT ![w] = {d \in Writers : posted[d] > 0}]
    /\ UNCHANGED <<posted, log, lost, over>>

Post(w) ==
    /\ w \notin lost
    /\ posted' = [posted EXCEPT ![w] = @ + 1]
    /\ UNCHANGED <<seen, log, lost, over>>

Deliver(w) ==
    /\ ~over
    /\ w \notin lost
    /\ Delivered(w) < posted[w]
    /\ \A d \in seen[w] : Delivered(d) > 0 \/ d \in lost
    /\ log' = Append(log, <<w, Delivered(w) + 1>>)
    /\ UNCHANGED <<posted, seen, lost, over>>

Lose ==
    /\ over \/ MayLose
    /\ \E more \in SUBSET Writers : lost' = lost \cup more
    /\ UNCHANGED <<posted, seen, log, over>>

Stop ==
    /\ over' = TRUE
    /\ UNCHANGED <<posted, seen, log, lost>>

Next ==
    \/ \E w \in Writers : Connect(w) \/ Post(w) \/ Deliver(w)
    \/ Lose
    \/ Stop

Spec == Init /\ [][Next]_chan
=============================================================================
