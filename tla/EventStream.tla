---------------------------- MODULE EventStream ----------------------------
(***************************************************************************)
(* What the push side of the server promises one room's clients            *)
(* (internal/sse/hub.go: "The store, not the hub, is the source of truth.  *)
(* Anything the ring cannot replay is answered with a reset").             *)
(*                                                                         *)
(* Events are numbered in the order they are published.  A client that has *)
(* received one event then receives the next ones in order, with no gap    *)
(* but the events it is not entitled to, whatever happens to connections,  *)
(* to the process and to the replay ring; where that is impossible it is   *)
(* told, by a reset, up to where it must refetch.  Before its first event  *)
(* a client has no cursor and nothing is promised.                         *)
(***************************************************************************)
EXTENDS Naturals

CONSTANT Clients

VARIABLES
    len,       \* events published so far
    hidden,    \* the events among them that need an entitlement
    open,      \* clients with an EventSource
    known,     \* clients that have received an event since they opened
    pos,       \* pos[c]: the last event client c accounts for
    resets     \* resets[c]: how many resets client c was sent

vars == <<len, hidden, open, known, pos, resets>>

Init ==
    /\ len = 0 /\ hidden = {}
    /\ open = {} /\ known = {}
    /\ pos = [c \in Clients |-> 0]
    /\ resets = [c \in Clients |-> 0]

Publish ==
    /\ len' = len + 1
    /\ hidden' \in {hidden, hidden \cup {len + 1}}
    /\ UNCHANGED <<open, known, pos, resets>>

\* A new EventSource: the client reads the state by REST, then listens.
Join(c) ==
    /\ c \notin open
    /\ open' = open \cup {c}
    /\ pos' = [pos EXCEPT ![c] = len]
    /\ UNCHANGED <<len, hidden, known, resets>>

Leave(c) ==
    /\ c \in open
    /\ open' = open \ {c} /\ known' = known \ {c}
    /\ UNCHANGED <<len, hidden, pos, resets>>

\* An event reaches c: the next one it may see (the next ones it may not are
\* passed over), unless c has no cursor yet.
Deliver(c) ==
    /\ c \in open
    /\ \E k \in pos[c] + 1..len :
        /\ c \in known => (pos[c] + 1..k - 1) \subseteq hidden
        /\ pos' = [pos EXCEPT ![c] = k]
    /\ known' = known \cup {c}
    /\ UNCHANGED <<len, hidden, open, resets>>

\* c is told to refetch: what it then reads covers at least the events up to k.
Reset(c) ==
    /\ c \in known
    /\ \E k \in pos[c]..len : pos' = [pos EXCEPT ![c] = k]
    /\ resets' = [resets EXCEPT ![c] = @ + 1]
    /\ UNCHANGED <<len, hidden, open, known>>

Next == Publish \/ \E c \in Clients : Join(c) \/ Leave(c) \/ Deliver(c) \/ Reset(c)

Spec == Init /\ [][Next]_vars
=============================================================================
