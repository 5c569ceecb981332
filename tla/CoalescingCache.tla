-------------------------- MODULE CoalescingCache --------------------------
(***************************************************************************)
(* The coalescing cache in front of the GraphQL gateway                    *)
(* (internal/apsbudget/coalesce.go, used by api/client.go gqlQueryAt): a   *)
(* singleflight per key and a short-lived LRU.                             *)
(*                                                                         *)
(* A leader reads the gateway at some moment of its flight, stores what it *)
(* read under c.mu, and only then ends the flight under the singleflight's *)
(* own lock: three steps, which hits, joins, writes and invalidations of   *)
(* the same key interleave with.  Values are versions: how often the data  *)
(* behind a key had been written when it was read.  Time is in ticks: age  *)
(* is the time since a value was read, left what remains of a deadline.    *)
(***************************************************************************)
EXTENDS Naturals, Sequences, FiniteSets, SequencesExt, FiniteSetsExt

CONSTANTS
    Keys,           \* coalescing keys, each built for one subject
    Size,           \* Size[k]: the weight of an answer to k
    Callers,        \* the calls of Do in a behaviour
    KeyOf,          \* KeyOf[c]: the key call c asks for
    IsFresh,        \* the calls whose context is marked WithFresh
    Deadline,       \* Deadline[c]: what is left of c's deadline when it calls
    TTL,            \* the operation's CacheTTL, positive
    LeaderTimeout,  \* 30 seconds
    MaxEntries, MaxBytes,
    MaxWrites       \* bound: writes to the data behind one key

VARIABLES
    truth,     \* truth[k]: the version of the data behind k, at the gateway
    seen,      \* seen[k]: the version its author's writes are invalidated up to
    writing,   \* keys whose author wrote and has not invalidated yet
    lru,       \* the entries, most recently used first
    bytes,     \* Cache.bytes
    flight,    \* flight[k]: the fetch in progress for k
    pc,        \* pc[c]: "idle", "waiting", "answered", "failed" or "cancelled"
    answer,    \* answer[c]: version and age of what call c was given
    floor      \* floor[c]: seen[KeyOf[c]] when c called

vars == <<truth, seen, writing, lru, bytes, flight, pc, answer, floor>>

NoFlight == [pc |-> "none", val |-> 0, age |-> 0, left |-> 0]
NoAnswer == [val |-> 0, age |-> 0]
MaxAge == TTL + LeaderTimeout + 1

Init ==
    /\ truth = [k \in Keys |-> 0] /\ seen = [k \in Keys |-> 0] /\ writing = {}
    /\ lru = <<>> /\ bytes = 0
    /\ flight = [k \in Keys |-> NoFlight]
    /\ pc = [c \in Callers |-> "idle"]
    /\ answer = [c \in Callers |-> NoAnswer]
    /\ floor = [c \in Callers |-> 0]

-----------------------------------------------------------------------------
(* The LRU, under c.mu.                                                    *)

Least(a, b) == IF a <= b THEN a ELSE b
Cached(k) == {i \in 1..Len(lru) : lru[i].key = k}
\* Each key is there once: the index has its one element.
Without(l, k) ==
    IF \A i \in 1..Len(l) : l[i].key # k THEN l
    ELSE LET i == CHOOSE n \in 1..Len(l) : l[n].key = k
         IN  SubSeq(l, 1, i - 1) \o SubSeq(l, i + 1, Len(l))
Weight(l) == FoldLeft(LAMBDA sum, e : sum + Size[e.key], 0, l)

\* removeLocked of every entry of lru that l no longer has.
Keep(l) == lru' = l /\ bytes' = bytes - (Weight(lru) - Weight(l))

\* put: the entry replaces the key's old one; the least recent ones go until
\* the rest fits.
Fits(l, n) == n <= MaxEntries /\ Weight(SubSeq(l, 1, n)) <= MaxBytes

Put(k, val, age) ==
    LET rest  == Without(lru, k)
        added == <<[key |-> k, val |-> val, age |-> age, left |-> TTL]>> \o rest
    IN  IF 32 * Size[k] > MaxBytes THEN UNCHANGED <<lru, bytes>>
        ELSE \E n \in 0..Len(added) :
                /\ Fits(added, n) /\ \A m \in (n + 1)..Len(added) : ~Fits(added, m)
                /\ lru' = SubSeq(added, 1, n)
                /\ bytes' = bytes - (Weight(lru) - Weight(rest)) + Size[k]
                            - (Weight(added) - Weight(lru'))

-----------------------------------------------------------------------------
(* Do.                                                                     *)

\* get: a fresh entry is a hit and moves to the front.
Hit_IgnoreExpiry(c, i) ==
    /\ lru' = <<lru[i]>> \o Without(lru, KeyOf[c])
    /\ answer' = [answer EXCEPT ![c] = [val |-> lru[i].val, age |-> lru[i].age]]
    /\ pc' = [pc EXCEPT ![c] = "answered"]
    /\ UNCHANGED <<bytes, flight>>
Hit(c, i) ==
    /\ lru[i].left > 0
    /\ lru' = <<lru[i]>> \o Without(lru, KeyOf[c])
    /\ answer' = [answer EXCEPT ![c] = [val |-> lru[i].val, age |-> lru[i].age]]
    /\ pc' = [pc EXCEPT ![c] = "answered"]
    /\ UNCHANGED <<bytes, flight>>

\* DoChan: join the flight of the key, or start it as its leader.
Join(c) ==
    LET k == KeyOf[c]
    IN  /\ pc' = [pc EXCEPT ![c] = "waiting"]
        /\ flight' = IF flight[k].pc # "none" THEN flight
                     ELSE [flight EXCEPT ![k] = [pc |-> "fetching", val |-> 0, age |-> 0,
                                                 left |-> Least(LeaderTimeout, Deadline[c])]]
        /\ UNCHANGED answer

\* A miss: an expired entry is removed on the way; WithFresh does not look.
Miss(c) ==
    /\ \/ c \in IsFresh /\ UNCHANGED <<lru, bytes>>
       \/ /\ c \notin IsFresh
          /\ \A i \in Cached(KeyOf[c]) : lru[i].left = 0
          /\ Keep(Without(lru, KeyOf[c]))
    /\ Join(c)

Do(c) ==
    /\ pc[c] = "idle"
    /\ floor' = [floor EXCEPT ![c] = seen[KeyOf[c]]]
    /\ \/ c \notin IsFresh /\ \E i \in Cached(KeyOf[c]) : Hit(c, i)
       \/ Miss(c)
    /\ UNCHANGED <<truth, seen, writing>>

\* The caller's own context ends; the flight goes on without it.
Cancel(c) ==
    /\ pc[c] = "waiting"
    /\ pc' = [pc EXCEPT ![c] = "cancelled"]
    /\ UNCHANGED <<truth, seen, writing, lru, bytes, flight, answer, floor>>

-----------------------------------------------------------------------------
(* The leader.                                                             *)

\* The gateway evaluates the query.
Read(k) ==
    /\ flight[k].pc = "fetching"
    /\ flight' = [flight EXCEPT ![k] = [flight[k] EXCEPT !.pc = "read", !.val = truth[k], !.age = 0]]
    /\ UNCHANGED <<truth, seen, writing, lru, bytes, pc, answer, floor>>

\* Its answer arrives and is stored.
Store(k) ==
    /\ flight[k].pc = "read"
    /\ Put(k, flight[k].val, flight[k].age)
    /\ flight' = [flight EXCEPT ![k].pc = "stored"]
    /\ UNCHANGED <<truth, seen, writing, pc, answer, floor>>

Waiting(k) == {c \in Callers : KeyOf[c] = k /\ pc[c] = "waiting"}

\* The flight ends: everyone who joined it gets the same answer or error.
Finish_LeaderOnly(k) ==
    /\ flight[k].pc = "stored"
    /\ \E c \in Waiting(k) :
        /\ pc' = [pc EXCEPT ![c] = "answered"]
        /\ answer' = [answer EXCEPT ![c] = [val |-> flight[k].val, age |-> flight[k].age]]
    /\ flight' = [flight EXCEPT ![k] = NoFlight]
    /\ UNCHANGED <<truth, seen, writing, lru, bytes, floor>>
Finish(k) ==
    /\ flight[k].pc = "stored"
    /\ pc' = [c \in Callers |-> IF c \in Waiting(k) THEN "answered" ELSE pc[c]]
    /\ answer' = [c \in Callers |-> IF c \in Waiting(k)
                                    THEN [val |-> flight[k].val, age |-> flight[k].age]
                                    ELSE answer[c]]
    /\ flight' = [flight EXCEPT ![k] = NoFlight]
    /\ UNCHANGED <<truth, seen, writing, lru, bytes, floor>>

\* The fetch fails, or runs into the leader's timeout.  Nothing is stored.
Fail(k) ==
    /\ flight[k].pc \in {"fetching", "read"}
    /\ pc' = [c \in Callers |-> IF c \in Waiting(k) THEN "failed" ELSE pc[c]]
    /\ flight' = [flight EXCEPT ![k] = NoFlight]
    /\ UNCHANGED <<truth, seen, writing, lru, bytes, answer, floor>>

-----------------------------------------------------------------------------
(* The author of the data behind a key writes, then drops its answers.     *)

Write(k) ==
    /\ MapThenSumSet(LAMBDA j : truth[j], Keys) < MaxWrites /\ k \notin writing
    /\ truth' = [truth EXCEPT ![k] = @ + 1]
    /\ writing' = writing \cup {k}
    /\ UNCHANGED <<seen, lru, bytes, flight, pc, answer, floor>>

InvalidateSubject(k) ==
    /\ k \in writing
    /\ writing' = writing \ {k}
    /\ Keep(Without(lru, k))
    /\ seen' = [seen EXCEPT ![k] = truth[k]]
    /\ UNCHANGED <<truth, flight, pc, answer, floor>>

\* The clock moves.  A flight whose time is up fails first, and a stored
\* answer is handed over at once.
Older(r) == [r EXCEPT !.age = Least(MaxAge, @ + 1), !.left = IF @ = 0 THEN 0 ELSE @ - 1]
TimePasses ==
    /\ \A k \in Keys : flight[k].pc \in {"fetching", "read"} => flight[k].left > 0
    /\ \A k \in Keys : flight[k].pc # "stored"
    /\ lru' = [i \in 1..Len(lru) |-> Older(lru[i])]
    /\ flight' = [k \in Keys |-> IF flight[k].pc = "none" THEN NoFlight ELSE Older(flight[k])]
    /\ UNCHANGED <<truth, seen, writing, bytes, pc, answer, floor>>

Next ==
    \/ \E c \in Callers : Do(c) \/ Cancel(c)
    \/ \E k \in Keys : \/ Read(k) \/ Store(k) \/ Finish(k) \/ Fail(k)
                       \/ Write(k) \/ InvalidateSubject(k)
    \/ TimePasses

Spec == Init /\ [][Next]_vars

-----------------------------------------------------------------------------
(* Properties.                                                             *)

\* Type correctness; the limits; and bytes, kept by additions and
\* subtractions, is what the entries weigh, each key being there once.
TypeOK ==
    /\ truth \in [Keys -> 0..MaxWrites] /\ seen \in [Keys -> 0..MaxWrites]
    /\ pc \in [Callers -> {"idle", "waiting", "answered", "failed", "cancelled"}]
    /\ Len(lru) <= MaxEntries /\ bytes <= MaxBytes /\ bytes = Weight(lru)
    /\ \A i, j \in 1..Len(lru) : lru[i].key = lru[j].key => i = j

(***************************************************************************)
(* "NOT a stale-while-revalidate cache": whichever of hit, join and        *)
(* late-stored answer a call meets, what it is given was read from the     *)
(* gateway no longer ago than the TTL and one leader's timeout.            *)
(***************************************************************************)
FreshEnough == \A c \in Callers : answer[c].age <= TTL + LeaderTimeout

(***************************************************************************)
(* InvalidateSubject: "so the author of a write sees it on their next      *)
(* fetch".                                                                 *)
(***************************************************************************)
AuthorSeesWrite == \A c \in Callers : pc[c] = "answered" => answer[c].val >= floor[c]
=============================================================================
