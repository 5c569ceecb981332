---------------------------- MODULE MCRoomAndHub ----------------------------
(***************************************************************************)
(* Three parts of the server that share no state: the room that applies a  *)
(* board's patches (BoardRoom), the hub that carries its frames (SseHub)   *)
(* and the cache before the GraphQL gateway (CoalescingCache).  A          *)
(* behaviour is about the one named by part; the others stand still.       *)
(* BoardSync composes the room with what the hub promises.                 *)
(***************************************************************************)
EXTENDS BoardRoom, SseHub

CONSTANTS Keys, Size, Callers, KeyOf, IsFresh, Deadline, TTL, LeaderTimeout,
          MaxEntries, MaxBytes, MaxWrites                  \* of CoalescingCache
VARIABLES part, truth, seen, writing, lru, bytes, flight, pc, answer, floor

Cache == INSTANCE CoalescingCache
cacheVars == <<truth, seen, writing, lru, bytes, flight, pc, answer, floor>>

\* An arrow is bound to the shape by either value.
MCEnds == [x \in {"u", "v"} |-> {"shape"}]
\* Two keys that do not both fit, and calls that coalesce on one of them.
MCSize     == [k \in {"k1", "k2"} |-> 1]
MCKeyOf    == <<"k1", "k1", "k2">>
MCDeadline == <<1, 2, 2>>

RoomAndHubInit == part \in {"hub", "room", "cache"} /\ Init /\ RoomInit /\ Cache!Init
HubStep   == part = "hub" /\ Next /\ UNCHANGED <<roomVars, cacheVars, part>>
RoomStep  == part = "room" /\ RoomNext /\ UNCHANGED <<vars, cacheVars, part>>
CacheStep == part = "cache" /\ Cache!Next /\ UNCHANGED <<roomVars, vars, part>>

\* The fairness is that of the hub's FairSpec.
RoomAndHubSpec ==
  /\ RoomAndHubInit /\ [][HubStep \/ RoomStep \/ CacheStep]_<<vars, roomVars, cacheVars, part>>
  /\ \A c \in Tabs : /\ WF_vars(part = "hub" /\ Reconnect(c))
                     /\ WF_vars(part = "hub" /\ Deliver(c))
                     /\ WF_vars(part = "hub" /\ Quit(c))

\* How old the cache's answers are, see CoalescingCache.
FreshEnough == Cache!FreshEnough
=============================================================================
