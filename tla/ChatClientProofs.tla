-------------------------- MODULE ChatClientProofs --------------------------
(***************************************************************************)
(* Theorems about ChatClient, for any channels, messages, changes, fetches *)
(* and breaks of the stream.                                               *)
(*                                                                         *)
(* Whatever reaches a list says of a message what was so at some time      *)
(* (Says), and a message has one id and one number: so a row, the answer   *)
(* to its post, its frame and its place in a fetch name each other, and    *)
(* meet on one entry (Clean).  That nothing is missing on screen needs     *)
(* what a fetch under way has taken in (Covers) and what the list has been *)
(* told (Current).                                                         *)
(***************************************************************************)
EXTENDS ChatClient, FiniteSetTheorems, SequenceTheorems, WellFoundedInduction, TLAPS

Msgs   == [id : Nat, root : {0, Root}, stage : 0..2]
Rows   == [seq : 0..MaxMsgs, id : Nat, root : {0, Root}, stage : 0..2, replies : Nat, last : Nat]
Frames == [type : {"created", "updated", "deleted"}, c : Channels, m : Rows]
Fetches == [st : {"idle", "asked", "ready"}, snap : Seq(Rows), upto : Nat]

\* A row that says of a message of the log l what is, or was, so.
Says(l, m) == /\ m \in Rows /\ m.seq \in 1..Len(l)
              /\ m.id = l[m.seq].id /\ m.root = l[m.seq].root /\ m.stage <= l[m.seq].stage
\* The copy of the send w under way in channel c.
Copy(w, c, root, m) == m.seq = 0 /\ w.st # "none" /\ w.c = c /\ w.root = root /\ m.id = w.id

Distinct(q) == \A i, j \in 1..Len(q) : q[i].id = q[j].id => i = j
\* A list of channel c that a message lands on once: the timeline (root 0) or
\* the thread (root Root).
Listing(l, q, w, c, root) ==
    /\ Distinct(q)
    /\ \A i \in 1..Len(q) : \/ Says(l, q[i]) /\ (root = 0 => q[i].root = 0)
                            \/ Copy(w, c, root, q[i])
Holds(q, s, g) == \E j \in 1..Len(q) : q[j].seq = s /\ q[j].stage = g

\* A channel's log: the ids it has are its own, and among the first n.
LogOf(l, n) == /\ l \in Seq(Msgs) /\ Distinct(l)
               /\ \A i \in 1..Len(l) : l[i].id \in 1..n

\* 1 while a post is on its way that has no place in a log yet.
Coming(w) == IF w.st = "asked" THEN 1 ELSE 0

LogSound ==
    /\ used \in [ids : 0..MaxMsgs, changes : Nat, fetches : Nat, drops : Nat]
    /\ DOMAIN log = Channels
    /\ \A c \in Channels : /\ LogOf(log[c], used.ids)
                           /\ Len(log[c]) + Coming(send) <= used.ids
SendSound ==
    /\ send.st \in {"none", "asked", "served"}
    /\ send.st # "none" => /\ send.id \in 1..used.ids /\ send.c \in Channels
                           /\ send.root \in {0, Root}
    /\ send.st = "asked" => \A i \in 1..Len(log[send.c]) : log[send.c][i].id # send.id
    /\ send.st = "served" => /\ Says(log[send.c], send.m)
                             /\ send.m.id = send.id /\ send.m.root = send.root
ActSound ==
    /\ act.st \in {"none", "asked", "served"}
    /\ act.st # "none" => act.c \in Channels /\ act.stage \in 1..2
    /\ act.st = "served" => /\ Says(log[act.c], act.m)
                            /\ act.m.seq = act.s /\ act.m.stage = act.stage
FramesSound ==
    /\ frames \in Seq(Frames) /\ unpub \subseteq Frames
    /\ \A i \in 1..Len(frames) : Says(log[frames[i].c], frames[i].m)
    /\ \A f \in unpub : Says(log[f.c], f.m)
TabSound == at \in 0..Len(frames) /\ open \in Channels /\ drift \union misfiled \subseteq Channels

\* What the log says now of a message, some frame tells.
Tells(f, c, s, g) == f.c = c /\ f.m.seq = s /\ f.m.stage = g
Announced ==
    \A c \in Channels : \A s \in 1..Len(log[c]) :
        \/ \E f \in unpub : Tells(f, c, s, log[c][s].stage)
        \/ \E i \in 1..Len(frames) : Tells(frames[i], c, s, log[c][s].stage)

\* The first n frames about channel c have been taken in by the list q.
Covers(q, fs, n, c) ==
    \A i \in 1..n : fs[i].c = c /\ fs[i].m.root = 0 =>
        \E j \in 1..Len(q) : q[j].seq = fs[i].m.seq /\ fs[i].m.stage <= q[j].stage
SnapOk(l, q, root) ==
    Distinct(q) /\ \A i \in 1..Len(q) : Says(l, q[i]) /\ (root = 0 => q[i].root = 0)
FetchSound ==
    /\ fetch \in [Keys -> Fetches]
    /\ \A k \in Keys : fetch[k].st = "ready" =>
          /\ fetch[k].upto <= Len(frames)
          /\ SnapOk(log[k[2]], fetch[k].snap, IF k[1] = "timeline" THEN 0 ELSE Root)
          /\ k[1] = "timeline" => Covers(fetch[k].snap, frames, fetch[k].upto, k[2])

ListsTyped == /\ tl \in [Channels -> Seq(Rows) \union {NoData}]
              /\ th \in [Channels -> Seq(Rows) \union {NoData}]
CleanTl(c) == tl[c] # NoData => Listing(log[c], tl[c], send, c, 0)
CleanTh(c) == th[c] # NoData => Listing(log[c], th[c], send, c, Root)
Clean == \A c \in Channels : c \notin misfiled => CleanTl(c) /\ CleanTh(c)

\* Of the frames taken so far, those that tell what is so now show.
UpToDate(l, q, fs, n, c) ==
    \A i \in 1..n : fs[i].c = c /\ fs[i].m.root = 0 /\ fs[i].m.stage = l[fs[i].m.seq].stage =>
        Holds(q, fs[i].m.seq, fs[i].m.stage)
Current ==
    fetch[<<"timeline", open>>].st = "idle" /\ open \notin drift \union misfiled
        /\ tl[open] # NoData
    => UpToDate(log[open], tl[open], frames, at, open)

Server == LogSound /\ SendSound /\ ActSound /\ FramesSound /\ Announced
ChatInv == Server /\ TabSound /\ FetchSound /\ ListsTyped /\ Clean /\ Current

-----------------------------------------------------------------------------
(* Least and greatest elements.                                            *)

LEMMA Least == ASSUME NEW T, T \subseteq Nat, T # {}
               PROVE  \E x \in T : \A y \in T : x <= y
<1> DEFINE R == OpToRel(<, Nat)
<1>1. \E x \in T : \A y \in T : ~ (<<y, x>> \in R)
  BY NatLessThanWellFounded, WFMin, Zenon
<1>2. \A x, y \in Nat : y < x => <<y, x>> \in R
  BY DEF OpToRel
<1> HIDE DEF R
<1>3. PICK x \in T : \A y \in T : ~ (<<y, x>> \in R)
  BY <1>1
<1>4. ASSUME NEW y \in T PROVE x <= y
  <2>1. ~ (y < x) /\ x \in Nat /\ y \in Nat
    BY <1>2, <1>3
  <2> QED BY ONLY <2>1
<1> QED BY <1>4

LEMMA Greatest == ASSUME NEW n \in Nat, NEW T, T \subseteq 0..n, T # {}
                  PROVE  \E x \in T : \A y \in T : y <= x
<1> DEFINE U == {n - x : x \in T}
<1>1. \A y \in T : n - y \in Nat /\ n - y \in U
  OBVIOUS
<1>2. \A u \in U : \E y \in T : u = n - y
  OBVIOUS
<1> HIDE DEF U
<1>3. U \subseteq Nat /\ U # {}
  BY <1>1, <1>2
<1>4. PICK u \in U : \A v \in U : u <= v
  BY <1>3, Least
<1>5. PICK x \in T : u = n - x
  BY <1>2
<1>6. ASSUME NEW y \in T PROVE y <= x
  <2>1. n - x <= n - y
    BY <1>1, <1>4, <1>5
  <2>2. x \in 0..n /\ y \in 0..n
    OBVIOUS
  <2> QED BY ONLY <2>1, <2>2, n \in Nat
<1> QED BY <1>6

-----------------------------------------------------------------------------
(* The server's rows.                                                      *)

\* What the server says of a message is so.
LEMMA DTOTrue ==
    ASSUME NEW l \in Seq(Msgs), Len(l) <= MaxMsgs, NEW s \in 1..Len(l)
    PROVE  Says(l, DTO(l, s)) /\ DTO(l, s).seq = s /\ DTO(l, s).stage = l[s].stage
<1> DEFINE R == RepliesIn(l, s)
           n == Cardinality({r \in R : l[r].stage < 2})
           e == IF R = {} THEN 0 ELSE CHOOSE r \in R : \A q \in R : q <= r
<1>1. Len(l) \in Nat /\ l[s] \in Msgs
  OBVIOUS
<1>2. n \in Nat
  <2>1. IsFiniteSet(1..Len(l))
    BY <1>1, FS_Interval
  <2>2. {r \in R : l[r].stage < 2} \in SUBSET (1..Len(l))
    BY DEF RepliesIn
  <2> QED BY <2>1, <2>2, FS_Subset, FS_CardinalityType
<1>3. e \in Nat
  <2>1. CASE R = {}
    BY <2>1
  <2>2. CASE R # {}
    <3>1. R \subseteq 0..Len(l) /\ R \subseteq Nat
      BY <1>1 DEF RepliesIn
    <3> HIDE DEF R
    <3>2. \E r \in R : \A q \in R : q <= r
      BY <1>1, <2>2, <3>1, Greatest
    <3> QED BY <2>2, <3>1, <3>2
  <2> QED BY <2>1, <2>2
<1>4. DTO(l, s) = [seq |-> s, id |-> l[s].id, root |-> l[s].root, stage |-> l[s].stage,
                   replies |-> n, last |-> e]
  BY DEF DTO
<1> HIDE DEF n, e
<1>5. s \in 0..MaxMsgs /\ MaxMsgs \in Nat
  BY <1>1, BoundsAssumption
<1> QED BY <1>1, <1>2, <1>3, <1>4, <1>5 DEF Says, Rows, Msgs

\* The elements of a list that a listing keeps are some of it, each once.
Picked(s, S, q) ==
    /\ \A i \in 1..Len(q) : \E x \in S : q[i] = s[x]
    /\ \A x \in S : \E i \in 1..Len(q) : q[i] = s[x]
    /\ \A i, j \in 1..Len(q) : i # j =>
          \E x, y \in S : x # y /\ q[i] = s[x] /\ q[j] = s[y]

LEMMA PicksOf ==
    ASSUME NEW R, NEW s \in Seq(R), NEW S \in SUBSET (1..Len(s)), NEW q \in Picks(s, S)
    PROVE  q \in Seq(R) /\ Picked(s, S, q)
<1>1. PICK g \in Orders(S) : q = [i \in DOMAIN g |-> s[g[i]]]
  BY DEF Picks
<1> DEFINE n == Cardinality(S)
<1>2. n \in Nat
  <2>1. IsFiniteSet(1..Len(s))
    BY FS_Interval, Len(s) \in Nat
  <2> QED BY <2>1, FS_Subset, FS_CardinalityType
<1> HIDE DEF n
<1>3. /\ g \in [1..n -> S] /\ \A x \in S : \E i \in 1..n : g[i] = x
      /\ \A i, j \in 1..n : i < j => g[i] < g[j]
  BY <1>1 DEF Orders, n
<1>4. /\ q \in Seq(R) /\ Len(q) = n /\ \A i \in 1..n : q[i] = s[g[i]]
  <2>1. DOMAIN g = 1..n
    BY <1>3
  <2>2. ASSUME NEW i \in 1..n PROVE s[g[i]] \in R
    BY <1>3, g[i] \in 1..Len(s)
  <2>3. q = [i \in 1..n |-> s[g[i]]]
    BY <1>1, <2>1, Zenon
  <2> QED BY ONLY <1>2, <2>2, <2>3
<1>5. ASSUME NEW i \in 1..n, NEW j \in 1..n, i # j
      PROVE  g[i] # g[j]
  <2>1. i < j \/ j < i
    BY <1>2, <1>5
  <2>2. g[i] \in 1..Len(s) /\ g[j] \in 1..Len(s)
    BY <1>3
  <2>3. g[i] < g[j] \/ g[j] < g[i]
    BY <1>3, <2>1
  <2> QED BY ONLY <2>2, <2>3, Len(s) \in Nat
<1>6. \A i \in 1..n : g[i] \in S /\ q[i] = s[g[i]]
  BY <1>3, <1>4
<1>7. \A x \in S : \E i \in 1..n : q[i] = s[x]
  BY <1>3, <1>6
<1>8. \A i, j \in 1..n : i # j => \E x, y \in S : x # y /\ q[i] = s[x] /\ q[j] = s[y]
  BY <1>5, <1>6
<1> QED BY <1>4, <1>6, <1>7, <1>8 DEF Picked

\* A listing of the server.
LEMMA ListingTrue ==
    ASSUME NEW l \in Seq(Msgs), Distinct(l), Len(l) <= MaxMsgs,
           NEW S \in SUBSET (1..Len(l)), NEW q \in Picks(DTOs(l), S)
    PROVE  /\ q \in Seq(Rows) /\ Distinct(q)
           /\ \A i \in 1..Len(q) : Says(l, q[i]) /\ q[i].seq \in S
           /\ \A s \in S : Holds(q, s, l[s].stage)
<1>1. \A s \in 1..Len(l) : Says(l, DTO(l, s)) /\ DTO(l, s).seq = s /\ DTO(l, s).stage = l[s].stage
  BY DTOTrue
<1> DEFINE d == DTOs(l)
<1>2. d \in Seq(Rows) /\ Len(d) = Len(l) /\ \A s \in 1..Len(l) : d[s] = DTO(l, s)
  <2>1. Len(l) \in Nat /\ \A s \in 1..Len(l) : DTO(l, s) \in Rows
    BY <1>1 DEF Says
  <2> QED BY <2>1 DEF DTOs
<1> HIDE DEF d
<1>3. /\ q \in Seq(Rows)
      /\ \A i \in 1..Len(q) : \E x \in S : q[i] = d[x]
      /\ \A x \in S : \E i \in 1..Len(q) : q[i] = d[x]
      /\ \A i, j \in 1..Len(q) : i # j => \E x, y \in S : x # y /\ q[i] = d[x] /\ q[j] = d[y]
  <2>1. q \in Picks(d, S) /\ S \in SUBSET (1..Len(d))
    BY <1>2 DEF d
  <2>2. q \in Seq(Rows) /\ Picked(d, S, q)
    BY <1>2, <2>1, PicksOf
  <2> QED BY <2>2 DEF Picked
<1>4. Distinct(q)
  <2> SUFFICES ASSUME NEW i \in 1..Len(q), NEW j \in 1..Len(q), q[i].id = q[j].id, i # j
               PROVE  FALSE
    BY DEF Distinct
  <2>1. PICK x \in S, y \in S : x # y /\ q[i] = d[x] /\ q[j] = d[y]
    BY <1>3
  <2>2. l[x].id = l[y].id
    <3>1. x \in 1..Len(l) /\ y \in 1..Len(l) /\ d[x].id = d[y].id
      BY <2>1
    <3>2. \A s \in 1..Len(l) : d[s].id = l[s].id
      BY <1>1, <1>2 DEF Says
    <3> QED BY ONLY <3>1, <3>2
  <2> QED BY <2>1, <2>2 DEF Distinct
<1>5. ASSUME NEW i \in 1..Len(q) PROVE Says(l, q[i]) /\ q[i].seq \in S
  <2>1. PICK x \in S : q[i] = d[x]
    BY <1>3
  <2> QED BY <1>1, <1>2, <2>1
<1>6. ASSUME NEW s \in S PROVE Holds(q, s, l[s].stage)
  <2>1. PICK i \in 1..Len(q) : q[i] = d[s]
    BY <1>3
  <2>2. q[i].seq = s /\ q[i].stage = l[s].stage
    BY <1>1, <1>2, <2>1
  <2> QED BY <2>2 DEF Holds
<1> QED BY <1>3, <1>4, <1>5, <1>6

-----------------------------------------------------------------------------
(* The appliers, on one list.                                              *)

\* A row that m takes the place of: m, but that replies are not taken back.
Replaces(r, x, m) == /\ r \in Rows /\ r.seq = m.seq /\ r.id = m.id /\ r.root = m.root
                     /\ r.stage = m.stage /\ Matches(m, x)

\* Either m is appended, or it takes the place of one row it matches.
Appended(q, m, u) == u = Append(q, m) /\ \A i \in 1..Len(q) : ~ Matches(m, q[i])
Merged(q, m, u) ==
    /\ Len(u) = Len(q)
    /\ \E n \in 1..Len(q) : /\ Replaces(u[n], q[n], m)
                            /\ \A i \in 1..Len(q) : i # n => u[i] = q[i]
LEMMA UpsertForm ==
    ASSUME NEW q \in Seq(Rows), NEW m \in Rows, NEW u, u = upsertIntoList(q, m)
    PROVE  u \in Seq(Rows) /\ (Appended(q, m, u) \/ Merged(q, m, u))
<1> DEFINE hits == {i \in 1..Len(q) : Matches(m, q[i])}
           n == CHOOSE i \in hits : \A j \in hits : i <= j
           r == [m EXCEPT !.replies = Larger(m.replies, q[n].replies)]
<1>1. u = IF hits = {} THEN Append(q, m) ELSE [q EXCEPT ![n] = r]
  BY DEF upsertIntoList
<1>2. CASE hits = {}
  <2>1. u = Append(q, m)
    BY <1>1, <1>2
  <2>2. \A i \in 1..Len(q) : ~ Matches(m, q[i])
    BY <1>2
  <2>3. u \in Seq(Rows)
    BY <2>1
  <2> QED BY <2>1, <2>2, <2>3 DEF Appended
<1>3. CASE hits # {}
  <2>1. n \in hits
    <3>1. hits \subseteq Nat
      OBVIOUS
    <3> HIDE DEF hits
    <3>2. \E i \in hits : \A j \in hits : i <= j
      BY <1>3, <3>1, Least
    <3> QED BY <3>2
  <2>2. n \in 1..Len(q) /\ Matches(m, q[n]) /\ u = [q EXCEPT ![n] = r]
    BY <1>1, <1>3, <2>1
  <2> HIDE DEF n
  <2>3. q[n] \in Rows
    BY <2>2
  <2>4. Larger(m.replies, q[n].replies) \in Nat
    BY <2>3 DEF Larger, Rows
  <2>5. /\ r \in Rows /\ r.seq = m.seq /\ r.id = m.id /\ r.root = m.root /\ r.stage = m.stage
    BY <2>4 DEF Rows
  <2> HIDE DEF r
  <2>6. /\ u \in Seq(Rows) /\ Len(u) = Len(q) /\ u[n] = r
        /\ \A i \in 1..Len(q) : i # n => u[i] = q[i]
    BY <2>2, <2>5
  <2>7. Replaces(u[n], q[n], m)
    BY <2>2, <2>5, <2>6 DEF Replaces
  <2> QED BY <2>2, <2>6, <2>7 DEF Merged
<1> QED BY <1>2, <1>3

\* A true row lands on the one row that is the same message's, or its copy.
LEMMA UpsertTrue ==
    ASSUME NEW l \in Seq(Msgs), Distinct(l), NEW q \in Seq(Rows), NEW m, Says(l, m),
           NEW w, NEW c, NEW root, Listing(l, q, w, c, root), root = 0 => m.root = 0,
           NEW u, u = upsertIntoList(q, m)
    PROVE  /\ u \in Seq(Rows)
           /\ Listing(l, u, w, c, root)
           /\ \A i \in 1..Len(u) : u[i].id = m.id => u[i].seq = m.seq
           /\ Holds(u, m.seq, m.stage)
           /\ \A s, g : s > 0 /\ s # m.seq /\ Holds(q, s, g) => Holds(u, s, g)
<1>1. m \in Rows /\ m.seq \in 1..Len(l) /\ m.seq > 0
  BY DEF Says, Rows
\* Who matches is who has the id.
<1>2. ASSUME NEW i \in 1..Len(q) PROVE Matches(m, q[i]) <=> q[i].id = m.id
  <2>1. CASE Says(l, q[i])
    <3>1. q[i].seq = m.seq => q[i].id = m.id
      BY <2>1 DEF Says
    <3> QED BY <3>1, <1>1 DEF Matches
  <2>2. CASE Copy(w, c, root, q[i])
    BY <1>1, <2>2 DEF Copy, Matches
  <2> QED BY <2>1, <2>2 DEF Listing
<1>3. u \in Seq(Rows) /\ (Appended(q, m, u) \/ Merged(q, m, u))
  BY <1>1, UpsertForm
\* So the rows of u are those of q with another id, and one more.
<1>4. PICK n \in 1..Len(u) :
         /\ u[n] \in Rows /\ u[n].seq = m.seq /\ u[n].id = m.id /\ u[n].root = m.root
         /\ u[n].stage = m.stage
         /\ \A i \in 1..Len(u) : i # n => i \in 1..Len(q) /\ u[i] = q[i] /\ q[i].id # m.id
         /\ \A i \in 1..Len(q) : i # n => i \in 1..Len(u) /\ u[i] = q[i]
         /\ n \in 1..Len(q) => q[n].id = m.id
  <2>1. CASE Appended(q, m, u)
    <3>0. u = Append(q, m) /\ \A i \in 1..Len(q) : ~ Matches(m, q[i])
      BY <2>1 DEF Appended
    <3>1. /\ Len(q) + 1 \in 1..Len(u) /\ u[Len(q) + 1] = m
          /\ \A i \in 1..Len(u) : i # Len(q) + 1 => i \in 1..Len(q) /\ u[i] = q[i]
          /\ \A i \in 1..Len(q) : i \in 1..Len(u) /\ u[i] = q[i]
          /\ Len(q) + 1 \notin 1..Len(q)
      BY <3>0, <1>1
    <3> QED BY <1>1, <1>2, <3>0, <3>1
  <2>2. CASE Merged(q, m, u)
    <3>1. PICK n \in 1..Len(q) : /\ Replaces(u[n], q[n], m) /\ Len(u) = Len(q)
                                 /\ \A i \in 1..Len(q) : i # n => u[i] = q[i]
      BY <2>2 DEF Merged
    <3>2. q[n].id = m.id
      BY <1>2, <3>1 DEF Replaces
    <3>3. \A i \in 1..Len(q) : i # n => q[i].id # m.id
      BY <3>2 DEF Listing, Distinct
    <3> QED BY <3>1, <3>2, <3>3 DEF Replaces
  <2> QED BY <1>3, <2>1, <2>2
<1>5. Says(l, u[n])
  BY <1>4 DEF Says
<1>6. Distinct(u)
  <2> SUFFICES ASSUME NEW i \in 1..Len(u), NEW j \in 1..Len(u), u[i].id = u[j].id
               PROVE  i = j
    BY DEF Distinct
  <2>1. CASE i # n /\ j # n
    BY <2>1, <1>4 DEF Listing, Distinct
  <2>2. CASE i = n \/ j = n
    BY <2>2, <1>4
  <2> QED BY <2>1, <2>2
<1>7. Listing(l, u, w, c, root)
  <2>1. ASSUME NEW i \in 1..Len(u)
        PROVE  (Says(l, u[i]) /\ (root = 0 => u[i].root = 0)) \/ Copy(w, c, root, u[i])
    <3>1. CASE i = n
      BY <3>1, <1>4, <1>5
    <3>2. CASE i # n
      BY <3>2, <1>4 DEF Listing
    <3> QED BY <3>1, <3>2
  <2> QED BY <1>6, <2>1 DEF Listing
<1>8. \A i \in 1..Len(u) : u[i].id = m.id => u[i].seq = m.seq
  BY <1>4
<1>9. Holds(u, m.seq, m.stage)
  BY <1>4 DEF Holds
<1>10. ASSUME NEW s, NEW g, s > 0, s # m.seq, Holds(q, s, g)
       PROVE  Holds(u, s, g)
  <2>1. PICK i \in 1..Len(q) : q[i].seq = s /\ q[i].stage = g
    BY <1>10 DEF Holds
  <2>2. q[i].id # m.id
    <3>1. CASE Says(l, q[i])
      BY <1>10, <2>1, <3>1 DEF Says, Distinct
    <3>2. CASE Copy(w, c, root, q[i])
      BY <1>10, <2>1, <3>2 DEF Copy
    <3> QED BY <3>1, <3>2 DEF Listing
  <2>3. i # n
    BY <1>4, <2>2
  <2>4. i \in 1..Len(u) /\ u[i] = q[i]
    BY <1>4, <2>3
  <2> QED BY <2>1, <2>4 DEF Holds
<1> QED BY <1>3, <1>7, <1>8, <1>9, <1>10

\* A copy of a send that is new goes to the end.
LEMMA UpsertCopy ==
    ASSUME NEW l, NEW q \in Seq(Rows), NEW m \in Rows, m.seq = 0, NEW v, v.st = "none",
           NEW w, NEW c, NEW root, Listing(l, q, v, c, root), Copy(w, c, root, m),
           \A i \in 1..Len(l) : l[i].id # m.id, NEW u, u = upsertIntoList(q, m)
    PROVE  /\ u \in Seq(Rows)
           /\ Listing(l, u, w, c, root)
           /\ \A s, g : Holds(q, s, g) => Holds(u, s, g)
<1>1. \A i \in 1..Len(q) : Says(l, q[i]) /\ (root = 0 => q[i].root = 0)
  BY DEF Listing, Copy
<1>2. \A i \in 1..Len(q) : q[i].id # m.id
  BY <1>1 DEF Says
<1>3. \A i \in 1..Len(q) : ~ Matches(m, q[i])
  BY <1>2 DEF Matches, Rows
<1>4. u = Append(q, m)
  <2>1. ~ Merged(q, m, u)
    BY <1>3 DEF Merged, Replaces
  <2> QED BY <2>1, UpsertForm DEF Appended
<1>5. /\ Len(q) \in Nat /\ Len(u) = Len(q) + 1 /\ u[Len(q) + 1] = m
      /\ \A i \in 1..Len(q) : i \in 1..Len(u) /\ u[i] = q[i]
      /\ \A i \in 1..Len(u) : i \in 1..Len(q) \/ i = Len(q) + 1
  BY <1>4
<1>6. Distinct(u)
  <2> SUFFICES ASSUME NEW i \in 1..Len(u), NEW j \in 1..Len(u), u[i].id = u[j].id
               PROVE  i = j
    BY DEF Distinct
  <2>1. CASE i \in 1..Len(q) /\ j \in 1..Len(q)
    BY <2>1, <1>5 DEF Listing, Distinct
  <2>2. CASE i = Len(q) + 1 \/ j = Len(q) + 1
    BY <2>2, <1>2, <1>5
  <2> QED BY <2>1, <2>2, <1>5
<1>7. \A i \in 1..Len(u) : (Says(l, u[i]) /\ (root = 0 => u[i].root = 0))
                              \/ Copy(w, c, root, u[i])
  BY <1>1, <1>5
<1>8. ASSUME NEW s, NEW g, Holds(q, s, g) PROVE Holds(u, s, g)
  <2>1. PICK i \in 1..Len(q) : q[i].seq = s /\ q[i].stage = g
    BY <1>8 DEF Holds
  <2> QED BY <1>5, <2>1 DEF Holds
<1>9. u \in Seq(Rows)
  BY <1>4
<1> QED BY <1>6, <1>7, <1>8, <1>9 DEF Listing

\* A list whose rows say the same, but for counts.
Alike(q, b) == /\ b \in Seq(Rows) /\ Len(b) = Len(q)
               /\ \A i \in 1..Len(q) : /\ b[i].seq = q[i].seq /\ b[i].id = q[i].id
                                       /\ b[i].root = q[i].root /\ b[i].stage = q[i].stage

LEMMA BumpRow ==
    ASSUME NEW x \in Rows, NEW m \in Rows, NEW delta, NEW y, y = bump(x, m, delta)
    PROVE  y \in Rows /\ y.seq = x.seq /\ y.id = x.id /\ y.root = x.root /\ y.stage = x.stage
<1> DEFINE last == Larger(x.last, m.seq)
           fewer == IF x.replies = 0 THEN 0 ELSE x.replies - 1
<1>1. last \in Nat
  BY BoundsAssumption DEF Larger, Rows
<1>2. fewer \in Nat /\ x.replies + 1 \in Nat
  <2>1. x.replies \in Nat
    BY DEF Rows
  <2> QED BY <2>1
<1>3. \/ y = x
      \/ y = [x EXCEPT !.replies = x.replies + 1, !.last = last]
      \/ y = [x EXCEPT !.replies = fewer]
  BY DEF bump
<1> HIDE DEF last, fewer
<1>4. CASE y = x
  BY <1>4
<1>5. CASE y = [x EXCEPT !.replies = x.replies + 1, !.last = last]
  BY <1>1, <1>2, <1>5 DEF Rows
<1>6. CASE y = [x EXCEPT !.replies = fewer]
  BY <1>2, <1>6 DEF Rows
<1> QED BY <1>3, <1>4, <1>5, <1>6

LEMMA BumpAlike ==
    ASSUME NEW q \in Seq(Rows), q # NoData, NEW m \in Rows, NEW delta,
           NEW b, b = bumpRootCounters(q, m, delta)
    PROVE  Alike(q, b)
<1>1. CASE m.root = 0
  <2>1. b = q
    BY <1>1 DEF bumpRootCounters
  <2> QED BY <2>1 DEF Alike
<1>2. CASE m.root # 0
  <2> DEFINE row(i) == IF q[i].seq = m.root THEN bump(q[i], m, delta) ELSE q[i]
  <2>1. b = [i \in 1..Len(q) |-> row(i)]
    BY <1>2 DEF bumpRootCounters
  <2>2. ASSUME NEW i \in 1..Len(q)
        PROVE  /\ row(i) \in Rows /\ row(i).seq = q[i].seq /\ row(i).id = q[i].id
               /\ row(i).root = q[i].root /\ row(i).stage = q[i].stage
    <3>1. q[i] \in Rows
      OBVIOUS
    <3> QED BY <3>1, BumpRow
  <2> HIDE DEF row
  <2>3. b \in Seq(Rows) /\ Len(b) = Len(q) /\ \A i \in 1..Len(q) : b[i] = row(i)
    BY <2>1, <2>2, Len(q) \in Nat
  <2> QED BY <2>2, <2>3 DEF Alike
<1> QED BY <1>1, <1>2

LEMMA AlikeListing ==
    ASSUME NEW l, NEW q \in Seq(Rows), NEW b, Alike(q, b)
    PROVE  /\ \A w, c, root : Listing(l, q, w, c, root) => Listing(l, b, w, c, root)
           /\ \A s, g : Holds(q, s, g) => Holds(b, s, g)
<1>1. Distinct(q) => Distinct(b)
  BY DEF Distinct, Alike
<1>2. ASSUME NEW i \in 1..Len(q)
      PROVE  Says(l, q[i]) => Says(l, b[i])
  BY DEF Says, Alike
<1>3. ASSUME NEW w, NEW c, NEW root, Listing(l, q, w, c, root)
      PROVE  Listing(l, b, w, c, root)
  <2>1. ASSUME NEW i \in 1..Len(b)
        PROVE  (Says(l, b[i]) /\ (root = 0 => b[i].root = 0)) \/ Copy(w, c, root, b[i])
    <3>1. i \in 1..Len(q) /\ b[i].seq = q[i].seq /\ b[i].id = q[i].id /\ b[i].root = q[i].root
      BY DEF Alike
    <3>2. Copy(w, c, root, q[i]) => Copy(w, c, root, b[i])
      BY <3>1 DEF Copy
    <3> QED BY <1>2, <1>3, <3>1, <3>2 DEF Listing
  <2> QED BY <1>1, <1>3, <2>1 DEF Listing
<1>4. \A s, g : Holds(q, s, g) => Holds(b, s, g)
  BY DEF Holds, Alike
<1> QED BY <1>3, <1>4

\* What is left when the copy of a send is taken out.
LEMMA StripListing ==
    ASSUME NEW l, NEW q \in Seq(Rows), NEW id, q # NoData, NEW b \in strip(q, id)
    PROVE  /\ b \in Seq(Rows)
           /\ \A w, v, c, root : (Listing(l, q, w, c, root) /\ w.id = id) => Listing(l, b, v, c, root)
           /\ \A s, g : (s > 0 /\ Holds(q, s, g) /\ \A i \in 1..Len(q) : q[i].seq = s => q[i].id # id)
                        => Holds(b, s, g)
<1> DEFINE S == {i \in 1..Len(q) : q[i].id # id}
<1>1. b \in Picks(q, S)
  BY DEF strip
<1>2. /\ b \in Seq(Rows)
      /\ \A i \in 1..Len(b) : \E x \in S : b[i] = q[x]
      /\ \A x \in S : \E i \in 1..Len(b) : b[i] = q[x]
      /\ \A i, j \in 1..Len(b) : i # j => \E x, y \in S : x # y /\ b[i] = q[x] /\ b[j] = q[y]
  <2>1. S \in SUBSET (1..Len(q))
    OBVIOUS
  <2> HIDE DEF S
  <2>2. b \in Seq(Rows) /\ Picked(q, S, b)
    BY <1>1, <2>1, PicksOf
  <2> QED BY <2>2 DEF Picked
<1>3. Distinct(q) => Distinct(b)
  <2> SUFFICES ASSUME Distinct(q), NEW i \in 1..Len(b), NEW j \in 1..Len(b), b[i].id = b[j].id, i # j
               PROVE  FALSE
    BY DEF Distinct
  <2>1. PICK x \in S, y \in S : x # y /\ b[i] = q[x] /\ b[j] = q[y]
    BY <1>2
  <2> QED BY <2>1 DEF Distinct
<1>4. ASSUME NEW w, NEW v, NEW c, NEW root, Listing(l, q, w, c, root), w.id = id
      PROVE  Listing(l, b, v, c, root)
  <2>1. ASSUME NEW i \in 1..Len(b)
        PROVE  Says(l, b[i]) /\ (root = 0 => b[i].root = 0)
    <3>1. PICK x \in S : b[i] = q[x]
      BY <1>2
    <3>2. ~ Copy(w, c, root, q[x])
      BY <1>4 DEF Copy
    <3> QED BY <1>4, <3>1, <3>2 DEF Listing
  <2> QED BY <1>3, <1>4, <2>1 DEF Listing
<1>5. ASSUME NEW s, NEW g, s > 0, Holds(q, s, g),
             \A i \in 1..Len(q) : q[i].seq = s => q[i].id # id
      PROVE  Holds(b, s, g)
  <2>1. PICK x \in 1..Len(q) : q[x].seq = s /\ q[x].stage = g
    BY <1>5 DEF Holds
  <2>2. x \in S
    BY <1>5, <2>1
  <2>3. PICK i \in 1..Len(b) : b[i] = q[x]
    BY <1>2, <2>2
  <2> QED BY <2>1, <2>3 DEF Holds
<1> QED BY <1>2, <1>4, <1>5

-----------------------------------------------------------------------------
(* What lists keep when the log grows, or a send ends.                     *)

\* Messages are added to a log, and changed; never another's, nor taken back.
Grown(l, k) == /\ Len(l) <= Len(k)
               /\ \A i \in 1..Len(l) : /\ k[i].id = l[i].id /\ k[i].root = l[i].root
                                       /\ l[i].stage <= k[i].stage

LEMMA SaysOn ==
    ASSUME NEW l \in Seq(Msgs), NEW k \in Seq(Msgs), Grown(l, k), NEW m, Says(l, m)
    PROVE  Says(k, m)
<1>1. m.seq \in 1..Len(l) /\ m.seq \in 1..Len(k)
  BY DEF Says, Grown
<1>2. k[m.seq].id = l[m.seq].id /\ k[m.seq].root = l[m.seq].root /\ l[m.seq].stage <= k[m.seq].stage
  BY <1>1 DEF Grown
<1>3. m.stage <= k[m.seq].stage
  <2>1. m.stage \in Int /\ l[m.seq] \in Msgs /\ k[m.seq] \in Msgs /\ m.stage <= l[m.seq].stage
    <3>1. m \in Rows /\ m.stage <= l[m.seq].stage
      BY DEF Says
    <3>2. m.stage \in Int
      BY ONLY <3>1 DEF Rows
    <3>3. l[m.seq] \in Msgs /\ k[m.seq] \in Msgs
      BY <1>1
    <3> QED BY ONLY <3>1, <3>2, <3>3
  <2>2. l[m.seq].stage \in Int /\ k[m.seq].stage \in Int
    BY ONLY <2>1 DEF Msgs
  <2> QED BY ONLY <1>2, <2>1, <2>2
<1> QED BY <1>1, <1>2, <1>3 DEF Says

LEMMA ListingOn ==
    ASSUME NEW l \in Seq(Msgs), NEW k \in Seq(Msgs), Grown(l, k),
           NEW q, NEW w, NEW c, NEW root, Listing(l, q, w, c, root)
    PROVE  Listing(k, q, w, c, root)
<1>1. \A i \in 1..Len(q) : Says(l, q[i]) => Says(k, q[i])
  BY SaysOn
<1> QED BY <1>1 DEF Listing

\* A list without the copy of a send does not need it.
LEMMA ListingWithout ==
    ASSUME NEW l, NEW q, NEW w, NEW v, NEW c, NEW root, Listing(l, q, w, c, root),
           \A i \in 1..Len(q) : ~ Copy(w, c, root, q[i])
    PROVE  Listing(l, q, v, c, root)
BY DEF Listing

\* A send that was served still has its copy.
LEMMA ListingServed ==
    ASSUME NEW l, NEW q, NEW w, NEW v, NEW c, NEW root, Listing(l, q, w, c, root),
           v.st # "none", v.c = w.c, v.root = w.root, v.id = w.id
    PROVE  Listing(l, q, v, c, root)
<1>1. ASSUME NEW i \in 1..Len(q), Copy(w, c, root, q[i])
      PROVE  Copy(v, c, root, q[i])
  BY <1>1 DEF Copy
<1> QED BY <1>1 DEF Listing

\* A fetched list is clean.
LEMMA SnapListing ==
    ASSUME NEW l, NEW q, NEW root, SnapOk(l, q, root)
    PROVE  \A w, c : Listing(l, q, w, c, root)
BY DEF SnapOk, Listing

\* A message has one row in a clean list.
LEMMA OneRow ==
    ASSUME NEW l, Distinct(l), NEW q, NEW w, NEW c, NEW root, Listing(l, q, w, c, root),
           NEW i \in 1..Len(q), NEW j \in 1..Len(q), q[i].seq = q[j].seq, q[i].seq > 0
    PROVE  i = j
<1>1. Says(l, q[i]) /\ Says(l, q[j])
  BY DEF Listing, Copy
<1>2. q[i].id = q[j].id
  BY <1>1 DEF Says
<1> QED BY <1>2 DEF Listing, Distinct

-----------------------------------------------------------------------------
(* A commit: the log of a channel grows, and a frame is to be published.    *)

Fresh(f, c, l, k) ==
    \A s \in 1..Len(k) :
        \/ s \in 1..Len(l) /\ k[s] = l[s]
        \/ Tells(f, c, s, k[s].stage) /\ (s \in 1..Len(l) => l[s].stage < k[s].stage)

LEMMA CommitKeeps ==
    ASSUME ChatInv, NEW c \in Channels, NEW k \in Seq(Msgs), Grown(log[c], k),
           log' = [log EXCEPT ![c] = k],
           NEW f \in Frames, f.c = c, Says(k, f.m), Fresh(f, c, log[c], k),
           unpub' = unpub \union {f},
           UNCHANGED <<frames, stream, screen, caches, races>>,
           LogSound', SendSound', ActSound',
           \/ send' = send
           \/ send'.st # "none" /\ send'.c = send.c /\ send'.root = send.root /\ send'.id = send.id
    PROVE  ChatInv'
<1>1. /\ \A d \in Channels : log[d] \in Seq(Msgs) /\ Distinct(log[d])
      /\ DOMAIN log = Channels
  BY DEF ChatInv, Server, LogSound, LogOf
<1>2. log'[c] = k /\ \A d \in Channels \ {c} : log'[d] = log[d]
  BY <1>1
<1>3. \A d \in Channels : log'[d] \in Seq(Msgs)
  BY <1>1, <1>2
<1>4. ASSUME NEW d \in Channels PROVE Grown(log[d], log'[d])
  <2>1. CASE d = c
    BY <1>2, <2>1
  <2>2. CASE d # c
    <3>1. log'[d] = log[d]
      BY <1>2, <2>2
    <3>2. \A i \in 1..Len(log[d]) : log[d][i].stage <= log[d][i].stage
      <4>1. \A i \in 1..Len(log[d]) : log[d][i] \in Msgs
        BY <1>1
      <4>2. \A i \in 1..Len(log[d]) : log[d][i].stage \in Int
        BY <4>1 DEF Msgs
      <4> QED BY <4>2
    <3>3. Len(log[d]) \in Nat
      BY <1>1
    <3> QED BY <3>1, <3>2, <3>3 DEF Grown
  <2> QED BY <2>1, <2>2
<1>5. ASSUME NEW d \in Channels, NEW m, Says(log[d], m) PROVE Says(log'[d], m)
  BY <1>1, <1>3, <1>4, <1>5, SaysOn
<1>6. FramesSound'
  <2>1. /\ frames \in Seq(Frames) /\ unpub \subseteq Frames
        /\ \A i \in 1..Len(frames) : Says(log[frames[i].c], frames[i].m)
        /\ \A g \in unpub : Says(log[g.c], g.m)
    BY DEF ChatInv, Server, FramesSound
  <2>2. ASSUME NEW i \in 1..Len(frames)
        PROVE  Says(log'[frames[i].c], frames[i].m)
    <3>1. frames[i] \in Frames
      BY <2>1
    <3>2. frames[i].c \in Channels
      BY <3>1 DEF Frames
    <3> QED BY <1>5, <2>1, <3>2
  <2>3. ASSUME NEW g \in unpub'
        PROVE  g \in Frames /\ Says(log'[g.c], g.m)
    <3>1. CASE g = f
      BY <1>2, <3>1
    <3>2. CASE g \in unpub
      <4>1. g \in Frames /\ g.c \in Channels
        BY <2>1, <3>2 DEF Frames
      <4> QED BY <1>5, <2>1, <3>2, <4>1
    <3> QED BY <2>3, <3>1, <3>2
  <2> QED BY <2>1, <2>2, <2>3 DEF FramesSound
<1>7. Announced'
  <2> SUFFICES ASSUME NEW d \in Channels, NEW s \in 1..Len(log'[d])
               PROVE  \/ \E g \in unpub' : Tells(g, d, s, log'[d][s].stage)
                      \/ \E i \in 1..Len(frames') : Tells(frames'[i], d, s, log'[d][s].stage)
    BY DEF Announced
  <2>1. CASE s \in 1..Len(log[d]) /\ log'[d][s] = log[d][s]
    <3>1. \/ \E g \in unpub : Tells(g, d, s, log[d][s].stage)
          \/ \E i \in 1..Len(frames) : Tells(frames[i], d, s, log[d][s].stage)
      BY <2>1 DEF ChatInv, Server, Announced
    <3> QED BY <2>1, <3>1
  <2>2. CASE d = c /\ Tells(f, c, s, k[s].stage)
    <3>1. Tells(f, d, s, log'[d][s].stage)
      BY <1>2, <2>2
    <3> QED BY <3>1
  <2>3. d # c => s \in 1..Len(log[d]) /\ log'[d][s] = log[d][s]
    BY <1>2
  <2>4. d = c => \/ s \in 1..Len(log[d]) /\ log'[d][s] = log[d][s]
                 \/ Tells(f, c, s, k[s].stage)
    BY <1>2 DEF Fresh
  <2> QED BY <2>1, <2>2, <2>3, <2>4
<1>8. TabSound'
  BY DEF ChatInv, TabSound, stream, screen, races
<1>9. FetchSound'
  <2>1. FetchSound /\ fetch' = fetch /\ frames' = frames
    BY DEF ChatInv, caches
  <2>2. ASSUME NEW j \in Keys, fetch[j].st = "ready"
        PROVE  LET root == IF j[1] = "timeline" THEN 0 ELSE Root IN
               SnapOk(log'[j[2]], fetch[j].snap, root)
    <3> DEFINE root == IF j[1] = "timeline" THEN 0 ELSE Root
    <3>1. SnapOk(log[j[2]], fetch[j].snap, root) /\ j[2] \in Channels
      BY <2>1, <2>2 DEF FetchSound, Keys
    <3> HIDE DEF root
    <3>2. SnapOk(log'[j[2]], fetch[j].snap, root)
      BY <1>5, <3>1 DEF SnapOk
    <3> QED BY <3>2 DEF root
  <2> QED BY <2>1, <2>2 DEF FetchSound
<1>10. ListsTyped'
  BY DEF ChatInv, ListsTyped, caches
<1>11. Clean'
  <2>0. tl' = tl /\ th' = th /\ misfiled' = misfiled
    BY DEF caches, races
  <2>1. ASSUME NEW d \in Channels, NEW q, NEW root, Listing(log[d], q, send, d, root)
        PROVE  Listing(log'[d], q, send', d, root)
    <3>1. Listing(log'[d], q, send, d, root)
      BY <1>1, <1>3, <1>4, <2>1, ListingOn
    <3>2. CASE send' = send
      BY <3>1, <3>2
    <3>3. CASE /\ send'.st # "none" /\ send'.c = send.c /\ send'.root = send.root
               /\ send'.id = send.id
      BY <3>1, <3>3, ListingServed
    <3> QED BY <3>2, <3>3
  <2>2. ASSUME NEW d \in Channels, d \notin misfiled' PROVE CleanTl(d)'
    BY <2>0, <2>1, <2>2 DEF ChatInv, Clean, CleanTl
  <2>3. ASSUME NEW d \in Channels, d \notin misfiled' PROVE CleanTh(d)'
    BY <2>0, <2>1, <2>3 DEF ChatInv, Clean, CleanTh
  <2> QED BY <2>2, <2>3 DEF Clean
<1>12. Current'
  <2> SUFFICES ASSUME fetch[<<"timeline", open>>].st = "idle", open \notin drift \union misfiled,
                      tl[open] # NoData
               PROVE  UpToDate(log'[open], tl[open], frames, at, open)
    BY DEF Current, caches, screen, races, stream
  <2>1. UpToDate(log[open], tl[open], frames, at, open)
    BY DEF ChatInv, Current
  <2> SUFFICES ASSUME NEW i \in 1..at, frames[i].c = open, frames[i].m.root = 0,
                      frames[i].m.stage = log'[open][frames[i].m.seq].stage
               PROVE  Holds(tl[open], frames[i].m.seq, frames[i].m.stage)
    BY DEF UpToDate
  <2> DEFINE s == frames[i].m.seq
  <2>2. open \in Channels /\ i \in 1..Len(frames) /\ frames \in Seq(Frames)
    BY DEF ChatInv, Server, TabSound, FramesSound
  <2>3. Says(log[open], frames[i].m)
    BY <2>2 DEF ChatInv, Server, FramesSound
  <2>4. s \in 1..Len(log[open]) /\ frames[i].m.stage <= log[open][s].stage
    BY <2>3 DEF Says
  <2>5. log[open][s].stage = log'[open][s].stage
    <3>1. CASE open # c
      BY <1>2, <2>2, <3>1
    <3>2. CASE open = c
      <4>1. s \in 1..Len(k) /\ log'[open] = k
        BY <1>2, <2>4, <3>2 DEF Grown
      <4>2. k[s] = log[c][s] \/ log[c][s].stage < k[s].stage
        BY <2>4, <3>2, <4>1 DEF Fresh
      <4>3. log[c][s] \in Msgs /\ k[s] \in Msgs
        BY <1>1, <2>4, <3>2, <4>1
      <4>4. log[c][s].stage \in Int /\ k[s].stage \in Int
        BY ONLY <4>3 DEF Msgs
      <4>5. k[s].stage <= log[c][s].stage
        <5>1. frames[i].m.stage = k[s].stage
          BY <4>1
        <5> QED BY <2>4, <3>2, <5>1
      <4>6. CASE k[s] = log[c][s]
        BY <3>2, <4>1, <4>6
      <4>7. CASE log[c][s].stage < k[s].stage
        BY ONLY <4>4, <4>5, <4>7
      <4> QED BY <4>2, <4>6, <4>7
    <3> QED BY <3>1, <3>2
  <2> QED BY <2>1, <2>5 DEF UpToDate
<1> QED BY <1>6, <1>7, <1>8, <1>9, <1>10, <1>11, <1>12 DEF ChatInv, Server

-----------------------------------------------------------------------------
(* What the server commits.                                                *)

\* k is l with a message more, and f the frame that tells of it.
PostOk(l, k, id, root, c, f) ==
    /\ k \in Seq(Msgs) /\ Distinct(k) /\ Grown(l, k) /\ Len(k) = Len(l) + 1
    /\ \A i \in 1..Len(k) : (i \in 1..Len(l) /\ k[i] = l[i]) \/ k[i].id = id
    /\ k[Len(k)].id = id /\ k[Len(k)].root = root
    /\ f \in Frames /\ f.c = c /\ f.m = DTO(k, Len(k)) /\ Says(k, f.m)
    /\ Fresh(f, c, l, k)
NewTo(l, id) == \A i \in 1..Len(l) : l[i].id # id

LEMMA PostGrows ==
    ASSUME NEW l \in Seq(Msgs), Distinct(l), NEW id \in Nat, NEW root \in {0, Root},
           NewTo(l, id), Len(l) < MaxMsgs, NEW c \in Channels,
           NEW k, k = Append(l, [id |-> id, root |-> root, stage |-> 0]),
           NEW f, f = Frame("created", c, k, Len(k))
    PROVE  PostOk(l, k, id, root, c, f)
<1> DEFINE r == [id |-> id, root |-> root, stage |-> 0]
<1>1. r \in Msgs /\ r.id = id /\ r.root = root /\ r.stage = 0
  BY DEF Msgs
<1> HIDE DEF r
<1>2. k = Append(l, r)
  BY DEF r
<1>3. /\ k \in Seq(Msgs) /\ Len(l) \in Nat /\ Len(k) = Len(l) + 1 /\ k[Len(l) + 1] = r
      /\ \A i \in 1..Len(l) : k[i] = l[i]
  BY <1>1, <1>2
<1>4. \A i \in 1..Len(k) : i \in 1..Len(l) \/ i = Len(l) + 1
  BY <1>3
<1>5. \A i \in 1..Len(k) : (i \in 1..Len(l) /\ k[i] = l[i]) \/ k[i].id = id
  BY <1>1, <1>3, <1>4
<1>6. Distinct(k)
  <2> SUFFICES ASSUME NEW i \in 1..Len(k), NEW j \in 1..Len(k), k[i].id = k[j].id
               PROVE  i = j
    BY DEF Distinct
  <2>1. CASE i \in 1..Len(l) /\ j \in 1..Len(l)
    BY <1>3, <2>1 DEF Distinct
  <2>2. CASE i = Len(l) + 1 \/ j = Len(l) + 1
    BY <1>1, <1>3, <1>4, <2>2 DEF NewTo
  <2> QED BY <1>4, <2>1, <2>2
<1>7. Grown(l, k)
  <2>1. ASSUME NEW i \in 1..Len(l) PROVE l[i].stage <= k[i].stage
    <3>1. l[i] \in Msgs /\ k[i] = l[i]
      BY <1>3
    <3>2. l[i].stage \in Int
      BY <3>1 DEF Msgs
    <3> QED BY <3>1, <3>2
  <2> QED BY <1>3, <2>1 DEF Grown
<1>8. /\ Len(k) \in 1..Len(k) /\ Says(k, DTO(k, Len(k))) /\ DTO(k, Len(k)).seq = Len(k)
      /\ DTO(k, Len(k)).stage = 0
  <2>1. Len(k) \in 1..Len(k) /\ Len(k) <= MaxMsgs
    BY <1>3, BoundsAssumption
  <2>2. Says(k, DTO(k, Len(k))) /\ DTO(k, Len(k)).seq = Len(k)
        /\ DTO(k, Len(k)).stage = k[Len(k)].stage
    <3> HIDE DEF r
    <3>1. k \in Seq(Msgs)
      BY <1>3
    <3> QED BY ONLY <2>1, <3>1, DTOTrue
  <2> QED BY <1>1, <1>3, <2>1, <2>2
<1>9. f.c = c /\ f.m = DTO(k, Len(k)) /\ f.type = "created"
  BY DEF Frame
<1>10. f \in Frames
  BY <1>8 DEF Frame, Frames, Says
<1>11. Fresh(f, c, l, k)
  <2> SUFFICES ASSUME NEW s \in 1..Len(k)
               PROVE  \/ s \in 1..Len(l) /\ k[s] = l[s]
                      \/ Tells(f, c, s, k[s].stage) /\ (s \in 1..Len(l) => l[s].stage < k[s].stage)
    BY DEF Fresh
  <2>1. CASE s = Len(l) + 1
    <3>1. Tells(f, c, s, k[s].stage)
      BY <1>1, <1>3, <1>8, <1>9, <2>1 DEF Tells
    <3>2. s \notin 1..Len(l)
      BY <1>3, <2>1
    <3> QED BY <3>1, <3>2
  <2> QED BY <1>3, <1>4, <2>1
<1>12. k[Len(k)] = r
  BY <1>3
<1> QED BY <1>1, <1>3, <1>5, <1>6, <1>7, <1>8, <1>9, <1>10, <1>11, <1>12 DEF PostOk

\* k is l with message s changed, and f the frame that tells of it.
ChangeOk(l, k, s, g, c, f) ==
    /\ k \in Seq(Msgs) /\ Distinct(k) /\ Grown(l, k) /\ Len(k) = Len(l)
    /\ \A i \in 1..Len(l) : k[i].id = l[i].id
    /\ f \in Frames /\ f.c = c /\ f.m = DTO(k, s) /\ Says(k, f.m)
    /\ f.m.seq = s /\ f.m.stage = g
    /\ Fresh(f, c, l, k)

LEMMA ChangeGrows ==
    ASSUME NEW l \in Seq(Msgs), Distinct(l), NEW s \in 1..Len(l), NEW g \in 1..2,
           l[s].stage < g, Len(l) <= MaxMsgs, NEW c \in Channels,
           NEW k, k = [l EXCEPT ![s].stage = g],
           NEW t \in {"updated", "deleted"}, NEW f, f = Frame(t, c, k, s)
    PROVE  ChangeOk(l, k, s, g, c, f)
<1> DEFINE r == [l[s] EXCEPT !.stage = g]
<1>1. r \in Msgs /\ r.id = l[s].id /\ r.root = l[s].root /\ r.stage = g
  <2>1. l[s] \in Msgs
    OBVIOUS
  <2> QED BY <2>1 DEF Msgs
<1>2. k = [l EXCEPT ![s] = r]
  OBVIOUS
<1> HIDE DEF r
<1>3. /\ k \in Seq(Msgs) /\ Len(k) = Len(l) /\ k[s] = r
      /\ \A i \in 1..Len(l) : i # s => k[i] = l[i]
  BY <1>1, <1>2
<1>4. \A i \in 1..Len(l) : k[i].id = l[i].id /\ k[i].root = l[i].root
  BY <1>1, <1>3
<1>5. Distinct(k)
  BY <1>3, <1>4 DEF Distinct
<1>6. Grown(l, k)
  <2>1. ASSUME NEW i \in 1..Len(l) PROVE l[i].stage <= k[i].stage
    <3>1. l[i] \in Msgs
      OBVIOUS
    <3>2. l[i].stage \in Int
      BY <3>1 DEF Msgs
    <3> QED BY <1>1, <1>3, <3>2
  <2>2. Len(l) \in Nat
    OBVIOUS
  <2> QED BY <1>3, <1>4, <2>1, <2>2 DEF Grown
<1>7. Says(k, DTO(k, s)) /\ DTO(k, s).seq = s /\ DTO(k, s).stage = g
  <2>1. k \in Seq(Msgs) /\ s \in 1..Len(k) /\ Len(k) <= MaxMsgs
    BY <1>3
  <2>2. Says(k, DTO(k, s)) /\ DTO(k, s).seq = s /\ DTO(k, s).stage = k[s].stage
    BY ONLY <2>1, DTOTrue
  <2> QED BY <1>1, <1>3, <2>2
<1>8. f.c = c /\ f.m = DTO(k, s)
  BY DEF Frame
<1>9. f \in Frames
  BY <1>7 DEF Frame, Frames, Says
<1>10. Fresh(f, c, l, k)
  BY <1>1, <1>3, <1>7, <1>8 DEF Fresh, Tells
<1> QED BY <1>3, <1>4, <1>5, <1>6, <1>7, <1>8, <1>9, <1>10 DEF ChangeOk

Uses == [ids : 0..MaxMsgs, changes : Nat, fetches : Nat, drops : Nat]

LEMMA LogAfter ==
    ASSUME ChatInv, NEW c \in Channels, NEW k \in Seq(Msgs), Distinct(k),
           log' = [log EXCEPT ![c] = k], used' \in Uses, used.ids <= used'.ids,
           \A i \in 1..Len(k) : k[i].id \in 1..used'.ids,
           Len(k) + Coming(send') <= used'.ids, Coming(send') <= Coming(send)
    PROVE  LogSound'
<1>1. /\ DOMAIN log = Channels /\ used \in Uses
      /\ \A d \in Channels : LogOf(log[d], used.ids) /\ Len(log[d]) + Coming(send) <= used.ids
  BY DEF ChatInv, Server, LogSound, Uses
<1>2. used.ids \in Nat /\ used'.ids \in Nat /\ Coming(send) \in 0..1 /\ Coming(send') \in 0..1
  BY <1>1, BoundsAssumption DEF Uses, Coming
<1>3. ASSUME NEW d \in Channels
      PROVE  LogOf(log'[d], used'.ids) /\ Len(log'[d]) + Coming(send') <= used'.ids
  <2>1. CASE d = c
    <3>1. log'[d] = k
      BY <1>1, <2>1
    <3> QED BY <3>1 DEF LogOf
  <2>2. CASE d # c
    <3>1. log'[d] = log[d]
      BY <1>1, <2>2
    <3>2. LogOf(log[d], used.ids) /\ Len(log[d]) \in Nat /\ Len(log[d]) + Coming(send) <= used.ids
      BY <1>1 DEF LogOf
    <3>3. \A i \in 1..Len(log[d]) : log[d][i].id \in 1..used'.ids
      BY <1>2, <3>2 DEF LogOf
    <3>4. Len(log[d]) + Coming(send') <= used'.ids
      BY ONLY <1>2, <3>2, used.ids <= used'.ids, Coming(send') <= Coming(send)
    <3> QED BY <3>1, <3>2, <3>3, <3>4 DEF LogOf
  <2> QED BY <2>1, <2>2
<1>4. DOMAIN log' = Channels
  BY <1>1
<1> QED BY <1>3, <1>4 DEF LogSound, Uses

LEMMA SendAfter ==
    ASSUME ChatInv, NEW c \in Channels, NEW k \in Seq(Msgs), Grown(log[c], k),
           log' = [log EXCEPT ![c] = k], send' = send, used' \in Uses, used.ids <= used'.ids,
           \A i \in 1..Len(k) : \/ i \in 1..Len(log[c]) /\ k[i].id = log[c][i].id
                                \/ k[i].id > used.ids
    PROVE  SendSound'
<1>1. SendSound /\ DOMAIN log = Channels /\ log[c] \in Seq(Msgs)
  BY DEF ChatInv, Server, LogSound, LogOf
<1>2. used.ids \in Nat /\ used'.ids \in Nat
  BY BoundsAssumption DEF ChatInv, Server, LogSound, Uses
<1>3. send.st # "none" => /\ send.id \in 1..used.ids /\ send.id \in 1..used'.ids
                          /\ send.c \in Channels /\ send.root \in {0, Root}
  BY <1>1, <1>2 DEF SendSound
<1>4. ASSUME send.st = "asked", NEW i \in 1..Len(log'[send.c])
      PROVE  log'[send.c][i].id # send.id
  <2>1. send.id \in 1..used.ids /\ \A j \in 1..Len(log[send.c]) : log[send.c][j].id # send.id
    BY <1>1, <1>3, <1>4 DEF SendSound
  <2>2. CASE send.c = c
    <3>1. log'[send.c] = k
      BY <1>1, <2>2
    <3>2. ~ (send.id > used.ids)
      BY <1>2, <2>1
    <3>3. i \in 1..Len(k)
      BY <1>4, <3>1
    <3>4. k[i].id # send.id
      BY <2>1, <2>2, <3>2, <3>3
    <3> QED BY <3>1, <3>4
  <2>3. CASE send.c # c
    <3>1. log'[send.c] = log[send.c]
      BY <1>1, <1>3, <1>4, <2>3
    <3> QED BY <1>4, <2>1, <3>1
  <2> QED BY <2>2, <2>3
<1>5. ASSUME send.st = "served" PROVE Says(log'[send.c], send.m)
  <2>1. Says(log[send.c], send.m) /\ send.c \in Channels
    BY <1>1, <1>5 DEF SendSound
  <2>2. CASE send.c = c
    <3>1. Says(k, send.m)
      BY <1>1, <2>1, <2>2, SaysOn
    <3> QED BY <1>1, <2>2, <3>1
  <2>3. CASE send.c # c
    BY <1>1, <2>1, <2>3
  <2> QED BY <2>2, <2>3
<1> QED BY <1>1, <1>3, <1>4, <1>5 DEF SendSound

LEMMA ActAfter ==
    ASSUME ChatInv, NEW c \in Channels, NEW k \in Seq(Msgs), Grown(log[c], k),
           log' = [log EXCEPT ![c] = k], act' = act
    PROVE  ActSound'
<1>1. ActSound /\ DOMAIN log = Channels /\ log[c] \in Seq(Msgs)
  BY DEF ChatInv, Server, LogSound, LogOf
<1>2. ASSUME act.st = "served" PROVE Says(log'[act.c], act.m)
  <2>1. Says(log[act.c], act.m) /\ act.c \in Channels
    BY <1>1, <1>2 DEF ActSound
  <2>2. CASE act.c = c
    <3>1. Says(k, act.m)
      BY <1>1, <2>1, <2>2, SaysOn
    <3> QED BY <1>1, <2>2, <3>1
  <2>3. CASE act.c # c
    BY <1>1, <2>1, <2>3
  <2> QED BY <2>2, <2>3
<1> QED BY <1>1, <1>2 DEF ActSound

\* What is known of a channel's log.
LEMMA LogKnown ==
    ASSUME ChatInv, NEW c \in Channels
    PROVE  /\ used \in Uses /\ used.ids \in 0..MaxMsgs /\ MaxMsgs \in Nat
           /\ log[c] \in Seq(Msgs) /\ Distinct(log[c]) /\ DOMAIN log = Channels
           /\ \A i \in 1..Len(log[c]) : log[c][i].id \in 1..used.ids
           /\ Len(log[c]) \in Nat /\ Len(log[c]) + Coming(send) <= used.ids
           /\ Len(log[c]) <= MaxMsgs /\ Coming(send) \in {0, 1}
<1>1. /\ used \in Uses /\ DOMAIN log = Channels
      /\ LogOf(log[c], used.ids) /\ Len(log[c]) + Coming(send) <= used.ids
  BY DEF ChatInv, Server, LogSound, Uses
<1>2. used.ids \in 0..MaxMsgs /\ MaxMsgs \in Nat
  BY <1>1, BoundsAssumption DEF Uses
<1>3. log[c] \in Seq(Msgs) /\ Len(log[c]) \in Nat
  BY <1>1 DEF LogOf
<1>4. Coming(send) \in {0, 1}
  BY DEF Coming
<1>5. Len(log[c]) <= MaxMsgs
  BY ONLY <1>1, <1>2, <1>3, <1>4
<1> QED BY <1>1, <1>2, <1>3, <1>4, <1>5 DEF LogOf

LEMMA OtherPostsInv ==
    ASSUME ChatInv, NEW c \in Channels, NEW root \in {0, Root}, OtherPosts(c, root)
    PROVE  ChatInv'
<1> DEFINE id == used.ids + 1
           k == Append(log[c], [id |-> id, root |-> root, stage |-> 0])
           f == Frame("created", c, k, Len(k))
<1>1. used.ids < MaxMsgs /\ used' = [used EXCEPT !.ids = used.ids + 1]
  BY DEF OtherPosts, Posted
<1>2. used' \in Uses /\ used'.ids = id /\ id \in Nat /\ used.ids <= used'.ids
  BY <1>1, LogKnown DEF Uses
<1>3. log' = [log EXCEPT ![c] = k] /\ unpub' = unpub \union {f}
  BY DEF OtherPosts, CommitMessage, Posted
<1>4. NewTo(log[c], id)
  <2>1. used.ids \in Nat /\ \A i \in 1..Len(log[c]) : log[c][i].id \in 1..used.ids
    BY LogKnown
  <2> QED BY <2>1 DEF NewTo
<1>5. PostOk(log[c], k, id, root, c, f)
  <2>1. Len(log[c]) < MaxMsgs /\ log[c] \in Seq(Msgs) /\ Distinct(log[c])
    BY <1>1, LogKnown
  <2>2. k = Append(log[c], [id |-> id, root |-> root, stage |-> 0])
        /\ f = Frame("created", c, k, Len(k))
    OBVIOUS
  <2> HIDE DEF id, k, f
  <2> QED BY <1>2, <1>4, <2>1, <2>2, PostGrows
<1> HIDE DEF k, f
<1>6. send' = send /\ act' = act /\ UNCHANGED <<frames, stream, screen, caches, races>>
  BY DEF OtherPosts, writes
<1>7. /\ k \in Seq(Msgs) /\ Distinct(k) /\ Grown(log[c], k) /\ Len(k) = Len(log[c]) + 1
      /\ \A i \in 1..Len(k) : (i \in 1..Len(log[c]) /\ k[i] = log[c][i]) \/ k[i].id = id
  BY <1>5 DEF PostOk
<1>8. LogSound'
  <2>1. \A i \in 1..Len(k) : k[i].id \in 1..used'.ids
    <3>1. \A i \in 1..Len(log[c]) : log[c][i].id \in 1..used'.ids
      BY <1>2, LogKnown
    <3>2. id \in 1..used'.ids
      BY <1>2, LogKnown
    <3> HIDE DEF id
    <3> QED BY <1>7, <3>1, <3>2
  <2>2. Len(k) + Coming(send) <= used'.ids
    <3>1. /\ Len(k) = Len(log[c]) + 1 /\ used'.ids = used.ids + 1 /\ used.ids \in Nat
          /\ Len(log[c]) \in Nat /\ Len(log[c]) + Coming(send) <= used.ids
          /\ Coming(send) \in {0, 1}
      BY <1>2, <1>7, LogKnown
    <3> QED BY ONLY <3>1
  <2>3. Coming(send') <= Coming(send) /\ Coming(send') = Coming(send)
    BY <1>6 DEF Coming
  <2> QED BY <1>2, <1>3, <1>7, <2>1, <2>2, <2>3, LogAfter
<1>9. SendSound'
  <2>1. \A i \in 1..Len(k) : \/ i \in 1..Len(log[c]) /\ k[i].id = log[c][i].id
                             \/ k[i].id > used.ids
    <3>1. id > used.ids
      BY LogKnown
    <3> HIDE DEF id
    <3> QED BY <1>7, <3>1
  <2> QED BY <1>2, <1>3, <1>6, <1>7, <2>1, SendAfter
<1>10. ActSound'
  BY <1>3, <1>6, <1>7, ActAfter
<1> QED BY <1>3, <1>5, <1>6, <1>7, <1>8, <1>9, <1>10, CommitKeeps DEF PostOk

LEMMA ServeSendInv ==
    ASSUME ChatInv, ServeSend
    PROVE  ChatInv'
<1> DEFINE c == send.c
           id == send.id
           k == Append(log[c], [id |-> id, root |-> send.root, stage |-> 0])
           f == Frame("created", c, k, Len(k))
<1>1. /\ send.st = "asked" /\ log' = [log EXCEPT ![c] = k] /\ unpub' = unpub \union {f}
      /\ send' = [st |-> "served", id |-> send.id, c |-> send.c, root |-> send.root,
                  m |-> DTO(log'[send.c], Len(log'[send.c]))]
      /\ act' = act /\ used' = used /\ UNCHANGED <<frames, stream, screen, caches, races>>
  BY DEF ServeSend, CommitMessage
<1>2. /\ c \in Channels /\ send.root \in {0, Root} /\ id \in 1..used.ids /\ NewTo(log[c], id)
  <2>1. SendSound
    BY DEF ChatInv, Server
  <2> QED BY <1>1, <2>1 DEF SendSound, NewTo
<1>3. /\ used \in Uses /\ used.ids \in Nat /\ id \in Nat /\ Coming(send) = 1
      /\ log[c] \in Seq(Msgs) /\ Distinct(log[c]) /\ Len(log[c]) \in Nat
      /\ Len(log[c]) < MaxMsgs /\ Len(log[c]) + 1 <= used.ids /\ DOMAIN log = Channels
      /\ \A i \in 1..Len(log[c]) : log[c][i].id \in 1..used.ids
  <2>1. Coming(send) = 1
    BY <1>1 DEF Coming
  <2>2. Len(log[c]) < MaxMsgs /\ Len(log[c]) + 1 <= used.ids
    <3>1. /\ Len(log[c]) \in Nat /\ Len(log[c]) + Coming(send) <= used.ids
          /\ used.ids \in 0..MaxMsgs /\ MaxMsgs \in Nat
      BY <1>2, LogKnown
    <3> QED BY ONLY <2>1, <3>1
  <2> QED BY <1>2, <2>1, <2>2, LogKnown
<1>4. PostOk(log[c], k, id, send.root, c, f)
  <2>1. k = Append(log[c], [id |-> id, root |-> send.root, stage |-> 0])
        /\ f = Frame("created", c, k, Len(k))
    OBVIOUS
  <2> HIDE DEF k, f
  <2> QED BY <1>2, <1>3, <2>1, PostGrows
<1> HIDE DEF k, f
<1>5. /\ k \in Seq(Msgs) /\ Distinct(k) /\ Grown(log[c], k) /\ Len(k) = Len(log[c]) + 1
      /\ \A i \in 1..Len(k) : (i \in 1..Len(log[c]) /\ k[i] = log[c][i]) \/ k[i].id = id
      /\ k[Len(k)].id = id /\ k[Len(k)].root = send.root
      /\ f.m = DTO(k, Len(k)) /\ Says(k, f.m)
  BY <1>4 DEF PostOk
<1>6. log'[c] = k
  BY <1>1, <1>2, <1>3
<1>7. /\ send'.st = "served" /\ send'.c = c /\ send'.root = send.root /\ send'.id = id
      /\ send'.m = f.m
  BY <1>1, <1>5, <1>6
<1>8. LogSound'
  <2>1. \A i \in 1..Len(k) : k[i].id \in 1..used'.ids
    BY <1>1, <1>2, <1>3, <1>5
  <2>2. Coming(send') = 0
    BY <1>7 DEF Coming
  <2>3. Len(k) + Coming(send') <= used'.ids /\ Coming(send') <= Coming(send)
        /\ used.ids <= used'.ids
    BY <1>1, <1>3, <1>5, <2>2
  <2> QED BY <1>1, <1>2, <1>3, <1>5, <2>1, <2>3, LogAfter
<1>9. SendSound'
  <2>1. f.m.seq = Len(k)
    BY <1>5 DEF DTO
  <2>2. f.m.id = id /\ f.m.root = send.root
    BY <1>5, <2>1 DEF Says
  <2> HIDE DEF c, id
  <2>3. Says(log'[send'.c], send'.m) /\ send'.m.id = send'.id /\ send'.m.root = send'.root
    BY <1>5, <1>6, <1>7, <2>2
  <2>4. send'.id \in 1..used'.ids /\ send'.c \in Channels /\ send'.root \in {0, Root}
    BY <1>1, <1>2, <1>7
  <2> QED BY <1>7, <2>3, <2>4 DEF SendSound
<1>10. ActSound'
  BY <1>1, <1>2, <1>5, ActAfter
<1>11. send'.st # "none" /\ send'.c = send.c /\ send'.root = send.root /\ send'.id = send.id
  BY <1>7
<1>12. f \in Frames /\ f.c = c /\ Says(k, f.m) /\ Fresh(f, c, log[c], k)
  BY <1>4 DEF PostOk
<1> QED BY <1>1, <1>2, <1>5, <1>8, <1>9, <1>10, <1>11, <1>12, CommitKeeps

LEMMA ChangeKeeps ==
    ASSUME ChatInv, NEW c \in Channels, NEW s \in 1..Len(log[c]), NEW g \in 1..2,
           log[c][s].stage < g, CommitChange(c, s, g), send' = send,
           used' \in Uses, used'.ids = used.ids
    PROVE  \E k, f : /\ ChangeOk(log[c], k, s, g, c, f)
                     /\ log' = [log EXCEPT ![c] = k] /\ log'[c] = k /\ unpub' = unpub \union {f}
                     /\ LogSound' /\ SendSound'
<1> DEFINE k == [log[c] EXCEPT ![s].stage = g]
           t == IF g = 2 THEN "deleted" ELSE "updated"
           f == Frame(t, c, k, s)
<1>1. log' = [log EXCEPT ![c] = k] /\ unpub' = unpub \union {f}
  BY DEF CommitChange
<1>2. /\ used.ids \in Nat /\ DOMAIN log = Channels
      /\ log[c] \in Seq(Msgs) /\ Distinct(log[c]) /\ Len(log[c]) \in Nat
      /\ Len(log[c]) <= MaxMsgs /\ Len(log[c]) + Coming(send) <= used.ids
      /\ \A i \in 1..Len(log[c]) : log[c][i].id \in 1..used.ids
  BY LogKnown
<1>3. ChangeOk(log[c], k, s, g, c, f)
  <2>1. t \in {"updated", "deleted"}
    OBVIOUS
  <2>2. k = [log[c] EXCEPT ![s].stage = g] /\ f = Frame(t, c, k, s)
    OBVIOUS
  <2> HIDE DEF k, t, f
  <2> QED BY <1>2, <2>1, <2>2, ChangeGrows
<1> HIDE DEF k, f
<1>4. /\ k \in Seq(Msgs) /\ Distinct(k) /\ Grown(log[c], k) /\ Len(k) = Len(log[c])
      /\ \A i \in 1..Len(log[c]) : k[i].id = log[c][i].id
  BY <1>3 DEF ChangeOk
<1>5. LogSound'
  <2>1. \A i \in 1..Len(k) : k[i].id \in 1..used'.ids
    BY <1>2, <1>4
  <2>2. Coming(send') = Coming(send) /\ Coming(send) \in {0, 1}
    BY DEF Coming
  <2>3. Len(k) + Coming(send') <= used'.ids /\ Coming(send') <= Coming(send)
        /\ used.ids <= used'.ids
    BY <1>2, <1>4, <2>2
  <2> QED BY <1>1, <1>4, <2>1, <2>3, LogAfter
<1>6. SendSound'
  <2>1. \A i \in 1..Len(k) : \/ i \in 1..Len(log[c]) /\ k[i].id = log[c][i].id
                             \/ k[i].id > used.ids
    BY <1>4
  <2>2. used.ids <= used'.ids
    BY <1>2
  <2> QED BY <1>1, <1>4, <2>1, <2>2, SendAfter
<1>7. log'[c] = k
  BY <1>1, <1>2
<1> QED BY <1>1, <1>3, <1>5, <1>6, <1>7

LEMMA OtherChangesInv ==
    ASSUME ChatInv, NEW c \in Channels, NEW s, NEW g \in 1..2, OtherChanges(c, s, g)
    PROVE  ChatInv'
<1>1. /\ s \in 1..Len(log[c]) /\ log[c][s].stage < g /\ CommitChange(c, s, g)
      /\ used' = [used EXCEPT !.changes = used.changes + 1]
      /\ send' = send /\ act' = act /\ UNCHANGED <<frames, stream, screen, caches, races>>
  BY DEF OtherChanges, writes
<1>2. used' \in Uses /\ used'.ids = used.ids
  <2>1. used \in Uses
    BY LogKnown
  <2> QED BY <1>1, <2>1 DEF Uses
<1>3. PICK k, f : /\ ChangeOk(log[c], k, s, g, c, f)
                  /\ log' = [log EXCEPT ![c] = k] /\ log'[c] = k /\ unpub' = unpub \union {f}
                  /\ LogSound' /\ SendSound'
  BY <1>1, <1>2, ChangeKeeps
<1>4. ActSound'
  BY <1>1, <1>3, ActAfter DEF ChangeOk
<1> QED BY <1>1, <1>3, <1>4, CommitKeeps DEF ChangeOk

LEMMA ServeActInv ==
    ASSUME ChatInv, ServeAct
    PROVE  ChatInv'
<1> DEFINE c == act.c
           s == act.s
           g == act.stage
<1>1. /\ act.st = "asked" /\ s \in 1..Len(log[c]) /\ log[c][s].stage < g /\ CommitChange(c, s, g)
      /\ act' = [st |-> "served", c |-> act.c, s |-> act.s, stage |-> act.stage,
                 m |-> DTO(log'[act.c], act.s)]
      /\ send' = send /\ used' = used /\ UNCHANGED <<frames, stream, screen, caches, races>>
  BY DEF ServeAct
<1>2. c \in Channels /\ g \in 1..2
  <2>1. ActSound
    BY DEF ChatInv, Server
  <2> QED BY <1>1, <2>1 DEF ActSound
<1>3. used' \in Uses /\ used'.ids = used.ids
  BY <1>1, <1>2, LogKnown
<1>4. PICK k, f : /\ ChangeOk(log[c], k, s, g, c, f)
                  /\ log' = [log EXCEPT ![c] = k] /\ log'[c] = k /\ unpub' = unpub \union {f}
                  /\ LogSound' /\ SendSound'
  <2> HIDE DEF c, s, g
  <2> QED BY <1>1, <1>2, <1>3, ChangeKeeps
<1>5. /\ act'.st = "served" /\ act'.c = c /\ act'.s = s /\ act'.stage = g /\ act'.m = DTO(k, s)
  BY <1>1, <1>4
<1>6. ActSound'
  <2> HIDE DEF c, s, g
  <2>1. Says(log'[c], act'.m) /\ act'.m.seq = act'.s /\ act'.m.stage = act'.stage
    BY <1>4, <1>5 DEF ChangeOk
  <2> QED BY <1>2, <1>5, <2>1 DEF ActSound
<1> HIDE DEF c, s, g
<1> QED BY <1>1, <1>2, <1>4, <1>6, CommitKeeps DEF ChangeOk

-----------------------------------------------------------------------------
(* A frame is published.                                                   *)

LEMMA PublishInv ==
    ASSUME ChatInv, NEW f \in unpub, Publish(f)
    PROVE  ChatInv'
<1>1. /\ unpub' = unpub \ {f} /\ frames' = Append(frames, f) /\ log' = log
      /\ used' = used /\ send' = send /\ act' = act
      /\ UNCHANGED <<stream, screen, caches, races>>
  BY DEF Publish, writes
<1>2. /\ frames \in Seq(Frames) /\ unpub \subseteq Frames
      /\ \A i \in 1..Len(frames) : Says(log[frames[i].c], frames[i].m)
      /\ \A g \in unpub : Says(log[g.c], g.m)
  BY DEF ChatInv, Server, FramesSound
<1>3. /\ frames' \in Seq(Frames) /\ Len(frames) \in Nat /\ Len(frames') = Len(frames) + 1
      /\ frames'[Len(frames) + 1] = f
      /\ \A i \in 1..Len(frames) : i \in 1..Len(frames') /\ frames'[i] = frames[i]
      /\ \A i \in 1..Len(frames') : i \in 1..Len(frames) \/ i = Len(frames) + 1
  BY <1>1, <1>2
<1>4. LogSound' /\ SendSound' /\ ActSound'
  BY <1>1 DEF ChatInv, Server, LogSound, SendSound, ActSound
<1>5. FramesSound'
  <2>1. \A i \in 1..Len(frames') : Says(log[frames'[i].c], frames'[i].m)
    BY <1>2, <1>3
  <2> QED BY <1>1, <1>2, <1>3, <2>1 DEF FramesSound
<1>6. Announced'
  <2> SUFFICES ASSUME NEW c \in Channels, NEW s \in 1..Len(log[c])
               PROVE  \/ \E g \in unpub' : Tells(g, c, s, log[c][s].stage)
                      \/ \E i \in 1..Len(frames') : Tells(frames'[i], c, s, log[c][s].stage)
    BY <1>1 DEF Announced
  <2>1. CASE \E g \in unpub : Tells(g, c, s, log[c][s].stage)
    <3>1. PICK g \in unpub : Tells(g, c, s, log[c][s].stage)
      BY <2>1
    <3>2. CASE g = f
      <4>1. Len(frames) + 1 \in 1..Len(frames')
        BY <1>3
      <4> QED BY <1>3, <3>1, <3>2, <4>1
    <3>3. CASE g # f
      BY <1>1, <3>1, <3>3
    <3> QED BY <3>2, <3>3
  <2>2. CASE \E i \in 1..Len(frames) : Tells(frames[i], c, s, log[c][s].stage)
    BY <1>3, <2>2
  <2> QED BY <2>1, <2>2 DEF ChatInv, Server, Announced
<1>7. TabSound'
  BY <1>1, <1>3 DEF ChatInv, TabSound, stream, screen, races
<1>8. FetchSound'
  <2>1. FetchSound /\ fetch' = fetch
    BY <1>1 DEF ChatInv, caches
  <2>2. fetch \in [Keys -> Fetches]
    BY <2>1 DEF FetchSound
  <2>3. ASSUME NEW k \in Keys, fetch[k].st = "ready"
        PROVE  /\ fetch[k].upto <= Len(frames')
               /\ k[1] = "timeline" => Covers(fetch[k].snap, frames', fetch[k].upto, k[2])
    <3>1. fetch[k].upto \in Nat
      BY <2>2 DEF Fetches
    <3>2. fetch[k].upto <= Len(frames)
      BY <2>1, <2>3 DEF FetchSound
    <3>3. fetch[k].upto <= Len(frames')
      BY ONLY <1>3, <3>1, <3>2
    <3>4. \A i \in 1..fetch[k].upto : i \in 1..Len(frames)
      BY <1>3, <3>1, <3>2
    <3>5. \A i \in 1..fetch[k].upto : frames'[i] = frames[i]
      BY <1>3, <3>4
    <3>6. k[1] = "timeline" => Covers(fetch[k].snap, frames, fetch[k].upto, k[2])
      BY <2>1, <2>3 DEF FetchSound
    <3>7. ASSUME Covers(fetch[k].snap, frames, fetch[k].upto, k[2])
          PROVE  Covers(fetch[k].snap, frames', fetch[k].upto, k[2])
      <4> DEFINE n == fetch[k].upto
                 s == fetch[k].snap
      <4>1. \A i \in 1..n : frames'[i] = frames[i]
        BY <3>5
      <4>2. Covers(s, frames, n, k[2])
        BY <3>7
      <4> HIDE DEF n, s
      <4>3. Covers(s, frames', n, k[2])
        BY ONLY <4>1, <4>2 DEF Covers
      <4> QED BY <4>3 DEF n, s
    <3> QED BY ONLY <3>3, <3>6, <3>7
  <2> QED BY <1>1, <2>1, <2>3 DEF FetchSound
<1>9. ListsTyped' /\ Clean'
  BY <1>1 DEF ChatInv, ListsTyped, Clean, CleanTl, CleanTh, caches, races
<1>10. Current'
  <2>1. \A i \in 1..at : frames'[i] = frames[i]
    BY <1>3 DEF ChatInv, TabSound
  <2>2. /\ fetch' = fetch /\ open' = open /\ drift' = drift /\ misfiled' = misfiled
        /\ tl' = tl /\ at' = at /\ log' = log
    BY <1>1 DEF stream, screen, caches, races
  <2>3. UpToDate(log[open], tl[open], frames, at, open) => UpToDate(log[open], tl[open], frames', at, open)
    BY <2>1 DEF UpToDate
  <2> QED BY <2>2, <2>3 DEF ChatInv, Current
<1> QED BY <1>4, <1>5, <1>6, <1>7, <1>8, <1>9, <1>10 DEF ChatInv, Server

-----------------------------------------------------------------------------
(* What the tab does that writes no list.                                  *)

LEMMA TabKeeps ==
    ASSUME ChatInv, UNCHANGED <<log, unpub, frames, tl, th, send, misfiled>>,
           used' \in Uses, used'.ids = used.ids,
           ActSound', TabSound', FetchSound', Current'
    PROVE  ChatInv'
<1>1. LogSound' /\ SendSound' /\ FramesSound' /\ Announced'
  BY DEF ChatInv, Server, LogSound, Uses, SendSound, FramesSound, Announced
<1>2. ListsTyped' /\ Clean'
  BY DEF ChatInv, ListsTyped, Clean, CleanTl, CleanTh
<1> QED BY <1>1, <1>2 DEF ChatInv, Server

LEMMA UsesMore ==
    ASSUME ChatInv
    PROVE  /\ [used EXCEPT !.changes = @ + 1] \in Uses
           /\ [used EXCEPT !.fetches = @ + 1] \in Uses
           /\ [used EXCEPT !.drops = @ + 1] \in Uses
           /\ used \in Uses
           /\ [used EXCEPT !.changes = @ + 1].ids = used.ids
           /\ [used EXCEPT !.fetches = @ + 1].ids = used.ids
           /\ [used EXCEPT !.drops = @ + 1].ids = used.ids
<1>1. used \in Uses
  BY DEF ChatInv, Server, LogSound, Uses
<1> QED BY <1>1 DEF Uses

LEMMA ActKeeps == ASSUME ChatInv, UNCHANGED <<log, act>> PROVE ActSound'
BY DEF ChatInv, Server, ActSound

\* A fetch is started, or none has become ready.
LEMMA FetchKeeps ==
    ASSUME ChatInv, UNCHANGED <<log, frames>>, fetch' \in [Keys -> Fetches],
           \A k \in Keys : fetch'[k].st = "ready" => fetch'[k] = fetch[k]
    PROVE  FetchSound'
BY DEF ChatInv, FetchSound

LEMMA CurrentKeeps ==
    ASSUME ChatInv, UNCHANGED <<log, frames, at, open, tl>>,
           drift \subseteq drift', misfiled \subseteq misfiled',
           fetch'[<<"timeline", open>>].st = "idle" => fetch[<<"timeline", open>>].st = "idle"
    PROVE  Current'
BY DEF ChatInv, Current

LEMMA Started ==
    ASSUME ChatInv, NEW k \in Keys, fetch' = StartFetch(fetch, k)
    PROVE  /\ fetch' \in [Keys -> Fetches]
           /\ \A j \in Keys : fetch'[j].st = "ready" => fetch'[j] = fetch[j]
           /\ fetch'[k].st # "idle"
           /\ \A j \in Keys : fetch'[j].st = "idle" => fetch[j].st = "idle"
<1>1. fetch \in [Keys -> Fetches]
  BY DEF ChatInv, FetchSound
<1>2. Asked \in Fetches /\ Asked.st = "asked"
  <2>1. <<>> \in Seq(Rows)
    OBVIOUS
  <2> QED BY <2>1 DEF Asked, IdleFetch, Fetches
<1> QED BY <1>1, <1>2 DEF StartFetch

LEMMA KeyOf == ASSUME NEW c \in Channels
               PROVE  <<"timeline", c>> \in Keys /\ <<"thread", c>> \in Keys
BY DEF Keys

LEMMA ActInv ==
    ASSUME ChatInv, NEW s, NEW g \in 1..2, Act(s, g)
    PROVE  ChatInv'
<1>1. /\ act' = [st |-> "asked", c |-> open, s |-> s, stage |-> g]
      /\ used' = [used EXCEPT !.changes = @ + 1]
      /\ UNCHANGED <<log, unpub, frames, tl, th, send, misfiled, drift, fetch, at, open>>
  BY DEF Act, server, stream, screen, caches, races
<1>2. ActSound'
  BY <1>1 DEF ChatInv, TabSound, ActSound
<1>3. TabSound' /\ FetchSound' /\ Current'
  BY <1>1 DEF ChatInv, TabSound, FetchSound, Current
<1> QED BY <1>1, <1>2, <1>3, TabKeeps, UsesMore

LEMMA ActFailsInv ==
    ASSUME ChatInv, ActFails
    PROVE  ChatInv'
<1>1. /\ act' = NoWrite /\ used' = used
      /\ UNCHANGED <<log, unpub, frames, tl, th, send, misfiled, drift, fetch, at, open>>
  BY DEF ActFails, server, stream, screen, caches, races
<1>2. ActSound'
  BY <1>1 DEF NoWrite, ActSound
<1>3. TabSound' /\ FetchSound' /\ Current'
  BY <1>1 DEF ChatInv, TabSound, FetchSound, Current
<1> QED BY <1>1, <1>2, <1>3, TabKeeps, UsesMore

LEMMA OpenChannelInv ==
    ASSUME ChatInv, NEW c \in Channels, OpenChannel(c)
    PROVE  ChatInv'
<1> DEFINE k == <<"timeline", c>>
<1>1. /\ open' = c /\ fetch' = StartFetch(fetch, k) /\ used' = [used EXCEPT !.fetches = @ + 1]
      /\ UNCHANGED <<log, unpub, frames, tl, th, send, act, misfiled, drift, at>>
  BY DEF OpenChannel, server, stream, writes, races
<1>2. k \in Keys
  BY KeyOf
<1> HIDE DEF k
<1>3. FetchSound' /\ fetch'[k].st # "idle"
  BY <1>1, <1>2, Started, FetchKeeps
<1>4. Current'
  BY <1>1, <1>3 DEF Current, k
<1>5. TabSound'
  BY <1>1 DEF ChatInv, TabSound
<1> QED BY <1>1, <1>3, <1>4, <1>5, TabKeeps, ActKeeps, UsesMore

\* OpenThread and Poll start a fetch and leave the rest alone.
LEMMA StartsInv ==
    ASSUME ChatInv, NEW k \in Keys, fetch' = StartFetch(fetch, k),
           used' = [used EXCEPT !.fetches = @ + 1],
           UNCHANGED <<log, unpub, frames, tl, th, send, act, misfiled, drift, at, open>>
    PROVE  ChatInv'
<1>1. FetchSound'
  BY Started, FetchKeeps
<1>2. open \in Channels /\ <<"timeline", open>> \in Keys
  BY KeyOf DEF ChatInv, TabSound
<1>3. fetch'[<<"timeline", open>>].st = "idle" => fetch[<<"timeline", open>>].st = "idle"
  BY <1>2, Started
<1>4. Current'
  BY <1>3, CurrentKeeps
<1>5. TabSound'
  BY DEF ChatInv, TabSound
<1> QED BY <1>1, <1>4, <1>5, TabKeeps, ActKeeps, UsesMore

LEMMA OpenThreadInv ==
    ASSUME ChatInv, OpenThread
    PROVE  ChatInv'
<1>1. <<"thread", open>> \in Keys
  BY KeyOf DEF ChatInv, TabSound
<1> QED BY <1>1, StartsInv DEF OpenThread, server, stream, writes, races

LEMMA PollInv ==
    ASSUME ChatInv, NEW k \in Keys, Poll(k)
    PROVE  ChatInv'
BY StartsInv DEF Poll, server, stream, screen, writes, races

LEMMA QuietInv ==
    ASSUME ChatInv, used' \in Uses, used'.ids = used.ids,
           UNCHANGED <<log, unpub, frames, tl, th, send, act, misfiled, drift, fetch, at, open>>
    PROVE  ChatInv'
<1>1. TabSound' /\ FetchSound' /\ Current'
  BY DEF ChatInv, TabSound, FetchSound, Current
<1> QED BY <1>1, TabKeeps, ActKeeps

LEMMA CloseThreadInv == ASSUME ChatInv, CloseThread PROVE ChatInv'
BY QuietInv, UsesMore DEF CloseThread, server, stream, caches, writes, races

LEMMA StreamBreaksInv == ASSUME ChatInv, StreamBreaks PROVE ChatInv'
BY QuietInv, UsesMore DEF StreamBreaks, server, screen, caches, writes, races

LEMMA FetchFailsInv ==
    ASSUME ChatInv, NEW k \in Keys, FetchFails(k)
    PROVE  ChatInv'
<1>1. /\ fetch' = [fetch EXCEPT ![k] = IdleFetch]
      /\ drift' = drift \union {c \in {k[2]} : k[1] = "timeline"}
      /\ UNCHANGED <<log, unpub, frames, tl, th, send, act, misfiled, at, open, used>>
  BY DEF FetchFails, server, stream, screen, writes
<1>2. fetch \in [Keys -> Fetches] /\ k[2] \in Channels /\ k = <<k[1], k[2]>>
  BY DEF ChatInv, FetchSound, Keys
<1>3. FetchSound'
  <2>1. IdleFetch \in Fetches /\ IdleFetch.st # "ready"
    <3>1. <<>> \in Seq(Rows)
      OBVIOUS
    <3> QED BY <3>1 DEF IdleFetch, Fetches
  <2> QED BY <1>1, <1>2, <2>1, FetchKeeps
<1>4. Current'
  <2>1. CASE k = <<"timeline", open>>
    BY <1>1, <2>1 DEF Current
  <2>2. CASE k # <<"timeline", open>>
    <3>1. <<"timeline", open>> \in Keys
      BY KeyOf DEF ChatInv, TabSound
    <3>2. fetch'[<<"timeline", open>>] = fetch[<<"timeline", open>>]
      BY <1>1, <1>2, <2>2, <3>1
    <3> QED BY <1>1, <3>2, CurrentKeeps
  <2> QED BY <2>1, <2>2
<1>5. TabSound'
  BY <1>1, <1>2 DEF ChatInv, TabSound
<1> QED BY <1>1, <1>3, <1>4, <1>5, TabKeeps, ActKeeps, UsesMore

LEMMA StreamOpensInv ==
    ASSUME ChatInv, StreamOpens
    PROVE  ChatInv'
<1>1. /\ at' = IF heard THEN at ELSE Len(frames)
      /\ drift' = IF heard THEN drift
                  ELSE drift \union {c \in Channels : tl[c] # NoData /\ Missed(c)}
      /\ UNCHANGED <<log, unpub, frames, tl, th, send, act, misfiled, open, used, fetch>>
  BY DEF StreamOpens, server, screen, caches, writes
<1>2. at \in 0..Len(frames) /\ open \in Channels /\ Len(frames) \in Nat
  BY DEF ChatInv, Server, TabSound, FramesSound
<1>3. TabSound'
  BY <1>1, <1>2 DEF ChatInv, TabSound
<1>4. FetchSound'
  BY <1>1 DEF ChatInv, FetchSound
<1>5. Current'
  <2>1. CASE heard
    BY <1>1, <2>1, CurrentKeeps
  <2>2. CASE ~heard
    <3> SUFFICES ASSUME fetch[<<"timeline", open>>].st = "idle", open \notin drift' \union misfiled,
                        tl[open] # NoData
                 PROVE  UpToDate(log[open], tl[open], frames, Len(frames), open)
      BY <1>1, <2>2 DEF Current
    <3>1. UpToDate(log[open], tl[open], frames, at, open)
      BY <1>1, <2>2 DEF ChatInv, Current
    <3>2. ~ Missed(open)
      BY <1>1, <1>2, <2>2
    <3>3. \A i \in 1..Len(frames) : i \in 1..at \/ i \in (at + 1)..Len(frames)
      BY <1>2
    <3> QED BY <3>1, <3>2, <3>3 DEF UpToDate, Missed
  <2> QED BY <2>1, <2>2
<1> QED BY <1>1, <1>3, <1>4, <1>5, TabKeeps, ActKeeps, UsesMore

LEMMA StreamResetsInv ==
    ASSUME ChatInv, StreamResets
    PROVE  ChatInv'
<1>1. /\ at' = Len(frames)
      /\ fetch' = [k \in Keys |-> IF Observed(k) /\ (fetch[k].st = "idle" \/ Data(k) # NoData)
                                  THEN Asked ELSE fetch[k]]
      /\ UNCHANGED <<log, unpub, frames, tl, th, send, act, misfiled, drift, open, used>>
  BY DEF StreamResets, server, screen, writes, races
<1>2. Len(frames) \in Nat /\ open \in Channels /\ fetch \in [Keys -> Fetches]
  BY DEF ChatInv, Server, TabSound, FramesSound, FetchSound
<1>3. TabSound'
  BY <1>1, <1>2 DEF ChatInv, TabSound
<1>4. Asked \in Fetches /\ Asked.st = "asked"
  <2>1. <<>> \in Seq(Rows)
    OBVIOUS
  <2> QED BY <2>1 DEF Asked, IdleFetch, Fetches
<1>5. FetchSound'
  <2>1. /\ fetch' \in [Keys -> Fetches]
        /\ \A k \in Keys : fetch'[k] = Asked \/ fetch'[k] = fetch[k]
    BY <1>1, <1>2, <1>4
  <2> QED BY <1>1, <1>4, <2>1, FetchKeeps
<1>6. Current'
  <2> DEFINE k == <<"timeline", open>>
  <2>1. k \in Keys /\ k[1] = "timeline" /\ k[2] = open
    BY <1>2, KeyOf
  <2>2. Observed(k) /\ Data(k) = tl[open]
    BY <2>1 DEF Observed, Data
  <2> HIDE DEF k
  <2>3. tl[open] # NoData => fetch'[k] = Asked
    BY <1>1, <2>1, <2>2
  <2>4. tl[open] # NoData => fetch'[k].st # "idle"
    BY <1>4, <2>3
  <2> QED BY <1>1, <2>4 DEF Current, k
<1> QED BY <1>1, <1>3, <1>5, <1>6, TabKeeps, ActKeeps, UsesMore

\* What a fetch brings from the server.
LEMMA SnapshotOk ==
    ASSUME ChatInv, NEW k \in Keys, NEW snap \in Snapshots(k)
    PROVE  /\ snap \in Seq(Rows)
           /\ SnapOk(log[k[2]], snap, IF k[1] = "timeline" THEN 0 ELSE Root)
           /\ k[1] = "timeline" => Covers(snap, frames, Len(frames), k[2])
<1> DEFINE c == k[2]
           l == log[c]
           S == IF k[1] = "timeline" THEN TopLevel(l) ELSE InThread(l)
<1>1. c \in Channels
  BY DEF Keys
<1>2. l \in Seq(Msgs) /\ Distinct(l) /\ Len(l) <= MaxMsgs
  BY <1>1, LogKnown
<1>3. snap \in Picks(DTOs(l), S) /\ S \in SUBSET (1..Len(l))
  BY DEF Snapshots, ListMessages, ListThread, TopLevel, InThread
<1> HIDE DEF S, l
<1>4. /\ snap \in Seq(Rows) /\ Distinct(snap)
      /\ \A i \in 1..Len(snap) : Says(l, snap[i]) /\ snap[i].seq \in S
      /\ \A s \in S : Holds(snap, s, l[s].stage)
  BY <1>2, <1>3, ListingTrue
<1>5. CASE k[1] = "timeline"
  <2>1. S = {s \in 1..Len(l) : l[s].root = 0}
    BY <1>5 DEF S, TopLevel
  <2>2. \A i \in 1..Len(snap) : snap[i].root = 0
    BY <1>4, <2>1 DEF Says
  <2>3. SnapOk(l, snap, 0)
    BY <1>4, <2>2 DEF SnapOk
  <2>4. ASSUME NEW i \in 1..Len(frames), frames[i].c = c, frames[i].m.root = 0
        PROVE  \E j \in 1..Len(snap) : /\ snap[j].seq = frames[i].m.seq
                                       /\ frames[i].m.stage <= snap[j].stage
    <3>1. Says(l, frames[i].m)
      BY <2>4 DEF ChatInv, Server, FramesSound, l
    <3>2. frames[i].m.seq \in S /\ frames[i].m.stage <= l[frames[i].m.seq].stage
      BY <2>1, <2>4, <3>1 DEF Says
    <3>3. Holds(snap, frames[i].m.seq, l[frames[i].m.seq].stage)
      BY <1>4, <3>2
    <3> QED BY <3>2, <3>3 DEF Holds
  <2> QED BY <1>4, <1>5, <2>3, <2>4 DEF Covers, l
<1>6. CASE k[1] # "timeline"
  <2>1. SnapOk(l, snap, Root)
    BY <1>4 DEF SnapOk, Root
  <2> QED BY <1>4, <1>6, <2>1 DEF l
<1> QED BY <1>5, <1>6

LEMMA ServeFetchInv ==
    ASSUME ChatInv, NEW k \in Keys, ServeFetch(k)
    PROVE  ChatInv'
<1>1. PICK snap \in Snapshots(k) :
         fetch' = [fetch EXCEPT ![k] = [st |-> "ready", snap |-> snap, upto |-> Len(frames)]]
  BY DEF ServeFetch
<1>2. UNCHANGED <<log, unpub, frames, tl, th, send, act, misfiled, drift, at, open, used>>
  BY DEF ServeFetch, server, stream, screen, writes, races
<1> DEFINE r == [st |-> "ready", snap |-> snap, upto |-> Len(frames)]
<1>3. /\ snap \in Seq(Rows)
      /\ SnapOk(log[k[2]], snap, IF k[1] = "timeline" THEN 0 ELSE Root)
      /\ k[1] = "timeline" => Covers(snap, frames, Len(frames), k[2])
  BY SnapshotOk
<1>4. FetchSound /\ fetch \in [Keys -> Fetches] /\ Len(frames) \in Nat
  BY DEF ChatInv, Server, FramesSound, FetchSound
<1>5. r \in Fetches /\ r.st = "ready" /\ r.snap = snap /\ r.upto = Len(frames)
  BY <1>3, <1>4 DEF Fetches
<1> HIDE DEF r
<1>6. fetch' \in [Keys -> Fetches] /\ fetch'[k] = r /\ \A j \in Keys \ {k} : fetch'[j] = fetch[j]
  BY <1>1, <1>4, <1>5 DEF r
<1>7. FetchSound'
  <2> SUFFICES ASSUME NEW j \in Keys, fetch'[j].st = "ready"
               PROVE  /\ fetch'[j].upto <= Len(frames)
                      /\ SnapOk(log[j[2]], fetch'[j].snap, IF j[1] = "timeline" THEN 0 ELSE Root)
                      /\ j[1] = "timeline" => Covers(fetch'[j].snap, frames, fetch'[j].upto, j[2])
    BY <1>2, <1>6 DEF FetchSound
  <2>1. CASE j = k
    BY <1>3, <1>4, <1>5, <1>6, <2>1
  <2>2. CASE j # k
    BY <1>4, <1>6, <2>2 DEF FetchSound
  <2> QED BY <2>1, <2>2
<1>8. Current'
  <2>1. <<"timeline", open>> \in Keys
    BY KeyOf DEF ChatInv, TabSound
  <2>2. fetch'[<<"timeline", open>>].st = "idle" => fetch[<<"timeline", open>>].st = "idle"
    BY <1>5, <1>6, <2>1
  <2> QED BY <1>2, <2>2, CurrentKeeps
<1>9. TabSound'
  BY <1>2 DEF ChatInv, TabSound
<1> QED BY <1>2, <1>7, <1>8, <1>9, TabKeeps, ActKeeps, UsesMore

-----------------------------------------------------------------------------
(* The cached lists of a channel take a message in.                        *)

Maybe == Seq(Rows) \union {NoData}

LEMMA UpsertedTyped ==
    ASSUME NEW q \in Maybe, NEW m \in Rows
    PROVE  Upserted(q, m) \in Maybe
<1>1. CASE q = NoData
  BY <1>1 DEF Upserted, Maybe
<1>2. CASE q # NoData
  <2>1. q \in Seq(Rows) /\ Upserted(q, m) = upsertIntoList(q, m)
    BY <1>2 DEF Upserted, Maybe
  <2> QED BY <2>1, UpsertForm DEF Maybe
<1> QED BY <1>1, <1>2

LEMMA ListsTake ==
    ASSUME ListsTyped, NEW c \in Channels, NEW m \in Rows
    PROVE  /\ tlWith(c, m) \in [Channels -> Maybe] /\ thWith(c, m) \in [Channels -> Maybe]
           /\ \A d \in Channels \ {c} : tlWith(c, m)[d] = tl[d] /\ thWith(c, m)[d] = th[d]
           /\ tlWith(c, m)[c] = IF m.root = 0 THEN Upserted(tl[c], m) ELSE tl[c]
           /\ thWith(c, m)[c] = IF m.root = Root \/ m.seq = Root THEN Upserted(th[c], m) ELSE th[c]
<1>1. tl \in [Channels -> Maybe] /\ th \in [Channels -> Maybe]
  BY DEF ListsTyped, Maybe
<1>2. Upserted(tl[c], m) \in Maybe /\ Upserted(th[c], m) \in Maybe
  BY <1>1, UpsertedTyped
<1> QED BY <1>1, <1>2 DEF tlWith, thWith

\* A list that took a true row in: clean still, and with the row.
Took(l, q, u, w, c, root, m) ==
    u # NoData => /\ q # NoData
                  /\ Listing(l, u, w, c, root)
                  /\ \A i \in 1..Len(u) : u[i].id = m.id => u[i].seq = m.seq
                  /\ Holds(u, m.seq, m.stage)
                  /\ \A s, g : s > 0 /\ s # m.seq /\ Holds(q, s, g) => Holds(u, s, g)

LEMMA UpsertedTakes ==
    ASSUME NEW l \in Seq(Msgs), Distinct(l), NEW q \in Maybe, NEW m, Says(l, m),
           NEW w, NEW c, NEW root, q # NoData => Listing(l, q, w, c, root), root = 0 => m.root = 0,
           NEW u, u = Upserted(q, m)
    PROVE  Took(l, q, u, w, c, root, m)
<1>1. CASE q = NoData
  BY <1>1 DEF Upserted, Took
<1>2. CASE q # NoData
  <2>1. q \in Seq(Rows) /\ u = upsertIntoList(q, m) /\ Listing(l, q, w, c, root)
    BY <1>2 DEF Upserted, Maybe
  <2> QED BY <1>2, <2>1, UpsertTrue DEF Took
<1> QED BY <1>1, <1>2

\* Nothing newer than m has been told of its message.
LEMMA UpToDateTaken ==
    ASSUME NEW l \in Seq(Msgs), NEW m, Says(l, m), NEW q, NEW u, NEW w, NEW c,
           Took(l, q, u, w, c, 0, m), u # NoData,
           NEW fs, NEW n \in Nat, UpToDate(l, q, fs, n, c),
           \A i \in 1..n : fs[i].c = c => Says(l, fs[i].m),
           \A i \in 1..n : fs[i].c = c /\ fs[i].m.seq = m.seq => fs[i].m.stage <= m.stage
    PROVE  UpToDate(l, u, fs, n, c)
<1> SUFFICES ASSUME NEW i \in 1..n, fs[i].c = c, fs[i].m.root = 0,
                    fs[i].m.stage = l[fs[i].m.seq].stage
             PROVE  Holds(u, fs[i].m.seq, fs[i].m.stage)
  BY DEF UpToDate
<1> DEFINE s == fs[i].m.seq
           g == fs[i].m.stage
<1>1. Says(l, fs[i].m) /\ s > 0 /\ Holds(q, s, g)
  BY DEF Says, UpToDate
<1>2. CASE s # m.seq
  BY <1>1, <1>2 DEF Took
<1>3. CASE s = m.seq
  <2>1. g <= m.stage /\ m.stage <= l[s].stage /\ g = l[s].stage
    <3>1. m.stage <= l[m.seq].stage
      BY DEF Says
    <3> QED BY <1>3, <3>1
  <2>2. g \in Int /\ m.stage \in Int
    <3>1. fs[i].m \in Rows /\ m \in Rows
      BY <1>1 DEF Says
    <3>2. \A x \in Rows : x.stage \in Int
      BY DEF Rows
    <3> QED BY <3>1, <3>2
  <2>3. g = m.stage
    BY ONLY <2>1, <2>2
  <2> QED BY <1>3, <2>3 DEF Took
<1> QED BY <1>2, <1>3

\* The lists that are not misfiled, when the answer to a write of channel c is
\* taken in on the channel on screen.
LEMMA AnswerClean ==
    ASSUME ChatInv, NEW c \in Channels, NEW m, Says(log[c], m),
           tl' = tlWith(open, m), th' = thWith(open, m),
           misfiled \subseteq misfiled', open # c => open \in misfiled'
    PROVE  /\ ListsTyped'
           /\ \A d \in Channels \ {open} : tl'[d] = tl[d] /\ th'[d] = th[d]
           /\ open \notin misfiled' =>
                /\ open = c
                /\ m.root = 0 => Took(log[c], tl[c], tl'[c], send, c, 0, m)
                /\ m.root # 0 => tl'[c] = tl[c]
                /\ \/ Took(log[c], th[c], th'[c], send, c, Root, m)
                   \/ m.root # Root /\ th'[c] = th[c]
           /\ \A d \in Channels : d \notin misfiled' =>
                /\ tl'[d] # NoData => Listing(log[d], tl'[d], send, d, 0)
                /\ th'[d] # NoData => Listing(log[d], th'[d], send, d, Root)
<1>1. m \in Rows /\ open \in Channels /\ ListsTyped
  BY DEF Says, ChatInv, TabSound
<1>2. /\ tl' \in [Channels -> Maybe] /\ th' \in [Channels -> Maybe]
      /\ \A d \in Channels \ {open} : tl'[d] = tl[d] /\ th'[d] = th[d]
      /\ tl'[open] = IF m.root = 0 THEN Upserted(tl[open], m) ELSE tl[open]
      /\ th'[open] = IF m.root = Root \/ m.seq = Root THEN Upserted(th[open], m) ELSE th[open]
  BY <1>1, ListsTake
<1>3. ListsTyped'
  BY <1>2 DEF ListsTyped, Maybe
<1>4. \A d \in Channels : tl[d] \in Maybe /\ th[d] \in Maybe
  BY <1>1 DEF ListsTyped, Maybe
<1>5. \A d \in Channels : d \notin misfiled' =>
         /\ tl[d] # NoData => Listing(log[d], tl[d], send, d, 0)
         /\ th[d] # NoData => Listing(log[d], th[d], send, d, Root)
  BY DEF ChatInv, Clean, CleanTl, CleanTh
<1>6. ASSUME open \notin misfiled'
      PROVE  /\ open = c
             /\ m.root = 0 => Took(log[c], tl[c], tl'[c], send, c, 0, m)
             /\ m.root # 0 => tl'[c] = tl[c]
             /\ \/ Took(log[c], th[c], th'[c], send, c, Root, m)
                \/ m.root # Root /\ th'[c] = th[c]
  <2>1. open = c
    BY <1>6
  <2>2. /\ log[c] \in Seq(Msgs) /\ Distinct(log[c])
        /\ tl[c] # NoData => Listing(log[c], tl[c], send, c, 0)
        /\ th[c] # NoData => Listing(log[c], th[c], send, c, Root)
    BY <1>5, <1>6, <2>1, LogKnown
  <2>3. m.root = 0 => Took(log[c], tl[c], tl'[c], send, c, 0, m)
    BY <1>2, <1>4, <2>1, <2>2, UpsertedTakes
  <2>4. ASSUME m.root = Root \/ m.seq = Root
        PROVE  Took(log[c], th[c], th'[c], send, c, Root, m)
    <3>1. th'[c] = Upserted(th[c], m) /\ Root # 0
      BY <1>2, <2>1, <2>4 DEF Root
    <3> QED BY <1>4, <2>2, <3>1, UpsertedTakes
  <2> QED BY <1>2, <2>1, <2>3, <2>4
<1>7. ASSUME NEW d \in Channels, d \notin misfiled'
      PROVE  /\ tl'[d] # NoData => Listing(log[d], tl'[d], send, d, 0)
             /\ th'[d] # NoData => Listing(log[d], th'[d], send, d, Root)
  <2>1. CASE d # open
    BY <1>2, <1>5, <1>7, <2>1
  <2>2. CASE d = open
    BY <1>5, <1>6, <1>7, <2>2 DEF Took
  <2> QED BY <2>1, <2>2
<1> QED BY <1>2, <1>3, <1>6, <1>7

\* What is on screen stays up to date, unless the answer is out of date.
LEMMA AnswerCurrent ==
    ASSUME ChatInv, NEW c \in Channels, NEW m, Says(log[c], m), NEW g \in Nat, g <= m.stage,
           tl' = tlWith(open, m), th' = thWith(open, m),
           misfiled \subseteq misfiled', open # c => open \in misfiled',
           drift' = drift \union {d \in {c} : Outdated(d, m.seq, g)},
           UNCHANGED <<log, frames, fetch, at, open>>
    PROVE  Current'
<1> SUFFICES ASSUME fetch[<<"timeline", open>>].st = "idle", open \notin drift' \union misfiled',
                    tl'[open] # NoData
             PROVE  UpToDate(log[open], tl'[open], frames, at, open)
  BY DEF Current
<1>1. /\ open = c
      /\ m.root = 0 => Took(log[c], tl[c], tl'[c], send, c, 0, m)
      /\ m.root # 0 => tl'[c] = tl[c]
  BY AnswerClean
<1>2. tl[c] # NoData
  BY <1>1, m \in Rows DEF Took, Says, Rows
<1>3. UpToDate(log[c], tl[c], frames, at, c)
  BY <1>1, <1>2 DEF ChatInv, Current
<1>4. CASE m.root # 0
  BY <1>1, <1>3, <1>4
<1>5. CASE m.root = 0
  <2>1. at \in Nat /\ \A i \in 1..at : i \in 1..Len(frames)
    BY DEF ChatInv, Server, TabSound, FramesSound
  <2>2. \A i \in 1..at : frames[i].c = c => Says(log[c], frames[i].m)
    BY <2>1 DEF ChatInv, Server, FramesSound
  <2>3. ASSUME NEW i \in 1..at, frames[i].c = c, frames[i].m.seq = m.seq
        PROVE  frames[i].m.stage <= m.stage
    <3>1. ~ (frames[i].m.stage > g)
      BY <1>1, <2>3 DEF Outdated
    <3>2. frames[i].m.stage \in Int /\ m.stage \in Int
      <4>1. frames[i].m \in Rows /\ m \in Rows
        BY <2>2, <2>3 DEF Says
      <4> QED BY ONLY <4>1 DEF Rows
    <3> QED BY <3>1, <3>2
  <2>4. log[c] \in Seq(Msgs)
    BY LogKnown
  <2>5. \A i \in 1..at : frames[i].c = c /\ frames[i].m.seq = m.seq
          => frames[i].m.stage <= m.stage
    BY ONLY <2>3
  <2>6. Took(log[c], tl[c], tl'[c], send, c, 0, m) /\ tl'[c] # NoData
    BY <1>1, <1>5
  <2>7. at \in Nat /\ Says(log[c], m)
    BY <2>1
  <2>8. UpToDate(log[c], tl'[c], frames, at, c)
    BY ONLY <1>3, <2>2, <2>4, <2>5, <2>6, <2>7, UpToDateTaken
  <2> QED BY ONLY <1>1, <2>8
<1> QED BY <1>4, <1>5

LEMMA ActAnsweredInv ==
    ASSUME ChatInv, ActAnswered
    PROVE  ChatInv'
<1>1. /\ act.st = "served" /\ tl' = tlWith(open, act.m) /\ th' = thWith(open, act.m)
      /\ misfiled' = misfiled \union {c \in {open} : open # act.c}
      /\ drift' = drift \union {c \in {act.c} : Outdated(c, act.s, act.stage)}
      /\ act' = NoWrite /\ UNCHANGED <<log, unpub, frames, fetch, at, open, send, used>>
  BY DEF ActAnswered, SettleChannel, server, stream, screen
<1>2. /\ act.c \in Channels /\ Says(log[act.c], act.m) /\ act.m.seq = act.s
      /\ act.m.stage = act.stage /\ act.stage \in Nat
  BY <1>1 DEF ChatInv, Server, ActSound
<1>3. misfiled \subseteq misfiled' /\ (open # act.c => open \in misfiled')
  BY <1>1
<1>4. /\ ListsTyped'
      /\ \A d \in Channels : d \notin misfiled' =>
            /\ tl'[d] # NoData => Listing(log[d], tl'[d], send, d, 0)
            /\ th'[d] # NoData => Listing(log[d], th'[d], send, d, Root)
  BY <1>1, <1>2, <1>3, AnswerClean
<1>5. Clean'
  BY <1>1, <1>4 DEF Clean, CleanTl, CleanTh
<1>6. Current'
  <2>1. act.m.stage <= act.m.stage /\ act.m.stage \in Nat
    BY <1>2
  <2> QED BY <1>1, <1>2, <1>3, <2>1, AnswerCurrent
<1>7. TabSound'
  <2>1. open \in Channels
    BY DEF ChatInv, TabSound
  <2> QED BY <1>1, <1>2, <2>1 DEF ChatInv, TabSound
<1>8. LogSound' /\ SendSound' /\ FramesSound' /\ Announced' /\ FetchSound'
  BY <1>1 DEF ChatInv, Server, LogSound, SendSound, FramesSound, Announced, FetchSound
<1>9. ActSound'
  BY <1>1 DEF NoWrite, ActSound
<1> QED BY <1>4, <1>5, <1>6, <1>7, <1>8, <1>9 DEF ChatInv, Server

\* A send that ends leaves no copy in its channel.
LEMMA SendEnds ==
    ASSUME ChatInv, send' = NoWrite, log' = log, used' = used,
           UNCHANGED <<frames, unpub, act, fetch, open, at>>,
           misfiled' = misfiled \union {c \in {open, send.c} : open # send.c},
           \A d \in Channels : d \notin misfiled' =>
                /\ tl'[d] # NoData => Listing(log[d], tl'[d], send, d, 0)
                /\ th'[d] # NoData => Listing(log[d], th'[d], send, d, Root),
           open \notin misfiled' =>
                /\ tl'[open] # NoData => \A i \in 1..Len(tl'[open]) : ~ Copy(send, open, 0, tl'[open][i])
                /\ th'[open] # NoData => \A i \in 1..Len(th'[open]) : ~ Copy(send, open, Root, th'[open][i])
    PROVE  Clean' /\ Server' /\ FetchSound'
<1>1. ASSUME NEW d \in Channels, d \notin misfiled'
      PROVE  /\ tl'[d] # NoData => Listing(log[d], tl'[d], send', d, 0)
             /\ th'[d] # NoData => Listing(log[d], th'[d], send', d, Root)
  <2>1. CASE d # open
    <3>1. d # send.c
      BY <1>1, <2>1
    <3>2. \A root, x : ~ Copy(send, d, root, x)
      BY <3>1 DEF Copy
    <3> QED BY <1>1, <3>2, ListingWithout
  <2>2. CASE d = open
    BY <1>1, <2>2, ListingWithout
  <2> QED BY <2>1, <2>2
<1>2. Clean'
  BY <1>1 DEF Clean, CleanTl, CleanTh
<1>3. LogSound'
  <2>1. LogSound
    BY DEF ChatInv, Server
  <2>2. ASSUME NEW c \in Channels PROVE Len(log[c]) + Coming(send') <= used.ids
    <3>1. /\ Len(log[c]) \in Nat /\ Len(log[c]) + Coming(send) <= used.ids
          /\ Coming(send) \in {0, 1} /\ used.ids \in 0..MaxMsgs /\ MaxMsgs \in Nat
      BY LogKnown
    <3>2. Coming(send') = 0
      BY DEF Coming, NoWrite
    <3> QED BY ONLY <3>1, <3>2
  <2> QED BY <2>1, <2>2 DEF LogSound
<1>4. SendSound'
  BY DEF SendSound, NoWrite
<1>5. ActSound' /\ FramesSound' /\ Announced' /\ FetchSound'
  BY DEF ChatInv, Server, ActSound, FramesSound, Announced, FetchSound
<1> QED BY <1>2, <1>3, <1>4, <1>5 DEF Server

LEMMA SendAnsweredInv ==
    ASSUME ChatInv, SendAnswered
    PROVE  ChatInv'
<1>1. /\ send.st = "served" /\ tl' = tlWith(open, send.m) /\ th' = thWith(open, send.m)
      /\ misfiled' = misfiled \union {c \in {open, send.c} : open # send.c}
      /\ drift' = drift \union {c \in {send.c} : Outdated(c, send.m.seq, 0)}
      /\ send' = NoWrite /\ UNCHANGED <<log, unpub, frames, fetch, at, open, act, used>>
  BY DEF SendAnswered, SettleChannel, server, stream, screen
<1>2. /\ send.c \in Channels /\ Says(log[send.c], send.m) /\ send.m.id = send.id
      /\ send.m.root = send.root
  BY <1>1 DEF ChatInv, Server, SendSound
<1>3. misfiled \subseteq misfiled' /\ (open # send.c => open \in misfiled')
  BY <1>1
<1> DEFINE m == send.m
           c == send.c
<1>4. /\ ListsTyped'
      /\ open \notin misfiled' =>
            /\ open = c
            /\ m.root = 0 => Took(log[c], tl[c], tl'[c], send, c, 0, m)
            /\ m.root # 0 => tl'[c] = tl[c]
            /\ \/ Took(log[c], th[c], th'[c], send, c, Root, m)
               \/ m.root # Root /\ th'[c] = th[c]
      /\ \A d \in Channels : d \notin misfiled' =>
            /\ tl'[d] # NoData => Listing(log[d], tl'[d], send, d, 0)
            /\ th'[d] # NoData => Listing(log[d], th'[d], send, d, Root)
  BY <1>1, <1>2, <1>3, AnswerClean
<1>5. m.seq > 0
  BY <1>2 DEF Says
<1>6. ASSUME open \notin misfiled'
      PROVE  /\ tl'[open] # NoData => \A i \in 1..Len(tl'[open]) : ~ Copy(send, open, 0, tl'[open][i])
             /\ th'[open] # NoData => \A i \in 1..Len(th'[open]) : ~ Copy(send, open, Root, th'[open][i])
  <2>1. ASSUME tl'[c] # NoData, NEW i \in 1..Len(tl'[c]), Copy(send, c, 0, tl'[c][i])
        PROVE  FALSE
    <3>1. m.root = 0 /\ tl'[c][i].id = m.id /\ tl'[c][i].seq = 0
      BY <1>2, <2>1 DEF Copy
    <3> QED BY <1>4, <1>5, <1>6, <2>1, <3>1 DEF Took
  <2>2. ASSUME th'[c] # NoData, NEW i \in 1..Len(th'[c]), Copy(send, c, Root, th'[c][i])
        PROVE  FALSE
    <3>1. m.root = Root /\ th'[c][i].id = m.id /\ th'[c][i].seq = 0
      BY <1>2, <2>2 DEF Copy
    <3> QED BY <1>4, <1>5, <1>6, <2>2, <3>1 DEF Took
  <2>3. open = c
    BY <1>4, <1>6
  <2> QED BY <2>1, <2>2, <2>3
<1>7. Clean' /\ Server' /\ FetchSound'
  BY <1>1, <1>4, <1>6, SendEnds
<1>8. Current'
  <2>1. 0 \in Nat /\ 0 <= m.stage
    BY <1>2 DEF Says, Rows
  <2> QED BY <1>1, <1>2, <1>3, <2>1, AnswerCurrent
<1>9. TabSound'
  <2>1. open \in Channels
    BY DEF ChatInv, TabSound
  <2> QED BY <1>1, <1>2, <2>1 DEF ChatInv, TabSound
<1> QED BY <1>4, <1>7, <1>8, <1>9 DEF ChatInv

LEMMA StripKeeps ==
    ASSUME NEW l, NEW q \in Maybe, NEW w, NEW c, NEW root,
           q # NoData => Listing(l, q, w, c, root), NEW b \in strip(q, w.id)
    PROVE  b # NoData =>
              /\ q # NoData /\ b \in Seq(Rows)
              /\ Listing(l, b, w, c, root) /\ \A i \in 1..Len(b) : ~ Copy(w, c, root, b[i])
              /\ \A s, g : (s > 0 /\ Holds(q, s, g)
                              /\ \A i \in 1..Len(q) : q[i].seq = s => q[i].id # w.id)
                           => Holds(b, s, g)
<1>1. CASE q = NoData
  BY <1>1 DEF strip
<1>2. CASE q # NoData
  <2>1. q \in Seq(Rows) /\ Listing(l, q, w, c, root)
    BY <1>2 DEF Maybe
  <2>2. /\ b \in Seq(Rows)
        /\ \A v : Listing(l, b, v, c, root)
        /\ \A s, g : (s > 0 /\ Holds(q, s, g) /\ \A i \in 1..Len(q) : q[i].seq = s => q[i].id # w.id)
                     => Holds(b, s, g)
    BY <1>2, <2>1, StripListing
  <2>3. \A i \in 1..Len(b) : ~ Copy(w, c, root, b[i])
    <3>1. Listing(l, b, NoWrite, c, root)
      BY <2>2
    <3>2. \A i \in 1..Len(b) : Says(l, b[i])
      BY <3>1 DEF Listing, Copy, NoWrite
    <3> QED BY <3>2 DEF Says, Copy
  <2> QED BY <1>2, <2>2, <2>3
<1> QED BY <1>1, <1>2

LEMMA StripTyped ==
    ASSUME NEW q \in Maybe, NEW id, NEW b \in strip(q, id)
    PROVE  b \in Maybe
<1>1. CASE q = NoData
  BY <1>1 DEF strip, Maybe
<1>2. CASE q # NoData
  <2>1. q \in Seq(Rows)
    BY <1>2 DEF Maybe
  <2> QED BY <1>2, <2>1, StripListing DEF Maybe
<1> QED BY <1>1, <1>2

LEMMA SendFailsInv ==
    ASSUME ChatInv, SendFails
    PROVE  ChatInv'
<1>1. PICK a \in strip(tl[open], send.id) : tl' = [tl EXCEPT ![open] = a]
  BY DEF SendFails, SettleChannel
<1>2. PICK b \in strip(th[open], send.id) : th' = [th EXCEPT ![open] = b]
  BY DEF SendFails, SettleChannel
<1>3. /\ send.st \in {"asked", "served"}
      /\ misfiled' = misfiled \union {c \in {open, send.c} : open # send.c}
      /\ drift' = drift \union {c \in {send.c} : send.st = "served"}
      /\ send' = NoWrite /\ UNCHANGED <<log, unpub, frames, fetch, at, open, act, used>>
  BY DEF SendFails, server, stream, screen
<1>4. /\ open \in Channels /\ tl \in [Channels -> Maybe] /\ th \in [Channels -> Maybe]
      /\ tl[open] \in Maybe /\ th[open] \in Maybe
  BY DEF ChatInv, TabSound, ListsTyped, Maybe
<1>5. a \in Maybe /\ b \in Maybe
  BY <1>1, <1>2, <1>4, StripTyped
<1>6. /\ tl'[open] = a /\ th'[open] = b
      /\ \A d \in Channels \ {open} : tl'[d] = tl[d] /\ th'[d] = th[d]
      /\ ListsTyped'
  BY <1>1, <1>2, <1>4, <1>5 DEF ListsTyped, Maybe
<1>7. \A d \in Channels : d \notin misfiled' =>
         /\ tl[d] # NoData => Listing(log[d], tl[d], send, d, 0)
         /\ th[d] # NoData => Listing(log[d], th[d], send, d, Root)
  BY <1>3 DEF ChatInv, Clean, CleanTl, CleanTh
<1>8. ASSUME open \notin misfiled'
      PROVE  /\ open = send.c
             /\ a # NoData =>
                  /\ tl[open] # NoData
                  /\ Listing(log[open], a, send, open, 0)
                  /\ \A i \in 1..Len(a) : ~ Copy(send, open, 0, a[i])
                  /\ \A s, g : (s > 0 /\ Holds(tl[open], s, g)
                                  /\ \A i \in 1..Len(tl[open]) : tl[open][i].seq = s
                                        => tl[open][i].id # send.id)
                               => Holds(a, s, g)
             /\ b # NoData => /\ Listing(log[open], b, send, open, Root)
                              /\ \A i \in 1..Len(b) : ~ Copy(send, open, Root, b[i])
  <2>1. open = send.c
    BY <1>3, <1>8
  <2> DEFINE l == log[open]
  <2>2. /\ tl[open] # NoData => Listing(l, tl[open], send, open, 0)
        /\ th[open] # NoData => Listing(l, th[open], send, open, Root)
    BY <1>4, <1>7, <1>8
  <2> HIDE DEF l
  <2>3. a # NoData =>
           /\ tl[open] # NoData
           /\ Listing(l, a, send, open, 0) /\ \A i \in 1..Len(a) : ~ Copy(send, open, 0, a[i])
           /\ \A s, g : (s > 0 /\ Holds(tl[open], s, g)
                           /\ \A i \in 1..Len(tl[open]) : tl[open][i].seq = s
                                 => tl[open][i].id # send.id)
                        => Holds(a, s, g)
    BY <1>4, <2>2, StripKeeps
  <2>4. b # NoData => /\ Listing(l, b, send, open, Root)
                      /\ \A i \in 1..Len(b) : ~ Copy(send, open, Root, b[i])
    BY <1>4, <2>2, StripKeeps
  <2> QED BY <2>1, <2>3, <2>4 DEF l
<1>9. Clean' /\ Server' /\ FetchSound'
  <2>1. \A d \in Channels : d \notin misfiled' =>
           /\ tl'[d] # NoData => Listing(log[d], tl'[d], send, d, 0)
           /\ th'[d] # NoData => Listing(log[d], th'[d], send, d, Root)
    BY <1>6, <1>7, <1>8
  <2>2. open \notin misfiled' =>
           /\ tl'[open] # NoData => \A i \in 1..Len(tl'[open]) : ~ Copy(send, open, 0, tl'[open][i])
           /\ th'[open] # NoData => \A i \in 1..Len(th'[open]) : ~ Copy(send, open, Root, th'[open][i])
    BY <1>6, <1>8
  <2> QED BY <1>3, <2>1, <2>2, SendEnds
<1>10. Current'
  <2> SUFFICES ASSUME fetch[<<"timeline", open>>].st = "idle", open \notin drift' \union misfiled',
                      tl'[open] # NoData
               PROVE  UpToDate(log[open], a, frames, at, open)
    BY <1>3, <1>6 DEF Current
  <2>1. /\ open = send.c /\ send.st = "asked" /\ a # NoData /\ tl[open] # NoData
        /\ open \notin drift \union misfiled
    BY <1>3, <1>6, <1>8
  <2>2. UpToDate(log[open], tl[open], frames, at, open)
    BY <2>1 DEF ChatInv, Current
  <2>3. Listing(log[open], tl[open], send, open, 0)
    BY <1>4, <1>7, <2>1
  <2>4. \A i \in 1..Len(log[open]) : log[open][i].id # send.id
    BY <2>1 DEF ChatInv, Server, SendSound
  <2> SUFFICES ASSUME NEW i \in 1..at, frames[i].c = open, frames[i].m.root = 0,
                      frames[i].m.stage = log[open][frames[i].m.seq].stage
               PROVE  Holds(a, frames[i].m.seq, frames[i].m.stage)
    BY DEF UpToDate
  <2> DEFINE s == frames[i].m.seq
  <2>5. s > 0 /\ Holds(tl[open], s, frames[i].m.stage)
    <3>1. i \in 1..Len(frames)
      BY DEF ChatInv, Server, TabSound, FramesSound
    <3>2. Says(log[open], frames[i].m)
      BY <3>1 DEF ChatInv, Server, FramesSound
    <3>3. s > 0
      BY ONLY <3>2 DEF Says
    <3>4. Holds(tl[open], s, frames[i].m.stage)
      BY <2>2 DEF UpToDate
    <3> QED BY <3>3, <3>4
  <2> HIDE DEF s
  <2>6. ASSUME NEW j \in 1..Len(tl[open]), tl[open][j].seq = s
        PROVE  tl[open][j].id # send.id
    <3>1. Says(log[open], tl[open][j])
      BY <2>3, <2>5, <2>6 DEF Listing, Copy
    <3> QED BY <2>4, <3>1 DEF Says
  <2> QED BY <1>3, <1>8, <2>1, <2>5, <2>6 DEF s
<1>11. TabSound'
  <2>1. send.c \in Channels
    BY <1>3 DEF ChatInv, Server, SendSound
  <2> QED BY <1>3, <2>1 DEF ChatInv, TabSound
<1> QED BY <1>6, <1>9, <1>10, <1>11 DEF ChatInv

LEMMA SendInv ==
    ASSUME ChatInv, NEW root \in {0, Root}, Send(root)
    PROVE  ChatInv'
<1> DEFINE id == used.ids + 1
           m == Pending(id, root)
           w == [st |-> "asked", id |-> id, c |-> open, root |-> root]
<1>1. /\ send.st = "none" /\ used.ids < MaxMsgs /\ send' = w
      /\ tl' = tlWith(open, m) /\ th' = thWith(open, m)
      /\ used' = [used EXCEPT !.ids = used.ids + 1]
      /\ UNCHANGED <<log, unpub, frames, at, open, fetch, act, misfiled, drift>>
  BY DEF Send, Posted, server, stream, screen, races
<1>2. used' \in Uses /\ used'.ids = id /\ id \in Nat /\ used.ids \in Nat /\ open \in Channels
  <2>1. open \in Channels
    BY DEF ChatInv, TabSound
  <2> QED BY <1>1, <2>1, LogKnown DEF Uses
<1>3. m \in Rows /\ m.seq = 0 /\ m.root = root /\ m.id = id
  BY <1>2, BoundsAssumption DEF Pending, Rows
<1>4. w.st = "asked" /\ w.id = id /\ w.c = open /\ w.root = root
  OBVIOUS
<1>5. NewTo(log[open], id)
  <2>1. used.ids \in Nat /\ \A i \in 1..Len(log[open]) : log[open][i].id \in 1..used.ids
    BY <1>2, LogKnown
  <2> QED BY <2>1 DEF NewTo
<1> HIDE DEF m, w
<1>6. /\ tl' \in [Channels -> Maybe] /\ th' \in [Channels -> Maybe]
      /\ \A d \in Channels \ {open} : tl'[d] = tl[d] /\ th'[d] = th[d]
      /\ tl'[open] = IF root = 0 THEN Upserted(tl[open], m) ELSE tl[open]
      /\ th'[open] = IF root = Root THEN Upserted(th[open], m) ELSE th[open]
  <2>1. ListsTyped
    BY DEF ChatInv
  <2>2. m.seq # Root
    BY <1>3 DEF Root
  <2> QED BY <1>1, <1>2, <1>3, <2>1, <2>2, ListsTake
<1>7. ListsTyped'
  BY <1>6 DEF ListsTyped, Maybe
<1>8. \A d \in Channels : d \notin misfiled =>
         /\ tl[d] # NoData => Listing(log[d], tl[d], send, d, 0)
         /\ th[d] # NoData => Listing(log[d], th[d], send, d, Root)
  BY DEF ChatInv, Clean, CleanTl, CleanTh
\* Before it no list has a copy.
<1>9. ASSUME NEW l, NEW q, NEW d, NEW r, Listing(l, q, send, d, r)
      PROVE  Listing(l, q, send', d, r)
  <2>1. \A x : ~ Copy(send, d, r, x)
    BY <1>1 DEF Copy
  <2> QED BY <1>9, <2>1, ListingWithout
\* The list the copy goes to.
<1>10. ASSUME NEW q \in Maybe, q # NoData => Listing(log[open], q, send, open, root),
              NEW u, u = Upserted(q, m), u # NoData
       PROVE  /\ q # NoData /\ Listing(log[open], u, send', open, root)
              /\ \A s, g : Holds(q, s, g) => Holds(u, s, g)
  <2>1. q # NoData
    BY <1>10 DEF Upserted
  <2>2. q \in Seq(Rows) /\ u = upsertIntoList(q, m)
    BY <1>10, <2>1 DEF Upserted, Maybe
  <2>3. Copy(send', open, root, m)
    BY <1>1, <1>3, <1>4 DEF Copy
  <2>4. \A i \in 1..Len(log[open]) : log[open][i].id # m.id
    BY <1>3, <1>5 DEF NewTo
  <2> QED BY <1>1, <1>3, <1>10, <2>1, <2>2, <2>3, <2>4, UpsertCopy
<1>11. tl[open] \in Maybe /\ th[open] \in Maybe
  BY <1>2 DEF ChatInv, ListsTyped, Maybe
<1>12. Clean'
  <2>1. ASSUME NEW d \in Channels, d \notin misfiled
        PROVE  /\ tl'[d] # NoData => Listing(log[d], tl'[d], send', d, 0)
               /\ th'[d] # NoData => Listing(log[d], th'[d], send', d, Root)
    <3>1. CASE d # open
      BY <1>6, <1>8, <1>9, <2>1, <3>1
    <3>2. CASE d = open /\ root = 0
      <4>1. tl'[d] = Upserted(tl[d], m) /\ th'[d] = th[d]
        BY <1>6, <3>2 DEF Root
      <4> QED BY <1>8, <1>9, <1>10, <1>11, <2>1, <3>2, <4>1
    <3>3. CASE d = open /\ root = Root
      <4>1. th'[d] = Upserted(th[d], m) /\ tl'[d] = tl[d]
        BY <1>6, <3>3 DEF Root
      <4> QED BY <1>8, <1>9, <1>10, <1>11, <2>1, <3>3, <4>1
    <3> QED BY <3>1, <3>2, <3>3
  <2> QED BY <1>1, <2>1 DEF Clean, CleanTl, CleanTh
<1>13. Current'
  <2> SUFFICES ASSUME fetch[<<"timeline", open>>].st = "idle", open \notin drift \union misfiled,
                      tl'[open] # NoData
               PROVE  UpToDate(log[open], tl'[open], frames, at, open)
    BY <1>1 DEF Current
  <2>1. tl[open] # NoData /\ \A s, g : Holds(tl[open], s, g) => Holds(tl'[open], s, g)
    <3>1. CASE root = 0
      BY <1>2, <1>6, <1>8, <1>10, <1>11, <3>1
    <3>2. CASE root = Root
      BY <1>6, <3>2 DEF Root
    <3> QED BY <3>1, <3>2
  <2>2. UpToDate(log[open], tl[open], frames, at, open)
    BY <2>1 DEF ChatInv, Current
  <2> QED BY <2>1, <2>2 DEF UpToDate
<1>14. LogSound'
  <2>1. LogSound
    BY DEF ChatInv, Server
  <2>2. ASSUME NEW c \in Channels
        PROVE  LogOf(log[c], id) /\ Len(log[c]) + Coming(send') <= id
    <3>1. /\ log[c] \in Seq(Msgs) /\ Distinct(log[c]) /\ Len(log[c]) \in Nat
          /\ \A i \in 1..Len(log[c]) : log[c][i].id \in 1..used.ids
          /\ Len(log[c]) + Coming(send) <= used.ids /\ Coming(send) \in {0, 1}
      BY LogKnown
    <3>2. Coming(send') = 1
      BY <1>1, <1>4 DEF Coming
    <3>3. \A i \in 1..Len(log[c]) : log[c][i].id \in 1..id
      BY <1>2, <3>1
    <3>4. Len(log[c]) + Coming(send') <= id
      BY <1>2, <3>1, <3>2
    <3> QED BY <3>1, <3>3, <3>4 DEF LogOf
  <2> HIDE DEF id
  <2>3. \A c \in Channels : LogOf(log'[c], used'.ids) /\ Len(log'[c]) + Coming(send') <= used'.ids
    BY <1>1, <1>2, <2>2
  <2>4. DOMAIN log' = Channels
    BY <1>1, <2>1 DEF LogSound
  <2> QED BY <1>2, <2>3, <2>4 DEF LogSound, Uses
<1>15. SendSound'
  <2>1. id \in 1..used'.ids
    BY <1>2
  <2> HIDE DEF id
  <2> QED BY <1>1, <1>2, <1>4, <1>5, <2>1 DEF SendSound, NewTo
<1>16. ActSound' /\ FramesSound' /\ Announced' /\ FetchSound' /\ TabSound'
  BY <1>1 DEF ChatInv, Server, ActSound, FramesSound, Announced, FetchSound, TabSound
<1> QED BY <1>7, <1>12, <1>13, <1>14, <1>15, <1>16 DEF ChatInv, Server

\* The counters of the roots change, and nothing else of the list.
LEMMA BumpKeeps ==
    ASSUME NEW q \in Maybe, NEW m \in Rows, NEW delta, NEW b, b = bumpRootCounters(q, m, delta)
    PROVE  /\ b \in Maybe
           /\ b # NoData =>
                /\ q # NoData
                /\ \A l, w, c, root : Listing(l, q, w, c, root) => Listing(l, b, w, c, root)
                /\ \A s, g : Holds(q, s, g) => Holds(b, s, g)
<1>1. CASE q = NoData
  BY <1>1 DEF bumpRootCounters, Maybe
<1>2. CASE q # NoData
  <2>1. q \in Seq(Rows)
    BY <1>2 DEF Maybe
  <2>2. Alike(q, b)
    BY <1>2, <2>1, BumpAlike
  <2>3. b \in Maybe
    BY <2>2 DEF Alike, Maybe
  <2>4. \A l, w, c, root : Listing(l, q, w, c, root) => Listing(l, b, w, c, root)
    BY <2>1, <2>2, AlikeListing
  <2>5. \A s, g : Holds(q, s, g) => Holds(b, s, g)
    BY <2>1, <2>2, AlikeListing
  <2> QED BY <1>2, <2>3, <2>4, <2>5
<1> QED BY <1>1, <1>2

LEMMA DeliverInv ==
    ASSUME ChatInv, Deliver
    PROVE  ChatInv'
<1> DEFINE f == frames[at + 1]
           c == f.c
           m == f.m
           t == tlWith(c, m)
<1>1. /\ at < Len(frames) /\ applyFrame(f) /\ at' = at + 1
      /\ drift' = drift \union {d \in {c} : Outdated(d, m.seq, m.stage)}
      /\ UNCHANGED <<log, unpub, frames, open, fetch, send, act, used, misfiled>>
  BY DEF Deliver, server, screen, writes
<1>2. /\ at \in Nat /\ Len(frames) \in Nat /\ at + 1 \in 1..Len(frames)
      /\ open \in Channels /\ frames \in Seq(Frames)
  BY <1>1 DEF ChatInv, Server, TabSound, FramesSound
<1>3. f \in Frames /\ Says(log[c], m)
  BY <1>2 DEF ChatInv, Server, FramesSound
<1>4. c \in Channels /\ m \in Rows
  BY <1>3 DEF Frames
<1>5. /\ th' = thWith(c, m)
      /\ \/ tl' = t
         \/ \E delta \in {0, 1} : tl' = [t EXCEPT ![c] = bumpRootCounters(t[c], m, delta)]
  <2>1. /\ th' = thWith(c, m)
        /\ tl' = CASE f.type = "created" -> [t EXCEPT ![c] = bumpRootCounters(@, m, 1)]
                   [] f.type = "deleted" -> [t EXCEPT ![c] = bumpRootCounters(@, m, 0)]
                   [] OTHER -> t
    BY <1>1 DEF applyFrame
  <2> HIDE DEF f, t
  <2> QED BY <2>1
<1> HIDE DEF f, t
<1>6. /\ t \in [Channels -> Maybe] /\ th' \in [Channels -> Maybe]
      /\ \A d \in Channels \ {c} : t[d] = tl[d] /\ th'[d] = th[d]
      /\ t[c] = IF m.root = 0 THEN Upserted(tl[c], m) ELSE tl[c]
      /\ th'[c] = IF m.root = Root \/ m.seq = Root THEN Upserted(th[c], m) ELSE th[c]
  <2>1. ListsTyped
    BY DEF ChatInv
  <2> QED BY <1>4, <1>5, <2>1, ListsTake DEF t
\* The timeline as it is after the counters.
<1>7. /\ tl' \in [Channels -> Maybe] /\ \A d \in Channels \ {c} : tl'[d] = tl[d]
      /\ tl'[c] # NoData =>
           /\ t[c] # NoData
           /\ \A l, w, d, root : Listing(l, t[c], w, d, root) => Listing(l, tl'[c], w, d, root)
           /\ \A s, g : Holds(t[c], s, g) => Holds(tl'[c], s, g)
  <2>1. CASE tl' = t
    BY <1>6, <2>1
  <2>2. CASE \E delta \in {0, 1} : tl' = [t EXCEPT ![c] = bumpRootCounters(t[c], m, delta)]
    <3>1. PICK delta : tl' = [t EXCEPT ![c] = bumpRootCounters(t[c], m, delta)]
      BY <2>2
    <3> DEFINE b == bumpRootCounters(t[c], m, delta)
    <3>2. t[c] \in Maybe
      BY <1>4, <1>6
    <3>3. /\ b \in Maybe
          /\ b # NoData =>
                /\ t[c] # NoData
                /\ \A l, w, d, root : Listing(l, t[c], w, d, root) => Listing(l, b, w, d, root)
                /\ \A s, g : Holds(t[c], s, g) => Holds(b, s, g)
      BY <1>4, <3>2, BumpKeeps
    <3> HIDE DEF b
    <3>4. tl' = [t EXCEPT ![c] = b]
      BY <3>1 DEF b
    <3>5. tl'[c] = b /\ tl' \in [Channels -> Maybe] /\ \A d \in Channels \ {c} : tl'[d] = t[d]
      BY <1>4, <1>6, <3>3, <3>4
    <3> QED BY <1>6, <3>3, <3>5
  <2> QED BY <1>5, <2>1, <2>2
<1>8. ListsTyped'
  BY <1>6, <1>7 DEF ListsTyped, Maybe
<1>9. /\ \A d \in Channels : tl[d] \in Maybe /\ th[d] \in Maybe
      /\ log[c] \in Seq(Msgs) /\ Distinct(log[c])
  <2>1. ListsTyped
    BY DEF ChatInv
  <2> QED BY <1>4, <2>1, LogKnown DEF ListsTyped, Maybe
<1>10. \A d \in Channels : d \notin misfiled =>
         /\ tl[d] # NoData => Listing(log[d], tl[d], send, d, 0)
         /\ th[d] # NoData => Listing(log[d], th[d], send, d, Root)
  BY DEF ChatInv, Clean, CleanTl, CleanTh
<1>11. ASSUME c \notin misfiled
       PROVE  /\ m.root = 0 => Took(log[c], tl[c], t[c], send, c, 0, m)
              /\ \/ Took(log[c], th[c], th'[c], send, c, Root, m)
                 \/ th'[c] = th[c]
  <2>1. /\ tl[c] # NoData => Listing(log[c], tl[c], send, c, 0)
        /\ th[c] # NoData => Listing(log[c], th[c], send, c, Root)
    BY <1>4, <1>10, <1>11
  <2>2. m.root = 0 => Took(log[c], tl[c], t[c], send, c, 0, m)
    BY <1>3, <1>4, <1>6, <1>9, <2>1, UpsertedTakes
  <2>3. ASSUME m.root = Root \/ m.seq = Root
        PROVE  Took(log[c], th[c], th'[c], send, c, Root, m)
    <3>1. th'[c] = Upserted(th[c], m) /\ Root # 0
      BY <1>6, <2>3 DEF Root
    <3> QED BY <1>3, <1>4, <1>9, <2>1, <3>1, UpsertedTakes
  <2> QED BY <1>6, <2>2, <2>3
<1>12. Clean'
  <2>1. ASSUME NEW d \in Channels, d \notin misfiled
        PROVE  /\ tl'[d] # NoData => Listing(log[d], tl'[d], send, d, 0)
               /\ th'[d] # NoData => Listing(log[d], th'[d], send, d, Root)
    <3>1. CASE d # c
      BY <1>6, <1>7, <1>10, <2>1, <3>1
    <3>2. CASE d = c
      <4>1. th'[c] # NoData => Listing(log[c], th'[c], send, c, Root)
        BY <1>4, <1>10, <1>11, <2>1, <3>2 DEF Took
      <4>2. t[c] # NoData => Listing(log[c], t[c], send, c, 0)
        BY <1>4, <1>6, <1>10, <1>11, <2>1, <3>2 DEF Took
      <4> QED BY <1>7, <3>2, <4>1, <4>2
    <3> QED BY <3>1, <3>2
  <2> QED BY <1>1, <2>1 DEF Clean, CleanTl, CleanTh
<1>13. Current'
  <2> SUFFICES ASSUME fetch[<<"timeline", open>>].st = "idle", open \notin drift' \union misfiled,
                      tl'[open] # NoData
               PROVE  UpToDate(log[open], tl'[open], frames, at + 1, open)
    BY <1>1 DEF Current
  <2>0. open \notin drift \union misfiled
    BY <1>1
  <2>1. tl[open] # NoData => UpToDate(log[open], tl[open], frames, at, open)
    BY <2>0 DEF ChatInv, Current
  <2>2. \A i \in 1..(at + 1) : i \in 1..at \/ i = at + 1
    BY <1>2
  <2>3. CASE open # c
    <3>1. tl'[open] = tl[open]
      BY <1>2, <1>7, <2>3
    <3>2. \A i \in 1..(at + 1) : frames[i].c = open => i \in 1..at
      BY <2>2, <2>3 DEF f
    <3> QED BY <2>1, <3>1, <3>2 DEF UpToDate
  <2>4. CASE open = c /\ m.root # 0
    <3>1. t[c] = tl[c] /\ tl[c] # NoData
      BY <1>6, <1>7, <2>4
    <3>2. \A i \in 1..(at + 1) : frames[i].c = open /\ frames[i].m.root = 0 => i \in 1..at
      BY <2>2, <2>4 DEF f
    <3>3. \A s, g : Holds(tl[open], s, g) => Holds(tl'[open], s, g)
      BY <1>7, <2>4, <3>1
    <3> QED BY <2>1, <2>4, <3>1, <3>2, <3>3 DEF UpToDate
  <2>5. CASE open = c /\ m.root = 0
    <3>1. Took(log[c], tl[c], t[c], send, c, 0, m) /\ t[c] # NoData
      BY <1>7, <1>11, <2>0, <2>5
    <3>2. tl[c] # NoData
      BY <3>1 DEF Took
    <3>3. \A i \in 1..at : frames[i].c = c => Says(log[c], frames[i].m)
      BY <1>2 DEF ChatInv, Server, FramesSound
    <3>4. ASSUME NEW i \in 1..at, frames[i].c = c, frames[i].m.seq = m.seq
          PROVE  frames[i].m.stage <= m.stage
      <4>1. ~ (frames[i].m.stage > m.stage)
        BY <1>1, <2>5, <3>4 DEF Outdated
      <4>2. frames[i].m.stage \in Int /\ m.stage \in Int
        <5>1. frames[i].m \in Rows
          BY <3>3, <3>4 DEF Says
        <5>2. \A x \in Rows : x.stage \in Int
          BY DEF Rows
        <5> QED BY <1>4, <5>1, <5>2
      <4> QED BY ONLY <4>1, <4>2
    <3>5. UpToDate(log[c], tl[c], frames, at, c)
      BY <2>1, <2>5, <3>2
    <3>6. UpToDate(log[c], t[c], frames, at, c)
      <4>1. \A i \in 1..at : frames[i].c = c /\ frames[i].m.seq = m.seq
              => frames[i].m.stage <= m.stage
        BY ONLY <3>4
      <4>2. at \in Nat /\ Says(log[c], m) /\ log[c] \in Seq(Msgs)
        BY ONLY <1>2, <1>3, <1>9
      <4> QED BY ONLY <3>1, <3>3, <3>5, <4>1, <4>2, UpToDateTaken
    <3>7. Holds(t[c], m.seq, m.stage)
      BY <3>1 DEF Took
    <3>8. UpToDate(log[c], t[c], frames, at + 1, c)
      BY <2>2, <3>6, <3>7 DEF UpToDate, f
    <3>9. \A s, g : Holds(t[c], s, g) => Holds(tl'[c], s, g)
      BY <1>7, <2>5
    <3> QED BY <2>5, <3>8, <3>9 DEF UpToDate
  <2> QED BY <2>3, <2>4, <2>5
<1>14. TabSound'
  <2>1. TabSound
    BY DEF ChatInv
  <2>2. at + 1 \in 0..Len(frames)
    BY <1>2
  <2>3. drift' \union misfiled \subseteq Channels
    BY <1>1, <1>4, <2>1 DEF TabSound
  <2> QED BY <1>1, <1>2, <2>2, <2>3 DEF TabSound
<1>15. Server' /\ FetchSound'
  BY <1>1 DEF ChatInv, Server, LogSound, SendSound, ActSound, FramesSound, Announced, FetchSound
<1> QED BY <1>8, <1>12, <1>13, <1>14, <1>15 DEF ChatInv

LEMMA ApplyFetchInv ==
    ASSUME ChatInv, NEW k \in Keys, ApplyFetch(k)
    PROVE  ChatInv'
<1> DEFINE c == k[2]
           q == fetch[k].snap
<1>1. /\ fetch[k].st = "ready" /\ fetch' = [fetch EXCEPT ![k] = IdleFetch]
      /\ UNCHANGED <<log, unpub, frames, at, open, send, act, used>>
  BY DEF ApplyFetch, server, stream, screen, writes
<1>2. /\ k[1] = "timeline" =>
           /\ tl' = [tl EXCEPT ![c] = q] /\ th' = th
           /\ drift' = IF Overtaken(k) THEN drift \union {c} ELSE drift \ {c}
           /\ misfiled' = misfiled \ {d \in {c} : th[d] = NoData}
      /\ k[1] # "timeline" =>
           th' = [th EXCEPT ![c] = q] /\ tl' = tl /\ drift' = drift /\ misfiled' = misfiled
  BY DEF ApplyFetch, races
<1>3. FetchSound /\ fetch \in [Keys -> Fetches] /\ c \in Channels /\ k = <<k[1], c>>
  BY DEF ChatInv, FetchSound, Keys
<1>4. /\ q \in Seq(Rows) /\ fetch[k].upto \in Nat /\ fetch[k].upto <= Len(frames)
      /\ SnapOk(log[c], q, IF k[1] = "timeline" THEN 0 ELSE Root)
      /\ k[1] = "timeline" => Covers(q, frames, fetch[k].upto, c)
  <2>1. fetch[k] \in Fetches
    BY <1>3
  <2>2. q \in Seq(Rows) /\ fetch[k].upto \in Nat
    BY <2>1 DEF Fetches
  <2> QED BY <1>1, <1>3, <2>2 DEF FetchSound
<1> HIDE DEF q, c
<1>5. tl \in [Channels -> Maybe] /\ th \in [Channels -> Maybe]
  BY DEF ChatInv, ListsTyped, Maybe
<1>6. ListsTyped'
  <2>1. q \in Maybe
    BY <1>4 DEF Maybe
  <2>2. tl' \in [Channels -> Maybe] /\ th' \in [Channels -> Maybe]
    BY <1>2, <1>3, <1>5, <2>1
  <2> QED BY <2>2 DEF ListsTyped, Maybe
<1>7. \A d \in Channels : d \notin misfiled =>
         /\ tl[d] # NoData => Listing(log[d], tl[d], send, d, 0)
         /\ th[d] # NoData => Listing(log[d], th[d], send, d, Root)
  BY DEF ChatInv, Clean, CleanTl, CleanTh
<1>8. Clean'
  <2>1. ASSUME NEW d \in Channels, d \notin misfiled'
        PROVE  /\ tl'[d] # NoData => Listing(log[d], tl'[d], send, d, 0)
               /\ th'[d] # NoData => Listing(log[d], th'[d], send, d, Root)
    <3>1. CASE d # c
      <4>1. tl'[d] = tl[d] /\ th'[d] = th[d] /\ d \notin misfiled
        BY <1>2, <1>5, <2>1, <3>1
      <4> QED BY <1>7, <4>1
    <3>2. CASE d = c /\ k[1] = "timeline"
      <4>1. tl'[c] = q /\ th' = th
        BY <1>2, <1>3, <1>5, <3>2
      <4>2. Listing(log[c], q, send, c, 0)
        BY <1>4, <3>2, SnapListing
      <4>3. c \in misfiled => th[c] = NoData
        BY <1>2, <2>1, <3>2
      <4> QED BY <1>3, <1>7, <3>2, <4>1, <4>2, <4>3
    <3>3. CASE d = c /\ k[1] # "timeline"
      <4>1. th'[c] = q /\ tl' = tl /\ misfiled' = misfiled
        BY <1>2, <1>3, <1>5, <3>3
      <4>2. Listing(log[c], q, send, c, Root)
        BY <1>4, <3>3, SnapListing
      <4> QED BY <1>3, <1>7, <2>1, <3>3, <4>1, <4>2
    <3> QED BY <3>1, <3>2, <3>3
  <2> QED BY <1>1, <2>1 DEF Clean, CleanTl, CleanTh
<1>9. FetchSound'
  <2>1. IdleFetch \in Fetches /\ IdleFetch.st # "ready"
    <3>1. <<>> \in Seq(Rows)
      OBVIOUS
    <3> QED BY <3>1 DEF IdleFetch, Fetches
  <2> QED BY <1>1, <1>3, <2>1, FetchKeeps
<1>10. Current'
  <2>1. open \in Channels /\ <<"timeline", open>> \in Keys
    BY KeyOf DEF ChatInv, TabSound
  <2>2. CASE k = <<"timeline", open>>
    <3>1. k[1] = "timeline" /\ c = open
      BY <2>2 DEF c
    <3>2. tl'[open] = q
      BY <1>2, <1>5, <2>1, <3>1
    <3> SUFFICES ASSUME open \notin drift'
                 PROVE  UpToDate(log[open], q, frames, at, open)
      BY <1>1, <3>2 DEF Current
    <3>3. ~ Overtaken(k)
      BY <1>2, <3>1
    <3> SUFFICES ASSUME NEW i \in 1..at, frames[i].c = open, frames[i].m.root = 0,
                        frames[i].m.stage = log[open][frames[i].m.seq].stage
                 PROVE  Holds(q, frames[i].m.seq, frames[i].m.stage)
      BY DEF UpToDate
    <3>4. i \in 1..fetch[k].upto
      <4>1. i \notin (fetch[k].upto + 1)..at
        BY <3>1, <3>3 DEF Overtaken, c
      <4>2. at \in Nat
        BY DEF ChatInv, Server, TabSound, FramesSound
      <4> QED BY <1>4, <4>1, <4>2
    <3>5. PICK j \in 1..Len(q) : q[j].seq = frames[i].m.seq /\ frames[i].m.stage <= q[j].stage
      BY <1>4, <3>1, <3>4 DEF Covers
    <3>6. Says(log[open], q[j])
      BY <1>4, <3>1 DEF SnapOk
    <3>7. q[j].stage <= frames[i].m.stage
      BY <3>5, <3>6 DEF Says
    <3>8. q[j].stage \in Int /\ frames[i].m.stage \in Int
      <4>1. i \in 1..Len(frames) /\ frames \in Seq(Frames)
        BY DEF ChatInv, Server, TabSound, FramesSound
      <4>2. frames[i] \in Frames
        BY <4>1
      <4>3. frames[i].m \in Rows /\ q[j] \in Rows
        BY <3>6, <4>2 DEF Says, Frames
      <4>4. \A x \in Rows : x.stage \in Int
        BY DEF Rows
      <4> QED BY <4>3, <4>4
    <3>9. q[j].stage = frames[i].m.stage
      BY ONLY <3>5, <3>7, <3>8
    <3> QED BY <3>5, <3>9 DEF Holds
  <2>3. CASE k # <<"timeline", open>>
    <3>1. fetch'[<<"timeline", open>>] = fetch[<<"timeline", open>>]
      BY <1>1, <1>3, <2>1, <2>3
    <3>2. k[1] = "timeline" => c # open
      BY <1>3, <2>3
    <3>3. /\ tl'[open] = tl[open]
          /\ open \notin drift' \union misfiled' => open \notin drift \union misfiled
      BY <1>2, <1>5, <2>1, <3>2
    <3> QED BY <1>1, <3>1, <3>3 DEF ChatInv, Current
  <2> QED BY <2>2, <2>3
<1>11. TabSound'
  <2>1. TabSound
    BY DEF ChatInv
  <2>2. drift' \subseteq drift \union {c} /\ misfiled' \subseteq misfiled
    BY <1>2
  <2> QED BY <1>1, <1>3, <2>1, <2>2 DEF TabSound
<1>12. Server'
  BY <1>1 DEF ChatInv, Server, LogSound, SendSound, ActSound, FramesSound, Announced
<1> QED BY <1>6, <1>8, <1>9, <1>10, <1>11, <1>12 DEF ChatInv

-----------------------------------------------------------------------------
(* The invariant, and what follows from it.                                *)

LEMMA ChatInvInit == Init => ChatInv
<1> SUFFICES ASSUME Init PROVE ChatInv
  OBVIOUS
<1>1. /\ log = [c \in Channels |-> <<>>] /\ unpub = {} /\ frames = <<>>
      /\ at = 0 /\ open \in Channels /\ send = NoWrite /\ act = NoWrite
      /\ tl = [c \in Channels |-> NoData] /\ th = [c \in Channels |-> NoData]
      /\ used = [ids |-> 0, changes |-> 0, fetches |-> 1, drops |-> 0]
      /\ misfiled = {} /\ drift = {}
  BY DEF Init
<1>2. LogSound
  <2>1. used \in Uses /\ used.ids = 0
    BY <1>1, BoundsAssumption DEF Uses
  <2>2. \A c \in Channels : log[c] = <<>>
    BY <1>1
  <2>3. LogOf(<<>>, 0) /\ Len(<<>>) = 0
    BY DEF LogOf, Distinct
  <2>4. Coming(send) = 0
    BY <1>1 DEF Coming, NoWrite
  <2>5. DOMAIN log = Channels
    BY <1>1
  <2>6. \A c \in Channels : LogOf(log[c], used.ids) /\ Len(log[c]) + Coming(send) <= used.ids
    BY <2>1, <2>2, <2>3, <2>4
  <2> QED BY <2>1, <2>5, <2>6 DEF LogSound, Uses
<1>3. SendSound /\ ActSound
  BY <1>1 DEF SendSound, ActSound, NoWrite
<1>4. FramesSound /\ Announced /\ TabSound
  BY <1>1 DEF FramesSound, Announced, TabSound
<1>5. FetchSound
  <2>1. <<>> \in Seq(Rows)
    OBVIOUS
  <2>2. IdleFetch \in Fetches /\ [IdleFetch EXCEPT !.st = "asked"] \in Fetches
        /\ IdleFetch.st # "ready" /\ [IdleFetch EXCEPT !.st = "asked"].st # "ready"
    BY <2>1 DEF IdleFetch, Fetches
  <2>3. fetch = [k \in Keys |-> IF k = <<"timeline", open>> THEN [IdleFetch EXCEPT !.st = "asked"]
                                ELSE IdleFetch]
    BY DEF Init
  <2> QED BY <2>2, <2>3 DEF FetchSound
<1>6. ListsTyped /\ Clean
  BY <1>1 DEF ListsTyped, Clean, CleanTl, CleanTh
<1>7. Current
  BY <1>1 DEF Current
<1> QED BY <1>2, <1>3, <1>4, <1>5, <1>6, <1>7 DEF ChatInv, Server

LEMMA ChatInvNext == ChatInv /\ [Next]_vars => ChatInv'
<1> SUFFICES ASSUME ChatInv, [Next]_vars PROVE ChatInv'
  OBVIOUS
<1>1. ASSUME NEW c \in Channels, NEW r \in {0, Root}, OtherPosts(c, r) PROVE ChatInv'
  BY <1>1, OtherPostsInv
<1>2. ASSUME NEW c \in Channels, NEW s \in 1..MaxMsgs, NEW g \in 1..2, OtherChanges(c, s, g)
      PROVE ChatInv'
  BY <1>2, OtherChangesInv
<1>3. ASSUME NEW f \in unpub, Publish(f) PROVE ChatInv'
  BY <1>3, PublishInv
<1>4. ASSUME NEW r \in {0, Root}, Send(r) PROVE ChatInv'
  BY <1>4, SendInv
<1>5. ASSUME NEW s \in 1..MaxMsgs, NEW g \in 1..2, Act(s, g) PROVE ChatInv'
  BY <1>5, ActInv
<1>6. CASE ServeSend
  BY <1>6, ServeSendInv
<1>7. CASE SendAnswered
  BY <1>7, SendAnsweredInv
<1>8. CASE SendFails
  BY <1>8, SendFailsInv
<1>9. CASE ServeAct
  BY <1>9, ServeActInv
<1>10. CASE ActAnswered
  BY <1>10, ActAnsweredInv
<1>11. CASE ActFails
  BY <1>11, ActFailsInv
<1>12. ASSUME NEW c \in Channels, OpenChannel(c) PROVE ChatInv'
  BY <1>12, OpenChannelInv
<1>13. CASE OpenThread
  BY <1>13, OpenThreadInv
<1>14. CASE CloseThread
  BY <1>14, CloseThreadInv
<1>15. ASSUME NEW k \in Keys, Poll(k) \/ ServeFetch(k) \/ FetchFails(k) \/ ApplyFetch(k)
       PROVE ChatInv'
  BY <1>15, PollInv, ServeFetchInv, FetchFailsInv, ApplyFetchInv
<1>16. CASE Deliver
  BY <1>16, DeliverInv
<1>17. CASE StreamBreaks
  BY <1>17, StreamBreaksInv
<1>18. CASE StreamOpens
  BY <1>18, StreamOpensInv
<1>19. CASE StreamResets
  BY <1>19, StreamResetsInv
<1>20. CASE UNCHANGED vars
  <2>1. /\ UNCHANGED <<log, unpub, frames, tl, th, send, act, misfiled, drift, fetch, at, open>>
        /\ used' = used
    BY <1>20 DEF vars, server, stream, screen, caches, writes, races
  <2> QED BY <2>1, QuietInv, UsesMore
<1> QED BY <1>1, <1>2, <1>3, <1>4, <1>5, <1>6, <1>7, <1>8, <1>9, <1>10, <1>11, <1>12,
           <1>13, <1>14, <1>15, <1>16, <1>17, <1>18, <1>19, <1>20 DEF Next

LEMMA ChatInvAlways == Spec => []ChatInv
BY ChatInvInit, ChatInvNext, PTL DEF Spec

\* The lists of a channel that no write of another has touched.
LEMMA CleanLists ==
    ASSUME ChatInv, NEW c \in Channels, NEW q \in Lists(c)
    PROVE  /\ q \in Seq(Rows)
           /\ c \notin misfiled => \E root \in {0, Root} : Listing(log[c], q, send, c, root)
<1>1. q # NoData /\ (q = tl[c] \/ q = th[c])
  BY DEF Lists
<1>2. q \in Seq(Rows)
  BY <1>1 DEF ChatInv, ListsTyped
<1> QED BY <1>1, <1>2 DEF ChatInv, Clean, CleanTl, CleanTh

LEMMA OneRowInv == ChatInv => OneRowPerPost
<1> SUFFICES ASSUME ChatInv PROVE OneRowPerPost
  OBVIOUS
<1>1. TypeOK
  <2>1. ASSUME NEW c \in Channels, NEW q \in Lists(c), NEW i \in DOMAIN q
        PROVE  q[i].seq \in 0..MaxMsgs /\ q[i].stage \in 0..2 /\ q[i].replies \in Nat
    <3>1. q \in Seq(Rows)
      BY CleanLists
    <3>2. q[i] \in Rows
      BY <3>1
    <3> QED BY <3>2 DEF Rows
  <2>2. \A k \in Keys : fetch[k].st \in {"idle", "asked", "ready"}
    <3>1. \A k \in Keys : fetch[k] \in Fetches
      BY DEF ChatInv, FetchSound
    <3> QED BY <3>1 DEF Fetches
  <2>3. TabSound
    BY DEF ChatInv
  <2> QED BY <2>1, <2>2, <2>3 DEF TypeOK, TabSound
<1>2. NoTwin
  <2> SUFFICES ASSUME NEW c \in Channels, NEW q \in Lists(c), NEW i \in DOMAIN q, NEW j \in DOMAIN q,
                      i # j, c \notin misfiled
               PROVE  q[i].id # q[j].id /\ (q[i].seq > 0 => q[i].seq # q[j].seq)
    BY DEF NoTwin
  <2>1. q \in Seq(Rows) /\ i \in 1..Len(q) /\ j \in 1..Len(q)
    BY CleanLists
  <2>2. PICK root : Listing(log[c], q, send, c, root)
    BY CleanLists
  <2>3. Distinct(log[c])
    BY LogKnown
  <2>4. q[i].id # q[j].id
    BY <2>1, <2>2 DEF Listing, Distinct
  <2>5. q[i].seq > 0 => q[i].seq # q[j].seq
    BY <2>1, <2>2, <2>3, OneRow
  <2> QED BY <2>4, <2>5
<1>3. PendingHasSend
  <2> SUFFICES ASSUME NEW c \in Channels, NEW q \in Lists(c), NEW i \in DOMAIN q, q[i].seq = 0,
                      c \notin misfiled
               PROVE  send.st # "none" /\ send.id = q[i].id
    BY DEF PendingHasSend
  <2>1. q \in Seq(Rows) /\ i \in 1..Len(q)
    BY CleanLists
  <2>2. PICK root : Listing(log[c], q, send, c, root)
    BY CleanLists
  <2>3. ~ Says(log[c], q[i])
    BY DEF Says
  <2> QED BY <2>1, <2>2, <2>3 DEF Listing, Copy
<1>4. NoForeign
  <2> SUFFICES ASSUME NEW c \in Channels, tl[c] # NoData, NEW i \in DOMAIN tl[c],
                      tl[c][i].seq > 0, c \notin misfiled
               PROVE  tl[c][i].seq <= Len(log[c]) /\ log[c][tl[c][i].seq].id = tl[c][i].id
    BY DEF NoForeign
  <2>1. tl[c] \in Lists(c)
    BY DEF Lists
  <2>2. tl[c] \in Seq(Rows) /\ i \in 1..Len(tl[c])
    BY <2>1, CleanLists
  <2>3. PICK root : Listing(log[c], tl[c], send, c, root)
    BY <2>1, CleanLists
  <2>4. Says(log[c], tl[c][i])
    BY <2>2, <2>3 DEF Listing, Copy
  <2> QED BY <2>4 DEF Says
<1> QED BY <1>1, <1>2, <1>3, <1>4 DEF OneRowPerPost

LEMMA RefetchInv == ChatInv => StreamIsRefetch
<1> SUFFICES ASSUME ChatInv, Caught, open \notin drift \union misfiled PROVE
        Shown(tl[open]) = {[seq |-> s, stage |-> log[open][s].stage] : s \in TopLevel(log[open])}
  BY DEF StreamIsRefetch
<1> DEFINE l == log[open]
           q == tl[open]
<1>1. /\ at = Len(frames) /\ unpub = {} /\ q # NoData /\ open \in Channels
      /\ fetch[<<"timeline", open>>].st = "idle"
  BY DEF Caught, ChatInv, TabSound
<1>2. UpToDate(l, q, frames, Len(frames), open)
  BY <1>1 DEF ChatInv, Current
<1>3. Listing(l, q, send, open, 0) /\ l \in Seq(Msgs) /\ Distinct(l) /\ q \in Seq(Rows)
  BY <1>1, LogKnown DEF ChatInv, Clean, CleanTl, ListsTyped
\* Every message of the channel shows as it is now.
<1>4. ASSUME NEW s \in TopLevel(l) PROVE Holds(q, s, l[s].stage)
  <2>1. s \in 1..Len(l) /\ l[s].root = 0
    BY DEF TopLevel
  <2>2. PICK i \in 1..Len(frames) : Tells(frames[i], open, s, l[s].stage)
    BY <1>1, <2>1 DEF ChatInv, Server, Announced
  <2>3. Says(l, frames[i].m)
    BY <2>2 DEF ChatInv, Server, FramesSound, Tells
  <2>4. frames[i].m.root = 0
    BY <2>1, <2>2, <2>3 DEF Says, Tells
  <2> QED BY <1>2, <2>2, <2>4 DEF UpToDate, Tells
<1> DEFINE now(s) == [seq |-> s, stage |-> l[s].stage]
           rows == {j \in DOMAIN q : q[j].seq > 0}
           row(i) == [seq |-> q[i].seq, stage |-> q[i].stage]
<1>5. ASSUME NEW i \in rows PROVE \E s \in TopLevel(l) : row(i) = now(s)
  <2>1. i \in 1..Len(q) /\ q[i].seq > 0
    BY <1>3
  <2>2. Says(l, q[i]) /\ q[i].root = 0
    BY <1>3, <2>1 DEF Listing, Copy
  <2>3. q[i].seq \in TopLevel(l)
    BY <2>2 DEF Says, TopLevel
  <2>4. PICK j \in 1..Len(q) : q[j].seq = q[i].seq /\ q[j].stage = l[q[i].seq].stage
    BY <1>4, <2>3 DEF Holds
  <2>5. i = j
    BY <1>3, <2>1, <2>4, OneRow
  <2> QED BY <2>3, <2>4, <2>5
<1>6. ASSUME NEW s \in TopLevel(l) PROVE \E i \in rows : now(s) = row(i)
  <2>1. PICK i \in 1..Len(q) : q[i].seq = s /\ q[i].stage = l[s].stage
    BY <1>4 DEF Holds
  <2>2. s > 0
    BY DEF TopLevel
  <2>3. i \in rows
    BY <1>3, <2>1, <2>2
  <2> QED BY <2>1, <2>3
<1>7. {row(i) : i \in rows} = {now(s) : s \in TopLevel(l)}
  <2> HIDE DEF row, now, rows
  <2> QED BY <1>5, <1>6
<1> QED BY <1>7 DEF Shown

\* Every post is one row, pending or sent, on every list it belongs to and on
\* no other: the optimistic copy, the answer to the POST, the frame and a fetch
\* all land on one entry of the caches (chat/cache.ts), in whatever order they
\* come.
THEOREM OneRowAlways == Spec => []OneRowPerPost
BY ChatInvAlways, OneRowInv, PTL

\* On a stream that is open and has nothing left to deliver, the timeline on
\* screen is the server's (useChatEvents: the stream is the refetch), unless one
\* of the races recorded in drift has touched it since it was last fetched.
THEOREM StreamStandsForRefetch == Spec => []StreamIsRefetch
BY ChatInvAlways, RefetchInv, PTL
=============================================================================
