--------------------------- MODULE WebPagesProofs ---------------------------
(***************************************************************************)
(* Proofs about four parts of a browser tab that share no state (see       *)
(* MCWebPages): its place and address (Navigation), the gate it comes in   *)
(* by (SessionGate), the lists it caches (WebQueries) and the drafts of    *)
(* its wiki (WikiClient).  For any projects, documents, tabs and hubs, any *)
(* number of clicks, writes, keystrokes, calls and versions: the bounds of *)
(* the run are guards of the actions and play no part here.                *)
(***************************************************************************)
EXTENDS MCWebPages, SequenceTheorems, TLAPS

-----------------------------------------------------------------------------
(* The address.  It is written after every change of state, so it always is *)
(* what navUrl makes of the state (Mirrored); what is left to show is that  *)
(* reading an address back loses nothing a reader would miss, and that an   *)
(* entry of the history is a place by itself (Placed), for Back.            *)

\* A place: a state of the page whose board and channel are its project's.
Place(n) == n \in NavState /\ n.board \in {None, n.project} /\ n.channel \in {None, n.project}

Placed ==
    /\ Place(nav)
    /\ hist \in Seq(NavState) /\ pos \in 1..Len(hist)
    /\ \A i \in 1..Len(hist) : Place(hist[i])
Asked == jumps \subseteq Docs /\ clicks \in Nat

\* A backstop waits for what is shown, and for no document twice in a row.
Waiting ==
    /\ locating \in {None, nav.selected} /\ filling \in {None, nav.project}
    /\ located \in Docs \cup {None}
    /\ locating # None => located # locating

Mirrored == hist[pos] = navToSearch(nav)

NavInv == Placed /\ Asked /\ Waiting /\ Mirrored

-----------------------------------------------------------------------------
(* Addresses.                                                              *)

\* navUrl writes places as places, and reads addresses as places.
LEMMA AddressIsPlace ==
    ASSUME NEW n, Place(n)
    PROVE  Place(navToSearch(n)) /\ Place(searchToNav(n))
<1>1. ASSUME NEW t \in Tabs \cup {None}, NEW b \in {None, n.project}, NEW k \in {None, n.project}
      PROVE  Place([n EXCEPT !.alt = FALSE, !.projectTab = t, !.board = b, !.channel = k])
  BY <1>1 DEF Place, NavState
<1>2. n.projectTab \in Tabs \cup {None} /\ n.board \in {None, n.project}
      /\ n.channel \in {None, n.project} /\ n.app \in Apps
  BY DEF Place, NavState
<1>3. Place(searchToNav(n))
  <2> DEFINE t == IF AtRoot(n) THEN n.projectTab ELSE None
             b == IF t = "whiteboards" THEN n.board ELSE None
             k == IF t = "chat" THEN n.channel ELSE None
  <2>1. t \in Tabs \cup {None} /\ b \in {None, n.project} /\ k \in {None, n.project}
    BY <1>2
  <2>2. searchToNav(n) = [n EXCEPT !.alt = FALSE, !.projectTab = t, !.board = b, !.channel = k]
    BY DEF searchToNav
  <2> HIDE DEF t, b, k
  <2> QED BY ONLY <1>1, <2>1, <2>2
<1>4. CASE n.app = "browser"
  <2> DEFINE t == IF AtRoot(n) THEN n.projectTab ELSE None
             b == IF AtRoot(n) /\ n.projectTab = "whiteboards" THEN n.board ELSE None
             k == IF AtRoot(n) /\ n.projectTab = "chat" THEN n.channel ELSE None
  <2>1. t \in Tabs \cup {None} /\ b \in {None, n.project} /\ k \in {None, n.project}
    BY <1>2
  <2>2. navToSearch(n) = [n EXCEPT !.alt = FALSE, !.projectTab = t, !.board = b, !.channel = k]
    BY <1>4 DEF navToSearch
  <2>3. Place([n EXCEPT !.alt = FALSE, !.projectTab = t, !.board = b, !.channel = k])
    <3> HIDE DEF t, b, k
    <3> QED BY ONLY <1>1, <2>1
  <2> QED BY ONLY <1>3, <2>2, <2>3
<1>5. CASE n.app # "browser"
  <2>1. navToSearch(n) = [Nowhere EXCEPT !.app = n.app]
    BY <1>5 DEF navToSearch
  <2>2. Place([Nowhere EXCEPT !.app = n.app])
    BY <1>2 DEF Place, NavState, Nowhere, Folders
  <2> QED BY ONLY <1>3, <2>1, <2>2
<1> QED BY <1>4, <1>5

\* Written and read back, a place is the same to the one who looks at it.
LEMMA ReadBack ==
    ASSUME NEW n, Place(n)
    PROVE  LET again == searchToNav(navToSearch(n)) IN
           /\ again.app = n.app
           /\ n.app = "browser" =>
                /\ again.project = n.project /\ again.folder = n.folder
                /\ again.selected = n.selected
                /\ AtRoot(n) => /\ again.projectTab = n.projectTab
                                /\ n.projectTab = "whiteboards" => again.board = n.board
                                /\ n.projectTab = "chat" => again.channel = n.channel
BY DEF Place, NavState, navToSearch, searchToNav, AtRoot, Nowhere, Apps

\* An address with nothing that is not shown is written as it was read.
LEMMA Canonical ==
    ASSUME NEW n \in NavState, n.app = "browser", ~ n.alt,
           AtRoot(n) \/ n.projectTab = None,
           n.board = None \/ (AtRoot(n) /\ n.projectTab = "whiteboards"),
           n.channel = None \/ (AtRoot(n) /\ n.projectTab = "chat")
    PROVE  navToSearch(searchToNav(n)) = n
<1>1. searchToNav(n) = n
  BY DEF NavState, searchToNav, AtRoot
<1>2. navToSearch(n) = n
  BY DEF NavState, navToSearch, AtRoot
<1> QED BY <1>1, <1>2

\* The cold loads' addresses are places, written as navUrl writes them.
LEMMA PermalinksArePlaces ==
    ASSUME NEW u \in Permalinks
    PROVE  Place(u) /\ navToSearch(searchToNav(u)) = u
<1>1. CASE u = Nowhere
  <2>1. Place(u) /\ u.app = "browser" /\ ~ u.alt /\ u.projectTab = None
        /\ u.board = None /\ u.channel = None
    BY <1>1 DEF Place, NavState, Nowhere, Apps, Folders
  <2>9. u \in NavState
    BY <2>1 DEF Place
  <2> QED BY <2>1, <2>9, Canonical
<1>2. CASE u = TasksLink
  <2>1. Place(u)
    BY <1>2 DEF TasksLink, Place, NavState, Nowhere, Apps, Folders
  <2> DEFINE n == searchToNav(u)
  <2>2. n.app = "tasks"
    BY <1>2 DEF TasksLink, Nowhere, searchToNav
  <2>3. navToSearch(n) = u
    <3> HIDE DEF n
    <3> QED BY <1>2, <2>2 DEF TasksLink, navToSearch
  <2> QED BY <2>1, <2>3
<1>3. ASSUME NEW p \in Projects, u = BoardLink(p)
      PROVE  Place(u) /\ navToSearch(searchToNav(u)) = u
  <2>1. None \notin Projects
    BY HomeAssumption
  <2>2. Place(u) /\ u.app = "browser" /\ ~ u.alt /\ AtRoot(u)
        /\ u.projectTab = "whiteboards" /\ u.channel = None
    BY <1>3, <2>1 DEF Place, NavState, Nowhere, Apps, Folders, Tabs, AtRoot, openProjectApp, Enter,
       BoardLink
  <2>9. u \in NavState
    BY <2>2 DEF Place
  <2> QED BY <2>2, <2>9, Canonical
<1>4. ASSUME NEW d \in Docs, NEW f \in Folders, u = DocumentLink(d, f)
      PROVE  Place(u) /\ navToSearch(searchToNav(u)) = u
  <2>1. Home[d].project \in Projects
    BY HomeAssumption
  <2>2. Place(u) /\ u.app = "browser" /\ ~ u.alt /\ u.projectTab = None
        /\ u.board = None /\ u.channel = None
    BY <1>4, <2>1 DEF DocumentLink, Place, NavState, Nowhere, Apps, Folders
  <2>9. u \in NavState
    BY <2>2 DEF Place
  <2> QED BY <2>2, <2>9, Canonical
<1> QED BY <1>1, <1>2, <1>3, <1>4 DEF Permalinks

-----------------------------------------------------------------------------
(* The history.                                                            *)

\* The effect that writes the address leaves the stack at it, and writes no
\* entry but the one shown unless the place changed.
LEMMA Written ==
    ASSUME NEW stack \in Seq(NavState), NEW at \in 1..Len(stack),
           \A i \in 1..Len(stack) : Place(stack[i]),
           NEW old, NEW new, Place(new), Serialize(old, new, stack, at)
    PROVE  /\ hist' \in Seq(NavState) /\ pos' \in 1..Len(hist')
           /\ \A i \in 1..Len(hist') : Place(hist'[i])
           /\ hist'[pos'] = navToSearch(new)
           /\ ~ shouldPush(old, new) =>
                 Len(hist') = Len(stack) /\ \A i \in 1..Len(stack) : i # at => hist'[i] = stack[i]
<1> DEFINE url == navToSearch(new)
<1>1. Place(url) /\ url \in NavState
  BY AddressIsPlace DEF Place
<1>2. CASE url = stack[at]
  BY <1>2 DEF Serialize
<1>3. CASE url # stack[at] /\ shouldPush(old, new)
  <2>1. hist' = Append(SubSeq(stack, 1, at), url) /\ pos' = at + 1
    BY <1>3 DEF Serialize
  <2> HIDE DEF url
  <2>2. /\ SubSeq(stack, 1, at) \in Seq(NavState) /\ Len(SubSeq(stack, 1, at)) = at
        /\ \A i \in 1..at : SubSeq(stack, 1, at)[i] = stack[i]
    OBVIOUS
  <2>3. /\ hist' \in Seq(NavState) /\ Len(hist') = at + 1 /\ hist'[at + 1] = url
        /\ \A i \in 1..at : hist'[i] = stack[i]
    BY <1>1, <2>1, <2>2
  <2> QED BY <1>1, <1>3, <2>1, <2>3 DEF url
<1>4. CASE url # stack[at] /\ ~ shouldPush(old, new)
  <2>1. hist' = [stack EXCEPT ![at] = url] /\ pos' = at
    BY <1>4 DEF Serialize
  <2> HIDE DEF url
  <2>2. /\ hist' \in Seq(NavState) /\ Len(hist') = Len(stack) /\ hist'[at] = url
        /\ \A i \in 1..Len(stack) : i # at => hist'[i] = stack[i]
    BY <1>1, <2>1
  <2> QED BY <1>1, <2>1, <2>2 DEF url
<1> QED BY <1>2, <1>3, <1>4

\* A dispatch keeps the stack a history of places.
LEMMA Dispatched ==
    ASSUME Placed, NEW next, Place(next), dispatch(next)
    PROVE  Placed' /\ Mirrored' /\ nav' = next
BY Written DEF Placed, Mirrored, dispatch

\* The backstops restart for what is shown now.
LEMMA Restarted ==
    ASSUME Waiting, Placed, NEW next, nav' = next, Place(next),
           Backstops(nav, next, located), UNCHANGED located
    PROVE  Waiting'
<1>1. next.selected \in Docs \cup {None} /\ nav.selected \in Docs \cup {None}
  BY DEF Placed, Place, NavState
<1> QED BY <1>1 DEF Waiting, Backstops, NeedsLocation, NeedsProject

-----------------------------------------------------------------------------
(* The reducer keeps to places.                                            *)

LEMMA ClicksArePlaces ==
    ASSUME Placed, NEW next \in Clicks
    PROVE  Place(next)
<1>1. Place(nav) /\ nav \in NavState
  BY DEF Placed, Place
<1>2. ASSUME NEW a \in Apps, next = [nav EXCEPT !.app = a]
      PROVE  Place(next)
  BY <1>1, <1>2 DEF Place, NavState
<1>3. ASSUME NEW p \in Projects \cup {None}, NEW alt \in BOOLEAN,
             next = [Enter(nav, p, alt) EXCEPT !.board = None, !.channel = None]
      PROVE  Place(next)
  BY <1>1, <1>3 DEF Place, NavState, Enter, Folders
<1>4. ASSUME NEW f \in Folders, next = [nav EXCEPT !.folder = f, !.selected = None]
      PROVE  Place(next)
  BY <1>1, <1>4 DEF Place, NavState
<1>5. ASSUME NEW d \in Docs, next = [nav EXCEPT !.selected = d]
      PROVE  Place(next)
  BY <1>1, <1>5 DEF Place, NavState
<1>6. ASSUME NEW t \in Tabs, next = [nav EXCEPT !.projectTab = t]
      PROVE  Place(next)
  BY <1>1, <1>6 DEF Place, NavState
<1>7. ASSUME NEW p \in Projects, NEW t \in Tabs, NEW b \in {p, None}, NEW c \in {p, None},
             next = openProjectApp(nav, p, t, b, c)
      PROVE  Place(next)
  BY <1>1, <1>7 DEF Place, NavState, openProjectApp, Enter, Folders, Apps
<1>8. \A p \in Projects : HasAlt(p) \in BOOLEAN
  BY DEF HasAlt
<1>9. "whiteboards" \in Tabs /\ "chat" \in Tabs /\ "folder" \in Folders /\ None \in Folders
  BY DEF Tabs, Folders
<1> QED BY <1>2, <1>3, <1>4, <1>5, <1>6, <1>7, <1>8, <1>9 DEF Clicks

\* Going to a document keeps the board only inside its project.
LEMMA NavigateIsPlace ==
    ASSUME Placed, NEW d \in Docs
    PROVE  Place(navigate(nav, d)) /\ navigate(nav, d).selected = d
<1>1. Place(nav) /\ nav \in NavState
  BY DEF Placed, Place
<1>2. Home[d].project \in Projects /\ Home[d].folder \in Folders
      /\ HasAlt(Home[d].project) \in BOOLEAN
  BY HomeAssumption DEF Folders, HasAlt
<1>3. ASSUME NEW b \in {None, nav.board}, NEW k \in {None, nav.channel},
             nav.project # Home[d].project => b = None /\ k = None
      PROVE  LET next == [nav EXCEPT !.app = "browser", !.project = Home[d].project,
                                     !.alt = HasAlt(Home[d].project), !.folder = Home[d].folder,
                                     !.selected = d, !.board = b, !.channel = k]
             IN  Place(next) /\ next.selected = d
  BY <1>1, <1>2, <1>3 DEF Place, NavState, Apps
<1> QED BY <1>3 DEF navigate

LEMMA PatchIsPlace ==
    ASSUME Placed
    PROVE  /\ Place(patchProject(nav)) /\ ~ shouldPush(nav, patchProject(nav))
           /\ patchProject(nav).selected = nav.selected /\ patchProject(nav).project = nav.project
<1>1. Place(nav) /\ nav \in NavState /\ HasAlt(nav.project) \in BOOLEAN
  BY DEF Placed, Place, HasAlt
<1> QED BY <1>1 DEF Place, NavState, patchProject, shouldPush

\* A tab that takes its project's first board leaves the place as it is.
LEMMA LatchIsPlace ==
    ASSUME Placed, Latch
    PROVE  \E next : /\ Place(next) /\ ~ shouldPush(nav, next) /\ dispatch(next)
                     /\ next.selected = nav.selected /\ next.project = nav.project
<1> DEFINE next == CASE nav.projectTab = "whiteboards" -> [nav EXCEPT !.board = nav.project]
                     [] nav.projectTab = "chat" -> [nav EXCEPT !.channel = nav.project]
                     [] OTHER -> nav
<1>1. Place(nav) /\ nav \in NavState
  BY DEF Placed, Place
<1>2. next # nav /\ dispatch(next)
  BY DEF Latch
<1>3. next = [nav EXCEPT !.board = nav.project] \/ next = [nav EXCEPT !.channel = nav.project]
  BY <1>2
<1> HIDE DEF next
<1>4. /\ Place(next) /\ ~ shouldPush(nav, next)
      /\ next.selected = nav.selected /\ next.project = nav.project
  BY <1>1, <1>3 DEF Place, NavState, shouldPush
<1> QED BY <1>2, <1>4

-----------------------------------------------------------------------------
LEMMA NavInit == Init => NavInv
<1> SUFFICES ASSUME Init PROVE NavInv
  OBVIOUS
<1>1. PICK u \in Permalinks : hist = <<u>> /\ pos = 1 /\ nav = searchToNav(u)
  BY DEF Init
<1>2. Place(u) /\ Place(nav) /\ navToSearch(nav) = u
  BY <1>1, PermalinksArePlaces, AddressIsPlace
<1>3. Placed /\ Mirrored
  BY <1>1, <1>2 DEF Placed, Mirrored, Place
<1>4. Asked /\ Waiting
  BY <1>2 DEF Init, Asked, Waiting, NeedsLocation, NeedsProject, Place, NavState
<1> QED BY <1>3, <1>4 DEF NavInv

LEMMA NavStep ==
    ASSUME NavInv, [Next]_vars
    PROVE  NavInv'
<1> USE DEF NavInv
<1>1. CASE Click
  <2>1. PICK next \in Clicks : dispatch(next) /\ Backstops(nav, next, located)
    BY <1>1 DEF Click
  <2>2. Place(next)
    BY <2>1, ClicksArePlaces
  <2>3. Placed' /\ Mirrored' /\ nav' = next
    BY <2>1, <2>2, Dispatched
  <2> QED BY <1>1, <2>1, <2>2, <2>3, Restarted DEF Click, Asked
<1>2. CASE Latch
  <2>1. PICK next : /\ Place(next) /\ dispatch(next)
                    /\ next.selected = nav.selected /\ next.project = nav.project
    BY <1>2, LatchIsPlace
  <2>2. Placed' /\ Mirrored' /\ nav' = next
    BY <2>1, Dispatched
  <2> QED BY <1>2, <2>1, <2>2 DEF Latch, Asked, Waiting
<1>3. ASSUME NEW d \in Docs, Jump(d) \/ JumpFails(d)
      PROVE  NavInv'
  BY <1>3 DEF Jump, JumpFails, Placed, Asked, Waiting, Mirrored
<1>4. ASSUME NEW d \in Docs, JumpLands(d)
      PROVE  NavInv'
  <2> DEFINE next == navigate(nav, d)
  <2>1. Place(next) /\ dispatch(next) /\ Backstops(nav, next, located) /\ UNCHANGED located
    BY <1>4, NavigateIsPlace DEF JumpLands
  <2> HIDE DEF next
  <2>2. Placed' /\ Mirrored' /\ nav' = next
    BY <2>1, Dispatched
  <2> QED BY <1>4, <2>1, <2>2, Restarted DEF JumpLands, Asked
<1>5. CASE Located
  <2> DEFINE next == navigate(nav, locating)
  <2>1. locating \in Docs
    BY <1>5 DEF Located, Waiting, Placed, Place, NavState
  <2>2. Place(next) /\ dispatch(next)
    BY <1>5, <2>1, NavigateIsPlace DEF Located
  <2>3. filling' \in {None, next.project}
    BY <1>5 DEF Located, Waiting
  <2> HIDE DEF next
  <2>4. Placed' /\ Mirrored' /\ nav' = next
    BY <2>2, Dispatched
  <2> QED BY <1>5, <2>1, <2>3, <2>4 DEF Located, Asked, Waiting
<1>6. CASE Filled
  <2> DEFINE next == patchProject(nav)
  <2>1. Place(next) /\ dispatch(next) /\ next.selected = nav.selected /\ next.project = nav.project
    BY <1>6, PatchIsPlace DEF Filled
  <2> HIDE DEF next
  <2>2. Placed' /\ Mirrored' /\ nav' = next
    BY <2>1, Dispatched
  <2> QED BY <1>6, <2>1, <2>2 DEF Filled, Asked, Waiting
<1>7. ASSUME NEW to \in 1..Len(hist), Pop(to)
      PROVE  NavInv'
  <2> DEFINE next == searchToNav(hist[to])
  <2>1. /\ nav' = next /\ Place(next) /\ Serialize(next, next, hist, to)
        /\ Backstops(nav, next, located) /\ UNCHANGED located
    BY <1>7, AddressIsPlace DEF Pop, Placed
  <2> HIDE DEF next
  <2>2. Placed' /\ Mirrored'
    BY <2>1, Written DEF Placed, Mirrored
  <2> QED BY <1>7, <2>1, <2>2, Restarted DEF Pop, Asked
<1>8. CASE UNCHANGED vars
  BY <1>8 DEF vars, Placed, Asked, Waiting, Mirrored
<1> QED BY <1>1, <1>2, <1>3, <1>4, <1>5, <1>6, <1>7, <1>8 DEF Next

LEMMA NavInductive == Spec => []NavInv
BY NavInit, NavStep, PTL DEF Spec

(***************************************************************************)
(* The state of the page is well formed, and a backstop only ever waits    *)
(* for the document or the project that is shown: an answer never lands on *)
(* a place the user has left (the cancelled flags of the two effects).     *)
(***************************************************************************)
THEOREM BackstopsCurrent == Spec => []TypeOK
<1>1. NavInv => TypeOK
  BY DEF NavInv, Placed, Place, Asked, Waiting, TypeOK
<1> QED BY NavInductive, <1>1, PTL

(***************************************************************************)
(* A board or a channel is never carried into another project, through any *)
(* sequence of clicks, jumps, backs and completions.                       *)
(***************************************************************************)
THEOREM BoardsKeptHome == Spec => []BoardsStayHome
<1>1. NavInv => BoardsStayHome
  BY DEF NavInv, Placed, Place, BoardsStayHome
<1> QED BY NavInductive, <1>1, PTL

(***************************************************************************)
(* The address shown reopens the place shown: same screen, project,        *)
(* folder, document, tab, board and channel.                               *)
(***************************************************************************)
THEOREM PermalinksReopen == Spec => []PermalinkReopens
<1>1. NavInv => PermalinkReopens
  <2> SUFFICES ASSUME NavInv PROVE PermalinkReopens
    OBVIOUS
  <2>1. hist[pos] = navToSearch(nav) /\ Place(nav)
    BY DEF NavInv, Mirrored, Placed
  <2> QED BY <2>1, ReadBack DEF PermalinkReopens, Browsing
<1> QED BY NavInductive, <1>1, PTL

(***************************************************************************)
(* After a back, only the user, a jump the user asked for or the           *)
(* correction of a document's place cuts off the entries ahead: a tab that *)
(* takes its first board and a project that gets its other id replace the  *)
(* entry shown.                                                            *)
(***************************************************************************)
THEOREM ForwardKept == Spec => KeepsForward
<1>1. NavInv /\ [Next]_vars =>
        [Cuts => clicks' # clicks \/ jumps' # jumps \/ located' # located]_vars
  <2> SUFFICES ASSUME NavInv, Next, clicks' = clicks, jumps' = jumps, located' = located
               PROVE  ~ Cuts
    OBVIOUS
  <2> USE DEF NavInv
  <2>1. ~ Click /\ \A to \in 1..Len(hist) : ~ Pop(to)
    BY DEF Click, Pop, Asked
  <2>2. \A d \in Docs : ~ Jump(d) /\ ~ JumpLands(d) /\ ~ JumpFails(d)
    BY DEF Jump, JumpLands, JumpFails
  <2>3. ~ Located
    BY DEF Located, Waiting
  <2>4. PICK next : Place(next) /\ ~ shouldPush(nav, next) /\ dispatch(next)
    BY <2>1, <2>2, <2>3, LatchIsPlace, PatchIsPlace DEF Next, Filled
  <2>5. Len(hist') = Len(hist) /\ \A i \in 1..Len(hist) : i # pos => hist'[i] = hist[i]
    BY <2>4, Written DEF dispatch, Placed
  <2> QED BY <2>5 DEF Cuts, Placed
<1> QED BY NavInductive, <1>1, PTL DEF Spec, KeepsForward

-----------------------------------------------------------------------------
(* The session's gate.  A tab that no other tab has moved the session under *)
(* is alone with it: the selected hub it shows is the session's, unless a   *)
(* call of its own is on the way to change that.                            *)

\* The hubs a user may enter, and a link's, are hubs; the marks for no hub and for one
\* not asked about yet are none.
GateConfig == /\ Access \subseteq Hubs /\ Target \in Hubs
              /\ None \notin Hubs /\ Gate!Unasked \notin Hubs \cup {None}

Calls == {Gate!NoCall} \cup [for : {"gate", "link", "settings", "consent"}, hub : Hubs,
                             at : {"sent", "applied"}, heard : BOOLEAN]
GateTyped ==
    /\ Gate!TypeOK
    /\ browses \in [GateTabs -> Gate!Chosen] /\ link \in [GateTabs -> BOOLEAN]
    /\ resolved \in [GateTabs -> Gate!Chosen \cup {Gate!Unasked}]
    /\ tried \in [GateTabs -> BOOLEAN] /\ failed \in [GateTabs -> BOOLEAN]
    /\ call \in [GateTabs -> Calls] /\ moved \in [GateTabs -> BOOLEAN]
    /\ \A t \in GateTabs : call[t] # Gate!NoCall /\ call[t].at = "applied" => call[t].hub \in Access

LockGranted(t) ==
    /\ signed /\ call[t].hub \in Access
    /\ lock' = call[t].hub
    /\ moved' = [u \in GateTabs |-> moved[u] \/ u # t]
    /\ call' = [call EXCEPT ![t].at = "applied"]
    /\ UNCHANGED <<signed, last, phase, me, browses, rows, link, resolved, tried, failed>>

\* The state a tab shows on the answer to getMe, and its types.
LEMMA ShowTyped ==
    ASSUME GateConfig, GateTyped, NEW t \in GateTabs, NEW s \in BOOLEAN, NEW l \in BOOLEAN,
           NEW h \in Gate!Chosen, Gate!Show(t, s, l, h)
    PROVE  /\ phase' \in [GateTabs -> Gate!Phases] /\ me' \in [GateTabs -> Gate!Chosen]
           /\ browses' \in [GateTabs -> Gate!Chosen] /\ link' \in [GateTabs -> BOOLEAN] /\ last' \in Gate!Chosen
           /\ \A u \in GateTabs : phase'[u] = "app" => browses'[u] = me'[u] /\ me'[u] # None
<1>1. Gate!Screen(s, l, h) \in Gate!Phases
  BY DEF Gate!Screen, Gate!Phases
<1>2. Gate!Screen(s, l, h) = "app" => h # None
  BY DEF Gate!Screen
<1> QED BY <1>1, <1>2 DEF Gate!Show, GateTyped, Gate!TypeOK, Gate!Chosen

\* A page that loads anew.
LEMMA ReloadTyped ==
    ASSUME GateConfig, GateTyped, NEW t \in GateTabs, NEW l \in BOOLEAN, NEW d \in BOOLEAN,
           Gate!Reload(t, l, d)
    PROVE  /\ phase' \in [GateTabs -> Gate!Phases] /\ me' \in [GateTabs -> Gate!Chosen]
           /\ browses' \in [GateTabs -> Gate!Chosen] /\ link' \in [GateTabs -> BOOLEAN]
           /\ rows' \in [GateTabs -> Gate!Chosen] /\ resolved' \in [GateTabs -> Gate!Chosen \cup {Gate!Unasked}]
           /\ tried' \in [GateTabs -> BOOLEAN] /\ failed' \in [GateTabs -> BOOLEAN]
           /\ call' \in [GateTabs -> Calls] /\ moved' \in [GateTabs -> BOOLEAN]
           /\ \A u \in GateTabs : call'[u] # Gate!NoCall /\ call'[u].at = "applied"
                => call'[u].hub \in Access
           /\ \A u \in GateTabs : phase'[u] = "app" => browses'[u] = me'[u] /\ me'[u] # None
  BY DEF Gate!Reload, GateTyped, Gate!TypeOK, Gate!Chosen, Gate!Phases, Calls

\* A call that moves the session's hub.
LEMMA PostTyped ==
    ASSUME GateTyped, NEW t \in GateTabs, NEW h \in Hubs,
           NEW why \in {"gate", "link", "settings", "consent"},
           Gate!Post(t, h, why)
    PROVE  /\ call' \in [GateTabs -> Calls] /\ failed' \in [GateTabs -> BOOLEAN]
           /\ \A u \in GateTabs : call'[u] # Gate!NoCall /\ call'[u].at = "applied"
                => call'[u].hub \in Access
  BY DEF Gate!Post, GateTyped, Calls

\* A call whose end nobody will hear, or that is over.
LEMMA CallStays ==
    ASSUME GateTyped, NEW t \in GateTabs,
           \/ UNCHANGED call \/ call' = [call EXCEPT ![t] = Gate!NoCall]
           \/ call[t] # Gate!NoCall /\ call' = [call EXCEPT ![t].heard = FALSE]
    PROVE  /\ call' \in [GateTabs -> Calls]
           /\ \A u \in GateTabs : call'[u] # Gate!NoCall /\ call'[u].at = "applied"
                => call'[u].hub \in Access
<1>1. CASE UNCHANGED call \/ call' = [call EXCEPT ![t] = Gate!NoCall]
  BY <1>1 DEF GateTyped, Calls
<1>2. CASE call[t] # Gate!NoCall /\ call' = [call EXCEPT ![t].heard = FALSE]
  <2>1. call[t] \in Calls \ {Gate!NoCall} /\ call'[t] = [call[t] EXCEPT !.heard = FALSE]
    BY <1>2 DEF GateTyped
  <2>2. call'[t] \in Calls /\ call'[t].at = call[t].at /\ call'[t].hub = call[t].hub
    BY <2>1 DEF Calls
  <2>3. \A u \in GateTabs : u # t => call'[u] = call[u]
    BY <1>2 DEF GateTyped
  <2> QED BY <1>2, <2>2, <2>3 DEF GateTyped
<1> QED BY <1>1, <1>2

\* Every step keeps the types.
LEMMA GateTypeStep ==
    ASSUME GateConfig, GateTyped, [Gate!Next]_(Gate!vars)
    PROVE  GateTyped'
<1> USE DEF GateTyped, Gate!TypeOK
<1>1. ASSUME NEW t \in GateTabs, Gate!AuthMeAnswers(t) \/ Gate!RefetchMe(t)
      PROVE  GateTyped'
  <2>1. lock \in Gate!Chosen /\ link[t] \in BOOLEAN
    BY DEF GateConfig, Gate!Chosen
  <2>2. CASE Gate!AuthMeAnswers(t)
    BY <2>1, <2>2, ShowTyped DEF Gate!AuthMeAnswers, Gate!server
  <2>3. CASE Gate!RefetchMe(t)
    BY <2>1, <2>3, ShowTyped DEF Gate!RefetchMe, Gate!server
  <2> QED BY <1>1, <2>2, <2>3
<1>2. ASSUME NEW t \in GateTabs, Gate!SignIn(t)
      PROVE  GateTyped'
  BY <1>2, ReloadTyped DEF Gate!SignIn, Gate!server
<1>3. ASSUME NEW t \in GateTabs, Gate!Applied(t)
      PROVE  GateTyped'
  <2>1. CASE ~signed /\ Gate!ToLogin(t) /\ UNCHANGED last
    BY <1>3, <2>1, ReloadTyped DEF Gate!Applied, Gate!ToLogin
  <2>2. CASE Gate!Refused(t)
    BY <1>3, <2>2 DEF Gate!Applied, Gate!Refused, Gate!server, Calls
  <2>3. CASE LockGranted(t)
    <3>1. call' \in [GateTabs -> Calls]
      BY <1>3, <2>3 DEF Gate!Applied, Calls, LockGranted
    <3>2. \A u \in GateTabs : call'[u] # Gate!NoCall /\ call'[u].at = "applied" => call'[u].hub \in Access
      BY <1>3, <2>3 DEF Gate!Applied, Calls, LockGranted
    <3> QED BY <2>3, <3>1, <3>2 DEF LockGranted
  <2> QED BY <1>3, <2>1, <2>2, <2>3 DEF Gate!Applied, LockGranted
<1>4. ASSUME NEW t \in GateTabs, Gate!Answered(t)
      PROVE  GateTyped'
  <2>1. call[t].hub \in Gate!Chosen /\ call[t].hub \in Access
    BY <1>4 DEF Gate!Answered, Calls, Gate!Chosen, Gate!NoCall
  <2>2. CASE Gate!Reloads(call[t])
    BY <1>4, <2>1, <2>2, ReloadTyped DEF Gate!Answered, Gate!server
  <2>3. CASE ~Gate!Reloads(call[t])
    <3>1. /\ call' = [call EXCEPT ![t] = Gate!NoCall] /\ Gate!Show(t, TRUE, FALSE, call[t].hub)
          /\ moved' = [moved EXCEPT ![t] = @ \/ (Gate!Switches(call[t]) /\ ~call[t].heard)]
          /\ UNCHANGED <<signed, lock, rows, resolved, tried, failed>>
      BY <1>4, <2>3 DEF Gate!Answered, Gate!server
    <3>2. call' \in [GateTabs -> Calls] /\ \A u \in GateTabs :
            call'[u] # Gate!NoCall /\ call'[u].at = "applied" => call'[u].hub \in Access
      BY <3>1, CallStays
    <3>3. moved' \in [GateTabs -> BOOLEAN]
      BY <3>1
    <3> QED BY <2>1, <3>1, <3>2, <3>3, ShowTyped
  <2> QED BY <2>2, <2>3
<1>5. ASSUME NEW t \in GateTabs, Gate!AutoRelock(t) \/ Gate!Pick(t) \/ Gate!Switch(t)
      PROVE  GateTyped'
  BY <1>5, PostTyped DEF Gate!AutoRelock, Gate!Pick, Gate!Switch, Gate!Remembered, Gate!server,
     GateConfig
<1>6. ASSUME NEW t \in GateTabs, Gate!LinkLocks(t) \/ Gate!Consent(t)
      PROVE  GateTyped'
  BY <1>6, PostTyped DEF Gate!LinkLocks, Gate!Consent, Gate!server, GateConfig
<1>7. ASSUME NEW t \in GateTabs, Gate!Resolve(t)
      PROVE  GateTyped'
  <2>1. CASE signed
    <3>1. /\ resolved' = [resolved EXCEPT ![t] = lock]
          /\ UNCHANGED <<signed, lock, last, phase, me, browses, rows, link, tried, failed, call, moved>>
      BY <1>7, <2>1 DEF Gate!Resolve, Gate!server
    <3>2. lock \in Gate!Chosen
      BY DEF Gate!TypeOK, GateConfig, Gate!Chosen
    <3>3. resolved' \in [GateTabs -> Gate!Chosen \cup {Gate!Unasked}]
      BY <3>1, <3>2
    <3> QED BY <3>1, <3>3 DEF Gate!TypeOK
  <2>2. CASE ~signed
    <3>1. signed' = TRUE /\ lock' = None /\ last' = last /\ Gate!Reload(t, FALSE, TRUE)
      BY <1>7, <2>2 DEF Gate!Resolve, Gate!ToLogin
    <3> QED BY <1>7, <3>1, ReloadTyped DEF Gate!TypeOK
  <2> QED BY <2>1, <2>2
<1>8. ASSUME NEW t \in GateTabs, Gate!LinkDone(t) \/ Gate!Skip(t)
      PROVE  GateTyped'
  <2>1. CASE Gate!LinkDone(t)
    BY <2>1, ShowTyped DEF Gate!LinkDone, Gate!server
  <2>2. CASE Gate!Skip(t)
    <3>1. call' \in [GateTabs -> Calls] /\ \A u \in GateTabs :
            call'[u] # Gate!NoCall /\ call'[u].at = "applied" => call'[u].hub \in Access
      BY <2>2, CallStays DEF Gate!Skip
    <3> QED BY <2>2, <3>1, ShowTyped DEF Gate!Skip, Gate!server
  <2> QED BY <1>8, <2>1, <2>2
<1>9. ASSUME NEW t \in GateTabs, Gate!DataCall(t)
      PROVE  GateTyped'
  <2>1. CASE ~signed
    <3>1. signed' = TRUE /\ lock' = None /\ last' = last /\ Gate!Reload(t, FALSE, TRUE)
      BY <1>9, <2>1 DEF Gate!DataCall, Gate!ToLogin
    <3> QED BY <1>9, <3>1, ReloadTyped DEF Gate!TypeOK
  <2>2. CASE signed /\ lock = None
    <3>1. UNCHANGED <<signed, lock, last>> /\ Gate!Reload(t, FALSE, FALSE)
      BY <1>9, <2>2 DEF Gate!DataCall, Gate!server
    <3> QED BY <1>9, <3>1, ReloadTyped DEF Gate!TypeOK
  <2>3. CASE signed /\ lock # None
    <3>1. /\ rows' = [rows EXCEPT ![t] = lock]
          /\ UNCHANGED <<signed, lock, last, phase, me, browses, link, resolved, tried, failed, call, moved>>
      BY <1>9, <2>3 DEF Gate!DataCall, Gate!server
    <3>2. lock \in Gate!Chosen
      BY DEF Gate!TypeOK, GateConfig, Gate!Chosen
    <3>3. rows' \in [GateTabs -> Gate!Chosen]
      BY <3>1, <3>2 DEF Gate!TypeOK
    <3> QED BY <3>1, <3>3 DEF Gate!TypeOK
  <2> QED BY <2>1, <2>2, <2>3
<1>10. ASSUME NEW t \in GateTabs, Gate!Logout(t)
      PROVE  GateTyped'
  BY <1>10, ReloadTyped DEF Gate!Logout
<1>13. ASSUME NEW t \in GateTabs, Gate!AnswerLost(t) \/ Gate!CloseSettings(t)
      PROVE  GateTyped'
  <2>1. call' \in [GateTabs -> Calls] /\ \A u \in GateTabs :
          call'[u] # Gate!NoCall /\ call'[u].at = "applied" => call'[u].hub \in Access
    BY <1>13, CallStays DEF Gate!AnswerLost, Gate!CloseSettings
  <2> QED BY <1>13, <2>1 DEF Gate!AnswerLost, Gate!CloseSettings, Gate!server
<1>11. ASSUME Gate!SessionLost \/ Gate!LockLost
      PROVE  GateTyped'
  BY <1>11 DEF Gate!SessionLost, Gate!LockLost, Gate!Lost
<1>12. CASE UNCHANGED Gate!vars
  BY <1>12 DEF Gate!vars, Gate!server, Gate!page
<1> QED BY <1>1, <1>2, <1>3, <1>4, <1>5, <1>6, <1>7, <1>8, <1>9, <1>10, <1>11,
           <1>12, <1>13 DEF Gate!Next, Gate!Own

LockTaken(t) == call[t] # Gate!NoCall /\ call[t].at = "applied"
Alone(t) ==
    /\ phase[t] = "loading" => rows[t] = None /\ call[t] = Gate!NoCall
    /\ phase[t] # "loading" /\ ~LockTaken(t) => me[t] = lock
    /\ LockTaken(t) => lock = call[t].hub
    /\ rows[t] # None => phase[t] = "app" /\ (rows[t] = me[t] \/ LockTaken(t))
    /\ phase[t] = "app" /\ call[t] # Gate!NoCall => Gate!Switches(call[t])
GateInv == GateTyped /\ \A t \in GateTabs : ~moved[t] => Alone(t)

\* A tab under which nothing else has moved the session, which has heard the end of
\* its own switches and has no call on the way, shows no rows but those of the hub it
\* browses: whatever was picked, switched, skipped, followed by a link, lost or
\* answered late, in however many tabs.
THEOREM GateKeepsHubs == ASSUME GateConfig PROVE Gate!Spec => []OneHubOnScreen
<1>1. Gate!Init => GateInv
  BY DEF Gate!Init, GateInv, GateTyped, Gate!TypeOK, Alone, LockTaken, GateConfig, Gate!Chosen,
     Gate!Phases, Calls, Gate!server
<1>2. GateInv => OneHubOnScreen
  BY DEF GateInv, Alone, OneHubOnScreen, Gate!OneHubOnScreen, LockTaken
<1>3. GateInv /\ [Gate!Next]_(Gate!vars) => GateInv'
  <2> SUFFICES ASSUME GateInv, [Gate!Next]_(Gate!vars), NEW x \in GateTabs, ~moved'[x]
               PROVE  Alone(x)'
    BY GateTypeStep DEF GateInv
  <2> USE DEF GateInv, GateTyped, Gate!TypeOK
  <2>1. ASSUME NEW t \in GateTabs, Gate!AuthMeAnswers(t)
        PROVE  Alone(x)'
    BY <2>1 DEF Gate!AuthMeAnswers, Alone, Gate!Show, LockTaken, Gate!server
  <2>2. ASSUME NEW t \in GateTabs, Gate!RefetchMe(t)
        PROVE  Alone(x)'
    BY <2>2 DEF Gate!RefetchMe, Alone, Gate!Show, Gate!Screen, LockTaken, Gate!server
  <2>3. ASSUME NEW t \in GateTabs, Gate!SignIn(t)
        PROVE  Alone(x)'
    BY <2>3 DEF Gate!SignIn, Alone, Gate!Reload, LockTaken, Gate!server
  <2>4. ASSUME NEW t \in GateTabs, Gate!Applied(t)
        PROVE  Alone(x)'
    <3>1. CASE ~signed /\ Gate!ToLogin(t) /\ UNCHANGED last
      BY <2>4, <3>1 DEF Gate!Applied, Gate!ToLogin, Alone, Gate!Reload, LockTaken
    <3>2. CASE Gate!Refused(t)
      BY <2>4, <3>2 DEF Gate!Applied, Gate!Refused, Alone, LockTaken, Gate!server
    <3>3. CASE LockGranted(t)
      <4>1. t = x
        BY <3>3 DEF LockGranted
      <4>2. call'[x] = [call[x] EXCEPT !.at = "applied"] /\ call[x] \in Calls \ {Gate!NoCall}
        BY <2>4, <3>3, <4>1 DEF LockGranted, Gate!Applied
      <4>3. /\ call'[x].at = "applied" /\ call'[x].hub = call[x].hub
            /\ call'[x].for = call[x].for /\ call[x].for # "nothing"
            /\ Gate!Switches(call'[x]) <=> Gate!Switches(call[x])
        BY <4>2 DEF Calls, Gate!Switches
      <4>4. call'[x] # Gate!NoCall /\ call[x] # Gate!NoCall
        BY <4>3 DEF Gate!NoCall
      <4>5. ~moved[x] /\ Alone(x)
        BY <3>3, <4>1 DEF LockGranted, GateInv
      <4> QED BY <4>4, <4>5, <4>3, <2>4, <3>3, <4>1, <4>2 DEF LockGranted, Gate!Applied, Alone,
                 LockTaken
    <3> QED BY <2>4, <3>1, <3>2, <3>3 DEF Gate!Applied, LockGranted
  <2>5. ASSUME NEW t \in GateTabs, Gate!Answered(t)
        PROVE  Alone(x)'
    <3>1. CASE x # t
      <4>1. CASE Gate!Reloads(call[t])
        <5>1. Gate!Reload(t, call[t].for = "consent", FALSE) /\ UNCHANGED lock
          BY <2>5, <4>1 DEF Gate!Answered, Gate!server
        <5> QED BY <3>1, <5>1 DEF Alone, Gate!Reload, LockTaken
      <4>2. CASE ~Gate!Reloads(call[t])
        <5>1. /\ call' = [call EXCEPT ![t] = Gate!NoCall] /\ Gate!Show(t, TRUE, FALSE, call[t].hub)
              /\ UNCHANGED <<rows, lock>>
          BY <2>5, <4>2 DEF Gate!Answered, Gate!server
        <5>2. ~moved[x]
          BY <2>5, <3>1, <4>2 DEF Gate!Answered
        <5> QED BY <3>1, <5>1, <5>2 DEF Alone, Gate!Show, LockTaken
      <4> QED BY <4>1, <4>2
    <3>2. CASE x = t /\ Gate!Reloads(call[t])
      BY <2>5, <3>2 DEF Gate!Answered, Alone, Gate!Reload, LockTaken, Gate!server
    <3>3. CASE x = t /\ ~Gate!Reloads(call[t])
      <4>1. /\ call' = [call EXCEPT ![t] = Gate!NoCall]
            /\ moved' = [moved EXCEPT ![t] = @ \/ (Gate!Switches(call[t]) /\ ~call[t].heard)]
            /\ Gate!Show(t, TRUE, FALSE, call[t].hub)
            /\ call[t] # Gate!NoCall /\ LockTaken(t)
            /\ UNCHANGED <<rows, lock>>
        BY <2>5, <3>3 DEF Gate!Answered, LockTaken, Gate!server
      <4>2. ~moved[t] /\ ~(Gate!Switches(call[t]) /\ ~call[t].heard)
        BY <3>3, <4>1
      <4>3. ~Gate!Switches(call[t]) /\ Alone(t)
        BY <3>3, <4>2 DEF Gate!Reloads, GateInv
      <4>4. phase[t] # "app" /\ rows[t] = None /\ lock = call[t].hub
        BY <4>1, <4>3 DEF Alone
      <4>5. me'[t] = lock /\ phase'[t] # "loading" /\ call'[t] = Gate!NoCall /\ rows'[t] = None
        BY <4>1, <4>4 DEF Gate!Show, Gate!Screen
      <4> QED BY <3>3, <4>1, <4>5 DEF Alone, LockTaken
    <3> QED BY <3>1, <3>2, <3>3
  <2>6. ASSUME NEW t \in GateTabs, Gate!AutoRelock(t) \/ Gate!Pick(t) \/ Gate!Switch(t)
                 \/ Gate!LinkLocks(t) \/ Gate!Consent(t)
        PROVE  Alone(x)'
    BY <2>6 DEF Gate!AutoRelock, Gate!Pick, Gate!Switch, Gate!LinkLocks, Gate!Consent,
       Gate!InLink, Gate!Post, Alone, LockTaken, Gate!server, Gate!Switches
  <2>7. ASSUME NEW t \in GateTabs, Gate!Resolve(t)
        PROVE  Alone(x)'
    BY <2>7 DEF Gate!Resolve, Gate!ToLogin, Alone, Gate!Reload, LockTaken, Gate!server
  <2>8. ASSUME NEW t \in GateTabs, Gate!LinkDone(t)
        PROVE  Alone(x)'
    BY <2>8 DEF Gate!LinkDone, Gate!InLink, Alone, Gate!Show, Gate!Screen, LockTaken, Gate!server
  <2>12. ASSUME NEW t \in GateTabs, Gate!Skip(t)
        PROVE  Alone(x)'
    <3>1. CASE x # t
      BY <2>12, <3>1 DEF Gate!Skip, Alone, Gate!Show, LockTaken, Gate!server
    <3>2. CASE x = t /\ call[t] = Gate!NoCall
      BY <2>12, <3>2 DEF Gate!Skip, Alone, Gate!Show, Gate!Screen, LockTaken, Gate!server
    <3>3. CASE x = t /\ call[t] # Gate!NoCall
      <4>1. call'[t] = [call[t] EXCEPT !.heard = FALSE] /\ call[t] \in Calls \ {Gate!NoCall}
            /\ call[t].for = "consent"
        BY <2>12, <3>3 DEF Gate!Skip
      <4>2. /\ call'[t].at = call[t].at /\ call'[t].hub = call[t].hub
            /\ Gate!Switches(call'[t]) /\ call'[t].for # Gate!NoCall.for
        BY <4>1 DEF Calls, Gate!Switches, Gate!NoCall
      <4>3. ~moved[t] /\ Alone(t) /\ phase[t] = "link"
        BY <2>12, <3>3 DEF Gate!Skip
      <4>4. phase'[t] # "loading" /\ me'[t] = me[t] /\ rows'[t] = None
        BY <2>12, <4>3 DEF Gate!Skip, Gate!Show, Gate!Screen, Alone
      <4> QED BY <2>12, <3>3, <4>1, <4>2, <4>3, <4>4 DEF Gate!Skip, Alone, LockTaken, Gate!server
    <3> QED BY <3>1, <3>2, <3>3
  <2>13. ASSUME NEW t \in GateTabs, Gate!AnswerLost(t)
        PROVE  Alone(x)'
    BY <2>13 DEF Gate!AnswerLost, Alone, LockTaken, Gate!server
  <2>14. ASSUME NEW t \in GateTabs, Gate!CloseSettings(t)
        PROVE  Alone(x)'
    <3>1. CASE x # t
      BY <2>14, <3>1 DEF Gate!CloseSettings, Alone, LockTaken, Gate!server
    <3>2. CASE x = t
      <4>1. call'[t] = [call[t] EXCEPT !.heard = FALSE] /\ call[t] \in Calls \ {Gate!NoCall}
            /\ call[t].for = "settings"
        BY <2>14 DEF Gate!CloseSettings
      <4>2. /\ call'[t].at = call[t].at /\ call'[t].hub = call[t].hub
            /\ Gate!Switches(call'[t]) /\ call'[t].for # Gate!NoCall.for
        BY <4>1 DEF Calls, Gate!Switches, Gate!NoCall
      <4> QED BY <2>14, <3>2, <4>1, <4>2 DEF Gate!CloseSettings, Alone, LockTaken, Gate!server
    <3> QED BY <3>1, <3>2
  <2>9. ASSUME NEW t \in GateTabs, Gate!DataCall(t) \/ Gate!Logout(t)
        PROVE  Alone(x)'
    BY <2>9 DEF Gate!DataCall, Gate!Logout, Gate!ToLogin, Alone, Gate!Reload, LockTaken,
       Gate!server
  <2>10. ASSUME Gate!SessionLost \/ Gate!LockLost
        PROVE  Alone(x)'
    BY <2>10 DEF Gate!SessionLost, Gate!LockLost, Gate!Lost
  <2>11. CASE UNCHANGED Gate!vars
    BY <2>11 DEF Gate!vars, Gate!server, Gate!page, Alone, LockTaken
  <2> QED BY <2>1, <2>2, <2>3, <2>4, <2>5, <2>6, <2>7, <2>8, <2>9, <2>10, <2>11,
             <2>12, <2>13, <2>14 DEF Gate!Next, Gate!Own
<1> QED BY <1>1, <1>2, <1>3, PTL DEF Gate!Spec

-----------------------------------------------------------------------------
(* The cached lists.  OwnWritesShow is about the data an entry shows; what  *)
(* carries it is that the answer of a fetch in flight is as new, and that   *)
(* the two keys whose writes fill without invalidating hold what they need. *)

\* What an entry can hold, whoever wrote it.
Contents == [v : Nat, local : SUBSET Nat]
\* The entries followed are entries the hooks know; the mark for no data is none.
ListConfig == QueryKeys \subseteq DOMAIN Lists!Concerns /\ NoData \notin Contents

Entries == [data : Contents \cup {NoData}, invalid : BOOLEAN, st : {"idle", "asked", "ready"},
            ans : Contents \cup {NoData}]
Kinds == {"create", "update", "drag", "change", "mark", "admin", "backupRun", "configSet",
          "cleanup", "logo"}
Writes == [id : Nat, kind : Kinds, st : {"asked", "served"}, ver : Nat, call : BOOLEAN]

ListTyped ==
    /\ key \in QueryKeys /\ version \in Nat /\ own \in 0..version
    /\ entry \in Entries /\ (entry.st = "ready" => entry.ans \in Contents)
    /\ shown \in BOOLEAN /\ raced \in BOOLEAN /\ editor \in BOOLEAN
    /\ used \in [own : Nat, others : Nat, fails : Nat, flips : Nat]
    /\ \A w \in writes : w \in Writes /\ w.kind \in DOMAIN Lists!Rows(key) /\ w.ver <= version

\* An entry that does not say so itself is as new as the tab's own writes, and
\* so is the answer on its way to it.
DataIsOwn == entry.data # NoData /\ ~entry.invalid /\ entry.data.v < own => raced
AnswerIsOwn == entry.st = "ready" /\ entry.ans.v < own => raced
\* The one entry that a write fills without invalidating it, and the one that a
\* write only edits.
TaskFilled == key = "task" /\ own > 0 => entry.data # NoData
Edited == key = "notifs" => own = 0

ListInv == ListTyped /\ DataIsOwn /\ AnswerIsOwn /\ TaskFilled /\ Edited

\* The tables: a kind of write that changes what an entry reads fills or
\* invalidates it, unless it edits it; one that does not leaves it alone.
LEMMA Tables ==
    ASSUME NEW k \in DOMAIN Lists!Concerns, NEW kind \in DOMAIN Lists!Rows(k)
    PROVE  LET row == Lists!Rows(k)[kind] IN
           /\ kind \in Kinds
           /\ kind \notin Lists!Concerns[k] => k \notin row.set /\ k \notin row.inv /\ k \notin row.edit
           /\ kind \in Lists!Concerns[k] => k \in row.set \/ k \in row.inv \/ k \in row.edit
           /\ k \in row.edit <=> k = "notifs"
           /\ k \in row.set /\ k \notin row.inv => k = "task"
           /\ k = "task" => k \notin row.inv /\ (kind \in Lists!Concerns[k] => k \in row.set)
<1> USE DEF Kinds, Lists!Concerns, Lists!Row
<1>1. CASE k \in {"tasks", "task", "tasksMine"}
  BY <1>1 DEF Lists!Rows, Lists!TaskRows
<1>2. CASE k \in {"chatChannels", "chatUnreads"}
  BY <1>2 DEF Lists!Rows, Lists!ChannelRows
<1>3. CASE k = "whiteboards"
  BY <1>3 DEF Lists!Rows, Lists!BoardRows
<1>4. CASE k = "pins"
  BY <1>4 DEF Lists!Rows, Lists!PinRows
<1>5. CASE k = "notifs"
  BY <1>5 DEF Lists!Rows, Lists!NotifRows
<1>6. CASE k \in {"adminBackups", "adminBackupConfig", "adminDisk", "meta"}
  BY <1>6 DEF Lists!Rows, Lists!AdminRows
<1> QED BY <1>1, <1>2, <1>3, <1>4, <1>5, <1>6

\* What the operations of the cache do to an entry.
Whole(e) == e \in Entries /\ (e.st = "ready" => e.ans \in Contents)
LEMMA PutData ==
    ASSUME ListConfig, NEW e, Whole(e), NEW d \in Contents
    PROVE  /\ Whole(Lists!SetData(e, d)) /\ Lists!SetData(e, d).data = d
           /\ Lists!SetData(e, d).st = e.st /\ Lists!SetData(e, d).ans = e.ans
           /\ Whole(Lists!Answer(e, d)) /\ Lists!Answer(e, d).data = e.data
           /\ Lists!Answer(e, d).invalid = e.invalid /\ Lists!Answer(e, d).ans = d
BY DEF Lists!SetData, Lists!Answer, Whole, Entries, ListConfig

\* What a fetch does to an entry.
LEMMA CacheOps ==
    ASSUME ListConfig, NEW e, Whole(e)
    PROVE  /\ Whole(Lists!Ask(e)) /\ Lists!Ask(e).data = e.data /\ Lists!Ask(e).invalid = e.invalid
           /\ Lists!Ask(e).st = "ready" => e.st = "ready" /\ Lists!Ask(e).ans = e.ans
           /\ Whole(Lists!Fail(e)) /\ Lists!Fail(e).data = e.data /\ Lists!Fail(e).invalid = e.invalid
           /\ Lists!Fail(e).st = "idle"
           /\ e.st = "ready" => Whole(Lists!Apply(e)) /\ Lists!Apply(e).data = e.ans
                /\ Lists!Apply(e).st = "idle"
<1> USE DEF Whole, Entries, ListConfig
<1>1. Whole(Lists!Ask(e)) /\ Lists!Ask(e).data = e.data /\ Lists!Ask(e).invalid = e.invalid
      /\ (Lists!Ask(e).st = "ready" => e.st = "ready" /\ Lists!Ask(e).ans = e.ans)
  BY DEF Lists!Ask, Lists!InFlight
<1>2. Whole(Lists!Fail(e)) /\ Lists!Fail(e).data = e.data /\ Lists!Fail(e).invalid = e.invalid
        /\ Lists!Fail(e).st = "idle"
  BY DEF Lists!Fail
<1>3. e.st = "ready" => Whole(Lists!Apply(e)) /\ Lists!Apply(e).data = e.ans
        /\ Lists!Apply(e).st = "idle"
  BY DEF Lists!Apply
<1> QED BY <1>1, <1>2, <1>3

\* What an invalidation does to it.
LEMMA InvalidateOp ==
    ASSUME ListConfig, NEW e, Whole(e), NEW o \in BOOLEAN
    PROVE  /\ Whole(Lists!Invalidate(e, o)) /\ Lists!Invalidate(e, o).data = e.data
           /\ Lists!Invalidate(e, o).invalid
           /\ Lists!Invalidate(e, o).st = "ready" =>
                      /\ e.st = "ready" /\ Lists!Invalidate(e, o).ans = e.ans
                      /\ e.data = NoData \/ ~o
BY DEF Lists!Invalidate, Lists!Restart, Lists!InFlight, Whole, Entries, ListConfig

\* A local edit keeps the version it is made on.
LEMMA LocalEdit ==
    ASSUME ListConfig, NEW e, Whole(e), NEW id \in Nat
    PROVE  /\ Whole(Lists!Local(e, id)) /\ Lists!Local(e, id).st = e.st
                /\ Lists!Local(e, id).ans = e.ans
           /\ e.data = NoData => Lists!Local(e, id) = e
           /\ e.data # NoData => /\ Lists!Local(e, id).data # NoData
                                 /\ Lists!Local(e, id).data.v = e.data.v
<1>1. CASE e.data = NoData
  BY <1>1 DEF Lists!Local
<1>2. CASE e.data # NoData
  <2> DEFINE d == [e.data EXCEPT !.local = @ \cup {id}]
  <2>1. d \in Contents /\ d.v = e.data.v
    BY <1>2 DEF Whole, Entries, Contents
  <2>2. Lists!Local(e, id) = Lists!SetData(e, d)
    BY <1>2 DEF Lists!Local
  <2> HIDE DEF d
  <2> QED BY <1>2, <2>1, <2>2, PutData DEF ListConfig
<1> QED BY <1>1, <1>2

\* An entry first asked for holds nothing.
LEMMA ListStart == ASSUME ListConfig PROVE Lists!Init => ListInv
<1> SUFFICES ASSUME Lists!Init
             PROVE  ListInv
  OBVIOUS
<1>1. entry = [data |-> NoData, invalid |-> FALSE, st |-> "asked", ans |-> NoData]
  BY DEF Lists!Init, Lists!Ask, Lists!Empty, Lists!InFlight
<1>2. entry \in Entries /\ entry.st # "ready" /\ entry.data = NoData
  BY <1>1 DEF Entries
<1>3. used = [own |-> 0, others |-> 0, fails |-> 0, flips |-> 0]
  BY DEF Lists!Init
<1>4. used \in [own : Nat, others : Nat, fails : Nat, flips : Nat]
  BY <1>3
<1>5. shown \in BOOLEAN /\ raced \in BOOLEAN /\ editor \in BOOLEAN
  BY Zenon DEF Lists!Init
<1>6. key \in QueryKeys /\ version = 0 /\ own = 0 /\ writes = {}
  BY DEF Lists!Init
<1>7. ListTyped
  BY <1>2, <1>4, <1>5, <1>6 DEF ListTyped
<1> QED BY <1>2, <1>6, <1>7 DEF ListInv, DataIsOwn, AnswerIsOwn, TaskFilled, Edited

\* The answer to a write: the rows its hook fills, edits and invalidates.
LEMMA SettleStep == ASSUME ListConfig, ListInv, NEW w \in writes, Lists!Settle(w) PROVE ListInv'
<1> USE DEF ListInv
<1> DEFINE row == Lists!Rows(key)[w.kind]
           concerns == w.kind \in Lists!Concerns[key]
           s == IF key \in row.set THEN Lists!SetData(entry, Lists!Data(w.ver, {}))
                ELSE IF key \in row.edit THEN Lists!Local(entry, w.id) ELSE entry
           e == IF key \in row.inv THEN Lists!Invalidate(s, shown) ELSE s
<1>1. /\ entry' = e /\ writes' = writes \ {w}
      /\ raced' = (raced \/ (concerns /\ Lists!Crossed(w, row)))
      /\ own' = IF concerns /\ w.ver > own /\ key \notin row.edit THEN w.ver ELSE own
      /\ UNCHANGED <<key, version, shown, editor, used>>
  BY DEF Lists!Settle, Lists!SettleEntry
<1>2. /\ w.kind \in Kinds
      /\ ~concerns => key \notin row.set /\ key \notin row.inv /\ key \notin row.edit
      /\ concerns => key \in row.set \/ key \in row.inv \/ key \in row.edit
      /\ key \in row.edit <=> key = "notifs"
      /\ key \in row.set /\ key \notin row.inv => key = "task"
      /\ key = "task" => key \notin row.inv /\ (concerns => key \in row.set)
  BY Tables DEF ListTyped, ListConfig
<1>3. /\ Whole(entry) /\ w.ver \in 0..version /\ w.id \in Nat /\ shown \in BOOLEAN
      /\ version \in Nat /\ own \in 0..version
  BY DEF ListTyped, Writes, Whole
<1>4. Lists!Data(w.ver, {}) \in Contents /\ Lists!Data(w.ver, {}).v = w.ver
  BY <1>3 DEF Lists!Data, Contents
<1>5. /\ Whole(s) /\ s.st = entry.st /\ s.ans = entry.ans
      /\ key \in row.set => s.data = Lists!Data(w.ver, {})
      /\ key \notin row.set /\ key \notin row.edit => s = entry
  <2> DEFINE d == Lists!Data(w.ver, {})
  <2>1. /\ Whole(Lists!SetData(entry, d)) /\ Lists!SetData(entry, d).st = entry.st
        /\ Lists!SetData(entry, d).ans = entry.ans /\ Lists!SetData(entry, d).data = d
    <3>1. d \in Contents
      BY <1>4
    <3> HIDE DEF d
    <3> QED BY <1>3, <3>1, PutData
  <2>2. /\ Whole(Lists!Local(entry, w.id)) /\ Lists!Local(entry, w.id).st = entry.st
        /\ Lists!Local(entry, w.id).ans = entry.ans
    BY <1>3, LocalEdit
  <2>3. Whole(entry)
    BY <1>3
  <2>4. CASE key \in row.set
    BY <2>1, <2>4
  <2>5. CASE key \notin row.set
    BY <2>2, <2>3, <2>5
  <2> QED BY <2>4, <2>5
<1> HIDE DEF s
<1>6. /\ Whole(e) /\ e.data = s.data
      /\ key \in row.inv => e.invalid
      /\ key \notin row.inv => e = s
      /\ e.st = "ready" => /\ entry.st = "ready" /\ e.ans = entry.ans
                           /\ key \in row.inv => s.data = NoData \/ ~shown
  <2>1. CASE key \in row.inv
    <3>1. /\ Whole(Lists!Invalidate(s, shown)) /\ Lists!Invalidate(s, shown).data = s.data
          /\ Lists!Invalidate(s, shown).invalid
          /\ Lists!Invalidate(s, shown).st = "ready" =>
                     /\ s.st = "ready" /\ Lists!Invalidate(s, shown).ans = s.ans
                     /\ s.data = NoData \/ ~shown
      BY <1>3, <1>5, InvalidateOp
    <3>2. e = Lists!Invalidate(s, shown)
      BY <2>1
    <3> HIDE DEF e
    <3> QED BY <1>5, <2>1, <3>1, <3>2
  <2>2. CASE key \notin row.inv
    BY <1>5, <2>2
  <2> QED BY <2>1, <2>2
<1> HIDE DEF e
<1>7. own' \in 0..version
  BY <1>1, <1>3
<1>8. ListTyped'
  BY <1>1, <1>3, <1>6, <1>7 DEF ListTyped, Whole
<1>9. raced => raced'
  BY <1>1, Zenon
<1>10. Edited'
  BY <1>1, <1>2 DEF Edited
<1>11. DataIsOwn'
  <2> SUFFICES ASSUME e.data # NoData, ~e.invalid, e.data.v < own', ~raced
               PROVE  concerns /\ Lists!Crossed(w, row)
    BY <1>1, <1>9 DEF DataIsOwn
  <2>1. key \notin row.inv /\ e = s
    BY <1>6
  <2>2. CASE ~concerns
    BY <1>1, <1>2, <1>5, <2>1, <2>2 DEF DataIsOwn
  <2>3. CASE concerns /\ key \in row.edit
    <3>1. own' = 0
      BY <1>1, <1>2, <2>3 DEF Edited
    <3>2. e.data.v \in Nat
      BY <1>6 DEF Whole, Entries, Contents
    <3> QED BY <3>1, <3>2
  <2>4. CASE concerns /\ key \notin row.edit
    <3>1. key \in row.set /\ s.data.v = w.ver /\ key = "task"
      BY <1>2, <1>4, <1>5, <2>1, <2>4
    <3>2. w.ver < own
      BY <1>1, <1>3, <2>1, <2>4, <3>1
    <3>3. entry.data # NoData
      BY <1>3, <3>1, <3>2 DEF TaskFilled
    <3>4. entry.invalid \/ entry.data.v > w.ver
      <4>1. entry.data.v \in Nat
        BY <1>3, <3>3 DEF Whole, Entries, Contents
      <4> QED BY <1>3, <3>2, <3>3, <4>1 DEF DataIsOwn
    <3> QED BY <2>1, <2>4, <3>1, <3>3, <3>4 DEF Lists!Crossed, Lists!Newer
  <2> QED BY <2>2, <2>3, <2>4
<1>12. AnswerIsOwn'
  <2> SUFFICES ASSUME e.st = "ready", e.ans.v < own', ~raced
               PROVE  concerns /\ Lists!Crossed(w, row)
    BY <1>1, <1>9 DEF AnswerIsOwn
  <2>1. entry.st = "ready" /\ e.ans = entry.ans
    BY <1>6
  <2>2. own' # own
    BY <2>1 DEF AnswerIsOwn
  <2>3. concerns /\ key \notin row.edit
    BY <1>1, <2>2
  <2>4. key \in row.inv => entry.data = NoData \/ ~shown
    BY <1>2, <1>4, <1>5, <1>6, <2>3 DEF ListConfig
  <2> QED BY <2>1, <2>3, <2>4 DEF Lists!Crossed, Lists!InFlight
<1>13. TaskFilled'
  <2> SUFFICES ASSUME key = "task", own' > 0
               PROVE  e.data # NoData
    BY <1>1 DEF TaskFilled
  <2>1. CASE concerns
    BY <1>2, <1>4, <1>5, <1>6, <2>1 DEF ListConfig
  <2>2. CASE ~concerns
    BY <1>1, <1>2, <1>5, <1>6, <2>2 DEF TaskFilled
  <2> QED BY <2>1, <2>2
<1> QED BY <1>8, <1>10, <1>11, <1>12, <1>13

\* A write that begins, with the edit made beforehand.
LEMMA MutateStep ==
    ASSUME ListConfig, ListInv, NEW kind \in DOMAIN Lists!Rows(key), Lists!Mutate(kind)
    PROVE  ListInv'
<1> USE DEF ListInv
<1> DEFINE row == Lists!Rows(key)[kind]
           id == used.own + 1
           guess == key \in row.guess
           w == [id |-> id, kind |-> kind, st |-> "asked", ver |-> 0, call |-> row.guess # {}]
<1>1. /\ guess => entry.data # NoData
      /\ entry' = IF guess THEN Lists!Local(entry, id) ELSE entry
      /\ raced' = (raced \/ (guess /\ entry.invalid))
      /\ writes' = writes \cup {w}
      /\ used' = [used EXCEPT !.own = @ + 1]
      /\ UNCHANGED <<key, version, shown, editor, own>>
  BY DEF Lists!Mutate
<1>2. id \in Nat /\ Whole(entry) /\ version \in Nat
  BY DEF ListTyped, Whole
<1>3. w \in Writes /\ w.kind = kind /\ w.ver = 0
  <2>1. kind \in Kinds
    BY Tables DEF ListTyped, ListConfig
  <2> HIDE DEF id
  <2> QED BY <1>2, <2>1 DEF Writes
<1> HIDE DEF w, id
<1>4. /\ Whole(entry') /\ entry'.st = entry.st /\ entry'.ans = entry.ans
      /\ entry.data # NoData => entry'.data # NoData /\ entry'.data.v = entry.data.v
      /\ entry.data = NoData => entry' = entry
      /\ ~guess => entry' = entry
  BY <1>1, <1>2, LocalEdit
<1>5. raced' \in BOOLEAN /\ (raced => raced') /\ (guess /\ entry.invalid => raced')
  BY <1>1, Zenon
<1>6. ListTyped'
  BY <1>1, <1>2, <1>3, <1>4, <1>5 DEF ListTyped, Whole
<1>7. DataIsOwn'
  BY <1>1, <1>4, <1>5 DEF DataIsOwn
<1>8. AnswerIsOwn' /\ TaskFilled' /\ Edited'
  BY <1>1, <1>4, <1>5 DEF AnswerIsOwn, TaskFilled, Edited
<1> QED BY <1>6, <1>7, <1>8


\* The steps that leave the server, the tab's writes and the history alone: what
\* they do to the entry decides.
LEMMA EntryStep ==
    ASSUME ListInv, Whole(entry'), UNCHANGED <<key, version, own>>,
           shown' \in BOOLEAN, editor' \in BOOLEAN, raced' \in BOOLEAN,
           writes' \subseteq writes,
           used' \in [own : Nat, others : Nat, fails : Nat, flips : Nat],
           \/ entry'.data = entry.data /\ (entry.invalid => entry'.invalid)
           \/ entry'.data # NoData /\ (entry'.data.v < own => raced'),
           entry'.st = "ready" => \/ entry.st = "ready" /\ entry'.ans = entry.ans
                                  \/ entry'.ans.v = version,
           raced => raced' \/ (entry'.st = "idle" /\ entry'.data # NoData /\ ~(entry'.data.v < own))
    PROVE  ListInv'
<1> USE DEF ListInv
<1>1. ListTyped'
  BY DEF ListTyped, Whole
<1>2. DataIsOwn'
  BY DEF DataIsOwn
<1>3. own \in Nat /\ version \in Nat /\ ~(version < own)
  BY DEF ListTyped
<1>4. AnswerIsOwn'
  BY <1>3 DEF AnswerIsOwn
<1>5. TaskFilled' /\ Edited'
  BY DEF TaskFilled, Edited
<1> QED BY <1>1, <1>2, <1>4, <1>5

\* A fetch begins.
LEMMA AskStep ==
    ASSUME ListConfig, ListInv, entry' = Lists!Ask(entry), UNCHANGED <<key, version, editor,
      writes, own, raced>>,
           shown' \in BOOLEAN, used' \in [own : Nat, others : Nat, fails : Nat, flips : Nat]
    PROVE  ListInv'
<1>1. Whole(entry) /\ raced \in BOOLEAN /\ editor \in BOOLEAN
  BY DEF ListInv, ListTyped, Whole
<1>2. /\ Whole(entry') /\ entry'.data = entry.data /\ entry'.invalid = entry.invalid
      /\ entry'.st = "ready" => entry.st = "ready" /\ entry'.ans = entry.ans
  BY <1>1, CacheOps
<1> QED BY <1>1, <1>2, EntryStep

\* Writing the answer of a write down on the server moves the version on.
LEMMA ServeWriteStep ==
    ASSUME ListConfig, ListInv, NEW w \in writes, Lists!ServeWrite(w)
    PROVE  ListInv'
<1> USE DEF ListInv
<1> DEFINE served == [w EXCEPT !.st = "served", !.ver = version + 1]
<1>1. /\ version' = version + 1 /\ writes' = (writes \ {w}) \cup {served}
      /\ UNCHANGED <<key, entry, shown, editor, own, raced, used>>
  BY DEF Lists!ServeWrite
<1>2. served \in Writes /\ served.kind = w.kind /\ served.ver = version + 1
  <2>1. w \in Writes /\ version + 1 \in Nat
    BY DEF ListTyped
  <2> DEFINE v == version + 1
  <2> HIDE DEF v
  <2>2. [w EXCEPT !.st = "served", !.ver = v] \in Writes
    BY <2>1 DEF Writes, v
  <2>3. /\ [w EXCEPT !.st = "served", !.ver = v].kind = w.kind
        /\ [w EXCEPT !.st = "served", !.ver = v].ver = v
    BY <2>1 DEF Writes
  <2> QED BY <2>2, <2>3 DEF v
<1> HIDE DEF served
<1>3. version \in Nat /\ own \in 0..version /\ \A x \in writes : x.ver \in Nat
  BY DEF ListTyped, Writes
<1>4. ListTyped'
  BY <1>1, <1>2, <1>3 DEF ListTyped
<1> QED BY <1>1, <1>4 DEF DataIsOwn, AnswerIsOwn, TaskFilled, Edited

\* Another client's write.
LEMMA OtherWritesStep == ASSUME ListInv, Lists!OtherWrites PROVE ListInv'
<1> USE DEF ListInv
<1>1. /\ version' = version + 1 /\ used' = [used EXCEPT !.others = @ + 1]
      /\ UNCHANGED <<key, entry, shown, editor, writes, own, raced>>
  BY DEF Lists!OtherWrites
<1>2. used' \in [own : Nat, others : Nat, fails : Nat, flips : Nat]
  BY <1>1 DEF ListTyped
<1>3. version \in Nat /\ own \in 0..version /\ \A x \in writes : x.ver \in Nat
  BY DEF ListTyped, Writes
<1>4. ListTyped'
  BY <1>1, <1>2, <1>3 DEF ListTyped
<1> QED BY <1>1, <1>4 DEF DataIsOwn, AnswerIsOwn, TaskFilled, Edited

\* A write that fails: an entry edited beforehand is marked stale.
LEMMA WriteFailsStep ==
    ASSUME ListConfig, ListInv, NEW w \in writes, Lists!WriteFails(w)
    PROVE  ListInv'
<1>1. Whole(entry) /\ raced \in BOOLEAN /\ editor \in BOOLEAN /\ shown \in BOOLEAN
      /\ used \in [own : Nat, others : Nat, fails : Nat, flips : Nat]
  BY DEF ListInv, ListTyped, Whole
<1>2. /\ entry' = Lists!Invalidate(entry, shown) \/ entry' = entry
      /\ writes' \subseteq writes
      /\ used' = [used EXCEPT !.fails = @ + 1]
      /\ UNCHANGED <<key, version, shown, editor, own, raced>>
  BY DEF Lists!WriteFails
<1>3. /\ Whole(entry') /\ entry'.data = entry.data /\ (entry.invalid => entry'.invalid)
      /\ entry'.st = "ready" => entry.st = "ready" /\ entry'.ans = entry.ans
  <2>1. CASE entry' = Lists!Invalidate(entry, shown)
    BY <1>1, <2>1, InvalidateOp
  <2>2. CASE entry' = entry
    BY <1>1, <2>2
  <2> QED BY <1>2, <2>1, <2>2
<1>4. used' \in [own : Nat, others : Nat, fails : Nat, flips : Nat]
  BY <1>1, <1>2
<1> QED BY <1>1, <1>2, <1>3, <1>4, EntryStep

\* The server answers a fetch with its state.
LEMMA ServeFetchStep == ASSUME ListConfig, ListInv, Lists!ServeFetch PROVE ListInv'
<1>1. Whole(entry) /\ raced \in BOOLEAN /\ editor \in BOOLEAN /\ shown \in BOOLEAN
      /\ used \in [own : Nat, others : Nat, fails : Nat, flips : Nat] /\ version \in Nat
  BY DEF ListInv, ListTyped, Whole
<1>2. entry' = Lists!Answer(entry, Lists!Data(version, {}))
        /\ UNCHANGED <<key, version, shown, editor, writes, own, raced, used>>
  BY DEF Lists!ServeFetch
<1>3. Lists!Data(version, {}) \in Contents /\ Lists!Data(version, {}).v = version
  BY <1>1 DEF Lists!Data, Contents
<1>4. /\ Whole(entry') /\ entry'.data = entry.data /\ entry'.invalid = entry.invalid
      /\ entry'.ans = Lists!Data(version, {})
  <2> DEFINE d == Lists!Data(version, {})
  <2>1. d \in Contents
    BY <1>3
  <2> HIDE DEF d
  <2>2. Whole(Lists!Answer(entry, d)) /\ Lists!Answer(entry, d).data = entry.data
        /\ Lists!Answer(entry, d).invalid = entry.invalid /\ Lists!Answer(entry, d).ans = d
    BY <1>1, <2>1, PutData
  <2> QED BY <1>2, <2>2 DEF d
<1> QED BY <1>1, <1>2, <1>3, <1>4, EntryStep

\* The answer of a fetch comes in.
LEMMA ApplyFetchStep == ASSUME ListConfig, ListInv, Lists!ApplyFetch PROVE ListInv'
<1>1. Whole(entry) /\ raced \in BOOLEAN /\ editor \in BOOLEAN /\ shown \in BOOLEAN
      /\ used \in [own : Nat, others : Nat, fails : Nat, flips : Nat]
  BY DEF ListInv, ListTyped, Whole
<1>2. entry.st = "ready" /\ entry' = Lists!Apply(entry) /\ raced' = (raced /\ entry.ans.v < own)
      /\ UNCHANGED <<key, version, shown, editor, writes, own, used>>
  BY DEF Lists!ApplyFetch
<1>3. Whole(entry') /\ entry'.data = entry.ans /\ entry'.st = "idle" /\ entry'.data # NoData
  BY <1>1, <1>2, CacheOps DEF Whole, ListConfig
<1>4. entry.ans.v < own => raced
  BY <1>2 DEF ListInv, AnswerIsOwn
<1>5. /\ raced' \in BOOLEAN /\ (entry.ans.v < own => raced')
      /\ raced => raced' \/ ~(entry.ans.v < own)
  BY <1>1, <1>2, <1>4, Zenon
<1> QED BY <1>1, <1>2, <1>3, <1>5, EntryStep

\* A fetch fails.
LEMMA FetchFailsStep == ASSUME ListConfig, ListInv, Lists!FetchFails PROVE ListInv'
<1>1. Whole(entry) /\ raced \in BOOLEAN /\ editor \in BOOLEAN /\ shown \in BOOLEAN
      /\ used \in [own : Nat, others : Nat, fails : Nat, flips : Nat]
  BY DEF ListInv, ListTyped, Whole
<1>2. /\ entry' = Lists!Fail(entry) /\ used' = [used EXCEPT !.fails = @ + 1]
      /\ UNCHANGED <<key, version, shown, editor, writes, own, raced>>
  BY DEF Lists!FetchFails
<1>3. /\ Whole(entry') /\ entry'.data = entry.data /\ entry'.invalid = entry.invalid
      /\ entry'.st = "idle"
  BY <1>1, <1>2, CacheOps
<1>4. used' \in [own : Nat, others : Nat, fails : Nat, flips : Nat]
  BY <1>1, <1>2
<1> QED BY <1>1, <1>2, <1>3, <1>4, EntryStep

\* Opening or closing a view.
LEMMA FlipStep ==
    ASSUME ListConfig, ListInv, Lists!SwitchView \/ Lists!Show \/ Lists!Hide
    PROVE  ListInv'
<1>1. Whole(entry) /\ raced \in BOOLEAN /\ editor \in BOOLEAN /\ shown \in BOOLEAN
      /\ used \in [own : Nat, others : Nat, fails : Nat, flips : Nat]
  BY DEF ListInv, ListTyped, Whole
<1>2. used' = [used EXCEPT !.flips = @ + 1] /\ UNCHANGED <<key, version, writes, own, raced>>
  BY DEF Lists!SwitchView, Lists!Show, Lists!Hide
<1>3. used' \in [own : Nat, others : Nat, fails : Nat, flips : Nat]
  BY <1>1, <1>2
<1>4. shown' \in BOOLEAN /\ editor' \in BOOLEAN
  BY <1>1, Zenon DEF Lists!SwitchView, Lists!Show, Lists!Hide
<1>5. (entry' = Lists!Ask(entry) /\ UNCHANGED editor) \/ entry' = entry
  BY DEF Lists!SwitchView, Lists!Show, Lists!Hide
<1>6. CASE entry' = Lists!Ask(entry) /\ UNCHANGED editor
  BY <1>1, <1>2, <1>3, <1>4, <1>6, AskStep
<1>7. CASE entry' = entry
  BY <1>1, <1>2, <1>3, <1>4, <1>7, EntryStep
<1> QED BY <1>5, <1>6, <1>7

\* Every step keeps the invariant.
LEMMA ListNext == ASSUME ListConfig, ListInv, [Lists!Next]_(Lists!vars) PROVE ListInv'
<1>1. CASE Lists!OtherWrites
  BY <1>1, OtherWritesStep
<1>2. ASSUME NEW kind \in DOMAIN Lists!Rows(key), Lists!Mutate(kind) PROVE ListInv'
  BY <1>2, MutateStep
<1>3. ASSUME NEW w \in writes, Lists!ServeWrite(w) \/ Lists!Settle(w) \/ Lists!WriteFails(w)
               PROVE ListInv'
  BY <1>3, ServeWriteStep, SettleStep, WriteFailsStep
<1>4. CASE Lists!SwitchView \/ Lists!Show \/ Lists!Hide
  BY <1>4, FlipStep
<1>5. CASE Lists!Poll \/ Lists!Reconnect
  <2>1. entry' = Lists!Ask(entry) /\ UNCHANGED <<key, version, shown, editor, writes, own, raced, used>>
    BY <1>5 DEF Lists!Poll, Lists!Reconnect
  <2>2. shown \in BOOLEAN /\ used \in [own : Nat, others : Nat, fails : Nat, flips : Nat]
    BY DEF ListInv, ListTyped
  <2> QED BY <2>1, <2>2, AskStep
<1>6. CASE Lists!ServeFetch
  BY <1>6, ServeFetchStep
<1>7. CASE Lists!ApplyFetch
  BY <1>7, ApplyFetchStep
<1>8. CASE Lists!FetchFails
  BY <1>8, FetchFailsStep
<1>9. CASE UNCHANGED Lists!vars
  BY <1>9 DEF Lists!vars, ListInv, ListTyped, DataIsOwn, AnswerIsOwn, TaskFilled, Edited
<1> QED BY <1>1, <1>2, <1>3, <1>4, <1>5, <1>6, <1>7, <1>8, <1>9 DEF Lists!Next

\* What a tab wrote shows in every view of it: an entry older than one of the
\* tab's settled writes is marked stale or is being fetched again, unless the
\* write crossed a fetch that its hook does not restart.
THEOREM ListsShowOwnWrites == ASSUME ListConfig PROVE Lists!Spec => []OwnWritesShow
<1>1. Lists!Init => ListInv
  BY ListStart
<1>2. ListInv /\ [Lists!Next]_(Lists!vars) => ListInv'
  BY ListNext
<1>3. ListInv => OwnWritesShow
  BY DEF ListInv, DataIsOwn, OwnWritesShow, Lists!OwnWritesShow, Lists!Trusted
<1> QED BY <1>1, <1>2, <1>3, PTL DEF Lists!Spec

-----------------------------------------------------------------------------
(* The wiki's drafts.  The text in the editor is at least as new as the     *)
(* draft it autosaves over, and the answers under way carry texts that are  *)
(* published: so a write to the database replaces an edit only as Kept says.*)

Words == [n : Nat, saw : Nat]
Stored == [text : Words, base : Nat, status : {"draft", "published", "modified"}]
Pubs == [at : {"sent", "checked", "done"}, key : Wiki!Keys, draft : Stored, text : Words,
         force : BOOLEAN, version : Nat]
Restores == [at : {"sent", "checked", "done"}, version : Nat, force : BOOLEAN, tip : Nat]

\* The texts published so far.
Public == {versions[i] : i \in 1..Wiki!Tip}

PageSound == versions \in Seq(Words) /\ strokes \in Nat /\ others \in Nat
             /\ \A t \in Public : t.n <= strokes
\* A draft that says it is published is: only such a draft takes a restored text.
DraftSound(d, texts, n) == /\ d \in Stored /\ d.text.n <= n
                           /\ d.status = "published" => d.text \in texts
                           /\ d.base # 0 => d.status # "draft"
\* The draft of a page pulled down stays linked, so that no import replaces it.
DraftsSound == /\ DOMAIN drafts = Wiki!Keys
               /\ \A k \in Wiki!Keys : drafts[k] # Wiki!NoDraft
                    => DraftSound(drafts[k], Public, strokes)
               /\ drafts["page"] # Wiki!NoDraft => drafts["page"].base # 0
\* The editor's text is the newest: what an autosave replaces is older.
EditorSound ==
    /\ editing \in Wiki!Keys \cup {Wiki!NoKey} /\ working \in Words /\ working.n <= strokes
    /\ timer # Wiki!NoDraft => /\ editing # Wiki!NoKey /\ timer \in Stored
                               /\ editing = "page" => timer.base # 0
    /\ editing # Wiki!NoKey => /\ drafts[editing] # Wiki!NoDraft
                               /\ \/ drafts[editing].text \in Public
                                  \/ drafts[editing].text.n <= working.n
CopySound == tipListed \in 0..Wiki!Tip /\ (content # Wiki!NoText => content \in Public)
PubSound == pub.at # "idle" =>
    /\ pub \in Pubs /\ pub.text.n <= strokes
    /\ pub.at = "done" => pub.version # 0 /\ pub.text \in Public
\* The draft a refresh was asked for has edits of its own, or a published text.
RefreshSound == refresh.at = "sent" =>
    /\ refresh.key \in Wiki!Keys /\ refresh.tip \in 1..Wiki!Tip
    /\ refresh.draft.status = "modified" \/ refresh.draft.text \in Public
RestoreSound == restore.at # "idle" =>
    /\ restore \in Restores /\ restore.version \in 1..Wiki!Tip
    /\ restore.at = "done" => restore.tip # 0

WikiInv == /\ PageSound /\ DraftsSound /\ EditorSound /\ CopySound
           /\ PubSound /\ RefreshSound /\ RestoreSound

\* The page only grows, and so does the count of keystrokes.
Grows == /\ Public \subseteq Public' /\ Wiki!Tip \in Nat /\ Wiki!Tip' \in Nat /\ Wiki!Tip <= Wiki!Tip'
         /\ strokes \in Nat /\ strokes' \in Nat /\ strokes <= strokes'

\* A step that publishes nothing and types nothing.
LEMMA Stands == PageSound /\ UNCHANGED <<versions, strokes, others>> => PageSound' /\ Grows
BY DEF PageSound, Public, Wiki!Tip, Grows

\* A step that publishes a text.
LEMMA OneMore ==
    ASSUME PageSound, NEW t \in Words, t.n <= strokes, versions' = Append(versions, t),
           UNCHANGED strokes, others' \in Nat
    PROVE  PageSound' /\ Grows /\ t \in Public' /\ Wiki!Tip' = Wiki!Tip + 1
<1>1. /\ versions' \in Seq(Words) /\ Wiki!Tip \in Nat /\ Wiki!Tip' = Wiki!Tip + 1
           /\ versions'[Wiki!Tip + 1] = t
      /\ \A i \in 1..Wiki!Tip : versions'[i] = versions[i]
  BY AppendProperties DEF PageSound, Wiki!Tip
<1>2. Public' = Public \cup {t}
  <2>1. \A i \in 1..Wiki!Tip' : i \in 1..Wiki!Tip \/ i = Wiki!Tip + 1
    BY <1>1
  <2>2. Wiki!Tip + 1 \in 1..Wiki!Tip' /\ \A i \in 1..Wiki!Tip : i \in 1..Wiki!Tip'
    BY <1>1
  <2>3. Public' = {versions'[i] : i \in 1..Wiki!Tip'}
    BY DEF Public
  <2> HIDE DEF Wiki!Tip
  <2> QED BY <1>1, <2>1, <2>2, <2>3 DEF Public
<1> QED BY <1>1, <1>2 DEF PageSound, Grows

\* What is said of each part stands when the page and the strokes only grow.
LEMMA DraftsKeep == DraftsSound /\ Grows /\ UNCHANGED drafts => DraftsSound'
BY DEF DraftsSound, DraftSound, Grows, Stored, Words

\* The same of the editor.
LEMMA EditorKeep ==
    EditorSound /\ DraftsSound /\ Grows /\ UNCHANGED <<drafts, editing, working, timer>> => EditorSound'
BY DEF EditorSound, DraftsSound, DraftSound, Grows, Words

\* The same of the cached list and page.
LEMMA CopyKeep == CopySound /\ Grows /\ UNCHANGED <<tipListed, content>> => CopySound'
BY DEF CopySound, Grows

\* The same of the publish under way.
LEMMA PubKeep == PubSound /\ Grows /\ UNCHANGED pub => PubSound'
BY DEF PubSound, Grows, Pubs, Words

\* The same of the refresh and the restore under way.
LEMMA CallsKeep ==
    /\ RefreshSound /\ Grows /\ UNCHANGED refresh => RefreshSound'
    /\ RestoreSound /\ Grows /\ UNCHANGED restore => RestoreSound'
BY DEF RefreshSound, RestoreSound, Grows, Restores

\* A draft goes into the database: it is linked unless it was begun here, and
\* newer than the editor's only when it is published.
LEMMA Store ==
    ASSUME DraftsSound, EditorSound, Grows, NEW k \in Wiki!Keys, NEW d,
           drafts' = [drafts EXCEPT ![k] = d], UNCHANGED <<editing, working>>,
           d # Wiki!NoDraft, DraftSound(d, Public', strokes'), k = "page" => d.base # 0,
           timer' = timer \/ timer' = Wiki!NoDraft,
           d.text \in Public' \/ d.text.n <= working.n
    PROVE  DraftsSound' /\ EditorSound'
<1>1. DOMAIN drafts' = Wiki!Keys /\ drafts'[k] = d /\ \A g \in Wiki!Keys : g # k
        => drafts'[g] = drafts[g]
  BY DEF DraftsSound
<1>2. \A g \in Wiki!Keys : drafts'[g] # Wiki!NoDraft => DraftSound(drafts'[g], Public', strokes')
  <2> SUFFICES ASSUME NEW g \in Wiki!Keys, g # k, drafts[g] # Wiki!NoDraft
               PROVE  DraftSound(drafts[g], Public', strokes')
    BY <1>1
  <2> QED BY DEF DraftsSound, DraftSound, Grows, Stored, Words
<1>3. DraftsSound'
  BY <1>1, <1>2 DEF DraftsSound, Wiki!Keys
<1>4. EditorSound'
  BY <1>1 DEF EditorSound, Grows, Words, Stored
<1> QED BY <1>3, <1>4

\* What a step does to text typed here, stored and not yet published: what may
\* stand in the place of the draft k (d is what does).
MayReplace(k, d) ==
    \/ d # Wiki!NoDraft /\ d.text.n >= drafts[k].text.n
    \/ view = k /\ d = Wiki!NoDraft
    \/ /\ Wiki!RefreshAnswers(k)
       /\ refresh.draft.status = "modified" \/ drafts[k].text # refresh.draft.text
    \/ Wiki!PublishAnswers(k) /\ drafts[k].text.n > pub.text.n
Kept == \A k \in Wiki!Keys :
    (Wiki!Unpublished(k) /\ drafts'[k] # drafts[k]) => MayReplace(k, drafts'[k])

\* A draft with edits in it is there.
LEMMA UnpublishedDef ==
    ASSUME NEW k, Wiki!Unpublished(k)
    PROVE  drafts[k] # Wiki!NoDraft /\ drafts[k].text \notin Public
BY DEF Wiki!Unpublished, Public

\* A step that changes one draft keeps the edits when it keeps that one's.
LEMMA OneKept ==
    ASSUME DraftsSound, NEW k \in Wiki!Keys, NEW d, drafts' = [drafts EXCEPT ![k] = d],
           Wiki!Unpublished(k) => MayReplace(k, d)
    PROVE  Kept
<1>1. drafts'[k] = d /\ \A g \in Wiki!Keys : g # k => drafts'[g] = drafts[g]
  BY DEF DraftsSound
<1> QED BY <1>1 DEF Kept

\* The calls, the list and the server's page: the drafts and the editor stay.
LEMMA QuietStep ==
    ASSUME WikiInv, PageSound', Grows, UNCHANGED <<drafts, editing, working, timer>>,
           CopySound', PubSound', RefreshSound', RestoreSound'
    PROVE  WikiInv' /\ Kept
BY DraftsKeep, EditorKeep DEF WikiInv, Kept

\* The cached list and page are read again.
LEMMA CopyStep == ASSUME WikiInv, Wiki!RefetchPages \/ Wiki!ReadPage PROVE WikiInv' /\ Kept
<1> USE DEF WikiInv
<1>1. UNCHANGED <<versions, strokes, others, drafts, editing, working, timer, pub, refresh, restore>>
  BY DEF Wiki!RefetchPages, Wiki!ReadPage, Wiki!tab, Wiki!bounds
<1>2. PageSound' /\ Grows
  BY <1>1, Stands
<1>3. CopySound'
  <2>1. Wiki!Tip \in Nat /\ \A i \in 1..Wiki!Tip : versions[i] \in Public
    BY <1>2 DEF Public, Grows
  <2>2. Wiki!Tip' = Wiki!Tip /\ Public' = Public
    BY <1>1 DEF Wiki!Tip, Public
  <2> QED BY <2>1, <2>2 DEF Wiki!RefetchPages, Wiki!ReadPage, CopySound
<1> QED BY <1>1, <1>2, <1>3, PubKeep, CallsKeep, QuietStep

\* The history dialog, and the restore it asks for.
LEMMA HistoryStep ==
    ASSUME WikiInv,
      \/ Wiki!openHistory \/ Wiki!closeHistory \/ Wiki!RestoreWikiPageVersion \/ Wiki!RestoreFails
                    \/ \E v \in 1..Wiki!Tip : Wiki!confirmRestore(v)
    PROVE  WikiInv' /\ Kept
<1> USE DEF WikiInv
<1>1. UNCHANGED <<versions, strokes, others, drafts, tipListed, content, editing, working, timer,
        pub, refresh>>
  BY DEF Wiki!openHistory, Wiki!closeHistory, Wiki!RestoreWikiPageVersion, Wiki!RestoreFails,
     Wiki!confirmRestore, Wiki!tab, Wiki!bounds
<1>2. PageSound' /\ Grows
  BY <1>1, Stands
<1>3. Wiki!Tip' = Wiki!Tip
  BY <1>1 DEF Wiki!Tip
<1>4. RestoreSound'
  <2>1. CASE Wiki!openHistory \/ Wiki!closeHistory
    BY <1>3, <2>1 DEF Wiki!openHistory, Wiki!closeHistory, RestoreSound
  <2>2. CASE Wiki!RestoreFails
    BY <2>2 DEF Wiki!RestoreFails, RestoreSound, Wiki!NoCall
  <2>3. ASSUME NEW v \in 1..Wiki!Tip, Wiki!confirmRestore(v) PROVE RestoreSound'
    <3>1. restore' = [at |-> "sent", version |-> v, force |-> FALSE, tip |-> 0]
      BY <2>3 DEF Wiki!confirmRestore
    <3> QED BY <1>2, <1>3, <2>3, <3>1 DEF RestoreSound, Restores, Grows
  <2>4. CASE Wiki!RestoreWikiPageVersion
    <3>1. restore.at = "sent" /\ \/ restore' = Wiki!NoCall
                                 \/ restore' = [restore EXCEPT !.force = TRUE]
                                 \/ restore' = [restore EXCEPT !.at = "checked"]
      BY <2>4 DEF Wiki!RestoreWikiPageVersion
    <3>2. restore \in Restores /\ restore.version \in 1..Wiki!Tip
      BY <3>1 DEF RestoreSound
    <3>3. \/ restore'.at = "idle"
          \/ restore' \in Restores /\ restore'.version = restore.version /\ restore'.at # "done"
      <4>1. CASE restore' = Wiki!NoCall
        BY <4>1 DEF Wiki!NoCall
      <4>2. CASE restore' = [restore EXCEPT !.force = TRUE]
        BY <3>1, <3>2, <4>2 DEF Restores
      <4>3. CASE restore' = [restore EXCEPT !.at = "checked"]
        BY <3>1, <3>2, <4>3 DEF Restores
      <4> QED BY <3>1, <4>1, <4>2, <4>3
    <3> QED BY <1>3, <3>2, <3>3 DEF RestoreSound
  <2> QED BY <2>1, <2>2, <2>3, <2>4
<1> QED BY <1>1, <1>2, <1>4, CopyKeep, PubKeep, CallsKeep, QuietStep

\* A publish or a refresh begins.
LEMMA WikiAskStep ==
    ASSUME WikiInv, Wiki!handlePublish \/ \E k \in Wiki!Keys : Wiki!handleRefresh(k)
    PROVE  WikiInv' /\ Kept
<1> USE DEF WikiInv
<1>1. UNCHANGED <<versions, strokes, others, drafts, tipListed, content, editing, working, timer,
        restore>>
  BY DEF Wiki!handlePublish, Wiki!handleRefresh, Wiki!tab, Wiki!bounds
<1>2. PageSound' /\ Grows
  BY <1>1, Stands
<1>3. Wiki!Tip' = Wiki!Tip
  BY <1>1 DEF Wiki!Tip
<1>4. PubSound'
  <2>1. CASE UNCHANGED pub
    BY <1>2, <2>1, PubKeep
  <2>2. CASE Wiki!handlePublish
    <3>1. editing \in Wiki!Keys /\ drafts[editing] \in Stored /\ working \in Words
            /\ working.n <= strokes
      BY <2>2 DEF Wiki!handlePublish, EditorSound, DraftsSound, DraftSound
    <3>2. pub' = [at |-> "sent", key |-> editing, draft |-> drafts[editing],
                  text |-> working, force |-> FALSE, version |-> 0]
      BY <2>2 DEF Wiki!handlePublish
    <3> QED BY <1>1, <3>1, <3>2 DEF PubSound, Pubs
  <2> QED BY <2>1, <2>2 DEF Wiki!handleRefresh
<1>5. RefreshSound'
  <2>1. CASE UNCHANGED refresh
    BY <1>2, <2>1, CallsKeep
  <2>2. ASSUME NEW k \in Wiki!Keys, Wiki!handleRefresh(k) PROVE RefreshSound'
    <3>1. refresh' = [at |-> "sent", key |-> k, tip |-> tipListed, draft |-> drafts[k]]
          /\ tipListed # 0 /\ drafts[k] # Wiki!NoDraft /\ drafts[k].base # 0
      BY <2>2 DEF Wiki!handleRefresh, Wiki!Behind, Wiki!Linked
    <3>2. drafts[k].status = "modified" \/ drafts[k].text \in Public
      BY <3>1 DEF DraftsSound, DraftSound, Stored
    <3>3. /\ refresh'.key = k /\ refresh'.tip = tipListed /\ refresh'.draft = drafts[k]
      BY <3>1
    <3>4. tipListed \in 1..Wiki!Tip' /\ Public \subseteq Public'
      BY <1>2, <1>3, <3>1 DEF CopySound, Grows
    <3> QED BY <3>2, <3>3, <3>4 DEF RefreshSound
  <2> QED BY <2>1, <2>2 DEF Wiki!handlePublish
<1> QED BY <1>1, <1>2, <1>4, <1>5, CopyKeep, CallsKeep, QuietStep

\* The server checks a publish, or it fails.
LEMMA PublishStep ==
    ASSUME WikiInv, Wiki!PublishWikiPage \/ Wiki!PublishFails
    PROVE  WikiInv' /\ Kept
<1> USE DEF WikiInv
<1>1. UNCHANGED <<versions, strokes, others, drafts, tipListed, content, editing, working, timer,
        refresh, restore>>
  BY DEF Wiki!PublishWikiPage, Wiki!PublishFails, Wiki!tab, Wiki!bounds
<1>2. PageSound' /\ Grows
  BY <1>1, Stands
<1>3. pub' = Wiki!NoCall \/ (pub.at = "sent" /\ (\/ pub' = [pub EXCEPT !.force = TRUE]
                                                 \/ pub' = [pub EXCEPT !.at = "checked"]))
  BY DEF Wiki!PublishWikiPage, Wiki!PublishFails
<1>4. PubSound'
  <2>1. CASE pub' = Wiki!NoCall
    BY <2>1 DEF PubSound, Wiki!NoCall
  <2>2. CASE pub.at = "sent" /\ (\/ pub' = [pub EXCEPT !.force = TRUE]
                                 \/ pub' = [pub EXCEPT !.at = "checked"])
    <3>1. pub \in Pubs /\ pub.text.n <= strokes
      BY <2>2 DEF PubSound
    <3>2. pub' \in Pubs /\ pub'.text = pub.text /\ pub'.at # "done"
      BY <2>2, <3>1 DEF Pubs
    <3> QED BY <1>1, <3>1, <3>2 DEF PubSound
  <2> QED BY <1>3, <2>1, <2>2
<1> QED BY <1>1, <1>2, <1>4, CopyKeep, CallsKeep, QuietStep

\* A version more: this tab's, a restored one, another device's.
LEMMA UploadStep ==
    ASSUME WikiInv, Wiki!PublishUploads \/ Wiki!RestoreUploads \/ Wiki!OtherPublishes
    PROVE  WikiInv' /\ Kept
<1> USE DEF WikiInv
<1>1. UNCHANGED <<drafts, tipListed, content, editing, working, timer, refresh>>
  BY DEF Wiki!PublishUploads, Wiki!RestoreUploads, Wiki!OtherPublishes, Wiki!tab
<1>2. CASE Wiki!PublishUploads
  <2>1. /\ pub.at = "checked" /\ versions' = Append(versions, pub.text)
        /\ pub' = [pub EXCEPT !.at = "done", !.version = Wiki!Tip + 1]
        /\ UNCHANGED <<strokes, others, restore>>
    BY <1>2 DEF Wiki!PublishUploads, Wiki!bounds
  <2>2. pub \in Pubs /\ pub.text \in Words /\ pub.text.n <= strokes /\ others \in Nat
    BY <2>1 DEF PubSound, Pubs, PageSound
  <2>3. PageSound' /\ Grows /\ pub.text \in Public'
    BY <2>1, <2>2, OneMore
  <2>4. pub' \in Pubs /\ pub'.text = pub.text /\ pub'.version # 0
    <3> DEFINE n == Wiki!Tip + 1
    <3>1. n \in Nat /\ n # 0
      BY <2>3 DEF Grows
    <3>2. pub' = [pub EXCEPT !.at = "done", !.version = n]
      BY <2>1
    <3> HIDE DEF n
    <3> QED BY <2>2, <3>1, <3>2 DEF Pubs
  <2>5. PubSound'
    BY <2>1, <2>2, <2>3, <2>4 DEF PubSound
  <2> QED BY <1>1, <2>1, <2>3, <2>5, CopyKeep, CallsKeep, QuietStep
<1>3. CASE Wiki!RestoreUploads
  <2>1. /\ restore.at = "checked" /\ versions' = Append(versions, versions[restore.version])
        /\ restore' = [restore EXCEPT !.at = "done", !.tip = Wiki!Tip + 1]
        /\ UNCHANGED <<strokes, others, pub>>
    BY <1>3 DEF Wiki!RestoreUploads, Wiki!bounds
  <2>2. restore \in Restores /\ restore.version \in 1..Wiki!Tip
    BY <2>1 DEF RestoreSound
  <2>3. versions[restore.version] \in Words /\ versions[restore.version].n <= strokes /\ others \in Nat
    BY <2>2 DEF PageSound, Public, Wiki!Tip
  <2>4. PageSound' /\ Grows
    BY <2>1, <2>3, OneMore
  <2>5. restore' \in Restores /\ restore'.version = restore.version /\ restore'.tip # 0
    <3> DEFINE n == Wiki!Tip + 1
    <3>1. n \in Nat /\ n # 0
      BY <2>4 DEF Grows
    <3>2. restore' = [restore EXCEPT !.at = "done", !.tip = n]
      BY <2>1
    <3> HIDE DEF n
    <3> QED BY <2>2, <3>1, <3>2 DEF Restores
  <2>6. RestoreSound'
    BY <2>2, <2>4, <2>5 DEF RestoreSound, Grows
  <2> QED BY <1>1, <2>1, <2>4, <2>6, CopyKeep, PubKeep, CallsKeep, QuietStep
<1>4. CASE Wiki!OtherPublishes
  <2> DEFINE t == [n |-> 0, saw |-> others + 1]
  <2>1. versions' = Append(versions, t) /\ others' = others + 1 /\ UNCHANGED <<strokes, pub, restore>>
    BY <1>4 DEF Wiki!OtherPublishes
  <2>2. t \in Words /\ t.n <= strokes /\ others' \in Nat
    BY <2>1 DEF PageSound, Words
  <2> HIDE DEF t
  <2>3. PageSound' /\ Grows
    BY <2>1, <2>2, OneMore
  <2> QED BY <1>1, <2>1, <2>3, CopyKeep, PubKeep, CallsKeep, QuietStep
<1> QED BY <1>2, <1>3, <1>4

\* The editor.
LEMMA EditorStep ==
    ASSUME WikiInv, \/ Wiki!Type \/ \E v \in Wiki!Keys \cup {"remote"} : Wiki!Select(v)
                    \/ \E k \in Wiki!Keys : Wiki!Edit(k)
    PROVE  WikiInv' /\ Kept
<1> USE DEF WikiInv
<1>1. UNCHANGED <<versions, others, drafts, tipListed, content, pub, refresh, restore>>
  BY DEF Wiki!Type, Wiki!Select, Wiki!Edit, Wiki!bounds
<1>2. strokes \in Nat /\ strokes' \in Nat /\ strokes <= strokes'
  BY DEF Wiki!Type, Wiki!Select, Wiki!Edit, Wiki!bounds, PageSound
<1>3. Public' = Public /\ Wiki!Tip' = Wiki!Tip
  BY <1>1 DEF Public, Wiki!Tip
<1>4. PageSound' /\ Grows
  <2>1. \A i \in 1..Len(versions) : versions[i] \in Words
    BY DEF PageSound
  <2>2. \A t \in Public : t.n \in Nat
    BY <2>1 DEF Public, Wiki!Tip, Words
  <2>3. PageSound'
    BY <1>1, <1>2, <1>3, <2>2 DEF PageSound
  <2>4. Wiki!Tip \in Nat
    BY DEF PageSound, Wiki!Tip
  <2> QED BY <1>2, <1>3, <2>3, <2>4 DEF Grows
<1>5. EditorSound'
  <2>1. CASE Wiki!Type
    <3>1. /\ editing \in Wiki!Keys /\ editing' = editing
               /\ working' = [working EXCEPT !.n = strokes + 1]
          /\ strokes' = strokes + 1 /\ timer' = drafts[editing]
      BY <2>1 DEF Wiki!Type, EditorSound
    <3>2. working' \in Words /\ working'.n = strokes'
      BY <1>2, <3>1 DEF EditorSound, Words
    <3>3. drafts[editing] # Wiki!NoDraft /\ DraftSound(drafts[editing], Public, strokes)
          /\ (editing = "page" => drafts[editing].base # 0)
      BY <3>1 DEF EditorSound, DraftsSound, Wiki!Keys, Wiki!NoKey
    <3>4. drafts[editing] \in Stored /\ drafts[editing].text.n <= strokes
            /\ drafts[editing].text.n \in Nat
      BY <3>3 DEF DraftSound, Stored, Words
    <3>5. drafts'[editing'] = drafts[editing] /\ drafts[editing].text.n <= working'.n
      BY <1>1, <1>2, <3>1, <3>2, <3>4
    <3>6. editing # Wiki!NoKey
      BY <3>1 DEF Wiki!Keys, Wiki!NoKey
    <3> QED BY <3>1, <3>2, <1>2, <3>3, <3>4, <3>5, <3>6 DEF EditorSound
  <2>2. ASSUME NEW v, Wiki!Select(v) PROVE EditorSound'
    BY <1>2, <2>2 DEF Wiki!Select, Wiki!leaveEditor, EditorSound, Wiki!NewText, Words
  <2>3. ASSUME NEW k \in Wiki!Keys, Wiki!Edit(k) PROVE EditorSound'
    <3>1. drafts[k] # Wiki!NoDraft /\ DraftSound(drafts[k], Public, strokes)
      BY <2>3 DEF Wiki!Edit, Wiki!InReader, DraftsSound
    <3>2. drafts[k].text \in Words /\ drafts[k].text.n <= strokes /\ drafts[k].text.n \in Nat
      BY <3>1 DEF DraftSound, Stored, Words
    <3>3. editing' = k /\ working' = drafts[k].text /\ timer' = Wiki!NoDraft /\ UNCHANGED strokes
      BY <2>3 DEF Wiki!Edit, Wiki!beginEdit, Wiki!bounds
    <3> QED BY <1>1, <3>1, <3>2, <3>3 DEF EditorSound
  <2> QED BY <2>1, <2>2, <2>3
<1>6. Kept
  BY <1>1 DEF Kept
<1> QED BY <1>1, <1>4, <1>5, <1>6, DraftsKeep, CopyKeep, PubKeep, CallsKeep

\* The steps that change a draft.
LEMMA DraftStep ==
    ASSUME WikiInv, PageSound', Grows, DraftsSound', EditorSound', Kept,
           UNCHANGED <<tipListed>>, content' = content \/ content' \in Public',
           pub' = pub \/ pub' = Wiki!NoCall, refresh' = refresh \/ refresh' = Wiki!NoCall,
           restore' = restore \/ restore' = Wiki!NoCall
    PROVE  WikiInv' /\ Kept
<1> USE DEF WikiInv
<1>1. CopySound'
  BY DEF CopySound, Grows
<1>2. PubSound'
  <2>1. CASE pub' = Wiki!NoCall
    BY <2>1 DEF PubSound, Wiki!NoCall
  <2> QED BY <2>1, PubKeep
<1>3. RefreshSound'
  <2>1. CASE refresh' = Wiki!NoCall
    BY <2>1 DEF RefreshSound, Wiki!NoCall
  <2> QED BY <2>1, CallsKeep
<1>4. RestoreSound'
  <2>1. CASE restore' = Wiki!NoCall
    BY <2>1 DEF RestoreSound, Wiki!NoCall
  <2> QED BY <2>1, CallsKeep
<1> QED BY <1>1, <1>2, <1>3, <1>4

\* A page begun here, or pulled down: into the editor.
LEMMA BeginStep == ASSUME WikiInv, Wiki!handleNew \/ Wiki!importPage PROVE WikiInv' /\ Kept
<1> USE DEF WikiInv
<1>1. UNCHANGED <<versions, strokes, others, tipListed, content, pub, refresh, restore>>
  BY DEF Wiki!handleNew, Wiki!importPage, Wiki!bounds
<1>2. PageSound' /\ Grows /\ Public' = Public /\ strokes \in Nat
  BY <1>1, Stands DEF Public, Wiki!Tip, Grows
<1>3. PICK k \in Wiki!Keys, d \in Stored :
        /\ drafts' = [drafts EXCEPT ![k] = d]
        /\ editing' = k /\ working' = d.text /\ timer' = Wiki!NoDraft
        /\ ~Wiki!Unpublished(k)
        /\ DraftSound(d, Public, strokes) /\ (k = "page" => d.base # 0)
  <2>1. CASE Wiki!handleNew
    <3> DEFINE d == Wiki!Draft(Wiki!NewText, 0, "draft")
    <3>1. DraftSound(d, Public, strokes)
      BY <1>2 DEF DraftSound, Wiki!Draft, Wiki!NewText, Stored, Words
    <3>2. drafts' = [drafts EXCEPT !["new"] = d] /\ editing' = "new" /\ working' = d.text
            /\ timer' = Wiki!NoDraft
      BY <2>1 DEF Wiki!handleNew, Wiki!beginEdit
    <3>3. ~Wiki!Unpublished("new")
      BY <2>1 DEF Wiki!handleNew, Wiki!Unpublished
    <3>4. d \in Stored
      BY <3>1 DEF DraftSound
    <3> HIDE DEF d
    <3> QED BY <3>1, <3>2, <3>3, <3>4 DEF Wiki!Keys
  <2>2. CASE Wiki!importPage
    <3> DEFINE d == Wiki!Draft(content, tipListed, "published")
    <3>1. content \in Public /\ tipListed \in Nat /\ tipListed # 0
      BY <1>2, <2>2 DEF Wiki!importPage, CopySound, Grows
    <3>2. content \in Words /\ content.n <= strokes
      BY <3>1 DEF PageSound, Public, Wiki!Tip
    <3>3. DraftSound(d, Public, strokes) /\ d.base # 0
      BY <1>2, <3>1, <3>2 DEF DraftSound, Wiki!Draft, Stored
    <3>4. drafts' = [drafts EXCEPT !["page"] = d] /\ editing' = "page" /\ working' = d.text
            /\ timer' = Wiki!NoDraft
      BY <2>2 DEF Wiki!importPage, Wiki!beginEdit
    <3>5. ~Wiki!Unpublished("page")
      BY <2>2 DEF Wiki!importPage, Wiki!Unpublished, Wiki!Linked, DraftsSound, Wiki!Keys
    <3>6. d \in Stored
      BY <3>3 DEF DraftSound
    <3> HIDE DEF d
    <3> QED BY <3>3, <3>4, <3>5, <3>6 DEF Wiki!Keys
  <2> QED BY <2>1, <2>2
<1>4. d \in Stored /\ d # Wiki!NoDraft /\ d.text \in Words /\ d.text.n <= strokes /\ d.text.n \in Nat
  <2>1. d \in Stored
    BY <1>3 DEF DraftSound
  <2>2. d.status # Wiki!NoDraft.status
    BY <2>1 DEF Stored, Wiki!NoDraft
  <2> QED BY <1>3, <2>1, <2>2 DEF DraftSound, Stored, Words
<1>5. DOMAIN drafts' = Wiki!Keys /\ drafts'[k] = d /\ \A g \in Wiki!Keys : g # k
        => drafts'[g] = drafts[g]
  BY <1>3 DEF DraftsSound
<1>6. DraftsSound'
  BY <1>1, <1>2, <1>3, <1>5 DEF DraftsSound, Wiki!Keys
<1>7. EditorSound'
  BY <1>1, <1>2, <1>3, <1>4, <1>5 DEF EditorSound
<1>8. Kept
  BY <1>3, OneKept
<1> QED BY <1>1, <1>2, <1>6, <1>7, <1>8, DraftStep

\* The editor's text goes into the database.
LEMMA SaveStep == ASSUME WikiInv, Wiki!Autosave \/ Wiki!closeEditor PROVE WikiInv' /\ Kept
<1> USE DEF WikiInv
<1>1. UNCHANGED <<versions, strokes, others, tipListed, content, pub, refresh, restore>>
  BY DEF Wiki!Autosave, Wiki!closeEditor, Wiki!bounds
<1>2. PageSound' /\ Grows /\ Public' = Public /\ strokes' = strokes
  BY <1>1, Stands DEF Public, Wiki!Tip
<1>3. ASSUME NEW b \in Stored, editing # Wiki!NoKey, editing = "page" => b.base # 0
      PROVE  /\ DraftSound(Wiki!Edited(b), Public, strokes) /\ Wiki!Edited(b) # Wiki!NoDraft
             /\ editing = "page" => Wiki!Edited(b).base # 0
             /\ Wiki!Edited(b).text = working
  BY <1>3 DEF Wiki!Edited, Wiki!Draft, DraftSound, EditorSound, Stored, Wiki!NoDraft
<1>4. ASSUME NEW d, drafts' = [drafts EXCEPT ![editing] = d], editing # Wiki!NoKey,
             DraftSound(d, Public, strokes), d # Wiki!NoDraft, editing = "page" => d.base # 0,
             d.text = working
      PROVE  /\ DraftsSound' /\ Kept
             /\ \/ UNCHANGED <<editing, working>> /\ timer' = Wiki!NoDraft
                \/ Wiki!leaveEditor
                => EditorSound'
  <2>1. editing \in Wiki!Keys
    BY <1>4 DEF EditorSound
  <2>2. DOMAIN drafts' = Wiki!Keys /\ drafts'[editing] = d
        /\ \A g \in Wiki!Keys : g # editing => drafts'[g] = drafts[g]
    BY <1>4, <2>1 DEF DraftsSound
  <2>3. DraftsSound'
    BY <1>2, <1>4, <2>2 DEF DraftsSound, Wiki!Keys
  <2>4. Wiki!Unpublished(editing) => d.text.n >= drafts[editing].text.n
    <3>1. working.n \in Nat /\ (drafts[editing] # Wiki!NoDraft => drafts[editing].text.n \in Nat)
      BY <2>1 DEF EditorSound, DraftsSound, DraftSound, Stored, Words
    <3> QED BY <1>4, <3>1, UnpublishedDef DEF EditorSound
  <2>5. Kept
    BY <1>4, <2>1, <2>4, OneKept DEF MayReplace
  <2>6. working.n \in Nat /\ working.n <= working.n
    BY DEF EditorSound, Words
  <2>7. UNCHANGED <<editing, working>> /\ timer' = Wiki!NoDraft => EditorSound'
    BY <1>2, <1>4, <2>2, <2>6 DEF EditorSound
  <2>8. Wiki!leaveEditor => EditorSound'
    BY <1>2 DEF Wiki!leaveEditor, EditorSound, Wiki!NewText, Words, PageSound
  <2> QED BY <2>3, <2>5, <2>7, <2>8
<1>5. DraftsSound' /\ EditorSound' /\ Kept
  <2>1. CASE Wiki!Autosave
    <3>1. timer \in Stored /\ editing # Wiki!NoKey /\ (editing = "page" => timer.base # 0)
      BY <2>1 DEF Wiki!Autosave, EditorSound
    <3> DEFINE d == Wiki!Edited(timer)
    <3>2. /\ DraftSound(d, Public, strokes) /\ d # Wiki!NoDraft
          /\ editing = "page" => d.base # 0
          /\ d.text = working
      BY <1>3, <3>1
    <3>3. drafts' = [drafts EXCEPT ![editing] = d] /\ UNCHANGED <<editing, working>>
            /\ timer' = Wiki!NoDraft
      BY <2>1 DEF Wiki!Autosave
    <3> HIDE DEF d
    <3> QED BY <1>4, <3>1, <3>2, <3>3
  <2>2. CASE Wiki!closeEditor /\ drafts[editing].text # working
    <3>1. /\ drafts[editing] \in Stored /\ editing # Wiki!NoKey
          /\ editing = "page" => drafts[editing].base # 0
      BY <2>2 DEF Wiki!closeEditor, EditorSound, DraftsSound, DraftSound
    <3> DEFINE d == Wiki!Edited(drafts[editing])
    <3>2. /\ DraftSound(d, Public, strokes) /\ d # Wiki!NoDraft
          /\ editing = "page" => d.base # 0
          /\ d.text = working
      BY <1>3, <3>1
    <3>3. drafts' = [drafts EXCEPT ![editing] = d] /\ Wiki!leaveEditor
      BY <2>2 DEF Wiki!closeEditor
    <3> HIDE DEF d
    <3> QED BY <1>4, <3>1, <3>2, <3>3
  <2>3. CASE Wiki!closeEditor /\ drafts[editing].text = working
    <3>1. drafts' = drafts /\ Wiki!leaveEditor
      BY <2>3 DEF Wiki!closeEditor
    <3>2. DraftsSound' /\ Kept
      BY <1>2, <3>1, DraftsKeep DEF Kept
    <3>3. EditorSound'
      BY <1>2, <3>1 DEF Wiki!leaveEditor, EditorSound, Wiki!NewText, Words, PageSound
    <3> QED BY <3>2, <3>3
  <2> QED BY <2>1, <2>2, <2>3
<1> QED BY <1>1, <1>2, <1>5, DraftStep

\* A draft deleted by the user.
LEMMA DeleteStep ==
    ASSUME WikiInv, NEW k \in Wiki!Keys, Wiki!handleDelete(k)
    PROVE  WikiInv' /\ Kept
<1> USE DEF WikiInv
<1>1. /\ drafts' = [drafts EXCEPT ![k] = Wiki!NoDraft] /\ view = k /\ editing = Wiki!NoKey
      /\ UNCHANGED <<versions, strokes, others, tipListed, content, editing, working, timer, pub,
           refresh, restore>>
  BY DEF Wiki!handleDelete, Wiki!InReader, Wiki!bounds
<1>2. PageSound' /\ Grows
  BY <1>1, Stands
<1>3. DOMAIN drafts' = Wiki!Keys /\ drafts'[k] = Wiki!NoDraft /\ \A g \in Wiki!Keys : g # k
        => drafts'[g] = drafts[g]
  BY <1>1 DEF DraftsSound
<1>4. DraftsSound'
  <2>1. Public' = Public /\ strokes' = strokes
    BY <1>1 DEF Public, Wiki!Tip
  <2> QED BY <1>3, <2>1 DEF DraftsSound, Wiki!Keys
<1>5. EditorSound'
  BY <1>1 DEF EditorSound
<1>6. Kept
  BY <1>1, OneKept DEF MayReplace
<1> QED BY <1>1, <1>2, <1>4, <1>5, <1>6, DraftStep

\* The answers put a published text into a draft: of a publish, a refresh, a
\* restore. The last leaves a draft with edits of its own alone.
LEMMA AnswerStep ==
    ASSUME WikiInv, NEW k \in Wiki!Keys, NEW t \in Public, NEW b \in Nat, b # 0,
           drafts' = [drafts EXCEPT ![k] = Wiki!Draft(t, b, "published")],
           UNCHANGED <<versions, strokes, others, tipListed, editing, working, timer>>,
           content' = content \/ content' \in Public,
           pub' = pub \/ pub' = Wiki!NoCall, refresh' = refresh \/ refresh' = Wiki!NoCall,
           restore' = restore \/ restore' = Wiki!NoCall,
           Wiki!Unpublished(k) => MayReplace(k, Wiki!Draft(t, b, "published"))
    PROVE  WikiInv' /\ Kept
<1> USE DEF WikiInv
<1>1. PageSound' /\ Grows /\ Public' = Public /\ strokes' = strokes
  BY Stands DEF Public, Wiki!Tip
<1> DEFINE d == Wiki!Draft(t, b, "published")
<1>2. t \in Words /\ t.n <= strokes
  BY DEF PageSound, Public, Wiki!Tip
<1>3. DraftSound(d, Public', strokes') /\ d # Wiki!NoDraft /\ d.base # 0 /\ d.text \in Public'
  BY <1>1, <1>2 DEF DraftSound, Wiki!Draft, Stored, Wiki!NoDraft
<1> HIDE DEF d
<1>4. drafts' = [drafts EXCEPT ![k] = d]
  BY DEF d
<1>5. DraftsSound' /\ EditorSound'
  BY <1>1, <1>3, <1>4, Store
<1>6. Kept
  BY <1>4, OneKept
<1> QED BY <1>1, <1>5, <1>6, DraftStep

\* The answer to a publish.
LEMMA PublishedStep == ASSUME WikiInv, Wiki!Published PROVE WikiInv' /\ Kept
<1>1. /\ pub.at = "done" /\ pub' = Wiki!NoCall
      /\ drafts' = [drafts EXCEPT ![pub.key] = Wiki!Draft(pub.text, pub.version, "published")]
      /\ UNCHANGED <<versions, strokes, others, tipListed, content, editing, working, timer,
           refresh, restore>>
  BY DEF Wiki!Published, Wiki!bounds
<1>2. pub.key \in Wiki!Keys /\ pub.text \in Public /\ pub.version \in Nat /\ pub.version # 0
        /\ pub # Wiki!NoCall /\ pub.text.n \in Nat
  BY <1>1 DEF WikiInv, PubSound, Pubs, Words, Wiki!NoCall
<1> DEFINE d == Wiki!Draft(pub.text, pub.version, "published")
<1>3. ASSUME Wiki!Unpublished(pub.key)
      PROVE  MayReplace(pub.key, d)
  <2>1. drafts[pub.key].text.n \in Nat
    BY <1>2, <1>3, UnpublishedDef DEF WikiInv, DraftsSound, DraftSound, Stored, Words
  <2>2. d # Wiki!NoDraft /\ d.text = pub.text
    BY DEF Wiki!Draft, Wiki!NoDraft
  <2>3. Wiki!PublishAnswers(pub.key)
    BY <1>1, <1>2 DEF Wiki!PublishAnswers
  <2> HIDE DEF d
  <2> QED BY <1>2, <2>1, <2>2, <2>3 DEF MayReplace
<1> QED BY <1>1, <1>2, <1>3, AnswerStep

\* The answer to a refresh.
LEMMA RefreshedStep == ASSUME WikiInv, Wiki!Refreshed PROVE WikiInv' /\ Kept
<1>1. /\ refresh.at = "sent" /\ refresh' = Wiki!NoCall
      /\ UNCHANGED <<versions, strokes, others, tipListed, content, editing, working, timer, pub,
           restore>>
  BY DEF Wiki!Refreshed, Wiki!bounds, Wiki!tab
<1>2. CASE drafts' = drafts
  <2>1. PageSound' /\ Grows
    BY <1>1, Stands DEF WikiInv
  <2>2. DraftsSound' /\ EditorSound' /\ Kept
    BY <1>1, <1>2, <2>1, DraftsKeep, EditorKeep DEF WikiInv, Kept
  <2> QED BY <1>1, <2>1, <2>2, DraftStep
<1>3. CASE drafts' = [drafts EXCEPT ![refresh.key] = Wiki!Draft(versions[Wiki!Tip], refresh.tip, "published")]
  <2>1. refresh.key \in Wiki!Keys /\ refresh.tip \in Nat /\ refresh.tip # 0 /\ refresh # Wiki!NoCall
        /\ Wiki!Tip \in 1..Wiki!Tip
    BY <1>1 DEF WikiInv, RefreshSound, Wiki!NoCall, PageSound, Wiki!Tip
  <2>2. versions[Wiki!Tip] \in Public
    BY <2>1 DEF Public
  <2> DEFINE d == Wiki!Draft(versions[Wiki!Tip], refresh.tip, "published")
  <2>3. ASSUME Wiki!Unpublished(refresh.key)
        PROVE  MayReplace(refresh.key, d)
    <3>1. refresh.draft.status = "modified" \/ drafts[refresh.key].text # refresh.draft.text
      BY <1>1, <2>3, UnpublishedDef DEF WikiInv, RefreshSound
    <3>2. Wiki!RefreshAnswers(refresh.key)
      BY <1>1, <2>1 DEF Wiki!RefreshAnswers
    <3> QED BY <3>1, <3>2 DEF MayReplace
  <2> QED BY <1>1, <1>3, <2>1, <2>2, <2>3, AnswerStep
<1> QED BY <1>2, <1>3 DEF Wiki!Refreshed

\* The answer to a restore, which only a published draft takes.
LEMMA RestoredStep == ASSUME WikiInv, Wiki!Restored PROVE WikiInv' /\ Kept
<1> DEFINE text == versions[restore.version]
<1>1. /\ restore.at = "done" /\ restore' = Wiki!NoCall /\ content' = text
      /\ UNCHANGED <<versions, strokes, others, tipListed, editing, working, timer, pub, refresh>>
  BY DEF Wiki!Restored, Wiki!bounds, Wiki!tab
<1>2. restore.tip \in Nat /\ restore.tip # 0 /\ text \in Public
  BY <1>1 DEF WikiInv, RestoreSound, Restores, Public
<1>3. CASE drafts' = drafts
  <2>1. PageSound' /\ Grows /\ Public' = Public
    BY <1>1, Stands DEF WikiInv, Public, Wiki!Tip
  <2>2. DraftsSound' /\ EditorSound' /\ Kept
    BY <1>1, <1>3, <2>1, DraftsKeep, EditorKeep DEF WikiInv, Kept
  <2> QED BY <1>1, <1>2, <2>1, <2>2, DraftStep
<1>4. ASSUME NEW k \in Wiki!Keys, Wiki!Adopts(k),
               drafts' = [drafts EXCEPT ![k] = Wiki!Draft(text, restore.tip, "published")]
      PROVE  WikiInv' /\ Kept
  <2>1. drafts[k] # Wiki!NoDraft /\ DraftSound(drafts[k], Public, strokes)
        /\ drafts[k].base # 0 /\ drafts[k].status # "modified"
    BY <1>4 DEF Wiki!Adopts, Wiki!Linked, WikiInv, DraftsSound
  <2>2. drafts[k].text \in Public
    BY <2>1 DEF DraftSound, Stored
  <2>3. ~Wiki!Unpublished(k)
    BY <2>2, UnpublishedDef
  <2> HIDE DEF text
  <2> QED BY <1>1, <1>2, <1>4, <2>3, AnswerStep
<1> QED BY <1>3, <1>4 DEF Wiki!Restored

\* No drafts, no page, no calls.
LEMMA WikiStart == Wiki!Init => WikiInv
<1> SUFFICES ASSUME Wiki!Init
             PROVE  WikiInv
  OBVIOUS
<1>1. /\ versions = <<>> /\ strokes = 0 /\ others = 0 /\ editing = Wiki!NoKey /\ timer = Wiki!NoDraft
      /\ working = Wiki!NewText /\ tipListed = 0 /\ content = Wiki!NoText
      /\ pub = Wiki!NoCall /\ refresh = Wiki!NoCall /\ restore = Wiki!NoCall
      /\ drafts = [k \in Wiki!Keys |-> Wiki!NoDraft]
  BY DEF Wiki!Init
<1>2. Wiki!Tip = 0 /\ versions \in Seq(Words)
  BY <1>1, EmptySeq DEF Wiki!Tip
<1>3. PageSound
  BY <1>1, <1>2 DEF PageSound, Public
<1>4. DraftsSound
  BY <1>1 DEF DraftsSound, Wiki!Keys
<1>5. EditorSound
  BY <1>1 DEF EditorSound, Wiki!NewText, Words
<1>6. CopySound /\ PubSound /\ RefreshSound /\ RestoreSound
  BY <1>1, <1>2 DEF CopySound, PubSound, RefreshSound, RestoreSound, Wiki!NoCall
<1> QED BY <1>3, <1>4, <1>5, <1>6 DEF WikiInv

\* Every step keeps the invariant and the edits.
LEMMA WikiNext == ASSUME WikiInv, [Wiki!Next]_(Wiki!vars) PROVE WikiInv' /\ Kept
<1>1. CASE Wiki!User
  BY <1>1, EditorStep, BeginStep, SaveStep, WikiAskStep, DeleteStep, HistoryStep DEF Wiki!User
<1>2. CASE Wiki!Answers
  BY <1>2, CopyStep, SaveStep, PublishStep, UploadStep, PublishedStep, RefreshedStep,
     HistoryStep, RestoredStep DEF Wiki!Answers
<1>3. CASE Wiki!OtherPublishes
  BY <1>3, UploadStep
<1>4. CASE UNCHANGED Wiki!vars
  <2>1. UNCHANGED <<versions, strokes, others, tipListed, content, editing, working, timer,
                    drafts, pub, refresh, restore>>
    BY <1>4 DEF Wiki!vars, Wiki!tab, Wiki!bounds
  <2>2. PageSound' /\ Grows
    BY <2>1, Stands DEF WikiInv
  <2> QED BY <2>1, <2>2, CopyKeep, PubKeep, CallsKeep, QuietStep DEF WikiInv
<1> QED BY <1>1, <1>2, <1>3, <1>4 DEF Wiki!Next

\* Text typed into the wiki's editor, stored and not yet published leaves the
\* local database only for newer text, by the user's delete or "take latest", or
\* because it was typed while the answer of a publish or refresh of that draft was
\* awaited, however autosaves, restores, imports, refetches and other people's
\* versions interleave: an update never replaces the edits it was pressed over.
THEOREM WikiKeepsEdits == Wiki!Spec => EditsSurvive
<1>1. Wiki!Init => WikiInv
  BY WikiStart
<1>2. WikiInv /\ [Wiki!Next]_(Wiki!vars) => WikiInv' /\ Kept
  BY WikiNext
<1>3. Kept <=> \A k \in Wiki!Keys :
       (Wiki!Unpublished(k) /\ drafts'[k] # drafts[k]) =>
               \/ drafts'[k] # Wiki!NoDraft /\ drafts'[k].text.n >= drafts[k].text.n
               \/ view = k /\ drafts'[k] = Wiki!NoDraft
               \/ /\ Wiki!RefreshAnswers(k)
                  /\ refresh.draft.status = "modified" \/ drafts[k].text # refresh.draft.text
               \/ Wiki!PublishAnswers(k) /\ drafts[k].text.n > pub.text.n
  BY DEF Kept, MayReplace
<1> QED BY <1>1, <1>2, <1>3, PTL DEF Wiki!Spec, EditsSurvive, Wiki!EditsSurvive
=============================================================================
