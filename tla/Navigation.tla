----------------------------- MODULE Navigation -----------------------------
(***************************************************************************)
(* Where the browser tab is, inside one hub: the reducer of NavProvider,   *)
(* the page's address that mirrors it, the back and forward stack, the two *)
(* backstops that complete a place known only from its address, the jumps  *)
(* to a document that first ask where it lives, and the tabs that latch    *)
(* the first board or channel of the project shown.                        *)
(*                                                                         *)
(* React runs the effects of a render before the next event, so a step     *)
(* here is a dispatch, the address written and the backstops restarted.    *)
(* Folder paths are at most one folder.  Board and channel numbers start   *)
(* again in every project; here one carries the project that issued it.    *)
(***************************************************************************)
EXTENDS Naturals, Sequences

CONSTANTS Projects, Docs, Home,  \* Home[d] = [project, folder]: where d lives
          NoAlt,                 \* the projects without a data-management id
          None,
          MaxClicks              \* what the user does

ASSUME HomeAssumption ==
  /\ NoAlt \subseteq Projects /\ None \notin Projects \cup Docs
  /\ Home \in [Docs -> [project : Projects, folder : {None, "folder"}]]

VARIABLES
  nav,       \* NavState
  hist, pos, \* the addresses of the history stack and the one shown
  jumps,     \* useGoToDocument calls waiting for their location
  locating,  \* Backstop A: the document being located, or None
  located,   \* reconciledSelRef: the last document A completed
  filling,   \* Backstop B: the project being looked up, or None
  clicks

vars == <<nav, hist, pos, jumps, locating, located, filling, clicks>>

Apps    == {"browser", "tasks"}
Tabs    == {"wiki", "whiteboards", "chat"}
Folders == {None, "folder"}
Nowhere == [app |-> "browser", project |-> None, alt |-> FALSE, folder |-> None,
            selected |-> None, projectTab |-> None, board |-> None, channel |-> None]
NavState == [app : Apps, project : Projects \cup {None}, alt : BOOLEAN,
             folder : Folders, selected : Docs \cup {None},
             projectTab : Tabs \cup {None}, board : Projects \cup {None},
             channel : Projects \cup {None}]

-----------------------------------------------------------------------------
(* The address (navUrl).                                                   *)

AtRoot(n) == n.project # None /\ n.selected = None /\ n.folder = None

\* A cross-project screen keeps nothing of the browser in its address; a tab
\* is written at a project's root only, a board or channel under its tab only.
navToSearch_TabEverywhere(n) ==
  IF n.app # "browser" THEN [Nowhere EXCEPT !.app = n.app]
  ELSE [n EXCEPT !.alt = FALSE,
                 !.projectTab = IF n.folder = None THEN @ ELSE None,
                 !.board = IF n.projectTab = "chat" THEN @ ELSE None,
                 !.channel = IF n.projectTab = "chat" THEN @ ELSE None]
navToSearch(n) ==
  IF n.app # "browser" THEN [Nowhere EXCEPT !.app = n.app]
  ELSE [n EXCEPT !.alt = FALSE,
                 !.projectTab = IF AtRoot(n) THEN @ ELSE None,
                 !.board = IF AtRoot(n) /\ n.projectTab = "whiteboards" THEN @ ELSE None,
                 !.channel = IF AtRoot(n) /\ n.projectTab = "chat" THEN @ ELSE None]

\* Read back, an address gives a state with hints only, no alternate id, and
\* a tab, a board or a channel where the page would show it, nowhere else.
searchToNav(url) ==
  LET tab == IF AtRoot(url) THEN url.projectTab ELSE None IN
  [url EXCEPT !.alt = FALSE, !.projectTab = tab,
              !.board = IF tab = "whiteboards" THEN @ ELSE None,
              !.channel = IF tab = "chat" THEN @ ELSE None]

shouldPush_AnyChange(old, new) == old # new
shouldPush(old, new) ==
  \/ old.app # new.app
  \/ old.project # new.project
  \/ old.folder # new.folder
  \/ old.selected # new.selected

\* The address is compared with the one shown, and pushed or replaced.
Serialize(old, new, shown, at) ==
  LET url == navToSearch(new) IN
  IF url = shown[at] THEN hist' = shown /\ pos' = at
  ELSE IF shouldPush(old, new)
       THEN hist' = Append(SubSeq(shown, 1, at), url) /\ pos' = at + 1
       ELSE hist' = [shown EXCEPT ![at] = url] /\ pos' = at

-----------------------------------------------------------------------------
(* The backstops restart when what they depend on changes.                 *)

NeedsLocation(n, done) == n.selected # None /\ ~n.alt /\ done # n.selected
NeedsProject(n) == n.project # None /\ ~n.alt /\ n.selected = None

Backstops(old, new, done) ==
  /\ locating' = IF <<old.selected, old.alt>> = <<new.selected, new.alt>> THEN locating
                 ELSE IF NeedsLocation(new, done) THEN new.selected ELSE None
  /\ filling' = IF <<old.project, old.alt, old.selected>> =
                   <<new.project, new.alt, new.selected>> THEN filling
                ELSE IF NeedsProject(new) THEN new.project ELSE None

dispatch(new) == nav' = new /\ Serialize(nav, new, hist, pos)

-----------------------------------------------------------------------------
(* The reducer.                                                            *)

Enter(n, p, alt) == [n EXCEPT !.project = p, !.alt = alt, !.folder = None,
                              !.selected = None]
HasAlt(p) == p \notin NoAlt

\* Crossing into another project drops the board and the channel.
navigate(n, d) ==
  LET crossed == n.project # Home[d].project IN
  [n EXCEPT !.app = "browser", !.project = Home[d].project,
            !.alt = HasAlt(Home[d].project), !.folder = Home[d].folder,
            !.selected = d,
            !.board = IF crossed THEN None ELSE @,
            !.channel = IF crossed THEN None ELSE @]

openProjectApp(n, p, tab, board, channel) ==
  [Enter(n, p, FALSE) EXCEPT !.app = "browser", !.projectTab = tab,
                             !.board = board, !.channel = channel]

Browsing == nav.app = "browser"

\* What a click dispatches: a set of next states.
Clicks ==
  {[nav EXCEPT !.app = a] : a \in Apps}
  \cup {[Enter(nav, p, HasAlt(p)) EXCEPT !.board = None, !.channel = None] :
          p \in IF Browsing THEN Projects ELSE {}}
  \cup (IF Browsing /\ nav.project # None
        THEN {[nav EXCEPT !.folder = "folder", !.selected = None],
              [nav EXCEPT !.folder = None, !.selected = None],
              [Enter(nav, None, FALSE) EXCEPT !.board = None, !.channel = None]}
             \cup {[nav EXCEPT !.selected = d] :
                     d \in {x \in Docs : Home[x] = [project |-> nav.project,
                                                    folder |-> nav.folder]}}
        ELSE {})
  \cup (IF Browsing /\ AtRoot(nav)
        THEN {[nav EXCEPT !.projectTab = t] : t \in Tabs} ELSE {})
  \cup {openProjectApp(nav, p, "whiteboards", p, None) : p \in Projects}
  \cup {openProjectApp(nav, p, "chat", None, p) : p \in Projects}

Click ==
  /\ clicks < MaxClicks
  /\ clicks' = clicks + 1
  /\ \E next \in Clicks \ {nav} :
       dispatch(next) /\ Backstops(nav, next, located)
  /\ UNCHANGED <<jumps, located>>

\* A tab that shows nothing yet takes the project's first board or channel.
Latch ==
  /\ Browsing /\ AtRoot(nav)
  /\ LET next == CASE nav.projectTab = "whiteboards" -> [nav EXCEPT !.board = nav.project]
                   [] nav.projectTab = "chat" -> [nav EXCEPT !.channel = nav.project]
                   [] OTHER -> nav
     IN next # nav /\ dispatch(next)
  /\ UNCHANGED <<jumps, locating, located, filling, clicks>>

-----------------------------------------------------------------------------
(* Jumps and backstops.                                                    *)

Jump(d) ==
  /\ clicks < MaxClicks /\ d \notin jumps
  /\ clicks' = clicks + 1
  /\ jumps' = jumps \cup {d}
  /\ UNCHANGED <<nav, hist, pos, locating, located, filling>>

JumpLands(d) ==
  /\ d \in jumps
  /\ jumps' = jumps \ {d}
  /\ dispatch(navigate(nav, d)) /\ Backstops(nav, navigate(nav, d), located)
  /\ UNCHANGED <<located, clicks>>

\* The answer of a jump or a backstop may never come: nothing asks again.
JumpFails(d) ==
  /\ d \in jumps
  /\ jumps' = jumps \ {d}
  /\ UNCHANGED <<nav, hist, pos, locating, located, filling, clicks>>

Located ==
  /\ locating # None
  /\ located' = locating
  /\ LET next == navigate(nav, locating) IN
     /\ dispatch(next)
     /\ locating' = None
     /\ filling' = IF <<nav.project, nav.alt>> = <<next.project, next.alt>>
                   THEN filling ELSE None
  /\ UNCHANGED <<jumps, clicks>>

\* The projects list names the project's other id, when it has one.
patchProject(n) == [n EXCEPT !.alt = HasAlt(n.project)]

Filled ==
  /\ filling # None
  /\ filling' = None
  /\ dispatch(patchProject(nav))
  /\ UNCHANGED <<jumps, locating, located, clicks>>

-----------------------------------------------------------------------------
\* Back and forward: the stack moves, then the state follows its address.
Pop(to) ==
  /\ to \in {pos - 1, pos + 1} \cap 1..Len(hist)
  /\ clicks < MaxClicks
  /\ clicks' = clicks + 1
  /\ LET next == searchToNav(hist[to]) IN
     /\ nav' = next
     /\ Serialize(next, next, hist, to)
     /\ Backstops(nav, next, located)
  /\ UNCHANGED <<jumps, located>>

\* A cold load: the bare page, a project's tab, or a document's address,
\* which may be older than the document's last move.
TasksLink == [Nowhere EXCEPT !.app = "tasks"]
BoardLink(p) == openProjectApp(Nowhere, p, "whiteboards", p, None)
DocumentLink(d, f) == [Nowhere EXCEPT !.project = Home[d].project, !.folder = f, !.selected = d]
Permalinks == {Nowhere, TasksLink} \cup {BoardLink(p) : p \in Projects}
                \cup {DocumentLink(d, f) : d \in Docs, f \in Folders}

Init ==
  /\ hist \in {<<u>> : u \in Permalinks} /\ pos = 1
  /\ nav = searchToNav(hist[1])
  /\ jumps = {} /\ located = None /\ clicks = 0
  /\ locating = IF NeedsLocation(nav, None) THEN nav.selected ELSE None
  /\ filling = IF NeedsProject(nav) THEN nav.project ELSE None

Next ==
  \/ Click \/ Latch
  \/ \E d \in Docs : Jump(d) \/ JumpLands(d) \/ JumpFails(d)
  \/ Located \/ Filled
  \/ \E to \in 1..Len(hist) : Pop(to)

Spec     == Init /\ [][Next]_vars
FairSpec == Spec /\ WF_vars(Located) /\ WF_vars(Filled)

-----------------------------------------------------------------------------
(* Properties.                                                             *)

\* The state, the stack and what is under way: a backstop only waits for the
\* document or the project shown (the cancelled flags of the two effects).
TypeOK ==
  /\ nav \in NavState
  /\ pos \in 1..Len(hist)
  /\ jumps \subseteq Docs
  /\ locating \in {None, nav.selected} /\ located \in Docs \cup {None}
  /\ filling \in {None, nav.project}

\* A board or a channel is never carried into another project, where its
\* number would name a different one (reducer: selectProject, navigate).
BoardsStayHome ==
  nav.board \in {None, nav.project} /\ nav.channel \in {None, nav.project}

\* The address shown reopens the place shown: same screen, project, folder,
\* document, tab, board and channel (navUrl and the effect that writes it).
PermalinkReopens ==
  LET again == searchToNav(hist[pos]) IN
  /\ again.app = nav.app
  /\ Browsing =>
       /\ <<again.project, again.folder, again.selected>> =
          <<nav.project, nav.folder, nav.selected>>
       /\ AtRoot(nav) => /\ again.projectTab = nav.projectTab
                         /\ nav.projectTab = "whiteboards" => again.board = nav.board
                         /\ nav.projectTab = "chat" => again.channel = nav.channel

\* After a back, what the page does by itself leaves the entries ahead alone:
\* only the user, a jump the user asked for, or the correction of a document's
\* place cuts them off (shouldPush, and the effect that compares addresses).
Cuts == \E i \in (pos + 1)..Len(hist) : i > Len(hist') \/ hist'[i] # hist[i]
KeepsForward ==
  [][Cuts => clicks' # clicks \/ jumps' # jumps \/ located' # located]_vars

\* What the code does not keep (state/nav.tsx: Backstop A "runs until the project
\* is fully filled"): a project shown with a document gets its other id, when it
\* has one, unless the user goes elsewhere.  The document A completed last is not
\* completed again after a back.
DocumentCompleted ==
  \A d \in Docs : Home[d].project \notin NoAlt =>
    ((nav.selected = d /\ ~nav.alt) ~> (nav.selected # d \/ nav.alt))
=============================================================================
