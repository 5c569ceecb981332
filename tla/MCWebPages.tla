----------------------------- MODULE MCWebPages -----------------------------
(***************************************************************************)
(* Four parts of a browser tab that share no state: the place it shows     *)
(* and its address (Navigation), the lists it caches (WebQueries), the     *)
(* drafts of its wiki (WikiClient) and the gate it came in by              *)
(* (SessionGate, two tabs).  A behaviour is about the one named by part;   *)
(* the others stand still in one of their initial states.                  *)
(***************************************************************************)
EXTENDS Navigation

CONSTANTS NoData, QueryKeys, MaxWrites, MaxFails, MaxFlips,  \* of WebQueries
          MaxTyped, MaxCalls,                           \* of WikiClient
          MaxOthers,
          GateTabs, Hubs, Access, Target, MaxUser, MaxLosses  \* of SessionGate

VARIABLES part,
  key, version, entry, shown, editor, writes, own, raced, used,
  versions, drafts, tipListed, content, view, editing, working, saved, timer,
  pub, refresh, history, restore, strokes, others, asked,
  signed, lock, last, phase, me, browses, rows, link, resolved, tried, failed, call, moved,
  user, losses

Lists == INSTANCE WebQueries WITH Keys <- QueryKeys
Wiki  == INSTANCE WikiClient
Gate  == INSTANCE SessionGate WITH Tabs <- GateTabs

listVars == <<key, version, entry, shown, editor, writes, own, raced, used>>
wikiVars == <<versions, drafts, tipListed, content, view, editing, working, saved,
              timer, pub, refresh, history, restore, strokes, others, asked>>
gateVars == <<signed, lock, last, phase, me, browses, rows, link, resolved, tried, failed,
              call, moved, user, losses>>

\* Two projects, one of them without a data-management id; a document at the
\* root of one and one in a folder of the other.
MCHome == [d \in {"d1", "d2"} |->
             IF d = "d1" THEN [project |-> "p1", folder |-> None]
             ELSE [project |-> "p2", folder |-> "folder"]]
MCQueryKeys == {"tasks", "task", "tasksMine", "whiteboards", "pins", "notifs", "chatChannels",
           "chatUnreads", "adminBackups", "adminBackupConfig", "adminDisk", "meta"}

PagesInit ==
  /\ part \in {"address", "list", "wiki", "gate"}
  /\ Init /\ Lists!Init /\ Wiki!Init /\ Gate!Init
  /\ part # "address" => nav = Nowhere
  /\ part # "list" => key = "meta"
  \* One of the two tabs may come by a deep link, to another hub than the one
  \* remembered.
  /\ IF part = "gate" THEN ~link["t2"] /\ last # Target
     ELSE ~signed /\ last = None /\ link = [t \in GateTabs |-> FALSE]

AddressStep == part = "address" /\ Next /\ UNCHANGED <<listVars, wikiVars, gateVars, part>>
ListStep    == part = "list" /\ Lists!Next /\ UNCHANGED <<vars, wikiVars, gateVars, part>>
WikiStep    == part = "wiki" /\ Wiki!Next /\ UNCHANGED <<vars, listVars, gateVars, part>>
GateStep    == part = "gate" /\ Gate!Next /\ UNCHANGED <<vars, listVars, wikiVars, part>>

\* The fairness is that of the parts of which liveness is asked.
PagesSpec ==
  /\ PagesInit
  /\ [][AddressStep \/ ListStep \/ WikiStep \/ GateStep]_<<vars, listVars, wikiVars, gateVars, part>>
  /\ WF_listVars(part = "list" /\ Lists!Poll)
  /\ WF_listVars(part = "list" /\ Lists!ServeFetch)
  /\ WF_listVars(part = "list" /\ Lists!ApplyFetch)
  /\ \A t \in GateTabs : WF_gateVars(part = "gate" /\ Gate!DataCall(t))

\* What the lists promise, see WebQueries.
OwnWritesShow        == Lists!OwnWritesShow

\* What the drafts promise, see WikiClient.
EditsSurvive == Wiki!EditsSurvive

\* What a tab shows of its session's hub, see SessionGate.
OneHubOnScreen == Gate!OneHubOnScreen

\* A page that shows what is no longer so does not stay: a polled list comes to
\* show the server's state (PolledViewsConverge of WebQueries), a tab whose hub
\* was switched or lost elsewhere leaves its rows (TabsCatchUp of SessionGate).
PagesCatchUp ==
  /\ part = "list" => Lists!PolledViewsConverge
  /\ part = "gate" => Gate!TabsCatchUp
=============================================================================
