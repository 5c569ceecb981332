----------------------------- MODULE SessionGate -----------------------------
(***************************************************************************)
(* How a browser tab gets to the application and is thrown out of it: the  *)
(* Gate of App.tsx (sign-in, the Fusion deep link, the hub gate, the app), *)
(* the hub switch of the settings, logout, and what the request layer does *)
(* when the session or its hub lock is gone.  Tabs of one browser share    *)
(* the session cookie and the remembered hub.                              *)
(*                                                                         *)
(* The server's side is its session: signed in or not, and the one hub it  *)
(* is locked to.  POST /api/session/hub is two steps, applied and answered; *)
(* what follows a switch is a callback of the component that asked for it,  *)
(* which nobody calls once that is gone.  A tab makes one such call at a    *)
(* time, and a page that is left takes its call along.                      *)
(***************************************************************************)
EXTENDS Naturals

CONSTANTS Tabs, Hubs,
          Access,       \* the hubs among them the user is a member of
          Target,       \* the hub a deep link points into
          None,
          MaxUser,      \* switches, logouts, skips and picks
          MaxLosses     \* expiries, restarts that drop the hub lock, lost answers

VARIABLES
  signed, lock,      \* the server's session
  last,              \* fls.lastHub
  phase,             \* what each tab shows
  me,                \* the selected hub in the cached AuthMe
  browses,               \* the hub the tab browses
  rows,              \* the hub whose unkeyed rows (tasks, bell) are cached
  link,              \* the deep link in the tab's address
  resolved,          \* the session's hub in the resolve answer, or Unasked
  tried, failed,     \* the automatic lock was tried; the last lock failed
  call,              \* the lock call under way, or NoCall
  moved,             \* the lock was set or lost under this page, with no reload:
                     \* by others, or by a call of its own whose end it did not hear
  user, losses

server == <<signed, lock>>
page   == <<phase, me, browses, rows, link, resolved, tried, failed, call, moved>>
vars   == <<server, last, page, user, losses>>

Unasked == "unasked"
NoCall  == [for |-> "nothing"]
Phases  == {"loading", "login", "link", "hubgate", "app"}
Chosen  == Hubs \cup {None}

-----------------------------------------------------------------------------
(* A tab shows the first screen whose condition is not met.                *)

Screen(inSession, linked, hub) ==
  IF ~inSession THEN "login" ELSE IF linked THEN "link"
  ELSE IF hub = None THEN "hubgate" ELSE "app"


\* The app aligns its place and the remembered hub with the lock it is told.
Show(t, inSession, linked, hub) ==
  LET s == Screen(inSession, linked, hub) IN
  /\ phase' = [phase EXCEPT ![t] = s]
  /\ me' = [me EXCEPT ![t] = hub]
  /\ link' = [link EXCEPT ![t] = linked]
  /\ browses' = [browses EXCEPT ![t] = IF s = "app" THEN hub ELSE @]
  /\ last' = IF s = "app" THEN hub ELSE last

\* A load of the page: nothing in memory, the address decides about the link.
Reload(t, linked, disturbs) ==
  /\ phase' = [phase EXCEPT ![t] = "loading"]
  /\ me' = [me EXCEPT ![t] = None] /\ browses' = [browses EXCEPT ![t] = None]
  /\ rows' = [rows EXCEPT ![t] = None]
  /\ link' = [link EXCEPT ![t] = linked]
  /\ resolved' = [resolved EXCEPT ![t] = Unasked]
  /\ tried' = [tried EXCEPT ![t] = FALSE] /\ failed' = [failed EXCEPT ![t] = FALSE]
  /\ call' = [call EXCEPT ![t] = NoCall]
  /\ moved' = [u \in Tabs |-> u # t /\ (moved[u] \/ disturbs)]

\* A request answered 401 sends the page through the sign-in, to the root.
ToLogin(t) ==
  /\ signed' = TRUE /\ lock' = None
  /\ Reload(t, FALSE, TRUE)

Init ==
  /\ signed \in BOOLEAN /\ lock \in IF signed THEN Access \cup {None} ELSE {None}
  /\ last \in Chosen
  /\ phase = [t \in Tabs |-> "loading"] /\ me = [t \in Tabs |-> None]
  /\ browses = [t \in Tabs |-> None] /\ rows = [t \in Tabs |-> None]
  /\ link \in [Tabs -> BOOLEAN]
  /\ resolved = [t \in Tabs |-> Unasked]
  /\ tried = [t \in Tabs |-> FALSE] /\ failed = [t \in Tabs |-> FALSE]
  /\ call = [t \in Tabs |-> NoCall] /\ moved = [t \in Tabs |-> FALSE]
  /\ user = 0 /\ losses = 0

AuthMeAnswers(t) ==
  /\ phase[t] = "loading"
  /\ Show(t, signed, link[t], lock)
  /\ UNCHANGED <<server, rows, resolved, tried, failed, call, moved, user, losses>>

\* The cached AuthMe is read again whenever something that uses it mounts; not
\* while the tab's own lock call, which answers with it, is under way.
RefetchMe(t) ==
  /\ phase[t] \in {"app", "hubgate"} /\ call[t] = NoCall
  /\ me[t] # lock \/ ~signed
  /\ Show(t, signed, FALSE, lock)
  /\ UNCHANGED <<server, rows, resolved, tried, failed, call, moved, user, losses>>

\* Sign-in is a full navigation that comes back to the same address.
SignIn(t) ==
  /\ phase[t] = "login"
  /\ IF signed THEN UNCHANGED server ELSE signed' = TRUE /\ lock' = None
  /\ Reload(t, link[t], ~signed)
  /\ UNCHANGED <<last, user, losses>>

-----------------------------------------------------------------------------
(* Locking the session to a hub.                                           *)

Post(t, hub, why) ==
  /\ call[t] = NoCall
  /\ call' = [call EXCEPT ![t] = [for |-> why, hub |-> hub, at |-> "sent", heard |-> TRUE]]
  /\ failed' = [failed EXCEPT ![t] = FALSE]

\* The server may refuse the lock, or the call may fail before it gets there.
Refused(t) ==
  /\ call' = [call EXCEPT ![t] = NoCall]
  /\ failed' = [failed EXCEPT ![t] = TRUE]
  /\ UNCHANGED <<server, last, phase, me, browses, rows, link, resolved, tried, moved>>

Applied(t) ==
  /\ call[t] # NoCall /\ call[t].at = "sent"
  /\ \/ /\ signed /\ call[t].hub \in Access
        /\ lock' = call[t].hub
        /\ moved' = [u \in Tabs |-> moved[u] \/ u # t]
        /\ call' = [call EXCEPT ![t].at = "applied"]
        /\ UNCHANGED <<signed, last, phase, me, browses, rows, link, resolved, tried, failed>>
     \/ ~signed /\ ToLogin(t) /\ UNCHANGED last
     \/ Refused(t)
  /\ UNCHANGED <<user, losses>>

\* A switch tears the tab down and loads it again, where the link still
\* stands if it asked for it; the first lock of a session does not.
Switches(c) == c.for \in {"settings", "consent"}
Reloads_Never(c) == FALSE
Reloads(c) == Switches(c) /\ c.heard

\* The cached AuthMe is the answer's in any case: a switch nobody hears changes
\* the hub in place.
Answered(t) ==
  /\ call[t] # NoCall /\ call[t].at = "applied"
  /\ LET hub == call[t].hub IN
     IF Reloads(call[t])
     THEN /\ Reload(t, call[t].for = "consent", FALSE)
          /\ last' = hub
     ELSE /\ call' = [call EXCEPT ![t] = NoCall]
          /\ moved' = [moved EXCEPT ![t] = @ \/ (Switches(call[t]) /\ ~call[t].heard)]
          /\ Show(t, TRUE, FALSE, hub)
          /\ UNCHANGED <<rows, resolved, tried, failed>>
  /\ UNCHANGED <<server, user, losses>>

\* The lock is taken and the tab told that the call failed.
AnswerLost(t) ==
  /\ call[t] # NoCall /\ call[t].at = "applied"
  /\ losses < MaxLosses /\ losses' = losses + 1
  /\ call' = [call EXCEPT ![t] = NoCall]
  /\ failed' = [failed EXCEPT ![t] = TRUE]
  /\ moved' = [moved EXCEPT ![t] = TRUE]
  /\ UNCHANGED <<server, last, phase, me, browses, rows, link, resolved, tried, user>>

\* The hub gate locks the remembered hub by itself, once.
Remembered == last \in Access
AutoRelock(t) ==
  /\ phase[t] = "hubgate" /\ Remembered /\ ~tried[t]
  /\ Post(t, last, "gate")
  /\ tried' = [tried EXCEPT ![t] = TRUE]
  /\ UNCHANGED <<server, last, phase, me, browses, rows, link, resolved, moved, user, losses>>

\* The picker shows when there is nothing to relock, or it failed.
Pick(t) ==
  /\ phase[t] = "hubgate" /\ (~Remembered \/ failed[t])
  /\ user < MaxUser /\ user' = user + 1
  /\ \E hub \in Access : Post(t, hub, "gate")
  /\ UNCHANGED <<server, last, phase, me, browses, rows, link, resolved, tried, moved, losses>>

Switch(t) ==
  /\ phase[t] = "app"
  /\ user < MaxUser /\ user' = user + 1
  /\ \E hub \in Access \ {me[t]} : Post(t, hub, "settings")
  /\ UNCHANGED <<server, last, phase, me, browses, rows, link, resolved, tried, moved, losses>>

\* The settings are closed, or another tool chosen, while the switch is on its way.
CloseSettings(t) ==
  /\ phase[t] = "app" /\ call[t] # NoCall
  /\ call[t].for = "settings" /\ call[t].heard
  /\ call' = [call EXCEPT ![t].heard = FALSE]
  /\ UNCHANGED <<server, last, phase, me, browses, rows, link, resolved, tried, failed,
                 moved, user, losses>>

-----------------------------------------------------------------------------
(* The deep link.                                                          *)

InLink(t) == phase[t] = "link" /\ call[t] = NoCall

Resolve(t) ==
  /\ InLink(t) /\ resolved[t] = Unasked
  /\ IF signed
     THEN /\ resolved' = [resolved EXCEPT ![t] = lock]
          /\ UNCHANGED <<last, phase, me, browses, rows, link, tried, failed, call, moved>>
          /\ UNCHANGED server
     ELSE ToLogin(t) /\ UNCHANGED last
  /\ UNCHANGED <<user, losses>>

\* On the right hub: the address becomes a permalink, the normal gates follow.
LinkDone(t) ==
  /\ InLink(t) /\ resolved[t] = Target
  /\ Show(t, TRUE, FALSE, me[t])
  /\ UNCHANGED <<server, rows, resolved, tried, failed, call, moved, user, losses>>

LinkLocks(t) ==
  /\ InLink(t) /\ resolved[t] = None /\ ~tried[t]
  /\ Post(t, Target, "link")
  /\ tried' = [tried EXCEPT ![t] = TRUE]
  /\ UNCHANGED <<server, last, phase, me, browses, rows, link, resolved, moved, user, losses>>

\* The session is on another hub: the user agrees to switch it.
Consent(t) ==
  /\ InLink(t) /\ resolved[t] \in Hubs \ {Target}
  /\ user < MaxUser /\ user' = user + 1
  /\ Post(t, Target, "consent")
  /\ UNCHANGED <<server, last, phase, me, browses, rows, link, resolved, tried, moved, losses>>

\* On without the link: after a failed lock, or in place of the consent, also
\* when it was given and its switch is on the way.
Skip(t) ==
  /\ phase[t] = "link"
  /\ \/ call[t] = NoCall /\ (failed[t] \/ resolved[t] \in Hubs \ {Target})
     \/ call[t] # NoCall /\ call[t].for = "consent"
  /\ call' = IF call[t] = NoCall THEN call ELSE [call EXCEPT ![t].heard = FALSE]
  /\ Show(t, TRUE, FALSE, me[t])
  /\ failed' = [failed EXCEPT ![t] = FALSE]
  /\ UNCHANGED <<server, rows, resolved, tried, moved, user, losses>>

-----------------------------------------------------------------------------
(* Requests of the app, logout, and what the server loses.                 *)

\* 401: to the sign-in; 409 hub_not_selected: tear down, load at the root;
\* otherwise the rows that no hub is part of the key of are the lock's.
DataCall_Ignores409(t) ==
  /\ phase[t] = "app" /\ (signed => lock # None /\ rows[t] # lock)
  /\ IF ~signed
     THEN ToLogin(t) /\ UNCHANGED <<last, user, losses>>
     ELSE /\ rows' = [rows EXCEPT ![t] = lock]
          /\ UNCHANGED <<server, last, phase, me, browses, link, resolved, tried,
                         failed, call, moved, user, losses>>
DataCall(t) ==
  /\ phase[t] = "app"
  /\ IF ~signed
     THEN ToLogin(t) /\ UNCHANGED <<last, user, losses>>
     ELSE IF lock = None
     THEN Reload(t, FALSE, FALSE) /\ UNCHANGED <<server, last, user, losses>>
     ELSE /\ rows[t] # lock
          /\ rows' = [rows EXCEPT ![t] = lock]
          /\ UNCHANGED <<server, last, phase, me, browses, link, resolved, tried,
                         failed, call, moved, user, losses>>

Logout(t) ==
  /\ phase[t] = "app" /\ user < MaxUser
  /\ user' = user + 1
  /\ signed' = FALSE /\ lock' = None
  /\ Reload(t, FALSE, TRUE)
  /\ UNCHANGED <<last, losses>>

Lost ==
  /\ losses < MaxLosses /\ losses' = losses + 1
  /\ lock' = None /\ moved' = [t \in Tabs |-> TRUE]
  /\ UNCHANGED <<last, phase, me, browses, rows, link, resolved, tried, failed, call, user>>
SessionLost == signed /\ signed' = FALSE /\ Lost
LockLost    == lock # None /\ UNCHANGED signed /\ Lost

Own(t) == \/ AuthMeAnswers(t) \/ Applied(t) \/ Answered(t) \/ AutoRelock(t)
          \/ Resolve(t) \/ LinkDone(t) \/ LinkLocks(t) \/ DataCall(t)

Next ==
  \/ \E t \in Tabs : \/ Own(t) \/ RefetchMe(t) \/ SignIn(t) \/ Pick(t)
                     \/ Switch(t) \/ CloseSettings(t) \/ Consent(t) \/ Skip(t) \/ Logout(t)
                     \/ AnswerLost(t)
  \/ SessionLost \/ LockLost

Spec     == Init /\ [][Next]_vars
\* The polls of a tab in the application go on.
FairSpec == Spec /\ \A t \in Tabs : WF_vars(DataCall(t))

-----------------------------------------------------------------------------
(* Properties.                                                             *)

\* A tab in the app browses the hub its AuthMe names, and the session is only
\* ever locked to a hub the user is a member of.
TypeOK ==
  /\ signed \in BOOLEAN /\ lock \in Access \cup {None} /\ (lock # None => signed)
  /\ last \in Chosen
  /\ phase \in [Tabs -> Phases] /\ me \in [Tabs -> Chosen]
  /\ \A t \in Tabs : phase[t] = "app" => browses[t] = me[t] /\ me[t] # None
  /\ rows \in [Tabs -> Chosen]

\* A session that loses its sign-in or its hub lock does not leave a tab in
\* the app, and rows of a hub the session has left do not stay on screen: the
\* polls find out and replace them (throwForResponse, the queries' intervals).
TabsCatchUp ==
  \A t \in Tabs :
    (phase[t] = "app" /\ (lock = None \/ rows[t] \notin {None, lock})) ~>
      (phase[t] # "app" \/ (lock # None /\ rows[t] \in {None, lock}))

\* The rows on screen are those of the hub the tab browses as long as nothing
\* else changes the session and the tab hears the end of its own switches: such a
\* switch tears everything cached down (ConnectionTool, teardownAndReload),
\* wherever in the switch a poll is answered.
OneHubOnScreen ==
  \A t \in Tabs : (phase[t] = "app" /\ ~moved[t] /\ call[t] = NoCall) =>
                    rows[t] \in {None, me[t]}

\* What the code does not keep (nav.tsx: a hub switch is a full reload, never
\* an in-place selectHub): another tab's switch arrives in place, and so does
\* one asked for in settings that are closed before its answer.
SwitchReloads ==
  [][\A t \in Tabs : (phase[t] = "app" /\ phase'[t] = "app") => browses'[t] = browses[t]]_vars
=============================================================================
