--------------------------- MODULE WorkspaceSession ---------------------------
(***************************************************************************)
(* One browser tab of the production client: who it is signed in as, which *)
(* screen it shows, and the connection of the workspace it shows.          *)
(*                                                                         *)
(*   AuthProvider, deriveAuthState   (src/client/auth)                     *)
(*   AuthenticatedApp, AuthGate      (src/client/production, auth)         *)
(*   accept, submit                  (src/client/onboarding)               *)
(*   useWorkspace, WorkspaceSocket   (src/client/lib)                      *)
(*                                                                         *)
(* Each request is a step when the server decides and another when its     *)
(* answer is handled, so that answers overtake each other, components are  *)
(* unmounted with answers on their way, and membership changes in between. *)
(* What a mounted WorkspaceSocket has under way is counted by kind, not    *)
(* assumed to be one thing: a preflight, a timer or a socket and its       *)
(* events.  The length of the backoff and the messages of an open socket   *)
(* are left out; what the messages do is in WorkspaceDO.  The development  *)
(* build's StrictMode, which mounts twice, and the demo are left out too.  *)
(***************************************************************************)
EXTENDS Protocol, FiniteSets, FiniteSetsExt

CONSTANTS
  Workspaces,  \* production workspaces
  Tabs,        \* what the person belongs to and is invited to, where the tab
               \* is opened, and how much happens: its asks, moves, faults
               \* and changes
  MaxAsks,     \* bound: GET /api/me
  MaxMoves     \* bound: changes of the hash

ASSUME SessionAssumption ==
  /\ MaxAsks \in Nat \ {0} /\ MaxMoves \in Nat
  /\ \A t \in Tabs :
       /\ t.members \subseteq Workspaces /\ t.invited \subseteq Workspaces
       /\ t.route \in Workspaces \cup {"home", "invitations", "create"}
       /\ t.asks \in 1..MaxAsks /\ t.moves \in 0..MaxMoves
       /\ t.faults \in Nat /\ t.changes \in Nat
  /\ Workspaces \cap {"home", "invitations", "create", None} = {} /\ None \notin Nat

\* The first answer, every further one and every change of the hash mount
\* at most one view.
Views == 1..(MaxAsks + MaxMoves)
Asks  == 1..MaxAsks

Routes == Workspaces \cup {"home", "invitations", "create"}

\* AuthProvider's states; the fourth is "authenticated".  "refused" stands for
\* unauthenticated, suspended, disabled, forbidden and identity_conflict, whose
\* screens offer no way on but a reload.
Loading == [status |-> "loading", memberships |-> {}, pendingInvitations |-> {}]
Failed  == [Loading EXCEPT !.status = "network_error"]
Refused == [Loading EXCEPT !.status = "refused"]

\* What a socket object waits for: the decision or the answer of the
\* preflight, the reconnect timer, the upgrade, or an event of the WebSocket.
Stages == {"asked", "granted", "denied", "unreached", "waiting",
           "connecting", "accepted", "open", "gone"}
Sockets == {"connecting", "accepted", "open"}

VARIABLES
  members,   \* memberships of the person, in D1
  invited,   \* pending invitations of the person, in D1
  removed,   \* workspaces an admin removed the person from
  active,    \* account_status is ACTIVE
  auth,      \* AuthProvider's state
  asks,      \* requests of refresh: [at, answer], where at is "unsent", "sent",
             \* "read" (the memberships), "answered" or "done"
  route,     \* window.location.hash
  joining,   \* [Workspaces -> an accept or a submit under way]
  views,     \* [Views -> a WorkspaceView and its WorkspaceSocket: its
             \* workspace, status, and how many of each stage are under way]
  mounted,   \* the view on screen, or None
  overlapped, \* a GET /api/me was sent with another one under way
  moves, faults, changes  \* what is left of them

serverVars == <<members, invited, removed, active>>
tabVars    == <<auth, asks, route, joining, views, mounted, overlapped>>
bounds     == <<moves, faults, changes>>
vars       == <<serverVars, tabVars, bounds>>

NoLinks == [s \in Stages |-> 0]
Blank == [workspace |-> None, closedByCaller |-> FALSE,
          status |-> "connecting", links |-> NoLinks]

\* The tab is opened at some hash and asks who it is.
Init ==
  /\ \E t \in Tabs :
       /\ members = t.members /\ invited = t.invited /\ route = t.route
       /\ asks = [a \in Asks |-> [at |-> IF a = 1 THEN "sent" ELSE
                                        IF a <= t.asks THEN "unsent" ELSE "done",
                                  answer |-> Loading]]
       /\ moves = t.moves /\ faults = t.faults /\ changes = t.changes
  /\ removed = {} /\ active = TRUE
  /\ auth = Loading
  /\ joining = [w \in Workspaces |-> "idle"]
  /\ views = [v \in Views |-> Blank] /\ mounted = None /\ overlapped = FALSE

-----------------------------------------------------------------------------
(* WorkspaceSocket: what one view has under way.                           *)

Add(l, s)     == [l EXCEPT ![s] = IF @ < 2 THEN @ + 1 ELSE @]
Drop(l, s)    == [l EXCEPT ![s] = IF @ > 0 THEN @ - 1 ELSE @]
To(l, s, t)   == Add(Drop(l, s), t)
Has(v, s)     == views[v].links[s] > 0

\* An unmounted view with nothing under way is garbage.
Kept(view)  == IF view.closedByCaller /\ view.links = NoLinks THEN Blank ELSE view
SetView(v, view) == views' = [views EXCEPT ![v] = Kept(view)]
SetLinks(v, l)   == SetView(v, [views[v] EXCEPT !.links = l])

\* preflightThenConnect
Preflight(view) == [view EXCEPT !.status = "connecting", !.links = Add(@, "asked")]

\* close(): the timer it knows of and the socket it knows of.
Close(view) ==
  LET timers  == Drop(view.links, "waiting")
      sockets == {s \in Sockets : view.links[s] > 0} IN
  [view EXCEPT !.closedByCaller = TRUE,
     !.links = IF sockets = {} THEN timers
               ELSE To(timers, CHOOSE s \in sockets : TRUE, "gone")]

Mount(w) == Preflight([Blank EXCEPT !.workspace = w])

\* The workspace that AuthGate and AuthenticatedApp put on screen.
Wanted(a, r) == IF a.status = "authenticated" /\ r \in Workspaces THEN r ELSE None
OnScreen     == IF mounted = None THEN None ELSE views[mounted].workspace
Unused       == {v \in Views : views[v].workspace = None}

\* React renders: a view whose key goes is unmounted, a new one is mounted.
Render(a, r) ==
  LET w == Wanted(a, r)
      closed == IF mounted = None THEN views
                ELSE [views EXCEPT ![mounted] = Kept(Close(@))]
  IN /\ auth' = a /\ route' = r
     /\ IF w = OnScreen THEN UNCHANGED <<views, mounted>>
        ELSE IF w = None THEN views' = closed /\ mounted' = None
        ELSE /\ mounted' = Min(Unused)
             /\ views' = [closed EXCEPT ![mounted'] = Mount(w)]

-----------------------------------------------------------------------------
(* The Worker, for this person.                                            *)

Allowed(w) == active /\ w \in members
Unlost     == UNCHANGED faults
Lost       == faults > 0 /\ faults' = faults - 1

RemoveMember(w) ==
  /\ changes > 0 /\ changes' = changes - 1
  /\ w \in members
  /\ members' = members \ {w} /\ removed' = removed \cup {w}
  /\ UNCHANGED <<invited, active, tabVars, moves, faults>>

Suspend ==
  /\ changes > 0 /\ changes' = changes - 1
  /\ active /\ active' = FALSE
  /\ UNCHANGED <<members, invited, removed, tabVars, moves, faults>>

Asked(a, at, answer) == asks' = [asks EXCEPT ![a] = [at |-> at, answer |-> answer]]

\* handleMe reads the memberships, then the invitations.
ReadMemberships(a) ==
  /\ asks[a].at = "sent"
  /\ \/ /\ active /\ Unlost
        /\ Asked(a, "read", [Loading EXCEPT !.status = "authenticated",
                                            !.memberships = members])
     \/ ~active /\ Unlost /\ Asked(a, "answered", Refused)
     \/ Lost /\ Asked(a, "answered", Failed)
  /\ UNCHANGED <<serverVars, auth, route, joining, views, mounted, overlapped, moves, changes>>

ReadInvitations(a) ==
  /\ asks[a].at = "read"
  /\ Asked(a, "answered", [asks[a].answer EXCEPT !.pendingInvitations = invited])
  /\ UNCHANGED <<serverVars, auth, route, joining, views, mounted, overlapped, bounds>>

\* An accept finds the invitation or not, a create succeeds or not; the
\* answer may be lost either way.
Join(w) ==
  LET fresh == w \notin invited \cup members \cup removed IN
  /\ joining[w] \in {"accepting", "creating"}
  /\ \/ /\ active /\ (w \in invited \/ (joining[w] = "creating" /\ fresh))
        /\ members' = members \cup {w} /\ invited' = invited \ {w}
        /\ \/ joining' = [joining EXCEPT ![w] = "joined"] /\ Unlost
           \/ joining' = [joining EXCEPT ![w] = "refused"] /\ Lost
     \/ joining' = [joining EXCEPT ![w] = "refused"] /\ Unlost /\ UNCHANGED <<members, invited>>
  /\ UNCHANGED <<removed, active, auth, asks, route, views, mounted, overlapped, moves, changes>>

\* The preflight's /snapshot: 401 and 403, any other answer, or none.
DecidePreflight(v) ==
  /\ Has(v, "asked")
  /\ \/ Unlost /\ SetLinks(v, To(views[v].links, "asked",
                     IF Allowed(views[v].workspace) THEN "granted" ELSE "denied"))
     \/ Lost /\ SetLinks(v, To(views[v].links, "asked", "unreached"))
  /\ UNCHANGED <<serverVars, auth, asks, route, joining, mounted, overlapped, moves, changes>>

DecideUpgrade(v) ==
  /\ Has(v, "connecting")
  /\ \/ Unlost /\ SetLinks(v, To(views[v].links, "connecting",
                     IF Allowed(views[v].workspace) THEN "accepted" ELSE "gone"))
     \/ Lost /\ SetLinks(v, To(views[v].links, "connecting", "gone"))
  /\ UNCHANGED <<serverVars, auth, asks, route, joining, mounted, overlapped, moves, changes>>

\* The network or the object's restart takes the socket.
LoseSocket(v, s) ==
  /\ s \in {"accepted", "open"} /\ Has(v, s) /\ Lost
  /\ SetLinks(v, To(views[v].links, s, "gone"))
  /\ UNCHANGED <<serverVars, auth, asks, route, joining, mounted, overlapped, moves, changes>>

-----------------------------------------------------------------------------
(* The client's handlers.                                                  *)

ClientOnly == UNCHANGED <<serverVars, auth, asks, route, joining, mounted, overlapped, bounds>>

Denied(view) ==
  [view EXCEPT !.status = "unauthorized", !.links = Drop(@, "denied")]

PreflightAnswered(v) ==
  /\ \/ Has(v, "denied") /\ SetView(v, Denied(views[v]))
     \/ \E s \in {"granted", "unreached"} :
          /\ Has(v, s)
          /\ SetLinks(v, IF views[v].closedByCaller THEN Drop(views[v].links, s)
                         ELSE To(views[v].links, s, "connecting"))
  /\ ClientOnly

Opened(v) ==
  /\ Has(v, "accepted")
  /\ SetView(v, [views[v] EXCEPT !.status = "open", !.links = To(@, "accepted", "open")])
  /\ ClientOnly

\* onclose
\* Mutant: an unmounted view reconnects as well.
AlwaysReconnect(view) ==
  [view EXCEPT !.status = "closed", !.links = To(@, "gone", "waiting")]
\* Mutant: a lost connection is given up.
NeverReconnect(view) ==
  [view EXCEPT !.status = "closed", !.links = Drop(@, "gone")]
AfterClose(view) ==
  [view EXCEPT !.status = "closed",
     !.links = IF view.closedByCaller THEN Drop(@, "gone") ELSE To(@, "gone", "waiting")]

Closed(v) ==
  /\ Has(v, "gone")
  /\ SetView(v, AfterClose(views[v]))
  /\ ClientOnly

TimerFires(v) ==
  /\ Has(v, "waiting")
  /\ LET fired == [views[v] EXCEPT !.links = Drop(@, "waiting")] IN
     SetView(v, IF fired.closedByCaller THEN fired ELSE Preflight(fired))
  /\ ClientOnly

\* The answers of /api/me are applied in the order they arrive.
MeAnswered(a) ==
  /\ asks[a].at = "answered"
  /\ asks' = [asks EXCEPT ![a].at = "done"]
  /\ Render(asks[a].answer, route)
  /\ UNCHANGED <<serverVars, joining, overlapped, bounds>>

\* refresh()
SendAsk ==
  /\ \E a \in Asks : asks[a].at = "unsent"
  /\ asks' = [asks EXCEPT ![Min({a \in Asks : asks[a].at = "unsent"})].at = "sent"]
  /\ overlapped' = (overlapped \/ \E a \in Asks : asks[a].at \in {"sent", "read", "answered"})

\* After saving the settings, or with Try again.
Refresh ==
  /\ auth.status \in {"authenticated", "network_error"}
  /\ SendAsk /\ Render(Loading, route)
  /\ UNCHANGED <<serverVars, joining, bounds>>

Navigate(r) ==
  /\ r # route /\ moves > 0 /\ moves' = moves - 1
  /\ Render(auth, r)
  /\ UNCHANGED <<serverVars, asks, joining, overlapped, faults, changes>>

\* deriveOnboardingStage, and the screens the two forms are on.
Stage == IF auth.memberships # {} THEN "home"
         ELSE IF auth.pendingInvitations # {} THEN "invitations" ELSE "onboarding"
ShowsInvitations ==
  /\ auth.status = "authenticated"
  /\ route = "invitations" \/ (route = "home" /\ Stage = "invitations")
ShowsCreate == auth.status = "authenticated" /\ route = "create"

Submit(w) ==
  /\ joining[w] = "idle"
  /\ \/ /\ ShowsInvitations /\ w \in auth.pendingInvitations
        /\ joining' = [joining EXCEPT ![w] = "accepting"]
     \/ /\ ShowsCreate /\ w \notin members \cup invited \cup removed
        /\ joining' = [joining EXCEPT ![w] = "creating"]
  /\ UNCHANGED <<serverVars, auth, asks, route, views, mounted, overlapped, bounds>>

\* The handler goes on whether or not its screen is still there.
\* Mutant: it goes to the workspace and asks nothing.
NavigateOnly(w)       == Render(auth, w) /\ UNCHANGED <<asks, overlapped>>
RefreshAndNavigate(w) == SendAsk /\ Render(Loading, w)

Joined(w) ==
  /\ joining[w] = "joined" /\ joining' = [joining EXCEPT ![w] = "done"]
  /\ RefreshAndNavigate(w)
  /\ UNCHANGED <<serverVars, bounds>>

\* An error is shown, and the button can be used again.
JoinRefused(w) ==
  /\ joining[w] = "refused" /\ joining' = [joining EXCEPT ![w] = "idle"]
  /\ UNCHANGED <<serverVars, auth, asks, route, views, mounted, overlapped, bounds>>

-----------------------------------------------------------------------------
Server(v) == DecidePreflight(v) \/ DecideUpgrade(v)
Client(v) == PreflightAnswered(v) \/ Opened(v) \/ Closed(v) \/ TimerFires(v)
Me(a)     == ReadMemberships(a) \/ ReadInvitations(a) \/ MeAnswered(a)

Next ==
  \/ \E w \in Workspaces : RemoveMember(w) \/ Join(w) \/ Submit(w) \/ Joined(w) \/ JoinRefused(w)
  \/ \E r \in Routes : Navigate(r)
  \/ \E v \in Views : Server(v) \/ Client(v) \/ \E s \in Stages : LoseSocket(v, s)
  \/ \E a \in Asks : Me(a)
  \/ Suspend \/ Refresh

Spec == Init /\ [][Next]_vars

\* The Worker decides or the browser gives up, answers and events reach their
\* handlers, timers fire; people need not do anything.
FairSpec ==
  /\ Spec
  /\ \A v \in Views : WF_vars(Server(v)) /\ WF_vars(Client(v))
  /\ \A a \in Asks : WF_vars(Me(a))
  /\ \A w \in Workspaces : WF_vars(Joined(w))

-----------------------------------------------------------------------------
(* Properties.                                                             *)

\* A view has one thing under way, never two that race each other; a denied
\* one has none, and what is left of an unmounted one is a last answer or
\* event, nothing that connects again (WorkspaceSocket).
OneChain ==
  \A v \in Views :
    LET view == views[v] IN
    /\ \A s \in Stages : view.links[s] > 0 => view.links = [NoLinks EXCEPT ![s] = 1]
    /\ view.status = "unauthorized" => view.links = NoLinks
    /\ view.closedByCaller => \A s \in Sockets \cup {"waiting"} : view.links[s] = 0
    /\ view.workspace # None => (view.closedByCaller <=> mounted # v)

\* The lists on screen have the accepted invitation among the memberships and
\* no longer among the invitations; only requests for them that overlap, whose
\* answers may overtake each other, can leave an older list (refresh, handleMe).
AcceptedIsListed ==
  \A w \in Workspaces :
    (/\ joining[w] = "done" /\ w \notin removed
     /\ auth.status = "authenticated" /\ ~overlapped)
    => w \in auth.memberships \ auth.pendingInvitations

\* The view on screen does not stay in between, once the network is done
\* losing things: it is connected or knows that it is denied ("a denied
\* connection is a dead end", and otherwise "no manual refresh should be
\* required").
ViewSettles ==
  \A v \in Views : <>[](mounted = v => views[v].status \in {"open", "unauthorized"})
=============================================================================
