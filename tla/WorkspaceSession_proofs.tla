----------------------- MODULE WorkspaceSession_proofs -----------------------
(***************************************************************************)
(* Proofs about WorkspaceSession, for any workspaces, any way the tab is   *)
(* opened and any number of requests, moves, faults and changes.           *)
(***************************************************************************)
EXTENDS WorkspaceSession, FiniteSetTheorems, TLAPS

-----------------------------------------------------------------------------
(* The inductive invariant.                                                *)

AuthState ==
  [status : {"loading", "network_error", "refused", "authenticated"},
   memberships : SUBSET Workspaces, pendingInvitations : SUBSET Workspaces]
AskRow == [at : {"unsent", "sent", "read", "answered", "done"}, answer : AuthState]
ViewRow ==
  [workspace : Workspaces \cup {None}, closedByCaller : BOOLEAN,
   status : {"connecting", "open", "closed", "unauthorized"}, links : [Stages -> Nat]]

ServerTypes ==
  /\ members \subseteq Workspaces /\ invited \subseteq Workspaces
  /\ removed \subseteq Workspaces
ClientTypes ==
  /\ auth \in AuthState /\ asks \in [Asks -> AskRow] /\ route \in Routes
  /\ joining \in [Workspaces -> {"idle", "accepting", "creating", "joined", "refused", "done"}]
  /\ overlapped \in BOOLEAN

\* What a view has under way, whether or not it is mounted.
Unit(s) == [NoLinks EXCEPT ![s] = 1]
One(l)  == \A s \in Stages : l[s] > 0 => l = Unit(s)
ChainOK(view) ==
  /\ view \in ViewRow /\ One(view.links)
  /\ view.status = "unauthorized" => view.links = NoLinks
  /\ view.closedByCaller => \A s \in Sockets \cup {"waiting"} : view.links[s] = 0
  /\ view.workspace = None => view = Blank

\* The views in use are those that are not garbage; the one on screen is open,
\* and no other is.
MountOK ==
  /\ mounted \in Views \cup {None}
  /\ \A v \in Views :
       /\ views[v].workspace # None => (views[v].closedByCaller <=> mounted # v)
       /\ mounted = v => views[v].workspace # None
ViewsOK ==
  /\ views \in [Views -> ViewRow]
  /\ \A v \in Views : ChainOK(views[v])
  /\ MountOK

\* A view is left for every answer and every move that may still mount one.
Used      == {v \in Views : views[v].workspace # None}
Unhandled == {a \in Asks : asks[a].at # "done"}
Budget ==
  /\ moves \in Nat
  /\ Cardinality(Used) + Cardinality(Unhandled) + moves <= MaxAsks + MaxMoves

\* An accepted invitation has made a member and is pending no more, in the
\* tables and, as long as no two requests overlapped, in every list that was
\* read since.
JoinHolds ==
  \A w \in Workspaces : joining[w] \in {"joined", "done"} /\ w \notin removed =>
    w \in members /\ w \notin invited
Expects(w) == ~overlapped /\ joining[w] = "done" /\ w \notin removed
Lists(s, w) == s.status = "authenticated" => w \in s.memberships
Drops(s, w) == s.status = "authenticated" => w \notin s.pendingInvitations
AnswersHold ==
  \A w \in Workspaces : Expects(w) =>
    /\ Lists(auth, w) /\ Drops(auth, w)
    /\ \A a \in Asks :
         /\ asks[a].at \in {"read", "answered"} => Lists(asks[a].answer, w)
         /\ asks[a].at = "answered" => Drops(asks[a].answer, w)

IInv == ServerTypes /\ ClientTypes /\ ViewsOK /\ Budget /\ JoinHolds /\ AnswersHold

-----------------------------------------------------------------------------
(* Numbers and counts.                                                     *)

\* A set of numbers that is not empty has a least one.
LEMMA MinIn ==
  ASSUME NEW S \in SUBSET Nat, S # {}
  PROVE  Min(S) \in S /\ \A x \in S : Min(S) <= x
<1> DEFINE Upto == {0..x : x \in S}
<1>1. Upto \subseteq FiniteSubsetsOf(Nat) /\ Upto # {}
  <2>1. \A x \in S : 0..x \subseteq Nat /\ IsFiniteSet(0..x)
    BY FS_Interval
  <2>2. QED
    BY <2>1 DEF FiniteSubsetsOf
<1>2. PICK I \in Upto : \A J \in Upto : ~ (<<J, I>> \in StrictSubsetOrdering(Nat))
  BY <1>1, FS_StrictSubsetOrderingWellFounded, WFMin
<1>3. PICK x \in S : I = 0..x
  BY <1>2
<1>4. ASSUME NEW y \in S, y < x PROVE FALSE
  <2>1. 0..y \subseteq 0..x /\ 0..y # 0..x /\ 0..y \in SUBSET Nat /\ 0..x \in SUBSET Nat
    BY <1>4
  <2>2. <<0..y, I>> \in StrictSubsetOrdering(Nat)
    BY <1>3, <2>1 DEF StrictSubsetOrdering
  <2>3. QED
    BY <1>2, <2>2
<1>5. \A y \in S : x <= y
  BY <1>4
<1>6. QED
  BY <1>5 DEF Min

\* Views and requests are finitely many.
LEMMA Finite ==
  /\ IsFiniteSet(Views) /\ Cardinality(Views) = MaxAsks + MaxMoves /\ Views \subseteq Nat
  /\ IsFiniteSet(Asks) /\ Cardinality(Asks) = MaxAsks /\ Asks \subseteq Nat
  /\ None \notin Views
<1>1. MaxAsks \in Nat /\ MaxMoves \in Nat /\ MaxAsks > 0
  BY SessionAssumption
<1>2. Views \subseteq Nat /\ Asks \subseteq Nat
  BY <1>1 DEF Views, Asks
<1>3. None \notin Views
  BY <1>2, SessionAssumption
<1>4. QED
  BY <1>1, <1>2, <1>3, FS_Interval DEF Views, Asks

\* While something may still mount a view, a view is unused.
LEMMA SomeUnused ==
  ASSUME Budget, Unhandled # {} \/ moves > 0
  PROVE  Unused # {} /\ Min(Unused) \in Views /\ views[Min(Unused)].workspace = None
<1>1. /\ IsFiniteSet(Used) /\ IsFiniteSet(Unhandled)
      /\ Cardinality(Used) \in Nat /\ Cardinality(Unhandled) \in Nat
      /\ Unhandled # {} => Cardinality(Unhandled) > 0
  <2>1. Used \in SUBSET Views /\ Unhandled \in SUBSET Asks
    BY DEF Used, Unhandled
  <2>2. IsFiniteSet(Used) /\ IsFiniteSet(Unhandled)
    BY <2>1, Finite, FS_Subset
  <2>3. QED
    BY <2>2, FS_CardinalityType, FS_EmptySet
<1>2. Cardinality(Used) < Cardinality(Views)
  BY <1>1, Finite, SessionAssumption DEF Budget
<1>3. Unused # {}
  <2>1. Used # Views
    BY <1>2, <1>1
  <2>2. QED
    BY <2>1 DEF Used, Unused
<1>4. Unused \in SUBSET Nat
  BY Finite DEF Unused
<1>5. Min(Unused) \in Unused
  BY <1>3, <1>4, MinIn
<1>6. QED
  BY <1>3, <1>5 DEF Unused

-----------------------------------------------------------------------------
(* What a view has under way.                                              *)

\* One thing ends, and another may begin.
LEMMA LinksMove ==
  ASSUME NEW l \in [Stages -> Nat], One(l), NEW s \in Stages, l[s] > 0
  PROVE  /\ l = Unit(s) /\ Drop(l, s) = NoLinks
         /\ \A t \in Stages : To(l, s, t) = Unit(t)
         /\ NoLinks \in [Stages -> Nat] /\ One(NoLinks)
         /\ \A t \in Stages : Unit(t) \in [Stages -> Nat] /\ One(Unit(t))
<1>1. NoLinks \in [Stages -> Nat] /\ \A t \in Stages : NoLinks[t] = 0
  BY DEF NoLinks
<1>2. One(NoLinks)
  BY <1>1 DEF One
<1>3. ASSUME NEW t \in Stages
      PROVE  /\ Unit(t) \in [Stages -> Nat] /\ One(Unit(t))
             /\ Unit(t) = [u \in Stages |-> IF u = t THEN 1 ELSE 0]
             /\ Add(NoLinks, t) = Unit(t)
  <2>1. Unit(t) = [u \in Stages |-> IF u = t THEN 1 ELSE 0]
    BY <1>1 DEF Unit, NoLinks
  <2>2. Add(NoLinks, t) = Unit(t)
    <3>1. (IF NoLinks[t] < 2 THEN NoLinks[t] + 1 ELSE NoLinks[t]) = 1
      BY <1>1
    <3>2. QED
      BY <3>1 DEF Unit, Add
  <2>3. \A u \in Stages : Unit(t)[u] > 0 => u = t
    BY <2>1
  <2>4. QED
    BY <2>1, <2>2, <2>3 DEF One
<1>4. l = Unit(s)
  BY DEF One
<1>5. Drop(l, s) = NoLinks
  <2>1. Drop(l, s) = [u \in Stages |-> IF u = s THEN l[s] - 1 ELSE l[u]]
    BY DEF Drop
  <2>2. \A u \in Stages : l[u] = IF u = s THEN 1 ELSE 0
    BY <1>3, <1>4
  <2>3. Drop(l, s) = [u \in Stages |-> 0]
    BY <2>1, <2>2
  <2>4. QED
    BY <2>3 DEF NoLinks
<1>6. QED
  BY <1>1, <1>2, <1>3, <1>4, <1>5 DEF To

\* A new view asks for its preflight.
LEMMA BlankOK ==
  /\ ChainOK(Blank)
  /\ \A w \in Workspaces : /\ ChainOK(Mount(w)) /\ Mount(w).workspace = w
                           /\ ~Mount(w).closedByCaller
<1>1. /\ NoLinks \in [Stages -> Nat] /\ One(NoLinks) /\ \A t \in Stages : NoLinks[t] = 0
      /\ Add(NoLinks, "asked") \in [Stages -> Nat] /\ One(Add(NoLinks, "asked"))
  BY DEF NoLinks, One, Unit, Add, Stages
<1>2. ChainOK(Blank)
  BY <1>1 DEF ChainOK, Blank, ViewRow, Sockets, Stages
<1>3. ASSUME NEW w \in Workspaces
      PROVE  ChainOK(Mount(w)) /\ Mount(w).workspace = w /\ ~Mount(w).closedByCaller
  <2>1. Mount(w) = [workspace |-> w, closedByCaller |-> FALSE, status |-> "connecting",
                    links |-> Add(NoLinks, "asked")]
    <3> DEFINE named == [Blank EXCEPT !.workspace = w]
    <3>1. named = [workspace |-> w, closedByCaller |-> FALSE,
                   status |-> "connecting", links |-> NoLinks]
      <4>1. \A b : [[workspace |-> None, closedByCaller |-> b, status |-> "connecting",
                     links |-> NoLinks] EXCEPT !.workspace = w]
                   = [workspace |-> w, closedByCaller |-> b, status |-> "connecting",
                      links |-> NoLinks]
        OBVIOUS
      <4>2. QED
        BY <4>1, Zenon DEF Blank
    <3>2. Mount(w) = [named EXCEPT !.status = "connecting", !.links = Add(named.links, "asked")]
      BY DEF Mount, Preflight
    <3> HIDE DEF named
    <3>3. QED
      BY <3>1, <3>2
  <2>2. w # None
    BY SessionAssumption
  <2>3. QED
    BY <1>1, <2>1, <2>2 DEF ChainOK, ViewRow
<1>4. QED
  BY <1>2, <1>3

\* Collecting garbage.
LEMMA KeptOK ==
  ASSUME NEW view, ChainOK(view)
  PROVE  /\ ChainOK(Kept(view)) /\ Kept(view) \in ViewRow
         /\ ~view.closedByCaller => Kept(view) = view
         /\ Kept(view).workspace # None =>
              Kept(view) = view
         /\ Kept(view).workspace \in {None, view.workspace}
BY BlankOK DEF Kept, ChainOK, Blank

\* A closed view connects no more.
LEMMA CloseOK ==
  ASSUME NEW view, ChainOK(view)
  PROVE  /\ ChainOK(Close(view)) \/ view.workspace = None
         /\ Close(view).closedByCaller /\ Close(view).workspace = view.workspace
<1> DEFINE timers  == Drop(view.links, "waiting")
           sockets == {s \in Sockets : view.links[s] > 0}
           links   == IF sockets = {} THEN timers
                      ELSE To(timers, CHOOSE s \in sockets : TRUE, "gone")
<1>1. /\ view \in ViewRow /\ view.links \in [Stages -> Nat] /\ One(view.links)
      /\ Sockets \subseteq Stages /\ {"waiting", "gone"} \subseteq Stages \ Sockets
  BY DEF ChainOK, ViewRow, Sockets, Stages
<1>2. Close(view) = [view EXCEPT !.closedByCaller = TRUE, !.links = links]
  BY DEF Close
<1>3. /\ links \in [Stages -> Nat] /\ One(links)
      /\ \A s \in Sockets \cup {"waiting"} : links[s] = 0
      /\ view.links = NoLinks => links = NoLinks
  <2>1. CASE view.links["waiting"] > 0
    <3>1. view.links = Unit("waiting") /\ timers = NoLinks
      BY <1>1, <2>1, LinksMove
    <3>2. sockets = {}
      BY <1>1, <3>1 DEF Unit, NoLinks
    <3>3. links = NoLinks /\ view.links # NoLinks
      BY <1>1, <2>1, <3>1, <3>2 DEF NoLinks
    <3>4. QED
      BY <1>1, <2>1, <3>3, LinksMove DEF NoLinks
  <2>2. CASE sockets # {}
    <3>1. PICK s \in sockets : s = CHOOSE x \in sockets : TRUE
      BY <2>2
    <3>2. s \in Stages /\ view.links[s] > 0 /\ view.links["waiting"] = 0
      <4>1. s \in Stages /\ view.links[s] > 0 /\ s # "waiting"
        BY <1>1
      <4>2. view.links = Unit(s)
        BY <1>1, <4>1, LinksMove
      <4>3. QED
        BY <1>1, <4>1, <4>2 DEF Unit, NoLinks
    <3>3. timers = view.links
      BY <1>1, <3>2 DEF Drop
    <3>4. links = Unit("gone")
      BY <1>1, <2>2, <3>1, <3>2, <3>3, LinksMove
    <3>5. links \in [Stages -> Nat] /\ One(links)
      BY <1>1, <3>2, <3>4, LinksMove
    <3>6. \A x \in Sockets \cup {"waiting"} : links[x] = 0
      BY <1>1, <3>4 DEF Unit, NoLinks
    <3>7. view.links # NoLinks
      BY <3>2 DEF NoLinks
    <3>8. QED
      BY <3>5, <3>6, <3>7
  <2>3. CASE sockets = {} /\ ~(view.links["waiting"] > 0)
    <3>1. timers = view.links /\ links = view.links
      BY <1>1, <2>3 DEF Drop
    <3>2. \A s \in Sockets \cup {"waiting"} : view.links[s] = 0
      BY <1>1, <2>3
    <3>3. QED
      BY <1>1, <3>1, <3>2
  <2>4. QED
    BY <2>1, <2>2, <2>3
<1>4. /\ Close(view) \in ViewRow /\ Close(view).links = links /\ Close(view).closedByCaller
      /\ Close(view).workspace = view.workspace /\ Close(view).status = view.status
  BY <1>1, <1>2, <1>3 DEF ViewRow
<1>5. QED
  BY <1>3, <1>4 DEF ChainOK

-----------------------------------------------------------------------------
(* Views and the screen.                                                   *)

\* What is under way belongs to a view in use.
LEMMA HasUsed ==
  ASSUME ViewsOK, NEW v \in Views, NEW s \in Stages, Has(v, s)
  PROVE  /\ views[v].workspace # None /\ views[v] \in ViewRow /\ ChainOK(views[v])
         /\ views[v].links \in [Stages -> Nat] /\ One(views[v].links)
         /\ views[v].links[s] > 0
         /\ views[v].closedByCaller => s \notin Sockets \cup {"waiting"}
         /\ mounted = v <=> ~views[v].closedByCaller
<1>1. /\ views[v] \in ViewRow /\ ChainOK(views[v]) /\ views[v].links[s] > 0
      /\ views[v].links \in [Stages -> Nat]
  BY DEF ViewsOK, Has, ViewRow
<1>2. views[v].workspace # None
  <2>1. Blank.links[s] = 0
    BY DEF Blank, NoLinks
  <2>2. QED
    BY <1>1, <2>1 DEF ChainOK
<1>3. QED
  BY <1>1, <1>2 DEF ChainOK, ViewsOK, MountOK

\* A view in use goes on with what it has under way.
LEMMA SetViewKeeps ==
  ASSUME ViewsOK, NEW v \in Views, views[v].workspace # None, NEW view, ChainOK(view),
         view.workspace = views[v].workspace,
         view.closedByCaller <=> views[v].closedByCaller,
         SetView(v, view), UNCHANGED mounted
  PROVE  ViewsOK' /\ Used' \subseteq Used
<1>1. /\ ChainOK(Kept(view)) /\ Kept(view) \in ViewRow
      /\ ~view.closedByCaller => Kept(view) = view
      /\ Kept(view).workspace # None => Kept(view) = view
  BY KeptOK
<1>2. views' = [views EXCEPT ![v] = Kept(view)] /\ views \in [Views -> ViewRow]
  BY DEF SetView, ViewsOK
<1>3. /\ views' \in [Views -> ViewRow] /\ views'[v] = Kept(view)
      /\ \A u \in Views \ {v} : views'[u] = views[u]
  BY <1>1, <1>2
<1>4. \A u \in Views : ChainOK(views'[u])
  BY <1>1, <1>3 DEF ViewsOK
<1>5. Used' \subseteq Used
  BY <1>3 DEF Used
<1>6. MountOK'
  <2>1. mounted' = mounted /\ mounted \in Views \cup {None}
    BY DEF ViewsOK, MountOK
  <2>2. ASSUME NEW u \in Views
        PROVE  /\ views'[u].workspace # None => (views'[u].closedByCaller <=> mounted # u)
               /\ mounted = u => views'[u].workspace # None
    <3>1. CASE u # v
      BY <1>3, <3>1 DEF ViewsOK, MountOK
    <3>2. CASE u = v
      <4>1. views[v].closedByCaller <=> mounted # v
        BY DEF ViewsOK, MountOK
      <4>2. Kept(view).workspace # None => (Kept(view).closedByCaller <=> mounted # v)
        BY <1>1, <4>1
      <4>3. mounted = v => Kept(view).workspace # None
        BY <1>1, <4>1
      <4>4. QED
        BY <1>3, <3>2, <4>2, <4>3
    <3>3. QED
      BY <3>1, <3>2
  <2>3. QED
    BY <2>1, <2>2 DEF MountOK
<1>7. QED
  BY <1>3, <1>4, <1>5, <1>6 DEF ViewsOK

\* What a step does to what a view has under way: one thing ends, and at most
\* one begins, nothing that connects in a view that was closed.
LEMMA MoveKeeps ==
  ASSUME ViewsOK, NEW v \in Views, NEW s \in Stages, Has(v, s), UNCHANGED mounted,
         NEW view \in ViewRow, SetView(v, view),
         view.workspace = views[v].workspace,
         view.closedByCaller <=> views[v].closedByCaller,
         view.status = "unauthorized" => view.links = NoLinks,
         \/ view.links = Drop(views[v].links, s)
         \/ \E t \in Stages :
              /\ view.links = To(views[v].links, s, t)
              /\ views[v].closedByCaller => t \notin Sockets \cup {"waiting"}
  PROVE  ViewsOK' /\ Used' \subseteq Used
<1>1. /\ views[v].workspace # None /\ views[v] \in ViewRow /\ ChainOK(views[v])
      /\ views[v].links \in [Stages -> Nat] /\ One(views[v].links) /\ views[v].links[s] > 0
  BY HasUsed
<1>2. One(view.links)
  BY <1>1, LinksMove
<1>3. view.closedByCaller => \A x \in Sockets \cup {"waiting"} : view.links[x] = 0
  <2>1. Sockets \cup {"waiting"} \subseteq Stages
    BY DEF Sockets, Stages
  <2>2. CASE view.links = NoLinks
    BY <2>1, <2>2 DEF NoLinks
  <2>3. ASSUME NEW t \in Stages, view.links = Unit(t), t \notin Sockets \cup {"waiting"}
        PROVE  \A x \in Sockets \cup {"waiting"} : view.links[x] = 0
    BY <2>1, <2>3 DEF Unit, NoLinks
  <2>4. QED
    BY <1>1, <2>2, <2>3, LinksMove
<1>4. ChainOK(view)
  BY <1>1, <1>2, <1>3 DEF ChainOK
<1>5. QED
  BY <1>1, <1>4, SetViewKeeps

\* The same when nothing else of the view changes.
LEMMA SetLinksKeeps ==
  ASSUME ViewsOK, NEW v \in Views, NEW s \in Stages, Has(v, s), UNCHANGED mounted,
         NEW l, SetLinks(v, l),
         \/ l = Drop(views[v].links, s)
         \/ \E t \in Stages :
              /\ l = To(views[v].links, s, t)
              /\ views[v].closedByCaller => t \notin Sockets \cup {"waiting"}
  PROVE  ViewsOK' /\ Used' \subseteq Used
<1> DEFINE view == [views[v] EXCEPT !.links = l]
<1>1. /\ views[v].workspace # None /\ views[v] \in ViewRow /\ ChainOK(views[v])
      /\ views[v].links \in [Stages -> Nat] /\ One(views[v].links) /\ views[v].links[s] > 0
  BY HasUsed
<1>2. l \in [Stages -> Nat]
  BY <1>1, LinksMove
<1>3. /\ view \in ViewRow /\ view.links = l /\ view.workspace = views[v].workspace
      /\ view.status = views[v].status /\ view.closedByCaller = views[v].closedByCaller
  BY <1>1, <1>2 DEF ViewRow
<1>4. views[v].status # "unauthorized"
  <2>1. NoLinks[s] = 0
    BY DEF NoLinks
  <2>2. QED
    BY <1>1, <2>1 DEF ChainOK
<1>5. SetView(v, view)
  BY DEF SetLinks
<1> HIDE DEF view
<1>6. QED
  BY <1>3, <1>4, <1>5, MoveKeeps

\* React renders: at most one view is mounted, the one that was on screen is
\* closed when its workspace goes.
LEMMA RenderKeeps ==
  ASSUME ViewsOK, Budget, Unhandled # {} \/ moves > 0,
         NEW a \in AuthState, NEW r \in Routes, Render(a, r)
  PROVE  /\ ViewsOK' /\ auth' = a /\ route' = r
         /\ \/ Used' \subseteq Used
            \/ Wanted(a, r) # None /\ \E v \in Views : Used' \subseteq Used \cup {v}
<1> DEFINE closed == IF mounted = None THEN views
                     ELSE [views EXCEPT ![mounted] = Kept(Close(@))]
           w      == Wanted(a, r)
           new    == Min(Unused)
<1>1. /\ auth' = a /\ route' = r
      /\ \/ UNCHANGED <<views, mounted>>
         \/ w = None /\ views' = closed /\ mounted' = None
         \/ w # None /\ mounted' = new /\ views' = [closed EXCEPT ![new] = Mount(w)]
  <2> HIDE DEF closed, w, new
  <2>1. /\ auth' = a /\ route' = r
        /\ IF w = OnScreen THEN UNCHANGED <<views, mounted>>
           ELSE IF w = None THEN views' = closed /\ mounted' = None
           ELSE mounted' = new /\ views' = [closed EXCEPT ![mounted'] = Mount(w)]
    BY DEF Render, closed, w, new
  <2>2. QED
    BY <2>1
<1>2. /\ views \in [Views -> ViewRow] /\ \A v \in Views : ChainOK(views[v])
      /\ mounted \in Views \cup {None} /\ None \notin Views
      /\ \A v \in Views :
           /\ views[v].workspace # None => (views[v].closedByCaller <=> mounted # v)
           /\ mounted = v => views[v].workspace # None
  BY Finite DEF ViewsOK, MountOK
<1>3. /\ closed \in [Views -> ViewRow]
      /\ \A v \in Views :
           /\ ChainOK(closed[v])
           /\ closed[v].workspace # None => closed[v].closedByCaller
           /\ closed[v].workspace # None => views[v].workspace # None
  <2>1. CASE mounted = None
    BY <1>2, <2>1
  <2>2. CASE mounted # None
    <3> DEFINE old  == Close(views[mounted])
    <3>1. mounted \in Views /\ views[mounted].workspace # None
      BY <1>2, <2>2
    <3>2. ChainOK(old) /\ old.closedByCaller /\ old.workspace = views[mounted].workspace
      BY <1>2, <3>1, CloseOK
    <3>3. /\ ChainOK(Kept(old)) /\ Kept(old) \in ViewRow
          /\ Kept(old).workspace # None => Kept(old) = old
      BY <3>2, KeptOK
    <3>4. closed = [views EXCEPT ![mounted] = Kept(old)]
      BY <2>2
    <3> HIDE DEF old, closed
    <3>5. /\ closed \in [Views -> ViewRow] /\ closed[mounted] = Kept(old)
          /\ \A v \in Views \ {mounted} : closed[v] = views[v]
      BY <1>2, <3>1, <3>3, <3>4
    <3>6. Kept(old).workspace # None => Kept(old).closedByCaller
      BY <3>2, <3>3
    <3>7. QED
      BY <1>2, <3>1, <3>3, <3>5, <3>6
  <2>3. QED
    BY <2>1, <2>2
<1> HIDE DEF closed, w, new
<1>4. CASE UNCHANGED <<views, mounted>>
  <2>1. ViewsOK'
    BY <1>4 DEF ViewsOK, MountOK
  <2>2. Used' = Used
    BY <1>4 DEF Used
  <2>3. QED
    BY <1>1, <2>1, <2>2
<1>5. CASE w = None /\ views' = closed /\ mounted' = None
  <2>1. MountOK'
    BY <1>2, <1>3, <1>5 DEF MountOK
  <2>2. ViewsOK'
    BY <1>3, <1>5, <2>1 DEF ViewsOK
  <2>3. Used' \subseteq Used
    BY <1>3, <1>5 DEF Used
  <2>4. QED
    BY <1>1, <2>2, <2>3
<1>6. CASE w # None /\ mounted' = new /\ views' = [closed EXCEPT ![new] = Mount(w)]
  <2>1. new \in Views /\ views[new].workspace = None
    BY SomeUnused DEF new
  <2>2. w \in Workspaces
    BY <1>6 DEF w, Wanted
  <2>3. ChainOK(Mount(w)) /\ Mount(w).workspace = w /\ ~Mount(w).closedByCaller
    BY <2>2, BlankOK
  <2>4. Mount(w) \in ViewRow
    BY <2>3 DEF ChainOK
  <2>5. /\ views' \in [Views -> ViewRow] /\ views'[new] = Mount(w)
        /\ \A v \in Views \ {new} : views'[v] = closed[v]
    BY <1>3, <1>6, <2>1, <2>4
  <2>6. \A v \in Views : ChainOK(views'[v])
    BY <1>3, <2>3, <2>5
  <2>7. MountOK'
    <3>1. ASSUME NEW v \in Views
          PROVE  /\ views'[v].workspace # None => (views'[v].closedByCaller <=> mounted' # v)
                 /\ mounted' = v => views'[v].workspace # None
      <4>1. CASE v = new
        BY <1>6, <2>3, <2>5, <4>1
      <4>2. CASE v # new
        BY <1>3, <1>6, <2>5, <4>2
      <4>3. QED
        BY <4>1, <4>2
    <3>2. QED
      BY <1>6, <2>1, <3>1 DEF MountOK
  <2>8. ViewsOK'
    BY <2>5, <2>6, <2>7 DEF ViewsOK
  <2>9. Used' \subseteq Used \cup {new}
    BY <1>3, <2>5 DEF Used
  <2>10. QED
    BY <1>1, <1>6, <2>1, <2>8, <2>9 DEF w
<1>7. QED
  BY <1>1, <1>4, <1>5, <1>6

\* What is left of the views: a step may use one for a request it finishes or
\* a move it makes, and none otherwise.
LEMMA BudgetKeeps ==
  ASSUME Budget, Unhandled' \subseteq Unhandled,
         \/ /\ Used' \subseteq Used /\ moves' = moves
         \/ /\ \E v \in Views : Used' \subseteq Used \cup {v}
            /\ \/ moves > 0 /\ moves' = moves - 1
               \/ moves' = moves /\ Unhandled' # Unhandled
  PROVE  Budget'
<1>1. /\ IsFiniteSet(Used) /\ IsFiniteSet(Unhandled)
      /\ IsFiniteSet(Used') /\ IsFiniteSet(Unhandled')
  <2>1. /\ Used \in SUBSET Views /\ Unhandled \in SUBSET Asks
        /\ Used' \in SUBSET Views /\ Unhandled' \in SUBSET Asks
    BY DEF Used, Unhandled
  <2>2. QED
    BY <2>1, Finite, FS_Subset
<1>2. /\ Cardinality(Used) \in Nat /\ Cardinality(Unhandled) \in Nat
      /\ Cardinality(Used') \in Nat /\ Cardinality(Unhandled') \in Nat
      /\ Cardinality(Unhandled') <= Cardinality(Unhandled)
      /\ Unhandled' # Unhandled => Cardinality(Unhandled') < Cardinality(Unhandled)
  BY <1>1, FS_CardinalityType, FS_Subset
<1>3. /\ moves \in Nat /\ MaxAsks + MaxMoves \in Nat
      /\ Cardinality(Used) + Cardinality(Unhandled) + moves <= MaxAsks + MaxMoves
  BY SessionAssumption DEF Budget
<1>4. CASE Used' \subseteq Used /\ moves' = moves
  <2>1. Cardinality(Used') <= Cardinality(Used)
    BY <1>1, <1>4, FS_Subset
  <2>2. QED
    BY <1>2, <1>3, <1>4, <2>1 DEF Budget
<1>5. ASSUME NEW v \in Views, Used' \subseteq Used \cup {v},
             \/ moves > 0 /\ moves' = moves - 1
             \/ moves' = moves /\ Unhandled' # Unhandled
      PROVE  Budget'
  <2>1. /\ IsFiniteSet(Used \cup {v}) /\ Cardinality(Used \cup {v}) \in Nat
        /\ Cardinality(Used \cup {v}) <= Cardinality(Used) + 1
    <3>1. /\ IsFiniteSet(Used \cup {v})
          /\ Cardinality(Used \cup {v}) = Cardinality(Used) \/ Cardinality(Used \cup {v}) = Cardinality(Used) + 1
      BY <1>1, FS_AddElement
    <3>2. QED
      BY <1>2, <3>1
  <2>2. Cardinality(Used') <= Cardinality(Used) + 1
    <3>1. Cardinality(Used') <= Cardinality(Used \cup {v})
      BY <1>5, <2>1, FS_Subset
    <3>2. QED
      BY <1>2, <2>1, <3>1
  <2>3. QED
    BY <1>2, <1>3, <1>5, <2>2 DEF Budget
<1>6. QED
  BY <1>4, <1>5

-----------------------------------------------------------------------------
(* The steps of the Worker.                                                *)

\* The initial state.
LEMMA InvInit == Init => IInv
<1> SUFFICES ASSUME Init PROVE IInv
  OBVIOUS
<1>1. PICK t \in Tabs :
       /\ members = t.members /\ invited = t.invited /\ route = t.route
       /\ asks = [a \in Asks |-> [at |-> IF a = 1 THEN "sent" ELSE
                                        IF a <= t.asks THEN "unsent" ELSE "done",
                                  answer |-> Loading]]
       /\ moves = t.moves /\ faults = t.faults /\ changes = t.changes
  BY DEF Init
<1>2. /\ removed = {} /\ active = TRUE /\ auth = Loading
      /\ joining = [w \in Workspaces |-> "idle"]
      /\ views = [v \in Views |-> Blank] /\ mounted = None /\ overlapped = FALSE
  BY DEF Init
<1>3. Loading \in AuthState
  BY DEF Loading, AuthState
<1>4. ServerTypes /\ route \in Routes
  BY <1>1, <1>2, SessionAssumption DEF ServerTypes, Routes
<1>5. asks \in [Asks -> AskRow]
  BY <1>1, <1>3 DEF AskRow
<1>6. ClientTypes
  BY <1>2, <1>3, <1>4, <1>5 DEF ClientTypes
<1>7. ViewsOK
  <2>1. ChainOK(Blank) /\ Blank \in ViewRow /\ Blank.workspace = None /\ None \notin Views
    BY BlankOK, Finite DEF ChainOK, Blank
  <2>2. QED
    BY <1>2, <2>1 DEF ViewsOK, MountOK
<1>8. Budget
  <2>1. Used = {}
    BY <1>2 DEF Used, Blank
  <2>2. IsFiniteSet(Asks) /\ Unhandled \in SUBSET Asks
    BY Finite DEF Unhandled
  <2>3. Cardinality(Unhandled) <= MaxAsks /\ Cardinality(Unhandled) \in Nat /\ Cardinality(Used) = 0
    BY <2>1, <2>2, Finite, FS_Subset, FS_CardinalityType, FS_EmptySet
  <2>4. moves \in 0..MaxMoves /\ MaxAsks \in Nat /\ MaxMoves \in Nat
    BY <1>1, SessionAssumption
  <2>5. QED
    BY <2>3, <2>4 DEF Budget
<1>9. JoinHolds /\ AnswersHold
  BY <1>2 DEF JoinHolds, AnswersHold, Expects
<1>10. QED
  BY <1>4, <1>6, <1>7, <1>8, <1>9 DEF IInv

\* What the views, the budget and the requests do not see.
LEMMA ViewsStay ==
  ASSUME ViewsOK, Budget, UNCHANGED <<views, mounted, moves>>, Unhandled' \subseteq Unhandled
  PROVE  ViewsOK' /\ Budget'
<1>1. ViewsOK' /\ Used' = Used
  BY DEF ViewsOK, MountOK, Used
<1>2. QED
  BY <1>1, BudgetKeeps

\* A view's own step leaves the rest of the invariant as it is.
LEMMA ViewStep ==
  ASSUME IInv, ViewsOK', Used' \subseteq Used,
         UNCHANGED <<serverVars, auth, asks, route, joining, overlapped, moves>>
  PROVE  IInv'
<1>1. Unhandled' = Unhandled
  BY DEF Unhandled
<1>2. Budget'
  BY <1>1, BudgetKeeps DEF IInv
<1>3. ServerTypes' /\ ClientTypes'
  BY DEF IInv, ServerTypes, ClientTypes, serverVars
<1>4. JoinHolds' /\ AnswersHold'
  BY DEF IInv, JoinHolds, AnswersHold, Expects, Lists, Drops, serverVars
<1>5. QED
  BY <1>2, <1>3, <1>4 DEF IInv

\* The stages of a view.
LEMMA StageNames ==
  /\ {"asked", "granted", "denied", "unreached", "waiting",
      "connecting", "accepted", "open", "gone"} = Stages
  /\ {"connecting", "accepted", "open"} = Sockets
  /\ {"asked", "granted", "denied", "unreached", "gone"} \cap (Sockets \cup {"waiting"}) = {}
BY DEF Stages, Sockets

\* The Worker decides a preflight or an upgrade, or the network loses a socket.
LEMMA ServerKeeps ==
  ASSUME IInv, NEW v \in Views, Server(v) \/ \E s \in Stages : LoseSocket(v, s)
  PROVE  IInv'
<1>1. PICK s \in Stages, t \in Stages :
        /\ Has(v, s) /\ SetLinks(v, To(views[v].links, s, t))
        /\ t \in Sockets \cup {"waiting"} => s \in Sockets
        /\ UNCHANGED <<serverVars, auth, asks, route, joining, mounted, overlapped, moves>>
  <2>1. CASE DecidePreflight(v)
    BY <2>1, StageNames DEF DecidePreflight
  <2>2. CASE DecideUpgrade(v)
    BY <2>2, StageNames DEF DecideUpgrade
  <2>3. CASE \E s \in Stages : LoseSocket(v, s)
    BY <2>3, StageNames DEF LoseSocket
  <2>4. QED
    BY <2>1, <2>2, <2>3 DEF Server
<1>2. ViewsOK /\ UNCHANGED mounted
  BY <1>1 DEF IInv
<1>3. views[v].closedByCaller => t \notin Sockets \cup {"waiting"}
  BY <1>1, <1>2, HasUsed
<1>4. ViewsOK' /\ Used' \subseteq Used
  <2> DEFINE l == To(views[v].links, s, t)
  <2>1. SetLinks(v, l)
    BY <1>1
  <2>2. \E x \in Stages : /\ l = To(views[v].links, s, x)
                          /\ views[v].closedByCaller => x \notin Sockets \cup {"waiting"}
    BY <1>3
  <2> HIDE DEF l
  <2>3. QED
    BY <1>1, <1>2, <2>1, <2>2, SetLinksKeeps
<1>5. QED
  BY <1>1, <1>4, ViewStep

-----------------------------------------------------------------------------
(* The handlers of a view.                                                 *)

\* The preflight's answer connects the view or shows that it is denied.
LEMMA PreflightKeeps ==
  ASSUME ViewsOK, NEW v \in Views, PreflightAnswered(v)
  PROVE  ViewsOK' /\ Used' \subseteq Used
<1> DEFINE old == views[v]
<1>1. UNCHANGED mounted
  BY DEF PreflightAnswered, ClientOnly
<1>2. CASE Has(v, "denied") /\ SetView(v, Denied(old))
  <2>1. old \in ViewRow /\ old.links \in [Stages -> Nat] /\ One(old.links) /\ old.links["denied"] > 0
    BY <1>2, HasUsed, StageNames
  <2>2. Drop(old.links, "denied") = NoLinks /\ NoLinks \in [Stages -> Nat]
    BY <2>1, LinksMove, StageNames
  <2>3. Denied(old) = [old EXCEPT !.status = "unauthorized", !.links = NoLinks]
    BY <2>2 DEF Denied
  <2>4. /\ Denied(old) \in ViewRow /\ Denied(old).links = NoLinks
        /\ Denied(old).workspace = old.workspace
        /\ Denied(old).closedByCaller = old.closedByCaller
    BY <2>1, <2>2, <2>3 DEF ViewRow
  <2>5. QED
    BY <1>1, <1>2, <2>2, <2>4, MoveKeeps, StageNames
<1>3. ASSUME NEW s \in {"granted", "unreached"}, Has(v, s),
             SetLinks(v, IF old.closedByCaller THEN Drop(old.links, s)
                         ELSE To(old.links, s, "connecting"))
      PROVE  ViewsOK' /\ Used' \subseteq Used
  <2>1. s \in Stages /\ "connecting" \in Stages
    BY StageNames
  <2>2. CASE old.closedByCaller
    BY <1>1, <1>3, <2>1, <2>2, SetLinksKeeps
  <2>3. CASE ~old.closedByCaller
    BY <1>1, <1>3, <2>1, <2>3, SetLinksKeeps
  <2>4. QED
    BY <2>2, <2>3
<1>4. QED
  BY <1>2, <1>3 DEF PreflightAnswered

\* onopen
LEMMA OpenedKeeps ==
  ASSUME ViewsOK, NEW v \in Views, Opened(v)
  PROVE  ViewsOK' /\ Used' \subseteq Used
<1> DEFINE old == views[v]
           l   == To(old.links, "accepted", "open")
           new == [old EXCEPT !.status = "open", !.links = l]
<1>1. UNCHANGED mounted /\ Has(v, "accepted") /\ {"accepted", "open"} \subseteq Stages
  BY StageNames DEF Opened, ClientOnly
<1>2. SetView(v, new)
  BY DEF Opened
<1>3. /\ old \in ViewRow /\ old.links \in [Stages -> Nat] /\ One(old.links)
      /\ old.links["accepted"] > 0 /\ ~old.closedByCaller
  BY <1>1, HasUsed, StageNames
<1>4. l \in [Stages -> Nat]
  BY <1>1, <1>3, LinksMove
<1> HIDE DEF l
<1>5. /\ new \in ViewRow /\ new.links = l /\ new.status = "open"
      /\ new.workspace = old.workspace /\ new.closedByCaller = old.closedByCaller
  BY <1>3, <1>4 DEF ViewRow
<1> HIDE DEF new
<1>6. QED
  BY <1>1, <1>2, <1>3, <1>5, MoveKeeps DEF l

\* onclose
LEMMA ClosedKeeps ==
  ASSUME ViewsOK, NEW v \in Views, Closed(v)
  PROVE  ViewsOK' /\ Used' \subseteq Used
<1> DEFINE old == views[v]
           l   == IF old.closedByCaller THEN Drop(old.links, "gone")
                  ELSE To(old.links, "gone", "waiting")
           new == [old EXCEPT !.status = "closed", !.links = l]
<1>1. UNCHANGED mounted /\ Has(v, "gone") /\ {"gone", "waiting"} \subseteq Stages
  BY StageNames DEF Closed, ClientOnly
<1>2. SetView(v, new)
  BY DEF Closed, AfterClose
<1>3. /\ old \in ViewRow /\ old.links \in [Stages -> Nat] /\ One(old.links)
      /\ old.links["gone"] > 0
  BY <1>1, HasUsed
<1>4. l \in [Stages -> Nat]
  BY <1>1, <1>3, LinksMove
<1>5. \/ l = Drop(old.links, "gone")
      \/ l = To(old.links, "gone", "waiting") /\ ~old.closedByCaller
  OBVIOUS
<1> HIDE DEF l
<1>6. /\ new \in ViewRow /\ new.links = l /\ new.status = "closed"
      /\ new.workspace = old.workspace /\ new.closedByCaller = old.closedByCaller
  BY <1>3, <1>4 DEF ViewRow
<1> HIDE DEF new
<1>7. QED
  BY <1>1, <1>2, <1>3, <1>5, <1>6, MoveKeeps

\* The reconnect timer.
LEMMA TimerKeeps ==
  ASSUME ViewsOK, NEW v \in Views, TimerFires(v)
  PROVE  ViewsOK' /\ Used' \subseteq Used
<1> DEFINE old == views[v]
           dropped == Drop(old.links, "waiting")
           l     == To(old.links, "waiting", "asked")
           fired == [old EXCEPT !.links = dropped]
           new   == [old EXCEPT !.status = "connecting", !.links = l]
<1>1. UNCHANGED mounted /\ Has(v, "waiting") /\ {"waiting", "asked"} \subseteq Stages
  BY StageNames DEF TimerFires, ClientOnly
<1>2. /\ old \in ViewRow /\ old.links \in [Stages -> Nat] /\ One(old.links)
      /\ old.links["waiting"] > 0 /\ ~old.closedByCaller
  BY <1>1, HasUsed
<1>3. dropped \in [Stages -> Nat] /\ l \in [Stages -> Nat] /\ l = Add(dropped, "asked")
  BY <1>1, <1>2, LinksMove DEF To
<1>4. SetView(v, IF fired.closedByCaller THEN fired ELSE Preflight(fired))
  BY DEF TimerFires
<1> HIDE DEF l, dropped
<1>5. /\ fired \in ViewRow /\ fired.links = dropped /\ ~fired.closedByCaller
      /\ Preflight(fired) = new
  <2>1. fired \in ViewRow /\ fired.links = dropped /\ ~fired.closedByCaller
    BY <1>2, <1>3 DEF ViewRow
  <2>2. Preflight(fired) = [fired EXCEPT !.status = "connecting", !.links = l]
    BY <1>3, <2>1 DEF Preflight
  <2>3. QED
    BY <1>2, <2>1, <2>2 DEF ViewRow
<1>6. /\ new \in ViewRow /\ new.links = l /\ new.status = "connecting"
      /\ new.workspace = old.workspace /\ new.closedByCaller = old.closedByCaller
  BY <1>2, <1>3 DEF ViewRow
<1>7. SetView(v, new)
  BY <1>4, <1>5
<1> HIDE DEF new
<1>8. QED
  BY <1>1, <1>2, <1>6, <1>7, MoveKeeps DEF l

\* A handler of a view touches nothing but the view.
LEMMA ClientKeeps ==
  ASSUME IInv, NEW v \in Views, Client(v)
  PROVE  IInv'
<1>1. ClientOnly
  BY DEF Client, PreflightAnswered, Opened, Closed, TimerFires
<1>2. ViewsOK' /\ Used' \subseteq Used
  BY PreflightKeeps, OpenedKeeps, ClosedKeeps, TimerKeeps DEF Client, IInv
<1>3. QED
  BY <1>1, <1>2, ViewStep DEF ClientOnly, bounds

-----------------------------------------------------------------------------
(* The steps of the tables and of the requests.                            *)

\* What changes the tables keeps what was accepted.
LEMMA TablesKeep ==
  ASSUME IInv, NEW w \in Workspaces, RemoveMember(w) \/ Join(w) \/ Suspend
  PROVE  IInv'
<1>1. /\ UNCHANGED <<auth, asks, route, views, mounted, overlapped, moves>>
      /\ Unhandled' = Unhandled
  BY DEF RemoveMember, Join, Suspend, tabVars, Unhandled
<1>2. ViewsOK' /\ Budget'
  BY <1>1, ViewsStay DEF IInv
<1>3. \/ /\ members' = members \ {w} /\ removed' = removed \cup {w}
         /\ UNCHANGED <<invited, joining>>
      \/ /\ joining[w] \in {"accepting", "creating"} /\ UNCHANGED removed
         /\ \/ /\ members' = members \cup {w} /\ invited' = invited \ {w}
               /\ \/ joining' = [joining EXCEPT ![w] = "joined"]
                  \/ joining' = [joining EXCEPT ![w] = "refused"]
            \/ /\ joining' = [joining EXCEPT ![w] = "refused"]
               /\ UNCHANGED <<members, invited>>
      \/ UNCHANGED <<members, invited, removed, joining>>
  BY DEF RemoveMember, Join, Suspend, tabVars
<1>4. ServerTypes'
  BY <1>3 DEF IInv, ServerTypes
<1>5. ClientTypes'
  BY <1>1, <1>3 DEF IInv, ClientTypes
<1>6. JoinHolds'
  BY <1>3 DEF IInv, JoinHolds, ClientTypes
<1>7. AnswersHold'
  <2>1. ASSUME NEW x \in Workspaces, Expects(x)' PROVE Expects(x)
    BY <1>1, <1>3, <2>1 DEF Expects, IInv, ClientTypes
  <2>2. QED
    BY <1>1, <2>1 DEF IInv, AnswersHold, Lists, Drops
<1>8. QED
  BY <1>2, <1>4, <1>5, <1>6, <1>7 DEF IInv

\* The answer of the moment: what was read of the tables has what was accepted.
LEMMA ReadKeeps ==
  ASSUME IInv, NEW a \in Asks, ReadMemberships(a) \/ ReadInvitations(a)
  PROVE  IInv'
<1>1. /\ UNCHANGED <<serverVars, auth, route, joining, views, mounted, overlapped, moves>>
      /\ asks[a].at \in {"sent", "read"}
  BY DEF ReadMemberships, ReadInvitations, bounds
<1>2. PICK at \in {"read", "answered"}, s \in AuthState :
        /\ asks' = [asks EXCEPT ![a] = [at |-> at, answer |-> s]]
        /\ \A w \in Workspaces : Expects(w) =>
             Lists(s, w) /\ (at = "answered" => Drops(s, w))
  <2>1. CASE asks[a].at = "sent" /\ active
               /\ Asked(a, "read", [Loading EXCEPT !.status = "authenticated",
                                                   !.memberships = members])
    <3> DEFINE s == [Loading EXCEPT !.status = "authenticated", !.memberships = members]
    <3>1. asks' = [asks EXCEPT ![a] = [at |-> "read", answer |-> s]]
      BY <2>1 DEF Asked
    <3>2. s \in AuthState /\ s.memberships = members
      <4>1. Loading \in AuthState
        BY DEF Loading, AuthState
      <4>2. QED
        BY <4>1 DEF AuthState, IInv, ServerTypes
    <3> HIDE DEF s
    <3>3. \A w \in Workspaces : Expects(w) => Lists(s, w)
      BY <3>2 DEF IInv, JoinHolds, Expects, Lists
    <3>4. QED
      BY <3>1, <3>2, <3>3
  <2>2. ASSUME NEW s \in {Refused, Failed}, Asked(a, "answered", s)
        PROVE  \E at \in {"read", "answered"}, x \in AuthState :
                 /\ asks' = [asks EXCEPT ![a] = [at |-> at, answer |-> x]]
                 /\ \A w \in Workspaces : Expects(w) =>
                      Lists(x, w) /\ (at = "answered" => Drops(x, w))
    <3>1. s \in AuthState /\ s.status # "authenticated"
      BY DEF Refused, Failed, Loading, AuthState
    <3>2. QED
      BY <2>2, <3>1 DEF Asked, Lists, Drops
  <2>3. CASE ReadInvitations(a)
    <3> DEFINE s == [asks[a].answer EXCEPT !.pendingInvitations = invited]
    <3>1. asks[a].at = "read" /\ Asked(a, "answered", s) /\ asks[a].answer \in AuthState
      BY <2>3 DEF ReadInvitations, IInv, ClientTypes, AskRow
    <3>2. /\ s \in AuthState /\ s.status = asks[a].answer.status
          /\ s.memberships = asks[a].answer.memberships /\ s.pendingInvitations = invited
      BY <3>1 DEF AuthState, IInv, ServerTypes
    <3> HIDE DEF s
    <3>3. ASSUME NEW w \in Workspaces, Expects(w) PROVE Lists(s, w) /\ Drops(s, w)
      <4>1. Lists(asks[a].answer, w) /\ w \notin invited
        BY <3>1, <3>3 DEF IInv, JoinHolds, AnswersHold, Expects
      <4>2. QED
        BY <3>2, <4>1 DEF Lists, Drops
    <3>4. QED
      BY <3>1, <3>2, <3>3 DEF Asked
  <2>4. QED
    BY <2>1, <2>2, <2>3 DEF ReadMemberships
<1>3. /\ asks' \in [Asks -> AskRow] /\ asks'[a] = [at |-> at, answer |-> s]
      /\ \A b \in Asks \ {a} : asks'[b] = asks[b]
  <2>1. [at |-> at, answer |-> s] \in AskRow
    BY DEF AskRow
  <2>2. QED
    BY <1>2, <2>1 DEF IInv, ClientTypes
<1>4. Unhandled' = Unhandled
  BY <1>1, <1>3 DEF Unhandled
<1>5. ViewsOK' /\ Budget'
  BY <1>1, <1>4, ViewsStay DEF IInv
<1>6. ServerTypes' /\ ClientTypes' /\ JoinHolds'
  BY <1>1, <1>3 DEF IInv, ServerTypes, ClientTypes, JoinHolds, serverVars
<1>7. AnswersHold'
  <2> SUFFICES ASSUME NEW w \in Workspaces, Expects(w)'
               PROVE  /\ Lists(auth', w) /\ Drops(auth', w)
                      /\ \A b \in Asks :
                           /\ asks'[b].at \in {"read", "answered"} => Lists(asks'[b].answer, w)
                           /\ asks'[b].at = "answered" => Drops(asks'[b].answer, w)
    BY DEF AnswersHold, Lists, Drops
  <2>1. Expects(w)
    BY <1>1 DEF Expects, serverVars
  <2>2. QED
    BY <1>1, <1>2, <1>3, <2>1 DEF IInv, AnswersHold
<1>8. QED
  BY <1>5, <1>6, <1>7 DEF IInv

\* refresh() sends one more request, and says so when another is under way.
LEMMA SendKeeps ==
  ASSUME ClientTypes, SendAsk
  PROVE  /\ asks' \in [Asks -> AskRow] /\ overlapped' \in BOOLEAN
         /\ Unhandled' = Unhandled /\ Unhandled # {}
         /\ overlapped => overlapped'
         /\ \A a \in Asks : asks'[a].at \in {"read", "answered"} =>
              asks'[a] = asks[a] /\ overlapped'
<1> DEFINE unsent == {a \in Asks : asks[a].at = "unsent"}
           b      == Min(unsent)
<1>1. unsent \in SUBSET Nat /\ unsent # {}
  BY Finite DEF SendAsk
<1>2. b \in Asks /\ asks[b].at = "unsent"
  BY <1>1, MinIn
<1>3. /\ asks' = [asks EXCEPT ![b].at = "sent"]
      /\ overlapped' = (overlapped \/ \E a \in Asks : asks[a].at \in {"sent", "read", "answered"})
  BY DEF SendAsk
<1> HIDE DEF b
<1>4. /\ asks' \in [Asks -> AskRow] /\ asks'[b].at = "sent"
      /\ \A a \in Asks \ {b} : asks'[a] = asks[a]
  BY <1>2, <1>3 DEF ClientTypes, AskRow
<1>5. Unhandled' = Unhandled /\ b \in Unhandled
  BY <1>2, <1>4 DEF Unhandled
<1>6. QED
  BY <1>3, <1>4, <1>5

-----------------------------------------------------------------------------
(* The steps that render.                                                  *)

\* An answer of /api/me is applied.
LEMMA AnsweredKeeps ==
  ASSUME IInv, NEW a \in Asks, MeAnswered(a)
  PROVE  IInv'
<1>1. /\ asks[a].at = "answered" /\ asks[a] \in AskRow /\ asks[a].answer \in AuthState
      /\ asks' = [asks EXCEPT ![a].at = "done"] /\ Render(asks[a].answer, route)
      /\ UNCHANGED <<serverVars, joining, overlapped, moves>> /\ route \in Routes
  BY DEF MeAnswered, IInv, ClientTypes, AskRow, bounds
<1>2. /\ asks' \in [Asks -> AskRow] /\ asks'[a].at = "done"
      /\ \A b \in Asks \ {a} : asks'[b] = asks[b]
  BY <1>1 DEF IInv, ClientTypes, AskRow
<1>3. Unhandled' \subseteq Unhandled /\ a \in Unhandled /\ a \notin Unhandled'
  BY <1>1, <1>2 DEF Unhandled
<1>4. /\ ViewsOK' /\ auth' = asks[a].answer /\ route' = route
      /\ Used' \subseteq Used \/ \E v \in Views : Used' \subseteq Used \cup {v}
  BY <1>1, <1>3, RenderKeeps DEF IInv
<1>5. Budget'
  BY <1>1, <1>3, <1>4, BudgetKeeps DEF IInv
<1>6. ServerTypes' /\ ClientTypes' /\ JoinHolds'
  BY <1>1, <1>2, <1>4 DEF IInv, ServerTypes, ClientTypes, JoinHolds, serverVars
<1>7. AnswersHold'
  <2> SUFFICES ASSUME NEW w \in Workspaces, Expects(w)'
               PROVE  /\ Lists(auth', w) /\ Drops(auth', w)
                      /\ \A b \in Asks :
                           /\ asks'[b].at \in {"read", "answered"} => Lists(asks'[b].answer, w)
                           /\ asks'[b].at = "answered" => Drops(asks'[b].answer, w)
    BY DEF AnswersHold, Lists, Drops
  <2>1. Expects(w)
    BY <1>1 DEF Expects, serverVars
  <2>2. QED
    BY <1>1, <1>2, <1>4, <2>1 DEF IInv, AnswersHold
<1>8. QED
  BY <1>4, <1>5, <1>6, <1>7 DEF IInv

\* A request is sent while the screen is the loading one.
LEMMA AskingKeeps ==
  ASSUME IInv, NEW r \in Routes, SendAsk, Render(Loading, r),
         UNCHANGED <<serverVars, moves>>,
         \/ UNCHANGED joining
         \/ \E w \in Workspaces :
              joining[w] = "joined" /\ joining' = [joining EXCEPT ![w] = "done"]
  PROVE  IInv'
<1>1. /\ asks' \in [Asks -> AskRow] /\ overlapped' \in BOOLEAN
      /\ Unhandled' = Unhandled /\ Unhandled # {}
      /\ \A a \in Asks : asks'[a].at \in {"read", "answered"} =>
           asks'[a] = asks[a] /\ overlapped'
  BY SendKeeps DEF IInv
<1>2. Loading \in AuthState /\ Loading.status = "loading" /\ Wanted(Loading, r) = None
  BY DEF Loading, AuthState, Wanted
<1>3. ViewsOK' /\ auth' = Loading /\ route' = r /\ Used' \subseteq Used
  BY <1>1, <1>2, RenderKeeps DEF IInv
<1>4. Budget'
  BY <1>1, <1>3, BudgetKeeps DEF IInv
<1>5. ServerTypes' /\ JoinHolds'
  BY DEF IInv, ServerTypes, ClientTypes, JoinHolds, serverVars
<1>6. ClientTypes'
  BY <1>1, <1>2, <1>3 DEF IInv, ClientTypes
<1>7. AnswersHold'
  BY <1>1, <1>2, <1>3 DEF AnswersHold, Expects, Lists, Drops
<1>8. QED
  BY <1>3, <1>4, <1>5, <1>6, <1>7 DEF IInv

\* The hash changes.
LEMMA NavigateKeeps ==
  ASSUME IInv, NEW r \in Routes, Navigate(r)
  PROVE  IInv'
<1>1. /\ moves > 0 /\ moves' = moves - 1 /\ Render(auth, r) /\ auth \in AuthState
      /\ UNCHANGED <<serverVars, asks, joining, overlapped>>
  BY DEF Navigate, IInv, ClientTypes
<1>2. /\ ViewsOK' /\ auth' = auth /\ route' = r
      /\ Used' \subseteq Used \/ \E v \in Views : Used' \subseteq Used \cup {v}
  BY <1>1, RenderKeeps DEF IInv
<1>3. Unhandled' = Unhandled
  BY <1>1 DEF Unhandled
<1>4. Budget'
  <2>1. \E v \in Views : Used' \subseteq Used \cup {v}
    <3>1. 1 \in Views
      BY SessionAssumption DEF Views
    <3>2. QED
      BY <1>2, <3>1
  <2>2. QED
    BY <1>1, <1>3, <2>1, BudgetKeeps DEF IInv
<1>5. ServerTypes' /\ ClientTypes' /\ JoinHolds' /\ AnswersHold'
  BY <1>1, <1>2 DEF IInv, ServerTypes, ClientTypes, JoinHolds, AnswersHold,
                    Expects, Lists, Drops, serverVars
<1>6. QED
  BY <1>2, <1>4, <1>5 DEF IInv

\* The forms.
LEMMA FormsKeep ==
  ASSUME IInv, NEW w \in Workspaces, Submit(w) \/ JoinRefused(w)
  PROVE  IInv'
<1>1. /\ UNCHANGED <<serverVars, auth, asks, route, views, mounted, overlapped, moves>>
      /\ Unhandled' = Unhandled
      /\ joining[w] # "done"
      /\ \E x \in {"idle", "accepting", "creating"} : joining' = [joining EXCEPT ![w] = x]
  BY DEF Submit, JoinRefused, bounds, Unhandled
<1>2. ViewsOK' /\ Budget'
  BY <1>1, ViewsStay DEF IInv
<1>3. ServerTypes' /\ ClientTypes' /\ JoinHolds'
  BY <1>1 DEF IInv, ServerTypes, ClientTypes, JoinHolds, serverVars
<1>4. AnswersHold'
  <2>1. ASSUME NEW x \in Workspaces, Expects(x)' PROVE Expects(x)
    BY <1>1, <2>1 DEF Expects, IInv, ClientTypes, serverVars
  <2>2. QED
    BY <1>1, <2>1 DEF IInv, AnswersHold, Lists, Drops
<1>5. QED
  BY <1>2, <1>3, <1>4 DEF IInv

-----------------------------------------------------------------------------
(* The theorems.                                                           *)

\* Every step keeps the inductive invariant.
LEMMA InvStep == IInv /\ [Next]_vars => IInv'
<1> SUFFICES ASSUME IInv, [Next]_vars PROVE IInv'
  OBVIOUS
<1>1. ASSUME NEW w \in Workspaces, RemoveMember(w) \/ Join(w) PROVE IInv'
  BY <1>1, TablesKeep
<1>2. ASSUME NEW w \in Workspaces, Submit(w) \/ JoinRefused(w) PROVE IInv'
  BY <1>2, FormsKeep
<1>3. ASSUME NEW w \in Workspaces, Joined(w) PROVE IInv'
  <2>1. /\ SendAsk /\ Render(Loading, w) /\ UNCHANGED <<serverVars, moves>>
        /\ joining[w] = "joined" /\ joining' = [joining EXCEPT ![w] = "done"] /\ w \in Routes
    BY <1>3 DEF Joined, RefreshAndNavigate, bounds, Routes
  <2>2. QED
    BY <2>1, AskingKeeps
<1>4. ASSUME Refresh PROVE IInv'
  <2>1. /\ SendAsk /\ Render(Loading, route) /\ UNCHANGED <<serverVars, joining, moves>>
        /\ route \in Routes
    BY <1>4 DEF Refresh, bounds, IInv, ClientTypes
  <2>2. QED
    BY <2>1, AskingKeeps
<1>5. ASSUME NEW r \in Routes, Navigate(r) PROVE IInv'
  BY <1>5, NavigateKeeps
<1>6. ASSUME NEW v \in Views, Server(v) \/ Client(v) \/ \E s \in Stages : LoseSocket(v, s)
      PROVE  IInv'
  BY <1>6, ServerKeeps, ClientKeeps
<1>7. ASSUME NEW a \in Asks, Me(a) PROVE IInv'
  BY <1>7, ReadKeeps, AnsweredKeeps DEF Me
<1>8. ASSUME Suspend PROVE IInv'
  <2>1. /\ UNCHANGED <<members, invited, removed, auth, asks, route, joining, views,
                       mounted, overlapped, moves>>
        /\ Unhandled' = Unhandled
    BY <1>8 DEF Suspend, tabVars, Unhandled
  <2>2. ViewsOK' /\ Budget'
    BY <2>1, ViewsStay DEF IInv
  <2>3. QED
    BY <2>1, <2>2 DEF IInv, ServerTypes, ClientTypes, JoinHolds, AnswersHold, Expects, Lists, Drops
<1>9. CASE UNCHANGED vars
  <2>1. /\ UNCHANGED <<serverVars, auth, asks, route, joining, views, mounted, overlapped, moves>>
        /\ Unhandled' = Unhandled
    BY <1>9 DEF vars, tabVars, bounds, Unhandled
  <2>2. ViewsOK' /\ Budget'
    BY <2>1, ViewsStay DEF IInv
  <2>3. QED
    BY <2>1, <2>2 DEF IInv, ServerTypes, ClientTypes, JoinHolds, AnswersHold,
                      Expects, Lists, Drops, serverVars
<1>10. QED
  BY <1>1, <1>2, <1>3, <1>4, <1>5, <1>6, <1>7, <1>8, <1>9 DEF Next

\* The inductive invariant: types, one thing under way per view, a view left
\* for everything that may mount one, and what an accepted invitation is worth
\* in the tables, in the answers under way and on screen.
THEOREM Invariance == Spec => []IInv
<1>1. QED
  BY InvInit, InvStep, PTL DEF Spec

\* useWorkspace, WorkspaceSocket: whatever is lost, decided late or navigated
\* away from, no view has two preflights, timers or sockets that race each
\* other; a denied one is at rest, and an unmounted one never connects again.
THEOREM ChainsAreSingle == Spec => []OneChain
<1>1. IInv => OneChain
  BY DEF IInv, ViewsOK, ChainOK, MountOK, One, Unit, OneChain
<1>2. QED
  BY <1>1, Invariance, PTL

\* AuthProvider, handleMe: unless two requests overlap, what the screen says
\* after an invitation was accepted lists the workspace as joined and the
\* invitation as gone.
THEOREM AcceptedShows == Spec => []AcceptedIsListed
<1>1. IInv => AcceptedIsListed
  BY DEF IInv, AnswersHold, Expects, Lists, Drops, AcceptedIsListed
<1>2. QED
  BY <1>1, Invariance, PTL
==============================================================================
