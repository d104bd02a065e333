-------------------------------- MODULE Reads --------------------------------
(***************************************************************************)
(* What the Worker answers when it only reads: which route admits whom,    *)
(* the lists of workspaces, the overview of a manager with its fan-out to  *)
(* the WorkspaceDOs, the reminders of a member, and the refusal of a bad   *)
(* new workspace (src/worker/index.ts, workspace-store.ts).                *)
(*                                                                         *)
(* One request reads one directory: the rows of D1 in the order they were  *)
(* created.  How rows come and go while a request runs is Directory.       *)
(* An account and its address are one value; an address as a person types  *)
(* it may differ in case and spaces.                                       *)
(*                                                                         *)
(* A pure module: the assumptions at its end are evaluated over bounded    *)
(* directories by the runs whose module extends this one.                  *)
(***************************************************************************)
LOCAL INSTANCE Integers
LOCAL INSTANCE Sequences
LOCAL INSTANCE FiniteSets
LOCAL INSTANCE SequencesExt

Nobody == "nobody"
Seats  == {"intern", "mentor", "manager"}
Heads  == {"mentor", "manager"}

----------------------------------------------------------------------------
(* The rows a request finds.                                               *)

Rows(s) == {s[i] : i \in DOMAIN s}
NewestFirst(s) == Reverse(s)

IsDemo(d, w) == \E x \in Rows(d.spaces) : x.id = w /\ x.demo
IsReal(d, w) == \E x \in Rows(d.spaces) : x.id = w /\ ~x.demo
InMode(d, w, demo) == IF demo THEN IsDemo(d, w) ELSE IsReal(d, w)

\* The role of u in w for a request of this mode, or Nobody.
SeatOf(d, w, u, demo) ==
  LET found == {m \in Rows(d.members) : m.space = w /\ m.user = u}
  IN  IF found = {} \/ ~InMode(d, w, demo) THEN Nobody
      ELSE (CHOOSE m \in found : TRUE).role

----------------------------------------------------------------------------
(* Who is let in: a request has a mode, a caller (Nobody when identifying  *)
(* it failed), whether that is a platform administrator, a route and the   *)
(* workspace named in its path.                                            *)

LeadRoutes   == {"invitations", "members"}
MemberRoutes == LeadRoutes \cup
  {"ws", "snapshot", "agent", "reminders", "weekly", "attachments"}
AccountRoutes == {"me", "accept", "admin"}      \* absent in demo mode
OtherRoutes   == {"list", "create", "overview", "summary"}
AllRoutes == MemberRoutes \cup AccountRoutes \cup OtherRoutes

\* A demo list and a new demo workspace ask for no caller, so switching demo
\* mode off leaves them; a summary asks for none in either mode.
Anonymous(r) ==
  r.route = "summary" \/ (r.demo /\ r.route \in {"list", "create"})

MemberStatus(d, r) ==
  LET seat == SeatOf(d, r.space, r.who, r.demo)
  IN  CASE seat = Nobody                                -> 403
        [] r.demo /\ r.route = "invitations"            -> 404
        [] r.route \in LeadRoutes /\ seat \notin Heads  -> 403
        [] OTHER                                        -> 200

Status(d, r) ==
  CASE r.demo /\ r.route \in AccountRoutes -> 404
    [] r.route = "summary" -> IF InMode(d, r.space, r.demo) THEN 200 ELSE 404
    [] ~Anonymous(r) /\ r.who = Nobody     -> 401
    [] r.route = "admin"                   -> IF r.admin THEN 200 ELSE 403
    [] r.route \in MemberRoutes            -> MemberStatus(d, r)
    [] OTHER                               -> 200

----------------------------------------------------------------------------
(* Lists.                                                                  *)

\* GET /api/workspaces: in demo mode all of them, else the caller's own.
ListedSpaces(d, u, demo) ==
  LET Listed(x) == x.demo = demo /\ (demo \/ SeatOf(d, x.id, u, demo) # Nobody)
  IN  SelectSeq(NewestFirst(d.spaces), Listed)

\* The memberships of GET /api/me, oldest first.
OwnSeats(d, u) ==
  LET Own(m) == m.user = u /\ IsReal(d, m.space) IN SelectSeq(d.members, Own)

----------------------------------------------------------------------------
(* The overview.  A WorkspaceDO answers with its summary, or is silent.    *)

Silent == [tasks |-> {}, blockers |-> {}, updates |-> << >>, silent |-> TRUE]

Latest(updates) == IF updates = << >> THEN Nobody ELSE updates[Len(updates)]

Summary(store) ==
  [activeTasks  |-> Cardinality({t \in store.tasks : t.status # "DONE"}),
   openBlockers |-> Cardinality({b \in store.blockers : b.status = "OPEN"}),
   latestUpdate |-> Latest(store.updates)]

Zeros == [activeTasks |-> 0, openBlockers |-> 0, latestUpdate |-> Nobody]

FirstIntern(d, w) ==
  LET Intern(m) == m.space = w /\ m.role = "intern"
      interns == SelectSeq(d.members, Intern)
  IN  IF interns = << >> THEN Nobody ELSE interns[1].user

OverviewRow(d, w, stores) ==
  [space |-> w, intern |-> FirstIntern(d, w),
   stats |-> IF stores[w].silent THEN Zeros ELSE Summary(stores[w])]

Managed(d, u, demo) ==
  LET Manages(x) == x.demo = demo /\ SeatOf(d, x.id, u, demo) = "manager"
  IN  SelectSeq(NewestFirst(d.spaces), Manages)

RowsOf(d, spaces, stores) ==
  [i \in DOMAIN spaces |-> OverviewRow(d, spaces[i].id, stores)]

Overview(d, u, stores) == RowsOf(d, Managed(d, u, FALSE), stores)

\* A demo caller who manages nothing sees every demo workspace.
DemoOverview(d, u, stores) ==
  LET managed == Managed(d, u, TRUE)
      shown == IF managed = << >> THEN ListedSpaces(d, u, TRUE) ELSE managed
  IN  RowsOf(d, shown, stores)

OverviewFor(d, u, demo, stores) ==
  IF demo THEN DemoOverview(d, u, stores) ELSE Overview(d, u, stores)

\* The count the Overview tab of a workspace shows beside it.
UnresolvedCount(store) ==
  Cardinality({b \in store.blockers : b.status # "RESOLVED"})

----------------------------------------------------------------------------
(* Reminders: for a role, or for one holder of it.                         *)

Reminders(rows, u, role) ==
  LET Mine(r) == r.role = role /\ r.user \in {Nobody, u}
  IN  IF role = Nobody THEN << >> ELSE SelectSeq(NewestFirst(rows), Mine)

\* The rows after u acknowledges number i, or the rows as they were.
Acknowledged(rows, i, u, role) ==
  IF i \notin DOMAIN rows \/ rows[i].role # role THEN rows
  ELSE IF rows[i].user # Nobody /\ rows[i].user # u THEN rows
  ELSE [rows EXCEPT ![i].status = "ACKNOWLEDGED"]

----------------------------------------------------------------------------
(* A new workspace: a name, the creator's role and a person in each seat.  *)
(* A typed address has an account and may be in any case; Missing stands   *)
(* for a person without a name or without an address.                      *)

Missing == [account |-> Nobody, plain |-> FALSE]
Normalized(address) == address.account

CreateStatus(b, creator) ==
  CASE b.creatorRole \notin Heads                           -> 400
    [] ~b.named \/ \E s \in Seats : b.people[s] = Missing   -> 400
    [] Normalized(b.people[b.creatorRole]) # creator        -> 400
    [] OTHER                                                -> 201

\* Who is to hold or be offered which seat once it is created.
Seating(b, creator) ==
  {<<creator, b.creatorRole>>} \cup
  {<<Normalized(b.people[s]), s>> :
     s \in {t \in Seats : Normalized(b.people[t]) # creator}}

----------------------------------------------------------------------------
(* The bounds: two workspaces, two accounts, at most three memberships.    *)

TwoSpaces == {"w1", "w2"}
TwoAccounts == {"ana", "bo"}
ThreeAccounts == TwoAccounts \cup {"cy"}
SomeSpaces == {<<[id |-> "w1", demo |-> a], [id |-> "w2", demo |-> b]>> :
                   a, b \in BOOLEAN}
SomeSeats == [space : TwoSpaces, user : TwoAccounts, role : Seats]
OnceEach(s) == \A i, j \in DOMAIN s :
  i # j => <<s[i].space, s[i].user>> # <<s[j].space, s[j].user>>
SomeMembers ==
  {s \in UNION {[1..n -> SomeSeats] : n \in 0..2} : OnceEach(s)} \cup
  {s \in [1..3 -> [space : {"w1"}, user : ThreeAccounts, role : Seats]] : OnceEach(s)}
SomeDirectories ==
  {[spaces |-> s, members |-> m] : s \in SomeSpaces, m \in SomeMembers}
SomeRequests ==
  [demo : BOOLEAN, who : TwoAccounts \cup {Nobody}, admin : BOOLEAN, route : AllRoutes,
   space : TwoSpaces \cup {"w3"}]
Busy == [tasks |-> {[id |-> 1, status |-> "TODO"], [id |-> 2, status |-> "DONE"]},
               blockers |-> {[id |-> 1, status |-> "OPEN"],
                             [id |-> 2, status |-> "RESOLUTION_REQUESTED"]},
               updates |-> <<"ana", "bo">>, silent |-> FALSE]
AllBusy == [w \in TwoSpaces |-> Busy]
SomeStores == [TwoSpaces -> {Silent, Busy}]

\* A request that is answered about a workspace comes from a member of it, in
\* the mode the workspace is of, on every route but the summary, which stays
\* in its mode too (resolveRole and routeApi).
ASSUME MembersOnly ==
  \A d \in SomeDirectories, r \in SomeRequests :
    Status(d, r) = 200 /\ r.route \in MemberRoutes \cup {"summary"} =>
      /\ InMode(d, r.space, r.demo)
      /\ r.route # "summary" =>
           \E m \in Rows(d.members) :
             /\ m.space = r.space /\ m.user = r.who
             /\ r.route \in LeadRoutes => m.role \in Heads

\* What a list shows can be opened: every workspace an account is listed, or
\* manages in its overview, answers its snapshot (the two queries and
\* resolveRole agree).
ASSUME ListedCanBeOpened ==
  \A d \in SomeDirectories, u \in TwoAccounts :
    LET Opens(w) == Status(d, [demo |-> FALSE, who |-> u, admin |-> FALSE,
                               route |-> "snapshot", space |-> w]) = 200
        open == {w \in TwoSpaces : Opens(w)}
    IN  /\ {x.id : x \in Rows(ListedSpaces(d, u, FALSE))} = open
        /\ {m.space : m \in Rows(OwnSeats(d, u))} = open
        /\ \A x \in Rows(Managed(d, u, FALSE)) : Opens(x.id)

\* A WorkspaceDO that does not answer neither hides its workspace from the
\* overview nor changes the row of another (the try around each fetch).
ASSUME SilenceIsLocal ==
  \A d \in SomeDirectories, u \in TwoAccounts, demo \in BOOLEAN,
     stores \in SomeStores :
    LET asked == OverviewFor(d, u, demo, stores)
        whole == OverviewFor(d, u, demo, AllBusy)
    IN  /\ Len(asked) = Len(whole)
        /\ \A i \in DOMAIN asked :
             /\ asked[i].space = whole[i].space /\ asked[i].intern = whole[i].intern
             /\ ~stores[asked[i].space].silent => asked[i] = whole[i]

\* A demo caller never sees a real workspace, a real one never a demo one,
\* and the fallback shows all only to those who manage none.
ASSUME OverviewsStayApart ==
  \A d \in SomeDirectories, u \in TwoAccounts, demo \in BOOLEAN :
    LET shown == {r.space : r \in Rows(OverviewFor(d, u, demo, AllBusy))}
        own   == {w \in TwoSpaces : SeatOf(d, w, u, demo) = "manager"}
    IN  /\ \A w \in shown : InMode(d, w, demo)
        /\ own \subseteq shown
        /\ shown # own => demo /\ own = {}

\* The overview of a manager never counts more open blockers than the tab of
\* the workspace; it counts fewer while a resolution is requested.
ASSUME OverviewCountsFewer ==
  \A bs \in SUBSET [id : 1..2, status : {"OPEN", "RESOLUTION_REQUESTED", "RESOLVED"}] :
    LET store == [tasks |-> {}, blockers |-> bs, updates |-> << >>, silent |-> FALSE]
        asked == \E b \in bs : b.status = "RESOLUTION_REQUESTED"
    IN  IF asked THEN Summary(store).openBlockers < UnresolvedCount(store)
        ELSE Summary(store).openBlockers = UnresolvedCount(store)

\* A member can acknowledge exactly the open reminders it is shown
\* (listRemindersFor and acknowledgeReminder), and doing so twice is the same
\* as doing it once.
ASSUME ShownCanBeAcknowledged ==
  \A rows \in UNION {[1..n -> [id : {n}, role : Seats, user : {Nobody} \cup TwoAccounts,
                               status : {"OPEN"}]] : n \in 0..2},
     u \in TwoAccounts, role \in Seats :
    \A i \in 1..2 :
      LET after == Acknowledged(rows, i, u, role)
      IN  /\ after # rows <=> i \in DOMAIN rows /\ rows[i] \in Rows(Reminders(rows, u, role))
          /\ Acknowledged(after, i, u, role) = after

\* A workspace that may be created seats its creator as mentor or manager and
\* gives nobody a seat by the case of an address; it has a person for every
\* seat unless the creator's own address stands in two of them.
ASSUME CreationSeatsAll ==
  \A people \in [Seats -> [account : ThreeAccounts, plain : BOOLEAN] \cup {Missing}],
     role \in Seats, u \in TwoAccounts :
    LET b == [creatorRole |-> role, named |-> TRUE, people |-> people]
        seated == Seating(b, u)
        twice  == \E s \in Seats \ {role} : Normalized(people[s]) = u
    IN  CreateStatus(b, u) = 201 =>
          /\ {p[2] : p \in {q \in seated : q[1] = u}} = {role}
          /\ role \in Heads
          /\ {p[2] : p \in seated} = Seats <=> ~twice
=============================================================================
