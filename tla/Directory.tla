------------------------------ MODULE Directory ------------------------------
(***************************************************************************)
(* Who people are and where they belong: the D1 tables users, workspaces,  *)
(* memberships and workspace_invitations (migrations/0001, 0002) and the   *)
(* Worker's handlers that read and write them (src/worker/index.ts,        *)
(* production-identity.ts, invitations.ts, admin-routes.ts).               *)
(*                                                                         *)
(* A handler makes one D1 statement after another, each atomic, with no    *)
(* transaction around them except the batch of the demo creation.  Calls   *)
(* interleave between statements, and a call may die at any of them.       *)
(*                                                                         *)
(* A user row is known by its address, which is unique and never changes;  *)
(* a membership row by the call that inserted it.  A membership that was   *)
(* deleted keeps that call with no role, so that "was once a member" can   *)
(* be said.  Names, dates, slugs and the audit trail (recordAudit swallows *)
(* its errors and no handler reads the table) are left out, and so are     *)
(* requests whose body or method is refused before any statement.          *)
(***************************************************************************)
EXTENDS Protocol, FiniteSets

CONSTANTS
  Emails,       \* addresses, which stand for user ids as well
  Subjects,     \* Access identities
  AdminEmails,  \* ADMIN_EMAILS
  Workspaces,   \* workspace ids
  Slots,        \* HTTP requests
  Earlier,      \* stands for the requests of the past
  Seeds         \* what earlier requests left, and the requests to come

Replies == {200, 201, 400, 403, 404, 409, 500}

ASSUME DirectoryAssumption ==
  /\ AdminEmails \subseteq Emails
  /\ None \notin Emails \cup Subjects \cup Workspaces \cup Slots \cup {Earlier}
                  \cup Replies
  /\ Earlier \notin Slots

AccountStatuses    == {"ACTIVE", "SUSPENDED", "DISABLED"}
InvitationStatuses == {"PENDING", "ACCEPTED", "REVOKED", "EXPIRED"}
Leads              == {"mentor", "manager"}

\* An invitation is known by the call that inserted it and its role there.
InviteIds == (Slots \cup {Earlier}) \X Roles

UserRow == [subject : Subjects \cup {None}, status : AccountStatuses,
            admin : BOOLEAN]
MemberRow == [role : Roles \cup {None}, by : Slots \cup {Earlier, None}]
InviteRow == [ws : Workspaces, email : Emails, role : Roles,
              status : InvitationStatuses, lapsed : BOOLEAN]

\* An absent row is none of these.
ASSUME NoneAssumption ==
  None \notin UserRow /\ None \notin InviteRow /\ None \notin {"demo", "prod"}

\* A verified Access assertion, or with no subject the userId of /api/demo.
Caller == [subject : Subjects \cup {None}, email : Emails]
Request ==
       [op : {"me"}, by : Caller]
  \cup [op : {"open"}, by : Caller, ws : Workspaces]
  \cup [op : {"accept"}, by : Caller, invite : InviteIds]
  \cup [op : {"invite", "addMember", "repair"}, by : Caller,
        ws : Workspaces, email : Emails, role : Roles]
  \cup [op : {"revoke", "adminRevoke"}, by : Caller, ws : Workspaces,
        invite : InviteIds]
  \cup [op : {"remove"}, by : Caller, ws : Workspaces, email : Emails]
  \cup [op : {"status"}, by : Caller, email : Emails, to : AccountStatuses]
  \cup [op : {"create"}, by : Caller, role : Leads, team : [Roles -> Emails]]

AdminOps     == {"repair", "remove", "status", "adminRevoke"}
WorkspaceOps == {"open", "invite", "revoke", "addMember"}

ASSUME SeedsAssumption ==
  \A s \in Seeds :
    /\ s.users \in [Emails -> UserRow \cup {None}]
    /\ s.spaces \in [Workspaces -> {"demo", "prod", None}]
    /\ s.members \in [Workspaces -> [Emails -> MemberRow]]
    /\ s.invites \in [InviteIds -> InviteRow \cup {None}]
    /\ s.requests \subseteq Request
    \* the demo has no other routes
    /\ \A r \in s.requests :
         r.by.subject = None => r.op \in WorkspaceOps \cup {"create"}

\* The rows are such as earlier requests can have left: the keys of those to
\* come are free, rows belong to workspaces that exist, nobody is invited to
\* the demo, and accepting an invitation has made a member.
ASSUME HistoryAssumption ==
  \A s \in Seeds :
    /\ \A i \in InviteIds : s.invites[i] # None =>
         /\ i[1] = Earlier
         /\ s.spaces[s.invites[i].ws] = "prod"
         /\ s.invites[i].status = "ACCEPTED"
              => s.members[s.invites[i].ws][s.invites[i].email].by # None
    /\ \A w \in Workspaces, e \in Emails :
         LET m == s.members[w][e] IN
         /\ m.role # None => m.by # None
         /\ m.by # None => s.spaces[w] # None

VARIABLES
  users,    \* [Emails -> UserRow \cup {None}]
  spaces,   \* [Workspaces -> "demo", "prod" or None]
  members,  \* [Workspaces -> [Emails -> MemberRow]]
  invites,  \* [InviteIds -> InviteRow \cup {None}]
  granted,  \* <<workspace, address, role>> a lead or an admin ever gave
  calls     \* [Slots -> the request, the next statement, what was read]

tables == <<users, spaces, members, invites, granted>>
vars   == <<users, spaces, members, invites, granted, calls>>

NoMember  == [role |-> None, by |-> None]
Member(w, e)     == members[w][e].role # None
EverMember(w, e) == members[w][e].by # None

\* pc    the statement to make next, or "new", "done"
\* me    the caller's user row, once known
\* ws    the workspace the call works on
\* seen  what a SELECT found for a later statement
\* left  the roles of the team still to be placed
\* late  the invitation was settled when the request arrived
NewCall(r) ==
  [req |-> r, pc |-> "new", me |-> None, seen |-> None, left |-> {},
   ws |-> IF r.op \in WorkspaceOps \cup {"repair", "remove", "adminRevoke"}
            THEN r.ws ELSE None,
   late |-> FALSE, reply |-> None]

Init ==
  \E s \in Seeds :
    /\ users = s.users /\ spaces = s.spaces
    /\ members = s.members /\ invites = s.invites
    /\ granted =
         {g \in Workspaces \X Emails \X Roles :
            \/ members[g[1]][g[2]].role = g[3]
            \/ \E i \in InviteIds : /\ invites[i] # None
                                    /\ invites[i].ws = g[1]
                                    /\ invites[i].email = g[2]
                                    /\ invites[i].role = g[3]}
    /\ \E rs \in [Slots -> s.requests] :
         calls = [c \in Slots |-> NewCall(rs[c])]

At(c, pc) == calls[c].pc = pc
Req(c)    == calls[c].req
Op(c)     == Req(c).op
Demo(c)   == Req(c).by.subject = None
Go(c, pc) == calls' = [calls EXCEPT ![c].pc = pc]
Note(c, pc, seen) == calls' = [calls EXCEPT ![c].pc = pc, ![c].seen = seen]

\* The answer; 500 is a statement that failed or a Worker that stopped.
Reply(c, code) ==
  calls' = [calls EXCEPT ![c] = [@ EXCEPT !.pc = "done", !.reply = code,
                                          !.seen = None, !.left = {}]]

Fail(c) ==
  /\ calls[c].pc \notin {"new", "done"}
  /\ Reply(c, 500) /\ UNCHANGED tables

Grant(w, e, role) == granted' = granted \cup {<<w, e, role>>}

-----------------------------------------------------------------------------
(* requireProductionUser, resolveProductionUser, resolveCaller.            *)

Settled(i) == invites[i] # None /\ invites[i].status # "PENDING"

Arrive(c) ==
  /\ At(c, "new")
  /\ LET r == Req(c)
         start == IF ~Demo(c) THEN "bySubject"
                  ELSE IF r.op = "create" THEN "user" ELSE "role" IN
     calls' = [calls EXCEPT ![c].pc = start,
                 ![c].me = IF Demo(c) THEN r.by.email ELSE None,
                 ![c].left = IF Demo(c) /\ r.op = "create"
                               THEN Roles ELSE {},
                 ![c].late = "invite" \in DOMAIN r /\ Settled(r.invite)]
  /\ UNCHANGED tables

\* The first statement of a production handler once its caller is known.
First(op) ==
  CASE op \in WorkspaceOps -> "role"
    [] op = "accept"       -> "invitation"
    [] op = "create"       -> "space"
    [] op = "status"       -> "target"
    [] op = "repair"       -> "target"
    [] op = "remove"       -> "membership"
    [] op = "adminRevoke"  -> "invitation"

\* Signed in as user e, whose row showed this status.
Identified(c, e, status, admin) ==
  LET r == Req(c) IN
  IF \/ status # "ACTIVE"
     \/ r.op \in AdminOps /\ ~admin
  THEN Reply(c, 403)
  ELSE IF \/ r.op = "status" /\ r.email = e /\ r.to # "ACTIVE"
          \/ r.op = "create" /\ r.team[r.role] # e
  THEN Reply(c, 400)
  ELSE IF r.op = "me" THEN Reply(c, 200)
  ELSE calls' = [calls EXCEPT ![c].pc = First(r.op), ![c].me = e, ![c].seen = None]

HasSubject(e, s) == users[e] # None /\ users[e].subject = s

BySubject(c) ==
  LET s == Req(c).by.subject IN
  /\ At(c, "bySubject")
  /\ \/ \E e \in Emails :
          /\ HasSubject(e, s)
          /\ Identified(c, e, users[e].status, users[e].admin)
     \/ /\ \A e \in Emails : ~HasSubject(e, s)
        /\ Go(c, "byEmail")
  /\ UNCHANGED tables

\* Mutant: the row of the first query is used.
ByEmailForgets(c) ==
  LET e == Req(c).by.email IN
  /\ At(c, "byEmail")
  /\ Go(c, IF HasSubject(e, None) THEN "link" ELSE "taken")
  /\ UNCHANGED tables
ByEmail(c) ==
  LET e == Req(c).by.email IN
  /\ At(c, "byEmail")
  /\ IF HasSubject(e, None) THEN Note(c, "link", users[e]) ELSE Go(c, "taken")
  /\ UNCHANGED tables

\* The row found is written by its id, whoever has linked it since.
Link(c) ==
  LET e == Req(c).by.email
      s == Req(c).by.subject IN
  /\ At(c, "link")
  /\ IF \E d \in Emails \ {e} : HasSubject(d, s)
       THEN Reply(c, 500) /\ UNCHANGED users
       ELSE /\ users' = [users EXCEPT ![e].subject = s]
            /\ Identified(c, e, calls[c].seen.status, calls[c].seen.admin)
  /\ UNCHANGED <<spaces, members, invites, granted>>

Taken(c) ==
  LET e == Req(c).by.email IN
  /\ At(c, "taken")
  /\ IF users[e] # None /\ users[e].subject # None
       THEN Reply(c, 409) ELSE Go(c, "signUp")
  /\ UNCHANGED tables

\* INSERT INTO users, with its two unique indexes.
SignUp(c) ==
  LET e == Req(c).by.email
      s == Req(c).by.subject IN
  /\ At(c, "signUp")
  /\ IF users[e] # None \/ \E d \in Emails : HasSubject(d, s)
       THEN Reply(c, 500) /\ UNCHANGED users
       ELSE /\ users' = [users EXCEPT ![e] =
                 [subject |-> s, status |-> "ACTIVE", admin |-> e \in AdminEmails]]
            /\ Identified(c, e, "ACTIVE", e \in AdminEmails)
  /\ UNCHANGED <<spaces, members, invites, granted>>

-----------------------------------------------------------------------------
(* authWorkspace and resolveRole: the role of the caller, in a workspace   *)
(* of the mode the route belongs to.                                       *)

\* Mutant: is_demo is not compared.
RoleInAnyMode(c, w) == members[w][calls[c].me].role
RoleIn(c, w) ==
  IF spaces[w] = IF Demo(c) THEN "demo" ELSE "prod"
    THEN members[w][calls[c].me].role ELSE None

Role(c) ==
  LET role == RoleIn(c, calls[c].ws) IN
  /\ At(c, "role")
  /\ CASE role = None                             -> Reply(c, 403)
       [] Op(c) = "open" /\ role # None           -> Reply(c, 200)
       [] Op(c) \in {"invite", "revoke"} /\ Demo(c) -> Reply(c, 404)
       [] OTHER ->
            IF role \notin Leads THEN Reply(c, 403)
            ELSE Go(c, CASE Op(c) = "invite" -> "pending"
                         [] Op(c) = "revoke" -> "invitation"
                         [] OTHER            -> "user")
  /\ UNCHANGED tables

-----------------------------------------------------------------------------
(* createWorkspace and createInvitation share the loop over the team.      *)

\* The team is gone through in this order.
NextRole(left) ==
  IF "intern" \in left THEN "intern"
  ELSE IF "mentor" \in left THEN "mentor" ELSE "manager"

\* The address and the role the call is about to place or invite.
Named(c) ==
  IF Op(c) = "create"
    THEN LET role == NextRole(calls[c].left) IN
         [email |-> Req(c).team[role], role |-> role]
    ELSE [email |-> Req(c).email, role |-> Req(c).role]

\* What is left once that one is done.
Placed(c) == calls[c].left \ {NextRole(calls[c].left)}

\* The next of the team that is not the creator, or the answer.
\* Mutant: the loop ends at the creator.
OnwardsBreaks(c, left) ==
  IF left = {} \/ Req(c).team[NextRole(left)] = calls[c].me THEN Reply(c, 201)
  ELSE calls' = [calls EXCEPT ![c].pc = "person", ![c].left = left,
                              ![c].seen = None]
Onwards(c, left) ==
  LET rest == {role \in left : Req(c).team[role] # calls[c].me} IN
  IF rest = {} THEN Reply(c, 201)
  ELSE calls' = [calls EXCEPT ![c].pc = "person", ![c].left = rest,
                              ![c].seen = None]

\* INSERT INTO memberships fails on a second row of the same user.
InsertMember(c, w, e, role) ==
  /\ ~Member(w, e)
  /\ members' = [members EXCEPT ![w][e] = [role |-> role, by |-> c]]

Space(c) ==
  /\ At(c, "space")
  /\ \E w \in Workspaces :
       /\ spaces[w] = None
       /\ spaces' = [spaces EXCEPT ![w] = "prod"]
       /\ calls' = [calls EXCEPT ![c].pc = "creator", ![c].ws = w]
  /\ UNCHANGED <<users, members, invites, granted>>

Creator(c) ==
  LET w == calls[c].ws IN
  /\ At(c, "creator")
  /\ InsertMember(c, w, calls[c].me, Req(c).role)
  /\ Grant(w, calls[c].me, Req(c).role)
  /\ Onwards(c, Roles)
  /\ UNCHANGED <<users, spaces, invites>>

Person(c) ==
  /\ At(c, "person")
  /\ Go(c, IF users[Named(c).email] # None THEN "place" ELSE "pending")
  /\ UNCHANGED tables

Place(c) ==
  LET w == calls[c].ws
      p == Named(c) IN
  /\ At(c, "place")
  /\ \/ /\ InsertMember(c, w, p.email, p.role)
        /\ Grant(w, p.email, p.role)
        /\ Onwards(c, Placed(c))
     \/ /\ Member(w, p.email) /\ Reply(c, 500)
        /\ UNCHANGED <<members, granted>>
  /\ UNCHANGED <<users, spaces, invites>>

PendingFor(w, e) ==
  {i \in InviteIds : /\ invites[i] # None /\ invites[i].status = "PENDING"
                     /\ invites[i].ws = w /\ invites[i].email = e}

Pending(c) ==
  LET found == PendingFor(calls[c].ws, Named(c).email) IN
  /\ At(c, "pending")
  /\ \/ found = {} /\ Note(c, "issue", None)
     \/ \E i \in found : Note(c, "issue", i)
  /\ UNCHANGED tables

\* Mutant: a resend makes the row pending again.
ResentPending(row, role) ==
  [row EXCEPT !.role = role, !.lapsed = FALSE, !.status = "PENDING"]
Resent(row, role) == [row EXCEPT !.role = role, !.lapsed = FALSE]

\* A pending row is refreshed by its id, whatever became of it; or a new one.
Issue(c) ==
  LET w == calls[c].ws
      p == Named(c)
      i == calls[c].seen IN
  /\ At(c, "issue")
  /\ invites' = IF i # None
       THEN [invites EXCEPT ![i] = Resent(@, p.role)]
       ELSE [invites EXCEPT ![<<c, p.role>>] =
               [ws |-> w, email |-> p.email, role |-> p.role,
                status |-> "PENDING", lapsed |-> FALSE]]
  /\ Grant(w, p.email, p.role)
  /\ IF Op(c) = "create" THEN Onwards(c, Placed(c)) ELSE Reply(c, 201)
  /\ UNCHANGED <<users, spaces, members>>

-----------------------------------------------------------------------------
(* acceptInvitation and revokeInvitation.                                  *)

\* Time passes expires_at.
Lapse(i) ==
  /\ invites[i] # None /\ ~invites[i].lapsed
  /\ invites[i].status = "PENDING"
  /\ invites' = [invites EXCEPT ![i].lapsed = TRUE]
  /\ UNCHANGED <<users, spaces, members, granted, calls>>

\* Mutant: the invitation id is sufficient.
AnyAddress(c, row) == TRUE
Addressed(c, row)  == row.email = calls[c].me

Invitation(c) ==
  LET row == invites[Req(c).invite] IN
  /\ At(c, "invitation")
  /\ IF row = None THEN Reply(c, 404)
     ELSE IF Op(c) # "accept"
     THEN IF row.ws # calls[c].ws \/ row.status # "PENDING"
            THEN Reply(c, 404) ELSE Go(c, "revoke")
     ELSE IF ~Addressed(c, row) THEN Reply(c, 403)
     ELSE IF row.status # "PENDING" THEN Reply(c, 409)
     ELSE Note(c, IF row.lapsed THEN "expire" ELSE "memberYet", row)
  /\ UNCHANGED tables

SetStatus(c, status, code) ==
  /\ invites' = [invites EXCEPT ![Req(c).invite].status = status]
  /\ Reply(c, code)
  /\ UNCHANGED <<users, spaces, members, granted>>

Revoke(c) == At(c, "revoke") /\ SetStatus(c, "REVOKED", 200)
Expire(c) == At(c, "expire") /\ SetStatus(c, "EXPIRED", 409)
Accepted(c) == At(c, "accepted") /\ SetStatus(c, "ACCEPTED", 200)

\* Mutant: the query does not name the user.
AnyMember(w, e)     == \E d \in Emails : Member(w, d)
AlreadyMember(w, e) == Member(w, e)

MemberYet(c) ==
  LET row == calls[c].seen IN
  /\ At(c, "memberYet")
  /\ Go(c, IF AlreadyMember(row.ws, calls[c].me) THEN "accepted" ELSE "join")
  /\ UNCHANGED tables

Join(c) ==
  LET row == calls[c].seen IN
  /\ At(c, "join")
  /\ \/ InsertMember(c, row.ws, calls[c].me, row.role) /\ Go(c, "accepted")
     \/ Member(row.ws, calls[c].me) /\ Reply(c, 500) /\ UNCHANGED members
  /\ UNCHANGED <<users, spaces, invites, granted>>

-----------------------------------------------------------------------------
(* handleAddMember, and the demo's workspace creation: upsertUser, then    *)
(* the rows.                                                               *)

\* The users are there: the membership is looked up, or the batch runs.
AfterUser(c) ==
  IF Op(c) = "addMember" THEN Go(c, "lookup")
  ELSE IF Placed(c) = {} THEN Go(c, "batch")
  ELSE calls' = [calls EXCEPT ![c].pc = "user", ![c].left = Placed(c)]

User(c) ==
  /\ At(c, "user")
  /\ IF users[Named(c).email] # None THEN AfterUser(c) ELSE Go(c, "newUser")
  /\ UNCHANGED tables

NewUser(c) ==
  LET e == Named(c).email IN
  /\ At(c, "newUser")
  /\ IF users[e] # None THEN Reply(c, 500) /\ UNCHANGED users
     ELSE /\ users' = [users EXCEPT ![e] =
               [subject |-> None, status |-> "ACTIVE", admin |-> FALSE]]
          /\ AfterUser(c)
  /\ UNCHANGED <<spaces, members, invites, granted>>

Lookup(c) ==
  /\ At(c, "lookup")
  /\ IF Member(calls[c].ws, Req(c).email) THEN Reply(c, 409) ELSE Go(c, "add")
  /\ UNCHANGED tables

\* Also the insertion of repairMembership, which foreign keys may refuse.
Add(c) ==
  LET w == calls[c].ws
      r == Req(c) IN
  /\ At(c, "add")
  /\ \/ /\ spaces[w] # None
        /\ InsertMember(c, w, r.email, r.role)
        /\ Grant(w, r.email, r.role)
        /\ Reply(c, IF r.op = "repair" THEN 200 ELSE 201)
     \/ /\ Member(w, r.email) \/ spaces[w] = None
        /\ Reply(c, 500) /\ UNCHANGED <<members, granted>>
  /\ UNCHANGED <<users, spaces, invites>>

\* The rows of the team are all inserted, or with a repeated address none.
TeamFits(team) == \A r, q \in Roles : team[r] = team[q] => r = q

Batch(c) ==
  LET team == Req(c).team IN
  /\ At(c, "batch")
  /\ \E w \in Workspaces :
       /\ spaces[w] = None
       /\ IF TeamFits(team)
            THEN /\ spaces' = [spaces EXCEPT ![w] = "demo"]
                 /\ members' = [members EXCEPT ![w] =
                      [e \in Emails |->
                         IF \E r \in Roles : team[r] = e
                           THEN [role |-> CHOOSE r \in Roles : team[r] = e, by |-> c]
                           ELSE NoMember]]
                 /\ granted' = granted \cup {<<w, team[r], r>> : r \in Roles}
                 /\ calls' = [calls EXCEPT ![c] = [@ EXCEPT !.pc = "done",
                                !.reply = 201, !.left = {}, !.ws = w]]
            ELSE Reply(c, 500) /\ UNCHANGED <<spaces, members, granted>>
  /\ UNCHANGED <<users, invites>>

-----------------------------------------------------------------------------
(* The platform admin: repairMembership, removeMembership and the account  *)
(* status.                                                                 *)

\* getUserById of the target.
Target(c) ==
  /\ At(c, "target")
  /\ IF users[Req(c).email] = None THEN Reply(c, 404)
     ELSE Go(c, IF Op(c) = "status" THEN "setStatus" ELSE "membership")
  /\ UNCHANGED tables

SetAccountStatus(c) ==
  /\ At(c, "setStatus")
  /\ users' = [users EXCEPT ![Req(c).email].status = Req(c).to]
  /\ Reply(c, 200)
  /\ UNCHANGED <<spaces, members, invites, granted>>

Membership(c) ==
  LET m == members[calls[c].ws][Req(c).email] IN
  /\ At(c, "membership")
  /\ CASE Op(c) = "repair" /\ m.role = None        -> Go(c, "add")
       [] Op(c) = "repair" /\ m.role = Req(c).role -> Reply(c, 409)
       [] Op(c) = "repair" /\ m.role \notin {None, Req(c).role}
                                                   -> Note(c, "change", m.by)
       [] Op(c) = "remove" /\ m.role = None        -> Reply(c, 404)
       [] Op(c) = "remove" /\ m.role # None        ->
            Note(c, IF m.role = "manager" THEN "count" ELSE "delete", m.by)
  /\ UNCHANGED tables

Managers(w) == {e \in Emails : members[w][e].role = "manager"}

Count(c) ==
  /\ At(c, "count")
  /\ IF Cardinality(Managers(calls[c].ws)) <= 1
       THEN Reply(c, 409) ELSE Go(c, "delete")
  /\ UNCHANGED tables

\* The row read before, if it is still there.
SameRow(c) ==
  LET m == members[calls[c].ws][Req(c).email] IN
  m.role # None /\ m.by = calls[c].seen

Change(c) ==
  LET w == calls[c].ws
      r == Req(c) IN
  /\ At(c, "change")
  /\ members' = IF SameRow(c) THEN [members EXCEPT ![w][r.email].role = r.role]
                ELSE members
  /\ Grant(w, r.email, r.role)
  /\ Reply(c, 200)
  /\ UNCHANGED <<users, spaces, invites>>

Delete(c) ==
  /\ At(c, "delete")
  /\ members' = IF SameRow(c)
                  THEN [members EXCEPT ![calls[c].ws][Req(c).email].role = None]
                  ELSE members
  /\ Reply(c, 200)
  /\ UNCHANGED <<users, spaces, invites, granted>>

-----------------------------------------------------------------------------
Identify(c) == BySubject(c) \/ ByEmail(c) \/ Link(c) \/ Taken(c) \/ SignUp(c)
Answer(c)    == Invitation(c) \/ MemberYet(c) \/ Join(c) \/ Accepted(c)
               \/ Revoke(c) \/ Expire(c)
Create(c)   == Space(c) \/ Creator(c) \/ Person(c) \/ Place(c) \/ Pending(c)
               \/ Issue(c) \/ User(c) \/ NewUser(c) \/ Lookup(c) \/ Add(c)
               \/ Batch(c)
Operate(c)  == Target(c) \/ SetAccountStatus(c) \/ Membership(c) \/ Count(c)
               \/ Change(c) \/ Delete(c)

Step(c) == Arrive(c) \/ Identify(c) \/ Role(c) \/ Answer(c) \/ Create(c)
           \/ Operate(c) \/ Fail(c)
Next == (\E c \in Slots : Step(c)) \/ (\E i \in InviteIds : Lapse(i))

Spec == Init /\ [][Next]_vars

-----------------------------------------------------------------------------
(* Properties.                                                             *)

Statements ==
  {"bySubject", "byEmail", "link", "taken", "signUp", "role", "space",
   "creator", "person", "place", "pending", "issue", "invitation", "memberYet",
   "join", "accepted", "revoke", "expire", "user", "newUser", "lookup", "add",
   "batch", "target", "setStatus", "membership", "count", "change", "delete"}

Seen(pc) ==
  CASE pc = "link"  -> UserRow
    [] pc = "issue" -> InviteIds \cup {None}
    [] pc \in {"memberYet", "join", "accepted", "expire"} -> InviteRow
    [] pc \in {"count", "change", "delete"}              -> Slots \cup {Earlier}
    [] OTHER -> {None}

CallState(pc) ==
  [req : Request, pc : Statements \cup {"new", "done"}, seen : Seen(pc),
   me : Emails \cup {None}, ws : Workspaces \cup {None},
   left : SUBSET Roles, late : BOOLEAN,
   reply : Replies \cup {None}]

TypeOK ==
  /\ users \in [Emails -> UserRow \cup {None}]
  /\ spaces \in [Workspaces -> {"demo", "prod", None}]
  /\ members \in [Workspaces -> [Emails -> MemberRow]]
  /\ invites \in [InviteIds -> InviteRow \cup {None}]
  /\ granted \subseteq Workspaces \X Emails \X Roles
  /\ DOMAIN calls = Slots
  /\ \A c \in Slots : calls[c] \in CallState(calls[c].pc)

\* A member's role is one that a lead of the workspace, its creator or an
\* admin gave to that address: joining never yields more than was offered,
\* whatever is resent, revoked or accepted meanwhile (acceptInvitation).
GrantedRoles ==
  \A w \in Workspaces, e \in Emails :
    Member(w, e) => <<w, e, members[w][e].role>> \in granted

\* An invitation that counts as accepted has made its addressee a member,
\* although the two rows are written by separate statements and either may be
\* the last (acceptInvitation).
AcceptedIsMember ==
  \A i \in InviteIds :
    (invites[i] # None /\ invites[i].status = "ACCEPTED")
      => EverMember(invites[i].ws, invites[i].email)

\* An invitation that was accepted, revoked or expired before a request about
\* it arrived has no further effect: nothing makes it pending again and the
\* request is refused (acceptInvitation, revokeInvitation, createInvitation).
ReplayRejected ==
  \A c \in Slots : calls[c].late =>
    /\ calls[c].reply # 200
    /\ calls[c].pc \notin {"memberYet", "join", "accepted", "expire", "revoke"}

\* A demo request never touches the members or invitations of a production
\* workspace, nor the other way round; only an admin works on both (resolveRole).
About(row, w) == row # None /\ row.ws = w
ModesStayApart ==
  [][\A w \in Workspaces, c \in Slots :
       (/\ calls'[c] # calls[c] /\ spaces[w] # None
        /\ \/ members'[w] # members[w]
           \/ \E i \in InviteIds :
                /\ invites'[i] # invites[i]
                /\ About(invites[i], w) \/ About(invites'[i], w))
       => Op(c) \in AdminOps \/ (Demo(c) <=> spaces[w] = "demo")]_vars

\* A creation that answers 201 has placed or invited everybody it named, also
\* when somebody signs up between the look-up and the row (handleCreateWorkspace,
\* handleDemoCreateWorkspace).
CreationComplete ==
  \A c \in Slots : (Op(c) = "create" /\ calls[c].reply = 201) =>
    \A r \in Roles :
      \/ EverMember(calls[c].ws, Req(c).team[r])
      \/ \E i \in InviteIds : /\ About(invites[i], calls[c].ws)
                              /\ invites[i].email = Req(c).team[r]

\* "cannot remove the last manager" (removeMembership).
LastManagerStays ==
  [][\A w \in Workspaces : Managers(w) # {} => Managers(w)' # {}]_vars
=============================================================================
