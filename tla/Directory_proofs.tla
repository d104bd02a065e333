--------------------------- MODULE Directory_proofs ---------------------------
(***************************************************************************)
(* Proofs about Directory: for any number of people, workspaces, requests  *)
(* and any directory that earlier requests can have left, the tables keep  *)
(* their types, nobody holds a role that was not given to them, an         *)
(* accepted invitation made a member, a settled one has no further effect, *)
(* the demo and production do not touch each other's workspaces, and a     *)
(* creation that answers 201 has provided for everybody it named.          *)
(*                                                                         *)
(* The inductive invariant says what a request that stands between two     *)
(* statements may rely on: what it read is old, but rows keep their        *)
(* workspace and address, members were members, workspaces stay.           *)
(***************************************************************************)
EXTENDS Directory, TLAPS

InviteOps   == {"accept", "revoke", "adminRevoke"}
Identifying == {"bySubject", "byEmail", "link", "taken", "signUp"}
Accepting   == {"memberYet", "join", "accepted", "expire"}
Placing     == {"creator", "person", "place", "pending", "issue"}
Team        == {"person", "place", "pending", "issue"}

\* The operations that make this statement.
OpsAt(pc) ==
  CASE pc \in Identifying \cup {"new", "done"} ->
         {"me", "accept", "create"} \cup AdminOps \cup WorkspaceOps
    [] pc = "role"                              -> WorkspaceOps
    [] pc \in {"space", "creator", "person", "place", "batch"} -> {"create"}
    [] pc \in {"pending", "issue"}              -> {"create", "invite"}
    [] pc = "invitation"                        -> InviteOps
    [] pc \in Accepting                         -> {"accept"}
    [] pc = "revoke"                            -> {"revoke", "adminRevoke"}
    [] pc \in {"user", "newUser"}               -> {"create", "addMember"}
    [] pc = "lookup"                            -> {"addMember"}
    [] pc = "add"                               -> {"addMember", "repair"}
    [] pc = "target"                            -> {"status", "repair"}
    [] pc = "setStatus"                         -> {"status"}
    [] pc = "membership"                        -> {"repair", "remove"}
    [] pc = "change"                            -> {"repair"}
    [] pc \in {"count", "delete"}               -> {"remove"}

\* The caller and the user it works on are known, the workspace is there, the team is not done and
\* nothing is answered yet.
Grounded(c) ==
  LET x == calls[c] IN
  /\ x.pc # "done" => x.reply = None
  /\ x.pc = "link" => users[x.req.by.email] # None
  /\ x.pc = "setStatus" => users[x.req.email] # None
  /\ x.req.op \in OpsAt(x.pc)
  /\ x.pc \notin Identifying \cup {"new", "done"} => x.me \in Emails
  /\ x.req.op \in WorkspaceOps \cup {"repair", "remove"} => x.ws = x.req.ws
  /\ x.pc \in Placing => x.ws \in Workspaces /\ spaces[x.ws] # None
  /\ x.pc \in Team \cup {"user", "newUser"} /\ x.req.op = "create" => x.left # {}
  /\ x.req.by.subject = None =>
       x.req.op \in WorkspaceOps \cup {"create"} /\ x.pc \notin Identifying

\* The keys of the invitations a request may still insert are free.
KeysFree(c) ==
  LET x == calls[c] IN
  x.pc # "done" => \A r \in Roles : invites[<<c, r>>] # None =>
    x.req.op = "create" /\ x.pc \in Team /\ r \notin x.left

\* The invitation a request found to resend is still that address's.
ResendHolds(c) ==
  LET x == calls[c] IN
  x.pc = "issue" /\ x.seen # None =>
    /\ invites[x.seen] # None
    /\ invites[x.seen].ws = x.ws
    /\ invites[x.seen].email = Named(c).email

\* The invitation a request works on is the one it read, addressed to the
\* caller, and its role was granted; after the membership the caller is or
\* was a member.
AcceptHolds(c) ==
  LET x == calls[c] IN
  /\ x.pc \in Accepting =>
       /\ invites[x.req.invite] # None
       /\ invites[x.req.invite].ws = x.seen.ws
       /\ invites[x.req.invite].email = x.seen.email
       /\ x.seen.email = x.me
       /\ <<x.seen.ws, x.seen.email, x.seen.role>> \in granted
  /\ x.pc = "revoke" => invites[x.req.invite] # None
  /\ x.pc = "accepted" => EverMember(x.seen.ws, x.me)

\* A request that came late stays without effect.
LateHolds(c) ==
  LET x == calls[c] IN
  x.late => /\ x.req.op \in InviteOps
            /\ Settled(x.req.invite)
            /\ x.reply # 200
            /\ x.pc \notin Accepting \cup {"revoke"}

CallOK(c) == Grounded(c) /\ KeysFree(c) /\ ResendHolds(c) /\ AcceptHolds(c)
             /\ LateHolds(c)

\* Rows belong to workspaces that exist, and every role was granted.
RowsOK ==
  /\ \A w \in Workspaces, e \in Emails :
       /\ Member(w, e) => EverMember(w, e)
       /\ EverMember(w, e) => spaces[w] # None
  /\ \A i \in InviteIds : invites[i] # None =>
       /\ spaces[invites[i].ws] # None
       /\ <<invites[i].ws, invites[i].email, invites[i].role>> \in granted

IInv == TypeOK /\ RowsOK /\ GrantedRoles /\ AcceptedIsMember
        /\ \A c \in Slots : CallOK(c)

-----------------------------------------------------------------------------
(* A step changes one call; the rest of the proof needs only this form.    *)

Row(c, pc, me, ws, seen, left, late, reply) ==
  [req |-> calls[c].req, pc |-> pc, me |-> me, seen |-> seen, left |-> left,
   ws |-> ws, late |-> late, reply |-> reply]

Becomes(c, x) ==
  /\ DOMAIN calls' = Slots
  /\ calls'[c] = x
  /\ \A d \in Slots \ {c} : calls'[d] = calls[d]

\* The call of c is a record of its fields.
LEMMA CallFields ==
  ASSUME TypeOK, NEW c \in Slots
  PROVE  LET x == calls[c] IN
         /\ x = Row(c, x.pc, x.me, x.ws, x.seen, x.left, x.late, x.reply)
         /\ x.req \in Request
         /\ x.pc \in Statements \cup {"new", "done"}
         /\ x.me \in Emails \cup {None}
         /\ x.ws \in Workspaces \cup {None}
         /\ x.seen \in Seen(x.pc)
         /\ x.left \in SUBSET Roles
         /\ x.late \in BOOLEAN
         /\ x.reply \in Replies \cup {None}
<1>1. calls[c] \in CallState(calls[c].pc)
  BY DEF TypeOK
<1>2. QED
  BY <1>1 DEF CallState, Row

\* Go changes the statement only.
LEMMA GoForm ==
  ASSUME TypeOK, NEW c \in Slots, NEW pc, Go(c, pc)
  PROVE  LET x == calls[c] IN
         Becomes(c, Row(c, pc, x.me, x.ws, x.seen, x.left, x.late, x.reply))
<1>1. calls[c] = Row(c, calls[c].pc, calls[c].me, calls[c].ws, calls[c].seen,
                     calls[c].left, calls[c].late, calls[c].reply)
  BY CallFields
<1>2. DOMAIN calls = Slots
  BY DEF TypeOK
<1>3. QED
  BY <1>1, <1>2 DEF Go, Becomes, Row

\* Note also remembers what was read.
LEMMA NoteForm ==
  ASSUME TypeOK, NEW c \in Slots, NEW pc, NEW seen, Note(c, pc, seen)
  PROVE  LET x == calls[c] IN
         Becomes(c, Row(c, pc, x.me, x.ws, seen, x.left, x.late, x.reply))
<1>1. calls[c] = Row(c, calls[c].pc, calls[c].me, calls[c].ws, calls[c].seen,
                     calls[c].left, calls[c].late, calls[c].reply)
  BY CallFields
<1>2. DOMAIN calls = Slots
  BY DEF TypeOK
<1>3. QED
  BY <1>1, <1>2 DEF Note, Becomes, Row

\* Reply ends the call.
LEMMA ReplyForm ==
  ASSUME TypeOK, NEW c \in Slots, NEW code, Reply(c, code)
  PROVE  LET x == calls[c] IN
         Becomes(c, Row(c, "done", x.me, x.ws, None, {}, x.late, code))
<1>1. calls[c] = Row(c, calls[c].pc, calls[c].me, calls[c].ws, calls[c].seen,
                     calls[c].left, calls[c].late, calls[c].reply)
  BY CallFields
<1>2. DOMAIN calls = Slots
  BY DEF TypeOK
<1>3. QED
  BY <1>1, <1>2 DEF Reply, Becomes, Row

-----------------------------------------------------------------------------
(* What every step leaves as it was, and that the other calls keep what    *)
(* they rely on.                                                           *)

\* What was granted, joined, created or settled stays so, users stay, and an
\* invitation keeps its workspace and its address.
Stable ==
  /\ \A e \in Emails : users[e] # None => users'[e] # None
  /\ granted \subseteq granted'
  /\ \A w \in Workspaces, e \in Emails : EverMember(w, e) => EverMember(w, e)'
  /\ \A w \in Workspaces : spaces[w] # None => spaces'[w] # None
  /\ \A i \in InviteIds : invites[i] # None =>
       /\ invites'[i] # None
       /\ invites'[i].ws = invites[i].ws
       /\ invites'[i].email = invites[i].email
       /\ invites[i].status # "PENDING" => invites'[i].status # "PENDING"

\* No invitation is inserted under a key of d.
NoNewKey(d) == \A r \in Roles : invites'[<<d, r>>] # None => invites[<<d, r>>] # None

TablesOK ==
  /\ users \in [Emails -> UserRow \cup {None}]
  /\ spaces \in [Workspaces -> {"demo", "prod", None}]
  /\ members \in [Workspaces -> [Emails -> MemberRow]]
  /\ invites \in [InviteIds -> InviteRow \cup {None}]
  /\ granted \subseteq Workspaces \X Emails \X Roles
  /\ RowsOK /\ GrantedRoles /\ AcceptedIsMember

\* What a request of each kind carries.
LEMMA InviteNamed ==
  ASSUME NEW r \in Request
  PROVE  /\ r.op \in {"me", "accept", "create"} \cup AdminOps \cup WorkspaceOps
         /\ r.by \in Caller
         /\ r.op \in InviteOps => r.invite \in InviteIds
         /\ "invite" \in DOMAIN r <=> r.op \in InviteOps
         /\ r.op \in WorkspaceOps \cup {"repair", "remove", "adminRevoke"} => r.ws \in Workspaces
         /\ r.op \in {"invite", "addMember", "repair"} => r.email \in Emails /\ r.role \in Roles
         /\ r.op \in {"remove", "status"} => r.email \in Emails
         /\ r.op = "status" => r.to \in AccountStatuses
         /\ r.op = "create" => r.role \in Leads /\ r.team \in [Roles -> Emails]
BY DEF Request, InviteOps, AdminOps, WorkspaceOps

\* A call that does not move keeps its part of the invariant.
LEMMA OthersKeep ==
  ASSUME IInv, Stable, NEW d \in Slots, NoNewKey(d), calls'[d] = calls[d]
  PROVE  CallOK(d)'
<1> DEFINE x == calls[d]
<1>1. /\ x.req \in Request /\ x.pc \in Statements \cup {"new", "done"}
      /\ x.seen \in Seen(x.pc) /\ x.me \in Emails \cup {None}
  BY CallFields DEF IInv
<1>2. CallOK(d)
  BY DEF IInv
<1>3. Grounded(d)'
  <2>1. x.req.by.email \in Emails
    BY <1>1, InviteNamed DEF Caller
  <2>2. x.pc = "setStatus" => x.req.email \in Emails
    BY <1>1, <1>2, InviteNamed DEF CallOK, Grounded, OpsAt, Identifying, Accepting
  <2>3. QED
    BY <1>2, <2>1, <2>2 DEF CallOK, Grounded, Stable
<1>4. KeysFree(d)'
  BY <1>2 DEF CallOK, KeysFree, NoNewKey
<1>5. ResendHolds(d)'
  <2>1. CASE x.pc = "issue" /\ x.seen # None
    <3>1. x.seen \in InviteIds
      BY <2>1, <1>1 DEF Seen
    <3>2. invites[x.seen] # None /\ invites[x.seen].ws = x.ws
          /\ invites[x.seen].email = Named(d).email
      BY <2>1, <1>2 DEF CallOK, ResendHolds
    <3>3. Named(d)' = Named(d)
      BY DEF Named, Op, Req
    <3>4. QED
      BY <3>1, <3>2, <3>3 DEF Stable, ResendHolds
  <2>2. QED
    BY <2>1 DEF ResendHolds
<1>6. AcceptHolds(d)'
  <2>1. CASE x.pc \in Accepting
    <3>1. x.seen \in InviteRow
      BY <2>1, <1>1 DEF Accepting, Seen
    <3>2. x.req.invite \in InviteIds
      <4>1. x.req.op \in InviteOps
        BY <2>1, <1>2 DEF CallOK, Grounded, OpsAt, Accepting, InviteOps, Identifying, Placing
      <4>2. QED
        BY <4>1, <1>1, InviteNamed
    <3>3. x.me \in Emails
      BY <2>1, <1>2 DEF CallOK, Grounded, Accepting, Identifying
    <3>4. QED
      BY <2>1, <3>1, <3>2, <3>3, <1>2 DEF CallOK, AcceptHolds, Stable, Accepting, InviteRow
  <2>2. CASE x.pc = "revoke"
    <3>1. x.req.invite \in InviteIds
      <4>1. x.req.op \in InviteOps
        BY <2>2, <1>2 DEF CallOK, Grounded, OpsAt, Accepting, InviteOps, Identifying, Placing
      <4>2. QED
        BY <4>1, <1>1, InviteNamed
    <3>2. QED
      BY <2>2, <3>1, <1>2 DEF CallOK, AcceptHolds, Stable, Accepting
  <2>3. QED
    BY <2>1, <2>2 DEF AcceptHolds, Accepting
<1>7. LateHolds(d)'
  <2>1. CASE x.late
    <3>1. x.req.op \in InviteOps /\ Settled(x.req.invite)
      BY <2>1, <1>2 DEF CallOK, LateHolds
    <3>2. x.req.invite \in InviteIds
      BY <3>1, <1>1, InviteNamed
    <3>3. Settled(x.req.invite)'
      BY <3>1, <3>2 DEF Settled, Stable
    <3>4. QED
      BY <2>1, <3>3, <1>2 DEF CallOK, LateHolds
  <2>2. QED
    BY <2>1 DEF LateHolds
<1>8. QED
  BY <1>3, <1>4, <1>5, <1>6, <1>7 DEF CallOK

\* A step of c keeps the invariant when it keeps the tables and c's own part.
LEMMA Assemble ==
  ASSUME IInv, Stable, TablesOK', NEW c \in Slots, NEW x, Becomes(c, x),
         x \in CallState(x.pc), CallOK(c)',
         \A d \in Slots \ {c} : NoNewKey(d)
  PROVE  IInv'
<1>1. TypeOK'
  <2>1. \A d \in Slots : calls'[d] \in CallState(calls'[d].pc)
    BY DEF Becomes, IInv, TypeOK
  <2>2. \A d \in Slots : (calls[d] \in CallState(calls[d].pc))'
    BY <2>1 DEF CallState, Seen, UserRow, InviteRow, Request, Caller, Statements
  <2>3. QED
    BY <2>2 DEF TypeOK, TablesOK, Becomes
<1>2. \A d \in Slots : CallOK(d)'
  <2> TAKE d \in Slots
  <2>1. CASE d = c
    BY <2>1
  <2>2. CASE d # c
    <3>1. calls'[d] = calls[d] /\ NoNewKey(d)
      BY <2>2 DEF Becomes
    <3>2. QED
      BY <3>1, OthersKeep
  <2>3. QED
    BY <2>1, <2>2
<1>3. QED
  BY <1>1, <1>2 DEF IInv, TablesOK

\* The same for a step that changes the call only.
LEMMA CallOnly ==
  ASSUME IInv, UNCHANGED tables, NEW c \in Slots, NEW x, Becomes(c, x),
         x \in CallState(x.pc), CallOK(c)'
  PROVE  IInv'
<1>1. Stable /\ \A d \in Slots : NoNewKey(d)
  BY DEF Stable, NoNewKey, tables, EverMember
<1>2. TablesOK'
  BY DEF IInv, TypeOK, TablesOK, RowsOK, GrantedRoles, AcceptedIsMember, Member,
         EverMember, tables
<1>3. QED
  BY <1>1, <1>2, Assemble

\* An answer keeps the part of the call, unless it grants a late request.
LEMMA ReplyKeeps ==
  ASSUME IInv, Stable, NEW c \in Slots,
         NEW code \in Replies,
         Reply(c, code), code = 200 => ~calls[c].late
  PROVE  /\ CallOK(c)'
         /\ \E x : Becomes(c, x) /\ x \in CallState(x.pc)
<1> DEFINE x == calls[c]
           y == Row(c, "done", x.me, x.ws, None, {}, x.late, code)
<1>1. Becomes(c, y)
  BY ReplyForm DEF IInv
<1>2. /\ x.req \in Request /\ x.me \in Emails \cup {None}
      /\ x.ws \in Workspaces \cup {None} /\ x.late \in BOOLEAN
  BY CallFields DEF IInv
<1>3. y \in CallState("done") /\ y.pc = "done"
  BY <1>2 DEF Row, CallState, Seen
<1>4. CallOK(c)
  BY DEF IInv
<1>5. calls'[c] = y
  BY <1>1 DEF Becomes
<1>6. Grounded(c)'
  <2>1. x.req.op \in OpsAt("done")
    BY <1>2, InviteNamed DEF OpsAt, Identifying, Accepting
  <2>2. QED
    BY <2>1, <1>4, <1>5 DEF CallOK, Grounded, Row, Placing, Team, Identifying
<1>7. KeysFree(c)' /\ ResendHolds(c)' /\ AcceptHolds(c)'
  BY <1>5 DEF KeysFree, ResendHolds, AcceptHolds, Row, Accepting
<1>8. LateHolds(c)'
  <2>1. CASE x.late
    <3>1. x.req.op \in InviteOps /\ Settled(x.req.invite)
      BY <2>1, <1>4 DEF CallOK, LateHolds
    <3>2. x.req.invite \in InviteIds
      BY <3>1, <1>2, InviteNamed
    <3>3. invites'[x.req.invite] # None /\ invites'[x.req.invite].status # "PENDING"
      BY <3>1, <3>2 DEF Settled, Stable
    <3>4. QED
      BY <2>1, <3>1, <3>3, <1>5 DEF LateHolds, Settled, Row, Accepting
  <2>2. QED
    BY <2>1, <1>5 DEF LateHolds, Row
<1>9. QED
  BY <1>1, <1>3, <1>6, <1>7, <1>8 DEF CallOK

\* An answer that changes no table keeps the invariant.
LEMMA ReplyOnly ==
  ASSUME IInv, UNCHANGED tables, NEW c \in Slots,
         NEW code \in Replies,
         Reply(c, code), code = 200 => ~calls[c].late
  PROVE  IInv'
<1>1. Stable
  BY DEF Stable, tables, EverMember
<1>2. QED
  BY <1>1, ReplyKeeps, CallOnly

\* The statements that no other request can make pointless.
Plain == Statements \ (Accepting \cup {"revoke", "issue"})

\* A call that goes on to a plain statement keeps its part.
LEMMA MoveKeeps ==
  ASSUME IInv, Stable, NEW c \in Slots, NEW pc \in Plain,
         NEW me \in Emails \cup {None}, NEW ws \in Workspaces \cup {None},
         NEW seen \in Seen(pc), NEW left \in SUBSET Roles, NEW late \in BOOLEAN,
         Becomes(c, Row(c, pc, me, ws, seen, left, late, calls[c].reply)),
         calls[c].pc # "done",
         \/ late => calls[c].late
         \/ Req(c).op \in InviteOps /\ Settled(Req(c).invite),
         Req(c).op \in OpsAt(pc),
         pc \notin Identifying => me \in Emails,
         Req(c).op # "create" => ws = calls[c].ws,
         pc \in Placing => ws \in Workspaces /\ spaces'[ws] # None,
         pc \in Team \cup {"user", "newUser"} /\ Req(c).op = "create" => left # {},
         Req(c).by.subject = None => pc \notin Identifying,
         pc = "link" => users'[Req(c).by.email] # None,
         pc = "setStatus" => users'[Req(c).email] # None,
         \A r \in Roles : invites'[<<c, r>>] # None =>
           Req(c).op = "create" /\ pc \in Team /\ r \notin left
  PROVE  CallOK(c)' /\ \E y : Becomes(c, y) /\ y \in CallState(y.pc)
<1> DEFINE x == calls[c]
           y == Row(c, pc, me, ws, seen, left, late, x.reply)
<1>1. /\ x.req \in Request /\ x.late \in BOOLEAN
      /\ x.reply \in Replies \cup {None}
  BY CallFields DEF IInv
<1>2. y \in CallState(pc) /\ y.pc = pc
  BY <1>1 DEF Row, CallState, Plain
<1>3. CallOK(c)
  BY DEF IInv
<1>4. calls'[c] = y
  BY DEF Becomes
<1>5. Grounded(c)'
  <2>1. x.req.op \in WorkspaceOps \cup {"repair", "remove"} => x.req.op # "create"
    BY DEF WorkspaceOps
  <2>2. QED
    BY <2>1, <1>3, <1>4 DEF CallOK, Grounded, Row, Req
<1>6. KeysFree(c)'
  BY <1>4 DEF KeysFree, Row, Req
<1>7. ResendHolds(c)' /\ AcceptHolds(c)'
  BY <1>4 DEF ResendHolds, AcceptHolds, Row, Plain, Accepting
<1>8. LateHolds(c)'
  <2>1. CASE late
    <3>1. x.req.op \in InviteOps /\ Settled(x.req.invite) /\ x.reply # 200
      <4>1. x.reply # 200
        BY <1>3, DirectoryAssumption DEF CallOK, Grounded, Replies
      <4>2. QED
        BY <2>1, <4>1, <1>3 DEF CallOK, LateHolds, Req
    <3>2. x.req.invite \in InviteIds
      BY <3>1, <1>1, InviteNamed
    <3>3. invites'[x.req.invite] # None /\ invites'[x.req.invite].status # "PENDING"
      BY <3>1, <3>2 DEF Settled, Stable
    <3>4. QED
      BY <2>1, <3>1, <3>3, <1>4 DEF LateHolds, Settled, Row, Plain
  <2>2. CASE ~late
    BY <2>2, <1>4 DEF LateHolds, Row
  <2>3. QED
    BY <2>1, <2>2
<1>9. QED
  BY <1>2, <1>5, <1>6, <1>7, <1>8 DEF CallOK

\* The keys a moving call leaves free.
LEMMA KeysStayFree ==
  ASSUME IInv, NEW c \in Slots, calls[c].pc # "done", NoNewKey(c),
         NEW pc, NEW left,
         calls[c].pc \in Team /\ Req(c).op = "create" => pc \in Team /\ left \subseteq calls[c].left
  PROVE  \A r \in Roles : invites'[<<c, r>>] # None =>
           Req(c).op = "create" /\ pc \in Team /\ r \notin left
<1>1. KeysFree(c)
  BY DEF IInv, CallOK
<1>2. QED
  BY <1>1 DEF KeysFree, NoNewKey, Req

\* Go to a plain statement that changes no table.
LEMMA GoOnly ==
  ASSUME IInv, UNCHANGED tables, NEW c \in Slots, NEW pc \in Plain, Go(c, pc),
         calls[c].pc # "done",
         calls[c].seen \in Seen(pc),
         Req(c).op \in OpsAt(pc),
         pc \notin Identifying => calls[c].me \in Emails,
         pc \in Placing => calls[c].pc \in Placing,
         pc \in Team \cup {"user", "newUser"} /\ Req(c).op = "create" => calls[c].left # {},
         Req(c).by.subject = None => pc \notin Identifying,
         pc = "link" => users[Req(c).by.email] # None,
         pc = "setStatus" => users[Req(c).email] # None,
         calls[c].pc \in Team /\ Req(c).op = "create" => pc \in Team
  PROVE  IInv'
<1> DEFINE x == calls[c]
<1>1. /\ x.me \in Emails \cup {None} /\ x.ws \in Workspaces \cup {None}
      /\ x.left \in SUBSET Roles /\ x.late \in BOOLEAN
  BY CallFields DEF IInv
<1>2. Becomes(c, Row(c, pc, x.me, x.ws, x.seen, x.left, x.late, x.reply))
  BY GoForm DEF IInv
<1>3. Stable /\ NoNewKey(c)
  BY DEF Stable, tables, EverMember, NoNewKey
<1>4. \A r \in Roles : invites'[<<c, r>>] # None =>
        Req(c).op = "create" /\ pc \in Team /\ r \notin x.left
  BY <1>3, KeysStayFree
<1>5. pc \in Placing => x.ws \in Workspaces /\ spaces'[x.ws] # None
  BY DEF IInv, CallOK, Grounded, tables
<1>6. CallOK(c)' /\ \E y : Becomes(c, y) /\ y \in CallState(y.pc)
  BY <1>1, <1>2, <1>3, <1>4, <1>5, MoveKeeps DEF tables
<1>7. QED
  BY <1>6, CallOnly

-----------------------------------------------------------------------------
(* The steps.                                                              *)

\* What a call of a known statement is about.
LEMMA AtStatement ==
  ASSUME IInv, NEW c \in Slots, NEW pc, At(c, pc), pc # "done"
  PROVE  LET x == calls[c] IN
         /\ x.req \in Request /\ x.pc = pc /\ x.seen \in Seen(pc)
         /\ x.me \in Emails \cup {None} /\ x.ws \in Workspaces \cup {None}
         /\ x.left \in SUBSET Roles /\ x.late \in BOOLEAN
         /\ x.req.op \in OpsAt(pc) /\ x.reply = None
         /\ pc \notin Identifying \cup {"new"} => x.me \in Emails
         /\ CallOK(c)
<1>1. CallOK(c)
  BY DEF IInv
<1>2. QED
  BY <1>1, CallFields DEF IInv, CallOK, Grounded, At

\* A request comes in.
LEMMA ArriveKeeps ==
  ASSUME IInv, NEW c \in Slots, Arrive(c)
  PROVE  IInv'
<1> DEFINE x == calls[c]
           pc == IF ~Demo(c) THEN "bySubject"
                 ELSE IF x.req.op = "create" THEN "user" ELSE "role"
           me == IF Demo(c) THEN x.req.by.email ELSE None
           left == IF Demo(c) /\ x.req.op = "create" THEN Roles ELSE {}
           late == "invite" \in DOMAIN x.req /\ Settled(x.req.invite)
<1>1. /\ At(c, "new") /\ UNCHANGED tables
      /\ calls' = [calls EXCEPT ![c].pc = pc, ![c].me = me, ![c].left = left,
                                ![c].late = late]
  BY DEF Arrive, Req
<1>2. /\ x.req \in Request /\ x.pc = "new" /\ x.seen = None
      /\ x.ws \in Workspaces \cup {None} /\ CallOK(c)
      /\ x.req.op \in OpsAt("new")
  BY <1>1, AtStatement DEF Seen
<1>3. /\ x.req.by \in Caller
      /\ late => x.req.op \in InviteOps /\ Settled(x.req.invite)
  BY <1>2, InviteNamed
<1>4. Becomes(c, Row(c, pc, me, x.ws, None, left, late, x.reply))
  <2>1. x = Row(c, x.pc, x.me, x.ws, x.seen, x.left, x.late, x.reply)
    BY CallFields DEF IInv
  <2>2. DOMAIN calls = Slots
    BY DEF IInv, TypeOK
  <2>3. QED
    BY <1>1, <1>2, <2>1, <2>2 DEF Becomes, Row
<1>5. /\ pc \in Plain /\ None \in Seen(pc)
      /\ me \in Emails \cup {None} /\ left \in SUBSET Roles /\ late \in BOOLEAN
      /\ pc \notin Placing \cup Team \cup {"link", "setStatus"}
  BY <1>3 DEF Plain, Statements, Seen, Accepting, Placing, Team, Caller
<1>6. /\ x.req.op \in OpsAt(pc)
      /\ pc \notin Identifying => me \in Emails
      /\ x.req.by.subject = None => pc \notin Identifying
  <2>1. x.req.op \in {"me", "accept", "create"} \cup AdminOps \cup WorkspaceOps
    BY <1>2, InviteNamed
  <2>2. CASE Demo(c)
    <3>1. x.req.op \in WorkspaceOps \cup {"create"}
      BY <2>2, <1>2 DEF Demo, Req, CallOK, Grounded
    <3>2. QED
      BY <2>2, <3>1, <1>3 DEF OpsAt, Identifying, Accepting, Caller
  <2>3. CASE ~Demo(c)
    BY <2>3, <2>1 DEF OpsAt, Identifying, Accepting, Demo, Req
  <2>4. QED
    BY <2>2, <2>3
<1>7. pc \in {"user", "newUser"} /\ x.req.op = "create" => left # {}
  BY DEF Roles
<1>8. Stable /\ NoNewKey(c)
  BY <1>1 DEF Stable, NoNewKey, tables, EverMember
<1>9. \A r \in Roles : invites'[<<c, r>>] # None =>
        Req(c).op = "create" /\ pc \in Team /\ r \notin left
  BY <1>2, <1>8, KeysStayFree DEF Team
<1>10. CallOK(c)' /\ \E y : Becomes(c, y) /\ y \in CallState(y.pc)
  <2> HIDE DEF pc, me, left, late
  <2> QED
    BY <1>2, <1>3, <1>4, <1>5, <1>6, <1>7, <1>8, <1>9, MoveKeeps DEF Req
<1>11. QED
  BY <1>1, <1>10, CallOnly

\* Once the caller is known: an answer, or the first statement of the handler.
LEMMA IdentifiedKeeps ==
  ASSUME IInv, Stable, TablesOK', \A d \in Slots : NoNewKey(d),
         NEW c \in Slots, NEW pc \in Identifying, At(c, pc),
         NEW e \in Emails, NEW status, NEW admin, Identified(c, e, status, admin)
  PROVE  IInv'
<1> DEFINE x == calls[c]
           first == First(x.req.op)
<1>1. /\ x.req \in Request /\ x.pc = pc /\ pc # "done"
      /\ x.ws \in Workspaces \cup {None} /\ x.left \in SUBSET Roles
      /\ x.late \in BOOLEAN /\ CallOK(c) /\ x.reply = None
  BY AtStatement DEF Identifying
<1>2. x.req.op \in {"me", "accept", "create"} \cup AdminOps \cup WorkspaceOps
  BY <1>1, InviteNamed
<1>3. x.late => x.req.op \in InviteOps
  BY <1>1 DEF CallOK, LateHolds
<1>4. CASE Reply(c, 403) \/ Reply(c, 400)
  <2>1. CallOK(c)' /\ \E y : Becomes(c, y) /\ y \in CallState(y.pc)
    BY <1>4, ReplyKeeps DEF Replies
  <2>2. QED
    BY <2>1, Assemble
<1>5. CASE Reply(c, 200) /\ x.req.op = "me"
  <2>1. ~x.late
    BY <1>3, <1>5 DEF InviteOps
  <2>2. CallOK(c)' /\ \E y : Becomes(c, y) /\ y \in CallState(y.pc)
    BY <1>5, <2>1, ReplyKeeps DEF Replies
  <2>3. QED
    BY <2>2, Assemble
<1>6. CASE /\ x.req.op # "me"
           /\ calls' = [calls EXCEPT ![c].pc = first, ![c].me = e, ![c].seen = None]
  <2>1. Becomes(c, Row(c, first, e, x.ws, None, x.left, x.late, x.reply))
    <3>1. x = Row(c, x.pc, x.me, x.ws, x.seen, x.left, x.late, x.reply)
      BY CallFields DEF IInv
    <3>2. DOMAIN calls = Slots
      BY DEF IInv, TypeOK
    <3>3. QED
      BY <1>6, <3>1, <3>2 DEF Becomes, Row
  <2>2. /\ first \in {"role", "invitation", "space", "target", "membership"}
        /\ x.req.op \in OpsAt(first)
    <3>1. CASE x.req.op \in WorkspaceOps
      BY <3>1 DEF First, OpsAt, WorkspaceOps, Identifying, Accepting
    <3>2. CASE x.req.op \in {"accept", "create"}
      BY <3>2 DEF First, OpsAt, WorkspaceOps, Identifying, Accepting, InviteOps
    <3>3. CASE x.req.op \in AdminOps
      BY <3>3 DEF First, OpsAt, WorkspaceOps, AdminOps, Identifying, Accepting, InviteOps
    <3>4. QED
      BY <1>2, <1>6, <3>1, <3>2, <3>3
  <2>3. /\ first \in Plain /\ None \in Seen(first)
        /\ first \notin Identifying \cup Placing \cup Team \cup {"user", "newUser"}
        /\ first \notin {"link", "setStatus"}
    BY <2>2 DEF Plain, Statements, Seen, Identifying, Placing, Team, Accepting
  <2>4. \A r \in Roles : invites'[<<c, r>>] # None =>
          Req(c).op = "create" /\ first \in Team /\ r \notin x.left
    <3>1. pc \notin Team
      BY DEF Identifying, Team
    <3>2. QED
      BY <1>1, <3>1, KeysStayFree
  <2>5. CallOK(c)' /\ \E y : Becomes(c, y) /\ y \in CallState(y.pc)
    <3> HIDE DEF first
    <3> QED
      BY <1>1, <2>1, <2>2, <2>3, <2>4, MoveKeeps DEF Req
  <2>6. QED
    BY <2>5, Assemble
<1>7. QED
  BY <1>4, <1>5, <1>6 DEF Identified, Req

\* The tables are fine after a step that changes users only.
LEMMA UsersOnly ==
  ASSUME IInv, UNCHANGED <<spaces, members, invites, granted>>,
         users' \in [Emails -> UserRow \cup {None}],
         \A e \in Emails : users[e] # None => users'[e] # None
  PROVE  Stable /\ TablesOK' /\ \A d \in Slots : NoNewKey(d)
BY DEF IInv, TypeOK, TablesOK, Stable, NoNewKey, RowsOK, GrantedRoles,
       AcceptedIsMember, Member, EverMember

\* requireProductionUser and resolveProductionUser.
LEMMA IdentifyKeeps ==
  ASSUME IInv, NEW c \in Slots, Identify(c)
  PROVE  IInv'
<1> DEFINE x == calls[c]
<1>1. users \in [Emails -> UserRow \cup {None}]
  BY DEF IInv, TypeOK
<1>2. ASSUME x.req \in Request PROVE x.req.by.email \in Emails /\ x.req.by.subject \in Subjects \cup {None}
  BY <1>2, InviteNamed DEF Caller
<1>3. x.req \in Request
  BY CallFields DEF IInv
<1>4. CASE BySubject(c)
  <2>1. CASE \E e \in Emails : Identified(c, e, users[e].status, users[e].admin)
    BY <1>4, <2>1, <1>1, UsersOnly, IdentifiedKeeps DEF BySubject, tables, Identifying
  <2>2. CASE Go(c, "byEmail")
    <3>1. At(c, "bySubject") /\ UNCHANGED tables
      BY <1>4 DEF BySubject
    <3>2. x.pc = "bySubject" /\ x.seen = None /\ x.req.op \in OpsAt("byEmail") /\ CallOK(c)
      BY <3>1, AtStatement DEF Seen, OpsAt, Identifying, Accepting
    <3>3. Req(c).by.subject # None
      BY <3>2 DEF CallOK, Grounded, Identifying, Req
    <3>4. QED
      BY <2>2, <3>1, <3>2, <3>3, GoOnly
         DEF Plain, Statements, Seen, Identifying, Placing, Team, Accepting, Req
  <2>3. QED
    BY <1>4, <2>1, <2>2 DEF BySubject
<1>5. CASE ByEmail(c)
  <2>1. At(c, "byEmail") /\ UNCHANGED tables
    BY <1>5 DEF ByEmail
  <2>2. /\ x.pc = "byEmail" /\ x.seen = None /\ CallOK(c)
        /\ x.req.op \in OpsAt("link") /\ x.req.op \in OpsAt("taken")
        /\ x.me \in Emails \cup {None} /\ x.ws \in Workspaces \cup {None}
        /\ x.left \in SUBSET Roles /\ x.late \in BOOLEAN
    BY <2>1, AtStatement DEF Seen, OpsAt, Identifying, Accepting
  <2>3. Req(c).by.subject # None
    BY <2>2 DEF CallOK, Grounded, Identifying, Req
  <2>4. CASE Go(c, "taken")
    BY <2>4, <2>1, <2>2, <2>3, GoOnly
       DEF Plain, Statements, Seen, Identifying, Placing, Team, Accepting, Req
  <2>5. CASE /\ HasSubject(x.req.by.email, None)
             /\ Note(c, "link", users[x.req.by.email])
    <3>1. users[x.req.by.email] \in UserRow
      BY <2>5, <1>1, <1>2, <1>3 DEF HasSubject
    <3>2. Becomes(c, Row(c, "link", x.me, x.ws, users[x.req.by.email], x.left, x.late, x.reply))
      BY <2>5, NoteForm DEF IInv
    <3>3. Stable /\ NoNewKey(c)
      BY <2>1 DEF Stable, NoNewKey, tables, EverMember
    <3>4. \A r \in Roles : invites'[<<c, r>>] # None =>
            Req(c).op = "create" /\ "link" \in Team /\ r \notin x.left
      BY <2>2, <3>3, KeysStayFree DEF Team
    <3>5. /\ "link" \in Plain /\ users[x.req.by.email] \in Seen("link")
          /\ "link" \in Identifying /\ "link" \notin Placing \cup Team \cup {"user", "newUser"}
      BY <3>1 DEF Plain, Statements, Seen, Identifying, Placing, Team, Accepting
    <3>6. CallOK(c)' /\ \E y : Becomes(c, y) /\ y \in CallState(y.pc)
      <4>1. users'[x.req.by.email] # None
        BY <2>1, <2>5 DEF HasSubject, tables
      <4>2. QED
        BY <2>2, <2>3, <3>2, <3>3, <3>4, <3>5, <4>1, MoveKeeps DEF Req
    <3>7. QED
      BY <2>1, <3>6, CallOnly
  <2>6. QED
    BY <1>5, <2>4, <2>5 DEF ByEmail, Req
<1>6. CASE Link(c)
  <2>1. At(c, "link") /\ UNCHANGED <<spaces, members, invites, granted>>
    BY <1>6 DEF Link
  <2>2. CASE Reply(c, 500) /\ UNCHANGED users
    BY <2>1, <2>2, ReplyOnly DEF tables, Replies
  <2>3. CASE /\ users' = [users EXCEPT ![x.req.by.email].subject = x.req.by.subject]
             /\ Identified(c, x.req.by.email, x.seen.status, x.seen.admin)
    <3>1. users[x.req.by.email] \in UserRow
      <4>1. users[x.req.by.email] # None
        BY <2>1, AtStatement DEF CallOK, Grounded
      <4>2. QED
        BY <4>1, <1>1, <1>2, <1>3
    <3> DEFINE row == [users[x.req.by.email] EXCEPT !.subject = x.req.by.subject]
    <3>2. row \in UserRow
      BY <3>1, <1>2, <1>3 DEF UserRow
    <3>3. users' \in [Emails -> UserRow \cup {None}]
      BY <2>3, <3>2, <1>1, <1>2, <1>3
    <3>4. row # None
      BY <3>2, NoneAssumption
    <3>5. \A e \in Emails : users[e] # None => users'[e] # None
      BY <2>3, <3>4, <1>1, <1>2, <1>3
    <3>6. QED
      BY <2>1, <2>3, <1>2, <1>3, <3>3, <3>5, UsersOnly, IdentifiedKeeps DEF Identifying
  <2>4. QED
    BY <1>6, <2>2, <2>3 DEF Link, Req
<1>7. CASE Taken(c)
  <2>1. At(c, "taken") /\ UNCHANGED tables
    BY <1>7 DEF Taken
  <2>2. CASE Reply(c, 409)
    BY <2>1, <2>2, ReplyOnly DEF Replies
  <2>3. CASE Go(c, "signUp")
    <3>2. /\ x.pc = "taken" /\ x.seen = None /\ x.req.op \in OpsAt("signUp") /\ CallOK(c)
      BY <2>1, AtStatement DEF Seen, OpsAt, Identifying, Accepting
    <3>3. Req(c).by.subject # None
      BY <3>2 DEF CallOK, Grounded, Identifying, Req
    <3>4. QED
      BY <2>3, <2>1, <3>2, <3>3, GoOnly
         DEF Plain, Statements, Seen, Identifying, Placing, Team, Accepting, Req
  <2>4. QED
    BY <1>7, <2>2, <2>3 DEF Taken
<1>8. CASE SignUp(c)
  <2>1. At(c, "signUp") /\ UNCHANGED <<spaces, members, invites, granted>>
    BY <1>8 DEF SignUp
  <2>2. CASE Reply(c, 500) /\ UNCHANGED users
    BY <2>1, <2>2, ReplyOnly DEF tables, Replies
  <2>3. CASE /\ users' = [users EXCEPT ![x.req.by.email] =
                  [subject |-> x.req.by.subject, status |-> "ACTIVE",
                   admin |-> x.req.by.email \in AdminEmails]]
             /\ Identified(c, x.req.by.email, "ACTIVE", x.req.by.email \in AdminEmails)
    <3> DEFINE row == [subject |-> x.req.by.subject, status |-> "ACTIVE",
                       admin |-> x.req.by.email \in AdminEmails]
    <3>0. row \in UserRow
      BY <1>2, <1>3 DEF UserRow, AccountStatuses
    <3>1. users' \in [Emails -> UserRow \cup {None}]
      BY <2>3, <3>0, <1>1, <1>2, <1>3
    <3>2. \A e \in Emails : users[e] # None => users'[e] # None
      <4>1. row # None
        BY <3>0, NoneAssumption
      <4>2. QED
        BY <2>3, <4>1, <1>1, <1>2, <1>3
    <3>3. QED
      BY <2>1, <2>3, <1>2, <1>3, <3>1, <3>2, UsersOnly, IdentifiedKeeps DEF Identifying
  <2>4. QED
    BY <1>8, <2>2, <2>3 DEF SignUp, Req
<1>9. QED
  BY <1>4, <1>5, <1>6, <1>7, <1>8 DEF Identify

\* authWorkspace and the role of the caller.
LEMMA RoleKeeps ==
  ASSUME IInv, NEW c \in Slots, Role(c)
  PROVE  IInv'
<1> DEFINE x == calls[c]
<1>1. At(c, "role") /\ UNCHANGED tables
  BY DEF Role
<1>2. /\ x.req \in Request /\ x.pc = "role" /\ x.seen = None /\ CallOK(c)
      /\ x.req.op \in WorkspaceOps /\ x.me \in Emails
  BY <1>1, AtStatement DEF Seen, OpsAt, Identifying, Accepting
<1>3. x.ws = x.req.ws /\ x.ws \in Workspaces
  BY <1>2, InviteNamed DEF CallOK, Grounded
<1>4. CASE Reply(c, 403) \/ Reply(c, 404)
  BY <1>1, <1>4, ReplyOnly DEF Replies
<1>5. CASE Reply(c, 200) /\ Op(c) = "open"
  <2>1. ~x.late
    BY <1>2, <1>5 DEF CallOK, LateHolds, InviteOps, Op, Req
  <2>2. QED
    BY <1>1, <1>5, <2>1, ReplyOnly DEF Replies
<1>6. CASE RoleIn(c, x.ws) # None
  <2>1. spaces[x.ws] # None
    <3>1. spaces[x.ws] \in {"demo", "prod"}
      <4>1. RoleIn(c, x.ws) = IF spaces[x.ws] = (IF Demo(c) THEN "demo" ELSE "prod")
                              THEN members[x.ws][x.me].role ELSE None
        BY DEF RoleIn
      <4>2. QED
        BY <4>1, <1>6
    <3>2. QED
      BY <3>1, NoneAssumption
  <2>2. CASE Op(c) = "invite" /\ Go(c, "pending")
    <3>1. /\ "pending" \in Plain /\ None \in Seen("pending")
          /\ x.req.op \in OpsAt("pending") /\ x.req.op # "create"
      BY <2>2 DEF Plain, Statements, Seen, OpsAt, Identifying, Accepting, Op, Req
    <3>2. Becomes(c, Row(c, "pending", x.me, x.ws, None, x.left, x.late, x.reply))
      BY <2>2, <1>2, GoForm DEF IInv
    <3>3. Stable /\ NoNewKey(c)
      BY <1>1 DEF Stable, NoNewKey, tables, EverMember
    <3>4. \A r \in Roles : invites'[<<c, r>>] # None =>
            Req(c).op = "create" /\ "pending" \in Team /\ r \notin x.left
      BY <1>2, <3>3, KeysStayFree DEF Team
    <3>5. spaces'[x.ws] # None /\ "pending" \notin Identifying
      BY <1>1, <2>1 DEF tables, Identifying
    <3>6. x.left \in SUBSET Roles /\ x.late \in BOOLEAN
      BY CallFields DEF IInv
    <3>7. CallOK(c)' /\ \E y : Becomes(c, y) /\ y \in CallState(y.pc)
      BY <1>2, <1>3, <3>1, <3>2, <3>3, <3>4, <3>5, <3>6, MoveKeeps DEF Req
    <3>8. QED
      BY <1>1, <3>7, CallOnly
  <2>3. CASE Op(c) = "revoke" /\ Go(c, "invitation")
    BY <1>1, <1>2, <2>3, GoOnly
       DEF Plain, Statements, Seen, OpsAt, InviteOps, Identifying, Accepting, Placing,
           Team, Op, Req
  <2>4. CASE Op(c) = "addMember" /\ Go(c, "user")
    BY <1>1, <1>2, <2>4, GoOnly
       DEF Plain, Statements, Seen, OpsAt, Identifying, Accepting, Placing, Team, Op, Req
  <2>5. CASE Op(c) # "open" /\ Go(c, CASE Op(c) = "invite" -> "pending"
                         [] Op(c) = "revoke" -> "invitation"
                         [] OTHER            -> "user")
    BY <1>2, <2>2, <2>3, <2>4, <2>5 DEF WorkspaceOps, Op, Req
  <2>6. QED
    BY <1>4, <1>5, <1>6, <2>5 DEF Role
<1>7. CASE RoleIn(c, x.ws) = None
  BY <1>4, <1>5, <1>7 DEF Role
<1>8. QED
  BY <1>6, <1>7

\* acceptInvitation and revokeInvitation read the row.
LEMMA InvitationKeeps ==
  ASSUME IInv, NEW c \in Slots, Invitation(c)
  PROVE  IInv'
<1> DEFINE x == calls[c]
           i == x.req.invite
           row == invites[i]
<1>1. At(c, "invitation") /\ UNCHANGED tables
  BY DEF Invitation
<1>2. /\ x.req \in Request /\ x.pc = "invitation" /\ x.seen = None /\ CallOK(c)
      /\ x.req.op \in InviteOps /\ x.me \in Emails /\ x.reply = None
      /\ x.ws \in Workspaces \cup {None} /\ x.left \in SUBSET Roles /\ x.late \in BOOLEAN
  BY <1>1, AtStatement DEF Seen, OpsAt, Identifying, Accepting
<1>3. i \in InviteIds /\ row \in InviteRow \cup {None}
  BY <1>2, InviteNamed DEF IInv, TypeOK
<1>4. CASE Reply(c, 403) \/ Reply(c, 404) \/ Reply(c, 409)
  BY <1>1, <1>4, ReplyOnly DEF Replies
<1>5. CASE row # None /\ row.status = "PENDING"
  <2>1. ~x.late
    BY <1>2, <1>5 DEF CallOK, LateHolds, Settled
  <2>2. Stable /\ NoNewKey(c)
    BY <1>1 DEF Stable, NoNewKey, tables, EverMember
  <2>3. \A r \in Roles : invites'[<<c, r>>] = None
    BY <1>2, <2>2 DEF CallOK, KeysFree, NoNewKey, Team
  <2>4. /\ invites' = invites /\ granted' = granted
        /\ <<row.ws, row.email, row.role>> \in granted
    BY <1>1, <1>3, <1>5 DEF tables, IInv, RowsOK
  <2>5. CASE x.req.op # "accept" /\ Go(c, "revoke")
    <3> DEFINE y == Row(c, "revoke", x.me, x.ws, None, x.left, x.late, x.reply)
    <3>1. Becomes(c, y)
      BY <2>5, <1>2, GoForm DEF IInv
    <3>2. y \in CallState(y.pc)
      BY <1>2 DEF Row, CallState, Statements, Seen
    <3>3. calls'[c] = y
      BY <3>1 DEF Becomes
    <3>4. Grounded(c)'
      BY <3>3, <1>2, <2>5 DEF CallOK, Grounded, Row, OpsAt, InviteOps, Identifying,
                               Accepting, Placing, Team
    <3>5. KeysFree(c)' /\ ResendHolds(c)' /\ AcceptHolds(c)' /\ LateHolds(c)'
      BY <3>3, <1>5, <2>1, <2>3, <2>4 DEF KeysFree, ResendHolds, AcceptHolds, LateHolds,
                                      Row, Accepting
    <3>6. QED
      BY <1>1, <3>1, <3>2, <3>4, <3>5, CallOnly DEF CallOK
  <2>6. ASSUME NEW pc \in {"expire", "memberYet"}, x.req.op = "accept",
               Addressed(c, row), Note(c, pc, row)
        PROVE  IInv'
    <3> DEFINE y == Row(c, pc, x.me, x.ws, row, x.left, x.late, x.reply)
    <3>1. Becomes(c, y)
      BY <2>6, NoteForm DEF IInv
    <3>2. y \in CallState(y.pc)
      BY <1>2, <1>3, <1>5 DEF Row, CallState, Statements, Seen
    <3>3. calls'[c] = y
      BY <3>1 DEF Becomes
    <3>4. Grounded(c)'
      BY <3>3, <1>2, <2>6 DEF CallOK, Grounded, Row, OpsAt, InviteOps, Identifying,
                               Accepting, Placing, Team, WorkspaceOps
    <3>5. KeysFree(c)' /\ ResendHolds(c)' /\ LateHolds(c)'
      BY <3>3, <2>1, <2>3 DEF KeysFree, ResendHolds, LateHolds, Row
    <3>6. AcceptHolds(c)'
      BY <3>3, <1>5, <2>4, <2>6 DEF AcceptHolds, Row, Accepting, Addressed
    <3>7. QED
      BY <1>1, <3>1, <3>2, <3>4, <3>5, <3>6, CallOnly DEF CallOK
  <2>7. QED
    BY <1>4, <1>5, <2>5, <2>6 DEF Invitation, Op, Req
<1>6. CASE ~(row # None /\ row.status = "PENDING")
  BY <1>4, <1>6 DEF Invitation, Op, Req
<1>7. QED
  BY <1>5, <1>6

\* What an accepting call knows.
LEMMA AcceptingFacts ==
  ASSUME IInv, NEW c \in Slots, NEW pc \in Accepting, At(c, pc)
  PROVE  LET x == calls[c] IN
         /\ x.req.op = "accept" /\ x.req.invite \in InviteIds
         /\ x.pc = pc /\ x.seen \in InviteRow /\ x.me \in Emails /\ x.reply = None
         /\ x.req \in Request /\ x.ws \in Workspaces \cup {None}
         /\ x.left \in SUBSET Roles /\ x.late = FALSE
         /\ CallOK(c) /\ x.seen.email = x.me
         /\ \A r \in Roles : invites[<<c, r>>] = None
<1> DEFINE x == calls[c]
<1>1. /\ x.req \in Request /\ x.pc = pc /\ x.seen \in Seen(pc) /\ CallOK(c)
      /\ x.ws \in Workspaces \cup {None} /\ x.left \in SUBSET Roles /\ x.late \in BOOLEAN
      /\ x.req.op \in OpsAt(pc) /\ x.me \in Emails /\ x.reply = None
  BY AtStatement DEF Accepting, Identifying
<1>2. x.req.op = "accept"
  BY <1>1 DEF OpsAt, Accepting, Identifying
<1>3. x.req.invite \in InviteIds
  BY <1>1, <1>2, InviteNamed DEF InviteOps
<1>4. x.seen \in InviteRow
  BY <1>1 DEF Seen, Accepting
<1>5. x.late = FALSE
  BY <1>1 DEF CallOK, LateHolds
<1>6. x.seen.email = x.me /\ \A r \in Roles : invites[<<c, r>>] = None
  BY <1>1, <1>2 DEF CallOK, AcceptHolds, KeysFree, Accepting
<1>7. QED
  BY <1>1, <1>2, <1>3, <1>4, <1>5, <1>6

\* An accepting call that goes on keeps its part, if it is a member in the end.
LEMMA AcceptMoves ==
  ASSUME IInv, Stable, NEW c \in Slots, NEW at \in Accepting, At(c, at), NoNewKey(c),
         NEW pc \in {"join", "accepted"}, Go(c, pc),
         pc = "accepted" => EverMember(calls[c].seen.ws, calls[c].me)'
  PROVE  CallOK(c)' /\ \E y : Becomes(c, y) /\ y \in CallState(y.pc)
<1> DEFINE x == calls[c]
           y == Row(c, pc, x.me, x.ws, x.seen, x.left, x.late, x.reply)
<1>1. /\ x.req.op = "accept" /\ x.req.invite \in InviteIds
      /\ x.pc = at /\ x.seen \in InviteRow /\ x.me \in Emails /\ x.reply = None
      /\ x.req \in Request /\ x.ws \in Workspaces \cup {None}
      /\ x.left \in SUBSET Roles /\ x.late = FALSE
      /\ CallOK(c) /\ x.seen.email = x.me
      /\ \A r \in Roles : invites[<<c, r>>] = None
  BY AcceptingFacts
<1>2. Becomes(c, y)
  BY GoForm DEF IInv
<1>3. y \in CallState(y.pc)
  BY <1>1 DEF Row, CallState, Statements, Seen
<1>4. calls'[c] = y
  BY <1>2 DEF Becomes
<1>5. Grounded(c)'
  BY <1>4, <1>1 DEF CallOK, Grounded, Row, OpsAt, Identifying, Accepting, Placing, Team,
                    WorkspaceOps
<1>6. KeysFree(c)' /\ ResendHolds(c)' /\ LateHolds(c)'
  BY <1>4, <1>1 DEF KeysFree, ResendHolds, LateHolds, Row, NoNewKey
<1>7. AcceptHolds(c)'
  <2>1. /\ invites[x.req.invite] # None
        /\ invites[x.req.invite].ws = x.seen.ws
        /\ invites[x.req.invite].email = x.seen.email
        /\ <<x.seen.ws, x.seen.email, x.seen.role>> \in granted
    BY <1>1 DEF CallOK, AcceptHolds
  <2>2. /\ invites'[x.req.invite] # None
        /\ invites'[x.req.invite].ws = x.seen.ws
        /\ invites'[x.req.invite].email = x.seen.email
        /\ <<x.seen.ws, x.seen.email, x.seen.role>> \in granted'
    BY <2>1, <1>1 DEF Stable
  <2>3. pc = "accepted" => members'[x.seen.ws][x.me].by # None
    BY <1>4 DEF EverMember, Row
  <2>4. QED
    BY <1>1, <1>4, <2>2, <2>3 DEF AcceptHolds, EverMember, Row
<1>8. QED
  BY <1>2, <1>3, <1>5, <1>6, <1>7 DEF CallOK

\* acceptInvitation looks whether the caller is a member already.
LEMMA MemberYetKeeps ==
  ASSUME IInv, NEW c \in Slots, MemberYet(c)
  PROVE  IInv'
<1> DEFINE x == calls[c]
<1>1. At(c, "memberYet") /\ UNCHANGED tables /\ "memberYet" \in Accepting
  BY DEF MemberYet, Accepting
<1>2. Stable /\ NoNewKey(c)
  BY <1>1 DEF Stable, NoNewKey, tables, EverMember
<1>3. x.seen \in InviteRow /\ x.me \in Emails
  BY <1>1, AcceptingFacts
<1>4. CASE Go(c, "join")
  BY <1>1, <1>2, <1>4, AcceptMoves, CallOnly
<1>5. CASE AlreadyMember(x.seen.ws, x.me) /\ Go(c, "accepted")
  <2>1. EverMember(x.seen.ws, x.me)
    BY <1>3, <1>5 DEF IInv, RowsOK, AlreadyMember, InviteRow
  <2>2. calls'[c].seen = x.seen /\ calls'[c].me = x.me
    <3>1. Becomes(c, Row(c, "accepted", x.me, x.ws, x.seen, x.left, x.late, x.reply))
      BY <1>5, GoForm DEF IInv
    <3>2. QED
      BY <3>1 DEF Becomes, Row
  <2>3. EverMember(x.seen.ws, x.me)'
    BY <1>1, <2>1, <2>2 DEF EverMember, tables
  <2>4. CallOK(c)' /\ \E y : Becomes(c, y) /\ y \in CallState(y.pc)
    BY <1>1, <1>2, <1>5, <2>3, AcceptMoves
  <2>5. QED
    BY <1>1, <2>4, CallOnly
<1>6. QED
  BY <1>4, <1>5 DEF MemberYet

\* A new membership whose role was granted, in a workspace that exists and for
\* somebody who was not a member.
LEMMA InsertKeeps ==
  ASSUME IInv, NEW c \in Slots, NEW w \in Workspaces, NEW e \in Emails,
         NEW role \in Roles, InsertMember(c, w, e, role),
         UNCHANGED <<users, spaces, invites>>, spaces[w] # None,
         granted \subseteq granted', granted' \subseteq Workspaces \X Emails \X Roles,
         <<w, e, role>> \in granted'
  PROVE  /\ Stable /\ TablesOK' /\ \A d \in Slots : NoNewKey(d)
         /\ members'[w][e].by # None
<1> DEFINE row == [role |-> role, by |-> c]
<1>1. row \in MemberRow /\ c # None
  BY DirectoryAssumption DEF MemberRow
<1>2. members \in [Workspaces -> [Emails -> MemberRow]]
  BY DEF IInv, TypeOK
<1>3. members' = [members EXCEPT ![w] = [members[w] EXCEPT ![e] = row]]
  BY <1>2 DEF InsertMember
<1>4. members' \in [Workspaces -> [Emails -> MemberRow]]
  BY <1>1, <1>2, <1>3
<1>5. /\ members'[w][e] = row
      /\ \A v \in Workspaces, d \in Emails :
           v # w \/ d # e => members'[v][d] = members[v][d]
  BY <1>2, <1>3
<1>6. row.by # None /\ row.role = role
  BY <1>1
<1>7. \A v \in Workspaces, d \in Emails : EverMember(v, d) => members'[v][d].by # None
  BY <1>5, <1>6 DEF EverMember
<1>8. Stable /\ \A d \in Slots : NoNewKey(d)
  BY <1>7 DEF Stable, NoNewKey, EverMember
<1>9. RowsOK' /\ GrantedRoles'
  <2>1. \A v \in Workspaces, d \in Emails :
          /\ members'[v][d].role # None =>
               members'[v][d].by # None /\ <<v, d, members'[v][d].role>> \in granted'
          /\ members'[v][d].by # None => spaces[v] # None
    BY <1>5, <1>6 DEF IInv, RowsOK, GrantedRoles, Member, EverMember
  <2>2. QED
    BY <2>1 DEF IInv, RowsOK, GrantedRoles, Member, EverMember
<1>10. AcceptedIsMember'
  <2>1. \A i \in InviteIds : invites[i] # None /\ invites[i].status = "ACCEPTED" =>
          EverMember(invites[i].ws, invites[i].email)
    BY DEF IInv, AcceptedIsMember
  <2>2. \A i \in InviteIds : invites[i] # None =>
          invites[i].ws \in Workspaces /\ invites[i].email \in Emails
    BY DEF IInv, TypeOK, InviteRow
  <2>3. QED
    BY <2>1, <2>2, <1>7 DEF AcceptedIsMember, EverMember
<1>11. QED
  BY <1>4, <1>5, <1>6, <1>8, <1>9, <1>10 DEF TablesOK, IInv, TypeOK

\* acceptInvitation inserts the membership.
LEMMA JoinKeeps ==
  ASSUME IInv, NEW c \in Slots, Join(c)
  PROVE  IInv'
<1> DEFINE x == calls[c]
<1>1. At(c, "join") /\ "join" \in Accepting /\ UNCHANGED <<users, spaces, invites, granted>>
  BY DEF Join, Accepting
<1>2. /\ x.seen \in InviteRow /\ x.me \in Emails /\ CallOK(c) /\ x.pc = "join"
      /\ x.req.invite \in InviteIds /\ x.seen.email = x.me
  BY <1>1, AcceptingFacts
<1>3. CASE Reply(c, 500) /\ UNCHANGED members
  BY <1>1, <1>3, ReplyOnly DEF tables, Replies
<1>4. CASE InsertMember(c, x.seen.ws, x.me, x.seen.role) /\ Go(c, "accepted")
  <2>1. /\ invites[x.req.invite] # None /\ invites[x.req.invite].ws = x.seen.ws
        /\ <<x.seen.ws, x.seen.email, x.seen.role>> \in granted
    BY <1>2 DEF CallOK, AcceptHolds, Accepting
  <2>2. spaces[x.seen.ws] # None
    BY <1>2, <2>1 DEF IInv, RowsOK
  <2>3. /\ Stable /\ TablesOK' /\ \A d \in Slots : NoNewKey(d)
        /\ members'[x.seen.ws][x.me].by # None
    <3>1. x.seen.ws \in Workspaces /\ x.seen.role \in Roles
      BY <1>2 DEF InviteRow
    <3>2. granted \subseteq granted' /\ granted' \subseteq Workspaces \X Emails \X Roles
      BY <1>1 DEF IInv, TypeOK
    <3>3. <<x.seen.ws, x.me, x.seen.role>> \in granted'
      BY <1>1, <1>2, <2>1
    <3>4. QED
      BY <1>1, <1>2, <1>4, <2>2, <3>1, <3>2, <3>3, InsertKeeps
  <2>4. calls'[c].seen = x.seen /\ calls'[c].me = x.me
    <3>1. Becomes(c, Row(c, "accepted", x.me, x.ws, x.seen, x.left, x.late, x.reply))
      BY <1>4, GoForm DEF IInv
    <3>2. QED
      BY <3>1 DEF Becomes, Row
  <2>5. EverMember(x.seen.ws, x.me)'
    BY <2>3, <2>4 DEF EverMember
  <2>6. CallOK(c)' /\ \E y : Becomes(c, y) /\ y \in CallState(y.pc)
    BY <1>1, <1>4, <2>3, <2>5, AcceptMoves
  <2>7. QED
    BY <2>3, <2>6, Assemble
<1>5. QED
  BY <1>3, <1>4 DEF Join

\* An invitation is settled: accepted only if its address was a member.
LEMMA SettleKeeps ==
  ASSUME IInv, NEW c \in Slots, ~calls[c].late, Req(c).invite \in InviteIds,
         invites[Req(c).invite] # None,
         NEW status \in {"ACCEPTED", "REVOKED", "EXPIRED"}, NEW code \in Replies,
         SetStatus(c, status, code),
         status = "ACCEPTED" =>
           EverMember(invites[Req(c).invite].ws, invites[Req(c).invite].email)
  PROVE  IInv'
<1> DEFINE i == Req(c).invite
           row == [invites[i] EXCEPT !.status = status]
<1>1. /\ invites' = [invites EXCEPT ![i] = row]
      /\ Reply(c, code) /\ UNCHANGED <<users, spaces, members, granted>>
  BY DEF SetStatus
<1>2. invites \in [InviteIds -> InviteRow \cup {None}] /\ invites[i] \in InviteRow
  BY DEF IInv, TypeOK
<1>3. /\ row \in InviteRow /\ row.ws = invites[i].ws /\ row.email = invites[i].email
      /\ row.role = invites[i].role /\ row.status = status
  BY <1>2 DEF InviteRow, InvitationStatuses
<1>4. row # None
  BY <1>3, NoneAssumption
<1> HIDE DEF row
<1>5. /\ invites'[i] = row
      /\ \A j \in InviteIds : j # i => invites'[j] = invites[j]
      /\ invites' \in [InviteIds -> InviteRow \cup {None}]
  BY <1>1, <1>2, <1>3
<1>6. Stable
  BY <1>1, <1>3, <1>4, <1>5 DEF Stable, EverMember
<1>7. \A d \in Slots : NoNewKey(d)
  <2> SUFFICES ASSUME NEW d \in Slots, NEW r \in Roles, invites'[<<d, r>>] # None
               PROVE  invites[<<d, r>>] # None
    BY DEF NoNewKey
  <2>1. <<d, r>> \in InviteIds
    BY DEF InviteIds
  <2>2. QED
    BY <2>1, <1>5
<1>8. RowsOK' /\ GrantedRoles' /\ AcceptedIsMember'
  <2>1. \A j \in InviteIds : invites'[j] # None =>
          /\ spaces[invites'[j].ws] # None
          /\ <<invites'[j].ws, invites'[j].email, invites'[j].role>> \in granted
          /\ invites'[j].status = "ACCEPTED" =>
               members[invites'[j].ws][invites'[j].email].by # None
    <3> TAKE j \in InviteIds
    <3>1. CASE j = i
      BY <3>1, <1>3, <1>5 DEF IInv, RowsOK, EverMember
    <3>2. CASE j # i
      BY <3>2, <1>5 DEF IInv, RowsOK, AcceptedIsMember, EverMember
    <3>3. QED
      BY <3>1, <3>2
  <2>2. RowsOK'
    BY <1>1, <2>1 DEF IInv, RowsOK, Member, EverMember
  <2>3. GrantedRoles'
    BY <1>1 DEF IInv, GrantedRoles, Member
  <2>4. AcceptedIsMember'
    BY <1>1, <2>1 DEF AcceptedIsMember, EverMember
  <2>5. QED
    BY <2>2, <2>3, <2>4
<1>9. TablesOK'
  BY <1>1, <1>5, <1>8 DEF TablesOK, IInv, TypeOK
<1>10. CallOK(c)' /\ \E y : Becomes(c, y) /\ y \in CallState(y.pc)
  BY <1>1, <1>6, ReplyKeeps
<1>11. QED
  BY <1>6, <1>7, <1>9, <1>10, Assemble

\* acceptInvitation and revokeInvitation.
LEMMA AnswerKeeps ==
  ASSUME IInv, NEW c \in Slots, Answer(c)
  PROVE  IInv'
<1> DEFINE x == calls[c]
<1>1. CASE Invitation(c)
  BY <1>1, InvitationKeeps
<1>2. CASE MemberYet(c)
  BY <1>2, MemberYetKeeps
<1>3. CASE Join(c)
  BY <1>3, JoinKeeps
<1>4. CASE Accepted(c)
  <2>1. /\ At(c, "accepted") /\ "accepted" \in Accepting /\ SetStatus(c, "ACCEPTED", 200)
    BY <1>4 DEF Accepted, Accepting
  <2>2. /\ x.late = FALSE /\ x.req.invite \in InviteIds /\ CallOK(c) /\ x.pc = "accepted"
        /\ x.seen.email = x.me
    BY <2>1, AcceptingFacts
  <2>3. /\ invites[x.req.invite] # None
        /\ EverMember(invites[x.req.invite].ws, invites[x.req.invite].email)
    BY <2>2 DEF CallOK, AcceptHolds, Accepting, EverMember
  <2>4. QED
    BY <2>1, <2>2, <2>3, SettleKeeps DEF Req, Replies
<1>5. CASE Revoke(c)
  <2>1. At(c, "revoke") /\ SetStatus(c, "REVOKED", 200)
    BY <1>5 DEF Revoke
  <2>2. /\ x.req \in Request /\ x.pc = "revoke" /\ CallOK(c) /\ x.late \in BOOLEAN
        /\ x.req.op \in OpsAt("revoke")
    BY <2>1, AtStatement
  <2>3. x.req.op \in InviteOps
    BY <2>2 DEF OpsAt, Identifying, Accepting, InviteOps
  <2>4. x.req.invite \in InviteIds
    BY <2>2, <2>3, InviteNamed
  <2>5. invites[x.req.invite] # None /\ ~x.late
    BY <2>2 DEF CallOK, AcceptHolds, LateHolds
  <2>6. QED
    BY <2>1, <2>4, <2>5, SettleKeeps DEF Req, Replies
<1>6. CASE Expire(c)
  <2>1. At(c, "expire") /\ "expire" \in Accepting /\ SetStatus(c, "EXPIRED", 409)
    BY <1>6 DEF Expire, Accepting
  <2>2. x.late = FALSE /\ x.req.invite \in InviteIds /\ CallOK(c) /\ x.pc = "expire"
    BY <2>1, AcceptingFacts
  <2>3. invites[x.req.invite] # None
    BY <2>2 DEF CallOK, AcceptHolds, Accepting
  <2>4. QED
    BY <2>1, <2>2, <2>3, SettleKeeps DEF Req, Replies
<1>7. QED
  BY <1>1, <1>2, <1>3, <1>4, <1>5, <1>6 DEF Answer

-----------------------------------------------------------------------------
(* Creating a workspace, inviting and adding.                              *)

\* What a call that places or invites knows.
LEMMA PlacingFacts ==
  ASSUME IInv, NEW c \in Slots, NEW pc \in Placing, At(c, pc)
  PROVE  LET x == calls[c] IN
         /\ x.req \in Request /\ x.pc = pc /\ x.me \in Emails /\ x.reply = None
         /\ x.ws \in Workspaces /\ spaces[x.ws] # None
         /\ x.left \in SUBSET Roles /\ x.late = FALSE /\ CallOK(c)
         /\ x.req.op \in {"create", "invite"}
         /\ x.req.op = "create" =>
              x.req.role \in Leads /\ x.req.team \in [Roles -> Emails]
         /\ x.req.op = "invite" => x.req.email \in Emails /\ x.req.role \in Roles
<1> DEFINE x == calls[c]
<1>1. /\ x.req \in Request /\ x.pc = pc /\ CallOK(c)
      /\ x.left \in SUBSET Roles /\ x.late \in BOOLEAN
      /\ x.req.op \in OpsAt(pc) /\ x.me \in Emails /\ x.reply = None
  BY AtStatement DEF Placing, Identifying
<1>2. x.req.op \in {"create", "invite"}
  BY <1>1 DEF OpsAt, Placing, Accepting, Identifying
<1>3. x.late = FALSE
  BY <1>1, <1>2 DEF CallOK, LateHolds, InviteOps
<1>4. x.ws \in Workspaces /\ spaces[x.ws] # None
  BY <1>1 DEF CallOK, Grounded
<1>5. QED
  BY <1>1, <1>2, <1>3, <1>4, InviteNamed

\* The next of a team that is not done is in it, and a person has an address.
LEMMA NamedFacts ==
  ASSUME IInv, NEW c \in Slots, NEW pc \in Team, At(c, pc)
  PROVE  /\ Named(c).email \in Emails /\ Named(c).role \in Roles
         /\ Op(c) = "create" => Named(c).role = NextRole(calls[c].left)
                                /\ Named(c).role \in calls[c].left
<1> DEFINE x == calls[c]
<1>1. /\ x.left \in SUBSET Roles /\ CallOK(c) /\ x.pc = pc
      /\ x.req.op \in {"create", "invite"}
      /\ x.req.op = "create" => x.req.team \in [Roles -> Emails]
      /\ x.req.op = "invite" => x.req.email \in Emails /\ x.req.role \in Roles
  BY PlacingFacts DEF Team, Placing
<1>2. CASE Op(c) = "create"
  <2>1. x.left # {}
    BY <1>1, <1>2 DEF CallOK, Grounded, Op, Req
  <2>2. NextRole(x.left) \in x.left
    BY <1>1, <2>1 DEF NextRole, Roles
  <2>3. QED
    BY <1>1, <1>2, <2>2 DEF Named, Op, Req
<1>3. CASE Op(c) # "create"
  BY <1>1, <1>3 DEF Named, Op, Req
<1>4. QED
  BY <1>2, <1>3

\* The loop over the team goes on or ends.
LEMMA OnwardsKeeps ==
  ASSUME IInv, Stable, TablesOK', NEW c \in Slots, NEW pc \in Placing, At(c, pc),
         Op(c) = "create", NEW left \in SUBSET Roles, Onwards(c, left),
         \A d \in Slots \ {c} : NoNewKey(d),
         \A r \in Roles : invites'[<<c, r>>] # None => r \notin left
  PROVE  IInv'
<1> DEFINE x == calls[c]
           rest == {role \in left : Req(c).team[role] # x.me}
<1>1. /\ x.req \in Request /\ x.pc = pc /\ x.me \in Emails
      /\ x.ws \in Workspaces /\ spaces[x.ws] # None /\ x.late = FALSE /\ CallOK(c)
  BY PlacingFacts
<1>2. CASE Reply(c, 201)
  <2>1. CallOK(c)' /\ \E y : Becomes(c, y) /\ y \in CallState(y.pc)
    BY <1>2, ReplyKeeps DEF Replies
  <2>2. QED
    BY <2>1, Assemble
<1>3. CASE /\ rest # {}
           /\ calls' = [calls EXCEPT ![c].pc = "person", ![c].left = rest,
                                     ![c].seen = None]
  <2>1. Becomes(c, Row(c, "person", x.me, x.ws, None, rest, x.late, x.reply))
    <3>1. x = Row(c, x.pc, x.me, x.ws, x.seen, x.left, x.late, x.reply)
      BY CallFields DEF IInv
    <3>2. DOMAIN calls = Slots
      BY DEF IInv, TypeOK
    <3>3. QED
      BY <1>3, <3>1, <3>2 DEF Becomes, Row
  <2>2. rest \in SUBSET Roles /\ rest \subseteq left
    OBVIOUS
  <2>3. /\ "person" \in Plain /\ None \in Seen("person") /\ "person" \in Placing
        /\ "person" \in Team /\ "person" \notin Identifying
        /\ "create" \in OpsAt("person")
    BY DEF Plain, Statements, Seen, Identifying, Placing, Team, Accepting, OpsAt
  <2>4. spaces'[x.ws] # None /\ x.pc # "done"
    BY <1>1 DEF Stable, Placing
  <2>5. CallOK(c)' /\ \E y : Becomes(c, y) /\ y \in CallState(y.pc)
    <3> HIDE DEF rest
    <3> QED
      BY <1>1, <1>3, <2>1, <2>2, <2>3, <2>4, MoveKeeps DEF Req, Op
  <2>6. QED
    BY <2>5, Assemble
<1>4. QED
  BY <1>2, <1>3 DEF Onwards

\* createWorkspace inserts the workspace.
LEMMA SpaceKeeps ==
  ASSUME IInv, NEW c \in Slots, Space(c)
  PROVE  IInv'
<1> DEFINE x == calls[c]
<1>1. At(c, "space") /\ UNCHANGED <<users, members, invites, granted>>
  BY DEF Space
<1>2. /\ x.req \in Request /\ x.pc = "space" /\ x.seen = None /\ CallOK(c)
      /\ x.req.op = "create" /\ x.me \in Emails /\ x.left \in SUBSET Roles
      /\ x.late \in BOOLEAN
  BY <1>1, AtStatement DEF Seen, OpsAt, Identifying, Accepting
<1>3. PICK w \in Workspaces :
        /\ spaces[w] = None
        /\ spaces' = [spaces EXCEPT ![w] = "prod"]
        /\ calls' = [calls EXCEPT ![c].pc = "creator", ![c].ws = w]
  BY DEF Space
<1>4. spaces \in [Workspaces -> {"demo", "prod", None}]
  BY DEF IInv, TypeOK
<1>5. /\ \A v \in Workspaces : spaces[v] # None => spaces'[v] # None
      /\ spaces'[w] # None
      /\ spaces' \in [Workspaces -> {"demo", "prod", None}]
  BY <1>3, <1>4, NoneAssumption
<1>6. Stable /\ \A d \in Slots : NoNewKey(d)
  BY <1>1, <1>5 DEF Stable, NoNewKey, EverMember
<1>7. TablesOK'
  <2>1. \A i \in InviteIds : invites[i] # None => invites[i].ws \in Workspaces
    BY DEF IInv, TypeOK, InviteRow
  <2>2. QED
    BY <1>1, <1>5, <2>1 DEF IInv, TypeOK, TablesOK, RowsOK, GrantedRoles,
                            AcceptedIsMember, Member, EverMember
<1>8. Becomes(c, Row(c, "creator", x.me, w, None, x.left, x.late, x.reply))
  <2>1. x = Row(c, x.pc, x.me, x.ws, x.seen, x.left, x.late, x.reply)
    BY CallFields DEF IInv
  <2>2. DOMAIN calls = Slots
    BY DEF IInv, TypeOK
  <2>3. QED
    BY <1>2, <1>3, <2>1, <2>2 DEF Becomes, Row
<1>9. /\ "creator" \in Plain /\ None \in Seen("creator") /\ "creator" \notin Team
      /\ "creator" \notin Identifying /\ "create" \in OpsAt("creator")
  BY DEF Plain, Statements, Seen, Identifying, Team, Accepting, OpsAt
<1>10. \A r \in Roles : invites'[<<c, r>>] # None =>
         Req(c).op = "create" /\ "creator" \in Team /\ r \notin x.left
  BY <1>2, <1>6, KeysStayFree DEF Team
<1>11. CallOK(c)' /\ \E y : Becomes(c, y) /\ y \in CallState(y.pc)
  BY <1>2, <1>5, <1>6, <1>8, <1>9, <1>10, MoveKeeps DEF Req
<1>12. QED
  BY <1>6, <1>7, <1>11, Assemble

\* createWorkspace makes its caller the first member.
LEMMA CreatorKeeps ==
  ASSUME IInv, NEW c \in Slots, Creator(c)
  PROVE  IInv'
<1> DEFINE x == calls[c]
           role == x.req.role
<1>1. /\ At(c, "creator") /\ "creator" \in Placing
      /\ UNCHANGED <<users, spaces, invites>>
      /\ InsertMember(c, x.ws, x.me, role)
      /\ granted' = granted \cup {<<x.ws, x.me, role>>}
      /\ Onwards(c, Roles)
  BY DEF Creator, Placing, Grant, Req
<1>2. /\ x.ws \in Workspaces /\ spaces[x.ws] # None /\ x.me \in Emails
      /\ x.req \in Request /\ x.pc = "creator" /\ CallOK(c)
  BY <1>1, PlacingFacts
<1>3. x.req.op = "create"
  BY <1>2 DEF CallOK, Grounded, OpsAt, Accepting, Identifying
<1>4. role \in Roles
  BY <1>2, <1>3, InviteNamed DEF Leads, Roles
<1>5. /\ Stable /\ TablesOK' /\ \A d \in Slots : NoNewKey(d)
  <2>1. granted' \subseteq Workspaces \X Emails \X Roles
    BY <1>1, <1>2, <1>4 DEF IInv, TypeOK
  <2>2. QED
    BY <1>1, <1>2, <1>4, <2>1, InsertKeeps
<1>6. \A r \in Roles : invites'[<<c, r>>] # None => r \notin Roles
  BY <1>1, <1>2 DEF CallOK, KeysFree, Team
<1>7. QED
  BY <1>1, <1>3, <1>5, <1>6, OnwardsKeeps DEF Op, Req

\* createWorkspace looks the next of the team up.
LEMMA PersonKeeps ==
  ASSUME IInv, NEW c \in Slots, Person(c)
  PROVE  IInv'
<1> DEFINE x == calls[c]
<1>1. At(c, "person") /\ UNCHANGED tables /\ "person" \in Placing
  BY DEF Person, Placing
<1>2. /\ x.req \in Request /\ x.pc = "person" /\ CallOK(c) /\ x.me \in Emails
  BY <1>1, PlacingFacts
<1>3. x.req.op = "create" /\ x.seen = None
  BY <1>1, <1>2, AtStatement DEF CallOK, Grounded, OpsAt, Accepting, Identifying, Seen
<1>4. x.left # {}
  BY <1>2, <1>3 DEF CallOK, Grounded, Team
<1>5. ASSUME NEW pc \in {"place", "pending"}, Go(c, pc)
      PROVE  IInv'
  <2>1. /\ pc \in Plain /\ None \in Seen(pc) /\ "create" \in OpsAt(pc)
        /\ pc \in Placing /\ pc \in Team /\ pc \notin Identifying
    BY DEF Plain, Statements, Seen, OpsAt, Identifying, Accepting, Placing, Team
  <2>2. QED
    BY <1>1, <1>2, <1>3, <1>4, <1>5, <2>1, GoOnly DEF Req, Placing
<1>6. QED
  BY <1>5 DEF Person

\* createWorkspace inserts the membership of somebody who is a user.
LEMMA PlaceKeeps ==
  ASSUME IInv, NEW c \in Slots, Place(c)
  PROVE  IInv'
<1> DEFINE x == calls[c]
           p == Named(c)
<1>1. At(c, "place") /\ "place" \in Placing /\ "place" \in Team
      /\ UNCHANGED <<users, spaces, invites>>
  BY DEF Place, Placing, Team
<1>2. /\ x.ws \in Workspaces /\ spaces[x.ws] # None /\ x.left \in SUBSET Roles
      /\ x.req \in Request /\ x.pc = "place" /\ CallOK(c)
  BY <1>1, PlacingFacts
<1>3. Op(c) = "create"
  BY <1>2 DEF CallOK, Grounded, OpsAt, Accepting, Identifying, Op, Req
<1>4. p.email \in Emails /\ p.role \in Roles
  BY <1>1, NamedFacts
<1>5. CASE Reply(c, 500) /\ UNCHANGED <<members, granted>>
  BY <1>1, <1>5, ReplyOnly DEF tables, Replies
<1>6. CASE /\ InsertMember(c, x.ws, p.email, p.role)
           /\ granted' = granted \cup {<<x.ws, p.email, p.role>>}
           /\ Onwards(c, Placed(c))
  <2>1. /\ Stable /\ TablesOK' /\ \A d \in Slots : NoNewKey(d)
    <3>1. granted' \subseteq Workspaces \X Emails \X Roles
      BY <1>2, <1>4, <1>6 DEF IInv, TypeOK
    <3> HIDE DEF p
    <3>2. QED
      BY <1>1, <1>2, <1>4, <1>6, <3>1, InsertKeeps
  <2>2. Placed(c) \in SUBSET Roles
    BY <1>2 DEF Placed
  <2>3. \A r \in Roles : invites'[<<c, r>>] # None => r \notin Placed(c)
    BY <1>1, <1>2 DEF CallOK, KeysFree, Placed
  <2>4. QED
    BY <1>1, <1>3, <1>6, <2>1, <2>2, <2>3, OnwardsKeeps
<1>7. QED
  BY <1>5, <1>6 DEF Place, Grant

\* createInvitation looks for a pending row to resend.
LEMMA PendingKeeps ==
  ASSUME IInv, NEW c \in Slots, Pending(c)
  PROVE  IInv'
<1> DEFINE x == calls[c]
<1>1. At(c, "pending") /\ UNCHANGED tables /\ "pending" \in Placing /\ "pending" \in Team
  BY DEF Pending, Placing, Team
<1>2. /\ x.req \in Request /\ x.pc = "pending" /\ CallOK(c) /\ x.me \in Emails
      /\ x.reply = None /\ x.ws \in Workspaces /\ spaces[x.ws] # None
      /\ x.left \in SUBSET Roles /\ x.late = FALSE
      /\ x.req.op \in {"create", "invite"}
  BY <1>1, PlacingFacts
<1>3. PICK i \in InviteIds \cup {None} :
        /\ i # None => i \in PendingFor(x.ws, Named(c).email)
        /\ Note(c, "issue", i)
  BY DEF Pending, PendingFor
<1> DEFINE y == Row(c, "issue", x.me, x.ws, i, x.left, x.late, x.reply)
<1>4. Becomes(c, y)
  BY <1>3, NoteForm DEF IInv
<1>5. y \in CallState(y.pc)
  BY <1>2 DEF Row, CallState, Statements, Seen
<1>6. calls'[c] = y
  BY <1>4 DEF Becomes
<1>7. Grounded(c)'
  <2>1. x.req.op \in OpsAt("issue")
    BY <1>2 DEF OpsAt, Identifying, Accepting
  <2>2. QED
    BY <1>1, <1>2, <1>6, <2>1 DEF CallOK, Grounded, Row, Identifying, Placing, Team, tables
<1>8. KeysFree(c)' /\ AcceptHolds(c)' /\ LateHolds(c)'
  BY <1>1, <1>2, <1>6 DEF CallOK, KeysFree, AcceptHolds, LateHolds, Row, Accepting, Team, tables
<1>9. ResendHolds(c)'
  <2>1. Named(c)' = Named(c)
    BY <1>6 DEF Named, Op, Req, Row
  <2>2. i # None => invites[i] # None /\ invites[i].ws = x.ws
                    /\ invites[i].email = Named(c).email
    BY <1>3 DEF PendingFor
  <2>3. QED
    BY <1>1, <1>6, <2>1, <2>2 DEF ResendHolds, Row, tables
<1>10. QED
  BY <1>1, <1>4, <1>5, <1>7, <1>8, <1>9, CallOnly DEF CallOK

\* createInvitation writes its row.
LEMMA IssueKeeps ==
  ASSUME IInv, NEW c \in Slots, Issue(c)
  PROVE  IInv'
<1> DEFINE x == calls[c]
           p == Named(c)
           old == x.seen # None
           key == IF old THEN x.seen ELSE <<c, p.role>>
           row == IF old THEN Resent(invites[x.seen], p.role)
                  ELSE [ws |-> x.ws, email |-> p.email, role |-> p.role,
                        status |-> "PENDING", lapsed |-> FALSE]
<1>1. /\ At(c, "issue") /\ "issue" \in Placing /\ "issue" \in Team
      /\ UNCHANGED <<users, spaces, members>>
      /\ granted' = granted \cup {<<x.ws, p.email, p.role>>}
      /\ invites' = [invites EXCEPT ![key] = row]
      /\ IF Op(c) = "create" THEN Onwards(c, Placed(c)) ELSE Reply(c, 201)
  BY DEF Issue, Placing, Team, Grant
<1>2. /\ x.ws \in Workspaces /\ spaces[x.ws] # None /\ x.left \in SUBSET Roles
      /\ x.req \in Request /\ x.pc = "issue" /\ CallOK(c)
      /\ x.req.op \in {"create", "invite"} /\ x.late = FALSE
  BY <1>1, PlacingFacts
<1>3. /\ p.email \in Emails /\ p.role \in Roles
      /\ Op(c) = "create" => p.role = NextRole(x.left) /\ p.role \in x.left
  BY <1>1, NamedFacts
<1>4. x.seen \in InviteIds \cup {None}
  BY <1>1, AtStatement DEF Seen
<1>5. invites \in [InviteIds -> InviteRow \cup {None}]
  BY DEF IInv, TypeOK
<1>6. /\ key \in InviteIds /\ row \in InviteRow
      /\ row.ws = x.ws /\ row.email = p.email /\ row.role = p.role
  <2>1. CASE old
    <3>1. /\ invites[x.seen] # None /\ invites[x.seen].ws = x.ws
          /\ invites[x.seen].email = p.email
      BY <2>1, <1>2 DEF CallOK, ResendHolds
    <3>2. invites[x.seen] \in InviteRow
      BY <2>1, <3>1, <1>4, <1>5
    <3>3. row = [invites[x.seen] EXCEPT !.role = p.role, !.lapsed = FALSE]
      BY <2>1 DEF Resent
    <3>4. QED
      BY <2>1, <3>1, <3>2, <3>3, <1>3, <1>4 DEF InviteRow
  <2>2. CASE ~old
    BY <2>2, <1>2, <1>3 DEF InviteRow, InvitationStatuses, InviteIds
  <2>3. QED
    BY <2>1, <2>2
<1>7. row # None
  BY <1>6, NoneAssumption
<1>8. invites[key] # None =>
        /\ old /\ row.ws = invites[key].ws /\ row.email = invites[key].email
        /\ row.status = invites[key].status
  <2>1. CASE old
    <3>1. /\ invites[x.seen] # None /\ invites[x.seen].ws = x.ws
          /\ invites[x.seen].email = p.email
      BY <2>1, <1>2 DEF CallOK, ResendHolds
    <3>2. invites[x.seen] \in InviteRow
      BY <2>1, <3>1, <1>4, <1>5
    <3>3. row.status = invites[x.seen].status
      BY <2>1, <3>2 DEF Resent, InviteRow
    <3>4. QED
      BY <2>1, <3>1, <3>3, <1>6
  <2>2. CASE ~old
    <3>1. invites[<<c, p.role>>] = None
      <4>1. CASE Op(c) = "create"
        BY <4>1, <1>2, <1>3 DEF CallOK, KeysFree
      <4>2. CASE Op(c) # "create"
        BY <4>2, <1>2, <1>3 DEF CallOK, KeysFree, Op, Req
      <4>3. QED
        BY <4>1, <4>2
    <3>2. QED
      BY <2>2, <3>1
  <2>3. QED
    BY <2>1, <2>2
<1>9. old => key = x.seen /\ invites[key] # None
  BY <1>2 DEF CallOK, ResendHolds
<1>10. ~old => key = <<c, p.role>>
  OBVIOUS
<1> HIDE DEF key, row, p, old
<1>11. /\ invites'[key] = row
       /\ \A j \in InviteIds : j # key => invites'[j] = invites[j]
       /\ invites' \in [InviteIds -> InviteRow \cup {None}]
  BY <1>1, <1>5, <1>6
<1>12. Stable
  BY <1>1, <1>7, <1>8, <1>11 DEF Stable, EverMember
<1>13. \A d \in Slots : \A r \in Roles :
         invites'[<<d, r>>] # None =>
           invites[<<d, r>>] # None \/ (~old /\ d = c /\ r = p.role)
  <2> SUFFICES ASSUME NEW d \in Slots, NEW r \in Roles, invites'[<<d, r>>] # None,
                      invites[<<d, r>>] = None
               PROVE  ~old /\ d = c /\ r = p.role
    OBVIOUS
  <2>1. <<d, r>> \in InviteIds
    BY DEF InviteIds
  <2>2. key = <<d, r>>
    BY <2>1, <1>11
  <2>3. ~old
    BY <2>2, <1>9
  <2>4. QED
    BY <2>2, <2>3, <1>10
<1>14. \A d \in Slots \ {c} : NoNewKey(d)
  BY <1>13 DEF NoNewKey
<1>15. TablesOK'
  <2>1. \A j \in InviteIds : invites'[j] # None =>
          /\ spaces[invites'[j].ws] # None
          /\ <<invites'[j].ws, invites'[j].email, invites'[j].role>> \in granted'
          /\ invites'[j].status = "ACCEPTED" =>
               members[invites'[j].ws][invites'[j].email].by # None
    <3> TAKE j \in InviteIds
    <3>1. CASE j = key
      <4>1. /\ spaces[row.ws] # None
            /\ <<row.ws, row.email, row.role>> \in granted'
        BY <1>1, <1>2, <1>6
      <4>2. row.status = "ACCEPTED" => members[row.ws][row.email].by # None
        <5>1. CASE invites[key] # None
          BY <5>1, <1>6, <1>8 DEF IInv, AcceptedIsMember, EverMember
        <5>2. CASE invites[key] = None
          <6>1. row.status = "PENDING"
            BY <5>2, <1>9 DEF row, old
          <6>2. QED
            BY <6>1
        <5>3. QED
          BY <5>1, <5>2
      <4>3. QED
        BY <3>1, <4>1, <4>2, <1>11
    <3>2. CASE j # key
      BY <3>2, <1>1, <1>11 DEF IInv, RowsOK, AcceptedIsMember, EverMember
    <3>3. QED
      BY <3>1, <3>2
  <2>2. RowsOK'
    BY <1>1, <2>1 DEF IInv, RowsOK, Member, EverMember
  <2>3. GrantedRoles'
    BY <1>1 DEF IInv, GrantedRoles, Member
  <2>4. AcceptedIsMember'
    BY <1>1, <2>1 DEF AcceptedIsMember, EverMember
  <2>5. granted' \subseteq Workspaces \X Emails \X Roles
    BY <1>1, <1>2, <1>3 DEF IInv, TypeOK
  <2>6. QED
    BY <1>1, <1>11, <2>2, <2>3, <2>4, <2>5 DEF TablesOK, IInv, TypeOK
<1>16. CASE Op(c) = "create"
  <2>1. Placed(c) \in SUBSET Roles
    BY <1>2 DEF Placed
  <2>2. \A r \in Roles : invites'[<<c, r>>] # None => r \notin Placed(c)
    <3>1. \A r \in Roles : invites[<<c, r>>] # None => r \notin x.left
      BY <1>2 DEF CallOK, KeysFree
    <3>2. QED
      BY <3>1, <1>3, <1>13, <1>16 DEF Placed
  <2>3. QED
    BY <1>1, <1>12, <1>14, <1>15, <1>16, <2>1, <2>2, OnwardsKeeps
<1>17. CASE Op(c) # "create"
  <2>1. CallOK(c)' /\ \E y : Becomes(c, y) /\ y \in CallState(y.pc)
    BY <1>1, <1>12, <1>17, ReplyKeeps DEF Replies
  <2>2. QED
    BY <1>12, <1>14, <1>15, <2>1, Assemble
<1>18. QED
  BY <1>16, <1>17

\* The next user of a demo team or the one to add has an address.
LEMMA UserFacts ==
  ASSUME IInv, NEW c \in Slots, NEW pc \in {"user", "newUser"}, At(c, pc)
  PROVE  LET x == calls[c] IN
         /\ x.req \in Request /\ x.pc = pc /\ x.me \in Emails /\ x.seen = None
         /\ x.ws \in Workspaces \cup {None}
         /\ x.left \in SUBSET Roles /\ x.late = FALSE /\ CallOK(c)
         /\ x.req.op \in {"create", "addMember"}
         /\ Named(c).email \in Emails
<1> DEFINE x == calls[c]
<1>1. /\ x.req \in Request /\ x.pc = pc /\ CallOK(c) /\ x.ws \in Workspaces \cup {None}
      /\ x.left \in SUBSET Roles /\ x.late \in BOOLEAN /\ x.seen \in Seen(pc)
      /\ x.req.op \in OpsAt(pc) /\ x.me \in Emails
  BY AtStatement DEF Identifying
<1>2. x.req.op \in {"create", "addMember"} /\ x.seen = None
  BY <1>1 DEF OpsAt, Accepting, Identifying, Seen
<1>3. x.late = FALSE
  BY <1>1, <1>2 DEF CallOK, LateHolds, InviteOps
<1>4. Named(c).email \in Emails
  BY <1>1, <1>2, InviteNamed DEF Named, NextRole, Op, Req, Roles
<1>5. QED
  BY <1>1, <1>2, <1>3, <1>4

\* Going on once the user is there.
LEMMA AfterUserKeeps ==
  ASSUME IInv, Stable, TablesOK', \A d \in Slots : NoNewKey(d),
         NEW c \in Slots, NEW at \in {"user", "newUser"}, At(c, at), AfterUser(c)
  PROVE  IInv'
<1> DEFINE x == calls[c]
           pc == IF Op(c) = "addMember" THEN "lookup"
                 ELSE IF Placed(c) = {} THEN "batch" ELSE "user"
           left == IF pc = "user" THEN Placed(c) ELSE x.left
<1>1. /\ x.req \in Request /\ x.pc = at /\ x.me \in Emails /\ x.seen = None
      /\ x.ws \in Workspaces \cup {None}
      /\ x.left \in SUBSET Roles /\ x.late = FALSE /\ CallOK(c)
      /\ x.req.op \in {"create", "addMember"}
  BY UserFacts
<1>2. Becomes(c, Row(c, pc, x.me, x.ws, None, left, FALSE, x.reply))
  <2>1. CASE pc = "user"
    <3>1. calls' = [calls EXCEPT ![c].pc = "user", ![c].left = Placed(c)]
      BY <2>1 DEF AfterUser
    <3>2. x = Row(c, x.pc, x.me, x.ws, x.seen, x.left, x.late, x.reply)
      BY CallFields DEF IInv
    <3>3. DOMAIN calls = Slots
      BY DEF IInv, TypeOK
    <3>4. QED
      BY <1>1, <2>1, <3>1, <3>2, <3>3 DEF Becomes, Row
  <2>2. CASE pc # "user"
    <3>1. Go(c, pc)
      BY <2>2 DEF AfterUser
    <3>2. QED
      BY <1>1, <2>2, <3>1, GoForm DEF IInv
  <2>3. QED
    BY <2>1, <2>2
<1>3. /\ pc \in Plain /\ None \in Seen(pc) /\ x.req.op \in OpsAt(pc)
      /\ pc \notin Identifying \cup Placing \cup Team \cup {"link", "setStatus"}
  BY <1>1 DEF Plain, Statements, Seen, OpsAt, Identifying, Accepting, Placing, Team, Op, Req
<1>4. left \in SUBSET Roles /\ (pc = "user" => left # {}) /\ pc # "newUser"
  BY <1>1 DEF Placed
<1>5. \A r \in Roles : invites'[<<c, r>>] # None =>
        Req(c).op = "create" /\ pc \in Team /\ r \notin left
  BY <1>1, KeysStayFree DEF Team
<1>6. CallOK(c)' /\ \E y : Becomes(c, y) /\ y \in CallState(y.pc)
  <2> HIDE DEF pc, left
  <2> QED
    BY <1>1, <1>2, <1>3, <1>4, <1>5, MoveKeeps DEF Req
<1>7. QED
  BY <1>6, Assemble

\* upsertUser.
LEMMA UserKeeps ==
  ASSUME IInv, NEW c \in Slots, User(c)
  PROVE  IInv'
<1> DEFINE x == calls[c]
<1>1. At(c, "user") /\ UNCHANGED tables
  BY DEF User
<1>2. /\ x.req \in Request /\ x.pc = "user" /\ x.me \in Emails /\ x.seen = None
      /\ x.req.op \in {"create", "addMember"} /\ CallOK(c)
  BY <1>1, UserFacts
<1>3. CASE AfterUser(c)
  <2>1. Stable /\ TablesOK' /\ \A d \in Slots : NoNewKey(d)
    BY <1>1, UsersOnly DEF tables, IInv, TypeOK
  <2>2. QED
    BY <1>1, <1>3, <2>1, AfterUserKeeps
<1>4. CASE Go(c, "newUser")
  <2>1. x.req.op = "create" => x.left # {}
    BY <1>2 DEF CallOK, Grounded
  <2>2. QED
    BY <1>1, <1>2, <1>4, <2>1, GoOnly
       DEF Plain, Statements, Seen, OpsAt, Identifying, Accepting, Placing, Team, Req
<1>5. QED
  BY <1>3, <1>4 DEF User

\* upsertUser inserts the row.
LEMMA NewUserKeeps ==
  ASSUME IInv, NEW c \in Slots, NewUser(c)
  PROVE  IInv'
<1> DEFINE x == calls[c]
           e == Named(c).email
           row == [subject |-> None, status |-> "ACTIVE", admin |-> FALSE]
<1>1. At(c, "newUser") /\ UNCHANGED <<spaces, members, invites, granted>>
  BY DEF NewUser
<1>2. e \in Emails
  BY <1>1, UserFacts
<1>3. CASE Reply(c, 500) /\ UNCHANGED users
  BY <1>1, <1>3, ReplyOnly DEF tables, Replies
<1>4. CASE users' = [users EXCEPT ![e] = row] /\ AfterUser(c)
  <2>1. row \in UserRow
    BY DEF UserRow, AccountStatuses
  <2>2. row # None
    BY <2>1, NoneAssumption
  <2>3. users \in [Emails -> UserRow \cup {None}]
    BY DEF IInv, TypeOK
  <2> HIDE DEF row, e
  <2>4. /\ users' \in [Emails -> UserRow \cup {None}]
        /\ \A d \in Emails : users[d] # None => users'[d] # None
    BY <1>2, <1>4, <2>1, <2>2, <2>3
  <2>5. Stable /\ TablesOK' /\ \A d \in Slots : NoNewKey(d)
    BY <1>1, <2>4, UsersOnly
  <2>6. QED
    BY <1>1, <1>4, <2>5, AfterUserKeeps
<1>5. QED
  BY <1>3, <1>4 DEF NewUser

\* handleAddMember looks for the membership.
LEMMA LookupKeeps ==
  ASSUME IInv, NEW c \in Slots, Lookup(c)
  PROVE  IInv'
<1> DEFINE x == calls[c]
<1>1. At(c, "lookup") /\ UNCHANGED tables
  BY DEF Lookup
<1>2. /\ x.req \in Request /\ x.pc = "lookup" /\ x.me \in Emails /\ x.seen = None
      /\ x.req.op = "addMember"
  BY <1>1, AtStatement DEF OpsAt, Identifying, Accepting, Seen
<1>3. CASE Reply(c, 409)
  BY <1>1, <1>3, ReplyOnly DEF Replies
<1>4. CASE Go(c, "add")
  BY <1>1, <1>2, <1>4, GoOnly
     DEF Plain, Statements, Seen, OpsAt, Identifying, Accepting, Placing, Team, Req
<1>5. QED
  BY <1>3, <1>4 DEF Lookup

\* handleAddMember and repairMembership insert.
LEMMA AddKeeps ==
  ASSUME IInv, NEW c \in Slots, Add(c)
  PROVE  IInv'
<1> DEFINE x == calls[c]
           r == x.req
           code == IF r.op = "repair" THEN 200 ELSE 201
<1>1. At(c, "add") /\ UNCHANGED <<users, spaces, invites>>
  BY DEF Add
<1>2. /\ r \in Request /\ x.pc = "add" /\ CallOK(c) /\ x.late \in BOOLEAN
      /\ r.op \in {"addMember", "repair"}
  BY <1>1, AtStatement DEF OpsAt, Identifying, Accepting
<1>3. x.ws = r.ws /\ r.ws \in Workspaces /\ r.email \in Emails /\ r.role \in Roles
  BY <1>2, InviteNamed DEF CallOK, Grounded, WorkspaceOps
<1>4. x.late = FALSE
  BY <1>2 DEF CallOK, LateHolds, InviteOps
<1>5. CASE Reply(c, 500) /\ UNCHANGED <<members, granted>>
  BY <1>1, <1>5, ReplyOnly DEF tables, Replies
<1>6. CASE /\ spaces[x.ws] # None
           /\ InsertMember(c, x.ws, r.email, r.role)
           /\ granted' = granted \cup {<<x.ws, r.email, r.role>>}
           /\ Reply(c, code)
  <2>1. granted' \subseteq Workspaces \X Emails \X Roles
    BY <1>3, <1>6 DEF IInv, TypeOK
  <2>2. Stable /\ TablesOK' /\ \A d \in Slots : NoNewKey(d)
    BY <1>1, <1>3, <1>6, <2>1, InsertKeeps
  <2>3. CallOK(c)' /\ \E y : Becomes(c, y) /\ y \in CallState(y.pc)
    BY <1>4, <1>6, <2>2, ReplyKeeps DEF Replies
  <2>4. QED
    BY <2>2, <2>3, Assemble
<1>7. QED
  BY <1>5, <1>6 DEF Add, Grant, Req

\* A demo workspace with its whole team, in one batch.
LEMMA BatchKeeps ==
  ASSUME IInv, NEW c \in Slots, Batch(c)
  PROVE  IInv'
<1> DEFINE x == calls[c]
           team == x.req.team
           in(e) == \E r \in Roles : team[r] = e
           row(e) == IF in(e) THEN [role |-> CHOOSE r \in Roles : team[r] = e, by |-> c]
                     ELSE NoMember
<1>1. At(c, "batch") /\ UNCHANGED <<users, invites>>
  BY DEF Batch
<1>2. /\ x.req \in Request /\ x.pc = "batch" /\ CallOK(c) /\ x.late \in BOOLEAN
      /\ x.me \in Emails /\ x.seen = None /\ x.req.op = "create"
  BY <1>1, AtStatement DEF OpsAt, Identifying, Accepting, Seen
<1>3. team \in [Roles -> Emails]
  BY <1>2, InviteNamed
<1>4. x.late = FALSE
  BY <1>2 DEF CallOK, LateHolds, InviteOps
<1>5. CASE Reply(c, 500) /\ UNCHANGED <<spaces, members, granted>>
  BY <1>1, <1>5, ReplyOnly DEF tables, Replies
<1>6. ASSUME NEW w \in Workspaces, spaces[w] = None,
             spaces' = [spaces EXCEPT ![w] = "demo"],
             members' = [members EXCEPT ![w] = [e \in Emails |-> row(e)]],
             granted' = granted \cup {<<w, team[r], r>> : r \in Roles},
             calls' = [calls EXCEPT ![c] = [@ EXCEPT !.pc = "done",
                                !.reply = 201, !.left = {}, !.ws = w]]
      PROVE  IInv'
  <2>1. \A e \in Emails :
          /\ row(e) \in MemberRow
          /\ row(e).role # None => row(e).by # None /\ <<w, e, row(e).role>> \in granted'
    <3> TAKE e \in Emails
    <3>1. CASE in(e)
      <4>1. PICK r \in Roles : r = CHOOSE q \in Roles : team[q] = e
        BY <3>1
      <4>2. team[r] = e
        BY <3>1, <4>1
      <4>3. row(e) = [role |-> r, by |-> c]
        BY <3>1, <4>1
      <4>4. c # None /\ <<w, e, r>> \in granted'
        BY <4>2, <1>6, DirectoryAssumption
      <4> HIDE DEF row, in
      <4>5. row(e) \in MemberRow
        BY <4>3 DEF MemberRow
      <4>6. row(e).role = r /\ row(e).by = c
        BY <4>3
      <4>7. QED
        BY <4>4, <4>5, <4>6
    <3>2. CASE ~in(e)
      BY <3>2 DEF MemberRow, NoMember
    <3>3. QED
      BY <3>1, <3>2
  <2> HIDE DEF row
  <2>2. /\ members \in [Workspaces -> [Emails -> MemberRow]]
        /\ spaces \in [Workspaces -> {"demo", "prod", None}]
        /\ invites \in [InviteIds -> InviteRow \cup {None}]
    BY DEF IInv, TypeOK
  <2>3. /\ \A e \in Emails : members'[w][e] = row(e)
        /\ \A v \in Workspaces : v # w => members'[v] = members[v]
        /\ members' \in [Workspaces -> [Emails -> MemberRow]]
    BY <1>6, <2>1, <2>2
  <2>4. /\ spaces'[w] # None
        /\ \A v \in Workspaces : v # w => spaces'[v] = spaces[v]
        /\ spaces' \in [Workspaces -> {"demo", "prod", None}]
    BY <1>6, <2>2, NoneAssumption
  <2>5. \A e \in Emails : ~EverMember(w, e)
    BY <1>6 DEF IInv, RowsOK
  <2>6. \A v \in Workspaces, e \in Emails : EverMember(v, e) => v # w /\ members'[v][e].by # None
    BY <2>3, <2>5 DEF EverMember
  <2>7. granted \subseteq granted' /\ granted' \subseteq Workspaces \X Emails \X Roles
    BY <1>3, <1>6 DEF IInv, TypeOK
  <2>8. Stable /\ \A d \in Slots : NoNewKey(d)
    <3>1. \A v \in Workspaces : spaces[v] # None => spaces'[v] # None
      BY <2>4
    <3>2. QED
      BY <1>1, <2>6, <2>7, <3>1 DEF Stable, NoNewKey, EverMember
  <2>9. RowsOK' /\ GrantedRoles' /\ AcceptedIsMember'
    <3>1. \A v \in Workspaces, e \in Emails :
            /\ members'[v][e].role # None =>
                 members'[v][e].by # None /\ <<v, e, members'[v][e].role>> \in granted'
            /\ members'[v][e].by # None => spaces'[v] # None
      <4> TAKE v \in Workspaces, e \in Emails
      <4>1. CASE v = w
        BY <4>1, <2>1, <2>3, <2>4
      <4>2. CASE v # w
        BY <4>2, <2>3, <2>4, <2>7 DEF IInv, RowsOK, GrantedRoles, Member, EverMember
      <4>3. QED
        BY <4>1, <4>2
    <3>2. \A i \in InviteIds : invites[i] # None =>
            invites[i].ws \in Workspaces /\ invites[i].email \in Emails
      BY <2>2 DEF InviteRow
    <3>3. \A i \in InviteIds : invites[i] # None =>
            /\ spaces'[invites[i].ws] # None
            /\ <<invites[i].ws, invites[i].email, invites[i].role>> \in granted'
            /\ invites[i].status = "ACCEPTED" =>
                 members'[invites[i].ws][invites[i].email].by # None
      BY <2>4, <2>6, <2>7, <3>2 DEF IInv, RowsOK, AcceptedIsMember
    <3>4. QED
      BY <1>1, <3>1, <3>3 DEF RowsOK, GrantedRoles, AcceptedIsMember, Member, EverMember
  <2>10. TablesOK'
    BY <1>1, <2>3, <2>4, <2>7, <2>9 DEF TablesOK, IInv, TypeOK
  <2> DEFINE y == Row(c, "done", x.me, w, None, {}, FALSE, 201)
  <2>11. Becomes(c, y)
    <3>1. x = Row(c, x.pc, x.me, x.ws, x.seen, x.left, x.late, x.reply)
      BY CallFields DEF IInv
    <3>2. DOMAIN calls = Slots
      BY DEF IInv, TypeOK
    <3>3. QED
      BY <1>2, <1>4, <1>6, <3>1, <3>2 DEF Becomes, Row
  <2>12. y \in CallState(y.pc)
    BY <1>2 DEF Row, CallState, Seen, Replies
  <2>13. calls'[c] = y
    BY <2>11 DEF Becomes
  <2>14. Grounded(c)'
    BY <1>2, <2>13 DEF CallOK, Grounded, Row, OpsAt, Identifying, Accepting, Placing,
                       Team, WorkspaceOps
  <2>15. KeysFree(c)' /\ ResendHolds(c)' /\ AcceptHolds(c)' /\ LateHolds(c)'
    BY <2>13 DEF KeysFree, ResendHolds, AcceptHolds, LateHolds, Row, Accepting
  <2>16. QED
    BY <2>8, <2>10, <2>11, <2>12, <2>14, <2>15, Assemble DEF CallOK
<1>7. QED
  BY <1>1, <1>5, <1>6 DEF Batch, Req

\* Every statement of creating, inviting and adding.
LEMMA CreateKeeps ==
  ASSUME IInv, NEW c \in Slots, Create(c)
  PROVE  IInv'
BY SpaceKeeps, CreatorKeeps, PersonKeeps, PlaceKeeps, PendingKeeps, IssueKeeps,
   UserKeeps, NewUserKeeps, LookupKeeps, AddKeeps, BatchKeeps DEF Create

-----------------------------------------------------------------------------
(* The platform admin.                                                     *)

\* A request of an admin is never late, unless it revokes.
LEMMA NotLate ==
  ASSUME IInv, NEW c \in Slots, Op(c) \notin InviteOps
  PROVE  calls[c].late = FALSE
BY CallFields DEF IInv, CallOK, LateHolds, Op, Req

\* The admin handlers look the target up.
LEMMA TargetKeeps ==
  ASSUME IInv, NEW c \in Slots, Target(c)
  PROVE  IInv'
<1> DEFINE x == calls[c]
<1>1. At(c, "target") /\ UNCHANGED tables
  BY DEF Target
<1>2. /\ x.req \in Request /\ x.pc = "target" /\ x.me \in Emails /\ x.seen = None
      /\ x.req.op \in {"status", "repair"}
  BY <1>1, AtStatement DEF OpsAt, Identifying, Accepting, Seen
<1>3. CASE Reply(c, 404)
  BY <1>1, <1>3, ReplyOnly DEF Replies
<1>4. CASE users[x.req.email] # None /\ Op(c) = "status" /\ Go(c, "setStatus")
  BY <1>1, <1>2, <1>4, GoOnly
     DEF Plain, Statements, Seen, OpsAt, Identifying, Accepting, Placing, Team, Req, Op
<1>5. CASE Op(c) # "status" /\ Go(c, "membership")
  BY <1>1, <1>2, <1>5, GoOnly
     DEF Plain, Statements, Seen, OpsAt, Identifying, Accepting, Placing, Team, Req, Op
<1>6. QED
  BY <1>3, <1>4, <1>5 DEF Target, Req

\* An account is suspended, disabled or made active.
LEMMA SetAccountStatusKeeps ==
  ASSUME IInv, NEW c \in Slots, SetAccountStatus(c)
  PROVE  IInv'
<1> DEFINE x == calls[c]
           e == x.req.email
           row == [users[e] EXCEPT !.status = x.req.to]
<1>1. /\ At(c, "setStatus") /\ UNCHANGED <<spaces, members, invites, granted>>
      /\ users' = [users EXCEPT ![e] = row] /\ Reply(c, 200)
  BY DEF SetAccountStatus, Req
<1>2. /\ x.req \in Request /\ x.pc = "setStatus" /\ x.req.op = "status" /\ CallOK(c)
  BY <1>1, AtStatement DEF OpsAt, Identifying, Accepting
<1>3. e \in Emails /\ x.req.to \in AccountStatuses
  BY <1>2, InviteNamed
<1>4. users \in [Emails -> UserRow \cup {None}] /\ users[e] \in UserRow
  BY <1>2, <1>3 DEF IInv, TypeOK, CallOK, Grounded
<1>5. row \in UserRow
  BY <1>3, <1>4 DEF UserRow
<1>6. row # None
  BY <1>5, NoneAssumption
<1>7. ~x.late
  BY <1>2, NotLate DEF InviteOps, Op, Req
<1> HIDE DEF row
<1>8. /\ users' \in [Emails -> UserRow \cup {None}]
      /\ \A d \in Emails : users[d] # None => users'[d] # None
  BY <1>1, <1>3, <1>4, <1>5, <1>6
<1>9. Stable /\ TablesOK' /\ \A d \in Slots : NoNewKey(d)
  BY <1>1, <1>8, UsersOnly
<1>10. CallOK(c)' /\ \E y : Becomes(c, y) /\ y \in CallState(y.pc)
  BY <1>1, <1>7, <1>9, ReplyKeeps DEF Replies
<1>11. QED
  BY <1>9, <1>10, Assemble

\* repairMembership and removeMembership read the row.
LEMMA MembershipKeeps ==
  ASSUME IInv, NEW c \in Slots, Membership(c)
  PROVE  IInv'
<1> DEFINE x == calls[c]
           m == members[x.ws][x.req.email]
<1>1. At(c, "membership") /\ UNCHANGED tables
  BY DEF Membership
<1>2. /\ x.req \in Request /\ x.pc = "membership" /\ x.me \in Emails /\ x.seen = None
      /\ x.req.op \in {"repair", "remove"} /\ CallOK(c) /\ x.reply = None
      /\ x.left \in SUBSET Roles /\ x.late \in BOOLEAN
  BY <1>1, AtStatement DEF OpsAt, Identifying, Accepting, Seen
<1>3. x.ws = x.req.ws /\ x.ws \in Workspaces /\ x.req.email \in Emails
  BY <1>2, InviteNamed DEF CallOK, Grounded
<1>4. CASE Reply(c, 409) \/ Reply(c, 404)
  BY <1>1, <1>4, ReplyOnly DEF Replies
<1>5. CASE Op(c) = "repair" /\ Go(c, "add")
  BY <1>1, <1>2, <1>5, GoOnly
     DEF Plain, Statements, Seen, OpsAt, Identifying, Accepting, Placing, Team, Req, Op
<1>6. ASSUME NEW pc \in {"change", "count", "delete"}, m.role # None, Note(c, pc, m.by),
             x.req.op \in OpsAt(pc)
      PROVE  IInv'
  <2>1. m.by \in Slots \cup {Earlier}
    <3>1. m \in MemberRow
      BY <1>3 DEF IInv, TypeOK
    <3>2. m.by # None
      BY <1>3, <1>6 DEF IInv, RowsOK, Member, EverMember
    <3>3. QED
      BY <3>1, <3>2 DEF MemberRow
  <2>2. Becomes(c, Row(c, pc, x.me, x.ws, m.by, x.left, x.late, x.reply))
    BY <1>6, NoteForm DEF IInv
  <2>3. Stable /\ NoNewKey(c)
    BY <1>1 DEF Stable, NoNewKey, tables, EverMember
  <2>4. \A r \in Roles : invites'[<<c, r>>] # None =>
          Req(c).op = "create" /\ pc \in Team /\ r \notin x.left
    BY <1>2, <2>3, KeysStayFree DEF Team
  <2>5. /\ pc \in Plain /\ m.by \in Seen(pc)
        /\ pc \notin Identifying \cup Placing \cup Team
                     \cup {"user", "newUser", "link", "setStatus"}
    BY <2>1 DEF Plain, Statements, Seen, Identifying, Placing, Team, Accepting
  <2>6. CallOK(c)' /\ \E y : Becomes(c, y) /\ y \in CallState(y.pc)
    <3> HIDE DEF m
    <3> QED
      BY <1>2, <1>3, <1>6, <2>2, <2>3, <2>4, <2>5, MoveKeeps DEF Req
  <2>7. QED
    BY <1>1, <2>6, CallOnly
<1>7. "repair" \in OpsAt("change") /\ "remove" \in OpsAt("count") \cap OpsAt("delete")
  BY DEF OpsAt, Identifying, Accepting
<1>8. CASE Op(c) = "repair"
  <2>1. CASE m.role \in {None, x.req.role}
    BY <1>4, <1>5, <1>8, <2>1 DEF Membership, Req
  <2>2. CASE m.role \notin {None, x.req.role}
    BY <1>6, <1>7, <1>8, <2>2 DEF Membership, Op, Req
  <2>3. QED
    BY <2>1, <2>2
<1>9. CASE Op(c) = "remove"
  BY <1>4, <1>6, <1>7, <1>9 DEF Membership, Op, Req
<1>10. QED
  BY <1>2, <1>8, <1>9 DEF Op, Req

\* removeMembership counts the managers.
LEMMA CountKeeps ==
  ASSUME IInv, NEW c \in Slots, Count(c)
  PROVE  IInv'
<1> DEFINE x == calls[c]
<1>1. At(c, "count") /\ UNCHANGED tables
  BY DEF Count
<1>2. /\ x.req \in Request /\ x.pc = "count" /\ x.me \in Emails
      /\ x.req.op = "remove" /\ x.seen \in Seen("delete")
  BY <1>1, AtStatement DEF OpsAt, Identifying, Accepting, Seen
<1>3. CASE Reply(c, 409)
  BY <1>1, <1>3, ReplyOnly DEF Replies
<1>4. CASE Go(c, "delete")
  BY <1>1, <1>2, <1>4, GoOnly
     DEF Plain, Statements, OpsAt, Identifying, Accepting, Placing, Team, Req
<1>5. QED
  BY <1>3, <1>4 DEF Count

\* A member gets another role that was granted, or none, and keeps the rest.
LEMMA RegradeKeeps ==
  ASSUME IInv, NEW c \in Slots, NEW w \in Workspaces, NEW e \in Emails,
         NEW role \in Roles \cup {None},
         \/ members' = members
         \/ Member(w, e) /\ members' = [members EXCEPT ![w][e].role = role],
         UNCHANGED <<users, spaces, invites>>,
         granted \subseteq granted', granted' \subseteq Workspaces \X Emails \X Roles,
         role # None => <<w, e, role>> \in granted'
  PROVE  Stable /\ TablesOK' /\ \A d \in Slots : NoNewKey(d)
<1>1. members \in [Workspaces -> [Emails -> MemberRow]]
  BY DEF IInv, TypeOK
<1>2. \A v \in Workspaces, d \in Emails :
        /\ members'[v][d].by = members[v][d].by
        /\ \/ members'[v][d].role = members[v][d].role
           \/ v = w /\ d = e /\ members'[v][d].role = role /\ Member(w, e)
  <2>1. CASE members' = members
    BY <2>1
  <2>2. CASE Member(w, e) /\ members' = [members EXCEPT ![w][e].role = role]
    BY <2>2, <1>1 DEF MemberRow
  <2>3. QED
    BY <2>1, <2>2
<1>3. members' \in [Workspaces -> [Emails -> MemberRow]]
  <2> DEFINE row == [members[w][e] EXCEPT !.role = role]
  <2>1. members[w][e] \in MemberRow
    BY <1>1
  <2>2. row \in MemberRow
    BY <2>1 DEF MemberRow
  <2>3. members' = members \/ members' = [members EXCEPT ![w] = [members[w] EXCEPT ![e] = row]]
    BY <1>1
  <2> HIDE DEF row
  <2>4. QED
    BY <1>1, <2>2, <2>3
<1>4. Stable /\ \A d \in Slots : NoNewKey(d)
  BY <1>2 DEF Stable, NoNewKey, EverMember
<1>5. RowsOK' /\ GrantedRoles'
  <2>1. \A v \in Workspaces, d \in Emails :
          /\ members'[v][d].role # None =>
               members'[v][d].by # None /\ <<v, d, members'[v][d].role>> \in granted'
          /\ members'[v][d].by # None => spaces[v] # None
    BY <1>2 DEF IInv, RowsOK, GrantedRoles, Member, EverMember
  <2>2. QED
    BY <2>1 DEF IInv, RowsOK, GrantedRoles, Member, EverMember
<1>6. AcceptedIsMember'
  <2>1. \A i \in InviteIds : invites[i] # None =>
          invites[i].ws \in Workspaces /\ invites[i].email \in Emails
    BY DEF IInv, TypeOK, InviteRow
  <2>2. QED
    BY <1>2, <2>1 DEF IInv, AcceptedIsMember, EverMember
<1>7. QED
  BY <1>3, <1>4, <1>5, <1>6 DEF TablesOK, IInv, TypeOK

\* repairMembership updates the row it read.
LEMMA ChangeKeeps ==
  ASSUME IInv, NEW c \in Slots, Change(c)
  PROVE  IInv'
<1> DEFINE x == calls[c]
           r == x.req
<1>1. /\ At(c, "change") /\ UNCHANGED <<users, spaces, invites>>
      /\ members' = IF SameRow(c) THEN [members EXCEPT ![x.ws][r.email].role = r.role]
                    ELSE members
      /\ granted' = granted \cup {<<x.ws, r.email, r.role>>}
      /\ Reply(c, 200)
  BY DEF Change, Grant, Req
<1>2. r \in Request /\ x.pc = "change" /\ r.op = "repair" /\ CallOK(c)
  BY <1>1, AtStatement DEF OpsAt, Identifying, Accepting
<1>3. x.ws = r.ws /\ x.ws \in Workspaces /\ r.email \in Emails /\ r.role \in Roles
  BY <1>2, InviteNamed DEF CallOK, Grounded
<1>4. ~x.late
  BY <1>2, NotLate DEF InviteOps, Op, Req
<1>5. granted' \subseteq Workspaces \X Emails \X Roles
  BY <1>1, <1>3 DEF IInv, TypeOK
<1>6. Stable /\ TablesOK' /\ \A d \in Slots : NoNewKey(d)
  BY <1>1, <1>3, <1>5, RegradeKeeps DEF SameRow, Member, Req
<1>7. CallOK(c)' /\ \E y : Becomes(c, y) /\ y \in CallState(y.pc)
  BY <1>1, <1>4, <1>6, ReplyKeeps DEF Replies
<1>8. QED
  BY <1>6, <1>7, Assemble

\* removeMembership deletes the row it read.
LEMMA DeleteKeeps ==
  ASSUME IInv, NEW c \in Slots, Delete(c)
  PROVE  IInv'
<1> DEFINE x == calls[c]
           r == x.req
<1>1. /\ At(c, "delete") /\ UNCHANGED <<users, spaces, invites, granted>>
      /\ members' = IF SameRow(c) THEN [members EXCEPT ![x.ws][r.email].role = None]
                    ELSE members
      /\ Reply(c, 200)
  BY DEF Delete, Req
<1>2. r \in Request /\ x.pc = "delete" /\ r.op = "remove" /\ CallOK(c)
  BY <1>1, AtStatement DEF OpsAt, Identifying, Accepting
<1>3. x.ws = r.ws /\ x.ws \in Workspaces /\ r.email \in Emails
  BY <1>2, InviteNamed DEF CallOK, Grounded
<1>4. ~x.late
  BY <1>2, NotLate DEF InviteOps, Op, Req
<1>5. granted' \subseteq Workspaces \X Emails \X Roles
  BY <1>1 DEF IInv, TypeOK
<1>6. Stable /\ TablesOK' /\ \A d \in Slots : NoNewKey(d)
  BY <1>1, <1>3, <1>5, RegradeKeeps DEF SameRow, Member, Req
<1>7. CallOK(c)' /\ \E y : Becomes(c, y) /\ y \in CallState(y.pc)
  BY <1>1, <1>4, <1>6, ReplyKeeps DEF Replies
<1>8. QED
  BY <1>6, <1>7, Assemble

\* Every statement of the platform admin.
LEMMA OperateKeeps ==
  ASSUME IInv, NEW c \in Slots, Operate(c)
  PROVE  IInv'
BY TargetKeeps, SetAccountStatusKeeps, MembershipKeeps, CountKeeps, ChangeKeeps,
   DeleteKeeps DEF Operate

-----------------------------------------------------------------------------
(* The invariant.                                                          *)

\* An invitation runs out of time; no request moves.
LEMMA LapseKeeps ==
  ASSUME IInv, NEW i \in InviteIds, Lapse(i)
  PROVE  IInv'
<1> DEFINE row == [invites[i] EXCEPT !.lapsed = TRUE]
<1>1. /\ invites' = [invites EXCEPT ![i] = row] /\ invites[i] # None
      /\ UNCHANGED <<users, spaces, members, granted, calls>>
  BY DEF Lapse
<1>2. invites \in [InviteIds -> InviteRow \cup {None}] /\ invites[i] \in InviteRow
  BY <1>1 DEF IInv, TypeOK
<1>3. /\ row \in InviteRow /\ row.ws = invites[i].ws /\ row.email = invites[i].email
      /\ row.role = invites[i].role /\ row.status = invites[i].status
  BY <1>2 DEF InviteRow
<1>4. row # None
  BY <1>3, NoneAssumption
<1> HIDE DEF row
<1>5. /\ invites'[i] = row
      /\ \A j \in InviteIds : j # i => invites'[j] = invites[j]
      /\ invites' \in [InviteIds -> InviteRow \cup {None}]
  BY <1>1, <1>2, <1>3
<1>6. Stable
  BY <1>1, <1>3, <1>4, <1>5 DEF Stable, EverMember
<1>7. \A d \in Slots : NoNewKey(d)
  <2> SUFFICES ASSUME NEW d \in Slots, NEW r \in Roles, invites'[<<d, r>>] # None
               PROVE  invites[<<d, r>>] # None
    BY DEF NoNewKey
  <2>1. <<d, r>> \in InviteIds
    BY DEF InviteIds
  <2>2. QED
    BY <2>1, <1>1, <1>5
<1>8. RowsOK' /\ GrantedRoles' /\ AcceptedIsMember'
  <2>1. \A j \in InviteIds : invites'[j] # None =>
          /\ invites[j] # None /\ invites'[j].ws = invites[j].ws
          /\ invites'[j].email = invites[j].email /\ invites'[j].role = invites[j].role
          /\ invites'[j].status = invites[j].status
    BY <1>1, <1>3, <1>5
  <2>2. QED
    BY <1>1, <2>1 DEF IInv, RowsOK, GrantedRoles, AcceptedIsMember, Member, EverMember
<1>9. TypeOK'
  <2>1. \A d \in Slots : (calls[d] \in CallState(calls[d].pc))'
    BY <1>1 DEF IInv, TypeOK, CallState, Seen, UserRow, InviteRow, Request, Caller,
                Statements
  <2>2. QED
    BY <1>1, <1>5, <2>1 DEF IInv, TypeOK
<1>10. \A d \in Slots : CallOK(d)'
  BY <1>1, <1>6, <1>7, OthersKeep
<1>11. QED
  BY <1>8, <1>9, <1>10 DEF IInv

\* Every statement of a request, also the one it dies at.
LEMMA StepKeeps ==
  ASSUME IInv, NEW c \in Slots, Step(c)
  PROVE  IInv'
<1>1. CASE Fail(c)
  BY <1>1, ReplyOnly DEF Fail, Replies
<1>2. QED
  BY <1>1, ArriveKeeps, IdentifyKeeps, RoleKeeps, AnswerKeeps, CreateKeeps, OperateKeeps
     DEF Step

\* What earlier requests left satisfies the invariant.
LEMMA InitHolds ==
  ASSUME Init
  PROVE  IInv
<1>1. PICK s \in Seeds :
        /\ users = s.users /\ spaces = s.spaces
        /\ members = s.members /\ invites = s.invites
        /\ granted =
             {g \in Workspaces \X Emails \X Roles :
                \/ members[g[1]][g[2]].role = g[3]
                \/ \E i \in InviteIds : /\ invites[i] # None
                                        /\ invites[i].ws = g[1]
                                        /\ invites[i].email = g[2]
                                        /\ invites[i].role = g[3]}
        /\ \E rs \in [Slots -> s.requests] :
             calls = [c \in Slots |-> NewCall(rs[c])]
  BY DEF Init
<1>2. PICK rs \in [Slots -> s.requests] : calls = [c \in Slots |-> NewCall(rs[c])]
  BY <1>1
<1>3. /\ users \in [Emails -> UserRow \cup {None}]
      /\ spaces \in [Workspaces -> {"demo", "prod", None}]
      /\ members \in [Workspaces -> [Emails -> MemberRow]]
      /\ invites \in [InviteIds -> InviteRow \cup {None}]
      /\ granted \subseteq Workspaces \X Emails \X Roles
      /\ s.requests \subseteq Request
  BY <1>1, SeedsAssumption
<1>4. \A i \in InviteIds : invites[i] # None =>
        /\ i[1] = Earlier /\ spaces[invites[i].ws] # None
        /\ invites[i].status = "ACCEPTED" =>
             members[invites[i].ws][invites[i].email].by # None
        /\ <<invites[i].ws, invites[i].email, invites[i].role>> \in granted
  <2>1. \A i \in InviteIds : invites[i] # None =>
          /\ invites[i].ws \in Workspaces /\ invites[i].email \in Emails
          /\ invites[i].role \in Roles
    BY <1>3 DEF InviteRow
  <2>2. QED
    BY <1>1, <2>1, HistoryAssumption, NoneAssumption
<1>5. \A w \in Workspaces, e \in Emails :
        /\ members[w][e].role # None =>
             members[w][e].by # None /\ <<w, e, members[w][e].role>> \in granted
        /\ members[w][e].by # None => spaces[w] # None
  <2>1. \A w \in Workspaces, e \in Emails :
          members[w][e].role # None => members[w][e].role \in Roles
    BY <1>3 DEF MemberRow
  <2>2. QED
    BY <1>1, <2>1, HistoryAssumption
<1>6. \A c \in Slots :
        /\ calls[c] = NewCall(rs[c]) /\ rs[c] \in Request
        /\ rs[c].by.subject = None => rs[c].op \in WorkspaceOps \cup {"create"}
  BY <1>1, <1>2, SeedsAssumption
<1>7. \A c \in Slots :
         LET x == calls[c] IN
         /\ x.req = rs[c] /\ x.pc = "new" /\ x.me = None /\ x.seen = None
         /\ x.left = {} /\ x.late = FALSE /\ x.reply = None
         /\ x.ws = IF rs[c].op \in WorkspaceOps \cup {"repair", "remove", "adminRevoke"}
                     THEN rs[c].ws ELSE None
  <2> TAKE c \in Slots
  <2> DEFINE ws == IF rs[c].op \in WorkspaceOps \cup {"repair", "remove", "adminRevoke"}
                     THEN rs[c].ws ELSE None
  <2>1. calls[c] = [req |-> rs[c], pc |-> "new", me |-> None, seen |-> None, left |-> {},
                    ws |-> ws, late |-> FALSE, reply |-> None]
    BY <1>6 DEF NewCall
  <2> HIDE DEF ws
  <2>2. /\ calls[c].req = rs[c] /\ calls[c].pc = "new" /\ calls[c].me = None
        /\ calls[c].seen = None /\ calls[c].left = {} /\ calls[c].late = FALSE
        /\ calls[c].reply = None /\ calls[c].ws = ws
    BY <2>1
  <2>3. QED
    BY <2>2 DEF ws
<1>8. \A c \in Slots : calls[c] \in CallState(calls[c].pc)
  <2> TAKE c \in Slots
  <2>1. rs[c].op \in WorkspaceOps \cup {"repair", "remove", "adminRevoke"}
          => rs[c].ws \in Workspaces
    BY <1>6, InviteNamed
  <2> DEFINE ws == IF rs[c].op \in WorkspaceOps \cup {"repair", "remove", "adminRevoke"}
                     THEN rs[c].ws ELSE None
  <2>2. calls[c] = [req |-> rs[c], pc |-> "new", me |-> None, seen |-> None, left |-> {},
                    ws |-> ws, late |-> FALSE, reply |-> None]
    BY <1>6 DEF NewCall
  <2>3. ws \in Workspaces \cup {None}
    BY <2>1
  <2> HIDE DEF ws
  <2>4. Seen("new") = {None} /\ calls[c].pc = "new"
    BY <2>2 DEF Seen
  <2>5. QED
    BY <1>6, <2>2, <2>3, <2>4 DEF CallState
<1>9. \A c \in Slots : CallOK(c)
  <2> TAKE c \in Slots
  <2>1. Grounded(c)
    <3>1. rs[c].op \in OpsAt("new")
      BY <1>6, InviteNamed DEF OpsAt, Identifying, Accepting
    <3>2. QED
      BY <1>6, <1>7, <3>1 DEF Grounded, Identifying, Placing, Team, WorkspaceOps
  <2>2. KeysFree(c)
    <3>1. \A r \in Roles : invites[<<c, r>>] = None
      <4> TAKE r \in Roles
      <4>1. <<c, r>> \in InviteIds /\ <<c, r>>[1] # Earlier
        BY DirectoryAssumption DEF InviteIds
      <4>2. QED
        BY <4>1, <1>4
    <3>2. QED
      BY <3>1 DEF KeysFree
  <2>3. ResendHolds(c) /\ AcceptHolds(c) /\ LateHolds(c)
    BY <1>7 DEF ResendHolds, AcceptHolds, LateHolds, Accepting
  <2>4. QED
    BY <2>1, <2>2, <2>3 DEF CallOK
<1>10. QED
  BY <1>2, <1>3, <1>4, <1>5, <1>8, <1>9
     DEF IInv, TypeOK, RowsOK, GrantedRoles, AcceptedIsMember, Member, EverMember

\* Every statement of every request keeps the invariant, in any interleaving.
THEOREM Invariance == Spec => []IInv
<1>1. Init => IInv
  BY InitHolds
<1>2. IInv /\ [Next]_vars => IInv'
  <2>1. ASSUME IInv, Next PROVE IInv'
    BY <2>1, StepKeeps, LapseKeeps DEF Next
  <2>2. ASSUME IInv, UNCHANGED vars PROVE IInv'
    BY <2>2 DEF vars, IInv, TypeOK, CallState, Seen, RowsOK, GrantedRoles,
                AcceptedIsMember, Member, EverMember, CallOK, Grounded, KeysFree,
                ResendHolds, AcceptHolds, LateHolds, Named, NextRole, Op, Req, Settled
  <2>3. QED
    BY <2>1, <2>2
<1>3. QED
  BY <1>1, <1>2, PTL DEF Spec

\* The tables and the requests keep their types (migrations/0001, 0002).
THEOREM TypeCorrect == Spec => []TypeOK
<1>1. IInv => TypeOK
  BY DEF IInv
<1>2. QED
  BY <1>1, Invariance, PTL

\* Nobody ever holds a role that no lead, creator or admin gave to that
\* address, for any number of concurrent invitations, resends and joins.
THEOREM OnlyGrantedRoles == Spec => []GrantedRoles
<1>1. IInv => GrantedRoles
  BY DEF IInv
<1>2. QED
  BY <1>1, Invariance, PTL

\* An invitation is marked accepted only when its address was made a member,
\* whatever failed or raced in between (acceptInvitation).
THEOREM AcceptedAreMembers == Spec => []AcceptedIsMember
<1>1. IInv => AcceptedIsMember
  BY DEF IInv
<1>2. QED
  BY <1>1, Invariance, PTL

\* An invitation that was settled before a request about it came in stays
\* settled and the request is never granted.
THEOREM ReplaysRejected == Spec => []ReplayRejected
<1>1. IInv => ReplayRejected
  BY DEF IInv, CallOK, LateHolds, ReplayRejected, Accepting
<1>2. QED
  BY <1>1, Invariance, PTL

-----------------------------------------------------------------------------
(* The demo and production.  Invitations are production's; a request of    *)
(* either works in workspaces of its own mode.                             *)

Mode(c) == IF Demo(c) THEN "demo" ELSE "prod"
NonDemo == Placing \cup Accepting \cup {"space", "invitation", "revoke"}
Adding  == {"user", "newUser", "lookup", "add"}
ModeHolds(c) ==
  LET x == calls[c] IN
  /\ x.pc \in NonDemo => ~Demo(c)
  /\ \/ x.pc \in Placing
     \/ x.pc \in Adding /\ x.req.op = "addMember"
     => x.ws \in Workspaces /\ spaces[x.ws] = Mode(c)

\* Somebody is or was a member of a workspace, or is invited to it.
Provided(w, e) ==
  /\ w \in Workspaces /\ e \in Emails
  /\ EverMember(w, e) \/ \E i \in InviteIds : About(invites[i], w) /\ invites[i].email = e

\* Of a team, the creator and the ones that are done have been provided for.
TeamHolds(c) ==
  LET x == calls[c] IN
  x.req.op = "create" =>
    /\ x.pc \in Team => /\ Provided(x.ws, x.me)
                        /\ \A r \in Roles \ x.left : Provided(x.ws, x.req.team[r])
    /\ x.reply = 201 => \A r \in Roles : Provided(x.ws, x.req.team[r])

InvitedInProd == \A i \in InviteIds : invites[i] # None => spaces[invites[i].ws] = "prod"
MInv == InvitedInProd /\ \A c \in Slots : ModeHolds(c) /\ TeamHolds(c)

\* Workspaces keep their mode, members were members, an invitation keeps its
\* workspace and its address, and new ones are production's.
Lasting ==
  /\ \A w \in Workspaces : spaces[w] # None => spaces'[w] = spaces[w]
  /\ \A w \in Workspaces, e \in Emails : EverMember(w, e) => EverMember(w, e)'
  /\ \A i \in InviteIds : invites[i] # None =>
       /\ invites'[i] # None
       /\ invites'[i].ws = invites[i].ws
       /\ invites'[i].email = invites[i].email
  /\ \A i \in InviteIds : invites'[i] # None => spaces'[invites'[i].ws] = "prod"

\* The tables stay as they are.
LEMMA SameLasts ==
  ASSUME IInv, MInv, UNCHANGED <<spaces, members, invites>>
  PROVE  Lasting
BY DEF Lasting, MInv, InvitedInProd, EverMember

\* Who is provided for stays so.
LEMMA ProvidedLasts ==
  ASSUME Lasting, NEW w, NEW e, Provided(w, e)
  PROVE  Provided(w, e)'
<1>1. w \in Workspaces /\ e \in Emails
  BY DEF Provided
<1>2. CASE EverMember(w, e)
  BY <1>1, <1>2 DEF Provided, Lasting
<1>3. CASE \E i \in InviteIds : About(invites[i], w) /\ invites[i].email = e
  <2>1. PICK i \in InviteIds : About(invites[i], w) /\ invites[i].email = e
    BY <1>3
  <2>2. About(invites'[i], w) /\ invites'[i].email = e
    BY <2>1 DEF About, Lasting
  <2>3. QED
    BY <1>1, <2>2 DEF Provided
<1>4. QED
  BY <1>2, <1>3 DEF Provided

\* One request has moved on.
Turned(c, pc, me, ws, left, reply) ==
  /\ \A d \in Slots \ {c} : calls'[d] = calls[d]
  /\ LET y == calls'[c] IN
     /\ y.req = calls[c].req /\ y.pc = pc /\ y.me = me /\ y.ws = ws
     /\ y.left = left /\ y.reply = reply
LEMMA TurnedIs ==
  ASSUME NEW c \in Slots, NEW pc, NEW me, NEW ws, NEW seen, NEW left, NEW late, NEW reply,
         Becomes(c, Row(c, pc, me, ws, seen, left, late, reply))
  PROVE  Turned(c, pc, me, ws, left, reply)
BY DEF Becomes, Row, Turned

\* The others keep their part.
LEMMA TurnKeeps ==
  ASSUME IInv, MInv, Lasting, NEW c \in Slots, NEW pc, NEW me, NEW ws, NEW left, NEW reply,
         NEW team, team = Req(c).team, Turned(c, pc, me, ws, left, reply),
         pc \in NonDemo => ~Demo(c),
         pc \in Placing \/ (pc \in Adding /\ Op(c) = "addMember") =>
           ws \in Workspaces /\ spaces'[ws] = Mode(c),
         Op(c) = "create" /\ pc \in Team =>
           Provided(ws, me)' /\ \A r \in Roles \ left : Provided(ws, team[r])',
         Op(c) = "create" /\ reply = 201 => \A r \in Roles : Provided(ws, team[r])'
  PROVE  MInv'
<1>1. InvitedInProd'
  BY DEF Lasting, InvitedInProd
<1>2. ModeHolds(c)'
  BY DEF ModeHolds, Turned, Mode, Demo, Req, Op
<1>3. TeamHolds(c)'
  BY DEF TeamHolds, Turned, Req, Op
<1>4. ASSUME NEW d \in Slots \ {c} PROVE ModeHolds(d)' /\ TeamHolds(d)'
  <2>1. ModeHolds(d) /\ TeamHolds(d) /\ calls'[d] = calls[d]
    BY DEF MInv, Turned
  <2>2. spaces \in [Workspaces -> {"demo", "prod", None}] /\ Mode(d) # None
    BY NoneAssumption DEF IInv, TypeOK, Mode
  <2>3. ModeHolds(d)'
    BY <2>1, <2>2 DEF ModeHolds, Mode, Demo, Req, Lasting
  <2>4. TeamHolds(d)'
    BY <2>1, ProvidedLasts DEF TeamHolds
  <2>5. QED
    BY <2>3, <2>4
<1>5. QED
  BY <1>1, <1>2, <1>3, <1>4 DEF MInv

\* An answer.
LEMMA ReplyTurns ==
  ASSUME IInv, MInv, Lasting, NEW c \in Slots, NEW code, Reply(c, code),
         NEW ws, ws = calls[c].ws, NEW team, team = Req(c).team,
         Op(c) = "create" /\ code = 201 => \A r \in Roles : Provided(ws, team[r])'
  PROVE  MInv'
<1>1. PICK me : me = calls[c].me
  OBVIOUS
<1>2. Turned(c, "done", me, ws, {}, code)
  BY <1>1, ReplyForm, TurnedIs DEF IInv
<1>3. "done" \notin NonDemo /\ "done" \notin Placing /\ "done" \notin Adding /\ "done" \notin Team
  BY DEF NonDemo, Placing, Accepting, Adding, Team
<1>4. QED
  BY <1>2, <1>3, TurnKeeps

\* An answer that is no creation's.
LEMMA RefusalTurns ==
  ASSUME IInv, MInv, Lasting, NEW c \in Slots, NEW code, Reply(c, code),
         Op(c) # "create" \/ code # 201
  PROVE  MInv'
<1>1. PICK ws, team : ws = calls[c].ws /\ team = Req(c).team
  OBVIOUS
<1>2. QED
  BY <1>1, ReplyTurns

\* The next statement, whatever was read.
LEMMA NoteTurns ==
  ASSUME IInv, MInv, Lasting, NEW c \in Slots, NEW pc, NEW seen,
         Go(c, pc) \/ Note(c, pc, seen), calls[c].pc # "done",
         pc \in NonDemo => ~Demo(c),
         pc \in Placing => calls[c].pc \in Placing,
         pc \in Adding /\ Op(c) = "addMember" => calls[c].pc \in Adding,
         Op(c) = "create" /\ pc \in Team => calls[c].pc \in Team
  PROVE  MInv'
<1>1. PICK ws, me, left, reply : /\ ws = calls[c].ws /\ me = calls[c].me
                                 /\ left = calls[c].left /\ reply = calls[c].reply
  OBVIOUS
<1>2. PICK team : team = Req(c).team
  OBVIOUS
<1>3. Turned(c, pc, me, ws, left, reply)
  BY <1>1, GoForm, NoteForm, TurnedIs DEF IInv
<1>4. reply # 201
  <2>1. reply = None
    BY <1>1 DEF IInv, CallOK, Grounded
  <2>2. 201 \in Replies /\ None \notin Replies
    BY DirectoryAssumption DEF Replies
  <2>3. QED
    BY <2>1, <2>2
<1>5. ModeHolds(c) /\ TeamHolds(c)
  BY DEF MInv
<1>6. pc \in Placing \/ (pc \in Adding /\ Op(c) = "addMember") =>
        ws \in Workspaces /\ spaces'[ws] = Mode(c)
  <2>1. pc \in Placing \/ (pc \in Adding /\ Op(c) = "addMember") =>
          ws \in Workspaces /\ spaces[ws] = Mode(c)
    BY <1>1, <1>5 DEF ModeHolds, Op, Req
  <2>2. Mode(c) # None
    BY NoneAssumption DEF Mode
  <2>3. QED
    BY <2>1, <2>2 DEF Lasting
<1>7. Op(c) = "create" /\ pc \in Team =>
        Provided(ws, me)' /\ \A r \in Roles \ left : Provided(ws, team[r])'
  <2>1. Op(c) = "create" /\ pc \in Team =>
          Provided(ws, me) /\ \A r \in Roles \ left : Provided(ws, team[r])
    BY <1>1, <1>2, <1>5 DEF TeamHolds, Op, Req
  <2>2. QED
    BY <2>1, ProvidedLasts
<1>8. QED
  BY <1>2, <1>3, <1>4, <1>6, <1>7, TurnKeeps

\* A statement that is neither's, of a request that is not answered.
LEMMA QuietTurns ==
  ASSUME IInv, MInv, Lasting, NEW c \in Slots, NEW pc, NEW me, NEW ws, NEW left, NEW reply,
         Turned(c, pc, me, ws, left, reply), pc \notin NonDemo,
         ~(pc \in Adding /\ Op(c) = "addMember"), reply # 201
  PROVE  MInv'
<1>1. pc \notin Placing /\ pc \notin Team
  BY DEF NonDemo, Placing, Team
<1>2. PICK team : team = Req(c).team
  OBVIOUS
<1>3. QED
  BY <1>1, <1>2, TurnKeeps

\* Of a request that is not answered, the reply is none.
LEMMA NoReply ==
  ASSUME IInv, NEW c \in Slots, calls[c].pc # "done"
  PROVE  calls[c].reply # 201
<1>1. calls[c].reply = None
  BY DEF IInv, CallOK, Grounded
<1>2. 201 \in Replies /\ None \notin Replies
  BY DirectoryAssumption DEF Replies
<1>3. QED
  BY <1>1, <1>2

\* A request arrives.
LEMMA ArriveTurns ==
  ASSUME IInv, MInv, NEW c \in Slots, Arrive(c)
  PROVE  MInv'
<1>1. Lasting
  BY SameLasts DEF Arrive, tables
<1>2. PICK start, me, left, late :
        /\ calls' = [calls EXCEPT ![c].pc = start, ![c].me = me, ![c].left = left,
                                  ![c].late = late]
        /\ start \in {"bySubject", "user", "role"}
        /\ start = "user" => Op(c) = "create"
  <2> DEFINE pc == IF ~Demo(c) THEN "bySubject"
                   ELSE IF Req(c).op = "create" THEN "user" ELSE "role"
             by == IF Demo(c) THEN Req(c).by.email ELSE None
             all == IF Demo(c) /\ Req(c).op = "create" THEN Roles ELSE {}
             old == "invite" \in DOMAIN Req(c) /\ Settled(Req(c).invite)
  <2>1. calls' = [calls EXCEPT ![c].pc = pc, ![c].me = by, ![c].left = all, ![c].late = old]
    BY DEF Arrive
  <2>2. pc \in {"bySubject", "user", "role"} /\ (pc = "user" => Op(c) = "create")
    BY DEF Op
  <2> HIDE DEF pc, by, all, old
  <2>3. QED
    BY <2>1, <2>2, Zenon
<1>3. PICK ws, reply : ws = calls[c].ws /\ reply = calls[c].reply
  OBVIOUS
<1>4. Turned(c, start, me, ws, left, reply)
  <2>1. calls[c] = Row(c, calls[c].pc, calls[c].me, calls[c].ws, calls[c].seen,
                       calls[c].left, calls[c].late, calls[c].reply)
    BY CallFields DEF IInv
  <2>2. DOMAIN calls = Slots
    BY DEF IInv, TypeOK
  <2>3. QED
    BY <1>2, <1>3, <2>1, <2>2 DEF Turned, Row
<1>5. reply # 201
  BY <1>3, NoReply DEF Arrive, At
<1>6. start \notin NonDemo /\ ~(start \in Adding /\ Op(c) = "addMember")
  BY <1>2 DEF NonDemo, Placing, Accepting, Adding
<1>7. QED
  BY <1>1, <1>4, <1>5, <1>6, QuietTurns

\* A production caller is known.
LEMMA IdentifiedTurns ==
  ASSUME IInv, MInv, Lasting, NEW c \in Slots, calls[c].pc \in Identifying,
         NEW e \in Emails, NEW status, NEW admin, Identified(c, e, status, admin)
  PROVE  MInv'
<1>1. CASE \E code \in {200, 400, 403} : Reply(c, code)
  BY <1>1, RefusalTurns
<1>2. CASE calls' = [calls EXCEPT ![c].pc = First(Op(c)), ![c].me = e, ![c].seen = None]
           /\ Op(c) # "me"
  <2>1. PICK pc, ws, left, reply : /\ pc = First(Op(c)) /\ ws = calls[c].ws
                                   /\ left = calls[c].left /\ reply = calls[c].reply
    OBVIOUS
  <2>2. Turned(c, pc, e, ws, left, reply)
    <3>1. calls[c] = Row(c, calls[c].pc, calls[c].me, calls[c].ws, calls[c].seen,
                         calls[c].left, calls[c].late, calls[c].reply)
      BY CallFields DEF IInv
    <3>2. DOMAIN calls = Slots
      BY DEF IInv, TypeOK
    <3>3. QED
      BY <1>2, <2>1, <3>1, <3>2 DEF Turned, Row
  <2>3. ~Demo(c) /\ reply # 201
    <3>1. CallOK(c)
      BY DEF IInv
    <3>2. ~Demo(c)
      BY <3>1 DEF CallOK, Grounded, Demo, Req
    <3>3. calls[c].pc # "done"
      BY DEF Identifying
    <3>4. QED
      BY <2>1, <3>2, <3>3, NoReply
  <2>4. pc \notin Placing /\ pc \notin Adding /\ pc \notin Team
    <3>1. Op(c) \in {"accept", "create"} \cup AdminOps \cup WorkspaceOps
      BY <1>2, CallFields, InviteNamed DEF IInv, Op, Req
    <3>2. pc \in {"role", "invitation", "space", "target", "membership"}
      BY <2>1, <3>1 DEF First, AdminOps, WorkspaceOps
    <3>3. QED
      BY <3>2 DEF Placing, Adding, Team
  <2>5. PICK team : team = Req(c).team
    OBVIOUS
  <2>6. QED
    BY <2>2, <2>3, <2>4, <2>5, TurnKeeps
<1>3. QED
  BY <1>1, <1>2 DEF Identified, Op

\* requireProductionUser.
LEMMA IdentifyTurns ==
  ASSUME IInv, MInv, NEW c \in Slots, Identify(c)
  PROVE  MInv'
<1>1. Lasting
  BY SameLasts DEF Identify, BySubject, ByEmail, Link, Taken, SignUp, tables
<1>2. calls[c].pc \in Identifying /\ calls[c].pc # "done"
  BY DEF Identify, BySubject, ByEmail, Link, Taken, SignUp, At, Identifying
<1>3. Req(c).by.email \in Emails
  BY CallFields, InviteNamed DEF IInv, Req, Caller
<1>4. ASSUME NEW pc \in Identifying, NEW seen, Go(c, pc) \/ Note(c, pc, seen) PROVE MInv'
  <2>1. pc \notin NonDemo /\ pc \notin Placing /\ pc \notin Adding /\ pc \notin Team
    BY DEF NonDemo, Placing, Accepting, Adding, Team, Identifying
  <2>2. QED
    BY <1>1, <1>2, <1>4, <2>1, NoteTurns
<1>5. ASSUME NEW code \in {409, 500}, Reply(c, code) PROVE MInv'
  BY <1>1, <1>5, RefusalTurns
<1>6. CASE BySubject(c)
  <2>1. "byEmail" \in Identifying
    BY DEF Identifying
  <2>2. QED
    BY <1>1, <1>2, <1>4, <1>6, <2>1, IdentifiedTurns DEF BySubject
<1>7. CASE ByEmail(c)
  BY <1>4, <1>7 DEF ByEmail, Identifying
<1>8. CASE Link(c)
  BY <1>1, <1>2, <1>3, <1>5, <1>8, IdentifiedTurns DEF Link
<1>9. CASE Taken(c)
  BY <1>4, <1>5, <1>9 DEF Taken, Identifying
<1>10. CASE SignUp(c)
  BY <1>1, <1>2, <1>3, <1>5, <1>10, IdentifiedTurns DEF SignUp
<1>11. QED
  BY <1>6, <1>7, <1>8, <1>9, <1>10 DEF Identify

\* A request is let into a workspace of its own mode.
LEMMA RoleTurns ==
  ASSUME IInv, MInv, NEW c \in Slots, Role(c)
  PROVE  MInv'
<1>1. Lasting
  BY SameLasts DEF Role, tables
<1>2. calls[c].pc = "role" /\ Op(c) \in WorkspaceOps /\ calls[c].ws \in Workspaces
  <2>1. At(c, "role")
    BY DEF Role
  <2>2. calls[c].req.op \in WorkspaceOps /\ calls[c].req \in Request /\ CallOK(c)
        /\ calls[c].pc = "role"
    BY <2>1, AtStatement DEF OpsAt, Identifying, Accepting
  <2>3. QED
    BY <2>2, InviteNamed DEF CallOK, Grounded, Op, Req
<1>3. CASE \E code \in {200, 403, 404} : Reply(c, code)
  BY <1>1, <1>3, RefusalTurns
<1>4. CASE /\ RoleIn(c, calls[c].ws) # None
           /\ \E pc \in {"pending", "invitation", "user"} :
                Go(c, pc) /\ (pc # "user" => ~Demo(c))
  <2>1. PICK pc \in {"pending", "invitation", "user"} : Go(c, pc) /\ (pc # "user" => ~Demo(c))
    BY <1>4
  <2>2. PICK ws, me, left, reply : /\ ws = calls[c].ws /\ me = calls[c].me
                                   /\ left = calls[c].left /\ reply = calls[c].reply
    OBVIOUS
  <2>3. Turned(c, pc, me, ws, left, reply)
    BY <2>1, <2>2, GoForm, TurnedIs DEF IInv
  <2>4. reply # 201
    BY <1>2, <2>2, NoReply
  <2>5. ws \in Workspaces /\ spaces[ws] = Mode(c) /\ spaces'[ws] = Mode(c)
    <3>1. spaces[ws] = Mode(c)
      BY <1>4, <2>2 DEF RoleIn, Mode
    <3>2. UNCHANGED spaces
      BY DEF Role, tables
    <3>3. QED
      BY <1>2, <2>2, <3>1, <3>2
  <2>6. Op(c) # "create"
    BY <1>2 DEF WorkspaceOps
  <2>7. pc \in NonDemo => ~Demo(c)
    BY <2>1 DEF NonDemo, Placing, Accepting
  <2>8. PICK team : team = Req(c).team
    OBVIOUS
  <2>9. QED
    BY <1>1, <2>3, <2>4, <2>5, <2>6, <2>7, <2>8, TurnKeeps
<1>5. CASE RoleIn(c, calls[c].ws) = None
  BY <1>3, <1>5 DEF Role
<1>6. CASE RoleIn(c, calls[c].ws) # None
  <2>1. CASE Op(c) = "open"
    BY <1>3, <1>6, <2>1 DEF Role
  <2>2. CASE Op(c) \in {"invite", "revoke"} /\ Demo(c)
    BY <1>3, <1>6, <2>2 DEF Role
  <2>3. CASE Op(c) # "open" /\ ~(Op(c) \in {"invite", "revoke"} /\ Demo(c))
    <3>1. PICK pc : pc = CASE Op(c) = "invite" -> "pending"
                           [] Op(c) = "revoke" -> "invitation"
                           [] OTHER            -> "user"
      OBVIOUS
    <3>2. pc \in {"pending", "invitation", "user"} /\ (pc # "user" => ~Demo(c))
      BY <2>3, <3>1
    <3>3. Reply(c, 403) \/ Go(c, pc)
      BY <1>6, <2>3, <3>1 DEF Role
    <3>4. QED
      BY <1>3, <1>4, <1>6, <3>2, <3>3
  <2>4. QED
    BY <2>1, <2>2, <2>3
<1>7. QED
  BY <1>5, <1>6

\* A membership is inserted.
LEMMA InsertLasts ==
  ASSUME IInv, MInv, NEW c \in Slots, NEW w \in Workspaces, NEW e \in Emails, NEW role,
         InsertMember(c, w, e, role), UNCHANGED <<spaces, invites>>
  PROVE  Lasting /\ EverMember(w, e)'
<1>1. members \in [Workspaces -> [Emails -> MemberRow]] /\ c # None
  BY DirectoryAssumption DEF IInv, TypeOK
<1>2. PICK row : row = [role |-> role, by |-> c]
  OBVIOUS
<1>3. row.by = c
  BY <1>2
<1>4. members' = [members EXCEPT ![w] = [members[w] EXCEPT ![e] = row]]
  BY <1>1, <1>2 DEF InsertMember
<1>5. /\ members'[w][e] = row
      /\ \A v \in Workspaces, d \in Emails :
           v # w \/ d # e => members'[v][d] = members[v][d]
  BY <1>1, <1>4
<1>6. \A v \in Workspaces, d \in Emails : EverMember(v, d) => EverMember(v, d)'
  BY <1>1, <1>3, <1>5 DEF EverMember
<1>7. EverMember(w, e)'
  BY <1>1, <1>3, <1>5 DEF EverMember
<1>8. QED
  BY <1>6, <1>7 DEF Lasting, MInv, InvitedInProd

\* An invitation is settled or runs out of time.
LEMMA UpdateLasts ==
  ASSUME IInv, MInv, NEW i \in InviteIds, NEW row, invites[i] # None, row # None,
         row.ws = invites[i].ws, row.email = invites[i].email,
         invites' = [invites EXCEPT ![i] = row], UNCHANGED <<spaces, members>>
  PROVE  Lasting
<1>1. \A j \in InviteIds : invites'[j] = IF j = i THEN row ELSE invites[j]
  BY DEF IInv, TypeOK
<1>2. \A j \in InviteIds : invites'[j] # None =>
        invites[j] # None /\ invites'[j].ws = invites[j].ws
  BY <1>1
<1>3. QED
  BY <1>1, <1>2 DEF Lasting, MInv, InvitedInProd, EverMember

\* Where a request about an invitation stands.
LEMMA AnswerFacts ==
  ASSUME IInv, MInv, NEW c \in Slots,
         calls[c].pc \in Accepting \cup {"invitation", "revoke"}
  PROVE  /\ Op(c) \in InviteOps /\ Op(c) # "create" /\ ~Demo(c)
         /\ Req(c).invite \in InviteIds
<1>1. calls[c].req \in Request /\ CallOK(c) /\ ModeHolds(c)
  BY CallFields DEF IInv, MInv
<1>2. calls[c].req.op \in InviteOps
  BY <1>1 DEF CallOK, Grounded, OpsAt, Accepting, InviteOps, Identifying
<1>3. ~Demo(c)
  BY <1>1 DEF ModeHolds, NonDemo
<1>4. QED
  BY <1>1, <1>2, <1>3, InviteNamed DEF Op, Req, InviteOps

\* An invitation gets its final status.
LEMMA SettleTurns ==
  ASSUME IInv, MInv, NEW c \in Slots, calls[c].pc \in {"accepted", "expire", "revoke"},
         NEW status \in InvitationStatuses, NEW code, code # 201, SetStatus(c, status, code)
  PROVE  MInv' /\ Lasting
<1>1. PICK i \in InviteIds : i = Req(c).invite
  BY AnswerFacts DEF Accepting
<1>2. invites[i] # None
  BY <1>1 DEF IInv, CallOK, AcceptHolds, Accepting, Req
<1>3. invites[i] \in InviteRow
  BY <1>2 DEF IInv, TypeOK
<1>4. PICK row : row = [invites[i] EXCEPT !.status = status]
  OBVIOUS
<1>5. row \in InviteRow /\ row.ws = invites[i].ws /\ row.email = invites[i].email
  BY <1>3, <1>4 DEF InviteRow
<1>6. invites' = [invites EXCEPT ![i] = row] /\ UNCHANGED <<spaces, members>> /\ Reply(c, code)
  BY <1>1, <1>4 DEF SetStatus
<1>7. row # None
  BY <1>5, NoneAssumption
<1>8. Lasting
  BY <1>2, <1>5, <1>6, <1>7, UpdateLasts
<1>9. QED
  BY <1>6, <1>8, RefusalTurns

\* acceptInvitation and revokeInvitation.
LEMMA AnswerTurns ==
  ASSUME IInv, MInv, NEW c \in Slots, Answer(c)
  PROVE  MInv'
<1>1. calls[c].pc \in Accepting \cup {"invitation", "revoke"} /\ calls[c].pc # "done"
  BY DEF Answer, Invitation, MemberYet, Join, Accepted, Revoke, Expire, At, Accepting
<1>2. ~Demo(c) /\ Op(c) # "create"
  BY <1>1, AnswerFacts
<1>3. ASSUME Lasting, NEW pc \in Accepting \cup {"revoke"}, NEW seen,
             Go(c, pc) \/ Note(c, pc, seen)
      PROVE  MInv'
  <2>1. pc \notin Placing /\ pc \notin Adding /\ pc \notin Team
    BY <1>3 DEF Placing, Adding, Team, Accepting
  <2>2. QED
    BY <1>1, <1>2, <1>3, <2>1, NoteTurns
<1>4. CASE Invitation(c)
  <2>1. Lasting
    BY <1>4, SameLasts DEF Invitation, tables
  <2>2. ASSUME NEW code, Reply(c, code) PROVE MInv'
    BY <1>2, <2>1, <2>2, RefusalTurns
  <2>3. QED
    BY <1>3, <1>4, <2>1, <2>2 DEF Invitation, Accepting
<1>5. CASE MemberYet(c)
  <2>1. Lasting
    BY <1>5, SameLasts DEF MemberYet, tables
  <2>2. QED
    BY <1>3, <1>5, <2>1 DEF MemberYet, Accepting
<1>6. CASE Join(c)
  <2>1. calls[c].seen.ws \in Workspaces /\ calls[c].me \in Emails
    <3>1. At(c, "join") /\ "join" \in Accepting
      BY <1>6 DEF Join, Accepting
    <3>2. calls[c].seen \in InviteRow /\ calls[c].me \in Emails
      BY <3>1, AcceptingFacts
    <3>3. QED
      BY <3>2 DEF InviteRow
  <2>2. CASE InsertMember(c, calls[c].seen.ws, calls[c].me, calls[c].seen.role)
             /\ Go(c, "accepted")
    <3>1. UNCHANGED <<spaces, invites>>
      BY <1>6 DEF Join
    <3>2. PICK w, e, role :
            /\ w \in Workspaces /\ e \in Emails
            /\ w = calls[c].seen.ws /\ e = calls[c].me /\ role = calls[c].seen.role
      BY <2>1
    <3>3. Lasting
      BY <2>2, <3>1, <3>2, InsertLasts
    <3>4. QED
      BY <1>3, <2>2, <3>3 DEF Accepting
  <2>3. CASE Reply(c, 500) /\ UNCHANGED members
    <3>1. Lasting
      BY <1>6, <2>3, SameLasts DEF Join
    <3>2. QED
      BY <2>3, <3>1, RefusalTurns
  <2>4. QED
    BY <1>6, <2>2, <2>3 DEF Join
<1>7. CASE Accepted(c)
  BY <1>7, SettleTurns DEF Accepted, At, InvitationStatuses
<1>8. CASE Revoke(c)
  BY <1>8, SettleTurns DEF Revoke, At, InvitationStatuses
<1>9. CASE Expire(c)
  BY <1>9, SettleTurns DEF Expire, At, InvitationStatuses
<1>10. QED
  BY <1>4, <1>5, <1>6, <1>7, <1>8, <1>9 DEF Answer

\* createWorkspace inserts a workspace of production.
LEMMA SpaceTurns ==
  ASSUME IInv, MInv, NEW c \in Slots, Space(c)
  PROVE  MInv'
<1>1. calls[c].pc = "space" /\ calls[c].pc # "done" /\ UNCHANGED <<members, invites>>
  BY DEF Space, At
<1>2. PICK w \in Workspaces :
        /\ spaces[w] = None
        /\ spaces' = [spaces EXCEPT ![w] = "prod"]
        /\ calls' = [calls EXCEPT ![c].pc = "creator", ![c].ws = w]
  BY DEF Space
<1>3. /\ spaces'[w] = "prod" /\ \A v \in Workspaces : v # w => spaces'[v] = spaces[v]
      /\ None # "prod"
  BY <1>2, NoneAssumption DEF IInv, TypeOK
<1>4. Lasting
  <2>1. \A i \in InviteIds : invites[i] # None => invites[i].ws \in Workspaces
    BY DEF IInv, TypeOK, InviteRow
  <2>2. QED
    BY <1>1, <1>2, <1>3, <2>1 DEF Lasting, MInv, InvitedInProd, EverMember
<1>5. PICK me, left, reply, team : /\ me = calls[c].me /\ left = calls[c].left
                                   /\ reply = calls[c].reply /\ team = Req(c).team
  OBVIOUS
<1>6. Turned(c, "creator", me, w, left, reply)
  <2>1. calls[c] = Row(c, calls[c].pc, calls[c].me, calls[c].ws, calls[c].seen,
                       calls[c].left, calls[c].late, calls[c].reply)
    BY CallFields DEF IInv
  <2>2. DOMAIN calls = Slots
    BY DEF IInv, TypeOK
  <2>3. QED
    BY <1>2, <1>5, <2>1, <2>2 DEF Turned, Row
<1>7. ~Demo(c) /\ Mode(c) = "prod" /\ reply # 201
  BY <1>1, <1>5, NoReply DEF MInv, ModeHolds, NonDemo, Mode
<1>8. "creator" \notin Team
  BY DEF Team
<1>9. QED
  BY <1>3, <1>4, <1>5, <1>6, <1>7, <1>8, TurnKeeps

\* The loop over the team goes on when who is done has been provided for.
LEMMA OnwardsTurns ==
  ASSUME IInv, MInv, Lasting, NEW c \in Slots, calls[c].pc \in Placing, Op(c) = "create",
         NEW ws, ws = calls[c].ws, NEW me, me = calls[c].me, NEW team, team = Req(c).team,
         NEW left, Onwards(c, left), Provided(ws, me)',
         \A r \in Roles \ left : Provided(ws, team[r])'
  PROVE  MInv'
<1>1. PICK rest : rest = {role \in left : team[role] # me}
  OBVIOUS
<1>2. \A r \in Roles \ rest : Provided(ws, team[r])'
  BY <1>1
<1>3. CASE rest = {}
  <2>1. Reply(c, 201)
    BY <1>1, <1>3 DEF Onwards
  <2>2. \A r \in Roles : Provided(ws, team[r])'
    BY <1>2, <1>3
  <2>3. QED
    BY <2>1, <2>2, ReplyTurns
<1>4. CASE rest # {}
  <2>1. calls' = [calls EXCEPT ![c].pc = "person", ![c].left = rest, ![c].seen = None]
    BY <1>1, <1>4 DEF Onwards
  <2>2. PICK reply : reply = calls[c].reply
    OBVIOUS
  <2>3. Turned(c, "person", me, ws, rest, reply)
    <3>1. calls[c] = Row(c, calls[c].pc, calls[c].me, calls[c].ws, calls[c].seen,
                         calls[c].left, calls[c].late, calls[c].reply)
      BY CallFields DEF IInv
    <3>2. DOMAIN calls = Slots
      BY DEF IInv, TypeOK
    <3>3. QED
      BY <2>1, <2>2, <3>1, <3>2 DEF Turned, Row
  <2>4. reply # 201
    BY <2>2, NoReply DEF Placing
  <2>5. ~Demo(c) /\ ws \in Workspaces /\ spaces'[ws] = Mode(c)
    <3>1. ModeHolds(c)
      BY DEF MInv
    <3>2. ~Demo(c) /\ ws \in Workspaces /\ spaces[ws] = Mode(c)
      BY <3>1 DEF ModeHolds, NonDemo
    <3>3. Mode(c) # None
      BY NoneAssumption DEF Mode
    <3>4. QED
      BY <3>2, <3>3 DEF Lasting
  <2>6. QED
    BY <1>2, <2>3, <2>4, <2>5, TurnKeeps
<1>5. QED
  BY <1>3, <1>4

\* Where a creation or an invitation stands.
LEMMA PlacingHolds ==
  ASSUME IInv, MInv, NEW c \in Slots, NEW pc \in Placing, At(c, pc)
  PROVE  /\ calls[c].pc = pc /\ pc # "done" /\ ~Demo(c)
         /\ calls[c].ws \in Workspaces /\ spaces[calls[c].ws] = "prod"
         /\ calls[c].me \in Emails
         /\ Op(c) = "create" => Req(c).team \in [Roles -> Emails]
         /\ Op(c) \in {"create", "invite"}
<1>1. calls[c].pc = pc /\ pc # "done" /\ ModeHolds(c)
  BY DEF At, MInv, Placing
<1>2. QED
  BY <1>1, PlacingFacts DEF ModeHolds, NonDemo, Mode, Op, Req

\* The creator is placed first.
LEMMA CreatorTurns ==
  ASSUME IInv, MInv, NEW c \in Slots, Creator(c)
  PROVE  MInv'
<1>1. At(c, "creator") /\ "creator" \in Placing
  BY DEF Creator, Placing
<1>2. PICK ws, me, team :
        /\ ws \in Workspaces /\ me \in Emails
        /\ ws = calls[c].ws /\ me = calls[c].me /\ team = Req(c).team
  BY <1>1, PlacingHolds
<1>3. Op(c) = "create" /\ calls[c].pc \in Placing
  <2>1. calls[c].req.op \in OpsAt("creator") /\ calls[c].pc = "creator"
    BY <1>1, AtStatement
  <2>2. QED
    BY <1>1, <2>1 DEF OpsAt, Identifying, Accepting, Op, Req
<1>4. Lasting /\ EverMember(ws, me)'
  <2>1. InsertMember(c, ws, me, Req(c).role) /\ UNCHANGED <<spaces, invites>>
    BY <1>2 DEF Creator
  <2>2. PICK role : role = Req(c).role
    OBVIOUS
  <2>3. QED
    BY <1>2, <2>1, <2>2, InsertLasts
<1>5. Provided(ws, me)'
  BY <1>2, <1>4 DEF Provided
<1>6. Onwards(c, Roles)
  BY DEF Creator
<1>7. QED
  BY <1>2, <1>3, <1>4, <1>5, <1>6, OnwardsTurns

\* The next of the team is looked up, and then a pending invitation.
LEMMA PersonTurns ==
  ASSUME IInv, MInv, NEW c \in Slots, Person(c) \/ Pending(c)
  PROVE  MInv'
<1>1. Lasting
  BY SameLasts DEF Person, Pending, tables
<1>2. calls[c].pc \in {"person", "pending"}
  BY DEF Person, Pending, At
<1>3. ~Demo(c)
  BY <1>2 DEF MInv, ModeHolds, NonDemo, Placing
<1>4. PICK pc \in {"place", "pending", "issue"} : Go(c, pc) \/ \E seen : Note(c, pc, seen)
  BY Zenon DEF Person, Pending
<1>5. pc \notin Adding /\ calls[c].pc \in Team /\ calls[c].pc \in Placing /\ calls[c].pc # "done"
  BY <1>2, <1>4 DEF Adding, Team, Placing
<1>6. PICK seen : Go(c, pc) \/ Note(c, pc, seen)
  BY <1>4
<1>7. QED
  BY <1>1, <1>3, <1>5, <1>6, NoteTurns

\* Whoever was named has been provided for: the team is one smaller.
LEMMA NamedTurns ==
  ASSUME IInv, MInv, Lasting, NEW c \in Slots, NEW pc \in Team, At(c, pc), Op(c) = "create",
         NEW ws, ws = calls[c].ws, NEW e, e = Named(c).email, Provided(ws, e)',
         Onwards(c, Placed(c))
  PROVE  MInv'
<1>1. calls[c].pc = pc /\ pc \in Placing
  BY DEF At, Team, Placing
<1>2. PICK me, team, left, role :
        /\ me = calls[c].me /\ team = Req(c).team /\ left = calls[c].left
        /\ role = NextRole(calls[c].left)
  OBVIOUS
<1>3. Provided(ws, me) /\ \A r \in Roles \ left : Provided(ws, team[r])
  BY <1>1, <1>2 DEF MInv, TeamHolds, Op, Req
<1>4. e = team[role] /\ Placed(c) = left \ {role}
  BY <1>2 DEF Named, Placed
<1>5. Provided(ws, me)' /\ \A r \in Roles \ left : Provided(ws, team[r])'
  BY <1>3, ProvidedLasts
<1>6. \A r \in Roles \ (left \ {role}) : Provided(ws, team[r])'
  BY <1>4, <1>5
<1>7. Onwards(c, left \ {role})
  BY <1>4
<1>8. PICK after : after = left \ {role}
  OBVIOUS
<1>9. Onwards(c, after) /\ \A r \in Roles \ after : Provided(ws, team[r])'
  BY <1>6, <1>7, <1>8
<1>10. QED
  BY <1>1, <1>2, <1>5, <1>9, OnwardsTurns

\* A known person is placed.
LEMMA PlaceTurns ==
  ASSUME IInv, MInv, NEW c \in Slots, Place(c)
  PROVE  MInv'
<1>1. At(c, "place") /\ "place" \in Placing /\ "place" \in Team /\ UNCHANGED <<spaces, invites>>
  BY DEF Place, Placing, Team
<1>2. PICK ws, e, role :
        /\ ws \in Workspaces /\ e \in Emails
        /\ ws = calls[c].ws /\ e = Named(c).email /\ role = Named(c).role
  BY <1>1, PlacingHolds, NamedFacts
<1>3. Op(c) = "create"
  <2>1. calls[c].req.op \in OpsAt("place")
    BY <1>1, AtStatement
  <2>2. QED
    BY <2>1 DEF OpsAt, Identifying, Accepting, Op, Req
<1>4. CASE InsertMember(c, ws, e, role) /\ Onwards(c, Placed(c))
  <2>1. Lasting /\ EverMember(ws, e)'
    BY <1>1, <1>2, <1>4, InsertLasts
  <2>2. Provided(ws, e)'
    BY <1>2, <2>1 DEF Provided
  <2>3. QED
    BY <1>1, <1>2, <1>3, <1>4, <2>1, <2>2, NamedTurns
<1>5. CASE Reply(c, 500) /\ UNCHANGED members
  <2>1. Lasting
    BY <1>1, <1>5, SameLasts
  <2>2. QED
    BY <1>5, <2>1, RefusalTurns
<1>6. QED
  BY <1>2, <1>4, <1>5 DEF Place

\* The row Issue writes: the one it found, or one under a free key.
LEMMA IssueWrites ==
  ASSUME IInv, NEW c \in Slots, Issue(c)
  PROVE  \E key \in InviteIds, row \in InviteRow :
           /\ invites' = [invites EXCEPT ![key] = row]
           /\ row.ws = calls[c].ws /\ row.email = Named(c).email
           /\ invites[key] # None =>
                row.ws = invites[key].ws /\ row.email = invites[key].email
<1> DEFINE x == calls[c]
           p == Named(c)
<1>1. At(c, "issue") /\ "issue" \in Placing /\ "issue" \in Team
  BY DEF Issue, Placing, Team
<1>2. /\ x.ws \in Workspaces /\ x.pc = "issue" /\ CallOK(c)
      /\ x.req.op \in {"create", "invite"} /\ x.seen \in InviteIds \cup {None}
  BY <1>1, PlacingFacts, AtStatement DEF Seen
<1>3. /\ p.email \in Emails /\ p.role \in Roles
      /\ Op(c) = "create" => p.role \in x.left
  BY <1>1, NamedFacts
<1>4. invites \in [InviteIds -> InviteRow \cup {None}]
  BY DEF IInv, TypeOK
<1>5. CASE x.seen # None
  <2>1. PICK key, row : key = x.seen /\ row = Resent(invites[x.seen], p.role)
    OBVIOUS
  <2>2. invites[key] # None /\ invites[key].ws = x.ws /\ invites[key].email = p.email
    BY <1>2, <1>5, <2>1 DEF CallOK, ResendHolds
  <2>3. key \in InviteIds /\ invites[key] \in InviteRow
    BY <1>2, <1>4, <1>5, <2>1, <2>2
  <2>4. row = [invites[key] EXCEPT !.role = p.role, !.lapsed = FALSE]
    BY <2>1 DEF Resent
  <2>5. row \in InviteRow /\ row.ws = invites[key].ws /\ row.email = invites[key].email
    BY <1>3, <2>3, <2>4 DEF InviteRow
  <2>6. invites' = [invites EXCEPT ![key] = row]
    BY <1>5, <2>1 DEF Issue
  <2>7. QED
    BY <2>2, <2>3, <2>5, <2>6
<1>6. CASE x.seen = None
  <2>1. PICK key, row : /\ key = <<c, p.role>>
                        /\ row = [ws |-> x.ws, email |-> p.email, role |-> p.role,
                                  status |-> "PENDING", lapsed |-> FALSE]
    OBVIOUS
  <2>2. key \in InviteIds /\ row \in InviteRow /\ row.ws = x.ws /\ row.email = p.email
    BY <1>2, <1>3, <2>1 DEF InviteIds, InviteRow, InvitationStatuses
  <2>3. invites[key] = None
    BY <1>2, <1>3, <2>1 DEF CallOK, KeysFree, Op, Req
  <2>4. invites' = [invites EXCEPT ![key] = row]
    BY <1>6, <2>1 DEF Issue
  <2>5. QED
    BY <2>2, <2>3, <2>4
<1>7. QED
  BY <1>5, <1>6

\* Whoever is not known is invited.
LEMMA IssueTurns ==
  ASSUME IInv, MInv, NEW c \in Slots, Issue(c)
  PROVE  MInv'
<1>1. At(c, "issue") /\ "issue" \in Placing /\ "issue" \in Team /\ UNCHANGED <<spaces, members>>
  BY DEF Issue, Placing, Team
<1>2. PICK ws \in Workspaces, e \in Emails : ws = calls[c].ws /\ e = Named(c).email
  BY <1>1, PlacingHolds, NamedFacts
<1>3. spaces[ws] = "prod" /\ Op(c) \in {"create", "invite"}
  BY <1>1, <1>2, PlacingHolds
<1>4. PICK key \in InviteIds, row \in InviteRow :
        /\ invites' = [invites EXCEPT ![key] = row]
        /\ row.ws = ws /\ row.email = e
        /\ invites[key] # None =>
             row.ws = invites[key].ws /\ row.email = invites[key].email
  BY <1>2, IssueWrites
<1>5. row # None /\ \A i \in InviteIds : invites'[i] = IF i = key THEN row ELSE invites[i]
  BY <1>4, NoneAssumption DEF IInv, TypeOK
<1>6. Lasting
  BY <1>1, <1>3, <1>4, <1>5 DEF Lasting, MInv, InvitedInProd, EverMember
<1>7. Provided(ws, e)'
  BY <1>2, <1>4, <1>5 DEF Provided, About
<1>8. CASE Op(c) = "create"
  <2>1. Onwards(c, Placed(c))
    BY <1>8 DEF Issue
  <2>2. QED
    BY <1>1, <1>2, <1>6, <1>7, <1>8, <2>1, NamedTurns
<1>9. CASE Op(c) = "invite"
  <2>1. Reply(c, 201)
    BY <1>9 DEF Issue
  <2>2. QED
    BY <1>6, <1>9, <2>1, RefusalTurns
<1>10. QED
  BY <1>3, <1>8, <1>9

\* Where adding a member or the demo's creation stands.
LEMMA AddingFacts ==
  ASSUME IInv, MInv, NEW c \in Slots, calls[c].pc \in Adding
  PROVE  /\ calls[c].pc # "done" /\ Op(c) \in {"create", "addMember", "repair"}
         /\ Op(c) = "addMember" => calls[c].ws \in Workspaces /\ spaces[calls[c].ws] = Mode(c)
<1>1. calls[c].pc # "done" /\ CallOK(c) /\ ModeHolds(c)
  BY DEF Adding, IInv, MInv
<1>2. QED
  BY <1>1 DEF CallOK, Grounded, OpsAt, Identifying, Accepting, Adding, ModeHolds, Op, Req

\* The next of the demo's team, the batch, or the look-up of the member.
LEMMA AfterUserTurns ==
  ASSUME IInv, MInv, Lasting, NEW c \in Slots, calls[c].pc \in {"user", "newUser"},
         AfterUser(c)
  PROVE  MInv'
<1>1. calls[c].pc \in Adding /\ calls[c].pc # "done" /\ Op(c) \in {"create", "addMember", "repair"}
  BY AddingFacts DEF Adding
<1>2. ASSUME NEW pc \in {"lookup", "batch"}, Go(c, pc) PROVE MInv'
  <2>1. pc \notin NonDemo /\ pc \notin Placing /\ pc \notin Team
    BY <1>2 DEF NonDemo, Placing, Accepting, Team
  <2>2. QED
    BY <1>1, <1>2, <2>1, NoteTurns
<1>3. CASE /\ Op(c) # "addMember"
           /\ calls' = [calls EXCEPT ![c].pc = "user", ![c].left = Placed(c)]
  <2>1. PICK me, ws, left, reply : /\ me = calls[c].me /\ ws = calls[c].ws
                                   /\ left = Placed(c) /\ reply = calls[c].reply
    OBVIOUS
  <2>2. Turned(c, "user", me, ws, left, reply)
    <3>1. calls[c] = Row(c, calls[c].pc, calls[c].me, calls[c].ws, calls[c].seen,
                         calls[c].left, calls[c].late, calls[c].reply)
      BY CallFields DEF IInv
    <3>2. DOMAIN calls = Slots
      BY DEF IInv, TypeOK
    <3>3. QED
      BY <1>3, <2>1, <3>1, <3>2 DEF Turned, Row
  <2>3. reply # 201
    BY <1>1, <2>1, NoReply
  <2>4. "user" \notin NonDemo
    BY DEF NonDemo, Placing, Accepting
  <2>5. QED
    BY <1>3, <2>2, <2>3, <2>4, QuietTurns
<1>4. QED
  BY <1>2, <1>3 DEF AfterUser

\* upsertUser.
LEMMA UserTurns ==
  ASSUME IInv, MInv, NEW c \in Slots, User(c) \/ NewUser(c)
  PROVE  MInv'
<1>1. Lasting
  BY SameLasts DEF User, NewUser, tables
<1>2. calls[c].pc \in {"user", "newUser"} /\ calls[c].pc \in Adding
  BY DEF User, NewUser, At, Adding
<1>3. CASE AfterUser(c)
  BY <1>1, <1>2, <1>3, AfterUserTurns
<1>4. CASE Reply(c, 500)
  BY <1>1, <1>4, RefusalTurns
<1>5. CASE Go(c, "newUser")
  <2>1. "newUser" \notin NonDemo /\ "newUser" \notin Placing /\ "newUser" \notin Team
    BY DEF NonDemo, Placing, Accepting, Team
  <2>2. QED
    BY <1>1, <1>2, <1>5, <2>1, AddingFacts, NoteTurns
<1>6. QED
  BY <1>3, <1>4, <1>5 DEF User, NewUser

\* handleAddMember looks for the membership and inserts it; repairMembership
\* inserts it too.
LEMMA AddTurns ==
  ASSUME IInv, MInv, NEW c \in Slots, Lookup(c) \/ Add(c)
  PROVE  MInv'
<1>1. calls[c].pc \in {"lookup", "add"} /\ calls[c].pc \in Adding
  BY DEF Lookup, Add, At, Adding
<1>2. Op(c) # "create" /\ CallOK(c)
  <2>1. CallOK(c)
    BY DEF IInv
  <2>2. QED
    BY <1>1, <2>1 DEF CallOK, Grounded, OpsAt, Identifying, Accepting, Op, Req
<1>3. ASSUME Lasting, NEW code, Reply(c, code) PROVE MInv'
  BY <1>2, <1>3, RefusalTurns
<1>4. CASE Lookup(c)
  <2>1. Lasting
    BY <1>4, SameLasts DEF Lookup, tables
  <2>2. CASE Go(c, "add")
    <3>1. "add" \notin NonDemo /\ "add" \notin Placing /\ "add" \notin Team
      BY DEF NonDemo, Placing, Accepting, Team
    <3>2. QED
      BY <1>1, <2>1, <2>2, <3>1, AddingFacts, NoteTurns
  <2>3. QED
    BY <1>3, <1>4, <2>1, <2>2 DEF Lookup
<1>5. CASE Add(c)
  <2>1. PICK code : Reply(c, code)
    BY <1>5 DEF Add
  <2>2. PICK w, e, role : w = calls[c].ws /\ e = Req(c).email /\ role = Req(c).role
    OBVIOUS
  <2>3. w \in Workspaces /\ e \in Emails
    <3>1. calls[c].req \in Request /\ calls[c].req.op \in {"addMember", "repair"}
          /\ calls[c].pc = "add"
      <4>1. At(c, "add")
        BY <1>5 DEF Add
      <4>2. QED
        BY <4>1, AtStatement DEF OpsAt, Identifying, Accepting
    <3>2. calls[c].ws = calls[c].req.ws
      BY <1>2, <3>1 DEF CallOK, Grounded, WorkspaceOps
    <3>3. QED
      BY <2>2, <3>1, <3>2, InviteNamed DEF Req, WorkspaceOps
  <2>4. Lasting
    <3>1. UNCHANGED <<spaces, invites>> /\ (InsertMember(c, w, e, role) \/ UNCHANGED members)
      BY <1>5, <2>2 DEF Add
    <3>2. QED
      BY <2>3, <3>1, InsertLasts, SameLasts
  <2>5. QED
    BY <1>3, <2>1, <2>4
<1>6. QED
  BY <1>4, <1>5

\* The demo's creation places the whole team in a new workspace.
LEMMA BatchTurns ==
  ASSUME IInv, MInv, NEW c \in Slots, Batch(c)
  PROVE  MInv'
<1> DEFINE named == Req(c).team
<1>1. calls[c].pc = "batch" /\ UNCHANGED invites
  BY DEF Batch, At
<1>2. PICK team, me :
        team \in [Roles -> Emails] /\ team = Req(c).team /\ me = calls[c].me
  <2>1. At(c, "batch")
    BY DEF Batch
  <2>2. calls[c].req \in Request /\ calls[c].req.op = "create"
    BY <2>1, AtStatement DEF OpsAt, Identifying, Accepting
  <2>3. QED
    BY <2>2, InviteNamed DEF Req
<1>3. CASE Reply(c, 500) /\ UNCHANGED <<spaces, members>>
  BY <1>1, <1>3, SameLasts, RefusalTurns
<1>4. ASSUME NEW w \in Workspaces, spaces[w] = None,
             spaces' = [spaces EXCEPT ![w] = "demo"],
             members' = [members EXCEPT ![w] =
                           [e \in Emails |->
                              IF \E r \in Roles : named[r] = e
                                THEN [role |-> CHOOSE r \in Roles : named[r] = e, by |-> c]
                                ELSE NoMember]],
             calls' = [calls EXCEPT ![c] = [@ EXCEPT !.pc = "done",
                                !.reply = 201, !.left = {}, !.ws = w]]
      PROVE  MInv'
  <2>1. members \in [Workspaces -> [Emails -> MemberRow]] /\ c # None
        /\ spaces \in [Workspaces -> {"demo", "prod", None}]
    BY DirectoryAssumption DEF IInv, TypeOK
  <2>2. \A v \in Workspaces : v # w => spaces'[v] = spaces[v] /\ members'[v] = members[v]
    BY <1>4, <2>1
  <2>3. \A r \in Roles : EverMember(w, team[r])'
    <3> SUFFICES ASSUME NEW r \in Roles PROVE members'[w][team[r]].by # None
      BY DEF EverMember
    <3>1. PICK e \in Emails : e = team[r]
      BY <1>2
    <3>2. PICK role : role = CHOOSE q \in Roles : named[q] = e
      OBVIOUS
    <3>3. members'[w][e] = [role |-> role, by |-> c]
      BY <1>2, <1>4, <2>1, <3>1, <3>2
    <3>4. QED
      BY <2>1, <3>1, <3>3
  <2>4. Lasting
    <3>1. \A e \in Emails : ~EverMember(w, e)
      BY <1>4 DEF IInv, RowsOK
    <3>2. \A v \in Workspaces, e \in Emails : EverMember(v, e) => EverMember(v, e)'
      BY <2>2, <3>1 DEF EverMember
    <3>3. \A i \in InviteIds : invites[i] # None =>
            invites[i].ws \in Workspaces /\ spaces'[invites[i].ws] = "prod"
      <4>1. \A i \in InviteIds : invites[i] # None =>
              invites[i].ws \in Workspaces /\ spaces[invites[i].ws] = "prod"
        BY DEF IInv, TypeOK, InviteRow, MInv, InvitedInProd
      <4>2. QED
        BY <1>4, <2>2, <4>1, NoneAssumption
    <3>4. QED
      BY <1>1, <1>4, <2>2, <3>2, <3>3 DEF Lasting
  <2>5. Turned(c, "done", me, w, {}, 201)
    <3>1. calls[c] = Row(c, calls[c].pc, calls[c].me, calls[c].ws, calls[c].seen,
                         calls[c].left, calls[c].late, calls[c].reply)
      BY CallFields DEF IInv
    <3>2. DOMAIN calls = Slots
      BY DEF IInv, TypeOK
    <3>3. calls' = [calls EXCEPT ![c] = [@ EXCEPT !.pc = "done",
                                !.reply = 201, !.left = {}, !.ws = w]]
      BY <1>4
    <3> HIDE <1>4
    <3>4. QED
      BY <1>2, <3>1, <3>2, <3>3 DEF Turned, Row
  <2>6. \A r \in Roles : Provided(w, team[r])'
    BY <1>2, <2>3 DEF Provided
  <2>7. "done" \notin NonDemo /\ "done" \notin Placing /\ "done" \notin Adding /\ "done" \notin Team
    BY DEF NonDemo, Placing, Accepting, Adding, Team
  <2>8. QED
    BY <1>2, <2>4, <2>5, <2>6, <2>7, TurnKeeps
<1>5. QED
  BY <1>3, <1>4 DEF Batch

\* Every statement of creating, inviting and adding.
LEMMA CreateTurns ==
  ASSUME IInv, MInv, NEW c \in Slots, Create(c)
  PROVE  MInv'
BY SpaceTurns, CreatorTurns, PersonTurns, PlaceTurns, IssueTurns, UserTurns, AddTurns,
   BatchTurns DEF Create

\* A member's row keeps the call that inserted it.
LEMMA RegradeLasts ==
  ASSUME IInv, MInv, NEW w, NEW e, NEW role,
         members' = members \/ members' = [members EXCEPT ![w][e].role = role],
         UNCHANGED <<spaces, invites>>
  PROVE  Lasting
<1>1. members \in [Workspaces -> [Emails -> MemberRow]]
  BY DEF IInv, TypeOK
<1>2. ASSUME NEW v \in Workspaces, NEW d \in Emails
      PROVE  members'[v][d].by = members[v][d].by
  <2>1. PICK row : row = [members[w][e] EXCEPT !.role = role]
    OBVIOUS
  <2>2. CASE members' = members
    BY <2>2
  <2>3. CASE members' = [members EXCEPT ![w] = [members[w] EXCEPT ![e] = row]]
    <3>1. CASE v = w /\ d = e
      <4>1. members'[v][d] = row /\ members[v][d] \in MemberRow
        BY <1>1, <2>3, <3>1
      <4>2. QED
        BY <2>1, <3>1, <4>1 DEF MemberRow
    <3>2. CASE v # w \/ d # e
      BY <1>1, <2>3, <3>2
    <3>3. QED
      BY <3>1, <3>2
  <2>4. QED
    BY <2>1, <2>2, <2>3
<1>3. QED
  BY <1>2 DEF Lasting, MInv, InvitedInProd, EverMember

\* The platform admin.
LEMMA OperateTurns ==
  ASSUME IInv, MInv, NEW c \in Slots, Operate(c)
  PROVE  MInv'
<1>1. calls[c].pc \in {"target", "setStatus", "membership", "count", "change", "delete"}
  BY DEF Operate, Target, SetAccountStatus, Membership, Count, Change, Delete, At
<1>2. Op(c) \in AdminOps /\ Op(c) # "create" /\ Op(c) # "addMember" /\ calls[c].pc # "done"
  <2>1. CallOK(c)
    BY DEF IInv
  <2>2. QED
    BY <1>1, <2>1 DEF CallOK, Grounded, OpsAt, Identifying, Accepting, Op, Req, AdminOps
<1>3. ASSUME Lasting, NEW code, Reply(c, code) PROVE MInv'
  BY <1>2, <1>3, RefusalTurns
<1>4. ASSUME Lasting, NEW seen,
             NEW pc \in {"setStatus", "membership", "add", "change", "count", "delete"},
             Go(c, pc) \/ Note(c, pc, seen)
      PROVE  MInv'
  <2>1. pc \notin NonDemo /\ pc \notin Placing /\ pc \notin Team
    BY <1>4 DEF NonDemo, Placing, Accepting, Team
  <2>2. QED
    BY <1>2, <1>4, <2>1, NoteTurns
<1>5. CASE Target(c)
  <2>1. Lasting
    BY <1>5, SameLasts DEF Target, tables
  <2>2. QED
    BY <1>3, <1>4, <1>5, <2>1 DEF Target
<1>6. CASE SetAccountStatus(c)
  <2>1. Lasting
    BY <1>6, SameLasts DEF SetAccountStatus
  <2>2. QED
    BY <1>3, <1>6, <2>1 DEF SetAccountStatus
<1>7. CASE Membership(c)
  <2>1. Lasting
    BY <1>7, SameLasts DEF Membership, tables
  <2> DEFINE m == members[calls[c].ws][Req(c).email]
  <2>3. Op(c) \in {"repair", "remove"}
    <3>1. At(c, "membership") /\ CallOK(c)
      BY <1>7 DEF Membership, IInv
    <3>2. QED
      BY <3>1 DEF CallOK, Grounded, OpsAt, Identifying, Accepting, Op, Req, At
  <2>4. CASE Op(c) = "repair"
    <3>1. CASE m.role \in {None, Req(c).role}
      BY <1>3, <1>4, <1>7, <2>1, <2>4, <3>1 DEF Membership, Req
    <3>2. CASE m.role \notin {None, Req(c).role}
      BY <1>4, <1>7, <2>1, <2>4, <3>2 DEF Membership
    <3>3. QED
      BY <3>1, <3>2
  <2>5. CASE Op(c) = "remove"
    <3>1. CASE m.role = None
      BY <1>3, <1>7, <2>1, <2>5, <3>1 DEF Membership
    <3>2. CASE m.role # None
      BY <1>4, <1>7, <2>1, <2>5, <3>2 DEF Membership
    <3>3. QED
      BY <3>1, <3>2
  <2>6. QED
    BY <2>3, <2>4, <2>5
<1>8. CASE Count(c)
  <2>1. Lasting
    BY <1>8, SameLasts DEF Count, tables
  <2>2. QED
    BY <1>3, <1>4, <1>8, <2>1 DEF Count
<1>9. CASE Change(c) \/ Delete(c)
  <2>1. PICK w, e, role : /\ members' = members \/ members' = [members EXCEPT ![w][e].role = role]
                          /\ UNCHANGED <<spaces, invites>> /\ Reply(c, 200)
    BY <1>9 DEF Change, Delete
  <2>2. Lasting
    BY <2>1, RegradeLasts
  <2>3. QED
    BY <1>3, <2>1, <2>2
<1>10. QED
  BY <1>5, <1>6, <1>7, <1>8, <1>9 DEF Operate

\* An invitation runs out of time; no request moves.
LEMMA LapseTurns ==
  ASSUME IInv, MInv, NEW i \in InviteIds, Lapse(i)
  PROVE  MInv'
<1>1. PICK row : row = [invites[i] EXCEPT !.lapsed = TRUE]
  OBVIOUS
<1>2. invites' = [invites EXCEPT ![i] = row] /\ UNCHANGED <<spaces, members, calls>>
      /\ invites[i] # None
  BY <1>1 DEF Lapse
<1>3. invites[i] \in InviteRow
  BY <1>2 DEF IInv, TypeOK
<1>4. row \in InviteRow /\ row.ws = invites[i].ws /\ row.email = invites[i].email
  BY <1>1, <1>3 DEF InviteRow
<1>5. Lasting
  BY <1>2, <1>4, NoneAssumption, UpdateLasts
<1>6. ASSUME NEW d \in Slots PROVE ModeHolds(d)' /\ TeamHolds(d)'
  <2>1. ModeHolds(d) /\ TeamHolds(d)
    BY DEF MInv
  <2>2. ModeHolds(d)'
    BY <1>2, <2>1 DEF ModeHolds, Mode, Demo, Req
  <2>3. TeamHolds(d)'
    BY <1>2, <1>5, <2>1, ProvidedLasts DEF TeamHolds
  <2>4. QED
    BY <2>2, <2>3
<1>7. QED
  BY <1>5, <1>6 DEF MInv, InvitedInProd, Lasting

\* What earlier requests left; no request has begun.
LEMMA TurnsStart ==
  ASSUME Init
  PROVE  MInv
<1>1. PICK s \in Seeds :
        /\ spaces = s.spaces /\ invites = s.invites
        /\ \E rs \in [Slots -> s.requests] : calls = [c \in Slots |-> NewCall(rs[c])]
  BY DEF Init
<1>2. PICK rs : calls = [c \in Slots |-> NewCall(rs[c])]
  BY <1>1
<1>3. InvitedInProd
  BY <1>1, HistoryAssumption DEF InvitedInProd
<1>4. ASSUME NEW c \in Slots PROVE ModeHolds(c) /\ TeamHolds(c)
  <2>1. PICK req, ws : calls[c] = [req |-> req, pc |-> "new", me |-> None, seen |-> None,
                                   left |-> {}, ws |-> ws, late |-> FALSE, reply |-> None]
    BY <1>2, Zenon DEF NewCall
  <2>2. calls[c].pc = "new" /\ calls[c].reply = None
    BY <2>1
  <2>3. None # 201
    BY DirectoryAssumption DEF Replies
  <2>4. QED
    BY <2>2, <2>3 DEF ModeHolds, TeamHolds, NonDemo, Placing, Accepting, Adding, Team
<1>5. QED
  BY <1>3, <1>4 DEF MInv

\* Every statement of every request keeps the workspaces apart and the teams
\* provided for, in any interleaving.
THEOREM ModeInvariance == Spec => []MInv
<1>1. Init => MInv
  BY TurnsStart
<1>2. IInv /\ MInv /\ [Next]_vars => MInv'
  <2>1. ASSUME IInv, MInv, NEW c \in Slots, Step(c) PROVE MInv'
    <3>1. CASE Fail(c)
      <4>1. Lasting /\ Reply(c, 500)
        BY <2>1, <3>1, SameLasts DEF Fail, tables
      <4>2. QED
        BY <2>1, <4>1, RefusalTurns
    <3>2. QED
      BY <2>1, <3>1, ArriveTurns, IdentifyTurns, RoleTurns, AnswerTurns, CreateTurns,
         OperateTurns DEF Step
  <2>2. ASSUME IInv, MInv, UNCHANGED vars PROVE MInv'
    BY <2>2 DEF vars, MInv, InvitedInProd, ModeHolds, TeamHolds, Provided, EverMember,
                About, Mode, Demo, Req
  <2>3. QED
    BY <2>1, <2>2, LapseTurns DEF Next
<1>3. QED
  BY <1>1, <1>2, Invariance, PTL DEF Spec

\* A creation that answered 201 has placed or invited everybody it named, also
\* when somebody signs up between the look-up and the row
\* (handleCreateWorkspace, handleDemoCreateWorkspace).
THEOREM CreationsComplete == Spec => []CreationComplete
<1>1. MInv => CreationComplete
  BY DEF MInv, TeamHolds, CreationComplete, Provided, Op, Req
<1>2. QED
  BY <1>1, ModeInvariance, PTL

\* The rows of a workspace that a step changes.
Touched(w) ==
  \/ members'[w] # members[w]
  \/ \E i \in InviteIds : /\ invites'[i] # invites[i]
                          /\ About(invites[i], w) \/ About(invites'[i], w)

\* A request may change the rows of w.
Allowed(c, w) == Op(c) \in AdminOps \/ (Demo(c) <=> spaces[w] = "demo")

\* A membership that is inserted touches its own workspace.
LEMMA InsertTouches ==
  ASSUME IInv, NEW c \in Slots, NEW v \in Workspaces, NEW e, NEW role,
         InsertMember(c, v, e, role), UNCHANGED invites,
         NEW w \in Workspaces, Touched(w)
  PROVE  w = v
<1>1. members \in [Workspaces -> [Emails -> MemberRow]]
  BY DEF IInv, TypeOK
<1>2. members'[w] # members[w]
  BY DEF Touched
<1>3. PICK row : row = [members[v] EXCEPT ![e] = [role |-> role, by |-> c]]
  OBVIOUS
<1>4. members' = [members EXCEPT ![v] = row]
  BY <1>3 DEF InsertMember
<1>5. QED
  BY <1>1, <1>2, <1>4

\* An invitation that is written touches its own workspace.
LEMMA WriteTouches ==
  ASSUME IInv, NEW i \in InviteIds, NEW row, row # None,
         invites[i] # None => invites[i].ws = row.ws,
         invites' = [invites EXCEPT ![i] = row], UNCHANGED members,
         NEW w \in Workspaces, Touched(w)
  PROVE  w = row.ws
<1>1. \A j \in InviteIds : invites'[j] = IF j = i THEN row ELSE invites[j]
  BY DEF IInv, TypeOK
<1>2. PICK j \in InviteIds : invites'[j] # invites[j] /\ (About(invites[j], w) \/ About(invites'[j], w))
  BY DEF Touched
<1>3. QED
  BY <1>1, <1>2 DEF About

\* Every request works in workspaces of its own mode, but the admin's.
LEMMA AllowedHere ==
  ASSUME NEW c \in Slots, NEW w, spaces[w] = Mode(c)
  PROVE  Allowed(c, w)
BY DEF Allowed, Mode

\* acceptInvitation and revokeInvitation.
LEMMA AnswerApart ==
  ASSUME IInv, MInv, NEW c \in Slots, Answer(c), NEW w \in Workspaces, Touched(w)
  PROVE  Allowed(c, w)
<1>1. calls[c].pc \in Accepting \cup {"invitation", "revoke"}
  BY DEF Answer, Invitation, MemberYet, Join, Accepted, Revoke, Expire, At, Accepting
<1>2. ~Demo(c)
  BY <1>1, AnswerFacts
<1>3. ASSUME NEW i \in InviteIds, invites[i] # None, w = invites[i].ws PROVE Allowed(c, w)
  BY <1>2, <1>3, AllowedHere DEF MInv, InvitedInProd, Mode
<1>4. CASE Invitation(c) \/ MemberYet(c)
  BY <1>4 DEF Invitation, MemberYet, tables, Touched
<1>5. CASE Join(c)
  <2>1. At(c, "join") /\ "join" \in Accepting /\ UNCHANGED invites
    BY <1>5 DEF Join, Accepting
  <2>2. PICK v \in Workspaces, i \in InviteIds :
          v = calls[c].seen.ws /\ i = Req(c).invite
    <3>1. calls[c].seen \in InviteRow /\ calls[c].req.invite \in InviteIds
      BY <2>1, AcceptingFacts
    <3>2. QED
      BY <3>1 DEF InviteRow, Req
  <2>3. invites[i] # None /\ invites[i].ws = v
    BY <2>1, <2>2 DEF IInv, CallOK, AcceptHolds, At, Req
  <2>4. PICK e, role : /\ InsertMember(c, v, e, role) \/ UNCHANGED members
    BY <1>5, <2>2 DEF Join
  <2>5. w = v
    BY <2>1, <2>4, InsertTouches DEF Touched
  <2>6. QED
    BY <1>3, <2>3, <2>5
<1>6. CASE Accepted(c) \/ Revoke(c) \/ Expire(c)
  <2>1. PICK status, code : status \in InvitationStatuses /\ SetStatus(c, status, code)
    BY <1>6 DEF Accepted, Revoke, Expire, InvitationStatuses
  <2>2. PICK i \in InviteIds : i = Req(c).invite
    BY <1>1, AnswerFacts
  <2>3. calls[c].pc \in {"accepted", "revoke", "expire"}
    BY <1>6 DEF Accepted, Revoke, Expire, At
  <2>4. invites[i] # None
    BY <2>2, <2>3 DEF IInv, CallOK, AcceptHolds, Accepting, Req
  <2>5. invites[i] \in InviteRow
    BY <2>4 DEF IInv, TypeOK
  <2>6. PICK row : row = [invites[i] EXCEPT !.status = status]
    OBVIOUS
  <2>7. row \in InviteRow /\ row.ws = invites[i].ws
    BY <2>1, <2>5, <2>6 DEF InviteRow
  <2>8. invites' = [invites EXCEPT ![i] = row] /\ UNCHANGED members
    BY <2>1, <2>2, <2>6 DEF SetStatus
  <2>9. w = invites[i].ws
    BY <2>7, <2>8, NoneAssumption, WriteTouches
  <2>10. QED
    BY <1>3, <2>4, <2>9
<1>7. QED
  BY <1>4, <1>5, <1>6 DEF Answer

\* Creating, inviting and adding; the demo's batch fills a new workspace.
LEMMA CreateApart ==
  ASSUME IInv, MInv, NEW c \in Slots, Create(c), NEW w \in Workspaces, spaces[w] # None,
         Touched(w)
  PROVE  Allowed(c, w)
<1>1. CASE Space(c) \/ Person(c) \/ Pending(c) \/ User(c) \/ NewUser(c) \/ Lookup(c)
  BY <1>1 DEF Space, Person, Pending, User, NewUser, Lookup, tables, Touched
<1>2. PICK v : v = calls[c].ws
  OBVIOUS
<1>3. ASSUME NEW pc \in Placing, At(c, pc)
      PROVE  v \in Workspaces /\ spaces[v] = Mode(c)
  BY <1>2, <1>3, PlacingHolds DEF Mode
<1>4. CASE Creator(c) \/ Place(c)
  <2>1. v \in Workspaces /\ spaces[v] = Mode(c) /\ UNCHANGED invites
    BY <1>3, <1>4 DEF Creator, Place, Placing
  <2>2. PICK e, role : InsertMember(c, v, e, role) \/ UNCHANGED members
    BY <1>2, <1>4 DEF Creator, Place
  <2>3. w = v
    BY <2>1, <2>2, InsertTouches DEF Touched
  <2>4. QED
    BY <2>1, <2>3, AllowedHere
<1>5. CASE Issue(c)
  <2>1. v \in Workspaces /\ spaces[v] = Mode(c) /\ UNCHANGED members
    BY <1>3, <1>5 DEF Issue, Placing
  <2>2. PICK i \in InviteIds, row \in InviteRow :
          /\ invites' = [invites EXCEPT ![i] = row] /\ row.ws = v
          /\ invites[i] # None => row.ws = invites[i].ws
    BY <1>2, <1>5, IssueWrites
  <2>3. w = v
    BY <2>1, <2>2, NoneAssumption, WriteTouches
  <2>4. QED
    BY <2>1, <2>3, AllowedHere
<1>6. CASE Add(c)
  <2>1. At(c, "add") /\ calls[c].pc = "add" /\ UNCHANGED invites
    BY <1>6 DEF Add, At
  <2>2. calls[c].req \in Request /\ calls[c].req.op \in {"addMember", "repair"} /\ CallOK(c)
        /\ ModeHolds(c)
    BY <2>1, AtStatement DEF OpsAt, Identifying, Accepting, MInv
  <2>3. v \in Workspaces
    BY <1>2, <2>2, InviteNamed DEF CallOK, Grounded, WorkspaceOps
  <2>4. PICK e, role : InsertMember(c, v, e, role) \/ UNCHANGED members
    BY <1>2, <1>6 DEF Add
  <2>5. w = v
    BY <2>1, <2>3, <2>4, InsertTouches DEF Touched
  <2>6. CASE Op(c) = "repair"
    BY <2>6 DEF Allowed, AdminOps
  <2>7. CASE Op(c) = "addMember"
    <3>1. spaces[v] = Mode(c)
      BY <1>2, <2>1, <2>2, <2>7 DEF ModeHolds, Adding, Op, Req
    <3>2. QED
      BY <2>5, <3>1, AllowedHere
  <2>8. QED
    BY <2>2, <2>6, <2>7 DEF Op, Req
<1>7. CASE Batch(c)
  <2>1. PICK u, rows : /\ u \in Workspaces /\ spaces[u] = None
                       /\ members' = [members EXCEPT ![u] = rows] \/ UNCHANGED members
    BY <1>7, Zenon DEF Batch
  <2>2. members'[w] = members[w]
    BY <2>1 DEF IInv, TypeOK
  <2>3. UNCHANGED invites
    BY <1>7 DEF Batch
  <2>4. QED
    BY <2>2, <2>3 DEF Touched
<1>8. QED
  BY <1>1, <1>4, <1>5, <1>6, <1>7 DEF Create

\* A step moves its own request only.
LEMMA StepsAlone ==
  ASSUME IInv, NEW c \in Slots, Step(c), NEW d \in Slots, d # c
  PROVE  calls'[d] = calls[d]
<1>1. DOMAIN calls = Slots
  BY DEF IInv, TypeOK
<1>2. \A pc, seen : Go(c, pc) \/ Note(c, pc, seen) => calls'[d] = calls[d]
  BY <1>1 DEF Go, Note
<1>3. \A code : Reply(c, code) => calls'[d] = calls[d]
  BY <1>1 DEF Reply
<1>4. CASE Arrive(c) \/ Fail(c)
  BY <1>1, <1>3, <1>4 DEF Arrive, Fail
<1>5. \A e, status, admin : Identified(c, e, status, admin) => calls'[d] = calls[d]
  BY <1>1, <1>3 DEF Identified
<1>6. CASE Identify(c)
  BY <1>2, <1>3, <1>5, <1>6 DEF Identify, BySubject, ByEmail, Link, Taken, SignUp
<1>7. CASE Role(c)
  BY <1>2, <1>3, <1>7 DEF Role
<1>8. CASE Answer(c)
  BY <1>2, <1>3, <1>8 DEF Answer, Invitation, MemberYet, Join, Accepted, Revoke, Expire, SetStatus
<1>9. \A left : Onwards(c, left) => calls'[d] = calls[d]
  BY <1>1, <1>3 DEF Onwards
<1>10. AfterUser(c) => calls'[d] = calls[d]
  BY <1>1, <1>2 DEF AfterUser
<1>11. CASE Create(c)
  BY <1>1, <1>2, <1>3, <1>9, <1>10, <1>11
     DEF Create, Space, Creator, Person, Place, Pending, Issue, User, NewUser, Lookup, Add, Batch
<1>12. CASE Membership(c)
  <2> DEFINE m == members[calls[c].ws][Req(c).email]
  <2>1. Op(c) \in {"repair", "remove"}
    <3>1. At(c, "membership") /\ CallOK(c)
      BY <1>12 DEF Membership, IInv
    <3>2. QED
      BY <3>1 DEF CallOK, Grounded, OpsAt, Identifying, Accepting, Op, Req, At
  <2>2. CASE Op(c) = "repair" /\ m.role \in {None, Req(c).role}
    BY <1>2, <1>3, <1>12, <2>2 DEF Membership, Req
  <2>3. CASE Op(c) = "repair" /\ m.role \notin {None, Req(c).role}
    BY <1>2, <1>12, <2>3 DEF Membership
  <2>4. CASE Op(c) = "remove" /\ m.role = None
    BY <1>3, <1>12, <2>4 DEF Membership
  <2>5. CASE Op(c) = "remove" /\ m.role # None
    BY <1>2, <1>12, <2>5 DEF Membership
  <2>6. QED
    BY <2>1, <2>2, <2>3, <2>4, <2>5
<1>13. CASE Operate(c)
  BY <1>2, <1>3, <1>12, <1>13
     DEF Operate, Target, SetAccountStatus, Count, Change, Delete
<1>14. QED
  BY <1>4, <1>6, <1>7, <1>8, <1>11, <1>13 DEF Step

\* A demo request never touches the members or invitations of a production
\* workspace, nor a production request the demo's; only an admin works on both
\* (authWorkspace, resolveRole).
THEOREM ModesApart == Spec => ModesStayApart
<1> DEFINE Apart == \A w \in Workspaces, c \in Slots :
      (/\ calls'[c] # calls[c] /\ spaces[w] # None
       /\ \/ members'[w] # members[w]
          \/ \E i \in InviteIds :
               /\ invites'[i] # invites[i]
               /\ About(invites[i], w) \/ About(invites'[i], w))
      => Op(c) \in AdminOps \/ (Demo(c) <=> spaces[w] = "demo")
<1>1. IInv /\ MInv /\ Next => Apart
  <2> SUFFICES ASSUME IInv, MInv, Next, NEW w \in Workspaces, NEW c \in Slots,
                      calls'[c] # calls[c], spaces[w] # None, Touched(w)
               PROVE  Allowed(c, w)
    BY DEF Touched, Allowed
  <2>1. Step(c)
    BY StepsAlone DEF Next, Lapse
  <2>2. CASE Arrive(c) \/ Identify(c) \/ Role(c) \/ Fail(c)
    BY <2>2 DEF Arrive, Identify, BySubject, ByEmail, Link, Taken, SignUp, Role, Fail,
                tables, Touched
  <2>3. CASE Operate(c)
    <3>1. CallOK(c) /\ calls[c].pc \in
            {"target", "setStatus", "membership", "count", "change", "delete"}
      BY <2>3 DEF IInv, Operate, Target, SetAccountStatus, Membership, Count, Change,
                  Delete, At
    <3>2. QED
      BY <3>1 DEF CallOK, Grounded, OpsAt, Identifying, Accepting, Op, Req, AdminOps,
                  Allowed
  <2>4. QED
    BY <2>1, <2>2, <2>3, AnswerApart, CreateApart DEF Step
<1>2. UNCHANGED vars => Apart
  BY DEF vars
<1>3. IInv /\ MInv /\ [Next]_vars => [Apart]_vars
  BY <1>1, <1>2
<1>4. QED
  BY <1>3, Invariance, ModeInvariance, PTL DEF Spec, ModesStayApart
===============================================================================
