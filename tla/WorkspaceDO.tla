----------------------------- MODULE WorkspaceDO -----------------------------
(***************************************************************************)
(* One WorkspaceDO (src/worker/workspace-do.ts) over its SQLite store      *)
(* (src/worker/workspace-store.ts) and the browser tabs connected to it    *)
(* (src/client/lib/useWorkspace.ts).                                       *)
(*                                                                         *)
(* The object is single threaded: an event handler runs without            *)
(* interruption until it awaits something outside the object.  The only    *)
(* such await before a handler's broadcast is loadMembers' query to D1     *)
(* when the roster cache is cold; other events run in that gap.  Each      *)
(* action below is therefore one uninterrupted run of a handler: up to the *)
(* gap (the request becomes pending) or from the gap to the end.           *)
(*                                                                         *)
(* Rows are named by the request that inserted them (the code draws a      *)
(* UUID).  Text, titles and timestamps are left out: every text is taken   *)
(* to pass the length checks, a status or a priority may be outside its    *)
(* enumeration.  The sends to the queues after the acknowledgement change  *)
(* nothing here (module BlockerEscalation models them).                    *)
(***************************************************************************)
EXTENDS Protocol, FiniteSets

CONSTANTS
  Users,          \* identities the Worker may forward
  RoleOf,         \* [Users -> Roles \cup {None}], the membership role
  Socks,          \* browser tabs
  SockUser,       \* [Socks -> Users]
  Reqs,           \* request ids
  Messages,       \* the client messages considered
  SeedTasks,      \* tasks and blockers that exist when the window opens
  SeedBlockers,
  SeedRows,       \* [SeedBlockers -> BlockerRow]
  ResolvedTail    \* RESOLVED_BLOCKER_TAIL

Keep == "keep"        \* a field that a task.update patch leaves alone

ASSUME RolesAssumption ==
  /\ RoleOf \in [Users -> Roles \cup {None}]
  /\ SockUser \in [Socks -> Users]

ASSUME IdsAssumption ==
  /\ SeedTasks \cap Reqs = {} /\ SeedBlockers \cap Reqs = {}
  /\ None \notin Users \cup Reqs \cup SeedTasks \cup SeedBlockers
  /\ Keep \notin Users
  /\ IsFiniteSet(SeedBlockers \cup Reqs)
  /\ ResolvedTail \in Nat

TaskIds    == SeedTasks \cup Reqs
BlockerIds == SeedBlockers \cup Reqs

TaskRow == [status : TaskStatuses, priority : TaskPriorities \cup {None},
            assignee : Users \cup {None}, createdBy : Users]
\* Of resolved_at only the order counts: resolutions are numbered.
Moments    == 0..Cardinality(BlockerIds)
BlockerRow == [status : BlockerStatuses, task : TaskIds \cup {None},
               responded : BOOLEAN, resolvedBy : Users \cup {None},
               resolvedAt : Moments]
NewBlocker(task) == [status |-> "OPEN", task |-> task, responded |-> FALSE,
                     resolvedBy |-> None, resolvedAt |-> 0]

SeedsResolved == {b \in SeedBlockers : SeedRows[b].status = "RESOLVED"}
ASSUME SeedsAssumption ==
  /\ SeedRows \in [SeedBlockers -> BlockerRow]
  /\ \A b \in SeedBlockers : SeedRows[b].task \in SeedTasks \cup {None}
  /\ \A b \in SeedsResolved :
       SeedRows[b].resolvedAt \in 1..Cardinality(SeedsResolved)

CommentRow  == [id : Reqs, blocker : BlockerIds]
FeedbackRow == [task : TaskIds \cup {None}]
MentionSources == {"BLOCKER_COMMENT", "UPDATE", "TASK_COMMENT"}
MentionRow == [user : Users, source : MentionSources,
               id : BlockerIds, req : Reqs]

StatusInput   == TaskStatuses \cup {"ARCHIVED"}     \* one value is no status
PriorityInput == TaskPriorities \cup {"BLOCKER"}

ClientMessage ==
       [type : {"task.create"}, status : StatusInput \cup {None},
        priority : PriorityInput \cup {None}, assignee : Users \cup {None}]
  \cup [type : {"task.update"}, id : TaskIds, status : StatusInput \cup {Keep},
        priority : PriorityInput \cup {None, Keep},
        assignee : Users \cup {None, Keep}]
  \cup [type : {"task.move"}, id : TaskIds, status : StatusInput]
  \cup [type : {"task.delete"}, id : TaskIds]
  \cup [type : {"task.priority"}, id : TaskIds, priority : PriorityInput]
  \cup [type : {"blocker.create"}, task : TaskIds \cup {None}]
  \cup [type : {"blocker.comment"}, id : BlockerIds, mentions : SUBSET Users]
  \cup [type : {"blocker.requestResolution", "blocker.resolve",
                "blocker.escalate"}, id : BlockerIds]
  \cup [type : {"update.create"}, mentions : SUBSET Users]
  \cup [type : {"feedback.create"}, task : TaskIds \cup {None},
        mentions : SUBSET Users]

ASSUME MessagesAssumption == Messages \subseteq ClientMessage

Submissions == [sock : Socks, msg : Messages]

NoRows == [x \in {} |-> None]

\* What a handler in the gap has yet to broadcast: never a task.
WaitingBatch ==
  [tasks : {NoRows}, updates : SUBSET Reqs, mentions : {{}},
   blockers : {NoRows} \cup UNION {[{b} -> BlockerRow] : b \in BlockerIds},
   feedback : {NoRows} \cup UNION {[{f} -> FeedbackRow] : f \in Reqs},
   comments : SUBSET CommentRow, activity : {{r} : r \in Reqs}]

ASSUME NoneAssumption ==
  None \notin TaskRow \cup BlockerRow \cup FeedbackRow \cup Submissions
              \cup WaitingBatch \cup {"ack"}

VARIABLES
  (* the SQLite tables *)
  tasks,       \* [TaskIds -> TaskRow \cup {None}]
  blockers,    \* [BlockerIds -> BlockerRow \cup {None}]
  comments,    \* blocker_comments
  updates,     \* ids of the progress updates
  feedback,    \* [Reqs -> FeedbackRow \cup {None}]
  mentions,
  escalations, \* blockers that have a mentor BLOCKER_ESCALATION reminder
  activity,    \* [Reqs -> Nat]: activity rows written on behalf of a request
  claims,      \* processed_requests
  (* the running instance *)
  cacheFresh,  \* membersCache holds a roster younger than MEMBERS_TTL_MS
  pending,     \* [Reqs -> the batch to broadcast once D1 answers, or None]
  conn,        \* [Socks -> {"off", "joining", "live"}]
  (* the clients *)
  replica,     \* [Socks -> what the tab shows once its inbox is drained]
  sent,        \* [Reqs -> the message and its tab, or None]
  answer,      \* [Reqs -> the last answer the tab got]
  (* history *)
  expired,     \* request ids older than PROCESSED_TTL_MS
  interrupted  \* requests whose roster query failed or never returned

store == <<tasks, blockers, comments, updates, feedback, mentions,
           escalations, activity, claims>>
vars == <<store, cacheFresh, pending, conn, replica, sent, answer, expired,
          interrupted>>

-----------------------------------------------------------------------------
(* Helpers.                                                                *)

Overlay(f, d) == [x \in DOMAIN f |-> IF x \in DOMAIN d THEN d[x] ELSE f[x]]
Only(x, row)  == [y \in {x} |-> row]
Or(x, default) == IF x = None THEN default ELSE x

\* Mutant: a field missing from the patch is written as it came.
PatchedBlindly(x, old) == x
Patched(x, old) == IF x = Keep THEN old ELSE x

\* A batch is what one dispatch hands to broadcast: at most one row of each
\* table, the rows to drop being None, and the mentions created.
Quiet == [tasks |-> NoRows, blockers |-> NoRows, comments |-> {},
          updates |-> {}, feedback |-> NoRows, activity |-> {}, mentions |-> {}]

\* The server-curated attention list of a user.  Items that only time raises
\* (overdue, unresolved for hours, no update for days) are left out.
AttentionOf(u) ==
  LET mine    == {<<"MENTIONED", m>> : m \in {n \in mentions : n.user = u}}
      waiting == {<<"BLOCKER_WAITING_ON_YOU", b>> : b \in
                    {c \in BlockerIds : /\ blockers[c] # None
                                        /\ blockers[c].status # "RESOLVED"
                                        /\ ~blockers[c].responded}}
      stuck   == {<<"URGENT_TASK_BLOCKED", t>> : t \in
                    {k \in TaskIds : /\ tasks[k] # None
                                     /\ tasks[k].status = "BLOCKED"
                                     /\ tasks[k].priority \in {"HIGH", "URGENT"}}}
  IN (IF RoleOf[u] \in Roles THEN mine ELSE {})
     \cup (IF RoleOf[u] = "mentor" THEN waiting ELSE {})
     \cup (IF RoleOf[u] \in {"mentor", "manager"} THEN stuck ELSE {})

\* Distinct identities with an accepted socket.
PresenceState == {SockUser[s] : s \in {x \in Socks : conn[x] # "off"}}

\* listBlockers: the unresolved blockers, and of the resolved ones those that
\* were resolved last.
\* Mutant: blockers whose resolution was requested are in neither list.
Resolved == {b \in BlockerIds :
               blockers[b] # None /\ blockers[b].status = "RESOLVED"}
LaterThan(b) == {c \in Resolved : blockers[c].resolvedAt > blockers[b].resolvedAt}
Listed(b) ==
  /\ blockers[b] # None
  /\ b \in Resolved => Cardinality(LaterThan(b)) < ResolvedTail
ListOpenOnly ==
  [b \in BlockerIds |-> IF Listed(b) /\ blockers[b].status # "RESOLUTION_REQUESTED"
                          THEN blockers[b] ELSE None]
ListBlockers == [b \in BlockerIds |-> IF Listed(b) THEN blockers[b] ELSE None]

Snapshot(u) ==
  [tasks |-> tasks, blockers |-> ListBlockers, comments |-> comments,
   updates |-> updates, feedback |-> feedback, activity |-> activity,
   mentions |-> IF RoleOf[u] \in Roles
                  THEN {m \in mentions : m.user = u} ELSE {},
   attention |-> AttentionOf(u), presence |-> PresenceState]

\* The tab before any snapshot, and after its connection is gone: what a
\* disconnected tab still shows is not tracked.
BlankReplica ==
  [tasks |-> [t \in TaskIds |-> None], blockers |-> [b \in BlockerIds |-> None],
   comments |-> {}, updates |-> {}, feedback |-> [r \in Reqs |-> None],
   activity |-> [r \in Reqs |-> 0], mentions |-> {}, attention |-> {},
   presence |-> {}]

\* The client's reducer over the messages of one batch: upsert by id, drop
\* deleted tasks, and prepend activity entries without looking for their id.
Reduce(rep, batch) ==
  [rep EXCEPT !.tasks    = Overlay(@, batch.tasks),
              !.blockers = Overlay(@, batch.blockers),
              !.comments = @ \cup batch.comments,
              !.updates  = @ \cup batch.updates,
              !.feedback = Overlay(@, batch.feedback),
              !.activity = [r \in Reqs |->
                              IF r \in batch.activity THEN @[r] + 1 ELSE @[r]],
              !.mentions = @ \cup batch.mentions]

\* broadcast of the batch, then broadcastAttentionUpdates: every live tab gets
\* the batch and its own attention list, computed from the store as it is then.
\* A joining socket gets them too, but its snapshot will replace them.
\* Mutant: the lists are computed before the mutation is written.
PublishEarly(batch) ==
  replica' = [s \in Socks |->
    IF conn[s] = "live"
      THEN [Reduce(replica[s], batch) EXCEPT
              !.attention = AttentionOf(SockUser[s])]
      ELSE replica[s]]
Publish(batch) ==
  replica' = [s \in Socks |->
    IF conn[s] = "live"
      THEN [Reduce(replica[s], batch) EXCEPT
              !.attention = AttentionOf(SockUser[s])']
      ELSE replica[s]]

-----------------------------------------------------------------------------
(* Initial states.  The seeds are rows earlier requests left behind.       *)

Init ==
  /\ \E owner \in {u \in Users : RoleOf[u] = "intern"} :
       tasks = [t \in TaskIds |->
                  IF t \in SeedTasks
                    THEN [status |-> "TODO", priority |-> "HIGH",
                          assignee |-> None, createdBy |-> owner]
                    ELSE None]
  /\ blockers = [b \in BlockerIds |->
                   IF b \in SeedBlockers THEN SeedRows[b] ELSE None]
  /\ comments = {} /\ updates = {} /\ mentions = {} /\ escalations = {}
  /\ feedback = [r \in Reqs |-> None]
  /\ activity = [r \in Reqs |-> 0]
  /\ claims = {} /\ expired = {} /\ interrupted = {}
  /\ cacheFresh = FALSE
  /\ pending = [r \in Reqs |-> None]
  /\ conn = [s \in Socks |-> "off"]
  /\ replica = [s \in Socks |-> BlankReplica]
  /\ sent = [r \in Reqs |-> None]
  /\ answer = [r \in Reqs |-> None]

-----------------------------------------------------------------------------
(* Receiving a mutation (webSocketMessage up to dispatch).                 *)

\* A tab only sends on an open socket.  A request id may be sent again, with
\* the same message from the same tab, while it is younger than the TTL of
\* processed_requests.
Arrives(r, s, m) ==
  /\ conn[s] = "live"
  /\ sent[r] \in {None, [sock |-> s, msg |-> m]}
  /\ r \notin expired

Sent(r, s, m) == sent' = [sent EXCEPT ![r] = [sock |-> s, msg |-> m]]

\* claimRequest: is the id already in processed_requests?
\* Mutant: only a request still in its handler counts as claimed.
InFlight(r) == pending[r] # None
Claimed(r) == r \in claims

\* claimRequest's second statement: ids past the TTL are pruned.
Unexpired(ids) == ids \ expired

\* releaseRequest, after the claim that preceded dispatch.
\* Mutant: the claim of a failed mutation is kept.
NotReleased(r) == Unexpired(claims) \cup {r}
Released(r) == Unexpired(claims) \ {r}

\* An intern may only touch a task that is theirs.
\* Mutant: the assignee is not looked at.
TaskCreatedByAnother(t, u) ==
  RoleOf[u] = "intern" /\ tasks[t] # None /\ tasks[t].createdBy # u
TaskBelongsToAnother(t, u) ==
  /\ RoleOf[u] = "intern" /\ tasks[t] # None
  /\ (IF tasks[t].assignee # None THEN tasks[t].assignee
                                  ELSE tasks[t].createdBy) # u

BadStatus(x)   == x \notin TaskStatuses
BadPriority(x) == x \notin TaskPriorities

\* The status a blocker action needs.
\* Mutant: it is not checked.
AnyStatus(m) == FALSE
WrongStatus(m) ==
  /\ m.type \in {"blocker.requestResolution", "blocker.escalate"}
  /\ blockers[m.id] # None
  /\ \/ m.type = "blocker.requestResolution" /\ blockers[m.id].status # "OPEN"
     \/ m.type = "blocker.escalate" /\ blockers[m.id].status = "RESOLVED"

\* The AppErrors that dispatch throws, all of them before its first write.
Throws(m, u) ==
  \/ /\ m.type = "task.create"
     /\ \/ m.status # None /\ BadStatus(m.status)
        \/ m.priority # None /\ BadPriority(m.priority)
  \/ /\ m.type \in {"task.update", "task.move", "task.delete"}
     /\ tasks[m.id] = None \/ TaskBelongsToAnother(m.id, u)
  \/ /\ m.type = "task.update"
     /\ \/ m.status # Keep /\ BadStatus(m.status)
        \/ m.priority \notin {Keep, None} /\ BadPriority(m.priority)
        \/ m.status = Keep /\ m.priority = Keep /\ m.assignee = Keep
  \/ m.type = "task.move" /\ BadStatus(m.status)
  \/ /\ m.type = "task.priority"
     /\ tasks[m.id] = None \/ BadPriority(m.priority)
  \/ /\ m.type \in {"blocker.create", "feedback.create"}
     /\ m.task # None /\ tasks[m.task] = None
  \/ /\ m.type \in {"blocker.comment", "blocker.requestResolution",
                    "blocker.resolve", "blocker.escalate"}
     /\ blockers[m.id] = None
  \/ WrongStatus(m)

\* The store's and the instance's variables a refused request leaves alone.
Untouched == UNCHANGED <<tasks, blockers, comments, updates, feedback, mentions,
                         escalations, activity, cacheFresh, pending, conn,
                         replica, expired, interrupted>>

\* canMutate says no: an error frame, and nothing is claimed.
Forbidden(r, s, m) ==
  /\ Arrives(r, s, m) /\ ~CanMutate(RoleOf[SockUser[s]], m.type)
  /\ Sent(r, s, m)
  /\ answer' = [answer EXCEPT ![r] = "error"]
  /\ UNCHANGED claims /\ Untouched

\* The id was claimed before: acknowledged (as a duplicate) without dispatch.
Duplicate(r, s, m) ==
  /\ Arrives(r, s, m) /\ CanMutate(RoleOf[SockUser[s]], m.type)
  /\ Claimed(r)
  /\ Sent(r, s, m)
  /\ answer' = [answer EXCEPT ![r] = "ack"]
  /\ claims' = Unexpired(claims) /\ Untouched

\* dispatch throws: the claim is released so that a retry can succeed.
Refuse(r, s, m) ==
  /\ Arrives(r, s, m) /\ CanMutate(RoleOf[SockUser[s]], m.type)
  /\ ~Claimed(r) /\ Throws(m, SockUser[s])
  /\ Sent(r, s, m)
  /\ answer' = [answer EXCEPT ![r] = "error"]
  /\ claims' = Released(r) /\ Untouched

\* The way into a dispatch that runs to its end.
Accept(r, s, m, type) ==
  /\ m.type = type
  /\ Arrives(r, s, m) /\ CanMutate(RoleOf[SockUser[s]], m.type)
  /\ ~Claimed(r) /\ ~Throws(m, SockUser[s])
  /\ Sent(r, s, m)
  /\ claims' = Unexpired(claims) \cup {r}
  /\ UNCHANGED <<conn, expired>>

\* One activity row per applied mutation.
Log(batch) ==
  activity' = [r \in Reqs |-> IF r \in batch.activity THEN activity[r] + 1
                                                      ELSE activity[r]]

\* A dispatch without an await: broadcast, attention, acknowledgement.
Finish(r, batch) ==
  /\ Log(batch) /\ Publish(batch)
  /\ answer' = [answer EXCEPT ![r] = "ack"]
  /\ UNCHANGED <<cacheFresh, pending, interrupted>>

\* applyMentions: one row per mentioned member other than the author, unless
\* one with the same (user, source, id) exists.
\* Mutant: the dedupe is missing.
MentionsWithoutDedupe(r, u, source, id, named) ==
  {[user |-> v, source |-> source, id |-> id, req |-> r] : v \in
     {w \in named \ {u} : RoleOf[w] \in Roles}}
NewMentions(r, u, source, id, named) ==
  {[user |-> v, source |-> source, id |-> id, req |-> r] : v \in
     {w \in named \ {u} : /\ RoleOf[w] \in Roles
                          /\ ~\E n \in mentions : /\ n.user = w
                                                  /\ n.source = source
                                                  /\ n.id = id}}

\* A dispatch that ends with applyMentions.  With a warm roster it runs to its
\* end; with a cold one everything written so far stays and the rest waits.
FinishWithMentions(r, u, source, id, named, batch) ==
  LET new == NewMentions(r, u, source, id, named) IN
  \/ /\ cacheFresh
     /\ mentions' = mentions \cup new
     /\ Finish(r, [batch EXCEPT !.mentions = new])
  \/ /\ ~cacheFresh
     /\ Log(batch)
     /\ pending' = [pending EXCEPT ![r] = batch]
     /\ answer' = [answer EXCEPT ![r] = None]
     /\ UNCHANGED <<mentions, replica, cacheFresh, interrupted>>

-----------------------------------------------------------------------------
(* dispatch, one action per message type.                                  *)

\* Writes one task row and tells the clients.
\* Mutant: the event is not broadcast.
WriteTaskSilently(r, t, row, logged) ==
  /\ tasks' = [tasks EXCEPT ![t] = row]
  /\ UNCHANGED <<blockers, comments, updates, feedback, mentions, escalations>>
  /\ Finish(r, [Quiet EXCEPT !.activity = logged])
WriteTask(r, t, row, logged) ==
  /\ tasks' = [tasks EXCEPT ![t] = row]
  /\ UNCHANGED <<blockers, comments, updates, feedback, mentions, escalations>>
  /\ Finish(r, [Quiet EXCEPT !.tasks = Only(t, row), !.activity = logged])

TaskCreate(r, s, m) ==
  /\ Accept(r, s, m, "task.create")
  /\ WriteTask(r, r, [status |-> Or(m.status, "TODO"), priority |-> m.priority,
                      assignee |-> m.assignee, createdBy |-> SockUser[s]], {r})

TaskUpdate(r, s, m) ==
  /\ Accept(r, s, m, "task.update")
  /\ WriteTask(r, m.id,
       [tasks[m.id] EXCEPT !.status   = Patched(m.status, @),
                           !.priority = Patched(m.priority, @),
                           !.assignee = Patched(m.assignee, @)],
       IF m.status = Keep THEN {} ELSE {r})

TaskMove(r, s, m) ==
  /\ Accept(r, s, m, "task.move")
  /\ WriteTask(r, m.id, [tasks[m.id] EXCEPT !.status = m.status], {r})

TaskPriority(r, s, m) ==
  /\ Accept(r, s, m, "task.priority")
  /\ WriteTask(r, m.id, [tasks[m.id] EXCEPT !.priority = m.priority], {r})

\* The rows of a table without their references to task t.
\* Mutant: the references stay.
LeftAttached(rows, t) == rows
Detached(rows, t) ==
  [x \in DOMAIN rows |-> IF rows[x] # None /\ rows[x].task = t
                           THEN [rows[x] EXCEPT !.task = None] ELSE rows[x]]

\* deleteTask also detaches the blockers and the feedback on the task; the
\* clients are told of the deletion only.
TaskDelete(r, s, m) ==
  /\ Accept(r, s, m, "task.delete")
  /\ blockers' = Detached(blockers, m.id)
  /\ feedback' = Detached(feedback, m.id)
  /\ tasks' = [tasks EXCEPT ![m.id] = None]
  /\ UNCHANGED <<comments, updates, mentions, escalations>>
  /\ Finish(r, [Quiet EXCEPT !.tasks = Only(m.id, None), !.activity = {r}])

BlockerCreate(r, s, m) ==
  LET row == NewBlocker(m.task) IN
  /\ Accept(r, s, m, "blocker.create")
  /\ blockers' = [blockers EXCEPT ![r] = row]
  /\ UNCHANGED <<tasks, comments, updates, feedback, mentions, escalations>>
  /\ Finish(r, [Quiet EXCEPT !.blockers = Only(r, row), !.activity = {r}])

\* addBlockerComment marks the blocker as answered when a mentor writes.
Commented(row, u) ==
  [row EXCEPT !.responded = @ \/ RoleOf[u] = "mentor"]

\* The batch of a blocker.commented event: the row as it was read back.
CommentBatch(r, b, row) ==
  [Quiet EXCEPT !.blockers = Only(b, row),
                !.comments = {[id |-> r, blocker |-> b]},
                !.activity = {r}]

BlockerComment(r, s, m) ==
  LET u == SockUser[s]  row == Commented(blockers[m.id], u) IN
  /\ Accept(r, s, m, "blocker.comment")
  /\ blockers' = [blockers EXCEPT ![m.id] = row]
  /\ comments' = comments \cup {[id |-> r, blocker |-> m.id]}
  /\ UNCHANGED <<tasks, updates, feedback, escalations>>
  /\ FinishWithMentions(r, u, "BLOCKER_COMMENT", m.id, m.mentions,
                        CommentBatch(r, m.id, row))

\* The comment row is broadcast with the row read before it was written: for
\* an intern's comment that is the same row.
BlockerRequestResolution(r, s, m) ==
  LET row == [blockers[m.id] EXCEPT !.status = "RESOLUTION_REQUESTED"] IN
  /\ Accept(r, s, m, "blocker.requestResolution")
  /\ blockers' = [blockers EXCEPT ![m.id] = Commented(row, SockUser[s])]
  /\ comments' = comments \cup {[id |-> r, blocker |-> m.id]}
  /\ UNCHANGED <<tasks, updates, feedback, mentions, escalations>>
  /\ Finish(r, CommentBatch(r, m.id, row))

BlockerResolve(r, s, m) ==
  LET row == [blockers[m.id] EXCEPT !.status = "RESOLVED",
                                    !.resolvedBy = SockUser[s],
                                    !.resolvedAt = Cardinality(Resolved) + 1] IN
  /\ Accept(r, s, m, "blocker.resolve")
  /\ UNCHANGED <<tasks, comments, updates, feedback, mentions, escalations>>
  /\ \/ /\ blockers[m.id].status # "RESOLVED"
        /\ blockers' = [blockers EXCEPT ![m.id] = row]
        /\ Finish(r, [Quiet EXCEPT !.blockers = Only(m.id, row),
                                   !.activity = {r}])
     \/ /\ blockers[m.id].status = "RESOLVED"   \* the first writer won
        /\ UNCHANGED blockers
        /\ Finish(r, Quiet)

BlockerEscalate(r, s, m) ==
  LET row == Commented(blockers[m.id], SockUser[s]) IN
  /\ Accept(r, s, m, "blocker.escalate")
  /\ blockers' = [blockers EXCEPT ![m.id] = row]
  /\ comments' = comments \cup {[id |-> r, blocker |-> m.id]}
  /\ escalations' = escalations \cup {m.id}
  /\ UNCHANGED <<tasks, updates, feedback, mentions>>
  /\ Finish(r, CommentBatch(r, m.id, row))

UpdateCreate(r, s, m) ==
  /\ Accept(r, s, m, "update.create")
  /\ updates' = updates \cup {r}
  /\ UNCHANGED <<tasks, blockers, comments, feedback, escalations>>
  /\ FinishWithMentions(r, SockUser[s], "UPDATE", r, m.mentions,
                        [Quiet EXCEPT !.updates = {r}, !.activity = {r}])

FeedbackCreate(r, s, m) ==
  LET row == [task |-> m.task] IN
  /\ Accept(r, s, m, "feedback.create")
  /\ feedback' = [feedback EXCEPT ![r] = row]
  /\ UNCHANGED <<tasks, blockers, comments, updates, escalations>>
  /\ FinishWithMentions(r, SockUser[s], "TASK_COMMENT", r, m.mentions,
                        [Quiet EXCEPT !.feedback = Only(r, row),
                                      !.activity = {r}])

\* D1 answers a handler that waits in applyMentions.  A failed query counts as
\* an empty roster and is not cached.  The batch goes out as it was computed
\* before the gap.
SourceOf(r) ==
  LET m == sent[r].msg IN
  CASE m.type = "blocker.comment" -> <<"BLOCKER_COMMENT", m.id>>
    [] m.type = "update.create"   -> <<"UPDATE", r>>
    [] OTHER                      -> <<"TASK_COMMENT", r>>

WaitsForD1(r) == pending[r] # None

Resume(r, ok) ==
  /\ WaitsForD1(r)
  /\ UNCHANGED <<tasks, blockers, comments, updates, feedback, escalations,
                 activity, claims, conn, sent, expired>>
  /\ LET new == IF ok
                  THEN NewMentions(r, SockUser[sent[r].sock], SourceOf(r)[1],
                                   SourceOf(r)[2], sent[r].msg.mentions)
                  ELSE {}
     IN /\ mentions' = mentions \cup new
        /\ Publish([pending[r] EXCEPT !.mentions = new])
  /\ cacheFresh' = (cacheFresh \/ ok)
  /\ interrupted' = IF ok THEN interrupted ELSE interrupted \cup {r}
  /\ pending' = [pending EXCEPT ![r] = None]
  /\ answer' = [answer EXCEPT ![r] = Or(@, "ack")]

-----------------------------------------------------------------------------
(* Connections.                                                            *)

\* broadcast of presence.updated, as tab x sees it.
\* Mutant: nobody is told.
PresenceUntold(x) == replica[x]
PresenceTold(x) ==
  IF conn[x] = "live" THEN [replica[x] EXCEPT !.presence = PresenceState']
                      ELSE replica[x]

\* The tab s becomes live: the snapshot replaces what it shows, and everyone
\* else learns who is present.
Welcome(s) ==
  /\ conn' = [conn EXCEPT ![s] = "live"]
  /\ replica' = [x \in Socks |->
       IF x = s THEN [Snapshot(SockUser[s]) EXCEPT !.presence = PresenceState']
       ELSE PresenceTold(x)]

\* The upgrade accepts the socket first and then builds the snapshot, which
\* waits for D1 when the roster is cold.
Upgrade(s) ==
  /\ conn[s] = "off"
  /\ IF cacheFresh THEN Welcome(s)
     ELSE conn' = [conn EXCEPT ![s] = "joining"] /\ UNCHANGED replica
  /\ UNCHANGED <<store, cacheFresh, pending, sent, answer, expired, interrupted>>

SnapshotReady(s, ok) ==
  /\ conn[s] = "joining"
  /\ Welcome(s)
  /\ cacheFresh' = (cacheFresh \/ ok)
  /\ UNCHANGED <<store, pending, sent, answer, expired, interrupted>>

\* The acknowledgement of a handler in the gap goes to the closed socket.
\* webSocketClose (and webSocketError, the failed socket no longer being open).
Disconnect(s) ==
  /\ conn[s] # "off"
  /\ conn' = [conn EXCEPT ![s] = "off"]
  /\ replica' = [x \in Socks |->
       IF x = s THEN BlankReplica ELSE PresenceTold(x)]
  /\ answer' = [r \in Reqs |->
       IF pending[r] # None /\ sent[r].sock = s THEN Or(answer[r], "lost")
                                               ELSE answer[r]]
  /\ UNCHANGED <<store, cacheFresh, pending, sent, expired, interrupted>>

\* The roster cache passes MEMBERS_TTL_MS.
RosterExpires ==
  /\ cacheFresh
  /\ cacheFresh' = FALSE
  /\ UNCHANGED <<store, pending, conn, replica, sent, answer, expired,
                 interrupted>>

\* An hour passes: every claim is older than PROCESSED_TTL_MS.  No handler
\* waits that long for D1.
ClaimsExpire ==
  /\ claims \ expired # {}
  /\ \A r \in Reqs : pending[r] = None
  /\ expired' = expired \cup claims
  /\ UNCHANGED <<store, cacheFresh, pending, conn, replica, sent, answer,
                 interrupted>>

\* The instance is reset: tables survive, handlers and sockets do not.
Restart ==
  /\ conn' = [s \in Socks |-> "off"]
  /\ replica' = [s \in Socks |-> BlankReplica]
  /\ interrupted' = interrupted \cup {r \in Reqs : pending[r] # None}
  /\ pending' = [r \in Reqs |-> None]
  /\ cacheFresh' = FALSE
  /\ UNCHANGED <<store, sent, answer, expired>>

-----------------------------------------------------------------------------

Dispatch(r, s, m) ==
  \/ TaskCreate(r, s, m) \/ TaskUpdate(r, s, m) \/ TaskMove(r, s, m)
  \/ TaskPriority(r, s, m) \/ TaskDelete(r, s, m)
  \/ BlockerCreate(r, s, m) \/ BlockerComment(r, s, m)
  \/ BlockerRequestResolution(r, s, m) \/ BlockerResolve(r, s, m)
  \/ BlockerEscalate(r, s, m)
  \/ UpdateCreate(r, s, m) \/ FeedbackCreate(r, s, m)

Receive(r, s, m) ==
  Forbidden(r, s, m) \/ Duplicate(r, s, m) \/ Refuse(r, s, m) \/ Dispatch(r, s, m)

Next ==
  \/ \E r \in Reqs, s \in Socks, m \in Messages : Receive(r, s, m)
  \/ \E r \in Reqs, ok \in BOOLEAN : Resume(r, ok)
  \/ \E s \in Socks : Upgrade(s) \/ Disconnect(s)
  \/ \E s \in Socks, ok \in BOOLEAN : SnapshotReady(s, ok)
  \/ RosterExpires \/ ClaimsExpire \/ Restart

Spec == Init /\ [][Next]_vars

-----------------------------------------------------------------------------
(* Properties.                                                             *)

AttentionItems ==
  {"MENTIONED", "BLOCKER_WAITING_ON_YOU", "URGENT_TASK_BLOCKED"}
    \X (MentionRow \cup BlockerIds \cup TaskIds)
ReplicaRow ==
  [tasks : [TaskIds -> TaskRow \cup {None}],
   blockers : [BlockerIds -> BlockerRow \cup {None}],
   comments : SUBSET CommentRow, updates : SUBSET Reqs,
   feedback : [Reqs -> FeedbackRow \cup {None}], activity : [Reqs -> Nat],
   mentions : SUBSET MentionRow, attention : SUBSET AttentionItems,
   presence : SUBSET Users]

\* Every variable holds a value of its table or of its part of the instance.
TypeOK ==
  /\ tasks \in [TaskIds -> TaskRow \cup {None}]
  /\ blockers \in [BlockerIds -> BlockerRow \cup {None}]
  /\ comments \subseteq CommentRow
  /\ updates \subseteq Reqs
  /\ feedback \in [Reqs -> FeedbackRow \cup {None}]
  /\ mentions \subseteq MentionRow
  /\ escalations \subseteq BlockerIds
  /\ activity \in [Reqs -> Nat]
  /\ claims \subseteq Reqs /\ expired \subseteq Reqs /\ interrupted \subseteq Reqs
  /\ cacheFresh \in BOOLEAN
  /\ pending \in [Reqs -> WaitingBatch \cup {None}]
  /\ conn \in [Socks -> {"off", "joining", "live"}]
  /\ replica \in [Socks -> ReplicaRow]
  /\ sent \in [Reqs -> Submissions \cup {None}]
  /\ answer \in [Reqs -> {"ack", "error", "lost", None}]

\* A request id takes effect at most once, however often it is sent and however
\* its deliveries interleave with a handler that waits for D1
\* (claimRequest before the first await).  Effects are counted by the activity
\* row that every mutation writes but a task.update without a status.
AppliedOnce == \A r \in Reqs : activity[r] <= 1

\* The effect of a request is in the store.
Applied(r) ==
  LET m == sent[r].msg IN
  CASE m.type = "blocker.resolve" -> blockers[m.id].status = "RESOLVED"
    [] m.type = "task.update" -> m.status # Keep => activity[r] = 1
    [] OTHER -> activity[r] = 1

\* An acknowledgement, duplicate or not, is only given to a request whose
\* effect is in the store: a claim is released when its dispatch throws.
AckedIsApplied == \A r \in Reqs : answer[r] = "ack" => Applied(r)

\* A live tab shows exactly the tasks of the store, whatever happened while its
\* snapshot or another handler waited for D1.
TasksInSync ==
  \A s \in Socks : conn[s] = "live" => replica[s].tasks = tasks

\* A live tab, however long ago it joined, knows at least the blockers that
\* listBlockers would hand out now: every unresolved one and the ones resolved
\* last.  It shows none that is not there or further along than the store has
\* it, and another task link than the store's only when that task was deleted.
Rank(status) == CASE status = "OPEN" -> 0
                  [] status = "RESOLUTION_REQUESTED" -> 1
                  [] status = "RESOLVED" -> 2
BlockersKnown ==
  \A s \in Socks : conn[s] = "live" =>
    \A b \in BlockerIds :
      LET seen == replica[s].blockers[b] IN
      /\ Listed(b) => seen # None
      /\ seen # None => /\ blockers[b] # None
                        /\ Rank(seen.status) <= Rank(blockers[b].status)
                        /\ seen.task # blockers[b].task => tasks[seen.task] = None

\* No blocker and no feedback points at a task that is not there, and no
\* comment or escalation at a missing blocker (deleteTask's detachment, the
\* existence checks of dispatch).
ReferencesIntact ==
  /\ \A b \in BlockerIds : blockers[b] # None /\ blockers[b].task # None
                             => tasks[blockers[b].task] # None
  /\ \A f \in Reqs : feedback[f] # None /\ feedback[f].task # None
                       => tasks[feedback[f].task] # None
  /\ \A c \in comments : blockers[c.blocker] # None
  /\ \A b \in escalations : blockers[b] # None

\* The members a finished request named were each mentioned for that source,
\* once, unless the roster query failed or the instance was reset in the gap.
Named(r) == LET m == sent[r].msg IN
  IF m.type \in {"blocker.comment", "update.create", "feedback.create"}
    THEN {u \in m.mentions \ {SockUser[sent[r].sock]} : RoleOf[u] \in Roles}
    ELSE {}
MentionsDelivered ==
  \A r \in Reqs :
    activity[r] = 1 /\ pending[r] = None /\ r \notin interrupted =>
      \A u \in Named(r) :
        Cardinality({n \in mentions : /\ n.user = u
                                      /\ n.source = SourceOf(r)[1]
                                      /\ n.id = SourceOf(r)[2]}) = 1

\* Nobody is mentioned who was not named, by themselves, or from a source that
\* does not exist.
MentionsJustified ==
  \A n \in mentions :
    /\ activity[n.req] = 1 /\ n.user \in Named(n.req)
    /\ n.source = "BLOCKER_COMMENT" => blockers[n.id] # None
    /\ n.source = "UPDATE" => n.id \in updates
    /\ n.source = "TASK_COMMENT" => feedback[n.id] # None

MentionsExact == MentionsDelivered /\ MentionsJustified

\* A live tab counts every identity that finished joining and no identity
\* without a socket; only those still waiting for their snapshot may be missing.
PresenceBounds ==
  \A s \in Socks : conn[s] = "live" =>
    /\ {SockUser[x] : x \in {y \in Socks : conn[y] = "live"}}
         \subseteq replica[s].presence
    /\ replica[s].presence \subseteq PresenceState

\* Once no handler is in the gap, every live tab shows the attention list that
\* the store implies, for its own user.
AttentionFresh ==
  (\A r \in Reqs : pending[r] = None) =>
    \A s \in Socks : conn[s] = "live" =>
      replica[s].attention = AttentionOf(SockUser[s])

\* A blocker moves forward only, and who resolved it first, and when, stays
\* however many resolve it at once.
BlockerLifecycle ==
  [][\A b \in BlockerIds : blockers[b] # None =>
       /\ blockers'[b] # None
       /\ Rank(blockers[b].status) <= Rank(blockers'[b].status)
       /\ blockers[b].responded => blockers'[b].responded
       /\ blockers[b].status = "RESOLVED" =>
            /\ blockers'[b].resolvedBy = blockers[b].resolvedBy
            /\ blockers'[b].resolvedAt = blockers[b].resolvedAt]_blockers

\* A task is moved, reassigned or deleted by its owner of that moment only; the
\* others change at most its priority.
Owner(t) == Or(tasks[t].assignee, tasks[t].createdBy)
OwnersMoveTasks ==
  [][\A t \in TaskIds : tasks[t] # None /\ tasks'[t] # tasks[t] =>
       \/ tasks'[t] # None /\ \E p \in TaskPriorities :
            tasks'[t] = [tasks[t] EXCEPT !.priority = p]
       \/ \E r \in claims' \ claims :
            SockUser[sent'[r].sock] = Owner(t)]_tasks

(* What the documentation says and the code does not do.                   *)

Quiescent == \A r \in Reqs : pending[r] = None

\* Once things settle, a live tab that shows a blocker shows its final status.
BlockerStatusConverges ==
  Quiescent => \A s \in Socks : conn[s] = "live" =>
    \A b \in BlockerIds : replica[s].blockers[b] # None =>
      replica[s].blockers[b].status = blockers[b].status
=============================================================================
