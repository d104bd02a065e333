-------------------------- MODULE WorkspaceDO_proofs --------------------------
(***************************************************************************)
(* Proofs about WorkspaceDO, for any users, tabs, request ids, messages    *)
(* and seeds.                                                              *)
(***************************************************************************)
EXTENDS WorkspaceDO, FiniteSetTheorems, TLAPS

-----------------------------------------------------------------------------
(* Messages.                                                               *)

\* The fields of a message are those of its type.
LEMMA MessageFields ==
  ASSUME NEW m \in Messages
  PROVE  /\ m.type = "task.create" =>
              /\ m.status \in StatusInput \cup {None}
              /\ m.priority \in PriorityInput \cup {None}
              /\ m.assignee \in Users \cup {None}
         /\ m.type = "task.update" =>
              /\ m.id \in TaskIds
              /\ m.status \in StatusInput \cup {Keep}
              /\ m.priority \in PriorityInput \cup {None, Keep}
              /\ m.assignee \in Users \cup {None, Keep}
         /\ m.type = "task.move" => m.id \in TaskIds /\ m.status \in StatusInput
         /\ m.type = "task.delete" => m.id \in TaskIds
         /\ m.type = "task.priority" =>
              m.id \in TaskIds /\ m.priority \in PriorityInput
         /\ m.type \in {"blocker.create", "feedback.create"} =>
              m.task \in TaskIds \cup {None}
         /\ m.type \in {"blocker.comment", "blocker.requestResolution",
                        "blocker.resolve", "blocker.escalate"} =>
              m.id \in BlockerIds
         /\ m.type \in {"blocker.comment", "update.create", "feedback.create"} =>
              m.mentions \subseteq Users
BY MessagesAssumption DEF ClientMessage

-----------------------------------------------------------------------------
(* Batches and what the tabs make of them.                                 *)

IsBatch(batch) ==
  /\ \A t \in DOMAIN batch.tasks : batch.tasks[t] \in TaskRow \cup {None}
  /\ \A b \in DOMAIN batch.blockers : batch.blockers[b] \in BlockerRow \cup {None}
  /\ \A f \in DOMAIN batch.feedback : batch.feedback[f] \in FeedbackRow \cup {None}
  /\ batch.comments \subseteq CommentRow
  /\ batch.updates \subseteq Reqs
  /\ batch.mentions \subseteq MentionRow

\* Writing rows over a table gives a table.
LEMMA OverlayType ==
  ASSUME NEW D, NEW V, NEW f \in [D -> V], NEW d,
         \A x \in DOMAIN d : d[x] \in V
  PROVE  Overlay(f, d) \in [D -> V]
BY DEF Overlay

\* A tab that reduces a batch still shows rows of the tables.
LEMMA ReduceType ==
  ASSUME NEW rep \in ReplicaRow, NEW batch, IsBatch(batch)
  PROVE  Reduce(rep, batch) \in ReplicaRow
<1>1. Overlay(rep.tasks, batch.tasks) \in [TaskIds -> TaskRow \cup {None}]
  BY OverlayType DEF IsBatch, ReplicaRow
<1>2. Overlay(rep.blockers, batch.blockers) \in [BlockerIds -> BlockerRow \cup {None}]
  BY OverlayType DEF IsBatch, ReplicaRow
<1>3. Overlay(rep.feedback, batch.feedback) \in [Reqs -> FeedbackRow \cup {None}]
  BY OverlayType DEF IsBatch, ReplicaRow
<1>4. [r \in Reqs |-> IF r \in batch.activity THEN rep.activity[r] + 1
                                              ELSE rep.activity[r]]
        \in [Reqs -> Nat]
  BY DEF ReplicaRow
<1>5. QED
  BY <1>1, <1>2, <1>3, <1>4 DEF Reduce, IsBatch, ReplicaRow

\* An attention list holds attention items.
LEMMA AttentionType ==
  ASSUME mentions \subseteq MentionRow, NEW u
  PROVE  AttentionOf(u) \subseteq AttentionItems
BY DEF AttentionOf, AttentionItems

\* Publishing a batch keeps every tab well formed.
LEMMA PublishType ==
  ASSUME replica \in [Socks -> ReplicaRow], mentions' \subseteq MentionRow,
         NEW batch, IsBatch(batch), Publish(batch)
  PROVE  replica' \in [Socks -> ReplicaRow]
<1> SUFFICES ASSUME NEW s \in Socks, conn[s] = "live"
             PROVE  [Reduce(replica[s], batch) EXCEPT
                       !.attention = AttentionOf(SockUser[s])'] \in ReplicaRow
  BY DEF Publish
<1>1. AttentionOf(SockUser[s])' \subseteq AttentionItems
  BY DEF AttentionOf, AttentionItems
<1>2. Reduce(replica[s], batch) \in ReplicaRow
  BY ReduceType
<1>3. QED
  BY <1>1, <1>2 DEF ReplicaRow

\* The batches that dispatch computes.
LEMMA BatchForms ==
  /\ \A t \in TaskIds, row \in TaskRow \cup {None}, logged \in SUBSET Reqs :
       IsBatch([Quiet EXCEPT !.tasks = Only(t, row), !.activity = logged])
  /\ \A logged \in SUBSET Reqs : IsBatch([Quiet EXCEPT !.activity = logged])
  /\ \A b \in BlockerIds, row \in BlockerRow, logged \in SUBSET Reqs :
       IsBatch([Quiet EXCEPT !.blockers = Only(b, row), !.activity = logged])
  /\ IsBatch(Quiet)
BY DEF IsBatch, Quiet, Only, NoRows

\* The batches that may wait, one form per mentioning message.
LEMMA WaitingForms ==
  ASSUME NEW r \in Reqs
  PROVE  /\ \A b \in BlockerIds, row \in BlockerRow :
              CommentBatch(r, b, row) \in WaitingBatch
         /\ [Quiet EXCEPT !.updates = {r}, !.activity = {r}] \in WaitingBatch
         /\ \A row \in FeedbackRow :
              [Quiet EXCEPT !.feedback = Only(r, row), !.activity = {r}]
                \in WaitingBatch
<1>1. /\ NoRows \in {NoRows} \cup UNION {[{b} -> BlockerRow] : b \in BlockerIds}
      /\ NoRows \in {NoRows} \cup UNION {[{f} -> FeedbackRow] : f \in Reqs}
      /\ {r} \in {{x} : x \in Reqs}
  OBVIOUS
<1>2. ASSUME NEW b \in BlockerIds, NEW row \in BlockerRow
      PROVE  CommentBatch(r, b, row) \in WaitingBatch
  <2>1. Only(b, row) \in UNION {[{c} -> BlockerRow] : c \in BlockerIds}
    BY DEF Only
  <2>2. {[id |-> r, blocker |-> b]} \in SUBSET CommentRow
    BY DEF CommentRow
  <2>3. QED
    BY <1>1, <2>1, <2>2 DEF CommentBatch, Quiet, WaitingBatch
<1>3. [Quiet EXCEPT !.updates = {r}, !.activity = {r}] \in WaitingBatch
  BY <1>1 DEF Quiet, WaitingBatch
<1>4. ASSUME NEW row \in FeedbackRow
      PROVE  [Quiet EXCEPT !.feedback = Only(r, row), !.activity = {r}]
               \in WaitingBatch
  <2>1. Only(r, row) \in UNION {[{c} -> FeedbackRow] : c \in Reqs}
    BY DEF Only
  <2>2. QED
    BY <1>1, <2>1 DEF Quiet, WaitingBatch
<1>5. QED
  BY <1>2, <1>3, <1>4

\* A waiting batch never holds a task, and stays a batch when its mentions come.
LEMMA WaitingIsBatch ==
  ASSUME NEW batch \in WaitingBatch, NEW new \in SUBSET MentionRow
  PROVE  /\ IsBatch(batch)
         /\ IsBatch([batch EXCEPT !.mentions = new])
         /\ [batch EXCEPT !.mentions = new].tasks = NoRows
         /\ batch.activity \subseteq Reqs
         /\ [batch EXCEPT !.mentions = new].activity \subseteq Reqs
<1>0. /\ DOMAIN NoRows = {}
      /\ \A S, x : \A f \in [{x} -> S] : \A y \in DOMAIN f : f[y] \in S
  BY DEF NoRows
<1>1. \A b \in DOMAIN batch.blockers : batch.blockers[b] \in BlockerRow
  <2>1. \/ batch.blockers = NoRows
        \/ \E b \in BlockerIds : batch.blockers \in [{b} -> BlockerRow]
    BY DEF WaitingBatch
  <2>2. QED
    BY <1>0, <2>1, Zenon
<1>2. \A f \in DOMAIN batch.feedback : batch.feedback[f] \in FeedbackRow
  <2>1. \/ batch.feedback = NoRows
        \/ \E f \in Reqs : batch.feedback \in [{f} -> FeedbackRow]
    BY DEF WaitingBatch
  <2>2. QED
    BY <1>0, <2>1, Zenon
<1>3. QED
  BY <1>1, <1>2 DEF IsBatch, WaitingBatch, NoRows

-----------------------------------------------------------------------------
(* Type correctness.                                                       *)

\* The initial tables, instance and tabs are well formed.
LEMMA TypeInit == Init => TypeOK
<1> SUFFICES ASSUME Init PROVE TypeOK
  OBVIOUS
<1>1. BlankReplica \in ReplicaRow
  BY DEF BlankReplica, ReplicaRow
<1>2. tasks \in [TaskIds -> TaskRow \cup {None}]
  BY DEF Init, TaskRow, TaskStatuses, TaskPriorities
<1>3. blockers \in [BlockerIds -> BlockerRow \cup {None}]
  BY SeedsAssumption DEF Init
<1>4. QED
  BY <1>1, <1>2, <1>3 DEF Init, TypeOK

\* A frame that is refused or acknowledged again changes no type.
LEMMA TypeRefused ==
  ASSUME TypeOK, NEW r \in Reqs, NEW s \in Socks, NEW m \in Messages,
         Forbidden(r, s, m) \/ Duplicate(r, s, m) \/ Refuse(r, s, m)
  PROVE  TypeOK'
BY DEF TypeOK, Forbidden, Duplicate, Refuse, Untouched, Sent, Submissions,
       Unexpired, Released

\* The tables that dispatch writes directly, and everything else it touches.
TablesOK ==
  /\ tasks \in [TaskIds -> TaskRow \cup {None}]
  /\ blockers \in [BlockerIds -> BlockerRow \cup {None}]
  /\ comments \subseteq CommentRow
  /\ updates \subseteq Reqs
  /\ feedback \in [Reqs -> FeedbackRow \cup {None}]
  /\ escalations \subseteq BlockerIds
RestOK ==
  /\ mentions \subseteq MentionRow
  /\ activity \in [Reqs -> Nat]
  /\ interrupted \subseteq Reqs /\ cacheFresh \in BOOLEAN
  /\ pending \in [Reqs -> WaitingBatch \cup {None}]
  /\ replica \in [Socks -> ReplicaRow]
  /\ answer \in [Reqs -> {"ack", "error", "lost", None}]

\* What accepting a frame writes is well formed.
LEMMA TypeAccept ==
  ASSUME TypeOK, NEW r \in Reqs, NEW s \in Socks, NEW m \in Messages,
         Accept(r, s, m, m.type)
  PROVE  /\ sent' \in [Reqs -> Submissions \cup {None}]
         /\ claims' \subseteq Reqs /\ expired' \subseteq Reqs
         /\ conn' \in [Socks -> {"off", "joining", "live"}]
BY DEF TypeOK, Accept, Sent, Submissions, Unexpired

\* A handler that runs to its end leaves instance and tabs well formed.
LEMMA TypeFinish ==
  ASSUME TypeOK, NEW r \in Reqs, NEW batch, IsBatch(batch),
         mentions' \subseteq MentionRow, Finish(r, batch)
  PROVE  RestOK'
<1>1. replica' \in [Socks -> ReplicaRow]
  BY PublishType DEF TypeOK, Finish
<1>2. activity' \in [Reqs -> Nat]
  BY DEF TypeOK, Finish, Log
<1>3. QED
  BY <1>1, <1>2 DEF TypeOK, Finish, RestOK

\* New mentions are rows about named members.
LEMMA NewMentionsType ==
  ASSUME NEW r \in Reqs, NEW u, NEW source \in MentionSources,
         NEW id \in BlockerIds, NEW named \in SUBSET Users
  PROVE  NewMentions(r, u, source, id, named) \in SUBSET MentionRow
BY DEF NewMentions, MentionRow

\* So does one that ends with applyMentions, waiting or not.
LEMMA TypeMentions ==
  ASSUME TypeOK, NEW r \in Reqs, NEW u, NEW source \in MentionSources,
         NEW id \in BlockerIds, NEW named \in SUBSET Users,
         NEW batch \in WaitingBatch,
         FinishWithMentions(r, u, source, id, named, batch)
  PROVE  RestOK'
<1> DEFINE new == NewMentions(r, u, source, id, named)
<1>1. new \in SUBSET MentionRow
  BY NewMentionsType
<1> HIDE DEF new
<1>2. CASE /\ mentions' = mentions \cup new
           /\ Finish(r, [batch EXCEPT !.mentions = new])
  <2>1. IsBatch([batch EXCEPT !.mentions = new])
    BY <1>1, WaitingIsBatch
  <2>2. mentions' \subseteq MentionRow
    BY <1>1, <1>2 DEF TypeOK
  <2>3. QED
    BY <1>2, <2>1, <2>2, TypeFinish
<1>3. CASE /\ Log(batch)
           /\ pending' = [pending EXCEPT ![r] = batch]
           /\ answer' = [answer EXCEPT ![r] = None]
           /\ UNCHANGED <<mentions, replica, cacheFresh, interrupted>>
  <2>1. activity' \in [Reqs -> Nat]
    BY <1>3 DEF TypeOK, Log
  <2>2. QED
    BY <1>3, <2>1 DEF TypeOK, RestOK
<1>4. QED
  BY <1>2, <1>3 DEF FinishWithMentions, new

\* Writing one task row, by any of the four mutations that do.
LEMMA TypeWriteTask ==
  ASSUME TypeOK, NEW r \in Reqs, NEW t \in TaskIds, NEW row \in TaskRow,
         NEW logged \in SUBSET Reqs, WriteTask(r, t, row, logged)
  PROVE  TablesOK' /\ RestOK'
<1>1. IsBatch([Quiet EXCEPT !.tasks = Only(t, row), !.activity = logged])
  BY BatchForms
<1>2. RestOK'
  BY <1>1, TypeFinish DEF TypeOK, WriteTask
<1>3. QED
  BY <1>2 DEF TypeOK, WriteTask, TablesOK

\* Rows that are there, and rows as a mutation leaves them.
LEMMA RowTypes ==
  ASSUME TypeOK
  PROVE  /\ \A t \in TaskIds : tasks[t] # None => tasks[t] \in TaskRow
         /\ \A b \in BlockerIds : blockers[b] # None => blockers[b] \in BlockerRow
         /\ \A row \in BlockerRow, u \in Users :
              /\ Commented(row, u) \in BlockerRow
              /\ [row EXCEPT !.status = "RESOLUTION_REQUESTED"] \in BlockerRow
BY DEF TypeOK, Commented, BlockerRow, BlockerStatuses

\* The row of a new blocker.
LEMMA NewBlockerRow ==
  ASSUME NEW t \in TaskIds \cup {None}
  PROVE  NewBlocker(t) \in BlockerRow /\ NewBlocker(t).task = t
<1>1. Cardinality(BlockerIds) \in Nat
  BY IdsAssumption, FS_CardinalityType DEF BlockerIds
<1>2. QED
  BY <1>1 DEF NewBlocker, BlockerRow, BlockerStatuses, Moments

\* The number that the next resolution takes.
LEMMA NextResolution ==
  ASSUME NEW b \in BlockerIds, b \notin Resolved
  PROVE  Cardinality(Resolved) + 1 \in Moments
<1>1. IsFiniteSet(BlockerIds)
  BY IdsAssumption DEF BlockerIds
<1>2. Resolved \cup {b} \subseteq BlockerIds
  BY DEF Resolved
<1>3. IsFiniteSet(Resolved) /\ IsFiniteSet(Resolved \cup {b})
  BY <1>1, <1>2, FS_Subset
<1>4. Cardinality(Resolved \cup {b}) = Cardinality(Resolved) + 1
  BY <1>3, FS_AddElement
<1>5. Cardinality(Resolved \cup {b}) <= Cardinality(BlockerIds)
  BY <1>1, <1>2, FS_Subset
<1>6. Cardinality(Resolved) \in Nat /\ Cardinality(BlockerIds) \in Nat
  BY <1>1, <1>3, FS_CardinalityType
<1>7. QED
  BY <1>4, <1>5, <1>6 DEF Moments

\* The first resolution of a blocker writes a row and tells of it.
ResolvesTo(r, m, row) ==
  /\ row.status = "RESOLVED" /\ row.task = blockers[m.id].task
  /\ row.responded = blockers[m.id].responded
  /\ blockers[m.id].status # "RESOLVED"
  /\ blockers' = [blockers EXCEPT ![m.id] = row]
  /\ Finish(r, [Quiet EXCEPT !.blockers = Only(m.id, row), !.activity = {r}])

\* Resolving a blocker does that, or nothing when another one came first.
LEMMA ResolveForms ==
  ASSUME TypeOK, NEW r \in Reqs, NEW s \in Socks, NEW m \in Messages,
         BlockerResolve(r, s, m)
  PROVE  /\ m.id \in BlockerIds /\ blockers[m.id] \in BlockerRow
         /\ UNCHANGED <<tasks, comments, updates, feedback, mentions, escalations>>
         /\ \/ \E row \in BlockerRow : ResolvesTo(r, m, row)
            \/ /\ blockers[m.id].status = "RESOLVED"
               /\ UNCHANGED blockers /\ Finish(r, Quiet)
<1>1. m.id \in BlockerIds /\ blockers[m.id] \in BlockerRow
  BY MessageFields, RowTypes DEF BlockerResolve, Accept, Throws
<1>2. ASSUME NEW n, n = Cardinality(Resolved) + 1,
             NEW row, row = [blockers[m.id] EXCEPT !.status = "RESOLVED",
                               !.resolvedBy = SockUser[s], !.resolvedAt = n],
             blockers[m.id].status # "RESOLVED",
             blockers' = [blockers EXCEPT ![m.id] = row],
             Finish(r, [Quiet EXCEPT !.blockers = Only(m.id, row),
                                     !.activity = {r}])
      PROVE  row \in BlockerRow /\ ResolvesTo(r, m, row)
  <2>1. n \in Moments
    BY <1>1, <1>2, NextResolution DEF Resolved
  <2>2. /\ row \in BlockerRow /\ row.status = "RESOLVED"
        /\ row.task = blockers[m.id].task
        /\ row.responded = blockers[m.id].responded
    BY <1>1, <1>2, <2>1, RolesAssumption DEF BlockerRow, BlockerStatuses
  <2>3. QED
    BY <1>2, <2>2 DEF ResolvesTo
<1>3. QED
  BY <1>1, <1>2 DEF BlockerResolve

\* The four mutations of one task write a row of it.
LEMMA TaskWritten ==
  ASSUME TypeOK, NEW r \in Reqs, NEW s \in Socks, NEW m \in Messages,
         \/ TaskCreate(r, s, m) \/ TaskUpdate(r, s, m) \/ TaskMove(r, s, m)
         \/ TaskPriority(r, s, m)
  PROVE  \E t \in TaskIds, row \in TaskRow, logged \in {{}, {r}} :
           WriteTask(r, t, row, logged)
<1> r \in TaskIds /\ SockUser[s] \in Users
  BY RolesAssumption DEF TaskIds
<1>1. CASE TaskCreate(r, s, m)
  <2> DEFINE row == [status |-> Or(m.status, "TODO"), priority |-> m.priority,
                     assignee |-> m.assignee, createdBy |-> SockUser[s]]
  <2>1. row \in TaskRow
    BY <1>1, MessageFields DEF TaskCreate, Accept, Throws, BadStatus, BadPriority,
                               Or, TaskRow, TaskStatuses
  <2>2. WriteTask(r, r, row, {r})
    BY <1>1 DEF TaskCreate
  <2> HIDE DEF row
  <2>3. QED
    BY <2>1, <2>2
<1>2. CASE TaskUpdate(r, s, m)
  <2>1. m.id \in TaskIds /\ tasks[m.id] \in TaskRow
    BY <1>2, MessageFields, RowTypes DEF TaskUpdate, Accept, Throws
  <2>2. /\ Patched(m.status, tasks[m.id].status) \in TaskStatuses
        /\ Patched(m.priority, tasks[m.id].priority) \in TaskPriorities \cup {None}
        /\ Patched(m.assignee, tasks[m.id].assignee) \in Users \cup {None}
    BY <1>2, <2>1, MessageFields DEF TaskUpdate, Accept, Throws, Patched,
                                     BadStatus, BadPriority, TaskRow
  <2> DEFINE row == [tasks[m.id] EXCEPT !.status   = Patched(m.status, @),
                                        !.priority = Patched(m.priority, @),
                                        !.assignee = Patched(m.assignee, @)]
             logged == IF m.status = Keep THEN {} ELSE {r}
  <2>3. row \in TaskRow
    BY <2>1, <2>2 DEF TaskRow
  <2>4. WriteTask(r, m.id, row, logged) /\ logged \in {{}, {r}}
    BY <1>2 DEF TaskUpdate
  <2> HIDE DEF row, logged
  <2>5. QED
    BY <2>1, <2>3, <2>4
<1>3. CASE TaskMove(r, s, m)
  <2>1. m.id \in TaskIds /\ tasks[m.id] \in TaskRow /\ m.status \in TaskStatuses
    BY <1>3, MessageFields, RowTypes DEF TaskMove, Accept, Throws, BadStatus
  <2> DEFINE row == [tasks[m.id] EXCEPT !.status = m.status]
  <2>2. row \in TaskRow
    BY <2>1 DEF TaskRow
  <2>3. WriteTask(r, m.id, row, {r})
    BY <1>3 DEF TaskMove
  <2> HIDE DEF row
  <2>4. QED
    BY <2>1, <2>2, <2>3
<1>4. CASE TaskPriority(r, s, m)
  <2>1. m.id \in TaskIds /\ tasks[m.id] \in TaskRow /\ m.priority \in TaskPriorities
    BY <1>4, MessageFields, RowTypes DEF TaskPriority, Accept, Throws, BadPriority
  <2> DEFINE row == [tasks[m.id] EXCEPT !.priority = m.priority]
  <2>2. row \in TaskRow
    BY <2>1 DEF TaskRow
  <2>3. WriteTask(r, m.id, row, {r})
    BY <1>4 DEF TaskPriority
  <2> HIDE DEF row
  <2>4. QED
    BY <2>1, <2>2, <2>3
<1>5. QED
  BY <1>1, <1>2, <1>3, <1>4

\* Creating, updating, moving and prioritising a task keep the types.
LEMMA TypeTaskActions ==
  ASSUME TypeOK, NEW r \in Reqs, NEW s \in Socks, NEW m \in Messages,
         \/ TaskCreate(r, s, m) \/ TaskUpdate(r, s, m) \/ TaskMove(r, s, m)
         \/ TaskPriority(r, s, m)
  PROVE  TablesOK' /\ RestOK'
<1>1. \A logged \in {{}, {r}} : logged \in SUBSET Reqs
  OBVIOUS
<1>2. QED
  BY <1>1, TaskWritten, TypeWriteTask

\* Deleting a task keeps them, the detached rows included.
LEMMA TypeTaskDelete ==
  ASSUME TypeOK, NEW r \in Reqs, NEW s \in Socks, NEW m \in Messages,
         TaskDelete(r, s, m)
  PROVE  TablesOK' /\ RestOK'
<1>1. m.id \in TaskIds
  BY MessageFields DEF TaskDelete, Accept
<1>2. IsBatch([Quiet EXCEPT !.tasks = Only(m.id, None), !.activity = {r}])
  BY <1>1, BatchForms
<1>3. RestOK'
  BY <1>2, TypeFinish DEF TypeOK, TaskDelete
<1>4. Detached(blockers, m.id) \in [BlockerIds -> BlockerRow \cup {None}]
  BY DEF TypeOK, Detached, BlockerRow
<1>5. Detached(feedback, m.id) \in [Reqs -> FeedbackRow \cup {None}]
  BY DEF TypeOK, Detached, FeedbackRow
<1>6. QED
  BY <1>1, <1>3, <1>4, <1>5 DEF TypeOK, TaskDelete, TablesOK

\* A blocker row, with its comment if there is one, written and announced.
LEMMA BlockerBatches ==
  ASSUME NEW r \in Reqs, NEW b \in BlockerIds, NEW row \in BlockerRow
  PROVE  /\ IsBatch(CommentBatch(r, b, row))
         /\ IsBatch([Quiet EXCEPT !.blockers = Only(b, row), !.activity = {r}])
<1>1. CommentBatch(r, b, row) \in WaitingBatch
  BY WaitingForms
<1>2. IsBatch(CommentBatch(r, b, row))
  BY <1>1, WaitingIsBatch
<1>3. QED
  BY <1>2, BatchForms

\* The blocker mutations without mentions keep the types.
LEMMA TypeBlockerActions ==
  ASSUME TypeOK, NEW r \in Reqs, NEW s \in Socks, NEW m \in Messages,
         \/ BlockerCreate(r, s, m) \/ BlockerRequestResolution(r, s, m)
         \/ BlockerResolve(r, s, m) \/ BlockerEscalate(r, s, m)
  PROVE  TablesOK' /\ RestOK'
<1>0. /\ r \in BlockerIds /\ SockUser[s] \in Users
      /\ \A b \in BlockerIds : [id |-> r, blocker |-> b] \in CommentRow
  BY RolesAssumption DEF BlockerIds, CommentRow
<1>1. CASE BlockerCreate(r, s, m)
  <2> DEFINE row == NewBlocker(m.task)
  <2>1. row \in BlockerRow
    BY <1>1, MessageFields, NewBlockerRow DEF BlockerCreate, Accept
  <2>2. /\ blockers' = [blockers EXCEPT ![r] = row]
        /\ UNCHANGED <<tasks, comments, updates, feedback, mentions, escalations>>
        /\ Finish(r, [Quiet EXCEPT !.blockers = Only(r, row), !.activity = {r}])
    BY <1>1 DEF BlockerCreate
  <2> HIDE DEF row
  <2>3. IsBatch([Quiet EXCEPT !.blockers = Only(r, row), !.activity = {r}])
    BY <1>0, <2>1, BlockerBatches
  <2>4. RestOK'
    BY <2>2, <2>3, TypeFinish DEF TypeOK
  <2>5. QED
    BY <2>1, <2>2, <2>4 DEF TypeOK, TablesOK
<1>2. CASE BlockerRequestResolution(r, s, m)
  <2> DEFINE row == [blockers[m.id] EXCEPT !.status = "RESOLUTION_REQUESTED"]
             written == Commented(row, SockUser[s])
  <2>1. m.id \in BlockerIds /\ blockers[m.id] \in BlockerRow
    BY <1>2, MessageFields, RowTypes DEF BlockerRequestResolution, Accept, Throws
  <2>2. row \in BlockerRow /\ written \in BlockerRow
    BY <1>0, <2>1, RowTypes
  <2>3. /\ blockers' = [blockers EXCEPT ![m.id] = written]
        /\ comments' = comments \cup {[id |-> r, blocker |-> m.id]}
        /\ UNCHANGED <<tasks, updates, feedback, mentions, escalations>>
        /\ Finish(r, CommentBatch(r, m.id, row))
    BY <1>2 DEF BlockerRequestResolution
  <2> HIDE DEF row, written
  <2>4. RestOK'
    BY <2>1, <2>2, <2>3, BlockerBatches, TypeFinish DEF TypeOK
  <2>5. QED
    BY <1>0, <2>1, <2>2, <2>3, <2>4 DEF TypeOK, TablesOK
<1>3. CASE BlockerResolve(r, s, m)
  <2>1. /\ m.id \in BlockerIds
        /\ UNCHANGED <<tasks, comments, updates, feedback, mentions, escalations>>
    BY <1>3, ResolveForms
  <2>2. CASE \E row \in BlockerRow : ResolvesTo(r, m, row)
    <3>1. PICK row \in BlockerRow : ResolvesTo(r, m, row)
      BY <2>2
    <3>2. RestOK'
      BY <2>1, <3>1, BlockerBatches, TypeFinish DEF TypeOK, ResolvesTo
    <3>3. QED
      BY <2>1, <3>1, <3>2 DEF TypeOK, TablesOK, ResolvesTo
  <2>3. CASE UNCHANGED blockers /\ Finish(r, Quiet)
    <3>1. RestOK'
      BY <2>1, <2>3, BatchForms, TypeFinish DEF TypeOK
    <3>2. QED
      BY <2>1, <2>3, <3>1 DEF TypeOK, TablesOK
  <2>4. QED
    BY <1>3, <2>2, <2>3, ResolveForms
<1>4. CASE BlockerEscalate(r, s, m)
  <2> DEFINE row == Commented(blockers[m.id], SockUser[s])
  <2>1. m.id \in BlockerIds /\ blockers[m.id] \in BlockerRow
    BY <1>4, MessageFields, RowTypes DEF BlockerEscalate, Accept, Throws
  <2>2. row \in BlockerRow
    BY <1>0, <2>1, RowTypes
  <2>3. /\ blockers' = [blockers EXCEPT ![m.id] = row]
        /\ comments' = comments \cup {[id |-> r, blocker |-> m.id]}
        /\ escalations' = escalations \cup {m.id}
        /\ UNCHANGED <<tasks, updates, feedback, mentions>>
        /\ Finish(r, CommentBatch(r, m.id, row))
    BY <1>4 DEF BlockerEscalate
  <2> HIDE DEF row
  <2>4. RestOK'
    BY <2>1, <2>2, <2>3, BlockerBatches, TypeFinish DEF TypeOK
  <2>5. QED
    BY <1>0, <2>1, <2>2, <2>3, <2>4 DEF TypeOK, TablesOK
<1>5. QED
  BY <1>1, <1>2, <1>3, <1>4

\* The three mutations with mentions keep the types.
LEMMA TypeMentioningActions ==
  ASSUME TypeOK, NEW r \in Reqs, NEW s \in Socks, NEW m \in Messages,
         \/ BlockerComment(r, s, m) \/ UpdateCreate(r, s, m)
         \/ FeedbackCreate(r, s, m)
  PROVE  TablesOK' /\ RestOK'
<1>0. /\ r \in BlockerIds /\ SockUser[s] \in Users
      /\ \A b \in BlockerIds : [id |-> r, blocker |-> b] \in CommentRow
      /\ {"BLOCKER_COMMENT", "UPDATE", "TASK_COMMENT"} \subseteq MentionSources
  BY RolesAssumption DEF BlockerIds, CommentRow, MentionSources
<1>1. CASE BlockerComment(r, s, m)
  <2> DEFINE row == Commented(blockers[m.id], SockUser[s])
  <2>1. /\ m.id \in BlockerIds /\ blockers[m.id] \in BlockerRow
        /\ m.mentions \in SUBSET Users
    BY <1>1, MessageFields, RowTypes DEF BlockerComment, Accept, Throws
  <2>2. row \in BlockerRow
    BY <1>0, <2>1, RowTypes
  <2>3. /\ blockers' = [blockers EXCEPT ![m.id] = row]
        /\ comments' = comments \cup {[id |-> r, blocker |-> m.id]}
        /\ UNCHANGED <<tasks, updates, feedback, escalations>>
        /\ FinishWithMentions(r, SockUser[s], "BLOCKER_COMMENT", m.id,
                              m.mentions, CommentBatch(r, m.id, row))
    BY <1>1 DEF BlockerComment
  <2> HIDE DEF row
  <2>4. CommentBatch(r, m.id, row) \in WaitingBatch
    BY <2>1, <2>2, WaitingForms
  <2>5. RestOK'
    BY <1>0, <2>1, <2>3, <2>4, TypeMentions
  <2>6. QED
    BY <1>0, <2>1, <2>2, <2>3, <2>5 DEF TypeOK, TablesOK
<1>2. CASE UpdateCreate(r, s, m)
  <2>1. m.mentions \in SUBSET Users
    BY <1>2, MessageFields DEF UpdateCreate, Accept
  <2>2. RestOK'
    BY <1>0, <1>2, <2>1, WaitingForms, TypeMentions DEF UpdateCreate
  <2>3. QED
    BY <1>2, <2>2 DEF UpdateCreate, TypeOK, TablesOK
<1>3. CASE FeedbackCreate(r, s, m)
  <2> DEFINE row == [task |-> m.task]
  <2>1. m.mentions \in SUBSET Users /\ row \in FeedbackRow
    BY <1>3, MessageFields DEF FeedbackCreate, Accept, FeedbackRow
  <2>2. /\ feedback' = [feedback EXCEPT ![r] = row]
        /\ UNCHANGED <<tasks, blockers, comments, updates, escalations>>
        /\ FinishWithMentions(r, SockUser[s], "TASK_COMMENT", r, m.mentions,
             [Quiet EXCEPT !.feedback = Only(r, row), !.activity = {r}])
    BY <1>3 DEF FeedbackCreate
  <2> HIDE DEF row
  <2>3. RestOK'
    BY <1>0, <2>1, <2>2, WaitingForms, TypeMentions
  <2>4. QED
    BY <2>1, <2>2, <2>3 DEF TypeOK, TablesOK
<1>4. QED
  BY <1>1, <1>2, <1>3

\* Every dispatch keeps the types.
LEMMA TypeDispatch ==
  ASSUME TypeOK, NEW r \in Reqs, NEW s \in Socks, NEW m \in Messages,
         Dispatch(r, s, m)
  PROVE  TypeOK'
<1>1. TablesOK' /\ RestOK'
  BY TypeTaskActions, TypeTaskDelete, TypeBlockerActions, TypeMentioningActions
  DEF Dispatch
<1>2. Accept(r, s, m, m.type)
  BY DEF Dispatch, TaskCreate, TaskUpdate, TaskMove, TaskPriority, TaskDelete,
         BlockerCreate, BlockerComment, BlockerRequestResolution, BlockerResolve,
         BlockerEscalate, UpdateCreate, FeedbackCreate, Accept
<1>3. QED
  BY <1>1, <1>2, TypeAccept DEF TypeOK, TablesOK, RestOK

-----------------------------------------------------------------------------
(* What every dispatch does to the requests.                               *)

\* The ids that are claimed, or were until their claim grew old.
Known == claims \cup expired

Mentioning == {"blocker.comment", "update.create", "feedback.create"}

Dispatched(r, s, m) ==
  /\ r \notin Known /\ Known' = Known \cup {r} /\ expired' = expired
  /\ sent' = [sent EXCEPT ![r] = [sock |-> s, msg |-> m]]
  /\ conn' = conn
  /\ answer' \in {[answer EXCEPT ![r] = v] : v \in {"ack", None}}
  /\ activity' \in {activity, [activity EXCEPT ![r] = activity[r] + 1]}
  /\ \A q \in Reqs \ {r} : pending'[q] = pending[q]
  /\ pending'[r] # None => pending[r] # None \/ m.type \in Mentioning

\* Its activity row is there, unless there was nothing to tell.
Told(r, m) ==
  /\ m.type \notin {"task.update", "blocker.resolve"} =>
       activity' = [activity EXCEPT ![r] = activity[r] + 1]
  /\ m.type = "task.update" /\ m.status # Keep =>
       activity' = [activity EXCEPT ![r] = activity[r] + 1]
  /\ m.type = "blocker.resolve" =>
       blockers[m.id] # None /\ blockers'[m.id] # None
         /\ blockers'[m.id].status = "RESOLVED"

\* An accepted request was not known, and is known from then on.
LEMMA AcceptShape ==
  ASSUME TypeOK, NEW r \in Reqs, NEW s \in Socks, NEW m \in Messages,
         Accept(r, s, m, m.type)
  PROVE  /\ r \notin Known /\ Known' = Known \cup {r} /\ expired' = expired
         /\ sent' = [sent EXCEPT ![r] = [sock |-> s, msg |-> m]]
         /\ conn' = conn
BY DEF Accept, Arrives, Claimed, Sent, Unexpired, Known

\* Logging counts one row for the request named, or none.
LEMMA LogShape ==
  ASSUME TypeOK, NEW r \in Reqs, NEW batch, Log(batch)
  PROVE  /\ batch.activity = {r} => activity' = [activity EXCEPT ![r] = activity[r] + 1]
         /\ batch.activity = {} => activity' = activity
BY DEF TypeOK, Log

\* A finished handler acknowledges and leaves no batch waiting.
LEMMA FinishShape ==
  ASSUME TypeOK, NEW r \in Reqs, NEW s \in Socks, NEW m \in Messages,
         Accept(r, s, m, m.type), NEW batch, Finish(r, batch),
         batch.activity \in {{}, {r}}
  PROVE  /\ Dispatched(r, s, m)
         /\ batch.activity = {r} => activity' = [activity EXCEPT ![r] = activity[r] + 1]
<1>1. /\ Log(batch) /\ answer' = [answer EXCEPT ![r] = "ack"]
      /\ pending' = pending
  BY DEF Finish
<1>2. QED
  BY <1>1, AcceptShape, LogShape DEF Dispatched

\* One with mentions acknowledges, or waits and does not.
LEMMA MentionsShape ==
  ASSUME TypeOK, NEW r \in Reqs, NEW s \in Socks, NEW m \in Messages,
         Accept(r, s, m, m.type), m.type \in Mentioning,
         NEW batch \in WaitingBatch, batch.activity = {r},
         NEW u, NEW source, NEW id, NEW named,
         FinishWithMentions(r, u, source, id, named, batch)
  PROVE  /\ Dispatched(r, s, m)
         /\ activity' = [activity EXCEPT ![r] = activity[r] + 1]
<1> DEFINE new == NewMentions(r, u, source, id, named)
<1>1. CASE Finish(r, [batch EXCEPT !.mentions = new])
  <2>1. [batch EXCEPT !.mentions = new].activity = {r}
    BY DEF WaitingBatch
  <2> HIDE DEF new
  <2>2. QED
    BY <1>1, <2>1, FinishShape
<1>2. CASE /\ Log(batch)
           /\ pending' = [pending EXCEPT ![r] = batch]
           /\ answer' = [answer EXCEPT ![r] = None]
  <2>1. activity' = [activity EXCEPT ![r] = activity[r] + 1]
    BY <1>2, LogShape
  <2>2. \A q \in Reqs \ {r} : pending'[q] = pending[q]
    BY <1>2 DEF TypeOK
  <2>3. QED
    BY <1>2, <2>1, <2>2, AcceptShape DEF Dispatched
<1>3. QED
  BY <1>1, <1>2 DEF FinishWithMentions

\* What a task mutation does to its request.
LEMMA TaskShape ==
  ASSUME TypeOK, NEW r \in Reqs, NEW s \in Socks, NEW m \in Messages,
         \/ TaskCreate(r, s, m) \/ TaskUpdate(r, s, m) \/ TaskMove(r, s, m)
         \/ TaskPriority(r, s, m) \/ TaskDelete(r, s, m)
  PROVE  Dispatched(r, s, m) /\ Told(r, m)
<1>1. ASSUME NEW t, NEW row, NEW logged \in {{}, {r}}, WriteTask(r, t, row, logged),
             Accept(r, s, m, m.type)
      PROVE  /\ Dispatched(r, s, m)
             /\ logged = {r} => activity' = [activity EXCEPT ![r] = activity[r] + 1]
  <2>1. [Quiet EXCEPT !.tasks = Only(t, row), !.activity = logged].activity = logged
    BY DEF Quiet
  <2>2. QED
    BY <1>1, <2>1, FinishShape DEF WriteTask
<1>2. CASE TaskCreate(r, s, m) \/ TaskMove(r, s, m) \/ TaskPriority(r, s, m)
  BY <1>1, <1>2 DEF TaskCreate, TaskMove, TaskPriority, Accept, Told
<1>3. CASE TaskUpdate(r, s, m)
  BY <1>1, <1>3 DEF TaskUpdate, Accept, Told
<1>4. CASE TaskDelete(r, s, m)
  <2>1. [Quiet EXCEPT !.tasks = Only(m.id, None), !.activity = {r}].activity = {r}
    BY DEF Quiet
  <2>2. QED
    BY <1>4, <2>1, FinishShape DEF TaskDelete, Accept, Told
<1>5. QED
  BY <1>2, <1>3, <1>4

\* What a blocker mutation without mentions does to its request.
LEMMA BlockerShape ==
  ASSUME TypeOK, NEW r \in Reqs, NEW s \in Socks, NEW m \in Messages,
         \/ BlockerCreate(r, s, m) \/ BlockerRequestResolution(r, s, m)
         \/ BlockerResolve(r, s, m) \/ BlockerEscalate(r, s, m)
  PROVE  Dispatched(r, s, m) /\ Told(r, m)
<1>1. \A b, row : /\ CommentBatch(r, b, row).activity = {r}
                  /\ [Quiet EXCEPT !.blockers = Only(b, row),
                                   !.activity = {r}].activity = {r}
  BY DEF CommentBatch, Quiet
<1>2. CASE BlockerCreate(r, s, m)
  <2> DEFINE batch == [Quiet EXCEPT
               !.blockers = Only(r, NewBlocker(m.task)),
               !.activity = {r}]
  <2>1. m.type = "blocker.create" /\ Accept(r, s, m, m.type) /\ Finish(r, batch)
    BY <1>2 DEF BlockerCreate, Accept
  <2>2. batch.activity = {r}
    BY DEF Quiet
  <2> HIDE DEF batch
  <2>3. QED
    BY <2>1, <2>2, FinishShape DEF Told
<1>3. CASE BlockerRequestResolution(r, s, m)
  BY <1>1, <1>3, FinishShape DEF BlockerRequestResolution, Accept, Told
<1>4. CASE BlockerEscalate(r, s, m)
  BY <1>1, <1>4, FinishShape DEF BlockerEscalate, Accept, Told
<1>5. CASE BlockerResolve(r, s, m)
  <2>1. m.type = "blocker.resolve" /\ Accept(r, s, m, m.type)
    BY <1>5 DEF BlockerResolve, Accept
  <2>2. CASE \E row \in BlockerRow : ResolvesTo(r, m, row)
    <3>1. PICK row \in BlockerRow : ResolvesTo(r, m, row)
      BY <2>2
    <3> DEFINE batch == [Quiet EXCEPT !.blockers = Only(m.id, row), !.activity = {r}]
    <3>2. Dispatched(r, s, m)
      <4>1. batch.activity = {r} /\ Finish(r, batch)
        BY <1>1, <3>1 DEF ResolvesTo
      <4> HIDE DEF batch
      <4>2. QED
        BY <2>1, <4>1, FinishShape
    <3>3. /\ blockers[m.id] # None /\ blockers'[m.id] # None
          /\ blockers'[m.id].status = "RESOLVED"
      BY <1>5, <3>1, ResolveForms, NoneAssumption DEF TypeOK, ResolvesTo
    <3>4. QED
      BY <2>1, <3>2, <3>3 DEF Told
  <2>3. CASE /\ blockers[m.id].status = "RESOLVED"
             /\ UNCHANGED blockers /\ Finish(r, Quiet)
    <3>1. Quiet.activity = {}
      BY DEF Quiet
    <3>2. Dispatched(r, s, m)
      BY <2>1, <2>3, <3>1, FinishShape
    <3>3. blockers[m.id] # None
      BY <1>5, ResolveForms, NoneAssumption
    <3>4. QED
      BY <2>1, <2>3, <3>2, <3>3 DEF Told
  <2>4. QED
    BY <1>5, <2>2, <2>3, ResolveForms
<1>6. QED
  BY <1>2, <1>3, <1>4, <1>5

\* What a mutation with mentions does to its request.
LEMMA MentioningShape ==
  ASSUME TypeOK, NEW r \in Reqs, NEW s \in Socks, NEW m \in Messages,
         \/ BlockerComment(r, s, m) \/ UpdateCreate(r, s, m)
         \/ FeedbackCreate(r, s, m)
  PROVE  Dispatched(r, s, m) /\ Told(r, m)
<1>1. CASE BlockerComment(r, s, m)
  <2>1. /\ m.type = "blocker.comment" /\ Accept(r, s, m, m.type)
        /\ m.id \in BlockerIds /\ blockers[m.id] \in BlockerRow
        /\ SockUser[s] \in Users
    BY <1>1, MessageFields, RowTypes, RolesAssumption
    DEF BlockerComment, Accept, Throws
  <2> DEFINE row == Commented(blockers[m.id], SockUser[s])
  <2>2. row \in BlockerRow
    BY <2>1, RowTypes
  <2>3. FinishWithMentions(r, SockUser[s], "BLOCKER_COMMENT", m.id, m.mentions,
                           CommentBatch(r, m.id, row))
    BY <1>1 DEF BlockerComment
  <2> HIDE DEF row
  <2>4. /\ CommentBatch(r, m.id, row) \in WaitingBatch
        /\ CommentBatch(r, m.id, row).activity = {r}
    BY <2>1, <2>2, WaitingForms DEF CommentBatch, Quiet
  <2>5. QED
    BY <2>1, <2>3, <2>4, MentionsShape DEF Mentioning, Told
<1>2. CASE UpdateCreate(r, s, m)
  <2>1. [Quiet EXCEPT !.updates = {r}, !.activity = {r}].activity = {r}
    BY DEF Quiet
  <2>2. QED
    BY <1>2, <2>1, WaitingForms, MentionsShape
    DEF UpdateCreate, Accept, Mentioning, Told
<1>3. CASE FeedbackCreate(r, s, m)
  <2>1. [task |-> m.task] \in FeedbackRow
    BY <1>3, MessageFields DEF FeedbackCreate, Accept, FeedbackRow
  <2> DEFINE batch == [Quiet EXCEPT !.feedback = Only(r, [task |-> m.task]),
                                    !.activity = {r}]
  <2>2. batch \in WaitingBatch /\ batch.activity = {r}
    BY <2>1, WaitingForms DEF Quiet
  <2>3. /\ FinishWithMentions(r, SockUser[s], "TASK_COMMENT", r, m.mentions, batch)
        /\ m.type = "feedback.create" /\ Accept(r, s, m, m.type)
    BY <1>3 DEF FeedbackCreate, Accept
  <2> HIDE DEF batch
  <2>4. QED
    BY <2>2, <2>3, MentionsShape DEF Mentioning, Told
<1>4. QED
  BY <1>1, <1>2, <1>3

\* What any dispatch does to its request.
LEMMA DispatchShape ==
  ASSUME TypeOK, NEW r \in Reqs, NEW s \in Socks, NEW m \in Messages,
         Dispatch(r, s, m)
  PROVE  Dispatched(r, s, m) /\ Told(r, m)
BY TaskShape, BlockerShape, MentioningShape DEF Dispatch

-----------------------------------------------------------------------------
(* The invariant about requests, and the blockers' way forward.            *)

\* Each known request left at most one activity row, an unknown one none.
Once == \A r \in Reqs : activity[r] <= 1 /\ (activity[r] > 0 => r \in Known)

\* No row bears the id of a request that is not known.
Fresh == \A r \in Reqs \ Known :
           tasks[r] = None /\ blockers[r] = None /\ feedback[r] = None

\* A handler in the gap has claimed its id, for a message that may mention.
Waiters == \A r \in Reqs : pending[r] # None =>
             r \in Known /\ sent[r].msg.type \in Mentioning

\* Every known request was sent, and its effect is in the store.
Effects == \A r \in Known :
             /\ sent[r] \in Submissions
             /\ sent[r].msg.type = "blocker.resolve" =>
                  blockers[sent[r].msg.id] # None
             /\ Applied(r)

Answers == \A r \in Reqs : answer[r] = "ack" => r \in Known

RequestsOK == Once /\ Fresh /\ Waiters /\ Effects /\ Answers

Forward(b) ==
  /\ blockers'[b] # None
  /\ Rank(blockers[b].status) <= Rank(blockers'[b].status)
  /\ blockers[b].responded => blockers'[b].responded
  /\ blockers[b].status = "RESOLVED" =>
       /\ blockers'[b].resolvedBy = blockers[b].resolvedBy
       /\ blockers'[b].resolvedAt = blockers[b].resolvedAt

\* The ranks of the statuses are ordered, RESOLVED being the last.
LEMMA RankOrder ==
  /\ \A x \in BlockerStatuses : Rank(x) <= Rank(x) /\ Rank(x) <= Rank("RESOLVED")
  /\ Rank("OPEN") <= Rank("RESOLUTION_REQUESTED")
  /\ \A x \in BlockerStatuses : Rank("RESOLVED") <= Rank(x) => x = "RESOLVED"
BY DEF BlockerStatuses, Rank

\* The blocker rows that mutations write.
LEMMA CommentedRow ==
  ASSUME NEW row \in BlockerRow, NEW u \in Users
  PROVE  /\ Commented(row, u) \in BlockerRow
         /\ Commented(row, u).status = row.status
         /\ Commented(row, u).resolvedBy = row.resolvedBy
         /\ Commented(row, u).resolvedAt = row.resolvedAt
         /\ Commented(row, u).task = row.task
         /\ row.responded => Commented(row, u).responded
BY DEF Commented, BlockerRow, BlockerStatuses

\* Detaching a blocker changes its link only.
LEMMA DetachedRow ==
  ASSUME NEW row \in BlockerRow
  PROVE  /\ [row EXCEPT !.task = None] \in BlockerRow
         /\ [row EXCEPT !.task = None].status = row.status
         /\ [row EXCEPT !.task = None].resolvedBy = row.resolvedBy
         /\ [row EXCEPT !.task = None].resolvedAt = row.resolvedAt
         /\ [row EXCEPT !.task = None].responded = row.responded
         /\ [row EXCEPT !.task = None].task = None
BY DEF BlockerRow

\* A blocker left alone has not moved back.
LEMMA StaysForward ==
  ASSUME TypeOK, NEW b \in BlockerIds, blockers[b] # None,
         blockers'[b] = blockers[b]
  PROVE  Forward(b)
BY RowTypes, RankOrder DEF Forward, BlockerRow

\* No dispatch moves a blocker back; a new row takes an id nobody has.
LEMMA DispatchForward ==
  ASSUME TypeOK, Fresh, NEW r \in Reqs, NEW s \in Socks, NEW m \in Messages,
         Dispatch(r, s, m), NEW b \in BlockerIds, blockers[b] # None
  PROVE  Forward(b)
<1>0. blockers[b] \in BlockerRow /\ SockUser[s] \in Users
  BY RowTypes, RolesAssumption
<1>1. CASE UNCHANGED blockers
  BY <1>1, StaysForward
<1>2. CASE TaskDelete(r, s, m)
  <2>1. \/ blockers'[b] = blockers[b]
        \/ blockers'[b] = [blockers[b] EXCEPT !.task = None]
    BY <1>2 DEF TaskDelete, Detached, TypeOK
  <2>2. QED
    BY <1>0, <2>1, StaysForward, DetachedRow, RankOrder, NoneAssumption
    DEF Forward, BlockerRow
<1>3. CASE BlockerCreate(r, s, m)
  <2>1. r \notin Known
    BY <1>3, DispatchShape DEF Dispatched
  <2>2. r # b
    BY <2>1 DEF Fresh
  <2>3. QED
    BY <1>3, <2>2, StaysForward DEF BlockerCreate, TypeOK
<1>4. CASE BlockerComment(r, s, m) \/ BlockerEscalate(r, s, m)
  <2>1. /\ m.id \in BlockerIds
        /\ blockers' = [blockers EXCEPT ![m.id] = Commented(blockers[m.id], SockUser[s])]
    BY <1>4, MessageFields DEF BlockerComment, BlockerEscalate, Accept
  <2>2. CASE b # m.id
    BY <2>1, <2>2, StaysForward DEF TypeOK
  <2>3. CASE b = m.id
    <3>1. blockers'[b] = Commented(blockers[b], SockUser[s])
      BY <2>1, <2>3 DEF TypeOK
    <3>2. /\ blockers'[b] \in BlockerRow
          /\ blockers'[b].status = blockers[b].status
          /\ blockers'[b].resolvedBy = blockers[b].resolvedBy
          /\ blockers'[b].resolvedAt = blockers[b].resolvedAt
          /\ blockers[b].responded => blockers'[b].responded
      BY <1>0, <3>1, CommentedRow, Zenon
    <3>3. blockers[b].status \in BlockerStatuses
      BY <1>0 DEF BlockerRow
    <3>4. QED
      BY <3>2, <3>3, RankOrder, NoneAssumption DEF Forward
  <2>4. QED
    BY <2>2, <2>3
<1>5. CASE BlockerRequestResolution(r, s, m)
  <2> DEFINE row == [blockers[m.id] EXCEPT !.status = "RESOLUTION_REQUESTED"]
  <2>1. /\ m.id \in BlockerIds
        /\ blockers' = [blockers EXCEPT ![m.id] = Commented(row, SockUser[s])]
        /\ blockers[m.id] # None => blockers[m.id].status = "OPEN"
    BY <1>5, MessageFields
    DEF BlockerRequestResolution, Accept, Throws, WrongStatus
  <2>2. CASE b # m.id
    BY <2>1, <2>2, StaysForward DEF TypeOK
  <2>3. CASE b = m.id
    <3>1. /\ row \in BlockerRow /\ row.status = "RESOLUTION_REQUESTED"
          /\ row.responded = blockers[b].responded
      BY <1>0, <2>3 DEF BlockerRow, BlockerStatuses
    <3> HIDE DEF row
    <3>2. blockers'[b] = Commented(row, SockUser[s])
      BY <2>1, <2>3 DEF TypeOK
    <3>3. /\ blockers'[b] \in BlockerRow
          /\ blockers'[b].status = "RESOLUTION_REQUESTED"
          /\ row.responded => blockers'[b].responded
      BY <1>0, <3>1, <3>2, CommentedRow, Zenon
    <3>4. QED
      BY <1>0, <2>1, <2>3, <3>1, <3>3, RankOrder, NoneAssumption DEF Forward
  <2>4. QED
    BY <2>2, <2>3
<1>6. CASE BlockerResolve(r, s, m)
  <2>1. CASE UNCHANGED blockers
    BY <2>1, StaysForward
  <2>2. CASE \E row \in BlockerRow : ResolvesTo(r, m, row)
    <3>1. PICK row \in BlockerRow : ResolvesTo(r, m, row)
      BY <2>2
    <3>2. CASE b # m.id
      BY <3>1, <3>2, StaysForward DEF TypeOK, ResolvesTo
    <3>3. CASE b = m.id
      <4>1. /\ blockers'[b] = row /\ row.status = "RESOLVED"
            /\ row.responded = blockers[b].responded
            /\ blockers[b].status # "RESOLVED"
        BY <3>1, <3>3 DEF TypeOK, ResolvesTo
      <4>2. QED
        BY <1>0, <4>1, RankOrder, NoneAssumption DEF Forward, BlockerRow
    <3>4. QED
      BY <3>2, <3>3
  <2>3. QED
    BY <1>6, <2>1, <2>2, ResolveForms
<1>7. QED
  BY <1>1, <1>2, <1>3, <1>4, <1>5, <1>6
  DEF Dispatch, TaskCreate, TaskUpdate, TaskMove, TaskPriority, WriteTask,
      UpdateCreate, FeedbackCreate

\* A dispatch creates rows under the id of its own request only.
LEMMA FreshDispatch ==
  ASSUME TypeOK, Fresh, NEW r \in Reqs, NEW s \in Socks, NEW m \in Messages,
         Dispatch(r, s, m), NEW q \in Reqs \ Known, q # r
  PROVE  tasks'[q] = None /\ blockers'[q] = None /\ feedback'[q] = None
<1>0. /\ tasks[q] = None /\ blockers[q] = None /\ feedback[q] = None
      /\ q \in TaskIds /\ q \in BlockerIds
  BY DEF Fresh, TaskIds, BlockerIds
<1>1. CASE TaskCreate(r, s, m) \/ BlockerCreate(r, s, m) \/ FeedbackCreate(r, s, m)
  BY <1>0, <1>1 DEF TypeOK, TaskCreate, WriteTask, BlockerCreate, FeedbackCreate
<1>2. CASE TaskUpdate(r, s, m) \/ TaskMove(r, s, m) \/ TaskPriority(r, s, m)
  <2>1. tasks[m.id] # None
    BY <1>2 DEF TaskUpdate, TaskMove, TaskPriority, Accept, Throws
  <2>2. m.id # q
    BY <1>0, <2>1
  <2>3. QED
    BY <1>0, <1>2, <2>2 DEF TypeOK, TaskUpdate, TaskMove, TaskPriority, WriteTask
<1>3. CASE TaskDelete(r, s, m)
  BY <1>0, <1>3 DEF TypeOK, TaskDelete, Detached
<1>4. CASE \/ BlockerComment(r, s, m) \/ BlockerRequestResolution(r, s, m)
           \/ BlockerResolve(r, s, m) \/ BlockerEscalate(r, s, m)
  <2>1. blockers[m.id] # None
    BY <1>4 DEF BlockerComment, BlockerRequestResolution, BlockerResolve,
                BlockerEscalate, Accept, Throws
  <2>2. m.id # q
    BY <1>0, <2>1
  <2>3. QED
    BY <1>0, <1>4, <2>2
    DEF TypeOK, BlockerComment, BlockerRequestResolution, BlockerResolve,
        BlockerEscalate
<1>5. CASE UpdateCreate(r, s, m)
  BY <1>0, <1>5 DEF UpdateCreate
<1>6. QED
  BY <1>1, <1>2, <1>3, <1>4, <1>5 DEF Dispatch

\* The effect of a request that is known stays when another one is dispatched.
LEMMA EffectStays ==
  ASSUME TypeOK, Fresh, NEW q \in Reqs,
         sent[q] \in Submissions,
         sent[q].msg.type = "blocker.resolve" => blockers[sent[q].msg.id] # None,
         Applied(q), sent'[q] = sent[q], activity'[q] = activity[q],
         blockers' \in [BlockerIds -> BlockerRow \cup {None}],
         \A b \in BlockerIds : blockers[b] # None => Forward(b)
  PROVE  /\ sent'[q].msg.type = "blocker.resolve" =>
              blockers'[sent[q].msg.id] # None
         /\ Applied(q)'
<1> DEFINE m == sent[q].msg
<1>1. m \in Messages
  BY DEF Submissions
<1>2. CASE m.type = "blocker.resolve"
  <2>1. /\ m.id \in BlockerIds /\ blockers[m.id] # None
        /\ blockers[m.id].status = "RESOLVED"
    BY <1>1, <1>2, MessageFields DEF Applied
  <2>2. /\ blockers'[m.id] # None /\ blockers'[m.id] \in BlockerRow
        /\ Rank("RESOLVED") <= Rank(blockers'[m.id].status)
    BY <2>1 DEF Forward
  <2>3. blockers'[m.id].status \in BlockerStatuses
    BY <2>2 DEF BlockerRow
  <2>4. blockers'[m.id].status = "RESOLVED"
    BY <2>2, <2>3, RankOrder
  <2>5. QED
    BY <1>2, <2>2, <2>4 DEF Applied
<1>3. CASE m.type # "blocker.resolve"
  BY <1>3 DEF Applied
<1>4. QED
  BY <1>2, <1>3

\* A dispatch keeps the books of requests.
LEMMA RequestsDispatch ==
  ASSUME TypeOK, RequestsOK, NEW r \in Reqs, NEW s \in Socks, NEW m \in Messages,
         Dispatch(r, s, m)
  PROVE  RequestsOK'
<1>0. Dispatched(r, s, m) /\ Told(r, m) /\ TypeOK'
  BY DispatchShape, TypeDispatch
<1>1. Once'
  BY <1>0 DEF TypeOK, RequestsOK, Once, Dispatched
<1>2. Fresh'
  BY <1>0, FreshDispatch DEF RequestsOK, Fresh, Dispatched
<1>3. Waiters'
  BY <1>0 DEF TypeOK, RequestsOK, Waiters, Dispatched
<1>4. Answers'
  BY <1>0 DEF TypeOK, RequestsOK, Answers, Dispatched
<1>5. ASSUME NEW q \in Known
      PROVE  /\ sent'[q] \in Submissions
             /\ sent'[q].msg.type = "blocker.resolve" =>
                  blockers'[sent'[q].msg.id] # None
             /\ Applied(q)'
  <2>1. q \in Reqs /\ q # r
    BY <1>0 DEF TypeOK, Known, Dispatched
  <2>2. sent'[q] = sent[q] /\ activity'[q] = activity[q]
    BY <1>0, <2>1 DEF TypeOK, Dispatched
  <2>3. \A b \in BlockerIds : blockers[b] # None => Forward(b)
    BY DispatchForward DEF RequestsOK
  <2>4. QED
    BY <1>0, <2>1, <2>2, <2>3, EffectStays DEF RequestsOK, Effects, TypeOK
<1>6. /\ sent'[r] \in Submissions
      /\ sent'[r].msg.type = "blocker.resolve" =>
           blockers'[sent'[r].msg.id] # None
      /\ Applied(r)'
  <2>1. sent'[r] = [sock |-> s, msg |-> m]
    BY <1>0 DEF TypeOK, Dispatched
  <2>2. sent'[r] \in Submissions /\ sent'[r].msg = m
    BY <2>1 DEF Submissions
  <2>3. activity' = [activity EXCEPT ![r] = activity[r] + 1] => activity'[r] = 1
    BY <1>0 DEF TypeOK, RequestsOK, Once, Dispatched
  <2>4. QED
    BY <1>0, <2>2, <2>3 DEF Told, Applied
<1>7. Effects'
  BY <1>0, <1>5, <1>6 DEF Effects, Dispatched
<1>8. QED
  BY <1>1, <1>2, <1>3, <1>4, <1>7 DEF RequestsOK

\* The steps other than a dispatch leave tables, claims and sent ids alone, but
\* for a refused message, a retry and the passing of time.
LEMMA RequestsRefused ==
  ASSUME TypeOK, RequestsOK, NEW r \in Reqs, NEW s \in Socks, NEW m \in Messages,
         Forbidden(r, s, m) \/ Duplicate(r, s, m) \/ Refuse(r, s, m)
  PROVE  RequestsOK'
<1>0. TypeOK'
  BY TypeRefused
<1>1. /\ UNCHANGED <<tasks, blockers, feedback, activity, pending, expired>>
      /\ Known' = Known
      /\ \A q \in Reqs \ {r} : sent'[q] = sent[q] /\ answer'[q] = answer[q]
      /\ sent'[r] \in Submissions
      /\ sent[r] # None => sent'[r] = sent[r]
      /\ answer'[r] = "ack" => r \in Known
  BY DEF TypeOK, Forbidden, Duplicate, Refuse, Untouched, Arrives, Sent, Submissions,
         Unexpired, Released, Claimed, Known
<1>2. \A q \in Known : sent'[q] = sent[q]
  BY <1>1, NoneAssumption DEF TypeOK, RequestsOK, Effects, Known
<1>3. Once' /\ Fresh' /\ Answers'
  BY <1>1 DEF RequestsOK, Once, Fresh, Answers
<1>4. Waiters'
  BY <1>1, <1>2 DEF RequestsOK, Waiters
<1>5. Effects'
  BY <1>1, <1>2 DEF RequestsOK, Effects, Applied
<1>6. QED
  BY <1>3, <1>4, <1>5 DEF RequestsOK

\* A step that writes no table and forgets no id keeps them.
LEMMA RequestsOther ==
  ASSUME TypeOK, RequestsOK,
         UNCHANGED <<tasks, blockers, feedback, activity, sent>>, Known' = Known,
         \A q \in Reqs : answer'[q] = "ack" => q \in Known,
         \A q \in Reqs : pending'[q] # None => pending[q] # None
  PROVE  RequestsOK'
BY DEF RequestsOK, Once, Fresh, Waiters, Effects, Answers, Applied

\* D1's answer acknowledges a request that is known.
LEMMA RequestsResume ==
  ASSUME TypeOK, RequestsOK, NEW r \in Reqs, NEW ok \in BOOLEAN, Resume(r, ok)
  PROVE  RequestsOK'
<1>1. r \in Known
  BY DEF Resume, WaitsForD1, RequestsOK, Waiters
<1>2. QED
  BY <1>1, RequestsOther
  DEF Resume, TypeOK, RequestsOK, Answers, Known

\* Connections, time and resets keep the books; ids that expire stay known.
LEMMA RequestsConnections ==
  ASSUME TypeOK, RequestsOK,
         \/ \E s \in Socks : Upgrade(s) \/ Disconnect(s)
         \/ \E s \in Socks, ok \in BOOLEAN : SnapshotReady(s, ok)
         \/ RosterExpires \/ ClaimsExpire \/ Restart
  PROVE  RequestsOK'
<1>1. CASE \E s \in Socks : Disconnect(s)
  <2>1. \A q \in Reqs : answer'[q] = "ack" => answer[q] = "ack"
    BY <1>1 DEF Disconnect, Or, TypeOK
  <2>2. QED
    BY <1>1, <2>1, RequestsOther DEF Disconnect, store, Known, RequestsOK, Answers
<1>2. CASE ClaimsExpire
  <2>1. Known' = Known
    BY <1>2 DEF ClaimsExpire, store, Known
  <2>2. QED
    BY <1>2, <2>1, RequestsOther DEF ClaimsExpire, store, RequestsOK, Answers
<1>3. CASE Restart
  BY <1>3, RequestsOther DEF Restart, store, Known, RequestsOK, Answers
<1>4. CASE \/ \E s \in Socks : Upgrade(s)
           \/ \E s \in Socks, ok \in BOOLEAN : SnapshotReady(s, ok)
           \/ RosterExpires
  BY <1>4, RequestsOther
  DEF Upgrade, SnapshotReady, RosterExpires, store, Known, RequestsOK, Answers
<1>5. QED
  BY <1>1, <1>2, <1>3, <1>4

-----------------------------------------------------------------------------
(* Type correctness of the other steps.                                    *)

\* A snapshot is a well-formed screen.
LEMMA SnapshotType ==
  ASSUME TypeOK, NEW u \in Users
  PROVE  Snapshot(u) \in ReplicaRow
<1>1. AttentionOf(u) \subseteq AttentionItems
  BY AttentionType DEF TypeOK
<1>2. PresenceState \in SUBSET Users
  BY RolesAssumption DEF PresenceState
<1>3. (IF RoleOf[u] \in Roles THEN {m \in mentions : m.user = u} ELSE {})
        \in SUBSET MentionRow
  BY DEF TypeOK
<1>4. ListBlockers \in [BlockerIds -> BlockerRow \cup {None}]
  BY DEF ListBlockers, TypeOK
<1>5. QED
  BY <1>1, <1>2, <1>3, <1>4 DEF Snapshot, ReplicaRow, TypeOK

\* So is a tab that learns who is present.
LEMMA ToldType ==
  ASSUME TypeOK, NEW s \in Socks
  PROVE  PresenceTold(s) \in ReplicaRow
<1>1. PresenceState' \in SUBSET Users
  BY RolesAssumption DEF PresenceState
<1>2. replica[s] \in ReplicaRow
  BY DEF TypeOK
<1>3. [replica[s] EXCEPT !.presence = PresenceState'] \in ReplicaRow
  BY <1>1, <1>2 DEF ReplicaRow
<1>4. QED
  BY <1>2, <1>3 DEF PresenceTold

\* A tab becoming live keeps the types of the tabs.
LEMMA WelcomeType ==
  ASSUME TypeOK, NEW s \in Socks, Welcome(s)
  PROVE  /\ replica' \in [Socks -> ReplicaRow]
         /\ conn' \in [Socks -> {"off", "joining", "live"}]
<1>1. PresenceState' \in SUBSET Users
  BY RolesAssumption DEF PresenceState
<1>2. Snapshot(SockUser[s]) \in ReplicaRow
  BY SnapshotType, RolesAssumption
<1>3. [Snapshot(SockUser[s]) EXCEPT !.presence = PresenceState'] \in ReplicaRow
  BY <1>1, <1>2 DEF ReplicaRow
<1>4. replica' \in [Socks -> ReplicaRow]
  BY <1>3, ToldType DEF Welcome
<1>5. QED
  BY <1>4 DEF Welcome, TypeOK

\* An empty screen is well formed.
LEMMA BlankType == BlankReplica \in ReplicaRow
BY DEF BlankReplica, ReplicaRow

\* Connections, time and resets keep the types.
LEMMA TypeConnections ==
  ASSUME TypeOK,
         \/ \E s \in Socks : Upgrade(s) \/ Disconnect(s)
         \/ \E s \in Socks, ok \in BOOLEAN : SnapshotReady(s, ok)
         \/ RosterExpires \/ ClaimsExpire \/ Restart
  PROVE  TypeOK'
<1>1. CASE \E s \in Socks : Upgrade(s)
  BY <1>1, WelcomeType DEF Upgrade, store, TypeOK
<1>2. CASE \E s \in Socks : Disconnect(s)
  <2>1. PICK s \in Socks : Disconnect(s)
    BY <1>2
  <2>2. replica' \in [Socks -> ReplicaRow]
    BY <2>1, BlankType, ToldType DEF Disconnect
  <2>3. answer' \in [Reqs -> {"ack", "error", "lost", None}]
    BY <2>1 DEF Disconnect, Or, TypeOK
  <2>4. QED
    BY <2>1, <2>2, <2>3 DEF Disconnect, store, TypeOK
<1>3. CASE \E s \in Socks, ok \in BOOLEAN : SnapshotReady(s, ok)
  BY <1>3, WelcomeType DEF SnapshotReady, store, TypeOK
<1>4. CASE RosterExpires \/ ClaimsExpire
  BY <1>4 DEF RosterExpires, ClaimsExpire, store, TypeOK
<1>5. CASE Restart
  BY <1>5, BlankType DEF Restart, store, TypeOK
<1>6. QED
  BY <1>1, <1>2, <1>3, <1>4, <1>5

\* What D1's answer adds to the mentions, and the batch it lets go.
ResumedMentions(r, ok) ==
  IF ok THEN NewMentions(r, SockUser[sent[r].sock], SourceOf(r)[1],
                         SourceOf(r)[2], sent[r].msg.mentions)
        ELSE {}

\* A handler that waits made well-formed mentions and batch.
LEMMA ResumedType ==
  ASSUME TypeOK, RequestsOK, NEW r \in Reqs, pending[r] # None, NEW ok \in BOOLEAN
  PROVE  /\ ResumedMentions(r, ok) \in SUBSET MentionRow
         /\ pending[r] \in WaitingBatch
<1>1. /\ sent[r] \in Submissions /\ sent[r].msg.type \in Mentioning
  BY DEF RequestsOK, Waiters, Effects
<1> DEFINE m == sent[r].msg
<1>2. m \in Messages /\ m.type \in Mentioning
  BY <1>1 DEF Submissions
<1>3. m.mentions \in SUBSET Users
  BY <1>2, MessageFields DEF Mentioning
<1>4. SourceOf(r)[1] \in MentionSources /\ SourceOf(r)[2] \in BlockerIds
  BY <1>2, MessageFields DEF SourceOf, MentionSources, BlockerIds
<1>5. QED
  BY <1>3, <1>4, NewMentionsType DEF ResumedMentions, TypeOK

\* D1's answer keeps the types.
LEMMA TypeResume ==
  ASSUME TypeOK, RequestsOK, NEW r \in Reqs, NEW ok \in BOOLEAN, Resume(r, ok)
  PROVE  TypeOK'
<1> DEFINE new == ResumedMentions(r, ok)
<1>1. new \in SUBSET MentionRow /\ pending[r] \in WaitingBatch
  BY ResumedType DEF Resume, WaitsForD1
<1>2. mentions' = mentions \cup new /\ Publish([pending[r] EXCEPT !.mentions = new])
  BY DEF Resume, ResumedMentions
<1> HIDE DEF new
<1>3. mentions' \subseteq MentionRow
  BY <1>1, <1>2 DEF TypeOK
<1>4. replica' \in [Socks -> ReplicaRow]
  BY <1>1, <1>2, <1>3, WaitingIsBatch, PublishType DEF TypeOK
<1>5. answer' \in [Reqs -> {"ack", "error", "lost", None}]
  BY DEF Resume, Or, TypeOK
<1>6. QED
  BY <1>3, <1>4, <1>5 DEF Resume, TypeOK

-----------------------------------------------------------------------------
(* What the tabs show.                                                     *)

\* Unless it has to wait, a handler that writes a task publishes a batch that
\* tells of it.
Announced(r) ==
  \/ UNCHANGED <<tasks, replica>> /\ pending'[r] # None
  \/ \E batch : Publish(batch) /\ tasks' = Overlay(tasks, batch.tasks)

\* The task rows of a batch, written over the table.
LEMMA OverlayTasks ==
  ASSUME TypeOK
  PROVE  /\ Overlay(tasks, NoRows) = tasks
         /\ \A t \in TaskIds : \A row :
              Overlay(tasks, Only(t, row)) = [tasks EXCEPT ![t] = row]
BY DEF TypeOK, Overlay, Only, NoRows

\* A published batch reaches every live tab, with its attention list.
LEMMA PublishShape ==
  ASSUME TypeOK, NEW batch, Publish(batch), NEW s \in Socks, conn[s] = "live"
  PROVE  /\ replica'[s].tasks = Overlay(replica[s].tasks, batch.tasks)
         /\ replica'[s].attention = AttentionOf(SockUser[s])'
         /\ replica'[s].presence = replica[s].presence
<1>1. replica[s] \in ReplicaRow
  BY DEF TypeOK
<1> DEFINE rep == Reduce(replica[s], batch)
<1>2. /\ rep.tasks = Overlay(replica[s].tasks, batch.tasks)
      /\ rep.presence = replica[s].presence
      /\ rep = [f \in {"tasks", "blockers", "comments", "updates", "feedback",
                       "activity", "mentions", "attention", "presence"} |-> rep[f]]
  BY <1>1 DEF Reduce, ReplicaRow
<1>3. replica'[s] = [rep EXCEPT !.attention = AttentionOf(SockUser[s])']
  BY DEF Publish
<1> HIDE DEF rep
<1>4. QED
  BY <1>2, <1>3

\* A batch without a task is published by handlers that write none.
LEMMA QuietTasks ==
  ASSUME TypeOK, UNCHANGED tasks, NEW batch, batch.tasks = NoRows, Publish(batch),
         NEW r \in Reqs
  PROVE  Announced(r)
BY OverlayTasks DEF Announced

\* A handler with mentions publishes its batch or waits.
LEMMA MentionsAnnounced ==
  ASSUME TypeOK, UNCHANGED tasks, NEW r \in Reqs,
         NEW u, NEW source \in MentionSources, NEW id \in BlockerIds,
         NEW named \in SUBSET Users, NEW batch \in WaitingBatch,
         FinishWithMentions(r, u, source, id, named, batch)
  PROVE  Announced(r)
<1> DEFINE new == NewMentions(r, u, source, id, named)
<1>1. CASE Finish(r, [batch EXCEPT !.mentions = new])
  <2>1. new \in SUBSET MentionRow
    BY NewMentionsType
  <2> HIDE DEF new
  <2>2. [batch EXCEPT !.mentions = new].tasks = NoRows
    BY <2>1, WaitingIsBatch
  <2>3. QED
    BY <1>1, <2>2, QuietTasks DEF Finish
<1>2. CASE pending' = [pending EXCEPT ![r] = batch] /\ UNCHANGED replica
  <2>1. pending'[r] = batch /\ batch # None
    BY <1>2, NoneAssumption DEF TypeOK
  <2>2. QED
    BY <1>2, <2>1 DEF Announced
<1>3. QED
  BY <1>1, <1>2 DEF FinishWithMentions

\* Every task mutation tells of the row it wrote.
LEMMA TaskAnnounced ==
  ASSUME TypeOK, NEW r \in Reqs, NEW s \in Socks, NEW m \in Messages,
         \/ TaskCreate(r, s, m) \/ TaskUpdate(r, s, m) \/ TaskMove(r, s, m)
         \/ TaskPriority(r, s, m) \/ TaskDelete(r, s, m)
  PROVE  Announced(r)
<1>0. r \in TaskIds
  BY DEF TaskIds
<1>1. ASSUME NEW t \in TaskIds, NEW row, NEW logged, WriteTask(r, t, row, logged)
      PROVE  Announced(r)
  <2> DEFINE batch == [Quiet EXCEPT !.tasks = Only(t, row), !.activity = logged]
  <2>1. batch.tasks = Only(t, row)
    BY DEF Quiet
  <2>2. Publish(batch) /\ tasks' = [tasks EXCEPT ![t] = row]
    BY <1>1 DEF WriteTask, Finish
  <2> HIDE DEF batch
  <2>3. QED
    BY <2>1, <2>2, OverlayTasks DEF Announced
<1>2. CASE TaskCreate(r, s, m)
  BY <1>0, <1>1, <1>2 DEF TaskCreate
<1>3. CASE TaskUpdate(r, s, m) \/ TaskMove(r, s, m) \/ TaskPriority(r, s, m)
  <2>1. m.id \in TaskIds
    BY <1>3, MessageFields DEF TaskUpdate, TaskMove, TaskPriority, Accept
  <2>2. QED
    BY <1>1, <1>3, <2>1 DEF TaskUpdate, TaskMove, TaskPriority
<1>4. CASE TaskDelete(r, s, m)
  <2>1. m.id \in TaskIds
    BY <1>4, MessageFields DEF TaskDelete, Accept
  <2> DEFINE batch == [Quiet EXCEPT !.tasks = Only(m.id, None), !.activity = {r}]
  <2>2. batch.tasks = Only(m.id, None)
    BY DEF Quiet
  <2>3. Publish(batch) /\ tasks' = [tasks EXCEPT ![m.id] = None]
    BY <1>4 DEF TaskDelete, Finish
  <2> HIDE DEF batch
  <2>4. Overlay(tasks, Only(m.id, None)) = [tasks EXCEPT ![m.id] = None]
    BY <2>1 DEF TypeOK, Overlay, Only
  <2>5. QED
    BY <2>2, <2>3, <2>4 DEF Announced
<1>5. QED
  BY <1>2, <1>3, <1>4

\* A blocker mutation writes no task and tells of none.
LEMMA BlockerAnnounced ==
  ASSUME TypeOK, NEW r \in Reqs, NEW s \in Socks, NEW m \in Messages,
         \/ BlockerCreate(r, s, m) \/ BlockerRequestResolution(r, s, m)
         \/ BlockerResolve(r, s, m) \/ BlockerEscalate(r, s, m)
  PROVE  Announced(r)
<1>1. ASSUME NEW b, NEW row, UNCHANGED tasks,
             \/ Finish(r, CommentBatch(r, b, row))
             \/ Finish(r, [Quiet EXCEPT !.blockers = Only(b, row), !.activity = {r}])
             \/ Finish(r, Quiet)
      PROVE  Announced(r)
  <2> DEFINE batch == [Quiet EXCEPT !.blockers = Only(b, row), !.activity = {r}]
  <2>1. /\ CommentBatch(r, b, row).tasks = NoRows /\ batch.tasks = NoRows
        /\ Quiet.tasks = NoRows
    BY DEF CommentBatch, Quiet
  <2>2. \/ Publish(CommentBatch(r, b, row)) \/ Publish(batch) \/ Publish(Quiet)
    BY <1>1 DEF Finish
  <2> HIDE DEF batch
  <2>3. QED
    BY <1>1, <2>1, <2>2, QuietTasks
<1>2. CASE BlockerCreate(r, s, m)
  <2> DEFINE row == NewBlocker(m.task)
  <2>1. /\ UNCHANGED tasks
        /\ Finish(r, [Quiet EXCEPT !.blockers = Only(r, row), !.activity = {r}])
    BY <1>2 DEF BlockerCreate
  <2> HIDE DEF row
  <2>2. QED
    BY <1>1, <2>1
<1>3. CASE BlockerRequestResolution(r, s, m) \/ BlockerEscalate(r, s, m)
  <2>1. UNCHANGED tasks /\ \E row : Finish(r, CommentBatch(r, m.id, row))
    BY <1>3 DEF BlockerRequestResolution, BlockerEscalate
  <2>2. QED
    BY <1>1, <2>1
<1>4. CASE BlockerResolve(r, s, m)
  BY <1>1, <1>4, ResolveForms DEF ResolvesTo
<1>5. QED
  BY <1>2, <1>3, <1>4

\* Neither does a mutation with mentions.
LEMMA MentioningAnnounced ==
  ASSUME TypeOK, NEW r \in Reqs, NEW s \in Socks, NEW m \in Messages,
         \/ BlockerComment(r, s, m) \/ UpdateCreate(r, s, m)
         \/ FeedbackCreate(r, s, m)
  PROVE  Announced(r)
<1>0. /\ r \in BlockerIds /\ SockUser[s] \in Users
      /\ {"BLOCKER_COMMENT", "UPDATE", "TASK_COMMENT"} \subseteq MentionSources
      /\ m.mentions \in SUBSET Users
  BY RolesAssumption, MessageFields
  DEF BlockerIds, MentionSources, BlockerComment, UpdateCreate, FeedbackCreate,
      Accept
<1>1. CASE BlockerComment(r, s, m)
  <2>1. m.id \in BlockerIds /\ blockers[m.id] \in BlockerRow
    BY <1>1, MessageFields, RowTypes DEF BlockerComment, Accept, Throws
  <2>2. CommentBatch(r, m.id, Commented(blockers[m.id], SockUser[s])) \in WaitingBatch
    BY <1>0, <2>1, RowTypes, WaitingForms
  <2>3. QED
    BY <1>0, <1>1, <2>1, <2>2, MentionsAnnounced DEF BlockerComment
<1>2. CASE UpdateCreate(r, s, m)
  BY <1>0, <1>2, WaitingForms, MentionsAnnounced DEF UpdateCreate
<1>3. CASE FeedbackCreate(r, s, m)
  <2> DEFINE batch == [Quiet EXCEPT !.feedback = Only(r, [task |-> m.task]),
                                    !.activity = {r}]
  <2>1. [task |-> m.task] \in FeedbackRow
    BY <1>3, MessageFields DEF FeedbackCreate, Accept, FeedbackRow
  <2>2. batch \in WaitingBatch
    BY <2>1, WaitingForms
  <2>3. /\ FinishWithMentions(r, SockUser[s], "TASK_COMMENT", r, m.mentions, batch)
        /\ UNCHANGED tasks
    BY <1>3 DEF FeedbackCreate
  <2> HIDE DEF batch
  <2>4. QED
    BY <1>0, <2>2, <2>3, MentionsAnnounced
<1>4. QED
  BY <1>1, <1>2, <1>3

\* The batch that waited holds no task.
LEMMA ResumeAnnounced ==
  ASSUME TypeOK, RequestsOK, NEW r \in Reqs, NEW ok \in BOOLEAN, Resume(r, ok)
  PROVE  \E batch : Publish(batch) /\ tasks' = Overlay(tasks, batch.tasks)
<1> DEFINE new == ResumedMentions(r, ok)
<1>1. new \in SUBSET MentionRow /\ pending[r] \in WaitingBatch
  BY ResumedType DEF Resume, WaitsForD1
<1>2. UNCHANGED tasks /\ Publish([pending[r] EXCEPT !.mentions = new])
  BY DEF Resume, ResumedMentions
<1> HIDE DEF new
<1>3. [pending[r] EXCEPT !.mentions = new].tasks = NoRows
  BY <1>1, WaitingIsBatch
<1>4. QED
  BY <1>2, <1>3, OverlayTasks

Views == TasksInSync /\ PresenceBounds /\ AttentionFresh

\* A published batch keeps the tabs in step.
LEMMA ViewsPublished ==
  ASSUME TypeOK, Views, UNCHANGED conn, NEW batch, Publish(batch),
         tasks' = Overlay(tasks, batch.tasks)
  PROVE  Views'
<1>1. ASSUME NEW s \in Socks, conn[s] = "live"
      PROVE  /\ replica'[s].tasks = tasks'
             /\ replica'[s].attention = AttentionOf(SockUser[s])'
             /\ replica'[s].presence = replica[s].presence
  BY <1>1, PublishShape DEF Views, TasksInSync
<1>2. PresenceState' = PresenceState
  BY DEF PresenceState
<1>3. TasksInSync'
  BY <1>1 DEF TasksInSync
<1>4. AttentionFresh'
  BY <1>1 DEF AttentionFresh
<1>5. PresenceBounds'
  BY <1>1, <1>2 DEF Views, PresenceBounds
<1>6. QED
  BY <1>3, <1>4, <1>5 DEF Views

\* A dispatch keeps the tabs in step.
LEMMA ViewsDispatch ==
  ASSUME TypeOK, Views, NEW r \in Reqs, NEW s \in Socks, NEW m \in Messages,
         Dispatch(r, s, m)
  PROVE  Views'
<1>1. Announced(r) /\ UNCHANGED conn
  BY TaskAnnounced, BlockerAnnounced, MentioningAnnounced, DispatchShape
  DEF Dispatch, Dispatched
<1>2. CASE UNCHANGED <<tasks, replica>> /\ pending'[r] # None
  <2>1. PresenceState' = PresenceState
    BY <1>1 DEF PresenceState
  <2>2. QED
    BY <1>1, <1>2, <2>1 DEF Views, TasksInSync, PresenceBounds, AttentionFresh
<1>3. QED
  BY <1>1, <1>2, ViewsPublished DEF Announced

\* The list of a user is a function of four tables.
LEMMA AttentionUnchanged ==
  ASSUME UNCHANGED <<tasks, blockers, mentions>>, NEW u
  PROVE  AttentionOf(u)' = AttentionOf(u)
BY DEF AttentionOf

\* A refused frame changes nothing that a tab shows or should show.
LEMMA ViewsRefused ==
  ASSUME TypeOK, Views, NEW r \in Reqs, NEW s \in Socks, NEW m \in Messages,
         Forbidden(r, s, m) \/ Duplicate(r, s, m) \/ Refuse(r, s, m)
  PROVE  Views'
<1>1. UNCHANGED <<tasks, blockers, mentions, pending, conn, replica>>
  BY DEF Forbidden, Duplicate, Refuse, Untouched
<1>2. PresenceState' = PresenceState
  BY <1>1 DEF PresenceState
<1>3. QED
  BY <1>1, <1>2, AttentionUnchanged
  DEF Views, TasksInSync, PresenceBounds, AttentionFresh

\* What a tab shows of tasks and attention when only presence is told.
LEMMA ToldShape ==
  ASSUME TypeOK, NEW x \in Socks
  PROVE  /\ PresenceTold(x).tasks = replica[x].tasks
         /\ PresenceTold(x).attention = replica[x].attention
         /\ conn[x] = "live" => PresenceTold(x).presence = PresenceState'
<1>1. replica[x] \in ReplicaRow
  BY DEF TypeOK
<1>2. QED
  BY <1>1 DEF PresenceTold, ReplicaRow

\* The parts of a snapshot that matter here.
LEMMA SnapshotShape ==
  ASSUME NEW u, NEW P
  PROVE  LET new == [Snapshot(u) EXCEPT !.presence = P] IN
         /\ new.tasks = tasks /\ new.attention = AttentionOf(u)
         /\ new.presence = P
BY DEF Snapshot

\* A tab becomes live with the tasks, list and presence of that moment.
LEMMA ViewsWelcome ==
  ASSUME TypeOK, Views, NEW s \in Socks, Welcome(s), UNCHANGED <<store, pending>>
  PROVE  Views'
<1>1. UNCHANGED <<tasks, blockers, mentions>>
  BY DEF store
<1>2. ASSUME NEW x \in Socks, conn'[x] = "live"
      PROVE  /\ replica'[x].tasks = tasks
             /\ x # s => conn[x] = "live" /\ replica'[x].attention = replica[x].attention
             /\ x = s => replica'[x].attention = AttentionOf(SockUser[s])
             /\ replica'[x].presence = PresenceState'
  <2>1. CASE x = s
    BY <2>1, SnapshotShape DEF Welcome
  <2>2. CASE x # s
    <3>1. conn[x] = "live" /\ replica'[x] = PresenceTold(x)
      BY <1>2, <2>2 DEF Welcome, TypeOK
    <3>2. QED
      BY <2>2, <3>1, ToldShape DEF Views, TasksInSync
  <2>3. QED
    BY <2>1, <2>2
<1>3. TasksInSync'
  BY <1>1, <1>2 DEF TasksInSync
<1>4. AttentionFresh'
  BY <1>1, <1>2, AttentionUnchanged DEF Views, AttentionFresh
<1>5. PresenceBounds'
  BY <1>2 DEF PresenceBounds, PresenceState
<1>6. QED
  BY <1>3, <1>4, <1>5 DEF Views

\* Connections, time and resets keep the tabs in step.
LEMMA ViewsConnections ==
  ASSUME TypeOK, Views,
         \/ \E s \in Socks : Upgrade(s) \/ Disconnect(s)
         \/ \E s \in Socks, ok \in BOOLEAN : SnapshotReady(s, ok)
         \/ RosterExpires \/ ClaimsExpire \/ Restart
  PROVE  Views'
<1>1. ASSUME NEW s \in Socks, Upgrade(s)
      PROVE  Views'
  <2>1. CASE Welcome(s)
    BY <1>1, <2>1, ViewsWelcome DEF Upgrade
  <2>2. CASE conn' = [conn EXCEPT ![s] = "joining"] /\ UNCHANGED replica
    <3>1. UNCHANGED <<tasks, blockers, mentions, pending, replica>>
      BY <1>1, <2>2 DEF Upgrade, store
    <3>2. \A x \in Socks : /\ conn'[x] = "live" => conn[x] = "live"
                           /\ conn[x] # "off" => conn'[x] # "off"
      BY <1>1, <2>2 DEF Upgrade, TypeOK
    <3>3. PresenceState \subseteq PresenceState'
      BY <3>2 DEF PresenceState
    <3>4. PresenceBounds'
      BY <3>1, <3>2, <3>3 DEF Views, PresenceBounds
    <3>5. TasksInSync' /\ AttentionFresh'
      BY <3>1, <3>2, AttentionUnchanged DEF Views, TasksInSync, AttentionFresh
    <3>6. QED
      BY <3>4, <3>5 DEF Views
  <2>3. QED
    BY <1>1, <2>1, <2>2 DEF Upgrade
<1>2. ASSUME NEW s \in Socks, Disconnect(s)
      PROVE  Views'
  <2>1. UNCHANGED <<tasks, blockers, mentions, pending>>
    BY <1>2 DEF Disconnect, store
  <2>2. ASSUME NEW x \in Socks, conn'[x] = "live"
        PROVE  /\ conn[x] = "live" /\ replica'[x] = PresenceTold(x)
    BY <1>2, <2>2 DEF Disconnect, TypeOK
  <2>3. TasksInSync'
    BY <2>1, <2>2, ToldShape DEF Views, TasksInSync
  <2>4. AttentionFresh'
    BY <2>1, <2>2, ToldShape, AttentionUnchanged DEF Views, AttentionFresh
  <2>5. \A x \in Socks : conn'[x] = "live" => replica'[x].presence = PresenceState'
    BY <2>2, ToldShape
  <2>6. PresenceBounds'
    BY <2>5 DEF PresenceBounds, PresenceState
  <2>7. QED
    BY <2>3, <2>4, <2>6 DEF Views
<1>3. ASSUME NEW s \in Socks, NEW ok \in BOOLEAN, SnapshotReady(s, ok)
      PROVE  Views'
  BY <1>3, ViewsWelcome DEF SnapshotReady
<1>4. CASE RosterExpires \/ ClaimsExpire
  <2>1. UNCHANGED <<tasks, blockers, mentions, pending, conn, replica>>
    BY <1>4 DEF RosterExpires, ClaimsExpire, store
  <2>2. PresenceState' = PresenceState
    BY <2>1 DEF PresenceState
  <2>3. QED
    BY <2>1, <2>2, AttentionUnchanged
    DEF Views, TasksInSync, PresenceBounds, AttentionFresh
<1>5. CASE Restart
  <2>1. \A x \in Socks : conn'[x] # "live"
    BY <1>5 DEF Restart
  <2>2. QED
    BY <2>1 DEF Views, TasksInSync, PresenceBounds, AttentionFresh
<1>6. QED
  BY <1>1, <1>2, <1>3, <1>4, <1>5

-----------------------------------------------------------------------------
(* References.                                                             *)

\* An action that keeps every task, and adds or keeps rows with good links.
LEMMA ReferencesKept ==
  ASSUME ReferencesIntact,
         \A t \in TaskIds : tasks[t] # None => tasks'[t] # None,
         \A b \in BlockerIds : blockers[b] # None => blockers'[b] # None,
         \A b \in BlockerIds :
           \/ blockers'[b] = blockers[b]
           \/ blockers[b] # None /\ blockers'[b].task = blockers[b].task
           \/ blockers'[b].task = None
           \/ blockers'[b].task \in TaskIds /\ tasks[blockers'[b].task] # None,
         \A f \in Reqs :
           \/ feedback'[f] = feedback[f]
           \/ feedback'[f].task = None
           \/ feedback'[f].task \in TaskIds /\ tasks[feedback'[f].task] # None,
         TypeOK,
         \A c \in comments' : c \in comments \/ blockers'[c.blocker] # None,
         \A b \in escalations' : b \in escalations \/ blockers'[b] # None
  PROVE  ReferencesIntact'
<1>1. ASSUME NEW b \in BlockerIds, blockers'[b] # None, blockers'[b].task # None
      PROVE  tasks'[blockers'[b].task] # None
  <2>1. ASSUME blockers[b] # None, blockers[b].task # None
        PROVE  tasks'[blockers[b].task] # None
    BY <2>1, RowTypes DEF ReferencesIntact, BlockerRow
  <2>2. QED
    BY <1>1, <2>1
<1>2. ASSUME NEW f \in Reqs, feedback'[f] # None, feedback'[f].task # None
      PROVE  tasks'[feedback'[f].task] # None
  <2>1. ASSUME feedback[f] # None, feedback[f].task # None
        PROVE  tasks'[feedback[f].task] # None
    BY <2>1 DEF ReferencesIntact, FeedbackRow, TypeOK
  <2>2. QED
    BY <1>2, <2>1
<1>3. \A c \in comments' : blockers'[c.blocker] # None
  BY DEF ReferencesIntact, TypeOK, CommentRow
<1>4. \A b \in escalations' : blockers'[b] # None
  BY DEF ReferencesIntact, TypeOK
<1>5. QED
  BY <1>1, <1>2, <1>3, <1>4 DEF ReferencesIntact

\* Work on a blocker leaves its link to a task alone.
LEMMA LinksStay ==
  ASSUME TypeOK, NEW r \in Reqs, NEW s \in Socks, NEW m \in Messages,
         \/ BlockerComment(r, s, m) \/ BlockerRequestResolution(r, s, m)
         \/ BlockerResolve(r, s, m) \/ BlockerEscalate(r, s, m),
         NEW b \in BlockerIds, blockers[b] # None
  PROVE  blockers'[b].task = blockers[b].task
<1> DEFINE u == SockUser[s]
           requested == [blockers[m.id] EXCEPT !.status = "RESOLUTION_REQUESTED"]
<1>1. blockers[b] \in BlockerRow /\ u \in Users
  BY RowTypes, RolesAssumption
<1>2. CASE BlockerResolve(r, s, m)
  BY <1>2, ResolveForms DEF ResolvesTo, TypeOK
<1>3. ASSUME NEW row, row \in {Commented(blockers[m.id], u), Commented(requested, u)},
             blockers' = [blockers EXCEPT ![m.id] = row]
      PROVE  blockers'[b].task = blockers[b].task
  <2>1. CASE b = m.id
    <3>1. requested \in BlockerRow /\ requested.task = blockers[b].task
      BY <1>1, <2>1 DEF BlockerRow, BlockerStatuses
    <3> HIDE DEF requested
    <3>2. row.task = blockers[b].task
      BY <1>1, <1>3, <2>1, <3>1, CommentedRow
    <3>3. QED
      BY <1>3, <2>1, <3>2 DEF TypeOK
  <2>2. CASE b # m.id
    BY <1>3, <2>2 DEF TypeOK
  <2>3. QED
    BY <2>1, <2>2
<1>4. QED
  BY <1>2, <1>3 DEF BlockerComment, BlockerRequestResolution, BlockerEscalate

\* No dispatch leaves a reference dangling.
LEMMA ReferencesDispatch ==
  ASSUME TypeOK, Fresh, ReferencesIntact, TypeOK',
         NEW r \in Reqs, NEW s \in Socks, NEW m \in Messages, Dispatch(r, s, m)
  PROVE  ReferencesIntact'
<1>0. \A b \in BlockerIds : blockers[b] # None => blockers'[b] # None
  BY DispatchForward DEF Forward
<1>1. CASE TaskCreate(r, s, m) \/ TaskUpdate(r, s, m) \/ TaskMove(r, s, m)
             \/ TaskPriority(r, s, m)
  <2>1. UNCHANGED <<blockers, comments, feedback, escalations>>
    BY <1>1 DEF TaskCreate, TaskUpdate, TaskMove, TaskPriority, WriteTask
  <2>2. \A t \in TaskIds : tasks[t] # None => tasks'[t] # None
    <3>1. PICK t \in TaskIds, row \in TaskRow : tasks' = [tasks EXCEPT ![t] = row]
      BY <1>1, TaskWritten DEF WriteTask
    <3>2. QED
      BY <3>1, NoneAssumption DEF TypeOK
  <2>3. QED
    BY <2>1, <2>2, ReferencesKept
<1>2. CASE TaskDelete(r, s, m)
  <2>1. \A b \in BlockerIds :
          \/ blockers'[b] = blockers[b] /\ ~(blockers[b] # None /\ blockers[b].task = m.id)
          \/ blockers'[b].task = None
    <3>1. ASSUME NEW b \in BlockerIds, blockers[b] # None, blockers[b].task = m.id
          PROVE  blockers'[b].task = None
      <4>1. blockers[b] \in BlockerRow
        BY <3>1, RowTypes
      <4>2. [blockers[b] EXCEPT !.task = None].task = None
        BY <4>1, DetachedRow
      <4>3. blockers'[b] = [blockers[b] EXCEPT !.task = None]
        BY <1>2, <3>1 DEF TaskDelete, Detached, TypeOK
      <4>4. QED
        BY <4>2, <4>3
    <3>2. \A b \in BlockerIds : ~(blockers[b] # None /\ blockers[b].task = m.id)
                                 => blockers'[b] = blockers[b]
      BY <1>2 DEF TaskDelete, Detached, TypeOK
    <3>3. QED
      BY <3>1, <3>2
  <2>2. \A f \in Reqs :
          \/ feedback'[f] = feedback[f] /\ ~(feedback[f] # None /\ feedback[f].task = m.id)
          \/ feedback'[f] # None /\ feedback'[f].task = None
    <3>1. ASSUME NEW f \in Reqs, feedback[f] # None, feedback[f].task = m.id
          PROVE  feedback'[f] # None /\ feedback'[f].task = None
      <4>1. feedback[f] \in FeedbackRow
        BY <3>1 DEF TypeOK
      <4>2. /\ [feedback[f] EXCEPT !.task = None].task = None
            /\ [feedback[f] EXCEPT !.task = None] \in FeedbackRow
        BY <4>1 DEF FeedbackRow
      <4>3. feedback'[f] = [feedback[f] EXCEPT !.task = None]
        BY <1>2, <3>1 DEF TaskDelete, Detached, TypeOK
      <4>4. QED
        BY <4>2, <4>3, NoneAssumption
    <3>2. \A f \in Reqs : ~(feedback[f] # None /\ feedback[f].task = m.id)
                           => feedback'[f] = feedback[f]
      BY <1>2 DEF TaskDelete, Detached, TypeOK
    <3>3. QED
      BY <3>1, <3>2
  <2>3. \A t \in TaskIds : t # m.id => tasks'[t] = tasks[t]
    BY <1>2 DEF TaskDelete, TypeOK
  <2>4. UNCHANGED <<comments, escalations>>
    BY <1>2 DEF TaskDelete
  <2>5. ASSUME NEW b \in BlockerIds, blockers'[b] # None, blockers'[b].task # None
        PROVE  tasks'[blockers'[b].task] # None
    <3>1. blockers'[b] = blockers[b] /\ blockers[b].task # m.id
      BY <2>1, <2>5
    <3>2. blockers[b] \in BlockerRow
      BY <2>5, <3>1, RowTypes
    <3>3. blockers[b].task \in TaskIds /\ tasks[blockers[b].task] # None
      BY <2>5, <3>1, <3>2 DEF ReferencesIntact, BlockerRow
    <3>4. QED
      BY <2>3, <3>1, <3>3
  <2>6. ASSUME NEW f \in Reqs, feedback'[f] # None, feedback'[f].task # None
        PROVE  tasks'[feedback'[f].task] # None
    <3>1. feedback'[f] = feedback[f] /\ feedback[f].task # m.id
      BY <2>2, <2>6
    <3>2. feedback[f] \in FeedbackRow
      BY <2>6, <3>1 DEF TypeOK
    <3>3. feedback[f].task \in TaskIds /\ tasks[feedback[f].task] # None
      BY <2>6, <3>1, <3>2 DEF ReferencesIntact, FeedbackRow
    <3>4. QED
      BY <2>3, <3>1, <3>3
  <2>7. QED
    BY <1>0, <2>4, <2>5, <2>6 DEF ReferencesIntact, TypeOK, CommentRow
<1>3. CASE BlockerCreate(r, s, m)
  <2> DEFINE row == NewBlocker(m.task)
  <2>1. row.task = None \/ (row.task \in TaskIds /\ tasks[row.task] # None)
    <3>1. m.task = None \/ (m.task \in TaskIds /\ tasks[m.task] # None)
      <4>1. m.type = "blocker.create" /\ ~Throws(m, SockUser[s])
        BY <1>3 DEF BlockerCreate, Accept
      <4>2. m.task \in TaskIds \cup {None}
        BY <4>1, MessageFields
      <4>3. ~(/\ m.type \in {"blocker.create", "feedback.create"}
              /\ m.task # None /\ tasks[m.task] = None)
        BY <4>1 DEF Throws
      <4>4. QED
        BY <4>1, <4>2, <4>3
    <3>2. QED
      BY <3>1, NewBlockerRow
  <2>2. /\ blockers' = [blockers EXCEPT ![r] = row]
        /\ UNCHANGED <<tasks, comments, feedback, escalations>>
    BY <1>3 DEF BlockerCreate
  <2> HIDE DEF row
  <2>3. QED
    BY <1>0, <2>1, <2>2, ReferencesKept DEF TypeOK, BlockerIds
<1>4. CASE FeedbackCreate(r, s, m)
  <2> DEFINE row == [task |-> m.task]
  <2>1. row.task = None \/ (row.task \in TaskIds /\ tasks[row.task] # None)
    <3>1. m.task = None \/ (m.task \in TaskIds /\ tasks[m.task] # None)
      <4>1. m.type = "feedback.create" /\ ~Throws(m, SockUser[s])
        BY <1>4 DEF FeedbackCreate, Accept
      <4>2. m.task \in TaskIds \cup {None}
        BY <4>1, MessageFields
      <4>3. ~(/\ m.type \in {"blocker.create", "feedback.create"}
              /\ m.task # None /\ tasks[m.task] = None)
        BY <4>1 DEF Throws
      <4>4. QED
        BY <4>1, <4>2, <4>3
    <3>2. QED
      BY <3>1
  <2>2. /\ feedback' = [feedback EXCEPT ![r] = row]
        /\ UNCHANGED <<tasks, blockers, comments, escalations>>
    BY <1>4 DEF FeedbackCreate
  <2> HIDE DEF row
  <2>3. QED
    BY <2>1, <2>2, ReferencesKept DEF TypeOK
<1>5. CASE \/ BlockerComment(r, s, m) \/ BlockerRequestResolution(r, s, m)
           \/ BlockerResolve(r, s, m) \/ BlockerEscalate(r, s, m)
  <2>1. /\ m.id \in BlockerIds /\ blockers[m.id] # None
        /\ UNCHANGED <<tasks, feedback>>
        /\ comments' \subseteq comments \cup {[id |-> r, blocker |-> m.id]}
        /\ escalations' \subseteq escalations \cup {m.id}
    BY <1>5, MessageFields
    DEF BlockerComment, BlockerRequestResolution, BlockerResolve, BlockerEscalate,
        Accept, Throws
  <2>2. \A b \in BlockerIds : blockers[b] # None =>
          blockers'[b] # None /\ blockers'[b].task = blockers[b].task
    BY <1>0, <1>5, LinksStay
  <2>3. \A b \in BlockerIds : b # m.id => blockers'[b] = blockers[b]
    BY <1>5 DEF BlockerComment, BlockerRequestResolution, BlockerResolve,
                BlockerEscalate, TypeOK
  <2>4. QED
    BY <1>0, <2>1, <2>2, <2>3, ReferencesKept
<1>6. CASE UpdateCreate(r, s, m)
  BY <1>6, ReferencesKept DEF UpdateCreate
<1>7. QED
  BY <1>1, <1>2, <1>3, <1>4, <1>5, <1>6 DEF Dispatch

\* Nor does a step that writes no table with references.
LEMMA ReferencesSteady ==
  ASSUME ReferencesIntact, UNCHANGED <<tasks, blockers, comments, feedback, escalations>>
  PROVE  ReferencesIntact'
BY DEF ReferencesIntact

-----------------------------------------------------------------------------
(* The inductive invariant.                                                *)

\* The types, the books of requests, what the tabs show, and the references.
IInv == TypeOK /\ RequestsOK /\ Views /\ ReferencesIntact

\* The initial states satisfy the invariant.
LEMMA InitEstablishes ==
  ASSUME Init
  PROVE  IInv
<1>1. TypeOK
  BY TypeInit
<1>2. RequestsOK
  <2>1. Known = {}
    BY DEF Init, Known
  <2>2. Once
    BY DEF Init, Once
  <2>3. Fresh
    <3>1. ASSUME NEW r \in Reqs
          PROVE  tasks[r] = None /\ blockers[r] = None /\ feedback[r] = None
      <4>1. r \in TaskIds /\ r \notin SeedTasks /\ r \in BlockerIds
            /\ r \notin SeedBlockers
        BY IdsAssumption DEF TaskIds, BlockerIds
      <4>2. tasks[r] = None
        BY <4>1 DEF Init
      <4>3. blockers[r] = None
        BY <4>1 DEF Init
      <4>4. QED
        BY <4>2, <4>3 DEF Init
    <3>2. QED
      BY <3>1 DEF Fresh
  <2>4. Waiters
    BY DEF Init, Waiters
  <2>5. Effects
    BY <2>1 DEF Effects
  <2>6. Answers
    <3>1. \A r \in Reqs : answer[r] # "ack"
      BY NoneAssumption DEF Init
    <3>2. QED
      BY <3>1 DEF Answers
  <2>7. QED
    BY <2>2, <2>3, <2>4, <2>5, <2>6 DEF RequestsOK
<1>3. Views
  <2>1. \A s \in Socks : conn[s] # "live"
    BY DEF Init
  <2>2. QED
    BY <2>1 DEF Views, TasksInSync, PresenceBounds, AttentionFresh
<1>4. ReferencesIntact
  <2>1. ASSUME NEW b \in BlockerIds, blockers[b] # None, blockers[b].task # None
        PROVE  tasks[blockers[b].task] # None
    <3>1. PICK link : link = blockers[b].task
      OBVIOUS
    <3>2. b \in SeedBlockers /\ blockers[b] = SeedRows[b]
      BY <2>1 DEF Init
    <3>3. link \in SeedTasks
      BY <2>1, <3>1, <3>2, SeedsAssumption
    <3>4. PICK owner \in Users :
            tasks = [t \in TaskIds |->
                       IF t \in SeedTasks
                         THEN [status |-> "TODO", priority |-> "HIGH",
                               assignee |-> None, createdBy |-> owner]
                         ELSE None]
      BY DEF Init
    <3> DEFINE row == [status |-> "TODO", priority |-> "HIGH",
                       assignee |-> None, createdBy |-> owner]
    <3>5. row \in TaskRow
      BY DEF TaskRow, TaskStatuses, TaskPriorities
    <3>6. tasks[link] = row
      BY <3>3, <3>4 DEF TaskIds
    <3>7. QED
      BY <3>1, <3>5, <3>6, NoneAssumption
  <2>2. comments = {} /\ escalations = {} /\ \A f \in Reqs : feedback[f] = None
    BY DEF Init
  <2>3. QED
    BY <2>1, <2>2 DEF ReferencesIntact
<1>5. QED
  BY <1>1, <1>2, <1>3, <1>4 DEF IInv

\* Every step, and every stutter, keeps it.
LEMMA StepPreserves ==
  ASSUME IInv, [Next]_vars
  PROVE  IInv'
<1> USE DEF IInv
<1>1. ASSUME NEW r \in Reqs, NEW s \in Socks, NEW m \in Messages,
             Forbidden(r, s, m) \/ Duplicate(r, s, m) \/ Refuse(r, s, m)
      PROVE  IInv'
  <2>1. UNCHANGED <<tasks, blockers, comments, feedback, escalations>>
    BY <1>1 DEF Forbidden, Duplicate, Refuse, Untouched
  <2>2. TypeOK'
    BY <1>1, TypeRefused
  <2>3. RequestsOK'
    BY <1>1, RequestsRefused
  <2>4. Views'
    BY <1>1, ViewsRefused
  <2>5. QED
    BY <2>1, <2>2, <2>3, <2>4, ReferencesSteady
<1>2. ASSUME NEW r \in Reqs, NEW s \in Socks, NEW m \in Messages,
             Dispatch(r, s, m)
      PROVE  IInv'
  <2>1. TypeOK'
    BY <1>2, TypeDispatch
  <2>2. RequestsOK'
    BY <1>2, RequestsDispatch
  <2>3. Views'
    BY <1>2, ViewsDispatch
  <2>4. ReferencesIntact'
    BY <1>2, <2>1, ReferencesDispatch DEF RequestsOK
  <2>5. QED
    BY <2>1, <2>2, <2>3, <2>4
<1>3. ASSUME NEW r \in Reqs, NEW ok \in BOOLEAN, Resume(r, ok)
      PROVE  IInv'
  <2>1. UNCHANGED <<tasks, blockers, comments, feedback, escalations, conn>>
    BY <1>3 DEF Resume
  <2>2. TypeOK'
    BY <1>3, TypeResume
  <2>3. RequestsOK'
    BY <1>3, RequestsResume
  <2>4. PICK batch : Publish(batch) /\ tasks' = Overlay(tasks, batch.tasks)
    BY <1>3, ResumeAnnounced
  <2>5. Views'
    BY <2>1, <2>4, ViewsPublished
  <2>6. QED
    BY <2>1, <2>2, <2>3, <2>5, ReferencesSteady
<1>4. ASSUME \/ \E s \in Socks : Upgrade(s) \/ Disconnect(s)
             \/ \E s \in Socks, ok \in BOOLEAN : SnapshotReady(s, ok)
             \/ RosterExpires \/ ClaimsExpire \/ Restart
      PROVE  IInv'
  <2>1. UNCHANGED <<tasks, blockers, comments, feedback, escalations>>
    BY <1>4 DEF Upgrade, Disconnect, SnapshotReady, RosterExpires, ClaimsExpire,
                Restart, store
  <2>2. TypeOK'
    BY <1>4, TypeConnections
  <2>3. RequestsOK'
    BY <1>4, RequestsConnections
  <2>4. Views'
    BY <1>4, ViewsConnections
  <2>5. QED
    BY <2>1, <2>2, <2>3, <2>4, ReferencesSteady
<1>5. CASE UNCHANGED vars
  <2>1. TypeOK'
    BY <1>5 DEF vars, store, TypeOK
  <2>2. RequestsOK'
    BY <1>5 DEF vars, store, RequestsOK, Once, Fresh, Waiters, Effects, Answers,
                Known, Applied
  <2>3. Views'
    <3>1. \A u : AttentionOf(u)' = AttentionOf(u)
      BY <1>5, AttentionUnchanged DEF vars, store
    <3>2. PresenceState' = PresenceState
      BY <1>5 DEF vars, PresenceState
    <3>3. QED
      BY <1>5, <3>1, <3>2
      DEF vars, store, Views, TasksInSync, PresenceBounds, AttentionFresh
  <2>4. ReferencesIntact'
    BY <1>5, ReferencesSteady DEF vars, store
  <2>5. QED
    BY <2>1, <2>2, <2>3, <2>4
<1>6. QED
  BY <1>1, <1>2, <1>3, <1>4, <1>5 DEF Next, Receive

-----------------------------------------------------------------------------
(* What follows.                                                           *)

\* The inductive invariant holds in every reachable state.
THEOREM Invariance == Spec => []IInv
BY InitEstablishes, StepPreserves, PTL DEF Spec

\* Every variable holds a value of its table or of its part of the instance,
\* the tabs' replicas and the waiting batches included.
THEOREM TypeCorrect == Spec => []TypeOK
<1>1. IInv => TypeOK
  BY DEF IInv
<1>2. QED
  BY <1>1, Invariance, PTL

\* A request id takes effect at most once (claimRequest, releaseRequest and the
\* pruning of processed_requests together).
THEOREM AppliedAtMostOnce == Spec => []AppliedOnce
<1>1. IInv => AppliedOnce
  BY DEF IInv, RequestsOK, Once, AppliedOnce
<1>2. QED
  BY <1>1, Invariance, PTL

\* A tab that was acknowledged finds the effect of its request in the store,
\* duplicates and retries after an error included.
THEOREM AcksAreTrue == Spec => []AckedIsApplied
<1>1. IInv => AckedIsApplied
  BY DEF IInv, RequestsOK, Answers, Effects, AckedIsApplied
<1>2. QED
  BY <1>1, Invariance, PTL

\* Every live tab shows the store's tasks.
THEOREM TabsShowTasks == Spec => []TasksInSync
<1>1. IInv => TasksInSync
  BY DEF IInv, Views
<1>2. QED
  BY <1>1, Invariance, PTL

\* Every live tab's presence lies between the identities that are live and
\* those that hold a socket.
THEOREM PresenceIsBounded == Spec => []PresenceBounds
<1>1. IInv => PresenceBounds
  BY DEF IInv, Views
<1>2. QED
  BY <1>1, Invariance, PTL

\* With no handler in the gap, every live tab shows its user's attention list
\* as the store implies it (broadcastAttentionUpdates after every mutation).
THEOREM AttentionIsFresh == Spec => []AttentionFresh
<1>1. IInv => AttentionFresh
  BY DEF IInv, Views
<1>2. QED
  BY <1>1, Invariance, PTL

\* No row refers to a row that is not there, by the existence checks of
\* dispatch and the detachment in deleteTask alone.
THEOREM ReferencesHold == Spec => []ReferencesIntact
<1>1. IInv => ReferencesIntact
  BY DEF IInv
<1>2. QED
  BY <1>1, Invariance, PTL

\* A blocker's status only moves forward, an answered blocker stays answered,
\* and whoever resolved it first stays its resolver, at that moment.
THEOREM BlockersMoveForward == Spec => BlockerLifecycle
<1>1. ASSUME IInv, [Next]_vars
      PROVE  [\A b \in BlockerIds : blockers[b] # None =>
                /\ blockers'[b] # None
                /\ Rank(blockers[b].status) <= Rank(blockers'[b].status)
                /\ blockers[b].responded => blockers'[b].responded
                /\ blockers[b].status = "RESOLVED" =>
                     /\ blockers'[b].resolvedBy = blockers[b].resolvedBy
                     /\ blockers'[b].resolvedAt = blockers[b].resolvedAt]_blockers
  <2>1. CASE \E r \in Reqs, s \in Socks, m \in Messages : Dispatch(r, s, m)
    <3>1. \A b \in BlockerIds : blockers[b] # None => Forward(b)
      BY <1>1, <2>1, DispatchForward DEF IInv, RequestsOK
    <3>2. QED
      BY <3>1 DEF Forward
  <2>2. CASE ~\E r \in Reqs, s \in Socks, m \in Messages : Dispatch(r, s, m)
    <3>1. UNCHANGED blockers
      BY <1>1, <2>2
      DEF Next, Receive, Forbidden, Duplicate, Refuse, Untouched, Resume, Upgrade,
          Disconnect, SnapshotReady, RosterExpires, ClaimsExpire, Restart, vars,
          store
    <3>2. QED
      BY <3>1
  <2>3. QED
    BY <2>1, <2>2
<1>2. QED
  BY <1>1, Invariance, PTL DEF Spec, BlockerLifecycle

\* The step form of OwnersMoveTasks, for one task.
OwnStep(t) ==
  \/ /\ tasks'[t] # None
     /\ \E p \in TaskPriorities : tasks'[t] = [tasks[t] EXCEPT !.priority = p]
  \/ \E r \in claims' \ claims : SockUser[sent'[r].sock] = Owner(t)

\* A dispatch that changes a task obeys OwnStep.
LEMMA DispatchOwns ==
  ASSUME TypeOK, Fresh, NEW r \in Reqs, NEW s \in Socks, NEW m \in Messages,
         Dispatch(r, s, m), NEW t \in TaskIds, tasks[t] # None,
         tasks'[t] # tasks[t]
  PROVE  OwnStep(t)
<1>1. \/ TaskCreate(r, s, m) \/ TaskUpdate(r, s, m) \/ TaskMove(r, s, m)
      \/ TaskPriority(r, s, m) \/ TaskDelete(r, s, m)
  BY DEF Dispatch, BlockerCreate, BlockerComment, BlockerRequestResolution,
         BlockerResolve, BlockerEscalate, UpdateCreate, FeedbackCreate
<1>2. r \notin Known
  BY DispatchShape DEF Dispatched
<1>3. ~TaskCreate(r, s, m)
  <2>1. SUFFICES ASSUME TaskCreate(r, s, m)
                 PROVE  FALSE
    OBVIOUS
  <2>2. t = r
    BY <2>1 DEF TaskCreate, WriteTask, TypeOK
  <2>3. QED
    BY <1>2, <2>2 DEF Fresh
<1>4. CASE TaskPriority(r, s, m)
  <2>1. m.type = "task.priority" /\ ~Throws(m, SockUser[s])
    BY <1>4 DEF TaskPriority, Accept
  <2>2. m.priority \in TaskPriorities
    BY <2>1 DEF Throws, BadPriority
  <2> DEFINE row == [tasks[m.id] EXCEPT !.priority = m.priority]
  <2>3. m.id \in TaskIds /\ tasks' = [tasks EXCEPT ![m.id] = row]
    BY <1>4, <2>1, MessageFields DEF TaskPriority, WriteTask
  <2>4. row = [tasks[m.id] EXCEPT !.priority = m.priority]
    OBVIOUS
  <2>5. tasks[t] \in TaskRow
    BY DEF TypeOK
  <2> HIDE DEF row
  <2>6. t = m.id /\ tasks'[t] = row
    BY <2>3 DEF TypeOK
  <2>7. row \in TaskRow
    BY <2>2, <2>4, <2>5, <2>6 DEF TaskRow
  <2>8. QED
    BY <2>2, <2>4, <2>6, <2>7, NoneAssumption DEF OwnStep
<1>5. CASE TaskUpdate(r, s, m) \/ TaskMove(r, s, m) \/ TaskDelete(r, s, m)
  <2>1. /\ m.type \in {"task.update", "task.move", "task.delete"}
        /\ CanMutate(RoleOf[SockUser[s]], m.type)
        /\ ~Throws(m, SockUser[s]) /\ ~Claimed(r)
        /\ claims' = Unexpired(claims) \cup {r}
        /\ sent' = [sent EXCEPT ![r] = [sock |-> s, msg |-> m]]
    BY <1>5 DEF TaskUpdate, TaskMove, TaskDelete, Accept, Sent
  <2>2. t = m.id
    BY <1>5 DEF TaskUpdate, TaskMove, TaskDelete, WriteTask, TypeOK
  <2>3. RoleOf[SockUser[s]] = "intern"
    BY <2>1 DEF CanMutate
  <2>4. ~TaskBelongsToAnother(t, SockUser[s])
    BY <2>1, <2>2 DEF Throws
  <2>5. SockUser[s] = Owner(t)
    BY <2>3, <2>4 DEF TaskBelongsToAnother, Owner, Or
  <2>6. r \in claims' \ claims
    BY <2>1 DEF Claimed
  <2>7. sent'[r].sock = s
    BY <2>1 DEF TypeOK
  <2>8. QED
    BY <2>5, <2>6, <2>7 DEF OwnStep
<1>6. QED
  BY <1>1, <1>3, <1>4, <1>5

\* A step that changes an existing task in more than its priority is the first
\* acceptance of a request from the tab of the task's owner at that moment
\* (taskBelongsToAnother, with the role matrix).
THEOREM OnlyOwnersMoveTasks == Spec => OwnersMoveTasks
<1>1. ASSUME IInv, [Next]_vars
      PROVE  [\A t \in TaskIds : tasks[t] # None /\ tasks'[t] # tasks[t] =>
                \/ tasks'[t] # None /\ \E p \in TaskPriorities :
                     tasks'[t] = [tasks[t] EXCEPT !.priority = p]
                \/ \E r \in claims' \ claims :
                     SockUser[sent'[r].sock] = Owner(t)]_tasks
  <2>1. CASE \E r \in Reqs, s \in Socks, m \in Messages : Dispatch(r, s, m)
    <3>1. \A t \in TaskIds : tasks[t] # None /\ tasks'[t] # tasks[t] => OwnStep(t)
      BY <1>1, <2>1, DispatchOwns DEF IInv, RequestsOK
    <3>2. QED
      BY <3>1 DEF OwnStep
  <2>2. CASE ~\E r \in Reqs, s \in Socks, m \in Messages : Dispatch(r, s, m)
    <3>1. UNCHANGED tasks
      BY <1>1, <2>2
      DEF Next, Receive, Forbidden, Duplicate, Refuse, Untouched, Resume, Upgrade,
          Disconnect, SnapshotReady, RosterExpires, ClaimsExpire, Restart, vars,
          store
    <3>2. QED
      BY <3>1
  <2>3. QED
    BY <2>1, <2>2
<1>2. QED
  BY <1>1, Invariance, PTL DEF Spec, OwnersMoveTasks

-----------------------------------------------------------------------------
(* What the tabs and the waiting handlers have of the blockers.            *)

\* A deleted task, whose id no request will take.
Gone(t) == t \in TaskIds /\ tasks[t] = None /\ t \notin Reqs \ Known

\* A row of blocker b that may be old: not further along than the store's, and
\* with another link only if that one's task was deleted.
Behind(row, b) ==
  /\ blockers[b] # None
  /\ Rank(row.status) <= Rank(blockers[b].status)
  /\ row.task # blockers[b].task => Gone(row.task)

ScreensBehind ==
  \A s \in Socks : conn[s] = "live" =>
    \A b \in BlockerIds :
      /\ replica[s].blockers[b] = None => ~Listed(b)
      /\ replica[s].blockers[b] # None => Behind(replica[s].blockers[b], b)
WaitersBehind ==
  \A r \in Reqs : pending[r] # None =>
    \A b \in DOMAIN pending[r].blockers : Behind(pending[r].blockers[b], b)

\* The second invariant: batches are published as they were computed, and a
\* batch that waits gets old like a screen does.
BInv == ScreensBehind /\ WaitersBehind

\* What a step may do to a blocker that somebody has a row of.
Moved(b) ==
  /\ Forward(b)
  /\ \A t : t = blockers[b].task /\ blockers'[b].task # t => Gone(t)'
Onwards ==
  /\ \A b \in BlockerIds : blockers[b] # None => Moved(b)
  /\ \A t : Gone(t) => Gone(t)'

\* Statuses have a rank.
LEMMA RankType == \A x \in BlockerStatuses : Rank(x) \in 0..2
BY DEF BlockerStatuses, Rank

\* An old row stays one.
LEMMA BehindStays ==
  ASSUME TypeOK, TypeOK', Onwards, NEW b \in BlockerIds, NEW row \in BlockerRow,
         Behind(row, b)
  PROVE  Behind(row, b)'
<1>1. blockers[b] # None /\ Moved(b)
  BY DEF Behind, Onwards
<1>2. blockers[b] \in BlockerRow /\ blockers'[b] \in BlockerRow /\ blockers'[b] # None
  BY <1>1 DEF TypeOK, Moved, Forward
<1>3. /\ Rank(row.status) \in 0..2 /\ Rank(blockers[b].status) \in 0..2
      /\ Rank(blockers'[b].status) \in 0..2
  BY <1>2, RankType DEF BlockerRow
<1>4. Rank(row.status) <= Rank(blockers'[b].status)
  BY <1>1, <1>3 DEF Behind, Moved, Forward
<1>5. ASSUME row.task # blockers'[b].task
      PROVE  Gone(row.task)'
  <2>1. CASE row.task = blockers[b].task
    BY <1>1, <1>5, <2>1 DEF Moved
  <2>2. CASE row.task # blockers[b].task
    BY <2>2 DEF Behind, Onwards
  <2>3. QED
    BY <2>1, <2>2
<1>6. QED
  BY <1>2, <1>4, <1>5 DEF Behind

\* A blocker that dropped out of the list never comes back to it: those that
\* were resolved after it stay resolved, and after it.
LEMMA UnlistedStays ==
  ASSUME TypeOK, TypeOK', Onwards, NEW b \in BlockerIds,
         blockers[b] # None, ~Listed(b)
  PROVE  ~Listed(b)'
<1>1. b \in Resolved /\ ~(Cardinality(LaterThan(b)) < ResolvedTail)
  BY DEF Listed
<1>2. ASSUME NEW c \in Resolved
      PROVE  c \in Resolved' /\ blockers'[c].resolvedAt = blockers[c].resolvedAt
  <2>1. /\ c \in BlockerIds /\ blockers[c] # None /\ Forward(c)
        /\ blockers[c].status = "RESOLVED"
    BY <1>2 DEF Resolved, Onwards, Moved
  <2>2. /\ blockers'[c] # None /\ blockers'[c].status \in BlockerStatuses
        /\ Rank("RESOLVED") <= Rank(blockers'[c].status)
        /\ blockers'[c].resolvedAt = blockers[c].resolvedAt
    BY <2>1 DEF Forward, TypeOK, BlockerRow
  <2>3. blockers'[c].status = "RESOLVED"
    BY <2>2, RankOrder
  <2>4. QED
    BY <2>1, <2>2, <2>3 DEF Resolved
<1>3. LaterThan(b) \subseteq LaterThan(b)'
  BY <1>1, <1>2 DEF LaterThan
<1>4. LaterThan(b)' \subseteq BlockerIds /\ IsFiniteSet(BlockerIds)
  BY IdsAssumption DEF LaterThan, Resolved, BlockerIds
<1>5. IsFiniteSet(LaterThan(b)')
  BY <1>4, FS_Subset
<1>6. /\ IsFiniteSet(LaterThan(b))
      /\ Cardinality(LaterThan(b)) <= Cardinality(LaterThan(b)')
  BY <1>3, <1>5, FS_Subset
<1>7. /\ Cardinality(LaterThan(b)) \in Nat /\ Cardinality(LaterThan(b)') \in Nat
  BY <1>5, <1>6, FS_CardinalityType
<1>8. ~(Cardinality(LaterThan(b)') < ResolvedTail)
  BY <1>1, <1>6, <1>7, IdsAssumption
<1>9. QED
  BY <1>1, <1>2, <1>8 DEF Listed

\* Tasks that are gone stay gone: an insert takes the id of its own request.
LEMMA GoneStays ==
  ASSUME TypeOK, Fresh, NEW r \in Reqs, NEW s \in Socks, NEW m \in Messages,
         Dispatch(r, s, m), NEW t, Gone(t)
  PROVE  Gone(t)'
<1>1. r \notin Known /\ Known' = Known \cup {r}
  BY DispatchShape DEF Dispatched
<1>2. t \in TaskIds /\ tasks[t] = None /\ t # r
  BY <1>1 DEF Gone
<1>3. tasks'[t] = None
  <2>1. CASE TaskCreate(r, s, m)
    BY <1>2, <2>1 DEF TaskCreate, WriteTask, TypeOK
  <2>2. CASE TaskUpdate(r, s, m) \/ TaskMove(r, s, m) \/ TaskPriority(r, s, m)
    <3>1. tasks[m.id] # None
      BY <2>2 DEF TaskUpdate, TaskMove, TaskPriority, Accept, Throws
    <3>2. QED
      BY <1>2, <2>2, <3>1 DEF TaskUpdate, TaskMove, TaskPriority, WriteTask, TypeOK
  <2>3. CASE TaskDelete(r, s, m)
    BY <1>2, <2>3 DEF TaskDelete, TypeOK
  <2>4. CASE UNCHANGED tasks
    BY <1>2, <2>4
  <2>5. QED
    BY <2>1, <2>2, <2>3, <2>4
    DEF Dispatch, BlockerCreate, BlockerComment, BlockerRequestResolution,
        BlockerResolve, BlockerEscalate, UpdateCreate, FeedbackCreate
<1>4. QED
  BY <1>1, <1>2, <1>3 DEF Gone

\* A blocker loses its link only to a task that is deleted in the same step.
LEMMA LinkLost ==
  ASSUME TypeOK, Fresh, ReferencesIntact,
         NEW r \in Reqs, NEW s \in Socks, NEW m \in Messages,
         Dispatch(r, s, m), NEW b \in BlockerIds, blockers[b] # None,
         NEW t, t = blockers[b].task, blockers'[b].task # t
  PROVE  Gone(t)'
<1>1. r \notin Known /\ Known' = Known \cup {r}
  BY DispatchShape DEF Dispatched
<1>2. TaskDelete(r, s, m)
  <2>1. ~(\/ BlockerComment(r, s, m) \/ BlockerRequestResolution(r, s, m)
          \/ BlockerResolve(r, s, m) \/ BlockerEscalate(r, s, m))
    BY LinksStay
  <2>2. ~BlockerCreate(r, s, m)
    <3>1. b # r
      BY <1>1 DEF Fresh
    <3>2. QED
      BY <3>1 DEF BlockerCreate, TypeOK
  <2>3. ~UNCHANGED blockers
    OBVIOUS
  <2>4. QED
    BY <2>1, <2>2, <2>3
    DEF Dispatch, TaskCreate, TaskUpdate, TaskMove, TaskPriority, WriteTask,
        UpdateCreate, FeedbackCreate
<1>3. t = m.id
  BY <1>2 DEF TaskDelete, Detached, TypeOK
<1>4. /\ m.id \in TaskIds /\ tasks[m.id] # None /\ tasks'[m.id] = None
  BY <1>2, MessageFields DEF TaskDelete, Accept, Throws, TypeOK
<1>5. t \notin Reqs \ Known
  BY <1>3, <1>4 DEF Fresh
<1>6. QED
  BY <1>1, <1>3, <1>4, <1>5 DEF Gone

\* Rows only get older.
LEMMA DispatchOnwards ==
  ASSUME TypeOK, Fresh, ReferencesIntact,
         NEW r \in Reqs, NEW s \in Socks, NEW m \in Messages, Dispatch(r, s, m)
  PROVE  Onwards
<1>1. \A t : Gone(t) => Gone(t)'
  BY GoneStays
<1>2. ASSUME NEW b \in BlockerIds, blockers[b] # None
      PROVE  Moved(b)
  <2>1. Forward(b)
    BY <1>2, DispatchForward
  <2>2. \A t : t = blockers[b].task /\ blockers'[b].task # t => Gone(t)'
    BY <1>2, LinkLost
  <2>3. QED
    BY <2>1, <2>2 DEF Moved
<1>3. QED
  BY <1>1, <1>2 DEF Onwards

\* The rows of a batch are as the store has them, but for who answered, and new
\* blockers are among them.
Tells(rows) ==
  /\ \A b \in DOMAIN rows :
       /\ b \in BlockerIds /\ rows[b] \in BlockerRow /\ blockers'[b] # None
       /\ rows[b].status = blockers'[b].status /\ rows[b].task = blockers'[b].task
  /\ \A b \in BlockerIds :
       blockers[b] = None /\ blockers'[b] # None => b \in DOMAIN rows
Published(rows) ==
  /\ UNCHANGED pending
  /\ \E batch : Publish(batch) /\ batch.blockers = rows
Held(r, rows) ==
  /\ UNCHANGED replica
  /\ \A b \in BlockerIds : blockers'[b] # None => blockers[b] # None
  /\ \E batch \in WaitingBatch :
       pending' = [pending EXCEPT ![r] = batch] /\ batch.blockers = rows
TellsAll(r) == \E rows : Tells(rows) /\ (Published(rows) \/ Held(r, rows))

\* A mutation of tasks tells of no blocker.
LEMMA TaskTells ==
  ASSUME TypeOK, NEW r \in Reqs, NEW s \in Socks, NEW m \in Messages,
         \/ TaskCreate(r, s, m) \/ TaskUpdate(r, s, m) \/ TaskMove(r, s, m)
         \/ TaskPriority(r, s, m) \/ TaskDelete(r, s, m)
  PROVE  TellsAll(r)
<1>1. \A b \in BlockerIds : blockers[b] = None => blockers'[b] = None
  BY DEF TaskCreate, TaskUpdate, TaskMove, TaskPriority, WriteTask, TaskDelete,
         Detached, TypeOK
<1>2. Tells(NoRows)
  BY <1>1 DEF Tells, NoRows
<1>3. \E t, row, logged :
        Finish(r, [Quiet EXCEPT !.tasks = Only(t, row), !.activity = logged])
  <2>1. CASE TaskDelete(r, s, m)
    BY <2>1 DEF TaskDelete
  <2>2. CASE \E t, row, logged : WriteTask(r, t, row, logged)
    BY <2>2 DEF WriteTask
  <2>3. QED
    BY <2>1, <2>2 DEF TaskCreate, TaskUpdate, TaskMove, TaskPriority
<1>4. PICK t, row, logged :
        Finish(r, [Quiet EXCEPT !.tasks = Only(t, row), !.activity = logged])
  BY <1>3
<1> DEFINE batch == [Quiet EXCEPT !.tasks = Only(t, row), !.activity = logged]
<1>5. batch.blockers = NoRows
  BY DEF Quiet
<1>6. Publish(batch) /\ UNCHANGED pending
  BY <1>4 DEF Finish
<1> HIDE DEF batch
<1>7. QED
  BY <1>2, <1>5, <1>6 DEF TellsAll, Published

\* One row written and published, or held back with a comment.
LEMMA RowTold ==
  ASSUME TypeOK, NEW b \in BlockerIds, NEW row \in BlockerRow,
         NEW written \in BlockerRow, blockers' = [blockers EXCEPT ![b] = written],
         written.status = row.status, written.task = row.task
  PROVE  Tells(Only(b, row))
<1>1. /\ blockers'[b] = written /\ written # None
      /\ \A c \in BlockerIds : c # b => blockers'[c] = blockers[c]
  BY NoneAssumption DEF TypeOK
<1>2. DOMAIN Only(b, row) = {b} /\ Only(b, row)[b] = row
  BY DEF Only
<1>3. QED
  BY <1>1, <1>2 DEF Tells

\* The mutations of a blocker tell of the row they wrote.
LEMMA BlockerTells ==
  ASSUME TypeOK, NEW r \in Reqs, NEW s \in Socks, NEW m \in Messages,
         \/ BlockerCreate(r, s, m) \/ BlockerRequestResolution(r, s, m)
         \/ BlockerResolve(r, s, m) \/ BlockerEscalate(r, s, m)
  PROVE  TellsAll(r)
<1>0. r \in BlockerIds /\ SockUser[s] \in Users
  BY RolesAssumption DEF BlockerIds
<1>1. ASSUME NEW b \in BlockerIds, NEW row,
             \/ Finish(r, CommentBatch(r, b, row))
             \/ Finish(r, [Quiet EXCEPT !.blockers = Only(b, row), !.activity = {r}])
      PROVE  Published(Only(b, row))
  <2> DEFINE batch == [Quiet EXCEPT !.blockers = Only(b, row), !.activity = {r}]
  <2>1. CommentBatch(r, b, row).blockers = Only(b, row) /\ batch.blockers = Only(b, row)
    BY DEF CommentBatch, Quiet
  <2>2. (Publish(CommentBatch(r, b, row)) \/ Publish(batch)) /\ UNCHANGED pending
    BY <1>1 DEF Finish
  <2> HIDE DEF batch
  <2>3. QED
    BY <2>1, <2>2 DEF Published
<1>2. CASE BlockerCreate(r, s, m)
  <2> DEFINE row == NewBlocker(m.task)
  <2>1. row \in BlockerRow
    BY <1>2, MessageFields, NewBlockerRow DEF BlockerCreate, Accept
  <2>2. /\ blockers' = [blockers EXCEPT ![r] = row]
        /\ Finish(r, [Quiet EXCEPT !.blockers = Only(r, row), !.activity = {r}])
    BY <1>2 DEF BlockerCreate
  <2> HIDE DEF row
  <2>3. QED
    BY <1>0, <1>1, <2>1, <2>2, RowTold DEF TellsAll
<1>3. CASE BlockerRequestResolution(r, s, m)
  <2> DEFINE row == [blockers[m.id] EXCEPT !.status = "RESOLUTION_REQUESTED"]
             written == Commented(row, SockUser[s])
  <2>1. m.id \in BlockerIds /\ blockers[m.id] \in BlockerRow
    BY <1>3, MessageFields, RowTypes DEF BlockerRequestResolution, Accept, Throws
  <2>2. row \in BlockerRow
    BY <1>0, <2>1, RowTypes
  <2>3. /\ blockers' = [blockers EXCEPT ![m.id] = written]
        /\ Finish(r, CommentBatch(r, m.id, row))
    BY <1>3 DEF BlockerRequestResolution
  <2> HIDE DEF row
  <2>4. /\ written \in BlockerRow /\ written.status = row.status
        /\ written.task = row.task
    BY <1>0, <2>2, CommentedRow
  <2> HIDE DEF written
  <2>5. QED
    BY <1>1, <2>1, <2>2, <2>3, <2>4, RowTold DEF TellsAll
<1>4. CASE BlockerResolve(r, s, m)
  <2>1. m.id \in BlockerIds
    BY <1>4, ResolveForms
  <2>2. CASE \E row \in BlockerRow : ResolvesTo(r, m, row)
    <3>1. PICK row \in BlockerRow : ResolvesTo(r, m, row)
      BY <2>2
    <3>2. /\ blockers' = [blockers EXCEPT ![m.id] = row]
          /\ Finish(r, [Quiet EXCEPT !.blockers = Only(m.id, row), !.activity = {r}])
      BY <3>1 DEF ResolvesTo
    <3>3. QED
      BY <1>1, <2>1, <3>2, RowTold DEF TellsAll
  <2>3. CASE UNCHANGED blockers /\ Finish(r, Quiet)
    <3>1. Tells(NoRows)
      BY <2>3 DEF Tells, NoRows
    <3>2. Publish(Quiet) /\ UNCHANGED pending /\ Quiet.blockers = NoRows
      BY <2>3 DEF Finish, Quiet
    <3>3. QED
      BY <3>1, <3>2 DEF TellsAll, Published
  <2>4. QED
    BY <1>4, <2>2, <2>3, ResolveForms
<1>5. CASE BlockerEscalate(r, s, m)
  <2> DEFINE row == Commented(blockers[m.id], SockUser[s])
  <2>1. m.id \in BlockerIds /\ blockers[m.id] \in BlockerRow
    BY <1>5, MessageFields, RowTypes DEF BlockerEscalate, Accept, Throws
  <2>2. row \in BlockerRow
    BY <1>0, <2>1, RowTypes
  <2>3. /\ blockers' = [blockers EXCEPT ![m.id] = row]
        /\ Finish(r, CommentBatch(r, m.id, row))
    BY <1>5 DEF BlockerEscalate
  <2> HIDE DEF row
  <2>4. QED
    BY <1>1, <2>1, <2>2, <2>3, RowTold DEF TellsAll
<1>6. QED
  BY <1>2, <1>3, <1>4, <1>5

\* A handler with mentions publishes its rows, or holds them back.
LEMMA MentionsTell ==
  ASSUME TypeOK, NEW r \in Reqs,
         NEW u, NEW source \in MentionSources, NEW id \in BlockerIds,
         NEW named \in SUBSET Users, NEW batch \in WaitingBatch,
         FinishWithMentions(r, u, source, id, named, batch),
         Tells(batch.blockers),
         \A b \in BlockerIds : blockers'[b] # None => blockers[b] # None
  PROVE  TellsAll(r)
<1> DEFINE new == NewMentions(r, u, source, id, named)
<1>1. CASE Finish(r, [batch EXCEPT !.mentions = new])
  <2>1. new \in SUBSET MentionRow
    BY NewMentionsType
  <2> HIDE DEF new
  <2>2. [batch EXCEPT !.mentions = new].blockers = batch.blockers
    BY DEF WaitingBatch
  <2>3. QED
    BY <1>1, <2>2 DEF Finish, TellsAll, Published
<1>2. CASE pending' = [pending EXCEPT ![r] = batch] /\ UNCHANGED replica
  BY <1>2 DEF TellsAll, Held
<1>3. QED
  BY <1>1, <1>2 DEF FinishWithMentions

\* So do the three mutations with mentions.
LEMMA MentioningTells ==
  ASSUME TypeOK, NEW r \in Reqs, NEW s \in Socks, NEW m \in Messages,
         \/ BlockerComment(r, s, m) \/ UpdateCreate(r, s, m)
         \/ FeedbackCreate(r, s, m)
  PROVE  TellsAll(r)
<1>0. /\ r \in BlockerIds /\ SockUser[s] \in Users
      /\ {"BLOCKER_COMMENT", "UPDATE", "TASK_COMMENT"} \subseteq MentionSources
      /\ m.mentions \in SUBSET Users
  BY RolesAssumption, MessageFields
  DEF BlockerIds, MentionSources, BlockerComment, UpdateCreate, FeedbackCreate,
      Accept
<1>1. CASE BlockerComment(r, s, m)
  <2> DEFINE row == Commented(blockers[m.id], SockUser[s])
  <2>1. m.id \in BlockerIds /\ blockers[m.id] \in BlockerRow /\ blockers[m.id] # None
    BY <1>1, MessageFields, RowTypes DEF BlockerComment, Accept, Throws
  <2>2. row \in BlockerRow
    BY <1>0, <2>1, RowTypes
  <2>3. /\ blockers' = [blockers EXCEPT ![m.id] = row]
        /\ FinishWithMentions(r, SockUser[s], "BLOCKER_COMMENT", m.id, m.mentions,
                              CommentBatch(r, m.id, row))
    BY <1>1 DEF BlockerComment
  <2> HIDE DEF row
  <2>4. /\ CommentBatch(r, m.id, row) \in WaitingBatch
        /\ CommentBatch(r, m.id, row).blockers = Only(m.id, row)
    BY <2>1, <2>2, WaitingForms DEF CommentBatch, Quiet
  <2>5. Tells(Only(m.id, row))
    BY <2>1, <2>2, <2>3, RowTold
  <2>6. \A b \in BlockerIds : blockers'[b] # None => blockers[b] # None
    BY <2>1, <2>3 DEF TypeOK
  <2>7. QED
    BY <1>0, <2>1, <2>3, <2>4, <2>5, <2>6, MentionsTell
<1>2. CASE UpdateCreate(r, s, m)
  <2> DEFINE batch == [Quiet EXCEPT !.updates = {r}, !.activity = {r}]
  <2>1. batch \in WaitingBatch /\ batch.blockers = NoRows
    BY WaitingForms DEF Quiet
  <2>2. /\ FinishWithMentions(r, SockUser[s], "UPDATE", r, m.mentions, batch)
        /\ UNCHANGED blockers
    BY <1>2 DEF UpdateCreate
  <2> HIDE DEF batch
  <2>3. Tells(NoRows)
    BY <2>2 DEF Tells, NoRows
  <2>4. QED
    BY <1>0, <2>1, <2>2, <2>3, MentionsTell
<1>3. CASE FeedbackCreate(r, s, m)
  <2> DEFINE batch == [Quiet EXCEPT !.feedback = Only(r, [task |-> m.task]),
                                    !.activity = {r}]
  <2>1. [task |-> m.task] \in FeedbackRow
    BY <1>3, MessageFields DEF FeedbackCreate, Accept, FeedbackRow
  <2>2. batch \in WaitingBatch /\ batch.blockers = NoRows
    BY <2>1, WaitingForms DEF Quiet
  <2>3. /\ FinishWithMentions(r, SockUser[s], "TASK_COMMENT", r, m.mentions, batch)
        /\ UNCHANGED blockers
    BY <1>3 DEF FeedbackCreate
  <2> HIDE DEF batch
  <2>4. Tells(NoRows)
    BY <2>3 DEF Tells, NoRows
  <2>5. QED
    BY <1>0, <2>2, <2>3, <2>4, MentionsTell
<1>4. QED
  BY <1>1, <1>2, <1>3

\* A row that was just told is one that may be old.
LEMMA ToldIsBehind ==
  ASSUME TypeOK', NEW rows, Tells(rows), NEW b \in DOMAIN rows,
         NEW row, row = rows[b]
  PROVE  b \in BlockerIds /\ row \in BlockerRow /\ Behind(row, b)'
<1>1. /\ b \in BlockerIds /\ row \in BlockerRow /\ blockers'[b] # None
      /\ row.status = blockers'[b].status /\ row.task = blockers'[b].task
  BY DEF Tells
<1>2. row.status \in BlockerStatuses
  BY <1>1 DEF BlockerRow
<1>3. QED
  BY <1>1, <1>2, RankOrder DEF Behind

\* What a published batch leaves of the blockers on screen.
LEMMA PublishedBlockers ==
  ASSUME TypeOK, NEW batch, Publish(batch), NEW s \in Socks, conn[s] = "live"
  PROVE  replica'[s].blockers = Overlay(replica[s].blockers, batch.blockers)
<1>1. replica[s] \in ReplicaRow
  BY DEF TypeOK
<1> DEFINE rep == Reduce(replica[s], batch)
<1>2. /\ rep.blockers = Overlay(replica[s].blockers, batch.blockers)
      /\ rep = [f \in {"tasks", "blockers", "comments", "updates", "feedback",
                       "activity", "mentions", "attention", "presence"} |-> rep[f]]
  BY <1>1 DEF Reduce, ReplicaRow
<1>3. replica'[s] = [rep EXCEPT !.attention = AttentionOf(SockUser[s])']
  BY DEF Publish
<1> HIDE DEF rep
<1>4. QED
  BY <1>2, <1>3

\* A row on screen or in a waiting batch is a row of the table.
LEMMA RowsSeen ==
  ASSUME TypeOK
  PROVE  /\ \A s \in Socks, b \in BlockerIds :
              replica[s].blockers[b] \in BlockerRow \cup {None}
         /\ \A r \in Reqs : pending[r] # None =>
              /\ pending[r] \in WaitingBatch
              /\ \A b \in DOMAIN pending[r].blockers :
                   b \in BlockerIds /\ pending[r].blockers[b] \in BlockerRow
<1>1. ASSUME NEW s \in Socks, NEW b \in BlockerIds
      PROVE  replica[s].blockers[b] \in BlockerRow \cup {None}
  BY DEF TypeOK, ReplicaRow
<1>2. ASSUME NEW r \in Reqs, pending[r] # None
      PROVE  pending[r] \in WaitingBatch
  BY <1>2 DEF TypeOK
<1>3. ASSUME NEW r \in Reqs, pending[r] # None, NEW b \in DOMAIN pending[r].blockers
      PROVE  b \in BlockerIds /\ pending[r].blockers[b] \in BlockerRow
  <2>1. PICK rows : rows = pending[r].blockers
    OBVIOUS
  <2>2. rows \in {NoRows} \cup UNION {[{c} -> BlockerRow] : c \in BlockerIds}
    BY <1>2, <1>3, <2>1 DEF WaitingBatch
  <2>3. b \in DOMAIN rows /\ rows # NoRows
    BY <1>3, <2>1 DEF NoRows
  <2>4. PICK c \in BlockerIds : rows \in [{c} -> BlockerRow]
    BY <2>2, <2>3
  <2>5. QED
    BY <2>1, <2>3, <2>4
<1>4. QED
  BY <1>1, <1>2, <1>3

\* After a batch whose rows may be old, so may the rows on screen.
LEMMA ScreensPublished ==
  ASSUME TypeOK, TypeOK', ScreensBehind, Onwards, UNCHANGED conn,
         NEW batch, Publish(batch), NEW rows, batch.blockers = rows,
         \A b \in DOMAIN rows : rows[b] # None /\ \A row : row = rows[b] => Behind(row, b)',
         \A b \in BlockerIds :
           blockers[b] = None /\ blockers'[b] # None => b \in DOMAIN rows
  PROVE  ScreensBehind'
<1> SUFFICES ASSUME NEW s \in Socks, conn'[s] = "live", NEW b \in BlockerIds,
                    NEW seen, seen = replica'[s].blockers[b]
             PROVE  /\ seen = None => ~Listed(b)'
                    /\ seen # None => Behind(seen, b)'
  BY DEF ScreensBehind, Behind, Gone, Known
<1>1. PICK old : old = replica[s].blockers[b]
  OBVIOUS
<1>2. conn[s] = "live" /\ old \in BlockerRow \cup {None}
  BY <1>1, RowsSeen
<1>3. /\ old = None => ~Listed(b)
      /\ old # None => Behind(old, b)
  BY <1>1, <1>2 DEF ScreensBehind
<1>4. seen = IF b \in DOMAIN rows THEN rows[b] ELSE old
  <2>1. replica'[s].blockers = Overlay(replica[s].blockers, rows)
    BY <1>2, PublishedBlockers
  <2>2. DOMAIN replica[s].blockers = BlockerIds
    BY DEF TypeOK, ReplicaRow
  <2>3. QED
    BY <1>1, <2>1, <2>2 DEF Overlay
<1>5. CASE b \in DOMAIN rows
  BY <1>4, <1>5
<1>6. CASE b \notin DOMAIN rows
  <2>1. seen = None => ~Listed(b)'
    <3>1. CASE blockers[b] = None
      BY <1>6, <3>1 DEF Listed
    <3>2. CASE blockers[b] # None
      BY <1>3, <1>4, <1>6, <3>2, UnlistedStays
    <3>3. QED
      BY <3>1, <3>2
  <2>2. seen # None => Behind(seen, b)'
    BY <1>2, <1>3, <1>4, <1>6, BehindStays
  <2>3. QED
    BY <2>1, <2>2
<1>7. QED
  BY <1>5, <1>6

\* A waiting batch gets no worse than old.
LEMMA WaitersStay ==
  ASSUME TypeOK, TypeOK', WaitersBehind, Onwards, NEW r \in Reqs,
         pending[r] # None, pending'[r] = pending[r],
         NEW b \in DOMAIN pending[r].blockers, NEW row, row = pending[r].blockers[b]
  PROVE  Behind(row, b)'
<1>1. b \in BlockerIds /\ row \in BlockerRow
  BY RowsSeen
<1>2. Behind(row, b)
  BY DEF WaitersBehind
<1>3. QED
  BY <1>1, <1>2, BehindStays

\* A dispatch publishes what it wrote, or keeps it for later.
LEMMA BehindDispatch ==
  ASSUME IInv, BInv, TypeOK', NEW r \in Reqs, NEW s \in Socks, NEW m \in Messages,
         Dispatch(r, s, m)
  PROVE  BInv'
<1>0. TypeOK /\ Fresh /\ ReferencesIntact /\ ScreensBehind /\ WaitersBehind
  BY DEF IInv, RequestsOK, BInv
<1>1. Onwards
  BY <1>0, DispatchOnwards
<1>2. TellsAll(r)
  BY <1>0, TaskTells, BlockerTells, MentioningTells DEF Dispatch
<1>3. PICK rows : Tells(rows) /\ (Published(rows) \/ Held(r, rows))
  BY <1>2 DEF TellsAll
<1>4. UNCHANGED conn
  BY <1>0, DispatchShape DEF Dispatched
<1>5. \A b \in DOMAIN rows :
        rows[b] # None /\ \A row : row = rows[b] => Behind(row, b)'
  BY <1>3, ToldIsBehind, NoneAssumption
<1>6. CASE Published(rows)
  <2>1. PICK batch : Publish(batch) /\ batch.blockers = rows
    BY <1>6 DEF Published
  <2>2. ScreensBehind'
    BY <1>0, <1>1, <1>3, <1>4, <1>5, <2>1, ScreensPublished DEF Tells
  <2>3. WaitersBehind'
    <3>1. UNCHANGED pending
      BY <1>6 DEF Published
    <3>2. SUFFICES ASSUME NEW q \in Reqs, pending[q] # None,
                          NEW b \in DOMAIN pending[q].blockers,
                          NEW row, row = pending[q].blockers[b]
                   PROVE  Behind(row, b)'
      BY <3>1 DEF WaitersBehind, Behind, Gone, Known
    <3>3. QED
      BY <1>0, <1>1, <3>1, <3>2, WaitersStay
  <2>4. QED
    BY <2>2, <2>3 DEF BInv
<1>7. CASE Held(r, rows)
  <2>1. PICK batch \in WaitingBatch :
          pending' = [pending EXCEPT ![r] = batch] /\ batch.blockers = rows
    BY <1>7 DEF Held
  <2>2. ScreensBehind'
    <3>1. SUFFICES ASSUME NEW x \in Socks, conn'[x] = "live", NEW b \in BlockerIds,
                          NEW seen, seen = replica'[x].blockers[b]
                   PROVE  /\ seen = None => ~Listed(b)'
                          /\ seen # None => Behind(seen, b)'
      BY DEF ScreensBehind, Behind, Gone, Known
    <3>2. /\ seen = replica[x].blockers[b] /\ conn[x] = "live"
          /\ blockers'[b] # None => blockers[b] # None
          /\ seen \in BlockerRow \cup {None}
      BY <1>0, <1>4, <1>7, <3>1, RowsSeen DEF Held
    <3>3. /\ seen = None => ~Listed(b)
          /\ seen # None => Behind(seen, b)
      BY <1>0, <3>2 DEF ScreensBehind
    <3>4. blockers[b] = None => ~Listed(b)'
      BY <3>2 DEF Listed
    <3>5. QED
      BY <1>0, <1>1, <3>2, <3>3, <3>4, BehindStays, UnlistedStays
  <2>3. WaitersBehind'
    <3>1. SUFFICES ASSUME NEW q \in Reqs, pending'[q] # None,
                          NEW b \in DOMAIN pending'[q].blockers,
                          NEW row, row = pending'[q].blockers[b]
                   PROVE  Behind(row, b)'
      BY DEF WaitersBehind, Behind, Gone, Known
    <3>2. CASE q = r
      <4>1. pending'[q] = batch
        BY <1>0, <2>1, <3>2 DEF TypeOK
      <4>2. QED
        BY <1>5, <2>1, <3>1, <4>1
    <3>3. CASE q # r
      <4>1. pending'[q] = pending[q]
        BY <1>0, <2>1, <3>3 DEF TypeOK
      <4>2. QED
        BY <1>0, <1>1, <3>1, <4>1, WaitersStay
    <3>4. QED
      BY <3>2, <3>3
  <2>4. QED
    BY <2>2, <2>3 DEF BInv
<1>8. QED
  BY <1>3, <1>6, <1>7

\* A step that writes neither tasks nor blockers makes no row older.
LEMMA SteadyOnwards ==
  ASSUME TypeOK, UNCHANGED <<tasks, blockers>>, Known' = Known
  PROVE  Onwards
<1>1. \A b \in BlockerIds : blockers[b] # None => Forward(b)
  BY StaysForward
<1>2. QED
  BY <1>1 DEF Onwards, Moved, Gone

\* The batch that waited goes out, old as it is.
LEMMA BehindResume ==
  ASSUME IInv, BInv, TypeOK', NEW r \in Reqs, NEW ok \in BOOLEAN, Resume(r, ok)
  PROVE  BInv'
<1>0. TypeOK /\ RequestsOK /\ ScreensBehind /\ WaitersBehind
  BY DEF IInv, BInv
<1>1. /\ UNCHANGED <<tasks, blockers, claims, expired, conn>>
      /\ pending' = [pending EXCEPT ![r] = None] /\ pending[r] # None
  BY DEF Resume, WaitsForD1
<1>2. Onwards
  BY <1>0, <1>1, SteadyOnwards DEF Known
<1> DEFINE new == ResumedMentions(r, ok)
<1>3. new \in SUBSET MentionRow /\ pending[r] \in WaitingBatch
  BY <1>0, <1>1, ResumedType
<1>4. Publish([pending[r] EXCEPT !.mentions = new])
  BY DEF Resume, ResumedMentions
<1> HIDE DEF new
<1>5. PICK rows : rows = pending[r].blockers
  OBVIOUS
<1>6. [pending[r] EXCEPT !.mentions = new].blockers = rows
  BY <1>3, <1>5 DEF WaitingBatch
<1>7. \A b \in DOMAIN rows :
        rows[b] # None /\ \A row : row = rows[b] => Behind(row, b)'
  <2>1. SUFFICES ASSUME NEW b \in DOMAIN rows
                 PROVE  rows[b] # None /\ \A row : row = rows[b] => Behind(row, b)'
    OBVIOUS
  <2>2. b \in BlockerIds /\ rows[b] \in BlockerRow /\ rows[b] # None
    BY <1>0, <1>1, <1>5, RowsSeen, NoneAssumption
  <2>3. Behind(rows[b], b)
    BY <1>0, <1>1, <1>5 DEF WaitersBehind
  <2>4. QED
    BY <1>0, <1>2, <2>2, <2>3, BehindStays
<1>8. ScreensBehind'
  BY <1>0, <1>1, <1>2, <1>4, <1>6, <1>7, ScreensPublished
<1>9. WaitersBehind'
  <2>1. SUFFICES ASSUME NEW q \in Reqs, pending'[q] # None,
                        NEW b \in DOMAIN pending'[q].blockers,
                        NEW row, row = pending'[q].blockers[b]
                 PROVE  Behind(row, b)'
    BY DEF WaitersBehind, Behind, Gone, Known
  <2>2. pending'[q] = pending[q]
    BY <1>0, <1>1, <2>1 DEF TypeOK
  <2>3. QED
    BY <1>0, <1>2, <2>1, <2>2, WaitersStay
<1>10. QED
  BY <1>8, <1>9 DEF BInv

\* A step that writes nothing and shows a tab nothing new of the blockers but,
\* at most, what listBlockers returns.
LEMMA BehindSteady ==
  ASSUME TypeOK, BInv, UNCHANGED <<tasks, blockers>>, Known' = Known,
         \A r \in Reqs : pending'[r] # None => pending'[r] = pending[r],
         \A s \in Socks : conn'[s] = "live" =>
           \/ conn[s] = "live" /\ replica'[s].blockers = replica[s].blockers
           \/ replica'[s].blockers = ListBlockers
  PROVE  BInv'
<1>1. /\ \A row, b : Behind(row, b) => Behind(row, b)'
      /\ \A b : Listed(b)' = Listed(b)
  BY DEF Behind, Gone, Listed, LaterThan, Resolved
<1>2. ScreensBehind'
  <2>1. SUFFICES ASSUME NEW s \in Socks, conn'[s] = "live", NEW b \in BlockerIds,
                        NEW seen, seen = replica'[s].blockers[b]
                 PROVE  /\ seen = None => ~Listed(b)'
                        /\ seen # None => Behind(seen, b)'
    BY DEF ScreensBehind, Behind, Gone, Known
  <2>2. CASE conn[s] = "live" /\ replica'[s].blockers = replica[s].blockers
    <3>1. /\ seen = None => ~Listed(b)
          /\ seen # None => Behind(seen, b)
      BY <2>1, <2>2 DEF BInv, ScreensBehind
    <3>2. QED
      BY <1>1, <3>1
  <2>3. CASE replica'[s].blockers = ListBlockers
    <3>1. /\ seen = None => ~Listed(b)
          /\ seen # None => seen = blockers[b]
      BY <2>1, <2>3 DEF ListBlockers, Listed
    <3>2. seen # None => seen.status \in BlockerStatuses
      BY <3>1, RowTypes DEF BlockerRow
    <3>3. seen # None => Behind(seen, b)
      BY <3>1, <3>2, RankOrder DEF Behind
    <3>4. QED
      BY <1>1, <3>1, <3>3
  <2>4. QED
    BY <2>1, <2>2, <2>3
<1>3. WaitersBehind'
  <2>1. SUFFICES ASSUME NEW r \in Reqs, pending'[r] # None,
                        NEW b \in DOMAIN pending'[r].blockers,
                        NEW row, row = pending'[r].blockers[b]
                 PROVE  Behind(row, b)'
    BY DEF WaitersBehind, Behind, Gone, Known
  <2>2. pending'[r] = pending[r]
    BY <2>1
  <2>3. Behind(row, b)
    BY <2>1, <2>2 DEF BInv, WaitersBehind
  <2>4. QED
    BY <1>1, <2>3
<1>4. QED
  BY <1>2, <1>3 DEF BInv

\* Refused frames tell nobody anything.
LEMMA BehindRefused ==
  ASSUME TypeOK, BInv, NEW r \in Reqs, NEW s \in Socks, NEW m \in Messages,
         Forbidden(r, s, m) \/ Duplicate(r, s, m) \/ Refuse(r, s, m)
  PROVE  BInv'
<1>1. UNCHANGED <<tasks, blockers, pending, conn, replica>>
  BY DEF Forbidden, Duplicate, Refuse, Untouched
<1>2. Known' = Known
  BY DEF Forbidden, Duplicate, Refuse, Untouched, Arrives, Unexpired, Released,
         Claimed, Known
<1>3. QED
  BY <1>1, <1>2, BehindSteady

\* A snapshot has the listed blockers as they are; presence leaves them alone.
LEMMA BlockersWelcome ==
  ASSUME TypeOK, NEW s \in Socks, NEW P
  PROVE  /\ [Snapshot(SockUser[s]) EXCEPT !.presence = P].blockers = ListBlockers
         /\ PresenceTold(s).blockers = replica[s].blockers
<1>1. replica[s] \in ReplicaRow
  BY DEF TypeOK
<1>2. PresenceTold(s).blockers = replica[s].blockers
  BY <1>1 DEF PresenceTold, ReplicaRow
<1>3. [Snapshot(SockUser[s]) EXCEPT !.presence = P].blockers = ListBlockers
  BY DEF Snapshot
<1>4. QED
  BY <1>2, <1>3

\* Connections, time and resets keep what tabs and handlers have.
LEMMA BehindConnections ==
  ASSUME TypeOK, BInv,
         \/ \E s \in Socks : Upgrade(s) \/ Disconnect(s)
         \/ \E s \in Socks, ok \in BOOLEAN : SnapshotReady(s, ok)
         \/ RosterExpires \/ ClaimsExpire \/ Restart
  PROVE  BInv'
<1>1. UNCHANGED <<tasks, blockers>> /\ Known' = Known
  BY DEF Upgrade, Disconnect, SnapshotReady, RosterExpires, ClaimsExpire, Restart,
         store, Known
<1>2. \A r \in Reqs : pending'[r] # None => pending'[r] = pending[r]
  BY DEF Upgrade, Disconnect, SnapshotReady, RosterExpires, ClaimsExpire, Restart
<1>3. ASSUME NEW s \in Socks, Welcome(s), NEW x \in Socks, conn'[x] = "live"
      PROVE  \/ conn[x] = "live" /\ replica'[x].blockers = replica[x].blockers
             \/ replica'[x].blockers = ListBlockers
  <2>1. CASE x = s
    BY <1>3, <2>1, BlockersWelcome DEF Welcome
  <2>2. CASE x # s
    BY <1>3, <2>2, BlockersWelcome DEF Welcome, TypeOK
  <2>3. QED
    BY <2>1, <2>2
<1>4. ASSUME NEW x \in Socks, conn'[x] = "live"
      PROVE  \/ conn[x] = "live" /\ replica'[x].blockers = replica[x].blockers
             \/ replica'[x].blockers = ListBlockers
  <2>1. CASE \E s \in Socks : Welcome(s)
    BY <1>3, <1>4, <2>1
  <2>2. CASE \E s \in Socks : Disconnect(s)
    BY <1>4, <2>2, BlockersWelcome DEF Disconnect, TypeOK
  <2>3. CASE UNCHANGED replica /\ (conn'[x] = "live" => conn[x] = "live")
    BY <1>4, <2>3
  <2>4. QED
    BY <1>4, <2>1, <2>2, <2>3
    DEF Upgrade, SnapshotReady, RosterExpires, ClaimsExpire, Restart, TypeOK
<1>5. QED
  BY <1>1, <1>2, <1>4, BehindSteady

\* Nobody shows or holds anything at the start.
LEMMA BehindInit == Init => BInv
BY NoneAssumption DEF Init, BInv, ScreensBehind, WaitersBehind

\* The invariant with it: screens and waiting batches may be old, never ahead.
THEOREM ScreensInvariance == Spec => []BInv
<1>1. ASSUME IInv, IInv', BInv, [Next]_vars
      PROVE  BInv'
  <2>0. TypeOK /\ TypeOK'
    BY <1>1 DEF IInv
  <2>1. ASSUME NEW r \in Reqs, NEW s \in Socks, NEW m \in Messages, Receive(r, s, m)
        PROVE  BInv'
    BY <1>1, <2>0, <2>1, BehindRefused, BehindDispatch DEF Receive
  <2>2. ASSUME NEW r \in Reqs, NEW ok \in BOOLEAN, Resume(r, ok)
        PROVE  BInv'
    BY <1>1, <2>0, <2>2, BehindResume
  <2>3. CASE UNCHANGED vars
    BY <1>1, <2>0, <2>3, BehindSteady DEF vars, store, Known
  <2>4. QED
    BY <1>1, <2>0, <2>1, <2>2, <2>3, BehindConnections DEF Next
<1>2. QED
  BY <1>1, BehindInit, Invariance, PTL DEF Spec

\* Every live tab knows the blockers that listBlockers hands out now, whenever
\* it joined, shows none further along than the store has it, and another link
\* only to a task that was deleted, although batches that waited for D1 put old
\* rows on screens.
THEOREM TabsKnowBlockers == Spec => []BlockersKnown
<1>1. ASSUME BInv
      PROVE  BlockersKnown
  <2>1. SUFFICES ASSUME NEW s \in Socks, conn[s] = "live", NEW b \in BlockerIds
                 PROVE  LET seen == replica[s].blockers[b] IN
                        /\ Listed(b) => seen # None
                        /\ seen # None =>
                             /\ blockers[b] # None
                             /\ Rank(seen.status) <= Rank(blockers[b].status)
                             /\ seen.task # blockers[b].task => tasks[seen.task] = None
    BY DEF BlockersKnown
  <2>2. QED
    BY <1>1, <2>1 DEF BInv, ScreensBehind, Behind, Gone
<1>2. QED
  BY <1>1, ScreensInvariance, PTL

-----------------------------------------------------------------------------
(* Mentions.                                                               *)

\* What a known request wrote before its mentions is there, and stays.
Sourced == \A r \in Known :
  /\ sent[r].msg.type = "blocker.comment" => blockers[sent[r].msg.id] # None
  /\ sent[r].msg.type = "update.create" => r \in updates
  /\ sent[r].msg.type = "feedback.create" => feedback[r] # None

\* A mention is about what its request wrote, to somebody it named; there are no
\* two for one source; and everybody named has one, once the handler is through.
From(n, r) == n.source = SourceOf(r)[1] /\ n.id = SourceOf(r)[2]
Owed == \A n \in mentions : n.req \in Known /\ n.user \in Named(n.req) /\ From(n, n.req)
Single == \A n, k \in mentions :
  n.user = k.user /\ n.source = k.source /\ n.id = k.id => n = k
Paid == \A r \in Known : pending[r] = None /\ r \notin interrupted =>
  \A u \in Named(r) : \E n \in mentions : n.user = u /\ From(n, r)

\* The third invariant: a request's mentions are those it owes.
NInv == Sourced /\ Owed /\ Single /\ Paid

\* Whom a request named, and where, is fixed when it is sent.
LEMMA NamedKept ==
  ASSUME NEW q, sent'[q] = sent[q]
  PROVE  Named(q)' = Named(q) /\ SourceOf(q)' = SourceOf(q)
BY DEF Named, SourceOf

\* applyMentions for a known request: everybody named has a mention afterwards,
\* old or new, and nobody two.
LEMMA MentionsMade ==
  ASSUME Owed, Single, Known \subseteq Known',
         \A q \in Known : sent'[q] = sent[q],
         NEW r \in Known', NEW u, u = SockUser[sent'[r].sock],
         NEW named, named = sent'[r].msg.mentions, sent'[r].msg.type \in Mentioning,
         NEW source, NEW id, \A n : From(n, r)' <=> n.source = source /\ n.id = id,
         mentions' = mentions \cup NewMentions(r, u, source, id, named)
  PROVE  /\ Owed' /\ Single'
         /\ \A v \in Named(r)' : \E n \in mentions' : n.user = v /\ From(n, r)'
<1> DEFINE row(v) == [user |-> v, source |-> source, id |-> id, req |-> r]
           there(v) == \E n \in mentions : n.user = v /\ n.source = source /\ n.id = id
<1>1. \A v : v \in Named(r)' <=> v \in named \ {u} /\ RoleOf[v] \in Roles
  BY DEF Named, Mentioning
<1>2. \A n : n \in mentions' <=>
        n \in mentions \/ \E v \in Named(r)' : ~there(v) /\ n = row(v)
  BY <1>1 DEF NewMentions
<1>3. \A v : /\ row(v).user = v /\ row(v).source = source /\ row(v).id = id
             /\ row(v).req = r
  OBVIOUS
<1>4. Owed'
  <2>1. SUFFICES ASSUME NEW n \in mentions'
                 PROVE  /\ n.req \in Known'
                        /\ \A q : q = n.req => n.user \in Named(q)' /\ From(n, q)'
    BY DEF Owed, Named, From, SourceOf
  <2>2. CASE n \in mentions
    <3>1. PICK q : q = n.req
      OBVIOUS
    <3>2. q \in Known /\ n.user \in Named(q) /\ From(n, q)
      BY <2>2, <3>1 DEF Owed
    <3>3. Named(q)' = Named(q) /\ SourceOf(q)' = SourceOf(q)
      BY <3>2, NamedKept
    <3>4. QED
      BY <3>1, <3>2, <3>3 DEF From
  <2>3. CASE \E v \in Named(r)' : ~there(v) /\ n = row(v)
    <3> HIDE DEF row, there
    <3>1. QED
      BY <1>3, <2>3
  <2>4. QED
    BY <1>2, <2>1, <2>2, <2>3
<1>5. Single'
  <2>1. SUFFICES ASSUME NEW n \in mentions', NEW k \in mentions',
                        n.user = k.user, n.source = k.source, n.id = k.id
                 PROVE  n = k
    BY DEF Single
  <2>2. CASE n \in mentions /\ k \in mentions
    BY <2>1, <2>2 DEF Single
  <2>3. ASSUME NEW x \in mentions, NEW v, ~there(v)
        PROVE  ~(x.user = v /\ x.source = source /\ x.id = id)
    BY <2>3
  <2> HIDE DEF row, there
  <2>4. QED
    BY <1>2, <1>3, <2>1, <2>2, <2>3
<1>6. ASSUME NEW v \in Named(r)'
      PROVE  \E n \in mentions' : n.user = v /\ From(n, r)'
  <2>1. CASE there(v)
    BY <1>2, <2>1
  <2>2. CASE ~there(v)
    <3> HIDE DEF row, there
    <3>1. row(v) \in mentions'
      BY <1>2, <1>6, <2>2
    <3>2. QED
      BY <1>3, <3>1
  <2>3. QED
    BY <2>1, <2>2
<1>7. QED
  BY <1>4, <1>5, <1>6

\* A dispatch removes no source of a mention, and its own is there.
LEMMA SourcesGrow ==
  ASSUME TypeOK, TypeOK', Fresh, NEW r \in Reqs, NEW s \in Socks, NEW m \in Messages,
         Dispatch(r, s, m)
  PROVE  /\ \A b \in BlockerIds : blockers[b] # None => blockers'[b] # None
         /\ updates \subseteq updates'
         /\ \A f \in Reqs : feedback[f] # None => feedback'[f] # None
         /\ m.type = "blocker.comment" => m.id \in BlockerIds /\ blockers'[m.id] # None
         /\ m.type = "update.create" => r \in updates'
         /\ m.type = "feedback.create" => feedback'[r] # None
<1>1. \A b \in BlockerIds : blockers[b] # None => blockers'[b] # None
  BY DispatchForward DEF Forward
<1>2. updates \subseteq updates'
  BY DEF Dispatch, TaskCreate, TaskUpdate, TaskMove, TaskPriority, WriteTask, TaskDelete,
         BlockerCreate, BlockerComment, BlockerRequestResolution, BlockerResolve,
         BlockerEscalate, UpdateCreate, FeedbackCreate
<1>3. ASSUME FeedbackCreate(r, s, m)
      PROVE  feedback'[r] # None /\ \A f \in Reqs : f # r => feedback'[f] = feedback[f]
  <2>1. [task |-> m.task] \in FeedbackRow
    BY <1>3, MessageFields DEF FeedbackCreate, Accept, FeedbackRow
  <2>2. feedback' = [feedback EXCEPT ![r] = [task |-> m.task]]
    BY <1>3 DEF FeedbackCreate
  <2>3. QED
    BY <2>1, <2>2, NoneAssumption DEF TypeOK
<1>4. ASSUME TaskDelete(r, s, m), NEW f \in Reqs, feedback[f] # None
      PROVE  feedback'[f] # None
  <2>1. feedback[f] \in FeedbackRow
    BY <1>4 DEF TypeOK
  <2>2. [feedback[f] EXCEPT !.task = None] \in FeedbackRow
    BY <2>1 DEF FeedbackRow
  <2>3. feedback'[f] \in {feedback[f], [feedback[f] EXCEPT !.task = None]}
    BY <1>4 DEF TaskDelete, Detached, TypeOK
  <2>4. QED
    BY <1>4, <2>2, <2>3, NoneAssumption
<1>5. ASSUME ~FeedbackCreate(r, s, m), ~TaskDelete(r, s, m)
      PROVE  UNCHANGED feedback
  BY <1>5 DEF Dispatch, TaskCreate, TaskUpdate, TaskMove, TaskPriority, WriteTask,
         BlockerCreate, BlockerComment, BlockerRequestResolution, BlockerResolve,
         BlockerEscalate, UpdateCreate
<1>6. m.type = "feedback.create" => feedback'[r] # None
  BY <1>3 DEF Dispatch, TaskCreate, TaskUpdate, TaskMove, TaskPriority, TaskDelete,
         BlockerCreate, BlockerComment, BlockerRequestResolution, BlockerResolve,
         BlockerEscalate, UpdateCreate, Accept
<1>7. \A f \in Reqs : feedback[f] # None => feedback'[f] # None
  BY <1>3, <1>4, <1>5
<1>8. m.type = "update.create" => r \in updates'
  BY DEF Dispatch, TaskCreate, TaskUpdate, TaskMove, TaskPriority, TaskDelete,
         BlockerCreate, BlockerComment, BlockerRequestResolution, BlockerResolve,
         BlockerEscalate, UpdateCreate, FeedbackCreate, Accept
<1>9. ASSUME m.type = "blocker.comment"
      PROVE  m.id \in BlockerIds /\ blockers'[m.id] # None
  <2>1. m.id \in BlockerIds /\ blockers[m.id] # None
    BY <1>9, MessageFields
    DEF Dispatch, TaskCreate, TaskUpdate, TaskMove, TaskPriority, TaskDelete,
        BlockerCreate, BlockerComment, BlockerRequestResolution, BlockerResolve,
        BlockerEscalate, UpdateCreate, FeedbackCreate, Accept, Throws
  <2>2. QED
    BY <1>1, <2>1
<1>10. QED
  BY <1>1, <1>2, <1>6, <1>7, <1>8, <1>9

\* What a dispatch does about mentions: makes them, leaves them for later, or
\* has none to make.
MakesMentions(r, s, m) ==
  /\ m.type \in Mentioning
  /\ \E source, id :
       /\ \A n : From(n, r)' <=> n.source = source /\ n.id = id
       /\ mentions' = mentions \cup NewMentions(r, SockUser[s], source, id, m.mentions)
Mentioned(r, s, m) ==
  \/ MakesMentions(r, s, m)
  \/ UNCHANGED mentions /\ (m.type \in Mentioning => pending'[r] # None)

\* Each of the twelve does one of these.
LEMMA DispatchMentions ==
  ASSUME TypeOK, TypeOK', NEW r \in Reqs, NEW s \in Socks, NEW m \in Messages,
         Dispatch(r, s, m)
  PROVE  Mentioned(r, s, m) /\ UNCHANGED interrupted
<1>1. sent'[r].msg = m
  BY DispatchShape DEF Dispatched, TypeOK
<1>2. ASSUME NEW u, NEW source, NEW id, NEW named, NEW batch \in WaitingBatch,
             FinishWithMentions(r, u, source, id, named, batch)
      PROVE  /\ UNCHANGED interrupted
             /\ \/ mentions' = mentions \cup NewMentions(r, u, source, id, named)
                \/ UNCHANGED mentions /\ pending'[r] # None
  <2>1. pending' = [pending EXCEPT ![r] = batch] => pending'[r] # None
    BY <1>2, NoneAssumption DEF TypeOK
  <2>2. QED
    BY <1>2, <2>1 DEF FinishWithMentions, Finish
<1>3. CASE BlockerComment(r, s, m)
  <2>1. /\ m.id \in BlockerIds /\ blockers[m.id] \in BlockerRow /\ SockUser[s] \in Users
        /\ m.type = "blocker.comment"
    BY <1>3, MessageFields, RowTypes, RolesAssumption DEF BlockerComment, Accept, Throws
  <2> DEFINE row == Commented(blockers[m.id], SockUser[s])
  <2>2. CommentBatch(r, m.id, row) \in WaitingBatch
    BY <2>1, RowTypes, WaitingForms
  <2>3. FinishWithMentions(r, SockUser[s], "BLOCKER_COMMENT", m.id, m.mentions,
                           CommentBatch(r, m.id, row))
    BY <1>3 DEF BlockerComment
  <2> HIDE DEF row
  <2>4. \A n : From(n, r)' <=> n.source = "BLOCKER_COMMENT" /\ n.id = m.id
    BY <1>1, <2>1 DEF From, SourceOf
  <2>5. QED
    BY <1>2, <2>1, <2>2, <2>3, <2>4 DEF Mentioned, MakesMentions, Mentioning
<1>4. CASE UpdateCreate(r, s, m)
  <2>1. m.type = "update.create"
    BY <1>4 DEF UpdateCreate, Accept
  <2> DEFINE batch == [Quiet EXCEPT !.updates = {r}, !.activity = {r}]
  <2>2. batch \in WaitingBatch
    BY WaitingForms
  <2>3. FinishWithMentions(r, SockUser[s], "UPDATE", r, m.mentions, batch)
    BY <1>4 DEF UpdateCreate
  <2> HIDE DEF batch
  <2>4. \A n : From(n, r)' <=> n.source = "UPDATE" /\ n.id = r
    BY <1>1, <2>1 DEF From, SourceOf
  <2>5. QED
    BY <1>2, <2>1, <2>2, <2>3, <2>4 DEF Mentioned, MakesMentions, Mentioning
<1>5. CASE FeedbackCreate(r, s, m)
  <2>1. m.type = "feedback.create"
    BY <1>5 DEF FeedbackCreate, Accept
  <2> DEFINE batch == [Quiet EXCEPT !.feedback = Only(r, [task |-> m.task]),
                                    !.activity = {r}]
  <2>2. [task |-> m.task] \in FeedbackRow
    BY <2>1, MessageFields DEF FeedbackRow
  <2>3. batch \in WaitingBatch
    BY <2>2, WaitingForms
  <2>4. FinishWithMentions(r, SockUser[s], "TASK_COMMENT", r, m.mentions, batch)
    BY <1>5 DEF FeedbackCreate
  <2> HIDE DEF batch
  <2>5. \A n : From(n, r)' <=> n.source = "TASK_COMMENT" /\ n.id = r
    BY <1>1, <2>1 DEF From, SourceOf
  <2>6. QED
    BY <1>2, <2>1, <2>3, <2>4, <2>5 DEF Mentioned, MakesMentions, Mentioning
<1>6. CASE \/ TaskCreate(r, s, m) \/ TaskUpdate(r, s, m) \/ TaskMove(r, s, m)
           \/ TaskPriority(r, s, m) \/ TaskDelete(r, s, m) \/ BlockerCreate(r, s, m)
           \/ BlockerRequestResolution(r, s, m) \/ BlockerResolve(r, s, m)
           \/ BlockerEscalate(r, s, m)
  <2>1. UNCHANGED mentions /\ m.type \notin Mentioning
    BY <1>6 DEF TaskCreate, TaskUpdate, TaskMove, TaskPriority, WriteTask, TaskDelete,
           BlockerCreate, BlockerRequestResolution, BlockerResolve, BlockerEscalate,
           Accept, Mentioning
  <2>2. UNCHANGED interrupted
    BY <1>6 DEF TaskCreate, TaskUpdate, TaskMove, TaskPriority, WriteTask, TaskDelete,
           BlockerCreate, BlockerRequestResolution, BlockerResolve, BlockerEscalate,
           Finish
  <2>3. QED
    BY <2>1, <2>2 DEF Mentioned
<1>7. QED
  BY <1>3, <1>4, <1>5, <1>6 DEF Dispatch

\* Mentions that were justified stay so when nothing is added.
LEMMA OwedKept ==
  ASSUME Owed, Single, Known \subseteq Known', \A q \in Known : sent'[q] = sent[q],
         UNCHANGED mentions
  PROVE  Owed' /\ Single'
<1>1. ASSUME NEW n \in mentions
      PROVE  n.req \in Known' /\ \A q : q = n.req => n.user \in Named(q)' /\ From(n, q)'
  <2>1. PICK q : q = n.req
    OBVIOUS
  <2>2. q \in Known /\ n.user \in Named(q) /\ From(n, q)
    BY <2>1 DEF Owed
  <2>3. Named(q)' = Named(q) /\ SourceOf(q)' = SourceOf(q)
    BY <2>2, NamedKept
  <2>4. QED
    BY <2>1, <2>2, <2>3 DEF From
<1>2. Owed'
  BY <1>1 DEF Owed, Named, From, SourceOf
<1>3. QED
  BY <1>2 DEF Single

\* Whoever has a mention keeps it.
LEMMA PaidStays ==
  ASSUME NEW q, sent'[q] = sent[q], mentions \subseteq mentions',
         \A u \in Named(q) : \E n \in mentions : n.user = u /\ From(n, q)
  PROVE  \A u \in Named(q)' : \E n \in mentions' : n.user = u /\ From(n, q)'
<1>1. Named(q)' = Named(q) /\ SourceOf(q)' = SourceOf(q)
  BY NamedKept
<1>2. QED
  BY <1>1 DEF From

\* A dispatch keeps the books of mentions.
LEMMA MentionsDispatch ==
  ASSUME IInv, NInv, TypeOK', NEW r \in Reqs, NEW s \in Socks, NEW m \in Messages,
         Dispatch(r, s, m)
  PROVE  NInv'
<1>0. TypeOK /\ RequestsOK /\ Fresh /\ Sourced /\ Owed /\ Single /\ Paid
  BY DEF IInv, RequestsOK, NInv
<1>1. Dispatched(r, s, m)
  BY <1>0, DispatchShape
<1>2. /\ r \notin Known /\ Known' = Known \cup {r}
      /\ \A q \in Known : q \in Reqs /\ sent'[q] = sent[q] /\ pending'[q] = pending[q]
      /\ sent'[r] = [sock |-> s, msg |-> m]
  BY <1>0, <1>1 DEF Dispatched, TypeOK, Known
<1>3. Mentioned(r, s, m) /\ UNCHANGED interrupted
  BY <1>0, DispatchMentions
<1>4. Sourced'
  <2>1. SUFFICES ASSUME NEW q \in Known', NEW x, x = sent'[q].msg
                 PROVE  /\ x.type = "blocker.comment" => blockers'[x.id] # None
                        /\ x.type = "update.create" => q \in updates'
                        /\ x.type = "feedback.create" => feedback'[q] # None
    BY DEF Sourced
  <2>2. CASE q = r
    BY <1>0, <1>2, <2>1, <2>2, SourcesGrow
  <2>3. CASE q \in Known
    <3>1. x = sent[q].msg /\ q \in Reqs /\ sent[q] \in Submissions
      BY <1>0, <1>2, <2>1, <2>3 DEF RequestsOK, Effects
    <3>2. x \in Messages
      BY <3>1 DEF Submissions
    <3>3. x.type = "blocker.comment" => x.id \in BlockerIds
      BY <3>2, MessageFields
    <3>4. QED
      BY <1>0, <2>3, <3>1, <3>3, SourcesGrow DEF Sourced
  <2>4. QED
    BY <1>2, <2>2, <2>3
<1>5. /\ Owed' /\ Single' /\ mentions \subseteq mentions'
      /\ pending'[r] = None => \A u \in Named(r)' : \E n \in mentions' : n.user = u /\ From(n, r)'
  <2>1. CASE MakesMentions(r, s, m)
    <3>1. PICK source, id :
            /\ \A n : From(n, r)' <=> n.source = source /\ n.id = id
            /\ mentions' = mentions \cup NewMentions(r, SockUser[s], source, id, m.mentions)
      BY <2>1 DEF MakesMentions
    <3>2. /\ SockUser[s] = SockUser[sent'[r].sock] /\ m.mentions = sent'[r].msg.mentions
          /\ sent'[r].msg.type \in Mentioning /\ r \in Known'
          /\ Known \subseteq Known' /\ \A q \in Known : sent'[q] = sent[q]
      BY <1>2, <2>1 DEF MakesMentions
    <3>3. QED
      BY <1>0, <3>1, <3>2, MentionsMade
  <2>2. CASE UNCHANGED mentions /\ (m.type \in Mentioning => pending'[r] # None)
    <3>1. Owed' /\ Single'
      BY <1>0, <1>2, <2>2, OwedKept
    <3>2. m.type \notin Mentioning => Named(r)' = {}
      BY <1>2 DEF Named, Mentioning
    <3>3. QED
      BY <2>2, <3>1, <3>2
  <2>3. QED
    BY <1>3, <2>1, <2>2 DEF Mentioned
<1>6. Paid'
  <2>1. SUFFICES ASSUME NEW q \in Known', pending'[q] = None, q \notin interrupted'
                 PROVE  \A u \in Named(q)' : \E n \in mentions' : n.user = u /\ From(n, q)'
    BY DEF Paid
  <2>2. CASE q = r
    BY <1>5, <2>1, <2>2
  <2>3. CASE q \in Known
    <3>1. \A u \in Named(q) : \E n \in mentions : n.user = u /\ From(n, q)
      BY <1>0, <1>2, <1>3, <2>1, <2>3 DEF Paid
    <3>2. QED
      BY <1>2, <1>5, <2>3, <3>1, PaidStays
  <2>4. QED
    BY <1>2, <2>2, <2>3
<1>7. QED
  BY <1>4, <1>5, <1>6 DEF NInv

\* D1's answer makes the mentions that are owed; its failure is on record.
LEMMA MentionsResume ==
  ASSUME IInv, NInv, NEW r \in Reqs, NEW ok \in BOOLEAN, Resume(r, ok)
  PROVE  NInv'
<1>0. TypeOK /\ RequestsOK /\ Sourced /\ Owed /\ Single /\ Paid
  BY DEF IInv, NInv
<1>1. /\ UNCHANGED <<blockers, updates, feedback, claims, expired, sent>>
      /\ pending' = [pending EXCEPT ![r] = None] /\ pending[r] # None
  BY DEF Resume, WaitsForD1
<1>2. r \in Known /\ sent[r].msg.type \in Mentioning /\ Known' = Known
  BY <1>0, <1>1 DEF RequestsOK, Waiters, Known
<1>3. Sourced'
  BY <1>0, <1>1, <1>2 DEF Sourced
<1>4. CASE ok
  <2>1. PICK source, id : source = SourceOf(r)[1] /\ id = SourceOf(r)[2]
    OBVIOUS
  <2>2. \A n : From(n, r)' <=> n.source = source /\ n.id = id
    BY <1>1, <2>1 DEF From, SourceOf
  <2>3. mentions' = mentions \cup
          NewMentions(r, SockUser[sent[r].sock], source, id, sent[r].msg.mentions)
    BY <1>4, <2>1 DEF Resume
  <2>4. /\ Known \subseteq Known' /\ r \in Known' /\ \A q \in Known : sent'[q] = sent[q]
        /\ SockUser[sent[r].sock] = SockUser[sent'[r].sock]
        /\ sent[r].msg.mentions = sent'[r].msg.mentions
        /\ sent'[r].msg.type \in Mentioning
    BY <1>1, <1>2
  <2>5. /\ Owed' /\ Single'
        /\ \A v \in Named(r)' : \E n \in mentions' : n.user = v /\ From(n, r)'
    BY <1>0, <2>2, <2>3, <2>4, MentionsMade
  <2>6. Paid'
    <3>1. SUFFICES ASSUME NEW q \in Known, pending'[q] = None, q \notin interrupted', q # r
                   PROVE  \A u \in Named(q)' : \E n \in mentions' : n.user = u /\ From(n, q)'
      BY <1>2, <2>5 DEF Paid
    <3>2. q \in Reqs /\ pending[q] = None /\ q \notin interrupted
      BY <1>0, <1>1, <1>4, <3>1 DEF Resume, TypeOK, Known
    <3>3. \A u \in Named(q) : \E n \in mentions : n.user = u /\ From(n, q)
      BY <1>0, <3>1, <3>2 DEF Paid
    <3>4. QED
      BY <2>3, <2>4, <3>3, PaidStays
  <2>7. QED
    BY <1>3, <2>5, <2>6 DEF NInv
<1>5. CASE ~ok
  <2>1. mentions' = mentions /\ interrupted' = interrupted \cup {r}
    BY <1>5 DEF Resume
  <2>2. Owed' /\ Single'
    BY <1>0, <1>1, <1>2, <2>1, OwedKept
  <2>3. Paid'
    <3>1. SUFFICES ASSUME NEW q \in Known, pending'[q] = None, q \notin interrupted'
                   PROVE  \A u \in Named(q)' : \E n \in mentions' : n.user = u /\ From(n, q)'
      BY <1>2 DEF Paid
    <3>2. q \in Reqs /\ q # r /\ pending[q] = None /\ q \notin interrupted
      BY <1>0, <1>1, <2>1, <3>1 DEF TypeOK, Known
    <3>3. \A u \in Named(q) : \E n \in mentions : n.user = u /\ From(n, q)
      BY <1>0, <3>1, <3>2 DEF Paid
    <3>4. QED
      BY <1>1, <2>1, <3>3, PaidStays
  <2>4. QED
    BY <1>3, <2>2, <2>3 DEF NInv
<1>6. QED
  BY <1>4, <1>5

\* A step that writes nothing and gives up no handler without a record keeps them.
LEMMA MentionsSteady ==
  ASSUME TypeOK, NInv, UNCHANGED <<blockers, updates, feedback, mentions>>,
         Known' = Known, \A q \in Known : sent'[q] = sent[q],
         interrupted \subseteq interrupted',
         \A q \in Known : pending[q] # None /\ pending'[q] = None => q \in interrupted'
  PROVE  NInv'
<1>1. Sourced'
  BY DEF NInv, Sourced
<1>2. Owed' /\ Single'
  BY OwedKept DEF NInv
<1>3. Paid'
  <2>1. SUFFICES ASSUME NEW q \in Known, pending'[q] = None, q \notin interrupted'
                 PROVE  \A u \in Named(q)' : \E n \in mentions' : n.user = u /\ From(n, q)'
    BY DEF Paid
  <2>2. \A u \in Named(q) : \E n \in mentions : n.user = u /\ From(n, q)
    BY <2>1 DEF NInv, Paid
  <2>3. QED
    BY <2>2, PaidStays
<1>4. QED
  BY <1>1, <1>2, <1>3 DEF NInv

\* Refused frames change no mention, and no message that was known.
LEMMA MentionsRefused ==
  ASSUME IInv, NInv, NEW r \in Reqs, NEW s \in Socks, NEW m \in Messages,
         Forbidden(r, s, m) \/ Duplicate(r, s, m) \/ Refuse(r, s, m)
  PROVE  NInv'
<1>0. TypeOK /\ RequestsOK /\ Known \subseteq Reqs
  BY DEF IInv, TypeOK, Known
<1>1. /\ UNCHANGED <<blockers, updates, feedback, mentions, pending, interrupted>>
      /\ Known' = Known
      /\ sent[r] # None => sent'[r] = sent[r]
      /\ \A q \in Reqs \ {r} : sent'[q] = sent[q]
  BY <1>0 DEF TypeOK, Forbidden, Duplicate, Refuse, Untouched, Arrives, Sent, Unexpired,
              Released, Claimed, Known
<1>2. \A q \in Known : sent'[q] = sent[q]
  BY <1>0, <1>1, NoneAssumption DEF RequestsOK, Effects
<1>3. QED
  BY <1>0, <1>1, <1>2, MentionsSteady

\* Nor do connections and time; a reset puts every waiting handler on record.
LEMMA MentionsConnections ==
  ASSUME IInv, NInv,
         \/ \E x \in Socks : Upgrade(x) \/ Disconnect(x)
         \/ \E x \in Socks, ok \in BOOLEAN : SnapshotReady(x, ok)
         \/ RosterExpires \/ ClaimsExpire \/ Restart
  PROVE  NInv'
<1>0. TypeOK /\ Known \subseteq Reqs
  BY DEF IInv, TypeOK, Known
<1>1. /\ UNCHANGED <<blockers, updates, feedback, mentions, sent>>
      /\ Known' = Known
  BY DEF Upgrade, Disconnect, SnapshotReady, RosterExpires, ClaimsExpire, Restart, store,
         Known
<1>2. \/ UNCHANGED <<pending, interrupted>>
      \/ interrupted' = interrupted \cup {q \in Reqs : pending[q] # None}
  BY DEF Upgrade, Disconnect, SnapshotReady, RosterExpires, ClaimsExpire, Restart
<1>3. QED
  BY <1>0, <1>1, <1>2, MentionsSteady

\* The invariant of mentions: made once, to those named, from what was written.
THEOREM MentionsInvariance == Spec => []NInv
<1>1. Init => NInv
  <2>1. Init => Known = {} /\ mentions = {}
    BY DEF Init, Known
  <2>2. QED
    BY <2>1 DEF NInv, Sourced, Owed, Single, Paid
<1>2. ASSUME IInv, IInv', NInv, [Next]_vars
      PROVE  NInv'
  <2>0. TypeOK /\ TypeOK'
    BY <1>2 DEF IInv
  <2>1. ASSUME NEW r \in Reqs, NEW s \in Socks, NEW m \in Messages, Receive(r, s, m)
        PROVE  NInv'
    BY <1>2, <2>0, <2>1, MentionsRefused, MentionsDispatch DEF Receive
  <2>2. ASSUME NEW r \in Reqs, NEW ok \in BOOLEAN, Resume(r, ok)
        PROVE  NInv'
    BY <1>2, <2>2, MentionsResume
  <2>3. CASE UNCHANGED vars
    BY <1>2, <2>0, <2>3, MentionsSteady DEF vars, store, Known
  <2>4. CASE \/ \E x \in Socks : Upgrade(x) \/ Disconnect(x)
             \/ \E x \in Socks, ok \in BOOLEAN : SnapshotReady(x, ok)
             \/ RosterExpires \/ ClaimsExpire \/ Restart
    BY <1>2, <2>4, MentionsConnections
  <2>5. QED
    BY <1>2, <2>1, <2>2, <2>3, <2>4 DEF Next
<1>3. QED
  BY <1>1, <1>2, Invariance, PTL DEF Spec

\* Everybody a finished request named has exactly one mention of that source,
\* unless the roster query failed or the instance was reset in the gap; nobody
\* else is mentioned, and no source is missing (applyMentions on both sides of
\* the await, and the dedupe against what was inserted meanwhile).
THEOREM MentionsAreExact == Spec => []MentionsExact
<1>1. ASSUME IInv, NInv
      PROVE  MentionsDelivered
  <2>1. SUFFICES ASSUME NEW r \in Reqs, activity[r] = 1, pending[r] = None,
                        r \notin interrupted, NEW u \in Named(r)
                 PROVE  Cardinality({n \in mentions : /\ n.user = u
                                                      /\ n.source = SourceOf(r)[1]
                                                      /\ n.id = SourceOf(r)[2]}) = 1
    BY DEF MentionsDelivered
  <2>2. r \in Known
    BY <1>1, <2>1 DEF IInv, RequestsOK, Once
  <2>3. PICK n \in mentions : n.user = u /\ From(n, r)
    BY <1>1, <2>1, <2>2 DEF NInv, Paid
  <2>4. {k \in mentions : k.user = u /\ k.source = SourceOf(r)[1] /\ k.id = SourceOf(r)[2]}
          = {n}
    BY <1>1, <2>3 DEF NInv, Single, From
  <2>5. QED
    BY <2>4, FS_Singleton
<1>2. ASSUME IInv, NInv
      PROVE  MentionsJustified
  <2>1. SUFFICES ASSUME NEW n \in mentions
                 PROVE  /\ activity[n.req] = 1 /\ n.user \in Named(n.req)
                        /\ n.source = "BLOCKER_COMMENT" => blockers[n.id] # None
                        /\ n.source = "UPDATE" => n.id \in updates
                        /\ n.source = "TASK_COMMENT" => feedback[n.id] # None
    BY DEF MentionsJustified
  <2>2. n.req \in Known /\ n.user \in Named(n.req) /\ From(n, n.req)
    BY <1>2, <2>1 DEF NInv, Owed
  <2>3. sent[n.req].msg.type \in Mentioning
    BY <2>2 DEF Named, Mentioning
  <2>4. activity[n.req] = 1
    BY <1>2, <2>2, <2>3 DEF IInv, RequestsOK, Effects, Applied, Mentioning
  <2>5. /\ sent[n.req].msg.type = "blocker.comment" => blockers[sent[n.req].msg.id] # None
        /\ sent[n.req].msg.type = "update.create" => n.req \in updates
        /\ sent[n.req].msg.type = "feedback.create" => feedback[n.req] # None
    BY <1>2, <2>2 DEF NInv, Sourced
  <2>6. QED
    BY <2>2, <2>3, <2>4, <2>5 DEF From, SourceOf, Mentioning
<1>3. IInv /\ NInv => MentionsExact
  BY <1>1, <1>2 DEF MentionsExact
<1>4. QED
  BY <1>3, Invariance, MentionsInvariance, PTL
==============================================================================
