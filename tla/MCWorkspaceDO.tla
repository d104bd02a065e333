--------------------------- MODULE MCWorkspaceDO ---------------------------
(***************************************************************************)
(* Instances of WorkspaceDO for TLC; the assumptions of StoreSchema and    *)
(* Mentions are checked along.                                             *)
(***************************************************************************)
EXTENDS WorkspaceDO, StoreSchema, Mentions, TLC

CONSTANTS alice, bob, mia, jordan,   \* two interns, a mentor, a manager
          tabA, tabB, tabM, tabJ, t0, b0, b1

MCRoleOf == [u \in Users |-> CASE u \in {alice, bob} -> "intern"
                               [] u = mia -> "mentor"
                               [] u = jordan -> "manager"]
MCSockUser == [s \in Socks |-> CASE s = tabA -> alice [] s = tabB -> bob
                                 [] s = tabM -> mia   [] s = tabJ -> jordan]

Symmetry == Permutations(Reqs)

\* Tasks: create, hand over, move, delete, prioritise; work linked to a task.
TaskMessages ==
       {[type |-> "task.update", id |-> t0, status |-> Keep, priority |-> Keep,
         assignee |-> bob],
        [type |-> "task.update", id |-> t0, status |-> "ARCHIVED",
         priority |-> Keep, assignee |-> Keep],
        [type |-> "task.move", id |-> t0, status |-> "BLOCKED"],
        [type |-> "task.delete", id |-> t0],
        [type |-> "task.priority", id |-> t0, priority |-> "LOW"],
        [type |-> "task.create", status |-> None, priority |-> None,
         assignee |-> None],
        [type |-> "blocker.create", task |-> t0],
        [type |-> "feedback.create", task |-> t0, mentions |-> {alice}]}

\* b0 is open and about t0, b1 was resolved before.
MCSeedRows ==
  [b \in SeedBlockers |->
     IF b = b1 THEN [NewBlocker(None) EXCEPT !.status = "RESOLVED",
                       !.resolvedBy = mia, !.resolvedAt = 1]
     ELSE NewBlocker(IF t0 \in SeedTasks THEN t0 ELSE None)]

\* Blockers: the discussion, the ways to close b0, and the deletion of its task.
BlockerMessages ==
       {[type |-> "blocker.comment", id |-> b0, mentions |-> {alice}],
        [type |-> "update.create", mentions |-> {mia}],
        [type |-> "task.delete", id |-> t0]}
  \cup [type : {"blocker.requestResolution", "blocker.resolve",
                "blocker.escalate"}, id : {b0}]

DiscussionMessages ==
  {[type |-> "blocker.comment", id |-> b0, mentions |-> {mia}],
   [type |-> "update.create", mentions |-> {mia}],
   [type |-> "blocker.resolve", id |-> b0]}
============================================================================
