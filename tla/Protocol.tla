------------------------------ MODULE Protocol ------------------------------
(***************************************************************************)
(* The vocabulary shared by the Worker, the workspace Durable Object and   *)
(* the browser client (src/shared/protocol.ts) and the role matrix that    *)
(* decides who may perform which mutation (src/worker/permissions.ts).     *)
(***************************************************************************)
EXTENDS Naturals

CONSTANT None       \* SQL NULL, an absent row, a missing value

Roles == {"intern", "mentor", "manager"}

TaskStatuses   == {"TODO", "IN_PROGRESS", "BLOCKED", "DONE"}
TaskPriorities == {"LOW", "MEDIUM", "HIGH", "URGENT"}

BlockerStatuses == {"OPEN", "RESOLUTION_REQUESTED", "RESOLVED"}

\* The role matrix.  A role of None is an identity without a membership.
CanMutate(role, action) ==
  \/ /\ role = "intern"
     /\ action \in {"task.create", "task.update", "task.move", "task.delete",
                    "update.create", "blocker.create",
                    "blocker.requestResolution"}
  \/ /\ role \in {"mentor", "manager"}
     /\ action \in {"task.priority", "feedback.create", "blocker.resolve"}
  \/ role \in Roles /\ action = "blocker.comment"
  \/ role = "manager" /\ action = "blocker.escalate"
=============================================================================
