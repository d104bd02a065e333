-------------------------- MODULE BlockerEscalation --------------------------
(***************************************************************************)
(* From a raised blocker to its reminders and its escalation: the tail of  *)
(* the message handler that enqueues a start event                         *)
(* (src/worker/workspace-do.ts), the queue and its consumer                *)
(* (src/worker/queue-consumer.ts), the durable BlockerWorkflow             *)
(* (src/worker/blocker-workflow.ts), the reminders table, and what the     *)
(* manager's open tab shows under "Needs attention"                        *)
(* (src/worker/attention.ts).                                              *)
(*                                                                         *)
(* The queue delivers a message at least once and gives up after its       *)
(* retries; the engine runs the body of a step again when a call in it or  *)
(* the recording of its result fails.  Time is left out: a sleep ends at   *)
(* some point, so how urgent the linked task is makes no difference here.  *)
(* The wording of a reminder is left out.                                  *)
(***************************************************************************)
EXTENDS Protocol, Sequences, FiniteSets

CONSTANTS
  Blockers,       \* ids the creating requests draw
  MaxDeliveries,  \* one delivery and max_retries more
  MaxTries        \* how often the engine runs the body of a step at most

ASSUME EscalationAssumption ==
  /\ None \notin Blockers
  /\ MaxDeliveries \in Nat \ {0} /\ MaxTries \in Nat \ {0}

\* The reminders about one blocker, by recipient role and type: the unique
\* index allows one row of each.
Slots == {<<"intern", "BLOCKER_REMINDER">>, <<"mentor", "BLOCKER_REMINDER">>,
          <<"manager", "BLOCKER_ESCALATION">>, <<"mentor", "BLOCKER_ESCALATION">>}
Escalation == <<"manager", "BLOCKER_ESCALATION">>
Nudges == {<<"intern", "BLOCKER_REMINDER">>, <<"mentor", "BLOCKER_REMINDER">>}

BlockerRow == [status : BlockerStatuses, responded : BOOLEAN]

Steps  == {"read", "check1", "remind", "check2", "escalate"}
Places == Steps \cup {"sleep1", "sleep2", "ended", "failed"}
FlowRow == [at : Places, next : 1..3, tries : 1..MaxTries, seen : BlockerRow]

ASSUME NoneAssumption ==
  None \notin BlockerRow \cup FlowRow \cup {"OPEN", "ACKNOWLEDGED"}

VARIABLES
  blockers,   \* [Blockers -> BlockerRow \cup {None}]
  reminders,  \* [Blockers -> [Slots -> {None, "OPEN", "ACKNOWLEDGED"}]]
  tail,       \* blockers whose creating handler has not enqueued the start yet
  queue,      \* [Blockers -> deliveries left of the start message]
  flow,       \* [Blockers -> the instance blocker-<id>, or None]
  online,     \* the manager's tab is connected
  shown       \* the blockers it shows an ESCALATION item for

vars == <<blockers, reminders, tail, queue, flow, online, shown>>

Init ==
  /\ blockers = [b \in Blockers |-> None]
  /\ reminders = [b \in Blockers |-> [k \in Slots |-> None]]
  /\ tail = {} /\ queue = [b \in Blockers |-> 0]
  /\ flow = [b \in Blockers |-> None]
  /\ online = FALSE /\ shown = {}

-----------------------------------------------------------------------------
(* The Durable Object.                                                     *)

\* computeAttentionItems for the manager: every open escalation, whatever has
\* become of its blocker.
EscalationItems(rows) == {b \in Blockers : rows[b][Escalation] = "OPEN"}

\* broadcastAttentionUpdates, with the reminders as they are then.
Refresh(rows) == shown' = IF online THEN EscalationItems(rows) ELSE {}

\* INSERT OR IGNORE.
Inserted(b, slot) ==
  IF reminders[b][slot] # None THEN reminders
  ELSE [reminders EXCEPT ![b][slot] = "OPEN"]

Raise(b) ==
  /\ blockers[b] = None
  /\ blockers' = [blockers EXCEPT ![b] = [status |-> "OPEN", responded |-> FALSE]]
  /\ tail' = tail \cup {b} /\ Refresh(reminders)
  /\ UNCHANGED <<reminders, queue, flow, online>>

\* A comment of the mentor; other comments change nothing here.
MentorComments(b) ==
  /\ blockers[b] # None
  /\ blockers' = [blockers EXCEPT ![b].responded = TRUE]
  /\ Refresh(reminders)
  /\ UNCHANGED <<reminders, tail, queue, flow, online>>

RequestResolution(b) ==
  /\ blockers[b] # None /\ blockers[b].status = "OPEN"
  /\ blockers' = [blockers EXCEPT ![b].status = "RESOLUTION_REQUESTED"]
  /\ Refresh(reminders)
  /\ UNCHANGED <<reminders, tail, queue, flow, online>>

Resolve(b) ==
  /\ blockers[b] # None
  /\ blockers' = [blockers EXCEPT ![b].status = "RESOLVED"]
  /\ Refresh(reminders)
  /\ UNCHANGED <<reminders, tail, queue, flow, online>>

\* The manager's own escalation goes to the mentor.
ManagerEscalates(b) ==
  /\ blockers[b] # None /\ blockers[b].status # "RESOLVED"
  /\ reminders' = Inserted(b, <<"mentor", "BLOCKER_ESCALATION">>)
  /\ Refresh(reminders')
  /\ UNCHANGED <<blockers, tail, queue, flow, online>>

\* POST /reminders/:id/ack by its recipient.
Acknowledge(b, slot) ==
  /\ reminders[b][slot] # None
  /\ reminders' = [reminders EXCEPT ![b][slot] = "ACKNOWLEDGED"]
  /\ Refresh(reminders')
  /\ UNCHANGED <<blockers, tail, queue, flow, online>>

\* The manager's tab gets a snapshot, or goes away.
Connect ==
  /\ ~online /\ online' = TRUE
  /\ shown' = EscalationItems(reminders)
  /\ UNCHANGED <<blockers, reminders, tail, queue, flow>>

Disconnect ==
  /\ online /\ online' = FALSE /\ shown' = {}
  /\ UNCHANGED <<blockers, reminders, tail, queue, flow>>

-----------------------------------------------------------------------------
(* The start of the workflow.                                              *)

\* enqueueWorkflowStart, after the acknowledgement.  A failed send is logged
\* and forgotten; so is the handler of an instance that was reset.
Enqueue(b) ==
  /\ b \in tail /\ tail' = tail \ {b}
  /\ queue' = [queue EXCEPT ![b] = MaxDeliveries]
  /\ UNCHANGED <<blockers, reminders, flow, online, shown>>

LoseStart(b) ==
  /\ b \in tail /\ tail' = tail \ {b}
  /\ UNCHANGED <<blockers, reminders, queue, flow, online, shown>>

NewInstance == [at |-> "read", next |-> 1, tries |-> 1,
                seen |-> [status |-> "OPEN", responded |-> FALSE]]

\* BLOCKER_WORKFLOW.create with the id blocker-<id>.
\* Mutant: a second create starts the run over.
CreatedAnew(b) == [flow EXCEPT ![b] = NewInstance]
Created(b) == IF flow[b] # None THEN flow ELSE [flow EXCEPT ![b] = NewInstance]

\* One delivery: create, or find it created, and acknowledge.  When the
\* acknowledgement is lost or create fails the message comes back, unless this
\* was its last delivery.
Deliver(b) ==
  /\ queue[b] > 0
  /\ \/ flow' = Created(b)
        /\ queue' \in {[queue EXCEPT ![b] = n] : n \in {0, queue[b] - 1}}
     \/ UNCHANGED flow /\ queue' = [queue EXCEPT ![b] = @ - 1]
  /\ UNCHANGED <<blockers, reminders, tail, online, shown>>

-----------------------------------------------------------------------------
(* The workflow.                                                           *)

Running(b) == flow[b] # None /\ flow[b].at \notin {"ended", "failed"}
InStep(b)  == flow[b] # None /\ flow[b].at \in Steps

\* What the body of a step does, call by call: look at the blocker, or create
\* a reminder.  (The first step looks only at the linked task.)
Body(at) == CASE at = "read" -> <<"task">>
              [] at \in {"check1", "check2"} -> <<"look">>
              [] at = "remind" -> <<"intern", "mentor">>
              [] at = "escalate" -> <<"manager">>

About(b, op) ==
  /\ InStep(b) /\ flow[b].next <= Len(Body(flow[b].at))
  /\ Body(flow[b].at)[flow[b].next] = op

ReadTask(b) ==
  /\ About(b, "task")
  /\ flow' = [flow EXCEPT ![b].next = @ + 1]
  /\ UNCHANGED <<blockers, reminders, tail, queue, online, shown>>

Look(b) ==
  /\ About(b, "look")
  /\ flow' = [flow EXCEPT ![b].next = @ + 1, ![b].seen = blockers[b]]
  /\ UNCHANGED <<blockers, reminders, tail, queue, online, shown>>

\* The RPC createReminder broadcasts the row but no attention list.
Remind(b, role) ==
  /\ About(b, role)
  /\ reminders' = Inserted(b, IF role = "manager" THEN Escalation
                              ELSE <<role, "BLOCKER_REMINDER">>)
  /\ flow' = [flow EXCEPT ![b].next = @ + 1]
  /\ UNCHANGED <<blockers, tail, queue, online, shown>>

\* What a recorded step leads to.
\* Mutants: a check does not look at the status, or at the mentor's answer, or
\* the run ends after the reminders.
AfterStepNoStatus(b) ==
  CASE flow[b].at = "read"   -> "sleep1"
    [] flow[b].at = "check1" -> IF flow[b].seen.responded THEN "sleep2" ELSE "remind"
    [] flow[b].at = "remind" -> "sleep2"
    [] flow[b].at = "check2" -> "escalate"
    [] OTHER                 -> "ended"
AfterStepShort(b) ==
  CASE flow[b].at = "read"   -> "sleep1"
    [] flow[b].at = "check1" -> IF \/ flow[b].seen.status = "RESOLVED"
                                   \/ flow[b].seen.responded THEN "ended"
                                                             ELSE "remind"
    [] flow[b].at = "remind" -> "sleep2"
    [] flow[b].at = "check2" ->
         IF flow[b].seen.status = "RESOLVED" THEN "ended" ELSE "escalate"
    [] OTHER                 -> "ended"
AfterStep(b) ==
  CASE flow[b].at = "read"   -> "sleep1"
    [] flow[b].at = "check1" ->
         IF flow[b].seen.status = "RESOLVED" THEN "ended"
         ELSE IF flow[b].seen.responded THEN "sleep2" ELSE "remind"
    [] flow[b].at = "remind" -> "sleep2"
    [] flow[b].at = "check2" ->
         IF flow[b].seen.status = "RESOLVED" THEN "ended" ELSE "escalate"
    [] OTHER                 -> "ended"

Goto(b, at) ==
  flow' = [flow EXCEPT ![b].at = at, ![b].next = 1, ![b].tries = 1]

Recorded(b) ==
  /\ InStep(b) /\ flow[b].next = Len(Body(flow[b].at)) + 1
  /\ Goto(b, AfterStep(b))
  /\ UNCHANGED <<blockers, reminders, tail, queue, online, shown>>

\* A call fails, or the result is not recorded: the body runs again, or the
\* instance fails for good.
\* Mutant: the body is run again for ever.
RetryForever(b) ==
  /\ InStep(b)
  /\ flow' = [flow EXCEPT ![b].next = 1, ![b].tries = @ + 1]
  /\ UNCHANGED <<blockers, reminders, tail, queue, online, shown>>
Retry(b) ==
  /\ InStep(b)
  /\ IF flow[b].tries < MaxTries
       THEN flow' = [flow EXCEPT ![b].next = 1, ![b].tries = @ + 1]
       ELSE Goto(b, "failed")
  /\ UNCHANGED <<blockers, reminders, tail, queue, online, shown>>

\* A sleep ends.
\* Mutant: the second sleep does not.
WakeOnce(b) ==
  /\ flow[b] # None
  /\ flow[b].at = "sleep1" /\ Goto(b, "check1")
  /\ UNCHANGED <<blockers, reminders, tail, queue, online, shown>>
Wake(b) ==
  /\ flow[b] # None
  /\ \/ flow[b].at = "sleep1" /\ Goto(b, "check1")
     \/ flow[b].at = "sleep2" /\ Goto(b, "check2")
  /\ UNCHANGED <<blockers, reminders, tail, queue, online, shown>>

-----------------------------------------------------------------------------

People(b) ==
  \/ Raise(b) \/ MentorComments(b) \/ RequestResolution(b) \/ Resolve(b)
  \/ ManagerEscalates(b) \/ \E slot \in Slots : Acknowledge(b, slot)

Advance(b) ==
  \/ ReadTask(b) \/ Look(b) \/ \E role \in Roles : Remind(b, role)
  \/ Recorded(b) \/ Wake(b)

Next ==
  \/ \E b \in Blockers : \/ People(b) \/ Enqueue(b) \/ LoseStart(b) \/ Deliver(b)
                         \/ Advance(b) \/ Retry(b)
  \/ Connect \/ Disconnect

Spec == Init /\ [][Next]_vars

\* A handler goes on, the queue delivers, the engine wakes and runs instances.
Fairness ==
  \A b \in Blockers : /\ WF_vars(Enqueue(b) \/ LoseStart(b))
                      /\ WF_vars(Deliver(b)) /\ WF_vars(Advance(b))

FairSpec == Spec /\ Fairness

-----------------------------------------------------------------------------
(* Properties.                                                             *)

\* Every table, message and instance is well formed.
TypeOK ==
  /\ blockers \in [Blockers -> BlockerRow \cup {None}]
  /\ reminders \in [Blockers -> [Slots -> {None, "OPEN", "ACKNOWLEDGED"}]]
  /\ tail \subseteq Blockers /\ queue \in [Blockers -> 0..MaxDeliveries]
  /\ flow \in [Blockers -> FlowRow \cup {None}]
  /\ online \in BOOLEAN /\ shown \subseteq Blockers

Resolved(b) == blockers[b] # None /\ blockers[b].status = "RESOLVED"

\* A blocker that is resolved, or answered by the mentor, while its instance has
\* not reached the first check is never the subject of a reminder: repeated
\* deliveries and repeated steps included.
NotYetChecked(b) == flow[b] = None \/ flow[b].at \in {"read", "sleep1"}
AnsweredInTime(b) ==
  /\ NotYetChecked(b) /\ blockers[b] # None
  /\ blockers[b].status = "RESOLVED" \/ blockers[b].responded
NotNudged(b) == \A k \in Nudges : reminders[b][k] = None
ResolveStopsReminders ==
  \A b \in Blockers : [](AnsweredInTime(b) => []NotNudged(b))

\* A blocker resolved before the second check is never escalated.
ResolvedInTime(b) ==
  Resolved(b) /\ (NotYetChecked(b) \/ flow[b].at = "sleep2")
NotEscalated(b) == reminders[b][Escalation] = None
ResolveStopsEscalation ==
  \A b \in Blockers : [](ResolvedInTime(b) => []NotEscalated(b))

\* A blocker its owners settled in time is left alone: a check that finds it
\* answered sends no nudge, and one that finds it resolved escalates nothing,
\* whatever tries, crashes and late starts come after.
ResolvedIsLeftAlone == ResolveStopsReminders /\ ResolveStopsEscalation

\* A run that ends without failing has seen the blocker resolved or has raised
\* the escalation.
EndedMeansSettled ==
  \A b \in Blockers : flow[b] # None /\ flow[b].at = "ended" =>
    \/ flow[b].seen.status = "RESOLVED" /\ Resolved(b)
    \/ reminders[b][Escalation] # None

\* An instance is never started over, and goes through its steps in order, so a
\* second start message is harmless.
Rank(at) == CASE at = "read" -> 0 [] at = "sleep1" -> 1 [] at = "check1" -> 2
              [] at = "remind" -> 3 [] at = "sleep2" -> 4 [] at = "check2" -> 5
              [] at = "escalate" -> 6 [] at \in {"ended", "failed"} -> 7
RunsOnce ==
  [][\A b \in Blockers : flow[b] # None =>
       flow'[b] # None /\ Rank(flow[b].at) <= Rank(flow'[b].at)]_flow

\* The manager's tab never shows an escalation that was acknowledged.
ShownIsOpen == \A b \in shown : reminders[b][Escalation] = "OPEN"

\* A start message that reached the queue is used up, and a run that started
\* comes to its end.
StartsAreHandled ==
  \A b \in Blockers : /\ queue[b] > 0 ~> queue[b] = 0
                      /\ flow[b] # None ~> ~Running(b)
=============================================================================
