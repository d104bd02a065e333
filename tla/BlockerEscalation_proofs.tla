----------------------- MODULE BlockerEscalation_proofs -----------------------
(***************************************************************************)
(* Proofs about BlockerEscalation, for any set of blockers, any number of  *)
(* deliveries and any number of tries of a step.                           *)
(***************************************************************************)
EXTENDS BlockerEscalation, TLAPS

\* The length of the body of a step, the only thing the type needs of it.
LEMMA BodyLength ==
  ASSUME NEW at \in Steps
  PROVE  /\ Len(Body(at)) \in 1..2
         /\ Len(Body(at)) = 2 => at = "remind"
BY DEF Body, Steps

-----------------------------------------------------------------------------
(* Type correctness.                                                       *)

\* The initial state is well formed.
LEMMA TypeInit == Init => TypeOK
<1> SUFFICES ASSUME Init PROVE TypeOK
  OBVIOUS
<1>1. queue \in [Blockers -> 0..MaxDeliveries]
  BY EscalationAssumption DEF Init
<1>2. blockers \in [Blockers -> BlockerRow \cup {None}]
  BY DEF Init
<1>3. flow \in [Blockers -> FlowRow \cup {None}]
  BY DEF Init
<1>4. reminders \in [Blockers -> [Slots -> {None, "OPEN", "ACKNOWLEDGED"}]]
  BY DEF Init
<1>5. QED
  BY <1>1, <1>2, <1>3, <1>4 DEF Init, TypeOK

\* The calls into the Durable Object by people: reminders are only acknowledged
\* or created, rows keep their shape.
LEMMA TypePeople ==
  ASSUME TypeOK, NEW b \in Blockers, People(b)
  PROVE  TypeOK'
<1>1. CASE Raise(b)
  BY <1>1 DEF TypeOK, Raise, Refresh, EscalationItems, BlockerRow, BlockerStatuses
<1>2. CASE MentorComments(b)
  BY <1>2 DEF TypeOK, MentorComments, Refresh, EscalationItems, BlockerRow
<1>3. CASE RequestResolution(b)
  BY <1>3 DEF TypeOK, RequestResolution, Refresh, EscalationItems, BlockerRow,
              BlockerStatuses
<1>4. CASE Resolve(b)
  BY <1>4 DEF TypeOK, Resolve, Refresh, EscalationItems, BlockerRow,
              BlockerStatuses
<1>5. CASE ManagerEscalates(b)
  BY <1>5 DEF TypeOK, ManagerEscalates, Refresh, EscalationItems, Inserted, Slots
<1>6. CASE \E slot \in Slots : Acknowledge(b, slot)
  BY <1>6 DEF TypeOK, Acknowledge, Refresh, EscalationItems
<1>7. QED
  BY <1>1, <1>2, <1>3, <1>4, <1>5, <1>6 DEF People

\* Enqueueing, delivering and creating keep the types.
LEMMA TypeStart ==
  ASSUME TypeOK, NEW b \in Blockers, Enqueue(b) \/ LoseStart(b) \/ Deliver(b)
  PROVE  TypeOK'
<1>1. CASE Enqueue(b)
  BY <1>1, EscalationAssumption DEF TypeOK, Enqueue
<1>2. CASE LoseStart(b)
  BY <1>2 DEF TypeOK, LoseStart
<1>3. CASE Deliver(b)
  <2>1. queue' \in [Blockers -> 0..MaxDeliveries]
    <3>1. \A n \in {0, queue[b] - 1} :
            [queue EXCEPT ![b] = n] \in [Blockers -> 0..MaxDeliveries]
      BY <1>3, EscalationAssumption DEF TypeOK, Deliver
    <3>2. queue' \in {[queue EXCEPT ![b] = n] : n \in {0, queue[b] - 1}}
      BY <1>3 DEF Deliver
    <3>3. QED
      BY <3>1, <3>2
  <2>2. NewInstance \in FlowRow
    BY EscalationAssumption
    DEF NewInstance, FlowRow, Places, Steps, BlockerRow, BlockerStatuses
  <2>3. Created(b) \in [Blockers -> FlowRow \cup {None}]
    BY <2>2 DEF TypeOK, Created
  <2>4. flow' \in [Blockers -> FlowRow \cup {None}]
    BY <1>3, <2>3 DEF Deliver, TypeOK
  <2>5. QED
    BY <1>3, <2>1, <2>4 DEF TypeOK, Deliver
<1>4. QED
  BY <1>1, <1>2, <1>3

\* An instance that moves to a place of the workflow is well formed there.
LEMMA MoveType ==
  ASSUME NEW row \in FlowRow, NEW at \in Places, NEW n \in 1..3,
         NEW t \in 1..MaxTries
  PROVE  LET new == [row EXCEPT !.at = at, !.next = n, !.tries = t] IN
         /\ new \in FlowRow
         /\ new.at = at /\ new.next = n /\ new.seen = row.seen
BY DEF FlowRow

\* Only the instance of b changes, and stays one.
Moved(b) ==
  /\ flow'[b] \in FlowRow
  /\ \A c \in Blockers \ {b} : flow'[c] = flow[c]
  /\ flow' \in [Blockers -> FlowRow \cup {None}]

\* Going to the next place is such a move.
LEMMA GotoMoves ==
  ASSUME TypeOK, NEW b \in Blockers, flow[b] # None, NEW at \in Places,
         Goto(b, at)
  PROVE  /\ Moved(b)
         /\ flow'[b].at = at /\ flow'[b].next = 1 /\ flow'[b].seen = flow[b].seen
<1> DEFINE row == [flow[b] EXCEPT !.at = at, !.next = 1, !.tries = 1]
<1>1. flow[b] \in FlowRow
  BY DEF TypeOK
<1>2. 1 \in 1..3 /\ 1 \in 1..MaxTries
  BY EscalationAssumption
<1>3. /\ row \in FlowRow
      /\ row.at = at /\ row.next = 1 /\ row.seen = flow[b].seen
  <2> HIDE DEF row
  <2>1. \A n \in 1..3, t \in 1..MaxTries :
          LET new == [flow[b] EXCEPT !.at = at, !.next = n, !.tries = t] IN
          /\ new \in FlowRow
          /\ new.at = at /\ new.next = n /\ new.seen = flow[b].seen
    BY <1>1, MoveType
  <2>2. QED
    BY <1>2, <2>1, Zenon DEF row
<1>4. flow' = [flow EXCEPT ![b] = row]
  BY DEF TypeOK, Goto
<1> HIDE DEF row
<1>5. QED
  BY <1>3, <1>4 DEF TypeOK, Moved

\* Every step of an instance keeps the types.
LEMMA TypeWorkflow ==
  ASSUME TypeOK, NEW b \in Blockers, Advance(b) \/ Retry(b),
         flow[b] # None => blockers[b] # None
  PROVE  TypeOK'
<1>1. ASSUME NEW op, About(b, op)
      PROVE  flow[b] \in FlowRow /\ flow[b].next + 1 \in 1..3
  BY <1>1, BodyLength DEF About, InStep, TypeOK, FlowRow
<1>2. CASE ReadTask(b)
  BY <1>1, <1>2 DEF TypeOK, ReadTask, FlowRow
<1>3. CASE Look(b)
  <2>1. blockers[b] \in BlockerRow
    BY <1>3 DEF TypeOK, Look, About, InStep
  <2>2. QED
    BY <1>1, <1>3, <2>1 DEF TypeOK, Look, FlowRow
<1>4. CASE \E role \in Roles : Remind(b, role)
  <2>1. PICK role \in Roles : Remind(b, role)
    BY <1>4
  <2>2. About(b, role)
    BY <2>1 DEF Remind
  <2>3. flow' \in [Blockers -> FlowRow \cup {None}]
    BY <1>1, <2>1, <2>2 DEF TypeOK, Remind, FlowRow
  <2>4. role \in {"intern", "mentor", "manager"}
    BY DEF Roles
  <2>5. reminders' \in [Blockers -> [Slots -> {None, "OPEN", "ACKNOWLEDGED"}]]
    BY <2>1, <2>4 DEF TypeOK, Remind, Inserted, Slots, Escalation
  <2>6. QED
    BY <2>1, <2>3, <2>5 DEF TypeOK, Remind
<1>5. CASE Recorded(b)
  <2>1. flow[b] # None /\ AfterStep(b) \in Places
    BY <1>5 DEF Recorded, InStep, AfterStep, Places, Steps
  <2>2. QED
    BY <1>5, <2>1, GotoMoves DEF Recorded, TypeOK, Moved
<1>6. CASE Wake(b)
  <2>1. "check1" \in Places /\ "check2" \in Places
    BY DEF Places, Steps
  <2>2. flow' \in [Blockers -> FlowRow \cup {None}]
    BY <1>6, <2>1, GotoMoves DEF Wake, Moved
  <2>3. QED
    BY <1>6, <2>2 DEF Wake, TypeOK
<1>7. CASE Retry(b)
  <2>1. CASE flow[b].tries < MaxTries
    BY <1>7, <2>1, EscalationAssumption DEF Retry, InStep, TypeOK, FlowRow
  <2>2. CASE ~(flow[b].tries < MaxTries)
    <3>1. "failed" \in Places /\ flow[b] # None
      BY <1>7 DEF Places, Retry, InStep
    <3>2. flow' \in [Blockers -> FlowRow \cup {None}]
      BY <1>7, <2>2, <3>1, GotoMoves DEF Retry, Moved
    <3>3. QED
      BY <1>7, <3>2 DEF Retry, TypeOK
  <2>3. QED
    BY <2>1, <2>2
<1>8. QED
  BY <1>2, <1>3, <1>4, <1>5, <1>6, <1>7 DEF Advance
-----------------------------------------------------------------------------
(* The inductive invariant.                                                *)

\* A start message and an instance are always about a raised blocker.
Watched ==
  \A b \in Blockers : b \in tail \/ queue[b] > 0 \/ flow[b] # None
                       => blockers[b] # None

\* An instance that saw its blocker resolved saw the truth.
SeenIsTrue ==
  \A b \in Blockers : flow[b] # None /\ flow[b].seen.status = "RESOLVED"
                       => Resolved(b)

\* An escalation step that made its call left the row.
EscalationMade ==
  \A b \in Blockers :
    flow[b] # None /\ flow[b].at = "escalate" /\ flow[b].next = 2
      => reminders[b][Escalation] # None

\* Before the first check there is no reminder, and before the second there is
\* no escalation.
NoneEarly ==
  \A b \in Blockers :
    /\ NotYetChecked(b) \/ flow[b].at = "check1" =>
         \A k \in Nudges : reminders[b][k] = None
    /\ NotYetChecked(b) \/ flow[b].at \in {"check1", "remind", "sleep2", "check2"}
         => reminders[b][Escalation] = None

IInv == /\ TypeOK /\ Watched /\ SeenIsTrue /\ EscalationMade /\ NoneEarly
        /\ EndedMeansSettled /\ ShownIsOpen

\* The initial state satisfies the invariant: nothing is raised.
LEMMA IInvInit == Init => IInv
BY TypeInit DEF Init, IInv, Watched, SeenIsTrue, EscalationMade, NoneEarly,
                EndedMeansSettled, ShownIsOpen, NotYetChecked, Slots, Nudges,
                Escalation

\* The attention list of the connected tab is recomputed from the rows.
LEMMA RefreshedIsOpen ==
  ASSUME TypeOK, Refresh(reminders')
  PROVE  ShownIsOpen'
BY DEF TypeOK, Refresh, EscalationItems, ShownIsOpen

\* A write to one blocker row that does not undo a resolution.
LEMMA RowWritten ==
  ASSUME IInv, NEW b \in Blockers, NEW row \in BlockerRow,
         Resolved(b) => row.status = "RESOLVED",
         blockers' = [blockers EXCEPT ![b] = row],
         tail' \subseteq tail \cup {b}, UNCHANGED <<reminders, queue, flow>>
  PROVE  (Watched /\ SeenIsTrue /\ EscalationMade /\ NoneEarly
            /\ EndedMeansSettled)'
<1>1. \A c \in Blockers : blockers[c] # None => blockers'[c] # None
  BY NoneAssumption DEF IInv, TypeOK
<1>2. blockers'[b] # None
  BY NoneAssumption DEF IInv, TypeOK
<1>3. \A c \in Blockers : Resolved(c) => Resolved(c)'
  BY <1>1, <1>2 DEF IInv, TypeOK, Resolved
<1>4. Watched'
  BY <1>1, <1>2 DEF IInv, Watched
<1>5. SeenIsTrue'
  BY <1>3 DEF IInv, SeenIsTrue
<1>6. EscalationMade' /\ NoneEarly'
  BY DEF IInv, EscalationMade, NoneEarly, NotYetChecked
<1>7. EndedMeansSettled'
  BY <1>3 DEF IInv, EndedMeansSettled
<1>8. QED
  BY <1>4, <1>5, <1>6, <1>7

\* What people do keeps the invariant: a blocker never loses its resolution,
\* only a row that exists is acknowledged, and the manager's own escalation is
\* another row than the workflow's.
LEMMA IInvPeople ==
  ASSUME IInv, NEW b \in Blockers, People(b)
  PROVE  IInv'
<1>1. TypeOK'
  BY TypePeople DEF IInv
<1>2. ShownIsOpen'
  <2>1. Refresh(reminders')
    BY DEF People, Raise, MentorComments, RequestResolution, Resolve,
           ManagerEscalates, Acknowledge, Refresh
  <2>2. QED
    BY <2>1, RefreshedIsOpen DEF IInv
<1>3. CASE Raise(b)
  <2>1. [status |-> "OPEN", responded |-> FALSE] \in BlockerRow
    BY DEF BlockerRow, BlockerStatuses
  <2>2. ~Resolved(b)
    BY <1>3 DEF Raise, Resolved
  <2>3. QED
    BY <1>1, <1>2, <1>3, <2>1, <2>2, RowWritten DEF Raise, IInv
<1>4. CASE MentorComments(b) \/ RequestResolution(b) \/ Resolve(b)
  <2>1. PICK row \in BlockerRow :
          /\ blockers' = [blockers EXCEPT ![b] = row]
          /\ Resolved(b) => row.status = "RESOLVED"
    <3>1. blockers[b] \in BlockerRow
      BY <1>4 DEF IInv, TypeOK, MentorComments, RequestResolution, Resolve
    <3>2. CASE MentorComments(b)
      <4> DEFINE row == [blockers[b] EXCEPT !.responded = TRUE]
      <4>1. row \in BlockerRow /\ row.status = blockers[b].status
        BY <3>1 DEF BlockerRow
      <4>2. blockers' = [blockers EXCEPT ![b] = row]
        BY <3>2 DEF MentorComments
      <4>3. QED
        BY <4>1, <4>2 DEF Resolved
    <3>3. CASE RequestResolution(b)
      BY <3>1, <3>3 DEF RequestResolution, BlockerRow, BlockerStatuses, Resolved
    <3>4. CASE Resolve(b)
      BY <3>1, <3>4 DEF Resolve, BlockerRow, BlockerStatuses, Resolved
    <3>5. QED
      BY <1>4, <3>2, <3>3, <3>4
  <2>2. UNCHANGED <<reminders, tail, queue, flow>>
    BY <1>4 DEF MentorComments, RequestResolution, Resolve
  <2>3. QED
    BY <1>1, <1>2, <2>1, <2>2, RowWritten DEF IInv
<1>5. CASE ManagerEscalates(b) \/ \E slot \in Slots : Acknowledge(b, slot)
  <2>1. UNCHANGED <<blockers, tail, queue, flow>>
    BY <1>5 DEF ManagerEscalates, Acknowledge
  <2>2. \A c \in Blockers, k \in Nudges \cup {Escalation} :
          reminders'[c][k] = None <=> reminders[c][k] = None
    <3>1. CASE ManagerEscalates(b)
      BY <3>1 DEF ManagerEscalates, Inserted, IInv, TypeOK, Nudges, Escalation,
                  Slots
    <3>2. ASSUME NEW slot \in Slots, Acknowledge(b, slot)
          PROVE  \A c \in Blockers, k \in Slots :
                   reminders'[c][k] = None <=> reminders[c][k] = None
      BY <3>2, NoneAssumption DEF Acknowledge, IInv, TypeOK
    <3>3. Nudges \cup {Escalation} \subseteq Slots
      BY DEF Nudges, Escalation, Slots
    <3>4. QED
      BY <1>5, <3>1, <3>2, <3>3
  <2>3. Watched' /\ SeenIsTrue'
    BY <2>1 DEF IInv, Watched, SeenIsTrue, Resolved
  <2>4. EscalationMade' /\ NoneEarly' /\ EndedMeansSettled'
    BY <2>1, <2>2
    DEF IInv, EscalationMade, NoneEarly, EndedMeansSettled, NotYetChecked, Resolved
  <2>5. QED
    BY <1>1, <1>2, <2>3, <2>4 DEF IInv
<1>6. QED
  BY <1>3, <1>4, <1>5 DEF People

\* Sending and delivering the start message: an instance is only ever created
\* for a raised blocker, at its first step.
LEMMA IInvStart ==
  ASSUME IInv, NEW b \in Blockers, Enqueue(b) \/ LoseStart(b) \/ Deliver(b)
  PROVE  IInv'
<1>1. TypeOK'
  BY TypeStart DEF IInv
<1>2. UNCHANGED <<blockers, reminders, shown>>
  BY DEF Enqueue, LoseStart, Deliver
<1>3. CASE Enqueue(b) \/ LoseStart(b)
  <2>1. UNCHANGED flow
    BY <1>3 DEF Enqueue, LoseStart
  <2>2. Watched'
    BY <1>2, <1>3, <2>1 DEF IInv, TypeOK, Watched, Enqueue, LoseStart
  <2>3. QED
    BY <1>1, <1>2, <2>1, <2>2
    DEF IInv, SeenIsTrue, EscalationMade, NoneEarly, EndedMeansSettled,
        ShownIsOpen, NotYetChecked, Resolved
<1>4. CASE Deliver(b)
  <2>1. UNCHANGED tail /\ queue[b] > 0 /\ blockers[b] # None
    BY <1>4 DEF Deliver, IInv, Watched
  <2>2. \A c \in Blockers \ {b} : queue'[c] = queue[c]
    BY <1>4 DEF Deliver, IInv, TypeOK
  <2>3. \A c \in Blockers :
          \/ flow'[c] = flow[c]
          \/ c = b /\ flow[c] = None /\ flow'[c] = NewInstance
    BY <1>4 DEF Deliver, Created, IInv, TypeOK
  <2>4. Watched'
    BY <1>2, <2>1, <2>2, <2>3 DEF IInv, Watched
  <2>5. NewInstance.at = "read" /\ NewInstance.seen.status = "OPEN"
    BY DEF NewInstance
  <2>6. SeenIsTrue' /\ EscalationMade' /\ EndedMeansSettled'
    BY <1>2, <2>3, <2>5
    DEF IInv, SeenIsTrue, EscalationMade, EndedMeansSettled, Resolved
  <2>7. NoneEarly'
    BY <1>2, <2>3, <2>5 DEF IInv, NoneEarly, NotYetChecked
  <2>8. QED
    BY <1>1, <1>2, <2>4, <2>6, <2>7 DEF IInv, ShownIsOpen
<1>5. QED
  BY <1>3, <1>4

\* A step of an instance that leaves the reminders alone and goes where its new
\* place is justified.
LEMMA InstanceMoved ==
  ASSUME IInv, TypeOK', NEW b \in Blockers, flow[b] # None, Moved(b),
         UNCHANGED <<blockers, reminders, tail, queue, shown>>,
         flow'[b].seen.status = "RESOLVED" => Resolved(b),
         flow'[b].at = "escalate" => flow'[b].next # 2,
         flow'[b].at \in {"read", "sleep1"} => flow[b].at \in {"read", "sleep1"},
         flow'[b].at = "check1" => flow[b].at \in {"read", "sleep1", "check1"},
         flow'[b].at \in {"remind", "sleep2", "check2"} =>
           flow[b].at \in {"read", "sleep1", "check1", "remind", "sleep2", "check2"},
         flow'[b].at = "ended" =>
           \/ flow'[b].seen.status = "RESOLVED" /\ Resolved(b)
           \/ reminders[b][Escalation] # None
  PROVE  IInv'
<1>1. Watched'
  BY DEF IInv, Watched, Moved
<1>2. SeenIsTrue' /\ EscalationMade' /\ EndedMeansSettled'
  BY DEF IInv, SeenIsTrue, EscalationMade, EndedMeansSettled, Resolved, Moved
<1>3. NoneEarly'
  BY NoneAssumption DEF IInv, NoneEarly, NotYetChecked, Moved
<1>4. QED
  BY <1>1, <1>2, <1>3 DEF IInv, ShownIsOpen

\* While a call is to be made, the body has room for it.
LEMMA CallRoom ==
  ASSUME TypeOK, NEW b \in Blockers, NEW op, About(b, op)
  PROVE  /\ flow[b] # None /\ flow[b] \in FlowRow
         /\ flow[b].next + 1 \in 1..3
BY BodyLength DEF About, InStep, TypeOK, FlowRow

\* A call tells which step makes it.
LEMMA CallPlace ==
  ASSUME TypeOK, NEW b \in Blockers, NEW op, About(b, op)
  PROVE  /\ flow[b].at \in Steps
         /\ op = "task" => flow[b].at = "read"
         /\ op = "look" => flow[b].at \in {"check1", "check2"}
         /\ op = "manager" => flow[b].at = "escalate"
         /\ op \in {"intern", "mentor"} => flow[b].at = "remind"
<1> DEFINE at == flow[b].at  n == flow[b].next
<1>1. at \in Steps /\ n \in {1, 2} /\ n <= Len(Body(at)) /\ Body(at)[n] = op
  BY CallRoom DEF About, InStep, FlowRow
<1> HIDE DEF at, n
<1>2. CASE at = "read"
  BY <1>1, <1>2 DEF Body, at
<1>3. CASE at \in {"check1", "check2"}
  BY <1>1, <1>3 DEF Body, at
<1>4. CASE at = "remind"
  BY <1>1, <1>4 DEF Body, at
<1>5. CASE at = "escalate"
  BY <1>1, <1>5 DEF Body, at
<1>6. QED
  BY <1>1, <1>2, <1>3, <1>4, <1>5 DEF Steps

\* What a call made by the body of a step makes of its instance.
LEMMA CallMoves ==
  ASSUME TypeOK, NEW b \in Blockers, NEW op, About(b, op),
         flow' = [flow EXCEPT ![b].next = @ + 1]
  PROVE  /\ Moved(b)
         /\ flow'[b].at = flow[b].at /\ flow'[b].next = flow[b].next + 1
         /\ flow'[b].seen = flow[b].seen
<1>1. flow[b] \in FlowRow /\ flow[b].next + 1 \in 1..3
  BY CallRoom
<1>2. PICK n \in 1..3 : n = flow[b].next + 1
  BY <1>1
<1> DEFINE new == [flow[b] EXCEPT !.next = n]
<1>3. /\ new \in FlowRow
      /\ new.at = flow[b].at /\ new.next = n /\ new.seen = flow[b].seen
  BY <1>1 DEF FlowRow
<1>4. flow' = [flow EXCEPT ![b] = new]
  BY <1>2 DEF TypeOK
<1> HIDE DEF new
<1>5. QED
  BY <1>2, <1>3, <1>4 DEF TypeOK, Moved

\* A read of the row remembers it as it is then.
LEMMA LookMoves ==
  ASSUME TypeOK, NEW b \in Blockers, blockers[b] # None, Look(b)
  PROVE  /\ Moved(b)
         /\ flow'[b].at = flow[b].at /\ flow'[b].next = flow[b].next + 1
         /\ flow'[b].seen = blockers[b]
<1>1. flow[b] \in FlowRow /\ flow[b].next + 1 \in 1..3
  BY CallRoom DEF Look
<1>2. PICK n \in 1..3, row \in BlockerRow :
        n = flow[b].next + 1 /\ row = blockers[b]
  BY <1>1 DEF TypeOK
<1> DEFINE new == [flow[b] EXCEPT !.next = n, !.seen = row]
<1>3. /\ new \in FlowRow
      /\ new.at = flow[b].at /\ new.next = n /\ new.seen = row
  BY <1>1 DEF FlowRow
<1>4. flow' = [flow EXCEPT ![b] = new]
  BY <1>2 DEF Look, TypeOK
<1> HIDE DEF new
<1>5. QED
  BY <1>2, <1>3, <1>4 DEF TypeOK, Moved

\* What a retry makes of it.
LEMMA RetryMoves ==
  ASSUME TypeOK, NEW b \in Blockers, Retry(b)
  PROVE  /\ Moved(b)
         /\ flow'[b].at \in {flow[b].at, "failed"} /\ flow'[b].next = 1
         /\ flow'[b].seen = flow[b].seen
<1>1. flow[b] # None /\ flow[b] \in FlowRow
  BY DEF Retry, InStep, TypeOK
<1>2. CASE flow[b].tries < MaxTries
  <2>1. PICK n \in 1..3, t \in 1..MaxTries : n = 1 /\ t = flow[b].tries + 1
    BY <1>1, <1>2, EscalationAssumption DEF FlowRow
  <2> DEFINE new == [flow[b] EXCEPT !.next = n, !.tries = t]
  <2>2. /\ new \in FlowRow
        /\ new.at = flow[b].at /\ new.next = n /\ new.seen = flow[b].seen
    BY <1>1 DEF FlowRow
  <2>3. flow' = [flow EXCEPT ![b] = new]
    BY <1>2, <2>1 DEF Retry, TypeOK
  <2> HIDE DEF new
  <2>4. QED
    BY <2>1, <2>2, <2>3 DEF TypeOK, Moved
<1>3. CASE ~(flow[b].tries < MaxTries)
  <2>1. "failed" \in Places /\ Goto(b, "failed")
    BY <1>3 DEF Retry, Places
  <2>2. QED
    BY <1>1, <2>1, GotoMoves
<1>4. QED
  BY <1>2, <1>3

\* A recorded step, and the end of a sleep.
LEMMA RecordedMoves ==
  ASSUME TypeOK, NEW b \in Blockers, Recorded(b)
  PROVE  /\ Moved(b)
         /\ flow'[b].at = AfterStep(b) /\ flow'[b].next = 1
         /\ flow'[b].seen = flow[b].seen
<1>1. flow[b] # None /\ AfterStep(b) \in Places /\ Goto(b, AfterStep(b))
  BY DEF Recorded, InStep, AfterStep, Places, Steps
<1>2. QED
  BY <1>1, GotoMoves

\* The end of a sleep moves an instance to its next check.
LEMMA WakeMoves ==
  ASSUME TypeOK, NEW b \in Blockers, Wake(b)
  PROVE  /\ Moved(b)
         /\ \/ flow[b].at = "sleep1" /\ flow'[b].at = "check1"
            \/ flow[b].at = "sleep2" /\ flow'[b].at = "check2"
         /\ flow'[b].next = 1 /\ flow'[b].seen = flow[b].seen
<1>1. flow[b] # None /\ "check1" \in Places /\ "check2" \in Places
  BY DEF Wake, Places, Steps
<1>2. QED
  BY <1>1, GotoMoves DEF Wake

\* The steps of the workflow keep the invariant: a check records what it saw
\* before the run acts on it, and the escalation step leaves its row before the
\* run ends.
LEMMA IInvRemind ==
  ASSUME IInv, NEW b \in Blockers, NEW role \in Roles, Remind(b, role), TypeOK'
  PROVE  IInv'
<1>1. About(b, role) /\ UNCHANGED <<blockers, tail, queue, shown>>
  BY DEF Remind
<1>2. /\ flow[b] # None /\ flow[b].at \in {"remind", "escalate"}
      /\ role = "manager" <=> flow[b].at = "escalate"
  BY <1>1, CallPlace, CallRoom DEF Roles, IInv
<1>3. /\ Moved(b)
      /\ flow'[b].at = flow[b].at /\ flow'[b].seen = flow[b].seen
  BY <1>1, CallMoves DEF Remind, IInv
<1>4. \A c \in Blockers :
        /\ flow'[c] # None => flow[c] # None
        /\ flow[c] # None => /\ flow'[c] # None
                             /\ flow'[c].at = flow[c].at
                             /\ flow'[c].seen = flow[c].seen
                             /\ c # b => flow'[c].next = flow[c].next
  BY <1>2, <1>3, NoneAssumption DEF Moved
<1>5. \A c \in Blockers, k \in Slots :
        /\ reminders[c][k] # None => reminders'[c][k] = reminders[c][k]
        /\ reminders[c][k] = None /\ reminders'[c][k] # None =>
             /\ c = b
             /\ k \in Nudges => flow[b].at = "remind"
             /\ k = Escalation => flow[b].at = "escalate"
  <2> DEFINE slot == IF role = "manager" THEN Escalation
                     ELSE <<role, "BLOCKER_REMINDER">>
  <2>1. /\ slot \in Slots
        /\ slot \in Nudges => flow[b].at = "remind"
        /\ slot = Escalation => flow[b].at = "escalate"
    BY <1>2 DEF Slots, Nudges, Escalation, Roles
  <2>2. reminders' = Inserted(b, slot)
    BY DEF Remind
  <2> HIDE DEF slot
  <2>3. QED
    BY <2>1, <2>2 DEF Inserted, IInv, TypeOK
<1>6. Escalation \in Slots /\ Nudges \subseteq Slots
  BY DEF Escalation, Nudges, Slots
<1>7. flow[b].at = "escalate" => reminders'[b][Escalation] # None
  BY <1>2, <1>6, NoneAssumption DEF Remind, Inserted, IInv, TypeOK
<1>8. Watched' /\ SeenIsTrue'
  BY <1>1, <1>4 DEF IInv, Watched, SeenIsTrue, Resolved
<1>9. EscalationMade'
  BY <1>4, <1>5, <1>6, <1>7 DEF IInv, EscalationMade
<1>10. NoneEarly'
  BY <1>2, <1>4, <1>5, <1>6 DEF IInv, NoneEarly, NotYetChecked
<1>11. EndedMeansSettled'
  BY <1>1, <1>4, <1>5, <1>6 DEF IInv, EndedMeansSettled, Resolved
<1>12. ShownIsOpen'
  BY <1>1, <1>5, <1>6, NoneAssumption DEF IInv, TypeOK, ShownIsOpen
<1>13. QED
  BY <1>8, <1>9, <1>10, <1>11, <1>12 DEF IInv

\* Every step of an instance keeps the invariant.
LEMMA IInvWorkflow ==
  ASSUME IInv, NEW b \in Blockers, Advance(b) \/ Retry(b)
  PROVE  IInv'
<1>1. flow[b] # None /\ TypeOK
  BY DEF Advance, Retry, ReadTask, Look, Remind, Recorded, Wake, About, InStep,
         IInv
<1>2. blockers[b] # None
  BY <1>1 DEF IInv, Watched
<1>3. TypeOK'
  BY <1>1, <1>2, TypeWorkflow
<1>4. flow[b].seen.status = "RESOLVED" => Resolved(b)
  BY <1>1 DEF IInv, SeenIsTrue
<1>5. CASE ReadTask(b)
  <2>1. flow[b].at = "read"
    BY <1>1, <1>5, CallPlace DEF ReadTask
  <2>2. UNCHANGED <<blockers, reminders, tail, queue, shown>>
    BY <1>5 DEF ReadTask
  <2>3. Moved(b) /\ flow'[b].at = "read" /\ flow'[b].seen = flow[b].seen
    BY <1>1, <1>5, <2>1, CallMoves DEF ReadTask
  <2>4. QED
    BY <1>1, <1>3, <1>4, <2>1, <2>2, <2>3, InstanceMoved
<1>6. CASE Look(b)
  <2>1. flow[b].at \in {"check1", "check2"}
    BY <1>1, <1>6, CallPlace DEF Look
  <2>2. UNCHANGED <<blockers, reminders, tail, queue, shown>>
    BY <1>6 DEF Look
  <2>3. Moved(b) /\ flow'[b].at = flow[b].at /\ flow'[b].seen = blockers[b]
    BY <1>1, <1>2, <1>6, LookMoves
  <2>4. flow'[b].seen.status = "RESOLVED" => Resolved(b)
    BY <1>2, <2>3 DEF Resolved
  <2>5. QED
    BY <1>1, <1>3, <2>1, <2>2, <2>3, <2>4, InstanceMoved
<1>7. CASE \E role \in Roles : Remind(b, role)
  BY <1>3, <1>7, IInvRemind
<1>8. CASE Recorded(b)
  <2>1. UNCHANGED <<blockers, reminders, tail, queue, shown>>
    BY <1>8 DEF Recorded
  <2>2. /\ Moved(b) /\ flow'[b].at = AfterStep(b)
        /\ flow'[b].next = 1 /\ flow'[b].seen = flow[b].seen
    BY <1>1, <1>8, RecordedMoves
  <2>3. flow[b].at = "escalate" => reminders[b][Escalation] # None
    BY <1>1, <1>8 DEF Recorded, Body, IInv, EscalationMade
  <2>4. AfterStep(b) = "ended" => \/ flow[b].seen.status = "RESOLVED"
                                 \/ flow[b].at = "escalate"
    BY <1>8 DEF Recorded, InStep, AfterStep, Steps
  <2>5. /\ AfterStep(b) \notin {"read", "check1", "check2"}
        /\ AfterStep(b) = "sleep1" => flow[b].at = "read"
        /\ AfterStep(b) \in {"remind", "sleep2"} => flow[b].at \in {"check1", "remind"}
    BY <1>8 DEF Recorded, InStep, AfterStep, Steps
  <2>6. QED
    BY <1>1, <1>3, <1>4, <2>1, <2>2, <2>3, <2>4, <2>5, InstanceMoved
<1>9. CASE Wake(b)
  <2>1. UNCHANGED <<blockers, reminders, tail, queue, shown>>
    BY <1>9 DEF Wake
  <2>2. QED
    BY <1>1, <1>3, <1>4, <1>9, <2>1, WakeMoves, InstanceMoved
<1>10. CASE Retry(b)
  <2>1. UNCHANGED <<blockers, reminders, tail, queue, shown>>
    BY <1>10 DEF Retry
  <2>2. flow[b].at # "ended"
    BY <1>10 DEF Retry, InStep, Steps
  <2>3. QED
    BY <1>1, <1>3, <1>4, <1>10, <2>1, <2>2, RetryMoves, InstanceMoved
<1>11. QED
  BY <1>5, <1>6, <1>7, <1>8, <1>9, <1>10 DEF Advance

\* So does every step of the system.
LEMMA IInvStep == IInv /\ [Next]_vars => IInv'
<1> SUFFICES ASSUME IInv, [Next]_vars PROVE IInv'
  OBVIOUS
<1>1. ASSUME NEW b \in Blockers, People(b)
      PROVE  IInv'
  BY <1>1, IInvPeople
<1>2. ASSUME NEW b \in Blockers, Enqueue(b) \/ LoseStart(b) \/ Deliver(b)
      PROVE  IInv'
  BY <1>2, IInvStart
<1>3. ASSUME NEW b \in Blockers, Advance(b) \/ Retry(b)
      PROVE  IInv'
  BY <1>3, IInvWorkflow
<1>4. CASE Connect \/ Disconnect
  <2>1. UNCHANGED <<blockers, reminders, tail, queue, flow>>
    BY <1>4 DEF Connect, Disconnect
  <2>2. /\ online' \in BOOLEAN /\ shown' \subseteq Blockers
        /\ \A b \in shown' : reminders[b][Escalation] = "OPEN"
    BY <1>4 DEF Connect, Disconnect, EscalationItems
  <2>3. TypeOK' /\ ShownIsOpen'
    BY <2>1, <2>2 DEF IInv, TypeOK, ShownIsOpen
  <2>4. (Watched /\ SeenIsTrue /\ EscalationMade /\ NoneEarly
           /\ EndedMeansSettled)'
    BY <2>1 DEF IInv, Watched, SeenIsTrue, EscalationMade, NoneEarly,
                EndedMeansSettled, NotYetChecked, Resolved
  <2>5. QED
    BY <2>3, <2>4 DEF IInv
<1>5. CASE UNCHANGED vars
  BY <1>5 DEF vars, IInv, TypeOK, Watched, SeenIsTrue, EscalationMade, NoneEarly,
              EndedMeansSettled, ShownIsOpen, NotYetChecked, Resolved
<1>6. QED
  BY <1>1, <1>2, <1>3, <1>4, <1>5 DEF Next

\* The inductive invariant holds in every reachable state.
THEOREM Invariance == Spec => []IInv
BY IInvInit, IInvStep, PTL DEF Spec

\* Every table, message and instance stays well formed: no delivery count below
\* zero, no step past its body, no instance past its tries.
THEOREM TypeCorrect == Spec => []TypeOK
<1>1. IInv => TypeOK
  BY DEF IInv
<1>2. QED
  BY <1>1, Invariance, PTL

\* A run of the workflow that ends without failing saw its blocker resolved or
\* left an escalation (BlockerWorkflow.run).
THEOREM Settled == Spec => []EndedMeansSettled
<1>1. IInv => EndedMeansSettled
  BY DEF IInv
<1>2. QED
  BY <1>1, Invariance, PTL

\* The manager's list never holds an escalation that was acknowledged.
THEOREM ListIsOpen == Spec => []ShownIsOpen
<1>1. IInv => ShownIsOpen
  BY DEF IInv
<1>2. QED
  BY <1>1, Invariance, PTL

-----------------------------------------------------------------------------
(* Duplicate deliveries do not start a run over.                           *)

\* What a step of the specification does to an instance that exists.
Looked(b)  == /\ flow[b].at \in {"check1", "check2"}
              /\ flow'[b].at = flow[b].at /\ flow'[b].seen = blockers[b]
Called(b)  == flow[b].at \notin {"check1", "check2"} /\ flow'[b].at = flow[b].at
Retried(b) == /\ flow[b].at \in Steps
              /\ flow'[b].at \in {flow[b].at, "failed"} /\ flow'[b].next = 1
Passed(b)  == /\ flow[b].at \in Steps /\ flow[b].next # 1
              /\ flow'[b].at = AfterStep(b)
Woken(b)   == /\ \/ flow[b].at = "sleep1" /\ flow'[b].at = "check1"
                 \/ flow[b].at = "sleep2" /\ flow'[b].at = "check2"
              /\ flow'[b].next = 1

\* What one step may do to the instance of a blocker.
LEMMA InstanceStep ==
  ASSUME IInv, NEW b \in Blockers, flow[b] # None, [Next]_vars
  PROVE  /\ flow'[b] # None
         /\ \/ flow'[b] = flow[b] \/ Looked(b) \/ Called(b) \/ Retried(b)
            \/ Passed(b) \/ Woken(b)
<1> DEFINE Goal == /\ flow'[b] # None
                   /\ \/ flow'[b] = flow[b] \/ Looked(b) \/ Called(b)
                      \/ Retried(b) \/ Passed(b) \/ Woken(b)
<1> SUFFICES Goal
  OBVIOUS
<1> USE NoneAssumption
<1>1. TypeOK
  BY DEF IInv
<1>2. ASSUME NEW c \in Blockers, Advance(c) \/ Retry(c)
      PROVE  Goal
  <2>1. Moved(c) /\ (\/ Looked(c) \/ Called(c) \/ Retried(c) \/ Passed(c) \/ Woken(c))
    <3>1. CASE ReadTask(c) \/ \E role \in Roles : Remind(c, role)
      <4>1. PICK op \in {"task", "intern", "mentor", "manager"} :
              About(c, op) /\ flow' = [flow EXCEPT ![c].next = @ + 1]
        BY <3>1 DEF ReadTask, Remind, Roles
      <4>2. QED
        BY <1>1, <4>1, CallMoves, CallPlace DEF Called
    <3>2. CASE Look(c)
      <4>1. blockers[c] # None
        BY <3>2 DEF Look, About, InStep, IInv, Watched
      <4>2. About(c, "look")
        BY <3>2 DEF Look
      <4>3. QED
        BY <1>1, <3>2, <4>1, <4>2, LookMoves, CallPlace DEF Looked
    <3>3. CASE Recorded(c)
      <4>1. flow[c].at \in Steps /\ flow[c].next = Len(Body(flow[c].at)) + 1
        BY <3>3 DEF Recorded, InStep
      <4>2. flow[c].next # 1
        BY <4>1, BodyLength
      <4>3. QED
        BY <1>1, <3>3, <4>1, <4>2, RecordedMoves DEF Passed
    <3>4. CASE Wake(c)
      BY <1>1, <3>4, WakeMoves DEF Woken
    <3>5. CASE Retry(c)
      BY <1>1, <3>5, RetryMoves DEF Retried, Retry, InStep
    <3>6. QED
      BY <1>2, <3>1, <3>2, <3>3, <3>4, <3>5 DEF Advance
  <2>2. CASE c = b
    BY <2>1, <2>2 DEF Moved
  <2>3. CASE c # b
    BY <2>1, <2>3 DEF Moved
  <2>4. QED
    BY <2>2, <2>3
<1>3. CASE \E c \in Blockers : Deliver(c)
  BY <1>1, <1>3 DEF Deliver, Created, TypeOK
<1>4. CASE \E c \in Blockers : People(c) \/ Enqueue(c) \/ LoseStart(c)
  <2>1. UNCHANGED flow
    BY <1>4 DEF People, Raise, MentorComments, RequestResolution, Resolve,
                ManagerEscalates, Acknowledge, Enqueue, LoseStart
  <2>2. QED
    BY <2>1
<1>5. CASE Connect \/ Disconnect \/ UNCHANGED vars
  BY <1>5 DEF Connect, Disconnect, vars
<1>6. QED
  BY <1>2, <1>3, <1>4, <1>5 DEF Next

\* An instance is never started over and goes through its steps in order, for
\* any number of deliveries of its start message (the instance id blocker-<id>
\* makes the second create a no-op).
THEOREM NeverRestarted == Spec => RunsOnce
<1>1. IInv /\ [Next]_vars
        => [\A b \in Blockers : flow[b] # None =>
              flow'[b] # None /\ Rank(flow[b].at) <= Rank(flow'[b].at)]_flow
  <2> SUFFICES ASSUME IInv, [Next]_vars, NEW b \in Blockers, flow[b] # None
               PROVE  flow'[b] # None /\ Rank(flow[b].at) <= Rank(flow'[b].at)
    OBVIOUS
  <2>1. flow[b].at \in Places
    BY DEF IInv, TypeOK, FlowRow
  <2>2. flow[b].at \in Steps => /\ Rank(flow[b].at) <= Rank(AfterStep(b))
                               /\ Rank(flow[b].at) <= Rank("failed")
    BY DEF Steps, AfterStep, Rank
  <2>3. Rank("sleep1") <= Rank("check1") /\ Rank("sleep2") <= Rank("check2")
    BY DEF Rank
  <2>4. Rank(flow[b].at) <= Rank(flow[b].at)
    BY <2>1 DEF Places, Steps, Rank
  <2>5. QED
    BY <2>2, <2>3, <2>4, InstanceStep
    DEF Looked, Called, Retried, Passed, Woken
<1>2. QED
  BY <1>1, Invariance, PTL DEF Spec, RunsOnce

-----------------------------------------------------------------------------
(* Resolving or answering in time stops the reminders and the escalation.  *)

\* A raised blocker stays raised, resolved if it was, answered if it was.
LEMMA RowStep ==
  ASSUME IInv, NEW b \in Blockers, blockers[b] # None, [Next]_vars
  PROVE  /\ blockers'[b] # None
         /\ blockers[b].status = "RESOLVED" => blockers'[b].status = "RESOLVED"
         /\ blockers[b].responded => blockers'[b].responded
<1> USE NoneAssumption
<1>1. TypeOK /\ blockers[b] \in BlockerRow
  BY DEF IInv, TypeOK
<1>2. ASSUME NEW c \in Blockers, MentorComments(c)
      PROVE  /\ blockers'[b] # None
             /\ blockers'[b].status = blockers[b].status
             /\ blockers[b].responded => blockers'[b].responded
  <2> DEFINE new == [blockers[c] EXCEPT !.responded = TRUE]
  <2>1. /\ new \in BlockerRow
        /\ new.status = blockers[c].status /\ new.responded
    BY <1>1, <1>2 DEF MentorComments, TypeOK, BlockerRow
  <2>2. blockers' = [blockers EXCEPT ![c] = new]
    BY <1>2 DEF MentorComments
  <2> HIDE DEF new
  <2>3. CASE c = b
    BY <1>1, <2>1, <2>2, <2>3 DEF TypeOK
  <2>4. CASE c # b
    BY <1>1, <2>2, <2>4 DEF TypeOK
  <2>5. QED
    BY <2>3, <2>4
<1>3. ASSUME NEW c \in Blockers, NEW s \in BlockerStatuses, blockers[c] # None,
             blockers' = [blockers EXCEPT ![c].status = s]
      PROVE  blockers'[b] # None
  <2>1. [blockers[c] EXCEPT !.status = s] \in BlockerRow
    BY <1>1, <1>3 DEF TypeOK, BlockerRow
  <2>2. blockers' = [blockers EXCEPT ![c] = [blockers[c] EXCEPT !.status = s]]
    BY <1>3
  <2>3. QED
    BY <1>1, <2>1, <2>2 DEF TypeOK
<1>4. ASSUME NEW c \in Blockers, Raise(c) PROVE UNCHANGED blockers[b]
  <2>1. c # b
    BY <1>4 DEF Raise
  <2>2. QED
    BY <1>1, <1>4, <2>1 DEF Raise, TypeOK
<1>5. CASE \E c \in Blockers : MentorComments(c)
  BY <1>2, <1>5
<1>6. CASE \E c \in Blockers : RequestResolution(c)
  <2>1. "RESOLUTION_REQUESTED" \in BlockerStatuses
    BY DEF BlockerStatuses
  <2>2. blockers'[b] # None
    BY <1>3, <1>6, <2>1 DEF RequestResolution
  <2>3. QED
    BY <1>1, <1>6, <2>2 DEF RequestResolution, TypeOK, BlockerRow
<1>7. CASE \E c \in Blockers : Resolve(c)
  <2>1. "RESOLVED" \in BlockerStatuses
    BY DEF BlockerStatuses
  <2>2. blockers'[b] # None
    BY <1>3, <1>7, <2>1 DEF Resolve
  <2>3. QED
    BY <1>1, <1>7, <2>2 DEF Resolve, TypeOK, BlockerRow
<1>8. CASE UNCHANGED blockers
  BY <1>8
<1>9. QED
  BY <1>4, <1>5, <1>6, <1>7, <1>8
  DEF Next, People, ManagerEscalates, Acknowledge, Enqueue, LoseStart, Deliver,
      Advance, ReadTask, Look, Remind, Recorded, Wake, Retry, Connect, Disconnect,
      vars

\* Only the workflow creates its reminders, each in its own step.
LEMMA ReminderStep ==
  ASSUME IInv, NEW b \in Blockers, NEW k \in Nudges \cup {Escalation},
         reminders[b][k] = None, reminders'[b][k] # None, [Next]_vars
  PROVE  /\ flow[b] # None
         /\ flow[b].at = IF k = Escalation THEN "escalate" ELSE "remind"
<1> USE NoneAssumption
<1>1. TypeOK /\ k \in Slots
  BY DEF IInv, Nudges, Escalation, Slots
<1>2. ASSUME NEW c \in Blockers, ManagerEscalates(c) PROVE FALSE
  BY <1>1, <1>2 DEF ManagerEscalates, Inserted, TypeOK, Nudges, Escalation, Slots
<1>3. ASSUME NEW c \in Blockers, NEW slot \in Slots, Acknowledge(c, slot)
      PROVE  FALSE
  BY <1>1, <1>3 DEF Acknowledge, TypeOK
<1>4. ASSUME NEW c \in Blockers, NEW role \in Roles, Remind(c, role)
      PROVE  /\ flow[b] # None
             /\ flow[b].at = IF k = Escalation THEN "escalate" ELSE "remind"
  <2> DEFINE slot == IF role = "manager" THEN Escalation
                     ELSE <<role, "BLOCKER_REMINDER">>
  <2>1. About(c, role) /\ reminders' = Inserted(c, slot)
    BY <1>4 DEF Remind
  <2>2. slot \in Slots /\ (slot = Escalation <=> role = "manager")
    BY DEF Slots, Escalation, Roles
  <2> HIDE DEF slot
  <2>3. b = c /\ k = slot
    BY <1>1, <2>1, <2>2 DEF Inserted, TypeOK
  <2>4. QED
    BY <1>1, <2>1, <2>2, <2>3, CallPlace, CallRoom DEF Roles
<1>5. CASE UNCHANGED reminders
  BY <1>5
<1>6. QED
  BY <1>2, <1>3, <1>4, <1>5
  DEF Next, People, Raise, MentorComments, RequestResolution, Resolve, Enqueue,
      LoseStart, Deliver, Advance, ReadTask, Look, Recorded, Wake, Retry, Connect,
      Disconnect, vars

\* A new instance has not been checked.
LEMMA FirstStep ==
  ASSUME IInv, NEW b \in Blockers, flow[b] = None, [Next]_vars
  PROVE  NotYetChecked(b)'
<1>1. CASE \E c \in Blockers : Deliver(c)
  BY <1>1 DEF Deliver, Created, NewInstance, IInv, TypeOK, NotYetChecked
<1>2. CASE \E c \in Blockers : People(c) \/ Enqueue(c) \/ LoseStart(c)
  <2>1. UNCHANGED flow
    BY <1>2 DEF People, Raise, MentorComments, RequestResolution, Resolve,
                ManagerEscalates, Acknowledge, Enqueue, LoseStart
  <2>2. QED
    BY <2>1 DEF NotYetChecked
<1>3. CASE Connect \/ Disconnect \/ UNCHANGED vars
  BY <1>3 DEF Connect, Disconnect, vars, NotYetChecked
<1>4. ASSUME NEW c \in Blockers, Advance(c) \/ Retry(c)
      PROVE  flow'[b] = flow[b]
  <2>1. c # b
    BY <1>4 DEF Advance, Retry, ReadTask, Look, Remind, Recorded, Wake, About,
                InStep
  <2>2. TypeOK
    BY DEF IInv
  <2>3. QED
    BY <1>4, <2>1, <2>2
    DEF Advance, Retry, ReadTask, Look, Remind, Recorded, Wake, Goto, TypeOK
<1>5. QED
  BY <1>1, <1>2, <1>3, <1>4 DEF Next, NotYetChecked

\* What keeps the reminders away from then on: the first check is ahead and will
\* see it, or it has seen it, or it is behind without having reminded.
NudgesStopped(b) ==
  /\ blockers[b] # None
  /\ blockers[b].status = "RESOLVED" \/ blockers[b].responded
  /\ NotNudged(b)
  /\ \/ NotYetChecked(b)
     \/ flow[b].at \in {"sleep2", "check2", "escalate", "ended", "failed"}
     \/ /\ flow[b].at = "check1"
        /\ \/ flow[b].next = 1 \/ flow[b].seen.status = "RESOLVED"
           \/ flow[b].seen.responded

\* A step keeps "no nudge any more" once a blocker is answered in time.
LEMMA NudgesStoppedStep ==
  ASSUME NEW b \in Blockers
  PROVE  IInv /\ NudgesStopped(b) /\ [Next]_vars => NudgesStopped(b)'
<1> SUFFICES ASSUME IInv, NudgesStopped(b), [Next]_vars
             PROVE  NudgesStopped(b)'
  OBVIOUS
<1>1. /\ blockers'[b] # None
      /\ blockers'[b].status = "RESOLVED" \/ blockers'[b].responded
  BY RowStep DEF NudgesStopped
<1>2. NotNudged(b)'
  <2> SUFFICES ASSUME NEW k \in Nudges, reminders'[b][k] # None PROVE FALSE
    BY DEF NotNudged
  <2>1. reminders[b][k] = None /\ k # Escalation
    BY DEF NudgesStopped, NotNudged, Nudges, Escalation
  <2>2. flow[b] # None /\ flow[b].at = "remind"
    BY <2>1, ReminderStep
  <2>3. QED
    BY <2>2 DEF NudgesStopped, NotYetChecked
<1>3. CASE flow[b] = None
  BY <1>1, <1>2, <1>3, FirstStep DEF NudgesStopped
<1>4. CASE flow[b] # None
  <2>1. flow[b].at \in Steps => AfterStep(b) \notin {"read", "check1"}
    BY DEF Steps, AfterStep
  <2>2. CASE flow'[b] = flow[b] \/ Woken(b)
    BY <1>1, <1>2, <1>4, <2>2 DEF NudgesStopped, NotYetChecked, Woken
  <2>3. CASE Looked(b)
    BY <1>1, <1>2, <1>4, <2>3 DEF NudgesStopped, NotYetChecked, Looked
  <2>4. CASE Called(b) \/ Retried(b)
    BY <1>1, <1>2, <1>4, <2>4 DEF NudgesStopped, NotYetChecked, Called, Retried
  <2>5. CASE Passed(b)
    BY <1>1, <1>2, <1>4, <2>5
    DEF NudgesStopped, NotYetChecked, Passed, AfterStep, Steps
  <2>6. QED
    BY <1>4, <2>2, <2>3, <2>4, <2>5, InstanceStep
<1>5. QED
  BY <1>3, <1>4

\* A blocker that is resolved, or answered by the mentor, before the first check
\* never gets a BLOCKER_REMINDER, whatever is delivered or run again.
THEOREM RemindersStop == Spec => ResolveStopsReminders
<1> SUFFICES ASSUME NEW b \in Blockers
             PROVE  Spec => [](AnsweredInTime(b) => []NotNudged(b))
  BY DEF ResolveStopsReminders
<1>1. IInv /\ AnsweredInTime(b) => NudgesStopped(b)
  BY DEF AnsweredInTime, NudgesStopped, NotNudged, IInv, NoneEarly
<1>2. IInv /\ NudgesStopped(b) /\ [Next]_vars => NudgesStopped(b)'
  BY NudgesStoppedStep
<1>3. NudgesStopped(b) => NotNudged(b)
  BY DEF NudgesStopped
<1>4. QED
  BY <1>1, <1>2, <1>3, Invariance, PTL DEF Spec

\* The same for the escalation and the second check.
EscalationStopped(b) ==
  /\ Resolved(b) /\ NotEscalated(b)
  /\ \/ NotYetChecked(b)
     \/ flow[b].at \in {"check1", "remind", "sleep2", "ended", "failed"}
     \/ /\ flow[b].at = "check2"
        /\ flow[b].next = 1 \/ flow[b].seen.status = "RESOLVED"

\* A step keeps "no escalation any more" once a blocker is resolved in time.
LEMMA EscalationStoppedStep ==
  ASSUME NEW b \in Blockers
  PROVE  IInv /\ EscalationStopped(b) /\ [Next]_vars => EscalationStopped(b)'
<1> SUFFICES ASSUME IInv, EscalationStopped(b), [Next]_vars
             PROVE  EscalationStopped(b)'
  OBVIOUS
<1>1. Resolved(b)'
  BY RowStep DEF EscalationStopped, Resolved
<1>2. NotEscalated(b)'
  <2> SUFFICES ASSUME reminders'[b][Escalation] # None PROVE FALSE
    BY DEF NotEscalated
  <2>1. flow[b] # None /\ flow[b].at = "escalate"
    BY ReminderStep DEF EscalationStopped, NotEscalated
  <2>2. QED
    BY <2>1 DEF EscalationStopped, NotYetChecked
<1>3. CASE flow[b] = None
  BY <1>1, <1>2, <1>3, FirstStep DEF EscalationStopped
<1>4. CASE flow[b] # None
  <2>1. CASE flow'[b] = flow[b] \/ Woken(b)
    BY <1>1, <1>2, <1>4, <2>1 DEF EscalationStopped, NotYetChecked, Woken
  <2>2. CASE Looked(b)
    BY <1>1, <1>2, <1>4, <2>2
    DEF EscalationStopped, NotYetChecked, Looked, Resolved
  <2>3. CASE Called(b) \/ Retried(b)
    BY <1>1, <1>2, <1>4, <2>3 DEF EscalationStopped, NotYetChecked, Called, Retried
  <2>4. CASE Passed(b)
    BY <1>1, <1>2, <1>4, <2>4
    DEF EscalationStopped, NotYetChecked, Passed, AfterStep, Steps
  <2>5. QED
    BY <1>4, <2>1, <2>2, <2>3, <2>4, InstanceStep
<1>5. QED
  BY <1>3, <1>4

\* A blocker resolved before the second check is never escalated by the workflow.
THEOREM EscalationStops == Spec => ResolveStopsEscalation
<1> SUFFICES ASSUME NEW b \in Blockers
             PROVE  Spec => [](ResolvedInTime(b) => []NotEscalated(b))
  BY DEF ResolveStopsEscalation
<1>1. IInv /\ ResolvedInTime(b) => EscalationStopped(b)
  BY DEF ResolvedInTime, EscalationStopped, NotEscalated, IInv, NoneEarly
<1>2. IInv /\ EscalationStopped(b) /\ [Next]_vars => EscalationStopped(b)'
  BY EscalationStoppedStep
<1>3. EscalationStopped(b) => NotEscalated(b)
  BY DEF EscalationStopped
<1>4. QED
  BY <1>1, <1>2, <1>3, Invariance, PTL DEF Spec

\* Both together: the workflow leaves alone whom a person already dealt with,
\* neither nudging after the first check nor escalating after the second.
THEOREM LeftAlone == Spec => ResolvedIsLeftAlone
BY RemindersStop, EscalationStops, PTL DEF ResolvedIsLeftAlone
=============================================================================
