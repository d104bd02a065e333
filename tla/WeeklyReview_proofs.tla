------------------------- MODULE WeeklyReview_proofs -------------------------
(***************************************************************************)
(* Proofs about WeeklyReview, for any reports, any number of requests, any *)
(* number of rounds and any number of tries of a step.                     *)
(***************************************************************************)
EXTENDS WeeklyReview, TLAPS

-----------------------------------------------------------------------------
(* The inductive invariant: for each handler what its request has passed,  *)
(* for each report how its row, its instance and the requests in it agree. *)

\* A request that a mentor or a manager sent for report r under review.
Decided(c, r) ==
  /\ calls[c] # None /\ calls[c].report = r
  /\ calls[c].kind \in {"review", "override"} /\ calls[c].decision \in Decisions
  /\ calls[c].sawStatus \in UnderReview

\* A handler on its way has a row; one that is about to create an instance is
\* the only one to do so.
Creating(c) == calls[c] # None /\ calls[c].pc = "create"
HandlerOK(c) ==
  /\ calls[c] # None /\ calls[c].pc \in {"create", "created", "checked"} =>
       reports[calls[c].report] # None
  /\ calls[c] # None /\ calls[c].pc = "checked" =>
       calls[c].kind \in {"edit", "submit"} \/ Decided(c, calls[c].report)
  /\ Creating(c) =>
       /\ flow[calls[c].report] = None
       /\ \A d \in Calls : Creating(d) /\ calls[d].report = calls[c].report => d = c
HandlersOK == \A c \in Calls : HandlerOK(c)

\* An instance has a row and holds decisions made for it; where it is decides
\* what it holds.
FlowOK(r) == flow[r] # None =>
  /\ reports[r] # None
  /\ flow[r].event # None => Decided(flow[r].event, r)
  /\ \A i \in 1..Len(flow[r].reviews) : Decided(flow[r].reviews[i], r)
  /\ flow[r].at \in {"submit", "review"} => flow[r].next = 1 /\ flow[r].tries = 1
  /\ flow[r].at = "draft" => flow[r].round = 0 /\ flow[r].event = None
  /\ flow[r].at \in {"approve", "changes"} =>
       /\ flow[r].event # None
       /\ flow[r].at = "approve" <=> calls[flow[r].event].decision = "APPROVE"

\* A row without an instance was never moved.
Unmoved(r) == (reports[r] # None /\ flow[r] = None) =>
  reports[r].status = "DRAFT" /\ reports[r].round = 0

\* An approved row has the instance that approved it.
ApprovalOK(r) == Approved(r) =>
  /\ flow[r] # None /\ flow[r].event # None
  /\ calls[flow[r].event].decision = "APPROVE"

\* Past its two calls, an override is on record.
OverrideOK(r) ==
  (/\ flow[r] # None /\ Overridden(r)
   /\ \/ flow[r].at \in {"submit", "expire", "mark", "review", "ended"}
      \/ flow[r].at \in {"approve", "changes"} /\ flow[r].next > 2)
  => reports[r].override = flow[r].event /\ flow[r].event \in audit

ReportOK(r) ==
  RowFollows(r) /\ FlowOK(r) /\ Unmoved(r) /\ ApprovalOK(r) /\ OverrideOK(r)

OneOpen == \A p, q \in Reports : OpenReport(p) /\ OpenReport(q) => p = q

IInv == /\ TypeOK /\ HandlersOK /\ OneOpen
        /\ \A r \in Reports : ReportOK(r)

-----------------------------------------------------------------------------
(* Type correctness.                                                       *)

\* Where an instance is that is about to make a call.
LEMMA Whereabouts ==
  ASSUME TypeOK, NEW r \in Reports, NEW op, About(r, op)
  PROVE  /\ flow[r] \in FlowRow /\ flow[r].next \in 1..3
         /\ op = "draft" => flow[r].at = "draft"
         /\ op = "status" => flow[r].at \in Steps \ {"draft"} /\ flow[r].next = 1
         /\ op = "override" => flow[r].at \in {"approve", "changes"} /\ flow[r].next = 2
                                /\ Overridden(r)
         /\ op = "remind" => flow[r].at \in Steps \ {"draft", "expire"} /\ flow[r].next > 1
         /\ op = "remind" /\ Overridden(r) /\ flow[r].at # "mark" => flow[r].next = 3
<1> DEFINE f == flow[r]
<1>1. f \in FlowRow /\ f.at \in Steps /\ f.next \in 1..4
  BY DEF TypeOK, About, Live, FlowRow
<1>2. f.next <= Len(Body(r)) /\ Body(r)[f.next] = op
  BY DEF About
<1>3. CASE f.at = "draft"
  <2>1. Body(r) = <<"draft">>
    BY <1>3 DEF Body
  <2>2. QED
    BY <1>1, <1>2, <1>3, <2>1
<1>4. CASE f.at = "expire"
  <2>1. Body(r) = <<"status">>
    BY <1>4 DEF Body
  <2>2. QED
    BY <1>1, <1>2, <1>4, <2>1
<1>5. CASE f.at = "mark"
  <2>1. Body(r) = <<"status", "remind">>
    BY <1>5 DEF Body
  <2>2. QED
    BY <1>1, <1>2, <1>5, <2>1
<1>6. CASE f.at \in {"approve", "changes"} /\ Overridden(r)
  <2>1. Body(r) = <<"status", "override", "remind">>
    BY <1>6 DEF Body
  <2>2. QED
    BY <1>1, <1>2, <1>6, <2>1
<1>7. CASE f.at \in {"approve", "changes"} /\ ~Overridden(r)
  <2>1. Body(r) = <<"status", "remind">>
    BY <1>7 DEF Body
  <2>2. QED
    BY <1>1, <1>2, <1>7, <2>1
<1>8. QED
  BY <1>1, <1>3, <1>4, <1>5, <1>6, <1>7 DEF Steps

\* A new row and a new instance are well formed.
LEMMA NewRows ==
  /\ NewRow \in ReportRow /\ [NewRow EXCEPT !.instance = TRUE] \in ReportRow
  /\ Instance \in FlowRow
<1>1. 0 \in 0..MaxRounds /\ 0 \in 0..(MaxRounds - 1) /\ 1 \in 1..MaxTries
  BY WeeklyAssumption
<1>2. /\ "DRAFT" \in WeeklyStatuses /\ "empty" \in Texts /\ "draft" \in Places
      /\ TRUE \in BOOLEAN /\ FALSE \in BOOLEAN
  BY DEF WeeklyStatuses, Texts, Places, Steps
<1>3. NewRow \in ReportRow
  BY <1>1, <1>2 DEF NewRow, ReportRow
<1>4. [NewRow EXCEPT !.instance = TRUE] \in ReportRow
  BY <1>1, <1>2, <1>3 DEF ReportRow
<1>5. <<>> \in Seq(Calls)
  OBVIOUS
<1>6. Instance \in FlowRow
  BY <1>1, <1>2, <1>5 DEF Instance, FlowRow
<1>7. QED
  BY <1>3, <1>4, <1>6

\* The initial state is well formed.
LEMMA TypeInit == Init => TypeOK
<1> SUFFICES ASSUME Init PROVE TypeOK
  OBVIOUS
<1>1. [NewRow EXCEPT !.instance = TRUE] \in ReportRow
  BY NewRows
<1>2. Instance \in FlowRow
  BY NewRows
<1>3. reports \in [Reports -> ReportRow \cup {None}]
  BY <1>1 DEF Init
<1>4. flow \in [Reports -> FlowRow \cup {None}]
  BY <1>2 DEF Init
<1>5. QED
  BY <1>3, <1>4 DEF Init, TypeOK

\* A request starts from what it saw.
LEMMA TypeCall ==
  ASSUME TypeOK, NEW kind \in AllKinds, NEW r \in Reports,
         NEW d \in Decisions \cup {None},
         NEW pc \in {"create", "created", "checked", "ok", "conflict", "error"}
  PROVE  Call(kind, r, d, pc) \in CallRow
<1>1. reports[r] \in ReportRow \cup {None}
  BY DEF TypeOK
<1>2. CASE reports[r] = None
  BY <1>2, WeeklyAssumption DEF Call, CallRow, WeeklyStatuses
<1>3. CASE reports[r] \in ReportRow
  BY <1>3, WeeklyAssumption DEF Call, CallRow, WeeklyStatuses, ReportRow
<1>4. QED
  BY <1>1, <1>2, <1>3

\* The handlers keep the types.
LEMMA TypeHandler ==
  ASSUME TypeOK, HandlersOK, NEW c \in Calls, Handler(c)
  PROVE  TypeOK'
<1>1. CASE Start(c)
  <2>1. reports' \in [Reports -> ReportRow \cup {None}]
    BY <1>1, NewRows DEF Start, TypeOK
  <2>2. calls' \in [Calls -> CallRow \cup {None}]
    <3>1. \A r \in Reports, pc \in {"ok", "create"} : Call("start", r, None, pc) \in CallRow
      BY TypeCall DEF AllKinds
    <3>2. QED
      BY <1>1, <3>1 DEF Start, TypeOK
  <2>3. QED
    BY <1>1, <2>1, <2>2 DEF Start, TypeOK
<1>2. CASE CreateWorkflow(c)
  <2>1. calls[c] \in CallRow
    BY <1>2 DEF CreateWorkflow, TypeOK
  <2>2. calls[c].report \in Reports
    BY <2>1 DEF CallRow
  <2>3. flow' \in [Reports -> FlowRow \cup {None}]
    BY <1>2, <2>2, NewRows DEF CreateWorkflow, TypeOK
  <2>4. \A pc \in {"created", "error"} : [calls[c] EXCEPT !.pc = pc] \in CallRow
    BY <2>1 DEF CallRow
  <2>5. calls' \in [Calls -> CallRow \cup {None}]
    BY <1>2, <2>4 DEF CreateWorkflow, TypeOK
  <2>6. QED
    BY <1>2, <2>3, <2>5 DEF CreateWorkflow, TypeOK
<1>3. CASE SetInstance(c)
  <2>1. calls[c] \in CallRow /\ calls[c].report \in Reports
    BY <1>3 DEF SetInstance, TypeOK, CallRow
  <2>2. [calls[c] EXCEPT !.pc = "ok"] \in CallRow
    BY <2>1 DEF CallRow
  <2>3. calls' \in [Calls -> CallRow \cup {None}]
    BY <1>3, <2>2 DEF SetInstance, TypeOK
  <2>4. reports[calls[c].report] \in ReportRow
    BY <1>3, <2>1 DEF SetInstance, TypeOK, HandlersOK, HandlerOK
  <2>5. [reports[calls[c].report] EXCEPT !.instance = TRUE] \in ReportRow
    BY <2>4 DEF ReportRow
  <2>6. reports' \in [Reports -> ReportRow \cup {None}]
    BY <1>3, <2>1, <2>5 DEF SetInstance, TypeOK
  <2>7. QED
    BY <1>3, <2>3, <2>6 DEF SetInstance, TypeOK
<1>4. CASE Check(c)
  <2>1. \A kind \in Kinds \ {"start"} : \A r \in Reports, d \in DecisionsOf(kind),
           pc \in {"checked", "conflict"} : Call(kind, r, d, pc) \in CallRow
    BY TypeCall, KindsAssumption DEF DecisionsOf
  <2>2. calls' \in [Calls -> CallRow \cup {None}]
    BY <1>4, <2>1 DEF Check, TypeOK
  <2>3. QED
    BY <1>4, <2>2 DEF Check, TypeOK
<1>5. CASE Edit(c)
  <2>1. calls[c] \in CallRow /\ calls[c].report \in Reports
    BY <1>5 DEF Edit, TypeOK, CallRow
  <2>2. [calls[c] EXCEPT !.pc = "ok"] \in CallRow
    BY <2>1 DEF CallRow
  <2>3. calls' \in [Calls -> CallRow \cup {None}]
    BY <1>5, <2>2 DEF Edit, TypeOK
  <2>4. reports[calls[c].report] \in ReportRow
    BY <1>5, <2>1 DEF Edit, TypeOK, HandlersOK, HandlerOK
  <2>5. [reports[calls[c].report] EXCEPT !.draft = c] \in ReportRow
    BY <2>4 DEF ReportRow, Texts
  <2>6. reports' \in [Reports -> ReportRow \cup {None}]
    BY <1>5, <2>1, <2>5 DEF Edit, TypeOK
  <2>7. QED
    BY <1>5, <2>3, <2>6 DEF Edit, TypeOK
<1>6. CASE Send(c)
  <2>1. calls[c] \in CallRow /\ calls[c].report \in Reports
    BY <1>6 DEF Send, TypeOK, CallRow
  <2> DEFINE r == calls[c].report
  <2>2. \A pc \in {"ok", "conflict"} : [calls[c] EXCEPT !.pc = pc] \in CallRow
    BY <2>1 DEF CallRow
  <2>3. calls' \in [Calls -> CallRow \cup {None}]
    BY <1>6, <2>2 DEF Send, TypeOK
  <2>4. Live(r) => flow[r] \in FlowRow
    BY <2>1 DEF Live, TypeOK
  <2>5. ASSUME Live(r)
        PROVE  /\ [flow[r] EXCEPT !.submits = Append(@, c)] \in FlowRow
               /\ [flow[r] EXCEPT !.reviews = Append(@, c)] \in FlowRow
    <3>1. flow[r].submits \in Seq(Calls) /\ flow[r].reviews \in Seq(Calls)
      BY <2>4, <2>5 DEF FlowRow
    <3>2. /\ Append(flow[r].submits, c) \in Seq(Calls)
          /\ Append(flow[r].reviews, c) \in Seq(Calls)
      BY <3>1
    <3>3. QED
      BY <2>4, <2>5, <3>2 DEF FlowRow
  <2>6. flow' \in [Reports -> FlowRow \cup {None}]
    BY <1>6, <2>1, <2>5 DEF Send, TypeOK
  <2>7. QED
    BY <1>6, <2>3, <2>6 DEF Send, TypeOK
<1>7. CASE Abandon(c)
  <2>1. [calls[c] EXCEPT !.pc = "error"] \in CallRow
    BY <1>7 DEF Abandon, TypeOK, CallRow
  <2>2. calls' \in [Calls -> CallRow \cup {None}]
    BY <1>7, <2>1 DEF Abandon, TypeOK
  <2>3. QED
    BY <1>7, <2>2 DEF Abandon, TypeOK
<1>8. QED
  BY <1>1, <1>2, <1>3, <1>4, <1>5, <1>6, <1>7 DEF Handler

\* The steps and waits of an instance keep the types.
LEMMA TypeAdvance ==
  ASSUME TypeOK, HandlersOK, NEW r \in Reports, ReportOK(r), Advance(r) \/ Retry(r)
  PROVE  TypeOK'
<1> DEFINE f == flow[r]
<1>1. /\ f \in FlowRow /\ f # None /\ reports[r] # None /\ reports[r] \in ReportRow
      /\ Live(r)
  BY DEF Advance, Retry, WriteDraft, SetStatus, RecordOverride, Remind, Recorded, TakeSubmit,
         TakeReview, Timeout, About, Live, ReportOK, FlowOK, TypeOK
<1>2. ASSUME f.next \in 1..3, Made(r)
      PROVE  flow' \in [Reports -> FlowRow \cup {None}]
  <2>1. [f EXCEPT !.next = @ + 1] \in FlowRow
    BY <1>1, <1>2 DEF FlowRow
  <2>2. QED
    BY <1>2, <2>1 DEF Made, TypeOK
<1>3. ASSUME NEW at \in Places, NEW n \in 0..(MaxRounds - 1), Goto(r, at, n)
      PROVE  flow' \in [Reports -> FlowRow \cup {None}]
  <2>1. [f EXCEPT !.at = at, !.round = n, !.next = 1, !.tries = 1] \in FlowRow
    <3>1. 1 \in 1..4 /\ 1 \in 1..MaxTries
      BY WeeklyAssumption
    <3>2. QED
      BY <1>1, <3>1 DEF FlowRow
  <2>2. flow' = [flow EXCEPT ![r] = [f EXCEPT !.at = at, !.round = n, !.next = 1, !.tries = 1]]
    BY <1>1, <1>3 DEF Goto, TypeOK, FlowRow
  <2>3. QED
    BY <2>1, <2>2 DEF TypeOK
<1>4. CASE WriteDraft(r)
  <2>1. [reports[r] EXCEPT !.draft = "agent"] \in ReportRow
    BY <1>1 DEF ReportRow, Texts
  <2>2. flow' \in [Reports -> FlowRow \cup {None}]
    BY <1>2, <1>4, Whereabouts DEF WriteDraft
  <2>3. QED
    BY <1>4, <2>1, <2>2 DEF WriteDraft, TypeOK
<1>5. CASE SetStatus(r)
  <2>1. /\ Target(r)[1] \in WeeklyStatuses /\ Target(r)[2] \in 0..MaxRounds
    BY <1>1, WeeklyAssumption DEF Target, FlowRow, WeeklyStatuses
  <2>2. WithStatus(reports[r], Target(r)[1], Target(r)[2]) \in ReportRow
    BY <1>1, <2>1 DEF WithStatus, ReportRow
  <2>3. flow' \in [Reports -> FlowRow \cup {None}]
    BY <1>2, <1>5, Whereabouts DEF SetStatus
  <2>4. QED
    BY <1>5, <2>2, <2>3 DEF SetStatus, TypeOK
<1>6. CASE RecordOverride(r)
  <2>1. f.event \in Calls
    BY <1>1, <1>6, Whereabouts DEF RecordOverride, Overridden, FlowRow
  <2>2. [reports[r] EXCEPT !.override = f.event] \in ReportRow
    BY <1>1, <2>1 DEF ReportRow
  <2>3. flow' \in [Reports -> FlowRow \cup {None}]
    BY <1>2, <1>6, Whereabouts DEF RecordOverride
  <2>4. QED
    BY <1>6, <2>1, <2>2, <2>3 DEF RecordOverride, TypeOK
<1>7. CASE Remind(r)
  <2>1. f.round \in 0..MaxRounds
    BY <1>1, WeeklyAssumption DEF FlowRow
  <2>2. Recipient(f.at) \in Roles
    BY DEF Recipient, Roles
  <2>3. reminders' \in [Reports -> [Roles -> 0..MaxRounds \cup {None}]]
    BY <1>7, <2>1, <2>2 DEF Remind, TypeOK
  <2>4. flow' \in [Reports -> FlowRow \cup {None}]
    BY <1>2, <1>7, Whereabouts DEF Remind
  <2>5. QED
    BY <1>7, <2>3, <2>4 DEF Remind, TypeOK
<1>8. CASE Recorded(r)
  <2>1. AfterStep(r)[1] \in Places /\ AfterStep(r)[2] \in 0..(MaxRounds - 1)
    BY <1>1, WeeklyAssumption DEF AfterStep, FlowRow, Places, Steps
  <2>2. QED
    BY <1>3, <1>8, <2>1 DEF Recorded, TypeOK
<1>9. CASE TakeSubmit(r)
  <2>1. Tail(f.submits) \in Seq(Calls)
    BY <1>1, <1>9 DEF TakeSubmit, FlowRow
  <2>2. [f EXCEPT !.at = "mark", !.submits = Tail(@)] \in FlowRow
    BY <1>1, <2>1 DEF FlowRow, Places, Steps
  <2>3. flow' = [flow EXCEPT ![r] = [f EXCEPT !.at = "mark", !.submits = Tail(@)]]
    BY <1>1, <1>9 DEF TakeSubmit, TypeOK, FlowRow
  <2>4. QED
    BY <1>9, <2>2, <2>3 DEF TakeSubmit, TypeOK
<1>10. CASE TakeReview(r)
  <2> DEFINE c == Head(f.reviews)
             at == IF calls[c].decision = "APPROVE" THEN "approve" ELSE "changes"
  <2>1. f.reviews \in Seq(Calls) /\ f.reviews # <<>>
    BY <1>1, <1>10 DEF TakeReview, FlowRow
  <2>2. c \in Calls /\ Tail(f.reviews) \in Seq(Calls)
    BY <2>1
  <2>3. at \in Places
    BY DEF Places, Steps
  <2>4. [f EXCEPT !.at = at, !.event = c, !.reviews = Tail(@)] \in FlowRow
    BY <1>1, <2>2, <2>3 DEF FlowRow
  <2>5. flow' = [flow EXCEPT ![r] = [f EXCEPT !.at = at, !.event = c, !.reviews = Tail(@)]]
    BY <1>1, <1>10 DEF TakeReview, TypeOK, FlowRow
  <2>6. QED
    BY <1>10, <2>4, <2>5 DEF TakeReview, TypeOK
<1>11. CASE Timeout(r)
  <2>1. f.round \in 0..(MaxRounds - 1)
    BY <1>1 DEF FlowRow
  <2>2. "expire" \in Places /\ "ended" \in Places
    BY DEF Places, Steps
  <2>3. QED
    BY <1>3, <1>11, <2>1, <2>2 DEF Timeout, TypeOK
<1>12. CASE Retry(r)
  <2>1. CASE f.tries < MaxTries
    <3>1. [f EXCEPT !.next = 1, !.tries = @ + 1] \in FlowRow
      <4>1. 1 \in 1..4 /\ f.tries + 1 \in 1..MaxTries
        BY <1>1, <2>1, WeeklyAssumption DEF FlowRow
      <4>2. QED
        BY <1>1, <4>1 DEF FlowRow
    <3>2. flow' = [flow EXCEPT ![r] = [f EXCEPT !.next = 1, !.tries = @ + 1]]
      BY <1>1, <1>12, <2>1 DEF Retry, TypeOK, FlowRow
    <3>3. QED
      BY <1>12, <3>1, <3>2 DEF Retry, TypeOK
  <2>2. CASE ~(f.tries < MaxTries)
    <3>1. f.round \in 0..(MaxRounds - 1) /\ "failed" \in Places
      BY <1>1 DEF FlowRow, Places
    <3>2. QED
      BY <1>3, <1>12, <2>2, <3>1 DEF Retry, TypeOK
  <2>3. QED
    BY <2>1, <2>2
<1>13. QED
  BY <1>4, <1>5, <1>6, <1>7, <1>8, <1>9, <1>10, <1>11, <1>12 DEF Advance

-----------------------------------------------------------------------------
(* What a step leaves alone.                                               *)

\* What a request is about stays what it is.
CallsKept == \A c \in Calls : calls[c] # None =>
  /\ calls'[c] # None
  /\ calls'[c].kind = calls[c].kind /\ calls'[c].report = calls[c].report
  /\ calls'[c].decision = calls[c].decision /\ calls'[c].sawStatus = calls[c].sawStatus

\* A row is written, if at all, in its texts only.
RowKept(r) ==
  \/ reports'[r] = reports[r]
  \/ /\ reports[r] # None /\ reports'[r] # None
     /\ reports'[r].status = reports[r].status /\ reports'[r].round = reports[r].round
     /\ reports'[r].override = reports[r].override

\* No handler changes what another request is about.
LEMMA HandlersKeepCalls ==
  ASSUME TypeOK, NEW c \in Calls, Handler(c)
  PROVE  CallsKept
<1>1. \A d \in Calls : calls[d] \in CallRow \cup {None}
  BY DEF TypeOK
<1>2. CASE calls[c] = None
  <2>1. \A d \in Calls : d # c => calls'[d] = calls[d]
    BY <1>2 DEF Handler, Start, CreateWorkflow, SetInstance, Check, Edit, Send, Abandon, TypeOK
  <2>2. QED
    BY <1>2, <2>1 DEF CallsKept
<1>3. CASE calls[c] # None
  <2>1. \E pc \in {"created", "error", "ok", "conflict"} : calls' = [calls EXCEPT ![c].pc = pc]
    BY <1>3 DEF Handler, Start, CreateWorkflow, SetInstance, Check, Edit, Send, Abandon
  <2>2. PICK pc \in {"created", "error", "ok", "conflict"} : calls' = [calls EXCEPT ![c].pc = pc]
    BY <2>1
  <2>3. calls[c] \in CallRow
    BY <1>1, <1>3
  <2>4. calls' = [calls EXCEPT ![c] = [calls[c] EXCEPT !.pc = pc]]
    BY <2>2, <2>3 DEF TypeOK, CallRow
  <2>5. /\ [calls[c] EXCEPT !.pc = pc] \in CallRow
        /\ [calls[c] EXCEPT !.pc = pc].kind = calls[c].kind
        /\ [calls[c] EXCEPT !.pc = pc].report = calls[c].report
        /\ [calls[c] EXCEPT !.pc = pc].decision = calls[c].decision
        /\ [calls[c] EXCEPT !.pc = pc].sawStatus = calls[c].sawStatus
    BY <2>3 DEF CallRow
  <2>6. /\ calls'[c] = [calls[c] EXCEPT !.pc = pc]
        /\ \A d \in Calls : d # c => calls'[d] = calls[d]
    BY <2>4 DEF TypeOK
  <2>7. QED
    BY <2>5, <2>6, NoneAssumption DEF CallsKept
<1>4. QED
  BY <1>2, <1>3

\* An instance writes its own row and entry only, and no request.
LEMMA AdvanceKeeps ==
  ASSUME TypeOK, NEW r \in Reports, Advance(r) \/ Retry(r)
  PROVE  /\ CallsKept /\ calls' = calls /\ audit \subseteq audit'
         /\ \A q \in Reports \ {r} : reports'[q] = reports[q] /\ flow'[q] = flow[q]
<1>1. calls' = calls /\ audit \subseteq audit'
  BY DEF Advance, Retry, WriteDraft, SetStatus, RecordOverride, Remind, Recorded, TakeSubmit,
         TakeReview, Timeout
<1>2. \A q \in Reports \ {r} : reports'[q] = reports[q]
  BY DEF Advance, Retry, WriteDraft, SetStatus, RecordOverride, Remind, Recorded, TakeSubmit,
         TakeReview, Timeout, TypeOK
<1>3. \A q \in Reports \ {r} : flow'[q] = flow[q]
  BY DEF Advance, Retry, WriteDraft, SetStatus, RecordOverride, Remind, Recorded, TakeSubmit,
         TakeReview, Timeout, Made, Goto, TypeOK
<1>4. QED
  BY <1>1, <1>2, <1>3 DEF CallsKept

\* A decision stays one.
LEMMA DecidedKept ==
  ASSUME CallsKept, NEW c \in Calls, NEW r \in Reports, Decided(c, r)
  PROVE  Decided(c, r)'
BY DEF CallsKept, Decided

\* What holds of a report holds on when its row and its instance stay.
LEMMA ReportFrame ==
  ASSUME TypeOK, NEW r \in Reports, ReportOK(r), CallsKept, audit \subseteq audit',
         RowKept(r), flow'[r] = flow[r]
  PROVE  ReportOK(r)'
<1>1. flow[r] \in FlowRow \cup {None}
  BY DEF TypeOK
<1>2. CASE flow[r] = None
  BY <1>2 DEF ReportOK, RowFollows, FlowOK, Unmoved, ApprovalOK, OverrideOK, Approved, Live,
              RowKept
<1>3. CASE flow[r] # None
  <2>1. flow[r] \in FlowRow /\ reports[r] # None
    BY <1>1, <1>3 DEF ReportOK, FlowOK
  <2>2. flow[r].event \in Calls \cup {None} /\ flow[r].reviews \in Seq(Calls)
    BY <2>1 DEF FlowRow
  <2>3. RowFollows(r)'
    BY <1>3, <2>1 DEF ReportOK, RowFollows, Live, RowKept, Before, Submittable, Submitted, Target
  <2>4. FlowOK(r)'
    <3>1. flow[r].event # None =>
            Decided(flow[r].event, r)' /\ calls'[flow[r].event].decision = calls[flow[r].event].decision
      BY <1>3, <2>2, DecidedKept DEF ReportOK, FlowOK, Decided, CallsKept
    <3>2. \A i \in 1..Len(flow[r].reviews) : Decided(flow[r].reviews[i], r)'
      <4>1. TAKE i \in 1..Len(flow[r].reviews)
      <4>2. flow[r].reviews[i] \in Calls /\ Decided(flow[r].reviews[i], r)
        BY <1>3, <2>2, <4>1 DEF ReportOK, FlowOK
      <4>3. QED
        BY <4>2, DecidedKept
    <3>3. reports'[r] # None
      BY <2>1 DEF RowKept
    <3>4. (flow[r].event)' = flow[r].event /\ (flow[r].reviews)' = flow[r].reviews
      OBVIOUS
    <3>5. QED
      BY <1>3, <3>1, <3>2, <3>3, <3>4 DEF ReportOK, FlowOK
  <2>5. Unmoved(r)' /\ ApprovalOK(r)'
    BY <1>3, <2>1, <2>2 DEF ReportOK, FlowOK, Decided, CallsKept, Unmoved, ApprovalOK, Approved, RowKept
  <2>6. OverrideOK(r)'
    BY <1>3, <2>1, <2>2 DEF ReportOK, FlowOK, Decided, CallsKept, OverrideOK, Overridden, Live, RowKept
  <2>7. QED
    BY <2>3, <2>4, <2>5, <2>6 DEF ReportOK
<1>4. QED
  BY <1>2, <1>3

-----------------------------------------------------------------------------
(* Every step keeps what is said of reports.                               *)

\* Handlers insert a row, create its instance, write its texts, or leave an
\* event with the instance.
LEMMA HandlersKeepReports ==
  ASSUME TypeOK, HandlersOK, \A r \in Reports : ReportOK(r),
         NEW c \in Calls, Handler(c), NEW r \in Reports
  PROVE  ReportOK(r)'
<1>1. CallsKept /\ audit' = audit
  BY HandlersKeepCalls DEF Handler, Start, CreateWorkflow, SetInstance, Check, Edit, Send, Abandon
<1>2. calls[c] # None => calls[c] \in CallRow /\ calls[c].report \in Reports
  BY DEF TypeOK, CallRow
<1> USE DEF RowKept
<1>3. CASE Start(c)
  <2>1. flow' = flow
    BY <1>3 DEF Start
  <2>2. CASE reports'[r] = reports[r]
    BY <1>1, <2>1, <2>2, ReportFrame
  <2>3. CASE reports'[r] # reports[r]
    <3>1. reports[r] = None /\ reports'[r] = NewRow
      BY <1>3, <2>3 DEF Start, TypeOK
    <3>2. flow[r] = None
      BY <3>1 DEF ReportOK, FlowOK
    <3>3. QED
      BY <2>1, <3>1, <3>2 DEF ReportOK, RowFollows, FlowOK, Unmoved, ApprovalOK, OverrideOK,
                              Approved, Live, NewRow
  <2>4. QED
    BY <2>2, <2>3
<1>4. CASE CreateWorkflow(c)
  <2>1. reports' = reports
    BY <1>4 DEF CreateWorkflow
  <2>2. CASE flow'[r] = flow[r]
    BY <1>1, <2>1, <2>2, ReportFrame
  <2>3. CASE flow'[r] # flow[r]
    <3>1. flow'[r] = Instance /\ r = calls[c].report
      BY <1>2, <1>4, <2>3 DEF CreateWorkflow, TypeOK
    <3>2. flow[r] = None /\ reports[r] # None
      BY <1>4, <3>1 DEF CreateWorkflow, HandlersOK, HandlerOK, Creating
    <3>3. reports[r].status = "DRAFT" /\ reports[r].round = 0
      BY <3>2 DEF ReportOK, Unmoved
    <3>4. /\ flow'[r] # None /\ flow'[r].at = "draft" /\ flow'[r].round = 0
          /\ flow'[r].event = None /\ flow'[r].reviews = <<>> /\ flow'[r].next = 1
      BY <3>1, NewRows, NoneAssumption DEF Instance
    <3>5. RowFollows(r)'
      BY <2>1, <3>2, <3>3, <3>4 DEF RowFollows, Before, Submittable
    <3>6. FlowOK(r)'
      BY <2>1, <3>2, <3>4 DEF FlowOK
    <3>7. Unmoved(r)' /\ ApprovalOK(r)' /\ OverrideOK(r)'
      BY <2>1, <3>2, <3>3, <3>4 DEF Unmoved, ApprovalOK, Approved, OverrideOK, Overridden
    <3>8. QED
      BY <3>5, <3>6, <3>7 DEF ReportOK
  <2>4. QED
    BY <2>2, <2>3
<1>5. CASE SetInstance(c) \/ Edit(c)
  <2>1. flow' = flow
    BY <1>5 DEF SetInstance, Edit
  <2>2. reports[calls[c].report] \in ReportRow
    BY <1>2, <1>5 DEF SetInstance, Edit, HandlersOK, HandlerOK, TypeOK
  <2>3. RowKept(r)
    <3>1. CASE r # calls[c].report
      BY <1>2, <1>5, <3>1 DEF SetInstance, Edit, TypeOK
    <3>2. CASE r = calls[c].report
      <4>1. \/ reports'[r] = [reports[r] EXCEPT !.instance = TRUE]
            \/ reports'[r] = [reports[r] EXCEPT !.draft = c]
        BY <1>2, <1>5, <2>2, <3>2 DEF SetInstance, Edit, TypeOK
      <4>2. reports'[r] \in ReportRow
        BY <2>2, <3>2, <4>1 DEF ReportRow, Texts
      <4>3. QED
        BY <2>2, <3>2, <4>1, <4>2, NoneAssumption DEF ReportRow
    <3>3. QED
      BY <3>1, <3>2
  <2>4. QED
    BY <1>1, <2>1, <2>3, ReportFrame
<1>6. CASE Check(c) \/ Abandon(c)
  BY <1>1, <1>6, ReportFrame DEF Check, Abandon
<1>7. CASE Send(c)
  <2>1. reports' = reports
    BY <1>7 DEF Send
  <2>2. CASE flow'[r] = flow[r]
    BY <1>1, <2>1, <2>2, ReportFrame
  <2>3. CASE flow'[r] # flow[r]
    <3>1. r = calls[c].report /\ Live(r) /\ flow[r] \in FlowRow
      BY <1>2, <1>7, <2>3 DEF Send, TypeOK, Live
    <3>2. \/ flow'[r] = [flow[r] EXCEPT !.submits = Append(@, c)]
          \/ /\ flow'[r] = [flow[r] EXCEPT !.reviews = Append(@, c)]
             /\ calls[c].kind # "submit"
      BY <1>7, <2>3, <3>1 DEF Send, TypeOK
    <3>3. /\ flow'[r].at = flow[r].at /\ flow'[r].next = flow[r].next
          /\ flow'[r].tries = flow[r].tries /\ flow'[r].round = flow[r].round
          /\ flow'[r].event = flow[r].event /\ flow'[r] # None
          /\ \/ flow'[r].reviews = flow[r].reviews
             \/ flow'[r].reviews = Append(flow[r].reviews, c) /\ calls[c].kind # "submit"
      <4>1. Append(flow[r].submits, c) \in Seq(Calls) /\ Append(flow[r].reviews, c) \in Seq(Calls)
        BY <3>1 DEF FlowRow
      <4>2. flow'[r] \in FlowRow
        BY <3>1, <3>2, <4>1 DEF FlowRow
      <4>3. QED
        BY <3>1, <3>2, <4>2, NoneAssumption DEF FlowRow
    <3>4. flow[r] # None /\ reports[r] # None /\ flow[r].event \in Calls \cup {None}
          /\ flow[r].reviews \in Seq(Calls)
      BY <3>1, NoneAssumption DEF FlowRow, ReportOK, FlowOK
    <3>5. calls[c].kind # "submit" => Decided(c, r)
      BY <1>2, <1>7, <3>1 DEF Send, HandlersOK, HandlerOK, CallRow, AllKinds
    <3>6. RowFollows(r)'
      BY <2>1, <3>1, <3>3 DEF ReportOK, RowFollows, Live, Before, Submittable, Submitted, Target
    <3>7. FlowOK(r)'
      <4>1. ASSUME flow[r].event # None
            PROVE  /\ Decided(flow[r].event, r)'
                   /\ calls'[flow[r].event].decision = calls[flow[r].event].decision
        <5>1. flow[r].event \in Calls /\ Decided(flow[r].event, r)
          BY <3>4, <4>1 DEF ReportOK, FlowOK
        <5>2. (flow[r].event)' = flow[r].event
          BY <3>3
        <5>3. QED
          BY <1>1, <5>1, <5>2 DEF Decided, CallsKept
      <4>2. ASSUME NEW i \in 1..Len(flow'[r].reviews), NEW d, d = flow'[r].reviews[i]
            PROVE  Decided(d, r)'
        <5>1. d \in Calls /\ Decided(d, r)
          <6>1. \A k \in 1..Len(flow[r].reviews) :
                  flow[r].reviews[k] \in Calls /\ Decided(flow[r].reviews[k], r)
            BY <3>4 DEF ReportOK, FlowOK
          <6>2. CASE flow'[r].reviews = flow[r].reviews
            BY <4>2, <6>1, <6>2
          <6>3. CASE /\ flow'[r].reviews = Append(flow[r].reviews, c)
                     /\ calls[c].kind # "submit"
            <7>1. d = c \/ (i \in 1..Len(flow[r].reviews) /\ d = flow[r].reviews[i])
              BY <3>4, <4>2, <6>3
            <7>2. QED
              BY <3>5, <6>1, <6>3, <7>1
          <6>4. QED
            BY <3>3, <6>2, <6>3
        <5>2. QED
          BY <1>1, <5>1, DecidedKept
      <4>3. \A i \in 1..Len((flow[r].reviews)') : Decided(flow[r].reviews[i], r)'
        BY <4>2 DEF Decided
      <4>4. (reports[r] # None)'
        BY <2>1, <3>4
      <4>5. QED
        BY <3>3, <3>4, <4>1, <4>3, <4>4 DEF ReportOK, FlowOK, Decided
    <3>8. Unmoved(r)' /\ ApprovalOK(r)'
      BY <1>1, <2>1, <3>3, <3>4 DEF ReportOK, FlowOK, Decided, CallsKept, Unmoved, ApprovalOK, Approved
    <3>9. OverrideOK(r)'
      BY <1>1, <2>1, <3>1, <3>3, <3>4 DEF ReportOK, FlowOK, Decided, CallsKept, OverrideOK, Overridden, Live
    <3>10. QED
      BY <3>6, <3>7, <3>8, <3>9 DEF ReportOK
  <2>4. QED
    BY <2>2, <2>3
<1>8. QED
  BY <1>3, <1>4, <1>5, <1>6, <1>7 DEF Handler

\* What is said of an instance is said of its fields: a step that keeps the
\* event and only shortens what is buffered keeps it.
LEMMA FlowFrame ==
  ASSUME TypeOK, NEW r \in Reports, ReportOK(r), flow[r] # None, CallsKept,
         flow'[r] # None, reports'[r] # None,
         \/ flow'[r].event = flow[r].event
         \/ flow[r].reviews # <<>> /\ flow'[r].event = Head(flow[r].reviews),
         \/ flow'[r].reviews = flow[r].reviews
         \/ flow[r].reviews # <<>> /\ flow'[r].reviews = Tail(flow[r].reviews),
         flow'[r].at \in {"submit", "review"} => flow'[r].next = 1 /\ flow'[r].tries = 1,
         flow'[r].at = "draft" => flow'[r].round = 0 /\ flow'[r].event = None,
         flow'[r].at \in {"approve", "changes"} =>
           /\ flow'[r].event # None
           /\ flow'[r].at = "approve" <=> calls[flow'[r].event].decision = "APPROVE"
  PROVE  FlowOK(r)'
<1>1. flow[r] \in FlowRow
  BY DEF TypeOK
<1>2. flow[r].event \in Calls \cup {None} /\ flow[r].reviews \in Seq(Calls)
  BY <1>1 DEF FlowRow
<1>3. /\ flow[r].event # None => Decided(flow[r].event, r)
      /\ \A i \in 1..Len(flow[r].reviews) : Decided(flow[r].reviews[i], r)
  BY DEF ReportOK, FlowOK
<1>4. ASSUME NEW d, d = flow'[r].event, d # None
      PROVE  d \in Calls /\ Decided(d, r)
  <2>1. CASE flow'[r].event = flow[r].event
    BY <1>2, <1>3, <1>4, <2>1
  <2>2. CASE flow[r].reviews # <<>> /\ flow'[r].event = Head(flow[r].reviews)
    <3>1. 1 \in 1..Len(flow[r].reviews) /\ d = flow[r].reviews[1]
      BY <1>2, <1>4, <2>2
    <3>2. QED
      BY <1>2, <1>3, <3>1
  <2>3. QED
    BY <2>1, <2>2
<1>5. ASSUME NEW i \in 1..Len(flow'[r].reviews), NEW d, d = flow'[r].reviews[i]
      PROVE  d \in Calls /\ Decided(d, r)
  <2>1. CASE flow'[r].reviews = flow[r].reviews
    BY <1>2, <1>3, <1>5, <2>1
  <2>2. CASE flow'[r].reviews = Tail(flow[r].reviews) /\ flow[r].reviews # <<>>
    <3>1. i + 1 \in 1..Len(flow[r].reviews) /\ d = flow[r].reviews[i + 1]
      BY <1>2, <1>5, <2>2
    <3>2. QED
      BY <1>2, <1>3, <3>1
  <2>3. QED
    BY <2>1, <2>2
<1>6. \A d : d = flow'[r].event /\ d # None =>
        d \in Calls /\ Decided(d, r)' /\ calls'[d].decision = calls[d].decision
  BY <1>4, DecidedKept DEF CallsKept, Decided
<1>7. \A i \in 1..Len(flow'[r].reviews) : \A d : d = flow'[r].reviews[i] => Decided(d, r)'
  BY <1>5, DecidedKept
<1>8. QED
  BY <1>6, <1>7 DEF FlowOK, Decided

\* The instance of a report keeps what is said of the report.
LEMMA AdvanceKeepsReport ==
  ASSUME TypeOK, TypeOK', HandlersOK, NEW r \in Reports, ReportOK(r), Advance(r) \/ Retry(r)
  PROVE  ReportOK(r)'
<1> DEFINE f == flow[r]
<1>1. /\ f \in FlowRow /\ f # None /\ reports[r] # None /\ reports[r] \in ReportRow
      /\ Live(r) /\ f.at \in Places \ {"ended", "failed"} /\ f.next \in Nat /\ f.tries \in Nat
      /\ f.round \in 0..(MaxRounds - 1)
      /\ flow' \in [Reports -> FlowRow \cup {None}]
      /\ reports' \in [Reports -> ReportRow \cup {None}]
  BY DEF Advance, Retry, WriteDraft, SetStatus, RecordOverride, Remind, Recorded, TakeSubmit,
         TakeReview, Timeout, About, Live, ReportOK, FlowOK, TypeOK, FlowRow
<1>2. CallsKept /\ calls' = calls /\ audit \subseteq audit'
  BY AdvanceKeeps
<1>3. /\ f.event # None => Decided(f.event, r)
      /\ f.at \in {"submit", "review"} => f.next = 1 /\ f.tries = 1
      /\ f.at = "draft" => f.round = 0 /\ f.event = None
      /\ f.at \in {"approve", "changes"} =>
           f.event # None /\ (f.at = "approve" <=> calls[f.event].decision = "APPROVE")
  BY <1>1 DEF ReportOK, FlowOK
<1>4. ASSUME Made(r), f.next \in 1..3
      PROVE  /\ flow'[r].at = f.at /\ flow'[r].round = f.round /\ flow'[r].event = f.event
             /\ flow'[r].tries = f.tries /\ flow'[r].next = f.next + 1
             /\ flow'[r].reviews = f.reviews /\ flow'[r] # None
  <2>1. flow'[r] = [f EXCEPT !.next = f.next + 1]
    BY <1>1, <1>4 DEF Made, TypeOK
  <2>2. [f EXCEPT !.next = f.next + 1] \in FlowRow
    <3>1. f.next + 1 \in 1..4
      BY <1>4
    <3>2. QED
      BY <1>1, <3>1 DEF FlowRow
  <2>3. QED
    BY <1>1, <2>1, <2>2, NoneAssumption DEF FlowRow
<1>5. ASSUME NEW at \in Places, NEW n \in 0..(MaxRounds - 1), Goto(r, at, n)
      PROVE  /\ flow'[r].at = at /\ flow'[r].round = n /\ flow'[r].event = f.event
             /\ flow'[r].tries = 1 /\ flow'[r].next = 1
             /\ flow'[r].reviews = f.reviews /\ flow'[r] # None
  <2> DEFINE g == [f EXCEPT !.at = at, !.round = n, !.next = 1, !.tries = 1]
  <2>1. flow'[r] = g
    BY <1>1, <1>5 DEF Goto, TypeOK, FlowRow
  <2>2. 1 \in 1..4 /\ 1 \in 1..MaxTries
    BY WeeklyAssumption
  <2>3. g \in FlowRow
    BY <1>1, <2>2 DEF FlowRow
  <2>4. QED
    BY <1>1, <2>1, <2>3, NoneAssumption DEF FlowRow
<1>6. CASE WriteDraft(r)
  <2>1. f.at = "draft" /\ f.next \in 1..3
    BY <1>6, Whereabouts DEF WriteDraft
  <2>2. /\ reports'[r].status = reports[r].status /\ reports'[r].round = reports[r].round
        /\ reports'[r] # None
    <3>1. reports'[r] = [reports[r] EXCEPT !.draft = "agent"]
      BY <1>1, <1>6 DEF WriteDraft, TypeOK
    <3>2. [reports[r] EXCEPT !.draft = "agent"] \in ReportRow
      BY <1>1 DEF ReportRow, Texts
    <3>3. QED
      BY <1>1, <3>1, <3>2, NoneAssumption DEF ReportRow
  <2>3. RowFollows(r)'
    BY <1>1, <1>4, <1>6, <2>1, <2>2 DEF WriteDraft, ReportOK, RowFollows, Live, Before, Submittable, Steps
  <2>4. FlowOK(r)'
    BY <1>1, <1>2, <1>3, <1>4, <1>6, <2>1, <2>2, FlowFrame DEF WriteDraft
  <2>5. Unmoved(r)' /\ ApprovalOK(r)' /\ OverrideOK(r)'
    BY <1>1, <1>2, <1>3, <1>4, <1>6, <2>1, <2>2
       DEF WriteDraft, ReportOK, Unmoved, ApprovalOK, Approved, OverrideOK, Overridden
  <2>6. QED
    BY <2>3, <2>4, <2>5 DEF ReportOK
<1>7. CASE SetStatus(r)
  <2>1. f.at \in Steps \ {"draft"} /\ f.next = 1 /\ f.next \in 1..3
    BY <1>7, Whereabouts DEF SetStatus
  <2>2. /\ reports'[r].status = Target(r)[1] /\ reports'[r].round = Target(r)[2]
        /\ reports'[r] # None /\ reports'[r].override = reports[r].override
    <3>1. reports'[r] = WithStatus(reports[r], Target(r)[1], Target(r)[2])
      BY <1>1, <1>7 DEF SetStatus, TypeOK
    <3>2. Target(r)[1] \in WeeklyStatuses /\ Target(r)[2] \in 0..MaxRounds
      BY <1>1, WeeklyAssumption DEF Target, WeeklyStatuses
    <3>3. WithStatus(reports[r], Target(r)[1], Target(r)[2]) \in ReportRow
      BY <1>1, <3>2 DEF WithStatus, ReportRow
    <3>4. QED
      BY <1>1, <3>1, <3>3, NoneAssumption DEF WithStatus, ReportRow
  <2>3. Target(r)' = Target(r) /\ Target(r) = <<Target(r)[1], Target(r)[2]>>
    <3>1. Made(r)
      BY <1>7 DEF SetStatus
    <3>2. flow'[r].at = f.at /\ flow'[r].round = f.round
      BY <1>4, <2>1, <3>1
    <3>3. Target(r)' = Target(r)
      BY <3>2 DEF Target
    <3>4. Target(r) = <<Target(r)[1], Target(r)[2]>>
      BY DEF Target
    <3>5. QED
      BY <3>3, <3>4
  <2>4. RowFollows(r)'
    BY <1>1, <1>4, <1>7, <2>1, <2>2, <2>3 DEF SetStatus, RowFollows
  <2>5. FlowOK(r)'
    BY <1>1, <1>2, <1>3, <1>4, <1>7, <2>1, <2>2, FlowFrame DEF SetStatus, Steps
  <2>6. Target(r)[1] = "APPROVED" => f.at = "approve"
    BY <2>1 DEF Target, Steps
  <2>7. Unmoved(r)' /\ ApprovalOK(r)'
    <3>1. flow'[r] # None /\ flow'[r].event = f.event
      BY <1>4, <1>7, <2>1 DEF SetStatus
    <3>2. Unmoved(r)'
      BY <3>1 DEF Unmoved
    <3>3. Approved(r)' => f.at = "approve"
      BY <2>2, <2>6 DEF Approved
    <3>4. ApprovalOK(r)'
      BY <1>2, <1>3, <3>1, <3>3 DEF ApprovalOK
    <3>5. QED
      BY <3>2, <3>4
  <2>8. OverrideOK(r)'
    BY <1>1, <1>2, <1>4, <1>7, <2>1, <2>2 DEF SetStatus, ReportOK, OverrideOK, Overridden, Live
  <2>9. QED
    BY <2>4, <2>5, <2>7, <2>8 DEF ReportOK
<1>8. CASE RecordOverride(r) \/ Remind(r)
  <2>1. /\ f.at \in Steps \ {"draft", "expire"} /\ f.next > 1 /\ f.next \in 1..3 /\ Made(r)
        /\ RecordOverride(r) => f.at \in {"approve", "changes"}
        /\ Remind(r) /\ Overridden(r) /\ f.at # "mark" => f.next = 3
    BY <1>8, Whereabouts DEF RecordOverride, Remind, Steps
  <2>2. /\ reports'[r].status = reports[r].status /\ reports'[r].round = reports[r].round
        /\ reports'[r] # None
        /\ RecordOverride(r) => reports'[r].override = f.event /\ f.event \in audit'
        /\ Remind(r) => reports' = reports
    <3>1. CASE Remind(r)
      <4>1. reports' = reports
        BY <3>1 DEF Remind
      <4>2. ~RecordOverride(r)
        BY <3>1 DEF RecordOverride, Remind, About
      <4>3. QED
        BY <1>1, <4>1, <4>2
    <3>2. CASE RecordOverride(r)
      <4>1. f.event \in Calls
        BY <1>1, <3>2, Whereabouts DEF RecordOverride, Overridden, FlowRow
      <4>2. reports'[r] = [reports[r] EXCEPT !.override = f.event]
        BY <1>1, <3>2 DEF RecordOverride, TypeOK
      <4>3. [reports[r] EXCEPT !.override = f.event] \in ReportRow
        BY <1>1, <4>1 DEF ReportRow
      <4>4. f.event \in audit'
        BY <3>2 DEF RecordOverride
      <4>5. ~Remind(r)
        BY <3>2 DEF RecordOverride, Remind, About
      <4>6. QED
        BY <1>1, <4>2, <4>3, <4>4, <4>5, NoneAssumption DEF ReportRow
    <3>3. QED
      BY <1>8, <3>1, <3>2
  <2>3. RowFollows(r)'
    <3>1. Target(r)' = Target(r)
      BY <1>4, <2>1 DEF Target
    <3>2. <<reports[r].status, reports[r].round>> = Target(r)
      BY <1>1, <2>1 DEF ReportOK, RowFollows
    <3>3. QED
      BY <1>1, <1>4, <2>1, <2>2, <3>1, <3>2 DEF RowFollows
  <2>4. FlowOK(r)'
    BY <1>1, <1>2, <1>3, <1>4, <2>1, <2>2, FlowFrame DEF Steps
  <2>5. Unmoved(r)' /\ ApprovalOK(r)'
    BY <1>1, <1>2, <1>4, <2>1, <2>2 DEF ReportOK, Unmoved, ApprovalOK, Approved
  <2>6. OverrideOK(r)'
    BY <1>1, <1>2, <1>4, <1>8, <2>1, <2>2 DEF ReportOK, OverrideOK, Overridden, Live, Steps
  <2>7. QED
    BY <2>3, <2>4, <2>5, <2>6 DEF ReportOK
<1>9. CASE Recorded(r) \/ Timeout(r)
  <2>1. reports' = reports
    BY <1>9 DEF Recorded, Timeout
  <2>2. PICK at \in Places, n \in 0..(MaxRounds - 1) :
          /\ Goto(r, at, n) /\ at \in {"submit", "review", "expire", "ended"}
          /\ at = "submit" => \/ f.at = "draft" /\ n = 0
                              \/ f.at = "changes" /\ n = f.round + 1
          /\ at = "review" => f.at = "mark" /\ n = f.round
          /\ at = "expire" => f.at = "submit" /\ n = f.round
          /\ f.at \notin {"submit", "review"} => f.next = Len(Body(r)) + 1
    <3>1. CASE Recorded(r)
      <4>1. /\ AfterStep(r)[1] \in {"submit", "review", "ended"}
            /\ AfterStep(r)[2] \in 0..(MaxRounds - 1)
            /\ AfterStep(r)[1] = "submit" =>
                 \/ f.at = "draft" /\ AfterStep(r)[2] = 0
                 \/ f.at = "changes" /\ AfterStep(r)[2] = f.round + 1
            /\ AfterStep(r)[1] = "review" => f.at = "mark" /\ AfterStep(r)[2] = f.round
        BY <1>1, WeeklyAssumption DEF AfterStep
      <4>2. Goto(r, AfterStep(r)[1], AfterStep(r)[2]) /\ f.next = Len(Body(r)) + 1
        BY <3>1 DEF Recorded
      <4>3. QED
        BY <4>1, <4>2 DEF Places
    <3>2. CASE Timeout(r)
      BY <1>1, <3>2 DEF Timeout, Places, Steps
    <3>3. QED
      BY <1>9, <3>1, <3>2
  <2> HIDE DEF f
  <2>3. f.at = "changes" \/ f.at = "mark" => Len(Body(r)) + 1 > 1
    BY DEF Body, f
  <2>4. RowFollows(r)'
    <3>1. CASE at = "ended"
      BY <1>5, <2>2, <3>1 DEF RowFollows, Live
    <3>2. CASE at = "expire"
      <4>1. reports[r].status = Before(r) /\ reports[r].round = f.round
        BY <1>1, <2>2, <3>2 DEF ReportOK, RowFollows, Steps, f
      <4>2. (reports[r].status = Before(r) /\ reports[r].round = flow[r].round)'
        BY <1>5, <2>1, <2>2, <3>2, <4>1 DEF Before, Submittable, f
      <4>3. QED
        BY <1>1, <1>5, <2>1, <2>2, <3>2, <4>2 DEF RowFollows
    <3>3. CASE at \in {"submit", "review"} /\ f.at # "draft"
      <4>1. <<reports[r].status, reports[r].round>> = Target(r)
        BY <1>1, <2>2, <2>3, <3>3 DEF ReportOK, RowFollows, Steps, f
      <4>2. (reports[r].status = Before(r) /\ reports[r].round = flow[r].round)'
        BY <1>1, <1>5, <2>1, <2>2, <3>3, <4>1 DEF Before, Submittable, Submitted, Target, f
      <4>3. QED
        BY <1>1, <1>5, <2>1, <2>2, <3>3, <4>2 DEF RowFollows, Steps
    <3>4. CASE at = "submit" /\ f.at = "draft"
      <4>1. reports[r].status = "DRAFT" /\ reports[r].round = 0
        BY <1>1, <1>3, <3>4 DEF ReportOK, RowFollows, Before, Submittable, f
      <4>2. (reports[r].status = Before(r) /\ reports[r].round = flow[r].round)'
        BY <1>5, <2>1, <2>2, <3>4, <4>1 DEF Before, Submittable
      <4>3. QED
        BY <1>1, <1>5, <2>1, <2>2, <3>4, <4>2 DEF RowFollows, Steps
    <3>5. QED
      BY <2>2, <3>1, <3>2, <3>3, <3>4
  <2>5. FlowOK(r)'
    BY <1>1, <1>2, <1>5, <2>1, <2>2, FlowFrame DEF f
  <2>6. Unmoved(r)' /\ ApprovalOK(r)'
    BY <1>1, <1>2, <1>5, <2>1, <2>2 DEF ReportOK, Unmoved, ApprovalOK, Approved, f
  <2>7. OverrideOK(r)'
    <3>1. CASE Overridden(r)
      <4>1. f.at \in {"approve", "changes"} => f.next > 2
        BY <2>2, <3>1 DEF Body, f
      <4>2. f.at # "draft"
        BY <1>3, <3>1 DEF Overridden, f
      <4>3. reports[r].override = f.event /\ f.event \in audit
        BY <1>1, <3>1, <4>1, <4>2 DEF ReportOK, OverrideOK, Places, Steps, f
      <4>4. QED
        BY <1>2, <1>5, <2>1, <2>2, <4>3 DEF OverrideOK
    <3>2. CASE ~Overridden(r)
      <4>1. ~Overridden(r)'
        BY <1>2, <1>5, <2>2, <3>2 DEF Overridden, f
      <4>2. QED
        BY <4>1 DEF OverrideOK
    <3>3. QED
      BY <3>1, <3>2
  <2>8. QED
    BY <2>4, <2>5, <2>6, <2>7 DEF ReportOK
<1>10. CASE TakeSubmit(r)
  <2>1. /\ reports' = reports /\ f.at = "submit" /\ flow'[r].at = "mark"
        /\ flow'[r].next = f.next /\ flow'[r].tries = f.tries /\ flow'[r].round = f.round
        /\ flow'[r].event = f.event /\ flow'[r].reviews = f.reviews /\ flow'[r] # None
    <3>1. Tail(f.submits) \in Seq(Calls)
      BY <1>1, <1>10 DEF TakeSubmit, FlowRow
    <3>2. [f EXCEPT !.at = "mark", !.submits = Tail(@)] \in FlowRow
      BY <1>1, <3>1 DEF FlowRow, Places, Steps
    <3>3. flow'[r] = [f EXCEPT !.at = "mark", !.submits = Tail(@)]
      BY <1>1, <1>10 DEF TakeSubmit, TypeOK, FlowRow
    <3>4. QED
      BY <1>1, <1>10, <3>2, <3>3, NoneAssumption DEF TakeSubmit, FlowRow
  <2>2. RowFollows(r)'
    BY <1>1, <1>3, <2>1 DEF ReportOK, RowFollows, Before, Submittable, Steps
  <2>3. FlowOK(r)'
    BY <1>1, <1>2, <2>1, FlowFrame
  <2>4. Unmoved(r)' /\ ApprovalOK(r)'
    BY <1>1, <1>2, <2>1 DEF ReportOK, Unmoved, ApprovalOK, Approved
  <2>5. OverrideOK(r)'
    BY <1>1, <1>2, <2>1 DEF ReportOK, OverrideOK, Overridden
  <2>6. QED
    BY <2>2, <2>3, <2>4, <2>5 DEF ReportOK
<1>11. CASE TakeReview(r)
  <2> DEFINE c == Head(f.reviews)
             at == IF calls[c].decision = "APPROVE" THEN "approve" ELSE "changes"
             g == [f EXCEPT !.at = at, !.event = c, !.reviews = Tail(@)]
  <2>1. f.reviews \in Seq(Calls) /\ f.reviews # <<>> /\ f.at = "review" /\ reports' = reports
    BY <1>1, <1>11 DEF TakeReview, FlowRow
  <2>2. c \in Calls /\ Tail(f.reviews) \in Seq(Calls) /\ c # None
    BY <2>1, WeeklyAssumption
  <2>3. at \in Places /\ at \in {"approve", "changes"}
    BY DEF Places, Steps
  <2>4. g \in FlowRow
    BY <1>1, <2>2, <2>3 DEF FlowRow
  <2>5. flow'[r] = g
    BY <1>1, <1>11 DEF TakeReview, TypeOK, FlowRow
  <2>6. /\ flow'[r].at = at /\ flow'[r].next = f.next /\ flow'[r].tries = f.tries
        /\ flow'[r].round = f.round /\ flow'[r].event = c /\ flow'[r].reviews = Tail(f.reviews)
        /\ flow'[r] # None
    BY <1>1, <2>4, <2>5, NoneAssumption DEF FlowRow
  <2>7. at = "approve" <=> calls[c].decision = "APPROVE"
    OBVIOUS
  <2> HIDE DEF at, g
  <2>8. RowFollows(r)'
    BY <1>1, <1>3, <2>1, <2>3, <2>6 DEF ReportOK, RowFollows, Before, Submitted, Steps
  <2>9. FlowOK(r)'
    BY <1>1, <1>2, <2>1, <2>2, <2>3, <2>6, <2>7, FlowFrame
  <2>10. reports[r].status # "APPROVED"
    BY <1>1, <1>3, <2>1 DEF ReportOK, RowFollows, Before, Submitted
  <2>11. Unmoved(r)' /\ ApprovalOK(r)'
    BY <1>1, <2>1, <2>6, <2>10 DEF Unmoved, ApprovalOK, Approved
  <2>12. OverrideOK(r)'
    BY <1>3, <2>1, <2>3, <2>6 DEF OverrideOK
  <2>13. QED
    BY <2>8, <2>9, <2>11, <2>12 DEF ReportOK
<1>12. CASE Retry(r)
  <2>1. CASE f.tries < MaxTries
    <3>1. /\ reports' = reports /\ f.at \in Steps /\ flow'[r].at = f.at
          /\ flow'[r].next = 1 /\ flow'[r].tries = f.tries + 1 /\ flow'[r].round = f.round
          /\ flow'[r].event = f.event /\ flow'[r].reviews = f.reviews /\ flow'[r] # None
      <4>1. 1 \in 1..4 /\ f.tries + 1 \in 1..MaxTries
        BY <1>1, <2>1, WeeklyAssumption DEF FlowRow
      <4>2. [f EXCEPT !.next = 1, !.tries = @ + 1] \in FlowRow
        BY <1>1, <4>1 DEF FlowRow
      <4>3. flow'[r] = [f EXCEPT !.next = 1, !.tries = @ + 1]
        BY <1>1, <1>12, <2>1 DEF Retry, TypeOK, FlowRow
      <4>4. QED
        BY <1>1, <1>12, <4>2, <4>3, NoneAssumption DEF Retry, FlowRow
    <3>2. f.tries + 1 > 1
      BY <1>1 DEF FlowRow
    <3>3. RowFollows(r)'
      <4>1. Before(r)' = Before(r) /\ Target(r)' = Target(r) /\ reports'[r] = reports[r]
        BY <3>1 DEF Before, Submittable, Submitted, Target
      <4>2. QED
        BY <1>1, <3>1, <3>2, <4>1 DEF ReportOK, RowFollows
    <3>4. FlowOK(r)'
      BY <1>1, <1>2, <1>3, <3>1, FlowFrame DEF Steps
    <3>5. Unmoved(r)' /\ ApprovalOK(r)'
      BY <1>1, <1>2, <3>1 DEF ReportOK, Unmoved, ApprovalOK, Approved
    <3>6. OverrideOK(r)'
      BY <1>1, <1>2, <3>1 DEF ReportOK, OverrideOK, Overridden
    <3>7. QED
      BY <3>3, <3>4, <3>5, <3>6 DEF ReportOK
  <2>2. CASE ~(f.tries < MaxTries)
    <3>1. /\ reports' = reports /\ flow'[r].at = "failed" /\ flow'[r].event = f.event
          /\ flow'[r].reviews = f.reviews /\ flow'[r] # None
      BY <1>1, <1>5, <1>12, <2>2 DEF Retry, Places
    <3>2. FlowOK(r)'
      BY <1>1, <1>2, <3>1, FlowFrame
    <3>3. Unmoved(r)' /\ ApprovalOK(r)'
      BY <1>1, <1>2, <3>1 DEF ReportOK, Unmoved, ApprovalOK, Approved
    <3>4. RowFollows(r)' /\ OverrideOK(r)'
      BY <3>1 DEF RowFollows, OverrideOK, Live
    <3>5. QED
      BY <3>2, <3>3, <3>4 DEF ReportOK
  <2>3. QED
    BY <2>1, <2>2
<1>13. QED
  BY <1>6, <1>7, <1>8, <1>9, <1>10, <1>11, <1>12 DEF Advance

-----------------------------------------------------------------------------
(* Handlers on their way, and one open report.                             *)

\* Handlers write no status: only a new row becomes open, when none is.
LEMMA HandlersKeepRows ==
  ASSUME TypeOK, HandlersOK, NEW c \in Calls, Handler(c), NEW q \in Reports
  PROVE  \/ reports[q] = None /\ reports'[q] = NewRow /\ Start(c)
            /\ \A p \in Reports : ~OpenReport(p)
         \/ RowKept(q)
<1>1. CASE Start(c)
  BY <1>1 DEF Start, TypeOK, RowKept
<1>2. CASE SetInstance(c) \/ Edit(c)
  <2>1. calls[c].report \in Reports /\ reports[calls[c].report] \in ReportRow
    BY <1>2 DEF SetInstance, Edit, HandlersOK, HandlerOK, TypeOK, CallRow
  <2>2. CASE q # calls[c].report
    BY <1>2, <2>1, <2>2 DEF SetInstance, Edit, TypeOK, RowKept
  <2>3. CASE q = calls[c].report
    <3>1. \/ reports'[q] = [reports[q] EXCEPT !.instance = TRUE]
          \/ reports'[q] = [reports[q] EXCEPT !.draft = c]
      BY <1>2, <2>1, <2>3 DEF SetInstance, Edit, TypeOK
    <3>2. reports'[q] \in ReportRow
      BY <2>1, <2>3, <3>1 DEF ReportRow, Texts
    <3>3. QED
      BY <2>1, <2>3, <3>1, <3>2, NoneAssumption DEF ReportRow, RowKept
  <2>4. QED
    BY <2>2, <2>3
<1>3. CASE CreateWorkflow(c) \/ Check(c) \/ Send(c) \/ Abandon(c)
  BY <1>3 DEF CreateWorkflow, Check, Send, Abandon, RowKept
<1>4. QED
  BY <1>1, <1>2, <1>3 DEF Handler

\* An instance never removes its row, nor takes an approval back.
LEMMA AdvanceKeepsRows ==
  ASSUME TypeOK, TypeOK', HandlersOK, NEW r \in Reports, ReportOK(r), Advance(r) \/ Retry(r)
  PROVE  /\ flow[r] # None /\ reports[r] # None /\ reports'[r] # None
         /\ Approved(r) => Approved(r)'
<1>1. flow[r] \in FlowRow /\ flow[r] # None /\ reports[r] \in ReportRow /\ Live(r)
  BY DEF Advance, Retry, WriteDraft, SetStatus, RecordOverride, Remind, Recorded, TakeSubmit,
         TakeReview, Timeout, About, Live, ReportOK, FlowOK, TypeOK
<1>2. CASE WriteDraft(r)
  <2>1. reports'[r] = [reports[r] EXCEPT !.draft = "agent"]
    BY <1>1, <1>2 DEF WriteDraft, TypeOK
  <2>2. [reports[r] EXCEPT !.draft = "agent"] \in ReportRow
    BY <1>1 DEF ReportRow, Texts
  <2>3. QED
    BY <1>1, <2>1, <2>2, NoneAssumption DEF Approved, ReportRow
<1>3. CASE RecordOverride(r)
  <2>1. flow[r].event \in Calls
    BY <1>1, <1>3, Whereabouts DEF RecordOverride, Overridden, FlowRow
  <2>2. reports'[r] = [reports[r] EXCEPT !.override = flow[r].event]
    BY <1>1, <1>3 DEF RecordOverride, TypeOK
  <2>3. [reports[r] EXCEPT !.override = flow[r].event] \in ReportRow
    BY <1>1, <2>1 DEF ReportRow
  <2>4. QED
    BY <1>1, <2>2, <2>3, NoneAssumption DEF Approved, ReportRow
<1>4. CASE SetStatus(r)
  <2>1. reports'[r] = WithStatus(reports[r], Target(r)[1], Target(r)[2])
    BY <1>1, <1>4 DEF SetStatus, TypeOK
  <2>2. Target(r)[1] \in WeeklyStatuses /\ Target(r)[2] \in 0..MaxRounds
    BY <1>1, WeeklyAssumption DEF Target, WeeklyStatuses, FlowRow
  <2>3. /\ WithStatus(reports[r], Target(r)[1], Target(r)[2]) \in ReportRow
        /\ WithStatus(reports[r], Target(r)[1], Target(r)[2]).status = Target(r)[1]
    BY <1>1, <2>2 DEF WithStatus, ReportRow
  <2>4. Approved(r) => Target(r)[1] = "APPROVED"
    BY <1>1 DEF Approved, ReportOK, RowFollows, Before, Submittable, Submitted
  <2>5. QED
    BY <1>1, <2>1, <2>3, <2>4, NoneAssumption DEF Approved
<1>5. CASE Remind(r) \/ Recorded(r) \/ TakeSubmit(r) \/ TakeReview(r) \/ Timeout(r) \/ Retry(r)
  BY <1>1, <1>5, NoneAssumption DEF Remind, Recorded, TakeSubmit, TakeReview, Timeout, Retry, Approved
<1>6. QED
  BY <1>2, <1>3, <1>4, <1>5 DEF Advance

\* At most one report is open.
LEMMA OneOpenKept ==
  ASSUME TypeOK, TypeOK', HandlersOK, OneOpen, \A r \in Reports : ReportOK(r), Next
  PROVE  OneOpen'
<1>1. ASSUME NEW c \in Calls, Handler(c)
      PROVE  OneOpen'
  <2>1. CASE \E q \in Reports : reports[q] = None /\ reports'[q] = NewRow /\ Start(c)
                                  /\ \A p \in Reports : ~OpenReport(p)
    <3>1. PICK q \in Reports : reports[q] = None /\ reports'[q] = NewRow /\ Start(c)
      BY <2>1
    <3>2. \A p \in Reports : ~OpenReport(p)
      BY <2>1
    <3>3. \A p \in Reports \ {q} : reports'[p] = reports[p]
      BY <3>1, NewRows, NoneAssumption DEF Start, TypeOK
    <3>4. QED
      BY <3>2, <3>3 DEF OneOpen, OpenReport
  <2>2. CASE \A q \in Reports : RowKept(q)
    BY <2>2 DEF OneOpen, OpenReport, RowKept
  <2>3. QED
    BY <1>1, <2>1, <2>2, HandlersKeepRows
<1>2. ASSUME NEW r \in Reports, Advance(r) \/ Retry(r)
      PROVE  OneOpen'
  <2>1. \A q \in Reports \ {r} : reports'[q] = reports[q]
    BY <1>2, AdvanceKeeps
  <2>2. OpenReport(r)' => OpenReport(r)
    BY <1>2, AdvanceKeepsRows DEF OpenReport, Approved
  <2>3. QED
    BY <2>1, <2>2 DEF OneOpen, OpenReport
<1>3. QED
  BY <1>1, <1>2 DEF Next

\* Handlers on their way have their rows; one creates one instance.
LEMMA HandlersStay ==
  ASSUME TypeOK, TypeOK', HandlersOK, \A r \in Reports : ReportOK(r), Next
  PROVE  HandlersOK'
<1>1. ASSUME NEW r \in Reports, Advance(r) \/ Retry(r)
      PROVE  HandlersOK'
  <2>1. calls' = calls /\ \A q \in Reports \ {r} : reports'[q] = reports[q] /\ flow'[q] = flow[q]
    BY <1>1, AdvanceKeeps
  <2>2. flow[r] # None /\ reports[r] # None /\ reports'[r] # None
    BY <1>1, AdvanceKeepsRows
  <2>3. \A c \in Calls : calls[c] # None => calls[c].report \in Reports
    BY DEF TypeOK, CallRow
  <2>4. ASSUME NEW c \in Calls PROVE HandlerOK(c)'
    <3>1. HandlerOK(c)
      BY DEF HandlersOK
    <3>2. CASE calls[c] = None
      BY <2>1, <3>2 DEF HandlerOK, Creating
    <3>3. CASE calls[c] # None
      BY <2>1, <2>2, <2>3, <3>1, <3>3 DEF HandlerOK, Creating, Decided
    <3>4. QED
      BY <3>2, <3>3
  <2>5. QED
    BY <2>4 DEF HandlersOK
<1>2. ASSUME NEW c \in Calls, Handler(c)
      PROVE  HandlersOK'
  <2>1. CallsKept
    BY <1>2, HandlersKeepCalls
  <2>2. \A q \in Reports : reports[q] # None => reports'[q] # None
    BY <1>2, HandlersKeepRows DEF RowKept
  <2>3. \A d \in Calls : calls[d] # None => calls[d].report \in Reports
    BY DEF TypeOK, CallRow
  <2>4. \A d \in Calls \ {c} : calls'[d] = calls[d]
    BY <1>2 DEF Handler, Start, CreateWorkflow, SetInstance, Check, Edit, Send, Abandon, TypeOK
  <2>5. ASSUME calls[c] # None
        PROVE  /\ calls'[c].pc \notin {"create", "checked"}
               /\ calls'[c].pc = "created" => calls[c].pc = "create"
    BY <1>2, <2>5 DEF Handler, Start, CreateWorkflow, SetInstance, Check, Edit, Send, Abandon, TypeOK, CallRow
  <2>6. ASSUME NEW q \in Reports, flow[q] = None, flow'[q] # None
        PROVE  CreateWorkflow(c) /\ q = calls[c].report
    <3>1. CASE CreateWorkflow(c)
      BY <2>3, <2>6, <3>1 DEF CreateWorkflow, TypeOK
    <3>2. CASE Send(c)
      BY <2>3, <2>6, <3>2 DEF Send, Live, TypeOK
    <3>3. CASE Start(c) \/ SetInstance(c) \/ Check(c) \/ Edit(c) \/ Abandon(c)
      BY <2>6, <3>3 DEF Start, SetInstance, Check, Edit, Abandon
    <3>4. QED
      BY <1>2, <3>1, <3>2, <3>3 DEF Handler
  <2>7. ASSUME NEW d \in Calls \ {c}, Creating(d)
        PROVE  flow'[calls[d].report] = None
    <3>1. flow[calls[d].report] = None /\ calls[d].report \in Reports
      BY <2>3, <2>7 DEF HandlersOK, HandlerOK, Creating
    <3>2. ~(CreateWorkflow(c) /\ calls[d].report = calls[c].report)
      BY <2>7 DEF HandlersOK, HandlerOK, Creating, CreateWorkflow
    <3>3. QED
      BY <2>6, <3>1, <3>2
  <2>8. ASSUME NEW d \in Calls \ {c}, calls[d] # None
        PROVE  /\ calls'[d].pc \in {"create", "created", "checked"} =>
                    reports'[calls[d].report] # None
               /\ calls'[d].pc = "checked" => \/ calls'[d].kind \in {"edit", "submit"}
                                             \/ Decided(d, calls[d].report)'
    <3>1. HandlerOK(d) /\ calls'[d] = calls[d] /\ calls[d].report \in Reports
      BY <2>3, <2>4, <2>8 DEF HandlersOK
    <3>2. Decided(d, calls[d].report) => Decided(d, calls[d].report)'
      BY <3>1 DEF Decided
    <3>3. QED
      BY <2>2, <2>8, <3>1, <3>2 DEF HandlerOK
  <2>9. CASE calls[c] # None
    <3>1. ASSUME NEW d \in Calls \ {c} PROVE HandlerOK(d)'
      <4>1. Creating(d)' => \A e \in Calls : (Creating(e) /\ calls[e].report = calls[d].report)' => e = d
        BY <2>4, <2>5, <2>9 DEF HandlersOK, HandlerOK, Creating
      <4>2. QED
        BY <2>4, <2>7, <2>8, <4>1 DEF HandlerOK, Creating, Decided
    <3>2. HandlerOK(c)'
      <4>1. calls'[c].report = calls[c].report
        BY <2>1, <2>9 DEF CallsKept
      <4>2. calls'[c].pc = "created" => reports'[calls[c].report] # None
        BY <2>2, <2>3, <2>5, <2>9 DEF HandlersOK, HandlerOK
      <4>3. calls'[c].pc \notin {"create", "checked"}
        BY <2>5, <2>9
      <4>4. ~Creating(c)'
        BY <4>3 DEF Creating
      <4>5. QED
        BY <4>1, <4>2, <4>3, <4>4 DEF HandlerOK
    <3>3. QED
      BY <3>1, <3>2 DEF HandlersOK
  <2>10. CASE calls[c] = None
    <3>1. CASE Check(c)
      <4>1. calls'[c] # None /\ calls'[c].pc \in {"checked", "conflict"}
        <5>1. PICK kind \in AllKinds, r \in Reports, d \in Decisions \cup {None},
                   pc \in {"checked", "conflict"} :
                calls' = [calls EXCEPT ![c] = Call(kind, r, d, pc)]
          BY <3>1, KindsAssumption DEF Check, DecisionsOf
        <5>2. calls'[c] = Call(kind, r, d, pc) /\ Call(kind, r, d, pc) \in CallRow
          BY <5>1, TypeCall DEF TypeOK
        <5>3. Call(kind, r, d, pc).pc = pc
          BY DEF Call
        <5>4. QED
          BY <5>2, <5>3, NoneAssumption
      <4>2. HandlerOK(c)'
        <5>1. PICK kind \in Kinds \ {"start"} : \E r \in Reports : \E d \in DecisionsOf(kind) :
                /\ reports[r] # None
                /\ calls' = [calls EXCEPT ![c] = Call(kind, r, d,
                     IF reports[r].status \in AllowedIn(kind) THEN "checked" ELSE "conflict")]
          BY <3>1 DEF Check
        <5>2. PICK r \in Reports : \E d \in DecisionsOf(kind) :
                /\ reports[r] # None
                /\ calls' = [calls EXCEPT ![c] = Call(kind, r, d,
                     IF reports[r].status \in AllowedIn(kind) THEN "checked" ELSE "conflict")]
          BY <5>1
        <5>3. PICK d \in DecisionsOf(kind) :
                calls' = [calls EXCEPT ![c] = Call(kind, r, d,
                     IF reports[r].status \in AllowedIn(kind) THEN "checked" ELSE "conflict")]
          BY <5>2
        <5>4. calls'[c] = Call(kind, r, d,
                     IF reports[r].status \in AllowedIn(kind) THEN "checked" ELSE "conflict")
          BY <5>3 DEF TypeOK
        <5>5. /\ calls'[c].kind = kind /\ calls'[c].report = r /\ calls'[c].decision = d
              /\ calls'[c].sawStatus = reports[r].status
              /\ calls'[c].pc = "checked" => reports[r].status \in AllowedIn(kind)
          BY <5>2, <5>4 DEF Call
        <5>6. reports'[r] # None
          BY <2>2, <5>2
        <5>7. kind \in {"edit", "submit"} \/ kind \in {"review", "override"}
          BY KindsAssumption DEF AllKinds
        <5>8. QED
          BY <4>1, <5>5, <5>6, <5>7 DEF HandlerOK, Creating, Decided, AllowedIn, DecisionsOf
      <4>3. ASSUME NEW d \in Calls \ {c} PROVE HandlerOK(d)'
        <5>1. Creating(d)' => \A e \in Calls : (Creating(e) /\ calls[e].report = calls[d].report)' => e = d
          BY <2>4, <4>1 DEF HandlersOK, HandlerOK, Creating
        <5>2. QED
          BY <2>4, <2>7, <2>8, <5>1 DEF HandlerOK, Creating, Decided
      <4>4. QED
        BY <4>2, <4>3 DEF HandlersOK
    <3>2. CASE Start(c)
      <4>1. PICK r \in Reports, pc \in {"ok", "create"} :
              /\ calls' = [calls EXCEPT ![c] = Call("start", r, None, pc)]
              /\ pc = "create" => reports[r] = None /\ reports'[r] = NewRow
        BY <3>2 DEF Start, TypeOK
      <4>2. /\ calls'[c].pc = pc /\ calls'[c].report = r
        BY <4>1 DEF Call, TypeOK
      <4>3. pc = "create" => flow'[r] = None /\ reports'[r] # None
        BY <3>2, <4>1, NewRows, NoneAssumption DEF ReportOK, FlowOK, Start
      <4>4. ASSUME NEW d \in Calls \ {c}, Creating(d), pc = "create"
            PROVE  calls[d].report # r
        BY <4>1, <4>4 DEF HandlersOK, HandlerOK, Creating
      <4>5. HandlerOK(c)'
        BY <2>4, <4>2, <4>3, <4>4 DEF HandlerOK, Creating
      <4>6. ASSUME NEW d \in Calls \ {c} PROVE HandlerOK(d)'
        <5>1. Creating(d)' => \A e \in Calls : (Creating(e) /\ calls[e].report = calls[d].report)' => e = d
          BY <2>4, <4>2, <4>4 DEF HandlersOK, HandlerOK, Creating
        <5>2. QED
          BY <2>4, <2>7, <2>8, <5>1 DEF HandlerOK, Creating, Decided
      <4>7. QED
        BY <4>5, <4>6 DEF HandlersOK
    <3>3. QED
      BY <1>2, <2>10, <3>1, <3>2 DEF Handler, CreateWorkflow, SetInstance, Edit, Send, Abandon
  <2>11. QED
    BY <2>9, <2>10
<1>3. QED
  BY <1>1, <1>2 DEF Next

-----------------------------------------------------------------------------
(* The invariant and what follows from it.                                 *)

\* The review that has just started satisfies everything.
LEMMA InvInit == Init => IInv
<1> SUFFICES ASSUME Init PROVE IInv
  OBVIOUS
<1>1. TypeOK
  BY TypeInit
<1>2. HandlersOK
  BY DEF Init, HandlersOK, HandlerOK, Creating
<1>3. OneOpen
  BY DEF Init, OneOpen, OpenReport
<1>4. ASSUME NEW r \in Reports PROVE ReportOK(r)
  <2>1. CASE r # Seed
    BY <2>1 DEF Init, ReportOK, RowFollows, FlowOK, Unmoved, ApprovalOK, Approved, OverrideOK, Live
  <2>2. CASE r = Seed
    <3>1. /\ reports[r].status = "DRAFT" /\ reports[r].round = 0 /\ reports[r] # None
          /\ flow[r] = Instance /\ flow[r] # None
      BY <2>2, NewRows, NoneAssumption DEF Init, NewRow
    <3>2. /\ flow[r].at = "draft" /\ flow[r].round = 0 /\ flow[r].event = None
          /\ flow[r].reviews = <<>> /\ flow[r].next = 1
      BY <3>1 DEF Instance
    <3>3. RowFollows(r)
      BY <3>1, <3>2 DEF RowFollows, Before, Submittable
    <3>4. FlowOK(r)
      BY <3>1, <3>2 DEF FlowOK
    <3>5. Unmoved(r) /\ ApprovalOK(r) /\ OverrideOK(r)
      BY <3>1, <3>2 DEF Unmoved, ApprovalOK, Approved, OverrideOK, Overridden
    <3>6. QED
      BY <3>3, <3>4, <3>5 DEF ReportOK
  <2>3. QED
    BY <2>1, <2>2
<1>5. QED
  BY <1>1, <1>2, <1>3, <1>4 DEF IInv

\* Every step keeps the types.
LEMMA TypeStep ==
  ASSUME IInv, Next
  PROVE  TypeOK'
BY TypeHandler, TypeAdvance DEF IInv, Next

\* Every step keeps what is said of every report.
LEMMA ReportsStep ==
  ASSUME IInv, Next, NEW q \in Reports
  PROVE  ReportOK(q)'
<1>1. TypeOK'
  BY TypeStep
<1>2. CASE \E c \in Calls : Handler(c)
  BY <1>2, HandlersKeepReports DEF IInv
<1>3. ASSUME NEW r \in Reports, Advance(r) \/ Retry(r)
      PROVE  ReportOK(q)'
  <2>1. CASE q = r
    BY <1>1, <1>3, <2>1, AdvanceKeepsReport DEF IInv
  <2>2. CASE q # r
    <3>1. RowKept(q) /\ flow'[q] = flow[q] /\ CallsKept /\ audit \subseteq audit'
      BY <1>3, <2>2, AdvanceKeeps DEF IInv, RowKept
    <3>2. QED
      BY <3>1, ReportFrame DEF IInv
  <2>3. QED
    BY <2>1, <2>2
<1>4. QED
  BY <1>2, <1>3 DEF Next

\* The inductive step.
LEMMA InvStep == IInv /\ [Next]_vars => IInv'
<1> SUFFICES ASSUME IInv, [Next]_vars PROVE IInv'
  OBVIOUS
<1>1. CASE Next
  <2>1. TypeOK'
    BY <1>1, TypeStep
  <2>2. HandlersOK' /\ OneOpen'
    BY <1>1, <2>1, HandlersStay, OneOpenKept DEF IInv
  <2>3. \A q \in Reports : ReportOK(q)'
    BY <1>1, ReportsStep
  <2>4. QED
    BY <2>1, <2>2, <2>3 DEF IInv
<1>2. CASE UNCHANGED vars
  BY <1>2 DEF vars, IInv, TypeOK, HandlersOK, HandlerOK, Creating, Decided, OneOpen, OpenReport,
              ReportOK, RowFollows, FlowOK, Unmoved, ApprovalOK, Approved, OverrideOK, Overridden,
              Live, Before, Submittable, Submitted, Target
<1>3. QED
  BY <1>1, <1>2

\* The inductive invariant: for any reports, requests, rounds and tries, rows,
\* instances and handlers agree as IInv says.
THEOREM Invariance == Spec => []IInv
BY InvInit, InvStep, PTL DEF Spec

\* Rows, instances and handlers are well formed.
THEOREM TypeCorrect == Spec => []TypeOK
<1>1. IInv => TypeOK
  BY DEF IInv
<1>2. QED
  BY <1>1, Invariance, PTL

\* The board shows what the workflow waits for, whatever part of a step was
\* done or runs again (setWeeklyStatus in the steps of the workflow).
THEOREM RowAndFlowAgree == Spec => []RowFollowsFlow
<1>1. IInv => RowFollowsFlow
  BY DEF IInv, ReportOK, RowFollowsFlow
<1>2. QED
  BY <1>1, Invariance, PTL

\* Only a decision made for the report while it was under review approves it.
THEOREM ApprovalsAreDecided == Spec => []ApprovalWasDecided
<1>1. ASSUME IInv PROVE ApprovalWasDecided
  <2>1. ASSUME NEW r \in Reports, Approved(r)
        PROVE  /\ flow[r].event \in Calls /\ Decided(flow[r].event, r)
               /\ calls[flow[r].event].decision = "APPROVE"
    BY <1>1, <2>1 DEF IInv, ReportOK, ApprovalOK, FlowOK, TypeOK, FlowRow
  <2>2. QED
    BY <2>1 DEF ApprovalWasDecided, Decided
<1>2. QED
  BY <1>1, Invariance, PTL

\* An override whose step is done is on record, whichever way it decided and
\* in whichever round (recordWeeklyOverride in both decision steps).
THEOREM OverridesAreAudited == Spec => []OverrideAudited
<1>1. ASSUME IInv PROVE OverrideAudited
  <2>1. SUFFICES ASSUME NEW r \in Reports, flow[r] # None, Overridden(r),
                        flow[r].at \notin {"approve", "changes", "failed"}
                 PROVE  reports[r].override = flow[r].event /\ flow[r].event \in audit
    BY DEF OverrideAudited
  <2>2. flow[r].at \in Places /\ OverrideOK(r)
    BY <1>1, <2>1 DEF IInv, TypeOK, FlowRow, ReportOK
  <2>3. flow[r].at # "draft"
    BY <1>1, <2>1 DEF IInv, ReportOK, FlowOK, Overridden
  <2>4. QED
    BY <2>1, <2>2, <2>3 DEF OverrideOK, Places, Steps
<1>2. QED
  BY <1>1, Invariance, PTL

\* At most one report of the period is open (createWeeklyReport).
THEOREM OneOpenReport == Spec => []OneOpen
<1>1. IInv => OneOpen
  BY DEF IInv
<1>2. QED
  BY <1>1, Invariance, PTL
=============================================================================
