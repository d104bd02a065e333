---------------------------- MODULE WeeklyReview ----------------------------
(***************************************************************************)
(* The weekly review of one workspace for one reporting period: the report *)
(* rows in the Durable Object (src/worker/workspace-store.ts), the durable *)
(* WeeklyReviewWorkflow that moves a report through its life               *)
(* (src/worker/weekly-workflow.ts) and the HTTP handlers that start, edit, *)
(* submit and decide it (handleWeekly in src/worker/index.ts).             *)
(*                                                                         *)
(* Every call into the Durable Object is atomic; a handler makes several   *)
(* and awaits each, so handlers, the workflow and each other's calls       *)
(* interleave between them.  The engine runs a step.do body again when the *)
(* body or the recording of its result fails.  An event sent to a live     *)
(* instance waits there, in order of arrival, for a waitForEvent of its    *)
(* type; get or sendEvent throws when there is no live instance.           *)
(*                                                                         *)
(* A role check that fails has no effect and is left out, as are bodies    *)
(* that do not parse, timestamps and mentor_feedback.  A call stands for   *)
(* the text it carries.                                                    *)
(***************************************************************************)
EXTENDS Protocol, Sequences, FiniteSets

CONSTANTS
  Reports,    \* ids a new row may draw
  Seed,       \* the report whose review has just started
  Calls,      \* HTTP requests
  Kinds,      \* the kinds of request considered
  MaxRounds,  \* WEEKLY_MAX_ROUNDS
  MaxTries    \* how often the engine runs the body of a step at most

ASSUME WeeklyAssumption ==
  /\ Seed \in Reports /\ None \notin Calls \cup Reports
  /\ {"empty", "agent"} \cap Calls = {}
  /\ MaxRounds \in Nat \ {0} /\ MaxTries \in Nat \ {0}

AllKinds == {"start", "edit", "submit", "review", "override"}
ASSUME KindsAssumption == Kinds \subseteq AllKinds

WeeklyStatuses ==
  {"DRAFT", "SUBMITTED", "CHANGES_REQUESTED", "RESUBMITTED", "APPROVED"}
Decisions == {"APPROVE", "REQUEST_CHANGES"}
Texts     == Calls \cup {"empty", "agent"}

ReportRow == [status : WeeklyStatuses, round : 0..MaxRounds, draft : Texts,
              final : Texts \cup {None}, override : Calls \cup {None},
              instance : BOOLEAN]

\* Where a workflow instance is: in a step.do, in a waitForEvent, returned
\* ("ended"), or given up by the engine ("failed").
Steps  == {"draft", "expire", "mark", "approve", "changes"}
Places == Steps \cup {"submit", "review", "ended", "failed"}

CallRow == [kind : AllKinds, report : Reports, decision : Decisions \cup {None},
            pc : {"create", "created", "checked", "ok", "conflict", "error"},
            sawStatus : WeeklyStatuses, sawRound : 0..MaxRounds]
FlowRow == [at : Places, next : 1..4, tries : 1..MaxTries,
            round : 0..(MaxRounds - 1), event : Calls \cup {None},
            submits : Seq(Calls), reviews : Seq(Calls)]

\* An absent row is none of these.
BoardRow == [status : WeeklyStatuses, round : 0..MaxRounds]
ASSUME NoneAssumption ==
  None \notin ReportRow /\ None \notin FlowRow /\ None \notin CallRow /\ None \notin BoardRow

VARIABLES
  reports,    \* weekly_reports, [Reports -> ReportRow \cup {None}]
  reminders,  \* [Reports -> [Roles -> the round its one row is about, or None]]
  audit,      \* calls with a weekly.manager_override activity row
  flow,       \* [Reports -> instance weekly-<id>, or None]
  calls       \* [Calls -> the request and how far its handler is, or None]

vars == <<reports, reminders, audit, flow, calls>>

Live(r) == flow[r] # None /\ flow[r].at \notin {"ended", "failed"}
Instance == [at |-> "draft", next |-> 1, tries |-> 1, round |-> 0,
             event |-> None, submits |-> <<>>, reviews |-> <<>>]
NewRow == [status |-> "DRAFT", round |-> 0, draft |-> "empty", final |-> None,
           override |-> None, instance |-> FALSE]

Init ==
  /\ reports = [r \in Reports |->
                  IF r = Seed THEN [NewRow EXCEPT !.instance = TRUE] ELSE None]
  /\ reminders = [r \in Reports |-> [role \in Roles |-> None]]
  /\ audit = {}
  /\ flow = [r \in Reports |-> IF r = Seed THEN Instance ELSE None]
  /\ calls = [c \in Calls |-> None]

-----------------------------------------------------------------------------
(* HTTP: POST /weekly.                                                     *)

\* A report of the period that is not approved.
OpenReport(r) == reports[r] # None /\ reports[r].status # "APPROVED"

Call(kind, r, decision, pc) ==
  [kind |-> kind, report |-> r, decision |-> decision, pc |-> pc,
   sawStatus |-> IF reports[r] = None THEN "DRAFT" ELSE reports[r].status,
   sawRound  |-> IF reports[r] = None THEN 0 ELSE reports[r].round]

\* createWeeklyReport: an open report of the period is returned as it is.
Start(c) ==
  /\ "start" \in Kinds /\ calls[c] = None
  /\ \/ \E r \in Reports :
          /\ OpenReport(r)
          /\ calls' = [calls EXCEPT ![c] = Call("start", r, None, "ok")]
          /\ UNCHANGED reports
     \/ /\ \A r \in Reports : ~OpenReport(r)
        /\ \E r \in Reports :
             /\ reports[r] = None
             /\ reports' = [reports EXCEPT ![r] = NewRow]
             /\ calls' = [calls EXCEPT ![c] = Call("start", r, None, "create")]
  /\ UNCHANGED <<reminders, audit, flow>>

\* env.WEEKLY_WORKFLOW.create: it may throw with or without an instance.
CreateWorkflow(c) ==
  /\ calls[c] # None /\ calls[c].pc = "create"
  /\ \/ /\ flow' = [flow EXCEPT ![calls[c].report] = Instance]
        /\ \E pc \in {"created", "error"} :
             calls' = [calls EXCEPT ![c].pc = pc]
     \/ calls' = [calls EXCEPT ![c].pc = "error"] /\ UNCHANGED flow
  /\ UNCHANGED <<reports, reminders, audit>>

SetInstance(c) ==
  /\ calls[c] # None /\ calls[c].pc = "created"
  /\ reports' = [reports EXCEPT ![calls[c].report].instance = TRUE]
  /\ calls' = [calls EXCEPT ![c].pc = "ok"]
  /\ UNCHANGED <<reminders, audit, flow>>

-----------------------------------------------------------------------------
(* HTTP: PATCH, submit, review, override.  One call reads the row, a later *)
(* one acts on it.                                                         *)

Editable    == {"DRAFT", "CHANGES_REQUESTED"}
UnderReview == {"SUBMITTED", "RESUBMITTED"}

\* The statuses in which a request is let through.
\* Mutant: a decision is accepted in any status.
AnyForDecisions(kind) ==
  IF kind \in {"edit", "submit"} THEN Editable ELSE WeeklyStatuses
AllowedIn(kind) == IF kind \in {"edit", "submit"} THEN Editable ELSE UnderReview

DecisionsOf(kind) == IF kind \in {"review", "override"} THEN Decisions ELSE {None}

Check(c) ==
  /\ calls[c] = None
  /\ \E kind \in Kinds \ {"start"}, r \in Reports :
       /\ reports[r] # None
       /\ \E d \in DecisionsOf(kind) :
            calls' = [calls EXCEPT ![c] = Call(kind, r, d,
              IF reports[r].status \in AllowedIn(kind) THEN "checked"
                                                       ELSE "conflict")]
  /\ UNCHANGED <<reports, reminders, audit, flow>>

\* updateWeeklyDraft without an aiGenerated flag.
Edit(c) ==
  /\ calls[c] # None /\ calls[c].pc = "checked" /\ calls[c].kind = "edit"
  /\ reports' = [reports EXCEPT ![calls[c].report].draft = c]
  /\ calls' = [calls EXCEPT ![c].pc = "ok"]
  /\ UNCHANGED <<reminders, audit, flow>>

\* sendWeekly: the event is buffered by the instance, or the call throws.
Send(c) ==
  /\ calls[c] # None /\ calls[c].pc = "checked" /\ calls[c].kind # "edit"
  /\ LET r == calls[c].report IN
     \/ /\ Live(r)
        /\ calls' = [calls EXCEPT ![c].pc = "ok"]
        /\ flow' = IF calls[c].kind = "submit"
                     THEN [flow EXCEPT ![r].submits = Append(@, c)]
                     ELSE [flow EXCEPT ![r].reviews = Append(@, c)]
     \/ /\ ~Live(r)
        /\ calls' = [calls EXCEPT ![c].pc = "conflict"]
        /\ UNCHANGED flow
  /\ UNCHANGED <<reports, reminders, audit>>

\* The Worker stops between two calls of a handler.
Abandon(c) ==
  /\ calls[c] # None /\ calls[c].pc \in {"create", "created", "checked"}
  /\ calls' = [calls EXCEPT ![c].pc = "error"]
  /\ UNCHANGED <<reports, reminders, audit, flow>>

-----------------------------------------------------------------------------
(* The workflow.                                                           *)

Overridden(r) ==
  flow[r].event # None /\ calls[flow[r].event].kind = "override"

\* Mutant: an override that approves is not recorded.
BodyForgetsOverride(r) ==
  CASE flow[r].at = "draft"  -> <<"draft">>
    [] flow[r].at = "expire" -> <<"status">>
    [] flow[r].at = "changes" /\ Overridden(r) -> <<"status", "override", "remind">>
    [] OTHER -> <<"status", "remind">>

\* The calls into the Durable Object that the body of a step makes, in order.
Body(r) ==
  CASE flow[r].at = "draft"  -> <<"draft">>
    [] flow[r].at = "expire" -> <<"status">>
    [] flow[r].at = "mark"   -> <<"status", "remind">>
    [] OTHER -> IF Overridden(r) THEN <<"status", "override", "remind">>
                                 ELSE <<"status", "remind">>

\* The instance is about to make call op of the body of its step.
About(r, op) ==
  /\ Live(r) /\ flow[r].at \in Steps
  /\ flow[r].next <= Len(Body(r)) /\ Body(r)[flow[r].next] = op

Made(r) == flow' = [flow EXCEPT ![r].next = @ + 1]

\* updateWeeklyDraft with the agent's or the deterministic draft.
WriteDraft(r) ==
  /\ About(r, "draft") /\ Made(r)
  /\ reports' = [reports EXCEPT ![r].draft = "agent"]
  /\ UNCHANGED <<reminders, audit, calls>>

\* setWeeklyStatus; an approval copies the draft.
WithStatus(row, status, round) ==
  [row EXCEPT !.status = status, !.round = round,
              !.final = IF status = "APPROVED" THEN row.draft ELSE @]

\* The status a step writes, and the round.
\* Mutant: the round is not counted up when changes are requested.
SameRound(r) ==
  LET n == flow[r].round IN
  CASE flow[r].at = "expire"  -> <<"DRAFT", n>>
    [] flow[r].at = "mark"    -> <<IF n = 0 THEN "SUBMITTED" ELSE "RESUBMITTED", n>>
    [] flow[r].at = "approve" -> <<"APPROVED", n>>
    [] OTHER                  -> <<"CHANGES_REQUESTED", n>>
Target(r) ==
  LET n == flow[r].round IN
  CASE flow[r].at = "expire"  -> <<"DRAFT", n>>
    [] flow[r].at = "mark"    -> <<IF n = 0 THEN "SUBMITTED" ELSE "RESUBMITTED", n>>
    [] flow[r].at = "approve" -> <<"APPROVED", n>>
    [] OTHER                  -> <<"CHANGES_REQUESTED", n + 1>>

SetStatus(r) ==
  /\ About(r, "status") /\ Made(r)
  /\ reports' = [reports EXCEPT ![r] = WithStatus(@, Target(r)[1], Target(r)[2])]
  /\ UNCHANGED <<reminders, audit, calls>>

\* recordWeeklyOverride: who overrode, and an activity entry.
RecordOverride(r) ==
  /\ About(r, "override") /\ Made(r)
  /\ reports' = [reports EXCEPT ![r].override = flow[r].event]
  /\ audit' = audit \cup {flow[r].event}
  /\ UNCHANGED <<reminders, calls>>

\* createReminder: REPORT_SUBMITTED for the mentor, REPORT_APPROVED for the
\* manager, REPORT_CHANGES_REQUESTED for the intern.  The unique index keeps
\* one row per report and type, the first.
Recipient(at) == CASE at = "mark" -> "mentor" [] at = "approve" -> "manager"
                   [] OTHER -> "intern"

Remind(r) ==
  /\ About(r, "remind") /\ Made(r)
  /\ LET role == Recipient(flow[r].at) IN
     reminders' = IF reminders[r][role] # None THEN reminders
                  ELSE [reminders EXCEPT ![r][role] = flow[r].round]
  /\ UNCHANGED <<reports, audit, calls>>

\* Where the instance goes once the result of its step is recorded.
\* Mutant: the run goes on after an approval.
AfterStepGoesOn(r) ==
  CASE flow[r].at = "mark"   -> <<"review", flow[r].round>>
    [] flow[r].at = "draft"  -> <<"submit", 0>>
    [] flow[r].at = "expire" -> <<"ended", flow[r].round>>
    [] OTHER -> IF flow[r].round + 1 < MaxRounds
                  THEN <<"submit", flow[r].round + 1>>
                  ELSE <<"ended", flow[r].round>>
\* Mutant: the bound of the loop is missing.
AfterStepUnbounded(r) ==
  CASE flow[r].at = "mark"    -> <<"review", flow[r].round>>
    [] flow[r].at = "draft"   -> <<"submit", 0>>
    [] flow[r].at = "changes" -> <<"submit", flow[r].round + 1>>
    [] OTHER                  -> <<"ended", flow[r].round>>
AfterStep(r) ==
  CASE flow[r].at = "mark"  -> <<"review", flow[r].round>>
    [] flow[r].at = "draft" -> <<"submit", 0>>
    [] flow[r].at = "changes" /\ flow[r].round + 1 < MaxRounds
                            -> <<"submit", flow[r].round + 1>>
    [] OTHER                -> <<"ended", flow[r].round>>

Goto(r, at, round) ==
  flow' = [flow EXCEPT ![r].at = at, ![r].round = round, ![r].next = 1, ![r].tries = 1]

Recorded(r) ==
  /\ Live(r) /\ flow[r].at \in Steps /\ flow[r].next = Len(Body(r)) + 1
  /\ Goto(r, AfterStep(r)[1], AfterStep(r)[2])
  /\ UNCHANGED <<reports, reminders, audit, calls>>

\* A call fails, or the result is not recorded: the body runs again, or the
\* instance fails for good.
Retry(r) ==
  /\ Live(r) /\ flow[r].at \in Steps
  /\ IF flow[r].tries < MaxTries
       THEN flow' = [flow EXCEPT ![r].next = 1, ![r].tries = @ + 1]
       ELSE Goto(r, "failed", flow[r].round)
  /\ UNCHANGED <<reports, reminders, audit, calls>>

\* waitForEvent: the oldest event of the type, or the timeout.
TakeSubmit(r) ==
  /\ Live(r) /\ flow[r].at = "submit" /\ flow[r].submits # <<>>
  /\ flow' = [flow EXCEPT ![r].at = "mark", ![r].submits = Tail(@)]
  /\ UNCHANGED <<reports, reminders, audit, calls>>

TakeReview(r) ==
  /\ Live(r) /\ flow[r].at = "review" /\ flow[r].reviews # <<>>
  /\ LET c == Head(flow[r].reviews) IN
     flow' = [flow EXCEPT
                ![r].at = IF calls[c].decision = "APPROVE" THEN "approve" ELSE "changes",
                ![r].event = c, ![r].reviews = Tail(@)]
  /\ UNCHANGED <<reports, reminders, audit, calls>>

\* Mutant: the wait for the mentor has no timeout.
TimeoutOfSubmit(r) ==
  /\ Live(r) /\ flow[r].at = "submit" /\ flow[r].submits = <<>>
  /\ Goto(r, "expire", flow[r].round)
  /\ UNCHANGED <<reports, reminders, audit, calls>>
Timeout(r) ==
  /\ Live(r)
  /\ \/ flow[r].at = "submit" /\ flow[r].submits = <<>>
        /\ Goto(r, "expire", flow[r].round)
     \/ flow[r].at = "review" /\ flow[r].reviews = <<>>
        /\ Goto(r, "ended", flow[r].round)
  /\ UNCHANGED <<reports, reminders, audit, calls>>

-----------------------------------------------------------------------------

Handler(c) == \/ Start(c) \/ CreateWorkflow(c) \/ SetInstance(c)
              \/ Check(c) \/ Edit(c) \/ Send(c) \/ Abandon(c)
Advance(r) == \/ WriteDraft(r) \/ SetStatus(r) \/ RecordOverride(r) \/ Remind(r)
              \/ Recorded(r) \/ TakeSubmit(r) \/ TakeReview(r) \/ Timeout(r)

Next ==
  \/ \E c \in Calls : Handler(c)
  \/ \E r \in Reports : Advance(r) \/ Retry(r)

Spec == Init /\ [][Next]_vars

\* The engine wakes a sleeping instance and runs its steps; users owe nothing.
FairSpec == Spec /\ \A r \in Reports : WF_vars(Advance(r))

-----------------------------------------------------------------------------
(* Properties.                                                             *)

\* Every row, instance and handler is well formed.
TypeOK ==
  /\ reports \in [Reports -> ReportRow \cup {None}]
  /\ reminders \in [Reports -> [Roles -> 0..MaxRounds \cup {None}]]
  /\ audit \subseteq Calls
  /\ flow \in [Reports -> FlowRow \cup {None}]
  /\ calls \in [Calls -> CallRow \cup {None}]

\* The row and the instance agree: what the board shows is what the workflow
\* waits for, also while the body of a step is only partly done or runs again.
Submittable(r) == IF flow[r].round = 0 THEN "DRAFT" ELSE "CHANGES_REQUESTED"
Submitted(r)   == IF flow[r].round = 0 THEN "SUBMITTED" ELSE "RESUBMITTED"
Before(r) == IF flow[r].at \in {"draft", "submit", "expire", "mark"}
               THEN Submittable(r) ELSE Submitted(r)
RowFollows(r) == Live(r) =>
  /\ reports[r] # None
  /\ \/ reports[r].status = Before(r) /\ reports[r].round = flow[r].round
     \/ /\ flow[r].at \in Steps \ {"draft"}
        /\ flow[r].next > 1 \/ flow[r].tries > 1
        /\ <<reports[r].status, reports[r].round>> = Target(r)
  /\ flow[r].at \in Steps \ {"draft"} /\ flow[r].next > 1 =>
       <<reports[r].status, reports[r].round>> = Target(r)
RowFollowsFlow == \A r \in Reports : RowFollows(r)

\* A decision or submission is used up once its step has written the row.
Used(r) == /\ flow[r].next > 1 \/ flow[r].tries > 1
           /\ <<reports[r].status, reports[r].round>> = Target(r)
Waiting(r, step) == Live(r) /\ flow[r].at \in step /\ ~Used(r)

\* What of a report is to be seen from outside: its row on the board, and the
\* requests that were let through and did not change it yet.
Board(r) == IF reports[r] = None THEN None ELSE
  [status |-> reports[r].status, round |-> reports[r].round]
Submissions(r) == IF ~Live(r) THEN 0 ELSE
  Len(flow[r].submits) + (IF Waiting(r, {"mark"}) THEN 1 ELSE 0)
Undecided(r) == IF ~Live(r) THEN <<>> ELSE
  (IF Waiting(r, {"approve", "changes"}) THEN <<flow[r].event>> ELSE <<>>)
    \o flow[r].reviews

Promised == INSTANCE ReviewContract WITH
  Rounds    <- MaxRounds,
  board     <- [r \in Reports |-> Board(r)],
  submits   <- [r \in Reports |-> Submissions(r)],
  decisions <- [r \in Reports |->
                  [i \in 1..Len(Undecided(r)) |-> calls[Undecided(r)[i]].decision]]

\* Whatever handlers, steps and retries do, the board moves only by what people
\* asked for, each request used once and in order, there is one open report at a
\* time, and an approved one stays approved (ReviewContract).
Implements == Promised!Spec

\* A report is approved only by an APPROVE that a mentor or a manager sent for
\* this report after seeing it submitted.
Approved(r) == reports[r] # None /\ reports[r].status = "APPROVED"
ApprovalWasDecided ==
  \A r \in Reports : Approved(r) =>
    \E c \in Calls :
      /\ flow[r].event = c /\ calls[c].report = r
      /\ calls[c].kind \in {"review", "override"}
      /\ calls[c].decision = "APPROVE" /\ calls[c].sawStatus \in UnderReview

\* Once the step of an override is done, the row names the override and the
\* history has its entry, whether it approved the report, opened another round
\* or was the last of the last round, and however often the step had to run.
\* Only the step itself and an instance the engine gave up are exempt: a body
\* that fails for good between its calls leaves a status without the mark.
OverrideAudited ==
  \A r \in Reports :
    /\ flow[r] # None /\ Overridden(r)
    /\ flow[r].at \notin {"approve", "changes", "failed"}
    => reports[r].override = flow[r].event /\ flow[r].event \in audit

\* Every review that started comes to an end: approved, expired, out of rounds
\* or failed.
ReviewEnds == \A r \in Reports : flow[r] # None ~> ~Live(r)
=============================================================================
