------------------------------- MODULE Screens -------------------------------
(***************************************************************************)
(* The forms of one open workspace, in one browser tab (src/client):       *)
(*                                                                         *)
(*   WeeklyTab, ReportPanel   a report is chosen, its draft typed and saved *)
(*   AgentTab                 the conversation with the Progress Agent     *)
(*   Board, TaskEditor        a task is edited in place                    *)
(*   WorkspaceView            one of them is mounted; the others' state is *)
(*                            gone, the requests they sent are not         *)
(*                                                                         *)
(* The rows a form shows arrive as pushes of the Durable Object while the  *)
(* person types, and the answers to what a form sent arrive by HTTP, in    *)
(* any order with the pushes.  A text is modelled by the set of things it  *)
(* was written for: a draft of report 2 that also holds words of report 1  *)
(* is {1, 2}.  The workflow and the other people are Others; what they may *)
(* do is in WeeklyReview.  Reconnects are in WorkspaceSession.             *)
(***************************************************************************)
EXTENDS Protocol, Sequences

CONSTANTS
  Tasks,         \* tasks the person owns
  Sessions,      \* who the person is, and how much happens: the tabs of the
                 \* workspace visited, and how often, questions, clicks
  MaxReports,    \* bound: weekly reports
  HistoryLimit   \* turns that history returns (20)

TabNames  == {"Board", "Weekly", "Agent"}

ASSUME ScreensAssumption ==
  /\ MaxReports \in Nat /\ HistoryLimit \in Nat \ {0}
  /\ \A s \in Sessions :
       /\ s.role \in Roles /\ s.tabs \subseteq TabNames
       /\ s.mounts \in Nat /\ s.asks \in Nat /\ s.clicks \in Nat

ReportIds == 1..MaxReports      \* in the order of their creation

-----------------------------------------------------------------------------
(* What the tabs offer, against what the Durable Object permits.           *)

BoardOffers(role, own) ==
  (IF role = "intern" THEN {"task.create"} ELSE {})
    \cup (IF role = "intern" /\ own THEN {"task.update", "task.move", "task.delete"} ELSE {})
    \cup (IF role \in {"mentor", "manager"} THEN {"task.priority"} ELSE {})

\* Of a resolved blocker, the card shows no form at all.
BlockerOffers(role, status) ==
  (IF role = "intern" THEN {"blocker.create"} ELSE {})
    \cup (IF role \in Roles /\ status # "RESOLVED" THEN {"blocker.comment"} ELSE {})
    \cup (IF role = "intern" /\ status = "OPEN" THEN {"blocker.requestResolution"} ELSE {})
    \cup (IF role \in {"mentor", "manager"} /\ status # "RESOLVED" THEN {"blocker.resolve"} ELSE {})
    \cup (IF role = "manager" /\ status # "RESOLVED" THEN {"blocker.escalate"} ELSE {})

FeedbackOffers(role) == IF role \in {"mentor", "manager"} THEN {"feedback.create"} ELSE {}
OverviewOffers(role) == IF role = "intern" THEN {"update.create"} ELSE {}

Offers(role, own, status) ==
  BoardOffers(role, own) \cup BlockerOffers(role, status)
    \cup FeedbackOffers(role) \cup OverviewOffers(role)

MutationTypes ==
  {"task.create", "task.update", "task.move", "task.delete", "task.priority",
   "update.create", "feedback.create", "blocker.create", "blocker.comment",
   "blocker.requestResolution", "blocker.resolve", "blocker.escalate"}

\* Nothing is offered that canMutate refuses, and whatever it permits to a
\* role is offered to it somewhere: the two lists of rules, one in the client
\* and one in the Worker, are kept apart in the code and must agree.
ASSUME OffersArePermitted ==
  \A role \in Roles \cup {None}, own \in BOOLEAN, status \in BlockerStatuses :
    \A a \in Offers(role, own, status) : CanMutate(role, a)
ASSUME PermittedIsOffered ==
  \A role \in Roles, a \in MutationTypes :
    CanMutate(role, a) =>
      \E own \in BOOLEAN, status \in BlockerStatuses : a \in Offers(role, own, status)

-----------------------------------------------------------------------------
(* State.                                                                  *)

Texts(owners) == SUBSET owners
Reviewing     == {"SUBMITTED", "RESUBMITTED"}
Drafting      == {"DRAFT", "CHANGES_REQUESTED"}

VARIABLES
  session,   \* one of Sessions; it does not change
  reports,   \* rows of weekly_reports, oldest first: [status, text]
  titles,    \* [Tasks -> text]
  stored,    \* conversation turns of this person, oldest first
  pushes,    \* weekly.updated on the way to the tab: [id, row]
  seen,      \* weeklyReports of useWorkspace
  tab,       \* the mounted tab
  mount,     \* which visit this is
  form,      \* the mounted component's state
  calls,     \* HTTP requests and their answers
  asked,     \* questions of the person so far, here and elsewhere
  clicks,    \* clicks of the person and steps of the Others so far
  mixed      \* tasks saved from an editor that was open for another

vars == <<session, reports, titles, stored, pushes, seen, tab, mount, form, calls,
          asked, clicks, mixed>>
serverVars == <<reports, titles, stored, pushes>>

role == session.role

\* One record for the state of whichever component is mounted.
Fresh ==
  [selectedId |-> 0, draft |-> {}, busy |-> FALSE,   \* WeeklyTab, ReportPanel
   turns |-> <<>>,                                   \* AgentTab; busy is its loading
   editing |-> None, fields |-> {}, kept |-> FALSE]  \* Board, TaskEditor

\* visible[0] is the newest; 0 stands for no report.
Shown(selectedId, rows) == IF selectedId \in DOMAIN rows THEN selectedId ELSE Len(rows)

\* useEffect makes the choice stick, and the panel's key makes another report
\* another panel, whose draft starts as the row's.
\* Mutants: no effect, so the choice follows the newest; no key.
WithoutEffect(f, selectedId, rows) ==
  LET was == Shown(f.selectedId, seen)
      is  == Shown(selectedId, rows)
  IN  [f EXCEPT !.selectedId = IF selectedId \in DOMAIN rows THEN selectedId ELSE 0,
                !.draft = IF is # was THEN rows[is].text ELSE @]
WithoutKey(f, selectedId, rows) ==
  LET is == Shown(selectedId, rows)
  IN  [f EXCEPT !.selectedId = is,
                !.draft = IF f.selectedId = 0 /\ is # 0 THEN rows[is].text ELSE @]
Choose(f, selectedId, rows) ==
  LET was == f.selectedId
      is  == Shown(selectedId, rows)
  IN  [f EXCEPT !.selectedId = is,
                !.draft = IF is # was THEN rows[is].text ELSE @]

\* Mounting the agent's tab asks for the history, a request that is aborted
\* when the tab is left; the others start from what the view has.
Mounted(t) == IF t = "Weekly" THEN Choose(Fresh, 0, seen) ELSE Fresh
HistoryCall(m) == [mount |-> m, op |-> "history", on |-> 0, text |-> {},
                   at |-> "sent", turns |-> <<>>]
CallsOnMount(t, m) == IF t = "Agent" THEN {HistoryCall(m)} ELSE {}

Init ==
  /\ session \in Sessions
  /\ reports = <<>> /\ titles = [t \in Tasks |-> {t}] /\ stored = <<>>
  /\ pushes = <<>> /\ seen = <<>>
  /\ tab \in session.tabs /\ mount = 1
  /\ form = Fresh /\ calls = CallsOnMount(tab, 1)
  /\ asked = 0 /\ clicks = 0 /\ mixed = {}

Click == clicks < session.clicks /\ clicks' = clicks + 1
Stay  == UNCHANGED <<session, tab, mount>>

SelectTab(t) ==
  /\ t \in session.tabs \ {tab} /\ mount < session.mounts
  /\ tab' = t /\ mount' = mount + 1
  /\ form' = Mounted(t)
  /\ calls' = {c \in calls : c.op # "history"} \cup CallsOnMount(t, mount + 1)
  /\ UNCHANGED <<session, serverVars, seen, asked, clicks, mixed>>

-----------------------------------------------------------------------------
(* WeeklyTab.  Every button waits for the one before (busy).               *)

OnWeekly == tab = "Weekly"
Current  == form.selectedId

SelectReport(id) ==
  /\ OnWeekly /\ id \in DOMAIN seen /\ id # Current /\ Click
  /\ form' = Choose(form, id, seen)
  /\ Stay /\ UNCHANGED <<serverVars, seen, calls, asked, mixed>>

\* Words for the report on screen go to whatever the text area holds.
TypeDraft ==
  /\ OnWeekly /\ Current # 0 /\ role = "intern" /\ seen[Current].status \in Drafting
  /\ form' = [form EXCEPT !.draft = @ \cup {Current}]
  /\ Stay /\ UNCHANGED <<serverVars, seen, calls, asked, clicks, mixed>>

Run(op, on, text) ==
  /\ ~form.busy /\ Click
  /\ form' = [form EXCEPT !.busy = TRUE]
  /\ calls' = calls \cup {[mount |-> mount, op |-> op, on |-> on, text |-> text,
                           at |-> "sent", turns |-> <<>>]}
  /\ Stay /\ UNCHANGED <<serverVars, seen, asked, mixed>>

StartReview == OnWeekly /\ role \in {"intern", "mentor"} /\ Run("start", 0, {})

SaveDraft ==
  /\ OnWeekly /\ Current # 0 /\ role = "intern" /\ seen[Current].status \in Drafting
  /\ Run("save", Current, form.draft)

\* Submit says nothing of the draft in the text area.
SubmitReport ==
  /\ OnWeekly /\ Current # 0 /\ role = "intern" /\ seen[Current].status \in Drafting
  /\ Run("submit", Current, {})

\* The mentor's review and the manager's override.
Decide ==
  /\ OnWeekly /\ Current # 0 /\ role \in {"mentor", "manager"}
  /\ seen[Current].status \in Reviewing
  /\ Run("decide", Current, {})

\* The row of one report, and its push to every tab.
Put(id, row) ==
  /\ reports' = IF id > Len(reports) THEN Append(reports, row) ELSE [reports EXCEPT ![id] = row]
  /\ pushes' = Append(pushes, [id |-> id, row |-> row])
  /\ UNCHANGED <<titles, stored>>

NewRow == [status |-> "DRAFT", text |-> {}]
OpenReport == reports # <<>> /\ reports[Len(reports)].status # "APPROVED"

\* The week may have turned since the newest report was started.  A start that
\* would exceed the bound fails.
Started(id) ==
  \/ OpenReport /\ id = Len(reports) /\ UNCHANGED serverVars
  \/ id = Len(reports) + 1 /\ id \in ReportIds /\ Put(id, NewRow)

Answer(c, at, on) ==
  calls' = (calls \ {c}) \cup {[c EXCEPT !.at = at, !.on = on]}

\* handleWeekly.  A locked report is 409, as is a workflow that has ended;
\* submit and decide only tell the workflow, which is among the Others.
HandleWeekly(c) ==
  /\ c.op \in {"start", "save", "submit", "decide"} /\ c.at = "sent"
  /\ \/ c.op = "start" /\ \E id \in ReportIds : Started(id) /\ Answer(c, "ok", id)
     \/ /\ c.op = "start" /\ Len(reports) = MaxReports
        /\ Answer(c, "failed", 0) /\ UNCHANGED serverVars
     \/ /\ c.op = "save"
        /\ IF reports[c.on].status \in Drafting
           THEN Put(c.on, [reports[c.on] EXCEPT !.text = c.text]) /\ Answer(c, "ok", c.on)
           ELSE Answer(c, "failed", c.on) /\ UNCHANGED serverVars
     \/ /\ c.op \in {"submit", "decide"} /\ UNCHANGED serverVars
        /\ \/ /\ reports[c.on].status \in (IF c.op = "submit" THEN Drafting ELSE Reviewing)
              /\ Answer(c, "ok", c.on)
           \/ Answer(c, "failed", c.on)
  /\ Stay /\ UNCHANGED <<seen, form, asked, clicks, mixed>>

\* The first answer to start chooses the report, if the tab is still there and
\* its row has arrived; if not, the choice falls back to the newest known.
\* Mutant: only success clears busy.
AfterCallKeepsBusy(c) ==
  IF c.at = "failed" THEN form
  ELSE LET done == [form EXCEPT !.busy = FALSE]
       IN  IF c.op = "start" THEN Choose(done, c.on, seen) ELSE done
AfterCall(c) ==
  LET done == [form EXCEPT !.busy = FALSE]
  IN  IF c.op = "start" /\ c.at = "ok" THEN Choose(done, c.on, seen) ELSE done

WeeklyAnswered(c) ==
  /\ c.op \in {"start", "save", "submit", "decide"} /\ c.at # "sent"
  /\ calls' = calls \ {c}
  /\ form' = IF c.mount = mount THEN AfterCall(c) ELSE form
  /\ Stay /\ UNCHANGED <<serverVars, seen, asked, clicks, mixed>>

\* weekly.updated: the reducer puts the row in its place, the tab renders.
Receive ==
  /\ pushes # <<>> /\ pushes' = Tail(pushes)
  /\ LET p == Head(pushes)
         rows == IF p.id > Len(seen) THEN Append(seen, p.row) ELSE [seen EXCEPT ![p.id] = p.row]
     IN  /\ seen' = rows
         /\ form' = IF OnWeekly THEN Choose(form, form.selectedId, rows) ELSE form
  /\ Stay /\ UNCHANGED <<reports, titles, stored, calls, asked, clicks, mixed>>

\* Other people, the agent and the workflow: a review is started, drafted,
\* submitted, decided.
OthersStart == Len(reports) < MaxReports /\ Put(Len(reports) + 1, NewRow)
AgentDrafts(id) == Put(id, [reports[id] EXCEPT !.text = {id}])
FlowMoves(id) ==
  LET s == reports[id].status IN
  \E to \in CASE s = "DRAFT" -> {"SUBMITTED"} [] s = "CHANGES_REQUESTED" -> {"RESUBMITTED"}
              [] s \in Reviewing -> {"CHANGES_REQUESTED", "APPROVED"} [] OTHER -> {} :
    Put(id, [reports[id] EXCEPT !.status = to])

Others ==
  /\ Click
  /\ \/ OthersStart
     \/ \E id \in DOMAIN reports : AgentDrafts(id) \/ FlowMoves(id)
  /\ Stay /\ UNCHANGED <<seen, form, calls, asked, mixed>>

-----------------------------------------------------------------------------
(* AgentTab.  A question is known by its number.                           *)

Pending(q)  == [prompt |-> q, answered |-> FALSE]
Answered(q) == [prompt |-> q, answered |-> TRUE]

Submit ==
  /\ tab = "Agent" /\ ~form.busy /\ asked < session.asks /\ asked' = asked + 1
  /\ form' = [form EXCEPT !.busy = TRUE, !.turns = Append(@, Pending(asked + 1))]
  /\ calls' = calls \cup {[mount |-> mount, op |-> "ask", on |-> asked + 1, text |-> {},
                           at |-> "sent", turns |-> <<>>]}
  /\ Stay /\ UNCHANGED <<serverVars, seen, clicks, mixed>>

\* The same person asks in another tab of the browser.
AskElsewhere ==
  /\ asked < session.asks /\ asked' = asked + 1
  /\ stored' = Append(stored, asked + 1)
  /\ Stay /\ UNCHANGED <<reports, titles, pushes, seen, form, calls, clicks, mixed>>

\* handleAgent: an answer that the agent gives is stored first.
HandleAsk(c) ==
  /\ c.op = "ask" /\ c.at = "sent"
  /\ \/ stored' = Append(stored, c.on) /\ Answer(c, "ok", c.on)
     \/ stored' = stored /\ Answer(c, "failed", c.on)
  /\ Stay /\ UNCHANGED <<reports, titles, pushes, seen, form, asked, clicks, mixed>>

LastTurns == SubSeq(stored, Len(stored) - HistoryLimit + 1, Len(stored))
History == IF Len(stored) <= HistoryLimit THEN stored ELSE LastTurns

\* A history that cannot be read is shown as an empty one.
HandleHistory(c) ==
  /\ c.op = "history" /\ c.at = "sent"
  /\ \E turns \in {History, <<>>} :
       calls' = (calls \ {c}) \cup {[c EXCEPT !.at = "ok", !.turns = turns]}
  /\ Stay /\ UNCHANGED <<serverVars, seen, form, asked, clicks, mixed>>

\* Mutant: what was asked in the meantime stays below the history.
HistoryBefore(history, turns) == history \o turns
SetTurns(history, turns)      == history

HistoryAnswered(c) ==
  /\ c.op = "history" /\ c.at # "sent" /\ calls' = calls \ {c}
  /\ form' = [form EXCEPT !.turns =
       SetTurns([i \in DOMAIN c.turns |-> Answered(c.turns[i])], form.turns)]
  /\ Stay /\ UNCHANGED <<serverVars, seen, asked, clicks, mixed>>

\* filter; a question has one pending turn at most.
Without(turns, turn) ==
  LET at == CHOOSE i \in DOMAIN turns : turns[i] = turn
  IN  IF \E i \in DOMAIN turns : turns[i] = turn
      THEN SubSeq(turns, 1, at - 1) \o SubSeq(turns, at + 1, Len(turns))
      ELSE turns

\* The pending turn becomes the answered one, or goes; loading ends.  An
\* answer whose request or response is lost fails as well, stored or not.
AskAnswered(c) ==
  /\ c.op = "ask" /\ c.at # "sent" /\ calls' = calls \ {c}
  /\ form' = IF c.mount # mount THEN form
             ELSE [form EXCEPT !.busy = FALSE, !.turns =
                    IF c.at = "ok"
                    THEN [i \in DOMAIN @ |-> IF @[i] = Pending(c.on) THEN Answered(c.on) ELSE @[i]]
                    ELSE Without(@, Pending(c.on))]
  /\ Stay /\ UNCHANGED <<serverVars, seen, asked, clicks, mixed>>

\* The network: a request that never arrives, or an answer that does not.
LoseCall(c) ==
  /\ c.op # "history" /\ c.at \in {"sent", "ok"}
  /\ Answer(c, "failed", c.on)
  /\ Stay /\ UNCHANGED <<serverVars, seen, form, asked, clicks, mixed>>

-----------------------------------------------------------------------------
(* Board.  The editor has no key: it stays the same editor, with the same  *)
(* fields, when another task's edit is clicked while it is open.           *)

OnBoard == tab = "Board" /\ role = "intern"

EditTask(t) ==
  /\ OnBoard /\ t # form.editing /\ Click
  /\ form' = [form EXCEPT !.editing = t, !.kept = @ \/ form.editing # None,
                          !.fields = IF form.editing = None THEN titles[t] ELSE @]
  /\ Stay /\ UNCHANGED <<serverVars, seen, calls, asked, mixed>>

SaveTask ==
  /\ OnBoard /\ form.editing # None /\ Click
  /\ titles' = [titles EXCEPT ![form.editing] = form.fields]
  /\ mixed' = IF form.kept THEN mixed \cup {form.editing} ELSE mixed
  /\ form' = Fresh
  /\ Stay /\ UNCHANGED <<reports, stored, pushes, seen, calls, asked>>

CloseEditor ==
  /\ OnBoard /\ form.editing # None
  /\ form' = Fresh
  /\ Stay /\ UNCHANGED <<serverVars, seen, calls, asked, clicks, mixed>>

-----------------------------------------------------------------------------
Handle(c)  == HandleWeekly(c) \/ HandleAsk(c) \/ HandleHistory(c)
Handled(c) == WeeklyAnswered(c) \/ AskAnswered(c) \/ HistoryAnswered(c)

Next ==
  \/ \E t \in TabNames : SelectTab(t)
  \/ \E id \in ReportIds : SelectReport(id)
  \/ TypeDraft \/ StartReview \/ SaveDraft \/ SubmitReport \/ Decide
  \/ Receive \/ Others
  \/ Submit \/ AskElsewhere
  \/ \E c \in calls : Handle(c) \/ Handled(c) \/ LoseCall(c)
  \/ \E t \in Tasks : EditTask(t)
  \/ SaveTask \/ CloseEditor

Spec == Init /\ [][Next]_vars

\* The Worker answers and answers reach their handlers; people need not act.
FairSpec ==
  /\ Spec
  /\ WF_vars(\E c \in calls : Handle(c))
  /\ WF_vars(\E c \in calls : Handled(c))

-----------------------------------------------------------------------------
(* Properties.                                                             *)

\* What is stored for a report or a task was written for it, whichever was on
\* screen when its row, its draft or the answer to start arrived (the key of
\* ReportPanel; a task editor that stayed open for another task, which has no
\* key, is the exception).
DraftsStayApart ==
  /\ \A id \in DOMAIN reports : reports[id].text \subseteq {id}
  /\ \A t \in Tasks \ mixed : titles[t] \subseteq {t}

\* A push never takes the report on screen away from the person, nor the words
\* typed into it: only a click or the answer to their own start does (the
\* effect that makes the first choice stick).
PanelHolds ==
  [][seen' # seen /\ OnWeekly /\ Shown(form.selectedId, seen) # 0 =>
       /\ Shown(form'.selectedId, seen') = Shown(form.selectedId, seen)
       /\ form'.draft = form.draft]_vars

\* The answers on screen are stored ones, each once and in their order, and an
\* open question is waited for, in whatever order the history, the answer and
\* a change of tabs come (AgentTab's two setTurns).
ShownIsStored ==
  LET answers == {i \in DOMAIN form.turns : form.turns[i].answered}
      open    == DOMAIN form.turns \ answers
  IN  /\ \E at \in [answers -> DOMAIN stored] :
           /\ \A i \in answers : stored[at[i]] = form.turns[i].prompt
           /\ \A i \in answers, j \in answers : i < j => at[i] < at[j]
      /\ \A i \in open, j \in open : i = j /\ form.busy

\* The buttons come back, whatever becomes of the request (finally).
BusyEnds == form.busy ~> ~form.busy
=============================================================================
