---------------------------- MODULE AgentContext ----------------------------
(***************************************************************************)
(* What the Progress Agent is told and what it answers: the bounded        *)
(* projection of the workspace (projectAgentContext, groundedOn,           *)
(* renderContextBlock, buildMessages and fakeAnswer of                     *)
(* src/worker/agent-context.ts, the weekly draft of                        *)
(* src/worker/reminders.ts) and the calls around the model                 *)
(* (src/worker/progress-agent.ts).                                         *)
(*                                                                         *)
(* A task, blocker, update, feedback or activity entry is a record of the  *)
(* fields that decide where it goes, with the length of its line; the      *)
(* wording of the lines is left out.  A pure module: its assumptions are   *)
(* evaluated by the runs whose module extends it.  KnowledgeIndex has the  *)
(* state of the agent and the order of its awaits.                         *)
(***************************************************************************)
EXTENDS Integers, Sequences

CONSTANT Limits     \* LIMITS, and the topK of the two vector queries

ASSUME LimitsAssumption ==
  Limits \in [tasks : Nat, openBlockers : Nat, updates : Nat, feedback : Nat,
              activity : Nat, historyTurns : Nat, contextChars : Nat,
              heading : Nat, draftTasks : Nat, topK : Nat, promptChars : Nat]

FirstOf(s, n) == SubSeq(s, 1, IF Len(s) < n THEN Len(s) ELSE n)   \* slice(0, n)
LastOf(s, n)  == IF Len(s) <= n THEN s                            \* slice(-n)
                 ELSE SubSeq(s, Len(s) - n + 1, Len(s))
Entries(s)    == {s[i] : i \in DOMAIN s}

-----------------------------------------------------------------------------
(* projectAgentContext                                                     *)

NotDone(t)    == t.status # "DONE"
IsOpen(b)     == b.status = "OPEN"
Active(tasks) == SelectSeq(tasks, NotDone)
Open(blockers) == SelectSeq(blockers, IsOpen)

\* The title of the blocker's task, when it has one that still exists.
Titled(b, tasks) ==
  [b EXCEPT !.task = IF \E t \in Entries(tasks) : t.id = b.task
                       THEN b.task ELSE "none"]

projectAgentContext(in) ==
  LET shownTasks == FirstOf(Active(in.tasks), Limits.tasks)
      shownOpen  == FirstOf(Open(in.blockers), Limits.openBlockers)
  IN [role           |-> in.role,
      tasks          |-> shownTasks,
      doneTaskCount  |-> Len(in.tasks) - Len(Active(in.tasks)),
      truncatedTasks |-> Len(Active(in.tasks)) - Len(shownTasks),
      openBlockers   |-> [i \in 1..Len(shownOpen) |->
                            Titled(shownOpen[i], in.tasks)],
      resolvedBlockerCount |-> Len(in.blockers) - Len(Open(in.blockers)),
      recentUpdates  |-> FirstOf(in.updates, Limits.updates),
      recentFeedback |-> FirstOf(in.feedback, Limits.feedback),
      recentActivity |-> FirstOf(in.activity, Limits.activity)]

groundedOn(ctx, nHistory, nDocuments) ==
  [activeTasks  |-> Len(ctx.tasks) + ctx.truncatedTasks,
   doneTasks    |-> ctx.doneTaskCount,
   openBlockers |-> Len(ctx.openBlockers),
   updates      |-> Len(ctx.recentUpdates),
   feedback     |-> Len(ctx.recentFeedback),
   activity     |-> Len(ctx.recentActivity),
   retrievedHistory |-> nHistory, retrievedDocuments |-> nDocuments]

-----------------------------------------------------------------------------
(* renderContextBlock: a section has a heading, and a line for each entry  *)
(* or one that says there is none.                                         *)

Line(section, of, chars) == [section |-> section, of |-> of, chars |-> chars]
Section(name, entries) ==
  <<Line(name, "heading", Limits.heading)>> \o
  (IF entries = <<>> THEN <<Line(name, "none", Limits.heading)>>
   ELSE [i \in 1..Len(entries) |-> Line(name, entries[i].id, entries[i].chars)])
CountLine(name) == <<Line(name, "heading", Limits.heading)>>

ContextLines(ctx) ==
  CountLine("workspace") \o Section("tasks", ctx.tasks) \o CountLine("done")
    \o Section("blockers", ctx.openBlockers) \o CountLine("resolved")
    \o Section("updates", ctx.recentUpdates)
    \o Section("feedback", ctx.recentFeedback)
    \o Section("activity", ctx.recentActivity)

Chars(lines) == LET sum[n \in 0..Len(lines)] ==
                      IF n = 0 THEN 0 ELSE sum[n - 1] + lines[n].chars
                IN sum

\* The text is cut after contextChars; a line cut in two does not count.
renderContextBlock(ctx) ==
  LET lines == ContextLines(ctx)
      fit   == {n \in 0..Len(lines) : Chars(lines)[n] <= Limits.contextChars}
      most  == CHOOSE n \in fit : \A k \in fit : k <= n
  IN [lines |-> SubSeq(lines, 1, most), truncated |-> most < Len(lines)]

\* buildMessages: the state first, what was retrieved after it, then the last
\* turns of the conversation and the question.
Message(role, says) == [role |-> role, says |-> says]
buildMessages(ctx, prompt, turns, history, documents) ==
  LET kept == LastOf(turns, Limits.historyTurns)
  IN <<Message("system", <<ctx.role, renderContextBlock(ctx), history, documents>>)>>
     \o [i \in 1..(2 * Len(kept)) |->
           LET turn == kept[(i + 1) \div 2] IN
           IF i % 2 = 1 THEN Message("user", turn.prompt)
                        ELSE Message("assistant", turn.answer)]
     \o <<Message("user", prompt)>>

-----------------------------------------------------------------------------
(* Texts that no model writes: the offline answer and the weekly draft, as *)
(* the entries they name.  A prompt is the set of topics its words touch.  *)

Topics == {"block", "mentor", "recent"}
Topic(words) == CASE "block" \in words  -> "block"
                  [] "mentor" \in words /\ "block" \notin words -> "mentor"
                  [] words = {"recent"} -> "recent"
                  [] OTHER -> "summary"

Top(s) == Entries(FirstOf(s, 1))
fakeAnswer(ctx, words) ==
  CASE Topic(words) = "block"  -> Entries(ctx.openBlockers)
    [] Topic(words) = "mentor" -> Top(ctx.openBlockers) \cup Top(ctx.recentFeedback)
         \cup {t \in Entries(ctx.tasks) : t.status = "BLOCKED" \/ t.old}
    [] Topic(words) = "recent" -> Entries(FirstOf(ctx.recentActivity, 8))
                                    \cup Top(ctx.recentUpdates)
    [] OTHER -> Top(ctx.openBlockers) \cup Top(ctx.recentUpdates)
                  \cup Top(ctx.recentFeedback)

deterministicWeeklyDraft(ctx) ==
  Entries(FirstOf(ctx.tasks, Limits.draftTasks)) \cup Entries(ctx.openBlockers)
    \cup Entries(ctx.recentUpdates) \cup Entries(ctx.recentFeedback)

-----------------------------------------------------------------------------
(* The calls.  A call is "ok", "empty" (an answer without text) or         *)
(* "error"; a model that is not bound, or AGENT_FAKE_AI, is "off".         *)

\* retrieve: two queries, one for history and one for documents, each by
\* score, and what is too weak or names no entity dropped.
Matches(vectors, types, k) ==
  FirstOf(SelectSeq(vectors, LAMBDA v : v.entityType \in types), k)
Keep(found) == SelectSeq(found, LAMBDA v : ~v.weak /\ v.entityId # "none")
HistoryTypes == {"UPDATE", "BLOCKER", "FEEDBACK"}
retrieve(vectors, embed) ==
  IF embed # "ok" THEN [history |-> <<>>, documents |-> <<>>]
  ELSE [history   |-> Keep(Matches(vectors, HistoryTypes, Limits.topK + 1)),
        documents |-> Keep(Matches(vectors, {"DOCUMENT"}, Limits.topK))]

Nothing == [history |-> <<>>, documents |-> <<>>]
Found(vectors, model, embed) ==
  IF model = "off" THEN Nothing ELSE retrieve(vectors, embed)

\* ask: the code of the refusal or the answer with what it rests on.
ask(prompt, state, in, vectors, embed, model) ==
  LET ctx   == projectAgentContext(in)
      found == Found(vectors, model, embed)
  IN CASE prompt = 0 -> [code |-> "empty_prompt"]
       [] prompt > Limits.promptChars -> [code |-> "prompt_too_long"]
       [] prompt \in 1..Limits.promptChars /\ state # "ok" -> [code |-> "workspace_missing"]
       [] prompt \in 1..Limits.promptChars /\ state = "ok" /\ model = "error" ->
            [code |-> "ai_unavailable"]
       [] prompt \in 1..Limits.promptChars /\ state = "ok" /\ model = "empty" ->
            [code |-> "agent_error"]
       [] OTHER -> [code |-> "answered", usedFakeAI |-> model = "off",
                    groundedOn |-> groundedOn(ctx, Len(found.history),
                                              Len(found.documents)),
                    retrieved  |-> found.history \o found.documents]

\* draftBlockerReminder: the model's sentence, or the template for its reader;
\* only a workspace that does not answer makes it throw.
draftBlockerReminder(state, exists, audience, model) ==
  IF state # "ok" THEN [text |-> "throws", usedAI |-> FALSE]
  ELSE IF ~exists THEN [text |-> "gone", usedAI |-> FALSE]
  ELSE IF model = "ok" THEN [text |-> "model", usedAI |-> TRUE]
  ELSE [text |-> IF audience = "manager" THEN "escalation" ELSE "reminder",
        usedAI |-> FALSE]

\* draftWeeklyReport: the model's text, or the marked deterministic draft.
draftWeeklyReport(state, in, model) ==
  IF state # "ok" THEN [by |-> "throws", cites |-> {}, aiGenerated |-> FALSE]
  ELSE IF model = "ok" THEN [by |-> "model", cites |-> {}, aiGenerated |-> TRUE]
  ELSE [by |-> "template", aiGenerated |-> FALSE,
        cites |-> deterministicWeeklyDraft(projectAgentContext(in))]

-----------------------------------------------------------------------------
(* Inputs, and what holds for all of them.                                 *)

Names == <<"e1", "e2", "e3">>
Upto(n, Row(_, _)) ==
  UNION {{[i \in 1..k |-> Row(Names[i], pick[i])] :
            pick \in [1..k -> {"TODO", "BLOCKED", "DONE"}]} : k \in 0..n}
TaskOf(name, status) ==
  [id |-> name, status |-> status, old |-> status = "TODO", chars |-> 3]
BlockerOf(name, status) ==
  [id |-> name, task |-> name, chars |-> 2,
   status |-> CASE status = "TODO" -> "OPEN"
                [] status = "BLOCKED" -> "RESOLUTION_REQUESTED"
                [] status = "DONE" -> "RESOLVED"]
Posts == {SubSeq([i \in 1..3 |-> [id |-> Names[i], chars |-> 1]], 1, n) : n \in 0..3}

Inputs == [role : {"intern"}, tasks : Upto(3, TaskOf),
           blockers : Upto(2, BlockerOf), updates : Posts, feedback : Posts,
           activity : Posts]

\* The numbers shown with an answer account for every task, and no section
\* outgrows its limit (projectAgentContext, groundedOn).
ASSUME CountsAddUp ==
  \A in \in Inputs :
    LET ctx == projectAgentContext(in)  g == groundedOn(ctx, 0, 0) IN
    /\ g.activeTasks + g.doneTasks = Len(in.tasks)
    /\ g.openBlockers + ctx.resolvedBlockerCount <= Len(in.blockers)
    /\ Len(ctx.tasks) <= Limits.tasks
    /\ Len(ctx.openBlockers) <= Limits.openBlockers
    /\ Len(ctx.recentActivity) <= Limits.activity

\* No text written without the model names a blocker that is not open, or
\* anything the model would not have been told (fakeAnswer, weekly draft).
ASSUME OfflineIsGrounded ==
  \A in \in Inputs :
    LET ctx  == projectAgentContext(in)
        told == Entries(ctx.tasks) \cup Entries(ctx.openBlockers)
                  \cup Entries(ctx.recentUpdates) \cup Entries(ctx.recentFeedback)
                  \cup Entries(ctx.recentActivity)
    IN /\ \A b \in Entries(ctx.openBlockers) : b.status = "OPEN"
       /\ \A words \in SUBSET Topics : fakeAnswer(ctx, words) \subseteq told
       /\ deterministicWeeklyDraft(ctx) \subseteq told

\* The text is cut from its end, and says so: an open blocker is only missing
\* from it when all that comes after is missing too (renderContextBlock).
ASSUME CutFromTheEnd ==
  \A in \in Inputs :
    LET ctx == projectAgentContext(in)  block == renderContextBlock(ctx)
        of(section) == {l.of : l \in {k \in Entries(block.lines) :
                                        k.section = section}}
        all == {b.id : b \in Entries(ctx.openBlockers)}
    IN ~(all \subseteq of("blockers")) =>
         block.truncated /\ of("updates") = {} /\ of("activity") = {}

\* The conversation handed to the model starts with the instructions and then
\* alternates, ending with the question (buildMessages).
ASSUME ConversationAlternates ==
  \A n \in 0..(Limits.historyTurns + 1) :
    LET in    == CHOOSE x \in Inputs : x.tasks = <<>>
        turns == [i \in 1..n |-> [prompt |-> 2 * i, answer |-> 2 * i + 1]]
        said  == buildMessages(projectAgentContext(in), 0, turns, <<>>, <<>>)
    IN /\ Len(said) <= 2 * Limits.historyTurns + 2
       /\ \A i \in 2..Len(said) :
            said[i].role = IF i % 2 = 0 THEN "user" ELSE "assistant"
       /\ said[Len(said)] = Message("user", 0)
       /\ n > 0 /\ Limits.historyTurns > 0 =>
            said[Len(said) - 1].says = turns[n].answer

\* Documents and history each get their share, and nothing weak or nameless
\* is shown (retrieve): a match of one kind is only missing when there are
\* more than topK of its own kind, or it is weak or nameless.
Vectors ==
  LET V == [entityType : {"UPDATE", "DOCUMENT"}, entityId : {"x", "none"},
            weak : BOOLEAN]
  IN UNION {[1..n -> V] : n \in 0..3}
ASSUME RetrievalIsFair ==
  \A vs \in Vectors :
    LET found == retrieve(vs, "ok") IN
    /\ \A v \in Entries(found.history \o found.documents) :
         ~v.weak /\ v.entityId # "none"
    /\ \A i \in DOMAIN vs :
         /\ vs[i].entityType = "DOCUMENT" /\ ~vs[i].weak /\ vs[i].entityId # "none"
         /\ vs[i] \notin Entries(found.documents)
         => Len(SelectSeq(vs, LAMBDA v : v.entityType = "DOCUMENT")) > Limits.topK

=============================================================================
