# InternPulse: verification development

InternPulse is a realtime workspace for one internship: an intern, a mentor and
a manager share tasks, blockers, updates and weekly reports. A Cloudflare Worker
routes requests, one Durable Object per workspace owns its SQLite tables and its
WebSockets, D1 holds users, memberships and invitations, two durable workflows
drive blocker escalation and the weekly review, queues connect the parts, and a
React client shows a live copy. Paths below are relative to the repository.

This directory holds TLA+ models of the parts where order or case analysis
matters, TLC runs on small instances, and TLAPS proofs. `PROJECT.json` maps every
definition to the lines it models and lists the runs, the mutants (plausible bugs
each property catches), the findings, the hazards and the theorems.

## 1. Inventory

| Component | State | Operations | What makes it correct |
|---|---|---|---|
| Workspace Durable Object (`src/worker/workspace-do.ts`, `workspace-store.ts`) | tables tasks, blockers, blocker_comments, updates, feedback, mentions, activity, reminders, weekly_reports, attachments, processed_requests; roster cache; accepted sockets with a stamped identity | twelve mutations over WebSocket, upgrade and snapshot, close, RPCs for the Worker, the workflows and the agent | a request applies once; an acknowledgement is true; references stay intact; a blocker moves forward; tabs and tables agree |
| Store schema and migrations (`workspace-store.ts`) | schema version, tables with their CHECKs | bring any older store up to date in the constructor | one schema in the end, no row lost, no start that fails for ever |
| Role matrix (`src/worker/permissions.ts`) | none | `canMutate` | one decision before every mutation, and screens that offer what it permits |
| Attention (`src/worker/attention.ts`) | none (derived) | compute a list per user | the list follows its condition |
| Mentions (`src/shared/mentions.ts`, `src/client/ui`) | the composer's field | parse, suggest, insert | what the field inserts is what the Worker finds |
| Blocker workflow (`src/worker/blocker-workflow.ts`) | step, sleeps, results of steps | read, sleep, check, remind, sleep, check, escalate | no reminder about a resolved blocker, no second run, an end |
| Workflow queue (`enqueueWorkflowStart`, `src/worker/queue-consumer.ts`) | messages and retries | send, deliver, create or find created | at-least-once delivery is harmless |
| Weekly review (`src/worker/weekly-workflow.ts`, `handleWeekly` in `index.ts`) | report rows, the instance, its buffered events | start, edit, submit, review, override, time out | one open report; row and instance agree; each request is used once; approval is final and was decided |
| History index and documents (`queue-consumer.ts`, `history-index.ts`, `documents.ts`) | vectors, R2 objects, rows with their index status | upload, index, re-index, delete | a listed file has bytes, an indexed one is found by all of its text, the newest text wins |
| Progress agent (`progress-agent.ts`, `agent-context.ts`) | conversation table, ask counter | project the context, retrieve, ask, answer without the model | grounded in open work, within its bounds, a conversation that alternates |
| Invitations, identity, admin, creation (`invitations.ts`, `production-identity.ts`, `admin-routes.ts`, `index.ts`) | D1 rows | invite, resend, revoke, accept, sign in, create, add, repair, remove, suspend | no role nobody granted, no invitation used twice, a workspace keeps a manager, demo and production apart |
| Worker routing, lists and overviews (`index.ts`) | none | resolve the caller, list, overview, summary, reminders | a reader is a member; what is listed can be opened |
| Client session (`src/client/auth`, `production`, `onboarding`, `lib`) | auth state, route, the mounted workspace's socket, preflight and timer | refresh, navigate, accept, create, connect, retry, close | one connection at a time; lists that include what was just accepted; a view that settles |
| Client forms (`WeeklyTab`, `AgentTab`, `Board`) | selection, draft, turns, busy flags | type, send, take pushes and answers | a draft stays with its report; nothing is shown twice; buttons come back |
| Access token check, scripts, seed, end-to-end tests, rendering | none of their own | | out of scope (section 5) |

**Interaction.** Tabs send mutations over a socket; the object writes, broadcasts
events, pushes each tab its attention list, acknowledges, and only then enqueues
the blocker's start message and index events. The queue consumer creates the
workflow `blocker-<id>`, and embeds rows and files into the vector index; the
workflows and the Worker call the object by RPC. A weekly request reads the row in
one RPC and then sends an event to the instance `weekly-<id>`, which waits for it or
buffers it. Every request resolves its caller against D1 first, and membership
changes are sequences of D1 statements with no transaction around them.

**What is hard.** The object is single threaded but not atomic: `loadMembers`
awaits D1 in the middle of three mutations and of every snapshot, and other
handlers run there. It may be reset in that gap. Handlers in the Worker make
several calls, any of which may be the last. Queues deliver at least once, side by
side, and give up. The workflow engine runs a step's body again when it fails part
way. In the client, pushes, HTTP answers, timers and unmounts come in any order.
`PROJECT.json` lists these hazards at their lines, those no property covers with a
note.

## 2. Modules

| Module | Models | Uses |
|---|---|---|
| `Protocol` | roles, statuses, priorities, the role matrix | |
| `WorkspaceDO` | the object, its tables for the twelve mutations, and the tabs | `Protocol` |
| `WeeklyReview` | report rows, weekly workflow, HTTP handlers | `Protocol`, instance of `ReviewContract` |
| `ReviewContract` | the abstract review, as seen on the board | `Protocol` |
| `BlockerEscalation` | raising a blocker, queue, blocker workflow, reminders, the manager's list | `Protocol` |
| `Directory` | users, workspaces, memberships, invitations in D1 and the handlers that write them | `Protocol` |
| `KnowledgeIndex` | files, blockers, their vectors, the queue, the agent's turns | `Protocol` |
| `WorkspaceSession` | one browser tab from sign-in to an open socket | `Protocol` |
| `Screens` | the forms of an open workspace against pushes and answers | `Protocol` |
| `StoreSchema`, `Mentions`, `AgentContext`, `Reads` | pure code, with assumptions TLC evaluates | |
| `*_proofs` | inductive invariants and theorems of `WorkspaceDO`, `WeeklyReview`, `BlockerEscalation`, `Directory`, `KnowledgeIndex`, `WorkspaceSession`, `Screens`; `ReviewContract_proofs`: the refinement | the module each is named for; `WeeklyReview_proofs` |
| `MC*` | message sets, seeds, workloads and symmetry for TLC | the modules they instantiate |

### WorkspaceDO

One action is one uninterrupted run of an event handler. `Receive` is the
delivery of a frame: `Forbidden` (role matrix), `Duplicate` (claimed), `Refuse`
(dispatch throws, the claim is released) or one of twelve dispatch actions, which
write the tables, log the activity row, and either finish (`Finish`: broadcast,
attention, acknowledgement) or, when the message may mention people and the roster
is cold, leave their batch in `pending`. `Resume` is D1's answer, or its failure:
the mentions are inserted, the batch *as it was computed before the gap* goes out.
`Upgrade` and `SnapshotReady` are the two halves of a joining socket, `Disconnect`
its close or error, `RosterExpires` and `ClaimsExpire` the two TTLs, `Restart` the
reset of the instance, which keeps tables and loses handlers and sockets.

`replica[s]` is what tab `s` shows once it has read its socket; messages on one
socket are ordered, so no inbox is needed. A row is named by the request that
inserted it. Frames may be sent again with the same id while the id is younger than
its TTL. The client draws a new id per click, so a re-sent frame is what the
idempotency code is there for, not what today's client does.

`Snapshot` takes its blockers from `ListBlockers`: every unresolved one, and of the
resolved ones the `ResolvedTail` (20 in the code) that were resolved last. Of
`resolved_at` only the order matters, so resolutions are numbered; two within the
same millisecond, which SQLite may list in either order, are not modelled. The other
lists of the snapshot have limits too (section 5); no property depends on them, and
tasks have none.

Two things this module does not see. `AppliedOnce` counts activity rows, and a
`task.update` without a status writes none: applying it twice would leave no trace
here (it is claimed by the same code). And the RPC `createReminder` is in
`BlockerEscalation`: it broadcasts the reminder but pushes no attention list, so
`AttentionFresh` speaks of the mutations' pushes, and a list that an escalation
outdates catches up at the next one.

### WeeklyReview and ReviewContract

`reports` are the rows, `flow` the instance of each report: the step or wait it is
in, the next call of the step's body, the tries of that body, the loop's `round`,
the last review `event`, and buffered submits and reviews. `calls` are HTTP
handlers between their RPCs; `sawStatus` and `sawRound` record what the first one
read. Call by call, `WriteDraft`, `SetStatus`, `RecordOverride` and `Remind` are
the bodies of the steps; `Recorded` moves on; `Retry` runs the body again or fails
the instance; `Timeout` ends a wait. `Abandon` stops a handler between two calls.
A call id stands for the text it carries. An instance whose body used up its tries is
`failed`: it stays where it stopped, whichever calls of that body were made.
`OverrideAudited` looks at every override whose step is over, approvals and last
rounds included; it says nothing while the step still runs its calls or failed
between them, since those are separate RPCs.

`ReviewContract` is what everybody else relies on: a board of statuses and rounds,
the submissions and decisions that were made and not used, one open report at a
time. `WeeklyReview!Implements` is its specification under the mapping *board = status and
round of the row; submits and decisions = the buffered events, and the one in use
until its step has written the row*. A body that runs again, a handler that is
abandoned and a timeout that was not the last step are stuttering steps.

### BlockerEscalation

`tail` holds blockers whose creating handler has acknowledged but not enqueued,
`queue` the deliveries left of each start message, `flow` the instance with the
row it last looked at (`seen`), `reminders` the unique slots per recipient and
type, `shown` the escalations on the manager's tab. `Refresh` is the push of
attention lists that every mutation makes and the RPC `createReminder` does not.
In `WorkspaceDO` the same handler is seen from the other side: the two models meet
at the blocker row and at the tail of the handler, which changes nothing in the
object's tables.

### Directory

`users`, `spaces`, `members` and `invites` are the four D1 tables. A request is a
`call` with a program counter `pc`, the D1 statement it makes next, and `seen`, what
it has read and not yet used. Each statement is an action that any other request
may come before, or that `Fail` ends with 500. The first statements are those of
`resolveCaller` (`BySubject`, `ByEmail`, `Link`, `SignUp`), then
`resolveRole` where the handler calls it, then the handler's own: `Issue` and its
resend (`createInvitation`), `Revoke`, `MemberYet` / `Join` / `Accepted`
(`acceptInvitation`), `Place` and the invitations of a creation, `Change`,
`Count` / `Delete` (`removeMembership`). `granted` remembers every role that
somebody entitled gave to an address; `late` marks a request that is about an
invitation settled before it came in. `Lapse` lets an invitation pass its date.

### KnowledgeIndex

The vector index is a set of chunk numbers per file and the last embedded status per
blocker. `uploads`, `removals`, `fileMail` and `notices` hold where each handler and
each queue message is: every call on R2, the object and Vectorize is a step, a
failure between any two leaves what was done, a message is delivered until
`MaxTries`, and two messages of one entity may be handled at once. `chunkText` is
translated with its break search: a text is its length and its breaks, a chunk the
interval it covers. `Ask` and `Answered` are the two sides of the model's await in
`ProgressAgent.ask`.

### WorkspaceSession

A tab has the auth state, the lists of memberships and invitations on screen,
the hash route, the mounted view, and per view the socket object: `links` counts,
per kind, what it has under way (preflight decision or answer, timer, upgrade,
socket, event), so that "only one" is a property and not an assumption. `Me`,
`Joined` and `Server` are answers of the server and their arrival; a component that
was unmounted still has its answers coming.

### Screens

`form` is the state of the mounted tab's component, `calls` the HTTP requests under
way with the component that sent them, `reports`, `titles` and `stored` what the
server has. A text is the set of things it was written for, so that words that end
up under the wrong report are seen. `BoardOffers`, `BlockerOffers`,
`FeedbackOffers` and `OverviewOffers` say which controls a role gets;
`OffersArePermitted` and `PermittedIsOffered` compare them with `CanMutate`.

### Pure modules

Each states what the code computes as operators and, at its end, assumptions over
every bounded input, evaluated by the run in the last column.

| Module | Assumptions | Run |
|---|---|---|
| `StoreSchema` | `OneSchema`: from every version the present tables result; `CopiesFit`: no rebuilt table's CHECK refuses a row; `RowsKept`: no row or column is lost; `SecondStart`: starting again changes nothing | `WorkspaceTasks` |
| `Mentions` | `EachAtStandsAlone`: one "@" never hides another; `TwoFormsOneMember`: handle and name mention the same member; `PickedIsMentioned`: what the field inserts the parser finds; `KeysPickTheHighlighted`: arrows and Enter pick what is highlighted | `WorkspaceTasks` |
| `AgentContext` | `CountsAddUp`, `OfflineIsGrounded`, `CutFromTheEnd`, `ConversationAlternates`, `RetrievalIsFair` | `KnowledgeKept` |
| `Reads` | `MembersOnly`, `ListedCanBeOpened`, `SilenceIsLocal`, `OverviewsStayApart`, `OverviewCountsFewer`, `ShownCanBeAcknowledged`, `CreationSeatsAll` | `TabSettles` |
| `Screens` | `OffersArePermitted`, `PermittedIsOffered` | `Screens` |

## 3. Runs

Passing runs:

| Run | Question | Bounds |
|---|---|---|
| `WorkspaceTasks` | do task mutations apply once, truthfully, visibly, by their owner only, leaving no dangling reference, with fresh attention lists? | 3 tabs (2 interns, mentor), 2 request ids, 8 messages, 1 seed task |
| `WorkspaceBlockers` | does a live tab know what a joining one would be told, never ahead of the store; does a blocker only move forward, are mentions made exactly once, is presence bounded? | 3 tabs (intern, mentor, manager), 2 request ids, 6 messages, 1 seed task, an open blocker about it and a resolved one, `ResolvedTail = 1` |
| `WeeklyLifecycle` | do row and instance agree, is an approval decided, an override audited, and does all this implement `ReviewContract`? | 2 reports, 4 calls of five kinds, 2 rounds, 2 tries |
| `WeeklyEnds` | does every review end? | 1 report, 3 calls (submit, review), 2 rounds, 2 tries |
| `EscalationRules` | is a blocker settled in time left alone, a run never repeated, a finished run settled; are start messages used up and runs finished? | 1 blocker, 4 deliveries, 3 tries |
| `DirectoryCalls` | is every role granted, an accepted invitation a membership, a used one dead, a creation complete, demo and production apart? | 3 requests, each of which may fail at any statement, against 4 directories; 3 people, 4 identities, 3 workspaces |
| `KnowledgeKept` | do listed files have bytes, indexed ones all their chunks, resolved blockers their newest text, questions their count; do uploads settle? | 4 workloads (a file with many texts, a blocker, three questions, a file and a blocker), 3 deliveries, chunks of 6 with overlap 2, at most 4 |
| `TabSettles` | does a tab keep one connection, up-to-date lists, and settle? | 2 workspaces; up to 3 refreshes, 2 moves, 3 faults, 2 membership changes |
| `Screens` | do drafts stay with their report, the panel put, answers single, buttons alive? | interns, mentors, managers; 3 reports, 2 tasks, 6 clicks, 4 questions, history of 2 turns |

Why the bounds are enough to be interesting: two requests are what it takes for one
to run in the other's gap, and each may be delivered any number of times; three
tabs give an author, a bystander and a late joiner. Two rounds and four calls let a
stale submit and a stale decision overtake a round; two tries let a body stop half
way and repeat. Blockers meet only in the list of the resolved ones: with room for one,
resolving the open blocker pushes the other out of it, so that tabs that joined before
know more than those that join after. That run reaches tabs with an old
status, with a link to the deleted task, with a blocker the list has dropped, and without
one. Three directory requests
give an invitation that is resent, revoked and accepted at once; each seed holds the
requests that touch the same rows, because requests on different rows commute. The
chunk sizes keep the code's proportions (overlap below half a chunk), and the texts
have breaks at every side of the half and end at every side of a chunk. Three
refreshes let an old answer come after a new one. `WEEKLY_MAX_ROUNDS` is 3 in the code and at
most 2 in the runs: the third round repeats the second. `MaxDeliveries` is 4 as
configured (`max_retries` 3 in `wrangler.jsonc`).
The pure modules take every text of up to 3 characters and queries of up to 3
(`Mentions`), every directory of two workspaces with up to 3 memberships
(`Reads`), a store of every version (`StoreSchema`), and sections that outgrow
limits of 1 or 2 (`AgentContext`).

Runs that expect a violation, each one sentence of the repository's own text that
the code does not keep (quoted in `findings`):

| Run | What happens |
|---|---|
| `StaleBlocker` | a comment waiting for the roster rebroadcasts the blocker as it was; tabs show a resolved blocker as open |
| `LastManager` | two managers are removed at once, each request counting the other; the workspace has none |
| `ForgottenFile` | a file is deleted while its chunks are embedded: the delete finds no chunks to remove, the upsert comes after |

### Behaviour a reader may not expect

The models have these too; no run states them either way.

- *Weekly review.* The agent's draft overwrites what the intern wrote meanwhile
  (`weekly-workflow.ts:44`). A review whose instance has ended, or was never created,
  cannot be started again in its period (`workspace-store.ts:831`, `index.ts:564`, `622`). A second
  decision buffered in one round decides the next (`index.ts:645`). The override
  label outlives the round it belonged to (`workspace-store.ts:914`). An edit that passed
  the status check is written during the review; the second request for changes makes no
  second notice.
- *Blockers.* The escalation item of a resolved blocker stays (`attention.ts:208`); a
  blocker resolved between the check and the reminder is nudged; an escalation waits for
  the next push to reach an open list; a lost start message leaves the blocker without
  reminders.
- *Object and tabs.* A tab keeps a blocker's link to a task that was deleted; a tab
  that joins while a handler waits shows the activity entry twice; a mention is
  broadcast to every tab; a second comment naming the same member on the same blocker
  makes no second mention.
- *Directory.* Two first logins of two identities with one address: the second binding
  replaces the first, although `production-identity.ts:96-98` says "Never silently
  merge or overwrite". A role repair can demote the last manager (`admin-routes.ts:106`).
  `handleAddMember` is called a demo route (`index.ts:916`) and serves production too.
- *Reads.* `DEMO_MODE=off` "disables `/api/demo/*` entirely" (`src/README.md:196`), but
  the demo list, creation and summary never resolve a caller. The manager's overview
  counts OPEN blockers, the Overview tab all that are not RESOLVED; a failing query for
  the intern's name fails the whole overview, a silent object only empties its row.
- *Agent.* A blocker whose resolution was requested is presented as resolved; forty long task
  titles push the open blockers out of the context text.
- *Migration.* Where foreign keys are enforced, version 5's `DROP TABLE tasks` clears
  the task links of blockers and feedback.
- *Mentions.* Of two members with one display name only the first can be mentioned; a
  name with a letter right after it can mention a longer name; a popup closed with Escape
  opens again at the next key that is not text.
- *Forms.* A panel's draft is only initialised once (`WeeklyTab.tsx:153`): the agent's draft
  appears when the tab is opened again, and saving before that overwrites it. Submit does not
  save the draft. An answer to start that comes before its push moves the selection
  back. A task editor that stays open for another task keeps the first one's text
  (`Board.tsx:70`) and saves it whole. A question asked before the history arrives disappears
  from the screen. `send` drops a frame when the socket is down while the composer
  empties its text; `AdminPage`'s lists are not guarded against late answers.

`CHECK_DEADLOCK FALSE` everywhere: when all requests are used, all runs ended and
all tabs gone, the system may stop.

**Fairness.** `WeeklyReview!FairSpec`: the engine wakes waiting instances
and runs their steps; timeouts are configured for both waits. A retried body is
bounded by `MaxTries`, as the engine's retry limit is. `BlockerEscalation!Fairness`:
a handler reaches its enqueue or loses it, the queue delivers, the engine advances.
`KnowledgeIndex!FairSpec`: a queued document event is delivered, and its handler goes
on or fails. `WorkspaceSession!FairSpec`: the server answers or the request fails, and
answers, timers and socket events are handled. `Screens!FairSpec`: requests are
answered or fail, and answers are handled. People, resets, failures and
membership changes are never assumed to happen.

## 4. Proofs

`WorkspaceDO_proofs` proves, for any users and roles, tabs, request ids, seeds and
any set of well-formed messages (assumptions `RolesAssumption`, `IdsAssumption`,
`SeedsAssumption`, `MessagesAssumption`, `NoneAssumption`; blocker ids are finitely many, so
that the resolved ones can be counted, and the seeds' resolutions are numbered):

- `Invariance`: `Spec => []IInv`, with
  `IInv == TypeOK /\ RequestsOK /\ Views /\ ReferencesIntact`.
- `TypeCorrect`, `AppliedAtMostOnce`, `AcksAreTrue`, `TabsShowTasks`,
  `PresenceIsBounded`, `AttentionIsFresh`, `ReferencesHold`: invariants of the runs.
- `BlockersMoveForward`, `OnlyOwnersMoveTasks`: two action properties of the runs.
- `ScreensInvariance` (`Spec => []BInv`) with `TabsKnowBlockers`, and
  `MentionsInvariance` (`Spec => []NInv`) with `MentionsAreExact`: two more invariants
  of the runs, each with an inductive invariant of its own on top of `IInv`.

`AppliedOnce` and `AckedIsApplied` need the books of requests, `RequestsOK`. A request
is *known* when its claim is in `processed_requests` or has expired; `claimRequest`
prunes the table, so the claims alone would not do. `Once` says that whatever was
applied is known; `Effects` that whatever is known was sent and is in effect, which
holds because a claim is released when dispatch throws and because no later step undoes
an effect; `Answers` that only known ids were acknowledged; `Waiters` that a handler in
the gap has claimed its id; `Fresh` that no row bears an id that is not known, so that
an insert never overwrites a row. That a resolved blocker stays resolved is part of the
same argument (`EffectStays` rests on `DispatchForward`), and `Fresh` is what
`BlockersMoveForward` and `OnlyOwnersMoveTasks` need.

`Views` (`TasksInSync`, `PresenceBounds`, `AttentionFresh`) is kept because every handler
either publishes a batch that tells of the task it wrote, with the lists recomputed from
the store of that moment, or waits with a batch that holds no task (`WaitingBatch`, part
of the types). `ReferencesIntact` is inductive with the types and `Fresh`: `TaskDelete`
detaches every blocker and feedback row, and the other actions check that the row they
refer to exists.

`BlockersKnown` is the subtle one: tabs do *not* show the store's blockers, since a
handler that waited for D1 publishes rows of before the wait (the run `StaleBlocker`).
`BInv` says what is left. `ScreensBehind`: a blocker without a row on a screen is one
`ListBlockers` would not list, and a screen's row may be old, never further
along than the store's, and bears another task only if that one is `Gone`, that is,
deleted and of an id no request can still take. `WaitersBehind` says the same of the
batches that wait, which is what makes it inductive. `Onwards` is what any step does
to a row that somebody holds: blockers move forward, a link is only dropped, and what
is gone stays gone (`Fresh` again). `UnlistedStays` is the argument about the limit: a
resolved blocker has its number for good and the later ones only get more, so one that
dropped out of the list never comes back and a tab that joined without it owes nothing.

`MentionsExact` is a sum over both sides of the gap. `NInv` has four parts: `Sourced`
(what a known request wrote is there), `Owed` (every mention is about what its
request wrote, to somebody it named), `Single` (no two for one source, because
`applyMentions` looks at the table after the await and not before it) and `Paid`
(everybody named has one, once the handler is neither waiting nor interrupted).

TLC checked `IInv`, `BInv` and `NInv` as invariants of the instances of
`WorkspaceTasks` and `WorkspaceBlockers`, and `BInv` where the task of a seed blocker is
deleted.

`WeeklyReview_proofs` proves, for any reports, requests and kinds of them, rounds and
tries (assumptions `WeeklyAssumption`, `KindsAssumption`, `NoneAssumption`):

- `Invariance`: `Spec => []IInv`, with
  `IInv == TypeOK /\ HandlersOK /\ OneOpen /\ \A r \in Reports : ReportOK(r)`.
- `TypeCorrect`, `RowAndFlowAgree`, `ApprovalsAreDecided`, `OverridesAreAudited`:
  invariants of `WeeklyLifecycle`; `OneOpenReport`: at most one report is open.

`ReportOK(r)` is what row, instance and buffered requests of one report say of each
other: `RowFollows`; `FlowOK` (an instance has a row, holds only requests decided for
this report while it was under review, and is at `approve` exactly when its event says
so); `Unmoved` (a row without an instance is a draft of round 0, which is why a lost
creation does no worse than leave it there); `ApprovalOK` and `OverrideOK`.
`RowFollows` alone is not inductive: an instance that takes an event must not have
made a call of the next body yet (`FlowOK`: it waits with `next` and `tries` at 1), the
first wait is for round 0, and no instance starts over a row that has moved, which
needs `Unmoved` and `HandlersOK` (one handler at most is about to create the instance
of a row, and the row has none yet). Handlers and the steps of
other reports leave `ReportOK(r)` alone by two frame lemmas, `ReportFrame` and
`FlowFrame`, which rest on `CallsKept`: what a request is about never changes. TLC
checked `IInv` as an invariant of the `WeeklyLifecycle` instance first.

`ReviewContract_proofs` proves `Refinement`: `Spec => Implements`, from `Invariance`.
`Unseen(r)` says that a step changes nothing of what the contract sees of report `r`;
`Untouched` gives it for every report a step is not about, `SilentCalls` and
`SilentTakes` for the calls and waits that only concern the instance. `Moves` is the
heart: the first write of a status by a step uses the submission or the oldest
decision, and a later one of a body that runs again writes what is already there
(`Turns`). `Records`, `TimesOut` and `Retries` either end the review, which gives up
what it did not use, or are not seen; `Delivers` and `HandlersImplement` map a sent
event to `Ask` and an inserted row to `Begin`. Seven lemmas (`Begins` to `GivesUp`)
lift what happens at one report to the functions over all of them.

`BlockerEscalation_proofs` proves, for any set of blockers, any number of deliveries
and any number of tries (assumptions `EscalationAssumption`, `NoneAssumption`):

- `Invariance`: `Spec => []IInv`, the inductive invariant.
- `TypeCorrect`, `Settled`, `NeverRestarted`, `LeftAlone`: the run's safety properties.
- `ListIsOpen`: the manager's list never shows an acknowledged escalation;
  `RemindersStop` and `EscalationStops`: the two halves of `LeftAlone`, as "stays that
  way from here on" formulas.

None of the safety invariants is inductive alone. `EndedMeansSettled` needs to know
how a run came to its end: `Watched` says that an instance belongs to a blocker that
exists, `SeenIsTrue` that whatever an instance saw resolved or answered still is
(nothing un-resolves a blocker), `EscalationMade` that a body which is past its call
has left its row (so a repeat or a lost answer does no harm), and `NoneEarly` that no
reminder precedes the check it depends on. Each conjunct is kept by every action in a
lemma of its own; TLC checked `IInv` as an invariant of the `EscalationRules` instance
first. The two stopping theorems add a step argument: once a blocker is answered in
time, the next check sees it, so "no nudge yet" together with where the instance is
stays true for ever.

`Directory_proofs` proves, for any addresses, identities, workspaces, number of
requests, and any earlier directory whose rows are consistent (assumptions
`DirectoryAssumption`, `NoneAssumption`, `SeedsAssumption`, `HistoryAssumption`):

- `Invariance`: `Spec => []IInv`, the inductive invariant.
- `TypeCorrect`, `OnlyGrantedRoles`, `AcceptedAreMembers`, `ReplaysRejected`:
  invariants of `DirectoryCalls`.
- `ModeInvariance` (`Spec => []MInv`), and from it `CreationsComplete` (an invariant)
  and `ModesApart` (an action property of `DirectoryCalls`).

Between two statements a request holds on to something it read, and the others write
meanwhile. `IInv` has a part about the rows (`RowsOK`, `GrantedRoles`,
`AcceptedIsMember`) and for each request `CallOK`, what it may rely on where it
stands: `Grounded` (the row it read keeps its workspace and address, whoever it found to
be a member was one, its workspace is still there), `KeysFree` (no row bears the key of an
invitation it may still insert), `ResendHolds`, `AcceptHolds` and `LateHolds` (what the
pending row it found may have become, and that a request about a settled invitation
never gets past its check). The argument is in two halves: a statement keeps the rows and
its own request's part, action by action; and what one request does to the rows is
`Stable` (rows are never renamed, settled invitations stay settled, nobody's
ever having been a member is forgotten), and every other request's part survives a
stable step (`OthersKeep`). `Assemble` puts the halves together. The history
assumption says that earlier requests left directories that satisfy the rows' part;
TLC evaluates it on the seeds of both runs.

`MInv` is about modes and teams. `InvitedInProd`: only production invites, which is
also part of the history assumption, because the demo has no route that invites.
`ModeHolds`: between `resolveRole` or the creation of its row and its last
statement, a request works on a workspace of its own mode. `TeamHolds`: a creation has
placed or invited its creator and everybody it is through with, and all of them once
it has answered 201. "Placed" means that the address was a member at some time: an
admin may remove somebody while the creation is still at work. `Lasting` is what no
step undoes (a workspace keeps its mode, a membership was once there, an invitation
keeps its workspace and address), so that other requests' parts survive.
`ModesApart` then looks at each statement that writes a membership or an invitation
(`Touched`) and whose request it belongs to. TLC checked `MInv` on the instance of
`DirectoryCalls`.

`KnowledgeIndex_proofs` proves, for any files, texts, blockers, questions, limits of
`chunkText` and number of deliveries (assumptions `KnowledgeAssumption`,
`TextsAssumption`, `NoneAssumption`):

- `Invariance`: `Spec => []IInv`; `IInv` has a part for each of the three tables and
  holds for each file and each blocker by itself, so a step about one leaves the others
  alone (`FileElsewhere`, `BlockerElsewhere`).
- `ListedHasBytes`, `ResolvedFound`, `CountIsTurns`: invariants of `KnowledgeKept`.
- `IndexedSearchable`: the invariant `IndexedMeansSearchable`.

`RowHasBytes` needs `FileOK`: a file's row is written once, before its event is sent,
and nothing is deleted before the row is; so no handler of a deleted file can bring a row
back. `ResolvedIsFound` needs `BlockerOK`: the event of a resolution exists only after
it, and unless both events were once handled side by side, a handler that read the
older text has written it before the resolution's handler reads.

`IndexedMeansSearchable` has two halves. The order of the calls in `indexDocument`
gives that the vectors a row counts are there (`FileOK`) and that there are no others
(`VInv`). That the chunks leave out nothing is `ChunksCover`: the first start after a
place belongs to a chunk that ends after it, and the chunk before is the one that has
the place. `Starts` is a recursive function, and the library's induction is out of
reach; `StartsIs` shows that its equation has a solution, and only one, by taking the
least number at which that would fail (`MinIn`, from the well-foundedness of finite
sets).

TLC checked `IInv` and `VInv` as invariants of the `KnowledgeKept` instance.

`WorkspaceSession_proofs` proves, for any workspaces, any way the tab is opened and
any number of requests, moves, faults and membership changes (assumption
`SessionAssumption`):

- `Invariance`: `Spec => []IInv`.
- `ChainsAreSingle` and `AcceptedShows`: the invariants `OneChain` and
  `AcceptedIsListed` of `TabSettles`.

`ChainOK` is one view's part: nothing or exactly one thing is under way in it, a denied
view is at rest, and a closed one has no socket and no timer. That its preflight
may still be out is the point: its answer finds `closedByCaller`. `MountOK` says that
the view on screen is the only one that is not closed. That a view which is mounted is
a new one needs a count, `Budget`: views in use, answers that may still mount one,
and moves left add up to at most the number of views there are, so that `Min` of the
unused ones exists and the model's bound never stops the code. `AcceptedShows` follows
what an accepted invitation is worth: in the tables (`JoinHolds`), in each answer that
was read since, and in the lists on screen (`AnswersHold`), where a request that
overlapped another one is given up, as the property does. `OneChain` speaks of each kind
of link and not of their sum, which the provers cannot compute.

`Screens_proofs` proves, for any tasks, any person and any number of reports, visits,
questions and clicks:

- `Invariance`: `Spec => []IInv`.
- `DraftsApart`, `PushesHold`, `ShownStored`: the properties `DraftsStayApart`,
  `PanelHolds` and `ShownIsStored` of the run `Screens`.

`RowsOK` follows the words through rows, pushes and calls. `PanelOK` says that the
effect of `WeeklyTab` has run: the panel's report is the chosen one, and the draft is
its own. `ArriveOK` says that pushes come in the order of the reports, so that a row
which arrives is never one before the ones already there. `AgentOK` is the conversation: the
answers on screen are stored, in order, an open question is the last turn, and if its
answer is on its way then it was stored after all that are shown (`StoredAfter`), which
is why replacing the turn in place keeps the order; `CallsOK` says that it is the only
question of this tab and that the history is a stretch of what was stored.
`ShownIsStored` is stated with an increasing map into the stored turns.

TLC checked both `IInv`s as invariants of the instances of `TabSettles` and `Screens`.

Only model-checked:

- The liveness properties `ReviewEnds`, `StartsAreHandled`, `UploadSettles`,
  `ViewSettles` and `BusyEnds`: fairness is out of the provers' reach.
- The pure modules: their assumptions are evaluated on bounded inputs.

Every other property of a passing run is the subject of a theorem.

## 5. Not modelled

- The check of the Access token: a library's signature check over one request.
- The audit trail and the admin page's listings, which no handler reads.
- Attention items that only time or a weekly report raises.
- Rendering, and components that post one form and forget it, among them the board's
  "+ New task" editor; scripts, seed,
  end-to-end tests, generated files.
- Texts and their length checks, titles, descriptions, due dates, timestamps; the
  limits of the snapshot lists (50 updates, 200 comments, 50 mentions; the one on resolved
  blockers is modelled) and the client's 150 activity entries; malformed frames and queue
  messages; the model's words.
- Delays: a sleep, a backoff or a timeout ends at some point.
- A disconnected tab's stale screen is not tracked in `WorkspaceDO`. A request id is
  not sent again after its claim expired. The role stamped on a socket is constant:
  `Directory` changes memberships, and open sockets do not learn of it.

## 6. Plan

Done, in this order: `Protocol`, `WorkspaceDO`, `WeeklyReview`,
`BlockerEscalation`, `Directory`, `KnowledgeIndex`, `WorkspaceSession`,
`ReviewContract`, `Screens`, the pure modules; the proofs of every safety property of
these modules, in the order of section 4, and of the refinement.

Left:

- An atomic workspace service that applies each request once, implemented by
  `WorkspaceDO` (a request takes effect when its handler writes).
