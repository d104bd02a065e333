--------------------------- MODULE KnowledgeIndex ---------------------------
(***************************************************************************)
(* What the Progress Agent can look up: uploaded files and blockers, their *)
(* vectors in Vectorize, the queue that keeps the vectors up to date, and  *)
(* the agent's own conversation table.                                     *)
(*                                                                         *)
(*   handleAttachments    (src/worker/index.ts) writes the bytes to R2 and *)
(*                        the row to the Durable Object, or removes both   *)
(*   handleHistoryIndexBatch, indexDocument (src/worker/queue-consumer.ts) *)
(*                        read the authoritative row, embed and upsert     *)
(*   ProgressAgent.ask    (src/worker/progress-agent.ts)                   *)
(*                                                                         *)
(* Every call to R2, the Durable Object and Vectorize is a step of its     *)
(* own.  The queue delivers at least once and gives up after max_retries;  *)
(* batches of it are handled side by side (wrangler.jsonc sets no          *)
(* max_concurrency).  Embedding and upsert are one step: nothing is read   *)
(* or written between them, and both fail alike.  Requests refused for     *)
(* their role, size or form have no effect and are left out; so is a       *)
(* deployment without R2, Workers AI or Vectorize, where all this is off.  *)
(* Updates and feedback, which never change, are indexed like a blocker    *)
(* that nobody resolves.                                                   *)
(***************************************************************************)
EXTENDS Protocol, Sequences, FiniteSets, FiniteSetsExt

CONSTANTS
  Files,        \* attachment ids
  Blockers,     \* blocker ids
  Asks,         \* questions to the agent
  Workloads,    \* which files, blockers and questions occur, and the texts
  MaxTries,     \* deliveries of a message, 1 + max_retries
  ChunkChars,   \* CHUNK_CHARS
  ChunkOverlap, \* CHUNK_OVERLAP
  MaxChunks     \* MAX_CHUNKS

ASSUME KnowledgeAssumption ==
  /\ MaxTries \in Nat \ {0} /\ MaxChunks \in Nat \ {0}
  /\ ChunkChars \in Nat \ {0} /\ ChunkOverlap \in Nat
  /\ 2 * ChunkOverlap < ChunkChars

\* A blocker that was not raised has no status.
ASSUME NoneAssumption == None \notin BlockerStatuses

-----------------------------------------------------------------------------
(* chunkText.  A text is its length and the places where a paragraph, a    *)
(* line or a sentence ends; a chunk is the interval it covers.             *)

Text == [len : Nat, breaks : SUBSET Nat]
\* A file has a text, or none that could be extracted.
ASSUME TextsAssumption == \A w \in Workloads : w.texts \subseteq Text \cup {None}

\* The chunk at i ends at its last break, when that is in its second half.
ChunkEnd(t, i) ==
  LET end  == Min({i + ChunkChars, t.len})
      brks == {p \in t.breaks : i <= p /\ p < end} IN
  IF end < t.len /\ brks # {} /\ 2 * (Max(brks) - i) > ChunkChars
    THEN Max(brks) + 1 ELSE end

\* Mutant: the next chunk starts after the overlap instead of before it.
LaterStart(end, i) == Max({end + ChunkOverlap, i + 1})
NextStart(end, i)  == Max({end - ChunkOverlap, i + 1})

\* Where the next chunk starts; at the end of the text, where none does.
NextChunk(t, i) ==
  LET end == ChunkEnd(t, i) IN
  IF end = t.len THEN t.len ELSE Min({NextStart(end, i), t.len})

Starts(t) ==
  LET at[n \in 0..MaxChunks] == IF n = 0 THEN 0 ELSE NextChunk(t, at[n - 1]) IN at

ChunkText(t) ==
  LET count == Cardinality({n \in 0..(MaxChunks - 1) : Starts(t)[n] < t.len}) IN
  [k \in 1..count |-> LET i == Starts(t)[k - 1] IN i..(ChunkEnd(t, i) - 1)]

-----------------------------------------------------------------------------
\* A queue message is unsent, queued, acked, dropped, or at one of the awaits
\* of its handler; it counts its deliveries and has what the handler read.
Handling == {"row", "forget", "bytes", "upsert", "mark"}
Notices == Blockers \X {"blocker.created", "blocker.resolved"}

VARIABLES
  rows,       \* attachments, [Files -> index status and chunk count, or None]
  bytes,      \* files whose object is in R2
  texts,      \* [Files -> its Text, or None for one without text]
  vectors,    \* [Files -> the chunk numbers that have a vector]
  fileMail,   \* [Files -> the document event]
  uploads,    \* [Files -> where the upload handler is]
  removals,   \* [Files -> where the delete handler is, and its chunk count]
  blockers,   \* [Blockers -> status, which its text tells, or None]
  shown,      \* [Blockers -> the status its vector tells, or None]
  notices,    \* [Notices -> the history event]
  overlapped, \* blockers whose two events were once handled side by side
  asks,       \* [Asks -> where the question is]
  turns,      \* conversations
  totalAsks   \* AgentState.totalAsks

fileVars    == <<rows, bytes, texts, vectors, fileMail, uploads, removals>>
blockerVars == <<blockers, shown, notices, overlapped>>
agentVars   == <<asks, turns, totalAsks>>
vars        == <<fileVars, blockerVars, agentVars>>

Unsent == [at |-> "unsent", tries |-> 0, read |-> None]
NoRow  == [status |-> "pending", chunks |-> 0]

Init ==
  /\ rows = [f \in Files |-> None] /\ bytes = {}
  /\ vectors = [f \in Files |-> {}]
  /\ fileMail = [f \in Files |-> Unsent]
  /\ removals = [f \in Files |-> [at |-> "none", chunks |-> 0]]
  /\ shown = [b \in Blockers |-> None]
  /\ notices = [n \in Notices |-> Unsent] /\ overlapped = {}
  /\ turns = {} /\ totalAsks = 0
  /\ \E w \in Workloads :
       /\ texts \in [Files -> w.texts]
       /\ uploads = [f \in Files |-> IF f \in w.files THEN "put" ELSE "done"]
       /\ blockers = [b \in Blockers |-> IF b \in w.blockers THEN None ELSE "RESOLVED"]
       /\ asks = [a \in Asks |-> [at |-> IF a \in w.asks THEN "new" ELSE "failed",
                                  count |-> 0]]

-----------------------------------------------------------------------------
(* The queue.  A handler that throws, or whose ack is lost, is delivered   *)
(* to again as long as there are deliveries left.                          *)

Delivered(m)  == [m EXCEPT !.at = "row", !.tries = @ + 1, !.read = None]
Acked(m)      == [m EXCEPT !.at = "acked", !.read = None]
\* Mutant: a handler that fails acknowledges its message all the same.
AckAnyway(m)  == [m EXCEPT !.at = "acked", !.read = None]
Retried(m)    == [m EXCEPT !.at = IF m.tries < MaxTries THEN "queued" ELSE "dropped",
                           !.read = None]
Deliverable(m) == m.at = "queued" \/ (m.at = "acked" /\ m.tries < MaxTries)

-----------------------------------------------------------------------------
(* POST /attachments.                                                      *)

NewStatus(f) == IF texts[f] = None THEN "unsupported" ELSE "pending"

PutBytes(f) ==
  /\ uploads[f] = "put"
  /\ bytes' = bytes \cup {f}
  /\ uploads' = [uploads EXCEPT ![f] = "row"]
  /\ UNCHANGED <<rows, texts, vectors, fileMail, removals, blockerVars, agentVars>>

CreateRow(f) ==
  /\ uploads[f] = "row"
  /\ rows' = [rows EXCEPT ![f] = [NoRow EXCEPT !.status = NewStatus(f)]]
  /\ uploads' = [uploads EXCEPT ![f] = IF texts[f] = None THEN "done" ELSE "send"]
  /\ UNCHANGED <<bytes, texts, vectors, fileMail, removals, blockerVars, agentVars>>

\* A failing send is logged and forgotten.
SendDocument(f) ==
  /\ uploads[f] = "send"
  /\ \/ fileMail' = [fileMail EXCEPT ![f].at = "queued"]
     \/ UNCHANGED fileMail
  /\ uploads' = [uploads EXCEPT ![f] = "done"]
  /\ UNCHANGED <<rows, bytes, texts, vectors, removals, blockerVars, agentVars>>

\* A call of the handler throws, or the Worker stops.
AbandonUpload(f) ==
  /\ uploads[f] # "done"
  /\ uploads' = [uploads EXCEPT ![f] = "done"]
  /\ UNCHANGED <<rows, bytes, texts, vectors, fileMail, removals, blockerVars, agentVars>>

-----------------------------------------------------------------------------
(* DELETE /attachments/:id: the row, the bytes, then the vectors it counts.*)

GoRemove(f, at) == removals' = [removals EXCEPT ![f].at = at]

\* Mutant: the bytes go first.
BytesBeforeRow(f) ==
  /\ rows[f] # None /\ removals[f].at = "none" /\ bytes' = bytes \ {f}
  /\ UNCHANGED <<rows, texts, vectors, fileMail, uploads, removals, blockerVars, agentVars>>
DeleteRow(f) ==
  /\ rows[f] # None
  /\ removals' = [removals EXCEPT ![f] = [at |-> "bytes", chunks |-> rows[f].chunks]]
  /\ rows' = [rows EXCEPT ![f] = None]
  /\ UNCHANGED <<bytes, texts, vectors, fileMail, uploads, blockerVars, agentVars>>

DeleteBytes(f) ==
  /\ removals[f].at = "bytes"
  /\ bytes' \in {bytes, bytes \ {f}}
  /\ GoRemove(f, IF removals[f].chunks > 0 THEN "vectors" ELSE "none")
  /\ UNCHANGED <<rows, texts, vectors, fileMail, uploads, blockerVars, agentVars>>

DeleteVectors(f) ==
  /\ removals[f].at = "vectors"
  /\ vectors' \in {vectors,
                   [vectors EXCEPT ![f] = @ \ (0..(removals[f].chunks - 1))]}
  /\ GoRemove(f, "none")
  /\ UNCHANGED <<rows, bytes, texts, fileMail, uploads, blockerVars, agentVars>>

-----------------------------------------------------------------------------
(* indexDocument.                                                          *)

SetMail(f, m) == fileMail' = [fileMail EXCEPT ![f] = m]
Reading(f, at, read) ==
  fileMail' = [fileMail EXCEPT ![f].at = at, ![f].read = read]

DeliverDocument(f) ==
  /\ Deliverable(fileMail[f]) /\ SetMail(f, Delivered(fileMail[f]))
  /\ UNCHANGED <<rows, bytes, texts, vectors, uploads, removals, blockerVars, agentVars>>

ReadRow(f) ==
  /\ fileMail[f].at = "row"
  /\ Reading(f, IF rows[f] = None THEN "forget" ELSE "bytes", None)
  /\ UNCHANGED <<rows, bytes, texts, vectors, uploads, removals, blockerVars, agentVars>>

Forget(f) ==
  /\ fileMail[f].at = "forget"
  /\ vectors' = [vectors EXCEPT ![f] = @ \ (0..(MaxChunks - 1))]
  /\ SetMail(f, Acked(fileMail[f]))
  /\ UNCHANGED <<rows, bytes, texts, uploads, removals, blockerVars, agentVars>>

\* The bytes may be gone; a failing extraction counts as no text.
ReadBytes(f) ==
  LET n == Len(ChunkText(texts[f])) IN
  /\ fileMail[f].at = "bytes"
  /\ \/ f \notin bytes /\ Reading(f, "mark", [status |-> "failed", chunks |-> 0])
     \/ f \in bytes /\ Reading(f, "mark", [status |-> "unsupported", chunks |-> 0])
     \/ /\ f \in bytes /\ n > 0
        /\ Reading(f, "upsert", [status |-> "indexed", chunks |-> n])
  /\ UNCHANGED <<rows, bytes, texts, vectors, uploads, removals, blockerVars, agentVars>>

UpsertChunks(f) ==
  /\ fileMail[f].at = "upsert"
  /\ vectors' = [vectors EXCEPT ![f] = @ \cup 0..(fileMail[f].read.chunks - 1)]
  /\ SetMail(f, [fileMail[f] EXCEPT !.at = "mark"])
  /\ UNCHANGED <<rows, bytes, texts, uploads, removals, blockerVars, agentVars>>

\* setAttachmentIndex, without effect on a row that is gone.
MarkRow(f) ==
  /\ fileMail[f].at = "mark"
  /\ rows' = IF rows[f] = None THEN rows ELSE [rows EXCEPT ![f] = fileMail[f].read]
  /\ SetMail(f, Acked(fileMail[f]))
  /\ UNCHANGED <<bytes, texts, vectors, uploads, removals, blockerVars, agentVars>>

RetryDocument(f) ==
  /\ fileMail[f].at \in Handling
  /\ SetMail(f, Retried(fileMail[f]))
  /\ UNCHANGED <<rows, bytes, texts, vectors, uploads, removals, blockerVars, agentVars>>

-----------------------------------------------------------------------------
(* Blockers, and the events enqueueHistoryIndex sends for some of them.    *)

Sent(n)  == notices' = [notices EXCEPT ![n].at = "queued"]
Later    == {"RESOLUTION_REQUESTED", "RESOLVED"}

\* A blocker is raised or resolved; the send may fail.
Happens(b, event, stage) ==
  /\ blockers' = [blockers EXCEPT ![b] = stage]
  /\ Sent(<<b, event>>) \/ UNCHANGED notices
  /\ UNCHANGED <<fileVars, shown, overlapped, agentVars>>

Raise(b)   == blockers[b] = None /\ Happens(b, "blocker.created", "OPEN")
Resolve(b) == /\ blockers[b] \in {"OPEN", "RESOLUTION_REQUESTED"}
              /\ Happens(b, "blocker.resolved", "RESOLVED")

\* No event: the text changes and nobody indexes it.
RequestResolution(b) ==
  /\ blockers[b] = "OPEN"
  /\ blockers' = [blockers EXCEPT ![b] = "RESOLUTION_REQUESTED"]
  /\ UNCHANGED <<fileVars, shown, notices, overlapped, agentVars>>

-----------------------------------------------------------------------------
(* handleHistoryIndexBatch.  Blockers are never deleted.                   *)

Busy(n) == notices[n].at \in Handling

DeliverNotice(n) ==
  /\ Deliverable(notices[n])
  /\ notices' = [notices EXCEPT ![n] = Delivered(@)]
  /\ overlapped' = overlapped \cup
       {b \in {n[1]} : \E m \in Notices : m[1] = b /\ m # n /\ Busy(m)}
  /\ UNCHANGED <<fileVars, blockers, shown, agentVars>>

\* Mutant: the event is trusted instead of the row.
BodyOfEvent(n) == IF n[2] = "blocker.created" THEN "OPEN" ELSE "RESOLVED"
GetIndexableEntity(n) == blockers[n[1]]

ReadBlocker(n) ==
  /\ notices[n].at = "row"
  /\ notices' = [notices EXCEPT ![n].at = "upsert", ![n].read = GetIndexableEntity(n)]
  /\ UNCHANGED <<fileVars, blockers, shown, overlapped, agentVars>>

UpsertBlocker(n) ==
  /\ notices[n].at = "upsert"
  /\ shown' = [shown EXCEPT ![n[1]] = notices[n].read]
  /\ notices' = [notices EXCEPT ![n] = Acked(@)]
  /\ UNCHANGED <<fileVars, blockers, overlapped, agentVars>>

RetryNotice(n) ==
  /\ Busy(n)
  /\ notices' = [notices EXCEPT ![n] = Retried(@)]
  /\ UNCHANGED <<fileVars, blockers, shown, overlapped, agentVars>>

-----------------------------------------------------------------------------
(* ProgressAgent.ask: the context, the vectors and the model are awaited,  *)
(* and each question may be overtaken by another.  A failing retrieval is  *)
(* an empty one; a failing context or model ends the question.             *)

GoAsk(a, at) == asks' = [asks EXCEPT ![a].at = at, ![a].count = totalAsks]

Await(a) ==
  /\ \/ asks[a].at = "new"      /\ GoAsk(a, "context")
     \/ asks[a].at = "context"  /\ (GoAsk(a, "retrieve") \/ GoAsk(a, "failed"))
     \/ asks[a].at = "retrieve" /\ GoAsk(a, "model")
  /\ UNCHANGED <<fileVars, blockerVars, turns, totalAsks>>

\* Mutant: the counter was read before the model was awaited.
CountBefore(a) == asks[a].count + 1
NewCount(a)    == totalAsks + 1

\* The row and the counter are written in one go.
Answer(a) ==
  /\ asks[a].at = "model"
  /\ \/ /\ turns' = turns \cup {a}
        /\ totalAsks' = NewCount(a)
        /\ asks' = [asks EXCEPT ![a].at = "done"]
     \/ GoAsk(a, "failed") /\ UNCHANGED <<turns, totalAsks>>
  /\ UNCHANGED <<fileVars, blockerVars>>

-----------------------------------------------------------------------------
Upload(f) == PutBytes(f) \/ CreateRow(f) \/ SendDocument(f) \/ AbandonUpload(f)
Remove(f) == DeleteRow(f) \/ DeleteBytes(f) \/ DeleteVectors(f)
IndexDocument(f) == ReadRow(f) \/ Forget(f) \/ ReadBytes(f) \/ UpsertChunks(f)
                    \/ MarkRow(f) \/ RetryDocument(f)
IndexBlocker(n)  == ReadBlocker(n) \/ UpsertBlocker(n) \/ RetryNotice(n)
Change(b) == Raise(b) \/ Resolve(b) \/ RequestResolution(b)

Next ==
  \/ \E f \in Files : Upload(f) \/ Remove(f) \/ DeliverDocument(f) \/ IndexDocument(f)
  \/ \E b \in Blockers : Change(b)
  \/ \E n \in Notices : DeliverNotice(n) \/ IndexBlocker(n)
  \/ \E a \in Asks : Await(a) \/ Answer(a)

Spec == Init /\ [][Next]_vars

\* The queue delivers what waits in it, and a handler gets on or fails.
FairSpec ==
  /\ Spec
  /\ \A f \in Files :
       /\ WF_vars(fileMail[f].at = "queued" /\ DeliverDocument(f))
       /\ WF_vars(IndexDocument(f))

-----------------------------------------------------------------------------
(* Properties.                                                             *)

\* The agent's counter is the number of its turns, with questions that
\* overtake each other or fail (ProgressAgent.ask).
TurnsCounted == totalAsks = Cardinality(turns)

\* A file that is listed can be downloaded: its bytes came before its row and
\* outlive it, whatever fails in between (handleAttachments).
RowHasBytes == \A f \in Files : rows[f] # None => f \in bytes

\* A file shown as indexed can be found by every part of its text: the vectors
\* it counts are all there, and their chunks leave out nothing, however often
\* it was indexed again; only a text of MaxChunks chunks may be cut short
\* (indexDocument, chunkText).
IndexedMeansSearchable ==
  \A f \in Files : (rows[f] # None /\ rows[f].status = "indexed") =>
    LET chunks == ChunkText(texts[f]) IN
    /\ rows[f].chunks = Len(chunks)
    /\ 0..(rows[f].chunks - 1) \subseteq vectors[f]
    /\ Len(chunks) < MaxChunks =>
         UNION {chunks[i + 1] : i \in vectors[f]} = 0..(texts[f].len - 1)

\* A resolved blocker is found as resolved once its events are handled; only
\* two events handled side by side can leave an older text
\* (handleHistoryIndexBatch, getIndexableEntity).
ResolvedIsFound ==
  \A b \in Blockers :
    (/\ blockers[b] = "RESOLVED" /\ notices[<<b, "blocker.resolved">>].at = "acked"
     /\ \A n \in Notices : n[1] = b => ~Busy(n)
     /\ b \notin overlapped)
    => shown[b] = "RESOLVED"

\* An uploaded file whose event was sent does not stay pending, unless it is
\* deleted or all deliveries of the event fail (indexDocument).
UploadSettles ==
  \A f \in Files :
    (rows[f] # None /\ rows[f].status = "pending" /\ fileMail[f].at = "queued")
      ~> (rows[f] = None \/ rows[f].status # "pending" \/ fileMail[f].at = "dropped")

\* "a deleted document should not" be retrieved any more: with nothing under
\* way, no vectors are left of it (docs/NEW_USER_TESTING_MANUAL.md:304-306).
Quiet(f) == /\ uploads[f] = "done" /\ removals[f].at = "none"
            /\ fileMail[f].at \in {"unsent", "acked"}
DeletedIsForgotten ==
  \A f \in Files : (rows[f] = None /\ Quiet(f)) => vectors[f] = {}
=============================================================================
