------------------------ MODULE KnowledgeIndex_proofs ------------------------
(***************************************************************************)
(* Proofs about KnowledgeIndex, for any files, blockers, questions, texts, *)
(* number of deliveries and limits of chunkText.                           *)
(***************************************************************************)
EXTENDS KnowledgeIndex, FiniteSetTheorems, TLAPS

-----------------------------------------------------------------------------
(* The inductive invariant.                                                *)

\* How many chunks a row may count; a file without text is never embedded.
Chunks(f) == IF texts[f] = None THEN 0 ELSE Len(ChunkText(texts[f]))
Counts == {0} \cup {Chunks(f) : f \in Files}

Row     == [status : {"pending", "unsupported", "failed", "indexed"}, chunks : Counts]
Waits   == {"unsent", "queued", "acked", "dropped"}
Message(S) == [at : Waits \cup Handling, tries : Nat, read : S]

FileTypes ==
  /\ rows \in [Files -> Row \cup {None}]
  /\ vectors \in [Files -> SUBSET Int]
  /\ fileMail \in [Files -> Message(Row \cup {None})]
  /\ uploads \in [Files -> {"put", "row", "send", "done"}]
  /\ removals \in [Files -> [at : {"none", "bytes", "vectors"}, chunks : Counts]]

BlockerTypes ==
  /\ blockers \in [Blockers -> BlockerStatuses \cup {None}]
  /\ shown \in [Blockers -> BlockerStatuses \cup {None}]
  /\ notices \in [Notices -> Message(BlockerStatuses \cup {None})]

AskTypes ==
  asks \in [Asks -> [at : {"new", "context", "retrieve", "model", "done", "failed"},
                     count : Nat]]

\* A file's handlers go in one direction, and what the last of them has read
\* or written is still there while the row is.
FileOK(f) ==
  /\ rows[f] # None => f \in bytes /\ uploads[f] \in {"send", "done"} /\ removals[f].at = "none"
  /\ uploads[f] = "row" => f \in bytes
  /\ uploads[f] # "done" => fileMail[f].at = "unsent"
  /\ (uploads[f] = "send" \/ fileMail[f].at # "unsent") => texts[f] # None
  /\ uploads[f] \in {"put", "row"} => removals[f].at = "none"
  /\ fileMail[f].at = "forget" => rows[f] = None
  /\ fileMail[f].at = "upsert" =>
       fileMail[f].read = [status |-> "indexed", chunks |-> Chunks(f)]
  /\ (fileMail[f].at = "mark" /\ fileMail[f].read.status = "indexed") =>
       /\ fileMail[f].read.chunks = Chunks(f)
       /\ rows[f] # None => 0..(Chunks(f) - 1) \subseteq vectors[f]
  /\ (rows[f] # None /\ rows[f].status = "indexed") =>
       /\ texts[f] # None /\ rows[f].chunks = Chunks(f)
       /\ 0..(Chunks(f) - 1) \subseteq vectors[f]

\* Once the event of a resolution is handled, only the resolved text is about.
Created(b)  == notices[<<b, "blocker.created">>]
Resolved(b) == notices[<<b, "blocker.resolved">>]
BlockerOK(b) ==
  /\ Resolved(b).at # "unsent" => blockers[b] = "RESOLVED"
  /\ Resolved(b).at = "upsert" => Resolved(b).read = "RESOLVED"
  /\ b \notin overlapped => ~(Created(b).at \in Handling /\ Resolved(b).at \in Handling)
  /\ (b \notin overlapped /\ Resolved(b).at = "acked") =>
       /\ shown[b] = "RESOLVED"
       /\ Created(b).at = "upsert" => Created(b).read = "RESOLVED"

\* A question that is not answered has no turn yet.
TurnsOK ==
  /\ turns \subseteq Asks /\ IsFiniteSet(turns) /\ TurnsCounted
  /\ \A a \in Asks : asks[a].at \in {"new", "context", "retrieve", "model"} => a \notin turns

IInv == /\ FileTypes /\ BlockerTypes /\ AskTypes /\ TurnsOK
        /\ \A f \in Files : FileOK(f)
        /\ \A b \in Blockers : BlockerOK(b)

-----------------------------------------------------------------------------
(* Initially.                                                              *)

\* Whatever workload is drawn, nothing is listed, sent or asked yet.
LEMMA InvInit == Init => IInv
<1> SUFFICES ASSUME Init PROVE IInv
  OBVIOUS
<1>1. FileTypes
  BY DEF Init, FileTypes, Unsent, Message, Waits, Counts
<1>2. BlockerTypes
  BY DEF Init, BlockerTypes, Unsent, Message, Waits, BlockerStatuses
<1>3. AskTypes
  BY DEF Init, AskTypes
<1>4. TurnsOK
  BY FS_EmptySet DEF Init, TurnsOK, TurnsCounted
<1>5. ASSUME NEW f \in Files PROVE FileOK(f)
  BY DEF Init, FileOK, Unsent
<1>6. ASSUME NEW b \in Blockers PROVE BlockerOK(b)
  <2>1. <<b, "blocker.created">> \in Notices /\ <<b, "blocker.resolved">> \in Notices
    BY DEF Notices
  <2>2. QED
    BY <2>1 DEF Init, BlockerOK, Created, Resolved, Unsent, Handling
<1>7. QED
  BY <1>1, <1>2, <1>3, <1>4, <1>5, <1>6 DEF IInv

-----------------------------------------------------------------------------
(* Files.                                                                  *)

\* What is said of files is said of their variables.
LEMMA FileFrame ==
  ASSUME FileTypes, \A f \in Files : FileOK(f), UNCHANGED fileVars
  PROVE  FileTypes' /\ \A f \in Files : FileOK(f)'
BY DEF fileVars, FileTypes, FileOK, Row, Counts, Chunks

\* A step about one file leaves the others alone.
SameFile(g) ==
  /\ rows'[g] = rows[g] /\ vectors'[g] = vectors[g] /\ fileMail'[g] = fileMail[g]
  /\ uploads'[g] = uploads[g] /\ removals'[g] = removals[g]
  /\ g \in bytes' <=> g \in bytes

\* A file that a step leaves alone stays as it was.
LEMMA FileElsewhere ==
  ASSUME NEW f \in Files, texts' = texts, FileOK(f), SameFile(f)
  PROVE  FileOK(f)'
BY DEF FileOK, SameFile, Chunks

\* The upload handler: bytes, row, event, in this order.
LEMMA UploadKeeps ==
  ASSUME FileTypes, \A f \in Files : FileOK(f), NEW f \in Files, Upload(f)
  PROVE  FileTypes' /\ \A g \in Files : FileOK(g)'
<1>1. texts' = texts /\ vectors' = vectors /\ removals' = removals
  BY DEF Upload, PutBytes, CreateRow, SendDocument, AbandonUpload
<1>2. Counts' = Counts /\ \A g \in Files : Chunks(g)' = Chunks(g)
  BY <1>1 DEF Counts, Chunks
<1>3. \A g \in Files \ {f} : FileOK(g)'
  <2>1. \A g \in Files \ {f} : SameFile(g)
    BY DEF FileTypes, SameFile, Upload, PutBytes, CreateRow, SendDocument, AbandonUpload
  <2>2. QED
    BY <1>1, <2>1, FileElsewhere
<1>4. CASE PutBytes(f)
  <2>1. FileTypes'
    BY <1>1, <1>2, <1>4 DEF FileTypes, PutBytes, Row
  <2>2. FileOK(f)'
    BY <1>1, <1>2, <1>4 DEF FileTypes, FileOK, PutBytes
  <2>3. QED
    BY <1>3, <2>1, <2>2
<1>5. CASE CreateRow(f)
  <2> DEFINE row == [NoRow EXCEPT !.status = NewStatus(f)]
  <2>1. row \in Row /\ row.status # "indexed"
    BY DEF NoRow, NewStatus, Row, Counts
  <2>2. rows' = [rows EXCEPT ![f] = row] /\ fileMail' = fileMail /\ bytes' = bytes
    BY <1>5 DEF CreateRow
  <2>3. FileTypes'
    BY <1>1, <1>2, <1>5, <2>1, <2>2 DEF FileTypes, CreateRow, Row
  <2>4. /\ uploads[f] = "row" /\ uploads'[f] \in {"send", "done"} /\ rows'[f].status # "indexed"
        /\ uploads'[f] = "send" => texts[f] # None
    BY <1>5, <2>1, <2>2 DEF FileTypes, CreateRow
  <2>5. FileOK(f)'
    BY <1>1, <1>2, <2>2, <2>4 DEF FileTypes, FileOK
  <2>6. QED
    BY <1>3, <2>3, <2>5
<1>6. CASE SendDocument(f)
  <2>1. /\ uploads[f] = "send" /\ uploads' = [uploads EXCEPT ![f] = "done"]
        /\ rows' = rows /\ bytes' = bytes
    BY <1>6 DEF SendDocument
  <2>2. fileMail' = fileMail \/ fileMail' = [fileMail EXCEPT ![f].at = "queued"]
    BY <1>6 DEF SendDocument
  <2>3. FileTypes'
    <3>1. "queued" \in Waits
      BY DEF Waits
    <3>2. [fileMail[f] EXCEPT !.at = "queued"] \in Message(Row \cup {None})
      BY <3>1 DEF FileTypes, Message
    <3>3. fileMail' \in [Files -> Message(Row \cup {None})]
      BY <2>2, <3>2 DEF FileTypes
    <3>4. QED
      BY <1>1, <1>2, <2>1, <3>3 DEF FileTypes, Row
  <2>4. fileMail'[f].at \in {"unsent", "queued"}
    <3>1. fileMail[f].at = "unsent"
      BY <2>1 DEF FileOK
    <3>2. [fileMail[f] EXCEPT !.at = "queued"].at = "queued"
      BY DEF FileTypes, Message
    <3>3. QED
      BY <2>2, <3>1, <3>2 DEF FileTypes
  <2>5. FileOK(f)'
    BY <1>1, <1>2, <2>1, <2>4 DEF FileTypes, FileOK
  <2>6. QED
    BY <1>3, <2>3, <2>5
<1>7. CASE AbandonUpload(f)
  <2>1. FileTypes'
    BY <1>1, <1>2, <1>7 DEF FileTypes, AbandonUpload, Row
  <2>2. FileOK(f)'
    BY <1>1, <1>2, <1>7 DEF FileTypes, FileOK, AbandonUpload
  <2>3. QED
    BY <1>3, <2>1, <2>2
<1>8. QED
  BY <1>4, <1>5, <1>6, <1>7 DEF Upload

\* The delete handler: the row goes first, and never comes back.
LEMMA RemoveKeeps ==
  ASSUME FileTypes, \A f \in Files : FileOK(f), NEW f \in Files, Remove(f)
  PROVE  FileTypes' /\ \A g \in Files : FileOK(g)'
<1>1. texts' = texts /\ fileMail' = fileMail /\ uploads' = uploads
  BY DEF Remove, DeleteRow, DeleteBytes, DeleteVectors
<1>2. Counts' = Counts /\ \A g \in Files : Chunks(g)' = Chunks(g)
  BY <1>1 DEF Counts, Chunks
<1>3. \A g \in Files \ {f} : FileOK(g)'
  <2>1. \A g \in Files \ {f} : SameFile(g)
    BY DEF FileTypes, SameFile, Remove, DeleteRow, DeleteBytes, DeleteVectors, GoRemove
  <2>2. QED
    BY <1>1, <2>1, FileElsewhere
<1>4. CASE DeleteRow(f)
  <2>1. [at |-> "bytes", chunks |-> rows[f].chunks] \in [at : {"none", "bytes", "vectors"}, chunks : Counts]
    BY <1>4 DEF DeleteRow, FileTypes, Row
  <2>2. FileTypes'
    BY <1>1, <1>2, <1>4, <2>1 DEF FileTypes, DeleteRow, Row
  <2>3. FileOK(f)'
    BY <1>1, <1>2, <1>4 DEF FileTypes, FileOK, DeleteRow
  <2>4. QED
    BY <1>3, <2>2, <2>3
<1>5. ASSUME NEW at \in {"none", "bytes", "vectors"}, GoRemove(f, at)
      PROVE  /\ removals' \in [Files -> [at : {"none", "bytes", "vectors"}, chunks : Counts]]
             /\ removals'[f].at = at
  <2>1. [removals[f] EXCEPT !.at = at] \in [at : {"none", "bytes", "vectors"}, chunks : Counts]
    BY DEF FileTypes
  <2>2. QED
    BY <1>5, <2>1 DEF GoRemove, FileTypes
<1>6. CASE DeleteBytes(f)
  <2>1. removals[f].at = "bytes" /\ rows' = rows /\ vectors' = vectors
    BY <1>6 DEF DeleteBytes
  <2>2. removals' \in [Files -> [at : {"none", "bytes", "vectors"}, chunks : Counts]]
    BY <1>5, <1>6 DEF DeleteBytes
  <2>3. FileTypes'
    BY <1>1, <1>2, <2>1, <2>2 DEF FileTypes, Row
  <2>4. FileOK(f)'
    BY <1>1, <1>2, <2>1 DEF FileTypes, FileOK
  <2>5. QED
    BY <1>3, <2>3, <2>4
<1>7. CASE DeleteVectors(f)
  <2>1. removals[f].at = "vectors" /\ rows' = rows /\ bytes' = bytes
    BY <1>7 DEF DeleteVectors
  <2>2. /\ removals' \in [Files -> [at : {"none", "bytes", "vectors"}, chunks : Counts]]
        /\ vectors' \in [Files -> SUBSET Int]
    BY <1>5, <1>7 DEF DeleteVectors, FileTypes
  <2>3. FileTypes'
    BY <1>1, <1>2, <2>1, <2>2 DEF FileTypes, Row
  <2>4. FileOK(f)'
    BY <1>1, <1>2, <2>1 DEF FileTypes, FileOK
  <2>5. QED
    BY <1>3, <2>3, <2>4
<1>8. QED
  BY <1>4, <1>6, <1>7 DEF Remove

\* A message that is delivered, acknowledged or given back is one.
LEMMA DeliveredIsMessage ==
  ASSUME NEW S, NEW m \in Message(S \cup {None})
  PROVE  Delivered(m) \in Message(S \cup {None}) /\ Delivered(m).at = "row"
<1>1. m.tries + 1 \in Nat /\ "row" \in Handling /\ None \in S \cup {None}
  BY DEF Message, Handling
<1>2. QED
  BY <1>1 DEF Delivered, Message

\* The document event: a message is about the file it names, and no call of its
\* handler undoes what it or an earlier delivery wrote.
LEMMA IndexKeeps ==
  ASSUME FileTypes, \A f \in Files : FileOK(f), NEW f \in Files,
         DeliverDocument(f) \/ IndexDocument(f)
  PROVE  FileTypes' /\ \A g \in Files : FileOK(g)'
<1> DEFINE m == fileMail[f]
<1>1. /\ texts' = texts /\ bytes' = bytes /\ uploads' = uploads /\ removals' = removals
      /\ m \in Message(Row \cup {None})
  BY DEF DeliverDocument, IndexDocument, ReadRow, Forget, ReadBytes, UpsertChunks, MarkRow,
         RetryDocument, FileTypes
<1>2. Counts' = Counts /\ \A g \in Files : Chunks(g)' = Chunks(g)
  BY <1>1 DEF Counts, Chunks
<1>3. \A g \in Files \ {f} : FileOK(g)'
  <2>1. \A g \in Files \ {f} : SameFile(g)
    BY <1>1 DEF FileTypes, SameFile, DeliverDocument, IndexDocument, ReadRow, Forget, ReadBytes,
                UpsertChunks, MarkRow, RetryDocument, SetMail, Reading
  <2>2. QED
    BY <1>1, <2>1, FileElsewhere
<1>4. ASSUME NEW n \in Message(Row \cup {None}), SetMail(f, n)
      PROVE  fileMail' \in [Files -> Message(Row \cup {None})] /\ fileMail'[f] = n
  BY <1>4 DEF SetMail, FileTypes
<1>5. ASSUME NEW at \in Waits \cup Handling, NEW read \in Row \cup {None}, Reading(f, at, read)
      PROVE  /\ fileMail' \in [Files -> Message(Row \cup {None})]
             /\ fileMail'[f].at = at /\ fileMail'[f].read = read
  <2>1. /\ [m EXCEPT !.at = at, !.read = read] \in Message(Row \cup {None})
        /\ [m EXCEPT !.at = at, !.read = read].at = at
        /\ [m EXCEPT !.at = at, !.read = read].read = read
    BY <1>1 DEF Message
  <2>2. fileMail' = [fileMail EXCEPT ![f] = [m EXCEPT !.at = at, !.read = read]]
    BY <1>1, <1>5 DEF Reading, FileTypes, Message
  <2>3. QED
    BY <2>1, <2>2 DEF FileTypes
<1>6. uploads[f] # "done" => m.at = "unsent"
  BY DEF FileOK
<1>7. CASE DeliverDocument(f)
  <2>1. Delivered(m) \in Message(Row \cup {None}) /\ Delivered(m).at = "row"
    BY <1>1, DeliveredIsMessage
  <2>2. m.at \in {"queued", "acked"} /\ rows' = rows /\ vectors' = vectors /\ SetMail(f, Delivered(m))
    BY <1>7 DEF DeliverDocument, Deliverable
  <2>3. FileTypes'
    BY <1>1, <1>2, <1>4, <2>1, <2>2 DEF FileTypes, Row
  <2>4. FileOK(f)'
    BY <1>1, <1>2, <1>4, <1>6, <2>1, <2>2 DEF FileTypes, FileOK
  <2>5. QED
    BY <1>3, <2>3, <2>4
<1>8. CASE ReadRow(f)
  <2> DEFINE at == IF rows[f] = None THEN "forget" ELSE "bytes"
  <2>1. m.at = "row" /\ rows' = rows /\ vectors' = vectors /\ Reading(f, at, None)
    BY <1>8 DEF ReadRow
  <2>2. at \in Waits \cup Handling
    BY DEF Handling
  <2>3. fileMail' \in [Files -> Message(Row \cup {None})] /\ fileMail'[f].at = at
    BY <1>5, <2>1, <2>2
  <2>4. FileTypes'
    BY <1>1, <1>2, <2>1, <2>3 DEF FileTypes, Row
  <2>5. FileOK(f)'
    BY <1>1, <1>2, <1>6, <2>1, <2>3 DEF FileTypes, FileOK
  <2>6. QED
    BY <1>3, <2>4, <2>5
<1>9. ASSUME NEW n \in Message(Row \cup {None}), n.at \in Waits, n.at # "unsent",
             SetMail(f, n), m.at \in Handling,
             rows' = rows, vectors' = vectors \/ rows[f] = None, vectors' \in [Files -> SUBSET Int]
      PROVE  FileTypes' /\ FileOK(f)'
  <2>1. n.at \notin {"forget", "upsert", "mark"} /\ m.at # "unsent"
    BY <1>9 DEF Waits, Handling
  <2>2. FileTypes'
    BY <1>1, <1>2, <1>4, <1>9 DEF FileTypes, Row
  <2>3. FileOK(f)'
    BY <1>1, <1>2, <1>4, <1>6, <1>9, <2>1 DEF FileTypes, FileOK
  <2>4. QED
    BY <2>2, <2>3
<1>10. Acked(m) \in Message(Row \cup {None}) /\ Acked(m).at = "acked"
  BY <1>1 DEF Acked, Message, Waits
<1>11. CASE Forget(f)
  <2>1. /\ m.at = "forget" /\ rows[f] = None /\ rows' = rows /\ SetMail(f, Acked(m))
        /\ vectors' \in [Files -> SUBSET Int]
    BY <1>11 DEF Forget, FileOK, FileTypes
  <2>2. QED
    BY <1>3, <1>9, <1>10, <2>1 DEF Waits, Handling
<1>12. CASE ReadBytes(f)
  <2>1. /\ m.at = "bytes" /\ rows' = rows /\ vectors' = vectors
        /\ \/ Reading(f, "mark", [status |-> "failed", chunks |-> 0])
           \/ Reading(f, "mark", [status |-> "unsupported", chunks |-> 0])
           \/ Reading(f, "upsert", [status |-> "indexed", chunks |-> Chunks(f)])
    BY <1>12 DEF ReadBytes, Chunks, FileOK
  <2>2. /\ [status |-> "failed", chunks |-> 0] \in Row
        /\ [status |-> "unsupported", chunks |-> 0] \in Row
        /\ [status |-> "indexed", chunks |-> Chunks(f)] \in Row
        /\ "mark" \in Handling /\ "upsert" \in Handling
    BY DEF Row, Counts, Handling
  <2>3. /\ fileMail' \in [Files -> Message(Row \cup {None})]
        /\ \/ fileMail'[f].at = "mark" /\ fileMail'[f].read.status # "indexed"
           \/ /\ fileMail'[f].at = "upsert"
              /\ fileMail'[f].read = [status |-> "indexed", chunks |-> Chunks(f)]
    <3>1. CASE Reading(f, "mark", [status |-> "failed", chunks |-> 0])
      BY <1>5, <2>2, <3>1
    <3>2. CASE Reading(f, "mark", [status |-> "unsupported", chunks |-> 0])
      BY <1>5, <2>2, <3>2
    <3>3. CASE Reading(f, "upsert", [status |-> "indexed", chunks |-> Chunks(f)])
      BY <1>5, <2>2, <3>3
    <3>4. QED
      BY <2>1, <3>1, <3>2, <3>3
  <2>4. FileTypes'
    BY <1>1, <1>2, <2>1, <2>3 DEF FileTypes, Row
  <2>5. FileOK(f)'
    BY <1>1, <1>2, <1>6, <2>1, <2>3 DEF FileTypes, FileOK
  <2>6. QED
    BY <1>3, <2>4, <2>5
<1>13. CASE UpsertChunks(f)
  <2> DEFINE done == [m EXCEPT !.at = "mark"]
  <2>1. /\ m.at = "upsert" /\ rows' = rows /\ SetMail(f, done)
        /\ m.read = [status |-> "indexed", chunks |-> Chunks(f)]
    BY <1>13 DEF UpsertChunks, FileOK
  <2>2. done \in Message(Row \cup {None}) /\ done.at = "mark" /\ done.read = m.read
    BY <1>1 DEF Message, Handling
  <2>3. vectors' = [vectors EXCEPT ![f] = @ \cup 0..(Chunks(f) - 1)]
    BY <1>13, <2>1 DEF UpsertChunks
  <2>4. 0..(Chunks(f) - 1) \subseteq Int
    OBVIOUS
  <2>5. vectors' \in [Files -> SUBSET Int] /\ vectors'[f] = vectors[f] \cup 0..(Chunks(f) - 1)
    BY <2>3, <2>4 DEF FileTypes
  <2>6. FileTypes'
    BY <1>1, <1>2, <1>4, <2>1, <2>2, <2>5 DEF FileTypes, Row
  <2>7. FileOK(f)'
    <3>1. /\ fileMail'[f].at = "mark" /\ fileMail'[f].read = m.read
          /\ m.read.status = "indexed" /\ m.read.chunks = Chunks(f)
      <4>1. fileMail'[f] = done
        BY <1>4, <2>1, <2>2
      <4>2. m.read.status = "indexed" /\ m.read.chunks = Chunks(f)
        BY <2>1
      <4>3. QED
        BY <2>2, <4>1, <4>2
    <3>2. 0..(Chunks(f) - 1) \subseteq vectors'[f]
      BY <2>5
    <3>3. uploads[f] = "done" /\ rows'[f] = rows[f] /\ Chunks(f)' = Chunks(f)
      BY <1>2, <1>6, <2>1 DEF FileTypes
    <3>4. fileMail'[f].read.chunks = Chunks(f)
      BY <3>1
    <3>5. (rows[f] # None /\ rows[f].status = "indexed") => rows[f].chunks = Chunks(f)
      BY DEF FileOK
    <3>6. /\ rows[f] # None => f \in bytes /\ removals[f].at = "none"
          /\ texts[f] # None
      BY <2>1 DEF FileOK
    <3>7. QED
      BY <1>1, <3>1, <3>2, <3>3, <3>4, <3>5, <3>6 DEF FileOK
  <2>8. QED
    BY <1>3, <2>6, <2>7
<1>14. CASE MarkRow(f)
  <2>1. m.at = "mark" /\ vectors' = vectors /\ SetMail(f, Acked(m))
    BY <1>14 DEF MarkRow
  <2>2. CASE rows[f] = None
    <3>1. rows' = rows
      BY <1>14, <2>2 DEF MarkRow
    <3>2. QED
      BY <1>3, <1>9, <1>10, <2>1, <3>1 DEF FileTypes, Handling, Waits
  <2>3. CASE rows[f] # None
    <3>1. rows' = [rows EXCEPT ![f] = m.read] /\ m.read \in Row \cup {None}
      BY <1>1, <1>14, <2>3 DEF MarkRow, Message
    <3>2. fileMail' \in [Files -> Message(Row \cup {None})] /\ fileMail'[f].at = "acked"
      BY <1>4, <1>10, <2>1
    <3>3. FileTypes'
      BY <1>1, <1>2, <2>1, <3>1, <3>2 DEF FileTypes, Row
    <3>4. FileOK(f)'
      BY <1>1, <1>2, <1>6, <2>1, <2>3, <3>1, <3>2 DEF FileTypes, FileOK
    <3>5. QED
      BY <1>3, <3>3, <3>4
  <2>4. QED
    BY <2>2, <2>3
<1>15. CASE RetryDocument(f)
  <2>1. Retried(m) \in Message(Row \cup {None}) /\ Retried(m).at \in {"queued", "dropped"}
    BY <1>1 DEF Retried, Message, Waits
  <2>2. m.at \in Handling /\ rows' = rows /\ vectors' = vectors /\ SetMail(f, Retried(m))
    BY <1>15 DEF RetryDocument
  <2>3. QED
    BY <1>3, <1>9, <2>1, <2>2 DEF FileTypes, Waits
<1>16. QED
  BY <1>7, <1>8, <1>11, <1>12, <1>13, <1>14, <1>15 DEF IndexDocument

-----------------------------------------------------------------------------
(* Blockers.                                                               *)

\* What is said of blockers is said of their variables.
LEMMA BlockerFrame ==
  ASSUME BlockerTypes, \A b \in Blockers : BlockerOK(b), UNCHANGED blockerVars
  PROVE  BlockerTypes' /\ \A b \in Blockers : BlockerOK(b)'
BY DEF blockerVars, BlockerTypes, BlockerOK, Created, Resolved

\* Both events of a blocker are events, and they are two.
LEMMA NoticePair ==
  ASSUME NEW b \in Blockers
  PROVE  /\ <<b, "blocker.created">> \in Notices /\ <<b, "blocker.resolved">> \in Notices
         /\ <<b, "blocker.created">> # <<b, "blocker.resolved">>
BY DEF Notices

\* Every event is the first or the second of its blocker.
LEMMA NoticeCases ==
  ASSUME NEW n \in Notices
  PROVE  n[1] \in Blockers /\ (n = <<n[1], "blocker.created">> \/ n = <<n[1], "blocker.resolved">>)
BY DEF Notices

\* A step about one blocker leaves the others alone.
LEMMA BlockerElsewhere ==
  ASSUME NEW b \in Blockers, BlockerOK(b), blockers'[b] = blockers[b], shown'[b] = shown[b],
         Created(b)' = Created(b), Resolved(b)' = Resolved(b),
         b \in overlapped' <=> b \in overlapped
  PROVE  BlockerOK(b)'
BY DEF BlockerOK

\* Writing one event.
LEMMA WriteNotice ==
  ASSUME BlockerTypes, NEW n \in Notices, NEW m \in Message(BlockerStatuses \cup {None}),
         notices' = [notices EXCEPT ![n] = m]
  PROVE  /\ notices' \in [Notices -> Message(BlockerStatuses \cup {None})]
         /\ notices'[n] = m
         /\ \A k \in Notices : k # n => notices'[k] = notices[k]
BY DEF BlockerTypes

\* A blocker is raised, marked as fixed or resolved: no event of a resolution is
\* about before it, and the last one alone resolves.
LEMMA ChangeKeeps ==
  ASSUME BlockerTypes, \A b \in Blockers : BlockerOK(b), NEW b \in Blockers, Change(b)
  PROVE  BlockerTypes' /\ \A c \in Blockers : BlockerOK(c)'
<1>1. PICK stage \in BlockerStatuses, event \in {"blocker.created", "blocker.resolved"} :
        /\ blockers' = [blockers EXCEPT ![b] = stage]
        /\ notices' = [notices EXCEPT ![<<b, event>>].at = "queued"] \/ notices' = notices
        /\ shown' = shown /\ overlapped' = overlapped
        /\ blockers[b] # "RESOLVED"
        /\ event = "blocker.resolved" /\ notices' # notices => stage = "RESOLVED"
  <2>1. CASE Raise(b)
    BY <2>1, NoneAssumption DEF Raise, Happens, Sent, BlockerStatuses
  <2>2. CASE Resolve(b)
    BY <2>2 DEF Resolve, Happens, Sent, BlockerStatuses
  <2>3. CASE RequestResolution(b)
    BY <2>3 DEF RequestResolution, BlockerStatuses
  <2>4. QED
    BY <2>1, <2>2, <2>3 DEF Change
<1> DEFINE n == <<b, event>>
           m == [notices[n] EXCEPT !.at = "queued"]
<1>2. n \in Notices
  BY DEF Notices
<1>3. m \in Message(BlockerStatuses \cup {None}) /\ m.at = "queued"
  BY <1>2 DEF BlockerTypes, Message, Waits
<1>4. notices' = notices \/ notices' = [notices EXCEPT ![n] = m]
  BY <1>1, <1>2 DEF BlockerTypes
<1>5. /\ notices' \in [Notices -> Message(BlockerStatuses \cup {None})]
      /\ \A k \in Notices : k # n => notices'[k] = notices[k]
      /\ notices'[n] = notices[n] \/ notices'[n].at = "queued"
  BY <1>2, <1>3, <1>4, WriteNotice DEF BlockerTypes
<1>6. BlockerTypes'
  BY <1>1, <1>5 DEF BlockerTypes
<1>7. ASSUME NEW c \in Blockers, c # b PROVE BlockerOK(c)'
  <2>1. <<c, "blocker.created">> # n /\ <<c, "blocker.resolved">> # n
    BY <1>7
  <2>2. Created(c)' = Created(c) /\ Resolved(c)' = Resolved(c)
    BY <1>5, <1>7, <2>1, NoticePair DEF Created, Resolved
  <2>3. QED
    BY <1>1, <1>7, <2>2, BlockerElsewhere DEF BlockerTypes
<1>8. BlockerOK(b)'
  <2>1. Resolved(b).at = "unsent"
    BY <1>1 DEF BlockerOK
  <2>2. Created(b)' = Created(b) \/ Created(b)'.at = "queued"
    BY <1>5, NoticePair DEF Created
  <2>3. \/ Resolved(b)' = Resolved(b)
        \/ Resolved(b)'.at = "queued" /\ blockers'[b] = "RESOLVED"
    <3>1. CASE notices' = notices
      BY <3>1 DEF Resolved
    <3>2. CASE notices' # notices /\ event = "blocker.resolved"
      BY <1>1, <1>5, <3>2, NoticePair DEF Resolved, BlockerTypes
    <3>3. CASE event = "blocker.created"
      BY <1>5, <3>3, NoticePair DEF Resolved
    <3>4. QED
      BY <3>1, <3>2, <3>3
  <2>4. Resolved(b)'.at \in {"unsent", "queued"}
    BY <2>1, <2>3
  <2>5. Resolved(b)'.at # "unsent" => blockers'[b] = "RESOLVED"
    BY <2>1, <2>3
  <2>6. QED
    BY <2>4, <2>5 DEF BlockerOK, Handling
<1>9. QED
  BY <1>6, <1>7, <1>8

\* An event is delivered, read, embedded or given back: after the handler of the
\* resolution only the resolved text can be written, unless two ran side by side.
LEMMA NoticeKeeps ==
  ASSUME BlockerTypes, \A b \in Blockers : BlockerOK(b), NEW n \in Notices,
         DeliverNotice(n) \/ IndexBlocker(n)
  PROVE  BlockerTypes' /\ \A b \in Blockers : BlockerOK(b)'
<1> DEFINE b == n[1]
           m == notices[n]
           Msg == Message(BlockerStatuses \cup {None})
<1>1. /\ b \in Blockers /\ m \in Msg /\ blockers' = blockers
      /\ n = <<b, "blocker.created">> \/ n = <<b, "blocker.resolved">>
  BY NoticeCases DEF BlockerTypes, DeliverNotice, IndexBlocker, ReadBlocker, UpsertBlocker,
                     RetryNotice
\* The step in terms of the one event it writes.
<1> DEFINE Writes(k) == k \in Msg /\ notices' = [notices EXCEPT ![n] = k]
<1>2. ASSUME NEW k, Writes(k), shown' \in [Blockers -> BlockerStatuses \cup {None}],
             \A c \in Blockers : c # b => shown'[c] = shown[c] /\ (c \in overlapped' <=> c \in overlapped),
             BlockerOK(b)'
      PROVE  BlockerTypes' /\ \A c \in Blockers : BlockerOK(c)'
  <2>1. /\ notices' \in [Notices -> Msg]
        /\ \A j \in Notices : j # n => notices'[j] = notices[j]
    BY <1>2, WriteNotice
  <2>2. BlockerTypes'
    BY <1>1, <1>2, <2>1 DEF BlockerTypes
  <2>3. ASSUME NEW c \in Blockers, c # b PROVE BlockerOK(c)'
    <3>1. <<c, "blocker.created">> # n /\ <<c, "blocker.resolved">> # n
      BY <1>1, <2>3
    <3>2. Created(c)' = Created(c) /\ Resolved(c)' = Resolved(c)
      BY <2>1, <2>3, <3>1, NoticePair DEF Created, Resolved
    <3>3. QED
      BY <1>1, <1>2, <2>3, <3>2, BlockerElsewhere
  <2>4. QED
    BY <1>2, <2>2, <2>3
<1>3. ASSUME NEW k, Writes(k)
      PROVE  \/ n = <<b, "blocker.created">> /\ Created(b) = m /\ Created(b)' = k
                /\ Resolved(b)' = Resolved(b)
             \/ n = <<b, "blocker.resolved">> /\ Resolved(b) = m /\ Resolved(b)' = k
                /\ Created(b)' = Created(b)
  <2>1. notices'[n] = k /\ \A j \in Notices : j # n => notices'[j] = notices[j]
    BY <1>3, WriteNotice
  <2>2. QED
    BY <1>1, <2>1, NoticePair DEF Created, Resolved
<1>4. BlockerOK(b)
  BY <1>1
<1>5. CASE DeliverNotice(n)
  <2>1. Delivered(m) \in Msg /\ Delivered(m).at = "row"
    BY <1>1, DeliveredIsMessage
  <2>2. /\ Deliverable(m) /\ Writes(Delivered(m)) /\ shown' = shown
        /\ overlapped' = overlapped \cup {c \in {b} : \E j \in Notices : j[1] = c /\ j # n /\ Busy(j)}
    BY <1>5, <2>1 DEF DeliverNotice
  <2>3. m.at # "unsent" /\ overlapped \subseteq overlapped'
    BY <2>2 DEF Deliverable
  <2>4. b \notin overlapped' =>
          \A j \in Notices : j[1] = b /\ j # n => notices[j].at \notin Handling
    BY <1>1, <2>2 DEF Busy
  <2>5. BlockerOK(b)'
    <3>1. CASE /\ n = <<b, "blocker.created">> /\ Created(b) = m /\ Created(b)' = Delivered(m)
               /\ Resolved(b)' = Resolved(b)
      <4>1. b \notin overlapped' => Resolved(b).at \notin Handling
        BY <1>1, <2>4, <3>1, NoticePair DEF Resolved
      <4>2. QED
        BY <1>1, <1>4, <2>1, <2>2, <2>3, <3>1, <4>1 DEF BlockerOK
    <3>2. CASE /\ n = <<b, "blocker.resolved">> /\ Resolved(b) = m /\ Resolved(b)' = Delivered(m)
               /\ Created(b)' = Created(b)
      <4>1. b \notin overlapped' => Created(b).at \notin Handling
        BY <1>1, <2>4, <3>2, NoticePair DEF Created
      <4>2. QED
        BY <1>1, <1>4, <2>1, <2>2, <2>3, <3>2, <4>1 DEF BlockerOK
    <3>3. QED
      BY <1>3, <2>2, <3>1, <3>2
  <2>6. QED
    BY <1>2, <2>2, <2>5 DEF BlockerTypes
<1>6. CASE ReadBlocker(n)
  <2> DEFINE k == [m EXCEPT !.at = "upsert", !.read = blockers[b]]
  <2>1. k \in Msg /\ k.at = "upsert" /\ k.read = blockers[b]
    BY <1>1 DEF BlockerTypes, Message, Handling
  <2>2. m.at = "row" /\ Writes(k) /\ shown' = shown /\ overlapped' = overlapped
    BY <1>1, <1>6, <2>1 DEF ReadBlocker, GetIndexableEntity, BlockerTypes, Message
  <2>3. BlockerOK(b)'
    <3>1. "row" \in Handling
      BY DEF Handling
    <3>2. QED
      BY <1>1, <1>3, <1>4, <2>1, <2>2, <3>1 DEF BlockerOK
  <2>4. QED
    BY <1>2, <2>2, <2>3 DEF BlockerTypes
<1>7. CASE UpsertBlocker(n)
  <2>1. Acked(m) \in Msg /\ Acked(m).at = "acked"
    BY <1>1 DEF Acked, Message, Waits
  <2>2. /\ m.at = "upsert" /\ Writes(Acked(m)) /\ shown' = [shown EXCEPT ![b] = m.read]
        /\ overlapped' = overlapped
    BY <1>7, <2>1 DEF UpsertBlocker
  <2>3. shown' \in [Blockers -> BlockerStatuses \cup {None}] /\ shown'[b] = m.read
    BY <1>1, <2>2 DEF BlockerTypes, Message
  <2>4. BlockerOK(b)'
    <3>1. "upsert" \in Handling /\ "acked" \notin Handling
      BY DEF Handling
    <3>2. QED
      BY <1>1, <1>3, <1>4, <2>1, <2>2, <2>3, <3>1 DEF BlockerOK
  <2>5. QED
    BY <1>2, <2>2, <2>3, <2>4 DEF BlockerTypes
<1>8. CASE RetryNotice(n)
  <2>1. Retried(m) \in Msg /\ Retried(m).at \in {"queued", "dropped"}
    BY <1>1 DEF Retried, Message, Waits
  <2>2. m.at \in Handling /\ Writes(Retried(m)) /\ shown' = shown /\ overlapped' = overlapped
    BY <1>8, <2>1 DEF RetryNotice, Busy
  <2>3. BlockerOK(b)'
    <3>1. {"unsent", "queued", "dropped", "acked"} \cap Handling = {} /\ "upsert" \in Handling
      BY DEF Handling
    <3>2. m.at # "unsent" /\ Retried(m).at \notin Handling
      BY <2>1, <2>2, <3>1
    <3>3. QED
      BY <1>1, <1>3, <1>4, <2>1, <2>2, <3>1, <3>2 DEF BlockerOK
  <2>4. QED
    BY <1>2, <2>2, <2>3 DEF BlockerTypes
<1>9. QED
  BY <1>5, <1>6, <1>7, <1>8 DEF IndexBlocker

-----------------------------------------------------------------------------
(* Questions.                                                              *)

\* What is said of questions is said of their variables.
LEMMA AskFrame ==
  ASSUME AskTypes, TurnsOK, UNCHANGED agentVars
  PROVE  AskTypes' /\ TurnsOK'
BY DEF agentVars, AskTypes, TurnsOK, TurnsCounted

\* A question goes to its next await, with the count of that moment.
LEMMA GoAskKeeps ==
  ASSUME AskTypes, TurnsOK, NEW a \in Asks, GoAsk(a, "context") \/ GoAsk(a, "retrieve")
           \/ GoAsk(a, "model") \/ GoAsk(a, "failed"),
         asks[a].at \in {"new", "context", "retrieve", "model"},
         UNCHANGED <<turns, totalAsks>>
  PROVE  AskTypes' /\ TurnsOK'
<1>1. PICK at \in {"context", "retrieve", "model", "failed"} : GoAsk(a, at)
  OBVIOUS
<1>2. totalAsks \in Nat
  BY FS_CardinalityType DEF TurnsOK, TurnsCounted
<1> DEFINE next == [asks[a] EXCEPT !.at = at, !.count = totalAsks]
<1>3. next \in [at : {"new", "context", "retrieve", "model", "done", "failed"}, count : Nat]
  BY <1>2 DEF AskTypes
<1>4. asks' = [asks EXCEPT ![a] = next]
  BY <1>1 DEF GoAsk, AskTypes
<1>5. AskTypes'
  BY <1>3, <1>4 DEF AskTypes
<1>6. a \notin turns
  BY DEF TurnsOK
<1>7. TurnsOK'
  BY <1>4, <1>6 DEF AskTypes, TurnsOK, TurnsCounted
<1>8. QED
  BY <1>5, <1>7

\* The turn and the counter are written together, once for each question.
LEMMA AskKeeps ==
  ASSUME AskTypes, TurnsOK, NEW a \in Asks, Await(a) \/ Answer(a)
  PROVE  AskTypes' /\ TurnsOK'
<1>1. CASE Await(a)
  BY <1>1, GoAskKeeps DEF Await
<1>2. CASE Answer(a) /\ GoAsk(a, "failed") /\ UNCHANGED <<turns, totalAsks>>
  BY <1>2, GoAskKeeps DEF Answer
<1>3. CASE /\ asks[a].at = "model" /\ turns' = turns \cup {a} /\ totalAsks' = NewCount(a)
           /\ asks' = [asks EXCEPT ![a].at = "done"]
  <2>1. a \notin turns /\ IsFiniteSet(turns) /\ totalAsks = Cardinality(turns)
    BY <1>3 DEF TurnsOK, TurnsCounted
  <2>2. IsFiniteSet(turns') /\ Cardinality(turns') = Cardinality(turns) + 1
    BY <1>3, <2>1, FS_AddElement
  <2>3. TurnsCounted'
    BY <1>3, <2>1, <2>2 DEF TurnsCounted, NewCount
  <2>4. [asks[a] EXCEPT !.at = "done"] \in
          [at : {"new", "context", "retrieve", "model", "done", "failed"}, count : Nat]
    BY DEF AskTypes
  <2>5. AskTypes' /\ asks'[a].at = "done" /\ \A c \in Asks : c # a => asks'[c] = asks[c]
    BY <1>3, <2>4 DEF AskTypes
  <2>6. \A c \in Asks : asks'[c].at \in {"new", "context", "retrieve", "model"} => c \notin turns'
    BY <1>3, <2>5 DEF TurnsOK
  <2>7. TurnsOK'
    BY <1>3, <2>2, <2>3, <2>6 DEF TurnsOK
  <2>8. QED
    BY <2>5, <2>7
<1>4. QED
  BY <1>1, <1>2, <1>3 DEF Answer

-----------------------------------------------------------------------------
(* The invariant.                                                          *)

\* No handler of one part touches the state of another.
LEMMA InvStep == IInv /\ [Next]_vars => IInv'
<1> SUFFICES ASSUME IInv, [Next]_vars PROVE IInv'
  OBVIOUS
<1> USE DEF IInv
<1>1. CASE UNCHANGED vars
  BY <1>1, FileFrame, BlockerFrame, AskFrame DEF vars
<1>2. ASSUME NEW f \in Files,
             Upload(f) \/ Remove(f) \/ DeliverDocument(f) \/ IndexDocument(f)
      PROVE  IInv'
  <2>1. UNCHANGED <<blockerVars, agentVars>>
    BY <1>2 DEF Upload, PutBytes, CreateRow, SendDocument, AbandonUpload, Remove, DeleteRow,
                DeleteBytes, DeleteVectors, DeliverDocument, IndexDocument, ReadRow, Forget,
                ReadBytes, UpsertChunks, MarkRow, RetryDocument
  <2>2. FileTypes' /\ \A g \in Files : FileOK(g)'
    BY <1>2, UploadKeeps, RemoveKeeps, IndexKeeps
  <2>3. QED
    BY <2>1, <2>2, BlockerFrame, AskFrame
<1>3. ASSUME NEW b \in Blockers, Change(b) PROVE IInv'
  <2>1. UNCHANGED <<fileVars, agentVars>>
    BY <1>3 DEF Change, Raise, Resolve, RequestResolution, Happens
  <2>2. BlockerTypes' /\ \A c \in Blockers : BlockerOK(c)'
    BY <1>3, ChangeKeeps
  <2>3. QED
    BY <2>1, <2>2, FileFrame, AskFrame
<1>4. ASSUME NEW n \in Notices, DeliverNotice(n) \/ IndexBlocker(n) PROVE IInv'
  <2>1. UNCHANGED <<fileVars, agentVars>>
    BY <1>4 DEF DeliverNotice, IndexBlocker, ReadBlocker, UpsertBlocker, RetryNotice
  <2>2. BlockerTypes' /\ \A c \in Blockers : BlockerOK(c)'
    BY <1>4, NoticeKeeps
  <2>3. QED
    BY <2>1, <2>2, FileFrame, AskFrame
<1>5. ASSUME NEW a \in Asks, Await(a) \/ Answer(a) PROVE IInv'
  <2>1. UNCHANGED <<fileVars, blockerVars>>
    BY <1>5 DEF Await, Answer
  <2>2. AskTypes' /\ TurnsOK'
    BY <1>5, AskKeeps
  <2>3. QED
    BY <2>1, <2>2, FileFrame, BlockerFrame
<1>6. QED
  BY <1>1, <1>2, <1>3, <1>4, <1>5 DEF Next

\* In every state: handlers of a file go one way, a message carries what its
\* handler read, and the conversation has one turn per answered question.
THEOREM Invariance == Spec => []IInv
<1>1. Init => IInv
  BY InvInit
<1>2. IInv /\ [Next]_vars => IInv'
  BY InvStep
<1>3. QED
  BY <1>1, <1>2, PTL DEF Spec

\* A file that is listed can be downloaded, whichever call of the upload or the
\* delete fails (handleAttachments).
THEOREM ListedHasBytes == Spec => []RowHasBytes
<1>1. IInv => RowHasBytes
  BY DEF IInv, FileOK, RowHasBytes
<1>2. QED
  BY <1>1, Invariance, PTL

\* A resolved blocker is found as resolved, unless its two events were once
\* handled side by side (handleHistoryIndexBatch).
THEOREM ResolvedFound == Spec => []ResolvedIsFound
<1>1. IInv => ResolvedIsFound
  BY DEF IInv, BlockerOK, Resolved, ResolvedIsFound
<1>2. QED
  BY <1>1, Invariance, PTL

\* The agent's counter is the number of its turns, for any number of questions
\* that overtake each other or fail (ProgressAgent.ask).
THEOREM CountIsTurns == Spec => []TurnsCounted
<1>1. IInv => TurnsCounted
  BY DEF IInv, TurnsOK
<1>2. QED
  BY <1>1, Invariance, PTL

-----------------------------------------------------------------------------
(* chunkText.  Starts is recursive: a least number at which it went wrong   *)
(* takes the place of induction.                                            *)

\* A set of numbers that is not empty has a least one.
LEMMA MinIn ==
  ASSUME NEW S \in SUBSET Nat, S # {}
  PROVE  Min(S) \in S /\ \A x \in S : Min(S) <= x
<1> DEFINE Upto == {0..x : x \in S}
<1>1. Upto \subseteq FiniteSubsetsOf(Nat) /\ Upto # {}
  <2>1. \A x \in S : 0..x \subseteq Nat /\ IsFiniteSet(0..x)
    BY FS_Interval
  <2>2. QED
    BY <2>1 DEF FiniteSubsetsOf
<1>2. PICK I \in Upto : \A J \in Upto : ~ (<<J, I>> \in StrictSubsetOrdering(Nat))
  BY <1>1, FS_StrictSubsetOrderingWellFounded, WFMin
<1>3. PICK x \in S : I = 0..x
  BY <1>2
<1>4. ASSUME NEW y \in S, y < x PROVE FALSE
  <2>1. 0..y \subseteq 0..x /\ 0..y # 0..x /\ 0..y \in SUBSET Nat /\ 0..x \in SUBSET Nat
    BY <1>4
  <2>2. <<0..y, I>> \in StrictSubsetOrdering(Nat)
    BY <1>3, <2>1 DEF StrictSubsetOrdering
  <2>3. QED
    BY <1>2, <2>2
<1>5. \A y \in S : x <= y
  BY <1>4
<1>6. QED
  BY <1>5 DEF Min

\* A set of numbers with a bound has a greatest one.
LEMMA MaxIn ==
  ASSUME NEW S \in SUBSET Nat, S # {}, NEW top \in Nat, \A x \in S : x <= top
  PROVE  Max(S) \in S /\ \A x \in S : x <= Max(S)
<1> DEFINE Below == {top - x : x \in S}
<1>1. Below \in SUBSET Nat /\ Below # {}
  <2>1. \A x \in S : top - x \in Nat
    OBVIOUS
  <2>2. PICK x \in S : TRUE
    OBVIOUS
  <2>3. top - x \in Below
    BY <2>2
  <2>4. QED
    BY <2>1, <2>3
<1>2. Min(Below) \in Below /\ \A y \in Below : Min(Below) <= y
  BY <1>1, MinIn
<1>3. PICK x \in S : Min(Below) = top - x
  BY <1>2
<1>4. ASSUME NEW y \in S PROVE y <= x
  <2>1. top - y \in Below
    OBVIOUS
  <2>2. top - x <= top - y
    BY <1>2, <1>3, <2>1
  <2>3. QED
    BY <2>2
<1>5. QED
  BY <1>4 DEF Max

\* Of two numbers.
LEMMA OfTwo ==
  ASSUME NEW a \in Int, NEW b \in Nat
  PROVE  /\ a \in Nat => Min({a, b}) \in {a, b} /\ Min({a, b}) <= a /\ Min({a, b}) <= b
         /\ Max({a, b}) \in {a, b} /\ Max({a, b}) >= a /\ Max({a, b}) >= b
<1>1. a \in Nat => Min({a, b}) \in {a, b} /\ Min({a, b}) <= a /\ Min({a, b}) <= b
  BY MinIn
<1>2. \E x \in {a, b} : \A y \in {a, b} : x >= y
  <2>1. CASE a >= b
    BY <2>1
  <2>2. CASE ~(a >= b)
    BY <2>2
  <2>3. QED
    BY <2>1, <2>2
<1>3. Max({a, b}) \in {a, b} /\ \A y \in {a, b} : Max({a, b}) >= y
  BY <1>2 DEF Max
<1>4. QED
  BY <1>1, <1>3

\* A chunk ends after its start, within the text; none follows the end.
LEMMA ChunkEndIs ==
  ASSUME NEW t \in Text, NEW i \in 0..t.len
  PROVE  /\ ChunkEnd(t, i) \in i..t.len
         /\ i < t.len => i < ChunkEnd(t, i)
         /\ i = t.len => ChunkEnd(t, i) = t.len
<1> DEFINE end  == Min({i + ChunkChars, t.len})
           brks == {p \in t.breaks : i <= p /\ p < end}
<1>1. t.len \in Nat /\ t.breaks \in SUBSET Nat /\ i \in Nat /\ ChunkChars \in Nat \ {0}
  BY KnowledgeAssumption DEF Text
<1>2. end \in {i + ChunkChars, t.len} /\ end <= i + ChunkChars /\ end <= t.len
  <2>1. PICK j \in Nat, k \in Nat : j = i + ChunkChars /\ k = t.len
    BY <1>1
  <2>2. Min({j, k}) \in {j, k} /\ Min({j, k}) <= j /\ Min({j, k}) <= k
    BY OfTwo
  <2>3. QED
    BY <2>1, <2>2
<1>3. end \in Nat /\ i <= end /\ (i < t.len => i < end) /\ (i = t.len => end = t.len)
  BY <1>1, <1>2
<1>4. brks # {} => Max(brks) \in brks
  <2>1. brks \in SUBSET Nat /\ \A p \in brks : p <= end
    BY <1>1, <1>3
  <2>2. QED
    BY <1>3, <2>1, MaxIn
<1>5. ChunkEnd(t, i) = IF end < t.len /\ brks # {} /\ 2 * (Max(brks) - i) > ChunkChars
                         THEN Max(brks) + 1 ELSE end
  BY DEF ChunkEnd
<1> HIDE DEF end
<1>6. brks # {} => Max(brks) \in Nat /\ i <= Max(brks) /\ Max(brks) < end
  BY <1>1, <1>4
<1> HIDE DEF brks
<1>7. QED
  BY <1>1, <1>2, <1>3, <1>5, <1>6

\* The next chunk starts within the text and not after the end of this one.
LEMMA NextChunkIs ==
  ASSUME NEW t \in Text, NEW i \in 0..t.len
  PROVE  /\ NextChunk(t, i) \in 0..t.len
         /\ i = t.len => NextChunk(t, i) = t.len
         /\ i < t.len => NextChunk(t, i) <= ChunkEnd(t, i)
<1>1. t.len \in Nat /\ i \in Nat /\ ChunkOverlap \in Nat
  BY KnowledgeAssumption DEF Text
<1>2. PICK end \in i..t.len : /\ end = ChunkEnd(t, i)
                              /\ i < t.len => i < end
                              /\ i = t.len => end = t.len
  BY ChunkEndIs
<1>3. CASE end = t.len
  BY <1>1, <1>2, <1>3 DEF NextChunk
<1>4. CASE end # t.len
  <2>1. i < t.len /\ i + 1 <= end /\ end - ChunkOverlap <= end
    BY <1>1, <1>2, <1>4
  <2>2. PICK next : next = NextStart(end, i)
    OBVIOUS
  <2>3. next \in {end - ChunkOverlap, i + 1} /\ next >= i + 1
    <3>1. PICK j \in Int, k \in Nat : j = end - ChunkOverlap /\ k = i + 1
      BY <1>1, <1>2
    <3>2. Max({j, k}) \in {j, k} /\ Max({j, k}) >= k
      BY OfTwo
    <3>3. QED
      BY <2>2, <3>1, <3>2 DEF NextStart
  <2>4. next \in Nat /\ next <= end
    BY <1>1, <2>1, <2>3
  <2>5. PICK least : least = Min({next, t.len})
    OBVIOUS
  <2>6. least \in {next, t.len} /\ least <= next
    <3>1. PICK k \in Nat : k = t.len
      BY <1>1
    <3>2. Min({next, k}) \in {next, k} /\ Min({next, k}) <= next
      BY <2>4, OfTwo
    <3>3. QED
      BY <2>5, <3>1, <3>2
  <2>7. NextChunk(t, i) = least
    BY <1>2, <1>4, <2>2, <2>5 DEF NextChunk
  <2>8. QED
    BY <1>1, <1>2, <2>1, <2>4, <2>6, <2>7
<1>5. QED
  BY <1>3, <1>4

\* Starts is what its equation says.
LEMMA StartsIs ==
  ASSUME NEW t \in Text
  PROVE  /\ Starts(t) \in [0..MaxChunks -> 0..t.len]
         /\ Starts(t)[0] = 0
         /\ \A n \in 1..MaxChunks : Starts(t)[n] = NextChunk(t, Starts(t)[n - 1])
<1> DEFINE Fcn == [0..MaxChunks -> 0..t.len]
           Good(g, m) == g[0] = 0 /\ \A n \in 1..m : g[n] = NextChunk(t, g[n - 1])
           Body(g) == [n \in 0..MaxChunks |-> IF n = 0 THEN 0 ELSE NextChunk(t, g[n - 1])]
           Bad == {m \in 0..MaxChunks : \A g \in Fcn : ~Good(g, m)}
<1>1. t.len \in Nat /\ MaxChunks \in Nat \ {0}
  BY KnowledgeAssumption DEF Text
<1>2. Bad = {}
  <2> SUFFICES ASSUME Bad # {} PROVE FALSE
    OBVIOUS
  <2>1. PICK m \in Bad : \A k \in Bad : m <= k
    <3>1. Bad \in SUBSET Nat
      BY <1>1
    <3> HIDE DEF Bad
    <3>2. QED
      BY <3>1, MinIn
  <2>2. m # 0
    <3>1. [n \in 0..MaxChunks |-> 0] \in Fcn /\ Good([n \in 0..MaxChunks |-> 0], 0)
      BY <1>1
    <3>2. QED
      BY <2>1, <3>1
  <2>3. m \in 1..MaxChunks /\ m - 1 \in 0..MaxChunks /\ m - 1 \notin Bad
    <3>1. m \in 0..MaxChunks
      BY <2>1
    <3>2. m \in 1..MaxChunks /\ m - 1 \in 0..MaxChunks /\ ~(m <= m - 1)
      BY <1>1, <2>2, <3>1
    <3> HIDE DEF Bad
    <3>3. QED
      BY <2>1, <3>2
  <2>4. PICK g \in Fcn : Good(g, m - 1)
    BY <2>3
  <2>5. PICK next \in 0..t.len : next = NextChunk(t, g[m - 1])
    BY <2>3, <2>4, NextChunkIs
  <2>6. PICK h : h = [g EXCEPT ![m] = next]
    OBVIOUS
  <2>7. h \in Fcn /\ h[m] = next /\ \A n \in 0..MaxChunks : n # m => h[n] = g[n]
    BY <2>3, <2>4, <2>5, <2>6
  <2>8. Good(h, m)
    <3>1. h[0] = 0
      BY <1>1, <2>3, <2>4, <2>7
    <3>2. ASSUME NEW n \in 1..m PROVE h[n] = NextChunk(t, h[n - 1])
      <4>1. n - 1 \in 0..MaxChunks /\ n - 1 # m /\ n \in 0..MaxChunks
        BY <1>1, <2>3, <3>2
      <4>2. CASE n = m
        BY <2>5, <2>7, <4>1, <4>2
      <4>3. CASE n # m
        <5>1. n \in 1..(m - 1)
          BY <2>3, <4>3
        <5>2. QED
          BY <2>4, <2>7, <4>1, <4>3, <5>1
      <4>4. QED
        BY <4>2, <4>3
    <3>3. QED
      BY <3>1, <3>2
  <2>9. QED
    BY <2>1, <2>7, <2>8
<1>3. PICK g \in Fcn : Good(g, MaxChunks)
  <2>1. MaxChunks \in 0..MaxChunks
    BY <1>1
  <2>2. MaxChunks \notin Bad
    BY <1>2
  <2> HIDE DEF Good, Fcn
  <2>3. QED
    BY <2>1, <2>2
<1>4. g = Body(g)
  <2>1. \A n \in 0..MaxChunks : g[n] = Body(g)[n]
    BY <1>1, <1>3
  <2>2. QED
    BY <1>3, <2>1
<1>5. Starts(t) = CHOOSE at : at = Body(at)
  BY DEF Starts
<1>6. Starts(t) = Body(Starts(t))
  BY <1>4, <1>5
<1>7. PICK at : at = Starts(t)
  OBVIOUS
<1>8. /\ at[0] = 0 /\ DOMAIN at = 0..MaxChunks /\ at = [n \in 0..MaxChunks |-> at[n]]
      /\ \A n \in 1..MaxChunks : at[n] = NextChunk(t, at[n - 1])
  BY <1>1, <1>6, <1>7
<1>9. \A n \in 0..MaxChunks : at[n] = g[n]
  <2> DEFINE Off == {n \in 0..MaxChunks : at[n] # g[n]}
  <2> SUFFICES ASSUME Off # {} PROVE FALSE
    OBVIOUS
  <2>1. PICK m \in Off : \A k \in Off : m <= k
    <3>1. Off \in SUBSET Nat
      BY <1>1
    <3> HIDE DEF Off
    <3>2. QED
      BY <3>1, MinIn
  <2>2. m \in 1..MaxChunks
    BY <1>1, <1>3, <1>8, <2>1
  <2>3. m - 1 \in 0..MaxChunks /\ m - 1 \notin Off
    BY <1>1, <2>1, <2>2
  <2>4. QED
    BY <1>3, <1>8, <2>1, <2>2, <2>3
<1>10. QED
  BY <1>3, <1>7, <1>8, <1>9

\* A set of numbers that holds the one before each of its own is an interval.
LEMMA Segment ==
  ASSUME NEW m \in Nat, NEW S \in SUBSET (0..(m - 1)), \A n \in S : n # 0 => n - 1 \in S
  PROVE  Cardinality(S) \in 0..m /\ S = 0..(Cardinality(S) - 1)
<1> DEFINE Out == {n \in 0..m : n \notin S}
<1>1. PICK k \in Out : \A n \in Out : k <= n
  <2>1. Out \in SUBSET Nat /\ m \in Out
    OBVIOUS
  <2> HIDE DEF Out
  <2>2. QED
    BY <2>1, MinIn
<1>2. 0..(k - 1) \subseteq S /\ k \in 0..m
  BY <1>1
<1>3. S \subseteq 0..(k - 1)
  <2> DEFINE Over == {n \in S : n > k}
  <2>1. Over = {}
    <3> SUFFICES ASSUME Over # {} PROVE FALSE
      OBVIOUS
    <3>1. PICK j \in Over : \A n \in Over : j <= n
      <4>1. Over \in SUBSET Nat
        <5>1. \A n \in S : n \in 0..(m - 1) /\ n \in Nat
          OBVIOUS
        <5>2. QED
          BY <5>1
      <4> HIDE DEF Over
      <4>2. QED
        BY <4>1, MinIn
    <3>2. j \in S /\ j > k /\ j - 1 \in S
      BY <1>2, <3>1
    <3>3. j - 1 # k /\ j - 1 \in Nat /\ j - 1 >= k
      BY <1>1, <1>2, <3>2
    <3>4. j - 1 \in Over /\ ~(j <= j - 1)
      BY <1>2, <3>2, <3>3
    <3>5. QED
      BY <3>1, <3>4
  <2>2. \A n \in S : n # k /\ ~(n > k)
    BY <1>1, <2>1
  <2>3. QED
    BY <1>2, <2>2
<1>4. S = 0..(k - 1)
  BY <1>2, <1>3
<1>5. Cardinality(0..(k - 1)) = k
  BY <1>2, FS_Interval
<1>6. QED
  BY <1>2, <1>4, <1>5

\* The chunks are those of the starts that lie within the text.
LEMMA ChunkTextIs ==
  ASSUME NEW t \in Text
  PROVE  \E count \in 0..MaxChunks :
           /\ Len(ChunkText(t)) = count
           /\ \A k \in 0..(count - 1) :
                ChunkText(t)[k + 1] = Starts(t)[k]..(ChunkEnd(t, Starts(t)[k]) - 1)
           /\ \A n \in 0..(MaxChunks - 1) : Starts(t)[n] < t.len <=> n < count
<1> DEFINE at == Starts(t)
           S  == {n \in 0..(MaxChunks - 1) : at[n] < t.len}
<1>1. MaxChunks \in Nat \ {0} /\ t.len \in Nat
  BY KnowledgeAssumption DEF Text
<1>2. at \in [0..MaxChunks -> 0..t.len] /\ \A n \in 1..MaxChunks : at[n] = NextChunk(t, at[n - 1])
  BY StartsIs
<1>3. ASSUME NEW n \in S, n # 0 PROVE n - 1 \in S
  <2>1. n \in 1..MaxChunks /\ n - 1 \in 0..(MaxChunks - 1) /\ n - 1 \in 0..MaxChunks
    BY <1>1, <1>3
  <2>2. at[n] = NextChunk(t, at[n - 1]) /\ at[n] < t.len /\ at[n - 1] \in 0..t.len
    BY <1>2, <1>3, <2>1
  <2> HIDE DEF at
  <2>3. at[n - 1] # t.len
    BY <1>1, <2>2, NextChunkIs
  <2>4. at[n - 1] < t.len
    BY <1>1, <2>2, <2>3
  <2>5. QED
    BY <2>1, <2>4
<1>4. PICK count \in 0..MaxChunks : count = Cardinality(S) /\ S = 0..(count - 1)
  <2>1. S \in SUBSET (0..(MaxChunks - 1))
    OBVIOUS
  <2> HIDE DEF S
  <2>2. QED
    BY <1>1, <1>3, <2>1, Segment
<1>5. ChunkText(t) = [k \in 1..count |-> at[k - 1]..(ChunkEnd(t, at[k - 1]) - 1)]
  BY <1>4 DEF ChunkText
<1>6. Len(ChunkText(t)) = count
  BY <1>1, <1>4, <1>5
<1>7. ASSUME NEW k \in 0..(count - 1)
      PROVE  ChunkText(t)[k + 1] = at[k]..(ChunkEnd(t, at[k]) - 1)
  <2>1. k + 1 \in 1..count /\ (k + 1) - 1 = k
    BY <1>1, <1>4
  <2>2. QED
    BY <1>5, <2>1
<1>8. ASSUME NEW n \in 0..(MaxChunks - 1) PROVE at[n] < t.len <=> n < count
  <2>1. at[n] < t.len <=> n \in S
    OBVIOUS
  <2>2. n \in S <=> n \in 0..(count - 1)
    BY <1>4
  <2> HIDE DEF S, at
  <2>3. n \in 0..(count - 1) <=> n < count
    BY <1>1, <1>4
  <2>4. QED
    BY <2>1, <2>2, <2>3
<1>9. QED
  BY <1>4, <1>6, <1>7, <1>8

\* What follows a start is in its chunk or after the next start.
LEMMA ChunksCover ==
  ASSUME NEW t \in Text, Len(ChunkText(t)) < MaxChunks
  PROVE  UNION {ChunkText(t)[i + 1] : i \in 0..(Len(ChunkText(t)) - 1)} = 0..(t.len - 1)
<1>1. MaxChunks \in Nat \ {0} /\ t.len \in Nat
  BY KnowledgeAssumption DEF Text
<1>2. PICK at : at = Starts(t)
  OBVIOUS
<1>3. /\ at \in [0..MaxChunks -> 0..t.len] /\ at[0] = 0
      /\ \A n \in 1..MaxChunks : at[n] = NextChunk(t, at[n - 1])
  BY <1>2, StartsIs
<1>4. PICK count \in 0..MaxChunks :
        /\ Len(ChunkText(t)) = count
        /\ \A k \in 0..(count - 1) : ChunkText(t)[k + 1] = at[k]..(ChunkEnd(t, at[k]) - 1)
        /\ \A n \in 0..(MaxChunks - 1) : at[n] < t.len <=> n < count
  BY <1>2, ChunkTextIs
<1>5. count \in 0..(MaxChunks - 1)
  BY <1>1, <1>4
<1>6. ASSUME NEW k \in 0..(count - 1) PROVE ChunkText(t)[k + 1] \subseteq 0..(t.len - 1)
  <2>1. at[k] \in 0..t.len /\ k \in 0..MaxChunks
    BY <1>1, <1>3, <1>5
  <2>2. ChunkEnd(t, at[k]) \in at[k]..t.len
    BY <2>1, ChunkEndIs
  <2>3. QED
    BY <1>1, <1>4, <2>1, <2>2
<1>7. ASSUME NEW p \in 0..(t.len - 1)
      PROVE  \E k \in 0..(count - 1) : p \in ChunkText(t)[k + 1]
  <2> DEFINE After == {n \in 0..MaxChunks : at[n] > p}
  <2>1. count \in After
    <3>1. at[count] \in 0..t.len /\ ~(at[count] < t.len)
      BY <1>3, <1>4, <1>5
    <3>2. QED
      BY <1>1, <1>5, <3>1
  <2>2. PICK m \in After : \A n \in After : m <= n
    <3>1. After \in SUBSET Nat
      BY <1>1
    <3> HIDE DEF After
    <3>2. QED
      BY <2>1, <3>1, MinIn
  <2>3. m \in 1..MaxChunks /\ m - 1 \in 0..(MaxChunks - 1) /\ m - 1 \in 0..MaxChunks
    BY <1>1, <1>3, <2>2
  <2>4. m - 1 \notin After
    BY <2>2, <2>3
  <2>5. PICK i \in 0..t.len : i = at[m - 1]
    BY <1>3, <2>3
  <2>6. i <= p /\ i < t.len
    BY <1>1, <2>3, <2>4, <2>5
  <2>7. m - 1 \in 0..(count - 1)
    BY <1>4, <1>5, <2>3, <2>5, <2>6
  <2>8. NextChunk(t, i) > p
    BY <1>3, <2>2, <2>3, <2>5
  <2>9. p < ChunkEnd(t, i) /\ ChunkEnd(t, i) \in i..t.len
    <3>1. PICK next \in 0..t.len, end \in i..t.len :
            next = NextChunk(t, i) /\ end = ChunkEnd(t, i) /\ next <= end
      BY <2>6, NextChunkIs, ChunkEndIs
    <3>2. QED
      BY <1>1, <2>8, <3>1
  <2>10. p \in i..(ChunkEnd(t, i) - 1)
    BY <1>1, <2>6, <2>9
  <2>11. ChunkText(t)[(m - 1) + 1] = i..(ChunkEnd(t, i) - 1)
    BY <1>4, <2>5, <2>7
  <2>12. QED
    BY <2>7, <2>10, <2>11
<1>8. QED
  BY <1>4, <1>6, <1>7

-----------------------------------------------------------------------------
(* An indexed file can be found by all of its text.                        *)

\* The second invariant: a file has no vector beyond the chunks of its text.
VectorsWithin == \A f \in Files : vectors[f] \subseteq 0..(Chunks(f) - 1)
VInv == texts \in [Files -> Text \cup {None}] /\ VectorsWithin

\* Vectors are only added by a handler that has counted the chunks.
LEMMA VectorsStep ==
  ASSUME IInv, VInv, [Next]_vars
  PROVE  VInv'
<1>1. texts' = texts
  BY DEF Next, vars, fileVars, blockerVars, agentVars, Upload, PutBytes, CreateRow, SendDocument,
         AbandonUpload, Remove, DeleteRow, DeleteBytes, DeleteVectors, DeliverDocument,
         IndexDocument, ReadRow, Forget, ReadBytes, UpsertChunks, MarkRow, RetryDocument,
         Change, Raise, Resolve, RequestResolution, Happens, DeliverNotice, IndexBlocker,
         ReadBlocker, UpsertBlocker, RetryNotice, Await, Answer
<1>2. vectors \in [Files -> SUBSET Int] /\ \A f \in Files : Chunks(f)' = Chunks(f)
  BY <1>1 DEF IInv, FileTypes, Chunks
<1>3. \/ vectors' = vectors
      \/ \E f \in Files : DeleteVectors(f) \/ Forget(f) \/ UpsertChunks(f)
  BY DEF Next, vars, fileVars, blockerVars, agentVars, Upload, PutBytes, CreateRow, SendDocument,
         AbandonUpload, Remove, DeleteRow, DeleteBytes, DeliverDocument,
         IndexDocument, ReadRow, ReadBytes, MarkRow, RetryDocument,
         Change, Raise, Resolve, RequestResolution, Happens, DeliverNotice, IndexBlocker,
         ReadBlocker, UpsertBlocker, RetryNotice, Await, Answer
<1>4. ASSUME NEW f \in Files, NEW new \in SUBSET Int, new \subseteq 0..(Chunks(f) - 1),
             vectors' = [vectors EXCEPT ![f] = new]
      PROVE  VectorsWithin'
  BY <1>2, <1>4 DEF VInv, VectorsWithin
<1>5. ASSUME NEW f \in Files, DeleteVectors(f) PROVE VectorsWithin'
  <2>1. PICK gone : gone = 0..(removals[f].chunks - 1)
    OBVIOUS
  <2>2. vectors' = vectors \/ vectors' = [vectors EXCEPT ![f] = @ \ gone]
    BY <1>5, <2>1 DEF DeleteVectors
  <2>3. QED
    BY <1>2, <2>2 DEF VInv, VectorsWithin
<1>6. ASSUME NEW f \in Files, Forget(f) PROVE VectorsWithin'
  BY <1>2, <1>6 DEF Forget, VInv, VectorsWithin
<1>7. ASSUME NEW f \in Files, UpsertChunks(f) PROVE VectorsWithin'
  <2>1. fileMail[f].read.chunks = Chunks(f)
    <3>1. fileMail[f].at = "upsert" /\ FileOK(f)
      BY <1>7 DEF UpsertChunks, IInv
    <3>2. fileMail[f].read = [status |-> "indexed", chunks |-> Chunks(f)]
      BY <3>1 DEF FileOK
    <3>3. QED
      BY <3>2
  <2>2. PICK new : new = vectors[f] \cup 0..(Chunks(f) - 1)
    OBVIOUS
  <2>3. vectors' = [vectors EXCEPT ![f] = new]
    BY <1>7, <2>1, <2>2 DEF UpsertChunks
  <2>4. new \in SUBSET Int /\ new \subseteq 0..(Chunks(f) - 1)
    BY <1>2, <2>2 DEF VInv, VectorsWithin
  <2>5. QED
    BY <1>4, <2>3, <2>4
<1>8. QED
  BY <1>1, <1>2, <1>3, <1>5, <1>6, <1>7 DEF VInv, VectorsWithin

\* A file shown as indexed can be found by every part of its text, for any
\* texts, limits of chunkText and number of deliveries (indexDocument,
\* chunkText).
THEOREM IndexedSearchable == Spec => []IndexedMeansSearchable
<1>1. Init => VInv
  BY TextsAssumption DEF Init, VInv, VectorsWithin
<1>2. IInv /\ VInv /\ [Next]_vars => VInv'
  BY VectorsStep
<1>3. ASSUME IInv, VInv PROVE IndexedMeansSearchable
  <2> SUFFICES ASSUME NEW f \in Files, rows[f] # None /\ rows[f].status = "indexed"
               PROVE  LET chunks == ChunkText(texts[f]) IN
                      /\ rows[f].chunks = Len(chunks)
                      /\ 0..(rows[f].chunks - 1) \subseteq vectors[f]
                      /\ Len(chunks) < MaxChunks =>
                           UNION {chunks[i + 1] : i \in vectors[f]} = 0..(texts[f].len - 1)
    BY DEF IndexedMeansSearchable
  <2>1. texts[f] # None /\ rows[f].chunks = Len(ChunkText(texts[f]))
        /\ 0..(Len(ChunkText(texts[f])) - 1) \subseteq vectors[f]
        /\ vectors[f] \subseteq 0..(Len(ChunkText(texts[f])) - 1)
    BY <1>3 DEF IInv, FileOK, Chunks, VInv, VectorsWithin
  <2>2. texts[f] \in Text
    BY <1>3, <2>1 DEF VInv
  <2>3. vectors[f] = 0..(Len(ChunkText(texts[f])) - 1)
    BY <2>1
  <2>4. QED
    BY <2>1, <2>2, <2>3, ChunksCover
<1>4. QED
  BY <1>1, <1>2, <1>3, Invariance, PTL DEF Spec
==============================================================================
