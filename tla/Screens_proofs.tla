---------------------------- MODULE Screens_proofs ----------------------------
(***************************************************************************)
(* Proofs about Screens, for any tasks, any person and any number of       *)
(* reports, visits, questions and clicks.                                  *)
(***************************************************************************)
EXTENDS Screens, TLAPS

-----------------------------------------------------------------------------
(* The inductive invariant.                                                *)

Row  == [status : Drafting \cup Reviewing \cup {"APPROVED"}, text : SUBSET Nat]
Push == [id : Nat, row : Row]
Turn == [prompt : Nat, answered : BOOLEAN]
FormRow ==
  [selectedId : Nat, draft : SUBSET Nat, busy : BOOLEAN, turns : Seq(Turn),
   editing : Tasks \cup {None}, fields : SUBSET Tasks, kept : BOOLEAN]
WeeklyOps == {"start", "save", "submit", "decide"}
CallRow ==
  [mount : Nat, op : WeeklyOps \cup {"ask", "history"}, on : Nat, text : SUBSET Nat,
   at : {"sent", "ok", "failed"}, turns : Seq(Nat)]

TypeOK ==
  /\ session \in Sessions /\ tab \in TabNames /\ mount \in Nat /\ asked \in Nat
  /\ reports \in Seq(Row) /\ seen \in Seq(Row) /\ pushes \in Seq(Push)
  /\ titles \in [Tasks -> SUBSET Tasks] /\ mixed \subseteq Tasks /\ stored \in Seq(Nat)
  /\ form \in FormRow /\ calls \subseteq CallRow

\* Rows hold what was written for them, wherever they are.
RowsOK ==
  /\ \A id \in DOMAIN reports : reports[id].text \subseteq {id}
  /\ \A id \in DOMAIN seen : seen[id].text \subseteq {id}
  /\ \A i \in DOMAIN pushes :
       pushes[i].id \in DOMAIN reports /\ pushes[i].row.text \subseteq {pushes[i].id}

\* What the tab has not seen is on its way, older reports before newer ones.
Unseen == DOMAIN reports \ DOMAIN seen
ArriveOK ==
  /\ Len(seen) <= Len(reports)
  /\ \A id \in Unseen : \E j \in DOMAIN pushes : pushes[j].id = id
  /\ \A i \in DOMAIN pushes, id \in Unseen :
       id < pushes[i].id => \E j \in DOMAIN pushes : j < i /\ pushes[j].id = id

\* The choice sticks, and the draft is of the report on screen.
PanelOK ==
  tab = "Weekly" =>
    /\ form.selectedId = Shown(form.selectedId, seen)
    /\ form.draft \subseteq {form.selectedId}

EditorOK ==
  /\ \A t \in Tasks \ mixed : titles[t] \subseteq {t}
  /\ ~form.kept /\ form.editing # None /\ form.editing \notin mixed =>
       form.fields \subseteq {form.editing}

\* A call of the mounted tab is one of its kind, and the only question.
Mine(c) == c.mount = mount
WaitsFor(q) ==
  /\ form.busy
  /\ \A i \in DOMAIN form.turns : ~form.turns[i].answered => form.turns[i].prompt = q
Within(turns, off) ==
  \A i \in DOMAIN turns : off + i \in DOMAIN stored /\ stored[off + i] = turns[i]
CallOK(c) ==
  /\ c.mount <= mount
  /\ c.op = "save" => c.on \in DOMAIN reports /\ c.text \subseteq {c.on}
  /\ c.op = "history" => Mine(c) /\ \E off \in 0..Len(stored) : Within(c.turns, off)
  /\ Mine(c) => IF c.op \in WeeklyOps THEN tab = "Weekly" ELSE tab = "Agent"
  /\ c.op = "ask" /\ Mine(c) => WaitsFor(c.on)
CallsOK ==
  /\ \A c \in calls : CallOK(c)
  /\ \A c \in calls, d \in calls :
       c.op = "ask" /\ Mine(c) /\ d.op = "ask" /\ Mine(d) => c = d

\* The answers on screen are stored ones in their order, and an answer on its
\* way to the open question, which is the last turn, was stored after them.
Answers(turns) == {i \in DOMAIN turns : turns[i].answered}
Places(turns, at) ==
  /\ at \in [Answers(turns) -> DOMAIN stored]
  /\ \A i \in Answers(turns) : stored[at[i]] = turns[i].prompt
  /\ \A i \in Answers(turns), j \in Answers(turns) : i < j => at[i] < at[j]
StoredAfter(q, turns, at) ==
  \E k \in DOMAIN stored : stored[k] = q /\ \A j \in Answers(turns) : at[j] < k
Coming(q) == \E c \in calls : c.op = "ask" /\ Mine(c) /\ c.at = "ok" /\ c.on = q
AgentOK ==
  LET turns == form.turns IN
  /\ tab # "Agent" => turns = <<>>
  /\ \A i \in DOMAIN turns \ Answers(turns) : i = Len(turns) /\ form.busy
  /\ \E at \in [Answers(turns) -> DOMAIN stored] :
       /\ Places(turns, at)
       /\ \A i \in DOMAIN turns \ Answers(turns) :
            Coming(turns[i].prompt) => StoredAfter(turns[i].prompt, turns, at)

IInv == TypeOK /\ RowsOK /\ ArriveOK /\ PanelOK /\ EditorOK /\ CallsOK /\ AgentOK

-----------------------------------------------------------------------------
(* Rows.                                                                   *)

\* A row goes to its place, or to the end.
Placed(rows, id, row) ==
  IF id > Len(rows) THEN Append(rows, row) ELSE [rows EXCEPT ![id] = row]
LEMMA PlacedIs ==
  ASSUME NEW rows \in Seq(Row), NEW id \in 1..(Len(rows) + 1), NEW row \in Row,
         NEW new, new = Placed(rows, id, row)
  PROVE  /\ new \in Seq(Row) /\ new[id] = row /\ id \in 1..Len(new)
         /\ Len(new) \in Nat /\ DOMAIN new = 1..Len(new)
         /\ Len(new) = IF id > Len(rows) THEN Len(rows) + 1 ELSE Len(rows)
<1>1. CASE id > Len(rows)
  BY <1>1 DEF Placed
<1>2. CASE ~(id > Len(rows))
  BY <1>2 DEF Placed
<1>3. QED
  BY <1>1, <1>2

\* The other rows stay.
LEMMA PlacedElse ==
  ASSUME NEW rows \in Seq(Row), NEW id \in 1..(Len(rows) + 1), NEW row \in Row,
         NEW k \in 1..Len(rows), k # id
  PROVE  Placed(rows, id, row)[k] = rows[k]
<1>1. CASE id > Len(rows)
  BY <1>1 DEF Placed
<1>2. CASE ~(id > Len(rows))
  BY <1>2 DEF Placed
<1>3. QED
  BY <1>1, <1>2

\* A row that is written for a report: its push follows the ones before.
LEMMA PutKeeps ==
  ASSUME TypeOK, RowsOK, ArriveOK, NEW id \in 1..(Len(reports) + 1),
         NEW row \in Row, row.text \subseteq {id}, Put(id, row), UNCHANGED seen
  PROVE  /\ reports' \in Seq(Row) /\ pushes' \in Seq(Push) /\ RowsOK' /\ ArriveOK'
         /\ DOMAIN reports \subseteq DOMAIN reports' /\ UNCHANGED <<titles, stored>>
<1>1. /\ reports \in Seq(Row) /\ pushes \in Seq(Push) /\ seen \in Seq(Row)
      /\ [id |-> id, row |-> row] \in Push /\ id \in Nat
  BY DEF TypeOK, Push
<1>2. /\ pushes' = Append(pushes, [id |-> id, row |-> row]) /\ UNCHANGED <<titles, stored>>
      /\ reports' = Placed(reports, id, row)
  BY DEF Put, Placed
<1>3. /\ pushes' \in Seq(Push) /\ Len(pushes') = Len(pushes) + 1
      /\ pushes'[Len(pushes) + 1] = [id |-> id, row |-> row]
      /\ \A i \in 1..Len(pushes) : pushes'[i] = pushes[i]
  BY <1>1, <1>2
<1>4. /\ reports' \in Seq(Row) /\ reports'[id] = row /\ id \in 1..Len(reports')
      /\ Len(reports') = IF id > Len(reports) THEN Len(reports) + 1 ELSE Len(reports)
      /\ \A k \in 1..Len(reports) : k # id => reports'[k] = reports[k]
  <2>1. reports \in Seq(Row) /\ reports' = Placed(reports, id, row)
    BY <1>1, <1>2
  <2>2. QED
    BY <2>1, PlacedIs, PlacedElse
<1> DEFINE n == Len(pushes)
<1>5. /\ n \in Nat /\ DOMAIN pushes = 1..n /\ DOMAIN pushes' = 1..(n + 1)
      /\ Len(reports) \in Nat /\ DOMAIN reports = 1..Len(reports)
      /\ DOMAIN reports' = 1..Len(reports') /\ Len(seen) \in Nat /\ DOMAIN seen = 1..Len(seen)
      /\ pushes'[n + 1].id = id /\ pushes'[n + 1].row = row
      /\ DOMAIN reports \subseteq DOMAIN reports'
  BY <1>1, <1>3, <1>4
<1> HIDE DEF n
<1>6. \A i \in 1..n : pushes'[i] = pushes[i] /\ pushes[i].id \in 1..Len(reports)
  BY <1>3, <1>5 DEF RowsOK, n
<1>7. RowsOK'
  <2>1. \A k \in DOMAIN reports' : reports'[k].text \subseteq {k}
    BY <1>1, <1>4, <1>5 DEF RowsOK
  <2>2. ASSUME NEW i \in DOMAIN pushes'
        PROVE  pushes'[i].id \in DOMAIN reports' /\ pushes'[i].row.text \subseteq {pushes'[i].id}
    <3>1. CASE i = n + 1
      BY <1>4, <1>5, <3>1
    <3>2. CASE i \in 1..n
      BY <1>5, <1>6, <3>2 DEF RowsOK
    <3>3. QED
      BY <1>5, <3>1, <3>2
  <2>3. QED
    BY <2>1, <2>2 DEF RowsOK
<1>8. ArriveOK'
  <2>1. ASSUME NEW k \in Unseen' PROVE \E j \in DOMAIN pushes' : pushes'[j].id = k
    <3>1. CASE k = id
      BY <1>5, <3>1
    <3>2. CASE k # id
      <4>1. k \in Unseen
        BY <1>1, <1>4, <1>5, <3>2 DEF Unseen
      <4>2. PICK j \in DOMAIN pushes : pushes[j].id = k
        BY <4>1 DEF ArriveOK
      <4>3. QED
        BY <1>5, <1>6, <4>2
    <3>3. QED
      BY <3>1, <3>2
  <2>2. ASSUME NEW i \in DOMAIN pushes', NEW k \in Unseen', k < pushes'[i].id
        PROVE  \E j \in DOMAIN pushes' : j < i /\ pushes'[j].id = k
    <3>1. k \in 1..Len(reports') /\ k \notin 1..Len(seen)
      BY <1>5 DEF Unseen
    <3>2. CASE i = n + 1
      <4>1. k \in Unseen
        BY <1>1, <1>4, <1>5, <2>2, <3>1, <3>2 DEF Unseen
      <4>2. PICK j \in DOMAIN pushes : pushes[j].id = k
        BY <4>1 DEF ArriveOK
      <4>3. QED
        BY <1>5, <1>6, <3>2, <4>2
    <3>3. CASE i \in 1..n
      <4>1. k \in Unseen
        BY <1>1, <1>4, <1>5, <1>6, <2>2, <3>1, <3>3 DEF Unseen
      <4>2. PICK j \in DOMAIN pushes : j < i /\ pushes[j].id = k
        BY <1>5, <1>6, <2>2, <3>3, <4>1 DEF ArriveOK
      <4>3. QED
        BY <1>5, <1>6, <4>2
    <3>4. QED
      BY <1>5, <3>2, <3>3
  <2>3. Len(seen') <= Len(reports')
    BY <1>1, <1>4 DEF ArriveOK
  <2>4. QED
    BY <2>1, <2>2, <2>3 DEF ArriveOK
<1>9. QED
  BY <1>2, <1>3, <1>4, <1>5, <1>7, <1>8

\* The next push: its report is known, or is the next one.
Received == seen' = Placed(seen, Head(pushes).id, Head(pushes).row)
LEMMA ReceiveKeeps ==
  ASSUME TypeOK, RowsOK, ArriveOK, pushes # <<>>, pushes' = Tail(pushes),
         UNCHANGED reports, Received
  PROVE  /\ seen' \in Seq(Row) /\ pushes' \in Seq(Push) /\ RowsOK' /\ ArriveOK'
         /\ DOMAIN seen \subseteq DOMAIN seen' /\ seen' # <<>>
<1>1. PICK p : p = Head(pushes)
  OBVIOUS
<1> DEFINE n == Len(pushes)
<1>2. /\ reports \in Seq(Row) /\ pushes \in Seq(Push) /\ seen \in Seq(Row)
      /\ n \in Nat /\ n > 0 /\ DOMAIN pushes = 1..n /\ p = pushes[1] /\ p \in Push
      /\ Len(reports) \in Nat /\ DOMAIN reports = 1..Len(reports)
      /\ Len(seen) \in Nat /\ DOMAIN seen = 1..Len(seen)
  BY <1>1 DEF TypeOK
<1>3. p.id \in 1..Len(reports) /\ p.row.text \subseteq {p.id} /\ p.row \in Row
  BY <1>2 DEF RowsOK, Push
<1>4. p.id <= Len(seen) + 1
  <2>1. SUFFICES ASSUME p.id > Len(seen) + 1 PROVE FALSE
    BY <1>2, <1>3
  <2>2. Len(seen) + 1 \in Unseen /\ Len(seen) + 1 < p.id
    BY <1>2, <1>3, <2>1 DEF Unseen
  <2>3. QED
    <3>1. 1 \in DOMAIN pushes /\ \A j \in DOMAIN pushes : ~(j < 1)
      BY <1>2
    <3>2. QED
      BY <1>2, <2>2, <3>1 DEF ArriveOK
<1>5. /\ pushes' \in Seq(Push) /\ DOMAIN pushes' = 1..(n - 1)
      /\ \A i \in 1..(n - 1) : pushes'[i] = pushes[i + 1]
  BY <1>2
<1> HIDE DEF n
<1>6. /\ seen' \in Seq(Row) /\ seen'[p.id] = p.row /\ p.id \in 1..Len(seen')
      /\ Len(seen') = IF p.id > Len(seen) THEN Len(seen) + 1 ELSE Len(seen)
      /\ DOMAIN seen' = 1..Len(seen')
      /\ \A k \in 1..Len(seen) : k # p.id => seen'[k] = seen[k]
  <2>1. PICK id \in 1..(Len(seen) + 1), row \in Row : id = p.id /\ row = p.row
    BY <1>2, <1>3, <1>4
  <2>2. /\ seen' = Placed(seen, id, row) /\ seen \in Seq(Row)
        /\ id \in 1..(Len(seen) + 1) /\ row \in Row
    BY <1>1, <1>2, <2>1 DEF Received
  <2>3. /\ seen' \in Seq(Row) /\ seen'[id] = row /\ id \in 1..Len(seen')
        /\ Len(seen') = IF id > Len(seen) THEN Len(seen) + 1 ELSE Len(seen)
    BY <2>2, PlacedIs
  <2>4. \A k \in 1..Len(seen) : k # id => seen'[k] = seen[k]
    BY <2>2, PlacedElse
  <2>5. QED
    BY <2>1, <2>3, <2>4
<1>7. RowsOK'
  <2>1. ASSUME NEW k \in DOMAIN seen' PROVE seen'[k].text \subseteq {k}
    <3>1. CASE k = p.id
      BY <1>3, <1>6, <3>1
    <3>2. CASE k # p.id
      <4>1. k \in 1..Len(seen)
        BY <1>2, <1>3, <1>4, <1>6, <3>2
      <4>2. QED
        BY <1>2, <1>6, <3>2, <4>1 DEF RowsOK
    <3>3. QED
      BY <3>1, <3>2
  <2>2. ASSUME NEW i \in DOMAIN pushes'
        PROVE  pushes'[i].id \in DOMAIN reports' /\ pushes'[i].row.text \subseteq {pushes'[i].id}
    <3>1. i + 1 \in DOMAIN pushes /\ pushes'[i] = pushes[i + 1]
      BY <1>2, <1>5
    <3>2. QED
      BY <3>1 DEF RowsOK
  <2>3. QED
    BY <2>1, <2>2 DEF RowsOK
<1>8. ArriveOK'
  <2>1. ASSUME NEW k \in Unseen', NEW j \in DOMAIN pushes, pushes[j].id = k
        PROVE  j - 1 \in DOMAIN pushes' /\ pushes'[j - 1].id = k
    <3>1. j # 1
      BY <1>2, <1>6, <2>1 DEF Unseen
    <3>2. j - 1 \in 1..(n - 1) /\ (j - 1) + 1 = j
      BY <1>2, <3>1
    <3>3. QED
      BY <1>5, <2>1, <3>2
  <2>2. Unseen' \subseteq Unseen /\ Len(seen') <= Len(reports)
    BY <1>2, <1>3, <1>4, <1>6 DEF Unseen, ArriveOK
  <2>3. \A k \in Unseen' : \E j \in DOMAIN pushes' : pushes'[j].id = k
    BY <2>1, <2>2 DEF ArriveOK
  <2>4. ASSUME NEW i \in DOMAIN pushes', NEW k \in Unseen', k < pushes'[i].id
        PROVE  \E j \in DOMAIN pushes' : j < i /\ pushes'[j].id = k
    <3>1. i + 1 \in DOMAIN pushes /\ pushes[i + 1] = pushes'[i] /\ i \in Nat
      BY <1>2, <1>5
    <3>2. PICK j \in DOMAIN pushes : j < i + 1 /\ pushes[j].id = k
      BY <2>2, <2>4, <3>1 DEF ArriveOK
    <3>3. j - 1 \in DOMAIN pushes' /\ pushes'[j - 1].id = k
      BY <2>1, <3>2
    <3>4. j - 1 < i
      BY <1>2, <3>1, <3>2
    <3>5. QED
      BY <3>3, <3>4
  <2>5. QED
    BY <2>2, <2>3, <2>4 DEF ArriveOK
<1>9. DOMAIN seen \subseteq DOMAIN seen' /\ seen' # <<>>
  BY <1>2, <1>3, <1>6
<1>10. QED
  BY <1>5, <1>6, <1>7, <1>8, <1>9

-----------------------------------------------------------------------------
(* The weekly panel.                                                       *)

\* Which report is shown is one of the rows, if there is one.
LEMMA ShownIs ==
  ASSUME NEW rows \in Seq(Row), NEW s \in Nat
  PROVE  /\ Shown(s, rows) \in Nat
         /\ Shown(s, rows) \in DOMAIN rows \/ (Shown(s, rows) = 0 /\ rows = <<>>)
         /\ Shown(Shown(s, rows), rows) = Shown(s, rows)
         /\ s \in DOMAIN rows => Shown(s, rows) = s
BY DEF Shown

\* A choice makes the draft the row's, or leaves it and the report.
LEMMA ChooseIs ==
  ASSUME NEW f \in FormRow, NEW rows \in Seq(Row), NEW s \in Nat,
         f.draft \subseteq {f.selectedId}, f.selectedId # 0 => rows # <<>>,
         \A id \in DOMAIN rows : rows[id].text \subseteq {id}
  PROVE  LET g == Choose(f, s, rows) IN
         /\ g \in FormRow /\ g.selectedId = Shown(s, rows)
         /\ g.draft \subseteq {g.selectedId}
         /\ Shown(s, rows) = f.selectedId => g.draft = f.draft
         /\ g.busy = f.busy /\ g.turns = f.turns
         /\ g.editing = f.editing /\ g.fields = f.fields /\ g.kept = f.kept
<1> DEFINE is    == Shown(s, rows)
           draft == IF is # f.selectedId THEN rows[is].text ELSE f.draft
<1>1. is \in Nat /\ (is \in DOMAIN rows \/ (is = 0 /\ rows = <<>>))
  BY ShownIs
<1>2. draft \in SUBSET Nat /\ draft \subseteq {is}
  <2>1. CASE is = f.selectedId
    BY <2>1 DEF FormRow
  <2>2. CASE is # f.selectedId
    <3>1. is \in DOMAIN rows
      BY <1>1, <2>2 DEF FormRow
    <3>2. QED
      BY <2>2, <3>1 DEF Row
  <2>3. QED
    BY <2>1, <2>2
<1>3. Choose(f, s, rows) = [f EXCEPT !.selectedId = is, !.draft = draft]
  BY DEF Choose
<1>4. is = f.selectedId => draft = f.draft
  OBVIOUS
<1> HIDE DEF is, draft
<1>5. QED
  BY <1>1, <1>2, <1>3, <1>4 DEF FormRow, is

-----------------------------------------------------------------------------
(* Calls and turns that a step leaves alone.                               *)

\* The conversation only grows.
StoredGrows ==
  /\ Len(stored) <= Len(stored')
  /\ \A k \in DOMAIN stored : k \in DOMAIN stored' /\ stored'[k] = stored[k]

\* A history that was read stays part of the conversation.
LEMMA WithinKeeps ==
  ASSUME stored \in Seq(Nat), stored' \in Seq(Nat), StoredGrows, NEW turns, NEW off \in 0..Len(stored),
         Within(turns, off)
  PROVE  off \in 0..Len(stored') /\ Within(turns, off)'
BY DEF StoredGrows, Within

\* Its waiting is what a step can take from a call.
LEMMA CallKeeps ==
  ASSUME TypeOK, stored' \in Seq(Nat), NEW c \in calls, CallOK(c), UNCHANGED <<tab, mount>>,
         DOMAIN reports \subseteq DOMAIN reports', StoredGrows,
         c.op = "ask" /\ Mine(c) => WaitsFor(c.on)'
  PROVE  CallOK(c)'
<1>1. c.op = "history" => \E off \in 0..Len(stored') : Within(c.turns, off)'
  BY WithinKeeps DEF CallOK, TypeOK
<1>2. QED
  BY <1>1 DEF CallOK, Mine

\* The form still waits.
LEMMA StillWaits ==
  ASSUME form'.turns = form.turns, form.busy => form'.busy, NEW q, WaitsFor(q)
  PROVE  WaitsFor(q)'
BY DEF WaitsFor

\* Calls are answered or gone.
LEMMA CallsRemain ==
  ASSUME TypeOK, stored' \in Seq(Nat), CallsOK, UNCHANGED <<tab, mount>>, calls' \subseteq calls,
         DOMAIN reports \subseteq DOMAIN reports', StoredGrows,
         \A c \in calls' : c.op = "ask" /\ Mine(c) => WaitsFor(c.on)'
  PROVE  CallsOK'
<1>1. ASSUME NEW c \in calls' PROVE CallOK(c)'
  <2>1. c \in calls /\ CallOK(c)
    BY DEF CallsOK
  <2>2. QED
    BY <2>1, CallKeeps
<1>2. QED
  BY <1>1 DEF CallsOK, Mine

\* A call is on its way back.
LEMMA CallsReplace ==
  ASSUME TypeOK, stored' \in Seq(Nat), CallsOK, UNCHANGED <<tab, mount, form>>,
         DOMAIN reports \subseteq DOMAIN reports', StoredGrows,
         NEW c \in calls, NEW d \in CallRow, calls' = (calls \ {c}) \cup {d},
         d.mount = c.mount, d.op = c.op, d.text = c.text,
         c.op \in {"save", "ask"} => d.on = c.on,
         c.op = "history" => \E off \in 0..Len(stored') : Within(d.turns, off)'
  PROVE  CallsOK' /\ calls' \subseteq CallRow
<1>1. ASSUME NEW b \in calls PROVE CallOK(b)'
  <2>1. CallOK(b) /\ (b.op = "ask" /\ Mine(b) => WaitsFor(b.on)')
    BY StillWaits DEF CallsOK, CallOK
  <2>2. QED
    BY <2>1, CallKeeps
<1>2. CallOK(d)'
  <2>1. CallOK(c)'
    BY <1>1
  <2>2. c \in CallRow
    BY DEF TypeOK
  <2>3. QED
    BY <2>1, <2>2 DEF CallOK, Mine
<1>3. \A a \in calls', b \in calls' :
        a.op = "ask" /\ Mine(a)' /\ b.op = "ask" /\ Mine(b)' => a = b
  BY DEF CallsOK, Mine
<1>4. QED
  BY <1>1, <1>2, <1>3 DEF CallsOK, TypeOK

\* A call is sent.
LEMMA CallsAdd ==
  ASSUME TypeOK, CallsOK, UNCHANGED <<tab, mount, stored, reports>>,
         \A c \in calls : ~(c.op = "ask" /\ Mine(c)),
         NEW d \in CallRow, Mine(d), CallOK(d)', calls' = calls \cup {d}
  PROVE  CallsOK' /\ calls' \subseteq CallRow
<1>1. StoredGrows /\ stored' \in Seq(Nat)
  BY DEF StoredGrows, TypeOK
<1>2. \A c \in calls : CallOK(c)'
  BY <1>1, CallKeeps DEF CallsOK
<1>3. QED
  BY <1>2 DEF CallsOK, Mine, TypeOK

\* Without turns there is nothing to say of them.
LEMMA NoTurns ==
  ASSUME form'.turns = <<>>
  PROVE  AgentOK'
<1>1. Answers(<<>>) = {} /\ DOMAIN <<>> = {}
  BY DEF Answers
<1>2. PICK at : at = [i \in {} |-> 0]
  OBVIOUS
<1>3. at \in [{} -> DOMAIN stored']
  BY <1>2
<1>4. Places(<<>>, at)'
  BY <1>1, <1>3 DEF Places
<1>5. QED
  BY <1>1, <1>3, <1>4 DEF AgentOK

\* The turns stay what they were; an answer that is coming from now on was
\* stored last.
JustStored(q) == \E k \in DOMAIN stored' \ DOMAIN stored : stored'[k] = q
LEMMA TurnsStored ==
  ASSUME TypeOK, stored' \in Seq(Nat), AgentOK, UNCHANGED tab, form'.turns = form.turns,
         form.busy => form'.busy, StoredGrows,
         \A q \in Nat : Coming(q)' => Coming(q) \/ JustStored(q)
  PROVE  AgentOK'
<1>1. PICK turns : turns = form.turns
  OBVIOUS
<1> DEFINE open == DOMAIN turns \ Answers(turns)
<1>2. PICK at \in [Answers(turns) -> DOMAIN stored] :
        /\ Places(turns, at)
        /\ \A i \in open : Coming(turns[i].prompt) => StoredAfter(turns[i].prompt, turns, at)
  BY <1>1 DEF AgentOK
<1>3. \A i \in DOMAIN turns : turns[i].prompt \in Nat
  <2>1. turns \in Seq(Turn)
    BY <1>1 DEF TypeOK, FormRow
  <2>2. \A i \in DOMAIN turns : turns[i] \in Turn
    BY <2>1
  <2>3. QED
    BY <2>2 DEF Turn
<1> HIDE DEF open
<1>4. Places(turns, at)'
  <2>1. DOMAIN stored \subseteq DOMAIN stored' /\ \A k \in DOMAIN stored : stored'[k] = stored[k]
    BY DEF StoredGrows
  <2>2. \A i \in Answers(turns) : at[i] \in DOMAIN stored
    BY <1>2
  <2>3. at \in [Answers(turns) -> DOMAIN stored']
    BY <1>2, <2>1
  <2>4. QED
    BY <1>2, <2>1, <2>2, <2>3 DEF Places
<1>5. ASSUME NEW i \in open, Coming(turns[i].prompt)'
      PROVE  StoredAfter(turns[i].prompt, turns, at)'
  <2>1. Coming(turns[i].prompt) \/ JustStored(turns[i].prompt)
    BY <1>3, <1>5 DEF open
  <2>2. CASE Coming(turns[i].prompt)
    <3>1. PICK k \in DOMAIN stored :
            stored[k] = turns[i].prompt /\ \A j \in Answers(turns) : at[j] < k
      BY <1>2, <2>2 DEF StoredAfter
    <3>2. k \in DOMAIN stored' /\ stored'[k] = turns[i].prompt
      BY <3>1 DEF StoredGrows
    <3>3. QED
      BY <3>1, <3>2 DEF StoredAfter
  <2>3. CASE JustStored(turns[i].prompt)
    <3>1. PICK k \in DOMAIN stored' \ DOMAIN stored : stored'[k] = turns[i].prompt
      BY <2>3 DEF JustStored
    <3>2. \A j \in Answers(turns) : at[j] < k
      <4>1. \A j \in Answers(turns) : at[j] \in DOMAIN stored
        BY <1>2
      <4>2. stored \in Seq(Nat) /\ stored' \in Seq(Nat)
        BY DEF TypeOK
      <4>3. QED
        BY <3>1, <4>1, <4>2
    <3>3. QED
      BY <3>1, <3>2 DEF StoredAfter
  <2>4. QED
    BY <2>1, <2>2, <2>3
<1>6. (tab' # "Agent" => turns = <<>>) /\ \A i \in open : i = Len(turns) /\ form'.busy
  BY <1>1 DEF AgentOK, open
<1>7. QED
  BY <1>1, <1>4, <1>5, <1>6 DEF AgentOK, Places, open

\* The turns stay what they were when nothing more is coming.
LEMMA TurnsRemain ==
  ASSUME TypeOK, stored' \in Seq(Nat), AgentOK, UNCHANGED tab, form'.turns = form.turns,
         form.busy => form'.busy, StoredGrows, \A q \in Nat : Coming(q)' => Coming(q)
  PROVE  AgentOK'
BY TurnsStored

\* Every turn is answered, and stored.
LEMMA TurnsSettled ==
  ASSUME tab' = "Agent", \A i \in DOMAIN form'.turns : form'.turns[i].answered,
         NEW at \in [DOMAIN form'.turns -> DOMAIN stored'],
         \A i \in DOMAIN form'.turns : stored'[at[i]] = form'.turns[i].prompt,
         \A i \in DOMAIN form'.turns, j \in DOMAIN form'.turns : i < j => at[i] < at[j]
  PROVE  AgentOK'
<1>1. PICK turns : turns = form'.turns
  OBVIOUS
<1>2. Answers(turns) = DOMAIN turns
  BY <1>1 DEF Answers
<1>3. Places(turns, at)'
  BY <1>1, <1>2 DEF Places, Answers
<1>4. QED
  BY <1>1, <1>2, <1>3 DEF AgentOK, Places, Answers

-----------------------------------------------------------------------------
(* The steps of the weekly tab.                                            *)

\* The questions of the mounted tab are the agent tab's.
LEMMA NoQuestion ==
  ASSUME CallsOK, tab # "Agent"
  PROVE  \A c \in calls : ~(c.op = "ask" /\ Mine(c))
BY DEF CallsOK, CallOK, WeeklyOps

\* What was chosen is there.
LEMMA ChosenIs ==
  ASSUME IInv, tab = "Weekly"
  PROVE  /\ form \in FormRow /\ form.selectedId \in Nat /\ form.draft \subseteq {form.selectedId}
         /\ form.selectedId # 0 => form.selectedId \in DOMAIN seen /\ seen # <<>>
         /\ form.selectedId \in DOMAIN seen \/ (form.selectedId = 0 /\ seen = <<>>)
         /\ form.turns = <<>>
         /\ seen \in Seq(Row) /\ \A id \in DOMAIN seen : seen[id].text \subseteq {id}
         /\ DOMAIN seen \subseteq DOMAIN reports
<1>1. /\ form \in FormRow /\ form.selectedId \in Nat /\ seen \in Seq(Row) /\ reports \in Seq(Row)
      /\ form.draft \subseteq {form.selectedId} /\ form.turns = <<>>
      /\ form.selectedId = Shown(form.selectedId, seen)
  BY DEF IInv, TypeOK, FormRow, PanelOK, AgentOK
<1>2. form.selectedId \in DOMAIN seen \/ (form.selectedId = 0 /\ seen = <<>>)
  BY <1>1, ShownIs
<1>3. Len(seen) \in Nat /\ DOMAIN seen = 1..Len(seen)
  BY <1>1
<1>4. form.selectedId # 0 => form.selectedId \in DOMAIN seen /\ seen # <<>>
  BY <1>2, <1>3
<1>5. DOMAIN seen \subseteq DOMAIN reports
  <2>1. Len(seen) <= Len(reports) /\ Len(reports) \in Nat /\ DOMAIN reports = 1..Len(reports)
    BY <1>1 DEF IInv, ArriveOK
  <2>2. QED
    BY <1>3, <2>1
<1>6. QED
  BY <1>1, <1>2, <1>4, <1>5 DEF IInv, RowsOK

\* Rows and pushes stay.
LEMMA RowsStay ==
  ASSUME RowsOK, ArriveOK, UNCHANGED <<reports, seen, pushes>>
  PROVE  RowsOK' /\ ArriveOK'
BY DEF RowsOK, ArriveOK, Unseen

\* What the panel does to its form.
LEMMA PanelStep ==
  ASSUME IInv, tab = "Weekly", UNCHANGED <<session, serverVars, seen, tab, mount, asked, mixed>>,
         form' \in FormRow, form'.selectedId = Shown(form'.selectedId, seen),
         form'.draft \subseteq {form'.selectedId}, form'.turns = form.turns,
         form'.editing = form.editing, form'.fields = form.fields, form'.kept <=> form.kept,
         calls' \subseteq CallRow, CallsOK'
  PROVE  IInv'
<1>1. TypeOK'
  BY DEF IInv, TypeOK, serverVars
<1>2. RowsOK' /\ ArriveOK'
  BY RowsStay DEF IInv, serverVars
<1>3. PanelOK' /\ EditorOK'
  BY DEF IInv, PanelOK, EditorOK, serverVars
<1>4. AgentOK'
  BY ChosenIs, NoTurns
<1>5. QED
  BY <1>1, <1>2, <1>3, <1>4 DEF IInv

\* The calls stay while the panel is on screen.
LEMMA PanelCalls ==
  ASSUME IInv, tab = "Weekly", UNCHANGED <<tab, mount, reports, stored>>, calls' \subseteq calls
  PROVE  CallsOK' /\ calls' \subseteq CallRow
<1>1. StoredGrows /\ stored' \in Seq(Nat)
  BY DEF StoredGrows, IInv, TypeOK
<1>2. QED
  BY <1>1, CallsRemain, NoQuestion DEF IInv, TypeOK

\* A report is clicked.
LEMMA SelectKeeps ==
  ASSUME IInv, NEW id \in ReportIds, SelectReport(id)
  PROVE  IInv'
<1>1. /\ tab = "Weekly" /\ id \in DOMAIN seen /\ form' = Choose(form, id, seen)
      /\ UNCHANGED <<session, tab, mount, serverVars, seen, calls, asked, mixed>>
  BY DEF SelectReport, OnWeekly, Stay
<1>2. /\ form \in FormRow /\ form.draft \subseteq {form.selectedId} /\ seen \in Seq(Row)
      /\ form.selectedId # 0 => seen # <<>>
      /\ \A k \in DOMAIN seen : seen[k].text \subseteq {k}
  BY <1>1, ChosenIs
<1>3. id \in Nat
  BY ScreensAssumption DEF ReportIds
<1>4. /\ form' \in FormRow /\ form'.selectedId = Shown(id, seen)
      /\ form'.draft \subseteq {form'.selectedId} /\ form'.turns = form.turns
      /\ form'.editing = form.editing /\ form'.fields = form.fields /\ form'.kept = form.kept
  BY <1>1, <1>2, <1>3, ChooseIs
<1>5. form'.selectedId = Shown(form'.selectedId, seen)
  BY <1>2, <1>3, <1>4, ShownIs
<1>6. CallsOK' /\ calls' \subseteq CallRow
  BY <1>1, PanelCalls DEF serverVars
<1>7. QED
  BY <1>1, <1>4, <1>5, <1>6, PanelStep

\* Words are typed.
LEMMA TypeKeeps ==
  ASSUME IInv, TypeDraft
  PROVE  IInv'
<1>1. /\ tab = "Weekly" /\ form' = [form EXCEPT !.draft = form.draft \cup {form.selectedId}]
      /\ UNCHANGED <<session, tab, mount, serverVars, seen, calls, asked, mixed>>
  BY DEF TypeDraft, OnWeekly, Stay, Current
<1>2. /\ form \in FormRow /\ form.draft \subseteq {form.selectedId} /\ form.selectedId \in Nat
  BY <1>1, ChosenIs
<1>3. /\ form' \in FormRow /\ form'.selectedId = form.selectedId
      /\ form'.draft = form.draft \cup {form.selectedId} /\ form'.turns = form.turns
      /\ form'.editing = form.editing /\ form'.fields = form.fields /\ form'.kept = form.kept
  BY <1>1, <1>2 DEF FormRow
<1>4. form'.selectedId = Shown(form'.selectedId, seen)
  BY <1>1, <1>3 DEF IInv, PanelOK
<1>5. CallsOK' /\ calls' \subseteq CallRow
  BY <1>1, PanelCalls DEF serverVars
<1>6. QED
  BY <1>1, <1>2, <1>3, <1>4, <1>5, PanelStep

\* A button is clicked: a save takes the draft of the report on screen.
LEMMA ButtonsKeep ==
  ASSUME IInv, StartReview \/ SaveDraft \/ SubmitReport \/ Decide
  PROVE  IInv'
<1>1. PICK op \in WeeklyOps, on \in Nat, text \in SUBSET Nat :
        /\ tab = "Weekly" /\ Run(op, on, text)
        /\ op = "save" => on = form.selectedId /\ on # 0 /\ text = form.draft
  <2>1. CASE StartReview
    BY <2>1 DEF StartReview, OnWeekly, WeeklyOps
  <2>2. CASE SaveDraft
    BY <2>2 DEF SaveDraft, OnWeekly, WeeklyOps, Current, IInv, TypeOK, FormRow
  <2>3. CASE SubmitReport
    BY <2>3 DEF SubmitReport, OnWeekly, WeeklyOps, Current, IInv, TypeOK, FormRow
  <2>4. CASE Decide
    BY <2>4 DEF Decide, OnWeekly, WeeklyOps, Current, IInv, TypeOK, FormRow
  <2>5. QED
    BY <2>1, <2>2, <2>3, <2>4
<1>2. PICK d : d = [mount |-> mount, op |-> op, on |-> on, text |-> text,
                    at |-> "sent", turns |-> <<>>]
  OBVIOUS
<1>3. /\ form' = [form EXCEPT !.busy = TRUE] /\ calls' = calls \cup {d}
      /\ UNCHANGED <<session, tab, mount, serverVars, seen, asked, mixed>>
  BY <1>1, <1>2 DEF Run, Stay
<1>4. /\ form \in FormRow /\ form.draft \subseteq {form.selectedId}
      /\ form.selectedId # 0 => form.selectedId \in DOMAIN reports
  BY <1>1, ChosenIs
<1>5. /\ form' \in FormRow /\ form'.selectedId = form.selectedId /\ form'.draft = form.draft
      /\ form'.turns = form.turns
      /\ form'.editing = form.editing /\ form'.fields = form.fields /\ form'.kept = form.kept
  BY <1>3, <1>4 DEF FormRow
<1>6. d \in CallRow /\ d.mount = mount /\ d.op = op /\ d.on = on /\ d.text = text
  <2>1. <<>> \in Seq(Nat) /\ mount \in Nat
    BY DEF IInv, TypeOK
  <2>2. QED
    BY <1>1, <1>2, <2>1 DEF CallRow
<1>7. CallOK(d)'
  <2>1. d.op \in WeeklyOps /\ d.op # "ask" /\ d.op # "history"
    BY <1>1, <1>6 DEF WeeklyOps
  <2>2. d.op = "save" => d.on \in DOMAIN reports /\ d.text \subseteq {d.on}
    BY <1>1, <1>4, <1>6
  <2>3. d.mount <= mount
    BY <1>6 DEF IInv, TypeOK
  <2>4. QED
    BY <1>1, <1>3, <1>6, <2>1, <2>2, <2>3 DEF CallOK, Mine, serverVars
<1>8. CallsOK' /\ calls' \subseteq CallRow
  <2>1. \A c \in calls : ~(c.op = "ask" /\ Mine(c))
    BY <1>1, NoQuestion DEF IInv
  <2>2. QED
    BY <1>3, <1>6, <1>7, <2>1, CallsAdd DEF IInv, Mine, serverVars
<1>9. form'.selectedId = Shown(form'.selectedId, seen)
  BY <1>1, <1>5 DEF IInv, PanelOK
<1>10. QED
  BY <1>1, <1>3, <1>4, <1>5, <1>8, <1>9, PanelStep

-----------------------------------------------------------------------------
(* The Worker, the other people and the network.                           *)

\* What happens elsewhere leaves the forms alone.
LEMMA ElsewhereStep ==
  ASSUME IInv, UNCHANGED <<session, tab, mount, form, seen, titles, mixed>>, asked' \in Nat,
         reports' \in Seq(Row), pushes' \in Seq(Push), RowsOK', ArriveOK',
         stored' \in Seq(Nat), CallsOK', calls' \subseteq CallRow, AgentOK'
  PROVE  IInv'
<1>1. TypeOK'
  BY DEF IInv, TypeOK
<1>2. PanelOK' /\ EditorOK'
  BY DEF IInv, PanelOK, EditorOK
<1>3. QED
  BY <1>1, <1>2 DEF IInv

\* A row is written or none: reports, pushes and the conversation after it.
Written ==
  \/ UNCHANGED serverVars
  \/ \E id \in 1..(Len(reports) + 1), row \in Row : row.text \subseteq {id} /\ Put(id, row)
LEMMA WrittenKeeps ==
  ASSUME IInv, Written, UNCHANGED seen
  PROVE  /\ reports' \in Seq(Row) /\ pushes' \in Seq(Push) /\ RowsOK' /\ ArriveOK'
         /\ DOMAIN reports \subseteq DOMAIN reports' /\ UNCHANGED <<titles, stored>>
         /\ StoredGrows /\ stored' \in Seq(Nat)
<1>1. /\ reports' \in Seq(Row) /\ pushes' \in Seq(Push) /\ RowsOK' /\ ArriveOK'
      /\ DOMAIN reports \subseteq DOMAIN reports' /\ UNCHANGED <<titles, stored>>
  <2>1. CASE UNCHANGED serverVars
    BY <2>1, RowsStay DEF IInv, TypeOK, serverVars
  <2>2. ASSUME NEW id \in 1..(Len(reports) + 1), NEW row \in Row,
               row.text \subseteq {id}, Put(id, row)
        PROVE  /\ reports' \in Seq(Row) /\ pushes' \in Seq(Push) /\ RowsOK' /\ ArriveOK'
               /\ DOMAIN reports \subseteq DOMAIN reports' /\ UNCHANGED <<titles, stored>>
    BY <2>2, PutKeeps DEF IInv
  <2>3. QED
    BY <2>1, <2>2 DEF Written
<1>2. StoredGrows /\ stored' \in Seq(Nat)
  BY <1>1 DEF StoredGrows, IInv, TypeOK
<1>3. QED
  BY <1>1, <1>2

\* A new row, an agent's draft, a new status, a saved draft.
LEMMA RowsWritten ==
  ASSUME IInv
  PROVE  /\ NewRow \in Row /\ NewRow.text = {} /\ Len(reports) \in Nat
         /\ \A id \in DOMAIN reports :
              /\ id \in 1..(Len(reports) + 1) /\ reports[id] \in Row
              /\ reports[id].text \subseteq {id}
              /\ \A text \in SUBSET {id} :
                   LET row == [reports[id] EXCEPT !.text = text] IN
                   row \in Row /\ row.text \subseteq {id}
              /\ \A to \in Drafting \cup Reviewing \cup {"APPROVED"} :
                   LET row == [reports[id] EXCEPT !.status = to] IN
                   row \in Row /\ row.text \subseteq {id}
<1>1. reports \in Seq(Row) /\ Len(reports) \in Nat /\ DOMAIN reports = 1..Len(reports)
  BY DEF IInv, TypeOK
<1>2. NewRow \in Row /\ NewRow.text = {}
  BY DEF NewRow, Row, Drafting
<1>3. ASSUME NEW id \in DOMAIN reports
      PROVE  /\ id \in 1..(Len(reports) + 1) /\ id \in Nat /\ reports[id] \in Row
             /\ reports[id].text \subseteq {id}
  BY <1>1 DEF IInv, RowsOK
<1>4. ASSUME NEW id \in DOMAIN reports, NEW text \in SUBSET {id}
      PROVE  LET row == [reports[id] EXCEPT !.text = text] IN
             row \in Row /\ row.text \subseteq {id}
  BY <1>3 DEF Row
<1>5. ASSUME NEW id \in DOMAIN reports,
             NEW to \in Drafting \cup Reviewing \cup {"APPROVED"}
      PROVE  LET row == [reports[id] EXCEPT !.status = to] IN
             row \in Row /\ row.text \subseteq {id}
  BY <1>3 DEF Row
<1>6. QED
  BY <1>1, <1>2, <1>3, <1>4, <1>5

\* handleWeekly
LEMMA HandleWeeklyKeeps ==
  ASSUME IInv, NEW c \in calls, HandleWeekly(c)
  PROVE  IInv'
<1>1. /\ UNCHANGED <<session, tab, mount, seen, form, asked, mixed>>
      /\ c \in CallRow /\ CallOK(c) /\ c.op \in WeeklyOps
  BY DEF HandleWeekly, Stay, IInv, TypeOK, CallsOK, WeeklyOps
<1>2. PICK at \in {"ok", "failed"}, on \in Nat :
        Written /\ Answer(c, at, on) /\ (c.op = "save" => on = c.on)
  <2>1. ASSUME NEW id \in ReportIds, Started(id) PROVE Written /\ id \in Nat
    <3>1. id \in Nat
      BY ScreensAssumption DEF ReportIds
    <3>2. CASE UNCHANGED serverVars
      BY <3>1, <3>2 DEF Written
    <3>3. CASE id = Len(reports) + 1 /\ Put(id, NewRow)
      <4>1. Len(reports) \in Nat /\ NewRow \in Row /\ NewRow.text \subseteq {id}
        BY RowsWritten
      <4>2. id \in 1..(Len(reports) + 1)
        BY <3>3, <4>1
      <4>3. QED
        BY <3>1, <3>3, <4>1, <4>2 DEF Written
    <3>4. QED
      BY <2>1, <3>2, <3>3 DEF Started
  <2>2. CASE c.op = "start"
    BY <1>1, <2>1, <2>2 DEF HandleWeekly, Written
  <2>3. CASE c.op = "save"
    <3>1. c.on \in DOMAIN reports /\ c.on \in Nat /\ c.text \subseteq {c.on}
      BY <1>1, <2>3 DEF CallOK, CallRow
    <3>2. CASE /\ Put(c.on, [reports[c.on] EXCEPT !.text = c.text])
               /\ Answer(c, "ok", c.on)
      BY <3>1, <3>2, RowsWritten DEF Written
    <3>3. CASE Answer(c, "failed", c.on) /\ UNCHANGED serverVars
      BY <3>1, <3>3 DEF Written
    <3>4. QED
      BY <2>3, <3>2, <3>3 DEF HandleWeekly
  <2>4. CASE c.op \in {"submit", "decide"}
    BY <1>1, <2>4 DEF HandleWeekly, Written, CallRow
  <2>5. QED
    BY <1>1, <2>2, <2>3, <2>4 DEF WeeklyOps
<1>3. PICK d : d = [c EXCEPT !.at = at, !.on = on]
  OBVIOUS
<1>4. /\ d \in CallRow /\ d.mount = c.mount /\ d.op = c.op /\ d.text = c.text /\ d.on = on
      /\ calls' = (calls \ {c}) \cup {d}
  BY <1>1, <1>2, <1>3 DEF CallRow, Answer
<1>5. /\ reports' \in Seq(Row) /\ pushes' \in Seq(Push) /\ RowsOK' /\ ArriveOK'
      /\ DOMAIN reports \subseteq DOMAIN reports' /\ UNCHANGED <<titles, stored>>
      /\ StoredGrows /\ stored' \in Seq(Nat)
  BY <1>1, <1>2, WrittenKeeps
<1>6. c.op # "ask" /\ c.op # "history"
  BY <1>1 DEF WeeklyOps
<1>7. CallsOK' /\ calls' \subseteq CallRow
  BY <1>1, <1>2, <1>4, <1>5, <1>6, CallsReplace DEF IInv
<1>8. AgentOK'
  <2>1. \A q \in Nat : Coming(q)' => Coming(q)
    BY <1>1, <1>4, <1>6 DEF Coming, Mine
  <2>2. QED
    BY <1>1, <1>5, <2>1, TurnsRemain DEF IInv
<1>9. QED
  BY <1>1, <1>5, <1>7, <1>8, ElsewhereStep DEF IInv, TypeOK

\* Other people, the agent and the workflow.
LEMMA OthersKeep ==
  ASSUME IInv, Others
  PROVE  IInv'
<1>1. UNCHANGED <<session, tab, mount, seen, form, calls, asked, mixed>>
  BY DEF Others, Stay
<1>2. Written
  <2>1. CASE OthersStart
    <3>1. Len(reports) \in Nat /\ NewRow \in Row /\ NewRow.text \subseteq {Len(reports) + 1}
      BY RowsWritten
    <3>2. QED
      BY <2>1, <3>1 DEF OthersStart, Written
  <2>2. ASSUME NEW id \in DOMAIN reports, AgentDrafts(id) PROVE Written
    <3>1. PICK row : row = [reports[id] EXCEPT !.text = {id}]
      OBVIOUS
    <3>2. Put(id, row)
      BY <2>2, <3>1 DEF AgentDrafts
    <3>3. row \in Row /\ row.text \subseteq {id} /\ id \in 1..(Len(reports) + 1)
      BY <3>1, RowsWritten
    <3>4. QED
      BY <3>2, <3>3 DEF Written
  <2>3. ASSUME NEW id \in DOMAIN reports, FlowMoves(id) PROVE Written
    <3>1. PICK to, row :
            /\ to \in Drafting \cup Reviewing \cup {"APPROVED"}
            /\ row = [reports[id] EXCEPT !.status = to] /\ Put(id, row)
      <4>1. reports[id].status \in Drafting \cup Reviewing \cup {"APPROVED"}
        BY RowsWritten DEF Row
      <4>2. QED
        BY <2>3, <4>1 DEF FlowMoves, Drafting, Reviewing
    <3>2. row \in Row /\ row.text \subseteq {id} /\ id \in 1..(Len(reports) + 1)
      BY <3>1, RowsWritten
    <3>3. QED
      BY <3>1, <3>2 DEF Written
  <2>4. QED
    BY <2>1, <2>2, <2>3 DEF Others
<1>3. /\ reports' \in Seq(Row) /\ pushes' \in Seq(Push) /\ RowsOK' /\ ArriveOK'
      /\ DOMAIN reports \subseteq DOMAIN reports' /\ UNCHANGED <<titles, stored>>
      /\ StoredGrows /\ stored' \in Seq(Nat)
  BY <1>1, <1>2, WrittenKeeps
<1>4. CallsOK' /\ calls' \subseteq CallRow
  <2>1. \A c \in calls : c.op = "ask" /\ Mine(c) => WaitsFor(c.on)'
    BY <1>1, StillWaits DEF IInv, CallsOK, CallOK
  <2>2. QED
    BY <1>1, <1>3, <2>1, CallsRemain DEF IInv, TypeOK
<1>5. AgentOK'
  <2>1. \A q \in Nat : Coming(q)' => Coming(q)
    BY <1>1 DEF Coming, Mine
  <2>2. QED
    BY <1>1, <1>3, <2>1, TurnsRemain DEF IInv
<1>6. QED
  BY <1>1, <1>3, <1>4, <1>5, ElsewhereStep DEF IInv, TypeOK

\* A call that fails on the way changes nothing else.
LEMMA LoseKeeps ==
  ASSUME IInv, NEW c \in calls, LoseCall(c)
  PROVE  IInv'
<1>1. /\ UNCHANGED <<session, tab, mount, serverVars, seen, form, asked, mixed>>
      /\ c \in CallRow /\ c.op # "history" /\ Answer(c, "failed", c.on)
  BY DEF LoseCall, Stay, IInv, TypeOK
<1>2. PICK d : d = [c EXCEPT !.at = "failed", !.on = c.on]
  OBVIOUS
<1>3. /\ d \in CallRow /\ d.mount = c.mount /\ d.op = c.op /\ d.text = c.text /\ d.on = c.on
      /\ d.at = "failed" /\ calls' = (calls \ {c}) \cup {d}
  BY <1>1, <1>2 DEF CallRow, Answer
<1>4. /\ reports' \in Seq(Row) /\ pushes' \in Seq(Push) /\ RowsOK' /\ ArriveOK'
      /\ DOMAIN reports \subseteq DOMAIN reports' /\ UNCHANGED <<titles, stored>>
      /\ StoredGrows /\ stored' \in Seq(Nat)
  BY <1>1, WrittenKeeps DEF Written
<1>5. CallsOK' /\ calls' \subseteq CallRow
  BY <1>1, <1>3, <1>4, CallsReplace DEF IInv
<1>6. AgentOK'
  <2>1. \A q \in Nat : Coming(q)' => Coming(q)
    BY <1>1, <1>3 DEF Coming, Mine
  <2>2. QED
    BY <1>1, <1>4, <2>1, TurnsRemain DEF IInv
<1>7. QED
  BY <1>1, <1>4, <1>5, <1>6, ElsewhereStep DEF IInv, TypeOK

-----------------------------------------------------------------------------
(* Answers, pushes and tabs.                                               *)

\* What only takes calls away.
LEMMA FewerCalls ==
  ASSUME IInv, UNCHANGED <<session, tab, mount, form, serverVars, seen, asked, mixed>>,
         calls' \subseteq calls
  PROVE  IInv'
<1>1. /\ reports' \in Seq(Row) /\ pushes' \in Seq(Push) /\ RowsOK' /\ ArriveOK'
      /\ DOMAIN reports \subseteq DOMAIN reports' /\ UNCHANGED <<titles, stored>>
      /\ StoredGrows /\ stored' \in Seq(Nat)
  BY WrittenKeeps DEF Written
<1>2. CallsOK' /\ calls' \subseteq CallRow
  <2>1. \A c \in calls : c.op = "ask" /\ Mine(c) => WaitsFor(c.on)'
    BY StillWaits DEF IInv, CallsOK, CallOK
  <2>2. QED
    BY <1>1, <2>1, CallsRemain DEF IInv, TypeOK
<1>3. AgentOK'
  <2>1. \A q \in Nat : Coming(q)' => Coming(q)
    BY DEF Coming, Mine
  <2>2. QED
    BY <1>1, <2>1, TurnsRemain DEF IInv
<1>4. QED
  BY <1>1, <1>2, <1>3, ElsewhereStep DEF IInv, TypeOK

\* An answer to the weekly tab.
LEMMA WeeklyAnsweredKeeps ==
  ASSUME IInv, NEW c \in calls, WeeklyAnswered(c)
  PROVE  IInv'
<1>1. /\ UNCHANGED <<session, tab, mount, serverVars, seen, asked, mixed>>
      /\ calls' = calls \ {c} /\ c.op \in WeeklyOps /\ c \in CallRow /\ CallOK(c)
      /\ form' = IF c.mount = mount THEN AfterCall(c) ELSE form
  BY DEF WeeklyAnswered, Stay, WeeklyOps, IInv, TypeOK, CallsOK
<1>2. CASE c.mount # mount
  BY <1>1, <1>2, FewerCalls
<1>3. CASE c.mount = mount
  <2>1. tab = "Weekly"
    BY <1>1, <1>3 DEF CallOK, Mine
  <2>2. PICK done : done = [form EXCEPT !.busy = FALSE]
    OBVIOUS
  <2>3. /\ form \in FormRow /\ form.draft \subseteq {form.selectedId} /\ seen \in Seq(Row)
        /\ form.selectedId # 0 => seen # <<>>
        /\ form.selectedId = Shown(form.selectedId, seen)
        /\ \A k \in DOMAIN seen : seen[k].text \subseteq {k}
    BY <2>1, ChosenIs DEF IInv, PanelOK
  <2>4. /\ done \in FormRow /\ done.selectedId = form.selectedId /\ done.draft = form.draft
        /\ done.turns = form.turns
        /\ done.editing = form.editing /\ done.fields = form.fields /\ done.kept = form.kept
    BY <2>2, <2>3 DEF FormRow
  <2>5. c.on \in Nat
    BY <1>1 DEF CallRow
  <2>6. form' = done \/ form' = Choose(done, c.on, seen)
    BY <1>1, <1>3, <2>2 DEF AfterCall
  <2>7. /\ form' \in FormRow /\ form'.selectedId = Shown(form'.selectedId, seen)
        /\ form'.draft \subseteq {form'.selectedId} /\ form'.turns = form.turns
        /\ form'.editing = form.editing /\ form'.fields = form.fields
        /\ form'.kept = form.kept
    <3>1. CASE form' = done
      BY <2>3, <2>4, <3>1
    <3>2. CASE form' = Choose(done, c.on, seen)
      <4>1. /\ form' \in FormRow /\ form'.selectedId = Shown(c.on, seen)
            /\ form'.draft \subseteq {form'.selectedId} /\ form'.turns = done.turns
            /\ form'.editing = done.editing /\ form'.fields = done.fields
            /\ form'.kept = done.kept
        BY <2>3, <2>4, <2>5, <3>2, ChooseIs
      <4>2. form'.selectedId = Shown(form'.selectedId, seen)
        BY <2>3, <2>5, <4>1, ShownIs
      <4>3. QED
        BY <2>4, <4>1, <4>2
    <3>3. QED
      BY <2>6, <3>1, <3>2
  <2>8. CallsOK' /\ calls' \subseteq CallRow
    BY <1>1, <2>1, PanelCalls DEF serverVars
  <2>9. QED
    BY <1>1, <2>1, <2>7, <2>8, PanelStep
<1>4. QED
  BY <1>2, <1>3

\* A push: the report on screen and the words typed into it stay.
LEMMA ReceiveStep ==
  ASSUME IInv, Receive
  PROVE  /\ IInv'
         /\ tab = "Weekly" /\ form.selectedId # 0 =>
              form'.selectedId = form.selectedId /\ form'.draft = form.draft
<1>1. /\ UNCHANGED <<session, tab, mount, reports, titles, stored, calls, asked, mixed>>
      /\ pushes # <<>> /\ pushes' = Tail(pushes) /\ Received
      /\ form' = IF tab = "Weekly" THEN Choose(form, form.selectedId, seen') ELSE form
  BY DEF Receive, Stay, Received, Placed, OnWeekly
<1>2. /\ seen' \in Seq(Row) /\ pushes' \in Seq(Push) /\ RowsOK' /\ ArriveOK'
      /\ DOMAIN seen \subseteq DOMAIN seen' /\ seen' # <<>>
  BY <1>1, ReceiveKeeps DEF IInv
<1>3. form \in FormRow /\ form.selectedId \in Nat
  BY DEF IInv, TypeOK, FormRow
<1>4. ASSUME tab = "Weekly"
      PROVE  /\ form' \in FormRow /\ form'.selectedId = Shown(form.selectedId, seen')
             /\ form'.draft \subseteq {form'.selectedId}
             /\ Shown(form.selectedId, seen') = form.selectedId => form'.draft = form.draft
             /\ form'.busy = form.busy /\ form'.turns = form.turns
             /\ form'.editing = form.editing /\ form'.fields = form.fields
             /\ form'.kept = form.kept
  <2>1. form.draft \subseteq {form.selectedId}
    BY <1>4, ChosenIs
  <2>2. form' = Choose(form, form.selectedId, seen')
    BY <1>1, <1>4
  <2>3. \A k \in DOMAIN seen' : seen'[k].text \subseteq {k}
    BY <1>2 DEF RowsOK
  <2>4. QED
    BY <1>2, <1>3, <2>1, <2>2, <2>3, ChooseIs
<1>5. /\ form' \in FormRow /\ form'.turns = form.turns /\ (form'.busy <=> form.busy)
      /\ form'.editing = form.editing /\ form'.fields = form.fields
      /\ (form'.kept <=> form.kept)
  BY <1>1, <1>3, <1>4
<1>6. TypeOK'
  BY <1>1, <1>2, <1>5 DEF IInv, TypeOK
<1>7. PanelOK'
  <2>1. Shown(Shown(form.selectedId, seen'), seen') = Shown(form.selectedId, seen')
    BY <1>2, <1>3, ShownIs
  <2>2. QED
    BY <1>1, <1>4, <2>1 DEF PanelOK
<1>8. EditorOK'
  BY <1>1, <1>5 DEF IInv, EditorOK
<1>9. StoredGrows /\ stored' \in Seq(Nat)
  BY <1>1 DEF StoredGrows, IInv, TypeOK
<1>10. CallsOK'
  <2>1. \A c \in calls : c.op = "ask" /\ Mine(c) => WaitsFor(c.on)'
    BY <1>5, StillWaits DEF IInv, CallsOK, CallOK
  <2>2. QED
    BY <1>1, <1>9, <2>1, CallsRemain DEF IInv, TypeOK
<1>11. AgentOK'
  <2>1. \A q \in Nat : Coming(q)' => Coming(q)
    BY <1>1 DEF Coming, Mine
  <2>2. QED
    BY <1>1, <1>5, <1>9, <2>1, TurnsRemain DEF IInv
<1>12. ASSUME tab = "Weekly", form.selectedId # 0
       PROVE  form'.selectedId = form.selectedId /\ form'.draft = form.draft
  <2>1. form.selectedId \in DOMAIN seen'
    BY <1>2, <1>12, ChosenIs
  <2>2. Shown(form.selectedId, seen') = form.selectedId
    BY <1>2, <1>3, <2>1, ShownIs
  <2>3. QED
    BY <1>4, <1>12, <2>2
<1>13. QED
  BY <1>2, <1>6, <1>7, <1>8, <1>10, <1>11, <1>12 DEF IInv

\* A form that nobody used.
LEMMA FreshIs ==
  /\ Fresh \in FormRow /\ Fresh.selectedId = 0 /\ Fresh.draft = {} /\ Fresh.turns = <<>>
  /\ Fresh.editing = None /\ ~Fresh.kept
<1>1. <<>> \in Seq(Turn)
  OBVIOUS
<1>2. QED
  BY <1>1 DEF Fresh, FormRow

\* Another tab starts from what the view has; the question of before is
\* another visit's.
LEMMA SelectTabKeeps ==
  ASSUME IInv, NEW t \in TabNames, SelectTab(t)
  PROVE  IInv'
<1>1. /\ tab' = t /\ mount' = mount + 1 /\ form' = Mounted(t)
      /\ calls' = {c \in calls : c.op # "history"} \cup CallsOnMount(t, mount + 1)
      /\ UNCHANGED <<session, serverVars, seen, asked, mixed>>
      /\ mount \in Nat /\ seen \in Seq(Row) /\ stored \in Seq(Nat)
  BY DEF SelectTab, IInv, TypeOK
<1>2. /\ form' \in FormRow /\ form'.turns = <<>>
      /\ form'.editing = None /\ ~form'.kept
      /\ t = "Weekly" => /\ form'.selectedId = Shown(form'.selectedId, seen)
                         /\ form'.draft \subseteq {form'.selectedId}
  <2>1. CASE t # "Weekly"
    BY <1>1, <2>1, FreshIs DEF Mounted
  <2>2. CASE t = "Weekly"
    <3>1. form' = Choose(Fresh, 0, seen)
      BY <1>1, <2>2 DEF Mounted
    <3>2. \A k \in DOMAIN seen : seen[k].text \subseteq {k}
      BY DEF IInv, RowsOK
    <3>3. /\ form' \in FormRow /\ form'.selectedId = Shown(0, seen)
          /\ form'.draft \subseteq {form'.selectedId} /\ form'.turns = Fresh.turns
          /\ form'.editing = Fresh.editing /\ form'.kept = Fresh.kept
      BY <1>1, <3>1, <3>2, FreshIs, ChooseIs
    <3>4. form'.selectedId = Shown(form'.selectedId, seen)
      BY <1>1, <3>3, ShownIs
    <3>5. QED
      BY <3>3, <3>4, FreshIs
  <2>3. QED
    BY <2>1, <2>2
<1>3. PICK h : h = HistoryCall(mount + 1)
  OBVIOUS
<1>4. /\ h \in CallRow /\ h.mount = mount + 1 /\ h.op = "history" /\ h.turns = <<>>
  <2>1. <<>> \in Seq(Nat)
    OBVIOUS
  <2>2. QED
    BY <1>1, <1>3, <2>1 DEF HistoryCall, CallRow
<1>5. \A c \in calls' :
        \/ c \in calls /\ c.op # "history"
        \/ c = h /\ t = "Agent"
  BY <1>1, <1>3 DEF CallsOnMount
<1>6. calls' \subseteq CallRow
  BY <1>4, <1>5 DEF IInv, TypeOK
<1>7. CallsOK'
  <2>1. ASSUME NEW c \in calls, c.op # "history" PROVE CallOK(c)' /\ ~Mine(c)'
    <3>1. c.mount \in Nat /\ c.mount <= mount /\ CallOK(c)
      BY DEF IInv, TypeOK, CallRow, CallsOK, CallOK
    <3>2. ~Mine(c)' /\ c.mount <= mount'
      BY <1>1, <3>1 DEF Mine
    <3>3. QED
      BY <1>1, <2>1, <3>1, <3>2 DEF CallOK, serverVars
  <2>2. t = "Agent" => CallOK(h)'
    <3>1. Within(h.turns, 0)' /\ 0 \in 0..Len(stored')
      BY <1>1, <1>4 DEF Within, serverVars
    <3>2. QED
      BY <1>1, <1>4, <3>1 DEF CallOK, Mine, WeeklyOps
  <2>3. h.op # "ask"
    BY <1>4
  <2>4. QED
    BY <1>5, <2>1, <2>2, <2>3 DEF CallsOK
<1>8. TypeOK'
  BY <1>1, <1>2, <1>6 DEF IInv, TypeOK, serverVars
<1>9. RowsOK' /\ ArriveOK'
  BY <1>1, RowsStay DEF IInv, serverVars
<1>10. PanelOK' /\ EditorOK'
  BY <1>1, <1>2 DEF IInv, PanelOK, EditorOK, serverVars
<1>11. AgentOK'
  BY <1>2, NoTurns
<1>12. QED
  BY <1>7, <1>8, <1>9, <1>10, <1>11 DEF IInv

-----------------------------------------------------------------------------
(* The board.                                                              *)

\* What the editor does to its form.
LEMMA BoardStep ==
  ASSUME IInv, tab = "Board", UNCHANGED <<session, reports, stored, pushes, seen, tab, mount, calls, asked>>,
         form' \in FormRow, form'.turns = <<>>,
         titles' \in [Tasks -> SUBSET Tasks], mixed' \subseteq Tasks, EditorOK'
  PROVE  IInv'
<1>1. TypeOK'
  BY DEF IInv, TypeOK
<1>2. RowsOK' /\ ArriveOK' /\ PanelOK'
  BY RowsStay DEF IInv, PanelOK
<1>3. StoredGrows /\ stored' \in Seq(Nat)
  BY DEF StoredGrows, IInv, TypeOK
<1>4. CallsOK'
  <2>1. \A c \in calls : ~(c.op = "ask" /\ Mine(c))
    BY NoQuestion DEF IInv
  <2>2. QED
    BY <1>3, <2>1, CallsRemain DEF IInv
<1>5. QED
  BY <1>1, <1>2, <1>4, NoTurns DEF IInv

\* Another task's title is opened, or the fields stay with another task.
LEMMA EditKeeps ==
  ASSUME IInv, NEW t \in Tasks, EditTask(t)
  PROVE  IInv'
<1>1. PICK kept \in BOOLEAN : kept = (form.kept \/ form.editing # None)
  OBVIOUS
<1>2. PICK fields : fields = IF form.editing = None THEN titles[t] ELSE form.fields
  OBVIOUS
<1>3. /\ tab = "Board" /\ UNCHANGED <<session, serverVars, seen, tab, mount, calls, asked, mixed>>
      /\ form' = [form EXCEPT !.editing = t, !.kept = kept, !.fields = fields]
  BY <1>1, <1>2 DEF EditTask, OnBoard, Stay
<1>4. /\ form \in FormRow /\ form.turns = <<>> /\ titles \in [Tasks -> SUBSET Tasks]
      /\ mixed \subseteq Tasks
  BY <1>3 DEF IInv, TypeOK, AgentOK
<1>5. fields \in SUBSET Tasks
  BY <1>2, <1>4 DEF FormRow
<1>6. /\ form' \in FormRow /\ form'.turns = <<>> /\ form'.editing = t
      /\ form'.fields = fields /\ (form'.kept = kept)
  BY <1>3, <1>4, <1>5 DEF FormRow
<1>7. EditorOK'
  <2>1. \A s \in Tasks \ mixed' : titles'[s] \subseteq {s}
    BY <1>3 DEF IInv, EditorOK, serverVars
  <2>2. ~kept /\ t \notin mixed => fields \subseteq {t}
    BY <1>1, <1>2 DEF IInv, EditorOK
  <2>3. QED
    BY <1>3, <1>6, <2>1, <2>2 DEF EditorOK
<1>8. QED
  BY <1>3, <1>4, <1>6, <1>7, BoardStep DEF serverVars

\* The fields are saved, for the task that is open.
LEMMA SaveKeeps ==
  ASSUME IInv, SaveTask
  PROVE  IInv'
<1>1. PICK e : e = form.editing
  OBVIOUS
<1>2. /\ tab = "Board" /\ e # None /\ titles' = [titles EXCEPT ![e] = form.fields]
      /\ mixed' = IF form.kept THEN mixed \cup {e} ELSE mixed
      /\ form' = Fresh /\ UNCHANGED <<session, tab, mount, reports, stored, pushes, seen, calls, asked>>
  BY <1>1 DEF SaveTask, OnBoard, Stay
<1>3. /\ e \in Tasks /\ form.fields \in SUBSET Tasks /\ titles \in [Tasks -> SUBSET Tasks]
      /\ mixed \subseteq Tasks
  BY <1>1, <1>2 DEF IInv, TypeOK, FormRow
<1>4. titles' \in [Tasks -> SUBSET Tasks] /\ mixed' \subseteq Tasks
  BY <1>2, <1>3
<1>5. EditorOK'
  <2>1. ASSUME NEW s \in Tasks \ mixed' PROVE titles'[s] \subseteq {s}
    <3>1. CASE s = e
      <4>1. ~form.kept /\ e \notin mixed
        BY <1>2, <3>1
      <4>2. form.fields \subseteq {e}
        BY <1>1, <1>2, <4>1 DEF IInv, EditorOK
      <4>3. QED
        BY <1>2, <1>3, <3>1, <4>2
    <3>2. CASE s # e
      <4>1. s \in Tasks \ mixed /\ titles'[s] = titles[s]
        BY <1>2, <1>3, <3>2
      <4>2. QED
        BY <4>1 DEF IInv, EditorOK
    <3>3. QED
      BY <3>1, <3>2
  <2>2. QED
    BY <1>2, <2>1, FreshIs DEF EditorOK
<1>6. QED
  BY <1>2, <1>4, <1>5, FreshIs, BoardStep

\* The editor is closed.
LEMMA CloseKeeps ==
  ASSUME IInv, CloseEditor
  PROVE  IInv'
<1>1. /\ tab = "Board" /\ form' = Fresh
      /\ UNCHANGED <<session, serverVars, seen, tab, mount, calls, asked, mixed>>
  BY DEF CloseEditor, OnBoard, Stay
<1>2. EditorOK'
  BY <1>1, FreshIs DEF IInv, EditorOK, serverVars
<1>3. QED
  BY <1>1, <1>2, FreshIs, BoardStep DEF IInv, TypeOK, serverVars

-----------------------------------------------------------------------------
(* The first state.                                                        *)

\* Nothing is there, and a mounted agent tab has asked for the history.
LEMMA InvInit == Init => IInv
<1>1. SUFFICES ASSUME Init PROVE IInv
  OBVIOUS
<1>2. /\ reports = <<>> /\ seen = <<>> /\ pushes = <<>> /\ stored = <<>> /\ form = Fresh
      /\ titles = [t \in Tasks |-> {t}] /\ mixed = {} /\ mount = 1 /\ asked = 0
      /\ session \in Sessions /\ tab \in TabNames /\ calls = CallsOnMount(tab, 1)
  BY <1>1, ScreensAssumption DEF Init
<1>3. /\ <<>> \in Seq(Row) /\ <<>> \in Seq(Push) /\ <<>> \in Seq(Nat)
      /\ DOMAIN <<>> = {} /\ Len(<<>>) = 0
  OBVIOUS
<1>4. PICK h : h = HistoryCall(1)
  OBVIOUS
<1>5. h \in CallRow /\ h.mount = 1 /\ h.op = "history" /\ h.turns = <<>> /\ h.at = "sent"
  BY <1>3, <1>4 DEF HistoryCall, CallRow
<1>6. \A c \in calls : c = h /\ tab = "Agent"
  BY <1>2, <1>4 DEF CallsOnMount
<1>7. TypeOK
  BY <1>2, <1>3, <1>5, <1>6, FreshIs DEF TypeOK
<1>8. RowsOK /\ ArriveOK /\ PanelOK /\ EditorOK
  <2>1. RowsOK
    BY <1>2, <1>3 DEF RowsOK
  <2>2. ArriveOK
    BY <1>2, <1>3 DEF ArriveOK, Unseen
  <2>3. PanelOK
    BY <1>2, <1>3, FreshIs DEF PanelOK, Shown
  <2>4. EditorOK
    BY <1>2, FreshIs DEF EditorOK
  <2>5. QED
    BY <2>1, <2>2, <2>3, <2>4
<1>9. CallsOK
  <2>1. Within(<<>>, 0) /\ 0 \in 0..Len(stored)
    BY <1>2, <1>3 DEF Within
  <2>2. tab = "Agent" => CallOK(h)
    BY <1>2, <1>5, <2>1 DEF CallOK, Mine, WeeklyOps
  <2>3. QED
    BY <1>5, <1>6, <2>2 DEF CallsOK
<1>10. AgentOK
  <2>1. Answers(<<>>) = {} /\ form.turns = <<>>
    BY <1>2, FreshIs DEF Answers
  <2>2. PICK at : at = [i \in {} |-> 0]
    OBVIOUS
  <2>3. at \in [{} -> DOMAIN stored]
    BY <2>2
  <2>4. Places(<<>>, at)
    BY <2>1, <2>3 DEF Places
  <2>5. QED
    BY <1>3, <2>1, <2>3, <2>4 DEF AgentOK
<1>11. QED
  BY <1>7, <1>8, <1>9, <1>10 DEF IInv

-----------------------------------------------------------------------------
(* The agent.                                                              *)

\* What the conversation does to its form.
LEMMA AgentStep ==
  ASSUME IInv, tab = "Agent", UNCHANGED <<session, serverVars, seen, tab, mount, mixed>>,
         asked' \in Nat, form' \in FormRow, form'.editing = form.editing,
         form'.fields = form.fields, form'.kept <=> form.kept,
         calls' \subseteq CallRow, CallsOK', AgentOK'
  PROVE  IInv'
<1>1. TypeOK'
  BY DEF IInv, TypeOK, serverVars
<1>2. RowsOK' /\ ArriveOK' /\ PanelOK'
  BY RowsStay DEF IInv, PanelOK, serverVars
<1>3. EditorOK'
  BY DEF IInv, EditorOK, serverVars
<1>4. QED
  BY <1>1, <1>2, <1>3 DEF IInv

\* A question is asked: it is the last turn, and no other is open.
LEMMA SubmitKeeps ==
  ASSUME IInv, Submit
  PROVE  IInv'
<1>1. PICK q \in Nat, turns \in Seq(Turn) : turns = form.turns /\ q = asked + 1
  BY DEF IInv, TypeOK, FormRow
<1>2. PICK d : d = [mount |-> mount, op |-> "ask", on |-> q, text |-> {},
                    at |-> "sent", turns |-> <<>>]
  OBVIOUS
<1>3. PICK new : new = Append(turns, Pending(q))
  OBVIOUS
<1>4. /\ tab = "Agent" /\ ~form.busy /\ asked' \in Nat
      /\ form' = [form EXCEPT !.busy = TRUE, !.turns = new]
      /\ calls' = calls \cup {d} /\ UNCHANGED <<session, tab, mount, serverVars, seen, mixed>>
  BY <1>1, <1>2, <1>3 DEF Submit, Stay
<1>5. /\ form \in FormRow /\ turns \in Seq(Turn) /\ Len(turns) \in Nat /\ Pending(q) \in Turn
      /\ Pending(q).prompt = q /\ ~Pending(q).answered
  BY <1>1 DEF IInv, TypeOK, FormRow, Pending, Turn
<1>6. /\ new \in Seq(Turn) /\ Len(new) = Len(turns) + 1 /\ DOMAIN new = 1..(Len(turns) + 1)
      /\ new[Len(turns) + 1] = Pending(q) /\ DOMAIN turns = 1..Len(turns)
      /\ \A i \in DOMAIN turns : new[i] = turns[i]
  BY <1>3, <1>5
<1>7. /\ form' \in FormRow /\ form'.turns = new /\ form'.busy /\ form'.editing = form.editing
      /\ form'.fields = form.fields /\ form'.kept = form.kept
  BY <1>4, <1>5, <1>6 DEF FormRow
<1>8. \A i \in DOMAIN turns : turns[i].answered
  BY <1>1, <1>4 DEF IInv, AgentOK, Answers
<1>9. Answers(turns) = DOMAIN turns /\ Answers(new) = DOMAIN turns
  BY <1>5, <1>6, <1>8 DEF Answers
<1>10. \A c \in calls : ~(c.op = "ask" /\ Mine(c))
  BY <1>4 DEF IInv, CallsOK, CallOK, WaitsFor
<1>11. d \in CallRow /\ d.mount = mount /\ d.op = "ask" /\ d.on = q /\ d.at = "sent"
  <2>1. <<>> \in Seq(Nat) /\ mount \in Nat
    BY DEF IInv, TypeOK
  <2>2. QED
    BY <1>1, <1>2, <2>1 DEF CallRow
<1>12. CallOK(d)'
  <2>1. WaitsFor(q)'
    BY <1>5, <1>6, <1>7, <1>8 DEF WaitsFor
  <2>2. d.mount <= mount
    BY <1>11 DEF IInv, TypeOK
  <2>3. QED
    BY <1>4, <1>11, <2>1, <2>2 DEF CallOK, Mine, WeeklyOps
<1>13. CallsOK' /\ calls' \subseteq CallRow
  BY <1>4, <1>10, <1>11, <1>12, CallsAdd DEF IInv, Mine, serverVars
<1>14. AgentOK'
  <2>1. PICK at \in [Answers(turns) -> DOMAIN stored] : Places(turns, at)
    BY <1>1 DEF IInv, AgentOK
  <2>2. Places(new, at)'
    BY <1>4, <1>6, <1>9, <2>1 DEF Places, serverVars
  <2>3. \A p : ~Coming(p)'
    BY <1>4, <1>10, <1>11 DEF Coming, Mine
  <2>4. \A i \in DOMAIN new \ Answers(new) : i = Len(new)
    BY <1>6, <1>9
  <2>5. QED
    BY <1>4, <1>7, <1>9, <2>1, <2>2, <2>3, <2>4 DEF AgentOK, Places, serverVars
<1>15. QED
  BY <1>4, <1>7, <1>13, <1>14, AgentStep

\* An answer is stored after all the others.
LEMMA StoreIs ==
  ASSUME TypeOK, NEW q \in Nat, stored' = Append(stored, q)
  PROVE  stored' \in Seq(Nat) /\ StoredGrows /\ JustStored(q)
<1>1. stored \in Seq(Nat) /\ Len(stored) \in Nat /\ DOMAIN stored = 1..Len(stored)
  BY DEF TypeOK
<1>2. /\ stored' \in Seq(Nat) /\ DOMAIN stored' = 1..(Len(stored) + 1)
      /\ Len(stored') = Len(stored) + 1 /\ stored'[Len(stored) + 1] = q
      /\ \A k \in DOMAIN stored : stored'[k] = stored[k]
  BY <1>1
<1>3. QED
  BY <1>1, <1>2 DEF StoredGrows, JustStored

\* The other tab of the browser.
LEMMA AskElsewhereKeeps ==
  ASSUME IInv, AskElsewhere
  PROVE  IInv'
<1>1. /\ UNCHANGED <<session, tab, mount, reports, titles, pushes, seen, form, calls, mixed>>
      /\ asked + 1 \in Nat /\ asked' = asked + 1 /\ stored' = Append(stored, asked + 1)
  BY DEF AskElsewhere, Stay, IInv, TypeOK
<1>2. stored' \in Seq(Nat) /\ StoredGrows
  BY <1>1, StoreIs DEF IInv
<1>3. RowsOK' /\ ArriveOK'
  BY <1>1, RowsStay DEF IInv
<1>4. CallsOK' /\ calls' \subseteq CallRow
  <2>1. \A c \in calls : c.op = "ask" /\ Mine(c) => WaitsFor(c.on)'
    BY <1>1, StillWaits DEF IInv, CallsOK, CallOK
  <2>2. QED
    BY <1>1, <1>2, <2>1, CallsRemain DEF IInv, TypeOK
<1>5. AgentOK'
  <2>1. \A q \in Nat : Coming(q)' => Coming(q)
    BY <1>1 DEF Coming, Mine
  <2>2. QED
    BY <1>1, <1>2, <2>1, TurnsRemain DEF IInv
<1>6. QED
  BY <1>1, <1>2, <1>3, <1>4, <1>5, ElsewhereStep DEF IInv, TypeOK

\* handleAgent stores the answer before it is on its way.
LEMMA HandleAskKeeps ==
  ASSUME IInv, NEW c \in calls, HandleAsk(c)
  PROVE  IInv'
<1>1. /\ UNCHANGED <<session, tab, mount, reports, titles, pushes, seen, form, asked, mixed>>
      /\ c \in CallRow /\ c.op = "ask" /\ c.on \in Nat
  BY DEF HandleAsk, Stay, IInv, TypeOK, CallRow
<1>2. PICK at \in {"ok", "failed"} :
        /\ stored' = IF at = "ok" THEN Append(stored, c.on) ELSE stored
        /\ Answer(c, at, c.on)
  BY DEF HandleAsk
<1>3. PICK d : d = [c EXCEPT !.at = at, !.on = c.on]
  OBVIOUS
<1>4. /\ d \in CallRow /\ d.mount = c.mount /\ d.op = c.op /\ d.text = c.text /\ d.on = c.on
      /\ d.at = at /\ calls' = (calls \ {c}) \cup {d}
  BY <1>1, <1>2, <1>3 DEF CallRow, Answer
<1>5. stored' \in Seq(Nat) /\ StoredGrows /\ (at = "ok" => JustStored(c.on))
  <2>1. CASE at = "ok"
    BY <1>1, <1>2, <2>1, StoreIs DEF IInv
  <2>2. CASE at = "failed"
    BY <1>2, <2>2 DEF StoredGrows, IInv, TypeOK
  <2>3. QED
    BY <2>1, <2>2
<1>6. CallsOK' /\ calls' \subseteq CallRow
  BY <1>1, <1>4, <1>5, CallsReplace DEF IInv
<1>7. AgentOK'
  <2>1. \A q \in Nat : Coming(q)' => Coming(q) \/ JustStored(q)
    BY <1>1, <1>4, <1>5 DEF Coming, Mine
  <2>2. QED
    BY <1>1, <1>5, <2>1, TurnsStored DEF IInv
<1>8. RowsOK' /\ ArriveOK'
  BY <1>1, RowsStay DEF IInv
<1>9. QED
  BY <1>1, <1>5, <1>6, <1>7, <1>8, ElsewhereStep DEF IInv, TypeOK

\* The last turns are part of the conversation.
LEMMA HistoryIs ==
  ASSUME TypeOK
  PROVE  History \in Seq(Nat) /\ \E off \in 0..Len(stored) : Within(History, off)
<1>1. /\ stored \in Seq(Nat) /\ Len(stored) \in Nat /\ DOMAIN stored = 1..Len(stored)
      /\ HistoryLimit \in Nat
  BY ScreensAssumption DEF TypeOK
<1>2. CASE Len(stored) <= HistoryLimit
  <2>1. History = stored /\ 0 \in 0..Len(stored)
    BY <1>1, <1>2 DEF History
  <2>2. Within(stored, 0)
    BY <1>1 DEF Within
  <2>3. QED
    BY <1>1, <2>1, <2>2
<1>3. CASE ~(Len(stored) <= HistoryLimit)
  <2>1. PICK off : off = Len(stored) - HistoryLimit
    OBVIOUS
  <2>2. off \in 0..Len(stored)
    BY <1>1, <1>3, <2>1
  <2>3. History = SubSeq(stored, off + 1, Len(stored))
    BY <1>1, <1>3, <2>1 DEF History, LastTurns
  <2>4. /\ History \in Seq(Nat) /\ DOMAIN History = 1..(Len(stored) - off)
        /\ \A i \in 1..(Len(stored) - off) : History[i] = stored[off + i]
    BY <1>1, <2>2, <2>3
  <2>5. Within(History, off)
    <3>1. ASSUME NEW i \in 1..(Len(stored) - off)
          PROVE  off + i \in DOMAIN stored /\ stored[off + i] = History[i]
      BY <1>1, <2>2, <2>4
    <3>2. QED
      BY <2>4, <3>1 DEF Within
  <2>6. QED
    BY <2>2, <2>4, <2>5
<1>4. QED
  BY <1>2, <1>3

\* handleAgent's history.
LEMMA HandleHistoryKeeps ==
  ASSUME IInv, NEW c \in calls, HandleHistory(c)
  PROVE  IInv'
<1>1. /\ UNCHANGED <<session, tab, mount, serverVars, seen, form, asked, mixed>>
      /\ c \in CallRow /\ c.op = "history"
  BY DEF HandleHistory, Stay, IInv, TypeOK
<1>2. PICK turns \in {History, <<>>} :
        calls' = (calls \ {c}) \cup {[c EXCEPT !.at = "ok", !.turns = turns]}
  BY DEF HandleHistory
<1>3. turns \in Seq(Nat) /\ \E off \in 0..Len(stored) : Within(turns, off)
  <2>1. CASE turns = History
    BY <2>1, HistoryIs DEF IInv
  <2>2. CASE turns = <<>>
    <3>1. Within(<<>>, 0) /\ 0 \in 0..Len(stored) /\ <<>> \in Seq(Nat)
      BY DEF Within, IInv, TypeOK
    <3>2. QED
      BY <2>2, <3>1
  <2>3. QED
    BY <1>2, <2>1, <2>2
<1>4. PICK d : d = [c EXCEPT !.at = "ok", !.turns = turns]
  OBVIOUS
<1>5. /\ d \in CallRow /\ d.mount = c.mount /\ d.op = c.op /\ d.text = c.text /\ d.on = c.on
      /\ d.turns = turns /\ calls' = (calls \ {c}) \cup {d}
  BY <1>1, <1>2, <1>3, <1>4 DEF CallRow
<1>6. /\ reports' \in Seq(Row) /\ pushes' \in Seq(Push) /\ RowsOK' /\ ArriveOK'
      /\ DOMAIN reports \subseteq DOMAIN reports' /\ UNCHANGED <<titles, stored>>
      /\ StoredGrows /\ stored' \in Seq(Nat)
  BY <1>1, WrittenKeeps DEF Written
<1>7. \E off \in 0..Len(stored') : Within(d.turns, off)'
  BY <1>3, <1>5, <1>6 DEF Within
<1>8. CallsOK' /\ calls' \subseteq CallRow
  BY <1>1, <1>5, <1>6, <1>7, CallsReplace DEF IInv
<1>9. AgentOK'
  <2>1. \A q \in Nat : Coming(q)' => Coming(q)
    BY <1>1, <1>5 DEF Coming, Mine
  <2>2. QED
    BY <1>1, <1>6, <2>1, TurnsRemain DEF IInv
<1>10. QED
  BY <1>1, <1>6, <1>8, <1>9, ElsewhereStep DEF IInv, TypeOK

\* The history replaces the turns.
LEMMA HistoryAnsweredKeeps ==
  ASSUME IInv, NEW c \in calls, HistoryAnswered(c)
  PROVE  IInv'
<1>1. PICK turns : turns = [i \in DOMAIN c.turns |-> Answered(c.turns[i])]
  OBVIOUS
<1>2. /\ UNCHANGED <<session, tab, mount, serverVars, seen, asked, mixed>>
      /\ calls' = calls \ {c} /\ form' = [form EXCEPT !.turns = turns]
      /\ c \in CallRow /\ CallOK(c) /\ c.op = "history"
  BY <1>1 DEF HistoryAnswered, Stay, SetTurns, IInv, TypeOK, CallsOK
<1>3. tab = "Agent" /\ form \in FormRow /\ c.turns \in Seq(Nat) /\ stored \in Seq(Nat)
  BY <1>2 DEF CallOK, WeeklyOps, IInv, TypeOK, CallRow
<1>4. PICK off \in 0..Len(stored) : Within(c.turns, off)
  BY <1>2 DEF CallOK
<1>5. /\ DOMAIN c.turns = 1..Len(c.turns) /\ Len(c.turns) \in Nat
      /\ \A i \in DOMAIN c.turns : c.turns[i] \in Nat
  BY <1>3
<1>6. \A p \in Nat : Answered(p) \in Turn /\ Answered(p).prompt = p /\ Answered(p).answered
  BY DEF Answered, Turn
<1>7. /\ turns \in Seq(Turn) /\ DOMAIN turns = DOMAIN c.turns
      /\ \A i \in DOMAIN turns : turns[i].answered /\ turns[i].prompt = c.turns[i]
  <2>1. DOMAIN turns = 1..Len(c.turns) /\ \A i \in DOMAIN turns : turns[i] = Answered(c.turns[i])
    BY <1>1, <1>5
  <2>2. turns \in [1..Len(c.turns) -> Turn]
    BY <1>1, <1>5, <1>6
  <2>3. QED
    BY <1>5, <1>6, <2>1, <2>2
<1>8. /\ form' \in FormRow /\ form'.turns = turns /\ (form'.busy <=> form.busy)
      /\ form'.editing = form.editing /\ form'.fields = form.fields
      /\ (form'.kept <=> form.kept)
  BY <1>2, <1>3, <1>7 DEF FormRow
<1>9. CallsOK' /\ calls' \subseteq CallRow
  <2>1. StoredGrows /\ stored' \in Seq(Nat) /\ UNCHANGED reports
    BY <1>2, <1>3 DEF StoredGrows, serverVars
  <2>2. \A d \in calls : d.op = "ask" /\ Mine(d) => WaitsFor(d.on)'
    BY <1>7, <1>8 DEF IInv, CallsOK, CallOK, WaitsFor
  <2>3. QED
    BY <1>2, <2>1, <2>2, CallsRemain DEF IInv, TypeOK
<1>10. AgentOK'
  <2>1. PICK at : at = [i \in DOMAIN turns |-> off + i]
    OBVIOUS
  <2>2. at \in [DOMAIN turns -> DOMAIN stored] /\ \A i \in DOMAIN turns : stored[at[i]] = turns[i].prompt
    BY <1>4, <1>7, <2>1 DEF Within
  <2>3. \A i \in DOMAIN turns, j \in DOMAIN turns : i < j => at[i] < at[j]
    BY <1>3, <1>5, <1>7, <2>1
  <2>4. /\ tab' = "Agent" /\ form'.turns = turns
        /\ at \in [DOMAIN form'.turns -> DOMAIN stored']
        /\ \A i \in DOMAIN form'.turns : stored'[at[i]] = form'.turns[i].prompt
    BY <1>2, <1>3, <1>8, <2>2 DEF serverVars
  <2>5. QED
    BY <1>7, <2>3, <2>4, TurnsSettled
<1>11. QED
  BY <1>2, <1>3, <1>8, <1>9, <1>10, AgentStep DEF IInv, TypeOK

\* The turn that waited is found and taken away.
LEMMA WithoutIs ==
  ASSUME NEW turns \in Seq(Turn), NEW turn \in Turn,
         \A i \in DOMAIN turns : turns[i] = turn => i = Len(turns)
  PROVE  LET new == Without(turns, turn) IN
         /\ new \in Seq(Turn) /\ DOMAIN new \subseteq DOMAIN turns
         /\ \A i \in DOMAIN new : new[i] = turns[i] /\ new[i] # turn
         /\ \A i \in DOMAIN turns : turns[i] # turn => i \in DOMAIN new
<1>1. PICK n \in Nat : n = Len(turns) /\ DOMAIN turns = 1..n
  OBVIOUS
<1>2. CASE \A i \in DOMAIN turns : turns[i] # turn
  BY <1>2 DEF Without
<1>3. CASE \E i \in DOMAIN turns : turns[i] = turn
  <2>1. PICK at : at = CHOOSE i \in DOMAIN turns : turns[i] = turn
    OBVIOUS
  <2>2. at \in DOMAIN turns /\ turns[at] = turn
    BY <1>3, <2>1
  <2>3. at = n /\ n \in 1..n
    BY <1>1, <2>2
  <2>4. PICK new : new = SubSeq(turns, 1, n - 1) \o SubSeq(turns, n + 1, n)
    OBVIOUS
  <2>5. Without(turns, turn) = new
    BY <1>1, <1>3, <2>1, <2>3, <2>4 DEF Without
  <2>6. /\ SubSeq(turns, 1, n - 1) \in Seq(Turn) /\ Len(SubSeq(turns, 1, n - 1)) = n - 1
        /\ \A i \in 1..(n - 1) : SubSeq(turns, 1, n - 1)[i] = turns[i]
        /\ SubSeq(turns, n + 1, n) = <<>>
    BY <1>1, <2>3
  <2>7. new \in Seq(Turn) /\ DOMAIN new = 1..(n - 1) /\ \A i \in 1..(n - 1) : new[i] = turns[i]
    BY <1>1, <2>3, <2>4, <2>6
  <2>8. QED
    BY <1>1, <2>2, <2>3, <2>5, <2>7
<1>4. QED
  BY <1>2, <1>3

\* An open turn is the pending one.
LEMMA OpenIs ==
  ASSUME NEW turn \in Turn, ~turn.answered
  PROVE  turn = Pending(turn.prompt)
BY DEF Turn, Pending

\* The answer: the open turn, which is the last, is answered or gone.
LEMMA AskAnsweredKeeps ==
  ASSUME IInv, NEW c \in calls, AskAnswered(c)
  PROVE  IInv'
<1>1. /\ UNCHANGED <<session, tab, mount, serverVars, seen, asked, mixed>>
      /\ calls' = calls \ {c} /\ c.op = "ask" /\ c \in CallRow /\ CallOK(c)
      /\ c.at \in {"ok", "failed"}
  BY DEF AskAnswered, Stay, IInv, TypeOK, CallsOK, CallRow
<1>2. CASE c.mount # mount
  BY <1>1, <1>2, FewerCalls DEF AskAnswered
<1>3. CASE c.mount = mount
  <2>1. PICK turns, q : turns = form.turns /\ q = c.on
    OBVIOUS
  <2>2. PICK new : new = IF c.at = "ok"
                         THEN [i \in DOMAIN turns |->
                                IF turns[i] = Pending(q) THEN Answered(q) ELSE turns[i]]
                         ELSE Without(turns, Pending(q))
    OBVIOUS
  <2>3. form' = [form EXCEPT !.busy = FALSE, !.turns = new]
    BY <1>3, <2>1, <2>2 DEF AskAnswered
  <2>4. /\ tab = "Agent" /\ form \in FormRow /\ turns \in Seq(Turn) /\ q \in Nat
        /\ stored \in Seq(Nat)
    BY <1>1, <1>3, <2>1 DEF CallOK, Mine, WeeklyOps, IInv, TypeOK, FormRow, CallRow
  <2>5. PICK n \in Nat : n = Len(turns) /\ DOMAIN turns = 1..n
    BY <2>4
  <2>6. \A i \in 1..n : turns[i] \in Turn
    BY <2>4, <2>5
  <2>7. \A i \in 1..n : ~turns[i].answered => i = n /\ turns[i] = Pending(q) /\ turns[i].prompt = q
    <3>1. \A i \in 1..n : ~turns[i].answered => turns[i].prompt = q
      BY <1>1, <1>3, <2>1, <2>5 DEF CallOK, Mine, WaitsFor
    <3>2. \A i \in 1..n : ~turns[i].answered => i = n
      BY <2>1, <2>5 DEF IInv, AgentOK, Answers
    <3>3. QED
      BY <2>6, <3>1, <3>2, OpenIs
  <2>8. /\ Pending(q) \in Turn /\ ~Pending(q).answered
        /\ Answered(q) \in Turn /\ Answered(q).answered /\ Answered(q).prompt = q
    BY <2>4 DEF Pending, Answered, Turn
  <2>9. PICK at \in [Answers(turns) -> DOMAIN stored] :
          /\ Places(turns, at)
          /\ \A i \in DOMAIN turns \ Answers(turns) :
               Coming(turns[i].prompt) => StoredAfter(turns[i].prompt, turns, at)
    BY <2>1 DEF IInv, AgentOK
  <2>10. /\ new \in Seq(Turn) /\ \A i \in DOMAIN new : new[i].answered
         /\ \E to \in [DOMAIN new -> DOMAIN stored] :
              /\ \A i \in DOMAIN new : stored[to[i]] = new[i].prompt
              /\ \A i \in DOMAIN new, j \in DOMAIN new : i < j => to[i] < to[j]
    <3>1. CASE c.at = "failed"
      <4>1. new = Without(turns, Pending(q))
        BY <2>2, <3>1
      <4>2. \A i \in DOMAIN turns : turns[i] = Pending(q) => i = Len(turns)
        BY <2>5, <2>7, <2>8
      <4>3. /\ new \in Seq(Turn) /\ DOMAIN new \subseteq DOMAIN turns
            /\ \A i \in DOMAIN new : new[i] = turns[i] /\ new[i] # Pending(q)
        BY <2>4, <2>8, <4>1, <4>2, WithoutIs
      <4>4. \A i \in DOMAIN new : i \in Answers(turns) /\ new[i] = turns[i] /\ new[i].answered
        BY <2>5, <2>7, <4>3 DEF Answers
      <4>5. PICK to : to = [i \in DOMAIN new |-> at[i]]
        OBVIOUS
      <4>6. to \in [DOMAIN new -> DOMAIN stored]
        BY <2>9, <4>4, <4>5
      <4>7. \A i \in DOMAIN new : stored[to[i]] = new[i].prompt
        BY <2>9, <4>4, <4>5 DEF Places
      <4>8. \A i \in DOMAIN new, j \in DOMAIN new : i < j => to[i] < to[j]
        BY <2>9, <4>4, <4>5 DEF Places
      <4>9. QED
        BY <4>3, <4>4, <4>6, <4>7, <4>8
    <3>2. CASE c.at = "ok"
      <4>1. new = [i \in 1..n |-> IF turns[i] = Pending(q) THEN Answered(q) ELSE turns[i]]
        BY <2>2, <2>5, <3>2
      <4>2. /\ DOMAIN new = 1..n
            /\ \A i \in 1..n : new[i] = IF turns[i] = Pending(q) THEN Answered(q) ELSE turns[i]
        BY <4>1
      <4>3. \A i \in 1..n : new[i] \in Turn
        BY <2>6, <2>8, <4>2
      <4>4. new \in Seq(Turn)
        BY <4>1, <4>3
      <4>5. \A i \in 1..n : /\ new[i].answered
                            /\ i \in Answers(turns) => new[i] = turns[i]
                            /\ i \notin Answers(turns) => i = n /\ new[i].prompt = q
        BY <2>5, <2>7, <2>8, <4>2 DEF Answers
      <4>6. CASE \A i \in 1..n : i \in Answers(turns)
        <5>1. Answers(turns) = 1..n
          BY <2>5, <4>6 DEF Answers
        <5>2. QED
          BY <2>9, <4>2, <4>4, <4>5, <5>1 DEF Places
      <4>7. CASE \E i \in 1..n : i \notin Answers(turns)
        <5>1. n \in 1..n /\ n \notin Answers(turns)
          BY <4>5, <4>7
        <5>2. Coming(turns[n].prompt) /\ turns[n].prompt = q
          BY <1>1, <1>3, <2>1, <2>5, <2>7, <3>2, <5>1 DEF Coming, Mine, Answers
        <5>3. PICK k \in DOMAIN stored : stored[k] = q /\ \A j \in Answers(turns) : at[j] < k
          BY <2>5, <2>9, <5>1, <5>2 DEF StoredAfter
        <5>4. PICK to : to = [i \in 1..n |-> IF i \in Answers(turns) THEN at[i] ELSE k]
          OBVIOUS
        <5>5. /\ \A i \in Answers(turns) : at[i] \in DOMAIN stored
              /\ \A i \in 1..n : to[i] = IF i \in Answers(turns) THEN at[i] ELSE k
          BY <2>9, <5>4
        <5>6. to \in [1..n -> DOMAIN stored]
          BY <5>3, <5>4, <5>5
        <5>7. \A i \in 1..n : stored[to[i]] = new[i].prompt
          BY <2>9, <4>5, <5>3, <5>5 DEF Places
        <5>8. ASSUME NEW i \in 1..n, NEW j \in 1..n, i < j PROVE to[i] < to[j]
          <6>1. i \in Answers(turns)
            BY <2>5, <4>5, <5>8
          <6>2. CASE j \in Answers(turns)
            BY <2>9, <5>5, <5>8, <6>1, <6>2 DEF Places
          <6>3. CASE j \notin Answers(turns)
            BY <5>3, <5>5, <6>1, <6>3
          <6>4. QED
            BY <6>2, <6>3
        <5>9. QED
          BY <4>2, <4>4, <4>5, <5>6, <5>7, <5>8
      <4>8. QED
        BY <4>6, <4>7
    <3>3. QED
      BY <1>1, <3>1, <3>2
  <2>11. /\ form' \in FormRow /\ form'.turns = new /\ form'.editing = form.editing
         /\ form'.fields = form.fields /\ form'.kept = form.kept
    BY <2>3, <2>4, <2>10 DEF FormRow
  <2>12. CallsOK' /\ calls' \subseteq CallRow
    <3>1. StoredGrows /\ stored' \in Seq(Nat) /\ UNCHANGED reports
      BY <1>1, <2>4 DEF StoredGrows, serverVars
    <3>2. \A d \in calls' : ~(d.op = "ask" /\ Mine(d))
      BY <1>1, <1>3 DEF IInv, CallsOK, Mine
    <3>3. QED
      BY <1>1, <3>1, <3>2, CallsRemain DEF IInv, TypeOK
  <2>13. AgentOK'
    <3>1. PICK to \in [DOMAIN new -> DOMAIN stored] :
            /\ \A i \in DOMAIN new : stored[to[i]] = new[i].prompt
            /\ \A i \in DOMAIN new, j \in DOMAIN new : i < j => to[i] < to[j]
      BY <2>10
    <3>2. /\ tab' = "Agent" /\ to \in [DOMAIN form'.turns -> DOMAIN stored']
          /\ \A i \in DOMAIN form'.turns : stored'[to[i]] = form'.turns[i].prompt
          /\ \A i \in DOMAIN form'.turns, j \in DOMAIN form'.turns : i < j => to[i] < to[j]
          /\ \A i \in DOMAIN form'.turns : form'.turns[i].answered
      BY <1>1, <2>4, <2>10, <2>11, <3>1 DEF serverVars
    <3>3. QED
      BY <3>2, TurnsSettled
  <2>14. QED
    BY <1>1, <2>4, <2>11, <2>12, <2>13, AgentStep DEF IInv, TypeOK
<1>4. QED
  BY <1>2, <1>3

-----------------------------------------------------------------------------
(* The theorems.                                                           *)

\* Every step keeps the invariant.
LEMMA InvStep == IInv /\ [Next]_vars => IInv'
<1>1. SUFFICES ASSUME IInv, [Next]_vars PROVE IInv'
  OBVIOUS
<1>2. ASSUME NEW t \in TabNames, SelectTab(t) PROVE IInv'
  BY <1>1, <1>2, SelectTabKeeps
<1>3. ASSUME NEW id \in ReportIds, SelectReport(id) PROVE IInv'
  BY <1>1, <1>3, SelectKeeps
<1>4. CASE TypeDraft
  BY <1>1, <1>4, TypeKeeps
<1>5. CASE StartReview \/ SaveDraft \/ SubmitReport \/ Decide
  BY <1>1, <1>5, ButtonsKeep
<1>6. CASE Receive
  BY <1>1, <1>6, ReceiveStep
<1>7. CASE Others
  BY <1>1, <1>7, OthersKeep
<1>8. CASE Submit
  BY <1>1, <1>8, SubmitKeeps
<1>9. CASE AskElsewhere
  BY <1>1, <1>9, AskElsewhereKeeps
<1>10. ASSUME NEW c \in calls, Handle(c) PROVE IInv'
  BY <1>1, <1>10, HandleWeeklyKeeps, HandleAskKeeps, HandleHistoryKeeps DEF Handle
<1>11. ASSUME NEW c \in calls, Handled(c) PROVE IInv'
  BY <1>1, <1>11, WeeklyAnsweredKeeps, AskAnsweredKeeps, HistoryAnsweredKeeps DEF Handled
<1>12. ASSUME NEW c \in calls, LoseCall(c) PROVE IInv'
  BY <1>1, <1>12, LoseKeeps
<1>13. ASSUME NEW t \in Tasks, EditTask(t) PROVE IInv'
  BY <1>1, <1>13, EditKeeps
<1>14. CASE SaveTask
  BY <1>1, <1>14, SaveKeeps
<1>15. CASE CloseEditor
  BY <1>1, <1>15, CloseKeeps
<1>16. CASE UNCHANGED vars
  BY <1>1, <1>16, FewerCalls DEF vars, serverVars
<1>17. QED
  BY <1>1, <1>2, <1>3, <1>4, <1>5, <1>6, <1>7, <1>8, <1>9, <1>10, <1>11, <1>12, <1>13,
     <1>14, <1>15, <1>16 DEF Next

\* The invariant of the forms: types, rows, what is on its way, the calls and
\* the conversation.
THEOREM Invariance == Spec => []IInv
BY InvInit, InvStep, PTL DEF Spec

\* Every report and every task holds only what was written for it, in any
\* order of pushes, clicks, typing and answers (the key of ReportPanel).
THEOREM DraftsApart == Spec => []DraftsStayApart
<1>1. IInv => DraftsStayApart
  BY DEF IInv, RowsOK, EditorOK, DraftsStayApart
<1>2. QED
  BY <1>1, Invariance, PTL

\* A push leaves the report on screen and the words typed into it alone; no
\* other step changes what the view has.
THEOREM PushesHold == Spec => PanelHolds
<1> DEFINE Holds == seen' # seen /\ OnWeekly /\ Shown(form.selectedId, seen) # 0 =>
                      /\ Shown(form'.selectedId, seen') = Shown(form.selectedId, seen)
                      /\ form'.draft = form.draft
<1>1. IInv /\ IInv' /\ [Next]_vars => [Holds]_vars
  <2>1. SUFFICES ASSUME IInv, IInv', Next, seen' # seen, tab = "Weekly",
                        Shown(form.selectedId, seen) # 0
                 PROVE  /\ Shown(form'.selectedId, seen') = Shown(form.selectedId, seen)
                        /\ form'.draft = form.draft
    BY DEF OnWeekly
  <2>2. Receive
    BY <2>1 DEF Next, SelectTab, SelectReport, TypeDraft, StartReview, SaveDraft,
      SubmitReport, Decide, Run, Others, Submit, AskElsewhere, Handle, HandleWeekly,
      HandleAsk, HandleHistory, Handled, WeeklyAnswered, AskAnswered, HistoryAnswered,
      LoseCall, EditTask, SaveTask, CloseEditor
  <2>3. form.selectedId = Shown(form.selectedId, seen) /\ tab' = "Weekly"
    BY <2>1, <2>2 DEF IInv, PanelOK, Receive, Stay
  <2>4. form'.selectedId = form.selectedId /\ form'.draft = form.draft
    BY <2>1, <2>2, <2>3, ReceiveStep
  <2>5. form'.selectedId = Shown(form'.selectedId, seen')
    BY <2>1, <2>3 DEF PanelOK, IInv
  <2>6. QED
    BY <2>3, <2>4, <2>5
<1>2. QED
  BY <1>1, Invariance, PTL DEF Spec, PanelHolds

\* The answers on screen are stored ones, in their order, and an open question
\* is the only one and is waited for, in any order of history, answers and tabs.
THEOREM ShownStored == Spec => []ShownIsStored
<1>1. IInv => ShownIsStored
  <2>1. SUFFICES ASSUME IInv PROVE ShownIsStored
    OBVIOUS
  <2>2. PICK turns : turns = form.turns
    OBVIOUS
  <2>3. PICK at \in [Answers(turns) -> DOMAIN stored] : Places(turns, at)
    BY <2>1, <2>2 DEF IInv, AgentOK
  <2>4. \A i \in DOMAIN turns \ Answers(turns) : i = Len(turns) /\ form.busy
    BY <2>1, <2>2 DEF IInv, AgentOK
  <2>5. \E to \in [Answers(form.turns) -> DOMAIN stored] :
          /\ \A i \in Answers(form.turns) : stored[to[i]] = form.turns[i].prompt
          /\ \A i \in Answers(form.turns), j \in Answers(form.turns) : i < j => to[i] < to[j]
    BY <2>2, <2>3 DEF Places
  <2>6. \A i \in DOMAIN form.turns \ Answers(form.turns),
           j \in DOMAIN form.turns \ Answers(form.turns) : i = j /\ form.busy
    BY <2>2, <2>4
  <2>7. QED
    BY <2>5, <2>6, Zenon DEF ShownIsStored, Answers
<1>2. QED
  BY <1>1, Invariance, PTL
==============================================================================
