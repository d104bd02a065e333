------------------------ MODULE ReviewContract_proofs ------------------------
(***************************************************************************)
(* Proof that WeeklyReview implements ReviewContract, for any reports, any *)
(* number of requests, rounds and tries: every call of a handler and every *)
(* step, repetition, wait and end of an instance is one step of the        *)
(* contract or none.                                                       *)
(***************************************************************************)
EXTENDS WeeklyReview_proofs

-----------------------------------------------------------------------------
(* Sequences of requests and of their decisions.                           *)

\* What the requests of s decide.
ToldBy(s) == [i \in 1..Len(s) |-> calls[s[i]].decision]
Answers == {calls[c].decision : c \in Calls}

\* A decision for each request.
LEMMA ToldSeq ==
  ASSUME NEW s \in Seq(Calls)
  PROVE  /\ ToldBy(s) \in Seq(Answers) /\ Len(ToldBy(s)) = Len(s)
         /\ \A i \in 1..Len(s) : ToldBy(s)[i] = calls[s[i]].decision
BY DEF ToldBy, Answers

\* One more request.
LEMMA ToldAppend ==
  ASSUME NEW s \in Seq(Calls), NEW c \in Calls
  PROVE  ToldBy(Append(s, c)) = Append(ToldBy(s), calls[c].decision)
<1>1. Append(s, c) \in Seq(Calls)
  OBVIOUS
<1>2. QED
  BY <1>1, ToldSeq DEF ToldBy

\* A request at the front.
LEMMA ToldHead ==
  ASSUME NEW s \in Seq(Calls), NEW c \in Calls
  PROVE  /\ ToldBy(<<c>> \o s) # <<>> /\ Head(ToldBy(<<c>> \o s)) = calls[c].decision
         /\ Tail(ToldBy(<<c>> \o s)) = ToldBy(s)
<1>1. ASSUME NEW t \in Seq(Calls), Len(t) = Len(s) + 1,
             \A i \in 1..Len(s) : t[i + 1] = s[i]
      PROVE  /\ ToldBy(t) # <<>> /\ Head(ToldBy(t)) = calls[t[1]].decision
             /\ Tail(ToldBy(t)) = ToldBy(s)
  <2>1. /\ ToldBy(t) \in Seq(Answers) /\ Len(ToldBy(t)) = Len(t)
        /\ \A i \in 1..Len(t) : ToldBy(t)[i] = calls[t[i]].decision
    BY ToldSeq
  <2>2. /\ ToldBy(s) \in Seq(Answers) /\ Len(ToldBy(s)) = Len(s)
        /\ \A i \in 1..Len(s) : ToldBy(s)[i] = calls[s[i]].decision
    BY ToldSeq
  <2>3. ToldBy(t) # <<>> /\ Head(ToldBy(t)) = calls[t[1]].decision
    BY <1>1, <2>1
  <2>4. /\ Tail(ToldBy(t)) \in Seq(Answers) /\ Len(Tail(ToldBy(t))) = Len(s)
        /\ \A i \in 1..Len(s) : Tail(ToldBy(t))[i] = ToldBy(t)[i + 1]
    BY <1>1, <2>1, <2>3
  <2>5. ASSUME NEW i \in 1..Len(s) PROVE Tail(ToldBy(t))[i] = ToldBy(s)[i]
    <3>1. i + 1 \in 1..Len(t) /\ t[i + 1] = s[i]
      BY <1>1
    <3>2. QED
      BY <2>1, <2>2, <2>4, <3>1
  <2>6. QED
    BY <2>2, <2>3, <2>4, <2>5
<1>2. /\ <<c>> \o s \in Seq(Calls) /\ Len(<<c>> \o s) = Len(s) + 1
      /\ (<<c>> \o s)[1] = c /\ \A i \in 1..Len(s) : (<<c>> \o s)[i + 1] = s[i]
  OBVIOUS
<1>3. QED
  BY <1>1, <1>2

-----------------------------------------------------------------------------
(* What is seen of a report.                                               *)

\* The decisions that were let through and not used yet.
Told(r) == ToldBy(Undecided(r))

\* Nothing is to be seen of the step.
Unseen(r) == /\ Board(r)' = Board(r) /\ Submissions(r)' = Submissions(r)
             /\ Told(r)' = Told(r)

\* A step of which nothing is to be seen at any report is no step.
LEMMA Stutters ==
  ASSUME \A r \in Reports : Unseen(r)
  PROVE  UNCHANGED Promised!vars
BY DEF Promised!vars, Unseen, Told, ToldBy

\* A row on the board says what the row in the table says.
LEMMA Boards ==
  ASSUME TypeOK, NEW r \in Reports
  PROVE  /\ reports[r] = None <=> Board(r) = None
         /\ reports[r] # None => Board(r) = [status |-> reports[r].status, round |-> reports[r].round]
<1>1. CASE reports[r] # None
  <2>1. reports[r] \in ReportRow
    BY <1>1 DEF TypeOK
  <2>2. [status |-> reports[r].status, round |-> reports[r].round] \in BoardRow
    BY <2>1 DEF ReportRow, BoardRow
  <2>3. QED
    BY <1>1, <2>2, NoneAssumption DEF Board
<1>2. QED
  BY <1>1 DEF Board

\* An open row is open on the board.
LEMMA Opens ==
  ASSUME TypeOK, NEW r \in Reports
  PROVE  Promised!Open(r) <=> OpenReport(r)
BY Boards DEF Promised!Open, OpenReport

\* The decisions not used yet are requests that decide about the report.
LEMMA UndecidedDecide ==
  ASSUME TypeOK, NEW r \in Reports, FlowOK(r)
  PROVE  /\ Undecided(r) \in Seq(Calls)
         /\ \A i \in 1..Len(Undecided(r)) : Decided(Undecided(r)[i], r)
<1>1. CASE ~Live(r)
  BY <1>1 DEF Undecided
<1>2. CASE Live(r)
  <2>1. flow[r] \in FlowRow /\ flow[r] # None
    BY <1>2 DEF TypeOK, Live
  <2>2. flow[r].event \in Calls \cup {None} /\ flow[r].reviews \in Seq(Calls)
    BY <2>1 DEF FlowRow
  <2>3. \A i \in 1..Len(flow[r].reviews) : Decided(flow[r].reviews[i], r)
    BY <2>1 DEF FlowOK
  <2>4. CASE Waiting(r, {"approve", "changes"})
    <3>1. flow[r].event \in Calls /\ Decided(flow[r].event, r)
      BY <2>1, <2>2, <2>4 DEF Waiting, FlowOK
    <3>2. Undecided(r) = <<flow[r].event>> \o flow[r].reviews
      BY <1>2, <2>4 DEF Undecided
    <3>3. ASSUME NEW e \in Calls, NEW s \in Seq(Calls), Decided(e, r),
                 \A i \in 1..Len(s) : Decided(s[i], r)
          PROVE  /\ <<e>> \o s \in Seq(Calls)
                 /\ \A i \in 1..Len(<<e>> \o s) : Decided((<<e>> \o s)[i], r)
      <4>1. /\ <<e>> \o s \in Seq(Calls) /\ Len(<<e>> \o s) = Len(s) + 1
            /\ (<<e>> \o s)[1] = e
            /\ \A i \in 2..(Len(s) + 1) : i - 1 \in 1..Len(s) /\ (<<e>> \o s)[i] = s[i - 1]
        OBVIOUS
      <4>2. \A i \in 1..(Len(s) + 1) : i = 1 \/ i \in 2..(Len(s) + 1)
        OBVIOUS
      <4>3. QED
        BY <3>3, <4>1, <4>2
    <3>4. QED
      BY <2>2, <2>3, <3>1, <3>2, <3>3
  <2>5. CASE ~Waiting(r, {"approve", "changes"})
    <3>1. Undecided(r) = flow[r].reviews
      BY <1>2, <2>2, <2>5 DEF Undecided
    <3>2. QED
      BY <2>2, <2>3, <3>1
  <2>6. QED
    BY <2>4, <2>5
<1>3. QED
  BY <1>1, <1>2

\* Requests keep their decisions.
LEMMA ToldKept ==
  ASSUME CallsKept, NEW r \in Reports, NEW s \in Seq(Calls),
         \A i \in 1..Len(s) : Decided(s[i], r), Undecided(r)' = s
  PROVE  Told(r)' = ToldBy(s)
<1>1. \A i \in 1..Len(s) : calls'[s[i]].decision = calls[s[i]].decision
  BY DEF CallsKept, Decided
<1>2. QED
  BY <1>1 DEF Told, ToldBy

\* A step that changes neither row, submissions nor decisions is not seen.
LEMMA Hidden ==
  ASSUME TypeOK, NEW r \in Reports, FlowOK(r), CallsKept, Board(r)' = Board(r),
         Submissions(r)' = Submissions(r), Undecided(r)' = Undecided(r)
  PROVE  Unseen(r)
<1>1. Told(r)' = Told(r)
  BY UndecidedDecide, ToldKept DEF Told
<1>2. QED
  BY <1>1 DEF Unseen

\* A step that leaves row and instance alone is not seen.
LEMMA Untouched ==
  ASSUME TypeOK, NEW r \in Reports, ReportOK(r), CallsKept, RowKept(r), flow'[r] = flow[r]
  PROVE  Unseen(r)
<1>1. Board(r)' = Board(r)
  BY DEF Board, RowKept
<1>2. Live(r)' = Live(r) /\ (Live(r) => reports[r] # None /\ Used(r)' = Used(r))
  BY DEF RowKept, Live, Used, Target, ReportOK, RowFollows
<1>3. \A step : Waiting(r, step)' = Waiting(r, step)
  BY <1>2 DEF Waiting
<1>4. Submissions(r)' = Submissions(r) /\ Undecided(r)' = Undecided(r)
  BY <1>2, <1>3 DEF Submissions, Undecided
<1>5. QED
  BY <1>1, <1>4, Hidden DEF ReportOK

-----------------------------------------------------------------------------
(* A step at one report is a step of the contract, when nothing is seen of *)
(* it at the others.                                                       *)

Elsewhere(r) == \A q \in Reports \ {r} : Unseen(q)

\* A row appears where none is open.
LEMMA Begins ==
  ASSUME NEW r \in Reports, Elsewhere(r), \A q \in Reports : ~Promised!Open(q),
         Board(r) = None, Board(r)' = [status |-> "DRAFT", round |-> 0],
         Submissions(r)' = Submissions(r), Told(r)' = Told(r)
  PROVE  Promised!Next
<1>1. Promised!Begin(r)
  BY DEF Promised!Begin, Promised!At, Elsewhere, Unseen, Told, ToldBy
<1>2. QED
  BY <1>1 DEF Promised!Next

\* A submission is let through.
LEMMA AsksToSubmit ==
  ASSUME NEW r \in Reports, Elsewhere(r), Board(r) # None,
         Board(r)' = Board(r), Submissions(r)' = Submissions(r) + 1, Told(r)' = Told(r)
  PROVE  Promised!Next
<1>1. Promised!Ask(r)
  BY DEF Promised!Ask, Elsewhere, Unseen, Told, ToldBy
<1>2. QED
  BY <1>1 DEF Promised!Next

\* A decision is let through.
LEMMA AsksToDecide ==
  ASSUME NEW r \in Reports, Elsewhere(r), Board(r) # None, NEW d \in Decisions,
         Board(r)' = Board(r), Submissions(r)' = Submissions(r), Told(r)' = Append(Told(r), d)
  PROVE  Promised!Next
<1>1. Promised!Ask(r)
  BY DEF Promised!Ask, Elsewhere, Unseen, Told, ToldBy, Decisions
<1>2. QED
  BY <1>1 DEF Promised!Next

\* A submission moves the row.
LEMMA Submits ==
  ASSUME NEW r \in Reports, Elsewhere(r), Board(r) # None, Submissions(r) > 0,
         NEW status \in {"DRAFT", "CHANGES_REQUESTED"}, NEW round \in Nat,
         Board(r) = [status |-> status, round |-> round],
         Board(r)' = [status |-> IF round = 0 THEN "SUBMITTED" ELSE "RESUBMITTED",
                      round |-> round],
         Submissions(r)' = Submissions(r) - 1, Told(r)' = Told(r)
  PROVE  Promised!Next
<1>1. /\ Board(r).status = status /\ Board(r).round = round
      /\ [Board(r) EXCEPT !.status = IF Board(r).round = 0 THEN "SUBMITTED" ELSE "RESUBMITTED"]
           = Board(r)'
  OBVIOUS
<1>2. /\ Promised!Open(r) /\ Board(r).status \in {"DRAFT", "CHANGES_REQUESTED"}
      /\ Submissions(r) > 0
  BY <1>1 DEF Promised!Open
<1>3. [q \in Reports |-> Board(q)'] =
        [[q \in Reports |-> Board(q)] EXCEPT ![r].status =
           IF Board(r).round = 0 THEN "SUBMITTED" ELSE "RESUBMITTED"]
  BY <1>1 DEF Elsewhere, Unseen
<1>4. [q \in Reports |-> Submissions(q)'] =
        [[q \in Reports |-> Submissions(q)] EXCEPT ![r] = @ - 1]
  BY DEF Elsewhere, Unseen
<1>5. [q \in Reports |-> Told(q)'] = [q \in Reports |-> Told(q)]
  BY DEF Elsewhere, Unseen
<1>6. Promised!Submit(r)
  BY <1>2, <1>3, <1>4, <1>5 DEF Promised!Submit, Told, ToldBy
<1>7. QED
  BY <1>6 DEF Promised!Next

\* The oldest decision moves the row.
LEMMA Decides ==
  ASSUME NEW r \in Reports, Elsewhere(r), Board(r) # None, Told(r) # <<>>,
         NEW status \in {"SUBMITTED", "RESUBMITTED"}, NEW round \in Nat, round + 1 <= MaxRounds,
         Board(r) = [status |-> status, round |-> round],
         Board(r)' = IF Head(Told(r)) = "APPROVE"
                       THEN [status |-> "APPROVED", round |-> round]
                       ELSE [status |-> "CHANGES_REQUESTED", round |-> round + 1],
         Submissions(r)' = Submissions(r), Told(r)' = Tail(Told(r))
  PROVE  Promised!Next
<1>1. Board(r).status = status /\ Board(r).round = round
  OBVIOUS
<1>2. Promised!Open(r) /\ Board(r).status \in {"SUBMITTED", "RESUBMITTED"}
  BY <1>1 DEF Promised!Open
<1>3. [q \in Reports |-> Board(q)'] =
        [[q \in Reports |-> Board(q)] EXCEPT ![r] =
           IF Head(Told(r)) = "APPROVE"
             THEN [status |-> "APPROVED", round |-> @.round]
             ELSE [status |-> "CHANGES_REQUESTED", round |-> @.round + 1]]
  BY <1>1 DEF Elsewhere, Unseen
<1>4. Board(r)'.round <= MaxRounds
  BY WeeklyAssumption
<1>5. [q \in Reports |-> Submissions(q)'] = [q \in Reports |-> Submissions(q)]
  BY DEF Elsewhere, Unseen
<1>6. [q \in Reports |-> Told(q)'] = [[q \in Reports |-> Told(q)] EXCEPT ![r] = Tail(@)]
  BY DEF Elsewhere, Unseen
<1>7. Promised!Decide(r)
  BY <1>2, <1>3, <1>4, <1>5, <1>6 DEF Promised!Decide, Promised!At, Told, ToldBy
<1>8. QED
  BY <1>7 DEF Promised!Next

\* Nobody submitted.
LEMMA Expires ==
  ASSUME NEW r \in Reports, Elsewhere(r), Board(r) # None,
         NEW status \in {"DRAFT", "CHANGES_REQUESTED"}, NEW round \in Nat,
         Board(r) = [status |-> status, round |-> round],
         Board(r)' = [status |-> "DRAFT", round |-> round],
         Submissions(r)' = Submissions(r), Told(r)' = Told(r)
  PROVE  Promised!Next
<1>1. Board(r).status = status /\ [Board(r) EXCEPT !.status = "DRAFT"] = Board(r)'
  OBVIOUS
<1>2. Promised!Open(r) /\ Board(r).status \in {"DRAFT", "CHANGES_REQUESTED"}
  BY <1>1 DEF Promised!Open
<1>3. [q \in Reports |-> Board(q)'] =
        [[q \in Reports |-> Board(q)] EXCEPT ![r].status = "DRAFT"]
  BY <1>1 DEF Elsewhere, Unseen
<1>4. /\ [q \in Reports |-> Submissions(q)'] = [q \in Reports |-> Submissions(q)]
      /\ [q \in Reports |-> Told(q)'] = [q \in Reports |-> Told(q)]
  BY DEF Elsewhere, Unseen
<1>5. Promised!Expire(r)
  BY <1>2, <1>3, <1>4 DEF Promised!Expire, Told, ToldBy
<1>6. QED
  BY <1>5 DEF Promised!Next

\* The review is over.
LEMMA GivesUp ==
  ASSUME NEW r \in Reports, Elsewhere(r), Board(r)' = Board(r),
         Submissions(r)' = 0, Told(r)' = <<>>
  PROVE  Promised!Next
<1>1. Promised!GiveUp(r)
  BY DEF Promised!GiveUp, Elsewhere, Unseen, Told, ToldBy
<1>2. QED
  BY <1>1 DEF Promised!Next

-----------------------------------------------------------------------------
(* Steps of an instance that are not seen.                                 *)

\* The row of a live instance, and whether its event is used up.
LEMMA Turns ==
  ASSUME TypeOK, NEW r \in Reports, ReportOK(r), Live(r), flow[r].at \in Steps \ {"draft"}
  PROVE  /\ flow[r] \in FlowRow /\ reports[r] \in ReportRow /\ reports[r] # None
         /\ flow[r].next > 1 => Used(r)
         /\ ~Used(r) => /\ flow[r].next = 1 /\ reports[r].status = Before(r)
                        /\ reports[r].round = flow[r].round
<1>1. flow[r] \in FlowRow /\ reports[r] \in ReportRow /\ reports[r] # None
  BY DEF TypeOK, Live, ReportOK, RowFollows
<1>2. flow[r].next \in 1..4 /\ flow[r].tries \in Nat
  BY <1>1, WeeklyAssumption DEF FlowRow
<1>3. flow[r].next > 1 => Used(r)
  BY DEF ReportOK, RowFollows, Used
<1>4. ~Used(r) => reports[r].status = Before(r) /\ reports[r].round = flow[r].round
  BY DEF ReportOK, RowFollows, Used
<1>5. QED
  BY <1>1, <1>2, <1>3, <1>4

\* What is seen of an instance that is not about to use an event.
LEMMA Idle ==
  ASSUME TypeOK, NEW r \in Reports, Live(r), ~Waiting(r, {"mark"}),
         ~Waiting(r, {"approve", "changes"})
  PROVE  Submissions(r) = Len(flow[r].submits) /\ Undecided(r) = flow[r].reviews
<1>1. flow[r].submits \in Seq(Calls) /\ flow[r].reviews \in Seq(Calls)
  BY DEF TypeOK, Live, FlowRow
<1>2. QED
  BY <1>1 DEF Submissions, Undecided

\* A call of a body other than the one that writes the status is not seen.
LEMMA SilentCalls ==
  ASSUME TypeOK, TypeOK', NEW r \in Reports, ReportOK(r), CallsKept,
         WriteDraft(r) \/ RecordOverride(r) \/ Remind(r)
  PROVE  Unseen(r)
<1> DEFINE f == flow[r]
<1>1. Live(r) /\ f \in FlowRow /\ f.at \in Steps /\ f.next \in 1..4 /\ flow' = [flow EXCEPT ![r].next = @ + 1]
  BY DEF WriteDraft, RecordOverride, Remind, About, Made, TypeOK, Live, FlowRow
<1>2. /\ flow'[r] # None /\ flow'[r].at = f.at /\ flow'[r].next = f.next + 1
      /\ flow'[r].tries = f.tries /\ flow'[r].round = f.round /\ flow'[r].event = f.event
      /\ flow'[r].submits = f.submits /\ flow'[r].reviews = f.reviews
  <2>1. flow'[r] = [f EXCEPT !.next = @ + 1]
    BY <1>1 DEF TypeOK
  <2>2. [f EXCEPT !.next = @ + 1] # None
    <3>1. f.next < 4
      BY Whereabouts DEF WriteDraft, RecordOverride, Remind
    <3>2. [f EXCEPT !.next = @ + 1] \in FlowRow
      BY <1>1, <3>1 DEF FlowRow
    <3>3. QED
      BY <3>2, NoneAssumption
  <2>3. QED
    BY <1>1, <2>1, <2>2 DEF FlowRow
<1>3. Live(r)' /\ reports[r] # None
  BY <1>1, <1>2 DEF Live, ReportOK, RowFollows
<1>4. /\ reports'[r] # None
      /\ reports'[r].status = reports[r].status /\ reports'[r].round = reports[r].round
  <2> DEFINE row == reports[r]
  <2>1. row \in ReportRow /\ f.event \in Calls \cup {None}
    BY <1>1, <1>3 DEF TypeOK, FlowRow
  <2>2. ASSUME NEW t \in Texts PROVE [row EXCEPT !.draft = t] \in ReportRow
    BY <2>1 DEF ReportRow
  <2>3. ASSUME NEW c \in Calls \cup {None} PROVE [row EXCEPT !.override = c] \in ReportRow
    BY <2>1 DEF ReportRow
  <2>4. CASE WriteDraft(r)
    <3>1. reports'[r] = [row EXCEPT !.draft = "agent"]
      BY <2>4 DEF WriteDraft, TypeOK
    <3>2. QED
      BY <2>1, <2>2, <3>1, NoneAssumption DEF Texts, ReportRow
  <2>5. CASE RecordOverride(r)
    <3>1. reports'[r] = [row EXCEPT !.override = f.event]
      BY <2>5 DEF RecordOverride, TypeOK
    <3>2. QED
      BY <2>1, <2>3, <3>1, NoneAssumption DEF ReportRow
  <2>6. CASE Remind(r)
    BY <1>3, <2>6 DEF Remind
  <2>7. QED
    BY <2>4, <2>5, <2>6
<1>5. Board(r)' = Board(r)
  BY <1>3, <1>4 DEF Board
<1>6. CASE f.at = "draft"
  <2>1. /\ ~Waiting(r, {"mark"}) /\ ~Waiting(r, {"approve", "changes"})
        /\ ~Waiting(r, {"mark"})' /\ ~Waiting(r, {"approve", "changes"})'
    BY <1>2, <1>6 DEF Waiting
  <2>2. Submissions(r)' = Submissions(r) /\ Undecided(r)' = Undecided(r)
    BY <1>1, <1>2, <1>3, <2>1 DEF Submissions, Undecided
  <2>3. QED
    BY <1>5, <2>2, Hidden DEF ReportOK
<1>7. CASE f.at # "draft"
  <2>1. f.next > 1
    BY <1>7, Whereabouts DEF WriteDraft, RecordOverride, Remind
  <2>2. Used(r)
    BY <1>1, <1>7, <2>1, Turns
  <2>3. Used(r)'
    BY <1>1, <1>2, <1>4, <2>1, <2>2 DEF Used, Target
  <2>4. /\ ~Waiting(r, {"mark"}) /\ ~Waiting(r, {"approve", "changes"})
        /\ ~Waiting(r, {"mark"})' /\ ~Waiting(r, {"approve", "changes"})'
    BY <2>2, <2>3 DEF Waiting
  <2>5. Submissions(r)' = Submissions(r) /\ Undecided(r)' = Undecided(r)
    BY <1>1, <1>2, <1>3, <2>4 DEF Submissions, Undecided
  <2>6. QED
    BY <1>5, <2>5, Hidden DEF ReportOK
<1>8. QED
  BY <1>6, <1>7

\* Taking an event out of the buffer is not seen: it still waits to be used.
LEMMA SilentTakes ==
  ASSUME TypeOK, TypeOK', NEW r \in Reports, ReportOK(r), CallsKept, 
         TakeSubmit(r) \/ TakeReview(r)
  PROVE  Unseen(r)
<1> DEFINE f == flow[r]
<1>1. Live(r) /\ f \in FlowRow /\ f.at \in {"submit", "review"} /\ reports' = reports
  BY DEF TakeSubmit, TakeReview, TypeOK, Live
<1>2. f.next = 1 /\ f.tries = 1 /\ f.submits \in Seq(Calls) /\ f.reviews \in Seq(Calls)
  BY <1>1 DEF ReportOK, FlowOK, Live, FlowRow
<1>3. ~Waiting(r, {"mark"}) /\ ~Waiting(r, {"approve", "changes"})
  BY <1>1 DEF Waiting
<1>4. Submissions(r) = Len(f.submits) /\ Undecided(r) = f.reviews
  BY <1>1, <1>3, Idle
<1>5. Board(r)' = Board(r)
  BY <1>1 DEF Board
<1>6. CASE TakeSubmit(r)
  <2>1. flow'[r] = [f EXCEPT !.at = "mark", !.submits = Tail(f.submits)]
    BY <1>1, <1>6 DEF TakeSubmit, TypeOK
  <2>2. /\ flow'[r].at = "mark" /\ flow'[r].submits = Tail(f.submits) /\ flow'[r].next = 1
        /\ flow'[r].tries = 1 /\ flow'[r].reviews = f.reviews
    BY <1>1, <1>2, <2>1 DEF FlowRow
  <2>3. flow'[r] # None
    <3>1. Tail(f.submits) \in Seq(Calls) /\ "mark" \in Places
      BY <1>2, <1>6 DEF TakeSubmit, Places, Steps
    <3>2. [f EXCEPT !.at = "mark", !.submits = Tail(f.submits)] \in FlowRow
      BY <1>1, <3>1 DEF FlowRow
    <3>3. QED
      BY <2>1, <3>2, NoneAssumption
  <2>4. Live(r)' /\ Waiting(r, {"mark"})' /\ ~Waiting(r, {"approve", "changes"})'
    BY <2>2, <2>3 DEF Live, Waiting, Used
  <2>5. Submissions(r)' = Submissions(r)
    <3>1. Submissions(r)' = Len(Tail(f.submits)) + 1
      BY <2>2, <2>4 DEF Submissions
    <3>2. \A s \in Seq(Calls) : s # <<>> => Len(Tail(s)) + 1 = Len(s)
      OBVIOUS
    <3>3. QED
      BY <1>2, <1>4, <1>6, <3>1, <3>2 DEF TakeSubmit
  <2>6. Undecided(r)' = Undecided(r)
    BY <1>2, <1>4, <2>2, <2>4 DEF Undecided
  <2>7. QED
    BY <1>5, <2>5, <2>6, Hidden DEF ReportOK
<1>7. CASE TakeReview(r)
  <2>1. PICK at \in {"approve", "changes"} :
          flow'[r] = [f EXCEPT !.at = at, !.event = Head(f.reviews), !.reviews = Tail(f.reviews)]
    BY <1>1, <1>7 DEF TakeReview, TypeOK
  <2>2. /\ flow'[r].at = at /\ flow'[r].event = Head(f.reviews) /\ flow'[r].reviews = Tail(f.reviews)
        /\ flow'[r].next = 1 /\ flow'[r].tries = 1 /\ flow'[r].submits = f.submits
    BY <1>1, <1>2, <2>1 DEF FlowRow
  <2>3. flow'[r] # None
    <3>1. /\ Head(f.reviews) \in Calls \cup {None} /\ Tail(f.reviews) \in Seq(Calls)
          /\ at \in Places
      BY <1>2, <1>7 DEF TakeReview, Places, Steps
    <3>2. [f EXCEPT !.at = at, !.event = Head(f.reviews), !.reviews = Tail(f.reviews)] \in FlowRow
      BY <1>1, <3>1 DEF FlowRow
    <3>3. QED
      BY <2>1, <3>2, NoneAssumption
  <2>4. Live(r)' /\ Waiting(r, {"approve", "changes"})' /\ ~Waiting(r, {"mark"})'
    BY <2>2, <2>3 DEF Live, Waiting, Used
  <2>5. Submissions(r)' = Submissions(r)
    <3>1. Submissions(r)' = Len(f.submits) + 0
      BY <2>2, <2>4 DEF Submissions
    <3>2. Len(f.submits) \in Nat
      BY <1>2
    <3>3. QED
      BY <1>4, <3>1, <3>2
  <2>6. Undecided(r)' = Undecided(r)
    <3>1. Undecided(r)' = <<Head(f.reviews)>> \o Tail(f.reviews)
      BY <2>2, <2>4 DEF Undecided
    <3>2. \A s \in Seq(Calls) : s # <<>> => <<Head(s)>> \o Tail(s) = s
      OBVIOUS
    <3>3. QED
      BY <1>2, <1>4, <1>7, <3>1, <3>2 DEF TakeReview
  <2>7. QED
    BY <1>5, <2>5, <2>6, Hidden DEF ReportOK
<1>8. QED
  BY <1>6, <1>7

\* Where an instance goes, and what it takes along.
LEMMA Going ==
  ASSUME TypeOK, NEW r \in Reports, Live(r), NEW at \in Places,
         NEW round \in 0..(MaxRounds - 1), Goto(r, at, round)
  PROVE  /\ flow'[r] # None /\ flow'[r].at = at /\ flow'[r].round = round
         /\ flow'[r].next = 1 /\ flow'[r].tries = 1 /\ flow'[r].event = flow[r].event
         /\ flow'[r].submits = flow[r].submits /\ flow'[r].reviews = flow[r].reviews
<1> DEFINE f == flow[r]
<1>1. f \in FlowRow /\ 1 \in 1..4 /\ 1 \in 1..MaxTries
  BY WeeklyAssumption DEF TypeOK, Live
<1>2. flow'[r] = [f EXCEPT !.at = at, !.round = round, !.next = 1, !.tries = 1]
  BY <1>1 DEF Goto, TypeOK, FlowRow
<1>3. [f EXCEPT !.at = at, !.round = round, !.next = 1, !.tries = 1] \in FlowRow
  BY <1>1 DEF FlowRow
<1>4. QED
  BY <1>1, <1>2, <1>3, NoneAssumption DEF FlowRow

\* A review that ends gives up what it did not use.
LEMMA Ending ==
  ASSUME TypeOK, NEW r \in Reports, Elsewhere(r), Live(r), reports' = reports,
         NEW at \in {"ended", "failed"}, Goto(r, at, flow[r].round)
  PROVE  Promised!Next
<1>1. at \in Places /\ flow[r].round \in 0..(MaxRounds - 1)
  BY DEF Places, TypeOK, Live, FlowRow
<1>2. ~Live(r)'
  BY <1>1, Going DEF Live
<1>3. Submissions(r)' = 0 /\ Undecided(r)' = <<>>
  BY <1>2 DEF Submissions, Undecided
<1>4. Told(r)' = <<>>
  BY <1>3 DEF Told, ToldBy
<1>5. Board(r)' = Board(r)
  BY DEF Board
<1>6. QED
  BY <1>3, <1>4, <1>5, GivesUp

\* A step whose result is recorded has used its event.
LEMMA Records ==
  ASSUME TypeOK, NEW r \in Reports, ReportOK(r), CallsKept, Elsewhere(r), Recorded(r)
  PROVE  Unseen(r) \/ Promised!Next
<1> DEFINE f == flow[r]
           to == AfterStep(r)
<1>1. /\ Live(r) /\ f.at \in Steps /\ f \in FlowRow /\ reports' = reports
      /\ f.submits \in Seq(Calls) /\ f.reviews \in Seq(Calls) /\ f.round \in 0..(MaxRounds - 1)
  BY DEF Recorded, TypeOK, Live, FlowRow
<1>2. Goto(r, to[1], to[2])
  BY DEF Recorded
<1>3. f.next > 1
  <2>1. Len(Body(r)) \in {1, 2, 3}
    BY <1>1 DEF Body
  <2>2. f.next = Len(Body(r)) + 1
    BY DEF Recorded
  <2>3. QED
    BY <2>1, <2>2
<1>4. ~Waiting(r, {"mark"}) /\ ~Waiting(r, {"approve", "changes"})
  BY <1>1, <1>3, Turns DEF Waiting, Steps
<1>5. \/ to[1] \in {"review", "submit"} /\ to[2] \in 0..(MaxRounds - 1)
      \/ to = <<"ended", f.round>>
  BY <1>1, WeeklyAssumption DEF AfterStep, Steps
<1>6. CASE to = <<"ended", f.round>>
  BY <1>1, <1>2, <1>6, Ending
<1>7. CASE to[1] \in {"review", "submit"} /\ to[2] \in 0..(MaxRounds - 1)
  <2>1. to[1] \in Places
    BY <1>7 DEF Places
  <2>2. /\ flow'[r] # None /\ flow'[r].at \in {"review", "submit"}
        /\ flow'[r].submits = f.submits /\ flow'[r].reviews = f.reviews
    BY <1>1, <1>2, <1>7, <2>1, Going
  <2>3. Live(r)' /\ ~Waiting(r, {"mark"})' /\ ~Waiting(r, {"approve", "changes"})'
    BY <2>2 DEF Live, Waiting
  <2>4. Submissions(r)' = Submissions(r) /\ Undecided(r)' = Undecided(r)
    BY <1>1, <1>4, <2>2, <2>3 DEF Submissions, Undecided
  <2>5. Board(r)' = Board(r)
    BY <1>1 DEF Board
  <2>6. QED
    BY <2>4, <2>5, Hidden DEF ReportOK
<1>8. QED
  BY <1>5, <1>6, <1>7

\* A wait that runs out ends the review, or is not seen.
LEMMA TimesOut ==
  ASSUME TypeOK, NEW r \in Reports, ReportOK(r), CallsKept, Elsewhere(r), Timeout(r)
  PROVE  Unseen(r) \/ Promised!Next
<1> DEFINE f == flow[r]
<1>1. /\ Live(r) /\ f \in FlowRow /\ reports' = reports /\ f.round \in 0..(MaxRounds - 1)
      /\ f.submits \in Seq(Calls) /\ f.reviews \in Seq(Calls)
  BY DEF Timeout, TypeOK, Live, FlowRow
<1>2. CASE Goto(r, "ended", f.round)
  BY <1>1, <1>2, Ending
<1>3. CASE f.at = "submit" /\ Goto(r, "expire", f.round)
  <2>1. "expire" \in Places
    BY DEF Places, Steps
  <2>2. /\ flow'[r] # None /\ flow'[r].at = "expire"
        /\ flow'[r].submits = f.submits /\ flow'[r].reviews = f.reviews
    BY <1>1, <1>3, <2>1, Going
  <2>3. /\ ~Waiting(r, {"mark"}) /\ ~Waiting(r, {"approve", "changes"})
        /\ Live(r)' /\ ~Waiting(r, {"mark"})' /\ ~Waiting(r, {"approve", "changes"})'
    BY <1>3, <2>2 DEF Live, Waiting
  <2>4. Submissions(r)' = Submissions(r) /\ Undecided(r)' = Undecided(r)
    BY <1>1, <2>2, <2>3 DEF Submissions, Undecided
  <2>5. Board(r)' = Board(r)
    BY <1>1 DEF Board
  <2>6. QED
    BY <2>4, <2>5, Hidden DEF ReportOK
<1>4. QED
  BY <1>2, <1>3 DEF Timeout

\* A body that runs again has not used its event twice.
LEMMA Retries ==
  ASSUME TypeOK, NEW r \in Reports, ReportOK(r), CallsKept, Elsewhere(r), Retry(r)
  PROVE  Unseen(r) \/ Promised!Next
<1> DEFINE f == flow[r]
<1>1. /\ Live(r) /\ f.at \in Steps /\ f \in FlowRow /\ reports' = reports
      /\ f.submits \in Seq(Calls) /\ f.reviews \in Seq(Calls) /\ f.tries \in 1..MaxTries
      /\ f.round \in 0..(MaxRounds - 1)
  BY DEF Retry, TypeOK, Live, FlowRow
<1>2. CASE Goto(r, "failed", f.round)
  BY <1>1, <1>2, Ending
<1>3. CASE f.tries < MaxTries /\ flow' = [flow EXCEPT ![r].next = 1, ![r].tries = @ + 1]
  <2>1. flow'[r] = [f EXCEPT !.next = 1, !.tries = @ + 1]
    BY <1>1, <1>3 DEF TypeOK, FlowRow
  <2>2. flow'[r] # None
    <3>1. 1 \in 1..4 /\ f.tries + 1 \in 1..MaxTries
      BY <1>1, <1>3, WeeklyAssumption
    <3>2. [f EXCEPT !.next = 1, !.tries = @ + 1] \in FlowRow
      BY <1>1, <3>1 DEF FlowRow
    <3>3. QED
      BY <2>1, <3>2, NoneAssumption
  <2>3. /\ flow'[r].at = f.at /\ flow'[r].tries > 1 /\ flow'[r].event = f.event
        /\ flow'[r].round = f.round /\ flow'[r].submits = f.submits /\ flow'[r].reviews = f.reviews
    <3>1. f.tries + 1 > 1
      BY <1>1, WeeklyAssumption
    <3>2. QED
      BY <1>1, <2>1, <3>1 DEF FlowRow
  <2>4. Live(r)'
    BY <1>1, <2>2, <2>3 DEF Live
  <2>5. Target(r)' = Target(r)
    BY <2>3 DEF Target
  <2>6. f.at \in {"mark", "approve", "changes"} => (Used(r)' <=> Used(r))
    <3>1. SUFFICES ASSUME f.at \in {"mark", "approve", "changes"} PROVE Used(r)' <=> Used(r)
      OBVIOUS
    <3>2. Used(r) => Used(r)'
      BY <1>1, <2>3, <2>5 DEF Used
    <3>3. ~Used(r) => <<reports[r].status, reports[r].round>> # Target(r)
      BY <1>1, <3>1, Turns DEF Target, Before, Submittable, Submitted, Steps
    <3>4. QED
      BY <1>1, <2>5, <3>2, <3>3 DEF Used
  <2>7. /\ Waiting(r, {"mark"})' <=> Waiting(r, {"mark"})
        /\ Waiting(r, {"approve", "changes"})' <=> Waiting(r, {"approve", "changes"})
    BY <1>1, <2>3, <2>4, <2>6 DEF Waiting
  <2>8. Submissions(r)' = Submissions(r) /\ Undecided(r)' = Undecided(r)
    BY <1>1, <2>3, <2>4, <2>7 DEF Submissions, Undecided
  <2>9. Board(r)' = Board(r)
    BY <1>1 DEF Board
  <2>10. QED
    BY <2>8, <2>9, Hidden DEF ReportOK
<1>4. QED
  BY <1>2, <1>3 DEF Retry

-----------------------------------------------------------------------------
(* The call that writes the status.                                        *)

\* A status is written once for each event that is used, and once more when
\* nobody submitted; written again, it is not seen.
LEMMA Moves ==
  ASSUME TypeOK, NEW r \in Reports, ReportOK(r), CallsKept, Elsewhere(r), SetStatus(r)
  PROVE  Unseen(r) \/ Promised!Next
<1> DEFINE f == flow[r]
           row == reports[r]
           status == Target(r)[1]
           round == Target(r)[2]
<1>1. /\ Live(r) /\ f \in FlowRow /\ f.at \in Steps \ {"draft"} /\ f.next = 1
      /\ f.submits \in Seq(Calls) /\ f.reviews \in Seq(Calls) /\ f.round \in 0..(MaxRounds - 1)
      /\ row \in ReportRow /\ row # None
  BY Whereabouts, Turns DEF SetStatus, About, FlowRow
<1>2. /\ flow'[r] # None /\ flow'[r].at = f.at /\ flow'[r].next = 2 /\ flow'[r].event = f.event
      /\ flow'[r].round = f.round /\ flow'[r].submits = f.submits /\ flow'[r].reviews = f.reviews
  <2>1. flow'[r] = [f EXCEPT !.next = 2]
    BY <1>1 DEF SetStatus, Made, TypeOK
  <2>2. [f EXCEPT !.next = 2] \in FlowRow
    BY <1>1 DEF FlowRow
  <2>3. QED
    BY <1>1, <2>1, <2>2, NoneAssumption DEF FlowRow
<1>3. status \in WeeklyStatuses /\ round \in 0..MaxRounds /\ Target(r) = <<status, round>>
  BY <1>1, WeeklyAssumption DEF Target, WeeklyStatuses
<1>4. /\ reports'[r] # None /\ reports'[r].status = status /\ reports'[r].round = round
  <2>1. reports'[r] = WithStatus(row, status, round)
    BY DEF SetStatus, TypeOK
  <2>2. WithStatus(row, status, round) \in ReportRow
    BY <1>1, <1>3 DEF WithStatus, ReportRow
  <2>3. WithStatus(row, status, round).status = status /\ WithStatus(row, status, round).round = round
    BY <1>1 DEF WithStatus, ReportRow
  <2>4. QED
    BY <2>1, <2>2, <2>3, NoneAssumption
<1>5. /\ Board(r) = [status |-> row.status, round |-> row.round] /\ Board(r) # None
      /\ Board(r)' = [status |-> status, round |-> round]
  BY <1>1, <1>4, Boards DEF Board
<1>6. /\ Live(r)' /\ ~Waiting(r, {"mark"})' /\ ~Waiting(r, {"approve", "changes"})'
  <2>1. Target(r)' = Target(r)
    BY <1>2 DEF Target
  <2>2. Used(r)'
    BY <1>2, <1>3, <1>4, <2>1 DEF Used
  <2>3. QED
    BY <1>1, <1>2, <2>2 DEF Live, Waiting
<1>7. Submissions(r)' = Len(f.submits) /\ Undecided(r)' = f.reviews
  BY <1>1, <1>2, <1>6 DEF Submissions, Undecided
<1>8. Told(r)' = ToldBy(f.reviews)
  <2>1. \A i \in 1..Len(f.reviews) : Decided(f.reviews[i], r)
    BY <1>1 DEF ReportOK, FlowOK, Live
  <2>2. QED
    BY <1>1, <1>7, <2>1, ToldKept
<1>9. CASE f.at = "expire"
  <2>1. row.status \in {"DRAFT", "CHANGES_REQUESTED"} /\ row.round = f.round
    BY <1>1, <1>9 DEF ReportOK, RowFollows, Before, Submittable, Target
  <2>2. status = "DRAFT" /\ round = f.round
    BY <1>9 DEF Target
  <2>3. Submissions(r) = Len(f.submits) /\ Told(r) = ToldBy(f.reviews)
    BY <1>1, <1>9, Idle DEF Waiting, Told
  <2>4. QED
    BY <1>1, <1>5, <1>7, <1>8, <2>1, <2>2, <2>3, Expires
<1>10. CASE f.at # "expire" /\ Used(r)
  <2>1. row.status = status /\ row.round = round
    BY <1>3, <1>10 DEF Used
  <2>2. Submissions(r) = Len(f.submits) /\ Undecided(r) = f.reviews
    BY <1>1, <1>10, Idle DEF Waiting
  <2>3. QED
    BY <1>5, <1>7, <2>1, <2>2, Hidden DEF ReportOK
<1>11. CASE f.at = "mark" /\ ~Used(r)
  <2>1. row.status = Submittable(r) /\ row.round = f.round
    BY <1>1, <1>11, Turns DEF Before
  <2>2. Waiting(r, {"mark"}) /\ ~Waiting(r, {"approve", "changes"})
    BY <1>1, <1>11 DEF Waiting
  <2>3. Submissions(r) = Len(f.submits) + 1 /\ Told(r) = ToldBy(f.reviews)
    BY <1>1, <2>2 DEF Submissions, Undecided, Told
  <2>4. Len(f.submits) \in Nat
    BY <1>1
  <2>5. /\ status = IF f.round = 0 THEN "SUBMITTED" ELSE "RESUBMITTED" 
        /\ round = f.round /\ row.status \in {"DRAFT", "CHANGES_REQUESTED"}
    BY <1>11, <2>1 DEF Target, Submittable
  <2>6. QED
    BY <1>1, <1>5, <1>7, <1>8, <2>1, <2>3, <2>4, <2>5, Submits
<1>12. CASE f.at \in {"approve", "changes"} /\ ~Used(r)
  <2>1. row.status = Submitted(r) /\ row.round = f.round
    BY <1>1, <1>12, Turns DEF Before
  <2>2. Waiting(r, {"approve", "changes"}) /\ ~Waiting(r, {"mark"})
    BY <1>1, <1>12 DEF Waiting
  <2>3. f.event \in Calls /\ (f.at = "approve" <=> calls[f.event].decision = "APPROVE")
    BY <1>1, <1>12 DEF ReportOK, FlowOK, Live, FlowRow
  <2>4. Submissions(r) = Len(f.submits) /\ Told(r) = ToldBy(<<f.event>> \o f.reviews)
    BY <1>1, <2>2 DEF Submissions, Undecided, Told
  <2>5. /\ Told(r) # <<>> /\ Head(Told(r)) = calls[f.event].decision
        /\ Tail(Told(r)) = ToldBy(f.reviews)
    BY <1>1, <2>3, <2>4, ToldHead
  <2>6. /\ Board(r)' = IF Head(Told(r)) = "APPROVE"
                         THEN [status |-> "APPROVED", round |-> f.round]
                         ELSE [status |-> "CHANGES_REQUESTED", round |-> f.round + 1]
        /\ row.status \in {"SUBMITTED", "RESUBMITTED"}
    BY <1>5, <1>12, <2>1, <2>3, <2>5 DEF Target, Submitted
  <2>7. f.round \in Nat /\ f.round + 1 <= MaxRounds
    BY <1>1, WeeklyAssumption
  <2>8. QED
    BY <1>5, <1>7, <1>8, <2>1, <2>4, <2>5, <2>6, <2>7, Decides
<1>13. QED
  BY <1>1, <1>9, <1>10, <1>11, <1>12 DEF Steps

-----------------------------------------------------------------------------
(* Handlers.                                                               *)

\* A request that reaches a live instance is let through.
LEMMA Delivers ==
  ASSUME TypeOK, HandlersOK, CallsKept, NEW c \in Calls, Send(c), flow' # flow,
         NEW r \in Reports, r = calls[c].report, ReportOK(r), Elsewhere(r),
         calls[c] # None, reports[r] # None
  PROVE  Promised!Next
<1> DEFINE f == flow[r]
<1>1. Live(r) /\ f \in FlowRow /\ f.submits \in Seq(Calls) /\ f.reviews \in Seq(Calls)
  BY DEF Send, Live, TypeOK, FlowRow
<1>2. reports' = reports /\ calls[c].pc = "checked" /\ calls[c].kind # "edit"
  BY DEF Send
<1>3. Board(r)' = Board(r) /\ Board(r) # None
  BY <1>2, Boards DEF Board
<1>4. CASE calls[c].kind = "submit"
  <2>1. flow'[r] = [f EXCEPT !.submits = Append(f.submits, c)]
    BY <1>4 DEF Send, TypeOK
  <2>2. [f EXCEPT !.submits = Append(f.submits, c)] \in FlowRow
    <3>1. Append(f.submits, c) \in Seq(Calls)
      BY <1>1
    <3>2. QED
      BY <1>1, <3>1 DEF FlowRow
  <2>3. /\ flow'[r] # None /\ flow'[r].at = f.at /\ flow'[r].next = f.next
        /\ flow'[r].tries = f.tries /\ flow'[r].round = f.round /\ flow'[r].event = f.event
        /\ flow'[r].reviews = f.reviews /\ flow'[r].submits = Append(f.submits, c)
    BY <1>1, <2>1, <2>2, NoneAssumption DEF FlowRow
  <2>4. Live(r)' /\ Used(r)' = Used(r)
    BY <1>1, <1>2, <2>3 DEF Live, Used, Target
  <2>5. \A step : Waiting(r, step)' = Waiting(r, step)
    BY <1>1, <2>3, <2>4 DEF Waiting
  <2>6. Submissions(r)' = Submissions(r) + 1
    <3>1. Len(Append(f.submits, c)) = Len(f.submits) + 1 /\ Len(f.submits) \in Nat
      BY <1>1
    <3>2. CASE Waiting(r, {"mark"})
      <4>1. /\ Submissions(r) = Len(f.submits) + 1
            /\ Submissions(r)' = Len(Append(f.submits, c)) + 1
        BY <1>1, <2>3, <2>4, <2>5, <3>2 DEF Submissions
      <4>2. QED
        BY <3>1, <4>1
    <3>3. CASE ~Waiting(r, {"mark"})
      <4>1. /\ Submissions(r) = Len(f.submits) + 0
            /\ Submissions(r)' = Len(Append(f.submits, c)) + 0
        BY <1>1, <2>3, <2>4, <2>5, <3>3 DEF Submissions
      <4>2. QED
        BY <3>1, <4>1
    <3>4. QED
      BY <3>2, <3>3
  <2>7. Undecided(r)' = Undecided(r)
    BY <1>1, <2>3, <2>4, <2>5 DEF Undecided
  <2>8. Told(r)' = Told(r)
    BY <2>7, UndecidedDecide, ToldKept DEF Told, ReportOK
  <2>9. QED
    BY <1>3, <2>6, <2>8, AsksToSubmit
<1>5. CASE calls[c].kind # "submit"
  <2>1. flow'[r] = [f EXCEPT !.reviews = Append(f.reviews, c)]
    BY <1>5 DEF Send, TypeOK
  <2>2. [f EXCEPT !.reviews = Append(f.reviews, c)] \in FlowRow
    <3>1. Append(f.reviews, c) \in Seq(Calls)
      BY <1>1
    <3>2. QED
      BY <1>1, <3>1 DEF FlowRow
  <2>3. /\ flow'[r] # None /\ flow'[r].at = f.at /\ flow'[r].next = f.next
        /\ flow'[r].tries = f.tries /\ flow'[r].round = f.round /\ flow'[r].event = f.event
        /\ flow'[r].submits = f.submits /\ flow'[r].reviews = Append(f.reviews, c)
    BY <1>1, <2>1, <2>2, NoneAssumption DEF FlowRow
  <2>4. Live(r)' /\ Used(r)' = Used(r)
    BY <1>1, <1>2, <2>3 DEF Live, Used, Target
  <2>5. \A step : Waiting(r, step)' = Waiting(r, step)
    BY <1>1, <2>3, <2>4 DEF Waiting
  <2>6. Submissions(r)' = Submissions(r)
    BY <1>1, <2>3, <2>4, <2>5 DEF Submissions
  <2>7. Undecided(r)' = Append(Undecided(r), c)
    <3>1. Waiting(r, {"approve", "changes"}) => f.event \in Calls
      BY <1>1 DEF Waiting, ReportOK, FlowOK, Live, FlowRow
    <3>2. \A s \in Seq(Calls), e \in Calls : <<e>> \o Append(s, c) = Append(<<e>> \o s, c)
      OBVIOUS
    <3>3. \A s \in Seq(Calls) : <<>> \o s = s
      OBVIOUS
    <3>4. CASE Waiting(r, {"approve", "changes"})
      <4>1. /\ Undecided(r) = <<f.event>> \o f.reviews
            /\ Undecided(r)' = <<f.event>> \o Append(f.reviews, c)
        BY <1>1, <2>3, <2>4, <2>5, <3>4 DEF Undecided
      <4>2. QED
        BY <1>1, <3>1, <3>2, <3>4, <4>1
    <3>5. CASE ~Waiting(r, {"approve", "changes"})
      <4>1. /\ Undecided(r) = <<>> \o f.reviews
            /\ Undecided(r)' = <<>> \o Append(f.reviews, c)
        BY <1>1, <2>3, <2>4, <2>5, <3>5 DEF Undecided
      <4>2. Append(f.reviews, c) \in Seq(Calls)
        BY <1>1
      <4>3. QED
        BY <1>1, <3>3, <4>1, <4>2
    <3>6. QED
      BY <3>4, <3>5
  <2>8. Decided(c, r)
    BY <1>2, <1>5 DEF HandlersOK, HandlerOK
  <2>9. Told(r)' = Append(Told(r), calls[c].decision)
    <3>1. /\ Undecided(r) \in Seq(Calls)
          /\ \A i \in 1..Len(Undecided(r)) : Decided(Undecided(r)[i], r)
      BY UndecidedDecide DEF ReportOK
    <3>2. ASSUME NEW s \in Seq(Calls), \A i \in 1..Len(s) : Decided(s[i], r)
          PROVE  /\ Append(s, c) \in Seq(Calls)
                 /\ \A i \in 1..Len(Append(s, c)) : Decided(Append(s, c)[i], r)
      BY <2>8, <3>2
    <3>3. Told(r)' = ToldBy(Append(Undecided(r), c))
      BY <2>7, <3>1, <3>2, ToldKept
    <3>4. QED
      BY <3>1, <3>3, ToldAppend DEF Told
  <2>10. QED
    BY <1>3, <2>6, <2>8, <2>9, AsksToDecide DEF Decided
<1>6. QED
  BY <1>4, <1>5

\* A handler inserts a row, lets a request through, or is not seen.
LEMMA HandlersImplement ==
  ASSUME TypeOK, HandlersOK, \A r \in Reports : ReportOK(r), NEW c \in Calls, Handler(c)
  PROVE  [Promised!Next]_(Promised!vars)
<1>1. CallsKept
  BY HandlersKeepCalls
<1>2. calls[c] # None => calls[c] \in CallRow /\ calls[c].report \in Reports
  BY DEF TypeOK, CallRow
<1>3. \A q \in Reports : RowKept(q) /\ flow'[q] = flow[q] => Unseen(q)
  BY <1>1, Untouched
<1>4. ASSUME \A q \in Reports : Unseen(q)
      PROVE  [Promised!Next]_(Promised!vars)
  BY <1>4, Stutters
<1>5. CASE Start(c)
  <2>1. flow' = flow
    BY <1>5 DEF Start
  <2>2. CASE reports' = reports
    BY <1>3, <1>4, <2>1, <2>2 DEF RowKept
  <2>3. ASSUME NEW r \in Reports, \A q \in Reports : ~OpenReport(q),
               reports[r] = None, reports' = [reports EXCEPT ![r] = NewRow]
        PROVE  Promised!Next
    <3>1. Elsewhere(r)
      BY <1>3, <2>1, <2>3 DEF Elsewhere, RowKept, TypeOK
    <3>2. \A q \in Reports : ~Promised!Open(q)
      BY <2>3, Opens
    <3>3. Board(r) = None /\ Board(r)' = [status |-> "DRAFT", round |-> 0]
      <4>1. reports'[r] = NewRow /\ NewRow # None
        BY <2>3, NewRows, NoneAssumption DEF TypeOK
      <4>2. QED
        BY <2>3, <4>1 DEF Board, NewRow
    <3>4. flow[r] = None
      BY <2>3 DEF ReportOK, FlowOK
    <3>5. ~Live(r) /\ ~Live(r)'
      BY <2>1, <3>4 DEF Live
    <3>6. Submissions(r)' = Submissions(r) /\ Undecided(r)' = <<>> /\ Undecided(r) = <<>>
      BY <3>5 DEF Submissions, Undecided
    <3>7. Told(r)' = Told(r)
      BY <3>6 DEF Told, ToldBy
    <3>8. QED
      BY <3>1, <3>2, <3>3, <3>6, <3>7, Begins
  <2>4. QED
    BY <1>5, <2>2, <2>3 DEF Start
<1>6. CASE CreateWorkflow(c)
  <2>1. reports' = reports
    BY <1>6 DEF CreateWorkflow
  <2>2. CASE flow' = flow
    BY <1>3, <1>4, <2>1, <2>2 DEF RowKept
  <2>3. ASSUME NEW r \in Reports, r = calls[c].report, flow' = [flow EXCEPT ![r] = Instance]
        PROVE  \A q \in Reports : Unseen(q)
    <3>1. flow[r] = None
      BY <1>6, <2>3 DEF CreateWorkflow, HandlersOK, HandlerOK, Creating
    <3>2. \A q \in Reports \ {r} : Unseen(q)
      BY <1>3, <2>1, <2>3 DEF RowKept, TypeOK
    <3>3. flow'[r] = Instance /\ Instance # None
      BY <2>3, NewRows, NoneAssumption DEF TypeOK
    <3>4. /\ flow'[r].at = "draft" /\ flow'[r].submits = <<>> /\ flow'[r].reviews = <<>>
      BY <3>3 DEF Instance
    <3>5. /\ ~Live(r) /\ Live(r)' /\ ~Waiting(r, {"mark"})'
          /\ ~Waiting(r, {"approve", "changes"})'
      BY <3>1, <3>3, <3>4 DEF Live, Waiting
    <3>6. Submissions(r) = 0 /\ Undecided(r) = <<>>
      BY <3>5 DEF Submissions, Undecided
    <3>7. Submissions(r)' = 0 /\ Undecided(r)' = <<>>
      BY <3>4, <3>5 DEF Submissions, Undecided
    <3>8. Board(r)' = Board(r) /\ FlowOK(r)
      BY <2>1 DEF Board, ReportOK
    <3>9. Unseen(r)
      BY <1>1, <3>6, <3>7, <3>8, Hidden
    <3>10. QED
      BY <3>2, <3>9
  <2>4. QED
    BY <1>2, <1>4, <1>6, <2>2, <2>3 DEF CreateWorkflow
<1>7. CASE Check(c) \/ Abandon(c)
  BY <1>3, <1>4, <1>7 DEF Check, Abandon, RowKept
<1>8. CASE SetInstance(c) \/ Edit(c)
  <2> DEFINE r == calls[c].report
  <2>1. calls[c] # None /\ calls[c].pc \in {"created", "checked"} /\ flow' = flow
    BY <1>8 DEF SetInstance, Edit
  <2>2. r \in Reports /\ reports[r] # None /\ reports[r] \in ReportRow
    BY <1>2, <2>1 DEF HandlersOK, HandlerOK, TypeOK
  <2>3. RowKept(r)
    <3>1. CASE SetInstance(c)
      <4>1. reports'[r] = [reports[r] EXCEPT !.instance = TRUE]
        BY <2>2, <3>1 DEF SetInstance, TypeOK
      <4>2. [reports[r] EXCEPT !.instance = TRUE] \in ReportRow
        BY <2>2 DEF ReportRow
      <4>3. QED
        BY <2>2, <4>1, <4>2, NoneAssumption DEF RowKept, ReportRow
    <3>2. CASE Edit(c)
      <4>1. reports'[r] = [reports[r] EXCEPT !.draft = c]
        BY <2>2, <3>2 DEF Edit, TypeOK
      <4>2. [reports[r] EXCEPT !.draft = c] \in ReportRow
        BY <2>2 DEF ReportRow, Texts
      <4>3. QED
        BY <2>2, <4>1, <4>2, NoneAssumption DEF RowKept, ReportRow
    <3>3. QED
      BY <1>8, <3>1, <3>2
  <2>4. \A q \in Reports \ {r} : RowKept(q)
    BY <1>8, <2>2 DEF SetInstance, Edit, RowKept, TypeOK
  <2>5. QED
    BY <1>3, <1>4, <2>1, <2>3, <2>4
<1>9. CASE Send(c)
  <2>1. /\ calls[c] # None /\ calls[c].report \in Reports /\ reports' = reports
    BY <1>2, <1>9 DEF Send
  <2>2. CASE flow' = flow
    BY <1>3, <1>4, <2>1, <2>2 DEF RowKept
  <2>3. ASSUME NEW r \in Reports, r = calls[c].report, flow' # flow
        PROVE  Promised!Next
    <3>1. reports[r] # None
      BY <1>9, <2>3 DEF Send, HandlersOK, HandlerOK
    <3>2. Elsewhere(r)
      BY <1>3, <1>9, <2>1, <2>3 DEF Send, RowKept, Elsewhere, TypeOK
    <3>3. QED
      BY <1>1, <1>9, <2>1, <2>3, <3>1, <3>2, Delivers
  <2>4. QED
    BY <2>1, <2>2, <2>3
<1>10. QED
  BY <1>5, <1>6, <1>7, <1>8, <1>9 DEF Handler

-----------------------------------------------------------------------------
(* The theorem.                                                            *)

\* An instance moves its row, gives up, or is not seen.
LEMMA AdvanceImplements ==
  ASSUME IInv, NEW r \in Reports, Advance(r) \/ Retry(r)
  PROVE  [Promised!Next]_(Promised!vars)
<1>1. TypeOK /\ ReportOK(r) /\ TypeOK'
  BY TypeStep DEF IInv, Next
<1>2. CallsKept
  BY <1>1, AdvanceKeeps
<1>3. Elsewhere(r)
  <2>1. ASSUME NEW q \in Reports \ {r} PROVE Unseen(q)
    BY <1>1, <1>2, AdvanceKeeps, Untouched DEF RowKept, IInv
  <2>2. QED
    BY <2>1 DEF Elsewhere
<1>4. Unseen(r) \/ Promised!Next
  BY <1>1, <1>2, <1>3, SilentCalls, SilentTakes, Records, TimesOut, Retries, Moves DEF Advance
<1>5. QED
  BY <1>3, <1>4, Stutters DEF Elsewhere

\* Initially only the report whose review has started is to be seen.
LEMMA ContractInit == Init => Promised!Init
<1> SUFFICES ASSUME Init PROVE Promised!Init
  OBVIOUS
<1>1. TypeOK
  BY TypeInit
<1>2. ASSUME NEW r \in Reports
      PROVE  /\ Board(r) = IF r = Seed THEN [status |-> "DRAFT", round |-> 0] ELSE None
             /\ Submissions(r) = 0 /\ Told(r) = <<>>
  <2>1. CASE r # Seed
    <3>1. reports[r] = None /\ ~Live(r)
      BY <2>1 DEF Init, Live
    <3>2. Undecided(r) = <<>> /\ Submissions(r) = 0 /\ Board(r) = None
      BY <3>1 DEF Undecided, Submissions, Board
    <3>3. QED
      BY <2>1, <3>2 DEF Told, ToldBy
  <2>2. CASE r = Seed
    <3>1. /\ reports[r] = [NewRow EXCEPT !.instance = TRUE] /\ reports[r] # None
          /\ flow[r] = Instance /\ flow[r] # None
      BY <2>2, NewRows, NoneAssumption DEF Init
    <3>2. Board(r) = [status |-> "DRAFT", round |-> 0]
      BY <3>1 DEF Board, NewRow
    <3>3. /\ flow[r].at = "draft" /\ flow[r].submits = <<>> /\ flow[r].reviews = <<>>
      BY <3>1 DEF Instance
    <3>4. Live(r) /\ ~Waiting(r, {"mark"}) /\ ~Waiting(r, {"approve", "changes"})
      BY <3>1, <3>3 DEF Live, Waiting
    <3>5. Undecided(r) = <<>> /\ Submissions(r) = 0
      BY <3>3, <3>4 DEF Undecided, Submissions
    <3>6. QED
      BY <2>2, <3>2, <3>5 DEF Told, ToldBy
  <2>3. QED
    BY <2>1, <2>2
<1>3. QED
  BY <1>2 DEF Promised!Init, Promised!At, Told, ToldBy

\* Every step of handlers and instances is a step of the contract or none.
LEMMA ContractStep == IInv /\ [Next]_vars => [Promised!Next]_(Promised!vars)
<1> SUFFICES ASSUME IInv, [Next]_vars PROVE [Promised!Next]_(Promised!vars)
  OBVIOUS
<1>1. CASE \E c \in Calls : Handler(c)
  BY <1>1, HandlersImplement DEF IInv
<1>2. CASE \E r \in Reports : Advance(r) \/ Retry(r)
  BY <1>2, AdvanceImplements
<1>3. CASE UNCHANGED vars
  <2>1. \A r \in Reports : RowKept(r) /\ flow'[r] = flow[r]
    BY <1>3 DEF vars, RowKept
  <2>2. CallsKept
    BY <1>3 DEF vars, CallsKept
  <2>3. \A r \in Reports : Unseen(r)
    BY <2>1, <2>2, Untouched DEF IInv
  <2>4. QED
    BY <2>3, Stutters
<1>4. QED
  BY <1>1, <1>2, <1>3 DEF Next

\* Whatever handlers, steps, retries and timeouts do, the board moves only by
\* submissions and decisions people made for the report, each used once and in
\* order, one report is open at a time, and an approved one stays approved.
THEOREM Refinement == Spec => Implements
BY Invariance, ContractInit, ContractStep, PTL DEF Spec, Implements, Promised!Spec
==============================================================================
