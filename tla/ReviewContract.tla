--------------------------- MODULE ReviewContract ---------------------------
(***************************************************************************)
(* What the weekly review promises to those who see only the board: a      *)
(* report moves by submissions and decisions that people made for it, each *)
(* of them used once and in order, and an approval is final.  Handlers,    *)
(* steps, retries and timeouts are invisible here; WeeklyReview implements *)
(* this (its property Implements).                                         *)
(***************************************************************************)
EXTENDS Protocol, Sequences

CONSTANTS Reports, Seed, Rounds

VARIABLES
  board,     \* [Reports -> status and round, or None]
  submits,   \* [Reports -> how many submissions were not used yet]
  decisions  \* [Reports -> the decisions not used yet, oldest first]

vars == <<board, submits, decisions>>

At(status, round) == [status |-> status, round |-> round]
Open(r) == board[r] # None /\ board[r].status # "APPROVED"

Init ==
  /\ board = [r \in Reports |-> IF r = Seed THEN At("DRAFT", 0) ELSE None]
  /\ submits = [r \in Reports |-> 0]
  /\ decisions = [r \in Reports |-> <<>>]

Begin(r) ==
  /\ \A q \in Reports : ~Open(q)
  /\ board[r] = None /\ board' = [board EXCEPT ![r] = At("DRAFT", 0)]
  /\ UNCHANGED <<submits, decisions>>

\* Someone submits or decides, for a report they have seen.
Ask(r) ==
  /\ board[r] # None
  /\ \/ submits' = [submits EXCEPT ![r] = @ + 1] /\ UNCHANGED decisions
     \/ /\ \E d \in {"APPROVE", "REQUEST_CHANGES"} :
             decisions' = [decisions EXCEPT ![r] = Append(@, d)]
        /\ UNCHANGED submits
  /\ UNCHANGED board

Submit(r) ==
  /\ submits[r] > 0 /\ Open(r) /\ board[r].status \in {"DRAFT", "CHANGES_REQUESTED"}
  /\ board' = [board EXCEPT ![r].status =
                 IF board[r].round = 0 THEN "SUBMITTED" ELSE "RESUBMITTED"]
  /\ submits' = [submits EXCEPT ![r] = @ - 1]
  /\ UNCHANGED decisions

Decide(r) ==
  /\ decisions[r] # <<>> /\ Open(r) /\ board[r].status \in {"SUBMITTED", "RESUBMITTED"}
  /\ board' = [board EXCEPT ![r] =
       IF Head(decisions[r]) = "APPROVE" THEN At("APPROVED", @.round)
                                         ELSE At("CHANGES_REQUESTED", @.round + 1)]
  /\ board'[r].round <= Rounds
  /\ decisions' = [decisions EXCEPT ![r] = Tail(@)]
  /\ UNCHANGED submits

\* Nobody submitted in time.
Expire(r) ==
  /\ Open(r) /\ board[r].status \in {"DRAFT", "CHANGES_REQUESTED"}
  /\ board' = [board EXCEPT ![r].status = "DRAFT"]
  /\ UNCHANGED <<submits, decisions>>

\* The review ends, and nobody uses what is left.
GiveUp(r) ==
  /\ submits' = [submits EXCEPT ![r] = 0]
  /\ decisions' = [decisions EXCEPT ![r] = <<>>]
  /\ UNCHANGED board

Next == \E r \in Reports :
  Begin(r) \/ Ask(r) \/ Submit(r) \/ Decide(r) \/ Expire(r) \/ GiveUp(r)

Spec == Init /\ [][Next]_vars
=============================================================================
