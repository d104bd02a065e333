-------------------------- MODULE MCKnowledgeIndex --------------------------
(***************************************************************************)
(* Instances of KnowledgeIndex for TLC, and small limits for AgentContext. *)
(***************************************************************************)
EXTENDS KnowledgeIndex, AgentContext, TLC

CONSTANTS f1, b1, a1, a2, a3

\* Texts from nothing to more than MaxChunks chunks, with breaks anywhere.
Texts == {None} \cup
  {[len |-> n, breaks |-> s] : n \in {0, 1, 7, 12}, s \in SUBSET {4, 5, 9}}
LongText == [len |-> 20, breaks |-> {}]

Work(fs, ts, bs, as) == [files |-> fs, texts |-> ts, blockers |-> bs, asks |-> as]
AllWorkloads == {Work({f1}, Texts \cup {LongText}, {}, {}),
                 Work({}, {None}, {b1}, {}),
                 Work({}, {None}, {}, {a1, a2, a3}),
                 Work({f1}, {[len |-> 7, breaks |-> {4}]}, {b1}, {})}
FileWorkload == {Work({f1}, {[len |-> 7, breaks |-> {4}]}, {}, {})}
\* Small enough for every section to outgrow its limit.
MCLimits == [tasks |-> 2, openBlockers |-> 1, updates |-> 2, feedback |-> 2,
             activity |-> 2, historyTurns |-> 2, contextChars |-> 14,
             heading |-> 1, draftTasks |-> 1, topK |-> 1, promptChars |-> 2]
=============================================================================
