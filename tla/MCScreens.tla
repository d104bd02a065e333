------------------------------ MODULE MCScreens ------------------------------
(***************************************************************************)
(* Instances of Screens for TLC.                                           *)
(***************************************************************************)
EXTENDS Screens, TLC

CONSTANTS t1, t2

Session(r, ts, ms, as, cs) ==
  [role |-> r, tabs |-> ts, mounts |-> ms, asks |-> as, clicks |-> cs]

\* Reports that appear, are drafted and decided while the person uses the tab.
Writing   == {Session("intern", {"Weekly"}, 1, 0, 6)}
Reviewers == {Session(r, {"Weekly"}, 1, 0, 5) : r \in {"mentor", "manager"}}
\* A tab left and entered again with requests under way.
Returning == {Session("intern", {"Weekly", "Board"}, 3, 0, 5)}
Asking    == {Session("manager", {"Agent", "Board"}, 5, 4, 0)}
Editing   == {Session("intern", {"Board"}, 1, 0, 5)}

AllSessions == Writing \cup Reviewers \cup Returning \cup Asking \cup Editing
=============================================================================
