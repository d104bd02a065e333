------------------------- MODULE MCWorkspaceSession -------------------------
(***************************************************************************)
(* Instances of WorkspaceSession for TLC.                                  *)
(***************************************************************************)
EXTENDS WorkspaceSession, Reads, TLC

CONSTANTS w1, w2

Tab(ms, is, r, as, mv, fs, cs) ==
  [members |-> ms, invited |-> is, route |-> r,
   asks |-> as, moves |-> mv, faults |-> fs, changes |-> cs]

\* Two invitations accepted one after the other while the first is under way.
TwoInvitations == {Tab({}, {w1, w2}, "home", 3, 1, 0, 0)}
\* An invitation accepted, a workspace created, with moves, loss and removal.
OneInvitation  == {Tab({}, {w1}, "home", 2, 1, 1, 1), Tab({}, {w1}, w1, 3, 1, 1, 0)}
NewWorkspace   == {Tab({w1}, {}, "create", 2, 2, 1, 0)}
\* A member between two workspaces on a bad network.
TwoWorkspaces  == {Tab({w1, w2}, {}, w1, 2, 1, 1, 1), Tab({w1}, {}, w1, 1, 0, 3, 2)}

AllTabs == TwoInvitations \cup OneInvitation \cup NewWorkspace \cup TwoWorkspaces
=============================================================================
