---------------------------- MODULE MCDirectory ----------------------------
(***************************************************************************)
(* Instances of Directory for TLC: directories that earlier requests left, *)
(* each with the requests that may come.                                   *)
(***************************************************************************)
EXTENDS Directory, TLC

CONSTANTS ann, bob, cat,       \* a manager, a colleague, a newcomer
          sAnn, sBob, sBob2, sCat, work, demo, fresh

Symmetry == Permutations(Slots)

Known(s)  == [subject |-> s, status |-> "ACTIVE", admin |-> FALSE]
Admin(s)  == [Known(s) EXCEPT !.admin = TRUE]
Ann       == [subject |-> sAnn, email |-> ann]
Bob       == [subject |-> sBob, email |-> bob]
Cat       == [subject |-> sCat, email |-> cat]
Demoer(e) == [subject |-> None, email |-> e]

Users(a, b, c) == (ann :> a) @@ (bob :> b) @@ (cat :> c)
Spaces == (work :> "prod") @@ (demo :> "demo") @@ (fresh :> None)
In(role) == IF role = None THEN NoMember ELSE [role |-> role, by |-> Earlier]
Staff(a, b, c) == (ann :> In(a)) @@ (bob :> In(b)) @@ (cat :> In(c))
Nobody == Staff(None, None, None)
Places(w, d) == (work :> w) @@ (demo :> d) @@ (fresh :> Nobody)

Invited == <<Earlier, "intern">>
NoInvites  == [i \in InviteIds |-> None]
CatInvited == [NoInvites EXCEPT ![Invited] =
                 [ws |-> work, email |-> cat, role |-> "intern",
                  status |-> "PENDING", lapsed |-> FALSE]]

\* ann runs the workspace, cat is invited to it and bob is not.
Joining ==
  [users |-> Users(Known(sAnn), Known(sBob), None), spaces |-> Spaces,
   members |-> Places(Staff("manager", None, None), Nobody),
   invites |-> CatInvited,
   requests |->
     {[op |-> "accept", by |-> Cat, invite |-> Invited],
      [op |-> "accept", by |-> Bob, invite |-> Invited],
      [op |-> "invite", by |-> Ann, ws |-> work, email |-> cat, role |-> "mentor"],
      [op |-> "revoke", by |-> Ann, ws |-> work, invite |-> Invited]}
     \cup {[op |-> "accept", by |-> Cat, invite |-> <<c, "mentor">>] : c \in Slots}]

\* ann is a platform admin; bob and cat manage the workspace, cat is invited
\* once more.
Operating ==
  [users |-> Users(Admin(sAnn), Known(sBob), Known(sCat)), spaces |-> Spaces,
   members |-> Places(Staff(None, "manager", "manager"), Nobody),
   invites |-> CatInvited,
   requests |->
     {[op |-> "remove", by |-> Ann, ws |-> work, email |-> cat],
      [op |-> "remove", by |-> Ann, ws |-> work, email |-> bob],
      [op |-> "repair", by |-> Ann, ws |-> work, email |-> cat, role |-> "mentor"],
      [op |-> "repair", by |-> Ann, ws |-> work, email |-> ann, role |-> "intern"],
      [op |-> "status", by |-> Ann, email |-> bob, to |-> "SUSPENDED"],
      [op |-> "status", by |-> Ann, email |-> ann, to |-> "DISABLED"],
      [op |-> "adminRevoke", by |-> Ann, ws |-> work, invite |-> Invited],
      [op |-> "remove", by |-> Bob, ws |-> work, email |-> cat],
      [op |-> "accept", by |-> Cat, invite |-> Invited]}]

\* ann creates a workspace with bob, who was added but never signed in, and
\* cat, who is unknown.
Creating ==
  [users |-> Users(Known(sAnn), Known(None), None), spaces |-> Spaces,
   members |-> Places(Staff("manager", None, None), Nobody),
   invites |-> NoInvites,
   requests |->
     {[op |-> "create", by |-> Ann, role |-> "manager",
       team |-> [r \in Roles |-> CASE r = "intern" -> cat [] r = "mentor" -> bob
                                   [] r = "manager" -> ann]],
      [op |-> "create", by |-> Bob, role |-> "mentor",
       team |-> [r \in Roles |-> CASE r = "intern" -> cat [] r = "mentor" -> bob
                                   [] r = "manager" -> ann]],
      [op |-> "create", by |-> Ann, role |-> "mentor",
       team |-> [r \in Roles |-> IF r = "mentor" THEN ann ELSE cat]],
      [op |-> "me", by |-> Cat], [op |-> "me", by |-> Bob],
      [op |-> "me", by |-> [Bob EXCEPT !.subject = sBob2]],
      [op |-> "addMember", by |-> Ann, ws |-> work, email |-> cat, role |-> "intern"]}
     \cup {[op |-> "accept", by |-> Cat, invite |-> <<c, "intern">>] : c \in Slots}]

\* The demo next to production: bob leads in both.
Demoing ==
  [users |-> Users(Known(None), Known(sBob), None), spaces |-> Spaces,
   members |-> Places(Staff(None, "manager", "intern"),
                      Staff("intern", "mentor", None)),
   invites |-> NoInvites,
   requests |->
     {[op |-> "create", by |-> Demoer(ann), role |-> "mentor",
       team |-> [r \in Roles |-> CASE r = "intern" -> cat [] r = "mentor" -> ann
                                   [] r = "manager" -> bob]],
      [op |-> "create", by |-> Demoer(ann), role |-> "manager",
       team |-> [r \in Roles |-> IF r = "intern" THEN cat ELSE ann]],
      [op |-> "open", by |-> Demoer(ann), ws |-> demo],
      [op |-> "open", by |-> Bob, ws |-> demo],
      [op |-> "invite", by |-> Demoer(bob), ws |-> demo, email |-> cat, role |-> "intern"],
      [op |-> "me", by |-> Cat]}
     \cup [op : {"addMember"}, by : {Bob, Demoer(bob), Demoer(ann)},
           ws : {work, demo}, email : {ann, cat}, role : {"intern"}]]

AllSeeds     == {Joining, Operating, Creating, Demoing}
RemovalSeeds == {[Operating EXCEPT !.requests =
                    {r \in @ : r.op = "remove" /\ r.by = Ann}]}
=============================================================================
