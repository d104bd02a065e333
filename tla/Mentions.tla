------------------------------ MODULE Mentions ------------------------------
(***************************************************************************)
(* Finding @mentions in a text (src/shared/mentions.ts), and the field     *)
(* that helps to type them (src/client/ui/mentionMatch.ts and              *)
(* useMentionSuggestions.ts): the field inserts what the parser, in the    *)
(* Worker, has to find again.  WorkspaceDO has what becomes of a mention.  *)
(*                                                                         *)
(* A text is a sequence of characters of a small alphabet: letters of both *)
(* cases, "ae", a letter that NFKD takes apart into "a" and a mark, a      *)
(* blank, a newline, a dash.  A pure module; its assumptions are evaluated *)
(* by the runs whose module extends it.                                    *)
(***************************************************************************)
EXTENDS Integers, Sequences

Letters    == {"a", "A", "b"}                      \* [a-zA-Z0-9]
Characters == Letters \cup {"ae", " ", "nl", "-", "@"}
Lower(c)   == IF c = "A" THEN "a" ELSE c           \* toLowerCase
Apart(c)   == IF c = "ae" THEN "a" ELSE c          \* NFKD, marks dropped
Lowered(s) == [i \in 1..Len(s) |-> Lower(s[i])]
MaxQuery       == 3                                \* 40 in the code
MaxSuggestions == 2                                \* 6 in the code

deriveHandle(displayName) ==
  Lowered(SelectSeq([i \in 1..Len(displayName) |-> Apart(displayName[i])],
                    LAMBDA c : c \in Letters))

-----------------------------------------------------------------------------
(* parseMentions: the regular expression reads from left to right; at an   *)
(* "@" it takes the longest form that no letter follows.                   *)

Forms(m) == {f \in {deriveHandle(m.displayName), m.displayName} : f # <<>>}

Follows(text, i, form) ==
  /\ i + Len(form) <= Len(text)
  /\ Lowered(SubSeq(text, i + 1, i + Len(form))) = Lowered(form)
  /\ i + Len(form) < Len(text) => text[i + Len(form) + 1] \notin Letters

Matching(text, i, members) ==
  IF text[i] # "@" THEN {}
  ELSE {f \in UNION {Forms(members[k]) : k \in 1..Len(members)} : Follows(text, i, f)}
Longest(forms) == CHOOSE f \in forms : \A g \in forms : Len(g) <= Len(f)

\* Whose form it is: the first of the roster who has it.
Meant(form, members) ==
  LET has == {k \in 1..Len(members) :
                \E f \in Forms(members[k]) : Lowered(f) = Lowered(form)}
  IN members[CHOOSE k \in has : \A j \in has : k <= j].userId

parseMentions(text, members) ==
  LET from[i \in 1..(Len(text) + 1)] ==
        IF i > Len(text) THEN {}
        ELSE LET forms == Matching(text, i, members)
             IN IF forms = {} THEN from[i + 1]
                ELSE {Meant(Longest(forms), members)}
                       \cup from[i + 1 + Len(Longest(forms))]
  IN from[1]

-----------------------------------------------------------------------------
(* The field.  at = 0 stands for no trigger.                               *)

detectMentionTrigger(text, caret) ==
  LET ats   == {i \in 1..caret : text[i] = "@"}
      at    == CHOOSE i \in ats : \A j \in ats : j <= i
      query == SubSeq(text, at + 1, caret)
      ended == \/ \E i \in 1..Len(query) : query[i] = "nl"
               \/ Len(query) > MaxQuery
               \/ query # <<>> /\ query[Len(query)] \in {" ", "nl"}
  IN IF ats = {} \/ ended THEN [at |-> 0, query |-> <<>>]
                          ELSE [at |-> at, query |-> query]

Includes(s, part) ==
  \E i \in 0..(Len(s) - Len(part)) : SubSeq(s, i + 1, i + Len(part)) = part
filterMentionCandidates(members, query) ==
  LET found == SelectSeq(members,
                 LAMBDA m : Includes(Lowered(m.displayName), Lowered(query)))
  IN SubSeq(found, 1, IF Len(found) < MaxSuggestions THEN Len(found) ELSE MaxSuggestions)

mentionInsertionText(m) == <<"@">> \o m.displayName \o <<" ">>

Field(text, caret) == [text |-> text, caret |-> caret, at |-> 0, query |-> <<>>,
                       active |-> 0, consumed |-> FALSE]
CloseList(f) == [f EXCEPT !.at = 0, !.query = <<>>, !.active = 0]
Suggested(f, members) ==
  IF f.at = 0 THEN <<>> ELSE filterMentionCandidates(members, f.query)

\* The highlight goes back to the top only when the query is another one.
detect(f) ==
  LET t == detectMentionTrigger(f.text, f.caret) IN
  IF t.at = 0 THEN CloseList(f)
  ELSE [f EXCEPT !.at = t.at, !.query = t.query,
                 !.active = IF f.at # 0 /\ f.query = t.query THEN @ ELSE 0]

insert(f, m) ==
  LET before == SubSeq(f.text, 1, f.at - 1) \o mentionInsertionText(m)
  IN [CloseList(f) EXCEPT !.text = before \o SubSeq(f.text, f.caret + 1, Len(f.text)),
                          !.caret = Len(before)]

Keys == {"ArrowDown", "ArrowUp", "Enter", "Escape"}      \* Tab is Enter's twin
onFieldKeyDown(f, key, members) ==
  LET list == Suggested(f, members)
      n    == Len(list)
      own  == [f EXCEPT !.consumed = TRUE]
  IN CASE n = 0 -> f
       [] n > 0 /\ key = "ArrowDown" -> [own EXCEPT !.active = (@ + 1) % n]
       [] n > 0 /\ key = "ArrowUp"   -> [own EXCEPT !.active = (@ - 1 + n) % n]
       [] n > 0 /\ key = "Enter"     -> insert(own, list[1 + (IF f.active < n THEN f.active ELSE n - 1)])
       [] n > 0 /\ key = "Escape"    -> CloseList(own)

\* The release of a key that onFieldKeyDown took does not look again.
onFieldKeyUp(f) ==
  IF f.consumed THEN [f EXCEPT !.consumed = FALSE] ELSE detect(f)

-----------------------------------------------------------------------------
(* Inputs: rosters with a name that begins another, a name without a plain *)
(* letter, namesakes; all texts up to a length.                            *)

Member(id, name) == [userId |-> id, displayName |-> name]
ShortName == Member("u1", <<"A">>)
LongName  == Member("u2", <<"A", " ", "b">>)
Umlaut    == Member("u3", <<"ae", "b">>)
Marks     == Member("u4", <<"-">>)
Namesake  == Member("u5", <<"a", " ", "b">>)
Rosters   == {<<ShortName, LongName>>, <<LongName, ShortName, Marks>>,
              <<Umlaut, ShortName>>, <<LongName, Namesake>>}

Texts(n) == UNION {[1..k -> Characters] : k \in 0..n}
People(members) == {members[k] : k \in 1..Len(members)}

\* What an "@" mentions depends on what follows it, not on other mentions: the
\* expression never swallows the "@" of a later mention (g flag, lastIndex).
ASSUME EachAtStandsAlone ==
  \A members \in Rosters, text \in Texts(3), end \in {<<"@", "A", " ", "b">>, <<>>} :
    LET whole == text \o end IN
    parseMentions(whole, members) =
      {Meant(Longest(Matching(whole, i, members)), members) :
         i \in {j \in 1..Len(whole) : Matching(whole, j, members) # {}}}

\* The handle and the name mention the same member, alone and in a sentence,
\* unless somebody before them in the roster has the same handle or name; a
\* longer word mentions nobody.
ASSUME TwoFormsOneMember ==
  \A members \in Rosters : \A m \in People(members) : \A form \in Forms(m) :
    /\ parseMentions(<<"@">> \o form, members) = {Meant(form, members)}
    /\ parseMentions(<<"b", "@">> \o form \o <<"-", "b">>, members) = {Meant(form, members)}
    /\ parseMentions(<<"@">> \o form \o <<"b">>, <<m>>) = {}

\* Who is picked from the list is who the Worker finds in the text: wherever
\* the caret is, unless a letter follows it, and without losing a mention that
\* stood before (mentionInsertionText against parseMentions).
ASSUME PickedIsMentioned ==
  \A members \in Rosters, text \in Texts(3) : \A caret \in 0..Len(text) :
    LET f == detect(Field(text, caret))
        list == Suggested(f, members)
    IN  \A k \in 1..Len(list) :
          LET now == insert(f, list[k]).text IN
          /\ caret = Len(text) \/ text[caret + 1] \notin Letters =>
               Meant(list[k].displayName, members) \in parseMentions(now, members)
          /\ parseMentions(SubSeq(text, 1, f.at - 1), members) \subseteq parseMentions(now, members)

\* The arrows, each held for a while and the second perhaps pressed before the
\* first is released: Enter picks the member they stopped at, Escape leaves the
\* list closed, and none of them types (the consumed flag between keydown and
\* keyup, and detect that keeps the highlight).
Repeated(f, key, times, members) ==
  LET down[n \in 0..times] ==
        IF n = 0 THEN f ELSE onFieldKeyDown(down[n - 1], key, members)
  IN down[times]
Pressed(f, key, times, members) == onFieldKeyUp(Repeated(f, key, times, members))
Arrows == {"ArrowDown", "ArrowUp"}
Moves(key, times, n) == IF key = "ArrowDown" THEN times ELSE (n - 1) * times
ASSUME KeysPickTheHighlighted ==
  \A members \in Rosters, k1 \in Arrows, k2 \in Arrows, n1 \in 1..3, n2 \in 1..3 :
    LET opened == detect(Field(<<"b", "@">>, 2))
        list   == Suggested(opened, members)
        stop   == (Moves(k1, n1, Len(list)) + Moves(k2, n2, Len(list))) % Len(list)
        after1 == Repeated(opened, k1, n1, members)
        both   == onFieldKeyUp(Pressed(after1, k2, n2, members))
    IN  \A moved \in {both, Pressed(onFieldKeyUp(after1), k2, n2, members)} :
          /\ moved.text = opened.text /\ moved.active = stop
          /\ Pressed(moved, "Enter", 1, members).text
               = <<"b">> \o mentionInsertionText(list[stop + 1])
          /\ LET closed == Pressed(moved, "Escape", n1, members)
             IN closed.text = opened.text /\ Suggested(closed, members) = <<>>
=============================================================================
