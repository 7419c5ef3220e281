------------------------------- MODULE MCPages -------------------------------
(***************************************************************************)
(* A finite instance of the small systems for TLC.                         *)
(***************************************************************************)
EXTENDS SmallSystems

\* A system that does not move starts in one of its states.
RestingInit ==
    /\ Init
    /\ part # "console" => kind = "users"
    /\ part # "reader" => single /\ ~item.deleted
    /\ part # "taxonomy" => stored = {} /\ category[1].deleted /\ category[1].name = "x"

PagesSpec == RestingInit /\ [][Next]_vars

\* Exact, a third each with digits that the columns drop, one that is rounded up to
\* more than the whole, and one that does not sum up.
SomeSplits ==
    {<<70000, 25000, 5000>>, <<33333, 33333, 33333>>, <<33335, 33335, 33335>>, <<70000, 25000, 4500>>}

\* The second and third chapter were added at once.
TwoAtOnce == <<1, 2, 2, 3>>

\* A story with a chapter, and two articles, one by the same creator; one tag is on the
\* articles only.
ChapterOfStory == [c1 |-> "s1"]
TwoCreators == [s1 |-> "u1", a1 |-> "u1", a2 |-> "u2"]
SomeTags == [s1 |-> {"t1"}, a1 |-> {"t1", "t2"}, a2 |-> {"t2"}]

SmallLetters == [x |-> "x", X |-> "x", y |-> "y"]
=============================================================================
