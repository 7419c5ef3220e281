------------------------------- MODULE Comments -------------------------------
(***************************************************************************)
(* Comments: apps/api/src/routes/comments.ts and the forms of              *)
(* components/Comments.tsx, on top of Accounts.  A tab has a chapter open   *)
(* and one form, for a comment or a reply; every edit makes a new draft of  *)
(* its text.  The chapter may be published or hidden at any time, so the   *)
(* checks may go either way.                                               *)
(***************************************************************************)
EXTENDS Accounts, Sequences

CONSTANTS
    Moderators,   \* users with the role MODERATOR or ADMIN
    Writers,      \* tabs with a form; users log in and out in others
    Earlier,      \* comments as they were
    MaxDrafts,    \* edits in a tab
    MaxLost       \* answers to posts of a draft that get lost

CommentOps == {"post", "delete"}

Drafts == 1..MaxDrafts
Texts  == Writers \X Drafts

ASSUME CommentAssumption ==
    /\ Ops = AccountOps \cup CommentOps
    /\ Moderators \subseteq Registered
    /\ Writers \subseteq Tabs \ Entrances /\ None \notin Texts
    /\ MaxLost \in Nat /\ MaxDrafts \in Nat
    /\ Earlier \in Seq([author : Registered, parent : {None} \cup Nat,
                        deleted : BOOLEAN, text : {None}])
    /\ \A c \in DOMAIN Earlier :    \* replies answer earlier comments, of the first level or left out (0)
          Earlier[c].parent # None =>
             /\ Earlier[c].parent < c
             /\ Earlier[c].parent # 0 => Earlier[Earlier[c].parent].parent = None

VARIABLES
    comment,     \* the rows
    box,         \* box[w]: the draft in the form of tab w, or 0
    typed,       \* typed[w]: how many drafts there were
    sent,        \* sent[w]: the draft that the last post brought, or 0
    lost         \* history: lost[<<w, n>>]: answers to posts of draft n that got lost

threadVars == <<comment, box, typed, sent, lost>>
vars       == <<accountVars, threadVars>>

Written == DOMAIN comment
Live    == {c \in Written : ~comment[c].deleted}
Depth(c) == IF comment[c].parent = None THEN 0 ELSE 1

Init ==
    /\ AccountInit
    /\ comment = Earlier
    /\ box = [w \in Writers |-> 0]
    /\ typed = [w \in Writers |-> 0] /\ sent = [w \in Writers |-> 0]
    /\ lost = [t \in Texts |-> 0]

-----------------------------------------------------------------------------
(***************************************************************************)
(* The forms of a tab, shown to whom useSession takes for logged in.  The  *)
(* button is disabled while a request runs, the text is not.               *)
(***************************************************************************)

\* A new page; what was in the form is gone.
Open(w) ==
    /\ Mount(w)
    /\ box' = [v \in Writers |-> IF v = w THEN 0 ELSE box[v]]
    /\ UNCHANGED <<comment, typed, sent, lost>>

Type(w) ==
    /\ shown[w].user # None /\ typed[w] < MaxDrafts
    /\ typed' = [typed EXCEPT ![w] = @ + 1]
    /\ box' = [box EXCEPT ![w] = typed[w] + 1]
    /\ UNCHANGED <<accountVars, comment, sent, lost>>

\* submitComment and submitReply.  The page offers to answer comments of the first
\* level only; the API does not rely on it.
Submit(w) ==
    /\ box[w] # 0 /\ shown[w].csrf # None
    /\ \E parent \in {None} \cup Written : Send(w, "post", parent)
    /\ sent' = [sent EXCEPT ![w] = box[w]]
    /\ UNCHANGED <<comment, box, typed, lost>>

\* removeComment, offered for one's own.
Remove(w) ==
    /\ shown[w].csrf # None
    /\ \E c \in Written : comment[c].author = shown[w].user /\ Send(w, "delete", c)
    /\ UNCHANGED threadVars

\* Mutant: the text stays in the form.
AnsweredKept(w) ==
    /\ request[w].op \in CommentOps /\ request[w].step = "answer"
    /\ Refuse(w)
    /\ UNCHANGED <<userVars, browserVars, threadVars>>

\* The answer arrives; after a post the form is cleared, whatever is in it by now.
Answered(w) ==
    /\ request[w].op \in CommentOps /\ request[w].step = "answer"
    /\ box' = IF request[w].op = "post" THEN [box EXCEPT ![w] = 0] ELSE box
    /\ Refuse(w)
    /\ UNCHANGED <<userVars, browserVars, comment, typed, sent, lost>>

\* The answer to a post is lost; the page shows an error and keeps the text.
LoseAnswer(w) ==
    /\ At(w, "post", "answer") /\ lost[<<w, sent[w]>>] < MaxLost
    /\ lost' = [lost EXCEPT ![<<w, sent[w]>>] = @ + 1]
    /\ Refuse(w)
    /\ UNCHANGED <<userVars, browserVars, comment, box, typed, sent>>

-----------------------------------------------------------------------------
(***************************************************************************)
(* The routes                                                              *)
(***************************************************************************)

\* A check of a handler between two awaits: it goes on or answers with an error.
Check(w, op, step, condition, next) ==
    /\ At(w, op, step)
    /\ IF condition THEN Go(w, next) ELSE Refuse(w)
    /\ UNCHANGED <<userVars, browserVars, threadVars>>

\* requireCommentableContent.
ReadContent(w) == \E visible \in BOOLEAN : Check(w, "post", "begun", visible, "content")

\* The parent exists and is not a reply itself.
Answers(parent) == parent = None \/ (parent \in Live /\ Depth(parent) = 0)

ReadParent(w) == Check(w, "post", "content", Answers(request[w].arg), "parent")

\* The chapter is published.
ReadPart(w) == \E visible \in BOOLEAN : Check(w, "post", "parent", visible, "part")

Insert(w) ==
    /\ At(w, "post", "part")
    /\ comment' = Append(comment, [author |-> request[w].as, parent |-> request[w].arg,
                                   deleted |-> FALSE, text |-> <<w, sent[w]>>])
    /\ Go(w, "answer")
    /\ UNCHANGED <<userVars, browserVars, box, typed, sent, lost>>

\* DELETE /comments/:id reads the comment: its author or a moderator may.
ReadComment(w) ==
    Check(w, "delete", "begun",
          request[w].arg \in Live
            /\ (comment[request[w].arg].author = request[w].as \/ request[w].as \in Moderators),
          "found")

MarkDeleted(w) ==
    /\ At(w, "delete", "found")
    /\ comment' = [comment EXCEPT ![request[w].arg].deleted = TRUE]
    /\ Go(w, "answer")
    /\ UNCHANGED <<userVars, browserVars, box, typed, sent, lost>>

\* A moderator deletes a comment from another browser; that of a reply would change
\* nothing for the requests of this one.
Moderate(c) ==
    /\ c \in Live /\ Depth(c) = 0
    /\ comment' = [comment EXCEPT ![c].deleted = TRUE]
    /\ UNCHANGED <<accountVars, box, typed, sent, lost>>

-----------------------------------------------------------------------------

CommentStep(w) ==
    \/ ReadContent(w) \/ ReadParent(w) \/ ReadPart(w) \/ Insert(w)
    \/ ReadComment(w) \/ MarkDeleted(w)
    \/ Answered(w)

Next ==
    \/ AccountNext /\ UNCHANGED threadVars
    \/ \E w \in Readers : Open(w)
    \/ \E w \in Tabs : Remove(w) \/ CommentStep(w)
    \/ \E w \in Writers : Type(w) \/ Submit(w) \/ LoseAnswer(w)
    \/ \E c \in Written : Moderate(c)

Spec == Init /\ [][Next]_vars

-----------------------------------------------------------------------------
(***************************************************************************)
(* Properties                                                              *)
(***************************************************************************)

\* Types, and threads of two levels.
TypeOK ==
    /\ AccountTypeOK
    /\ \A c \in Written : comment[c].author \in Users /\ comment[c].text \in Texts \cup {None}
    /\ \A c \in Written : comment[c].parent \in Written => Depth(comment[c].parent) = 0
    /\ typed \in [Writers -> 0..MaxDrafts] /\ lost \in [Texts -> 0..MaxLost]
    /\ box \in [Writers -> 0..MaxDrafts] /\ sent \in [Writers -> 0..MaxDrafts]
    /\ \A w \in Writers : box[w] <= typed[w] /\ sent[w] <= typed[w]

\* The rows that hold draft n of tab w.
Copies(w, n) == {c \in Written : comment[c].text = <<w, n>>}

\* Comments.tsx:48-60, `posting` and setNewBody: whatever is edited, fails or is posted
\* again, a draft is stored once, and once more for each lost answer to a post of it at
\* most; and a form is emptied only of a draft that is stored, of one that was typed
\* while a post ran (its answer clears that too), or by leaving the page.
StoredOnce ==
    [][\A w \in Writers :
          /\ \A n \in Drafts : Cardinality(Copies(w, n)') <= 1 + lost'[<<w, n>>]
          /\ box[w] # 0 /\ box'[w] = 0 =>
                \/ Copies(w, box[w]) # {}
                \/ request[w].op = "post" /\ sent[w] < box[w]
                \/ request[w] = Idle /\ request'[w].op = "session"]_vars

=============================================================================
