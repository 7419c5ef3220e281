------------------------------ MODULE EditorForm ------------------------------
(***************************************************************************)
(* The autosaving form of an article: components/ContentPartEditorForm.tsx *)
(* with Editor.tsx and CategoryPicker.tsx, the page around it, and the      *)
(* routes that it calls, each in one step (what happens inside them is in  *)
(* ContentLifecycle and RevisionHistory).  One creator writes in one tab;  *)
(* another may delete the category.                                        *)
(***************************************************************************)
EXTENDS Integers, FiniteSets, SequencesExt

CONSTANTS
    None, List,    \* no page, the page with the list of items
    MaxEdits,      \* edits
    MaxCalls,      \* requests under way
    MaxLost        \* answers that get lost

\* What the screen shows of an item: its id or 0, the text as the set of the edits in it
\* and the text that it was mounted with; see below for the rest.
Forms == [id : Nat, text : SUBSET Nat, initial : SUBSET Nat, stale : BOOLEAN, tagged : BOOLEAN,
          public : BOOLEAN, said : {"idle", "saved", "error"}, timer : BOOLEAN, session : BOOLEAN]

ASSUME EditorAssumption ==
    /\ {MaxEdits, MaxCalls, MaxLost} \subseteq Nat /\ MaxCalls > 0
    /\ None # List /\ None \notin Nat /\ List \notin Nat /\ None \notin Forms

VARIABLES
    row,         \* the items that the form created
    category,    \* one category is there
    form,        \* the form on the screen, or None
    goto,        \* the page that the router goes to, or None
    calls,       \* the requests under way, the oldest first
    edits,       \* the edits made
    early,       \* those made before the session was known and not taken along since (history)
    lost,        \* answers lost
    hurried      \* an edit or a request came while it could do harm

vars == <<row, category, form, goto, calls, edits, early, lost, hurried>>

Writes == {"create", "update", "publish", "unpublish", "delete"}

Writing  == \E i \in DOMAIN calls : calls[i].op \in Writes
Moving   == goto # None \/ \E i \in DOMAIN calls : calls[i].op \in {"create", "delete"}
Uploads  == {i \in DOMAIN calls : calls[i].op = "upload"}
Room     == Cardinality(edits) + Cardinality(Uploads) < MaxEdits
Unsaved  == form.timer \/ form.said = "error"

Blank == [id |-> 0, text |-> {}, initial |-> {}, stale |-> FALSE, tagged |-> FALSE,
          public |-> FALSE, said |-> "idle", timer |-> FALSE, session |-> FALSE]

\* The effect that autosaves runs when the text or the categories change.  Its timer
\* keeps the `save` of that moment: before the session is known that one does nothing.
Arm(f) == [f EXCEPT !.timer = f.session /\ f.text # {}]

\* A form on an existing item starts from the row; `stale` says that the editor
\* shows initialHtml and not the text of the form.
Mounted(r) ==
    Arm([Blank EXCEPT !.id = r, !.text = row[r].text, !.initial = row[r].text,
                      !.tagged = row[r].tagged, !.public = row[r].public])

Init ==
    /\ row = <<>> /\ category = TRUE /\ calls = <<>> /\ edits = {} /\ early = {} /\ lost = 0
    /\ form = None /\ goto = None /\ hurried = FALSE

-----------------------------------------------------------------------------
(***************************************************************************)
(* Pages                                                                   *)
(***************************************************************************)

\* From the list to the form for a new item, or to the page of one.
OpenNew ==
    /\ form = None /\ goto = None
    /\ form' = Blank
    /\ UNCHANGED <<row, category, goto, calls, edits, early, lost, hurried>>

Choose ==
    /\ form = None /\ goto = None
    /\ \E r \in DOMAIN row : ~row[r].deleted /\ goto' = r
    /\ UNCHANGED <<row, category, form, calls, edits, early, lost, hurried>>

\* The creator leaves the form.
Leave ==
    /\ form # None /\ goto = None
    /\ goto' = List
    /\ hurried' = (hurried \/ Writing \/ Unsaved)
    /\ UNCHANGED <<row, category, form, calls, edits, early, lost>>

\* Requests go on, but what they would set is gone.
Disown(ops) == [i \in DOMAIN calls |-> [calls[i] EXCEPT !.mine = @ /\ calls[i].op \notin ops]]

\* The page is replaced: the form is unmounted and its timer cleared.
Swap ==
    /\ form # None /\ goto # None
    /\ form' = None
    /\ calls' = Disown(Writes \cup {"upload"})
    /\ UNCHANGED <<row, category, goto, edits, early, lost, hurried>>

\* The page of an item loads it and mounts the form; that of a deleted one stays empty.
Arrive ==
    /\ form = None /\ goto # None
    /\ form' = IF goto = List \/ row[goto].deleted THEN None ELSE Mounted(goto)
    /\ goto' = None
    /\ hurried' = (hurried \/ Writing)
    /\ UNCHANGED <<row, category, calls, edits, early, lost>>

\* useSession has its answer.
SessionKnown ==
    /\ form # None /\ ~form.session
    /\ form' = [form EXCEPT !.session = TRUE]
    /\ UNCHANGED <<row, category, goto, calls, edits, early, lost, hurried>>

-----------------------------------------------------------------------------
(***************************************************************************)
(* The creator at the form                                                 *)
(***************************************************************************)

\* Mutant: no dependency on the text.
EditedUnarmed(f, e) == [f EXCEPT !.text = (IF f.stale THEN f.initial ELSE f.text) \cup {e},
                                 !.stale = FALSE]

\* An edit in the editor: the form takes over what the editor holds.
Edited(f, e) ==
    Arm([f EXCEPT !.text = (IF f.stale THEN f.initial ELSE f.text) \cup {e}, !.stale = FALSE])

\* What an armed timer, or a save of a page that stays, takes along.
Taken(f) == IF f.session THEN early \ f.text ELSE early

\* An edit before the session is known arms nothing that saves.  Hurried is an edit when
\* the page is about to change, or in an editor that does not show the text of the form.
Edit(e) ==
    /\ form' = Edited(form, e)
    /\ edits' = edits \cup {e}
    /\ early' = Taken(form) \cup IF form.session THEN {} ELSE {e}
    /\ hurried' = (hurried \/ Moving \/ form.stale)

Type ==
    /\ form # None /\ Room
    /\ Edit(Cardinality(edits) + 1)
    /\ UNCHANGED <<row, category, goto, calls, lost>>

\* Preview takes the editor away, and an image that is on its way to it; coming back
\* another editor shows initialHtml.
Preview ==
    /\ form # None
    /\ form' = [form EXCEPT !.stale = form.text # form.initial]
    /\ calls' = Disown({"upload"})
    /\ UNCHANGED <<row, category, goto, edits, early, lost, hurried>>

\* The category is chosen or dropped, in a list that is as old as the page.
ToggleTag ==
    /\ form # None
    /\ form' = Arm([form EXCEPT !.tagged = ~@])
    /\ early' = Taken(form)
    /\ hurried' = (hurried \/ Moving)
    /\ UNCHANGED <<row, category, goto, calls, edits, lost>>

Call(op, f, publish) ==
    [op |-> op, id |-> f.id, text |-> f.text, tagged |-> f.tagged, publish |-> publish,
     mine |-> TRUE, step |-> "wire"]

\* Two writes under way may be served in any order; deleting drops what is not saved.
Send(call) ==
    /\ Len(calls) < MaxCalls
    /\ calls' = Append(calls, call)
    /\ hurried' = (hurried \/ (call.op \in Writes /\ Writing) \/ (call.op = "delete" /\ Unsaved))

\* Mutant: save uses what the form was mounted with.
DraftMounted(f, publish) ==
    Call(IF f.id = 0 THEN "create" ELSE "update", [f EXCEPT !.text = f.initial], publish)

\* save reads the latest state; "idle" stands for "saving" too; `publish` marks the one that publishNow waits for.
Draft(f, publish) == Call(IF f.id = 0 THEN "create" ELSE "update", f, publish)

Save(f, publish) ==
    /\ f.session /\ f.text # {}
    /\ Send(Draft(f, publish))
    /\ form' = [f EXCEPT !.said = "idle"]
    /\ early' = IF goto = None THEN Taken(f) ELSE early
    /\ UNCHANGED <<row, category, goto, edits, lost>>

Click   == form # None /\ Save(form, FALSE)
Fire    == form # None /\ form.timer /\ Save([form EXCEPT !.timer = FALSE], FALSE)
Publish == form # None /\ form.id # 0 /\ ~form.public /\ Save(form, TRUE)

\* unpublishNow, deleteNow and uploadInlineImage, which carry no text.
Ask ==
    /\ form # None /\ form.session
    /\ \/ form.id # 0 /\ form.public /\ Send(Call("unpublish", [Blank EXCEPT !.id = form.id], FALSE))
       \/ form.id # 0 /\ Send(Call("delete", [Blank EXCEPT !.id = form.id], FALSE))
       \/ Room /\ Uploads = {} /\ Send(Call("upload", Blank, FALSE))
    /\ UNCHANGED <<row, category, form, goto, edits, early, lost>>

-----------------------------------------------------------------------------
(***************************************************************************)
(* The API                                                                 *)
(***************************************************************************)

\* requireExistingCategories.
Valid(tagged) == tagged => category

\* requireOwnedItem.
Found(r) == r \in DOMAIN row /\ ~row[r].deleted

Create(c) ==
    /\ c.op = "create" /\ Valid(c.tagged)
    /\ row' = Append(row, [text |-> c.text, tagged |-> c.tagged, public |-> FALSE, deleted |-> FALSE])

Change(c) ==
    /\ Found(c.id)
    /\ \/ /\ c.op = "update" /\ Valid(c.tagged)
          /\ row' = [row EXCEPT ![c.id].text = c.text, ![c.id].tagged = c.tagged]
       \/ c.op = "publish" /\ row' = [row EXCEPT ![c.id].public = TRUE]
       \/ c.op = "unpublish" /\ row' = [row EXCEPT ![c.id].public = FALSE]
       \/ c.op = "delete" /\ row' = [row EXCEPT ![c.id].public = FALSE, ![c.id].deleted = TRUE]

\* A file of the right type and size is stored under a new name.
Upload(c) == c.op = "upload" /\ UNCHANGED row

Reply(i, step, id) ==
    calls' = [calls EXCEPT ![i].step = step, ![i].id = id, ![i].text = {}, ![i].tagged = FALSE]

Serve(i) ==
    /\ calls[i].step = "wire"
    /\ Create(calls[i]) \/ Change(calls[i]) \/ Upload(calls[i])
    /\ Reply(i, "ok", IF calls[i].op = "create" THEN Len(row') ELSE calls[i].id)
    /\ UNCHANGED <<category, form, goto, edits, early, lost, hurried>>

\* The request is refused, or does not arrive.
Fail(i) ==
    /\ calls[i].step = "wire"
    /\ Reply(i, "error", calls[i].id)
    /\ UNCHANGED <<row, category, form, goto, edits, early, lost, hurried>>

LoseAnswer(i) ==
    /\ calls[i].step = "ok" /\ lost < MaxLost
    /\ calls' = [calls EXCEPT ![i].step = "error"] /\ lost' = lost + 1
    /\ UNCHANGED <<row, category, form, goto, edits, early, hurried>>

\* Another creator deletes the category.
CategoryGone ==
    /\ category /\ category' = FALSE
    /\ UNCHANGED <<row, form, goto, calls, edits, early, lost, hurried>>

-----------------------------------------------------------------------------
(***************************************************************************)
(* Answers                                                                 *)
(***************************************************************************)

Said(c) == IF c.step = "ok" THEN "saved" ELSE "error"

\* Mutant: the form does not keep the id.
WithoutId(f, c) == [f EXCEPT !.said = Said(c)]

AfterSave(f, c) ==
    [f EXCEPT !.said = Said(c), !.id = IF c.step = "ok" THEN c.id ELSE @]

After(f, c) ==
    CASE c.op \in {"create", "update"} -> AfterSave(f, c)
      [] c.op \in {"publish", "unpublish"} /\ c.step = "ok" -> [f EXCEPT !.public = (c.op = "publish")]
      [] OTHER -> f

\* An image goes into the editor, if it is still there.
Answered(i) ==
    LET c == calls[i] IN
    /\ c.step # "wire"
    /\ IF c.op = "upload" /\ c.step = "ok" /\ c.mine
       THEN Edit(Cardinality(edits) + 1)
       ELSE /\ form' = IF c.mine THEN After(form, c) ELSE form
            /\ UNCHANGED <<edits, early, hurried>>
    /\ goto' = CASE c.step = "ok" /\ c.op = "create" -> c.id
                 [] c.step = "ok" /\ c.op = "delete" -> List
                 [] OTHER -> goto
    /\ calls' = IF c.publish
                THEN [calls EXCEPT ![i].op = "publish", ![i].publish = FALSE, ![i].step = "wire"]
                ELSE RemoveAt(calls, i)
    /\ UNCHANGED <<row, category, lost>>

-----------------------------------------------------------------------------

Creator == OpenNew \/ Choose \/ Leave \/ Type \/ Preview \/ ToggleTag \/ Click \/ Publish \/ Ask
Browser == Swap \/ Arrive \/ SessionKnown \/ Fire

Next ==
    \/ Creator \/ Browser \/ CategoryGone
    \/ \E i \in DOMAIN calls : Serve(i) \/ Fail(i) \/ LoseAnswer(i) \/ Answered(i)

\* Timers fire, pages are shown, requests are served or fail, and answers arrive.
Fairness ==
    /\ WF_vars(Browser)
    /\ \A i \in 1..MaxCalls :
         WF_vars(i \in DOMAIN calls /\ (Serve(i) \/ Fail(i))) /\ WF_vars(i \in DOMAIN calls /\ Answered(i))

Spec == Init /\ [][Next]_vars /\ Fairness

-----------------------------------------------------------------------------
(***************************************************************************)
(* Properties                                                              *)
(***************************************************************************)

\* Types; a request names an item that exists.
TypeOK ==
    /\ category \in BOOLEAN /\ edits \subseteq 1..MaxEdits /\ early \subseteq edits
    /\ \A r \in DOMAIN row : row[r].text \subseteq edits /\ row[r].text # {}
    /\ Len(calls) <= MaxCalls /\ lost \in 0..MaxLost
    /\ goto \in {None, List} \cup DOMAIN row
    /\ form # None => form.id \in 0..Len(row) /\ form.text \subseteq edits
    /\ \A i \in DOMAIN calls :
         IF calls[i].op \in {"update", "publish", "unpublish", "delete"} THEN calls[i].id \in DOMAIN row
         ELSE calls[i].op \in {"create", "upload"}

Quiet == form # None /\ goto = None /\ calls = <<>> /\ ~form.timer /\ ~hurried

\* ContentPartEditorForm.tsx, "Đã lưu": a form at rest that says "saved" shows what is
\* stored: the text, the categories and, if no answer got lost, the status.
SavedAsShown ==
    Quiet /\ form.said = "saved" =>
        /\ form.id \in DOMAIN row
        /\ row[form.id].text = form.text /\ row[form.id].tagged = form.tagged
        /\ lost = 0 => row[form.id].public = form.public

Stored == UNION {row[r].text : r \in DOMAIN row}

\* What autosave and the buttons answer for: all edits but those made before the session was
\* known that no edit, choice of a category or save of the same form came after.
Due == edits \ early

\* What is due is in the form or in an item, and what was typed goes into one item only (and
\* into one more for each lost answer): saving, answering and the change to the page of the
\* new item neither lose nor double it.
EditsKept ==
    ~hurried =>
        /\ Due \subseteq Stored \cup IF form = None THEN {} ELSE form.text
        /\ \A e \in edits : Cardinality({r \in DOMAIN row : e \in row[r].text}) <= 1 + lost

\* "Autosave": what is due is stored in the end, or the form says that it was not.  An edit
\* before the session is known is not due by itself (its timer calls a save that returns at
\* once, and the form says nothing); what comes after it takes it along.
EditsSettle ==
    ~(Due \subseteq Stored) ~>
        \/ hurried \/ Due \subseteq Stored
        \/ (form # None /\ form.said = "error")
=============================================================================
