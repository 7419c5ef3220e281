---------------------------- MODULE EditorProofs ----------------------------
(***************************************************************************)
(* What holds of the autosaving form for any number of edits, requests     *)
(* under way and lost answers, as long as the creator does not hurry: one  *)
(* write at a time is under way, and it writes what the form holds.        *)
(***************************************************************************)
EXTENDS EditorForm, FiniteSetTheorems, TLAPS

Ops   == Writes \cup {"upload"}
Items == [text : SUBSET Nat, tagged : BOOLEAN, public : BOOLEAN, deleted : BOOLEAN]
Requests == [op : Ops, id : Nat, text : SUBSET Nat, tagged : BOOLEAN, publish : BOOLEAN, mine : BOOLEAN,
             step : {"wire", "ok", "error"}]

Drafts   == {"create", "update"}
Ids      == 1..Len(row)
N        == Len(calls)

\* Types, and that edits are numbered as they are made.
EditorTypes ==
    /\ row \in Seq(Items) /\ calls \in Seq(Requests)
    /\ form = None \/ form \in Forms
    /\ goto \in {None, List} \cup Ids
    /\ IsFiniteSet(edits) /\ edits = 1..Cardinality(edits)
    /\ category \in BOOLEAN /\ lost \in Nat /\ hurried \in BOOLEAN

\* Only what was typed is sent and stored, and requests are about items that are there.
TextsFit ==
    /\ \A r \in Ids : row[r].text # {} /\ row[r].text \subseteq edits
    /\ form # None => form.id \in Ids \cup {0} /\ form.text \subseteq edits /\ form.initial \subseteq edits
    /\ form # None /\ form.timer => form.text # {}
    /\ \A i \in 1..N :
          /\ calls[i].text \subseteq edits
          /\ calls[i].op \in Drafts /\ calls[i].step = "wire" => calls[i].text # {}
          /\ calls[i].op \notin {"create", "upload"} => calls[i].id \in Ids
          /\ calls[i].op = "create" /\ calls[i].step = "ok" => calls[i].id \in Ids
          /\ calls[i].publish => calls[i].op = "update"
          /\ form = None => ~calls[i].mine

\* One write at a time, of the form on the screen.
OneWrite ==
    /\ \A i, j \in 1..N : calls[i].op \in Writes /\ calls[j].op \in Writes => i = j
    /\ form = None /\ goto = None => ~Writing
    /\ form # None =>
          \A i \in 1..N : calls[i].op \in Writes =>
              /\ calls[i].mine
              /\ IF calls[i].op = "create" THEN form.id = 0 ELSE calls[i].id = form.id

\* Other items than x that have edit e: answers to their creation were lost.
Others(x, e) == {r \in Ids : r # x /\ e \in row[r].text}

\* A draft on its way takes nothing from its item, and gives it nothing that more others have than answers were lost.
DraftFits ==
    \A i \in 1..N : calls[i].step = "wire" =>
        /\ calls[i].op = "create" => \A e \in calls[i].text : Cardinality(Others(0, e)) <= lost
        /\ calls[i].op = "update" =>
              /\ row[calls[i].id].text \subseteq calls[i].text
              /\ \A e \in calls[i].text : Cardinality(Others(calls[i].id, e)) <= lost

\* The same of the form, which a create that was served binds to the new item.
FormFits ==
    form # None =>
        /\ form.id # 0 => row[form.id].text \subseteq form.text
        /\ (\A i \in 1..N : ~(calls[i].op = "create" /\ calls[i].step = "ok")) =>
              \A e \in form.text : Cardinality(Others(form.id, e)) <= lost
        /\ \A i \in 1..N : calls[i].op = "create" /\ calls[i].step = "ok" =>
              \A e \in form.text : Cardinality(Others(calls[i].id, e)) <= lost

HasText(r) == r \in Ids /\ row[r].text = form.text
Shows(r)   == HasText(r) /\ row[r].tagged = form.tagged

\* What the form says is so, unless its timer runs: what is on its way or has been stored is what is shown.
\* Before the session is known it says nothing and sends nothing.
SaysSo ==
    form # None =>
        /\ form.said = "saved" /\ ~form.timer => Shows(form.id)
        /\ form.said = "idle" /\ ~form.timer /\ (\A i \in 1..N : calls[i].op \notin Drafts) =>
              form.text \ early \subseteq Stored
        /\ ~form.session => form.said = "idle" /\ ~form.timer /\ \A i \in 1..N : calls[i].op \notin Drafts
        /\ \A i \in 1..N :
              /\ calls[i].op \in Drafts /\ calls[i].step = "wire" =>
                    /\ calls[i].text \subseteq form.text
                    /\ \/ calls[i].text = form.text /\ calls[i].tagged = form.tagged
                       \/ form.timer /\ calls[i].op = "update"
              /\ calls[i].op \in Drafts /\ calls[i].step = "ok" =>
                    Shows(calls[i].id) \/ (form.timer /\ calls[i].op = "update")

\* The status that is shown is that of the item, if no answer was lost.
StatusFits ==
    lost = 0 /\ form # None /\ goto = None /\ form.id # 0 =>
        \/ row[form.id].public = form.public
        \/ \E i \in 1..N : calls[i].op \in {"publish", "unpublish", "delete"} /\ calls[i].step = "ok"

StatusServed ==
    lost = 0 /\ form # None => \A i \in 1..N : calls[i].op \in {"publish", "unpublish"} /\ calls[i].step = "ok" =>
        row[calls[i].id].public = (calls[i].op = "publish")

\* Nothing that is due is lost: not when the page is about to change, either.
NothingLost ==
    /\ Due \subseteq Stored \cup (IF form = None THEN {} ELSE form.text)
    /\ goto # None => Due \subseteq Stored
    /\ form # None => \A i \in 1..N : calls[i].op = "delete" => form.text \ early \subseteq Stored
    /\ \A e \in edits : Cardinality(Others(0, e)) <= 1 + lost

Calm == EditorTypes /\ TextsFit /\ OneWrite /\ DraftFits /\ FormFits /\ SaysSo /\ StatusFits /\ StatusServed /\ NothingLost

EditorInv == ~hurried => Calm

\* Values that are no page and no form.
LEMMA EditorConstants == None # List /\ None \notin Nat /\ List \notin Nat /\ None \notin Forms
  BY EditorAssumption

\* At first nothing is written.
LEMMA EditorStarts == Init => EditorInv
  <1> SUFFICES ASSUME Init PROVE Calm
    BY DEF EditorInv
  <1>1. /\ row = <<>> /\ category = TRUE /\ calls = <<>> /\ edits = {} /\ lost = 0
        /\ form = None /\ goto = None /\ hurried = FALSE /\ Ids = {} /\ N = 0
    BY DEF Init, Ids, N
  <1>2. EditorTypes
    <2>1. IsFiniteSet({}) /\ Cardinality({}) = 0
      BY FS_EmptySet
    <2>2. {} = 1..0
      OBVIOUS
    <2>3. <<>> \in Seq(Items) /\ <<>> \in Seq(Requests)
      OBVIOUS
    <2> QED
      BY <1>1, <2>1, <2>2, <2>3 DEF EditorTypes
  <1>3. TextsFit /\ OneWrite /\ DraftFits /\ FormFits /\ SaysSo /\ StatusFits /\ StatusServed
    BY <1>1 DEF TextsFit, OneWrite, DraftFits, FormFits, SaysSo, StatusFits, StatusServed, Writing
  <1>4. NothingLost
    BY <1>1 DEF NothingLost, Due
  <1> QED
    BY <1>2, <1>3, <1>4 DEF Calm

\* What the types say of rows, requests and the form.
LEMMA Rows ==
    ASSUME Calm
    PROVE  /\ Len(row) \in Nat /\ DOMAIN row = Ids /\ \A r \in Ids : row[r] \in Items /\ r \in Nat /\ r # 0
           /\ 0 \notin Ids /\ None \notin Ids /\ List \notin Ids
           /\ N \in Nat /\ DOMAIN calls = 1..N /\ \A i \in 1..N : calls[i] \in Requests
           /\ form # None => form \in Forms
           /\ \A S \in SUBSET Ids : IsFiniteSet(S) /\ Cardinality(S) \in Nat
  <1>1. row \in Seq(Items) /\ calls \in Seq(Requests) /\ (form = None \/ form \in Forms)
    BY DEF Calm, EditorTypes
  <1>2. Len(row) \in Nat /\ DOMAIN row = Ids /\ \A r \in Ids : row[r] \in Items /\ r \in Nat /\ r # 0
    BY <1>1 DEF Ids
  <1>3. N \in Nat /\ DOMAIN calls = 1..N /\ \A i \in 1..N : calls[i] \in Requests
    BY <1>1 DEF N
  <1>4. IsFiniteSet(Ids)
    BY <1>2, FS_Interval DEF Ids
  <1>5. \A S \in SUBSET Ids : IsFiniteSet(S) /\ Cardinality(S) \in Nat
    BY <1>4, FS_Subset, FS_CardinalityType
  <1> QED
    BY <1>1, <1>2, <1>3, <1>5, EditorConstants

\* The form of a new item.
LEMMA BlankFits ==
    /\ Blank \in Forms /\ Blank.id = 0 /\ Blank.text = {} /\ Blank.initial = {} /\ ~Blank.stale /\ ~Blank.tagged
    /\ ~Blank.public /\ Blank.said = "idle" /\ ~Blank.timer /\ ~Blank.session
  BY DEF Blank, Forms

\* Between pages
LEMMA OpenNewKeeps ==
    ASSUME Calm, OpenNew
    PROVE  Calm'
  <1>1. form = None /\ goto = None /\ form' = Blank /\ UNCHANGED <<row, category, goto, calls, edits, early, lost, hurried>>
    BY DEF OpenNew
  <1>2. /\ form' \in Forms /\ form'.id = 0 /\ form'.text = {} /\ form'.initial = {} /\ ~form'.timer
        /\ form'.said = "idle" /\ form' # None
    BY <1>1, BlankFits, EditorConstants
  <1>3. Ids' = Ids /\ N' = N /\ Writing' = Writing /\ Stored' = Stored /\ \A x, e : Others(x, e)' = Others(x, e)
    BY <1>1 DEF Ids, N, Writing, Stored, Others
  <1>4. ~Writing /\ \A i \in 1..N : calls[i].op \notin Writes
    BY <1>1, Rows DEF Calm, OneWrite, Writing
  <1>5. EditorTypes'
    BY <1>1, <1>2, <1>3 DEF Calm, EditorTypes
  <1>6. TextsFit'
    BY <1>1, <1>2, <1>3 DEF Calm, TextsFit
  <1>7. OneWrite'
    BY <1>1, <1>2, <1>3, <1>4 DEF Calm, OneWrite
  <1>8. DraftFits'
    BY <1>1, <1>3 DEF Calm, DraftFits
  <1>9. FormFits' /\ SaysSo' /\ StatusFits' /\ StatusServed'
    BY <1>1, <1>2, <1>3, <1>4 DEF FormFits, SaysSo, StatusFits, StatusServed, Writes, Drafts
  <1>10. NothingLost'
    BY <1>1, <1>2, <1>3, <1>4 DEF Calm, NothingLost, Writes, Due
  <1> QED
    BY <1>5, <1>6, <1>7, <1>8, <1>9, <1>10 DEF Calm

LEMMA ChooseKeeps ==
    ASSUME Calm, Choose
    PROVE  Calm'
  <1>1. /\ form = None /\ goto = None /\ UNCHANGED <<row, category, form, calls, edits, early, lost, hurried>>
        /\ goto' \in Ids
    BY Rows DEF Choose
  <1>2. Ids' = Ids /\ N' = N /\ Writing' = Writing /\ Stored' = Stored /\ \A x, e : Others(x, e)' = Others(x, e)
    BY <1>1 DEF Ids, N, Writing, Stored, Others
  <1>3. EditorTypes' /\ TextsFit'
    BY <1>1, <1>2 DEF Calm, EditorTypes, TextsFit
  <1>4. OneWrite' /\ DraftFits'
    BY <1>1, <1>2 DEF Calm, OneWrite, DraftFits
  <1>5. FormFits' /\ SaysSo' /\ StatusFits' /\ StatusServed'
    BY <1>1 DEF FormFits, SaysSo, StatusFits, StatusServed
  <1>6. NothingLost'
    BY <1>1, <1>2 DEF Calm, NothingLost, Due
  <1> QED
    BY <1>3, <1>4, <1>5, <1>6 DEF Calm

\* A form that has nothing unsaved and nothing on its way shows what is stored.
LEMMA SavedText ==
    ASSUME Calm, form # None, ~Unsaved, ~Writing
    PROVE  form.text \ early \subseteq Stored
  <1>1. /\ form \in Forms /\ ~form.timer /\ form.said \in {"idle", "saved"}
        /\ \A i \in 1..N : calls[i].op \notin Drafts
    BY Rows DEF Unsaved, Writing, Forms, Drafts, Writes
  <1>2. form.text \ early \subseteq Stored \/ HasText(form.id)
    BY <1>1 DEF Calm, SaysSo, Shows
  <1> QED
    BY <1>2, Rows DEF HasText, Stored

LEMMA LeaveKeeps ==
    ASSUME Calm, Leave, ~hurried'
    PROVE  Calm'
  <1>1. /\ form # None /\ goto = None /\ goto' = List /\ UNCHANGED <<row, category, form, calls, edits, early, lost>>
        /\ ~Writing /\ ~Unsaved /\ hurried' \in BOOLEAN
    BY DEF Leave
  <1>2. Ids' = Ids /\ N' = N /\ Writing' = Writing /\ Stored' = Stored /\ \A x, e : Others(x, e)' = Others(x, e)
    BY <1>1 DEF Ids, N, Writing, Stored, Others
  <1>3. EditorTypes' /\ TextsFit'
    BY <1>1, <1>2 DEF Calm, EditorTypes, TextsFit
  <1>4. OneWrite' /\ DraftFits'
    BY <1>1, <1>2 DEF Calm, OneWrite, DraftFits
  <1>5. FormFits' /\ SaysSo'
    BY <1>1, <1>2 DEF Calm, FormFits, SaysSo, Shows, HasText
  <1>6. StatusFits' /\ StatusServed'
    BY <1>1, <1>2, EditorConstants DEF Calm, StatusFits, StatusServed
  <1>7. NothingLost'
    BY <1>1, <1>2, SavedText DEF Calm, NothingLost, Due
  <1> QED
    BY <1>3, <1>4, <1>5, <1>6, <1>7 DEF Calm

\* What Disown leaves as it is.
LEMMA Disowned ==
    ASSUME Calm, NEW ops, calls' = Disown(ops)
    PROVE  /\ calls' \in Seq(Requests) /\ N' = N
           /\ \A i \in 1..N :
                 /\ calls'[i].op = calls[i].op /\ calls'[i].id = calls[i].id /\ calls'[i].text = calls[i].text
                 /\ calls'[i].tagged = calls[i].tagged /\ calls'[i].publish = calls[i].publish
                 /\ calls'[i].step = calls[i].step
                 /\ calls'[i].mine = (calls[i].mine /\ calls[i].op \notin ops)
  <1>1. DOMAIN calls = 1..N /\ N \in Nat /\ \A i \in 1..N : calls[i] \in Requests
    BY Rows
  <1>2. calls' = [i \in 1..N |-> [calls[i] EXCEPT !.mine = @ /\ calls[i].op \notin ops]]
    BY <1>1 DEF Disown
  <1>3. \A i \in 1..N : [calls[i] EXCEPT !.mine = @ /\ calls[i].op \notin ops] \in Requests
    BY <1>1 DEF Requests
  <1>4. calls' \in [1..N -> Requests]
    BY <1>2, <1>3
  <1>5. calls' \in Seq(Requests) /\ Len(calls') = N
    BY <1>1, <1>4
  <1> QED
    BY <1>1, <1>2, <1>5 DEF N, Requests

LEMMA SwapKeeps ==
    ASSUME Calm, Swap
    PROVE  Calm'
  <1>1. /\ form # None /\ goto # None /\ form' = None /\ UNCHANGED <<row, category, goto, edits, early, lost, hurried>>
        /\ calls' = Disown(Writes \cup {"upload"})
    BY DEF Swap
  <1>2. Ids' = Ids /\ Stored' = Stored /\ \A x, e : Others(x, e)' = Others(x, e)
    BY <1>1 DEF Ids, Stored, Others
  <1>3. /\ calls' \in Seq(Requests) /\ N' = N
        /\ \A i \in 1..N :
              /\ calls'[i].op = calls[i].op /\ calls'[i].id = calls[i].id /\ calls'[i].text = calls[i].text
              /\ calls'[i].publish = calls[i].publish
              /\ calls'[i].step = calls[i].step /\ ~calls'[i].mine
    <2>1. /\ calls' \in Seq(Requests) /\ N' = N
          /\ \A i \in 1..N :
                /\ calls'[i].op = calls[i].op /\ calls'[i].id = calls[i].id /\ calls'[i].text = calls[i].text
                /\ calls'[i].publish = calls[i].publish /\ calls'[i].step = calls[i].step
                /\ calls'[i].mine = (calls[i].mine /\ calls[i].op \notin Writes \cup {"upload"})
      BY <1>1, Disowned
    <2>2. \A i \in 1..N : calls[i].op \in Writes \cup {"upload"}
      BY Rows DEF Requests, Ops
    <2> QED
      BY <2>1, <2>2
  <1>4. EditorTypes'
    BY <1>1, <1>2, <1>3 DEF Calm, EditorTypes
  <1>5. TextsFit'
    <2>1. \A i \in 1..N :
            /\ calls'[i].text \subseteq edits
            /\ calls'[i].op \in Drafts /\ calls'[i].step = "wire" => calls'[i].text # {}
            /\ calls'[i].op \notin {"create", "upload"} => calls'[i].id \in Ids
            /\ calls'[i].op = "create" /\ calls'[i].step = "ok" => calls'[i].id \in Ids
            /\ calls'[i].publish => calls'[i].op = "update"
            /\ ~calls'[i].mine
      BY <1>3 DEF Calm, TextsFit
    <2>2. \A r \in Ids : row[r].text # {} /\ row[r].text \subseteq edits
      BY DEF Calm, TextsFit
    <2> QED
      BY <1>1, <1>2, <1>3, <2>1, <2>2 DEF TextsFit
  <1>6. OneWrite'
    BY <1>1, <1>3 DEF Calm, OneWrite
  <1>7. DraftFits'
    <2>1. ASSUME NEW i \in 1..N, calls'[i].step = "wire"
          PROVE  /\ calls'[i].op = "create" => \A e \in calls'[i].text : Cardinality(Others(0, e)) <= lost
                 /\ calls'[i].op = "update" =>
                       /\ row[calls'[i].id].text \subseteq calls'[i].text
                       /\ \A e \in calls'[i].text : Cardinality(Others(calls'[i].id, e)) <= lost
      BY <1>3, <2>1 DEF Calm, DraftFits
    <2> QED
      BY <1>1, <1>2, <1>3, <2>1 DEF DraftFits
  <1>8. FormFits' /\ SaysSo' /\ StatusFits' /\ StatusServed'
    BY <1>1 DEF FormFits, SaysSo, StatusFits, StatusServed
  <1>9. NothingLost'
    BY <1>1, <1>2 DEF Calm, NothingLost, Due
  <1> QED
    BY <1>4, <1>5, <1>6, <1>7, <1>8, <1>9 DEF Calm

\* The form of an item is what is stored, and waits for nothing.
LEMMA MountedFields ==
    ASSUME Calm, NEW r \in Ids
    PROVE  /\ Mounted(r) \in Forms /\ Mounted(r).id = r /\ Mounted(r).text = row[r].text
           /\ Mounted(r).initial = row[r].text /\ Mounted(r).tagged = row[r].tagged
           /\ Mounted(r).public = row[r].public /\ Mounted(r).said = "idle" /\ ~Mounted(r).timer
  <1>1. row[r] \in Items /\ r \in Nat
    BY Rows
  <1> QED
    BY <1>1 DEF Mounted, Arm, Blank, Forms, Items

\* One item less to count.
LEMMA OneOther ==
    ASSUME Calm, NEW x \in Ids, NEW e, e \in row[x].text
    PROVE  Cardinality(Others(0, e)) = Cardinality(Others(x, e)) + 1
  <1>1. Others(0, e) = Others(x, e) \cup {x} /\ x \notin Others(x, e)
    BY Rows DEF Others
  <1>2. IsFiniteSet(Others(x, e))
    BY Rows DEF Others
  <1> QED
    BY <1>1, <1>2, FS_AddElement

LEMMA ArriveKeeps ==
    ASSUME Calm, Arrive, ~hurried'
    PROVE  Calm'
  <1>1. /\ form = None /\ goto # None /\ form' = (IF goto = List \/ row[goto].deleted THEN None ELSE Mounted(goto))
        /\ goto' = None /\ UNCHANGED <<row, category, calls, edits, early, lost>> /\ ~Writing /\ hurried' \in BOOLEAN
    BY DEF Arrive
  <1>2. Ids' = Ids /\ N' = N /\ Writing' = Writing /\ Stored' = Stored /\ \A x, e : Others(x, e)' = Others(x, e)
    BY <1>1 DEF Ids, N, Writing, Stored, Others
  <1>3. /\ \A i \in 1..N : calls[i].op \notin Writes
        /\ Due \subseteq Stored
    BY <1>1, Rows DEF Writing, Calm, NothingLost, Due
  <1>4. CASE form' = None
    <2>1. EditorTypes' /\ TextsFit'
      BY <1>1, <1>2, <1>4 DEF Calm, EditorTypes, TextsFit
    <2>2. OneWrite' /\ DraftFits'
      BY <1>1, <1>2, <1>4 DEF Calm, OneWrite, DraftFits
    <2>3. FormFits' /\ SaysSo' /\ StatusFits' /\ StatusServed'
      BY <1>4 DEF FormFits, SaysSo, StatusFits, StatusServed
    <2>4. NothingLost'
      BY <1>1, <1>2, <1>3, <1>4 DEF Calm, NothingLost, Due
    <2> QED
      BY <2>1, <2>2, <2>3, <2>4 DEF Calm
  <1>5. CASE form' # None
    <2>1. goto \in Ids /\ form' = Mounted(goto)
      BY <1>1, <1>5 DEF Calm, EditorTypes
    <2>2. /\ form' \in Forms /\ form'.id = goto /\ form'.text = row[goto].text /\ form'.initial = row[goto].text
          /\ form'.public = row[goto].public /\ form'.said = "idle" /\ ~form'.timer
      BY <2>1, MountedFields
    <2>3. row[goto].text \subseteq edits
      BY <2>1 DEF Calm, TextsFit
    <2>4. EditorTypes'
      BY <1>1, <1>2, <2>2 DEF Calm, EditorTypes
    <2>5. TextsFit'
      BY <1>1, <1>2, <1>5, <2>1, <2>2, <2>3 DEF Calm, TextsFit
    <2>6. OneWrite'
      BY <1>1, <1>2, <1>3 DEF OneWrite
    <2>7. DraftFits'
      BY <1>1, <1>2 DEF Calm, DraftFits
    <2>8. ASSUME NEW e \in row[goto].text PROVE Cardinality(Others(goto, e)) <= lost
      <3>1. e \in edits /\ Others(goto, e) \subseteq Ids
        BY <2>3 DEF Others
      <3>2. Cardinality(Others(0, e)) <= 1 + lost /\ lost \in Nat
        BY <3>1 DEF Calm, NothingLost, EditorTypes, Due
      <3>3. Cardinality(Others(goto, e)) \in Nat
        BY <3>1, Rows
      <3> QED
        BY <2>1, <3>2, <3>3, OneOther
    <2>9. FormFits'
      BY <1>1, <1>2, <1>3, <2>2, <2>8 DEF FormFits, Writes
    <2>10. SaysSo'
      <3>1. form'.text \subseteq Stored'
        BY <1>2, <2>1, <2>2, Rows DEF Stored
      <3> QED
        BY <1>1, <1>2, <1>3, <2>1, <2>2, <3>1 DEF SaysSo, HasText, Drafts, Writes
    <2>11. StatusFits' /\ StatusServed'
      BY <1>1, <1>2, <1>3, <2>2 DEF StatusFits, StatusServed, Writes
    <2>12. NothingLost'
      BY <1>1, <1>2, <1>3 DEF Calm, NothingLost, Writes, Due
    <2> QED
      BY <2>4, <2>5, <2>6, <2>7, <2>9, <2>10, <2>11, <2>12 DEF Calm
  <1> QED
    BY <1>4, <1>5

LEMMA SessionKnownKeeps ==
    ASSUME Calm, SessionKnown
    PROVE  Calm'
  <1>1. /\ form # None /\ form' = [form EXCEPT !.session = TRUE]
        /\ UNCHANGED <<row, category, goto, calls, edits, early, lost, hurried>> /\ form \in Forms
    BY Rows DEF SessionKnown
  <1>2. /\ form' \in Forms /\ form' # None /\ form'.id = form.id /\ form'.text = form.text
        /\ form'.initial = form.initial /\ form'.tagged = form.tagged /\ form'.public = form.public
        /\ form'.said = form.said /\ form'.timer = form.timer /\ form'.session
    BY <1>1, EditorConstants DEF Forms
  <1>3. Ids' = Ids /\ N' = N /\ Writing' = Writing /\ Stored' = Stored /\ \A x, e : Others(x, e)' = Others(x, e)
    BY <1>1 DEF Ids, N, Writing, Stored, Others
  <1>4. \A r : Shows(r)' = Shows(r) /\ HasText(r)' = HasText(r)
    BY <1>1, <1>2, <1>3 DEF Shows, HasText
  <1>5. EditorTypes' /\ TextsFit'
    BY <1>1, <1>2, <1>3 DEF Calm, EditorTypes, TextsFit
  <1>6. OneWrite' /\ DraftFits'
    BY <1>1, <1>2, <1>3 DEF Calm, OneWrite, DraftFits
  <1>7. FormFits'
    BY <1>1, <1>2, <1>3 DEF Calm, FormFits
  <1>8. SaysSo'
    BY <1>1, <1>2, <1>3, <1>4 DEF Calm, SaysSo
  <1>9. StatusFits' /\ StatusServed'
    BY <1>1, <1>2, <1>3 DEF Calm, StatusFits, StatusServed
  <1>10. NothingLost'
    BY <1>1, <1>2, <1>3 DEF Calm, NothingLost, Due
  <1> QED
    BY <1>5, <1>6, <1>7, <1>8, <1>9, <1>10 DEF Calm

LEMMA CategoryGoneKeeps ==
    ASSUME Calm, CategoryGone
    PROVE  Calm'
  <1>1. UNCHANGED <<row, form, goto, calls, edits, early, lost, hurried>> /\ category' \in BOOLEAN
    BY DEF CategoryGone
  <1>2. Ids' = Ids /\ N' = N /\ Writing' = Writing /\ Stored' = Stored /\ \A x, e : Others(x, e)' = Others(x, e)
    BY <1>1 DEF Ids, N, Writing, Stored, Others
  <1>3. \A r : Shows(r)' = Shows(r) /\ HasText(r)' = HasText(r)
    BY <1>1, <1>2 DEF Shows, HasText
  <1>4. EditorTypes' /\ TextsFit'
    BY <1>1, <1>2 DEF Calm, EditorTypes, TextsFit
  <1>5. OneWrite' /\ DraftFits' /\ FormFits'
    BY <1>1, <1>2 DEF Calm, OneWrite, DraftFits, FormFits
  <1>6. SaysSo' /\ StatusFits' /\ StatusServed'
    BY <1>1, <1>2, <1>3 DEF Calm, SaysSo, StatusFits, StatusServed
  <1>7. NothingLost'
    BY <1>1, <1>2 DEF Calm, NothingLost, Due
  <1> QED
    BY <1>4, <1>5, <1>6, <1>7 DEF Calm

\* The requests s are some of those under way, with all the writes.
SameWrites(s) ==
    /\ s \in Seq(Requests)
    /\ \A j \in 1..Len(s) : \E i \in 1..N : s[j] = calls[i]
    /\ \A i \in 1..N : calls[i].op \in Writes => \E j \in 1..Len(s) : s[j] = calls[i]
    /\ \A j, k \in 1..Len(s) : s[j].op \in Writes /\ s[k].op \in Writes => j = k

\* An edit, with the requests that stay.
LEMMA EditKeeps ==
    ASSUME Calm, form # None, Edit(Cardinality(edits) + 1), ~hurried',
           UNCHANGED <<row, category, goto, lost>>, SameWrites(calls')
    PROVE  Calm'
  <1> DEFINE k == Cardinality(edits) + 1
  <1>1. /\ form' = Edited(form, k) /\ edits' = edits \cup {k} /\ UNCHANGED <<row, category, goto, lost>>
        /\ early' = Taken(form) \cup (IF form.session THEN {} ELSE {k})
        /\ ~form.stale /\ goto = None /\ form \in Forms /\ hurried' \in BOOLEAN
        /\ \A i \in 1..N : calls[i].op \notin {"create", "delete"}
    BY Rows DEF Edit, Moving
  <1>2. IsFiniteSet(edits) /\ edits = 1..Cardinality(edits) /\ Cardinality(edits) \in Nat
    BY FS_CardinalityType DEF Calm, EditorTypes
  <1>3. k \in Nat /\ k \notin edits /\ edits' = 1..k /\ IsFiniteSet(edits') /\ Cardinality(edits') = k
    <2>1. k \in Nat /\ k \notin edits /\ 1..k = (1..Cardinality(edits)) \cup {k}
      BY <1>2
    <2>2. edits' = 1..k
      BY <1>1, <1>2, <2>1
    <2>3. IsFiniteSet(edits \cup {k}) /\ Cardinality(edits \cup {k}) = k
      BY <1>2, <2>1, FS_AddElement
    <2>4. edits' = edits \cup {k}
      BY <1>1
    <2> QED
      BY <2>1, <2>2, <2>3, <2>4
  <1> HIDE DEF k
  <1>4. /\ form' \in Forms /\ form' # None /\ form'.id = form.id /\ form'.text = form.text \cup {k}
        /\ form'.initial = form.initial /\ form'.tagged = form.tagged /\ form'.public = form.public
        /\ form'.said = form.said /\ form'.timer = form.session /\ form'.session = form.session
    <2> DEFINE g == [form EXCEPT !.text = form.text \cup {k}, !.stale = FALSE]
    <2>1. /\ g \in Forms /\ g.id = form.id /\ g.text = form.text \cup {k} /\ g.initial = form.initial
          /\ g.tagged = form.tagged /\ g.public = form.public /\ g.said = form.said /\ g.session = form.session /\ form.session \in BOOLEAN
      BY <1>1, <1>3 DEF Forms
    <2>2. form' = Arm(g)
      BY <1>1 DEF Edited
    <2> HIDE DEF g
    <2>3. form' = [g EXCEPT !.timer = form.session]
      BY <2>1, <2>2 DEF Arm
    <2> QED
      BY <2>1, <2>3, EditorConstants DEF Forms
  <1>5. Ids' = Ids /\ Stored' = Stored /\ \A x, e : Others(x, e)' = Others(x, e)
    BY <1>1 DEF Ids, Stored, Others
  <1>6. \A r \in Ids : row[r].text # {} /\ row[r].text \subseteq edits
    BY DEF Calm, TextsFit
  <1>7. \A x : Cardinality(Others(x, k)) = 0
    <2>1. \A x : Others(x, k) = {}
      BY <1>3, <1>6 DEF Others
    <2> QED
      BY <2>1, FS_EmptySet
  <1>8. N' \in Nat /\ \A j \in 1..N' : \E i \in 1..N : calls'[j] = calls[i]
    BY DEF SameWrites, N
  <1>9. \A i \in 1..N : calls[i].op \in Writes => \E j \in 1..N' : calls'[j] = calls[i]
    BY DEF SameWrites, N
  <1>10. lost \in Nat /\ edits \subseteq edits'
    BY <1>1 DEF Calm, EditorTypes
  <1>11. EditorTypes'
    BY <1>1, <1>3, <1>4, <1>5 DEF Calm, EditorTypes, SameWrites
  <1>12. TextsFit'
    <2>1. ASSUME NEW j \in 1..N'
          PROVE  /\ calls'[j].text \subseteq edits'
                 /\ calls'[j].op \in Drafts /\ calls'[j].step = "wire" => calls'[j].text # {}
                 /\ calls'[j].op \notin {"create", "upload"} => calls'[j].id \in Ids
                 /\ calls'[j].op = "create" /\ calls'[j].step = "ok" => calls'[j].id \in Ids
                 /\ calls'[j].publish => calls'[j].op = "update"
      BY <1>8, <1>10 DEF Calm, TextsFit
    <2>2. form.id \in Ids \cup {0} /\ form.text \subseteq edits /\ form.initial \subseteq edits
      BY DEF Calm, TextsFit
    <2> QED
      BY <1>1, <1>4, <1>5, <1>6, <1>10, <2>1, <2>2 DEF TextsFit
  <1>13. OneWrite'
    <2>1. ASSUME NEW j \in 1..N', calls'[j].op \in Writes
          PROVE  calls'[j].mine /\ IF calls'[j].op = "create" THEN form'.id = 0 ELSE calls'[j].id = form'.id
      BY <1>4, <1>8, <2>1 DEF Calm, OneWrite
    <2>2. \A i, j \in 1..N' : calls'[i].op \in Writes /\ calls'[j].op \in Writes => i = j
      BY DEF SameWrites, N
    <2> QED
      BY <1>4, <2>1, <2>2 DEF OneWrite
  <1>14. DraftFits'
    <2>1. ASSUME NEW j \in 1..N', calls'[j].step = "wire"
          PROVE  /\ calls'[j].op = "create" => \A e \in calls'[j].text : Cardinality(Others(0, e)) <= lost
                 /\ calls'[j].op = "update" =>
                       /\ row[calls'[j].id].text \subseteq calls'[j].text
                       /\ \A e \in calls'[j].text : Cardinality(Others(calls'[j].id, e)) <= lost
      BY <1>8, <2>1 DEF Calm, DraftFits
    <2> QED
      BY <1>1, <1>5, <2>1 DEF DraftFits
  <1>15. FormFits'
    <2>1. form.id # 0 => row[form.id].text \subseteq form.text
      BY DEF Calm, FormFits
    <2>2. \A e \in form.text : Cardinality(Others(form.id, e)) <= lost
      BY <1>1 DEF Calm, FormFits
    <2>3. \A e \in form'.text : Cardinality(Others(form'.id, e)) <= lost
      BY <1>4, <1>7, <1>10, <2>2
    <2>4. \A j \in 1..N' : calls'[j].op # "create"
      BY <1>1, <1>8
    <2> QED
      BY <1>1, <1>4, <1>5, <2>1, <2>3, <2>4 DEF FormFits
  <1>16. SaysSo'
    <2>1. ASSUME NEW j \in 1..N', calls'[j].op \in Drafts
          PROVE  calls'[j].op = "update" /\ (calls'[j].step = "wire" => calls'[j].text \subseteq form.text)
      BY <1>1, <1>8, <2>1 DEF Calm, SaysSo, Drafts
    <2>2. CASE form.session
      BY <1>4, <2>1, <2>2 DEF SaysSo
    <2>3. CASE ~form.session
      <3>1. form.said = "idle" /\ \A i \in 1..N : calls[i].op \notin Drafts
        BY <2>3 DEF Calm, SaysSo
      <3>2. \A j \in 1..N' : calls'[j].op \notin Drafts
        BY <1>8, <3>1
      <3>3. ~form.timer => form'.text \ early' \subseteq Stored
        <4>1. ~form.timer => form.text \ early \subseteq Stored
          BY <3>1 DEF Calm, SaysSo
        <4> QED
          BY <1>1, <1>4, <2>3, <4>1 DEF Taken
      <3>4. ~form.timer
        BY <2>3 DEF Calm, SaysSo
      <3> QED
        BY <1>4, <1>5, <2>3, <3>1, <3>2, <3>3, <3>4 DEF SaysSo
    <2> QED
      BY <2>2, <2>3
  <1>17. StatusFits' /\ StatusServed'
    <2>1. ASSUME lost = 0, form.id # 0, row[form.id].public # form.public
          PROVE  \E j \in 1..N' : calls'[j].op \in {"publish", "unpublish", "delete"} /\ calls'[j].step = "ok"
      <3>1. PICK i \in 1..N : calls[i].op \in {"publish", "unpublish", "delete"} /\ calls[i].step = "ok"
        BY <1>1, <2>1 DEF Calm, StatusFits
      <3> QED
        BY <1>9, <3>1 DEF Writes
    <2>2. ASSUME lost = 0, NEW j \in 1..N', calls'[j].op \in {"publish", "unpublish"}, calls'[j].step = "ok"
          PROVE  row[calls'[j].id].public = (calls'[j].op = "publish")
      BY <1>8, <2>2 DEF Calm, StatusServed
    <2> QED
      BY <1>1, <1>4, <2>1, <2>2 DEF StatusFits, StatusServed
  <1>18. NothingLost'
    <2>1. Due' \subseteq Stored \cup form'.text
      <3>1. Due \subseteq Stored \cup form.text
        BY DEF Calm, NothingLost, Due
      <3> QED
        BY <1>1, <1>4, <3>1 DEF Due, Taken
    <2>4. \A e \in edits : Cardinality(Others(0, e)) <= 1 + lost
      BY DEF Calm, NothingLost, Due
    <2>2. \A j \in 1..N' : calls'[j].op # "delete"
      BY <1>1, <1>8
    <2>3. \A e \in edits' : Cardinality(Others(0, e)) <= 1 + lost
      BY <1>1, <1>7, <1>10, <2>4
    <2> QED
      BY <1>1, <1>4, <1>5, <2>1, <2>2, <2>3 DEF NothingLost, Due
  <1> QED
    BY <1>11, <1>12, <1>13, <1>14, <1>15, <1>16, <1>17, <1>18 DEF Calm

LEMMA TypeKeeps ==
    ASSUME Calm, Type, ~hurried'
    PROVE  Calm'
  <1>1. form # None /\ Edit(Cardinality(edits) + 1) /\ UNCHANGED <<row, category, goto, lost>> /\ calls' = calls
    BY DEF Type
  <1>2. SameWrites(calls')
    BY <1>1 DEF SameWrites, Calm, EditorTypes, OneWrite, N
  <1> QED
    BY <1>1, <1>2, EditKeeps

LEMMA PreviewKeeps ==
    ASSUME Calm, Preview
    PROVE  Calm'
  <1>1. /\ form # None /\ form' = [form EXCEPT !.stale = form.text # form.initial]
        /\ calls' = Disown({"upload"}) /\ UNCHANGED <<row, category, goto, edits, early, lost, hurried>> /\ form \in Forms
    BY Rows DEF Preview
  <1>2. /\ form' \in Forms /\ form' # None /\ form'.id = form.id /\ form'.text = form.text
        /\ form'.initial = form.initial /\ form'.tagged = form.tagged /\ form'.public = form.public
        /\ form'.said = form.said /\ form'.timer = form.timer /\ form'.session = form.session
    BY <1>1, EditorConstants DEF Forms
  <1>3. Ids' = Ids /\ Stored' = Stored /\ \A x, e : Others(x, e)' = Others(x, e)
    BY <1>1 DEF Ids, Stored, Others
  <1>4. /\ calls' \in Seq(Requests) /\ N' = N
        /\ \A i \in 1..N :
              /\ calls'[i].op = calls[i].op /\ calls'[i].id = calls[i].id /\ calls'[i].text = calls[i].text
              /\ calls'[i].tagged = calls[i].tagged /\ calls'[i].publish = calls[i].publish
              /\ calls'[i].step = calls[i].step /\ (calls[i].op \in Writes /\ calls[i].mine => calls'[i].mine)
    <2>1. /\ calls' \in Seq(Requests) /\ N' = N
          /\ \A i \in 1..N :
                /\ calls'[i].op = calls[i].op /\ calls'[i].id = calls[i].id /\ calls'[i].text = calls[i].text
                /\ calls'[i].tagged = calls[i].tagged /\ calls'[i].publish = calls[i].publish
                /\ calls'[i].step = calls[i].step
                /\ calls'[i].mine = (calls[i].mine /\ calls[i].op \notin {"upload"})
      BY <1>1, Disowned
    <2>2. "upload" \notin Writes
      BY DEF Writes
    <2> QED
      BY <2>1, <2>2
  <1>5. \A r : Shows(r)' = Shows(r) /\ HasText(r)' = HasText(r)
    BY <1>1, <1>2, <1>3 DEF Shows, HasText
  <1>6. EditorTypes'
    BY <1>1, <1>2, <1>3, <1>4 DEF Calm, EditorTypes
  <1>7. TextsFit'
    <2>1. \A i \in 1..N :
            /\ calls'[i].text \subseteq edits
            /\ calls'[i].op \in Drafts /\ calls'[i].step = "wire" => calls'[i].text # {}
            /\ calls'[i].op \notin {"create", "upload"} => calls'[i].id \in Ids
            /\ calls'[i].op = "create" /\ calls'[i].step = "ok" => calls'[i].id \in Ids
            /\ calls'[i].publish => calls'[i].op = "update"
      BY <1>4 DEF Calm, TextsFit
    <2>2. \A r \in Ids : row[r].text # {} /\ row[r].text \subseteq edits
      BY DEF Calm, TextsFit
    <2>3. /\ form.id \in Ids \cup {0} /\ form.text \subseteq edits /\ form.initial \subseteq edits
          /\ form.timer => form.text # {}
      BY <1>1 DEF Calm, TextsFit
    <2> QED
      BY <1>1, <1>2, <1>3, <1>4, <2>1, <2>2, <2>3 DEF TextsFit
  <1>8. OneWrite'
    BY <1>1, <1>2, <1>4 DEF Calm, OneWrite
  <1>9. DraftFits'
    <2>1. ASSUME NEW i \in 1..N, calls'[i].step = "wire"
          PROVE  /\ calls'[i].op = "create" => \A e \in calls'[i].text : Cardinality(Others(0, e)) <= lost
                 /\ calls'[i].op = "update" =>
                       /\ row[calls'[i].id].text \subseteq calls'[i].text
                       /\ \A e \in calls'[i].text : Cardinality(Others(calls'[i].id, e)) <= lost
      BY <1>4, <2>1 DEF Calm, DraftFits
    <2> QED
      BY <1>1, <1>3, <1>4, <2>1 DEF DraftFits
  <1>10. FormFits'
    BY <1>1, <1>2, <1>3, <1>4 DEF Calm, FormFits
  <1>11. SaysSo'
    BY <1>1, <1>2, <1>3, <1>4, <1>5 DEF Calm, SaysSo
  <1>12. StatusFits' /\ StatusServed'
    BY <1>1, <1>2, <1>4 DEF Calm, StatusFits, StatusServed
  <1>13. NothingLost'
    BY <1>1, <1>2, <1>3, <1>4 DEF Calm, NothingLost, Due
  <1> QED
    BY <1>6, <1>7, <1>8, <1>9, <1>10, <1>11, <1>12, <1>13 DEF Calm

LEMMA ToggleTagKeeps ==
    ASSUME Calm, ToggleTag, ~hurried'
    PROVE  Calm'
  <1>1. /\ form # None /\ form' = Arm([form EXCEPT !.tagged = ~@])
        /\ UNCHANGED <<row, category, goto, calls, edits, lost>> /\ form \in Forms /\ hurried' \in BOOLEAN
        /\ early' = Taken(form) /\ goto = None /\ \A i \in 1..N : calls[i].op \notin {"create", "delete"}
    BY Rows DEF ToggleTag, Moving
  <1>2. /\ form' \in Forms /\ form' # None /\ form'.id = form.id /\ form'.text = form.text
        /\ form'.initial = form.initial /\ form'.public = form.public
        /\ form'.said = form.said /\ form'.timer = (form.session /\ form.text # {}) /\ form'.session = form.session
    <2> DEFINE f == [form EXCEPT !.tagged = ~@]
    <2>1. /\ f \in Forms /\ f.id = form.id /\ f.text = form.text /\ f.initial = form.initial
          /\ f.public = form.public /\ f.said = form.said /\ f.session = form.session
      BY <1>1 DEF Forms
    <2> HIDE DEF f
    <2>2. form' = [f EXCEPT !.timer = f.session /\ f.text # {}]
      BY <1>1 DEF Arm, f
    <2>3. /\ form' \in Forms /\ form'.id = f.id /\ form'.text = f.text /\ form'.initial = f.initial
          /\ form'.public = f.public /\ form'.said = f.said /\ form'.session = f.session
          /\ form'.timer = (f.session /\ f.text # {})
      BY <2>1, <2>2 DEF Forms
    <2>4. form' # None
      BY <2>3, EditorConstants
    <2> QED
      BY <2>1, <2>3, <2>4
  <1>3. Ids' = Ids /\ N' = N /\ Writing' = Writing /\ Stored' = Stored /\ \A x, e : Others(x, e)' = Others(x, e)
    BY <1>1 DEF Ids, N, Writing, Stored, Others
  <1>4. EditorTypes' /\ TextsFit'
    BY <1>1, <1>2, <1>3 DEF Calm, EditorTypes, TextsFit
  <1>5. OneWrite' /\ DraftFits'
    BY <1>1, <1>2, <1>3 DEF Calm, OneWrite, DraftFits
  <1>6. FormFits'
    BY <1>1, <1>2, <1>3 DEF Calm, FormFits
  <1>7. SaysSo'
    <2>1. CASE form.text # {} /\ form.session
      BY <1>1, <1>2, <1>3, <2>1 DEF Calm, SaysSo, Drafts
    <2>3. CASE ~form.session
      <3>1. /\ form.said = "idle" /\ ~form.timer /\ (\A i \in 1..N : calls[i].op \notin Drafts)
            /\ form.text \ early \subseteq Stored
        BY <1>1, <2>3 DEF Calm, SaysSo
      <3>2. early' = early /\ ~form'.timer
        BY <1>1, <1>2, <2>3 DEF Taken
      <3> QED
        BY <1>1, <1>2, <1>3, <3>1, <3>2 DEF SaysSo
    <2>4. ~form.session => form.said = "idle" /\ ~form.timer /\ \A i \in 1..N : calls[i].op \notin Drafts
      BY <1>1 DEF Calm, SaysSo
    <2>2. CASE form.text = {}
      <3>1. ~form.timer /\ \A r : ~HasText(r)
        BY <1>1, <2>2 DEF Calm, TextsFit, HasText
      <3>2. form.said # "saved" /\ \A i \in 1..N : calls[i].op \notin Drafts \/ calls[i].step \notin {"wire", "ok"}
        <4>1. form.said # "saved"
          BY <1>1, <3>1 DEF Calm, SaysSo, Shows
        <4>2. ASSUME NEW i \in 1..N, calls[i].op \in Drafts PROVE calls[i].step \notin {"wire", "ok"}
          <5>1. calls[i].step # "wire"
            BY <1>1, <2>2, <4>2 DEF Calm, TextsFit, SaysSo
          <5>2. calls[i].step # "ok"
            BY <1>1, <3>1, <4>2 DEF Calm, SaysSo, Shows
          <5> QED
            BY <5>1, <5>2
        <4> QED
          BY <4>1, <4>2
      <3> QED
        BY <1>1, <1>2, <1>3, <2>2, <2>4, <3>2 DEF SaysSo
    <2> QED
      BY <2>1, <2>2, <2>3
  <1>8. StatusFits' /\ StatusServed'
    BY <1>1, <1>2, <1>3 DEF Calm, StatusFits, StatusServed
  <1>9. NothingLost'
    <2>1. Due' \subseteq Stored \cup form.text
      <3>1. Due \subseteq Stored \cup form.text
        BY <1>1 DEF Calm, NothingLost
      <3> QED
        BY <1>1, <3>1 DEF Due, Taken
    <2> QED
      BY <1>1, <1>2, <1>3, <2>1 DEF Calm, NothingLost
  <1> QED
    BY <1>4, <1>5, <1>6, <1>7, <1>8, <1>9 DEF Calm

\* One request more.
LEMMA Sent ==
    ASSUME Calm, NEW c \in Requests, calls' = Append(calls, c)
    PROVE  /\ calls' \in Seq(Requests) /\ N \in Nat /\ N' = N + 1 /\ 1..N' = (1..N) \cup {N + 1} /\ N + 1 \notin 1..N
           /\ calls'[N + 1] = c /\ \A i \in 1..N : calls'[i] = calls[i]
  BY DEF Calm, EditorTypes, N

LEMMA SaveKeeps ==
    ASSUME Calm, form # None, NEW f \in Forms, f.id = form.id, f.text = form.text, f.initial = form.initial,
           f.tagged = form.tagged, f.public = form.public, f.timer => form.timer,
           NEW publish \in BOOLEAN, publish => form.id # 0, Save(f, publish), ~hurried'
    PROVE  Calm'
  <1> DEFINE c == Draft(f, publish)
  <1>1. /\ calls' = Append(calls, c) /\ form' = [f EXCEPT !.said = "idle"] /\ form.text # {}
        /\ UNCHANGED <<row, category, goto, edits, lost>> /\ hurried' \in BOOLEAN /\ f.session
        /\ ~Writing /\ early' = (IF goto = None THEN early \ form.text ELSE early)
    BY DEF Save, Send, Draft, Call, Writes, Taken
  <1>2. /\ c \in Requests /\ c.op = (IF form.id = 0 THEN "create" ELSE "update") /\ c.id = form.id /\ c.text = form.text
        /\ c.tagged = form.tagged /\ c.publish = publish /\ c.mine /\ c.step = "wire"
    BY DEF Draft, Call, Forms, Requests, Ops, Writes
  <1> HIDE DEF c
  <1>3. /\ form' \in Forms /\ form' # None /\ form'.id = form.id /\ form'.text = form.text
        /\ form'.initial = form.initial /\ form'.tagged = form.tagged /\ form'.public = form.public
        /\ form'.said = "idle" /\ (form'.timer => form.timer) /\ form'.session
    BY <1>1, EditorConstants DEF Forms
  <1>4. /\ calls' \in Seq(Requests) /\ N \in Nat /\ N' = N + 1 /\ 1..N' = (1..N) \cup {N + 1} /\ N + 1 \notin 1..N
        /\ calls'[N + 1] = c /\ \A i \in 1..N : calls'[i] = calls[i]
    BY <1>1, <1>2, Sent
  <1>5. \A i \in 1..N : calls[i].op \notin Writes
    BY <1>1, Rows DEF Writing
  <1>6. Ids' = Ids /\ Stored' = Stored /\ \A x, e : Others(x, e)' = Others(x, e)
    BY <1>1 DEF Ids, Stored, Others
  <1>7. EditorTypes'
    BY <1>1, <1>3, <1>4, <1>6 DEF Calm, EditorTypes
  <1>8. /\ form.id \in Ids \cup {0} /\ form.text \subseteq edits /\ form.initial \subseteq edits
        /\ \A r \in Ids : row[r].text # {} /\ row[r].text \subseteq edits
    BY DEF Calm, TextsFit
  <1>9. TextsFit'
    <2>1. ASSUME NEW i \in 1..N'
          PROVE  /\ calls'[i].text \subseteq edits
                 /\ calls'[i].op \in Drafts /\ calls'[i].step = "wire" => calls'[i].text # {}
                 /\ calls'[i].op \notin {"create", "upload"} => calls'[i].id \in Ids
                 /\ calls'[i].op = "create" /\ calls'[i].step = "ok" => calls'[i].id \in Ids
                 /\ calls'[i].publish => calls'[i].op = "update"
      <3>1. CASE i \in 1..N
        BY <1>4, <3>1 DEF Calm, TextsFit
      <3>2. CASE i = N + 1
        BY <1>1, <1>2, <1>4, <1>8, <3>2
      <3> QED
        BY <1>4, <3>1, <3>2
    <2> QED
      BY <1>1, <1>3, <1>6, <1>8, <2>1 DEF TextsFit
  <1>10. OneWrite'
    <2>1. ASSUME NEW i \in 1..N', calls'[i].op \in Writes
          PROVE  i = N + 1 /\ calls'[i].mine /\ IF calls'[i].op = "create" THEN form'.id = 0 ELSE calls'[i].id = form'.id
      BY <1>2, <1>3, <1>4, <1>5, <2>1
    <2> QED
      BY <1>3, <2>1 DEF OneWrite
  <1>11. FormFits'
    <2>1. form.id # 0 => row[form.id].text \subseteq form.text
      BY DEF Calm, FormFits
    <2>2. \A e \in form.text : Cardinality(Others(form.id, e)) <= lost
      BY <1>5 DEF Calm, FormFits, Writes
    <2>3. \A i \in 1..N' : ~(calls'[i].op = "create" /\ calls'[i].step = "ok")
      BY <1>2, <1>4, <1>5 DEF Writes
    <2> QED
      BY <1>1, <1>3, <1>6, <2>1, <2>2, <2>3 DEF FormFits
  <1>12. DraftFits'
    <2>1. ASSUME NEW i \in 1..N', calls'[i].op \in Drafts
          PROVE  /\ calls'[i].op = "create" => \A e \in calls'[i].text : Cardinality(Others(0, e)) <= lost
                 /\ calls'[i].op = "update" =>
                       /\ row[calls'[i].id].text \subseteq calls'[i].text
                       /\ \A e \in calls'[i].text : Cardinality(Others(calls'[i].id, e)) <= lost
      <3>1. calls'[i] = c
        BY <1>4, <1>5, <2>1 DEF Drafts, Writes
      <3>2. \A e \in form.text : Cardinality(Others(form.id, e)) <= lost
        BY <1>5 DEF Calm, FormFits, Writes
      <3>3. form.id # 0 => row[form.id].text \subseteq form.text
        BY DEF Calm, FormFits
      <3> QED
        BY <1>2, <3>1, <3>2, <3>3
    <2> QED
      BY <1>1, <1>6, <2>1 DEF DraftFits, Drafts
  <1>13. SaysSo'
    <2>1. ASSUME NEW i \in 1..N', calls'[i].op \in Drafts PROVE calls'[i] = c
      BY <1>4, <1>5, <2>1 DEF Drafts, Writes
    <2>2. calls'[N + 1].op \in Drafts /\ N + 1 \in 1..N'
      BY <1>2, <1>4 DEF Drafts
    <2> QED
      BY <1>2, <1>3, <2>1, <2>2 DEF SaysSo
  <1>14. StatusFits' /\ StatusServed'
    <2>1. lost = 0 /\ goto = None /\ form.id # 0 => row[form.id].public = form.public
      BY <1>5 DEF Calm, StatusFits, Writes
    <2>2. \A i \in 1..N' : calls'[i].op \notin {"publish", "unpublish"}
      BY <1>2, <1>4, <1>5 DEF Writes
    <2> QED
      BY <1>1, <1>3, <2>1, <2>2 DEF StatusFits, StatusServed
  <1>15. NothingLost'
    <2>1. \A i \in 1..N' : calls'[i].op # "delete"
      BY <1>2, <1>4, <1>5 DEF Writes
    <2> QED
      <3>1. /\ Due \subseteq Stored \cup form.text /\ (goto # None => Due \subseteq Stored)
            /\ \A e \in edits : Cardinality(Others(0, e)) <= 1 + lost
        BY DEF Calm, NothingLost
      <3>2. Due' \subseteq Stored \cup form.text /\ (goto # None => Due' \subseteq Stored)
        BY <1>1, <3>1 DEF Due
      <3> QED
        BY <1>1, <1>3, <1>6, <2>1, <3>1, <3>2 DEF NothingLost
  <1> QED
    BY <1>7, <1>9, <1>10, <1>11, <1>12, <1>13, <1>14, <1>15 DEF Calm

LEMMA SavesKeep ==
    ASSUME Calm, Click \/ Fire \/ Publish, ~hurried'
    PROVE  Calm'
  <1>1. form # None /\ form \in Forms
    BY Rows DEF Click, Fire, Publish
  <1>2. CASE Click
    BY <1>1, <1>2, SaveKeeps DEF Click
  <1>3. CASE Fire
    <2> DEFINE f == [form EXCEPT !.timer = FALSE]
    <2>1. /\ f \in Forms /\ f.id = form.id /\ f.text = form.text /\ f.initial = form.initial
          /\ f.tagged = form.tagged /\ f.public = form.public /\ ~f.timer
      BY <1>1 DEF Forms
    <2>2. Save(f, FALSE)
      BY <1>3 DEF Fire
    <2> HIDE DEF f
    <2> QED
      BY <1>1, <2>1, <2>2, SaveKeeps
  <1>4. CASE Publish
    BY <1>1, <1>4, SaveKeeps DEF Publish
  <1> QED
    BY <1>2, <1>3, <1>4

\* A request that carries no text.
LEMMA AskedKeeps ==
    ASSUME Calm, form # None, NEW c \in Requests, calls' = Append(calls, c),
           c.op \in {"unpublish", "delete", "upload"}, c.step = "wire", c.text = {}, ~c.publish, c.mine,
           c.op \in Writes => ~Writing /\ c.id = form.id /\ form.id # 0,
           c.op = "delete" => form.text \ early \subseteq Stored,
           UNCHANGED <<row, category, form, goto, edits, early, lost>>, hurried' \in BOOLEAN
    PROVE  Calm'
  <1>1. /\ calls' \in Seq(Requests) /\ N \in Nat /\ N' = N + 1 /\ 1..N' = (1..N) \cup {N + 1} /\ N + 1 \notin 1..N
        /\ calls'[N + 1] = c /\ \A i \in 1..N : calls'[i] = calls[i]
    BY Sent
  <1>2. c.op \in Writes => \A i \in 1..N : calls[i].op \notin Writes
    BY Rows DEF Writing
  <1>3. Ids' = Ids /\ Stored' = Stored /\ \A x, e : Others(x, e)' = Others(x, e)
    BY DEF Ids, Stored, Others
  <1>4. \A r : Shows(r)' = Shows(r) /\ HasText(r)' = HasText(r)
    BY <1>3 DEF Shows, HasText
  <1>5. EditorTypes'
    BY <1>1, <1>3 DEF Calm, EditorTypes
  <1>6. /\ form.id \in Ids \cup {0} /\ form.text \subseteq edits /\ form.initial \subseteq edits
        /\ form.timer => form.text # {}
        /\ \A r \in Ids : row[r].text # {} /\ row[r].text \subseteq edits
    BY DEF Calm, TextsFit
  <1>7. TextsFit'
    <2>1. ASSUME NEW i \in 1..N'
          PROVE  /\ calls'[i].text \subseteq edits
                 /\ calls'[i].op \in Drafts /\ calls'[i].step = "wire" => calls'[i].text # {}
                 /\ calls'[i].op \notin {"create", "upload"} => calls'[i].id \in Ids
                 /\ calls'[i].op = "create" /\ calls'[i].step = "ok" => calls'[i].id \in Ids
                 /\ calls'[i].publish => calls'[i].op = "update"
      <3>1. CASE i \in 1..N
        BY <1>1, <3>1, ZenonT(60) DEF Calm, TextsFit
      <3>2. CASE i = N + 1
        BY <1>1, <1>6, <3>2 DEF Drafts, Writes
      <3> QED
        BY <1>1, <3>1, <3>2
    <2> QED
      BY <1>3, <1>6, <2>1 DEF TextsFit
  <1>8. OneWrite'
    <2>1. ASSUME NEW i \in 1..N', calls'[i].op \in Writes
          PROVE  calls'[i].mine /\ IF calls'[i].op = "create" THEN form.id = 0 ELSE calls'[i].id = form.id
      <3>1. CASE i \in 1..N
        BY <1>1, <2>1, <3>1, ZenonT(60) DEF Calm, OneWrite
      <3>2. CASE i = N + 1
        BY <1>1, <2>1, <3>2
      <3> QED
        BY <1>1, <3>1, <3>2
    <2>2. ASSUME NEW i \in 1..N', NEW j \in 1..N', calls'[i].op \in Writes, calls'[j].op \in Writes
          PROVE  i = j
      <3>1. CASE c.op \in Writes
        BY <1>1, <1>2, <2>2, <3>1
      <3>2. CASE c.op \notin Writes
        <4>1. i \in 1..N /\ j \in 1..N
          BY <1>1, <2>2, <3>2
        <4> QED
          BY <1>1, <2>2, <4>1 DEF Calm, OneWrite
      <3> QED
        BY <3>1, <3>2
    <2> QED
      BY <2>1, <2>2 DEF OneWrite
  <1>9. DraftFits'
    <2>1. ASSUME NEW i \in 1..N', calls'[i].step = "wire", calls'[i].op \in Drafts
          PROVE  /\ calls'[i].op = "create" => \A e \in calls'[i].text : Cardinality(Others(0, e)) <= lost
                 /\ calls'[i].op = "update" =>
                       /\ row[calls'[i].id].text \subseteq calls'[i].text
                       /\ \A e \in calls'[i].text : Cardinality(Others(calls'[i].id, e)) <= lost
      <3>1. i \in 1..N
        BY <1>1, <2>1 DEF Drafts
      <3> QED
        BY <1>1, <2>1, <3>1, ZenonT(60) DEF Calm, DraftFits
    <2> QED
      BY <1>3, <2>1 DEF DraftFits, Drafts
  <1>10. FormFits'
    <2>1. form.id # 0 => row[form.id].text \subseteq form.text
      BY DEF Calm, FormFits
    <2>2. CASE \A i \in 1..N : ~(calls[i].op = "create" /\ calls[i].step = "ok")
      <3>1. \A e \in form.text : Cardinality(Others(form.id, e)) <= lost
        BY <2>2 DEF Calm, FormFits
      <3>2. \A i \in 1..N' : ~(calls'[i].op = "create" /\ calls'[i].step = "ok")
        BY <1>1, <2>2, ZenonT(60)
      <3> QED
        BY <1>3, <2>1, <3>1, <3>2 DEF FormFits
    <2>3. CASE ~\A i \in 1..N : ~(calls[i].op = "create" /\ calls[i].step = "ok")
      <3>1. PICK k \in 1..N : calls[k].op = "create" /\ calls[k].step = "ok"
        BY <2>3
      <3>2. k \in 1..N' /\ calls'[k].op = "create" /\ calls'[k].step = "ok"
        BY <1>1, <3>1
      <3>3. ASSUME NEW i \in 1..N', calls'[i].op = "create", calls'[i].step = "ok", NEW e \in form.text
            PROVE  Cardinality(Others(calls'[i].id, e)) <= lost
        <4>1. i \in 1..N /\ calls'[i] = calls[i]
          BY <1>1, <3>3
        <4> QED
          BY <3>3, <4>1 DEF Calm, FormFits
      <3> QED
        BY <1>3, <2>1, <3>2, <3>3 DEF FormFits
    <2> QED
      BY <2>2, <2>3
  <1>11. SaysSo'
    <2>1. form.said = "saved" /\ ~form.timer => Shows(form.id)
      BY DEF Calm, SaysSo
    <2>2. ASSUME form.said = "idle", ~form.timer, \A i \in 1..N' : calls'[i].op \notin Drafts
          PROVE  form.text \ early \subseteq Stored
      <3>1. \A i \in 1..N : calls[i].op \notin Drafts
        BY <1>1, <2>2
      <3> QED
        BY <2>2, <3>1 DEF Calm, SaysSo
    <2>3. ASSUME NEW i \in 1..N', calls'[i].op \in Drafts
          PROVE  /\ calls'[i].step = "wire" =>
                       /\ calls'[i].text \subseteq form.text
                       /\ \/ calls'[i].text = form.text /\ calls'[i].tagged = form.tagged
                          \/ form.timer /\ calls'[i].op = "update"
                 /\ calls'[i].step = "ok" => Shows(calls'[i].id) \/ (form.timer /\ calls'[i].op = "update")
      <3>1. i \in 1..N /\ calls'[i] = calls[i]
        BY <1>1, <2>3 DEF Drafts
      <3> QED
        BY <2>3, <3>1 DEF Calm, SaysSo
    <2>4. ~form.session => form.said = "idle" /\ ~form.timer /\ \A i \in 1..N' : calls'[i].op \notin Drafts
      <3>1. ~form.session => form.said = "idle" /\ ~form.timer /\ \A i \in 1..N : calls[i].op \notin Drafts
        BY DEF Calm, SaysSo
      <3> QED
        BY <1>1, <3>1 DEF Drafts
    <2> QED
      BY <1>3, <1>4, <2>1, <2>2, <2>3, <2>4 DEF SaysSo
  <1>12. StatusFits' /\ StatusServed'
    <2>1. ASSUME lost = 0, goto = None, form.id # 0, row[form.id].public # form.public
          PROVE  \E i \in 1..N' : calls'[i].op \in {"publish", "unpublish", "delete"} /\ calls'[i].step = "ok"
      <3>1. PICK i \in 1..N : calls[i].op \in {"publish", "unpublish", "delete"} /\ calls[i].step = "ok"
        BY <2>1 DEF Calm, StatusFits
      <3> QED
        BY <1>1, <3>1
    <2>2. ASSUME lost = 0, NEW i \in 1..N', calls'[i].op \in {"publish", "unpublish"}, calls'[i].step = "ok"
          PROVE  row[calls'[i].id].public = (calls'[i].op = "publish")
      <3>1. i \in 1..N /\ calls'[i] = calls[i]
        BY <1>1, <2>2
      <3> QED
        BY <2>2, <3>1 DEF Calm, StatusServed
    <2> QED
      BY <2>1, <2>2 DEF StatusFits, StatusServed
  <1>13. NothingLost'
    <2>1. ASSUME NEW i \in 1..N', calls'[i].op = "delete" PROVE form.text \ early \subseteq Stored
      BY <1>1, <2>1 DEF Calm, NothingLost, Due
    <2> QED
      BY <1>3, <2>1 DEF Calm, NothingLost, Due
  <1> QED
    BY <1>5, <1>7, <1>8, <1>9, <1>10, <1>11, <1>12, <1>13 DEF Calm

LEMMA AskKeeps ==
    ASSUME Calm, Ask, ~hurried'
    PROVE  Calm'
  <1>1. form # None /\ form \in Forms /\ UNCHANGED <<row, category, form, goto, edits, early, lost>>
    BY Rows DEF Ask
  <1> DEFINE B == [Blank EXCEPT !.id = form.id]
  <1>2. /\ B.id = form.id /\ form.id \in Nat /\ B.text = {} /\ B.tagged = FALSE
        /\ Blank.id = 0 /\ Blank.text = {} /\ Blank.tagged = FALSE
    BY <1>1 DEF Blank, Forms
  <1> HIDE DEF B
  <1>3. CASE form.id # 0 /\ form.public /\ Send(Call("unpublish", B, FALSE))
    <2> DEFINE c == Call("unpublish", B, FALSE)
    <2>1. /\ c \in Requests /\ c.op = "unpublish" /\ c.step = "wire" /\ c.text = {} /\ ~c.publish /\ c.mine
          /\ c.id = form.id
      BY <1>2 DEF Call, Requests, Ops, Writes
    <2>2. calls' = Append(calls, c) /\ hurried' = (hurried \/ (c.op \in Writes /\ Writing) \/ (c.op = "delete" /\ Unsaved))
      BY <1>3 DEF Send
    <2> HIDE DEF c
    <2> QED
      BY <1>1, <1>3, <2>1, <2>2, AskedKeeps
  <1>4. CASE form.id # 0 /\ Send(Call("delete", B, FALSE))
    <2> DEFINE c == Call("delete", B, FALSE)
    <2>1. /\ c \in Requests /\ c.op = "delete" /\ c.step = "wire" /\ c.text = {} /\ ~c.publish /\ c.mine
          /\ c.id = form.id
      BY <1>2 DEF Call, Requests, Ops, Writes
    <2>2. calls' = Append(calls, c) /\ hurried' = (hurried \/ (c.op \in Writes /\ Writing) \/ (c.op = "delete" /\ Unsaved))
      BY <1>4 DEF Send
    <2> HIDE DEF c
    <2>3. ~Writing /\ ~Unsaved
      BY <2>1, <2>2 DEF Writes
    <2>4. form.text \ early \subseteq Stored
      BY <1>1, <2>3, SavedText
    <2> QED
      BY <1>1, <1>4, <2>1, <2>2, <2>3, <2>4, AskedKeeps
  <1>5. CASE Send(Call("upload", Blank, FALSE))
    <2> DEFINE c == Call("upload", Blank, FALSE)
    <2>1. c \in Requests /\ c.op = "upload" /\ c.step = "wire" /\ c.text = {} /\ ~c.publish /\ c.mine
      <3>1. c = [op |-> "upload", id |-> 0, text |-> {}, tagged |-> FALSE, publish |-> FALSE, mine |-> TRUE, step |-> "wire"]
        BY <1>2 DEF Call
      <3> HIDE DEF c
      <3> QED
        BY <3>1 DEF Requests, Ops
    <2>2. calls' = Append(calls, c) /\ hurried' = (hurried \/ (c.op \in Writes /\ Writing) \/ (c.op = "delete" /\ Unsaved))
      BY <1>5 DEF Send
    <2> HIDE DEF c
    <2> QED
      BY <1>1, <2>1, <2>2, AskedKeeps DEF Writes
  <1> QED
    BY <1>3, <1>4, <1>5 DEF Ask, B

\* What the API leaves of a request that it has answered.
LEMMA Replied ==
    ASSUME Calm, NEW i \in 1..N, NEW step \in {"ok", "error"}, NEW id \in Nat, Reply(i, step, id)
    PROVE  /\ calls' \in Seq(Requests) /\ N' = N
           /\ \A j \in 1..N : j # i => calls'[j] = calls[j]
           /\ calls'[i].op = calls[i].op /\ calls'[i].id = id /\ calls'[i].text = {} /\ calls'[i].publish = calls[i].publish
           /\ calls'[i].mine = calls[i].mine /\ calls'[i].step = step
  <1> DEFINE c == [calls[i] EXCEPT !.step = step, !.id = id, !.text = {}, !.tagged = FALSE]
  <1>1. calls[i] \in Requests /\ DOMAIN calls = 1..N /\ N \in Nat /\ calls \in Seq(Requests)
    BY Rows DEF Calm, EditorTypes
  <1>2. /\ c \in Requests /\ c.op = calls[i].op /\ c.id = id /\ c.text = {} /\ c.publish = calls[i].publish
        /\ c.mine = calls[i].mine /\ c.step = step
    BY <1>1 DEF Requests
  <1>3. calls' = [calls EXCEPT ![i] = c]
    BY <1>1 DEF Reply
  <1> HIDE DEF c
  <1> QED
    BY <1>1, <1>2, <1>3 DEF N

LEMMA Alone ==
    ASSUME Calm, NEW i \in 1..N, calls[i].op \in Writes
    PROVE  /\ \A j \in 1..N : j # i => calls[j].op \notin Writes
           /\ form # None => calls[i].mine /\ IF calls[i].op = "create" THEN form.id = 0 ELSE calls[i].id = form.id
  BY DEF Calm, OneWrite

\* The API
LEMMA CreateKeeps ==
    ASSUME Calm, NEW i \in 1..N, calls[i].step = "wire", Create(calls[i]), Reply(i, "ok", Len(row')),
           UNCHANGED <<category, form, goto, edits, early, lost, hurried>>
    PROVE  Calm'
  <1> DEFINE new == [text |-> calls[i].text, tagged |-> calls[i].tagged, public |-> FALSE, deleted |-> FALSE]
  <1>1. PICK n \in Nat : n = Len(row) + 1
    BY Rows
  <1>2. calls[i].op = "create" /\ row' = Append(row, new)
    BY DEF Create
  <1>3. new \in Items /\ new.text = calls[i].text /\ new.tagged = calls[i].tagged
    BY Rows DEF Items, Requests
  <1> HIDE DEF new
  <1>4. /\ row' \in Seq(Items) /\ Ids' = Ids \cup {n} /\ n \notin Ids /\ n # 0 /\ Len(row') = n
        /\ row'[n] = new /\ \A x \in Ids : row'[x] = row[x]
    BY <1>1, <1>2, <1>3 DEF Calm, EditorTypes, Ids
  <1>5. /\ calls' \in Seq(Requests) /\ N' = N
        /\ \A j \in 1..N : j # i => calls'[j] = calls[j]
        /\ calls'[i].op = calls[i].op /\ calls'[i].id = n /\ calls'[i].text = {} /\ calls'[i].publish = calls[i].publish
        /\ calls'[i].mine = calls[i].mine /\ calls'[i].step = "ok"
    BY <1>4, Replied
  <1>6. \A j \in 1..N : j # i => calls[j].op \notin Writes
    BY <1>2, Alone DEF Writes
  <1>7. \A j \in 1..N : calls'[j].op \in Writes => j = i
    BY <1>5, <1>6
  <1>8. form # None => calls[i].mine /\ form.id = 0
    BY <1>2, Alone DEF Writes
  <1>9. 0 \notin Ids /\ \A x \in Ids : row[x].text # {} /\ row[x].text \subseteq edits
    BY Rows DEF Calm, TextsFit
  <1>10. calls[i].text # {} /\ calls[i].text \subseteq edits
    BY <1>2 DEF Calm, TextsFit, Drafts
  <1>11. \A e : Others(n, e)' = Others(0, e)
    BY <1>4, <1>9 DEF Others
  <1>12. \A e : Others(0, e)' = Others(0, e) \cup (IF e \in calls[i].text THEN {n} ELSE {})
    BY <1>3, <1>4, <1>9 DEF Others
  <1>13. Stored \subseteq Stored' /\ DOMAIN row = Ids
    <2>1. DOMAIN row = Ids /\ DOMAIN row' = Ids'
      BY <1>4, Rows DEF Ids
    <2> QED
      BY <1>4, <2>1 DEF Stored
  <1>14. EditorTypes'
    BY <1>4, <1>5 DEF Calm, EditorTypes
  <1>15. TextsFit'
    <2>1. ASSUME NEW j \in 1..N
          PROVE  /\ calls'[j].text \subseteq edits
                 /\ calls'[j].op \in Drafts /\ calls'[j].step = "wire" => calls'[j].text # {}
                 /\ calls'[j].op \notin {"create", "upload"} => calls'[j].id \in Ids'
                 /\ calls'[j].op = "create" /\ calls'[j].step = "ok" => calls'[j].id \in Ids'
                 /\ calls'[j].publish => calls'[j].op = "update"
                 /\ form = None => ~calls'[j].mine
      <3>1. CASE j = i
        BY <1>2, <1>4, <1>5, <3>1 DEF Calm, TextsFit
      <3>2. CASE j # i
        BY <1>4, <1>5, <3>2 DEF Calm, TextsFit
      <3> QED
        BY <3>1, <3>2
    <2>2. \A x \in Ids' : row'[x].text # {} /\ row'[x].text \subseteq edits
      BY <1>3, <1>4, <1>9, <1>10
    <2>3. form # None =>
             /\ form.id \in Ids' \cup {0} /\ form.text \subseteq edits /\ form.initial \subseteq edits
             /\ form.timer => form.text # {}
      BY <1>4 DEF Calm, TextsFit
    <2> QED
      BY <1>5, <2>1, <2>2, <2>3 DEF TextsFit
  <1>16. OneWrite'
    <2>1. ~(form = None /\ goto = None)
      BY <1>2 DEF Calm, OneWrite, Writing, Writes, N, EditorTypes
    <2> QED
      BY <1>2, <1>5, <1>7, <1>8, <2>1 DEF OneWrite
  <1>17. DraftFits'
    BY <1>5, <1>7 DEF DraftFits, Writes
  <1>18. FormFits'
    <2>1. ASSUME form # None, NEW e \in form.text PROVE Cardinality(Others(0, e)) <= lost
      BY <1>2, <1>6, <1>8, <2>1 DEF Calm, FormFits, Writes
    <2>2. ASSUME NEW j \in 1..N, calls'[j].op = "create" PROVE calls'[j].id = n
      BY <1>5, <1>7, <2>2 DEF Writes
    <2> QED
      BY <1>2, <1>5, <1>8, <1>11, <2>1, <2>2 DEF FormFits
  <1>19. SaysSo'
    <2>1. ASSUME form # None PROVE new.text = form.text /\ new.tagged = form.tagged
      BY <1>2, <1>3, <2>1 DEF Calm, SaysSo, Drafts
    <2>2. ASSUME form # None PROVE ~(form.said = "saved" /\ ~form.timer)
      BY <1>8, <1>9, <2>2 DEF Calm, SaysSo, Shows, HasText
    <2>3. \A j \in 1..N : calls'[j].op \in Drafts => j = i
      BY <1>7 DEF Drafts, Writes
    <2>4. ASSUME form # None PROVE Shows(n)'
      BY <1>4, <2>1, <2>4 DEF Shows, HasText
    <2>5. calls'[i].op \in Drafts
      BY <1>2, <1>5 DEF Drafts
    <2>9. ASSUME form # None PROVE form.session
      BY <1>2, <2>9 DEF Calm, SaysSo, Drafts
    <2> QED
      BY <1>5, <2>2, <2>3, <2>4, <2>5, <2>9 DEF SaysSo
  <1>20. StatusFits' /\ StatusServed'
    BY <1>2, <1>5, <1>7, <1>8 DEF StatusFits, StatusServed, Writes
  <1>21. NothingLost'
    <2>1. \A j \in 1..N : calls'[j].op # "delete"
      BY <1>2, <1>5, <1>7 DEF Writes
    <2>2. ASSUME NEW e \in edits PROVE Cardinality(Others(0, e)') <= 1 + lost
      <3>1. lost \in Nat /\ IsFiniteSet(Others(0, e)) /\ n \notin Others(0, e) /\ Cardinality(Others(0, e)) \in Nat
        BY <1>4, Rows DEF Others, Calm, EditorTypes
      <3>2. CASE e \in calls[i].text
        <4>1. Cardinality(Others(0, e)) <= lost
          BY <1>2, <3>2 DEF Calm, DraftFits
        <4>2. Cardinality(Others(0, e) \cup {n}) = Cardinality(Others(0, e)) + 1
          BY <3>1, FS_AddElement
        <4>3. Others(0, e)' = Others(0, e) \cup {n}
          BY <1>12, <3>2
        <4>4. Cardinality(Others(0, e)') = Cardinality(Others(0, e)) + 1
          BY <4>2, <4>3
        <4> QED
          BY <3>1, <4>1, <4>4
      <3>3. CASE e \notin calls[i].text
        BY <1>12, <3>3 DEF Calm, NothingLost, Due
      <3> QED
        BY <3>2, <3>3
    <2> QED
      BY <1>5, <1>13, <2>1, <2>2 DEF Calm, NothingLost, Due
  <1> QED
    BY <1>14, <1>15, <1>16, <1>17, <1>18, <1>19, <1>20, <1>21 DEF Calm

LEMMA UpdateKeeps ==
    ASSUME Calm, NEW i \in 1..N, calls[i].step = "wire", calls[i].op = "update",
           row' = [row EXCEPT ![calls[i].id].text = calls[i].text, ![calls[i].id].tagged = calls[i].tagged],
           Reply(i, "ok", calls[i].id), UNCHANGED <<category, form, goto, edits, early, lost, hurried>>
    PROVE  Calm'
  <1>1. PICK x \in Ids : x = calls[i].id
    BY DEF Calm, TextsFit
  <1> DEFINE new == [row[x] EXCEPT !.text = calls[i].text, !.tagged = calls[i].tagged]
  <1>2. row' = [row EXCEPT ![x] = new]
    BY <1>1, Rows
  <1>3. new \in Items /\ new.text = calls[i].text /\ new.tagged = calls[i].tagged /\ new.public = row[x].public
    BY Rows DEF Items, Requests
  <1> HIDE DEF new
  <1>4. /\ row' \in Seq(Items) /\ Ids' = Ids /\ DOMAIN row' = DOMAIN row /\ DOMAIN row = Ids
        /\ row'[x] = new /\ \A y \in Ids : y # x => row'[y] = row[y]
    <2>1. row \in Seq(Items) /\ DOMAIN row = 1..Len(row) /\ x \in 1..Len(row) /\ Len(row) \in Nat
      BY DEF Calm, EditorTypes, Ids
    <2>2. row' \in Seq(Items) /\ Len(row') = Len(row) /\ DOMAIN row' = DOMAIN row
      <3>1. row' \in [1..Len(row) -> Items]
        <4>1. row \in [1..Len(row) -> Items]
          BY <2>1
        <4> QED
          BY <1>2, <1>3, <4>1
      <3> QED
        BY <2>1, <3>1
    <2>3. row'[x] = new /\ \A y \in 1..Len(row) : y # x => row'[y] = row[y]
      BY <1>2, <2>1
    <2> QED
      BY <2>1, <2>2, <2>3 DEF Ids
  <1>5. /\ calls' \in Seq(Requests) /\ N' = N
        /\ \A j \in 1..N : j # i => calls'[j] = calls[j]
        /\ calls'[i].op = calls[i].op /\ calls'[i].id = x /\ calls'[i].text = {} /\ calls'[i].publish = calls[i].publish
        /\ calls'[i].mine = calls[i].mine /\ calls'[i].step = "ok"
    BY <1>1, Rows, Replied
  <1>6. \A j \in 1..N : j # i => calls[j].op \notin Writes
    BY Alone DEF Writes
  <1>7. \A j \in 1..N : calls'[j].op \in Writes => j = i
    BY <1>5, <1>6
  <1>8. form # None => calls[i].mine /\ form.id = x
    BY <1>1, Alone DEF Writes
  <1>9. 0 \notin Ids /\ \A y \in Ids : row[y].text # {} /\ row[y].text \subseteq edits
    BY Rows DEF Calm, TextsFit
  <1>10. calls[i].text # {} /\ calls[i].text \subseteq edits /\ row[x].text \subseteq calls[i].text
    BY <1>1 DEF Calm, TextsFit, DraftFits, Drafts
  <1>11. \A e : Others(x, e)' = Others(x, e)
    BY <1>4 DEF Others
  <1>12. \A e : Others(0, e)' = Others(x, e) \cup (IF e \in calls[i].text THEN {x} ELSE {})
    BY <1>3, <1>4, <1>9, ZenonT(60) DEF Others
  <1>13. Stored \subseteq Stored'
    <2>1. \A y \in Ids : row[y].text \subseteq row'[y].text
      BY <1>3, <1>4, <1>10
    <2>2. ASSUME NEW e \in Stored PROVE e \in Stored'
      <3>1. PICK y \in Ids : e \in row[y].text
        BY <1>4, <2>2 DEF Stored
      <3>2. y \in DOMAIN row' /\ e \in row'[y].text
        BY <1>4, <2>1, <3>1
      <3> QED
        BY <3>2 DEF Stored
    <2> QED
      BY <2>2
  <1>14. EditorTypes'
    BY <1>4, <1>5 DEF Calm, EditorTypes
  <1>15. TextsFit'
    <2>1. ASSUME NEW j \in 1..N
          PROVE  /\ calls'[j].text \subseteq edits
                 /\ calls'[j].op \in Drafts /\ calls'[j].step = "wire" => calls'[j].text # {}
                 /\ calls'[j].op \notin {"create", "upload"} => calls'[j].id \in Ids
                 /\ calls'[j].op = "create" /\ calls'[j].step = "ok" => calls'[j].id \in Ids
                 /\ calls'[j].publish => calls'[j].op = "update"
                 /\ form = None => ~calls'[j].mine
      <3>1. CASE j = i
        BY <1>5, <3>1 DEF Calm, TextsFit
      <3>2. CASE j # i
        BY <1>5, <3>2 DEF Calm, TextsFit
      <3> QED
        BY <3>1, <3>2
    <2>2. \A y \in Ids : row'[y].text # {} /\ row'[y].text \subseteq edits
      BY <1>3, <1>4, <1>9, <1>10, ZenonT(60)
    <2>3. form # None =>
             /\ form.id \in Ids \cup {0} /\ form.text \subseteq edits /\ form.initial \subseteq edits
             /\ form.timer => form.text # {}
      BY DEF Calm, TextsFit
    <2> QED
      BY <1>4, <1>5, <2>1, <2>2, <2>3 DEF TextsFit
  <1>16. OneWrite'
    <2>1. ~(form = None /\ goto = None)
      BY DEF Calm, OneWrite, Writing, Writes, N, EditorTypes
    <2> QED
      BY <1>5, <1>7, <1>8, <2>1 DEF OneWrite
  <1>17. DraftFits'
    BY <1>5, <1>7 DEF DraftFits, Writes
  <1>18. FormFits'
    <2>1. \A j \in 1..N : calls[j].op # "create" /\ calls'[j].op # "create"
      BY <1>5, <1>6 DEF Writes
    <2>2. ASSUME form # None, NEW e \in form.text PROVE Cardinality(Others(x, e)) <= lost
      BY <1>8, <2>1, <2>2 DEF Calm, FormFits
    <2>3. form # None => calls[i].text \subseteq form.text
      BY DEF Calm, SaysSo, Drafts
    <2>4. form # None => form.id = x /\ row'[form.id].text \subseteq form.text
      <3>1. row'[x].text = calls[i].text
        BY <1>3, <1>4
      <3> QED
        BY <1>8, <2>3, <3>1
    <2>5. form # None => \A e \in form.text : Cardinality(Others(form.id, e)') <= lost
      BY <1>11, <2>2, <2>4
    <2>6. \A j \in 1..N' : calls'[j].op # "create"
      BY <1>5, <2>1
    <2> QED
      BY <2>4, <2>5, <2>6 DEF FormFits
  <1>19. SaysSo'
    <2>1. form # None => (new.text = form.text /\ new.tagged = form.tagged) \/ form.timer
      BY <1>3 DEF Calm, SaysSo, Drafts
    <2>2. \A j \in 1..N : calls'[j].op \in Drafts => j = i
      BY <1>7 DEF Drafts, Writes
    <2>3. form # None => Shows(x)' \/ form.timer
      BY <1>4, <2>1 DEF Shows, HasText
    <2>4. calls'[i].op \in Drafts /\ calls'[i].op = "update"
      BY <1>5 DEF Drafts
    <2>9. ASSUME form # None PROVE form.session
      BY <2>9 DEF Calm, SaysSo, Drafts
    <2> QED
      BY <1>5, <1>8, <2>2, <2>3, <2>4, <2>9 DEF SaysSo
  <1>20. StatusFits' /\ StatusServed'
    <2>1. lost = 0 /\ form # None /\ goto = None /\ form.id # 0 => row[form.id].public = form.public
      BY <1>6 DEF Calm, StatusFits, Writes
    <2>2. row'[x].public = row[x].public
      BY <1>3, <1>4
    <2>3. StatusFits'
      BY <1>8, <2>1, <2>2 DEF StatusFits
    <2>4. \A j \in 1..N' : calls'[j].op \notin {"publish", "unpublish"}
      BY <1>5, <1>7 DEF Writes
    <2> QED
      BY <2>3, <2>4 DEF StatusServed
  <1>21. NothingLost'
    <2>1. \A j \in 1..N : calls'[j].op # "delete"
      BY <1>5, <1>7 DEF Writes
    <2>2. ASSUME NEW e \in edits PROVE Cardinality(Others(0, e)') <= 1 + lost
      <3>1. lost \in Nat /\ IsFiniteSet(Others(x, e)) /\ x \notin Others(x, e) /\ Cardinality(Others(x, e)) \in Nat
        BY Rows DEF Others, Calm, EditorTypes
      <3>2. CASE e \in calls[i].text
        <4>1. Cardinality(Others(x, e)) <= lost
          BY <1>1, <3>2 DEF Calm, DraftFits
        <4>2. Cardinality(Others(x, e) \cup {x}) = Cardinality(Others(x, e)) + 1
          BY <3>1, FS_AddElement
        <4>3. Others(0, e)' = Others(x, e) \cup {x}
          BY <1>12, <3>2
        <4>4. Cardinality(Others(0, e)') = Cardinality(Others(x, e)) + 1
          BY <4>2, <4>3
        <4> QED
          BY <3>1, <4>1, <4>4
      <3>3. CASE e \notin calls[i].text
        <4>1. Others(x, e) = Others(0, e)
          BY <1>9, <1>10, <3>3 DEF Others
        <4> QED
          BY <1>12, <3>3, <4>1 DEF Calm, NothingLost, Due
      <3> QED
        BY <3>2, <3>3
    <2> QED
      BY <1>5, <1>13, <2>1, <2>2 DEF Calm, NothingLost, Due
  <1> QED
    BY <1>14, <1>15, <1>16, <1>17, <1>18, <1>19, <1>20, <1>21 DEF Calm

LEMMA StatusKeeps ==
    ASSUME Calm, NEW i \in 1..N, calls[i].step = "wire", NEW x \in Ids, x = calls[i].id, NEW new \in Items,
           row' = [row EXCEPT ![x] = new], new.text = row[x].text, new.tagged = row[x].tagged,
           \/ calls[i].op = "publish" /\ new.public
           \/ calls[i].op = "unpublish" /\ ~new.public
           \/ calls[i].op = "delete",
           Reply(i, "ok", calls[i].id), UNCHANGED <<category, form, goto, edits, early, lost, hurried>>
    PROVE  Calm'
  <1>2. row' = [row EXCEPT ![x] = new] /\ calls[i].op \in Writes
    BY DEF Writes
  <1>3. new \in Items
    OBVIOUS
  <1>4. /\ row' \in Seq(Items) /\ Ids' = Ids /\ DOMAIN row' = DOMAIN row /\ DOMAIN row = Ids
        /\ row'[x] = new /\ \A y \in Ids : y # x => row'[y] = row[y]
    <2>1. row \in Seq(Items) /\ DOMAIN row = 1..Len(row) /\ x \in 1..Len(row) /\ Len(row) \in Nat
      BY DEF Calm, EditorTypes, Ids
    <2>2. row' \in Seq(Items) /\ Len(row') = Len(row) /\ DOMAIN row' = DOMAIN row
      <3>1. row' \in [1..Len(row) -> Items]
        <4>1. row \in [1..Len(row) -> Items]
          BY <2>1
        <4> QED
          BY <1>2, <1>3, <4>1
      <3> QED
        BY <2>1, <3>1
    <2>3. row'[x] = new /\ \A y \in 1..Len(row) : y # x => row'[y] = row[y]
      BY <1>2, <2>1
    <2> QED
      BY <2>1, <2>2, <2>3 DEF Ids
  <1>5. /\ calls' \in Seq(Requests) /\ N' = N
        /\ \A j \in 1..N : j # i => calls'[j] = calls[j]
        /\ calls'[i].op = calls[i].op /\ calls'[i].id = x /\ calls'[i].text = {} /\ calls'[i].publish = calls[i].publish
        /\ calls'[i].mine = calls[i].mine /\ calls'[i].step = "ok"
    BY Rows, Replied
  <1>6. \A j \in 1..N : j # i => calls[j].op \notin Writes
    BY <1>2, Alone
  <1>7. \A j \in 1..N : calls'[j].op \in Writes => j = i
    BY <1>5, <1>6
  <1>8. form # None => calls[i].mine /\ form.id = x
    BY <1>2, Alone
  <1>9. \A j \in 1..N : calls[j].op \notin Drafts /\ calls'[j].op \notin Drafts
    BY <1>5, <1>6 DEF Drafts, Writes
  <1>10. \A y \in Ids : row'[y].text = row[y].text /\ row'[y].tagged = row[y].tagged
    BY <1>4
  <1>11. Stored' = Stored /\ \A y, e : Others(y, e)' = Others(y, e)
    BY <1>4, <1>10 DEF Others, Stored
  <1>12. \A r : Shows(r)' = Shows(r) /\ HasText(r)' = HasText(r)
    BY <1>4, <1>10 DEF Shows, HasText
  <1>13. EditorTypes'
    BY <1>4, <1>5 DEF Calm, EditorTypes
  <1>14. TextsFit'
    <2>1. ASSUME NEW j \in 1..N
          PROVE  /\ calls'[j].text \subseteq edits
                 /\ calls'[j].op \notin {"create", "upload"} => calls'[j].id \in Ids
                 /\ calls'[j].op = "create" /\ calls'[j].step = "ok" => calls'[j].id \in Ids
                 /\ calls'[j].publish => calls'[j].op = "update"
                 /\ form = None => ~calls'[j].mine
      <3>1. CASE j = i
        BY <1>5, <1>9, <3>1 DEF Calm, TextsFit, Drafts
      <3>2. CASE j # i
        BY <1>5, <3>2 DEF Calm, TextsFit
      <3> QED
        BY <3>1, <3>2
    <2>2. \A y \in Ids : row'[y].text # {} /\ row'[y].text \subseteq edits
      BY <1>10 DEF Calm, TextsFit
    <2>3. form # None =>
             /\ form.id \in Ids \cup {0} /\ form.text \subseteq edits /\ form.initial \subseteq edits
             /\ form.timer => form.text # {}
      BY DEF Calm, TextsFit
    <2> QED
      BY <1>4, <1>5, <1>9, <2>1, <2>2, <2>3 DEF TextsFit
  <1>15. OneWrite'
    <2>1. ~(form = None /\ goto = None)
      BY <1>2 DEF Calm, OneWrite, Writing, N, EditorTypes
    <2>2. calls'[i].op # "create"
      BY <1>5, <1>9 DEF Drafts
    <2> QED
      BY <1>5, <1>7, <1>8, <2>1, <2>2 DEF OneWrite
  <1>16. DraftFits'
    BY <1>5, <1>9 DEF DraftFits, Drafts
  <1>17. FormFits'
    <2>1. ASSUME form # None, NEW e \in form.text PROVE Cardinality(Others(x, e)) <= lost
      BY <1>8, <1>9, <2>1 DEF Calm, FormFits, Drafts
    <2>2. form # None => row[x].text \subseteq form.text
      BY <1>8, Rows DEF Calm, FormFits
    <2>3. form # None => row'[x].text \subseteq form.text
      BY <1>10, <2>2
    <2> QED
      BY <1>5, <1>8, <1>9, <1>11, <2>1, <2>3 DEF FormFits, Drafts
  <1>18. SaysSo'
    BY <1>5, <1>9, <1>11, <1>12 DEF Calm, SaysSo
  <1>19. StatusFits' /\ StatusServed'
    <2>1. calls'[i].op \in {"publish", "unpublish", "delete"} /\ calls'[i].step = "ok"
      BY <1>5
    <2>2. calls'[i].op \in {"publish", "unpublish"} => row'[calls'[i].id].public = (calls'[i].op = "publish")
      BY <1>3, <1>4, <1>5 DEF Items
    <2>3. \A j \in 1..N : calls'[j].op \in {"publish", "unpublish"} => j = i
      BY <1>7 DEF Writes
    <2> QED
      BY <1>5, <2>1, <2>2, <2>3 DEF StatusFits, StatusServed
  <1>20. NothingLost'
    <2>1. \A j \in 1..N : calls'[j].op = "delete" => calls[j].op = "delete"
      BY <1>5
    <2> QED
      BY <1>5, <1>11, <2>1 DEF Calm, NothingLost, Due
  <1> QED
    BY <1>13, <1>14, <1>15, <1>16, <1>17, <1>18, <1>19, <1>20 DEF Calm

\* A request that changes no item: it failed, or it stored an image.
LEMMA ReplyKeeps ==
    ASSUME Calm, NEW i \in 1..N, calls[i].step = "wire", NEW step \in {"ok", "error"},
           step = "error" \/ calls[i].op = "upload",
           Reply(i, step, calls[i].id), UNCHANGED <<row, category, form, goto, edits, early, lost, hurried>>
    PROVE  Calm'
  <1>1. /\ calls' \in Seq(Requests) /\ N' = N
        /\ \A j \in 1..N : j # i => calls'[j] = calls[j]
        /\ calls'[i].op = calls[i].op /\ calls'[i].id = calls[i].id /\ calls'[i].text = {}
        /\ calls'[i].publish = calls[i].publish /\ calls'[i].mine = calls[i].mine /\ calls'[i].step = step
    <2>1. calls[i].id \in Nat
      BY Rows DEF Requests
    <2> QED
      BY <2>1, Replied
  <1>2. Ids' = Ids /\ Stored' = Stored /\ \A x, e : Others(x, e)' = Others(x, e)
    BY DEF Ids, Stored, Others
  <1>3. \A r : Shows(r)' = Shows(r) /\ HasText(r)' = HasText(r)
    BY <1>2 DEF Shows, HasText
  <1>4. /\ \A j \in 1..N : calls'[j].op = calls[j].op /\ calls'[j].id = calls[j].id
                            /\ calls'[j].publish = calls[j].publish /\ calls'[j].mine = calls[j].mine
        /\ \A j \in 1..N : calls'[j].step = "wire" => calls'[j] = calls[j]
        /\ \A j \in 1..N : calls'[j].op \in Writes /\ calls'[j].step = "ok" => calls'[j] = calls[j]
        /\ \A j \in 1..N : calls[j].step = "ok" => calls'[j] = calls[j]
    BY <1>1 DEF Writes
  <1>5. EditorTypes'
    BY <1>1, <1>2 DEF Calm, EditorTypes
  <1>6. TextsFit'
    <2>1. ASSUME NEW j \in 1..N
          PROVE  /\ calls'[j].text \subseteq edits
                 /\ calls'[j].op \in Drafts /\ calls'[j].step = "wire" => calls'[j].text # {}
                 /\ calls'[j].op \notin {"create", "upload"} => calls'[j].id \in Ids
                 /\ calls'[j].op = "create" /\ calls'[j].step = "ok" => calls'[j].id \in Ids
                 /\ calls'[j].publish => calls'[j].op = "update"
                 /\ form = None => ~calls'[j].mine
      <3>1. CASE j = i
        BY <1>1, <3>1 DEF Calm, TextsFit
      <3>2. CASE j # i
        BY <1>1, <3>2 DEF Calm, TextsFit
      <3> QED
        BY <3>1, <3>2
    <2>2. \A y \in Ids : row[y].text # {} /\ row[y].text \subseteq edits
      BY DEF Calm, TextsFit
    <2>3. form # None =>
             /\ form.id \in Ids \cup {0} /\ form.text \subseteq edits /\ form.initial \subseteq edits
             /\ form.timer => form.text # {}
      BY DEF Calm, TextsFit
    <2> QED
      BY <1>1, <1>2, <2>1, <2>2, <2>3 DEF TextsFit
  <1>7. OneWrite'
    <2>1. form = None /\ goto = None => \A j \in 1..N : calls[j].op \notin Writes
      BY Rows DEF Calm, OneWrite, Writing
    <2>2. form = None /\ goto = None => ~Writing'
      BY <1>1, <1>4, <2>1 DEF Writing, N
    <2> QED
      BY <1>1, <1>4, <2>2 DEF Calm, OneWrite
  <1>8. DraftFits'
    <2>1. ASSUME NEW j \in 1..N, calls'[j].step = "wire"
          PROVE  /\ calls'[j].op = "create" => \A e \in calls'[j].text : Cardinality(Others(0, e)) <= lost
                 /\ calls'[j].op = "update" =>
                       /\ row[calls'[j].id].text \subseteq calls'[j].text
                       /\ \A e \in calls'[j].text : Cardinality(Others(calls'[j].id, e)) <= lost
      BY <1>4, <2>1 DEF Calm, DraftFits
    <2> QED
      BY <1>1, <1>2, <2>1 DEF DraftFits
  <1>9. FormFits'
    <2>1. \A j \in 1..N : (calls'[j].op = "create" /\ calls'[j].step = "ok") <=> (calls[j].op = "create" /\ calls[j].step = "ok")
      BY <1>4 DEF Writes
    <2> QED
      BY <1>1, <1>2, <1>4, <2>1 DEF Calm, FormFits
  <1>10. SaysSo'
    <2>1. ASSUME form # None, NEW j \in 1..N, calls'[j].op \in Drafts
          PROVE  /\ calls'[j].step = "wire" =>
                       /\ calls'[j].text \subseteq form.text
                       /\ \/ calls'[j].text = form.text /\ calls'[j].tagged = form.tagged
                          \/ form.timer /\ calls'[j].op = "update"
                 /\ calls'[j].step = "ok" => Shows(calls'[j].id) \/ (form.timer /\ calls'[j].op = "update")
      <3>1. calls'[j].step \in {"wire", "ok"} => calls'[j] = calls[j]
        BY <1>4, <2>1 DEF Drafts, Writes
      <3> QED
        BY <2>1, <3>1 DEF Calm, SaysSo
    <2>2. \A j \in 1..N : calls'[j].op \in Drafts <=> calls[j].op \in Drafts
      BY <1>4
    <2> QED
      BY <1>1, <1>2, <1>3, <2>1, <2>2 DEF Calm, SaysSo
  <1>11. StatusFits'
    <2>1. ASSUME lost = 0, form # None, goto = None, form.id # 0, row[form.id].public # form.public
          PROVE  \E j \in 1..N : calls'[j].op \in {"publish", "unpublish", "delete"} /\ calls'[j].step = "ok"
      <3>1. PICK j \in 1..N : calls[j].op \in {"publish", "unpublish", "delete"} /\ calls[j].step = "ok"
        BY <2>1 DEF Calm, StatusFits
      <3> QED
        BY <1>4, <3>1
    <2> QED
      BY <1>1, <2>1 DEF StatusFits
  <1>12. StatusServed'
    <2>1. ASSUME lost = 0, form # None, NEW j \in 1..N, calls'[j].op \in {"publish", "unpublish"}, calls'[j].step = "ok"
          PROVE  row[calls'[j].id].public = (calls'[j].op = "publish")
      BY <1>4, <2>1 DEF Calm, StatusServed, Writes
    <2> QED
      BY <1>1, <2>1 DEF StatusServed
  <1>13. NothingLost'
    BY <1>1, <1>2, <1>4 DEF Calm, NothingLost, Due
  <1> QED
    BY <1>5, <1>6, <1>7, <1>8, <1>9, <1>10, <1>11, <1>12, <1>13 DEF Calm

LEMMA ServeKeeps ==
    ASSUME Calm, NEW i \in 1..N, Serve(i)
    PROVE  Calm'
  <1>1. calls[i].step = "wire" /\ UNCHANGED <<category, form, goto, edits, early, lost, hurried>>
    BY DEF Serve
  <1>2. CASE Create(calls[i])
    <2>1. Reply(i, "ok", Len(row'))
      BY <1>2 DEF Serve, Create
    <2> QED
      BY <1>1, <1>2, <2>1, CreateKeeps
  <1>3. CASE Upload(calls[i])
    <2>1. Reply(i, "ok", calls[i].id) /\ row' = row
      BY <1>3 DEF Serve, Upload
    <2> QED
      BY <1>1, <1>3, <2>1, ReplyKeeps DEF Upload
  <1>4. CASE Change(calls[i])
    <2>1. PICK x \in Ids : x = calls[i].id
      BY <1>4, Rows DEF Change, Found
    <2>2. calls[i].op # "create" /\ row[x] \in Items
      BY <1>4, <2>1, Rows DEF Change
    <2>3. Reply(i, "ok", calls[i].id)
      BY <2>2 DEF Serve
    <2>4. CASE calls[i].op = "update"
      <3>1. row' = [row EXCEPT ![calls[i].id].text = calls[i].text, ![calls[i].id].tagged = calls[i].tagged]
        BY <1>4, <2>4 DEF Change
      <3> QED
        BY <1>1, <2>3, <2>4, <3>1, UpdateKeeps
    <2>5. CASE calls[i].op = "publish"
      <3> DEFINE new == [row[x] EXCEPT !.public = TRUE]
      <3>1. row' = [row EXCEPT ![x] = new]
        BY <1>4, <2>1, <2>5 DEF Change
      <3>2. new \in Items /\ new.text = row[x].text /\ new.tagged = row[x].tagged /\ new.public
        BY <2>2 DEF Items
      <3> HIDE DEF new
      <3> QED
        BY <1>1, <2>1, <2>3, <2>5, <3>1, <3>2, StatusKeeps
    <2>6. CASE calls[i].op = "unpublish"
      <3> DEFINE new == [row[x] EXCEPT !.public = FALSE]
      <3>1. row' = [row EXCEPT ![x] = new]
        BY <1>4, <2>1, <2>6 DEF Change
      <3>2. new \in Items /\ new.text = row[x].text /\ new.tagged = row[x].tagged /\ ~new.public
        BY <2>2 DEF Items
      <3> HIDE DEF new
      <3> QED
        BY <1>1, <2>1, <2>3, <2>6, <3>1, <3>2, StatusKeeps
    <2>7. CASE calls[i].op = "delete"
      <3> DEFINE new == [row[x] EXCEPT !.public = FALSE, !.deleted = TRUE]
      <3>1. row' = [row EXCEPT ![x] = new]
        BY <1>4, <2>1, <2>7 DEF Change
      <3>2. new \in Items /\ new.text = row[x].text /\ new.tagged = row[x].tagged
        BY <2>2 DEF Items
      <3> HIDE DEF new
      <3> QED
        BY <1>1, <2>1, <2>3, <2>7, <3>1, <3>2, StatusKeeps
    <2> QED
      BY <1>4, <2>4, <2>5, <2>6, <2>7 DEF Change
  <1> QED
    BY <1>2, <1>3, <1>4 DEF Serve

LEMMA FailKeeps ==
    ASSUME Calm, NEW i \in 1..N, Fail(i)
    PROVE  Calm'
  BY ReplyKeeps DEF Fail

LEMMA LoseAnswerKeeps ==
    ASSUME Calm, NEW i \in 1..N, LoseAnswer(i)
    PROVE  Calm'
  <1> DEFINE c == [calls[i] EXCEPT !.step = "error"]
  <1>1. /\ calls[i].step = "ok" /\ lost' = lost + 1 /\ UNCHANGED <<row, category, form, goto, edits, early, hurried>>
        /\ calls[i] \in Requests /\ DOMAIN calls = 1..N /\ N \in Nat /\ calls \in Seq(Requests) /\ lost \in Nat
    BY Rows DEF LoseAnswer, Calm, EditorTypes
  <1>2. calls' = [calls EXCEPT ![i] = c]
    BY <1>1 DEF LoseAnswer
  <1>3. /\ c \in Requests /\ c.op = calls[i].op /\ c.id = calls[i].id /\ c.text = calls[i].text
        /\ c.publish = calls[i].publish /\ c.mine = calls[i].mine /\ c.step = "error"
    BY <1>1 DEF Requests
  <1> HIDE DEF c
  <1>4. /\ calls' \in Seq(Requests) /\ N' = N
        /\ \A j \in 1..N : j # i => calls'[j] = calls[j]
        /\ calls'[i] = c
    BY <1>1, <1>2, <1>3 DEF N
  <1>5. Ids' = Ids /\ Stored' = Stored /\ \A x, e : Others(x, e)' = Others(x, e)
    BY <1>1 DEF Ids, Stored, Others
  <1>6. \A r : Shows(r)' = Shows(r) /\ HasText(r)' = HasText(r)
    BY <1>1, <1>5 DEF Shows, HasText
  <1>7. /\ \A j \in 1..N : calls'[j].op = calls[j].op /\ calls'[j].id = calls[j].id /\ calls'[j].text = calls[j].text
                            /\ calls'[j].publish = calls[j].publish /\ calls'[j].mine = calls[j].mine
        /\ \A j \in 1..N : calls'[j].step \in {"wire", "ok"} => calls'[j] = calls[j]
    BY <1>3, <1>4
  <1>8. \A x, e : Cardinality(Others(x, e)) \in Nat
    BY Rows DEF Others
  <1>9. EditorTypes'
    BY <1>1, <1>4, <1>5 DEF Calm, EditorTypes
  <1>10. TextsFit'
    <2>1. ASSUME NEW j \in 1..N
          PROVE  /\ calls'[j].text \subseteq edits
                 /\ calls'[j].op \in Drafts /\ calls'[j].step = "wire" => calls'[j].text # {}
                 /\ calls'[j].op \notin {"create", "upload"} => calls'[j].id \in Ids
                 /\ calls'[j].op = "create" /\ calls'[j].step = "ok" => calls'[j].id \in Ids
                 /\ calls'[j].publish => calls'[j].op = "update"
                 /\ form = None => ~calls'[j].mine
      BY <1>7 DEF Calm, TextsFit
    <2>2. \A y \in Ids : row[y].text # {} /\ row[y].text \subseteq edits
      BY DEF Calm, TextsFit
    <2>3. form # None =>
             /\ form.id \in Ids \cup {0} /\ form.text \subseteq edits /\ form.initial \subseteq edits
             /\ form.timer => form.text # {}
      BY DEF Calm, TextsFit
    <2> QED
      BY <1>1, <1>4, <1>5, <2>1, <2>2, <2>3 DEF TextsFit
  <1>11. OneWrite'
    <2>1. form = None /\ goto = None => \A j \in 1..N : calls[j].op \notin Writes
      BY Rows DEF Calm, OneWrite, Writing
    <2>2. form = None /\ goto = None => ~Writing'
      BY <1>4, <1>7, <2>1 DEF Writing, N
    <2>3. \A j, k \in 1..N : calls'[j].op \in Writes /\ calls'[k].op \in Writes => j = k
      BY <1>7 DEF Calm, OneWrite
    <2>4. form # None => \A j \in 1..N : calls'[j].op \in Writes =>
             calls'[j].mine /\ IF calls'[j].op = "create" THEN form.id = 0 ELSE calls'[j].id = form.id
      BY <1>7 DEF Calm, OneWrite
    <2> QED
      BY <1>1, <1>4, <2>2, <2>3, <2>4 DEF OneWrite
  <1>12. DraftFits'
    <2>1. ASSUME NEW j \in 1..N, calls'[j].step = "wire"
          PROVE  /\ calls'[j].op = "create" => \A e \in calls'[j].text : Cardinality(Others(0, e)) <= lost + 1
                 /\ calls'[j].op = "update" =>
                       /\ row[calls'[j].id].text \subseteq calls'[j].text
                       /\ \A e \in calls'[j].text : Cardinality(Others(calls'[j].id, e)) <= lost + 1
      <3>1. calls'[j] = calls[j]
        BY <1>7, <2>1
      <3>2. \A a \in Nat : a <= lost => a <= lost + 1
        BY <1>1
      <3> QED
        BY <1>8, <2>1, <3>1, <3>2 DEF Calm, DraftFits
    <2> QED
      BY <1>1, <1>4, <1>5, <2>1 DEF DraftFits
  <1>13. FormFits'
    <2>1. ASSUME form # None, NEW e \in form.text PROVE Cardinality(Others(0, e)) <= lost + 1
      BY <1>1, <2>1 DEF Calm, TextsFit, NothingLost, Due
    <2>2. ASSUME form # None, form.id # 0, NEW e \in form.text PROVE Cardinality(Others(form.id, e)) <= lost + 1
      <3>1. \A j \in 1..N : calls[j].op # "create"
        BY <2>2, Alone DEF Writes
      <3>2. Cardinality(Others(form.id, e)) <= lost
        BY <2>2, <3>1 DEF Calm, FormFits
      <3> QED
        BY <1>1, <1>8, <3>2
    <2>3. ASSUME form # None, NEW j \in 1..N, calls'[j].op = "create", calls'[j].step = "ok", NEW e \in form.text
          PROVE  Cardinality(Others(calls'[j].id, e)) <= lost + 1
      <3>1. calls'[j] = calls[j]
        BY <1>7, <2>3
      <3>2. Cardinality(Others(calls[j].id, e)) <= lost
        BY <2>3, <3>1 DEF Calm, FormFits
      <3> QED
        BY <1>1, <1>8, <3>1, <3>2
    <2>4. form # None /\ form.id # 0 => row[form.id].text \subseteq form.text
      BY DEF Calm, FormFits
    <2> QED
      BY <1>1, <1>4, <1>5, <2>1, <2>2, <2>3, <2>4 DEF FormFits
  <1>14. SaysSo'
    <2>1. ASSUME form # None, NEW j \in 1..N, calls'[j].op \in Drafts
          PROVE  /\ calls'[j].step = "wire" =>
                       /\ calls'[j].text \subseteq form.text
                       /\ \/ calls'[j].text = form.text /\ calls'[j].tagged = form.tagged
                          \/ form.timer /\ calls'[j].op = "update"
                 /\ calls'[j].step = "ok" => Shows(calls'[j].id) \/ (form.timer /\ calls'[j].op = "update")
      <3>1. calls'[j].step \in {"wire", "ok"} => calls'[j] = calls[j]
        BY <1>7
      <3> QED
        BY <2>1, <3>1 DEF Calm, SaysSo
    <2>2. \A j \in 1..N : calls'[j].op \in Drafts <=> calls[j].op \in Drafts
      BY <1>7
    <2> QED
      BY <1>1, <1>4, <1>5, <1>6, <2>1, <2>2 DEF Calm, SaysSo
  <1>15. StatusFits' /\ StatusServed'
    <2>1. lost' # 0
      BY <1>1
    <2> QED
      BY <2>1 DEF StatusFits, StatusServed
  <1>16. NothingLost'
    <2>1. ASSUME NEW e \in edits PROVE Cardinality(Others(0, e)) <= 1 + (lost + 1)
      <3>1. Cardinality(Others(0, e)) <= 1 + lost
        BY DEF Calm, NothingLost, Due
      <3> QED
        BY <1>1, <1>8, <3>1
    <2>2. /\ Due \subseteq Stored \cup (IF form = None THEN {} ELSE form.text)
          /\ goto # None => Due \subseteq Stored
          /\ form # None => \A j \in 1..N : calls'[j].op = "delete" => form.text \ early \subseteq Stored
      BY <1>7 DEF Calm, NothingLost, Due
    <2> QED
      BY <1>1, <1>4, <1>5, <2>1, <2>2 DEF NothingLost, Due
  <1> QED
    BY <1>9, <1>10, <1>11, <1>12, <1>13, <1>14, <1>15, <1>16 DEF Calm

\* What RemoveAt leaves.
LEMMA Removed ==
    ASSUME Calm, NEW i \in 1..N, calls' = RemoveAt(calls, i)
    PROVE  /\ calls' \in Seq(Requests) /\ N' = N - 1 /\ N' \in Nat
           /\ \A j \in 1..N' : calls'[j] = calls[IF j < i THEN j ELSE j + 1]
  <1>1. calls \in Seq(Requests) /\ N = Len(calls) /\ N \in Nat
    BY DEF Calm, EditorTypes, N
  <1> DEFINE a == SubSeq(calls, 1, i - 1)
             b == SubSeq(calls, i + 1, N)
  <1>2. a \in Seq(Requests) /\ Len(a) = i - 1 /\ \A j \in 1..(i - 1) : a[j] = calls[j]
    BY <1>1
  <1>3. b \in Seq(Requests) /\ Len(b) = N - i /\ \A j \in 1..(N - i) : b[j] = calls[i + j]
    BY <1>1
  <1>4. calls' = a \o b
    BY <1>1 DEF RemoveAt
  <1> HIDE DEF a, b
  <1>5. calls' \in Seq(Requests) /\ Len(calls') = (i - 1) + (N - i)
    <2>1. a \in Seq(Requests) /\ b \in Seq(Requests)
      BY <1>2, <1>3
    <2>2. calls' \in Seq(Requests) /\ Len(calls') = Len(a) + Len(b)
      BY <2>1, <1>4
    <2> QED
      BY <1>2, <1>3, <2>2
  <1>6. ASSUME NEW j \in 1..(N - 1) PROVE calls'[j] = calls[IF j < i THEN j ELSE j + 1]
    <2>1. CASE j < i
      BY <1>1, <1>2, <1>3, <1>4, <2>1
    <2>2. CASE ~(j < i)
      <3>1. calls'[j] = b[j - (i - 1)]
        BY <1>1, <1>2, <1>3, <1>4, <2>2
      <3>2. j - (i - 1) \in 1..(N - i) /\ i + (j - (i - 1)) = j + 1
        BY <1>1, <2>2
      <3>3. b[j - (i - 1)] = calls[i + (j - (i - 1))]
        BY <1>3, <3>2
      <3> QED
        BY <2>2, <3>1, <3>2, <3>3
    <2> QED
      BY <2>1, <2>2
  <1> QED
    BY <1>1, <1>5, <1>6 DEF N

\* Taking a request away that is no write leaves the writes.
LEMMA RemovedUpload ==
    ASSUME Calm, NEW i \in 1..N, calls[i].op \notin Writes, calls' = RemoveAt(calls, i)
    PROVE  SameWrites(calls')
  <1>1. /\ calls' \in Seq(Requests) /\ N' = N - 1 /\ N' \in Nat /\ Len(calls') = N' /\ N \in Nat
        /\ \A j \in 1..N' : calls'[j] = calls[IF j < i THEN j ELSE j + 1]
    BY Removed, Rows DEF N
  <1>2. ASSUME NEW j \in 1..N' PROVE \E k \in 1..N : calls'[j] = calls[k]
    <2>1. (IF j < i THEN j ELSE j + 1) \in 1..N
      BY <1>1
    <2> QED
      BY <1>1, <2>1
  <1>3. ASSUME NEW k \in 1..N, calls[k].op \in Writes PROVE \E j \in 1..N' : calls'[j] = calls[k]
    <2>1. CASE k < i
      <3>1. k \in 1..N' /\ calls'[k] = calls[k]
        BY <1>1, <2>1
      <3> QED
        BY <3>1
    <2>2. CASE ~(k < i)
      <3>1. k # i
        BY <1>3
      <3>2. k - 1 \in 1..N' /\ ~(k - 1 < i) /\ (k - 1) + 1 = k
        BY <1>1, <2>2, <3>1
      <3>3. calls'[k - 1] = calls[k]
        BY <1>1, <3>2
      <3> QED
        BY <3>2, <3>3
    <2> QED
      BY <2>1, <2>2
  <1>4. ASSUME NEW j \in 1..N', NEW k \in 1..N', calls'[j].op \in Writes, calls'[k].op \in Writes PROVE j = k
    <2> DEFINE f(x) == IF x < i THEN x ELSE x + 1
    <2>1. f(j) \in 1..N /\ f(k) \in 1..N
      BY <1>1
    <2>2. calls'[j] = calls[f(j)] /\ calls'[k] = calls[f(k)]
      BY <1>1
    <2> HIDE DEF f
    <2>3. f(j) = f(k)
      BY <1>4, <2>1, <2>2 DEF Calm, OneWrite
    <2> QED
      BY <2>3 DEF f
  <1> QED
    BY <1>1, <1>2, <1>3, <1>4 DEF SameWrites

\* Taking the write away leaves only uploads.
LEMMA RemovedWrite ==
    ASSUME Calm, NEW i \in 1..N, calls[i].op \in Writes, calls' = RemoveAt(calls, i)
    PROVE  /\ calls' \in Seq(Requests)
           /\ \A j \in 1..N' : calls'[j].op \notin Writes /\ \E k \in 1..N : calls'[j] = calls[k]
  <1>1. /\ calls' \in Seq(Requests) /\ N' = N - 1 /\ N' \in Nat /\ N \in Nat
        /\ \A j \in 1..N' : calls'[j] = calls[IF j < i THEN j ELSE j + 1]
    BY Removed, Rows
  <1>2. ASSUME NEW j \in 1..N' PROVE calls'[j].op \notin Writes /\ \E k \in 1..N : calls'[j] = calls[k]
    <2> DEFINE k == IF j < i THEN j ELSE j + 1
    <2>1. k \in 1..N /\ k # i /\ calls'[j] = calls[k]
      BY <1>1
    <2> HIDE DEF k
    <2> QED
      BY <2>1, Alone
  <1> QED
    BY <1>1, <1>2

\* A request is dropped that is no write, and nothing else changes.
LEMMA DroppedKeeps ==
    ASSUME Calm, SameWrites(calls'), UNCHANGED <<row, category, form, goto, edits, early, lost, hurried>>
    PROVE  Calm'
  <1>1. N' \in Nat /\ \A j \in 1..N' : \E i \in 1..N : calls'[j] = calls[i]
    BY DEF SameWrites, N
  <1>2. \A i \in 1..N : calls[i].op \in Writes => \E j \in 1..N' : calls'[j] = calls[i]
    BY DEF SameWrites, N
  <1>3. Ids' = Ids /\ Stored' = Stored /\ \A x, e : Others(x, e)' = Others(x, e)
    BY DEF Ids, Stored, Others
  <1>4. \A r : Shows(r)' = Shows(r) /\ HasText(r)' = HasText(r)
    BY <1>3 DEF Shows, HasText
  <1>5. EditorTypes'
    BY <1>3 DEF Calm, EditorTypes, SameWrites
  <1>6. TextsFit'
    <2>1. ASSUME NEW j \in 1..N'
          PROVE  /\ calls'[j].text \subseteq edits
                 /\ calls'[j].op \in Drafts /\ calls'[j].step = "wire" => calls'[j].text # {}
                 /\ calls'[j].op \notin {"create", "upload"} => calls'[j].id \in Ids
                 /\ calls'[j].op = "create" /\ calls'[j].step = "ok" => calls'[j].id \in Ids
                 /\ calls'[j].publish => calls'[j].op = "update"
                 /\ form = None => ~calls'[j].mine
      BY <1>1 DEF Calm, TextsFit
    <2>2. \A y \in Ids : row[y].text # {} /\ row[y].text \subseteq edits
      BY DEF Calm, TextsFit
    <2>3. form # None =>
             /\ form.id \in Ids \cup {0} /\ form.text \subseteq edits /\ form.initial \subseteq edits
             /\ form.timer => form.text # {}
      BY DEF Calm, TextsFit
    <2> QED
      BY <1>3, <2>1, <2>2, <2>3 DEF TextsFit
  <1>7. OneWrite'
    <2>1. ASSUME form # None, NEW j \in 1..N', calls'[j].op \in Writes
          PROVE  calls'[j].mine /\ IF calls'[j].op = "create" THEN form.id = 0 ELSE calls'[j].id = form.id
      BY <1>1, <2>1 DEF Calm, OneWrite
    <2>2. \A i, j \in 1..N' : calls'[i].op \in Writes /\ calls'[j].op \in Writes => i = j
      BY DEF SameWrites, N
    <2>3. form = None /\ goto = None => \A i \in 1..N : calls[i].op \notin Writes
      BY Rows DEF Calm, OneWrite, Writing
    <2>4. DOMAIN calls' = 1..N'
      BY DEF SameWrites, N
    <2>5. form = None /\ goto = None => ~Writing'
      BY <1>1, <2>3, <2>4 DEF Writing
    <2> QED
      BY <2>1, <2>2, <2>5 DEF OneWrite
  <1>8. DraftFits'
    <2>1. ASSUME NEW j \in 1..N', calls'[j].step = "wire"
          PROVE  /\ calls'[j].op = "create" => \A e \in calls'[j].text : Cardinality(Others(0, e)) <= lost
                 /\ calls'[j].op = "update" =>
                       /\ row[calls'[j].id].text \subseteq calls'[j].text
                       /\ \A e \in calls'[j].text : Cardinality(Others(calls'[j].id, e)) <= lost
      BY <1>1, <2>1 DEF Calm, DraftFits
    <2> QED
      BY <1>3, <2>1 DEF DraftFits
  <1>9. FormFits'
    <2>1. form # None /\ form.id # 0 => row[form.id].text \subseteq form.text
      BY DEF Calm, FormFits
    <2>2. ASSUME form # None, \A j \in 1..N' : ~(calls'[j].op = "create" /\ calls'[j].step = "ok"), NEW e \in form.text
          PROVE  Cardinality(Others(form.id, e)) <= lost
      <3>1. \A i \in 1..N : ~(calls[i].op = "create" /\ calls[i].step = "ok")
        BY <1>2, <2>2 DEF Writes
      <3> QED
        BY <2>2, <3>1 DEF Calm, FormFits
    <2>3. ASSUME form # None, NEW j \in 1..N', calls'[j].op = "create", calls'[j].step = "ok", NEW e \in form.text
          PROVE  Cardinality(Others(calls'[j].id, e)) <= lost
      BY <1>1, <2>3 DEF Calm, FormFits
    <2> QED
      BY <1>3, <2>1, <2>2, <2>3 DEF FormFits
  <1>10. SaysSo'
    <2>1. ASSUME form # None, NEW j \in 1..N', calls'[j].op \in Drafts
          PROVE  /\ calls'[j].step = "wire" =>
                       /\ calls'[j].text \subseteq form.text
                       /\ \/ calls'[j].text = form.text /\ calls'[j].tagged = form.tagged
                          \/ form.timer /\ calls'[j].op = "update"
                 /\ calls'[j].step = "ok" => Shows(calls'[j].id) \/ (form.timer /\ calls'[j].op = "update")
      BY <1>1, <2>1 DEF Calm, SaysSo
    <2>2. (\A j \in 1..N' : calls'[j].op \notin Drafts) => \A i \in 1..N : calls[i].op \notin Drafts
      BY <1>2 DEF Drafts, Writes
    <2>3. form # None /\ form.said = "saved" /\ ~form.timer => Shows(form.id)
      BY DEF Calm, SaysSo
    <2>4. form # None /\ form.said = "idle" /\ ~form.timer /\ (\A j \in 1..N' : calls'[j].op \notin Drafts) =>
              form.text \ early \subseteq Stored
      BY <2>2 DEF Calm, SaysSo
    <2>5. form # None /\ ~form.session =>
              form.said = "idle" /\ ~form.timer /\ \A j \in 1..N' : calls'[j].op \notin Drafts
      BY <1>1 DEF Calm, SaysSo
    <2> QED
      BY <1>3, <1>4, <2>1, <2>3, <2>4, <2>5 DEF SaysSo
  <1>11. StatusFits' /\ StatusServed'
    <2>1. ASSUME lost = 0, form # None, goto = None, form.id # 0, row[form.id].public # form.public
          PROVE  \E j \in 1..N' : calls'[j].op \in {"publish", "unpublish", "delete"} /\ calls'[j].step = "ok"
      <3>1. PICK i \in 1..N : calls[i].op \in {"publish", "unpublish", "delete"} /\ calls[i].step = "ok"
        BY <2>1 DEF Calm, StatusFits
      <3> QED
        BY <1>2, <3>1 DEF Writes
    <2>2. ASSUME lost = 0, form # None, NEW j \in 1..N', calls'[j].op \in {"publish", "unpublish"}, calls'[j].step = "ok"
          PROVE  row[calls'[j].id].public = (calls'[j].op = "publish")
      BY <1>1, <2>2 DEF Calm, StatusServed
    <2> QED
      BY <2>1, <2>2 DEF StatusFits, StatusServed
  <1>12. NothingLost'
    <2>1. ASSUME form # None, NEW j \in 1..N', calls'[j].op = "delete" PROVE form.text \ early \subseteq Stored
      BY <1>1, <2>1 DEF Calm, NothingLost, Due
    <2> QED
      BY <1>3, <2>1 DEF Calm, NothingLost, Due
  <1> QED
    BY <1>5, <1>6, <1>7, <1>8, <1>9, <1>10, <1>11, <1>12 DEF Calm

\* The write is answered, and no other follows.
LEMMA SettledKeeps ==
    ASSUME Calm, calls' \in Seq(Requests),
           \A j \in 1..N' : calls'[j].op \notin Writes /\ \E k \in 1..N : calls'[j] = calls[k],
           UNCHANGED <<row, category, edits, early, lost, hurried>>,
           goto' \in {None, List} \cup Ids, goto' # None => Due \subseteq Stored,
           form = None => form' = None,
           form # None =>
               /\ form' \in Forms /\ form'.text = form.text /\ form'.initial = form.initial
               /\ form'.tagged = form.tagged /\ form'.timer = form.timer /\ form'.session = form.session
               /\ form'.id \in Ids \cup {0}
               /\ form'.id # 0 => row[form'.id].text \subseteq form.text
               /\ \A e \in form.text : Cardinality(Others(form'.id, e)) <= lost
               /\ form'.said = "saved" /\ ~form.timer => Shows(form'.id)
               /\ form'.said = "idle" /\ ~form.timer => form.text \ early \subseteq Stored
               /\ ~form.session => form'.said = "idle" /\ ~form.timer
               /\ lost = 0 /\ goto' = None /\ form'.id # 0 => row[form'.id].public = form'.public
    PROVE  Calm'
  <1>1. Ids' = Ids /\ Stored' = Stored /\ \A x, e : Others(x, e)' = Others(x, e)
    BY DEF Ids, Stored, Others
  <1>2. form = None \/ (form # None /\ form' # None)
    BY EditorConstants
  <1>3. form # None => (\A r : Shows(r)' = Shows(r)) /\ (\A r : HasText(r)' = HasText(r))
    BY <1>1 DEF Shows, HasText
  <1>4. \A j \in 1..N' : calls'[j].op \notin Writes
    OBVIOUS
  <1>5. EditorTypes'
    BY <1>1 DEF Calm, EditorTypes
  <1>6. TextsFit'
    <2>1. ASSUME NEW j \in 1..N'
          PROVE  /\ calls'[j].text \subseteq edits
                 /\ calls'[j].op \in Drafts /\ calls'[j].step = "wire" => calls'[j].text # {}
                 /\ calls'[j].op \notin {"create", "upload"} => calls'[j].id \in Ids
                 /\ calls'[j].op = "create" /\ calls'[j].step = "ok" => calls'[j].id \in Ids
                 /\ calls'[j].publish => calls'[j].op = "update"
                 /\ form = None => ~calls'[j].mine
      BY DEF Calm, TextsFit
    <2>2. \A y \in Ids : row[y].text # {} /\ row[y].text \subseteq edits
      BY DEF Calm, TextsFit
    <2>3. form # None =>
             /\ form.text \subseteq edits /\ form.initial \subseteq edits
             /\ form.timer => form.text # {}
      BY DEF Calm, TextsFit
    <2> QED
      BY <1>1, <1>2, <2>1, <2>2, <2>3 DEF TextsFit
  <1>7. OneWrite'
    <2>1. DOMAIN calls' = 1..N'
      BY DEF N
    <2>2. ~Writing'
      BY <1>4, <2>1 DEF Writing
    <2> QED
      BY <1>4, <2>2 DEF OneWrite
  <1>8. DraftFits'
    BY <1>4 DEF DraftFits, Writes
  <1>9. FormFits'
    BY <1>1, <1>2, <1>4 DEF FormFits, Writes
  <1>10. SaysSo'
    BY <1>1, <1>2, <1>3, <1>4 DEF SaysSo, Drafts, Writes
  <1>11. StatusFits' /\ StatusServed'
    BY <1>2, <1>4 DEF StatusFits, StatusServed, Writes
  <1>12. NothingLost'
    BY <1>1, <1>2, <1>4 DEF Calm, NothingLost, Writes, Due
  <1> QED
    BY <1>5, <1>6, <1>7, <1>8, <1>9, <1>10, <1>11, <1>12 DEF Calm

\* What an answer does to the form that waits for it.
LEMMA AfterDraft ==
    ASSUME Calm, form # None, NEW i \in 1..N, calls[i].op \in Drafts, calls[i].step # "wire"
    PROVE  /\ After(form, calls[i]) \in Forms /\ After(form, calls[i]).text = form.text
           /\ After(form, calls[i]).initial = form.initial /\ After(form, calls[i]).tagged = form.tagged
           /\ After(form, calls[i]).timer = form.timer /\ After(form, calls[i]).public = form.public
           /\ After(form, calls[i]).session = form.session
           /\ After(form, calls[i]).said = (IF calls[i].step = "ok" THEN "saved" ELSE "error")
           /\ After(form, calls[i]).id = (IF calls[i].step = "ok" THEN calls[i].id ELSE form.id)
  <1>1. form \in Forms /\ calls[i] \in Requests
    BY Rows
  <1>2. After(form, calls[i]) =
            [form EXCEPT !.said = IF calls[i].step = "ok" THEN "saved" ELSE "error",
                         !.id = IF calls[i].step = "ok" THEN calls[i].id ELSE form.id]
    BY <1>1 DEF After, AfterSave, Said, Drafts, Forms
  <1> QED
    BY <1>1, <1>2 DEF Forms, Requests

\* An upload is answered.
LEMMA ImageKeeps ==
    ASSUME Calm, NEW i \in 1..N, Answered(i), calls[i].op = "upload", ~hurried'
    PROVE  Calm'
  <1>1. ~calls[i].publish /\ calls[i].op \notin Writes
    BY DEF Calm, TextsFit, Writes
  <1>2. calls' = RemoveAt(calls, i) /\ goto' = goto /\ UNCHANGED <<row, category, lost>>
    BY <1>1 DEF Answered
  <1>3. SameWrites(calls')
    BY <1>1, <1>2, RemovedUpload
  <1>4. CASE calls[i].step = "ok" /\ calls[i].mine
    <2>1. Edit(Cardinality(edits) + 1)
      BY <1>4 DEF Answered
    <2>2. form # None
      BY <1>4 DEF Calm, TextsFit
    <2> QED
      BY <1>2, <1>3, <2>1, <2>2, EditKeeps
  <1>5. CASE ~(calls[i].step = "ok" /\ calls[i].mine)
    <2>1. After(form, calls[i]) = form
      BY DEF After
    <2>2. form' = form /\ UNCHANGED <<edits, early, hurried>>
      BY <1>5, <2>1 DEF Answered
    <2> QED
      BY <1>2, <1>3, <2>2, DroppedKeeps
  <1> QED
    BY <1>4, <1>5

\* A write is answered.
LEMMA WrittenKeeps ==
    ASSUME Calm, NEW i \in 1..N, Answered(i), calls[i].op \in Writes, ~calls[i].publish
    PROVE  Calm'
  <1>1. /\ calls[i].step \in {"ok", "error"} /\ calls' = RemoveAt(calls, i)
        /\ UNCHANGED <<row, category, edits, early, lost, hurried>>
        /\ form' = IF calls[i].mine THEN After(form, calls[i]) ELSE form
        /\ goto' = CASE calls[i].step = "ok" /\ calls[i].op = "create" -> calls[i].id
                     [] calls[i].step = "ok" /\ calls[i].op = "delete" -> List
                     [] OTHER -> goto
    BY Rows DEF Answered, Requests, Writes
  <1>2. /\ calls' \in Seq(Requests)
        /\ \A j \in 1..N' : calls'[j].op \notin Writes /\ \E k \in 1..N : calls'[j] = calls[k]
    BY <1>1, RemovedWrite
  <1>3. \A j \in 1..N : j # i => calls[j].op \notin Writes
    BY Alone
  <1>4. form # None => calls[i].mine /\ IF calls[i].op = "create" THEN form.id = 0 ELSE calls[i].id = form.id
    BY Alone
  <1>5. form = None => form' = None
    BY <1>1 DEF Calm, TextsFit
  <1>6. form # None => form' = After(form, calls[i])
    BY <1>1, <1>4
  <1>7. /\ goto \in {None, List} \cup Ids /\ (goto # None => Due \subseteq Stored)
        /\ Due \subseteq Stored \cup (IF form = None THEN {} ELSE form.text)
    BY DEF Calm, EditorTypes, NothingLost, Due
  <1>8. form # None =>
             /\ form \in Forms /\ form.id \in Ids \cup {0}
             /\ form.id # 0 => row[form.id].text \subseteq form.text
             /\ form.said = "saved" /\ ~form.timer => Shows(form.id)
    BY Rows DEF Calm, TextsFit, FormFits, SaysSo
  <1>11. form # None /\ ~form.session => form.said = "idle" /\ ~form.timer /\ calls[i].op \notin Drafts
    BY DEF Calm, SaysSo
  <1>9. CASE calls[i].op = "create" /\ calls[i].step = "ok"
    <2>1. goto' = calls[i].id /\ calls[i].id \in Ids /\ calls[i].id # 0
      BY <1>1, <1>9, Rows DEF Calm, TextsFit
    <2>2. goto' # None
      BY <2>1, Rows
    <2>3. form # None => Shows(calls[i].id) /\ \A e \in form.text : Cardinality(Others(calls[i].id, e)) <= lost
      BY <1>9 DEF Calm, SaysSo, FormFits, Drafts
    <2>4. Due \subseteq Stored
      BY <1>7, <2>1, <2>3, Rows DEF Shows, HasText, Stored
    <2>5. form # None =>
               /\ form' \in Forms /\ form'.text = form.text /\ form'.initial = form.initial
               /\ form'.tagged = form.tagged /\ form'.timer = form.timer /\ form'.session = form.session
               /\ form'.id = calls[i].id /\ form'.said = "saved"
      BY <1>6, <1>9, AfterDraft DEF Drafts
    <2>6. form # None => row[calls[i].id].text = form.text
      BY <2>3 DEF Shows, HasText
    <2> QED
      <3>1. form # None => form.session
        BY <1>9, <1>11 DEF Drafts
      <3> QED
        BY <1>1, <1>2, <1>5, <2>1, <2>2, <2>3, <2>4, <2>5, <2>6, <3>1, SettledKeeps
  <1>10. CASE ~(calls[i].op = "create" /\ calls[i].step = "ok")
    <2>1. goto' \in {None, List} \cup Ids /\ (goto' # List => goto' = goto)
      BY <1>1, <1>7, <1>10
    <2>2. goto' # None => Due \subseteq Stored
      <3>1. CASE calls[i].op = "delete" /\ calls[i].step = "ok"
        BY <1>7, <3>1 DEF Calm, NothingLost, Due
      <3>2. CASE ~(calls[i].op = "delete" /\ calls[i].step = "ok")
        BY <1>1, <1>7, <1>10, <3>2
      <3> QED
        BY <3>1, <3>2
    <2>3. ASSUME form # None, NEW e \in form.text PROVE Cardinality(Others(form.id, e)) <= lost
      <3>1. \A j \in 1..N : ~(calls[j].op = "create" /\ calls[j].step = "ok")
        BY <1>3, <1>10 DEF Writes
      <3> QED
        BY <2>3, <3>1 DEF Calm, FormFits
    <2>4. CASE calls[i].op \in Drafts
      <3>1. form # None =>
               /\ form' \in Forms /\ form'.text = form.text /\ form'.initial = form.initial
               /\ form'.tagged = form.tagged /\ form'.timer = form.timer /\ form'.public = form.public
               /\ form'.session = form.session
               /\ form'.id = form.id /\ form'.said = IF calls[i].step = "ok" THEN "saved" ELSE "error"
        BY <1>1, <1>4, <1>6, <1>10, <2>4, AfterDraft DEF Drafts
      <3>2. form # None /\ calls[i].step = "ok" /\ ~form.timer => Shows(form.id)
        BY <1>4, <1>10, <2>4 DEF Calm, SaysSo, Drafts
      <3>3. goto' = goto
        BY <1>1, <1>10, <2>4 DEF Drafts
      <3>4. lost = 0 /\ form # None /\ goto = None /\ form.id # 0 => row[form.id].public = form.public
        BY <1>3, <2>4 DEF Calm, StatusFits, Drafts, Writes
      <3> QED
        BY <1>1, <1>2, <1>5, <1>8, <1>11, <2>1, <2>2, <2>3, <2>4, <3>1, <3>2, <3>3, <3>4, SettledKeeps
    <2>5. CASE calls[i].op \notin Drafts
      <3>1. \A j \in 1..N : calls[j].op \notin Drafts
        BY <1>3, <2>5 DEF Drafts, Writes
      <3>2. form # None /\ form.said = "idle" /\ ~form.timer => form.text \ early \subseteq Stored
        BY <3>1 DEF Calm, SaysSo
      <3>3. form # None =>
               /\ form' \in Forms /\ form'.text = form.text /\ form'.initial = form.initial
               /\ form'.tagged = form.tagged /\ form'.timer = form.timer /\ form'.session = form.session
               /\ form'.id = form.id /\ form'.said = form.said
        BY <1>6, <1>8, <2>5 DEF After, Drafts, Forms
      <3>4. ASSUME lost = 0, form # None, goto' = None, form.id # 0 PROVE row[form.id].public = form'.public
        <4>1. goto = None
          BY <2>1, <3>4, EditorConstants
        <4>2. CASE calls[i].op \in {"publish", "unpublish"} /\ calls[i].step = "ok"
          <5>1. form'.public = (calls[i].op = "publish")
            BY <1>6, <1>8, <3>4, <4>2 DEF After, Forms
          <5>2. row[calls[i].id].public = (calls[i].op = "publish")
            BY <3>4, <4>2 DEF Calm, StatusServed
          <5> QED
            BY <1>4, <3>4, <4>2, <5>1, <5>2
        <4>3. CASE ~(calls[i].op \in {"publish", "unpublish"} /\ calls[i].step = "ok")
          <5>1. form' = form
            BY <1>6, <2>5, <3>4, <4>3 DEF After, Drafts
          <5>2. ~(calls[i].op = "delete" /\ calls[i].step = "ok")
            BY <1>1, <3>4, EditorConstants
          <5>3. \A j \in 1..N : ~(calls[j].op \in {"publish", "unpublish", "delete"} /\ calls[j].step = "ok")
            BY <1>3, <4>3, <5>2 DEF Writes
          <5> QED
            BY <3>4, <4>1, <5>1, <5>3 DEF Calm, StatusFits
        <4> QED
          BY <4>2, <4>3
      <3> QED
        BY <1>1, <1>2, <1>5, <1>8, <1>11, <2>1, <2>2, <2>3, <3>2, <3>3, <3>4, SettledKeeps
    <2> QED
      BY <2>4, <2>5
  <1> QED
    BY <1>9, <1>10

\* publishNow goes on with the publication when its save was answered.
LEMMA PublishingKeeps ==
    ASSUME Calm, NEW i \in 1..N, Answered(i), calls[i].publish
    PROVE  Calm'
  <1> DEFINE c == [calls[i] EXCEPT !.op = "publish", !.publish = FALSE, !.step = "wire"]
  <1>1. /\ calls[i].op = "update" /\ calls[i].step \in {"ok", "error"} /\ calls[i] \in Requests
        /\ DOMAIN calls = 1..N /\ N \in Nat /\ calls \in Seq(Requests)
    BY Rows DEF Answered, Requests, Calm, EditorTypes, TextsFit
  <1>2. /\ UNCHANGED <<row, category, goto, edits, early, lost, hurried>>
        /\ form' = IF calls[i].mine THEN After(form, calls[i]) ELSE form
    BY <1>1 DEF Answered
  <1>3. calls' = [calls EXCEPT ![i] = c]
    BY <1>1 DEF Answered
  <1>4. /\ c \in Requests /\ c.op = "publish" /\ c.id = calls[i].id /\ c.text = calls[i].text
        /\ ~c.publish /\ c.mine = calls[i].mine /\ c.step = "wire"
    BY <1>1 DEF Requests, Ops, Writes
  <1> HIDE DEF c
  <1>5. /\ calls' \in Seq(Requests) /\ N' = N
        /\ \A j \in 1..N : j # i => calls'[j] = calls[j]
        /\ calls'[i] = c
    BY <1>1, <1>3, <1>4 DEF N
  <1>6. /\ \A j \in 1..N : j # i => calls[j].op \notin Writes
        /\ form # None => calls[i].mine /\ calls[i].id = form.id
    BY <1>1, Alone DEF Writes
  <1>7. \A j \in 1..N : calls'[j].op \in Writes => j = i
    BY <1>5, <1>6
  <1>8. \A j \in 1..N : calls'[j].op \notin Drafts \cup {"delete"}
    BY <1>4, <1>5, <1>7 DEF Drafts, Writes
  <1>9. Ids' = Ids /\ Stored' = Stored /\ \A x, e : Others(x, e)' = Others(x, e)
    BY <1>2 DEF Ids, Stored, Others
  <1>10. form = None => form' = None
    BY <1>2 DEF Calm, TextsFit
  <1>11. form # None =>
             /\ form' \in Forms /\ form' # None /\ form'.text = form.text /\ form'.initial = form.initial
             /\ form'.tagged = form.tagged /\ form'.timer = form.timer /\ form'.public = form.public
             /\ form'.session = form.session
             /\ form'.id = form.id /\ form'.said = (IF calls[i].step = "ok" THEN "saved" ELSE "error")
    BY <1>1, <1>2, <1>6, AfterDraft, EditorConstants DEF Drafts
  <1>12. EditorTypes'
    BY <1>2, <1>5, <1>9, <1>10, <1>11 DEF Calm, EditorTypes
  <1>13. TextsFit'
    <2>1. ASSUME NEW j \in 1..N
          PROVE  /\ calls'[j].text \subseteq edits
                 /\ calls'[j].op \notin {"create", "upload"} => calls'[j].id \in Ids
                 /\ calls'[j].op = "create" /\ calls'[j].step = "ok" => calls'[j].id \in Ids
                 /\ calls'[j].publish => calls'[j].op = "update"
                 /\ form = None => ~calls'[j].mine
      <3>1. CASE j = i
        BY <1>1, <1>4, <1>5, <3>1 DEF Calm, TextsFit
      <3>2. CASE j # i
        BY <1>5, <3>2 DEF Calm, TextsFit
      <3> QED
        BY <3>1, <3>2
    <2>2. \A y \in Ids : row[y].text # {} /\ row[y].text \subseteq edits
      BY DEF Calm, TextsFit
    <2>3. form # None =>
             /\ form.id \in Ids \cup {0} /\ form.text \subseteq edits /\ form.initial \subseteq edits
             /\ form.timer => form.text # {}
      BY DEF Calm, TextsFit
    <2> QED
      BY <1>2, <1>5, <1>8, <1>9, <1>10, <1>11, <2>1, <2>2, <2>3 DEF TextsFit
  <1>14. OneWrite'
    <2>1. ~(form = None /\ goto = None)
      BY <1>1 DEF Calm, OneWrite, Writing, Writes
    <2> QED
      BY <1>2, <1>4, <1>5, <1>6, <1>7, <1>10, <1>11, <2>1 DEF OneWrite
  <1>15. DraftFits'
    BY <1>5, <1>8 DEF DraftFits, Drafts
  <1>16. FormFits'
    <2>1. \A j \in 1..N : calls[j].op # "create"
      BY <1>1, <1>6 DEF Writes
    <2> QED
      BY <1>2, <1>5, <1>8, <1>9, <1>10, <1>11, <2>1 DEF Calm, FormFits, Drafts
  <1>17. SaysSo'
    <2>1. ASSUME form # None, calls[i].step = "ok", ~form.timer PROVE Shows(form.id)
      BY <1>1, <1>6, <2>1 DEF Calm, SaysSo, Drafts
    <2>2. ASSUME form # None, Shows(form.id) PROVE Shows(form.id)'
      BY <1>2, <1>9, <1>11, <2>2 DEF Shows, HasText
    <2>3. form # None => form.session
      BY <1>1 DEF Calm, SaysSo, Drafts
    <2> QED
      BY <1>5, <1>8, <1>10, <1>11, <2>1, <2>2, <2>3 DEF SaysSo
  <1>18. StatusFits' /\ StatusServed'
    <2>1. lost = 0 /\ form # None /\ goto = None /\ form.id # 0 => row[form.id].public = form.public
      BY <1>1, <1>6 DEF Calm, StatusFits, Writes
    <2>2. \A j \in 1..N : calls'[j].op \in Writes => calls'[j].step = "wire"
      BY <1>4, <1>5, <1>7
    <2> QED
      BY <1>2, <1>5, <1>10, <1>11, <2>1, <2>2 DEF StatusFits, StatusServed, Writes
  <1>19. NothingLost'
    BY <1>2, <1>5, <1>8, <1>9, <1>10, <1>11 DEF Calm, NothingLost, Due
  <1> QED
    BY <1>12, <1>13, <1>14, <1>15, <1>16, <1>17, <1>18, <1>19 DEF Calm

LEMMA AnsweredKeeps ==
    ASSUME Calm, NEW i \in 1..N, Answered(i), ~hurried'
    PROVE  Calm'
  <1>1. calls[i].op \in Writes \/ calls[i].op = "upload"
    BY Rows DEF Requests, Ops
  <1> QED
    BY <1>1, ImageKeeps, WrittenKeeps, PublishingKeeps

\* Who hurried once is taken to have hurried.
LEMMA HurryStays == [Next]_vars /\ hurried => hurried'
  BY DEF Next, vars, Creator, Browser, OpenNew, Choose, Leave, Type, Edit, Preview, ToggleTag, Click, Publish, Ask,
         Fire, Save, Send, Swap, Arrive, SessionKnown, CategoryGone, Serve, Fail, LoseAnswer, Answered

LEMMA StutterKeeps ==
    ASSUME Calm, UNCHANGED vars
    PROVE  Calm'
  <1>1. UNCHANGED <<row, category, form, goto, calls, edits, early, lost, hurried>>
    BY DEF vars
  <1>2. SameWrites(calls')
    BY <1>1 DEF SameWrites, Calm, EditorTypes, OneWrite, N
  <1> QED
    BY <1>1, <1>2, DroppedKeeps

LEMMA EditorStep == EditorInv /\ [Next]_vars => EditorInv'
  <1> SUFFICES ASSUME EditorInv, [Next]_vars, ~hurried' PROVE Calm'
    BY DEF EditorInv
  <1>1. Calm
    BY HurryStays DEF EditorInv
  <1>2. CASE Creator
    BY <1>1, <1>2, OpenNewKeeps, ChooseKeeps, LeaveKeeps, TypeKeeps, PreviewKeeps, ToggleTagKeeps, SavesKeep, AskKeeps
       DEF Creator
  <1>3. CASE Browser
    BY <1>1, <1>3, SwapKeeps, ArriveKeeps, SessionKnownKeeps, SavesKeep DEF Browser
  <1>4. CASE CategoryGone
    BY <1>1, <1>4, CategoryGoneKeeps
  <1>5. ASSUME NEW i \in DOMAIN calls, Serve(i) \/ Fail(i) \/ LoseAnswer(i) \/ Answered(i) PROVE Calm'
    <2>1. i \in 1..N
      BY <1>1, Rows
    <2> QED
      BY <1>1, <1>5, <2>1, ServeKeeps, FailKeeps, LoseAnswerKeeps, AnsweredKeeps
  <1>6. CASE UNCHANGED vars
    BY <1>1, <1>6, StutterKeeps
  <1> QED
    BY <1>2, <1>3, <1>4, <1>5, <1>6 DEF Next

LEMMA EditorAlways == Spec => []EditorInv
  BY EditorStarts, EditorStep, PTL DEF Spec

\* ContentPartEditorForm.tsx:
\* When the creator has not hurried, and the page has come to rest and says "saved", then the item is
\* there with the text and the categories that the form shows, and with its status if no answer was lost.
THEOREM FormShowsTheStored == Spec => []SavedAsShown
  <1>1. EditorInv => SavedAsShown
    <2> SUFFICES ASSUME EditorInv, Quiet, form.said = "saved"
                 PROVE  /\ form.id \in DOMAIN row
                        /\ row[form.id].text = form.text /\ row[form.id].tagged = form.tagged
                        /\ lost = 0 => row[form.id].public = form.public
      BY DEF SavedAsShown
    <2>1. Calm /\ form # None /\ goto = None /\ ~form.timer /\ calls = <<>>
      BY DEF EditorInv, Quiet
    <2>2. Shows(form.id)
      BY <2>1 DEF Calm, SaysSo
    <2>3. lost = 0 => row[form.id].public = form.public
      BY <2>1, <2>2, Rows DEF Calm, StatusFits, N, Shows, HasText
    <2> QED
      BY <2>1, <2>2, <2>3, Rows DEF Shows, HasText
  <1> QED
    BY <1>1, EditorAlways, PTL

\* ContentPartEditorForm.tsx:
\* When the creator has not hurried, every edit but those made before the session was known that nothing
\* of the same form took along is in the form or in an item; and every edit is in at most one item more than
\* answers were lost.
THEOREM NoEditIsLost == Spec => []EditsKept
  <1>1. EditorInv => EditsKept
    <2> SUFFICES ASSUME EditorInv, ~hurried
                 PROVE  /\ Due \subseteq Stored \cup IF form = None THEN {} ELSE form.text
                        /\ \A e \in edits : Cardinality({r \in DOMAIN row : e \in row[r].text}) <= 1 + lost
      BY DEF EditsKept
    <2>1. Calm
      BY DEF EditorInv
    <2>2. ASSUME NEW e \in edits PROVE Cardinality({r \in DOMAIN row : e \in row[r].text}) <= 1 + lost
      <3>1. {r \in DOMAIN row : e \in row[r].text} = Others(0, e)
        BY <2>1, Rows DEF Others
      <3> QED
        BY <2>1, <3>1 DEF Calm, NothingLost, Due
    <2> QED
      BY <2>1, <2>2 DEF Calm, NothingLost, Due
  <1> QED
    BY <1>1, EditorAlways, PTL
=============================================================================
