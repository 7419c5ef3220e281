---------------------------- MODULE ContentProofs ----------------------------
(***************************************************************************)
(* What holds of contents, chapters and readers for every set of items,    *)
(* parts, requests and readers, whatever the order of their statements,    *)
(* and, with Moderation, of reports, accounts and the audit trail for      *)
(* every set of targets, reports and moderators.                           *)
(***************************************************************************)
EXTENDS Moderation, SequenceTheorems, TLAPS

\* A part exists only with its item, an article only with its part.
RowsExist ==
    /\ \A p \in Parts : part[p] # NoRow => item[ItemOf[p]] # NoRow
    /\ \A i \in Articles : \A p \in PartsOf(i) : item[i] # NoRow => part[p] # NoRow

\* What a request is about was found by its first SELECT and is still there.
RequestsFound ==
    \A h \in Handlers : stage[h] # "idle" =>
        /\ request[h] \in Requests
        /\ item[request[h].item] # NoRow
        /\ request[h].part # NoPart => part[request[h].part] # NoRow

\* A reader of a chapter knows which.
ChaptersNamed ==
    \A r \in Readers : at[r] = "part" => reading[r].part \in Parts

IInv == TypeOK /\ RowsExist /\ RequestsFound /\ ChaptersNamed

LEMMA InitIInv == Init => IInv
  BY LifecycleAssumption
  DEF Init, IInv, TypeOK, RowsExist, RequestsFound, ChaptersNamed

\* A row that an update is about is there, and stays.
RowsKept ==
    /\ \A i \in Items : item[i] # NoRow => item'[i] # NoRow
    /\ \A p \in Parts : part[p] # NoRow => part'[p] # NoRow
    /\ \A p \in Parts : IsDeleted(p) => IsDeleted(p)'

RowsTyped ==
    /\ item \in [Items -> ItemRow \cup {NoRow}]
    /\ part \in [Parts -> PartRow \cup {NoRow}]

\* Every row that changes was there, stays, and stays deleted.
RowsUpdated ==
    /\ item' \in [Items -> ItemRow \cup {NoRow}]
    /\ part' \in [Parts -> PartRow \cup {NoRow}]
    /\ \A i \in Items : item[i] # NoRow <=> item'[i] # NoRow
    /\ \A p \in Parts : part[p] # NoRow <=> part'[p] # NoRow
    /\ \A p \in Parts : IsDeleted(p) => IsDeleted(p)'

LEMMA UpdatesKeep == IInv /\ RowsUpdated => RowsTyped' /\ RowsExist' /\ RowsKept
  BY LifecycleAssumption DEF IInv, RowsUpdated, RowsTyped, RowsExist, RowsKept, PartsOf

\* The writes of a creator's request.
Write(h) ==
    \/ PublishItem(h) \/ UnpublishItem(h) \/ DeleteItem(h)
    \/ PatchVisibility(h) \/ PatchDescription(h) \/ PatchBody(h)
    \/ \E p \in Parts : AddPart(h, p)
    \/ PublishPart(h) \/ DeletePart(h)

\* Every write leaves typed rows, removes none and brings no part back.
LEMMA WriteKeeps ==
    ASSUME IInv, NEW h \in Handlers, Write(h)
    PROVE  RowsTyped' /\ RowsExist' /\ RowsKept /\ Finish(h) /\ UNCHANGED readerVars
  <1> DEFINE q == request[h]
             i == q.item
  <1>0. stage[h] = "write" /\ Finish(h) /\ UNCHANGED readerVars
    BY DEF Write, PublishItem, UnpublishItem, DeleteItem, PatchVisibility, PatchDescription,
       PatchBody, AddPart, PublishPart, DeletePart, Writes
  <1>1. /\ q \in Requests /\ q \in Request /\ i \in Items
        /\ item[i] # NoRow /\ item[i] \in ItemRow
        /\ q.part # NoPart => /\ q.part \in Parts /\ part[q.part] # NoRow
                              /\ part[q.part] \in PartRow
                              /\ i = ItemOf[q.part] /\ i \notin Articles
    BY <1>0, LifecycleAssumption DEF IInv, TypeOK, RequestsFound, Request
  <1>2. \A p \in OwnPart(i) : p \in Parts /\ part[p] # NoRow /\ part[p] \in PartRow
    BY <1>1 DEF IInv, TypeOK, RowsExist, OwnPart, PartsOf
  <1>3. CASE PublishItem(h)
    <2>1. /\ item' \in [Items -> ItemRow \cup {NoRow}] /\ item'[i] \in ItemRow
          /\ \A j \in Items \ {i} : item'[j] = item[j]
      BY <1>1, <1>3 DEF PublishItem, ItemRow, ItemStatus, Visibility, IInv, TypeOK
    <2>2. /\ part' \in [Parts -> PartRow \cup {NoRow}]
          /\ \A p \in OwnPart(i) : part'[p] \in PartRow /\ (part[p].deleted => part'[p].deleted)
          /\ \A p \in Parts \ OwnPart(i) : part'[p] = part[p]
      BY <1>2, <1>3 DEF PublishItem, PartRow, PartStatus, IInv, TypeOK
    <2> QED
      BY <1>0, <1>1, <1>2, <2>1, <2>2, UpdatesKeep, LifecycleAssumption
      DEF RowsUpdated, IsDeleted
  <1>4. CASE UnpublishItem(h)
    <2>1. /\ item' \in [Items -> ItemRow \cup {NoRow}] /\ item'[i] \in ItemRow
          /\ \A j \in Items \ {i} : item'[j] = item[j]
      BY <1>1, <1>4 DEF UnpublishItem, ItemRow, ItemStatus, Visibility, IInv, TypeOK
    <2>2. /\ part' \in [Parts -> PartRow \cup {NoRow}]
          /\ \A p \in OwnPart(i) : part'[p] \in PartRow /\ (part[p].deleted => part'[p].deleted)
          /\ \A p \in Parts \ OwnPart(i) : part'[p] = part[p]
      BY <1>2, <1>4 DEF UnpublishItem, PartRow, PartStatus, IInv, TypeOK
    <2> QED
      BY <1>0, <1>1, <1>2, <2>1, <2>2, UpdatesKeep, LifecycleAssumption
      DEF RowsUpdated, IsDeleted
  <1>5. CASE DeleteItem(h)
    <2>1. /\ item' \in [Items -> ItemRow \cup {NoRow}] /\ item'[i] \in ItemRow
          /\ \A j \in Items \ {i} : item'[j] = item[j]
      BY <1>1, <1>5 DEF DeleteItem, ItemRow, ItemStatus, Visibility, IInv, TypeOK
    <2>2. /\ part' \in [Parts -> PartRow \cup {NoRow}]
          /\ \A p \in OwnPart(i) : part'[p] \in PartRow /\ (part[p].deleted => part'[p].deleted)
          /\ \A p \in Parts \ OwnPart(i) : part'[p] = part[p]
      BY <1>2, <1>5, ZenonT(60) DEF DeleteItem, PartRow, PartStatus, IInv, TypeOK
    <2> QED
      BY <1>0, <1>1, <1>2, <2>1, <2>2, UpdatesKeep, LifecycleAssumption
      DEF RowsUpdated, IsDeleted
  <1>6. CASE PatchVisibility(h) \/ PatchDescription(h)
    <2>1. /\ item' \in [Items -> ItemRow \cup {NoRow}] /\ item'[i] \in ItemRow
          /\ \A j \in Items \ {i} : item'[j] = item[j]
          /\ part' = part
      <3>1. CASE PatchVisibility(h)
        BY <1>1, <3>1 DEF PatchVisibility, ItemRow, IInv, TypeOK
      <3>2. CASE PatchDescription(h)
        <4>1. PICK b \in BOOLEAN : item' = [item EXCEPT ![i].described = b] /\ part' = part
          BY <3>2 DEF PatchDescription
        <4> QED
          BY <1>1, <4>1 DEF ItemRow, IInv, TypeOK
      <3> QED
        BY <1>6, <3>1, <3>2
    <2> QED
      BY <1>0, <1>1, <2>1, UpdatesKeep, LifecycleAssumption
      DEF RowsUpdated, IsDeleted, IInv, TypeOK
  <1>7. CASE PatchBody(h)
    <2>1. /\ part' \in [Parts -> PartRow \cup {NoRow}] /\ item' = item
          /\ \A p \in OwnPart(i) : part'[p] \in PartRow /\ part[p].deleted = part'[p].deleted
          /\ \A p \in Parts \ OwnPart(i) : part'[p] = part[p]
      <3>1. PICK b \in BOOLEAN :
               /\ item' = item
               /\ part' = [p \in Parts |-> IF p \in OwnPart(i)
                                           THEN [part[p] EXCEPT !.filled = b] ELSE part[p]]
        BY <1>7 DEF PatchBody
      <3> QED
        BY <1>2, <3>1 DEF PartRow, IInv, TypeOK
    <2> QED
      BY <1>0, <1>2, <2>1, UpdatesKeep, LifecycleAssumption
      DEF RowsUpdated, IsDeleted, IInv, TypeOK
  <1>8. ASSUME NEW p \in Parts, AddPart(h, p)
        PROVE  RowsTyped' /\ RowsExist' /\ RowsKept
    <2>1. /\ part' \in [Parts -> PartRow \cup {NoRow}] /\ item' = item
          /\ part'[p] \in PartRow /\ part[p] = NoRow
          /\ \A s \in Parts \ {p} : part'[s] = part[s]
      BY <1>8 DEF AddPart, PartRow, PartStatus, IInv, TypeOK
    <2>2. item[ItemOf[p]] # NoRow
      BY <1>1, <1>8 DEF AddPart
    <2> QED
      BY <2>1, <2>2, LifecycleAssumption
      DEF RowsTyped, RowsExist, RowsKept, IInv, TypeOK, PartsOf, IsDeleted
  <1>9. CASE PublishPart(h) \/ DeletePart(h)
    <2>1. q.part \in Parts /\ part[q.part] \in PartRow /\ part[q.part] # NoRow
      BY <1>1, <1>9 DEF PublishPart, DeletePart, Writes
    <2>2. /\ part' \in [Parts -> PartRow \cup {NoRow}] /\ item' = item
          /\ part'[q.part] \in PartRow /\ (part[q.part].deleted => part'[q.part].deleted)
          /\ \A s \in Parts \ {q.part} : part'[s] = part[s]
      <3>1. CASE DeletePart(h)
        BY <2>1, <3>1 DEF DeletePart, PartRow, PartStatus, IInv, TypeOK
      <3>2. ASSUME NEW s \in PartStatus, UNCHANGED item,
                   part' = [part EXCEPT ![request[h].part].status = s]
            PROVE  <2>2
        BY <2>1, <3>2 DEF PartRow, IInv, TypeOK
      <3>3. CASE PublishPart(h)
        <4>1. PICK op \in {"publish", "schedule", "unpublish"} :
                 /\ UNCHANGED item
                 /\ part' = [part EXCEPT ![request[h].part].status =
                        CASE op = "publish"   -> "PUBLISHED"
                          [] op = "schedule"  -> "SCHEDULED"
                          [] op = "unpublish" -> "UNPUBLISHED"]
          BY <3>3 DEF PublishPart
        <4> QED
          BY <3>2, <4>1 DEF PartStatus
      <3> QED
        BY <1>9, <3>1, <3>3
    <2> QED
      BY <1>0, <2>1, <2>2, UpdatesKeep, LifecycleAssumption
      DEF RowsUpdated, IsDeleted, IInv, TypeOK
  <1> QED
    BY <1>0, <1>3, <1>4, <1>5, <1>6, <1>7, <1>8, <1>9 DEF Write

\* So does creating an item, and so does a moderator.
LEMMA OutsideKeeps ==
    ASSUME IInv, NEW i \in Items,
           \/ \E described, filled \in BOOLEAN : CreateItem(i, described, filled)
           \/ \E action \in Effects : Moderate(i, action)
    PROVE  RowsTyped' /\ RowsExist' /\ RowsKept /\ UNCHANGED <<ownerVars, readerVars>>
  <1>1. ASSUME NEW described \in BOOLEAN, NEW filled \in BOOLEAN,
               CreateItem(i, described, filled)
        PROVE  RowsTyped' /\ RowsExist' /\ RowsKept
    <2>1. \A p \in OwnPart(i) : p \in Parts /\ ItemOf[p] = i /\ part[p] = NoRow
      BY <1>1 DEF CreateItem, OwnPart, PartsOf, IInv, RowsExist
    <2>2. /\ item' \in [Items -> ItemRow \cup {NoRow}] /\ item'[i] \in ItemRow
          /\ \A j \in Items \ {i} : item'[j] = item[j]
      BY <1>1 DEF CreateItem, ItemRow, ItemStatus, Visibility, IInv, TypeOK
    <2>3. /\ part' \in [Parts -> PartRow \cup {NoRow}]
          /\ \A p \in OwnPart(i) : part'[p] \in PartRow
          /\ \A p \in Parts \ OwnPart(i) : part'[p] = part[p]
      BY <1>1, <2>1 DEF CreateItem, PartRow, PartStatus, IInv, TypeOK
    <2>4. \A p \in Parts : i \in Articles /\ ItemOf[p] = i => p \in OwnPart(i)
      BY DEF OwnPart, PartsOf
    <2>5. RowsExist'
      BY <1>1, <2>1, <2>2, <2>3, <2>4, LifecycleAssumption
      DEF RowsExist, IInv, PartsOf, TypeOK
    <2> QED
      BY <2>1, <2>2, <2>3, <2>5, LifecycleAssumption
      DEF RowsTyped, RowsKept, IsDeleted, IInv, TypeOK
  <1>2. ASSUME NEW action \in Effects, Moderate(i, action)
        PROVE  RowsTyped' /\ RowsExist' /\ RowsKept
    <2>1. item[i] \in ItemRow
      BY <1>2 DEF Moderate, IInv, TypeOK
    <2>2. Moderated(item[i], action) \in ItemRow
      BY <2>1 DEF Moderated, Effects, ItemRow, ItemStatus
    <2>3. /\ item' \in [Items -> ItemRow \cup {NoRow}] /\ item'[i] \in ItemRow
          /\ \A j \in Items \ {i} : item'[j] = item[j]
          /\ part' = part
      BY <1>2, <2>2 DEF Moderate, IInv, TypeOK
    <2> QED
      BY <1>2, <2>3, UpdatesKeep, LifecycleAssumption
      DEF Moderate, RowsUpdated, IsDeleted, IInv, TypeOK
  <1> QED
    BY <1>1, <1>2 DEF CreateItem, Moderate

-----------------------------------------------------------------------------
(***************************************************************************)
(* Types, and what the requests and the readers have found                 *)
(***************************************************************************)

\* The reads and the ends of a creator's request.
Check(h) ==
    \/ \E q \in Requests : BeginItem(h, q) \/ BeginPart(h, q)
    \/ CheckItem(h) \/ CheckBody(h) \/ GiveUp(h)

ReaderStep(r) ==
    \/ \E i \in Items, p \in Parts \cup {NoPart} : ReadItem(r, i, p)
    \/ ReadParts(r) \/ ReadPart(r) \/ ReadLinks(r) \/ EndReading(r)

\* A step is one of these, or changes nothing.
LEMMA StepCases ==
    ASSUME [Next]_vars
    PROVE  \/ \E i \in Items : \/ \E described, filled \in BOOLEAN :
                                    CreateItem(i, described, filled)
                              \/ \E action \in Effects : Moderate(i, action)
           \/ \E h \in Handlers : Check(h) \/ Write(h)
           \/ \E r \in Readers : ReaderStep(r)
           \/ UNCHANGED vars
  BY DEF Next, OwnerNext, ReaderNext, ModeratorNext, Check, Write, ReaderStep, Refuse

\* The types of the handlers and of the readers.
RequestsTyped ==
    /\ request \in [Handlers -> Request \cup {NoRequest}]
    /\ stage   \in [Handlers -> {"idle", "item", "body", "write"}]
    /\ \A h \in Handlers : stage[h] = "idle" <=> request[h] = NoRequest

ReadersTyped ==
    /\ reading \in [Readers -> Reading \cup {NoRequest}]
    /\ at      \in [Readers -> {"idle", "parts", "part", "links", "done"}]
    /\ \A r \in Readers : at[r] = "idle" <=> reading[r] = NoRequest

LEMMA TypeParts ==
    /\ TypeOK  => RowsTyped /\ RequestsTyped /\ ReadersTyped
    /\ RowsTyped' /\ RequestsTyped' /\ ReadersTyped' => TypeOK'
  BY DEF TypeOK, RowsTyped, RequestsTyped, ReadersTyped

LEMMA FinishKeeps ==
    ASSUME IInv, RowsKept, NEW h \in Handlers, Finish(h)
    PROVE  RequestsTyped' /\ RequestsFound'
  <1>1. RequestsTyped'
    BY DEF IInv, TypeOK, Finish, RequestsTyped
  <1>2. ASSUME NEW g \in Handlers, stage'[g] # "idle"
        PROVE  g # h /\ stage[g] # "idle" /\ request'[g] = request[g]
    BY <1>2 DEF IInv, TypeOK, Finish
  <1>3. \A q \in Requests : q.item \in Items /\ (q.part # NoPart => q.part \in Parts)
    BY LifecycleAssumption DEF Request
  <1> QED
    BY <1>1, <1>2, <1>3 DEF IInv, RequestsFound, RowsKept

LEMMA CheckKeeps ==
    ASSUME IInv, NEW h \in Handlers, Check(h)
    PROVE  IInv' /\ UNCHANGED <<rowVars, readerVars>>
  <1>1. UNCHANGED <<rowVars, readerVars>>
    BY DEF Check, BeginItem, BeginPart, CheckItem, CheckBody, GiveUp
  <1>2. RequestsTyped'
    BY LifecycleAssumption
    DEF Check, BeginItem, BeginPart, CheckItem, CheckBody, GiveUp, Finish, AfterItem,
        IInv, TypeOK, RequestsTyped
  <1>3. RequestsFound'
    <2>1. ASSUME NEW q \in Requests, BeginItem(h, q) PROVE RequestsFound'
      BY <2>1 DEF BeginItem, ItemOwned, IInv, TypeOK, RequestsFound, rowVars
    <2>2. ASSUME NEW q \in Requests, BeginPart(h, q) PROVE RequestsFound'
      BY <2>2, LifecycleAssumption
      DEF BeginPart, PartOwned, IInv, TypeOK, RowsExist, RequestsFound, Request, rowVars
    <2>3. CASE CheckItem(h) \/ CheckBody(h)
      BY <2>3 DEF CheckItem, CheckBody, IInv, TypeOK, RequestsFound, rowVars
    <2>4. CASE GiveUp(h)
      BY <2>4 DEF GiveUp, Finish, IInv, TypeOK, RequestsFound, rowVars
    <2> QED
      BY <2>1, <2>2, <2>3, <2>4 DEF Check
  <1> QED
    BY <1>1, <1>2, <1>3, TypeParts
    DEF IInv, TypeOK, RowsTyped, ReadersTyped, RowsExist, ChaptersNamed, rowVars, readerVars,
        PartsOf

LEMMA ReaderKeeps ==
    ASSUME IInv, NEW r \in Readers, ReaderStep(r)
    PROVE  IInv' /\ UNCHANGED <<rowVars, ownerVars>>
  <1>1. UNCHANGED <<rowVars, ownerVars>>
    BY DEF ReaderStep, ReadItem, ReadParts, ReadPart, ReadLinks, EndReading
  <1>2. ReadersTyped' /\ ChaptersNamed'
    <2>1. ASSUME NEW i \in Items, NEW p \in Parts \cup {NoPart}, ReadItem(r, i, p)
          PROVE  ReadersTyped' /\ ChaptersNamed'
      <3>1. [item |-> i, part |-> p, gone |-> {q \in Parts : IsDeleted(q)},
             body |-> {}, links |-> {}] \in Reading
        BY DEF Reading
      <3> QED
        BY <2>1, <3>1, LifecycleAssumption
        DEF ReadItem, IInv, TypeOK, ReadersTyped, ChaptersNamed, PartsOf
    <2>2. CASE at[r] # "idle" /\ at'= [at EXCEPT ![r] = "done"]
               /\ \E s \in SUBSET Parts : \/ reading' = [reading EXCEPT ![r].body = s]
                                         \/ reading' = [reading EXCEPT ![r].links = s]
      <3>1. reading[r] \in Reading
        BY <2>2 DEF IInv, TypeOK
      <3>2. reading'[r] \in Reading /\ reading' \in [Readers -> Reading \cup {NoRequest}]
            /\ \A o \in Readers \ {r} : reading'[o] = reading[o]
        BY <2>2, <3>1 DEF IInv, TypeOK, Reading
      <3> QED
        BY <2>2, <3>2, LifecycleAssumption DEF IInv, TypeOK, ReadersTyped, ChaptersNamed
    <2>3. CASE ReadParts(r)
      BY <2>2, <2>3 DEF ReadParts, PartsOf
    <2>4. CASE ReadPart(r)
      <3>1. reading[r] \in Reading /\ reading[r].part \in Parts
        BY <2>4 DEF ReadPart, IInv, TypeOK, ChaptersNamed
      <3>2. reading'[r] \in Reading /\ reading' \in [Readers -> Reading \cup {NoRequest}]
            /\ \A o \in Readers \ {r} : reading'[o] = reading[o]
        BY <2>4, <3>1 DEF ReadPart, IInv, TypeOK, Reading
      <3> QED
        BY <2>4, <3>2, LifecycleAssumption DEF ReadPart, IInv, TypeOK, ReadersTyped, ChaptersNamed
    <2>5. CASE ReadLinks(r)
      <3>1. Adjacent(reading[r].item, reading[r].part) \in SUBSET Parts
        BY DEF Adjacent, PartsOf
      <3> QED
        BY <2>2, <2>5, <3>1 DEF ReadLinks
    <2>6. CASE EndReading(r)
      BY <2>6 DEF EndReading, IInv, TypeOK, ReadersTyped, ChaptersNamed
    <2> QED
      BY <2>1, <2>3, <2>4, <2>5, <2>6 DEF ReaderStep
  <1> QED
    BY <1>1, <1>2, TypeParts
    DEF IInv, TypeOK, RowsTyped, RequestsTyped, RowsExist, RequestsFound, rowVars, ownerVars,
        PartsOf

LEMMA NextIInv == IInv /\ [Next]_vars => IInv'
  <1> SUFFICES ASSUME IInv, [Next]_vars PROVE IInv'
    OBVIOUS
  <1>1. ASSUME NEW i \in Items,
               \/ \E described, filled \in BOOLEAN : CreateItem(i, described, filled)
               \/ \E action \in Effects : Moderate(i, action)
        PROVE  IInv'
    <2>1. RowsTyped' /\ RowsExist' /\ RowsKept /\ UNCHANGED <<ownerVars, readerVars>>
      BY <1>1, OutsideKeeps
    <2>2. \A q \in Requests : q.item \in Items /\ (q.part # NoPart => q.part \in Parts)
      BY LifecycleAssumption DEF Request
    <2>3. RequestsFound'
      BY <2>1, <2>2 DEF IInv, RequestsFound, RowsKept, ownerVars
    <2> QED
      BY <2>1, <2>3, TypeParts
      DEF IInv, RequestsTyped, ReadersTyped, ChaptersNamed, ownerVars, readerVars
  <1>2. ASSUME NEW h \in Handlers, Write(h) PROVE IInv'
    BY <1>2, WriteKeeps, FinishKeeps, TypeParts DEF IInv, ReadersTyped, ChaptersNamed, readerVars
  <1>3. CASE UNCHANGED vars
    BY <1>3 DEF vars, rowVars, ownerVars, readerVars, IInv, TypeOK, RowsExist, RequestsFound,
                ChaptersNamed, PartsOf
  <1> QED
    BY <1>1, <1>2, <1>3, StepCases, CheckKeeps, ReaderKeeps

\* The tables, the requests and the readers stay well typed: no update hits a row
\* that is not there, and whoever is idle holds nothing.
THEOREM LifecycleTypeCorrect == Spec => []TypeOK
  <1>1. Spec => []IInv
    BY InitIInv, NextIInv, PTL DEF Spec
  <1> QED
    BY <1>1, PTL DEF IInv

-----------------------------------------------------------------------------
(***************************************************************************)
(* A deleted chapter is not read                                           *)
(***************************************************************************)

\* What was deleted when a reader began is still deleted: no update of a part,
\* the publishing of a chapter included, takes deleted_at back.
GoneStaysGone ==
    \A r \in Readers : at[r] # "idle" => \A p \in reading[r].gone : IsDeleted(p)

DInv == IInv /\ GoneStaysGone /\ DeletedBodyWithheld

LEMMA InitDInv == Init => DInv
  BY InitIInv DEF Init, DInv, GoneStaysGone, DeletedBodyWithheld

\* A reader takes into its response only bodies that are not deleted.
LEMMA ReaderBodies ==
    ASSUME DInv, NEW r \in Readers, ReaderStep(r), IInv', UNCHANGED rowVars
    PROVE  (GoneStaysGone /\ DeletedBodyWithheld)'
  <1>1. /\ reading \in [Readers -> Reading \cup {NoRequest}]
        /\ at[r] # "idle" => reading[r] \in Reading
        /\ at \in [Readers -> {"idle", "parts", "part", "links", "done"}]
    BY DEF DInv, IInv, TypeOK
  <1>2. \A o \in Readers \ {r} : reading'[o] = reading[o] /\ at'[o] = at[o]
    BY <1>1 DEF ReaderStep, ReadItem, ReadParts, ReadPart, ReadLinks, EndReading
  <1>3. at'[r] # "idle" =>
            /\ \A p \in reading'[r].gone : IsDeleted(p)
            /\ reading'[r].body \cap reading'[r].gone = {}
    <2>1. ASSUME NEW i \in Items, NEW p \in Parts \cup {NoPart}, ReadItem(r, i, p)
          PROVE  <1>3
      BY <1>1, <2>1 DEF ReadItem
    <2>2. CASE ReadParts(r)
      <3>1. /\ at[r] # "idle" /\ reading[r] \in Reading
            /\ reading'[r].gone = reading[r].gone
            /\ reading'[r].body = reading[r].body
               \/ reading'[r].body = {p \in PartsOf(reading[r].item) : IsPublished(p) /\ ~IsDeleted(p)}
        BY <1>1, <2>2 DEF ReadParts, Reading
      <3> QED
        BY <3>1 DEF DInv, GoneStaysGone, DeletedBodyWithheld
    <2>3. CASE ReadPart(r)
      <3>1. /\ at[r] # "idle" /\ reading[r] \in Reading
            /\ reading'[r].gone = reading[r].gone
            /\ reading'[r].body = {reading[r].part} /\ ~IsDeleted(reading[r].part)
        BY <1>1, <2>3 DEF ReadPart, Reading
      <3> QED
        BY <3>1 DEF DInv, GoneStaysGone
    <2>4. CASE ReadLinks(r)
      <3>1. /\ at[r] # "idle" /\ reading[r] \in Reading
            /\ reading'[r].gone = reading[r].gone /\ reading'[r].body = reading[r].body
        BY <1>1, <2>4 DEF ReadLinks, Reading
      <3> QED
        BY <3>1 DEF DInv, GoneStaysGone, DeletedBodyWithheld
    <2>5. CASE EndReading(r)
      BY <1>1, <2>5 DEF EndReading
    <2> QED
      BY <2>1, <2>2, <2>3, <2>4, <2>5 DEF ReaderStep
  <1>4. \A p : IsDeleted(p)' <=> IsDeleted(p)
    BY DEF IsDeleted, rowVars
  <1> QED
    BY <1>2, <1>3, <1>4 DEF DInv, GoneStaysGone, DeletedBodyWithheld

\* Whoever else steps leaves the readers alone and takes no deletion back.
LEMMA NextDInv == DInv /\ [Next]_vars => DInv'
  <1> SUFFICES ASSUME DInv, [Next]_vars PROVE DInv'
    OBVIOUS
  <1>1. IInv /\ IInv'
    BY NextIInv DEF DInv
  <1>2. ASSUME RowsKept, UNCHANGED readerVars PROVE DInv'
    <2>1. \A r \in Readers : at[r] # "idle" => reading[r].gone \subseteq Parts
      BY <1>1 DEF IInv, TypeOK, Reading
    <2> QED
      BY <1>1, <1>2, <2>1 DEF DInv, GoneStaysGone, DeletedBodyWithheld, RowsKept, readerVars
  <1>3. UNCHANGED rowVars => RowsKept
    BY DEF RowsKept, IsDeleted, rowVars
  <1>4. ASSUME NEW r \in Readers, ReaderStep(r) PROVE DInv'
    BY <1>1, <1>4, ReaderKeeps, ReaderBodies DEF DInv
  <1>5. CASE UNCHANGED vars
    BY <1>2, <1>3, <1>5 DEF vars
  <1> QED
    BY <1>1, <1>2, <1>3, <1>4, <1>5, StepCases, OutsideKeeps, WriteKeeps, CheckKeeps

\* The body of a chapter that was deleted before the request began is never served,
\* whatever publishing was under way: ReadPart looks at deleted_at, and nothing
\* takes deleted_at of a part back.
THEOREM DeletedBodiesWithheld == Spec => []DeletedBodyWithheld
  <1>1. Spec => []DInv
    BY InitDInv, NextDInv, PTL DEF Spec
  <1> QED
    BY <1>1, PTL DEF DInv

-----------------------------------------------------------------------------
(***************************************************************************)
(* An article and its part agree                                           *)
(***************************************************************************)

PInv == IInv /\ PartFollowsItem

LEMMA InitPInv == Init => PInv
  BY InitIInv, LifecycleAssumption DEF Init, PInv, PartFollowsItem, PartsOf

LEMMA WriteFollows ==
    ASSUME PInv, NEW h \in Handlers, Write(h)
    PROVE  PartFollowsItem'
  <1> DEFINE q == request[h]
             i == q.item
  <1>0. stage[h] = "write"
    BY DEF Write, PublishItem, UnpublishItem, DeleteItem, PatchVisibility, PatchDescription,
       PatchBody, AddPart, PublishPart, DeletePart, Writes
  <1>1. /\ q \in Requests /\ i \in Items /\ item[i] # NoRow /\ item[i] \in ItemRow
        /\ q.part # NoPart => q.part \in Parts /\ ItemOf[q.part] \notin Articles
        /\ q.op = "add" => i \notin Articles
    BY <1>0, LifecycleAssumption DEF PInv, IInv, TypeOK, RequestsFound, Request
  <1>2. /\ \A p \in Parts : part[p] # NoRow => part[p] \in PartRow
        /\ \A j \in Articles : \A p \in PartsOf(j) : p \in Parts /\ j = ItemOf[p] /\ j \in Items
        /\ \A p \in Parts : p \in OwnPart(i) <=> i \in Articles /\ p \in PartsOf(i)
    BY LifecycleAssumption DEF PInv, IInv, TypeOK, OwnPart, PartsOf
  <1>3. ASSUME NEW j \in Articles, NEW p \in PartsOf(j), item[j] # NoRow
        PROVE  /\ p \in Parts /\ j \in Items /\ part[p] \in PartRow /\ item[j] \in ItemRow
               /\ part[p].status = item[j].status /\ part[p].deleted = item[j].deleted
               /\ p \in OwnPart(i) <=> j = i
    BY <1>2, <1>3 DEF PInv, PartFollowsItem, IInv, TypeOK
  <1> DEFINE Moved(status, deleted) ==
               /\ item'[i] \in ItemRow /\ item'[i].status = status /\ item'[i].deleted = deleted
               /\ \A j \in Items \ {i} : item'[j] = item[j]
               /\ \A p \in OwnPart(i) : part'[p] \in PartRow
                                       /\ part'[p].status = status /\ part'[p].deleted = deleted
               /\ \A p \in Parts \ OwnPart(i) : part'[p] = part[p]
  <1>4. ASSUME NEW status, NEW deleted, Moved(status, deleted) PROVE PartFollowsItem'
    <2>1. \A j \in Articles : \A p \in PartsOf(j) :
             IF j = i THEN p \in OwnPart(i) /\ p \in Parts
             ELSE p \in Parts \ OwnPart(i) /\ j \in Items \ {i}
      BY <1>1, <1>2 DEF PInv, IInv, RowsExist
    <2> QED
      BY <1>1, <1>4, <2>1, LifecycleAssumption DEF PInv, PartFollowsItem, PartsOf
  <1>5. \A p \in OwnPart(i) : /\ p \in Parts /\ part[p] \in PartRow
                              /\ part[p].status = item[i].status
                              /\ part[p].deleted = item[i].deleted
    BY <1>1, <1>2, <1>3 DEF OwnPart, PartsOf
  <1> HIDE DEF q, i
  <1>6. /\ item \in [Items -> ItemRow \cup {NoRow}] /\ part \in [Parts -> PartRow \cup {NoRow}]
    BY DEF PInv, IInv, TypeOK
  <1>7. CASE PublishItem(h)
    <2>1. Moved("PUBLISHED", item[i].deleted)
      BY <1>1, <1>5, <1>6, <1>7 DEF PublishItem, ItemRow, ItemStatus, Visibility, PartRow, PartStatus, q, i
    <2> QED
      BY <1>4, <2>1
  <1>8. CASE UnpublishItem(h)
    <2>1. Moved("UNPUBLISHED", item[i].deleted)
      BY <1>1, <1>5, <1>6, <1>8 DEF UnpublishItem, ItemRow, ItemStatus, PartRow, PartStatus, q, i
    <2> QED
      BY <1>4, <2>1
  <1>9. CASE DeleteItem(h)
    <2>1. Moved("UNPUBLISHED", TRUE)
      BY <1>1, <1>5, <1>6, <1>9, ZenonT(60) DEF DeleteItem, ItemRow, ItemStatus, PartRow, PartStatus, q, i
    <2> QED
      BY <1>4, <2>1, ZenonT(60)
  <1>10. CASE PatchVisibility(h) \/ PatchDescription(h) \/ PatchBody(h)
    <2>1. /\ item'[i] \in ItemRow /\ item'[i].status = item[i].status
          /\ item'[i].deleted = item[i].deleted
          /\ \A j \in Items \ {i} : item'[j] = item[j]
      <3>1. CASE PatchVisibility(h)
        BY <1>1, <1>6, <3>1 DEF PatchVisibility, ItemRow, q, i
      <3>2. CASE PatchDescription(h)
        <4>1. PICK b \in BOOLEAN : item' = [item EXCEPT ![i].described = b]
          BY <3>2 DEF PatchDescription, q, i
        <4> QED
          BY <1>1, <1>6, <4>1 DEF ItemRow
      <3>3. CASE PatchBody(h)
        BY <1>1, <3>3 DEF PatchBody
      <3> QED
        BY <1>10, <3>1, <3>2, <3>3
    <2>2. /\ \A p \in OwnPart(i) : /\ part'[p] \in PartRow /\ part'[p].status = part[p].status
                                   /\ part'[p].deleted = part[p].deleted
          /\ \A p \in Parts \ OwnPart(i) : part'[p] = part[p]
      <3>1. CASE PatchVisibility(h) \/ PatchDescription(h)
        BY <1>5, <3>1 DEF PatchVisibility, PatchDescription
      <3>2. CASE PatchBody(h)
        <4>1. PICK b \in BOOLEAN :
                part' = [p \in Parts |-> IF p \in OwnPart(i)
                                        THEN [part[p] EXCEPT !.filled = b] ELSE part[p]]
          BY <3>2 DEF PatchBody, q, i
        <4> QED
          BY <1>5, <4>1 DEF PartRow
      <3> QED
        BY <1>10, <3>1, <3>2
    <2>3. Moved(item[i].status, item[i].deleted)
      BY <1>5, <2>1, <2>2
    <2> QED
      BY <1>4, <2>3
  <1>11. ASSUME NEW s \in Parts, ItemOf[s] \notin Articles, UNCHANGED item,
                \A p \in Parts \ {s} : part'[p] = part[p]
         PROVE  PartFollowsItem'
    BY <1>2, <1>11 DEF PInv, PartFollowsItem, PartsOf
  <1>12. CASE \E p \in Parts : AddPart(h, p)
    BY <1>1, <1>6, <1>11, <1>12 DEF AddPart, Writes, q, i
  <1>13. CASE PublishPart(h)
    <2>1. q.part \in Parts /\ ItemOf[q.part] \notin Articles /\ UNCHANGED item
      BY <1>1, <1>13 DEF PublishPart, Writes, q
    <2>2. \A p \in Parts \ {q.part} : part'[p] = part[p]
      BY <1>6, <1>13 DEF PublishPart, q
    <2> QED
      BY <1>11, <2>1, <2>2
  <1>14. CASE DeletePart(h)
    BY <1>1, <1>6, <1>11, <1>14 DEF DeletePart, Writes, q
  <1> QED
    BY <1>7, <1>8, <1>9, <1>10, <1>12, <1>13, <1>14 DEF Write

LEMMA CreateFollows ==
    ASSUME PInv, NEW i \in Items, NEW described \in BOOLEAN, NEW filled \in BOOLEAN,
           CreateItem(i, described, filled)
    PROVE  PartFollowsItem'
  <1>1. /\ item \in [Items -> ItemRow \cup {NoRow}] /\ part \in [Parts -> PartRow \cup {NoRow}]
    BY DEF PInv, IInv, TypeOK
  <1>2. /\ item'[i] # NoRow /\ item'[i].status = "DRAFT" /\ item'[i].deleted = FALSE
        /\ \A j \in Items \ {i} : item'[j] = item[j]
    <2>1. item'[i] \in ItemRow
      BY <1>1 DEF CreateItem, ItemRow, ItemStatus, Visibility
    <2> QED
      BY <1>1, <2>1, LifecycleAssumption DEF CreateItem
  <1>3. /\ \A p \in OwnPart(i) \cap Parts :
               part'[p] # NoRow /\ part'[p].status = "DRAFT" /\ part'[p].deleted = FALSE
        /\ \A p \in Parts \ OwnPart(i) : part'[p] = part[p]
    <2>1. \A p \in OwnPart(i) \cap Parts : part'[p] \in PartRow
      BY DEF CreateItem, PartRow, PartStatus
    <2> QED
      BY <2>1, LifecycleAssumption DEF CreateItem
  <1>4. \A j \in Articles : \A p \in PartsOf(j) :
           /\ j \in Items /\ p \in Parts
           /\ IF j = i THEN p \in OwnPart(i) ELSE p \notin OwnPart(i)
    BY LifecycleAssumption DEF OwnPart, PartsOf
  <1> QED
    <2> SUFFICES ASSUME NEW j \in Articles, NEW p \in PartsOf(j)
                 PROVE  PartFollowsItem!(j)!(p)'
      BY DEF PartFollowsItem, PartsOf
    <2>1. CASE j = i
      BY <1>2, <1>3, <1>4, <2>1
    <2>2. CASE j # i
      BY <1>2, <1>3, <1>4, <2>2 DEF PInv, PartFollowsItem
    <2> QED
      BY <2>1, <2>2

LEMMA NextPInv == PInv /\ [OwnerNext \/ ReaderNext]_vars => PInv'
  <1> SUFFICES ASSUME PInv, [OwnerNext \/ ReaderNext]_vars PROVE PInv'
    OBVIOUS
  <1>1. IInv /\ IInv'
    BY NextIInv DEF PInv, Next
  <1>2. CASE UNCHANGED rowVars
    BY <1>1, <1>2 DEF PInv, PartFollowsItem, rowVars, PartsOf
  <1>3. \/ \E i \in Items, described, filled \in BOOLEAN : CreateItem(i, described, filled)
        \/ \E h \in Handlers : Check(h) \/ Write(h)
        \/ \E r \in Readers : ReaderStep(r)
        \/ UNCHANGED vars
    BY DEF OwnerNext, ReaderNext, Check, Write, ReaderStep, Refuse
  <1> QED
    BY <1>1, <1>2, <1>3, CreateFollows, WriteFollows, CheckKeeps, ReaderKeeps DEF PInv, vars

\* As long as no moderator interferes, an article and its part carry the same
\* status and are deleted together, however the creator's requests overlap: each
\* transaction of content.ts that moves one moves the other.
THEOREM ArticlePartFollows == OwnerSpec => []PartFollowsItem
  <1>1. OwnerSpec => []PInv
    BY InitPInv, NextPInv, PTL DEF OwnerSpec
  <1> QED
    BY <1>1, PTL DEF PInv

-----------------------------------------------------------------------------
(***************************************************************************)
(* An item is complete when it is published                                *)
(***************************************************************************)

\* What publishing i asks for: a story's description, an article's body.
IsComplete(i) ==
    IF i \in Articles THEN \A p \in PartsOf(i) : part[p].filled ELSE item[i].described

\* What the check of a publish has found still holds when it writes.
PublishReady ==
    \A h \in Handlers :
        stage[h] = "write" /\ request[h].op = "publish" /\ request[h].part = NoPart
          => IsComplete(request[h].item)

\* Only requests about chapters wait for their item, only articles for their body.
StageFits ==
    \A h \in Handlers : /\ stage[h] = "item" => request[h].part # NoPart
                        /\ stage[h] = "body" => request[h].item \in Articles

CInv == IInv /\ PatchesApart /\ StageFits /\ PublishReady

\* Only patches change what a row holds: everything else keeps it.
ContentKept(i) ==
    /\ item[i] # NoRow => item'[i].described = item[i].described
    /\ \A p \in PartsOf(i) : part[p] # NoRow => part'[p].filled = part[p].filled

LEMMA KeptComplete ==
    ASSUME IInv, NEW i \in Items, item[i] # NoRow, ContentKept(i), IsComplete(i)
    PROVE  IsComplete(i)'
  BY DEF IInv, RowsExist, ContentKept, IsComplete, PartsOf

\* A write changes the contents of at most the item it patches.
LEMMA WriteContents ==
    ASSUME IInv, NEW h \in Handlers, Write(h), NEW i \in Items,
           ~(request[h].op \in {"fill", "clear"} /\ request[h].item = i)
    PROVE  ContentKept(i)
  <1> DEFINE q == request[h]
             o == q.item
  <1>1. /\ item \in [Items -> ItemRow \cup {NoRow}] /\ part \in [Parts -> PartRow \cup {NoRow}]
        /\ stage[h] = "write"
    BY DEF IInv, TypeOK, Write, PublishItem, UnpublishItem, DeleteItem, PatchVisibility,
       PatchDescription, PatchBody, AddPart, PublishPart, DeletePart, Writes
  <1>2. /\ o \in Items /\ q \in Request /\ item[o] # NoRow /\ item[o] \in ItemRow
        /\ \A p \in PartsOf(i) : p \in Parts
        /\ q.part # NoPart => q.part \in Parts /\ part[q.part] # NoRow
    BY <1>1, LifecycleAssumption DEF IInv, RequestsFound, Request, TypeOK, PartsOf
  <1>3. \A p \in Parts : part[p] # NoRow => part[p] \in PartRow
    BY <1>1
  <1>4. \A p \in OwnPart(o) : p \in Parts /\ part[p] \in PartRow
    BY <1>1, <1>2 DEF OwnPart, PartsOf, IInv, RowsExist
  <1>5. CASE PublishItem(h) \/ UnpublishItem(h) \/ DeleteItem(h)
    <2>1. item[i] # NoRow => item'[i].described = item[i].described
      <3>1. CASE PublishItem(h)
        BY <1>1, <1>2, <3>1 DEF PublishItem, ItemRow
      <3>2. CASE UnpublishItem(h)
        BY <1>1, <1>2, <3>2 DEF UnpublishItem, ItemRow
      <3>3. CASE DeleteItem(h)
        BY <1>1, <1>2, <3>3 DEF DeleteItem, ItemRow
      <3> QED
        BY <1>5, <3>1, <3>2, <3>3
    <2>2. \A p \in Parts : part[p] # NoRow => part'[p].filled = part[p].filled
      <3>1. CASE PublishItem(h)
        BY <1>3, <1>4, <3>1 DEF PublishItem, PartRow
      <3>2. CASE UnpublishItem(h)
        BY <1>3, <1>4, <3>2 DEF UnpublishItem, PartRow
      <3>3. CASE DeleteItem(h)
        BY <1>3, <1>4, <3>3 DEF DeleteItem, PartRow
      <3> QED
        BY <1>5, <3>1, <3>2, <3>3
    <2> QED
      BY <1>2, <2>1, <2>2 DEF ContentKept
  <1>6. CASE PatchVisibility(h)
    BY <1>1, <1>2, <1>6 DEF PatchVisibility, ContentKept, ItemRow
  <1>7. CASE PatchDescription(h)
    <2>1. o # i
      BY <1>7 DEF PatchDescription, Writes
    <2> QED
      BY <1>1, <1>7, <2>1 DEF PatchDescription, ContentKept
  <1>8. CASE PatchBody(h)
    <2>1. o # i
      BY <1>8 DEF PatchBody, Writes
    <2>2. \A p \in PartsOf(i) : p \notin OwnPart(o)
      BY <2>1 DEF OwnPart, PartsOf
    <2> QED
      BY <1>2, <1>8, <2>2 DEF PatchBody, ContentKept
  <1>9. CASE \E p \in Parts : AddPart(h, p)
    BY <1>1, <1>2, <1>9 DEF AddPart, ContentKept
  <1>10. CASE PublishPart(h)
    <2>1. q.part \in Parts /\ part[q.part] \in PartRow /\ item' = item
      BY <1>2, <1>3, <1>10 DEF PublishPart, Writes
    <2>2. \A p \in Parts : part[p] # NoRow => part'[p].filled = part[p].filled
      BY <1>1, <1>10, <2>1 DEF PublishPart, PartRow
    <2> QED
      BY <1>2, <2>1, <2>2 DEF ContentKept
  <1>11. CASE DeletePart(h)
    <2>1. q.part \in Parts /\ part[q.part] \in PartRow /\ item' = item
      BY <1>2, <1>3, <1>11 DEF DeletePart, Writes
    <2>2. \A p \in Parts : part[p] # NoRow => part'[p].filled = part[p].filled
      BY <1>1, <1>11, <2>1 DEF DeletePart, PartRow
    <2> QED
      BY <1>2, <2>1, <2>2 DEF ContentKept
  <1> QED
    BY <1>5, <1>6, <1>7, <1>8, <1>9, <1>10, <1>11 DEF Write

\* A request that stands before its publish write has just passed the check, or
\* stood there before.
LEMMA CheckReady ==
    ASSUME CInv, NEW h \in Handlers, Check(h)
    PROVE  PublishReady' /\ StageFits'
  <1>1. UNCHANGED rowVars
    BY CheckKeeps DEF CInv
  <1>2. \A i : IsComplete(i)' <=> IsComplete(i)
    BY <1>1 DEF IsComplete, rowVars, PartsOf
  <1>3. /\ request \in [Handlers -> Request \cup {NoRequest}]
        /\ stage \in [Handlers -> {"idle", "item", "body", "write"}]
        /\ \A g \in Handlers \ {h} : stage'[g] = stage[g] /\ request'[g] = request[g]
    BY DEF CInv, IInv, TypeOK, Check, BeginItem, BeginPart, CheckItem, CheckBody, GiveUp, Finish
  <1>4. ASSUME stage'[h] = "write", request'[h].op = "publish", request'[h].part = NoPart
        PROVE  IsComplete(request'[h].item)
    <2>1. ASSUME NEW q \in Requests, BeginItem(h, q) PROVE IsComplete(request'[h].item)
      BY <1>3, <1>4, <2>1 DEF BeginItem, AfterItem, Complete, IsComplete
    <2>2. ASSUME NEW q \in Requests, BeginPart(h, q) PROVE FALSE
      BY <1>3, <1>4, <2>2 DEF BeginPart
    <2>3. CASE CheckItem(h)
      <3>1. request' = request /\ stage[h] = "item"
        BY <2>3 DEF CheckItem
      <3>2. request[h].part # NoPart
        BY <3>1 DEF CInv, StageFits
      <3> QED
        BY <1>4, <3>1, <3>2
    <2>4. CASE CheckBody(h)
      <3>1. request' = request /\ \A p \in PartsOf(request[h].item) : part[p].filled
        BY <2>4 DEF CheckBody
      <3> QED
        BY <1>4, <2>4, <3>1 DEF IsComplete, CInv, StageFits, CheckBody
    <2>5. CASE GiveUp(h)
      BY <1>3, <1>4, <2>5 DEF GiveUp, Finish
    <2> QED
      BY <2>1, <2>2, <2>3, <2>4, <2>5 DEF Check
  <1>5. /\ stage'[h] = "item" => request'[h].part # NoPart
        /\ stage'[h] = "body" => request'[h].item \in Articles
    BY <1>3 DEF Check, BeginItem, BeginPart, CheckItem, CheckBody, GiveUp, Finish, AfterItem
  <1> QED
    BY <1>2, <1>3, <1>4, <1>5 DEF CInv, PublishReady, StageFits

\* A write ends its request, and changes what no publish under way has checked.
LEMMA WriteReady ==
    ASSUME CInv, NEW h \in Handlers, Write(h)
    PROVE  PublishReady' /\ StageFits'
  <1>1. /\ request \in [Handlers -> Request \cup {NoRequest}]
        /\ stage \in [Handlers -> {"idle", "item", "body", "write"}] /\ Finish(h)
    BY WriteKeeps DEF CInv, IInv, TypeOK
  <1>2. /\ stage'[h] = "idle"
        /\ \A g \in Handlers \ {h} : stage'[g] = stage[g] /\ request'[g] = request[g]
    BY <1>1 DEF Finish
  <1>3. stage[h] = "write"
    BY DEF Write, PublishItem, UnpublishItem, DeleteItem, PatchVisibility, PatchDescription,
       PatchBody, AddPart, PublishPart, DeletePart, Writes
  <1>4. ASSUME NEW g \in Handlers \ {h}, stage[g] = "write", request[g].op = "publish",
               request[g].part = NoPart
        PROVE  IsComplete(request[g].item)'
    <2>1. PICK i \in Items : i = request[g].item
      BY <1>4, LifecycleAssumption DEF CInv, IInv, RequestsFound, Request
    <2>2. item[i] # NoRow /\ IsComplete(i)
      BY <1>4, <2>1 DEF CInv, IInv, RequestsFound, PublishReady
    <2>3. ContentKept(i)
      BY <1>3, <1>4, <2>1, WriteContents DEF CInv, PatchesApart
    <2>4. IsComplete(i)'
      BY <2>2, <2>3, KeptComplete DEF CInv
    <2> QED
      BY <1>2, <1>4, <2>1, <2>4 DEF IsComplete
  <1> QED
    BY <1>2, <1>4 DEF CInv, PublishReady, StageFits, IsComplete

\* Creating an item is of no concern to requests about others.
LEMMA CreateReady ==
    ASSUME CInv, NEW i \in Items, NEW described \in BOOLEAN, NEW filled \in BOOLEAN,
           CreateItem(i, described, filled)
    PROVE  PublishReady' /\ StageFits'
  <1>1. UNCHANGED ownerVars /\ item[i] = NoRow
    BY DEF CreateItem
  <1>2. ASSUME NEW h \in Handlers, stage[h] = "write", request[h].op = "publish",
               request[h].part = NoPart
        PROVE  IsComplete(request[h].item)'
    <2> DEFINE o == request[h].item
    <2>1. o \in Items /\ item[o] # NoRow /\ IsComplete(o)
      BY <1>2, LifecycleAssumption DEF CInv, IInv, RequestsFound, Request, PublishReady
    <2>2. ContentKept(o)
      BY <1>1, <2>1 DEF CreateItem, ContentKept, CInv, IInv, TypeOK, OwnPart, PartsOf
    <2>3. request'[h].item = o /\ IsComplete(o)'
      BY <1>1, <2>1, <2>2, KeptComplete DEF CInv, ownerVars
    <2> QED
      BY <2>3 DEF IsComplete
  <1> QED
    BY <1>1, <1>2 DEF CInv, PublishReady, StageFits, ownerVars, IsComplete

LEMMA NextCInv == CInv /\ [(OwnerNext \/ ReaderNext) /\ PatchesApart']_vars => CInv'
  <1> SUFFICES ASSUME CInv, [(OwnerNext \/ ReaderNext) /\ PatchesApart']_vars PROVE CInv'
    OBVIOUS
  <1>1. IInv'
    BY NextIInv DEF CInv, Next
  <1>2. PatchesApart'
    BY DEF CInv, PatchesApart, vars, ownerVars
  <1>3. ASSUME UNCHANGED <<rowVars, ownerVars>> PROVE PublishReady' /\ StageFits'
    BY <1>3 DEF CInv, PublishReady, StageFits, IsComplete, rowVars, ownerVars, PartsOf
  <1>4. \/ \E i \in Items, described, filled \in BOOLEAN : CreateItem(i, described, filled)
        \/ \E h \in Handlers : Check(h) \/ Write(h)
        \/ \E r \in Readers : ReaderStep(r)
        \/ UNCHANGED vars
    BY DEF OwnerNext, ReaderNext, Check, Write, ReaderStep, Refuse
  <1>5. PublishReady' /\ StageFits'
    BY <1>3, <1>4, CreateReady, CheckReady, WriteReady, ReaderKeeps DEF CInv, vars
  <1> QED
    BY <1>1, <1>2, <1>5 DEF CInv

\* Without moderators only a publish makes an item PUBLISHED.
LEMMA OnlyPublishPublishes ==
    ASSUME CInv, OwnerNext \/ ReaderNext, NEW i \in Items,
           item[i] # NoRow, item[i].status # "PUBLISHED", item'[i].status = "PUBLISHED"
    PROVE  \E h \in Handlers : PublishItem(h) /\ request[h].item = i
  <1>1. item \in [Items -> ItemRow \cup {NoRow}] /\ item[i] \in ItemRow
    BY DEF CInv, IInv, TypeOK
  <1>2. ~UNCHANGED item
    OBVIOUS
  <1>3. PICK h \in Handlers : PublishItem(h) \/ UnpublishItem(h) \/ DeleteItem(h)
                                \/ PatchVisibility(h) \/ PatchDescription(h)
    BY <1>1, <1>2 DEF OwnerNext, ReaderNext, CreateItem, BeginItem, BeginPart, Refuse, CheckItem,
       CheckBody, GiveUp, PatchBody, AddPart, PublishPart, DeletePart, ReadItem, ReadParts,
       ReadPart, ReadLinks, EndReading, vars, rowVars
  <1>4. item'[i] # item[i]
    OBVIOUS
  <1>5. ASSUME UnpublishItem(h) \/ DeleteItem(h) PROVE FALSE
    <2>1. item'[i] = item[i] \/ item'[i].status = "UNPUBLISHED"
      <3>1. CASE UnpublishItem(h)
        BY <1>1, <3>1 DEF UnpublishItem, ItemRow
      <3>2. CASE DeleteItem(h)
        BY <1>1, <3>2 DEF DeleteItem, ItemRow
      <3> QED
        BY <1>5, <3>1, <3>2
    <2> QED
      BY <1>4, <2>1
  <1>6. ASSUME PatchVisibility(h) \/ PatchDescription(h) PROVE FALSE
    <2>1. item'[i] = item[i] \/ item'[i].status = item[i].status
      <3>1. CASE PatchVisibility(h)
        BY <1>1, <3>1 DEF PatchVisibility, ItemRow
      <3>2. CASE PatchDescription(h)
        <4>1. PICK b : item' = [item EXCEPT ![request[h].item].described = b]
          BY <3>2 DEF PatchDescription
        <4> QED
          BY <1>1, <4>1 DEF ItemRow
      <3> QED
        BY <1>6, <3>1, <3>2
    <2> QED
      BY <2>1
  <1>7. PublishItem(h) /\ request[h].item = i
    BY <1>1, <1>3, <1>4, <1>5, <1>6 DEF PublishItem
  <1> QED
    BY <1>7

\* However publishing, unpublishing and deleting race, an item is complete when it
\* becomes PUBLISHED, provided that no patch comes between the check of a publish
\* and its write.
THEOREM PublishedWhenComplete == ApartOwnerSpec => PublishedComplete
  <1>1. Init => CInv
    BY InitIInv, LifecycleAssumption DEF Init, CInv, PatchesApart, StageFits, PublishReady
  <1> DEFINE Fits(i) ==
               item[i] # NoRow /\ item[i].status # "PUBLISHED" /\ item'[i].status = "PUBLISHED"
               => IF i \in Articles THEN \A p \in PartsOf(i) : part'[p].filled
                                   ELSE item'[i].described
  <1>2. CInv /\ [(OwnerNext \/ ReaderNext) /\ PatchesApart']_vars => [\A i \in Items : Fits(i)]_vars
    <2> SUFFICES ASSUME CInv, OwnerNext \/ ReaderNext, NEW i \in Items,
                        item[i] # NoRow, item[i].status # "PUBLISHED",
                        item'[i].status = "PUBLISHED"
                 PROVE  IsComplete(i)'
      BY DEF IsComplete, PartsOf
    <2>1. PICK h \in Handlers : PublishItem(h) /\ request[h].item = i
      BY OnlyPublishPublishes
    <2>2. IsComplete(i) /\ ContentKept(i)
      BY <2>1, WriteContents DEF CInv, PublishReady, PublishItem, Writes, Write
    <2> QED
      BY <2>2, KeptComplete DEF CInv
  <1> QED
    BY <1>1, <1>2, NextCInv, PTL DEF ApartOwnerSpec, PublishedComplete

-----------------------------------------------------------------------------
(***************************************************************************)
(* Moderation                                                              *)
(***************************************************************************)

\* The requests of moderators that apply an action.
Act ==
    \/ \E i \in Items, action \in Effects : ModerateStory(i, action)
    \/ \E u \in Users, action \in DOMAIN AccountStatus : ModerateUser(u, action)
    \/ \E r \in Reports, target \in Target, action \in Actions :
          ActOnReport(r, target, action)

\* The report of an action, if it has one, has been filed.
Filed(r) == r # NoReport => r \in Reports /\ report[r] # "NONE"

\* Each of them begins the transaction of one action.
LEMMA ActRecords ==
    ASSUME Act
    PROVE  \E target \in Target, action \in Actions, r \in Reports \cup {NoReport} :
               Record(target, action, r) /\ Filed(r)
  <1>1. ASSUME NEW i \in Items, NEW action \in Effects, ModerateStory(i, action)
        PROVE  \E target \in Target, act \in Actions, r \in Reports \cup {NoReport} :
                   Record(target, act, r) /\ Filed(r)
    <2>1. [type |-> "CONTENT", id |-> i] \in Target /\ action \in Actions /\ Filed(NoReport)
      BY DEF Target, Actions, Filed
    <2> QED
      BY <1>1, <2>1 DEF ModerateStory
  <1>2. ASSUME NEW u \in Users, NEW action \in DOMAIN AccountStatus, ModerateUser(u, action)
        PROVE  \E target \in Target, act \in Actions, r \in Reports \cup {NoReport} :
                   Record(target, act, r) /\ Filed(r)
    <2>1. [type |-> "USER", id |-> u] \in Target /\ action \in Actions /\ Filed(NoReport)
      BY DEF Target, Actions, Filed
    <2> QED
      BY <1>2, <2>1 DEF ModerateUser
  <1>3. ASSUME NEW r \in Reports, NEW target \in Target, NEW action \in Actions,
               ActOnReport(r, target, action)
        PROVE  \E t \in Target, act \in Actions, q \in Reports \cup {NoReport} :
                   Record(t, act, q) /\ Filed(q)
    BY <1>3 DEF ActOnReport, Filed
  <1> QED
    BY <1>1, <1>2, <1>3 DEF Act

LEMMA ActionCases ==
    ASSUME [ModerationNext]_allVars
    PROVE  \/ \E r \in Reports : FileReport(r)
           \/ \E m \in Moderators :
                 \/ \E r \in Reports, next \in {"REVIEWING", "REJECTED"} :
                       CheckTransition(m, r, next)
                 \/ WriteTransition(m) \/ LoseTransition(m)
           \/ \E target \in Target, action \in Actions, r \in Reports \cup {NoReport} :
                 Record(target, action, r) /\ Filed(r)
           \/ \E k \in 1..Len(audit) : Apply(k) \/ Rollback(k)
           \/ \E c \in Comments : DeleteComment(c)
           \/ UNCHANGED moderationVars /\ [Next]_vars
  BY ActRecords
  DEF ModerationNext, Act, RefuseTransition, allVars, Next

-----------------------------------------------------------------------------
(***************************************************************************)
(* Types                                                                   *)
(***************************************************************************)

LEMMA InitModerationTypeOK == ModerationInit => ModerationTypeOK
  BY DEF ModerationInit, ModerationTypeOK, ReportStatus

LEMMA RecordTyped ==
    ASSUME ModerationTypeOK, NEW target \in Target, NEW action \in Actions,
           NEW r \in Reports \cup {NoReport}, Record(target, action, r)
    PROVE  ModerationTypeOK'
  <1> DEFINE q == [target |-> target, action |-> action, report |-> r, state |-> "open", until |-> 0]
  <1>1. q \in AuditRow
    BY DEF AuditRow
  <1> QED
    BY <1>1 DEF ModerationTypeOK, Record

\* What the end of a transaction leaves of its row.
LEMMA RowTyped ==
    ASSUME ModerationTypeOK, NEW k \in 1..Len(audit)
    PROVE  /\ audit[k] \in AuditRow /\ Len(audit) \in Nat
           /\ [audit[k] EXCEPT !.state = "committed", !.until = Len(audit)] \in AuditRow
           /\ UndoneRow(k) \in AuditRow
  <1>1. audit[k] \in AuditRow /\ Len(audit) \in Nat
    BY DEF ModerationTypeOK
  <1> QED
    BY <1>1 DEF AuditRow, UndoneRow

\* The trail with another row in one place.
LEMMA TrailWith ==
    ASSUME ModerationTypeOK, NEW k \in 1..Len(audit), NEW q \in AuditRow
    PROVE  LET s == [audit EXCEPT ![k] = q]
           IN /\ s \in Seq(AuditRow) /\ Len(s) = Len(audit) /\ s[k] = q
              /\ \A j \in 1..Len(audit) : j # k => s[j] = audit[j]
  <1>1. audit \in Seq(AuditRow)
    BY DEF ModerationTypeOK
  <1> QED
    BY <1>1, ExceptSeq

LEMMA ApplyTyped ==
    ASSUME ModerationTypeOK, NEW k \in 1..Len(audit), Apply(k)
    PROVE  ModerationTypeOK'
  <1>1. audit' \in Seq(AuditRow)
    BY RowTyped, TrailWith DEF Apply
  <1>2. user' \in [Users -> {"ACTIVE", "SUSPENDED"}]
    <2>1. OnAccount(audit[k]) => AccountStatus[audit[k].action] \in {"ACTIVE", "SUSPENDED"}
      BY DEF OnAccount, AccountStatus
    <2> QED
      BY <2>1 DEF ModerationTypeOK, Apply
  <1>3. report' \in [Reports -> ReportStatus \cup {"NONE"}]
    BY DEF ModerationTypeOK, Apply, ReportStatus
  <1> QED
    BY <1>1, <1>2, <1>3 DEF ModerationTypeOK, Apply

LEMMA RollbackTyped ==
    ASSUME ModerationTypeOK, NEW k \in 1..Len(audit), Rollback(k)
    PROVE  ModerationTypeOK'
  <1>1. audit' \in Seq(AuditRow)
    BY RowTyped, TrailWith DEF Rollback
  <1> QED
    BY <1>1 DEF ModerationTypeOK, Rollback

LEMMA NextModerationTypeOK ==
    ModerationTypeOK /\ [ModerationNext]_allVars => ModerationTypeOK'
  <1> SUFFICES ASSUME ModerationTypeOK, [ModerationNext]_allVars PROVE ModerationTypeOK'
    OBVIOUS
  <1> USE DEF ModerationTypeOK
  <1>1. ASSUME NEW r \in Reports, FileReport(r) PROVE ModerationTypeOK'
    BY <1>1 DEF FileReport, ReportStatus
  <1>2. ASSUME NEW m \in Moderators, NEW r \in Reports, NEW next \in {"REVIEWING", "REJECTED"},
               CheckTransition(m, r, next)
        PROVE  ModerationTypeOK'
    BY <1>2 DEF CheckTransition, Transition, ReportStatus
  <1>3. ASSUME NEW m \in Moderators, WriteTransition(m) PROVE ModerationTypeOK'
    <2>1. pending[m] \in Transition
      BY <1>3 DEF WriteTransition
    <2> QED
      BY <1>3, <2>1 DEF WriteTransition, Transition
  <1>4. ASSUME NEW m \in Moderators, LoseTransition(m) PROVE ModerationTypeOK'
    BY <1>4 DEF LoseTransition
  <1>5. ASSUME NEW c \in Comments, DeleteComment(c) PROVE ModerationTypeOK'
    BY <1>5 DEF DeleteComment
  <1>6. CASE UNCHANGED moderationVars
    BY <1>6 DEF moderationVars
  <1> QED
    BY <1>1, <1>2, <1>3, <1>4, <1>5, <1>6, RecordTyped, ApplyTyped, RollbackTyped, ActionCases

\* Tables, audit rows and open transitions stay well typed.
THEOREM ModerationTypeCorrect == ModerationSpec => []ModerationTypeOK
  BY InitModerationTypeOK, NextModerationTypeOK, PTL DEF ModerationSpec

-----------------------------------------------------------------------------
(***************************************************************************)
(* The contents under the moderators                                       *)
(***************************************************************************)

LEMMA StepsOfLifecycle == ModerationTypeOK /\ [ModerationNext]_allVars => [Next]_vars
  <1> SUFFICES ASSUME ModerationTypeOK, [ModerationNext]_allVars PROVE [Next]_vars
    OBVIOUS
  <1>1. ASSUME NEW k \in 1..Len(audit), Apply(k) PROVE [Next]_vars
    <2>1. audit[k] \in AuditRow
      BY DEF ModerationTypeOK
    <2>2. CASE OnContent(audit[k])
      <3>1. audit[k].target.id \in Items /\ audit[k].action \in Effects
        BY <2>1, <2>2 DEF OnContent, AuditRow, Target
      <3> QED
        BY <1>1, <2>2, <3>1 DEF Apply, Next, ModeratorNext
    <2>3. CASE ~OnContent(audit[k])
      BY <1>1, <2>3 DEF Apply
    <2> QED
      BY <2>2, <2>3
  <1> QED
    BY <1>1, ActionCases
    DEF FileReport, CheckTransition, WriteTransition, LoseTransition, DeleteComment, Record, Rollback

\* Moderators act on contents only as ModeratorNext says, so what is proved of
\* every behaviour of ContentLifecycle holds with reports and accounts around it.
THEOREM ModerationImplementsLifecycle == ModerationSpec => Spec
  <1>1. ModerationInit => Init
    BY DEF ModerationInit
  <1>2. ModerationSpec => []ModerationTypeOK
    BY ModerationTypeCorrect
  <1> QED
    BY <1>1, <1>2, StepsOfLifecycle, PTL DEF ModerationSpec, Spec

-----------------------------------------------------------------------------
(***************************************************************************)
(* The audit trail accounts for what was done                              *)
(***************************************************************************)

\* A row that is open or undone is not on record.
LEMMA RecordOpens ==
    ASSUME ModerationTypeOK, NEW target, NEW action, NEW r, Record(target, action, r)
    PROVE  /\ Committed' = Committed
           /\ \A k \in Committed : audit'[k] = audit[k]
  <1> DEFINE q == [target |-> target, action |-> action, report |-> r, state |-> "open", until |-> 0]
  <1>1. /\ Len(audit) \in Nat /\ Len(audit') = Len(audit) + 1
        /\ audit'[Len(audit) + 1] = q
        /\ \A k \in 1..Len(audit) : audit'[k] = audit[k]
    BY DEF ModerationTypeOK, Record
  <1>2. \A k : k \in 1..Len(audit') <=> k \in 1..Len(audit) \/ k = Len(audit) + 1
    BY <1>1
  <1>3. q.state # "committed"
    OBVIOUS
  <1> QED
    BY <1>1, <1>2, <1>3 DEF Committed

LEMMA RollbackHides ==
    ASSUME ModerationTypeOK, NEW n \in 1..Len(audit), Rollback(n)
    PROVE  /\ Committed' = Committed
           /\ \A k \in Committed : audit'[k] = audit[k]
  <1> DEFINE q == UndoneRow(n)
  <1>0. q \in AuditRow /\ audit' = [audit EXCEPT ![n] = q]
    BY RowTyped DEF Rollback
  <1>1. /\ Len(audit') = Len(audit) /\ audit'[n] = q
        /\ \A k \in 1..Len(audit) : k # n => audit'[k] = audit[k]
    <2> HIDE DEF q
    <2> QED
      BY <1>0, TrailWith
  <1>2. audit[n].state = "open" /\ UndoneRow(n).state = "undone"
    BY RowTyped DEF Rollback, UndoneRow, AuditRow
  <1> QED
    BY <1>1, <1>2 DEF Committed

\* Applying an action puts its row on record, later than all that are there.
LEMMA ApplyCommits ==
    ASSUME ModerationTypeOK, NEW n \in 1..Len(audit), Apply(n)
    PROVE  /\ Committed' = Committed \cup {n} /\ n \notin Committed
           /\ \A k \in Committed : audit'[k] = audit[k]
           /\ audit'[n].target = audit[n].target /\ audit'[n].action = audit[n].action
           /\ audit'[n].report = audit[n].report /\ audit'[n].until = Len(audit)
  <1> DEFINE q == [audit[n] EXCEPT !.state = "committed", !.until = Len(audit)]
  <1>0. q \in AuditRow /\ audit' = [audit EXCEPT ![n] = q]
    BY RowTyped DEF Apply
  <1>1. /\ Len(audit') = Len(audit) /\ audit'[n] = q
        /\ \A k \in 1..Len(audit) : k # n => audit'[k] = audit[k]
    <2> HIDE DEF q
    <2> QED
      BY <1>0, TrailWith
  <1>2. /\ audit[n].state = "open" /\ q.state = "committed" /\ q.until = Len(audit)
        /\ q.target = audit[n].target /\ q.action = audit[n].action /\ q.report = audit[n].report
    BY RowTyped DEF Apply, AuditRow
  <1> HIDE DEF q
  <1>3. \A k : k \in Committed' <=> k \in Committed \/ k = n
    BY <1>1, <1>2 DEF Committed
  <1>4. n \notin Committed /\ \A k \in Committed : audit'[k] = audit[k]
    BY <1>1, <1>2 DEF Committed
  <1> QED
    BY <1>1, <1>2, <1>3, <1>4

\* With the same rows on record the trail says the same.
LEMMA SameRecord ==
    ASSUME Committed' = Committed, \A k \in Committed : audit'[k] = audit[k]
    PROVE  /\ \A r : ActionsOn(r)' = ActionsOn(r)
           /\ \A u : AccountActions(u)' = AccountActions(u)
           /\ \A u : \A k \in AccountActions(u) : NotFollowed(u, k) => NotFollowed(u, k)'
  <1>1. \A r : ActionsOn(r)' = ActionsOn(r)
    BY DEF ActionsOn
  <1>2. \A u : AccountActions(u)' = AccountActions(u)
    BY DEF AccountActions, OnAccount
  <1>3. \A u : \A k \in AccountActions(u) : k \in Committed
    BY DEF AccountActions
  <1> QED
    BY <1>1, <1>2, <1>3 DEF NotFollowed

LEMMA SameAccounts ==
    ASSUME AuditAccounts, Committed' = Committed, \A k \in Committed : audit'[k] = audit[k],
           user' = user, \A r \in Reports : report'[r] = "RESOLVED" => report[r] = "RESOLVED"
    PROVE  AuditAccounts'
  <1>1. \A u \in Users : \A k \in AccountActions(u) : audit'[k] = audit[k]
    BY DEF AccountActions
  <1> QED
    BY <1>1, SameRecord DEF AuditAccounts

LEMMA ApplyAccounts ==
    ASSUME ModerationTypeOK, AuditAccounts, NEW n \in 1..Len(audit), Apply(n)
    PROVE  AuditAccounts'
  <1> DEFINE q == audit[n]
  <1>0. q \in AuditRow /\ Len(audit) \in Nat
    BY RowTyped
  <1>1. \A r : ActionsOn(r)' = ActionsOn(r) \cup (IF q.report = r THEN {n} ELSE {})
    BY ApplyCommits DEF ActionsOn
  <1>2. OnAccount(q)' <=> OnAccount(q)
    BY ApplyCommits DEF OnAccount
  <1>3. \A u : AccountActions(u)' =
                AccountActions(u) \cup (IF OnAccount(q) /\ q.target.id = u THEN {n} ELSE {})
    BY ApplyCommits, <1>2 DEF AccountActions, OnAccount
  <1>4. ASSUME NEW r \in Reports, report'[r] = "RESOLVED" PROVE ActionsOn(r)' # {}
    <2>1. report[r] = "RESOLVED" \/ q.report = r
      BY <1>4 DEF ModerationTypeOK, Apply
    <2> QED
      BY <1>1, <2>1 DEF AuditAccounts
  <1>5. ASSUME NEW u \in Users, OnAccount(q), q.target.id = u
        PROVE  n \in AccountActions(u)' /\ NotFollowed(u, n)'
                 /\ user'[u] = AccountStatus[audit'[n].action]
    <2>1. n \in AccountActions(u)'
      BY <1>3, <1>5
    <2>2. \A j \in AccountActions(u)' : j <= Len(audit)
      <3>1. AccountActions(u)' \subseteq 1..Len(audit)
        BY <1>3 DEF AccountActions, Committed
      <3> QED
        BY <1>0, <3>1
    <2>3. NotFollowed(u, n)'
      BY <2>2, ApplyCommits DEF NotFollowed
    <2>4. user'[u] = AccountStatus[q.action]
      BY <1>5 DEF Apply, ModerationTypeOK
    <2> QED
      BY <2>1, <2>3, <2>4, ApplyCommits
  <1>6. ASSUME NEW u \in Users, ~(OnAccount(q) /\ q.target.id = u)
        PROVE  \/ AccountActions(u)' = {} /\ user'[u] = "ACTIVE"
               \/ \E k \in AccountActions(u)' :
                     NotFollowed(u, k)' /\ user'[u] = AccountStatus[audit'[k].action]
    <2>1. user'[u] = user[u]
      BY <1>6 DEF Apply, ModerationTypeOK
    <2>2. AccountActions(u)' = AccountActions(u)
      BY <1>3, <1>6
    <2>3. \A k \in AccountActions(u) : audit'[k] = audit[k]
      BY ApplyCommits DEF AccountActions
    <2>4. \A k \in AccountActions(u) : NotFollowed(u, k) => NotFollowed(u, k)'
      BY <2>2, <2>3 DEF NotFollowed
    <2> QED
      BY <2>1, <2>2, <2>3, <2>4 DEF AuditAccounts
  <1> QED
    BY <1>4, <1>5, <1>6 DEF AuditAccounts

\* A review or a rejection that is under way resolves nothing.
ReviewsOnly ==
    \A m \in Moderators : pending[m] # NoRequest =>
        pending[m].next \in {"REVIEWING", "REJECTED"}

MInv == ModerationTypeOK /\ AuditAccounts /\ ReviewsOnly

LEMMA InitMInv == ModerationInit => MInv
  <1> SUFFICES ASSUME ModerationInit PROVE MInv
    OBVIOUS
  <1>1. \A r \in Reports : report[r] # "RESOLVED"
    BY DEF ModerationInit
  <1>2. \A u \in Users : AccountActions(u) = {} /\ user[u] = "ACTIVE"
    BY DEF ModerationInit, AccountActions, Committed
  <1>3. AuditAccounts
    BY <1>1, <1>2 DEF AuditAccounts
  <1> QED
    BY <1>3, InitModerationTypeOK DEF MInv, ReviewsOnly, ModerationInit

LEMMA NextMInv == MInv /\ [ModerationNext]_allVars => MInv'
  <1> SUFFICES ASSUME MInv, [ModerationNext]_allVars PROVE MInv'
    OBVIOUS
  <1> USE DEF MInv
  <1>0. ModerationTypeOK'
    BY NextModerationTypeOK
  <1>1. ASSUME UNCHANGED <<user, audit>>,
               \A r \in Reports : report'[r] = "RESOLVED" => report[r] = "RESOLVED"
        PROVE  AuditAccounts'
    <2>1. Committed' = Committed /\ \A k \in Committed : audit'[k] = audit[k]
      BY <1>1 DEF Committed
    <2> QED
      BY <1>1, <2>1, SameAccounts
  <1>2. ASSUME NEW r \in Reports, FileReport(r) PROVE MInv'
    BY <1>0, <1>1, <1>2 DEF FileReport, ModerationTypeOK, ReviewsOnly
  <1>3. ASSUME NEW m \in Moderators, NEW r \in Reports, NEW next \in {"REVIEWING", "REJECTED"},
               CheckTransition(m, r, next)
        PROVE  MInv'
    BY <1>0, <1>1, <1>3 DEF CheckTransition, ModerationTypeOK, ReviewsOnly
  <1>4. ASSUME NEW m \in Moderators, WriteTransition(m) PROVE MInv'
    <2>1. pending[m].next # "RESOLVED"
      BY <1>4 DEF WriteTransition, ReviewsOnly
    <2> QED
      BY <1>0, <1>1, <1>4, <2>1 DEF WriteTransition, ModerationTypeOK, ReviewsOnly
  <1>5. ASSUME NEW m \in Moderators, LoseTransition(m) PROVE MInv'
    BY <1>0, <1>1, <1>5 DEF LoseTransition, ModerationTypeOK, ReviewsOnly
  <1>6. ASSUME NEW k \in 1..Len(audit), Apply(k) PROVE MInv'
    BY <1>0, <1>6, ApplyAccounts DEF Apply, ReviewsOnly
  <1>9. ASSUME NEW k \in 1..Len(audit), Rollback(k) PROVE MInv'
    BY <1>0, <1>9, RollbackHides, SameAccounts DEF Rollback, ReviewsOnly
  <1>10. ASSUME NEW target, NEW action, NEW r, Record(target, action, r) PROVE MInv'
    BY <1>0, <1>10, RecordOpens, SameAccounts DEF Record, ReviewsOnly
  <1>7. ASSUME NEW c \in Comments, DeleteComment(c) PROVE MInv'
    BY <1>0, <1>1, <1>7 DEF DeleteComment, ReviewsOnly
  <1>8. CASE UNCHANGED moderationVars
    BY <1>0, <1>1, <1>8 DEF moderationVars, ReviewsOnly
  <1> QED
    BY <1>2, <1>3, <1>4, <1>5, <1>6, <1>7, <1>8, <1>9, <1>10, ActionCases

\* However the transactions of moderators overlap and fail, no report is RESOLVED
\* without an action on record, and every account has the status that an action on
\* record gave it which none followed.
THEOREM AuditAccountsAlways == ModerationSpec => []AuditAccounts
  <1>1. ModerationSpec => []MInv
    BY InitMInv, NextMInv, PTL DEF ModerationSpec
  <1> QED
    BY <1>1, PTL DEF MInv

-----------------------------------------------------------------------------
(***************************************************************************)
(* Acting on a report closes it for good, if transitions are not overtaken *)
(***************************************************************************)

\* A transition under way is still allowed.
StillAllowed ==
    \A m \in Moderators : pending[m] # NoRequest =>
        /\ report[pending[m].report] # "NONE"
        /\ pending[m].next \in ValidTransitions[report[pending[m].report]]

EInv == MInv /\ ActedOnIsResolved /\ StillAllowed

LEMMA InitEInv == ModerationInit => EInv
  <1> SUFFICES ASSUME ModerationInit PROVE EInv
    OBVIOUS
  <1>1. \A r \in Reports : ActionsOn(r) = {}
    BY DEF ModerationInit, ActionsOn, Committed
  <1> QED
    BY <1>1, InitMInv DEF EInv, ActedOnIsResolved, StillAllowed, ModerationInit

LEMMA NextEInv == EInv /\ [ModerationNext /\ Exclusive]_allVars => EInv'
  <1> SUFFICES ASSUME EInv, [ModerationNext /\ Exclusive]_allVars PROVE EInv'
    OBVIOUS
  <1>1. MInv /\ MInv' /\ ModerationTypeOK /\ ActedOnIsResolved /\ StillAllowed
    BY NextMInv DEF EInv, MInv
  <1>2. ValidTransitions["RESOLVED"] = {}
    BY DEF ValidTransitions
  <1>3. Exclusive
    BY DEF Exclusive, allVars, moderationVars
  <1>4. ASSUME UNCHANGED audit,
               \A r \in Reports : report[r] = "RESOLVED" => report'[r] = "RESOLVED"
        PROVE  ActedOnIsResolved'
    BY <1>1, <1>4 DEF ActedOnIsResolved, ActionsOn, Committed
  <1>5. ASSUME \A m \in Moderators : pending'[m] \in {pending[m], NoRequest}
        PROVE  StillAllowed'
    BY <1>1, <1>3, <1>5 DEF StillAllowed, Exclusive
  <1>6. ASSUME NEW r \in Reports, FileReport(r) PROVE EInv'
    BY <1>1, <1>4, <1>5, <1>6 DEF FileReport, EInv, ModerationTypeOK
  <1>7. ASSUME NEW m \in Moderators, NEW r \in Reports, NEW next \in {"REVIEWING", "REJECTED"},
               CheckTransition(m, r, next)
        PROVE  EInv'
    <2>1. StillAllowed'
      BY <1>1, <1>7, TransitionAssumption DEF CheckTransition, StillAllowed, ModerationTypeOK
    <2> QED
      BY <1>1, <1>4, <1>7, <2>1 DEF CheckTransition, EInv
  <1>8. ASSUME NEW m \in Moderators, WriteTransition(m) PROVE EInv'
    <2>1. pending[m] \in Transition
      BY <1>1, <1>8 DEF WriteTransition, ModerationTypeOK
    <2>2. report[pending[m].report] # "RESOLVED"
      BY <1>1, <1>2, <1>8 DEF WriteTransition, StillAllowed
    <2>3. ActedOnIsResolved'
      BY <1>1, <1>4, <1>8, <2>1, <2>2 DEF WriteTransition, ModerationTypeOK, Transition
    <2>4. StillAllowed'
      BY <1>1, <1>5, <1>8 DEF WriteTransition, ModerationTypeOK
    <2> QED
      BY <1>1, <2>3, <2>4 DEF EInv
  <1>9. ASSUME NEW m \in Moderators, LoseTransition(m) PROVE EInv'
    BY <1>1, <1>4, <1>5, <1>9 DEF LoseTransition, EInv, ModerationTypeOK
  <1>10. ASSUME NEW k \in 1..Len(audit), Apply(k) PROVE EInv'
    <2>1. \A r \in Reports : ActionsOn(r)' # {} => ActionsOn(r) # {} \/ audit[k].report = r
      BY <1>1, <1>10, ApplyCommits DEF ActionsOn
    <2>2. \A r \in Reports : report'[r] = IF audit[k].report = r THEN "RESOLVED" ELSE report[r]
      BY <1>1, <1>10, ModerationAssumption DEF Apply, ModerationTypeOK
    <2>3. ActedOnIsResolved'
      BY <1>1, <2>1, <2>2 DEF ActedOnIsResolved
    <2>4. StillAllowed'
      BY <1>1, <1>5, <1>10 DEF Apply, ModerationTypeOK
    <2> QED
      BY <1>1, <2>3, <2>4 DEF EInv
  <1>13. ASSUME UNCHANGED <<report, pending>>, \A r : ActionsOn(r)' = ActionsOn(r)
         PROVE  EInv'
    BY <1>1, <1>13 DEF EInv, ActedOnIsResolved, StillAllowed
  <1>14. ASSUME NEW k \in 1..Len(audit), Rollback(k) PROVE EInv'
    BY <1>1, <1>13, <1>14, RollbackHides, SameRecord DEF Rollback
  <1>15. ASSUME NEW target, NEW action, NEW r, Record(target, action, r) PROVE EInv'
    BY <1>1, <1>13, <1>15, RecordOpens, SameRecord DEF Record
  <1>11. ASSUME NEW c \in Comments, DeleteComment(c) PROVE EInv'
    BY <1>1, <1>4, <1>5, <1>11 DEF DeleteComment, EInv, ModerationTypeOK
  <1>12. CASE UNCHANGED moderationVars
    BY <1>1, <1>4, <1>5, <1>12 DEF moderationVars, EInv, ModerationTypeOK
  <1> QED
    BY <1>6, <1>7, <1>8, <1>9, <1>10, <1>11, <1>12, <1>14, <1>15, ActionCases DEF allVars

\* If nobody touches a report between the check and the write of a review or a
\* rejection, a report that was acted on stays RESOLVED.
THEOREM ActedOnStaysResolved == ExclusiveSpec => []ActedOnIsResolved
  <1>1. ExclusiveSpec => []EInv
    BY InitEInv, NextEInv, PTL DEF ExclusiveSpec
  <1> QED
    BY <1>1, PTL DEF EInv
=============================================================================
