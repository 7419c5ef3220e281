----------------------------- MODULE AdminConsole -----------------------------
(***************************************************************************)
(* A page of the admin console (app/admin/users, stories, reports and      *)
(* payouts) with the routes of admin.ts that it calls.  The page shows a   *)
(* list read earlier and offers actions by the status it shows; nothing is *)
(* disabled while requests are under way, and other admins change the same *)
(* row.                                                                    *)
(***************************************************************************)
EXTENDS Integers, SequencesExt

CONSTANTS
    None,         \* no filter ("all"), no row in a list
    Kinds,        \* the pages of the console that are opened
    Filters,      \* statuses that are chosen on them
    MaxCalls      \* requests under way

ASSUME ConsoleAssumption == MaxCalls \in Nat \ {0}

VARIABLES
    kind,        \* the page: "users", "stories", "reports" or "payouts"
    row,         \* a row of its table
    filter,      \* the status chosen on the page
    shown,       \* the list on the page: a set, empty until the first one comes
    calls,       \* requests under way, the oldest first
    error        \* the page says that an action failed

consoleVars == <<kind, row, filter, shown, calls, error>>

Statuses == [users   |-> {"ACTIVE", "SUSPENDED"},
             stories |-> {"DRAFT", "PUBLISHED", "UNPUBLISHED", "ARCHIVED"},
             reports |-> {"OPEN", "REVIEWING", "RESOLVED", "REJECTED"},
             payouts |-> {"PENDING", "PROCESSING", "PAID", "FAILED", "REVERSED"}]

First == [users |-> "ACTIVE", stories |-> "DRAFT", reports |-> "OPEN", payouts |-> "PENDING"]

\* The pages that load as soon as another status is chosen, the others when the form is
\* sent; the first ones are opened with the status that the overview links to.
Automatic == {"reports", "payouts"}

Call(action, f) == [action |-> action, filter |-> f, step |-> "wire", lists |-> {}]

\* Mount loads.
ConsoleInit ==
    /\ kind \in Kinds
    /\ row = [status |-> First[kind], deleted |-> FALSE]
    /\ filter = IF kind \in Automatic THEN First[kind] ELSE None
    /\ shown = {} /\ calls = <<Call("load", filter)>> /\ error = FALSE

-----------------------------------------------------------------------------
(***************************************************************************)
(* What the pages offer for a row                                          *)
(***************************************************************************)

UserActions(r) == IF r.status = "SUSPENDED" THEN {"reactivate"} ELSE {"suspend"}

\* (and noindex, which changes nothing that these pages show or the site reads)
StoryActions(r) ==
    IF r.deleted THEN {"restore"}
    ELSE {"delete", IF r.status = "PUBLISHED" THEN "unpublish" ELSE "publish"}

ReportActions(r) ==
    CASE r.status = "OPEN" -> {"review", "resolve", "reject"}
      [] r.status = "REVIEWING" -> {"resolve", "reject"}
      [] OTHER -> {}

PayoutActions(r) ==
    CASE r.status = "PENDING" -> {"PROCESSING", "PAID", "FAILED"}
      [] r.status = "PROCESSING" -> {"PAID", "FAILED"}
      [] r.status = "PAID" -> {"REVERSED"}
      [] OTHER -> {}

Offered(r) ==
    CASE kind = "users" -> UserActions(r)
      [] kind = "stories" -> StoryActions(r)
      [] kind = "reports" -> ReportActions(r)
      [] kind = "payouts" -> PayoutActions(r)

-----------------------------------------------------------------------------
(***************************************************************************)
(* The routes                                                              *)
(***************************************************************************)

\* Suspend and reactivate go through whatever the status is.
UserResult(action) == [suspend |-> "SUSPENDED", reactivate |-> "ACTIVE"][action]

\* applyContentEffect: a story that is restored stays archived.
StoryResult(action, r) ==
    CASE action = "publish" -> [r EXCEPT !.status = "PUBLISHED"]
      [] action = "unpublish" -> [r EXCEPT !.status = "UNPUBLISHED"]
      [] action = "delete" -> [status |-> "ARCHIVED", deleted |-> TRUE]
      [] action = "restore" -> [r EXCEPT !.deleted = FALSE]

\* Review and reject follow VALID_TRANSITIONS; an action resolves whatever the status is.
ReportAllows(action, r) ==
    CASE action = "review" -> r.status = "OPEN"
      [] action = "reject" -> r.status \in {"OPEN", "REVIEWING"}
      [] action = "resolve" -> TRUE

\* PAID and REVERSED are checked; FAILED and PROCESSING are not.
PayoutAllows(action, r) ==
    CASE action = "PAID" -> r.status \in {"PENDING", "PROCESSING"}
      [] action = "REVERSED" -> r.status = "PAID"
      [] OTHER -> TRUE

Allowed(action, r) ==
    CASE kind = "reports" -> ReportAllows(action, r)
      [] kind = "payouts" -> PayoutAllows(action, r)
      [] OTHER -> TRUE

Result(action, r) ==
    CASE kind = "stories" -> StoryResult(action, r)
      [] kind = "users" -> [r EXCEPT !.status = UserResult(action)]
      [] kind = "reports" ->
           [r EXCEPT !.status = [review |-> "REVIEWING", reject |-> "REJECTED", resolve |-> "RESOLVED"][action]]
      [] kind = "payouts" -> [r EXCEPT !.status = action]

-----------------------------------------------------------------------------
(***************************************************************************)
(* The page.  A list says with which filter it was read and what happened  *)
(* since (history): "own", an action of this page was applied; "other",    *)
(* one of somebody else was; "missed", an answer did not come and the page *)
(* does not say so, or no longer does; "late", a list read after an own    *)
(* action came before it.                                                  *)
(***************************************************************************)

Seen(f) == IF row.status = f THEN row ELSE None

Since(lists, what) == {[list EXCEPT !.since = @ \cup {what}] : list \in lists}

Put(call) == Len(calls) < MaxCalls /\ calls' = Append(calls, call)

\* The lists that have arrived at the browser, or are on their way to it.
Note(what) ==
    /\ shown' = Since(shown, what)
    /\ calls' = [i \in DOMAIN calls |-> [calls[i] EXCEPT !.lists = Since(@, what)]]

\* Another status is chosen; the list on the page stays until another one comes.
Choose ==
    /\ \E f \in ({None} \cup (Filters \cap Statuses[kind])) \ {filter} :
         /\ filter' = f
         /\ IF kind \in Automatic THEN Put(Call("load", f)) ELSE UNCHANGED calls
    /\ UNCHANGED <<kind, row, shown, error>>

SendFilter ==
    /\ kind \notin Automatic
    /\ Put(Call("load", filter))
    /\ UNCHANGED <<kind, row, filter, shown, error>>

\* A button of the row.  Nothing is disabled while a request is under way.
Act ==
    /\ \E list \in shown : list.row # None /\ \E action \in Offered(list.row) : Put(Call(action, filter))
    /\ error' = FALSE
    /\ UNCHANGED <<kind, row, filter, shown>>

\* A button of the payouts drops what the page says before it asks; the question is dismissed.
Dismiss ==
    /\ error /\ \E list \in shown : list.row # None /\ Offered(list.row) \cap {"PAID", "FAILED"} # {}
    /\ error' = FALSE
    /\ Note("missed")
    /\ UNCHANGED <<kind, row, filter>>

\* URLSearchParams writes a filter left empty as "undefined", which the API refuses.
Readable(f) == f # None

\* findMany with the filter.
ServeLoad(i) ==
    /\ calls[i].step = "wire" /\ calls[i].action = "load" /\ Readable(calls[i].filter)
    /\ calls' = [calls EXCEPT ![i] = [@ EXCEPT !.step = "ok", !.lists =
                   {[row |-> Seen(calls[i].filter), filter |-> calls[i].filter, since |-> {}]}]]
    /\ UNCHANGED <<kind, row, filter, shown, error>>

ServeAct(i) ==
    /\ calls[i].step = "wire" /\ calls[i].action # "load" /\ Allowed(calls[i].action, row)
    /\ row' = Result(calls[i].action, row)
    /\ shown' = Since(shown, "own")
    /\ calls' = [j \in DOMAIN calls |->
                   [calls[j] EXCEPT !.step = IF j = i THEN "ok" ELSE @, !.lists = Since(@, "own")]]
    /\ UNCHANGED <<kind, filter, error>>

\* The request is refused or lost, or its answer is.
Fail(i) ==
    /\ calls[i].step # "error"
    /\ calls' = [calls EXCEPT ![i] = [@ EXCEPT !.step = "error", !.lists = {}]]
    /\ UNCHANGED <<kind, row, filter, shown, error>>

\* Of the lists on their way, those that were read before an own action and `arrived` after it.
Overtaken(lists, arrived) ==
    {IF \E a \in arrived : "own" \in list.since \ a.since
     THEN [list EXCEPT !.since = @ \cup {"late"}] ELSE list : list \in lists}

\* A list arrives.
Listed(i) ==
    /\ calls[i].step = "ok" /\ calls[i].action = "load"
    /\ shown' = calls[i].lists
    /\ calls' = RemoveAt([j \in DOMAIN calls |-> [calls[j] EXCEPT !.lists = Overtaken(@, calls[i].lists)]], i)
    /\ UNCHANGED <<kind, row, filter, error>>

\* Mutant: the page does not load again.
DoneOnly(i) ==
    /\ calls[i].step = "ok" /\ calls[i].action # "load"
    /\ calls' = RemoveAt(calls, i)
    /\ UNCHANGED <<kind, row, filter, shown, error>>

\* After an action the page loads again, with the filter that it had at the click.
Done(i) ==
    /\ calls[i].step = "ok" /\ calls[i].action # "load"
    /\ calls' = [calls EXCEPT ![i] = Call("load", calls[i].filter)]
    /\ UNCHANGED <<kind, row, filter, shown, error>>

\* A failure leaves the list as it was.  The page of the payouts says that its action failed;
\* a load there, and everything on the other pages, is awaited by nobody.
Told(i) == kind = "payouts" /\ calls[i].action # "load"

Failed(i) ==
    /\ calls[i].step = "error"
    /\ error' = (error \/ Told(i))
    /\ shown' = IF Told(i) THEN shown ELSE Since(shown, "missed")
    /\ calls' = RemoveAt([j \in DOMAIN calls |->
                   IF Told(i) THEN calls[j] ELSE [calls[j] EXCEPT !.lists = Since(@, "missed")]], i)
    /\ UNCHANGED <<kind, row, filter>>

\* Another admin, or the creator of a story, acts on the row.
Other ==
    /\ \E action \in Offered(row) : Allowed(action, row) /\ row' = Result(action, row)
    /\ Note("other")
    /\ UNCHANGED <<kind, filter, error>>

Answered(i) == Listed(i) \/ Done(i) \/ Failed(i)
Served(i)   == ServeLoad(i) \/ ServeAct(i) \/ Fail(i)

ConsoleNext ==
    \/ Choose \/ SendFilter \/ Act \/ Dismiss \/ Other
    \/ \E i \in DOMAIN calls : Served(i) \/ Answered(i)

ConsoleSpec == ConsoleInit /\ [][ConsoleNext]_consoleVars

-----------------------------------------------------------------------------
(***************************************************************************)
(* Properties                                                              *)
(***************************************************************************)

\* load() after each action: however clicks, filters and answers overlap, a page without a
\* request under way shows the row as it is stored, and so offers what can be done with it,
\* unless somebody else acted since, the page says that an action failed, an answer did not
\* come, or one list overtook another.
RestsOnStored ==
    calls = <<>> =>
        \A list \in shown :
            \/ list.row = Seen(list.filter)
            \/ list.since \cap {"other", "missed", "late"} # {}
            \/ error

=============================================================================
