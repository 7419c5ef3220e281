----------------------------- MODULE Moderation -----------------------------
(***************************************************************************)
(* Reports, moderation actions and their audit trail:                      *)
(* packages/moderation/src/reports.ts and actions.ts and the admin routes  *)
(* that call them (apps/api/src/routes/admin.ts), on top of the contents   *)
(* they act on.                                                            *)
(*                                                                         *)
(* applyModerationAction is a transaction of several statements.  The      *)
(* first inserts the audit row, whose created_at is its place in the       *)
(* trail; nothing is locked yet, so others may overtake it.  The updates   *)
(* that follow write values that were not read, behind row locks that are  *)
(* held until the commit, and are one step with it.                        *)
(* transitionReportStatus is a SELECT, a check and an UPDATE of its own.   *)
(***************************************************************************)
EXTENDS ContentLifecycle, Sequences

CONSTANTS
    Users,       \* accounts that may be suspended
    Comments,    \* comments
    Reports,     \* moderation_reports
    NoReport,    \* reportId left undefined
    Moderators   \* concurrent review and reject requests

Target == [type : {"CONTENT"}, id : Items] \cup [type : {"CONTENT_PART"}, id : Parts]
            \cup [type : {"USER"}, id : Users] \cup [type : {"COMMENT"}, id : Comments]

ReportStatus == {"OPEN", "REVIEWING", "RESOLVED", "REJECTED"}
Transition   == [report : Reports, next : ReportStatus]

\* The status that an action on an account writes.
AccountStatus == [SUSPEND_CREATOR |-> "SUSPENDED", REACTIVATE_USER |-> "ACTIVE"]
Actions == Effects \cup DOMAIN AccountStatus

\* A moderation_actions row, visible once it is committed; "until" is the length that
\* the trail had then (history).
AuditRow == [target : Target, action : Actions, report : Reports \cup {NoReport},
             state : {"open", "committed", "undone"}, until : Nat]

ASSUME ModerationAssumption == NoReport \notin Reports
ASSUME TransitionAssumption == NoRequest \notin Transition

\* Mutant: a rejected report may still be reviewed, a resolved one rejected.
ReopeningTransitions ==
    [OPEN |-> {"REVIEWING", "REJECTED"}, REVIEWING |-> {"RESOLVED", "REJECTED"},
     RESOLVED |-> {"REJECTED"}, REJECTED |-> {"REVIEWING"}]

ValidTransitions ==
    [OPEN |-> {"REVIEWING", "REJECTED"}, REVIEWING |-> {"RESOLVED", "REJECTED"},
     RESOLVED |-> {}, REJECTED |-> {}]

VARIABLES
    report,      \* report[r]: its status, "NONE" before it is filed
    user,        \* user[u]: account status
    comment,     \* comment[c]: "PUBLISHED" or "DELETED"
    audit,       \* moderation_actions in the order of created_at, the open ones included
    pending      \* pending[m]: the transition m has checked, or NoRequest

moderationVars == <<report, user, comment, audit, pending>>
allVars        == <<vars, moderationVars>>

ModerationInit ==
    /\ Init
    /\ report  = [r \in Reports |-> "NONE"]
    /\ user    = [u \in Users |-> "ACTIVE"]
    /\ comment = [c \in Comments |-> "PUBLISHED"]
    /\ audit   = << >>
    /\ pending = [m \in Moderators |-> NoRequest]

-----------------------------------------------------------------------------

\* createModerationReport: always starts OPEN.  Nothing reads its target back.
FileReport(r) ==
    /\ report[r] = "NONE"
    /\ report' = [report EXCEPT ![r] = "OPEN"]
    /\ UNCHANGED <<vars, user, comment, audit, pending>>

\* transitionReportStatus: the SELECT and the check, for /review and /reject.
CheckTransition(m, r, next) ==
    /\ pending[m] = NoRequest
    /\ report[r] # "NONE"
    /\ next \in ValidTransitions[report[r]]
    /\ pending' = [pending EXCEPT ![m] = [report |-> r, next |-> next]]
    /\ UNCHANGED <<vars, report, user, comment, audit>>

\* ... and the UPDATE, whatever the status has become.
WriteTransition(m) ==
    /\ pending[m] # NoRequest
    /\ report' = [report EXCEPT ![pending[m].report] = pending[m].next]
    /\ pending' = [pending EXCEPT ![m] = NoRequest]
    /\ UNCHANGED <<vars, user, comment, audit>>

\* 409 for a transition that the status read does not allow.
RefuseTransition(m, r, next) ==
    /\ pending[m] = NoRequest
    /\ report[r] # "NONE" /\ next \notin ValidTransitions[report[r]]
    /\ UNCHANGED allVars

\* The UPDATE is lost with the process or the connection.
LoseTransition(m) ==
    /\ pending[m] # NoRequest
    /\ pending' = [pending EXCEPT ![m] = NoRequest]
    /\ UNCHANGED <<vars, report, user, comment, audit>>

\* What the action does to a content or an account.  Chapters and comments are
\* accepted as targets, and so are actions that do not fit theirs, without effect.
OnContent(q) == q.target.type = "CONTENT" /\ q.action \in Effects
OnAccount(q) == q.target.type = "USER" /\ q.action \in DOMAIN AccountStatus

\* applyModerationAction begins: created_at is set and the audit row inserted.
Record(target, action, r) ==
    /\ audit' = Append(audit, [target |-> target, action |-> action, report |-> r,
                               state |-> "open", until |-> 0])
    /\ UNCHANGED <<vars, report, user, comment, pending>>

\* ... effect and report, and the commit of all three.
Apply(k) ==
    LET q == audit[k] IN
    /\ q.state = "open"
    /\ audit' = [audit EXCEPT ![k] = [q EXCEPT !.state = "committed", !.until = Len(audit)]]
    /\ IF OnContent(q) THEN Moderate(q.target.id, q.action) ELSE UNCHANGED vars
    /\ user' = IF OnAccount(q)
               THEN [user EXCEPT ![q.target.id] = AccountStatus[q.action]]
               ELSE user
    /\ report' = IF q.report = NoReport THEN report
                 ELSE [report EXCEPT ![q.report] = "RESOLVED"]
    /\ UNCHANGED <<comment, pending>>

\* Mutant: the audit row is written outside the transaction.
KeptRow(k) == [audit[k] EXCEPT !.state = "committed", !.until = Len(audit)]

UndoneRow(k) == [audit[k] EXCEPT !.state = "undone"]

\* The transaction throws (a content that is not there), times out or loses its
\* connection, and is rolled back.
Rollback(k) ==
    /\ audit[k].state = "open"
    /\ audit' = [audit EXCEPT ![k] = UndoneRow(k)]
    /\ UNCHANGED <<vars, report, user, comment, pending>>

\* POST /admin/stories/:id/{publish,unpublish,delete,restore,noindex}.
ModerateStory(i, action) ==
    /\ item[i] # NoRow
    /\ Record([type |-> "CONTENT", id |-> i], action, NoReport)

\* POST /admin/users/:id/{suspend,reactivate}.
ModerateUser(u, action) == Record([type |-> "USER", id |-> u], action, NoReport)

\* POST /admin/reports/:id/action: target and action come with the request, and
\* the status of the report is not looked at.
ActOnReport(r, target, action) ==
    /\ report[r] # "NONE"
    /\ Record(target, action, r)

\* DELETE /comments/:id, by its author or a moderator.
DeleteComment(c) ==
    /\ comment[c] = "PUBLISHED"
    /\ comment' = [comment EXCEPT ![c] = "DELETED"]
    /\ UNCHANGED <<vars, report, user, audit, pending>>

-----------------------------------------------------------------------------

ModerationNext ==
    \/ \E r \in Reports : FileReport(r)
    \/ \E m \in Moderators :
          \/ \E r \in Reports, next \in {"REVIEWING", "REJECTED"} :
                CheckTransition(m, r, next) \/ RefuseTransition(m, r, next)
          \/ WriteTransition(m) \/ LoseTransition(m)
    \/ \E i \in Items, action \in Effects : ModerateStory(i, action)
    \/ \E u \in Users, action \in DOMAIN AccountStatus : ModerateUser(u, action)
    \/ \E r \in Reports, target \in Target, action \in Actions :
          ActOnReport(r, target, action)
    \/ \E k \in 1..Len(audit) : Apply(k) \/ Rollback(k)
    \/ \E c \in Comments : DeleteComment(c)
    \/ (OwnerNext \/ ReaderNext) /\ UNCHANGED moderationVars

ModerationSpec == ModerationInit /\ [][ModerationNext]_allVars

\* Nobody touches a report between the check of a transition and its write.
Exclusive ==
    \A m \in Moderators :
        pending[m] # NoRequest /\ pending'[m] # NoRequest
          => report'[pending[m].report] = report[pending[m].report]

ExclusiveSpec == ModerationInit /\ [][ModerationNext /\ Exclusive]_allVars

-----------------------------------------------------------------------------
(***************************************************************************)
(* Properties                                                              *)
(***************************************************************************)

\* Types of the tables and of the open transitions.
ModerationTypeOK ==
    /\ report  \in [Reports -> ReportStatus \cup {"NONE"}]
    /\ user    \in [Users -> {"ACTIVE", "SUSPENDED"}]
    /\ comment \in [Comments -> {"PUBLISHED", "DELETED"}]
    /\ audit   \in Seq(AuditRow)
    /\ pending \in [Moderators -> Transition \cup {NoRequest}]

Committed == {k \in 1..Len(audit) : audit[k].state = "committed"}
ActionsOn(r) == {k \in Committed : audit[k].report = r}
AccountActions(u) ==
    {k \in Committed : OnAccount(audit[k]) /\ audit[k].target.id = u}

\* No other action on the account was recorded after k had committed.
NotFollowed(u, k) == \A j \in AccountActions(u) : j <= audit[k].until

\* The audit trail accounts for what moderators did (docs/API.md, "Every mutation
\* here"): a report is RESOLVED only if an action on it is on record, and an account
\* has the status that an action on record gave it, one that no later one followed.
\* Of actions that overlap, the trail may name another one last than the account.
AuditAccounts ==
    /\ \A r \in Reports : report[r] = "RESOLVED" => ActionsOn(r) # {}
    /\ \A u \in Users :
          \/ AccountActions(u) = {} /\ user[u] = "ACTIVE"
          \/ \E k \in AccountActions(u) :
                NotFollowed(u, k) /\ user[u] = AccountStatus[audit[k].action]

\* A report that was acted on stays RESOLVED, as long as no request about it comes
\* between the check and the write of a review or a rejection.
ActedOnIsResolved ==
    \A r \in Reports : ActionsOn(r) # {} => report[r] = "RESOLVED"
=============================================================================
