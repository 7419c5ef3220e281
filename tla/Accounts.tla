------------------------------- MODULE Accounts -------------------------------
(***************************************************************************)
(* Accounts and sessions: apps/api/src/routes/auth.ts, plugins/auth.ts and *)
(* packages/auth/src/session.ts, and the pages of one browser.             *)
(*                                                                         *)
(* The tabs of the browser share its cookie.  Each holds what useSession   *)
(* has read when its page was mounted: who is logged in, and a CSRF token  *)
(* that is tied to the session of then.                                    *)
(***************************************************************************)
EXTENDS Integers, FiniteSets

CONSTANTS
    Users,       \* by e-mail
    Registered,  \* who has an account already
    Tabs,
    Entrances,   \* tabs in which users log in and out
    Readers,     \* tabs that show pages with forms
    MaxTokens,   \* session tokens, numbered as issued
    Ops,         \* what tabs ask of the API
    None

Tokens == 1..MaxTokens

AccountOps == {"register", "login", "logout", "session"}

ASSUME AccountAssumption ==
    /\ MaxTokens \in Nat /\ None \notin Users /\ None \notin Nat
    /\ Registered \subseteq Users
    /\ AccountOps \subseteq Ops
    /\ Entrances \subseteq Tabs /\ Readers \subseteq Tabs

Nobody == [user |-> None, csrf |-> None]

VARIABLES
    status,      \* status[u]: "none" before u registers
    session,     \* session[t]: user and state of the row, "dead" if revoked or expired
    cookie,      \* what the browser sends
    shown,       \* shown[w]: the state of useSession in tab w
    request      \* request[w]: the request that w waits for

userVars    == <<status, session>>
browserVars == <<cookie, shown>>
accountVars == <<userVars, browserVars, request>>

Idle == [op |-> "none", arg |-> None, token |-> None, csrf |-> None, sees |-> None,
         as |-> None, step |-> "idle"]

AccountInit ==
    /\ status = [u \in Users |-> IF u \in Registered THEN "ACTIVE" ELSE "none"]
    /\ session = [t \in Tokens |-> [user |-> None, state |-> "unused"]]
    /\ cookie = None
    /\ shown = [w \in Tabs |-> Nobody]
    /\ request = [w \in Tabs |-> Idle]

-----------------------------------------------------------------------------
(***************************************************************************)
(* Requests                                                                *)
(***************************************************************************)

At(w, op, step) == request[w].op = op /\ request[w].step = step

\* request() of api-client.ts: the cookie goes along, and the CSRF token that the
\* page has.
Send(w, op, arg) ==
    /\ request[w] = Idle
    /\ request' = [request EXCEPT ![w] =
                      [op |-> op, arg |-> arg, token |-> cookie, csrf |-> shown[w].csrf,
                       sees |-> shown[w].user, as |-> None, step |-> "sent"]]
    /\ UNCHANGED <<userVars, browserVars>>

Go(w, step) == request' = [request EXCEPT ![w].step = step]

\* Mutant: the page goes on with the request that was answered.
RefuseHalf(w) == request' = [request EXCEPT ![w].step = "idle"]

\* An error answer; the page shows it and may ask again.
Refuse(w) == request' = [request EXCEPT ![w] = Idle]

\* Mutant: the owner's status is looked at by the login only.
VerifyRow(t) ==
    IF t # None /\ session[t].state = "live" THEN session[t].user ELSE None

\* verifySession.
VerifySession(t) ==
    IF t # None /\ session[t].state = "live" /\ status[session[t].user] = "ACTIVE"
    THEN session[t].user ELSE None

\* Mutant: any CSRF token of the site will do.
HasToken(w) == request[w].csrf # None

\* requireCsrf: the header's signature is one of the session in the cookie.
CsrfMatches(w) == request[w].csrf = request[w].token

\* requireAuth and requireCsrf, of the routes that change something.
Admits(w, user) ==
    request[w].op \in AccountOps \/ (user # None /\ CsrfMatches(w))

\* The onRequest hook and the checks at the head of the handler.
Arrive(w) ==
    /\ request[w].step = "sent"
    /\ LET user == VerifySession(request[w].token)
       IN IF Admits(w, user)
          THEN request' = [request EXCEPT ![w].as = user, ![w].step = "begun"]
          ELSE Refuse(w)
    /\ UNCHANGED <<userVars, browserVars>>

-----------------------------------------------------------------------------
(***************************************************************************)
(* Register, log in, log out                                               *)
(***************************************************************************)

\* The e-mail is free.
ReadEmail(w) ==
    /\ At(w, "register", "begun")
    /\ IF status[request[w].arg] = "none" THEN Go(w, "checked") ELSE Refuse(w)
    /\ UNCHANGED <<userVars, browserVars>>

\* user.create, or the unique index refuses (500).
CreateUser(w) ==
    /\ At(w, "register", "checked")
    /\ LET u == request[w].arg
       IN IF status[u] = "none"
          THEN status' = [status EXCEPT ![u] = "ACTIVE"] /\ Go(w, "known")
          ELSE Refuse(w) /\ UNCHANGED status
    /\ UNCHANGED <<session, browserVars>>

\* login: the password is right and the account is active.
CheckPassword(w) ==
    /\ At(w, "login", "begun")
    /\ IF status[request[w].arg] = "ACTIVE" THEN Go(w, "known") ELSE Refuse(w)
    /\ UNCHANGED <<userVars, browserVars>>

Unissued  == {t \in Tokens : session[t].state = "unused"}
NextToken == MaxTokens - Cardinality(Unissued) + 1

\* createSession, of login and register.
CreateSession(w) ==
    /\ request[w].step = "known"
    /\ LET t == NextToken
       IN /\ session' = [session EXCEPT ![t] = [user |-> request[w].arg, state |-> "live"]]
          /\ request' = [request EXCEPT ![w].arg = t, ![w].step = "answer"]
    /\ UNCHANGED <<status, browserVars>>

\* logout revokes the session if it was verified.
RevokeSession(w) ==
    /\ At(w, "logout", "begun")
    /\ session' = IF request[w].as = None THEN session
                  ELSE [session EXCEPT ![request[w].token].state = "dead"]
    /\ Go(w, "answer")
    /\ UNCHANGED <<status, browserVars>>

\* GET /auth/session: the user, and a CSRF token for the request's session.
ReadSession(w) ==
    /\ At(w, "session", "begun")
    /\ Go(w, "answer")
    /\ UNCHANGED <<userVars, browserVars>>

\* Set-Cookie takes effect when the answer arrives, whatever the cookie has become
\* since; useSession's state is replaced by what was read.  After logging in
\* a new page is mounted; after logging out the page keeps what it knew.
Deliver(w) ==
    /\ request[w].op \in AccountOps /\ request[w].step = "answer"
    /\ cookie' = CASE request[w].op \in {"login", "register"} -> request[w].arg
                   [] request[w].op = "logout" -> None
                   [] OTHER -> cookie
    /\ shown' = CASE request[w].op = "session" ->
                       [shown EXCEPT ![w] = [user |-> request[w].as,
                            csrf |-> IF request[w].as = None THEN None ELSE request[w].token]]
                  [] request[w].op = "logout" -> shown
                  [] OTHER -> [shown EXCEPT ![w] = Nobody]
    /\ Refuse(w)
    /\ UNCHANGED userVars

\* A page is mounted.
Mount(w) ==
    /\ request[w] = Idle
    /\ shown' = [shown EXCEPT ![w] = Nobody]
    /\ request' = [request EXCEPT ![w] =
                      [Idle EXCEPT !.op = "session", !.token = cookie, !.step = "sent"]]
    /\ UNCHANGED <<userVars, cookie>>

-----------------------------------------------------------------------------

\* An administrator suspends the user, or lets it back in; the sessions stay.  The
\* user may also register from another browser.
Suspend(u)    == status[u] = "ACTIVE" /\ status' = [status EXCEPT ![u] = "SUSPENDED"]
Reactivate(u) == status[u] = "SUSPENDED" /\ status' = [status EXCEPT ![u] = "ACTIVE"]
Join(u)       == status[u] = "none" /\ status' = [status EXCEPT ![u] = "ACTIVE"]
SetStatus(u)  ==
    /\ Suspend(u) \/ Reactivate(u) \/ Join(u)
    /\ UNCHANGED <<session, browserVars, request>>

\* expiresAt passes.
Expire(t) ==
    /\ session[t].state = "live"
    /\ session' = [session EXCEPT ![t].state = "dead"]
    /\ UNCHANGED <<status, browserVars, request>>

AccountStep(w) ==
    \/ Arrive(w) \/ ReadEmail(w) \/ CreateUser(w) \/ CheckPassword(w)
    \/ CreateSession(w) \/ RevokeSession(w) \/ ReadSession(w) \/ Deliver(w)

\* Tabs log in and register while a token is left for it.
Entering  == {w \in Tabs : request[w].op \in {"login", "register"} /\ request[w].step # "answer"}

\* The login and register pages, and the header's logout.
LogIn(w, u)  == Cardinality(Entering) < Cardinality(Unissued) /\ Send(w, "login", u)
SignUp(w, u) == Cardinality(Entering) < Cardinality(Unissued) /\ Send(w, "register", u)
LogOut(w)    == Send(w, "logout", None)

AccountNext ==
    \/ \E w \in Tabs : AccountStep(w)
    \/ \E w \in Entrances : LogOut(w) \/ (\E u \in Users : LogIn(w, u) \/ SignUp(w, u))
    \/ \E u \in Users : SetStatus(u)
    \/ \E t \in Tokens : Expire(t)

-----------------------------------------------------------------------------
(***************************************************************************)
(* Properties                                                              *)
(***************************************************************************)

AccountTypeOK ==
    /\ status \in [Users -> {"none", "ACTIVE", "SUSPENDED"}]
    /\ session \in [Tokens -> [user : Users \cup {None},
                               state : {"unused", "live", "dead"}]]
    /\ cookie \in {None} \cup Tokens
    /\ shown \in [Tabs -> [user : Users \cup {None}, csrf : Tokens \cup {None}]]
    /\ \A w \in Tabs :
          /\ request[w].op \in Ops \cup {"none"} /\ request[w].as \in Users \cup {None}
          /\ request[w].step = "idle" <=> request[w] = Idle

\* plugins/auth.ts and csrf.ts: a route that changes something acts for the user
\* that its tab shows, although another tab of the browser may have logged
\* out and in as someone else since the page was mounted.
ActsAsShown ==
    \A w \in Tabs :
        request[w].op \notin AccountOps /\ request[w].as # None => request[w].as = request[w].sees

\* The user has no request that was let in.
Quiet(u) == \A w \in Tabs : request[w].op \in AccountOps \/ request[w].as # u

\* docs/SECURITY.md:17-20, "stop working immediately": who is suspended and has no
\* request running begins none, by no session, not even one that a login
\* creates after the suspension; until reactivated.
SuspendedStayQuiet ==
    [][\A u \in Users : status[u] = "SUSPENDED" /\ Quiet(u) => Quiet(u)']_<<status, request>>
=============================================================================
