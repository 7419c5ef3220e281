---------------------------- MODULE CommentsProofs ----------------------------
(***************************************************************************)
(* What holds of sessions, of the requests of a browser's tabs and of the  *)
(* comments they post, for every set of users, tabs and tokens.            *)
(***************************************************************************)
EXTENDS Comments, FiniteSetTheorems, SequenceTheorems, TLAPS

Steps == {"idle", "sent", "begun", "checked", "known", "answer",
          "content", "parent", "part", "found"}

ShownRow == [user : Users \cup {None}, csrf : Tokens \cup {None}]
RequestRow ==
    [op : Ops \cup {"none"}, arg : Users \cup Nat \cup {None}, token : Tokens \cup {None},
     csrf : Tokens \cup {None}, sees : Users \cup {None}, as : Users \cup {None}, step : Steps]

\* Session t was created for u.
Names(t, u) == t \in Tokens /\ session[t].state # "unused" /\ session[t].user = u

Typed ==
    /\ status \in [Users -> {"none", "ACTIVE", "SUSPENDED"}]
    /\ session \in [Tokens -> [user : Users \cup {None}, state : {"unused", "live", "dead"}]]
    /\ cookie \in Tokens \cup {None} /\ shown \in [Tabs -> ShownRow]
    /\ request \in [Tabs -> RequestRow]

\* Tokens are issued in their order, each to a user.
Issued ==
    /\ \E k \in 0..MaxTokens : \A t \in Tokens : session[t].state = "unused" <=> t > k
    /\ \A t \in Tokens : session[t].state # "unused" => session[t].user \in Users

\* Every login under way has a token left.
Room == IsFiniteSet(Entering) /\ Cardinality(Entering) <= Cardinality(Unissued)

\* What a tab asks: its CSRF token is one of the user that it shows, and the
\* user that it was let in as is the session's.
Fit(r) ==
    /\ r \in RequestRow
    /\ r.step = "idle" <=> r = Idle
    /\ r.op = "none" => r = Idle
    /\ r.step = "known" => r.op \in {"login", "register"}
    /\ r.op \in {"login", "register"} => IF r.step = "answer" THEN r.arg \in Tokens ELSE r.arg \in Users
    /\ r.csrf # None => Names(r.csrf, r.sees)
    /\ r.as # None => Names(r.token, r.as)
    /\ r.op \in CommentOps /\ r.as # None => r.as = r.sees
    /\ r.op \in CommentOps /\ r.step # "sent" => r.as # None

Tied ==
    /\ \A w \in Tabs : Fit(request[w])
    /\ \A w \in Tabs : shown[w].csrf # None => Names(shown[w].csrf, shown[w].user)

AInv == Typed /\ Issued /\ Room /\ Tied

LEMMA OpsAre ==
    /\ AccountOps = {"register", "login", "logout", "session"}
    /\ CommentOps = {"post", "delete"} /\ Ops = AccountOps \cup CommentOps
  BY CommentAssumption DEF AccountOps, CommentOps

LEMMA IdleFit == Fit(Idle) /\ Idle \in RequestRow /\ Idle.step = "idle" /\ Idle.op = "none"
  <1>1. Idle \in RequestRow
    BY DEF Idle, RequestRow, Steps
  <1> QED
    BY <1>1 DEF Fit, Idle, CommentOps

LEMMA TokensFinite ==
    /\ IsFiniteSet(Tokens) /\ Cardinality(Tokens) = MaxTokens
    /\ IsFiniteSet(Unissued) /\ Cardinality(Unissued) \in Nat
  <1>1. MaxTokens \in Nat /\ MaxTokens \in Int /\ 1 \in Int
    BY AccountAssumption
  <1>2. /\ IsFiniteSet(1..MaxTokens)
        /\ Cardinality(1..MaxTokens) = IF 1 > MaxTokens THEN 0 ELSE MaxTokens - 1 + 1
    BY <1>1, FS_Interval
  <1>3. IsFiniteSet(Tokens) /\ Cardinality(Tokens) = MaxTokens
    BY <1>1, <1>2 DEF Tokens
  <1>4. Unissued \subseteq Tokens
    BY DEF Unissued
  <1>5. IsFiniteSet(Unissued)
    BY <1>3, <1>4, FS_Subset
  <1> QED
    BY <1>3, <1>5, FS_CardinalityType

LEMMA InitAInv == Init => AInv
  <1> SUFFICES ASSUME Init PROVE AInv
    OBVIOUS
  <1>1. Typed
    BY AccountAssumption, IdleFit
    DEF Init, AccountInit, Typed, ShownRow, Nobody
  <1>2. Issued
    <2>1. 0 \in 0..MaxTokens /\ \A t \in Tokens : t > 0
      BY AccountAssumption DEF Tokens
    <2> QED
      BY <2>1 DEF Init, AccountInit, Issued
  <1>3. Room
    <2>1. Entering = {}
      BY IdleFit DEF Init, AccountInit, Entering
    <2>2. IsFiniteSet(Entering) /\ Cardinality(Entering) = 0
      BY <2>1, FS_EmptySet
    <2> QED
      BY <2>2, TokensFinite DEF Room
  <1>4. Tied
    BY IdleFit DEF Init, AccountInit, Tied, Nobody
  <1> QED
    BY <1>1, <1>2, <1>3, <1>4 DEF AInv

-----------------------------------------------------------------------------

\* A step of w's request that leaves sessions and pages alone.
Turns(w, r) ==
    /\ UNCHANGED <<session, browserVars>>
    /\ request' = [request EXCEPT ![w] = r]
    /\ Fit(r)
    /\ r.op \in {"login", "register"} /\ r.step # "answer" =>
          w \in Entering \/ Cardinality(Entering) < Cardinality(Unissued)

\* Request r of w was let in before, or is now as an active user.
LetIn(w, r) ==
    r.op \in CommentOps /\ r.as # None =>
       \/ r.op = request[w].op /\ r.as = request[w].as
       \/ r.as \in Users /\ status[r.as] = "ACTIVE"

Asks(w, r) == UNCHANGED status /\ Turns(w, r) /\ LetIn(w, r)

\* In a step of the system.
Calm == \A w \in Tabs : LetIn(w, request'[w])

\* Sessions are never given to another user.
SessionsStay == \A t, u : Names(t, u) => Names(t, u)'

LEMMA FitStays ==
    ASSUME SessionsStay, NEW r, Fit(r)
    PROVE  Fit(r)'
  BY DEF SessionsStay, Fit

\* The others' requests stay tied.
LEMMA RequestsStay ==
    ASSUME Typed, Tied, SessionsStay, NEW w \in Tabs, NEW r, request' = [request EXCEPT ![w] = r],
           Fit(r)'
    PROVE  \A v \in Tabs : Fit(request[v])'
  <1> SUFFICES ASSUME NEW v \in Tabs PROVE Fit(request[v])'
    OBVIOUS
  <1>1. CASE v = w
    <2>1. request'[v] = r
      BY <1>1 DEF Typed
    <2> QED
      BY <2>1 DEF Fit, Names
  <1>2. CASE v # w
    <2>1. request'[v] = request[v]
      BY <1>2 DEF Typed
    <2>2. PICK q : q = request[v]
      OBVIOUS
    <2>3. Fit(q)'
      BY <2>2, FitStays DEF Tied
    <2> QED
      BY <2>1, <2>2, <2>3 DEF Fit, Names
  <1> QED
    BY <1>1, <1>2

LEMMA TiedStays ==
    ASSUME Typed, Tied, SessionsStay, NEW w \in Tabs, NEW r, request' = [request EXCEPT ![w] = r],
           Fit(r)', UNCHANGED shown
    PROVE  Tied'
  <1>1. \A v \in Tabs : Fit(request[v])'
    BY RequestsStay
  <1>2. \A v \in Tabs : shown[v].csrf # None => Names(shown[v].csrf, shown[v].user)'
    BY DEF SessionsStay, Tied
  <1> QED
    BY <1>1, <1>2 DEF Tied, Names

\* Logins under way, when at most one more begins and no token is issued.
LEMMA RoomStays ==
    ASSUME Room, Entering' \subseteq Entering, Unissued' = Unissued
    PROVE  Room'
  <1>1. IsFiniteSet(Entering') /\ Cardinality(Entering') <= Cardinality(Entering)
    BY FS_Subset DEF Room
  <1>2. Cardinality(Entering') \in Nat /\ Cardinality(Entering) \in Nat
    BY <1>1, FS_CardinalityType DEF Room
  <1>3. Cardinality(Entering) <= Cardinality(Unissued) /\ Cardinality(Unissued) \in Int
    BY TokensFinite DEF Room
  <1> QED
    BY <1>1, <1>2, <1>3 DEF Room

LEMMA TurnsKeeps ==
    ASSUME AInv, NEW w \in Tabs, NEW r, Turns(w, r),
           status' \in [Users -> {"none", "ACTIVE", "SUSPENDED"}]
    PROVE  AInv'
  <1> USE DEF AInv, Turns, browserVars
  <1>1. Typed'
    BY DEF Typed, Fit
  <1>2. Issued' /\ SessionsStay /\ Unissued' = Unissued
    BY DEF Issued, SessionsStay, Names, Unissued
  <1>3. Fit(r)'
    BY <1>2, FitStays
  <1>4. Tied'
    BY <1>2, <1>3, TiedStays
  <1>5. /\ \A v \in Tabs \ {w} : v \in Entering' <=> v \in Entering
        /\ w \in Entering' <=> r.op \in {"login", "register"} /\ r.step # "answer"
    BY DEF Entering, Typed
  <1>6. Room'
    <2>1. CASE Entering' \subseteq Entering
      BY <1>2, <2>1, RoomStays
    <2>2. CASE ~(Entering' \subseteq Entering)
      <3>1. w \notin Entering /\ Entering' = Entering \cup {w}
        BY <1>5, <2>2 DEF Entering
      <3>2. Cardinality(Entering) < Cardinality(Unissued)
        BY <1>5, <2>2, <3>1 DEF Entering
      <3>3. IsFiniteSet(Entering) /\ Cardinality(Entering) \in Nat
        BY FS_CardinalityType DEF Room
      <3>4. IsFiniteSet(Entering \cup {w}) /\ Cardinality(Entering \cup {w}) = Cardinality(Entering) + 1
        BY <3>1, <3>3, FS_AddElement
      <3>5. Cardinality(Unissued) \in Nat
        BY TokensFinite
      <3>6. IsFiniteSet(Entering') /\ Cardinality(Entering') <= Cardinality(Unissued')
        BY <1>2, <3>1, <3>2, <3>3, <3>4, <3>5
      <3> QED
        BY <3>6 DEF Room
    <2> QED
      BY <2>1, <2>2
  <1> QED
    BY <1>1, <1>2, <1>4, <1>6

LEMMA OthersCalm ==
    ASSUME Typed, NEW w \in Tabs, NEW r, request' = [request EXCEPT ![w] = r], LetIn(w, r)
    PROVE  Calm
  BY DEF Typed, Calm, LetIn

LEMMA AsksKeeps ==
    ASSUME AInv, NEW w \in Tabs, NEW r, Asks(w, r)
    PROVE  AInv' /\ Calm
  <1>1. Calm
    BY OthersCalm DEF Asks, Turns, AInv
  <1>2. AInv'
    BY TurnsKeeps DEF Asks, AInv, Typed
  <1> QED
    BY <1>1, <1>2

-----------------------------------------------------------------------------

LEMMA RefuseAsks ==
    ASSUME NEW w \in Tabs, Refuse(w), UNCHANGED <<userVars, browserVars>>
    PROVE  Asks(w, Idle)
  BY IdleFit, OpsAre DEF Asks, Turns, LetIn, userVars, Refuse

LEMMA SendAsks ==
    ASSUME AInv, NEW w \in Tabs, NEW op \in Ops, NEW arg \in Users \cup Nat \cup {None},
           Send(w, op, arg),
           op \in {"login", "register"} =>
              arg \in Users /\ Cardinality(Entering) < Cardinality(Unissued)
    PROVE  \E r : Asks(w, r) /\ r.op = op /\ r.arg = arg /\ r.step = "sent"
  <1> DEFINE r == [op |-> op, arg |-> arg, token |-> cookie, csrf |-> shown[w].csrf,
                   sees |-> shown[w].user, as |-> None, step |-> "sent"]
  <1>1. shown[w] \in ShownRow /\ cookie \in Tokens \cup {None}
    BY DEF AInv, Typed
  <1>2. r \in RequestRow /\ r.op = op /\ r.arg = arg /\ r.csrf = shown[w].csrf
        /\ r.sees = shown[w].user /\ r.as = None /\ r.step = "sent"
    BY <1>1 DEF RequestRow, ShownRow, Steps
  <1>3. request' = [request EXCEPT ![w] = r] /\ UNCHANGED <<userVars, browserVars>>
    BY DEF Send
  <1> HIDE DEF r
  <1>4. r # Idle
    BY <1>2, IdleFit
  <1>5. Fit(r)
    BY <1>2, <1>4, OpsAre DEF Fit, AInv, Tied
  <1>6. Asks(w, r)
    BY <1>2, <1>3, <1>5 DEF Asks, Turns, LetIn, userVars
  <1> QED
    BY <1>2, <1>6

\* The request goes on.
LEMMA GoAsks ==
    ASSUME AInv, NEW w \in Tabs, NEW step \in Steps \ {"idle", "sent"}, Go(w, step),
           UNCHANGED <<userVars, browserVars>>, request[w].step \notin {"idle", "answer"},
           step = "known" => request[w].op \in {"login", "register"},
           step = "answer" => request[w].op \notin {"login", "register"},
           request[w].op \in CommentOps => request[w].step # "sent"
    PROVE  \E r : /\ Asks(w, r) /\ r.step = step
                  /\ r.op = request[w].op /\ r.arg = request[w].arg /\ r.as = request[w].as
  <1> DEFINE q == request[w]
             r == [q EXCEPT !.step = step]
  <1>1. q \in RequestRow /\ Fit(q)
    BY DEF AInv, Typed, Tied
  <1>2. /\ r \in RequestRow /\ r.step = step /\ r.op = q.op /\ r.arg = q.arg
        /\ r.token = q.token /\ r.csrf = q.csrf /\ r.sees = q.sees /\ r.as = q.as
    BY <1>1 DEF RequestRow
  <1>3. request' = [request EXCEPT ![w] = r]
    BY DEF Go
  <1> HIDE DEF r
  <1>4. r # Idle
    BY <1>2, IdleFit
  <1>5. Fit(r)
    BY <1>1, <1>2, <1>4 DEF Fit
  <1>6. Asks(w, r)
    BY <1>2, <1>3, <1>5 DEF Asks, Turns, LetIn, userVars, Entering
  <1> QED
    BY <1>2, <1>6

LEMMA Verified ==
    ASSUME AInv, NEW t \in Tokens \cup {None}, VerifySession(t) # None
    PROVE  /\ Names(t, VerifySession(t)) /\ VerifySession(t) \in Users
           /\ status[VerifySession(t)] = "ACTIVE"
  BY DEF AInv, Issued, VerifySession, Names

LEMMA ArriveAsks ==
    ASSUME AInv, NEW w \in Tabs, Arrive(w)
    PROVE  \E r : /\ Asks(w, r)
                  /\ \/ r = Idle
                     \/ r.step = "begun" /\ r.op = request[w].op /\ r.arg = request[w].arg
  <1> DEFINE q == request[w]
             user == VerifySession(q.token)
             r == [[q EXCEPT !.as = user] EXCEPT !.step = "begun"]
  <1>1. q \in RequestRow /\ Fit(q) /\ q.step = "sent"
    BY DEF AInv, Typed, Tied, Arrive
  <1>2. q.token \in Tokens \cup {None}
    BY <1>1 DEF RequestRow
  <1>3. user # None => Names(q.token, user) /\ user \in Users /\ status[user] = "ACTIVE"
    BY <1>2, Verified
  <1>4. CASE Admits(w, user)
    <2>1. request' = [request EXCEPT ![w] = r]
      BY <1>1, <1>4 DEF Arrive, AInv, Typed
    <2> HIDE DEF user
    <2>2. /\ r \in RequestRow /\ r.step = "begun" /\ r.op = q.op /\ r.arg = q.arg
          /\ r.token = q.token /\ r.csrf = q.csrf /\ r.sees = q.sees /\ r.as = user
      BY <1>1, <1>3 DEF RequestRow, Steps
    <2>3. q.op \in CommentOps => user # None /\ q.csrf = q.token
      BY <1>4, OpsAre DEF Admits, CsrfMatches
    <2> HIDE DEF r
    <2>4. r # Idle
      BY <2>2, IdleFit
    <2>5. r.op \in CommentOps => r.as = r.sees
      <3> SUFFICES ASSUME q.op \in CommentOps PROVE user = q.sees
        BY <2>2
      <3>1. Names(q.token, user) /\ q.token # None
        BY <1>3, <2>3, AccountAssumption DEF Names, Tokens
      <3>2. Names(q.csrf, q.sees)
        BY <1>1, <2>3, <3>1 DEF Fit
      <3> QED
        BY <2>3, <3>1, <3>2 DEF Names
    <2>6. Fit(r)
      BY <1>1, <1>3, <2>2, <2>3, <2>4, <2>5 DEF Fit
    <2>7. Asks(w, r)
      BY <1>1, <1>3, <2>1, <2>2, <2>6 DEF Asks, Turns, LetIn, userVars, Arrive, Entering
    <2> QED
      BY <2>2, <2>7
  <1>5. CASE ~Admits(w, user)
    BY <1>5, RefuseAsks DEF Arrive
  <1> QED
    BY <1>4, <1>5

LEMMA AccountAsks ==
    ASSUME AInv, NEW w \in Tabs, ReadEmail(w) \/ CheckPassword(w) \/ ReadSession(w)
    PROVE  \E r : Asks(w, r) /\ r.op \notin CommentOps
  <1> DEFINE q == request[w]
  <1>1. CASE Refuse(w)
    BY <1>1, IdleFit, OpsAre, RefuseAsks DEF ReadEmail, CheckPassword, ReadSession
  <1>2. CASE \E step \in {"checked", "known"} : Go(w, step) /\ q.op \in {"register", "login"}
                 /\ q.step = "begun"
    <2>1. UNCHANGED <<userVars, browserVars>>
      BY DEF ReadEmail, CheckPassword, ReadSession
    <2> QED
      BY <1>2, <2>1, GoAsks, OpsAre DEF Steps
  <1>3. CASE Go(w, "answer") /\ q.op = "session" /\ q.step = "begun"
    <2>1. UNCHANGED <<userVars, browserVars>>
      BY DEF ReadEmail, CheckPassword, ReadSession
    <2> QED
      BY <1>3, <2>1, GoAsks, OpsAre DEF Steps
  <1> QED
    BY <1>1, <1>2, <1>3 DEF ReadEmail, CheckPassword, ReadSession, At

-----------------------------------------------------------------------------

LEMMA CreateUserKeeps ==
    ASSUME AInv, NEW w \in Tabs, CreateUser(w)
    PROVE  AInv' /\ Calm
  <1> DEFINE q == request[w]
             r == [q EXCEPT !.step = "known"]
  <1>1. q \in RequestRow /\ Fit(q) /\ q.op = "register" /\ q.step = "checked"
    BY DEF AInv, Typed, Tied, CreateUser, At
  <1>2. CASE status[q.arg] = "none"
    <2>1. /\ r \in RequestRow /\ r.step = "known" /\ r.op = q.op /\ r.arg = q.arg
          /\ r.token = q.token /\ r.csrf = q.csrf /\ r.sees = q.sees /\ r.as = q.as
      BY <1>1 DEF RequestRow, Steps
    <2>2. request' = [request EXCEPT ![w] = r] /\ UNCHANGED <<session, browserVars>>
      BY <1>2 DEF CreateUser, Go
    <2>3. status' \in [Users -> {"none", "ACTIVE", "SUSPENDED"}]
      BY <1>2 DEF CreateUser, AInv, Typed
    <2> HIDE DEF r
    <2>4. Fit(r)
      BY <1>1, <2>1, IdleFit, OpsAre DEF Fit
    <2>5. Turns(w, r)
      BY <1>1, <2>1, <2>2, <2>4 DEF Turns, Entering
    <2>6. LetIn(w, r)
      BY <1>1, <2>1, OpsAre DEF LetIn
    <2> QED
      BY <2>2, <2>3, <2>5, <2>6, TurnsKeeps, OthersCalm DEF AInv
  <1>3. CASE status[q.arg] # "none"
    <2>1. Refuse(w) /\ UNCHANGED <<userVars, browserVars>>
      BY <1>3 DEF CreateUser, userVars
    <2> QED
      BY <2>1, RefuseAsks, AsksKeeps
  <1> QED
    BY <1>2, <1>3

\* The next token is free while a login is under way.
LEMMA TokenLeft ==
    ASSUME AInv, NEW w \in Entering
    PROVE  /\ NextToken \in Unissued
           /\ \A t \in Tokens : session[t].state = "unused" <=> t > NextToken - 1
  <1>1. PICK k \in 0..MaxTokens : \A t \in Tokens : session[t].state = "unused" <=> t > k
    BY DEF AInv, Issued
  <1>2. MaxTokens \in Nat
    BY AccountAssumption
  <1>3. Unissued = (k + 1)..MaxTokens
    BY <1>1, <1>2 DEF Unissued, Tokens
  <1>4. k + 1 \in Int /\ MaxTokens \in Int
    BY <1>2
  <1>5. Cardinality((k + 1)..MaxTokens) = IF k + 1 > MaxTokens THEN 0 ELSE MaxTokens - (k + 1) + 1
    BY <1>4, FS_Interval
  <1>6. Cardinality(Unissued) = MaxTokens - k
    BY <1>2, <1>3, <1>5
  <1>7. Cardinality(Entering) > 0
    <2>1. IsFiniteSet(Entering)
      BY DEF AInv, Room
    <2>2. Cardinality(Entering) \in Nat
      BY <2>1, FS_CardinalityType
    <2>3. Cardinality(Entering) # 0
      BY <2>1, FS_EmptySet
    <2> QED
      BY <2>2, <2>3
  <1>8. Cardinality(Entering) \in Nat /\ Cardinality(Entering) <= Cardinality(Unissued)
    BY FS_CardinalityType DEF AInv, Room
  <1>9. NextToken = k + 1 /\ k < MaxTokens
    BY <1>2, <1>6, <1>7, <1>8 DEF NextToken
  <1> QED
    BY <1>1, <1>2, <1>3, <1>9

LEMMA CreateSessionKeeps ==
    ASSUME AInv, NEW w \in Tabs, CreateSession(w)
    PROVE  AInv' /\ Calm
  <1> DEFINE q == request[w]
             t == NextToken
             p == [q EXCEPT !.arg = t]
             r == [p EXCEPT !.step = "answer"]
  <1>1. /\ q \in RequestRow /\ Fit(q) /\ q.op \in {"login", "register"} /\ q.step = "known"
        /\ q.arg \in Users
    BY DEF AInv, Typed, Tied, CreateSession, Fit
  <1>2. w \in Entering
    BY <1>1 DEF Entering
  <1>3. t \in Unissued /\ \A s \in Tokens : session[s].state = "unused" <=> s > t - 1
    BY <1>2, TokenLeft
  <1>4. t \in Tokens /\ t \in 1..MaxTokens /\ MaxTokens \in Nat /\ session[t].state = "unused"
    BY <1>3, AccountAssumption DEF Unissued, Tokens
  <1>5. /\ session' = [session EXCEPT ![t] = [user |-> q.arg, state |-> "live"]]
        /\ request' = [request EXCEPT ![w] = r]
        /\ UNCHANGED <<status, browserVars>>
    BY <1>1 DEF CreateSession, AInv, Typed
  <1> HIDE DEF t
  <1>6. /\ r \in RequestRow /\ r.step = "answer" /\ r.op = q.op /\ r.arg = t
        /\ r.token = q.token /\ r.csrf = q.csrf /\ r.sees = q.sees /\ r.as = q.as
    <2>1. /\ p \in RequestRow /\ p.step = q.step /\ p.op = q.op /\ p.arg = t
          /\ p.token = q.token /\ p.csrf = q.csrf /\ p.sees = q.sees /\ p.as = q.as
      BY <1>1, <1>4 DEF RequestRow
    <2> HIDE DEF p
    <2> QED
      BY <2>1 DEF RequestRow, Steps
  <1> HIDE DEF r
  <1>7. /\ session'[t].user = q.arg /\ session'[t].state = "live"
        /\ \A s \in Tokens \ {t} : session'[s] = session[s]
    BY <1>4, <1>5 DEF AInv, Typed
  <1>8. SessionsStay
    BY <1>4, <1>7 DEF SessionsStay, Names
  <1>9. Typed'
    BY <1>1, <1>4, <1>5, <1>6 DEF AInv, Typed, browserVars
  <1>10. Issued'
    <2>1. \A s \in Tokens : session'[s].state = "unused" <=> s > t
      BY <1>3, <1>4, <1>7 DEF Tokens
    <2>2. \A s \in Tokens : session'[s].state # "unused" => session'[s].user \in Users
      BY <1>1, <1>7 DEF AInv, Issued
    <2>3. t \in 0..MaxTokens
      BY <1>4
    <2> QED
      BY <2>1, <2>2, <2>3 DEF Issued
  <1>11. Fit(r)
    BY <1>1, <1>4, <1>6, IdleFit, OpsAre DEF Fit
  <1>12. PICK asked : asked = r
    OBVIOUS
  <1>13. Tied'
    <2>1. Fit(asked)'
      BY <1>8, <1>11, <1>12, FitStays
    <2> QED
      BY <1>5, <1>8, <1>12, <2>1, TiedStays DEF AInv, browserVars
  <1>14. Room'
    <2>1. Unissued' = Unissued \ {t}
      BY <1>4, <1>7 DEF Unissued
    <2>2. Entering' = Entering \ {w}
      BY <1>5, <1>6 DEF Entering, AInv, Typed
    <2>3. IsFiniteSet(Entering) /\ IsFiniteSet(Unissued)
          /\ Cardinality(Entering) <= Cardinality(Unissued)
      BY TokensFinite DEF AInv, Room
    <2>4. IsFiniteSet(Entering \ {w}) /\ Cardinality(Entering \ {w}) = Cardinality(Entering) - 1
      BY <1>2, <2>3, FS_RemoveElement
    <2>5. Cardinality(Unissued \ {t}) = Cardinality(Unissued) - 1
      BY <1>3, <2>3, FS_RemoveElement
    <2>6. Cardinality(Entering) \in Nat /\ Cardinality(Unissued) \in Nat
      BY <2>3, FS_CardinalityType
    <2>7. IsFiniteSet(Entering') /\ Cardinality(Entering') <= Cardinality(Unissued')
      BY <2>1, <2>2, <2>3, <2>4, <2>5, <2>6
    <2> QED
      BY <2>7 DEF Room
  <1>15. LetIn(w, r)
    BY <1>1, <1>6, OpsAre DEF LetIn
  <1>16. Calm
    BY <1>5, <1>15, OthersCalm DEF AInv
  <1> QED
    BY <1>9, <1>10, <1>13, <1>14, <1>16 DEF AInv

\* A session ends; its row keeps its user.
LEMMA EndedStays ==
    ASSUME AInv, NEW t \in Tokens, session[t].state # "unused",
           session' = [session EXCEPT ![t].state = "dead"]
    PROVE  /\ SessionsStay /\ Unissued' = Unissued /\ Issued'
           /\ session' \in [Tokens -> [user : Users \cup {None}, state : {"unused", "live", "dead"}]]
  <1>1. session \in [Tokens -> [user : Users \cup {None}, state : {"unused", "live", "dead"}]]
    BY DEF AInv, Typed
  <1>2. session' \in [Tokens -> [user : Users \cup {None}, state : {"unused", "live", "dead"}]]
    BY <1>1
  <1>3. \A s \in Tokens : /\ session'[s].user = session[s].user
                          /\ session'[s].state = "unused" <=> session[s].state = "unused"
    BY <1>1
  <1>4. Unissued' = Unissued
    BY <1>3 DEF Unissued
  <1>5. SessionsStay
    BY <1>3 DEF SessionsStay, Names
  <1>6. Issued'
    BY <1>3 DEF AInv, Issued
  <1> QED
    BY <1>2, <1>4, <1>5, <1>6

LEMMA RevokeKeeps ==
    ASSUME AInv, NEW w \in Tabs, RevokeSession(w)
    PROVE  AInv' /\ Calm
  <1> DEFINE q == request[w]
             r == [q EXCEPT !.step = "answer"]
  <1>1. q \in RequestRow /\ Fit(q) /\ q.op = "logout" /\ q.step = "begun"
    BY DEF AInv, Typed, Tied, RevokeSession, At
  <1>2. /\ r \in RequestRow /\ r.step = "answer" /\ r.op = q.op /\ r.arg = q.arg
        /\ r.token = q.token /\ r.csrf = q.csrf /\ r.sees = q.sees /\ r.as = q.as
    BY <1>1 DEF RequestRow, Steps
  <1>3. request' = [request EXCEPT ![w] = r] /\ UNCHANGED <<status, browserVars>>
    BY DEF RevokeSession, Go
  <1> HIDE DEF r
  <1>4. Fit(r) /\ LetIn(w, r)
    BY <1>1, <1>2, IdleFit, OpsAre DEF Fit, LetIn
  <1>5. /\ SessionsStay /\ Unissued' = Unissued /\ Issued'
        /\ session' \in [Tokens -> [user : Users \cup {None}, state : {"unused", "live", "dead"}]]
    <2>1. CASE q.as = None
      BY <2>1 DEF RevokeSession, SessionsStay, Names, Unissued, Issued, AInv, Typed
    <2>2. CASE q.as # None
      <3>1. q.token \in Tokens /\ session[q.token].state # "unused"
        BY <1>1, <2>2 DEF Fit, Names
      <3>2. session' = [session EXCEPT ![q.token].state = "dead"]
        BY <2>2 DEF RevokeSession
      <3> QED
        BY <3>1, <3>2, EndedStays
    <2> QED
      BY <2>1, <2>2
  <1>6. Typed'
    BY <1>2, <1>3, <1>5 DEF AInv, Typed, browserVars
  <1>7. Tied'
    BY <1>3, <1>4, <1>5, FitStays, TiedStays DEF AInv, browserVars
  <1>8. Room'
    <2>1. Entering' \subseteq Entering
      BY <1>1, <1>2, <1>3 DEF Entering, AInv, Typed
    <2> QED
      BY <1>5, <2>1, RoomStays DEF AInv
  <1> QED
    BY <1>3, <1>4, <1>5, <1>6, <1>7, <1>8, OthersCalm DEF AInv

LEMMA ExpireKeeps ==
    ASSUME AInv, NEW t \in Tokens, Expire(t)
    PROVE  AInv' /\ Calm
  <1>1. /\ SessionsStay /\ Unissued' = Unissued /\ Issued'
        /\ session' \in [Tokens -> [user : Users \cup {None}, state : {"unused", "live", "dead"}]]
    BY EndedStays DEF Expire
  <1>2. UNCHANGED <<status, cookie, shown, request>>
    BY DEF Expire, browserVars
  <1>3. Typed' /\ Calm
    BY <1>1, <1>2 DEF AInv, Typed, Calm, LetIn
  <1>4. Room'
    BY <1>1, <1>2, RoomStays DEF AInv, Entering
  <1>5. \A w \in Tabs : Fit(request[w])'
    <2> SUFFICES ASSUME NEW w \in Tabs PROVE Fit(request[w])'
      OBVIOUS
    <2>1. PICK q : q = request[w]
      OBVIOUS
    <2>2. Fit(q)'
      BY <1>1, <2>1, FitStays DEF AInv, Tied
    <2> QED
      BY <1>2, <2>1, <2>2 DEF Fit, Names
  <1>6. Tied'
    BY <1>1, <1>2, <1>5 DEF AInv, Tied, SessionsStay, Names
  <1> QED
    BY <1>1, <1>3, <1>4, <1>6 DEF AInv

\* A page is shown anew.
LEMMA ShownKeeps ==
    ASSUME AInv, NEW w \in Tabs, NEW r, NEW row \in ShownRow,
           UNCHANGED userVars, cookie' \in Tokens \cup {None},
           shown' = [shown EXCEPT ![w] = row] \/ shown' = shown,
           row.csrf # None => Names(row.csrf, row.user),
           request' = [request EXCEPT ![w] = r], Fit(r),
           r.op \notin {"login", "register"}, r.op \notin CommentOps
    PROVE  AInv' /\ Calm
  <1>1. SessionsStay /\ Unissued' = Unissued /\ Issued'
    BY DEF userVars, SessionsStay, Names, Unissued, AInv, Issued
  <1>2. Typed'
    BY DEF AInv, Typed, userVars, Fit
  <1>3. Calm
    BY OthersCalm DEF AInv, LetIn
  <1>4. Room'
    <2>1. Entering' \subseteq Entering
      BY DEF Entering, AInv, Typed
    <2> QED
      BY <1>1, <2>1, RoomStays DEF AInv
  <1>5. \A v \in Tabs : Fit(request[v])'
    <2>1. Fit(r)'
      BY <1>1, FitStays
    <2> QED
      BY <1>1, <2>1, RequestsStay DEF AInv
  <1>6. \A v \in Tabs : shown'[v].csrf # None => Names(shown'[v].csrf, shown'[v].user)
    BY DEF AInv, Typed, Tied
  <1>7. Tied'
    BY <1>1, <1>5, <1>6 DEF Tied, SessionsStay, Names
  <1> QED
    BY <1>1, <1>2, <1>3, <1>4, <1>7 DEF AInv

LEMMA DeliverKeeps ==
    ASSUME AInv, NEW w \in Tabs, Deliver(w)
    PROVE  AInv' /\ Calm
  <1> DEFINE q == request[w]
             row == IF q.op = "session"
                    THEN [user |-> q.as, csrf |-> IF q.as = None THEN None ELSE q.token]
                    ELSE Nobody
  <1>1. q \in RequestRow /\ Fit(q) /\ q.op \in AccountOps /\ q.step = "answer"
    BY DEF AInv, Typed, Tied, Deliver
  <1>2. row \in ShownRow /\ (row.csrf # None => Names(row.csrf, row.user))
    BY <1>1 DEF RequestRow, ShownRow, Nobody, Fit
  <1>3. shown' = [shown EXCEPT ![w] = row] \/ shown' = shown
    BY <1>1, OpsAre DEF Deliver
  <1>4. cookie' \in Tokens \cup {None}
    BY <1>1, OpsAre DEF Deliver, Fit, AInv, Typed
  <1>5. UNCHANGED userVars /\ request' = [request EXCEPT ![w] = Idle]
    BY DEF Deliver, Refuse
  <1> HIDE DEF row
  <1> QED
    BY <1>2, <1>3, <1>4, <1>5, IdleFit, OpsAre, ShownKeeps

LEMMA MountKeeps ==
    ASSUME AInv, NEW w \in Tabs, Mount(w)
    PROVE  AInv' /\ Calm
  <1> DEFINE r == [Idle EXCEPT !.op = "session", !.token = cookie, !.step = "sent"]
  <1>1. cookie \in Tokens \cup {None}
    BY DEF AInv, Typed
  <1>2. r \in RequestRow /\ r.op = "session" /\ r.step = "sent" /\ r.csrf = None /\ r.as = None
    BY <1>1, OpsAre DEF Idle, RequestRow, Steps
  <1>3. request' = [request EXCEPT ![w] = r] /\ UNCHANGED <<userVars, cookie>>
    BY DEF Mount
  <1> HIDE DEF r
  <1>4. Fit(r)
    BY <1>2, IdleFit, OpsAre DEF Fit
  <1>5. Nobody \in ShownRow /\ Nobody.csrf = None
    BY DEF Nobody, ShownRow
  <1>6. shown' = [shown EXCEPT ![w] = Nobody]
    BY DEF Mount
  <1> QED
    BY <1>1, <1>2, <1>3, <1>4, <1>5, <1>6, OpsAre, ShownKeeps

LEMMA StatusKeeps ==
    ASSUME AInv, NEW u \in Users, SetStatus(u)
    PROVE  AInv' /\ Calm
  <1>1. status' \in [Users -> {"none", "ACTIVE", "SUSPENDED"}]
    BY DEF SetStatus, Suspend, Reactivate, Join, AInv, Typed
  <1>2. UNCHANGED <<session, cookie, shown, request>>
    BY DEF SetStatus, browserVars
  <1>3. Typed' /\ Calm
    BY <1>1, <1>2 DEF AInv, Typed, Calm, LetIn
  <1>4. Issued' /\ Room' /\ Tied'
    BY <1>2 DEF AInv, Issued, Room, Entering, Unissued, Tied, Fit, Names
  <1> QED
    BY <1>3, <1>4 DEF AInv

LEMMA AccountKeeps == AInv /\ AccountNext => AInv' /\ Calm
  <1> SUFFICES ASSUME AInv, AccountNext PROVE AInv' /\ Calm
    OBVIOUS
  <1>0. Entrances \subseteq Tabs /\ {"login", "register", "logout"} \subseteq Ops
    BY AccountAssumption, OpsAre
  <1>1. CASE \E w \in Tabs : AccountStep(w)
    <2>1. PICK w \in Tabs : AccountStep(w)
      BY <1>1
    <2>2. CASE Arrive(w)
      BY <2>2, ArriveAsks, AsksKeeps
    <2>3. CASE ReadEmail(w) \/ CheckPassword(w) \/ ReadSession(w)
      BY <2>3, AccountAsks, AsksKeeps
    <2>4. CASE CreateUser(w)
      BY <2>4, CreateUserKeeps
    <2>5. CASE CreateSession(w)
      BY <2>5, CreateSessionKeeps
    <2>6. CASE RevokeSession(w)
      BY <2>6, RevokeKeeps
    <2>7. CASE Deliver(w)
      BY <2>7, DeliverKeeps
    <2> QED
      BY <2>1, <2>2, <2>3, <2>4, <2>5, <2>6, <2>7 DEF AccountStep
  <1>3. CASE \E w \in Entrances : LogOut(w)
    BY <1>0, <1>3, SendAsks, AsksKeeps DEF LogOut
  <1>4. CASE \E w \in Entrances, u \in Users : LogIn(w, u) \/ SignUp(w, u)
    <2>1. PICK w \in Tabs, u \in Users : LogIn(w, u) \/ SignUp(w, u)
      BY <1>0, <1>4
    <2>2. PICK op \in {"login", "register"} :
             Send(w, op, u) /\ Cardinality(Entering) < Cardinality(Unissued)
      BY <2>1 DEF LogIn, SignUp
    <2> QED
      BY <1>0, <2>2, SendAsks, AsksKeeps
  <1>5. CASE \E u \in Users : SetStatus(u)
    BY <1>5, StatusKeeps
  <1>6. CASE \E t \in Tokens : Expire(t)
    BY <1>6, ExpireKeeps
  <1> QED
    BY <1>1, <1>3, <1>4, <1>5, <1>6 DEF AccountNext

-----------------------------------------------------------------------------

CommentRow == [author : Users, parent : {None} \cup Nat, deleted : BOOLEAN,
               text : Texts \cup {None}]

\* Rows of comments; a reply answers an earlier comment of the first level.
Threads ==
    /\ comment \in Seq(CommentRow)
    /\ \A c \in Written : comment[c].parent # None =>
          /\ comment[c].parent < c
          /\ comment[c].parent # 0 => comment[comment[c].parent].parent = None

Forms ==
    /\ typed \in [Writers -> 0..MaxDrafts] /\ lost \in [Texts -> 0..MaxLost]
    /\ box \in [Writers -> 0..MaxDrafts] /\ sent \in [Writers -> 0..MaxDrafts]
    /\ \A w \in Writers : box[w] <= typed[w] /\ sent[w] <= typed[w]

\* A post brings a draft that waits in its form or was typed over since, and answers a
\* comment that is not a reply once that has been checked; a comment to delete exists.
Asked(w, r) ==
    /\ r.op = "post" =>
          /\ w \in Writers /\ sent[w] \in Drafts /\ sent[w] <= box[w]
          /\ r.arg \in {None} \cup Written
          /\ r.step \in {"parent", "part"} => r.arg = None \/ Depth(r.arg) = 0
    /\ r.op = "delete" => r.arg \in Written

\* Request r is a post that was stored.
Stored(r) == r.op = "post" /\ r.step = "answer"

\* How often draft n is stored: no more often than answers got lost while it may be
\* posted again, once more otherwise.
CountOf(w, r, n) ==
    LET k == Cardinality(Copies(w, n))
    IN /\ k <= 1 + lost[<<w, n>>]
       /\ n > typed[w] => k = 0
       /\ box[w] = n /\ ~(Stored(r) /\ sent[w] = n) => k <= lost[<<w, n>>]
       /\ r.op = "post" /\ ~Stored(r) /\ sent[w] = n => k <= lost[<<w, n>>]

Count(w, r) ==
    /\ \A n \in Drafts : CountOf(w, r, n)
    /\ Stored(r) => Copies(w, sent[w]) # {}

CInv ==
    /\ Threads /\ Forms
    /\ \A w \in Tabs : Asked(w, request[w])
    /\ \A w \in Writers : Count(w, request[w])

LEMMA InitCInv == Init => CInv
  <1> SUFFICES ASSUME Init PROVE CInv
    OBVIOUS
  <1> USE DEF Init
  <1>1. Threads
    <2>1. /\ Earlier \in Seq([author : Registered, parent : {None} \cup Nat,
                              deleted : BOOLEAN, text : {None}])
          /\ Registered \subseteq Users
      BY CommentAssumption, AccountAssumption
    <2>2. [author : Registered, parent : {None} \cup Nat, deleted : BOOLEAN, text : {None}]
             \subseteq CommentRow
      BY <2>1 DEF CommentRow
    <2>3. Earlier \in Seq(CommentRow)
      BY <2>1, <2>2, SeqMonotonic
    <2> QED
      BY <2>3, CommentAssumption DEF Threads, Written
  <1>2. Forms
    BY CommentAssumption DEF Forms
  <1>3. \A w \in Tabs : Asked(w, request[w])
    BY IdleFit DEF AccountInit, Asked
  <1>4. \A w \in Writers : Count(w, request[w])
    <2> SUFFICES ASSUME NEW w \in Writers PROVE Count(w, request[w])
      OBVIOUS
    <2>0. w \in Tabs /\ request[w] = Idle
      BY CommentAssumption DEF AccountInit
    <2>1. \A c \in DOMAIN Earlier : Earlier[c].text = None
      <3>1. Earlier \in Seq([author : Registered, parent : {None} \cup Nat,
                             deleted : BOOLEAN, text : {None}])
        BY CommentAssumption
      <3>2. \A c \in DOMAIN Earlier : Earlier[c] \in
               [author : Registered, parent : {None} \cup Nat, deleted : BOOLEAN, text : {None}]
        BY <3>1, LenProperties, ZenonT(60)
      <3> QED
        BY <3>2
    <2>2. \A n \in Drafts : Copies(w, n) = {}
      <3> SUFFICES ASSUME NEW n \in Drafts PROVE Copies(w, n) = {}
        OBVIOUS
      <3>1. <<w, n>> \in Texts
        BY DEF Texts
      <3> QED
        BY <2>1, <3>1, CommentAssumption DEF Copies, Written
    <2>3. \A n \in Drafts : Cardinality(Copies(w, n)) = 0
      BY <2>2, FS_EmptySet
    <2>4. \A n \in Drafts : <<w, n>> \in Texts
      BY DEF Texts
    <2>5. \A n \in Drafts : lost[<<w, n>>] = 0
      BY <2>4
    <2> QED
      BY <2>0, <2>3, <2>5, IdleFit DEF Count, CountOf, Stored
  <1> QED
    BY <1>1, <1>2, <1>3, <1>4 DEF CInv

LEMMA CopiesFinite ==
    ASSUME Threads, NEW w, NEW n
    PROVE  IsFiniteSet(Copies(w, n)) /\ Cardinality(Copies(w, n)) \in Nat
  <1>1. Written = 1..Len(comment) /\ Len(comment) \in Int /\ 1 \in Int
    BY DEF Threads, Written
  <1>2. IsFiniteSet(Written)
    BY <1>1, FS_Interval
  <1>3. IsFiniteSet(Copies(w, n))
    BY <1>2, FS_Subset DEF Copies
  <1> QED
    BY <1>3, FS_CardinalityType

\* Comments stay where they are, and answer what they answered.
Kept == Written \subseteq Written' /\ \A c \in Written : comment'[c].parent = comment[c].parent

\* Neither w's form nor its texts change.
SameForm(w) ==
    /\ box'[w] = box[w] /\ typed'[w] = typed[w] /\ sent'[w] = sent[w]
    /\ \A n : Copies(w, n)' = Copies(w, n)
    /\ \A n \in Drafts : lost'[<<w, n>>] = lost[<<w, n>>]

LEMMA AskedStays ==
    ASSUME Kept, NEW w, NEW r, Asked(w, r),
           w \in Writers => box'[w] = box[w] /\ sent'[w] = sent[w]
    PROVE  Asked(w, r)'
  BY DEF Kept, Asked, Depth

LEMMA CountStays ==
    ASSUME CInv, NEW w \in Writers, NEW r, Count(w, r), SameForm(w)
    PROVE  Count(w, r)'
  <1>1. sent'[w] = sent[w] /\ sent[w] \in 0..MaxDrafts
    BY DEF SameForm, CInv, Forms
  <1>2. \A n \in Drafts : CountOf(w, r, n)'
    BY DEF Count, CountOf, SameForm, Stored
  <1>3. Stored(r) => Copies(w, sent[w])' # {}
    BY <1>1 DEF Count, SameForm, Copies
  <1> QED
    BY <1>2, <1>3 DEF Count, Stored

\* The others' requests and texts.
LEMMA ThreadsStep ==
    ASSUME Typed, CInv, NEW w \in Tabs, NEW r, request' = [request EXCEPT ![w] = r],
           Kept, Threads', Forms', \A v \in Writers \ {w} : SameForm(v),
           Asked(w, r)', w \in Writers => Count(w, r)'
    PROVE  CInv'
  <1>1. \A v \in Tabs : request'[v] = IF v = w THEN r ELSE request[v]
    BY DEF Typed
  <1>2. \A v \in Tabs : Asked(v, request[v])'
    <2> SUFFICES ASSUME NEW v \in Tabs PROVE Asked(v, request[v])'
      OBVIOUS
    <2>1. CASE v = w
      BY <1>1, <2>1 DEF Asked, Depth
    <2>2. CASE v # w
      <3>1. PICK q : q = request[v]
        OBVIOUS
      <3>2. v \in Writers => box'[v] = box[v] /\ sent'[v] = sent[v]
        BY <2>2 DEF SameForm
      <3>3. Asked(v, q)'
        BY <3>1, <3>2, AskedStays DEF CInv
      <3> QED
        BY <1>1, <2>2, <3>1, <3>3 DEF Asked, Depth
    <2> QED
      BY <2>1, <2>2
  <1>3. \A v \in Writers : Count(v, request[v])'
    <2> SUFFICES ASSUME NEW v \in Writers PROVE Count(v, request[v])'
      OBVIOUS
    <2>1. v \in Tabs
      BY CommentAssumption
    <2>2. CASE v = w
      BY <1>1, <2>1, <2>2 DEF Count, CountOf, Stored
    <2>3. CASE v # w
      <3>1. PICK q : q = request[v]
        OBVIOUS
      <3>2. Count(v, q)'
        BY <2>3, <3>1, CountStays DEF CInv
      <3> QED
        BY <1>1, <2>1, <2>3, <3>1, <3>2 DEF Count, CountOf, Stored
    <2> QED
      BY <2>2, <2>3
  <1> QED
    BY <1>2, <1>3 DEF CInv

\* A step of w's request that leaves comments and forms alone.
LEMMA StillKeeps ==
    ASSUME Typed, CInv, NEW w \in Tabs, NEW r, request' = [request EXCEPT ![w] = r],
           UNCHANGED threadVars, Asked(w, r),
           Stored(r) <=> Stored(request[w]), r.op = "post" => request[w].op = "post"
    PROVE  CInv'
  <1> USE DEF threadVars
  <1>1. Kept /\ Threads' /\ Forms' /\ \A v : SameForm(v)
    BY DEF Kept, CInv, Threads, Forms, Written, Copies, SameForm
  <1>2. Asked(w, r)'
    BY <1>1, AskedStays
  <1>3. ASSUME w \in Writers PROVE Count(w, r)'
    <2>1. Count(w, r)
      BY <1>3 DEF CInv, Count, CountOf, Stored
    <2> QED
      BY <1>1, <1>3, <2>1, CountStays
  <1> QED
    BY <1>1, <1>2, <1>3, ThreadsStep

\* A comment is deleted; it keeps its place, its text and its parent.
LEMMA DeletedKept ==
    ASSUME Threads, NEW c \in Written, comment' = [comment EXCEPT ![c].deleted = TRUE]
    PROVE  Kept /\ Threads' /\ \A w, n : Copies(w, n)' = Copies(w, n)
  <1> DEFINE row == [comment[c] EXCEPT !.deleted = TRUE]
  <1>1. comment \in Seq(CommentRow) /\ Written = DOMAIN comment
    BY DEF Threads, Written
  <1>2. DOMAIN comment' = DOMAIN comment /\ comment' \in Seq(CommentRow)
    <2>1. c \in 1..Len(comment) /\ comment[c] \in CommentRow
      BY <1>1, LenProperties
    <2>2. row \in CommentRow
      BY <2>1 DEF CommentRow
    <2>3. comment' = [comment EXCEPT ![c] = row]
      OBVIOUS
    <2> HIDE DEF row
    <2>4. [comment EXCEPT ![c] = row] \in Seq(CommentRow)
      BY <1>1, <2>1, <2>2, ExceptSeq
    <2> QED
      BY <2>3, <2>4
  <1>3. \A d \in Written : comment[d] \in CommentRow
    BY <1>1
  <1>4. \A d \in Written : comment'[d].parent = comment[d].parent /\ comment'[d].text = comment[d].text
    BY <1>1, <1>3 DEF CommentRow
  <1>5. Kept /\ \A w, n : Copies(w, n)' = Copies(w, n)
    BY <1>2, <1>4 DEF Kept, Copies, Written
  <1>6. Threads'
    <2> SUFFICES ASSUME NEW d \in Written, comment[d].parent # None
                 PROVE  /\ comment[d].parent < d
                        /\ comment[d].parent # 0 => comment'[comment[d].parent].parent = None
      BY <1>2, <1>4 DEF Threads, Written
    <2>1. /\ comment[d].parent < d /\ comment[d].parent \in Nat
          /\ comment[d].parent # 0 => comment[comment[d].parent].parent = None
      BY <1>3 DEF Threads, CommentRow
    <2>2. comment[d].parent # 0 => comment[d].parent \in Written
      BY <1>1, <2>1
    <2> QED
      BY <1>4, <2>1, <2>2
  <1> QED
    BY <1>5, <1>6

-----------------------------------------------------------------------------

\* What a step of the tabs that leaves comments alone does to w's request.
LEMMA IdleKeeps ==
    ASSUME AInv, CInv, NEW w \in Tabs, Refuse(w), ~Stored(request[w]),
           UNCHANGED <<userVars, browserVars, threadVars>>
    PROVE  AInv' /\ Calm /\ CInv'
  <1>1. AInv' /\ Calm
    BY RefuseAsks, AsksKeeps
  <1>2. CInv'
    BY IdleFit, StillKeeps DEF Refuse, Asked, Stored, AInv
  <1> QED
    BY <1>1, <1>2

LEMMA CheckKeeps ==
    ASSUME AInv, CInv, NEW w \in Tabs, NEW op \in CommentOps,
           NEW step \in {"begun", "content", "parent"},
           NEW next \in {"content", "parent", "part", "found"},
           NEW condition \in BOOLEAN, Check(w, op, step, condition, next),
           condition /\ op = "post" /\ next \in {"parent", "part"} =>
              request[w].arg = None \/ Depth(request[w].arg) = 0
    PROVE  AInv' /\ Calm /\ CInv'
  <1> DEFINE q == request[w]
  <1>1. q.op = op /\ q.step = step /\ UNCHANGED <<userVars, browserVars, threadVars>>
    BY DEF Check, At
  <1>2. CASE condition
    <2>1. Go(w, next)
      BY <1>2 DEF Check
    <2>2. PICK r : /\ Asks(w, r) /\ r.step = next
                   /\ r.op = q.op /\ r.arg = q.arg /\ r.as = q.as
      BY <1>1, <2>1, GoAsks, OpsAre DEF Steps
    <2>3. AInv' /\ Calm
      BY <2>2, AsksKeeps
    <2>4. Asked(w, r)
      BY <1>1, <1>2, <2>2 DEF CInv, Asked
    <2>5. Stored(r) <=> Stored(q)
      BY <1>1, <2>2 DEF Stored
    <2>6. CInv'
      BY <1>1, <2>2, <2>4, <2>5, StillKeeps DEF AInv, Asks, Turns
    <2> QED
      BY <2>3, <2>6
  <1>3. CASE ~condition
    BY <1>1, <1>3, IdleKeeps DEF Check, Stored
  <1> QED
    BY <1>2, <1>3

LEMMA InsertKeeps ==
    ASSUME AInv, CInv, NEW w \in Tabs, Insert(w)
    PROVE  AInv' /\ Calm /\ CInv'
  <1> DEFINE q == request[w]
             n == Len(comment) + 1
             row == [author |-> q.as, parent |-> q.arg, deleted |-> FALSE, text |-> <<w, sent[w]>>]
  <1>1. /\ q.op = "post" /\ q.step = "part" /\ Go(w, "answer")
        /\ UNCHANGED <<userVars, browserVars, box, typed, sent, lost>>
        /\ comment' = Append(comment, row)
    BY DEF Insert, At
  <1>2. PICK r : /\ Asks(w, r) /\ r.step = "answer"
                 /\ r.op = q.op /\ r.arg = q.arg /\ r.as = q.as
    BY <1>1, GoAsks, OpsAre DEF Steps
  <1>3. AInv' /\ Calm
    BY <1>2, AsksKeeps
  <1>4. /\ w \in Writers /\ sent[w] \in Drafts /\ q.arg \in {None} \cup Written
        /\ <<w, sent[w]>> \in Texts
        /\ q.arg = None \/ Depth(q.arg) = 0
    BY <1>1 DEF CInv, Asked, Texts
  <1>5. q.as \in Users
    BY <1>1, OpsAre DEF AInv, Tied, Fit, RequestRow
  <1>6. comment \in Seq(CommentRow) /\ Written = 1..Len(comment) /\ Len(comment) \in Nat
    BY LenProperties DEF CInv, Threads, Written
  <1>7. row \in CommentRow /\ row.parent = q.arg /\ row.text = <<w, sent[w]>>
    BY <1>4, <1>5, <1>6 DEF CommentRow
  <1> HIDE DEF row
  <1>8. /\ comment' \in Seq(CommentRow) /\ Len(comment') = n /\ comment'[n] = row
        /\ \A c \in Written : comment'[c] = comment[c]
    BY <1>1, <1>6, <1>7
  <1>9. Written' = Written \cup {n} /\ n \notin Written
    BY <1>6, <1>8 DEF Written
  <1>10. Kept
    BY <1>8, <1>9 DEF Kept
  <1>11. Threads'
    <2> SUFFICES ASSUME NEW c \in Written', comment'[c].parent # None
                 PROVE  /\ comment'[c].parent < c
                        /\ comment'[c].parent # 0 => comment'[comment'[c].parent].parent = None
      BY <1>8 DEF Threads
    <2>1. CASE c \in Written
      <3>1. comment[c] \in CommentRow
        BY <1>6, <2>1, LenProperties
      <3>2. /\ comment[c].parent < c /\ comment[c].parent \in Nat
            /\ comment[c].parent # 0 => comment[comment[c].parent].parent = None
        BY <1>8, <2>1, <3>1 DEF CInv, Threads, CommentRow
      <3>3. comment[c].parent # 0 => comment[c].parent \in Written
        BY <1>6, <2>1, <3>2
      <3> QED
        BY <1>8, <2>1, <3>2, <3>3
    <2>2. CASE c = n
      <3>1. q.arg \in Written /\ Depth(q.arg) = 0
        BY <1>4, <1>7, <1>8, <2>2
      <3>2. q.arg < n /\ comment[q.arg].parent = None
        BY <1>6, <3>1 DEF Depth
      <3> QED
        BY <1>7, <1>8, <2>2, <3>1, <3>2
    <2> QED
      BY <1>9, <2>1, <2>2
  <1>12. Forms'
    BY <1>1 DEF CInv, Forms
  <1>0. PICK d : d = sent[w]
    OBVIOUS
  <1>13. /\ Copies(w, d)' = Copies(w, d) \cup {n} /\ n \notin Copies(w, d)
         /\ \A v, m : <<v, m>> # <<w, d>> => Copies(v, m)' = Copies(v, m)
    BY <1>0, <1>7, <1>8, <1>9 DEF Copies
  <1>14. \A v \in Writers \ {w} : SameForm(v)
    <2>1. \A v \in Writers \ {w} : \A m : Copies(v, m)' = Copies(v, m)
      BY <1>13
    <2> QED
      BY <1>1, <2>1 DEF SameForm
  <1>15. Asked(w, r)'
    <2>1. Asked(w, r)
      BY <1>1, <1>2, <1>4 DEF CInv, Asked
    <2> QED
      BY <1>1, <1>10, <2>1, AskedStays
  <1>16. Count(w, r)'
    <2>1. IsFiniteSet(Copies(w, d)) /\ Cardinality(Copies(w, d)) \in Nat
      BY CopiesFinite DEF CInv
    <2>2. Cardinality(Copies(w, d) \cup {n}) = Cardinality(Copies(w, d)) + 1
      BY <1>13, <2>1, FS_AddElement
    <2>3. /\ Cardinality(Copies(w, d)) <= lost[<<w, d>>] /\ lost[<<w, d>>] \in Nat
          /\ d <= typed[w] /\ d \in Nat /\ typed[w] \in Nat
      BY <1>0, <1>1, <1>4, CommentAssumption DEF CInv, Count, CountOf, Stored, Forms, Drafts
    <2>4. CountOf(w, r, d)'
      <3>1. Cardinality(Copies(w, d)') <= 1 + lost'[<<w, d>>]
        BY <1>1, <1>13, <2>1, <2>2, <2>3
      <3>2. ~(d > typed'[w]) /\ Stored(r) /\ sent'[w] = d
        BY <1>0, <1>1, <1>2, <2>3 DEF Stored
      <3> QED
        BY <3>1, <3>2 DEF CountOf, Stored
    <2>5. ASSUME NEW m \in Drafts \ {d} PROVE CountOf(w, r, m)'
      <3>1. CountOf(w, q, m)
        BY <1>4 DEF CInv, Count
      <3>2. Copies(w, m)' = Copies(w, m)
        BY <1>13
      <3> QED
        BY <1>0, <1>1, <3>1, <3>2 DEF CountOf, Stored
    <2>6. Copies(w, sent[w])' # {}
      <3>1. n \in Copies(w, d)'
        BY <1>13
      <3> QED
        BY <1>0, <1>1, <3>1 DEF Copies
    <2> QED
      BY <2>4, <2>5, <2>6 DEF Count, Stored
  <1>17. request' = [request EXCEPT ![w] = r]
    BY <1>2 DEF Asks, Turns
  <1>18. CInv'
    BY <1>1, <1>10, <1>11, <1>12, <1>14, <1>15, <1>16, <1>17, ThreadsStep DEF AInv
  <1> QED
    BY <1>3, <1>18

LEMMA MarkDeletedKeeps ==
    ASSUME AInv, CInv, NEW w \in Tabs, MarkDeleted(w)
    PROVE  AInv' /\ Calm /\ CInv'
  <1> DEFINE q == request[w]
  <1>1. /\ q.op = "delete" /\ q.step = "found" /\ Go(w, "answer")
        /\ UNCHANGED <<userVars, browserVars, box, typed, sent, lost>>
        /\ comment' = [comment EXCEPT ![q.arg].deleted = TRUE]
    BY DEF MarkDeleted, At
  <1>2. PICK r : /\ Asks(w, r) /\ r.step = "answer"
                 /\ r.op = q.op /\ r.arg = q.arg /\ r.as = q.as
    BY <1>1, GoAsks, OpsAre DEF Steps
  <1>3. AInv' /\ Calm
    BY <1>2, AsksKeeps
  <1>4. q.arg \in Written
    BY <1>1 DEF CInv, Asked
  <1>5. Kept /\ Threads' /\ \A v : SameForm(v)
    BY <1>1, <1>4, DeletedKept DEF CInv, SameForm
  <1>6. Forms'
    BY <1>1 DEF CInv, Forms
  <1>7. Asked(w, r)'
    <2>1. Asked(w, r)
      BY <1>1, <1>2, <1>4 DEF Asked
    <2> QED
      BY <1>1, <1>5, <2>1, AskedStays
  <1>8. ASSUME w \in Writers PROVE Count(w, r)'
    <2>1. Count(w, r)
      BY <1>1, <1>2, <1>8 DEF CInv, Count, CountOf, Stored
    <2> QED
      BY <1>5, <1>8, <2>1, CountStays
  <1>9. request' = [request EXCEPT ![w] = r]
    BY <1>2 DEF Asks, Turns
  <1>10. CInv'
    BY <1>1, <1>5, <1>6, <1>7, <1>8, <1>9, ThreadsStep DEF AInv
  <1> QED
    BY <1>3, <1>10

LEMMA AnsweredKeeps ==
    ASSUME AInv, CInv, NEW w \in Tabs, Answered(w)
    PROVE  AInv' /\ Calm /\ CInv'
  <1> DEFINE q == request[w]
  <1>1. /\ q.op \in CommentOps /\ q.step = "answer" /\ request' = [request EXCEPT ![w] = Idle]
        /\ UNCHANGED <<userVars, browserVars, comment, typed, sent, lost>>
        /\ box' = IF q.op = "post" THEN [box EXCEPT ![w] = 0] ELSE box
    BY DEF Answered, Refuse
  <1>2. AInv' /\ Calm
    BY <1>1, RefuseAsks, AsksKeeps DEF Refuse
  <1>3. Kept /\ Threads'
    BY <1>1 DEF Kept, Threads, Written, CInv
  <1>4. \A v, n : Copies(v, n)' = Copies(v, n)
    BY <1>1 DEF Copies, Written
  <1>5. /\ \A v \in Writers \ {w} : box'[v] = box[v]
        /\ w \in Writers => box'[w] = IF q.op = "post" THEN 0 ELSE box[w]
    BY <1>1 DEF CInv, Forms
  <1>6. Forms'
    <2>0. /\ typed \in [Writers -> 0..MaxDrafts] /\ box \in [Writers -> 0..MaxDrafts]
          /\ MaxDrafts \in Nat /\ \A v \in Writers : box[v] <= typed[v]
      BY CommentAssumption DEF CInv, Forms
    <2>1. typed \in [Writers -> 0..MaxDrafts] /\ box' \in [Writers -> 0..MaxDrafts]
      <3>1. 0 \in 0..MaxDrafts
        BY <2>0
      <3>2. CASE q.op = "post"
        BY <1>1, <2>0, <3>1, <3>2
      <3>3. CASE q.op # "post"
        BY <1>1, <2>0, <3>3
      <3> QED
        BY <3>2, <3>3
    <2>2. \A v \in Writers : box'[v] <= typed[v]
      <3> SUFFICES ASSUME NEW v \in Writers PROVE box'[v] <= typed[v]
        OBVIOUS
      <3>1. typed[v] \in Nat /\ box[v] \in Nat /\ box[v] <= typed[v]
        BY <2>0
      <3>2. box'[v] = box[v] \/ box'[v] = 0
        BY <1>5
      <3> QED
        BY <3>1, <3>2
    <2> QED
      BY <1>1, <2>1, <2>2 DEF CInv, Forms
  <1>7. \A v \in Writers \ {w} : SameForm(v)
    BY <1>1, <1>4, <1>5 DEF SameForm
  <1>8. PICK r : r = Idle
    OBVIOUS
  <1>9. Asked(w, r)'
    BY <1>8, IdleFit DEF Asked
  <1>10. ASSUME w \in Writers PROVE Count(w, r)'
    <2>1. Count(w, q) /\ r.op # "post" /\ ~Stored(r)
      BY <1>8, <1>10, IdleFit DEF CInv, Stored
    <2>2. ASSUME NEW n \in Drafts PROVE CountOf(w, r, n)'
      <3>1. CountOf(w, q, n) /\ n # 0
        BY <2>1 DEF Count, Drafts
      <3> QED
        BY <1>1, <1>4, <1>5, <1>10, <2>1, <3>1 DEF CountOf, Stored
    <2> QED
      BY <2>1, <2>2 DEF Count, Stored
  <1>11. CInv'
    BY <1>1, <1>3, <1>6, <1>7, <1>8, <1>9, <1>10, ThreadsStep DEF AInv
  <1> QED
    BY <1>2, <1>11

LEMMA LoseAnswerKeeps ==
    ASSUME AInv, CInv, NEW w \in Writers, LoseAnswer(w)
    PROVE  AInv' /\ Calm /\ CInv'
  <1> DEFINE q == request[w]
             t == <<w, sent[w]>>
  <1>1. /\ q.op = "post" /\ q.step = "answer" /\ request' = [request EXCEPT ![w] = Idle]
        /\ UNCHANGED <<userVars, browserVars, comment, box, typed, sent>>
        /\ lost' = [lost EXCEPT ![t] = @ + 1] /\ lost[t] < MaxLost
    BY DEF LoseAnswer, Refuse, At
  <1>2. AInv' /\ Calm
    BY <1>1, CommentAssumption, RefuseAsks, AsksKeeps DEF Refuse
  <1>3. w \in Tabs /\ sent[w] \in Drafts /\ t \in Texts
    BY <1>1, CommentAssumption DEF CInv, Asked, Texts
  <1>4. Kept /\ Threads' /\ \A v, n : Copies(v, n)' = Copies(v, n)
    BY <1>1 DEF Kept, Threads, Written, Copies, CInv
  <1>5. /\ lost \in [Texts -> 0..MaxLost] /\ lost'[t] = lost[t] + 1 /\ lost[t] \in Nat
        /\ \A u \in Texts \ {t} : lost'[u] = lost[u]
    BY <1>1, <1>3, CommentAssumption DEF CInv, Forms
  <1>6. \A v \in Writers, n \in Drafts : <<v, n>> \in Texts /\ (<<v, n>> = t => v = w /\ n = sent[w])
    BY DEF Texts
  <1>7. Forms'
    <2>1. lost' \in [Texts -> 0..MaxLost]
      BY <1>1, <1>3, <1>5, CommentAssumption
    <2> QED
      BY <1>1, <2>1 DEF CInv, Forms
  <1>8. \A v \in Writers \ {w} : SameForm(v)
    BY <1>1, <1>4, <1>5, <1>6 DEF SameForm
  <1>9. PICK r : r = Idle
    OBVIOUS
  <1>10. Asked(w, r)' /\ ~Stored(r) /\ r.op # "post"
    BY <1>9, IdleFit DEF Asked, Stored
  <1> HIDE DEF t
  <1>11. ASSUME NEW n \in Drafts PROVE CountOf(w, r, n)'
    <2>1. CountOf(w, q, n) /\ Cardinality(Copies(w, n)) \in Nat
      BY CopiesFinite DEF CInv, Count
    <2>2. CASE n = sent[w]
      <3>1. Cardinality(Copies(w, n)') <= lost'[<<w, n>>]
        BY <1>4, <1>5, <2>1, <2>2 DEF CountOf, t
      <3>2. lost'[<<w, n>>] \in Nat
        BY <1>5, <2>2 DEF t
      <3>3. n > typed[w] => Cardinality(Copies(w, n)') = 0
        BY <1>4, <2>1 DEF CountOf
      <3>4. Cardinality(Copies(w, n)') <= 1 + lost'[<<w, n>>]
        BY <1>4, <2>1, <3>1, <3>2
      <3> QED
        BY <1>1, <1>10, <3>1, <3>3, <3>4 DEF CountOf
    <2>3. CASE n # sent[w]
      <3>1. lost'[<<w, n>>] = lost[<<w, n>>]
        BY <1>5, <1>6, <2>3
      <3> QED
        BY <1>1, <1>4, <1>10, <2>1, <2>3, <3>1 DEF CountOf
    <2> QED
      BY <2>2, <2>3
  <1>12. Count(w, r)'
    BY <1>10, <1>11 DEF Count, Stored
  <1>13. CInv'
    BY <1>1, <1>3, <1>4, <1>7, <1>8, <1>9, <1>10, <1>12, ThreadsStep DEF AInv
  <1> QED
    BY <1>2, <1>13

\* w sends a request for comments.
LEMMA SentAsks ==
    ASSUME AInv, CInv, NEW w \in Tabs, NEW op \in CommentOps, NEW arg \in {None} \cup Written,
           Send(w, op, arg)
    PROVE  /\ request[w] = Idle
           /\ \E r : Asks(w, r) /\ r.op = op /\ r.arg = arg /\ r.step = "sent"
  <1>1. Written \subseteq Nat
    BY LenProperties DEF CInv, Threads, Written
  <1>2. arg \in Users \cup Nat \cup {None} /\ op \in Ops /\ op \notin {"login", "register"}
    BY <1>1, OpsAre
  <1>3. \E r : Asks(w, r) /\ r.op = op /\ r.arg = arg /\ r.step = "sent"
    BY <1>2, SendAsks
  <1> QED
    BY <1>3 DEF Send

LEMMA RemoveKeeps ==
    ASSUME AInv, CInv, NEW w \in Tabs, Remove(w)
    PROVE  AInv' /\ Calm /\ CInv'
  <1>1. PICK c \in Written : Send(w, "delete", c) /\ UNCHANGED threadVars
    BY DEF Remove
  <1>2. request[w] = Idle
    BY <1>1, OpsAre, SentAsks
  <1>3. PICK r : Asks(w, r) /\ r.op = "delete" /\ r.arg = c /\ r.step = "sent"
    BY <1>1, OpsAre, SentAsks
  <1>4. AInv' /\ Calm
    BY <1>3, AsksKeeps
  <1>5. Asked(w, r) /\ ~Stored(r) /\ ~Stored(request[w])
    BY <1>2, <1>3, IdleFit DEF Asked, Stored
  <1>6. CInv'
    BY <1>1, <1>3, <1>5, StillKeeps DEF AInv, Asks, Turns
  <1> QED
    BY <1>4, <1>6

\* The post brings the draft of the form.
LEMMA SubmitKeeps ==
    ASSUME AInv, CInv, NEW w \in Writers, Submit(w)
    PROVE  AInv' /\ Calm /\ CInv'
  <1>0. w \in Tabs
    BY CommentAssumption
  <1>1. PICK parent \in {None} \cup Written : Send(w, "post", parent)
    BY DEF Submit
  <1>2. /\ box[w] # 0 /\ sent' = [sent EXCEPT ![w] = box[w]]
        /\ UNCHANGED <<comment, box, typed, lost>>
    BY DEF Submit
  <1>3. request[w] = Idle
    BY <1>0, <1>1, OpsAre, SentAsks
  <1>4. PICK r : Asks(w, r) /\ r.op = "post" /\ r.arg = parent /\ r.step = "sent"
    BY <1>0, <1>1, OpsAre, SentAsks
  <1>5. AInv' /\ Calm
    BY <1>0, <1>4, AsksKeeps
  <1>6. Kept /\ Threads' /\ \A v, n : Copies(v, n)' = Copies(v, n)
    BY <1>2 DEF Kept, Threads, Written, Copies, CInv
  <1>7. sent'[w] = box[w] /\ box[w] \in Drafts /\ \A v \in Writers \ {w} : sent'[v] = sent[v]
    BY <1>2 DEF CInv, Forms, Drafts
  <1>8. Forms'
    BY <1>2, <1>7, CommentAssumption DEF CInv, Forms
  <1>9. \A v \in Writers \ {w} : SameForm(v)
    BY <1>2, <1>6, <1>7 DEF SameForm
  <1>10. Asked(w, r)'
    BY <1>2, <1>4, <1>7, CommentAssumption DEF Asked, Written, Drafts
  <1>11. ~Stored(r) /\ request[w].op # "post"
    BY <1>3, <1>4, IdleFit DEF Stored
  <1>12. ASSUME NEW n \in Drafts PROVE CountOf(w, r, n)'
    <2>1. CountOf(w, request[w], n)
      BY DEF CInv, Count
    <2>2. box[w] = n => Cardinality(Copies(w, n)) <= lost[<<w, n>>]
      BY <1>11, <2>1 DEF CountOf, Stored
    <2> QED
      BY <1>2, <1>6, <1>7, <1>11, <2>1, <2>2 DEF CountOf
  <1>13. Count(w, r)'
    BY <1>11, <1>12 DEF Count, Stored
  <1>14. CInv'
    BY <1>0, <1>4, <1>6, <1>8, <1>9, <1>10, <1>13, ThreadsStep DEF AInv, Asks, Turns
  <1> QED
    BY <1>5, <1>14

\* Requests as they were: forms and comments alone change.
LEMMA SameRequests ==
    ASSUME AInv, UNCHANGED accountVars
    PROVE  AInv' /\ Calm
  <1> USE DEF accountVars, userVars, browserVars
  <1>1. Typed' /\ Issued' /\ Room' /\ Tied'
    BY DEF AInv, Typed, Issued, Room, Entering, Unissued, Tied, Fit, Names
  <1> QED
    BY <1>1 DEF AInv, Calm, LetIn

LEMMA TypeKeeps ==
    ASSUME AInv, CInv, NEW w \in Writers, Type(w)
    PROVE  AInv' /\ Calm /\ CInv'
  <1>1. w \in Tabs
    BY CommentAssumption
  <1>2. /\ typed[w] < MaxDrafts /\ typed' = [typed EXCEPT ![w] = @ + 1]
        /\ box' = [box EXCEPT ![w] = typed[w] + 1]
        /\ UNCHANGED <<accountVars, comment, sent, lost>>
    BY DEF Type
  <1>3. PICK r : r = request[w]
    OBVIOUS
  <1>4. request' = [request EXCEPT ![w] = r]
    BY <1>1, <1>2, <1>3 DEF accountVars, AInv, Typed
  <1>5. Kept /\ Threads' /\ \A v, n : Copies(v, n)' = Copies(v, n)
    BY <1>2 DEF Kept, Threads, Written, Copies, CInv
  <1>6. /\ typed[w] \in Nat /\ typed'[w] = typed[w] + 1 /\ box'[w] = typed[w] + 1
        /\ \A v \in Writers \ {w} : box'[v] = box[v] /\ typed'[v] = typed[v]
    BY <1>2, CommentAssumption DEF CInv, Forms
  <1>7. Forms'
    <2>1. typed' \in [Writers -> 0..MaxDrafts] /\ box' \in [Writers -> 0..MaxDrafts]
      BY <1>2, <1>6, CommentAssumption DEF CInv, Forms
    <2>2. \A v \in Writers : box[v] \in Nat /\ sent[v] \in Nat /\ typed[v] \in Nat
                               /\ box[v] <= typed[v] /\ sent[v] <= typed[v]
      BY DEF CInv, Forms
    <2>3. \A v \in Writers : box'[v] <= typed'[v] /\ sent[v] <= typed'[v]
      BY <1>6, <2>2
    <2> QED
      BY <1>2, <2>1, <2>3 DEF CInv, Forms
  <1>8. \A v \in Writers \ {w} : SameForm(v)
    BY <1>2, <1>5, <1>6 DEF SameForm
  <1>9. sent[w] \in Nat /\ sent[w] <= typed[w] /\ sent'[w] = sent[w]
    BY <1>2, CommentAssumption DEF CInv, Forms
  <1>10. Asked(w, r)'
    <2>1. Asked(w, r)
      BY <1>1, <1>3 DEF CInv
    <2> QED
      BY <1>2, <1>6, <1>9, <2>1 DEF Asked, Written, Depth
  <1>11. ASSUME NEW n \in Drafts PROVE CountOf(w, r, n)'
    <2>1. CountOf(w, r, n) /\ n \in Nat
      BY <1>3 DEF CInv, Count, Drafts
    <2>2. <<w, n>> \in Texts
      BY DEF Texts
    <2>3. lost[<<w, n>>] \in Nat
      BY <2>2, CommentAssumption DEF CInv, Forms
    <2> QED
      BY <1>2, <1>5, <1>6, <1>9, <2>1, <2>3 DEF CountOf, Stored
  <1>12. Count(w, r)'
    <2>1. Stored(r) => Copies(w, sent[w]) # {}
      BY <1>3 DEF CInv, Count
    <2> QED
      BY <1>5, <1>9, <1>11, <2>1 DEF Count, Stored
  <1>13. CInv'
    BY <1>1, <1>4, <1>5, <1>7, <1>8, <1>10, <1>12, ThreadsStep DEF AInv
  <1> QED
    BY <1>2, <1>13, SameRequests

\* A new page begins with an empty form.
LEMMA OpenKeeps ==
    ASSUME AInv, CInv, NEW w \in Readers, Open(w)
    PROVE  AInv' /\ Calm /\ CInv'
  <1>0. w \in Tabs
    BY AccountAssumption
  <1>1. /\ Mount(w) /\ UNCHANGED <<comment, typed, sent, lost>>
        /\ box' = [v \in Writers |-> IF v = w THEN 0 ELSE box[v]]
    BY DEF Open
  <1>2. AInv' /\ Calm
    BY <1>0, <1>1, MountKeeps
  <1> DEFINE r == [Idle EXCEPT !.op = "session", !.token = cookie, !.step = "sent"]
  <1>3. r.op = "session" /\ ~Stored(r)
    BY DEF Idle, Stored
  <1>4. request[w] = Idle /\ request' = [request EXCEPT ![w] = r]
    BY <1>1 DEF Mount
  <1> HIDE DEF r
  <1>5. Kept /\ Threads' /\ \A v, n : Copies(v, n)' = Copies(v, n)
    BY <1>1 DEF Kept, Threads, Written, Copies, CInv
  <1>6. Forms'
    BY <1>1, CommentAssumption DEF CInv, Forms
  <1>7. \A v \in Writers \ {w} : SameForm(v)
    BY <1>1, <1>5 DEF SameForm
  <1>8. PICK asked : asked = r
    OBVIOUS
  <1>9. Asked(w, asked)'
    BY <1>3, <1>8 DEF Asked
  <1>10. ASSUME w \in Writers PROVE Count(w, asked)'
    <2>1. ASSUME NEW n \in Drafts PROVE CountOf(w, asked, n)'
      <3>1. CountOf(w, request[w], n) /\ n # 0
        BY <1>10 DEF CInv, Count, Drafts
      <3>2. box'[w] = 0
        BY <1>1, <1>10
      <3> QED
        BY <1>1, <1>3, <1>5, <1>8, <3>1, <3>2 DEF CountOf
    <2> QED
      BY <1>3, <1>8, <2>1 DEF Count, Stored
  <1>11. CInv'
    BY <1>0, <1>4, <1>5, <1>6, <1>7, <1>8, <1>9, <1>10, ThreadsStep DEF AInv
  <1> QED
    BY <1>2, <1>11

LEMMA ModerateKeeps ==
    ASSUME AInv, CInv, NEW c \in Written, Moderate(c)
    PROVE  AInv' /\ Calm /\ CInv'
  <1>1. /\ comment' = [comment EXCEPT ![c].deleted = TRUE]
        /\ UNCHANGED <<accountVars, box, typed, sent, lost>> /\ UNCHANGED request
    BY DEF Moderate, accountVars
  <1>2. Kept /\ Threads' /\ \A w : SameForm(w)
    BY <1>1, DeletedKept DEF CInv, SameForm
  <1>3. Forms'
    BY <1>1 DEF CInv, Forms
  <1>4. \A w \in Tabs : Asked(w, request[w])'
    <2> SUFFICES ASSUME NEW w \in Tabs PROVE Asked(w, request[w])'
      OBVIOUS
    <2>1. PICK r : r = request[w]
      OBVIOUS
    <2>2. Asked(w, r)'
      BY <1>1, <1>2, <2>1, AskedStays DEF CInv
    <2> QED
      BY <1>1, <2>1, <2>2 DEF Asked, Depth
  <1>5. \A w \in Writers : Count(w, request[w])'
    <2> SUFFICES ASSUME NEW w \in Writers PROVE Count(w, request[w])'
      OBVIOUS
    <2>1. PICK r : r = request[w]
      OBVIOUS
    <2>2. Count(w, r)'
      BY <1>2, <2>1, CountStays DEF CInv
    <2> QED
      BY <1>1, <2>1, <2>2 DEF Count, CountOf, Stored
  <1> QED
    BY <1>1, <1>2, <1>3, <1>4, <1>5, SameRequests DEF CInv

\* What the account's requests do to those for comments: they reach the routes.
Aside(w) ==
    \/ request'[w] = request[w]
    \/ request'[w].op \notin CommentOps /\ ~Stored(request[w])
    \/ /\ request[w].step = "sent" /\ request'[w].step = "begun"
       /\ request'[w].op = request[w].op /\ request'[w].arg = request[w].arg

LEMMA OneAside ==
    ASSUME Typed, NEW w \in Tabs, NEW r, request' = [request EXCEPT ![w] = r],
           \/ r.op \notin CommentOps /\ ~Stored(request[w])
           \/ /\ request[w].step = "sent" /\ r.step = "begun"
              /\ r.op = request[w].op /\ r.arg = request[w].arg
    PROVE  \A v \in Tabs : Aside(v)
  BY DEF Typed, Aside

LEMMA AccountAside ==
    ASSUME AInv, AccountNext
    PROVE  \A v \in Tabs : Aside(v)
  <1>0. Entrances \subseteq Tabs
    BY AccountAssumption
  <1>1. CASE \E w \in Tabs : Arrive(w)
    <2>1. PICK w \in Tabs : Arrive(w)
      BY <1>1
    <2>2. PICK r : /\ Asks(w, r)
                   /\ \/ r = Idle
                      \/ r.step = "begun" /\ r.op = request[w].op /\ r.arg = request[w].arg
      BY <2>1, ArriveAsks
    <2>3. request[w].step = "sent" /\ ~Stored(request[w])
      BY <2>1 DEF Arrive, Stored
    <2> QED
      BY <2>2, <2>3, OneAside, IdleFit, OpsAre DEF Asks, Turns, AInv
  <1>2. CASE \E w \in Tabs : AccountStep(w) /\ ~Arrive(w)
    <2>1. PICK w \in Tabs : AccountStep(w) /\ ~Arrive(w)
      BY <1>2
    <2> DEFINE q == request[w]
    <2>2. q \in RequestRow /\ Fit(q)
      BY DEF AInv, Typed, Tied
    <2>3. q.op \in AccountOps
      <3>1. CASE CreateSession(w)
        BY <2>2, <3>1, OpsAre DEF CreateSession, Fit
      <3> QED
        BY <2>1, <3>1, OpsAre
        DEF AccountStep, At, ReadEmail, CreateUser, CheckPassword, RevokeSession, ReadSession, Deliver
    <2>4. \A v \in Tabs : request'[v] = request[v] \/ (v = w /\ request'[w].op = q.op)
             \/ (v = w /\ request'[w] = Idle)
      BY <2>1, <2>2
      DEF AccountStep, ReadEmail, CreateUser, CheckPassword, CreateSession, RevokeSession,
          ReadSession, Deliver, Go, Refuse, AInv, Typed, RequestRow
    <2> QED
      BY <2>3, <2>4, IdleFit, OpsAre DEF Aside, Stored
  <1>4. CASE \E w \in Entrances : LogOut(w) \/ \E u \in Users : LogIn(w, u) \/ SignUp(w, u)
    <2>0. PICK w \in Tabs, op \in AccountOps : \E arg : Send(w, op, arg)
      BY <1>0, <1>4, OpsAre DEF LogOut, LogIn, SignUp
    <2>1. PICK arg : Send(w, op, arg)
      BY <2>0
    <2>2. \A v \in Tabs : request'[v] = request[v] \/ (v = w /\ request'[w].op = op)
      BY <2>1 DEF Send, AInv, Typed
    <2>3. request[w] = Idle
      BY <2>1 DEF Send
    <2> QED
      BY <2>2, <2>3, IdleFit, OpsAre DEF Aside, Stored
  <1>5. CASE (\E u \in Users : SetStatus(u)) \/ (\E t \in Tokens : Expire(t))
    BY <1>5 DEF SetStatus, Expire, Aside
  <1> QED
    BY <1>1, <1>2, <1>4, <1>5 DEF AccountNext

LEMMA AsideKeeps ==
    ASSUME CInv, UNCHANGED threadVars, \A v \in Tabs : Aside(v)
    PROVE  CInv'
  <1> USE DEF threadVars
  <1>1. Threads' /\ Forms' /\ \A v : SameForm(v)
    BY DEF CInv, Threads, Forms, Written, Copies, SameForm
  <1>2. \A v \in Tabs : Asked(v, request[v])'
    BY OpsAre DEF CInv, Asked, Aside, Written, Depth
  <1>3. \A v \in Writers : Count(v, request[v])'
    <2> SUFFICES ASSUME NEW v \in Writers PROVE Count(v, request[v])'
      OBVIOUS
    <2>1. v \in Tabs
      BY CommentAssumption
    <2>2. PICK r : r = request'[v]
      OBVIOUS
    <2>3. (Stored(r) <=> Stored(request[v])) /\ (r.op = "post" => request[v].op = "post")
      BY <2>1, <2>2, OpsAre DEF Aside, Stored
    <2>4. Count(v, r)
      BY <2>3 DEF CInv, Count, CountOf
    <2>5. Count(v, r)'
      BY <1>1, <2>4, CountStays
    <2> QED
      BY <2>2, <2>5 DEF Count, CountOf, Stored
  <1> QED
    BY <1>1, <1>2, <1>3 DEF CInv

-----------------------------------------------------------------------------

LEMMA NextKeeps == AInv /\ CInv /\ [Next]_vars => AInv' /\ Calm /\ CInv'
  <1> SUFFICES ASSUME AInv, CInv, [Next]_vars PROVE AInv' /\ Calm /\ CInv'
    OBVIOUS
  <1>1. CASE AccountNext /\ UNCHANGED threadVars
    BY <1>1, AccountKeeps, AccountAside, AsideKeeps
  <1>2. CASE \E w \in Tabs : Remove(w)
    BY <1>2, RemoveKeeps
  <1>3. CASE \E w \in Tabs : CommentStep(w)
    <2>1. PICK w \in Tabs : CommentStep(w)
      BY <1>3
    <2>2. CASE ReadContent(w)
      <3>1. PICK visible \in BOOLEAN : Check(w, "post", "begun", visible, "content")
        BY <2>2 DEF ReadContent
      <3> QED
        BY <3>1, CheckKeeps, OpsAre
    <2>3. CASE ReadParent(w)
      <3>1. Answers(request[w].arg) => request[w].arg = None \/ Depth(request[w].arg) = 0
        BY DEF Answers
      <3>2. Answers(request[w].arg) \in BOOLEAN
        BY DEF Answers
      <3>3. Check(w, "post", "content", Answers(request[w].arg), "parent")
        BY <2>3 DEF ReadParent
      <3>4. PICK condition \in BOOLEAN : condition = Answers(request[w].arg)
        BY <3>2
      <3> HIDE DEF Answers
      <3> QED
        BY <3>1, <3>3, <3>4, CheckKeeps, OpsAre
    <2>4. CASE ReadPart(w)
      <3>1. PICK visible \in BOOLEAN : Check(w, "post", "parent", visible, "part")
        BY <2>4 DEF ReadPart
      <3>2. request[w].arg = None \/ Depth(request[w].arg) = 0
        BY <3>1 DEF Check, At, CInv, Asked
      <3> QED
        BY <3>1, <3>2, CheckKeeps, OpsAre
    <2>5. CASE Insert(w)
      BY <2>5, InsertKeeps
    <2>6. CASE ReadComment(w)
      <3>1. PICK condition \in BOOLEAN : Check(w, "delete", "begun", condition, "found")
        BY <2>6 DEF ReadComment
      <3> QED
        BY <3>1, CheckKeeps, OpsAre
    <2>7. CASE MarkDeleted(w)
      BY <2>7, MarkDeletedKeeps
    <2>8. CASE Answered(w)
      BY <2>8, AnsweredKeeps
    <2> QED
      BY <2>1, <2>2, <2>3, <2>4, <2>5, <2>6, <2>7, <2>8 DEF CommentStep
  <1>4. CASE \E w \in Writers : Type(w)
    BY <1>4, TypeKeeps
  <1>5. CASE \E w \in Writers : Submit(w)
    BY <1>5, SubmitKeeps
  <1>6. CASE \E w \in Writers : LoseAnswer(w)
    BY <1>6, LoseAnswerKeeps
  <1>7. CASE \E c \in Written : Moderate(c)
    BY <1>7, ModerateKeeps
  <1>8. CASE UNCHANGED vars
    <2>1. UNCHANGED accountVars /\ UNCHANGED threadVars /\ UNCHANGED request
      BY <1>8 DEF vars, accountVars
    <2> QED
      BY <2>1, SameRequests, AsideKeeps DEF Aside
  <1>9. CASE \E w \in Readers : Open(w)
    BY <1>9, OpenKeeps
  <1> QED
    BY <1>1, <1>2, <1>3, <1>4, <1>5, <1>6, <1>7, <1>8, <1>9 DEF Next

LEMMA Inductive == Spec => [](AInv /\ CInv)
  <1>1. Init => AInv /\ CInv
    BY InitAInv, InitCInv
  <1>2. AInv /\ CInv /\ [Next]_vars => (AInv /\ CInv)'
    BY NextKeeps
  <1> QED
    BY <1>1, <1>2, PTL DEF Spec

\* The types of sessions, requests and comments (routes/auth.ts, routes/comments.ts), and
\* threads of two levels: who answers a reply is refused, also when the request
\* names the reply (comments.ts, parent.parentId).
THEOREM TypesAndThreads == Spec => []TypeOK
  <1>1. AInv /\ CInv => TypeOK
    <2> SUFFICES ASSUME AInv, CInv PROVE TypeOK
      OBVIOUS
    <2>1. AccountTypeOK
      BY DEF AInv, Typed, Tied, Fit, ShownRow, RequestRow, AccountTypeOK
    <2>2. \A c \in Written : comment[c] \in CommentRow /\ c \in 1..Len(comment)
      BY LenProperties DEF CInv, Threads, Written
    <2>3. \A c \in Written : comment[c].parent \in Written => Depth(comment[c].parent) = 0
      <3> SUFFICES ASSUME NEW c \in Written, comment[c].parent \in Written
                   PROVE  comment[comment[c].parent].parent = None
        BY DEF Depth
      <3>1. comment[c].parent \in 1..Len(comment)
        BY <2>2
      <3>2. comment[c].parent \in Nat \ {0}
        BY <2>2, <3>1 DEF CommentRow
      <3> QED
        BY <3>2, AccountAssumption DEF CInv, Threads
    <2> QED
      BY <2>1, <2>2, <2>3 DEF TypeOK, CommentRow, CInv, Forms
  <1> QED
    BY <1>1, Inductive, PTL

\* plugins/auth.ts, requireCsrf: what a tab posts or deletes is done as the user
\* that it shows, or not at all, for any number of tabs that log in and out.
THEOREM RequestsActAsShown == Spec => []ActsAsShown
  <1>1. AInv => ActsAsShown
    BY OpsAre DEF AInv, Typed, Tied, Fit, RequestRow, Idle, ActsAsShown
  <1> QED
    BY <1>1, Inductive, PTL

\* verifySession reads the user's status on every request: a suspended user begins
\* nothing, by any session, from the moment of the suspension on.
THEOREM SuspensionIsImmediate == Spec => SuspendedStayQuiet
  <1> DEFINE Kept2 == \A u \in Users : status[u] = "SUSPENDED" /\ Quiet(u) => Quiet(u)'
  <1>1. AInv /\ CInv /\ [Next]_vars => [Kept2]_<<status, request>>
    <2> SUFFICES ASSUME AInv, CInv, [Next]_vars, NEW u \in Users, status[u] = "SUSPENDED",
                        Quiet(u), NEW w \in Tabs, request'[w].op \notin AccountOps,
                        request'[w].as = u
                 PROVE  FALSE
      BY DEF Quiet
    <2>1. AInv' /\ Calm
      BY NextKeeps
    <2>2. Fit(request[w])' /\ request'[w] \in RequestRow
      BY <2>1 DEF AInv, Typed, Tied
    <2>3. u # None
      BY AccountAssumption
    <2>4. request'[w].op \in CommentOps
      BY <2>2, <2>3, OpsAre DEF Fit, RequestRow, Idle
    <2>5. \/ request'[w].op = request[w].op /\ request[w].as = u
          \/ status[u] = "ACTIVE"
      BY <2>1, <2>3, <2>4 DEF Calm, LetIn
    <2> QED
      BY <2>5 DEF Quiet
  <1> QED
    BY <1>1, Inductive, PTL DEF Spec, SuspendedStayQuiet

\* A form is emptied by the answer to its post, or with its page.
LEMMA Emptied ==
    ASSUME AInv, CInv, [Next]_vars, NEW w \in Writers, box[w] # 0, box'[w] = 0
    PROVE  \/ Copies(w, box[w]) # {}
           \/ request[w].op = "post" /\ sent[w] < box[w]
           \/ request[w] = Idle /\ request'[w].op = "session"
  <1>0. /\ w \in Tabs /\ box \in [Writers -> 0..MaxDrafts]
        /\ box[w] \in Nat /\ sent[w] \in Nat /\ typed[w] \in Nat
    BY CommentAssumption DEF CInv, Forms
  <1>1. ASSUME NEW v \in Tabs, Answered(v)
        PROVE  Copies(w, box[w]) # {} \/ (request[w].op = "post" /\ sent[w] < box[w])
    <2>1. v = w /\ request[w].op = "post" /\ request[w].step = "answer"
      BY <1>0, <1>1 DEF Answered
    <2>2. Copies(w, sent[w]) # {} /\ sent[w] <= box[w]
      BY <1>0, <2>1 DEF CInv, Count, Stored, Asked
    <2> QED
      BY <1>0, <2>1, <2>2
  <1>2. ASSUME NEW v \in Readers, Open(v) PROVE request[w] = Idle /\ request'[w].op = "session"
    <2>1. v = w
      BY <1>2 DEF Open
    <2> QED
      BY <1>0, <1>2, <2>1 DEF Open, Mount, AInv, Typed, Idle
  <1>3. ASSUME NEW v \in Writers, Type(v) PROVE FALSE
    <2>1. v = w
      BY <1>0, <1>3 DEF Type
    <2>2. box'[w] = typed[w] + 1
      BY <1>0, <1>3, <2>1 DEF Type
    <2> QED
      BY <1>0, <2>2
  <1>4. box' # box
    OBVIOUS
  <1> QED
    BY <1>1, <1>2, <1>3, <1>4
    DEF Next, vars, threadVars, Remove, CommentStep, Check, ReadContent, ReadParent, ReadPart, Insert,
        ReadComment, MarkDeleted, Submit, LoseAnswer, Moderate

\* Comments.tsx: a draft is stored once, and once more for each answer lost at most,
\* whatever is edited or posted again; a form is emptied only of a draft that is stored,
\* of one typed while a post ran, or with its page.
THEOREM PostsStoredOnce == Spec => StoredOnce
  <1> DEFINE Kept2 == \A w \in Writers :
          /\ \A n \in Drafts : Cardinality(Copies(w, n)') <= 1 + lost'[<<w, n>>]
          /\ box[w] # 0 /\ box'[w] = 0 =>
                \/ Copies(w, box[w]) # {}
                \/ request[w].op = "post" /\ sent[w] < box[w]
                \/ request[w] = Idle /\ request'[w].op = "session"
  <1>1. AInv /\ CInv /\ [Next]_vars => [Kept2]_vars
    <2> SUFFICES ASSUME AInv, CInv, [Next]_vars, NEW w \in Writers
                 PROVE  /\ \A n \in Drafts : Cardinality(Copies(w, n)') <= 1 + lost'[<<w, n>>]
                        /\ box[w] # 0 /\ box'[w] = 0 =>
                              \/ Copies(w, box[w]) # {}
                              \/ request[w].op = "post" /\ sent[w] < box[w]
                              \/ request[w] = Idle /\ request'[w].op = "session"
      OBVIOUS
    <2>1. CInv'
      BY NextKeeps
    <2>2. \A n \in Drafts : CountOf(w, request[w], n)'
      BY <2>1 DEF CInv, Count
    <2> QED
      BY <2>2, Emptied DEF CountOf
  <1> QED
    BY <1>1, Inductive, PTL DEF Spec, StoredOnce
=============================================================================
