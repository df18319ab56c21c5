------------------------------- MODULE Sessions -------------------------------
(***************************************************************************)
(* The sessions of one user: the refresh token rows, the cookie of each      *)
(* browser, and in each tab the access token, the user it shows and the      *)
(* session it has put aside while impersonating.  AuthService runs one       *)
(* statement at a time; a reply reaches the browser after the server is done *)
(* with it.  The user may be a Super Admin, who can impersonate a customer.  *)
(*                                                                          *)
(* calm and kept are environment assumptions, fixed for a behaviour.  calm:  *)
(* refreshes, logins, logouts and impersonations do not overlap, and an      *)
(* impersonation ends before its access token expires.  kept: no reply is    *)
(* lost, no statement fails and no restart falls between two.  Nothing in the*)
(* code enforces them.                                                       *)
(***************************************************************************)
EXTENDS Naturals, FiniteSets

CONSTANTS
    Tabs,       \* tabs that are open
    Jars,       \* browsers, each with one cookie jar
    Rows,       \* bound on the rows of refreshToken that matter at a time: 1..Rows
    Logins,     \* bound on the logins that matter at a time: 1..Logins
    NoToken,
    Modes       \* the values of <<calm, kept>> to explore

ASSUME SessionsAssumption ==
    /\ Rows \in Nat /\ Logins \in Nat
    /\ NoToken \notin 1..Rows /\ Modes \subseteq BOOLEAN \X BOOLEAN

Tokens == 1..Rows

VARIABLES
    calm, kept, \* the assumptions above
    jar,        \* the browser of each tab
    account,    \* the user is active, or not (any more)
    tokens,     \* each row: none yet, live or revoked
    root,       \* the login that each row descends from
    doomed,     \* logins that were alive when a reuse was detected
    cookie,     \* the refresh token in each jar
    access,     \* each tab's access token: whose it is, or expired
    shown,      \* the user each tab shows: loading, nobody, self or target
    stash,      \* the access token put aside while impersonating, or empty
    rstep,      \* the step of each tab's refresh or login
    rtok,       \* the token it presents, then the one it was issued
    ostep,      \* the step of each tab's logout
    otok,       \* the token it presents
    prev        \* startImpersonation's previousToken while it awaits /auth/me

server == <<account, tokens, root, doomed>>
tab == <<access, shown, stash, prev>>
refreshing == <<rstep, rtok>>
leaving == <<ostep, otok>>
fixed == <<calm, kept, jar>>
vars == <<fixed, server, tab, refreshing, leaving, cookie>>

Idle == \A t \in Tabs : rstep[t] = "idle" /\ ostep[t] = "idle" /\ prev[t] = "empty"
Live == {n \in Tokens : tokens[n] = "live"}
Held == {cookie[j] : j \in Jars} \union {rtok[t] : t \in Tabs} \union {otok[t] : t \in Tabs}
\* A row nobody can present any more is as good as none, a login without a row too.
Unused == {n \in Tokens : tokens[n] # "live" /\ n \notin Held}
NewLogins == {l \in 1..Logins : \A n \in Tokens \ Unused : root[n] # l}
Least(S) == CHOOSE n \in S : \A k \in S : n <= k
Answers(t, step) == rstep' = [rstep EXCEPT ![t] = step]
AccessBecomes(t, token) == access' = [access EXCEPT ![t] = token]

Init ==
    /\ \E mode \in Modes : calm = mode[1] /\ kept = mode[2]
    /\ jar \in [Tabs -> Jars]
    /\ account = "active"
    /\ tokens = [n \in Tokens |-> "none"] /\ root = [n \in Tokens |-> 0] /\ doomed = {}
    /\ cookie = [j \in Jars |-> NoToken]
    /\ access = [t \in Tabs |-> "none"] /\ shown = [t \in Tabs |-> "loading"]
    /\ stash = [t \in Tabs |-> "empty"] /\ prev = [t \in Tabs |-> "empty"]
    /\ rstep = [t \in Tabs |-> "idle"] /\ rtok = [t \in Tabs |-> NoToken]
    /\ ostep = [t \in Tabs |-> "idle"] /\ otok = [t \in Tabs |-> NoToken]

-----------------------------------------------------------------------------
(* A tab asks: the cookie is sent as it is now. *)

MayAsk(t) == rstep[t] = "idle" /\ (calm => Idle)

\* POST /auth/refresh: on loading a page, or when a call was answered 401.  The promise is
\* shared by all calls of the tab.
refreshAccessToken(t) ==
    /\ MayAsk(t)
    /\ shown[t] = "loading" \/ (shown[t] # "nobody" /\ access[t] \in {"none", "expired"})
    /\ rtok' = [rtok EXCEPT ![t] = cookie[jar[t]]]
    /\ Answers(t, IF cookie[jar[t]] = NoToken THEN "refused" ELSE "find")
    /\ UNCHANGED <<fixed, server, tab, leaving, cookie>>

\* POST /auth/login, credentials checked.
login(t) ==
    /\ MayAsk(t) /\ shown[t] = "nobody" /\ account = "active"
    /\ rtok' = [rtok EXCEPT ![t] = NoToken]
    /\ Answers(t, "issue")
    /\ UNCHANGED <<fixed, server, tab, leaving, cookie>>

-----------------------------------------------------------------------------
(* AuthService *)

findToken(t) ==
    /\ rstep[t] = "find"
    /\ Answers(t, IF tokens[rtok[t]] = "live" THEN "user" ELSE "kill")
    /\ UNCHANGED <<fixed, server, tab, leaving, cookie, rtok>>

\* A token that was rotated out: every session of the user ends.
killSessions(t) ==
    /\ rstep[t] = "kill"
    /\ tokens' = [n \in Tokens |-> IF tokens[n] = "live" THEN "revoked" ELSE tokens[n]]
    /\ doomed' = {root[n] : n \in Live}
    /\ Answers(t, "refused")
    /\ UNCHANGED <<fixed, account, root, tab, leaving, cookie, rtok>>

checkUser(t) ==
    /\ rstep[t] = "user"
    /\ Answers(t, IF account = "active" THEN "rotate" ELSE "refused")
    /\ UNCHANGED <<fixed, server, tab, leaving, cookie, rtok>>

rotate(t) ==
    /\ rstep[t] = "rotate"
    /\ tokens' = [tokens EXCEPT ![rtok[t]] = "revoked"]
    /\ Answers(t, "issue")
    /\ UNCHANGED <<fixed, account, root, doomed, tab, leaving, cookie, rtok>>

issueRefreshToken(t) ==
    /\ rstep[t] = "issue" /\ Unused # {} /\ (rtok[t] = NoToken => NewLogins # {})
    /\ LET n == Least(Unused)
           l == IF rtok[t] = NoToken THEN Least(NewLogins) ELSE root[rtok[t]]
       IN  /\ tokens' = [k \in Tokens |-> IF k = n THEN "live"
                                         ELSE IF k \in Unused THEN "none" ELSE tokens[k]]
           /\ root' = [k \in Tokens |-> IF k = n THEN l ELSE IF k \in Unused THEN 0 ELSE root[k]]
           /\ doomed' = IF rtok[t] = NoToken THEN doomed \ {l} ELSE doomed
           /\ rtok' = [rtok EXCEPT ![t] = n]
    /\ Answers(t, "reply")
    /\ UNCHANGED <<fixed, account, tab, leaving, cookie>>

\* A statement throws, or the process stops before it: what was done stays done, and the
\* request is answered with an error.
serverFails(t) ==
    /\ ~kept /\ rstep[t] \in {"find", "kill", "user", "rotate", "issue"}
    /\ Answers(t, "refused")
    /\ UNCHANGED <<fixed, server, tab, leaving, cookie, rtok>>

-----------------------------------------------------------------------------
(* The answer reaches the browser. *)

\* setRefreshCookie, then setAccessToken, whatever the tab did meanwhile.  A page that was
\* loading, or a login, shows the user.
setRefreshCookie(t) ==
    /\ rstep[t] = "reply"
    /\ cookie' = [cookie EXCEPT ![jar[t]] = rtok[t]]
    /\ AccessBecomes(t, "self")
    /\ shown' = [shown EXCEPT ![t] = IF @ \in {"loading", "nobody"} THEN "self" ELSE @]
    /\ Answers(t, "idle") /\ rtok' = [rtok EXCEPT ![t] = NoToken]
    /\ UNCHANGED <<fixed, server, leaving, stash, prev>>

refused(t) ==
    /\ rstep[t] = "refused"
    /\ AccessBecomes(t, "none")
    /\ shown' = [shown EXCEPT ![t] = IF @ = "loading" THEN "nobody" ELSE @]
    /\ Answers(t, "idle") /\ rtok' = [rtok EXCEPT ![t] = NoToken]
    /\ UNCHANGED <<fixed, server, leaving, cookie, stash, prev>>

\* The page is loaded again.  A reply on its way is lost, its cookie with it.
Reload(t) ==
    /\ shown[t] # "loading" /\ ostep[t] = "idle"
    /\ rstep[t] = "idle" \/ (~kept /\ rstep[t] \in {"reply", "refused"})
    /\ AccessBecomes(t, "none")
    /\ shown' = [shown EXCEPT ![t] = "loading"]
    /\ stash' = [stash EXCEPT ![t] = "empty"] /\ prev' = [prev EXCEPT ![t] = "empty"]
    /\ Answers(t, "idle") /\ rtok' = [rtok EXCEPT ![t] = NoToken]
    /\ UNCHANGED <<fixed, server, leaving, cookie>>

-----------------------------------------------------------------------------
(* Logout *)

logout(t) ==
    /\ shown[t] \notin {"loading", "nobody"} /\ ostep[t] = "idle" /\ (calm => Idle)
    /\ otok' = [otok EXCEPT ![t] = cookie[jar[t]]]
    /\ ostep' = [ostep EXCEPT ![t] = "revoke"]
    /\ UNCHANGED <<fixed, server, tab, refreshing, cookie>>

\* Fault: the cookie is cleared and its row forgotten.
revokeNothing(t) ==
    /\ ostep[t] = "revoke"
    /\ ostep' = [ostep EXCEPT ![t] = "reply"]
    /\ UNCHANGED <<fixed, server, tab, refreshing, cookie, otok>>

\* logout's catch takes a failing revocation for a token that is invalid already.
revoke(t) ==
    /\ ostep[t] = "revoke"
    /\ \/ tokens' = [n \in Tokens |->
                        IF n = otok[t] /\ tokens[n] = "live" THEN "revoked" ELSE tokens[n]]
       \/ ~kept /\ UNCHANGED tokens
    /\ ostep' = [ostep EXCEPT ![t] = "reply"]
    /\ UNCHANGED <<fixed, account, root, doomed, tab, refreshing, cookie, otok>>

clearCookie(t) ==
    /\ ostep[t] = "reply"
    /\ cookie' = [cookie EXCEPT ![jar[t]] = NoToken]
    /\ AccessBecomes(t, "none")
    /\ shown' = [shown EXCEPT ![t] = "nobody"] /\ stash' = [stash EXCEPT ![t] = "empty"]
    /\ ostep' = [ostep EXCEPT ![t] = "idle"] /\ otok' = [otok EXCEPT ![t] = NoToken]
    /\ UNCHANGED <<fixed, server, refreshing, prev>>

-----------------------------------------------------------------------------
(* Impersonation *)

\* The call that issues the token has succeeded, which takes a valid access token.
startImpersonation(t) ==
    /\ shown[t] = "self" /\ access[t] = "self" /\ prev[t] = "empty" /\ (calm => Idle)
    /\ prev' = [prev EXCEPT ![t] = access[t]]
    /\ AccessBecomes(t, "target")
    /\ UNCHANGED <<fixed, server, refreshing, leaving, cookie, shown, stash>>

\* Fault: a failing /auth/me leaves the customer's token in place.
impersonateOrNot(t) ==
    /\ prev[t] # "empty"
    /\ prev' = [prev EXCEPT ![t] = "empty"]
    /\ \/ /\ stash' = [stash EXCEPT ![t] = prev[t]]
          /\ shown' = [shown EXCEPT ![t] = "target"]
       \/ UNCHANGED <<shown, stash>>
    /\ UNCHANGED <<fixed, server, refreshing, leaving, cookie, access>>

\* /auth/me has answered; a failure rolls back.
impersonate(t) ==
    /\ prev[t] # "empty"
    /\ prev' = [prev EXCEPT ![t] = "empty"]
    /\ \/ /\ stash' = [stash EXCEPT ![t] = prev[t]]
          /\ shown' = [shown EXCEPT ![t] = "target"]
          /\ UNCHANGED access
       \/ AccessBecomes(t, prev[t]) /\ UNCHANGED <<shown, stash>>
    /\ UNCHANGED <<fixed, server, refreshing, leaving, cookie>>

exitImpersonation(t) ==
    /\ stash[t] # "empty"
    /\ AccessBecomes(t, stash[t])
    /\ shown' = [shown EXCEPT ![t] = "self"] /\ stash' = [stash EXCEPT ![t] = "empty"]
    /\ UNCHANGED <<fixed, server, refreshing, leaving, cookie, prev>>

-----------------------------------------------------------------------------
Expired(token) == IF token = "self" THEN "expired" ELSE token

\* The access tokens of a tab expire, the one put aside first.
Expire(t) ==
    /\ "self" \in {access[t], stash[t], prev[t]} \/ (access[t] = "target" /\ ~calm)
    /\ AccessBecomes(t, IF calm THEN Expired(access[t]) ELSE
                        IF access[t] = "none" THEN "none" ELSE "expired")
    /\ stash' = [stash EXCEPT ![t] = Expired(@)] /\ prev' = [prev EXCEPT ![t] = Expired(@)]
    /\ UNCHANGED <<fixed, server, refreshing, leaving, cookie, shown>>

\* The user is deactivated, or the organization suspended.
Deactivate ==
    /\ account = "active" /\ account' = "inactive"
    /\ UNCHANGED <<fixed, tokens, root, doomed, tab, refreshing, leaving, cookie>>

Settles(t) ==
    \/ findToken(t) \/ killSessions(t) \/ checkUser(t) \/ rotate(t) \/ issueRefreshToken(t)
    \/ serverFails(t) \/ setRefreshCookie(t) \/ refused(t) \/ revoke(t) \/ clearCookie(t) \/ impersonate(t)

Next ==
    \/ \E t \in Tabs :
        \/ refreshAccessToken(t) \/ login(t) \/ Settles(t) \/ Reload(t) \/ logout(t)
        \/ startImpersonation(t) \/ exitImpersonation(t) \/ Expire(t)
    \/ Deactivate

\* Statements and replies settle, and access tokens expire.
Fairness == \A t \in Tabs : WF_vars(Settles(t)) /\ WF_vars(Expire(t))

Spec == Init /\ [][Next]_vars /\ Fairness
-----------------------------------------------------------------------------
(* Properties *)

\* Every row, cookie and local has the shape the code gives it.
TypeOK ==
    /\ calm \in BOOLEAN /\ kept \in BOOLEAN
    /\ jar \in [Tabs -> Jars] /\ account \in {"active", "inactive"}
    /\ tokens \in [Tokens -> {"none", "live", "revoked"}]
    /\ root \in [Tokens -> 0..Logins] /\ doomed \in SUBSET (1..Logins)
    /\ cookie \in [Jars -> Tokens \union {NoToken}]
    /\ access \in [Tabs -> {"none", "self", "expired", "target"}]
    /\ shown \in [Tabs -> {"loading", "nobody", "self", "target"}]
    /\ stash \in [Tabs -> {"empty", "self", "expired"}]
    /\ prev \in [Tabs -> {"empty", "self", "expired"}]
    /\ rstep \in [Tabs -> {"idle", "find", "kill", "user", "rotate", "issue", "reply", "refused"}]
    /\ rtok \in [Tabs -> Tokens \union {NoToken}]
    /\ ostep \in [Tabs -> {"idle", "revoke", "reply"}]
    /\ otok \in [Tabs -> Tokens \union {NoToken}]

\* Refresh tokens are "rotated on every use" (README): while requests do not overlap, a
\* login has one token that is good for anything, however many tabs share its cookie and
\* whichever replies are lost and statements fail.
OneHeadPerLogin == calm => \A a, b \in Live : root[a] = root[b] => a = b

\* While requests do not overlap, no reply is lost and no statement fails, nobody's sessions
\* are ended for a reuse that was none: no tab presents a token that has been rotated out.
\* (A refresh that revokes its row and fails to write the next leaves a spent token behind.)
NoFalseAlarm == calm /\ kept => \A t \in Tabs : rstep[t] # "kill"

\* Once a logout is done, no token of that login is good for anything, while requests do
\* not overlap, no reply is lost and the revocation does not fail: logout swallows that.
LogoutEndsSession ==
    [][\A t \in Tabs :
        calm /\ kept /\ ostep[t] = "reply" /\ ostep'[t] = "idle" /\ otok[t] # NoToken =>
            \A n \in Live : root[n] # root[otok[t]]]_vars

\* Reuse of a rotated-out token "revokes all of that user's active sessions" (README): no
\* login that was alive when the update ran is ever good for anything again, while requests
\* do not overlap.  (A refresh that is past its check would write one more row.)
ReuseEndsSessions == calm => \A n \in Live : root[n] \notin doomed

\* A tab acts for the user it shows, through refreshes, failed and finished impersonations,
\* while requests do not overlap.
ActsForShown ==
    calm => \A t \in Tabs :
        /\ shown[t] = "target" => access[t] = "target" /\ stash[t] # "empty"
        /\ access[t] = "target" => shown[t] = "target" \/ prev[t] # "empty"

\* A user who has been deactivated ends up without access, whatever is under way by then:
\* a refresh past its check, an impersonation, overlapping requests of several tabs.
DeactivationTakesHold ==
    (account = "inactive") ~> [](\A t \in Tabs : access[t] # "self")

\* The tokens of a login and the identity a tab acts under are what rotation, reuse detection
\* and impersonation promise.
SessionInv == TypeOK /\ OneHeadPerLogin /\ NoFalseAlarm /\ ReuseEndsSessions /\ ActsForShown

\* A session that somebody ends, by a logout or by deactivating its user, does end.
SessionsEnd == LogoutEndsSession /\ DeactivationTakesHold
===============================================================================
