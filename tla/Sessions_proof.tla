---------------------------- MODULE Sessions_proof ----------------------------
(***************************************************************************)
(* For any tabs, browsers, rows and logins: while requests do not overlap,  *)
(* a login has one token that is good for anything, a reuse ends what it    *)
(* says, a tab acts for the user it shows, and (while no reply is lost and  *)
(* no statement fails) no alarm is false and a logout ends its session.     *)
(* Without any assumption, a deactivated user who is locked out stays so.   *)
(***************************************************************************)
EXTENDS Sessions, WellFoundedInduction, FiniteSetTheorems, TLAPS

\* What a refresh has at hand: the row it presents, which is there as long as it is held, and
\* the row it was issued.
AtHand(t) ==
    /\ rstep[t] \in {"find", "user", "rotate", "reply"} => rtok[t] \in Tokens
    /\ rstep[t] \in {"user", "rotate", "issue"} /\ rtok[t] # NoToken => tokens[rtok[t]] # "none"

\* Every row that was written has a login.
Rooted == \A n \in Tokens : tokens[n] # "none" => root[n] # 0

TypeInv == TypeOK /\ Rooted /\ \A t \in Tabs : AtHand(t)

\* One thing is under way at a time.
OneActivity == \A t, u \in Tabs :
    /\ rstep[t] # "idle" /\ rstep[u] # "idle" => t = u
    /\ ostep[t] # "idle" /\ ostep[u] # "idle" => t = u
    /\ prev[t] # "empty" /\ prev[u] # "empty" => t = u
    /\ rstep[t] # "idle" => ostep[u] = "idle" /\ prev[u] = "empty"
    /\ ostep[t] # "idle" => prev[u] = "empty"

\* The row a refresh has found is live until it rotates it; then its login has none, until it
\* issues the next.
Presents(t) ==
    /\ rstep[t] \in {"user", "rotate"} => rtok[t] \in Live
    /\ rstep[t] = "issue" /\ rtok[t] # NoToken =>
        /\ root[rtok[t]] \notin doomed
        /\ \A n \in Live : root[n] # root[rtok[t]]

\* The identity of a tab that shows the customer, and of one that is about to.
Identity(t) ==
    /\ shown[t] = "target" => access[t] = "target"
    /\ stash[t] # "empty" <=> shown[t] = "target"
    /\ access[t] = "target" => shown[t] = "target" \/ prev[t] # "empty"
    /\ prev[t] # "empty" => access[t] = "target" /\ shown[t] = "self"
    /\ rstep[t] # "idle" => access[t] # "target"

CalmInv ==
    /\ OneActivity
    /\ \A t \in Tabs : Presents(t) /\ Identity(t)
    /\ \A a, b \in Live : root[a] = root[b] => a = b
    /\ ReuseEndsSessions

\* The row of a jar's cookie is live, unless a request of that jar is about to replace or
\* clear it.
Replaces(t) ==
    \/ rstep[t] = "issue" /\ rtok[t] = cookie[jar[t]]
    \/ rstep[t] = "reply"
    \/ ostep[t] = "reply" /\ otok[t] = cookie[jar[t]]
CookieLives(j) ==
    cookie[j] # NoToken => cookie[j] \in Live \/ \E t \in Tabs : jar[t] = j /\ Replaces(t)

\* A request presents the cookie of its jar.
FromJar(t) ==
    /\ rstep[t] # "kill"
    /\ rstep[t] \in {"find", "user", "rotate"} => rtok[t] = cookie[jar[t]]
    /\ rstep[t] = "issue" /\ rtok[t] # NoToken => rtok[t] = cookie[jar[t]]
    /\ rstep[t] = "reply" => rtok[t] \in Live /\ \A j \in Jars : cookie[j] # rtok[t]
    /\ ostep[t] # "idle" => otok[t] = cookie[jar[t]]
    /\ ostep[t] = "reply" /\ otok[t] # NoToken => \A n \in Live : root[n] # root[otok[t]]

KeptInv ==
    /\ \A i, j \in Jars : cookie[i] = cookie[j] /\ cookie[i] # NoToken => i = j
    /\ \A j \in Jars : CookieLives(j)
    /\ \A t \in Tabs : FromJar(t)

SessionIInv == TypeInv /\ (calm => CalmInv) /\ (calm /\ kept => KeptInv)

\* The user is locked out: no tab has an access token of his, put aside or not, and no refresh
\* or login under way has passed its checks.
LockedOut ==
    /\ account = "inactive"
    /\ \A t \in Tabs : "self" \notin {access[t], stash[t], prev[t]}
                       /\ rstep[t] \notin {"rotate", "issue", "reply"}

-----------------------------------------------------------------------------
\* A token is a number from 1 on, and NoToken is none.
LEMMA TokenFacts == NoToken \notin Tokens /\ Tokens \in SUBSET Nat /\ 0 \notin Tokens
BY SessionsAssumption DEF Tokens

\* Least finds the least of some numbers.
LEMMA LeastOf ==
  ASSUME NEW S \in SUBSET Nat, S # {}
  PROVE  Least(S) \in S /\ \A k \in S : Least(S) <= k
<1> DEFINE Below(n) == {k \in S : k < n}
           R == StrictSubsetOrdering(Nat)
<1>1. \A n \in S : Below(n) \in FiniteSubsetsOf(Nat)
  <2> SUFFICES ASSUME NEW n \in S PROVE IsFiniteSet(Below(n))
    BY DEF FiniteSubsetsOf
  <2> QED BY FS_BoundedSetOfNaturals, \A k \in Below(n) : k <= n
<1>2. PICK n \in S : \A m \in S : <<Below(m), Below(n)>> \notin R
  <2> DEFINE T == {Below(m) : m \in S}
  <2>1. IsWellFoundedOn(R, FiniteSubsetsOf(Nat))
    BY FS_StrictSubsetOrderingWellFounded
  <2>2. T \subseteq FiniteSubsetsOf(Nat) /\ T # {}
    BY <1>1
  <2> HIDE DEF R, T
  <2>3. \E x \in T : \A y \in T : <<y, x>> \notin R
    BY <2>1, <2>2, WFMin
  <2> QED BY <2>3 DEF T
<1>3. \A k \in S : n <= k
  <2> SUFFICES ASSUME NEW k \in S, k < n PROVE FALSE
    OBVIOUS
  <2>0. k \in Nat /\ n \in Nat
    OBVIOUS
  <2>1. k \in Below(n) /\ k \notin Below(k)
    BY <2>0
  <2>3. \A m \in Below(k) : m \in Below(n)
    <3> SUFFICES ASSUME NEW m \in S, m < k PROVE m < n
      OBVIOUS
    <3> QED BY <2>0, m \in Nat
  <2>2. Below(k) \in SUBSET Nat /\ Below(n) \in SUBSET Nat
    OBVIOUS
  <2> QED BY <1>2, <2>1, <2>2, <2>3 DEF StrictSubsetOrdering
<1> QED BY <1>3 DEF Least

\* The row and the login a refresh or a login is given.
Issues(t, n, l) ==
    /\ n \in Unused /\ l \in 1..Logins
    /\ IF rtok[t] = NoToken THEN l \in NewLogins ELSE l = root[rtok[t]]
    /\ tokens' = [k \in Tokens |-> IF k = n THEN "live"
                                  ELSE IF k \in Unused THEN "none" ELSE tokens[k]]
    /\ root' = [k \in Tokens |-> IF k = n THEN l ELSE IF k \in Unused THEN 0 ELSE root[k]]
    /\ doomed' = IF rtok[t] = NoToken THEN doomed \ {l} ELSE doomed
    /\ rtok' = [rtok EXCEPT ![t] = n]

\* issueRefreshToken finds what it chooses: a row nobody holds, and for a login a new login.
LEMMA Issued ==
  ASSUME TypeInv, NEW t \in Tabs, issueRefreshToken(t)
  PROVE  \E n, l : Issues(t, n, l)
<1> DEFINE n == Least(Unused)
           l == IF rtok[t] = NoToken THEN Least(NewLogins) ELSE root[rtok[t]]
<1>1. n \in Unused
  BY LeastOf, TokenFacts DEF issueRefreshToken, Unused
<1>2. rtok[t] = NoToken => l \in NewLogins
  BY LeastOf DEF issueRefreshToken, NewLogins
<1>3. rtok[t] # NoToken => root[rtok[t]] \in 1..Logins
  <2>1. rtok[t] # NoToken => rtok[t] \in Tokens /\ root[rtok[t]] \in 0..Logins /\ root[rtok[t]] # 0
    BY DEF TypeInv, TypeOK, Rooted, AtHand, issueRefreshToken
  <2> QED BY <2>1, SessionsAssumption
<1>4. l \in 1..Logins
  BY <1>2, <1>3 DEF NewLogins
<1> HIDE DEF n
<1>5. Issues(t, n, l)
  BY <1>1, <1>2, <1>4 DEF Issues, issueRefreshToken, n
<1> QED BY <1>5

\* Initially there are no rows.
LEMMA TypeInit == Init => TypeInv
BY SessionsAssumption, TokenFacts DEF Init, TypeInv, TypeOK, Rooted, AtHand

\* Each step keeps the types.  A row is forgotten only when nobody holds it, so a refresh that
\* has found its row still has it when it rotates it and when it issues the next.
LEMMA TypeStep == TypeInv /\ [Next]_vars => TypeInv'
<1> SUFFICES ASSUME TypeInv, [Next]_vars PROVE TypeInv'
  OBVIOUS
<1> USE TokenFacts DEF TypeInv, TypeOK, Answers, AccessBecomes, vars, fixed, server, tab,
       refreshing, leaving
<1>1. ASSUME NEW t \in Tabs, refreshAccessToken(t) PROVE TypeInv'
  <2>1. TypeOK'
    BY <1>1 DEF refreshAccessToken
  <2>2. Rooted'
    BY <1>1 DEF refreshAccessToken, Rooted, AtHand
  <2>3. ASSUME NEW u \in Tabs PROVE AtHand(u)'
    BY <1>1, <2>1 DEF refreshAccessToken, AtHand, Unused, Held
  <2> QED BY <2>1, <2>2, <2>3
<1>2. ASSUME NEW t \in Tabs, login(t) PROVE TypeInv'
  <2>1. TypeOK'
    BY <1>2 DEF login
  <2>2. Rooted'
    BY <1>2 DEF login, Rooted, AtHand
  <2>3. ASSUME NEW u \in Tabs PROVE AtHand(u)'
    BY <1>2, <2>1 DEF login, AtHand, Unused, Held
  <2> QED BY <2>1, <2>2, <2>3
<1>3. ASSUME NEW t \in Tabs, findToken(t) PROVE TypeInv'
  <2>1. TypeOK'
    BY <1>3 DEF findToken
  <2>2. Rooted'
    BY <1>3 DEF findToken, Rooted, AtHand
  <2>3. ASSUME NEW u \in Tabs PROVE AtHand(u)'
    BY <1>3, <2>1 DEF findToken, AtHand, Unused, Held
  <2> QED BY <2>1, <2>2, <2>3
<1>4. ASSUME NEW t \in Tabs, killSessions(t) PROVE TypeInv'
  <2>1. TypeOK'
    BY <1>4 DEF killSessions, Live, Rooted
  <2>2. Rooted'
    BY <1>4 DEF killSessions, Rooted, AtHand, Live, Rooted
  <2>3. ASSUME NEW u \in Tabs PROVE AtHand(u)'
    BY <1>4, <2>1 DEF killSessions, AtHand, Unused, Held
  <2> QED BY <2>1, <2>2, <2>3
<1>5. ASSUME NEW t \in Tabs, checkUser(t) PROVE TypeInv'
  <2>1. TypeOK'
    BY <1>5 DEF checkUser
  <2>2. Rooted'
    BY <1>5 DEF checkUser, Rooted, AtHand
  <2>3. ASSUME NEW u \in Tabs PROVE AtHand(u)'
    BY <1>5, <2>1 DEF checkUser, AtHand, Unused, Held
  <2> QED BY <2>1, <2>2, <2>3
<1>6. ASSUME NEW t \in Tabs, rotate(t) PROVE TypeInv'
  <2>1. TypeOK'
    BY <1>6 DEF rotate
  <2>2. Rooted'
    BY <1>6 DEF rotate, Rooted, AtHand
  <2>3. ASSUME NEW u \in Tabs PROVE AtHand(u)'
    BY <1>6, <2>1 DEF rotate, AtHand, Unused, Held
  <2> QED BY <2>1, <2>2, <2>3
<1>7. ASSUME NEW t \in Tabs, issueRefreshToken(t) PROVE TypeInv'
  <2>1. PICK n, l : Issues(t, n, l)
    BY <1>7, Issued
  <2>2. n \in Tokens /\ tokens[n] # "live"
    BY <2>1 DEF Issues, Unused
  <2>3. tokens' \in [Tokens -> {"none", "live", "revoked"}]
    BY <2>1 DEF Issues
  <2>4. root' \in [Tokens -> 0..Logins]
    <3>1. 0 \in 0..Logins /\ 1..Logins \subseteq 0..Logins
      BY SessionsAssumption
    <3> QED BY <2>1, <3>1 DEF Issues
  <2>5. doomed' \in SUBSET (1..Logins) /\ rtok' \in [Tabs -> Tokens \union {NoToken}]
    BY <2>1, <2>2 DEF Issues
  <2>6. TypeOK'
    BY <1>7, <2>3, <2>4, <2>5 DEF issueRefreshToken
  <2>7. Rooted'
    <3>1. l # 0
      BY <2>1 DEF Issues
    <3> QED BY <2>1, <3>1 DEF Issues, Rooted
  <2>8. ASSUME NEW u \in Tabs PROVE AtHand(u)'
    <3>1. rtok[u] \in Tokens => rtok[u] \notin Unused
      BY DEF Unused, Held
    <3>2. CASE u = t
      BY <1>7, <2>1, <2>2, <3>2 DEF issueRefreshToken, AtHand, Issues
    <3>3. CASE u # t
      BY <1>7, <2>1, <2>2, <3>1, <3>3 DEF issueRefreshToken, AtHand, Issues
    <3> QED BY <3>2, <3>3
  <2> QED BY <2>6, <2>7, <2>8
<1>8. ASSUME NEW t \in Tabs, setRefreshCookie(t) PROVE TypeInv'
  <2>1. TypeOK'
    BY <1>8 DEF setRefreshCookie
  <2>2. Rooted'
    BY <1>8 DEF setRefreshCookie, Rooted, AtHand
  <2>3. ASSUME NEW u \in Tabs PROVE AtHand(u)'
    BY <1>8, <2>1 DEF setRefreshCookie, AtHand, Unused, Held
  <2> QED BY <2>1, <2>2, <2>3
<1>9. ASSUME NEW t \in Tabs, refused(t) PROVE TypeInv'
  <2>1. TypeOK'
    BY <1>9 DEF refused
  <2>2. Rooted'
    BY <1>9 DEF refused, Rooted, AtHand
  <2>3. ASSUME NEW u \in Tabs PROVE AtHand(u)'
    BY <1>9, <2>1 DEF refused, AtHand, Unused, Held
  <2> QED BY <2>1, <2>2, <2>3
<1>10. ASSUME NEW t \in Tabs, Reload(t) PROVE TypeInv'
  <2>1. TypeOK'
    BY <1>10 DEF Reload
  <2>2. Rooted'
    BY <1>10 DEF Reload, Rooted, AtHand
  <2>3. ASSUME NEW u \in Tabs PROVE AtHand(u)'
    BY <1>10, <2>1 DEF Reload, AtHand, Unused, Held
  <2> QED BY <2>1, <2>2, <2>3
<1>11. ASSUME NEW t \in Tabs, logout(t) PROVE TypeInv'
  <2>1. TypeOK'
    BY <1>11 DEF logout
  <2>2. Rooted'
    BY <1>11 DEF logout, Rooted, AtHand
  <2>3. ASSUME NEW u \in Tabs PROVE AtHand(u)'
    BY <1>11, <2>1 DEF logout, AtHand, Unused, Held
  <2> QED BY <2>1, <2>2, <2>3
<1>12. ASSUME NEW t \in Tabs, revoke(t) PROVE TypeInv'
  <2>1. TypeOK'
    BY <1>12 DEF revoke
  <2>2. Rooted'
    BY <1>12 DEF revoke, Rooted, AtHand
  <2>3. \A k \in Tokens : tokens[k] # "none" => tokens'[k] # "none"
    BY <1>12 DEF revoke
  <2>4. rstep' = rstep /\ rtok' = rtok
    BY <1>12 DEF revoke
  <2>5. ASSUME NEW u \in Tabs PROVE AtHand(u)'
    BY <2>3, <2>4 DEF AtHand
  <2> QED BY <2>1, <2>2, <2>5
<1>13. ASSUME NEW t \in Tabs, clearCookie(t) PROVE TypeInv'
  <2>1. TypeOK'
    BY <1>13 DEF clearCookie
  <2>2. Rooted'
    BY <1>13 DEF clearCookie, Rooted, AtHand
  <2>3. ASSUME NEW u \in Tabs PROVE AtHand(u)'
    BY <1>13, <2>1 DEF clearCookie, AtHand, Unused, Held
  <2> QED BY <2>1, <2>2, <2>3
<1>14. ASSUME NEW t \in Tabs, startImpersonation(t) PROVE TypeInv'
  <2>1. TypeOK'
    BY <1>14 DEF startImpersonation
  <2>2. Rooted'
    BY <1>14 DEF startImpersonation, Rooted, AtHand
  <2>3. ASSUME NEW u \in Tabs PROVE AtHand(u)'
    BY <1>14, <2>1 DEF startImpersonation, AtHand, Unused, Held
  <2> QED BY <2>1, <2>2, <2>3
<1>15. ASSUME NEW t \in Tabs, impersonate(t) PROVE TypeInv'
  <2>1. TypeOK'
    BY <1>15 DEF impersonate
  <2>2. Rooted'
    BY <1>15 DEF impersonate, Rooted, AtHand
  <2>3. ASSUME NEW u \in Tabs PROVE AtHand(u)'
    BY <1>15, <2>1 DEF impersonate, AtHand, Unused, Held
  <2> QED BY <2>1, <2>2, <2>3
<1>16. ASSUME NEW t \in Tabs, exitImpersonation(t) PROVE TypeInv'
  <2>1. TypeOK'
    BY <1>16 DEF exitImpersonation
  <2>2. Rooted'
    BY <1>16 DEF exitImpersonation, Rooted, AtHand
  <2>3. ASSUME NEW u \in Tabs PROVE AtHand(u)'
    BY <1>16, <2>1 DEF exitImpersonation, AtHand, Unused, Held
  <2> QED BY <2>1, <2>2, <2>3
<1>17. ASSUME NEW t \in Tabs, Expire(t) PROVE TypeInv'
  <2>1. TypeOK'
    BY <1>17 DEF Expire, Expired
  <2>2. Rooted'
    BY <1>17 DEF Expire, Rooted, AtHand, Expired
  <2>3. ASSUME NEW u \in Tabs PROVE AtHand(u)'
    BY <1>17, <2>1 DEF Expire, AtHand, Unused, Held
  <2> QED BY <2>1, <2>2, <2>3
<1>20. ASSUME NEW t \in Tabs, serverFails(t) PROVE TypeInv'
  <2>1. TypeOK'
    BY <1>20 DEF serverFails
  <2>2. Rooted'
    BY <1>20 DEF serverFails, Rooted, AtHand
  <2>3. ASSUME NEW u \in Tabs PROVE AtHand(u)'
    BY <1>20, <2>1 DEF serverFails, AtHand
  <2> QED BY <2>1, <2>2, <2>3
<1>18. CASE Deactivate
  BY <1>18 DEF Deactivate, Rooted, AtHand
<1>19. CASE UNCHANGED vars
  BY <1>19 DEF Rooted, AtHand
<1> QED
  BY <1>1, <1>2, <1>3, <1>4, <1>5, <1>6, <1>7, <1>8, <1>9, <1>10, <1>11, <1>12, <1>13, <1>14,
         <1>15, <1>16, <1>17, <1>18, <1>19, <1>20 DEF Next, Settles

-----------------------------------------------------------------------------
\* Initially nothing is under way.
LEMMA CalmInit == Init => CalmInv
BY SessionsAssumption, TokenFacts DEF Init, CalmInv, OneActivity, Presents, Identity, Live,
       ReuseEndsSessions

\* Each step keeps what calm promises.  rotate leaves a login without a live row, which is why
\* the one that issueRefreshToken writes is its only one; killSessions, alone, ends them all.
LEMMA CalmStep == TypeInv /\ calm /\ CalmInv /\ [Next]_vars => CalmInv'
<1> SUFFICES ASSUME TypeInv, calm, CalmInv, [Next]_vars PROVE CalmInv'
  OBVIOUS
<1> USE TokenFacts DEF TypeInv, TypeOK, Answers, AccessBecomes, vars, fixed, server, tab,
       refreshing, leaving
<1>1. ASSUME NEW t \in Tabs, refreshAccessToken(t) PROVE CalmInv'
  <2>1. OneActivity'
    BY <1>1 DEF refreshAccessToken, CalmInv, OneActivity, MayAsk, Idle
  <2>2. ASSUME NEW u \in Tabs PROVE Presents(u)'
    BY <1>1 DEF refreshAccessToken, CalmInv, Presents, Live
  <2>3. ASSUME NEW u \in Tabs PROVE Identity(u)'
    BY <1>1 DEF refreshAccessToken, CalmInv, Identity
  <2>4. (\A a, b \in Live : root[a] = root[b] => a = b)' /\ ReuseEndsSessions'
    BY <1>1 DEF refreshAccessToken, CalmInv, Live, ReuseEndsSessions
  <2> QED BY <2>1, <2>2, <2>3, <2>4 DEF CalmInv
<1>2. ASSUME NEW t \in Tabs, login(t) PROVE CalmInv'
  <2>1. OneActivity'
    BY <1>2 DEF login, CalmInv, OneActivity, MayAsk, Idle
  <2>2. ASSUME NEW u \in Tabs PROVE Presents(u)'
    BY <1>2 DEF login, CalmInv, Presents, Live
  <2>3. ASSUME NEW u \in Tabs PROVE Identity(u)'
    BY <1>2 DEF login, CalmInv, Identity
  <2>4. (\A a, b \in Live : root[a] = root[b] => a = b)' /\ ReuseEndsSessions'
    BY <1>2 DEF login, CalmInv, Live, ReuseEndsSessions
  <2> QED BY <2>1, <2>2, <2>3, <2>4 DEF CalmInv
<1>3. ASSUME NEW t \in Tabs, findToken(t) PROVE CalmInv'
  <2>1. OneActivity'
    BY <1>3 DEF findToken, CalmInv, OneActivity
  <2>2. ASSUME NEW u \in Tabs PROVE Presents(u)'
    BY <1>3 DEF findToken, CalmInv, AtHand, Presents, Live
  <2>3. ASSUME NEW u \in Tabs PROVE Identity(u)'
    BY <1>3 DEF findToken, CalmInv, Identity
  <2>4. (\A a, b \in Live : root[a] = root[b] => a = b)' /\ ReuseEndsSessions'
    BY <1>3 DEF findToken, CalmInv, Live, ReuseEndsSessions
  <2> QED BY <2>1, <2>2, <2>3, <2>4 DEF CalmInv
<1>4. ASSUME NEW t \in Tabs, killSessions(t) PROVE CalmInv'
  <2>1. OneActivity'
    BY <1>4 DEF killSessions, CalmInv, OneActivity
  <2>2. ASSUME NEW u \in Tabs PROVE Presents(u)'
    BY <1>4 DEF killSessions, CalmInv, OneActivity, Presents, Live
  <2>3. ASSUME NEW u \in Tabs PROVE Identity(u)'
    BY <1>4 DEF killSessions, CalmInv, Identity
  <2>4. (\A a, b \in Live : root[a] = root[b] => a = b)' /\ ReuseEndsSessions'
    BY <1>4 DEF killSessions, CalmInv, Live, ReuseEndsSessions
  <2> QED BY <2>1, <2>2, <2>3, <2>4 DEF CalmInv
<1>5. ASSUME NEW t \in Tabs, checkUser(t) PROVE CalmInv'
  <2>1. OneActivity'
    BY <1>5 DEF checkUser, CalmInv, OneActivity
  <2>2. ASSUME NEW u \in Tabs PROVE Presents(u)'
    BY <1>5 DEF checkUser, CalmInv, Presents, Live
  <2>3. ASSUME NEW u \in Tabs PROVE Identity(u)'
    BY <1>5 DEF checkUser, CalmInv, Identity
  <2>4. (\A a, b \in Live : root[a] = root[b] => a = b)' /\ ReuseEndsSessions'
    BY <1>5 DEF checkUser, CalmInv, Live, ReuseEndsSessions
  <2> QED BY <2>1, <2>2, <2>3, <2>4 DEF CalmInv
<1>6. ASSUME NEW t \in Tabs, rotate(t) PROVE CalmInv'
  <2>0. rtok[t] \in Live /\ root[rtok[t]] \notin doomed /\ Live' = Live \ {rtok[t]}
    <3>1. rtok[t] \in Live /\ ReuseEndsSessions
      BY <1>6 DEF rotate, CalmInv, Presents
    <3>2. tokens' = [tokens EXCEPT ![rtok[t]] = "revoked"]
      BY <1>6 DEF rotate
    <3>3. \A n \in Tokens : tokens'[n] = IF n = rtok[t] THEN "revoked" ELSE tokens[n]
      BY <3>2
    <3>4. Live' = Live \ {rtok[t]}
      BY <3>3 DEF Live
    <3> QED BY <3>1, <3>4 DEF ReuseEndsSessions
  <2>1. OneActivity'
    BY <1>6 DEF rotate, CalmInv, OneActivity
  <2>2. ASSUME NEW u \in Tabs PROVE Presents(u)'
    <3>1. CASE u = t
      BY <1>6, <2>0, <3>1 DEF rotate, CalmInv, Presents
    <3>2. CASE u # t
      BY <1>6, <3>2 DEF rotate, CalmInv, OneActivity, Presents
    <3> QED BY <3>1, <3>2
  <2>3. ASSUME NEW u \in Tabs PROVE Identity(u)'
    BY <1>6 DEF rotate, CalmInv, Identity
  <2>4. (\A a, b \in Live : root[a] = root[b] => a = b)' /\ ReuseEndsSessions'
    BY <1>6, <2>0 DEF rotate, CalmInv, ReuseEndsSessions
  <2> QED BY <2>1, <2>2, <2>3, <2>4 DEF CalmInv
<1>7. ASSUME NEW t \in Tabs, issueRefreshToken(t) PROVE CalmInv'
  <2>0. PICK n, l : Issues(t, n, l)
    BY <1>7, Issued
  <2>1. OneActivity'
    BY <1>7 DEF issueRefreshToken, CalmInv, OneActivity
  <2>2. ASSUME NEW u \in Tabs PROVE Presents(u)'
    BY <1>7 DEF issueRefreshToken, CalmInv, OneActivity, Presents
  <2>3. ASSUME NEW u \in Tabs PROVE Identity(u)'
    BY <1>7 DEF issueRefreshToken, CalmInv, Identity
  <2>4. Live' = Live \union {n} /\ \A k \in Live : root'[k] = root[k]
    BY <2>0 DEF Issues, Live, Unused
  <2>5. root'[n] = l /\ l \notin doomed' /\ doomed' \subseteq doomed
    <3>1. root'[n] = l
      BY <2>0 DEF Issues, Unused
    <3>2. rtok[t] # NoToken => root[rtok[t]] \notin doomed
      BY <1>7 DEF issueRefreshToken, CalmInv, Presents
    <3> QED BY <2>0, <3>1, <3>2 DEF Issues
  <2>6. \A k \in Live : root[k] # l
    <3>1. CASE rtok[t] = NoToken
      BY <2>0, <3>1 DEF Issues, NewLogins, Live, Unused
    <3>2. CASE rtok[t] # NoToken
      BY <1>7, <2>0, <3>2 DEF Issues, issueRefreshToken, CalmInv, Presents
    <3> QED BY <3>1, <3>2
  <2>7. (\A a, b \in Live : root[a] = root[b] => a = b)' /\ ReuseEndsSessions'
    <3>1. (\A a, b \in Live : root[a] = root[b] => a = b) /\ ReuseEndsSessions
      BY DEF CalmInv
    <3> QED BY <2>4, <2>5, <2>6, <3>1 DEF ReuseEndsSessions
  <2> QED BY <2>1, <2>2, <2>3, <2>7 DEF CalmInv
<1>8. ASSUME NEW t \in Tabs, setRefreshCookie(t) PROVE CalmInv'
  <2>1. OneActivity'
    BY <1>8 DEF setRefreshCookie, CalmInv, OneActivity
  <2>2. ASSUME NEW u \in Tabs PROVE Presents(u)'
    BY <1>8 DEF setRefreshCookie, CalmInv, Presents, Live
  <2>3. ASSUME NEW u \in Tabs PROVE Identity(u)'
    BY <1>8 DEF setRefreshCookie, CalmInv, OneActivity, Identity
  <2>4. (\A a, b \in Live : root[a] = root[b] => a = b)' /\ ReuseEndsSessions'
    BY <1>8 DEF setRefreshCookie, CalmInv, Live, ReuseEndsSessions
  <2> QED BY <2>1, <2>2, <2>3, <2>4 DEF CalmInv
<1>9. ASSUME NEW t \in Tabs, refused(t) PROVE CalmInv'
  <2>1. OneActivity'
    BY <1>9 DEF refused, CalmInv, OneActivity
  <2>2. ASSUME NEW u \in Tabs PROVE Presents(u)'
    BY <1>9 DEF refused, CalmInv, Presents, Live
  <2>3. ASSUME NEW u \in Tabs PROVE Identity(u)'
    BY <1>9 DEF refused, CalmInv, OneActivity, Identity
  <2>4. (\A a, b \in Live : root[a] = root[b] => a = b)' /\ ReuseEndsSessions'
    BY <1>9 DEF refused, CalmInv, Live, ReuseEndsSessions
  <2> QED BY <2>1, <2>2, <2>3, <2>4 DEF CalmInv
<1>10. ASSUME NEW t \in Tabs, Reload(t) PROVE CalmInv'
  <2>1. OneActivity'
    BY <1>10 DEF Reload, CalmInv, OneActivity
  <2>2. ASSUME NEW u \in Tabs PROVE Presents(u)'
    BY <1>10 DEF Reload, CalmInv, Presents, Live
  <2>3. ASSUME NEW u \in Tabs PROVE Identity(u)'
    BY <1>10 DEF Reload, CalmInv, Identity
  <2>4. (\A a, b \in Live : root[a] = root[b] => a = b)' /\ ReuseEndsSessions'
    BY <1>10 DEF Reload, CalmInv, Live, ReuseEndsSessions
  <2> QED BY <2>1, <2>2, <2>3, <2>4 DEF CalmInv
<1>11. ASSUME NEW t \in Tabs, logout(t) PROVE CalmInv'
  <2>1. OneActivity'
    BY <1>11 DEF logout, CalmInv, OneActivity, Idle
  <2>2. ASSUME NEW u \in Tabs PROVE Presents(u)'
    BY <1>11 DEF logout, CalmInv, Presents, Live
  <2>3. ASSUME NEW u \in Tabs PROVE Identity(u)'
    BY <1>11 DEF logout, CalmInv, Identity
  <2>4. (\A a, b \in Live : root[a] = root[b] => a = b)' /\ ReuseEndsSessions'
    BY <1>11 DEF logout, CalmInv, Live, ReuseEndsSessions
  <2> QED BY <2>1, <2>2, <2>3, <2>4 DEF CalmInv
<1>12. ASSUME NEW t \in Tabs, revoke(t) PROVE CalmInv'
  <2>1. OneActivity'
    BY <1>12 DEF revoke, CalmInv, OneActivity
  <2>2. ASSUME NEW u \in Tabs PROVE Presents(u)'
    BY <1>12 DEF revoke, CalmInv, OneActivity, Presents, Live
  <2>3. ASSUME NEW u \in Tabs PROVE Identity(u)'
    BY <1>12 DEF revoke, CalmInv, Identity
  <2>4. (\A a, b \in Live : root[a] = root[b] => a = b)' /\ ReuseEndsSessions'
    BY <1>12 DEF revoke, CalmInv, Live, ReuseEndsSessions
  <2> QED BY <2>1, <2>2, <2>3, <2>4 DEF CalmInv
<1>13. ASSUME NEW t \in Tabs, clearCookie(t) PROVE CalmInv'
  <2>1. OneActivity'
    BY <1>13 DEF clearCookie, CalmInv, OneActivity
  <2>2. ASSUME NEW u \in Tabs PROVE Presents(u)'
    BY <1>13 DEF clearCookie, CalmInv, Presents, Live
  <2>3. ASSUME NEW u \in Tabs PROVE Identity(u)'
    BY <1>13 DEF clearCookie, CalmInv, OneActivity, Identity
  <2>4. (\A a, b \in Live : root[a] = root[b] => a = b)' /\ ReuseEndsSessions'
    BY <1>13 DEF clearCookie, CalmInv, Live, ReuseEndsSessions
  <2> QED BY <2>1, <2>2, <2>3, <2>4 DEF CalmInv
<1>14. ASSUME NEW t \in Tabs, startImpersonation(t) PROVE CalmInv'
  <2>1. OneActivity'
    BY <1>14 DEF startImpersonation, CalmInv, OneActivity, Idle
  <2>2. ASSUME NEW u \in Tabs PROVE Presents(u)'
    BY <1>14 DEF startImpersonation, CalmInv, Presents, Live
  <2>3. ASSUME NEW u \in Tabs PROVE Identity(u)'
    BY <1>14 DEF startImpersonation, CalmInv, Identity, Idle
  <2>4. (\A a, b \in Live : root[a] = root[b] => a = b)' /\ ReuseEndsSessions'
    BY <1>14 DEF startImpersonation, CalmInv, Live, ReuseEndsSessions
  <2> QED BY <2>1, <2>2, <2>3, <2>4 DEF CalmInv
<1>15. ASSUME NEW t \in Tabs, impersonate(t) PROVE CalmInv'
  <2>1. OneActivity'
    BY <1>15 DEF impersonate, CalmInv, OneActivity
  <2>2. ASSUME NEW u \in Tabs PROVE Presents(u)'
    BY <1>15 DEF impersonate, CalmInv, Presents, Live
  <2>3. ASSUME NEW u \in Tabs PROVE Identity(u)'
    BY <1>15 DEF impersonate, CalmInv, Identity
  <2>4. (\A a, b \in Live : root[a] = root[b] => a = b)' /\ ReuseEndsSessions'
    BY <1>15 DEF impersonate, CalmInv, Live, ReuseEndsSessions
  <2> QED BY <2>1, <2>2, <2>3, <2>4 DEF CalmInv
<1>16. ASSUME NEW t \in Tabs, exitImpersonation(t) PROVE CalmInv'
  <2>1. OneActivity'
    BY <1>16 DEF exitImpersonation, CalmInv, OneActivity
  <2>2. ASSUME NEW u \in Tabs PROVE Presents(u)'
    BY <1>16 DEF exitImpersonation, CalmInv, Presents, Live
  <2>3. ASSUME NEW u \in Tabs PROVE Identity(u)'
    BY <1>16 DEF exitImpersonation, CalmInv, Identity
  <2>4. (\A a, b \in Live : root[a] = root[b] => a = b)' /\ ReuseEndsSessions'
    BY <1>16 DEF exitImpersonation, CalmInv, Live, ReuseEndsSessions
  <2> QED BY <2>1, <2>2, <2>3, <2>4 DEF CalmInv
<1>17. ASSUME NEW t \in Tabs, Expire(t) PROVE CalmInv'
  <2>1. OneActivity'
    BY <1>17 DEF Expire, CalmInv, OneActivity, Expired
  <2>2. ASSUME NEW u \in Tabs PROVE Presents(u)'
    BY <1>17 DEF Expire, CalmInv, Presents, Live
  <2>3. ASSUME NEW u \in Tabs PROVE Identity(u)'
    BY <1>17 DEF Expire, CalmInv, Identity, Expired
  <2>4. (\A a, b \in Live : root[a] = root[b] => a = b)' /\ ReuseEndsSessions'
    BY <1>17 DEF Expire, CalmInv, Live, ReuseEndsSessions
  <2> QED BY <2>1, <2>2, <2>3, <2>4 DEF CalmInv
<1>20. ASSUME NEW t \in Tabs, serverFails(t) PROVE CalmInv'
  <2>1. OneActivity'
    BY <1>20 DEF serverFails, CalmInv, OneActivity
  <2>2. ASSUME NEW u \in Tabs PROVE Presents(u)'
    BY <1>20 DEF serverFails, CalmInv, Presents, Live
  <2>3. ASSUME NEW u \in Tabs PROVE Identity(u)'
    BY <1>20 DEF serverFails, CalmInv, Identity
  <2>4. (\A a, b \in Live : root[a] = root[b] => a = b)' /\ ReuseEndsSessions'
    BY <1>20 DEF serverFails, CalmInv, Live, ReuseEndsSessions
  <2> QED BY <2>1, <2>2, <2>3, <2>4 DEF CalmInv
<1>18. CASE Deactivate
  BY <1>18 DEF Deactivate, CalmInv, OneActivity, Presents, Identity, Live, ReuseEndsSessions
<1>19. CASE UNCHANGED vars
  BY <1>19 DEF CalmInv, OneActivity, Presents, Identity, Live, ReuseEndsSessions
<1> QED
  BY <1>1, <1>2, <1>3, <1>4, <1>5, <1>6, <1>7, <1>8, <1>9, <1>10, <1>11, <1>12, <1>13, <1>14,
         <1>15, <1>16, <1>17, <1>18, <1>19, <1>20 DEF Next, Settles

-----------------------------------------------------------------------------
\* Initially there are no cookies.
LEMMA KeptInit == Init => KeptInv
BY SessionsAssumption, TokenFacts DEF Init, KeptInv, CookieLives, FromJar

\* Each step keeps what calm and kept promise together.  The only row presented is the one in
\* the jar, which is live unless the request under way has replaced it; so findToken never
\* finds a revoked row, and revoke takes the one live row of its login.
LEMMA KeptStep == TypeInv /\ calm /\ kept /\ CalmInv /\ KeptInv /\ [Next]_vars => KeptInv'
<1> SUFFICES ASSUME TypeInv, calm, kept, CalmInv, KeptInv, [Next]_vars PROVE KeptInv'
  OBVIOUS
<1> USE TokenFacts DEF TypeInv, TypeOK, Answers, AccessBecomes, vars, fixed, server, tab,
       refreshing, leaving
<1>1. ASSUME NEW t \in Tabs, refreshAccessToken(t) PROVE KeptInv'
  <2>1. (\A i, j \in Jars : cookie[i] = cookie[j] /\ cookie[i] # NoToken => i = j)'
    BY <1>1 DEF refreshAccessToken, KeptInv
  <2>2. ASSUME NEW j \in Jars PROVE CookieLives(j)'
     BY <1>1 DEF refreshAccessToken, KeptInv, CalmInv, MayAsk, Idle, CookieLives, Replaces,
           FromJar, Live
  <2>3. ASSUME NEW u \in Tabs PROVE FromJar(u)'
    BY <1>1 DEF refreshAccessToken, KeptInv, CalmInv, MayAsk, Idle, FromJar, Live
  <2> QED BY <2>1, <2>2, <2>3 DEF KeptInv
<1>2. ASSUME NEW t \in Tabs, login(t) PROVE KeptInv'
  <2>1. (\A i, j \in Jars : cookie[i] = cookie[j] /\ cookie[i] # NoToken => i = j)'
    BY <1>2 DEF login, KeptInv
  <2>2. ASSUME NEW j \in Jars PROVE CookieLives(j)'
    BY <1>2 DEF login, KeptInv, CalmInv, MayAsk, Idle, CookieLives, Replaces, FromJar, Live
  <2>3. ASSUME NEW u \in Tabs PROVE FromJar(u)'
    BY <1>2 DEF login, KeptInv, CalmInv, MayAsk, Idle, FromJar, Live
  <2> QED BY <2>1, <2>2, <2>3 DEF KeptInv
<1>3. ASSUME NEW t \in Tabs, findToken(t) PROVE KeptInv'
  <2>0. rtok[t] \in Live
    <3>1. rtok[t] = cookie[jar[t]] /\ rtok[t] # NoToken /\ CookieLives(jar[t])
      BY <1>3 DEF findToken, KeptInv, FromJar, AtHand
    <3>2. \A u \in Tabs : ~Replaces(u)
      BY <1>3 DEF findToken, CalmInv, OneActivity, Replaces
    <3> QED BY <3>1, <3>2 DEF CookieLives
  <2>1. (\A i, j \in Jars : cookie[i] = cookie[j] /\ cookie[i] # NoToken => i = j)'
    BY <1>3 DEF findToken, KeptInv
  <2>2. ASSUME NEW j \in Jars PROVE CookieLives(j)'
    BY <1>3 DEF findToken, KeptInv, CookieLives, Replaces, Live
  <2>3. ASSUME NEW u \in Tabs PROVE FromJar(u)'
    BY <1>3, <2>0 DEF findToken, KeptInv, FromJar, Live
  <2> QED BY <2>1, <2>2, <2>3 DEF KeptInv
<1>4. ASSUME NEW t \in Tabs, killSessions(t) PROVE KeptInv'
  <2>1. (\A i, j \in Jars : cookie[i] = cookie[j] /\ cookie[i] # NoToken => i = j)'
    BY <1>4 DEF killSessions, KeptInv
  <2>2. ASSUME NEW j \in Jars PROVE CookieLives(j)'
    BY <1>4 DEF killSessions, KeptInv, CalmInv, OneActivity, CookieLives, Replaces, FromJar, Live
  <2>3. ASSUME NEW u \in Tabs PROVE FromJar(u)'
    BY <1>4 DEF killSessions, KeptInv, CalmInv, OneActivity, FromJar, Live
  <2> QED BY <2>1, <2>2, <2>3 DEF KeptInv
<1>5. ASSUME NEW t \in Tabs, checkUser(t) PROVE KeptInv'
  <2>1. (\A i, j \in Jars : cookie[i] = cookie[j] /\ cookie[i] # NoToken => i = j)'
    BY <1>5 DEF checkUser, KeptInv
  <2>2. ASSUME NEW j \in Jars PROVE CookieLives(j)'
    BY <1>5 DEF checkUser, KeptInv, CookieLives, Replaces, FromJar, Live
  <2>3. ASSUME NEW u \in Tabs PROVE FromJar(u)'
    BY <1>5 DEF checkUser, KeptInv, FromJar, Live
  <2> QED BY <2>1, <2>2, <2>3 DEF KeptInv
<1>6. ASSUME NEW t \in Tabs, rotate(t) PROVE KeptInv'
  <2>1. (\A i, j \in Jars : cookie[i] = cookie[j] /\ cookie[i] # NoToken => i = j)'
    BY <1>6 DEF rotate, KeptInv
  <2>2. ASSUME NEW j \in Jars PROVE CookieLives(j)'
    BY <1>6 DEF rotate, KeptInv, CalmInv, OneActivity, CookieLives, Replaces, FromJar, Live
  <2>3. ASSUME NEW u \in Tabs PROVE FromJar(u)'
    BY <1>6 DEF rotate, KeptInv, CalmInv, OneActivity, FromJar, Live
  <2> QED BY <2>1, <2>2, <2>3 DEF KeptInv
<1>7. ASSUME NEW t \in Tabs, issueRefreshToken(t) PROVE KeptInv'
  <2>0. PICK n, l : Issues(t, n, l)
    BY <1>7, Issued
  <2>1. (\A i, j \in Jars : cookie[i] = cookie[j] /\ cookie[i] # NoToken => i = j)'
    BY <1>7 DEF issueRefreshToken, KeptInv
  <2>4. Live' = Live \union {n} /\ \A j \in Jars : cookie[j] # n
    BY <2>0 DEF Issues, Live, Unused, Held
  <2>5. rtok'[t] = n /\ rstep'[t] = "reply"
    BY <1>7, <2>0 DEF Issues, issueRefreshToken
  <2>6. \A u \in Tabs : u # t => rstep[u] = "idle" /\ rstep'[u] = "idle"
    BY <1>7 DEF issueRefreshToken, CalmInv, OneActivity
  <2>7. \A u \in Tabs : ostep[u] = "idle" /\ ostep'[u] = "idle"
    BY <1>7 DEF issueRefreshToken, CalmInv, OneActivity
  <2>8. cookie' = cookie /\ jar' = jar
    BY <1>7 DEF issueRefreshToken
  <2>2. ASSUME NEW j \in Jars PROVE CookieLives(j)'
    <3>1. CASE cookie[j] \in Live
      BY <2>4, <2>8, <3>1 DEF CookieLives
    <3>2. ASSUME NEW u \in Tabs, jar[u] = j, Replaces(u) PROVE jar[t] = j
      BY <1>7, <2>6, <2>7, <3>2 DEF Replaces
    <3>3. jar[t] = j => CookieLives(j)'
      BY <2>5, <2>8 DEF CookieLives, Replaces
    <3> QED BY <2>8, <3>1, <3>2, <3>3 DEF CookieLives, KeptInv
  <2>3. ASSUME NEW u \in Tabs PROVE FromJar(u)'
    BY <2>4, <2>5, <2>6, <2>7, <2>8 DEF FromJar
  <2> QED BY <2>1, <2>2, <2>3 DEF KeptInv
<1>8. ASSUME NEW t \in Tabs, setRefreshCookie(t) PROVE KeptInv'
  <2>1. (\A i, j \in Jars : cookie[i] = cookie[j] /\ cookie[i] # NoToken => i = j)'
    BY <1>8 DEF setRefreshCookie, KeptInv, FromJar
  <2>2. ASSUME NEW j \in Jars PROVE CookieLives(j)'
     BY <1>8 DEF setRefreshCookie, KeptInv, CalmInv, OneActivity, CookieLives, Replaces, FromJar,
           Live
  <2>3. ASSUME NEW u \in Tabs PROVE FromJar(u)'
    BY <1>8 DEF setRefreshCookie, KeptInv, CalmInv, OneActivity, FromJar, Live
  <2> QED BY <2>1, <2>2, <2>3 DEF KeptInv
<1>9. ASSUME NEW t \in Tabs, refused(t) PROVE KeptInv'
  <2>1. (\A i, j \in Jars : cookie[i] = cookie[j] /\ cookie[i] # NoToken => i = j)'
    BY <1>9 DEF refused, KeptInv
  <2>2. ASSUME NEW j \in Jars PROVE CookieLives(j)'
    BY <1>9 DEF refused, KeptInv, CalmInv, OneActivity, CookieLives, Replaces, FromJar, Live
  <2>3. ASSUME NEW u \in Tabs PROVE FromJar(u)'
    BY <1>9 DEF refused, KeptInv, CalmInv, OneActivity, FromJar, Live
  <2> QED BY <2>1, <2>2, <2>3 DEF KeptInv
<1>10. ASSUME NEW t \in Tabs, Reload(t) PROVE KeptInv'
  <2>1. (\A i, j \in Jars : cookie[i] = cookie[j] /\ cookie[i] # NoToken => i = j)'
    BY <1>10 DEF Reload, KeptInv
  <2>2. ASSUME NEW j \in Jars PROVE CookieLives(j)'
    BY <1>10 DEF Reload, KeptInv, CookieLives, Replaces, FromJar, Live
  <2>3. ASSUME NEW u \in Tabs PROVE FromJar(u)'
    BY <1>10 DEF Reload, KeptInv, FromJar, Live
  <2> QED BY <2>1, <2>2, <2>3 DEF KeptInv
<1>11. ASSUME NEW t \in Tabs, logout(t) PROVE KeptInv'
  <2>1. (\A i, j \in Jars : cookie[i] = cookie[j] /\ cookie[i] # NoToken => i = j)'
    BY <1>11 DEF logout, KeptInv
  <2>2. ASSUME NEW j \in Jars PROVE CookieLives(j)'
    BY <1>11 DEF logout, KeptInv, CalmInv, Idle, CookieLives, Replaces, FromJar, Live
  <2>3. ASSUME NEW u \in Tabs PROVE FromJar(u)'
    BY <1>11 DEF logout, KeptInv, CalmInv, Idle, FromJar, Live
  <2> QED BY <2>1, <2>2, <2>3 DEF KeptInv
<1>12. ASSUME NEW t \in Tabs, revoke(t) PROVE KeptInv'
  <2>0. otok[t] # NoToken => otok[t] \in Live
    <3>1. otok[t] = cookie[jar[t]] /\ CookieLives(jar[t])
      BY <1>12 DEF revoke, KeptInv, FromJar
    <3>2. \A u \in Tabs : ~Replaces(u)
      BY <1>12 DEF revoke, CalmInv, OneActivity, Replaces
    <3> QED BY <3>1, <3>2 DEF CookieLives
  <2>4. Live' = Live \ {otok[t]}
    <3>1. tokens' = [n \in Tokens |->
                      IF n = otok[t] /\ tokens[n] = "live" THEN "revoked" ELSE tokens[n]]
      BY <1>12 DEF revoke
    <3> QED BY <3>1 DEF Live
  <2>5. cookie' = cookie /\ jar' = jar /\ rstep' = rstep /\ ostep'[t] = "reply" /\ otok' = otok
    BY <1>12 DEF revoke
  <2>6. \A u \in Tabs : rstep[u] = "idle" /\ (u # t => ostep[u] = "idle")
    BY <1>12 DEF revoke, CalmInv, OneActivity
  <2>7. otok[t] = cookie[jar[t]]
    BY <1>12 DEF revoke, KeptInv, FromJar
  <2>1. (\A i, j \in Jars : cookie[i] = cookie[j] /\ cookie[i] # NoToken => i = j)'
    BY <1>12 DEF revoke, KeptInv
  <2>2. ASSUME NEW j \in Jars PROVE CookieLives(j)'
    <3>1. CASE cookie[j] = otok[t] /\ otok[t] # NoToken
      <4>1. jar[t] = j
        BY <2>7, <3>1 DEF KeptInv
      <4> QED BY <2>5, <2>7, <4>1 DEF CookieLives, Replaces
    <3>2. CASE cookie[j] # otok[t] /\ cookie[j] # NoToken
      <4>1. \A u \in Tabs : ~Replaces(u)
        BY <1>12, <2>6 DEF revoke, Replaces
      <4>2. cookie[j] \in Live
        BY <3>2, <4>1 DEF KeptInv, CookieLives
      <4> QED BY <2>4, <2>5, <3>2, <4>2 DEF CookieLives
    <3> QED BY <2>5, <3>1, <3>2 DEF CookieLives
  <2>3. ASSUME NEW u \in Tabs PROVE FromJar(u)'
    <3>2. otok[t] # NoToken => \A n \in Live' : root'[n] # root'[otok[t]]
      BY <1>12, <2>0, <2>4 DEF revoke, CalmInv
    <3>3. rstep'[u] = "idle" /\ (ostep'[u] # "idle" => u = t) /\ otok' = otok
      BY <1>12 DEF revoke, CalmInv, OneActivity
    <3>4. otok[t] = cookie'[jar'[t]]
      BY <1>12 DEF revoke, KeptInv, FromJar
    <3> QED BY <3>2, <3>3, <3>4 DEF FromJar
  <2> QED BY <2>1, <2>2, <2>3 DEF KeptInv
<1>13. ASSUME NEW t \in Tabs, clearCookie(t) PROVE KeptInv'
  <2>1. (\A i, j \in Jars : cookie[i] = cookie[j] /\ cookie[i] # NoToken => i = j)'
    BY <1>13 DEF clearCookie, KeptInv, FromJar
  <2>2. ASSUME NEW j \in Jars PROVE CookieLives(j)'
    BY <1>13 DEF clearCookie, KeptInv, CalmInv, OneActivity, CookieLives, Replaces, FromJar, Live
  <2>3. ASSUME NEW u \in Tabs PROVE FromJar(u)'
    BY <1>13 DEF clearCookie, KeptInv, CalmInv, OneActivity, FromJar, Live
  <2> QED BY <2>1, <2>2, <2>3 DEF KeptInv
<1>14. ASSUME NEW t \in Tabs, startImpersonation(t) PROVE KeptInv'
  <2>1. (\A i, j \in Jars : cookie[i] = cookie[j] /\ cookie[i] # NoToken => i = j)'
    BY <1>14 DEF startImpersonation, KeptInv
  <2>2. ASSUME NEW j \in Jars PROVE CookieLives(j)'
    BY <1>14 DEF startImpersonation, KeptInv, CookieLives, Replaces, FromJar, Live
  <2>3. ASSUME NEW u \in Tabs PROVE FromJar(u)'
    BY <1>14 DEF startImpersonation, KeptInv, FromJar, Live
  <2> QED BY <2>1, <2>2, <2>3 DEF KeptInv
<1>15. ASSUME NEW t \in Tabs, impersonate(t) PROVE KeptInv'
  <2>1. (\A i, j \in Jars : cookie[i] = cookie[j] /\ cookie[i] # NoToken => i = j)'
    BY <1>15 DEF impersonate, KeptInv
  <2>2. ASSUME NEW j \in Jars PROVE CookieLives(j)'
    BY <1>15 DEF impersonate, KeptInv, CookieLives, Replaces, FromJar, Live
  <2>3. ASSUME NEW u \in Tabs PROVE FromJar(u)'
    BY <1>15 DEF impersonate, KeptInv, FromJar, Live
  <2> QED BY <2>1, <2>2, <2>3 DEF KeptInv
<1>16. ASSUME NEW t \in Tabs, exitImpersonation(t) PROVE KeptInv'
  <2>1. (\A i, j \in Jars : cookie[i] = cookie[j] /\ cookie[i] # NoToken => i = j)'
    BY <1>16 DEF exitImpersonation, KeptInv
  <2>2. ASSUME NEW j \in Jars PROVE CookieLives(j)'
    BY <1>16 DEF exitImpersonation, KeptInv, CookieLives, Replaces, FromJar, Live
  <2>3. ASSUME NEW u \in Tabs PROVE FromJar(u)'
    BY <1>16 DEF exitImpersonation, KeptInv, FromJar, Live
  <2> QED BY <2>1, <2>2, <2>3 DEF KeptInv
<1>17. ASSUME NEW t \in Tabs, Expire(t) PROVE KeptInv'
  <2>1. (\A i, j \in Jars : cookie[i] = cookie[j] /\ cookie[i] # NoToken => i = j)'
    BY <1>17 DEF Expire, KeptInv
  <2>2. ASSUME NEW j \in Jars PROVE CookieLives(j)'
    BY <1>17 DEF Expire, KeptInv, CookieLives, Replaces, FromJar, Live
  <2>3. ASSUME NEW u \in Tabs PROVE FromJar(u)'
    BY <1>17 DEF Expire, KeptInv, FromJar, Live
  <2> QED BY <2>1, <2>2, <2>3 DEF KeptInv
<1>20. ASSUME NEW t \in Tabs, serverFails(t) PROVE KeptInv'
  BY <1>20 DEF serverFails
<1>18. CASE Deactivate
  BY <1>18 DEF Deactivate, KeptInv, CookieLives, Replaces, FromJar, Live
<1>19. CASE UNCHANGED vars
  BY <1>19 DEF KeptInv, CookieLives, Replaces, FromJar, Live
<1> QED
  BY <1>1, <1>2, <1>3, <1>4, <1>5, <1>6, <1>7, <1>8, <1>9, <1>10, <1>11, <1>12, <1>13, <1>14,
         <1>15, <1>16, <1>17, <1>18, <1>19, <1>20 DEF Next, Settles

-----------------------------------------------------------------------------
\* Rows, cookies and locals have the shape the code gives them, whatever overlaps or is lost.
THEOREM SessionTypeCorrect == Spec => []TypeOK
<1>1. Init => TypeInv
  BY TypeInit
<1>2. TypeInv /\ [Next]_vars => TypeInv'
  BY TypeStep
<1>3. TypeInv => TypeOK
  BY DEF TypeInv
<1> QED BY <1>1, <1>2, <1>3, PTL DEF Spec

\* The three invariants hold together: calm and kept are fixed.
LEMMA SessionIInvHolds == Spec => []SessionIInv
<1>1. Init => SessionIInv
  BY TypeInit, CalmInit, KeptInit DEF SessionIInv
<1>2. SessionIInv /\ [Next]_vars => SessionIInv'
  <2> SUFFICES ASSUME SessionIInv, [Next]_vars PROVE SessionIInv'
    OBVIOUS
  <2>1. calm' = calm /\ kept' = kept
    BY DEF Next, Settles, vars, fixed, refreshAccessToken, login, findToken, killSessions,
           checkUser, rotate, issueRefreshToken, serverFails, setRefreshCookie, refused,
           Reload, logout, revoke, clearCookie, startImpersonation, impersonate, exitImpersonation, Expire,
           Deactivate
  <2>2. TypeInv'
    BY TypeStep DEF SessionIInv
  <2>3. calm' => CalmInv'
    BY <2>1, CalmStep DEF SessionIInv
  <2>4. calm' /\ kept' => KeptInv'
    BY <2>1, CalmStep, KeptStep DEF SessionIInv
  <2> QED BY <2>2, <2>3, <2>4 DEF SessionIInv
<1> QED BY <1>1, <1>2, PTL DEF Spec

\* While requests do not overlap: rotation leaves one live row to a login, a detected reuse ends
\* every session it says it ends, a tab acts for whom it shows, all that although replies are lost
\* and statements fail; while none is and none does, no session is ended for a reuse that was none.
THEOREM SessionInvCorrect == Spec => [](calm => SessionInv)
<1>1. SessionIInv => (calm => SessionInv)
  BY DEF SessionIInv, TypeInv, CalmInv, KeptInv, SessionInv, OneHeadPerLogin, NoFalseAlarm,
         ActsForShown, FromJar, Identity
<1> QED BY <1>1, SessionIInvHolds, PTL

\* When a logout is done, its login has no live row, while requests do not overlap, no reply is
\* lost and no statement fails (logout swallows the failure): the cookie it presented was that login's one live row.
THEOREM LogoutEndsCorrect == Spec => LogoutEndsSession
<1>1. SessionIInv /\ [Next]_vars =>
        \A t \in Tabs :
            calm /\ kept /\ ostep[t] = "reply" /\ ostep'[t] = "idle" /\ otok[t] # NoToken =>
                \A n \in Live : root[n] # root[otok[t]]
  BY DEF SessionIInv, KeptInv, FromJar
<1> QED BY <1>1, SessionIInvHolds, PTL DEF Spec, LogoutEndsSession

\* Once a deactivated user is locked out, no refresh, impersonation or exit from one gives any
\* tab an access token of his again, whatever overlaps or is lost: login and checkUser read the
\* account, and nothing that is put aside is his.
THEOREM LockedOutForGood == Spec => [](LockedOut => []LockedOut)
<1>1. TypeOK /\ LockedOut /\ [Next]_vars => LockedOut'
  <2> SUFFICES ASSUME TypeOK, LockedOut, [Next]_vars PROVE LockedOut'
    OBVIOUS
   <2> USE DEF TypeOK, LockedOut, Answers, AccessBecomes, vars, fixed, server, tab, refreshing,
         leaving
  <2>1. ASSUME NEW t \in Tabs, refreshAccessToken(t) PROVE LockedOut'
    BY <2>1 DEF refreshAccessToken
  <2>2. ASSUME NEW t \in Tabs, login(t) PROVE LockedOut'
    BY <2>2 DEF login
  <2>3. ASSUME NEW t \in Tabs, findToken(t) PROVE LockedOut'
    BY <2>3 DEF findToken
  <2>4. ASSUME NEW t \in Tabs, killSessions(t) PROVE LockedOut'
    BY <2>4 DEF killSessions
  <2>5. ASSUME NEW t \in Tabs, checkUser(t) PROVE LockedOut'
    BY <2>5 DEF checkUser
  <2>6. ASSUME NEW t \in Tabs, rotate(t) PROVE LockedOut'
    BY <2>6 DEF rotate
  <2>7. ASSUME NEW t \in Tabs, issueRefreshToken(t) PROVE LockedOut'
    BY <2>7 DEF issueRefreshToken
  <2>8. ASSUME NEW t \in Tabs, setRefreshCookie(t) PROVE LockedOut'
    BY <2>8 DEF setRefreshCookie
  <2>9. ASSUME NEW t \in Tabs, refused(t) PROVE LockedOut'
    BY <2>9 DEF refused
  <2>10. ASSUME NEW t \in Tabs, Reload(t) PROVE LockedOut'
    BY <2>10 DEF Reload
  <2>11. ASSUME NEW t \in Tabs, logout(t) PROVE LockedOut'
    BY <2>11 DEF logout
  <2>12. ASSUME NEW t \in Tabs, revoke(t) PROVE LockedOut'
    BY <2>12 DEF revoke
  <2>13. ASSUME NEW t \in Tabs, clearCookie(t) PROVE LockedOut'
    BY <2>13 DEF clearCookie
  <2>14. ASSUME NEW t \in Tabs, startImpersonation(t) PROVE LockedOut'
    BY <2>14 DEF startImpersonation
  <2>15. ASSUME NEW t \in Tabs, impersonate(t) PROVE LockedOut'
    BY <2>15 DEF impersonate
  <2>16. ASSUME NEW t \in Tabs, exitImpersonation(t) PROVE LockedOut'
    BY <2>16 DEF exitImpersonation
  <2>17. ASSUME NEW t \in Tabs, Expire(t) PROVE LockedOut'
    BY <2>17 DEF Expire, Expired
  <2>20. ASSUME NEW t \in Tabs, serverFails(t) PROVE LockedOut'
    BY <2>20 DEF serverFails
  <2>18. CASE Deactivate
    BY <2>18 DEF Deactivate
  <2>19. CASE UNCHANGED vars
    BY <2>19
  <2> QED
    BY <2>1, <2>2, <2>3, <2>4, <2>5, <2>6, <2>7, <2>8, <2>9, <2>10, <2>11, <2>12, <2>13, <2>14,
           <2>15, <2>16, <2>17, <2>18, <2>19, <2>20 DEF Next, Settles
<1> QED BY <1>1, SessionTypeCorrect, PTL DEF Spec
===============================================================================
