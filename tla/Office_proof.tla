---------------------------- MODULE Office_proof ----------------------------
(***************************************************************************)
(* The three components an organization is administered with, for any      *)
(* users, plans, contacts and requests.  They share no state: each section *)
(* is about one of them and uses nothing of the others.                    *)
(***************************************************************************)
EXTENDS UserAdmin, PlanAdmin, ContactBook, FiniteSetTheorems, SequenceTheorems, TLAPS

-----------------------------------------------------------------------------
(* Users.  While the requests do not overlap, an organization never has two   *)
(* Admins and a deletion never takes its last active one.                    *)

USE UserAdminAssumption DEF TENANT_ASSIGNABLE_ROLE_NAMES

\* Requests do not overlap.
Alone == apart => \A r, q \in UserRequests : ustep[r] # "idle" /\ ustep[q] # "idle" => r = q

\* What a request that is alone has found out still holds at its next statement.
Found(r) ==
    /\ ustep[r] \in {"newAdmin", "email", "insert"} => want[r] # "same" /\ enable[r]
    /\ ustep[r] \in {"email", "insert"} /\ want[r] = "Admin" => Admins = {}
    /\ ustep[r] = "write" /\ want[r] = "Admin" => Admins \subseteq {whom[r]}
    /\ ustep[r] = "delete" /\ role[whom[r]] = "Admin" => ActiveAdmins \ {whom[r]} # {}

AtMostOne == \A u, v \in Admins : u = v

\* A request works on a user, and one that creates has a role to give.
UserShape ==
    /\ UserTypeOK
    /\ \A r \in UserRequests :
        /\ ustep[r] # "idle" => whom[r] \in Users
        /\ ustep[r] \in {"newAdmin", "email", "insert", "otherAdmin"} => want[r] # "same"

\* The inductive invariant.
UserInv == UserShape /\ Alone /\ (apart => AtMostOne /\ \A r \in UserRequests : Found(r))

\* A step of one request.
UserStep(r) ==
    \/ createUser(r) \/ createWithRoleName(r) \/ findByEmail(r) \/ insertUser(r)
    \/ updateUser(r) \/ findOne(r) \/ checkRole(r) \/ writeUser(r)
    \/ removeUser(r) \/ findTarget(r) \/ countOthers(r) \/ deleteUser(r)

LEMMA UserInitInv == UserInit => UserInv
  BY DEF UserInit, UserInv, UserShape, UserTypeOK, Alone, Found, AtMostOne, Admins,
         ActiveAdmins, UserSteps, WantedRoles, Exists

LEMMA UserStepShape ==
  ASSUME UserShape, NEW r \in UserRequests, UserStep(r)
  PROVE  UserShape'
<1> USE DEF UserShape, UserTypeOK, UserSteps, WantedRoles, Exists, rows, asked, Asks, Ends,
            GoesOn, Refuses, UserAsks
<1>1. CASE createUser(r)
  <2>1. UserTypeOK'
    BY <1>1 DEF createUser
  <2> QED BY <2>1, <1>1 DEF createUser
<1>2. CASE createWithRoleName(r)
  <2>1. UserTypeOK'
    BY <1>2 DEF createWithRoleName
  <2> QED BY <2>1, <1>2 DEF createWithRoleName
<1>3. CASE findByEmail(r)
  <2>1. UserTypeOK'
    BY <1>3 DEF findByEmail
  <2> QED BY <2>1, <1>3 DEF findByEmail
<1>4. CASE insertUser(r)
  <2>0. Ends(r) /\ apart' = apart /\ ustep[r] = "insert"
    BY <1>4 DEF insertUser
  <2>1. /\ ustep' \in [UserRequests -> UserSteps]
        /\ whom' \in [UserRequests -> Users \union {NoUser}]
        /\ want' \in [UserRequests -> WantedRoles] /\ enable' \in [UserRequests -> BOOLEAN]
        /\ apart' \in BOOLEAN
    BY <2>0
  <2>2. \A q \in UserRequests :
            /\ ustep'[q] # "idle" => whom'[q] \in Users
            /\ ustep'[q] \in {"newAdmin", "email", "insert", "otherAdmin"} => want'[q] # "same"
    BY <2>0
  <2>3. CASE Exists(whom[r])
    <3>1. UNCHANGED rows
      BY <1>4, <2>3 DEF insertUser
    <3> QED BY <2>1, <2>2, <3>1
  <2>4. CASE ~Exists(whom[r])
    <3>1. role' \in [Users -> TENANT_ASSIGNABLE_ROLE_NAMES \union {"none"}]
      BY <1>4, <2>0, <2>4 DEF insertUser
    <3>2. active' \subseteq Users /\ \A u \in active' : role'[u] # "none"
      BY <1>4, <2>0, <2>4 DEF insertUser
    <3> QED BY <2>1, <2>2, <3>1, <3>2
  <2> QED BY <2>3, <2>4
<1>5. CASE updateUser(r)
  <2>1. UserTypeOK'
    BY <1>5 DEF updateUser
  <2> QED BY <2>1, <1>5 DEF updateUser
<1>6. CASE findOne(r)
  <2>1. UserTypeOK'
    BY <1>6 DEF findOne
  <2> QED BY <2>1, <1>6 DEF findOne
<1>7. CASE checkRole(r)
  <2>1. UserTypeOK'
    BY <1>7 DEF checkRole
  <2> QED BY <2>1, <1>7 DEF checkRole
<1>8. CASE writeUser(r)
  <2>0. Ends(r) /\ apart' = apart /\ ustep[r] = "write"
    BY <1>8 DEF writeUser
  <2>1. /\ ustep' \in [UserRequests -> UserSteps]
        /\ whom' \in [UserRequests -> Users \union {NoUser}]
        /\ want' \in [UserRequests -> WantedRoles] /\ enable' \in [UserRequests -> BOOLEAN]
        /\ apart' \in BOOLEAN
    BY <2>0
  <2>2. \A q \in UserRequests :
            /\ ustep'[q] # "idle" => whom'[q] \in Users
            /\ ustep'[q] \in {"newAdmin", "email", "insert", "otherAdmin"} => want'[q] # "same"
    BY <2>0
  <2>3. CASE ~Exists(whom[r])
    <3>1. UNCHANGED rows
      BY <1>8, <2>3 DEF writeUser
    <3> QED BY <2>1, <2>2, <3>1
  <2>4. CASE Exists(whom[r])
    <3>1. role' \in [Users -> TENANT_ASSIGNABLE_ROLE_NAMES \union {"none"}]
      BY <1>8, <2>0, <2>4 DEF writeUser
    <3>2. active' \subseteq Users /\ \A u \in active' : role'[u] # "none"
      BY <1>8, <2>0, <2>4 DEF writeUser
    <3> QED BY <2>1, <2>2, <3>1, <3>2
  <2> QED BY <2>3, <2>4
<1>9. CASE removeUser(r)
  <2>1. UserTypeOK'
    BY <1>9 DEF removeUser
  <2> QED BY <2>1, <1>9 DEF removeUser
<1>10. CASE findTarget(r)
  <2>1. UserTypeOK'
    BY <1>10 DEF findTarget
  <2> QED BY <2>1, <1>10 DEF findTarget
<1>11. CASE countOthers(r)
  <2>1. UserTypeOK'
    BY <1>11 DEF countOthers
  <2> QED BY <2>1, <1>11 DEF countOthers
<1>12. CASE deleteUser(r)
  <2>1. UserTypeOK'
    BY <1>12 DEF deleteUser
  <2> QED BY <2>1, <1>12 DEF deleteUser
<1> QED
  BY <1>1, <1>2, <1>3, <1>4, <1>5, <1>6, <1>7, <1>8, <1>9, <1>10, <1>11, <1>12 DEF UserStep

\* A request only begins, or goes on, where no other is under way.
LEMMA UserStepAlone ==
  ASSUME UserShape, Alone, NEW r \in UserRequests, UserStep(r)
  PROVE  /\ Alone' /\ apart' = apart
         /\ apart => \A q \in UserRequests \ {r} : ustep'[q] = "idle"
<1>1. /\ apart' = apart
      /\ \E s : ustep' = [ustep EXCEPT ![r] = s]
      /\ ustep[r] # "idle" \/ (apart => \A q \in UserRequests : ustep[q] = "idle")
  BY DEF UserStep, createUser, createWithRoleName, findByEmail, insertUser, updateUser, findOne,
         checkRole, writeUser, removeUser, findTarget, countOthers, deleteUser, Ends, GoesOn,
         Refuses, UserAsks
<1>2. apart => \A q \in UserRequests \ {r} : ustep'[q] = "idle"
  BY <1>1 DEF Alone, UserShape, UserTypeOK
<1> QED BY <1>1, <1>2 DEF Alone

\* What the request has found out, and that there is one Admin at most.
LEMMA UserStepFound ==
  ASSUME UserShape, NEW r \in UserRequests, AtMostOne, Found(r), UserStep(r)
  PROVE  AtMostOne' /\ Found(r)'
<1> USE DEF UserShape, UserTypeOK, Found, AtMostOne, Admins, ActiveAdmins, UserSteps,
            WantedRoles, Exists, rows, asked, Asks, Ends, GoesOn, Refuses, UserAsks
<1>1. CASE createUser(r)
  BY <1>1 DEF createUser
<1>2. CASE createWithRoleName(r)
  BY <1>2 DEF createWithRoleName, assertSingleAdminPerOrg
<1>3. CASE findByEmail(r)
  BY <1>3 DEF findByEmail
<1>4. CASE insertUser(r)
  BY <1>4 DEF insertUser
<1>5. CASE updateUser(r)
  BY <1>5 DEF updateUser
<1>6. CASE findOne(r)
  BY <1>6 DEF findOne
<1>7. CASE checkRole(r)
  BY <1>7 DEF checkRole, assertSingleAdminPerOrg
<1>8. CASE writeUser(r)
  BY <1>8 DEF writeUser
<1>9. CASE removeUser(r)
  BY <1>9 DEF removeUser
<1>10. CASE findTarget(r)
  BY <1>10 DEF findTarget
<1>11. CASE countOthers(r)
  BY <1>11 DEF countOthers
<1>12. CASE deleteUser(r)
  BY <1>12 DEF deleteUser
<1> QED
  BY <1>1, <1>2, <1>3, <1>4, <1>5, <1>6, <1>7, <1>8, <1>9, <1>10, <1>11, <1>12 DEF UserStep

LEMMA UserStepInv == UserInv /\ [UserNext]_uvars => UserInv'
<1> SUFFICES ASSUME UserInv, [UserNext]_uvars PROVE UserInv'
  OBVIOUS
<1>1. CASE UNCHANGED uvars
  BY <1>1 DEF uvars, rows, asked, UserInv, UserShape, UserTypeOK, Alone, Found, AtMostOne,
              Admins, ActiveAdmins, Exists
<1>2. ASSUME NEW r \in UserRequests, UserStep(r) PROVE UserInv'
  <2>1. UserShape' /\ Alone' /\ apart' = apart
    BY <1>2, UserStepShape, UserStepAlone DEF UserInv
  <2>2. ASSUME apart PROVE AtMostOne' /\ \A q \in UserRequests : Found(q)'
    <3>1. AtMostOne' /\ Found(r)'
      BY <1>2, <2>2, UserStepFound DEF UserInv
    <3>2. ASSUME NEW q \in UserRequests, q # r PROVE Found(q)'
      <4>1. ustep'[q] = "idle"
        BY <1>2, <2>2, <3>2, UserStepAlone DEF UserInv
      <4> QED BY <4>1 DEF Found
    <3> QED BY <3>1, <3>2
  <2> QED BY <2>1, <2>2 DEF UserInv
<1> QED BY <1>1, <1>2 DEF UserNext, UserStep

LEMMA UserInvariant == UserSpec => []UserInv
  BY UserInitInv, UserStepInv, PTL DEF UserSpec

\* Rows and requests keep their shape (UsersService).
THEOREM UserTypeCorrect == UserSpec => []UserTypeOK
  BY UserInvariant, PTL DEF UserInv, UserShape

\* UsersService.assertSingleAdminPerOrg: never two Admins, while requests do not overlap.
THEOREM OneAdminCorrect == UserSpec => []OneAdmin
<1>1. UserInv => OneAdmin
  <2> SUFFICES ASSUME UserInv, apart PROVE Cardinality(Admins) <= 1
    BY DEF OneAdmin
  <2>1. CASE Admins = {}
    BY <2>1, FS_EmptySet
  <2>2. CASE Admins # {}
    <3>1. PICK u \in Admins : TRUE
      BY <2>2
    <3>2. Admins = {u}
      BY <3>1 DEF UserInv, AtMostOne
    <3>3. Cardinality({u}) = 1
      BY FS_Singleton
    <3> QED BY <3>2, <3>3
  <2> QED BY <2>1, <2>2
<1> QED BY UserInvariant, <1>1, PTL

\* UsersService.remove: a deletion leaves an active Admin, while requests do not overlap.
THEOREM LastAdminSurvivesDeletesCorrect == UserSpec => LastAdminSurvivesDeletes
<1> DEFINE Survives ==
      apart /\ (\E u \in Users : role[u] # "none" /\ role'[u] = "none") =>
          (ActiveAdmins # {} => ActiveAdmins' # {})
<1>1. ASSUME UserInv, NEW r \in UserRequests, UserStep(r) PROVE Survives
  <2>1. CASE deleteUser(r)
    <3>1. ActiveAdmins \ {whom[r]} \subseteq ActiveAdmins'
      BY <2>1, <1>1 DEF deleteUser, ActiveAdmins, Admins, UserInv, UserShape, UserTypeOK
    <3>2. apart /\ ActiveAdmins # {} => ActiveAdmins \ {whom[r]} # {}
      BY <2>1, <1>1 DEF deleteUser, UserInv, UserShape, UserTypeOK, Found, ActiveAdmins, Admins
    <3> QED BY <3>1, <3>2
  <2>2. CASE ~deleteUser(r)
    <3>1. \A u \in Users : role[u] # "none" => role'[u] # "none"
      <4>1. CASE writeUser(r)
        BY <4>1, <1>1 DEF writeUser, Refuses, rows, UserInv, UserShape, UserTypeOK, WantedRoles
      <4>2. CASE insertUser(r)
        BY <4>2, <1>1 DEF insertUser, Refuses, rows, UserInv, UserShape, UserTypeOK, Exists
      <4>3. CASE ~writeUser(r) /\ ~insertUser(r)
        <5>1. role' = role
          BY <4>3, <2>2, <1>1 DEF UserStep, createUser, createWithRoleName, findByEmail,
             updateUser, findOne, checkRole, removeUser, findTarget, countOthers, UserAsks,
             Refuses, rows
        <5> QED BY <5>1
      <4> QED BY <4>1, <4>2, <4>3
    <3> QED BY <3>1
  <2> QED BY <2>1, <2>2
<1>2. UserInv /\ [UserNext]_uvars => [Survives]_uvars
  BY <1>1 DEF UserNext, UserStep
<1> QED BY UserInvariant, <1>2, PTL DEF UserSpec, LastAdminSurvivesDeletes

HIDE UserAdminAssumption DEF TENANT_ASSIGNABLE_ROLE_NAMES

-----------------------------------------------------------------------------
(* Plans.  While requests do not overlap, an organization's credits, end date, *)
(* limits and switches follow the plan it was assigned, and it loses a plan by *)
(* its own update only.                                                       *)

USE PlanAdminAssumption

\* Each step has what it needs of what the request was asked.
PlanKnows(r) ==
    /\ pstep[r] \in {"writePlan", "inUse", "deletePlan", "readPlan"} => pname[r] \in Plans
    /\ pstep[r] = "writePlan" => pterms[r] \in PlanTerms
    /\ pstep[r] \in {"idle", "planLimit"} => pterms[r] = NoTerms

\* No two requests of one kind are under way.
OneOfAKind == \A r, q \in PlanRequests :
    pstep[r] # "idle" /\ pstep[q] # "idle" /\ KindOf(pstep[r]) = KindOf(pstep[q]) => r = q

\* What a request has read still holds when it writes.
StillTrue(r) ==
    /\ pstep[r] \in {"readPlan", "writeOrg"} => pread[r] = planId
    /\ pstep[r] = "deletePlan" => pname[r] # planId
    /\ pstep[r] = "topup" => unpaid = GrantOf(pterms[r])
    /\ pstep[r] = "writeSwitches" => pseen[r] = switches
    /\ pstep[r] = "insertAccount" /\ pterms[r] # NoTerms => accounts < LimitOf(pterms[r])

\* The inductive invariant.
Orderly ==
    /\ OneOfAKind
    /\ \A r \in PlanRequests : StillTrue(r)
    /\ expires = due /\ switches = lastSwitch
    /\ (\A r \in PlanRequests : pstep[r] # "topup") => unpaid = 0
PlanIInv ==
    /\ PlanTypeOK
    /\ \A r \in PlanRequests : PlanKnows(r)
    /\ orderly => Orderly

\* A request asks for something.
Asking(r) ==
    \/ savePlan(r) \/ removePlan(r) \/ updateOrg(r) \/ updateModules(r) \/ createAccount(r)
\* A statement of a request under way.
Running(r) ==
    \/ writePlan(r) \/ inUse(r) \/ deletePlan(r) \/ findOrg(r) \/ readPlan(r)
    \/ writeOrg(r) \/ topupPlan(r) \/ readSwitches(r) \/ writeSwitches(r)
    \/ planLimit(r) \/ countAccounts(r) \/ insertAccount(r) \/ StatementFails(r)

-----------------------------------------------------------------------------
(* Helpers *)

\* What a plan says are numbers, and it allows one account at least.
LEMMA Terms ==
  ASSUME NEW t \in PlanTerms \union {NoTerms}
  PROVE  /\ GrantOf(t) \in Nat /\ LimitOf(t) \in Nat /\ t[3] \in Nat
         /\ t \in PlanTerms => t # NoTerms
<1>1. CASE t \in PlanTerms
  <2>1. t \in Nat \X (Nat \ {0}) \X Nat
    BY <1>1
  <2> QED BY <2>1 DEF GrantOf, LimitOf, NoTerms
<1>2. CASE t = NoTerms
  <2>1. NoTerms \notin PlanTerms
    <3> SUFFICES ASSUME NoTerms \in PlanTerms PROVE FALSE
      OBVIOUS
    <3>1. NoTerms \in Nat \X (Nat \ {0}) \X Nat
      OBVIOUS
    <3> QED BY <3>1 DEF NoTerms
  <2> QED BY <1>2, <2>1 DEF GrantOf, LimitOf, NoTerms
<1> QED BY <1>1, <1>2

\* The end of a plan is a day or never.
LEMMA RequestEnds ==
  ASSUME PlanTypeOK, NEW t \in PlanTerms \union {NoTerms}
  PROVE  EndOf(t) \in Nat \union {Never}
BY Terms DEF PlanTypeOK, EndOf

\* Switches merged with switches are switches.
LEMMA Merging ==
  ASSUME NEW a \in SwitchStates, NEW b \in SwitchStates
  PROVE  Merged(a, b) \in SwitchStates
BY DEF SwitchStates, Merged

LEMMA UnsetIsSwitches == Unset \in SwitchStates
BY DEF Unset, SwitchStates

LEMMA PlanInitInv == PlanInit => PlanIInv
<1> SUFFICES ASSUME PlanInit PROVE PlanIInv
  OBVIOUS
<1>1. PlanTypeOK
  BY UnsetIsSwitches DEF PlanInit, PlanTypeOK, PlanSteps
<1>2. \A r \in PlanRequests : pstep[r] = "idle"
  BY DEF PlanInit
<1>3. /\ expires = due /\ switches = lastSwitch /\ unpaid = 0
      /\ \A r \in PlanRequests : pterms[r] = NoTerms
  BY DEF PlanInit
<1> QED BY <1>1, <1>2, <1>3 DEF PlanIInv, PlanKnows, Orderly, OneOfAKind, StillTrue
-----------------------------------------------------------------------------
(* Types *)

\* The request that ends forgets what it was asked.
LEMMA EndsTyped ==
  ASSUME PlanTypeOK, NEW r \in PlanRequests, PEnds(r)
  PROVE  /\ pstep' \in [PlanRequests -> PlanSteps]
         /\ pname' \in [PlanRequests -> Plans \union {NoPlan}]
         /\ pread' \in [PlanRequests -> Plans \union {NoPlan}]
         /\ pterms' \in [PlanRequests -> PlanTerms \union {NoTerms}]
         /\ pflags' \in [PlanRequests -> SwitchStates]
         /\ pseen' \in [PlanRequests -> SwitchStates]
         /\ pstep'[r] = "idle" /\ pterms'[r] = NoTerms
         /\ \A q \in PlanRequests : q # r => pstep'[q] = pstep[q] /\ pname'[q] = pname[q]
                /\ pread'[q] = pread[q] /\ pterms'[q] = pterms[q] /\ pseen'[q] = pseen[q]
BY UnsetIsSwitches DEF PlanTypeOK, PEnds, PGoesOn, PlanSteps

\* Asking leaves the tables alone.
LEMMA AskingTyped ==
  ASSUME PlanTypeOK, NEW r \in PlanRequests, Asking(r)
  PROVE  /\ PlanTypeOK' /\ UNCHANGED <<orderly, pdata, today>>
         /\ pstep[r] = "idle"
         /\ pstep'[r] \in {"writePlan", "inUse", "findOrg", "readSwitches", "planLimit"}
         /\ pstep'[r] \in {"writePlan", "inUse"} => pname'[r] \in Plans
         /\ pstep'[r] = "writePlan" => pterms'[r] \in PlanTerms
         /\ pstep'[r] = "planLimit" => pterms'[r] = pterms[r]
         /\ \A q \in PlanRequests : q # r => pstep'[q] = pstep[q] /\ pname'[q] = pname[q]
                /\ pread'[q] = pread[q] /\ pterms'[q] = pterms[q] /\ pseen'[q] = pseen[q]
<1> USE DEF PlanAsks, PlanTypeOK, PlanSteps, AccountSteps, SwitchSteps, pdata, organization,
            history
<1>1. CASE savePlan(r)
  BY <1>1 DEF savePlan
<1>2. CASE removePlan(r)
  BY <1>2 DEF removePlan
<1>3. CASE updateOrg(r)
  BY <1>3 DEF updateOrg
<1>4. CASE updateModules(r)
  BY <1>4 DEF updateModules, SwitchStates
<1>5. CASE createAccount(r)
  BY <1>5 DEF createAccount, plocals
<1> QED BY <1>1, <1>2, <1>3, <1>4, <1>5 DEF Asking

\* A statement keeps the shape of the rows and of the requests.
LEMMA RunningTyped ==
  ASSUME PlanTypeOK, NEW r \in PlanRequests, PlanKnows(r), Running(r)
  PROVE  PlanTypeOK'
<1> USE DEF PlanTypeOK
<1>p. PlanKnows(r) /\ pstep[r] \in PlanSteps
  OBVIOUS
<1>1. CASE writePlan(r)
  <2>1. PEnds(r) /\ UNCHANGED <<orderly, organization, accounts, today, history>>
    BY <1>1 DEF writePlan
  <2>2. plan' \in [Plans -> PlanTerms \union {NoTerms}]
    BY <1>1, <1>p DEF writePlan, PlanKnows
  <2>3. planId' = NoPlan \/ (planId' \in Plans /\ plan'[planId'] # NoTerms)
    <3>1. pterms[r] # NoTerms
      BY <1>1, <1>p, Terms DEF writePlan, PlanKnows
    <3> QED BY <1>1, <2>1, <3>1 DEF writePlan, organization
  <2> QED BY <2>1, <2>2, <2>3, EndsTyped DEF organization, history
<1>2. CASE inUse(r)
  BY <1>2, EndsTyped DEF inUse, PStays, pdata, organization, history, PGoesOn, plocals, PlanSteps
<1>3. CASE deletePlan(r)
  <2>1. PEnds(r) /\ UNCHANGED <<orderly, expires, switches, accounts, today, history>>
    BY <1>3 DEF deletePlan
  <2>2. plan' \in [Plans -> PlanTerms \union {NoTerms}]
    BY <1>3, <1>p DEF deletePlan, PlanKnows
  <2>3. planId' = NoPlan \/ (planId' \in Plans /\ plan'[planId'] # NoTerms)
    BY <1>3 DEF deletePlan
  <2> QED BY <2>1, <2>2, <2>3, EndsTyped DEF history
<1>4. CASE findOrg(r)
  BY <1>4 DEF findOrg, PStays, pdata, organization, history, PGoesOn, PlanSteps
<1>5. CASE readPlan(r)
  <2>1. PStays /\ pname[r] \in Plans
    BY <1>5, <1>p DEF readPlan, PlanKnows
  <2>2. CASE plan[pname[r]] = NoTerms
    BY <1>5, <2>1, <2>2, EndsTyped DEF readPlan, PStays, pdata, organization, history
  <2>3. CASE plan[pname[r]] # NoTerms
    BY <1>5, <2>1, <2>3 DEF readPlan, PStays, pdata, organization, history, PGoesOn, PlanSteps
  <2> QED BY <2>2, <2>3
<1>6. CASE writeOrg(r)
  <2>1. UNCHANGED <<orderly, plan, switches, accounts, today, lastSwitch>>
    BY <1>6 DEF writeOrg
  <2>2. planId' = NoPlan \/ (planId' \in Plans /\ plan'[planId'] # NoTerms)
    BY <1>6 DEF writeOrg
  <2>3. pterms[r] \in PlanTerms \union {NoTerms}
    OBVIOUS
  <2>4. expires' \in Nat \union {Never} /\ due' \in Nat \union {Never}
    BY <1>6, <2>3, RequestEnds DEF writeOrg
  <2>5. unpaid' \in Int
    BY <1>6, <2>3, Terms DEF writeOrg
  <2>6. CASE PEnds(r)
    BY <2>1, <2>2, <2>4, <2>5, <2>6, EndsTyped
  <2>7. CASE PGoesOn(r, "topup") /\ UNCHANGED plocals
    BY <2>1, <2>2, <2>4, <2>5, <2>7 DEF PGoesOn, plocals, PlanSteps
  <2> QED BY <1>6, <2>6, <2>7 DEF writeOrg
<1>7. CASE topupPlan(r)
  <2>1. PEnds(r) /\ UNCHANGED <<orderly, plan, organization, accounts, today, due, lastSwitch>>
    BY <1>7 DEF topupPlan
  <2>2. pterms[r] \in PlanTerms \union {NoTerms}
    OBVIOUS
  <2>3. unpaid' \in Int
    BY <1>7, <2>2, Terms DEF topupPlan
  <2> QED BY <2>1, <2>3, EndsTyped DEF organization
<1>8. CASE readSwitches(r)
  BY <1>8 DEF readSwitches, PStays, pdata, organization, history, PGoesOn, PlanSteps, SwitchSteps
<1>9. CASE writeSwitches(r)
  <2>1. /\ PEnds(r)
        /\ UNCHANGED <<orderly, plan, planId, expires, accounts, today, unpaid, due>>
    BY <1>9 DEF writeSwitches
  <2>2. switches' \in SwitchStates /\ lastSwitch' \in SwitchStates
    BY <1>9, Merging DEF writeSwitches
  <2> QED BY <2>1, <2>2, EndsTyped
<1>10. CASE planLimit(r)
  BY <1>10 DEF planLimit, PStays, pdata, organization, history, PGoesOn, plocals, PlanSteps,
               AccountSteps
<1>11. CASE countAccounts(r)
  BY <1>11, EndsTyped DEF countAccounts, PStays, pdata, organization, history, PGoesOn, plocals,
                          PlanSteps, AccountSteps
<1>12. CASE insertAccount(r)
  <2>1. PEnds(r) /\ UNCHANGED <<orderly, plan, organization, today, history>>
    BY <1>12 DEF insertAccount
  <2>2. accounts' \in 0 .. MaxAccounts
    BY <1>12 DEF insertAccount
  <2> QED BY <2>1, <2>2, EndsTyped DEF organization, history
<1>13. CASE StatementFails(r)
  BY <1>13, EndsTyped DEF StatementFails, PStays, pdata, organization, history
<1> QED BY <1>1, <1>2, <1>3, <1>4, <1>5, <1>6, <1>7, <1>8, <1>9, <1>10, <1>11, <1>12, <1>13
        DEF Running

\* A statement of one request leaves the steps and locals of the others alone, and its own
\* request knows what it needs for the next statement.
LEMMA RunningLocal ==
  ASSUME PlanTypeOK, NEW r \in PlanRequests, PlanKnows(r), Running(r)
  PROVE  /\ pstep[r] # "idle" /\ orderly' = orderly
         /\ pstep'[r] = "idle" \/ KindOf(pstep'[r]) = KindOf(pstep[r])
         /\ PlanKnows(r)'
         /\ \A q \in PlanRequests : q # r => pstep'[q] = pstep[q] /\ pname'[q] = pname[q]
                /\ pread'[q] = pread[q] /\ pterms'[q] = pterms[q] /\ pseen'[q] = pseen[q]
<1> USE DEF PlanKnows, KindOf, AccountSteps, SwitchSteps
<1>1. CASE PEnds(r)
  <2>1. pstep[r] # "idle" /\ orderly' = orderly
    BY DEF Running, writePlan, inUse, deletePlan, findOrg, readPlan, writeOrg, topupPlan,
           readSwitches, writeSwitches, planLimit, countAccounts, insertAccount, StatementFails,
           PStays
  <2> QED BY <1>1, <2>1, EndsTyped
<1>2. CASE ~PEnds(r)
  <2> USE DEF PlanTypeOK, PGoesOn, PStays, plocals
  <2>1. CASE inUse(r)
    BY <1>2, <2>1 DEF inUse
  <2>2. CASE findOrg(r)
    BY <1>2, <2>2 DEF findOrg
  <2>3. CASE readPlan(r)
    BY <1>2, <2>3 DEF readPlan
  <2>4. CASE writeOrg(r)
    BY <1>2, <2>4 DEF writeOrg
  <2>5. CASE readSwitches(r)
    BY <1>2, <2>5 DEF readSwitches
  <2>6. CASE planLimit(r)
    BY <1>2, <2>6 DEF planLimit
  <2>7. CASE countAccounts(r)
    BY <1>2, <2>7 DEF countAccounts
  <2> QED BY <1>2, <2>1, <2>2, <2>3, <2>4, <2>5, <2>6, <2>7
          DEF Running, writePlan, deletePlan, topupPlan, writeSwitches, insertAccount,
              StatementFails
<1> QED BY <1>1, <1>2
-----------------------------------------------------------------------------
(* While requests of one kind do not overlap *)

\* A statement writes what its kind of request is about.
LEMMA KindsApart ==
  ASSUME NEW r \in PlanRequests, Running(r)
  PROVE  /\ KindOf(pstep[r]) # "plans" => UNCHANGED <<planId, unpaid, expires, due>>
         /\ KindOf(pstep[r]) # "switches" => UNCHANGED <<switches, lastSwitch>>
         /\ KindOf(pstep[r]) # "accounts" => accounts' = accounts
<1> USE DEF organization, history, pdata, PStays, KindOf, AccountSteps, SwitchSteps
<1>1. CASE writePlan(r) \/ deletePlan(r) \/ writeOrg(r) \/ topupPlan(r)
  BY <1>1 DEF writePlan, deletePlan, writeOrg, topupPlan
<1>2. CASE writeSwitches(r)
  BY <1>2 DEF writeSwitches
<1>3. CASE insertAccount(r)
  BY <1>3 DEF insertAccount
<1>4. CASE PStays
  BY <1>4
<1> QED BY <1>1, <1>2, <1>3, <1>4 DEF Running, inUse, findOrg, readPlan, readSwitches, planLimit,
        countAccounts, StatementFails

\* A request that ends leaves nothing to hold; its end is not a booking.
LEMMA PlansStep ==
  ASSUME PlanIInv, orderly, NEW r \in PlanRequests, Running(r), KindOf(pstep[r]) = "plans"
  PROVE  /\ StillTrue(r)' /\ expires' = due'
         /\ pstep'[r] # "topup" => unpaid' = 0
<1>p. /\ PlanTypeOK /\ PlanKnows(r) /\ StillTrue(r) /\ expires = due
      /\ pstep[r] # "topup" => unpaid = 0
  <2>1. pstep[r] # "idle"
    BY RunningLocal DEF PlanIInv
  <2>2. \A q \in PlanRequests : pstep[q] = "topup" => q = r
    BY <2>1 DEF PlanIInv, Orderly, OneOfAKind, KindOf, AccountSteps, SwitchSteps
  <2> QED BY <2>2 DEF PlanIInv, Orderly
<1>q. pterms[r] \in PlanTerms \union {NoTerms} /\ GrantOf(pterms[r]) \in Nat
  <2>1. pterms[r] \in PlanTerms \union {NoTerms}
    BY <1>p DEF PlanTypeOK
  <2> QED BY <2>1, Terms
<1>k. pstep[r] \notin AccountSteps \union SwitchSteps
  BY DEF KindOf, AccountSteps, SwitchSteps
<1> USE DEF StillTrue
<1>1. CASE writePlan(r)
  BY <1>p, <1>1, EndsTyped DEF writePlan, organization, history
<1>2. CASE inUse(r)
  <2>1. PStays /\ pstep[r] = "inUse"
    BY <1>2 DEF inUse
  <2>2. CASE PEnds(r)
    BY <1>p, <2>1, <2>2, EndsTyped DEF PStays, pdata, organization, history
  <2>3. CASE PGoesOn(r, "deletePlan") /\ UNCHANGED plocals /\ pname[r] # planId
    BY <1>p, <2>1, <2>3 DEF PStays, pdata, organization, history, PGoesOn, plocals, PlanTypeOK
  <2> QED BY <1>2, <2>2, <2>3 DEF inUse
<1>3. CASE deletePlan(r)
  BY <1>p, <1>3, EndsTyped DEF deletePlan, history
<1>4. CASE findOrg(r)
  <2>1. pstep'[r] \in {"writeOrg", "readPlan"} /\ pread'[r] = planId
    BY <1>p, <1>4 DEF findOrg, PGoesOn, PlanTypeOK
  <2> QED BY <1>p, <1>4, <2>1 DEF findOrg, PStays, pdata, organization, history
<1>5. CASE readPlan(r)
  <2>1. PStays /\ pstep[r] = "readPlan"
    BY <1>5 DEF readPlan
  <2>2. CASE PEnds(r)
    BY <1>p, <2>1, <2>2, EndsTyped DEF PStays, pdata, organization, history
  <2>3. CASE PGoesOn(r, "writeOrg") /\ UNCHANGED pread
    BY <1>p, <2>1, <2>3 DEF PStays, pdata, organization, history, PGoesOn, PlanTypeOK
  <2> QED BY <1>5, <2>2, <2>3 DEF readPlan
<1>6. CASE writeOrg(r)
  <2>1. pread[r] = planId /\ unpaid = 0
    BY <1>p, <1>6 DEF writeOrg
  <2>2. expires' = due'
    BY <1>p, <1>6, <2>1 DEF writeOrg, planChanged
  <2>3. unpaid' = IF planId # pname[r] THEN GrantOf(pterms[r]) ELSE 0
    BY <1>6, <2>1, <1>q DEF writeOrg
  <2>4. CASE planChanged(r) /\ GrantOf(pterms[r]) > 0
    <3>1. pstep'[r] = "topup" /\ pterms' = pterms
      BY <1>p, <1>6, <2>4 DEF writeOrg, PGoesOn, plocals, PlanTypeOK
    <3> QED BY <2>1, <2>2, <2>3, <2>4, <3>1 DEF planChanged
  <2>5. CASE ~(planChanged(r) /\ GrantOf(pterms[r]) > 0)
    <3>1. pstep'[r] = "idle"
      BY <1>p, <1>6, <2>5, EndsTyped DEF writeOrg
    <3>2. unpaid' = 0
      BY <2>1, <2>3, <2>5, <1>q DEF planChanged
    <3> QED BY <2>2, <3>1, <3>2
  <2> QED BY <2>4, <2>5
<1>7. CASE topupPlan(r)
  <2>1. PEnds(r) /\ UNCHANGED <<organization, due>> /\ unpaid = GrantOf(pterms[r])
    BY <1>p, <1>7 DEF topupPlan
  <2>2. unpaid' = 0
    BY <1>7, <1>q, <2>1 DEF topupPlan
  <2> QED BY <1>p, <2>1, <2>2, EndsTyped DEF organization
<1> QED BY <1>k, <1>1, <1>2, <1>3, <1>4, <1>5, <1>6, <1>7
        DEF Running, readSwitches, writeSwitches, planLimit, countAccounts, insertAccount,
            StatementFails, AccountSteps, SwitchSteps

LEMMA SwitchesStep ==
  ASSUME PlanIInv, orderly, NEW r \in PlanRequests, Running(r), KindOf(pstep[r]) = "switches"
  PROVE  StillTrue(r)' /\ switches' = lastSwitch'
<1>p. PlanTypeOK /\ StillTrue(r) /\ switches = lastSwitch
  BY DEF PlanIInv, Orderly
<1>k. pstep[r] \in SwitchSteps
  BY DEF KindOf, AccountSteps, SwitchSteps
<1>1. CASE readSwitches(r)
  <2>1. pstep'[r] = "writeSwitches" /\ pseen'[r] = switches
    BY <1>p, <1>1 DEF readSwitches, PGoesOn, PlanTypeOK
  <2> QED BY <1>p, <1>1, <2>1 DEF readSwitches, PStays, pdata, organization, history, StillTrue
<1>2. CASE writeSwitches(r)
  <2>1. switches' = lastSwitch'
    BY <1>p, <1>2 DEF writeSwitches, StillTrue
  <2>2. pstep'[r] = "idle"
    BY <1>p, <1>2, EndsTyped DEF writeSwitches
  <2> QED BY <2>1, <2>2 DEF StillTrue
<1> QED BY <1>k, <1>1, <1>2
        DEF Running, writePlan, inUse, deletePlan, findOrg, readPlan, writeOrg, topupPlan,
            planLimit, countAccounts, insertAccount, StatementFails, AccountSteps, SwitchSteps

LEMMA AccountsStep ==
  ASSUME PlanIInv, orderly, NEW r \in PlanRequests, Running(r), KindOf(pstep[r]) = "accounts"
  PROVE  StillTrue(r)'
<1>p. PlanTypeOK /\ PlanKnows(r)
  BY DEF PlanIInv
<1>k. pstep[r] \in AccountSteps
  BY DEF KindOf, AccountSteps, SwitchSteps
<1> USE DEF StillTrue
<1>1. CASE PEnds(r)
  BY <1>p, <1>1, EndsTyped
<1>2. CASE planLimit(r) /\ planId = NoPlan
  <2>1. pterms'[r] = NoTerms
    BY <1>p, <1>2 DEF planLimit, PlanKnows, plocals
  <2>2. pstep'[r] = "insertAccount"
    BY <1>p, <1>2 DEF planLimit, PGoesOn, PlanTypeOK
  <2> QED BY <2>1, <2>2
<1>3. CASE planLimit(r) /\ planId # NoPlan
  <2>1. pstep'[r] = "countAccounts"
    BY <1>p, <1>3 DEF planLimit, PGoesOn, PlanTypeOK
  <2> QED BY <2>1
<1>4. CASE countAccounts(r) /\ ~PEnds(r)
  <2>1. pstep'[r] = "insertAccount" /\ pterms' = pterms /\ accounts' = accounts
    BY <1>p, <1>4
       DEF countAccounts, PGoesOn, PlanTypeOK, PStays, pdata, plocals
  <2>2. accounts < LimitOf(pterms[r])
    <3>1. pterms[r] \in PlanTerms \union {NoTerms}
      BY <1>p DEF PlanTypeOK
    <3>2. LimitOf(pterms[r]) \in Nat /\ accounts \in Nat
      BY <1>p, <3>1, Terms DEF PlanTypeOK
    <3>3. ~(accounts >= LimitOf(pterms[r]))
      BY <1>4 DEF countAccounts
    <3> QED BY <3>2, <3>3
  <2> QED BY <2>1, <2>2
<1> QED BY <1>k, <1>1, <1>2, <1>3, <1>4
        DEF Running, writePlan, inUse, deletePlan, findOrg, readPlan, writeOrg, topupPlan,
            readSwitches, writeSwitches, insertAccount, StatementFails, AccountSteps, SwitchSteps
-----------------------------------------------------------------------------
(* The invariant *)

\* A request that is asked for finds no other of its kind, and has read nothing yet.
LEMMA AskingInv ==
  ASSUME PlanIInv, NEW r \in PlanRequests, Asking(r)
  PROVE  PlanIInv'
<1>1. /\ PlanTypeOK /\ PlanKnows(r)
  BY DEF PlanIInv
<1>2. PlanTypeOK' /\ UNCHANGED <<orderly, pdata, today>>
  BY <1>1, AskingTyped
<1>3. \A q \in PlanRequests : PlanKnows(q)'
  <2> TAKE q \in PlanRequests
  <2>1. CASE q = r
    BY <1>1, <2>1, AskingTyped DEF PlanKnows
  <2>2. CASE q # r
    BY <1>1, <2>2, AskingTyped DEF PlanKnows, PlanIInv
  <2> QED BY <2>1, <2>2
<1>4. ASSUME orderly
      PROVE  Orderly'
  <2>0. Orderly
    BY <1>4 DEF PlanIInv
  <2>1. \A q \in PlanRequests : q = r \/ pstep[q] = "idle" \/ KindOf(pstep[q]) # KindOf(pstep'[r])
    <3> USE <1>4 DEF PlanAsks, PlanTypeOK
    <3>1. CASE savePlan(r)
      BY <1>1, <3>1 DEF savePlan
    <3>2. CASE removePlan(r)
      BY <1>1, <3>2 DEF removePlan
    <3>3. CASE updateOrg(r)
      BY <1>1, <3>3 DEF updateOrg
    <3>4. CASE updateModules(r)
      BY <1>1, <3>4 DEF updateModules
    <3>5. CASE createAccount(r)
      BY <1>1, <3>5 DEF createAccount
    <3> QED BY <3>1, <3>2, <3>3, <3>4, <3>5 DEF Asking
  <2>2. OneOfAKind'
    BY <1>1, <2>0, <2>1, AskingTyped DEF OneOfAKind, Orderly
  <2>3. \A q \in PlanRequests : StillTrue(q)'
    <3> TAKE q \in PlanRequests
    <3>1. CASE q = r
      BY <1>1, <3>1, AskingTyped DEF StillTrue
    <3>2. CASE q # r
      BY <1>1, <1>2, <2>0, <3>2, AskingTyped
         DEF StillTrue, Orderly, pdata, organization, history
    <3> QED BY <3>1, <3>2
  <2>4. (\A q \in PlanRequests : pstep'[q] # "topup") => \A q \in PlanRequests : pstep[q] # "topup"
    BY <1>1, AskingTyped
  <2> QED BY <1>2, <2>0, <2>2, <2>3, <2>4 DEF Orderly, pdata, organization, history
<1> QED BY <1>2, <1>3, <1>4 DEF PlanIInv

\* A statement keeps its own request true by its kind, and the others because they are of
\* other kinds.
LEMMA RunningInv ==
  ASSUME PlanIInv, NEW r \in PlanRequests, Running(r)
  PROVE  PlanIInv'
<1>1. PlanTypeOK /\ PlanKnows(r)
  BY DEF PlanIInv
<1>2. PlanTypeOK'
  BY <1>1, RunningTyped
<1>3. \A q \in PlanRequests : PlanKnows(q)'
  <2> TAKE q \in PlanRequests
  <2>1. CASE q = r
    BY <1>1, <2>1, RunningLocal
  <2>2. CASE q # r
    BY <1>1, <2>2, RunningLocal DEF PlanKnows, PlanIInv
  <2> QED BY <2>1, <2>2
<1>4. ASSUME orderly
      PROVE  Orderly'
  <2>0. Orderly
    BY <1>4 DEF PlanIInv
  <2>1. \A q \in PlanRequests : q = r \/ pstep[q] = "idle" \/ KindOf(pstep[q]) # KindOf(pstep[r])
    BY <1>1, <2>0, RunningLocal DEF Orderly, OneOfAKind
  <2>2. OneOfAKind'
    BY <1>1, <2>0, <2>1, RunningLocal DEF OneOfAKind, Orderly
  <2>3. StillTrue(r)'
    BY <1>4, PlansStep, SwitchesStep, AccountsStep DEF KindOf
  <2>4. \A q \in PlanRequests : q # r => StillTrue(q)'
    <3> SUFFICES ASSUME NEW q \in PlanRequests, q # r PROVE StillTrue(q)'
      OBVIOUS
    <3>1. StillTrue(q)
      BY <2>0 DEF Orderly
    <3>2. UNCHANGED <<pstep[q], pname[q], pread[q], pterms[q], pseen[q]>>
      BY <1>1, RunningLocal
    <3>3. CASE pstep[q] = "idle"
      BY <3>2, <3>3 DEF StillTrue
    <3>4. CASE pstep[q] # "idle"
      <4>1. KindOf(pstep[q]) # KindOf(pstep[r])
        BY <2>1, <3>4
      <4>2. KindOf(pstep[q]) = "plans" => UNCHANGED <<planId, unpaid>>
        BY <4>1, KindsApart
      <4>3. KindOf(pstep[q]) = "switches" => switches' = switches
        BY <4>1, KindsApart
      <4>4. KindOf(pstep[q]) = "accounts" => accounts' = accounts
        BY <4>1, KindsApart
      <4> QED BY <3>1, <3>2, <4>2, <4>3, <4>4 DEF StillTrue, KindOf, AccountSteps, SwitchSteps
    <3> QED BY <3>3, <3>4
  <2>5. expires' = due' /\ switches' = lastSwitch'
    BY <1>4, <2>0, PlansStep, SwitchesStep, KindsApart DEF Orderly
  <2>6. (\A q \in PlanRequests : pstep'[q] # "topup") => unpaid' = 0
    <3>1. CASE KindOf(pstep[r]) = "plans"
      BY <1>4, <3>1, PlansStep
    <3>2. CASE KindOf(pstep[r]) # "plans"
      <4>1. unpaid' = unpaid /\ pstep[r] # "topup"
        BY <3>2, KindsApart DEF KindOf, AccountSteps, SwitchSteps
      <4> QED BY <1>1, <2>0, <4>1, RunningLocal DEF Orderly
    <3> QED BY <3>1, <3>2
  <2> QED BY <2>2, <2>3, <2>4, <2>5, <2>6 DEF Orderly
<1>5. orderly' = orderly
  BY <1>1, RunningLocal
<1> QED BY <1>2, <1>3, <1>4, <1>5 DEF PlanIInv

\* An account that is removed makes room, and a day that passes changes no end date.
LEMMA OthersInv ==
  ASSUME PlanIInv, removeAccount \/ DayPasses
  PROVE  PlanIInv'
<1>1. PlanTypeOK
  BY DEF PlanIInv
<1>2. /\ UNCHANGED <<orderly, plan, organization, history, pstep, plocals>>
      /\ accounts' \in 0 .. MaxAccounts /\ accounts' <= accounts /\ today' \in 0 .. MaxToday
  BY <1>1 DEF removeAccount, DayPasses, PlanTypeOK, pdata
<1>3. PlanTypeOK'
  BY <1>1, <1>2 DEF PlanTypeOK, organization, history, plocals
<1>4. \A r \in PlanRequests : PlanKnows(r)'
  BY <1>2 DEF PlanIInv, PlanKnows, plocals
<1>5. ASSUME Orderly
      PROVE  Orderly'
  <2>1. \A r \in PlanRequests : StillTrue(r)'
    <3> TAKE r \in PlanRequests
    <3>1. StillTrue(r) /\ pterms[r] \in PlanTerms \union {NoTerms}
      BY <1>1, <1>5 DEF Orderly, PlanTypeOK
    <3>2. LimitOf(pterms[r]) \in Nat /\ accounts \in Nat /\ accounts' \in Nat
      BY <1>1, <1>2, <3>1, Terms DEF PlanTypeOK
    <3> QED BY <1>2, <3>1, <3>2 DEF StillTrue, plocals, organization, history
  <2> QED BY <1>2, <1>5, <2>1 DEF Orderly, OneOfAKind, organization, history
<1> QED BY <1>2, <1>3, <1>4, <1>5 DEF PlanIInv

\* Each step keeps the inductive invariant.
LEMMA PlanNextInv == PlanIInv /\ [PlanNext]_pvars => PlanIInv'
<1> SUFFICES ASSUME PlanIInv, [PlanNext]_pvars PROVE PlanIInv'
  OBVIOUS
<1>1. CASE \E r \in PlanRequests : Asking(r)
  BY <1>1, AskingInv
<1>2. CASE \E r \in PlanRequests : Running(r)
  BY <1>2, RunningInv
<1>3. CASE removeAccount \/ DayPasses
  BY <1>3, OthersInv
<1>4. CASE UNCHANGED pvars
  BY <1>4 DEF PlanIInv, PlanTypeOK, PlanKnows, Orderly, OneOfAKind, StillTrue, pvars, pdata,
              organization, history, plocals
<1> QED BY <1>1, <1>2, <1>3, <1>4 DEF PlanNext, Asking, Running

\* The invariant implies what the plan promises.
LEMMA PlanInvHolds == PlanIInv => PlanInv
<1> SUFFICES ASSUME PlanIInv PROVE PlanInv
  OBVIOUS
<1>1. NoAccountOverPlan
  BY DEF PlanIInv, Orderly, StillTrue, NoAccountOverPlan
<1>2. PlanGrantsOnce
  BY DEF PlanIInv, Orderly, PlanGrantsOnce
<1>3. ExpiryFollowsPlan /\ SwitchesStick
  BY DEF PlanIInv, Orderly, ExpiryFollowsPlan, SwitchesStick
<1> QED BY <1>1, <1>2, <1>3 DEF PlanIInv, PlanInv

\* A plan is taken from its organization by writeOrg with no plan, or by deletePlan, which
\* is about another plan than the organization's.
LEMMA NotPulledStep ==
  ASSUME PlanIInv, [PlanNext]_pvars, orderly, planId # NoPlan, planId' = NoPlan
  PROVE  \E r \in PlanRequests : pstep[r] = "writeOrg" /\ pname[r] = NoPlan
<1>1. ~(removeAccount \/ DayPasses \/ UNCHANGED pvars)
  BY DEF removeAccount, DayPasses, pvars, pdata, organization
<1>2. \A r \in PlanRequests : ~Asking(r)
  BY AskingTyped DEF PlanIInv, pdata, organization
<1>3. PICK r \in PlanRequests : Running(r)
  BY <1>1, <1>2 DEF PlanNext, Asking, Running
<1>4. pstep[r] = "deletePlan" => pname[r] # planId
  BY DEF PlanIInv, Orderly, StillTrue
<1>5. CASE writeOrg(r)
  BY <1>5 DEF writeOrg
<1>6. ~deletePlan(r)
  BY <1>4 DEF deletePlan
<1>7. CASE ~writeOrg(r)
  <2>1. UNCHANGED planId
    BY <1>3, <1>6, <1>7 DEF Running, writePlan, inUse, findOrg, readPlan, topupPlan,
       readSwitches, writeSwitches, planLimit, countAccounts, insertAccount, StatementFails,
       PStays, pdata, organization
  <2> QED BY <2>1
<1> QED BY <1>5, <1>7
-----------------------------------------------------------------------------
(* Theorems *)

\* For any plans, modules, accounts, days and requests that do not overlap: credits are booked once
\* for each plan assigned, the end date is that of the assignment, an account is created
\* within the limit read for it, and the switches are as they were last set.
THEOREM PlanInvCorrect == PlanSpec => []PlanInv
<1> QED BY PlanInitInv, PlanNextInv, PlanInvHolds, PTL DEF PlanSpec

\* While requests do not overlap, an organization loses its plan by its own update only.
THEOREM PlanNotPulledCorrect == PlanSpec => PlanNotPulled
<1>1. PlanIInv /\ [PlanNext]_pvars =>
        [orderly /\ planId # NoPlan /\ planId' = NoPlan =>
            \E r \in PlanRequests : pstep[r] = "writeOrg" /\ pname[r] = NoPlan]_pvars
  BY NotPulledStep
<1> QED BY <1>1, PlanInitInv, PlanNextInv, PTL DEF PlanSpec, PlanNotPulled

HIDE PlanAdminAssumption

-----------------------------------------------------------------------------
(* Contacts.  Memberships and opt-outs belong to contacts that exist, the     *)
(* summary of an import accounts for each row and for each contact it        *)
(* created, and no import takes an opt-out back.                             *)

USE ContactBookAssumption

BookSteps == {"idle", "findPhone", "insertContact", "found", "edit", "delete", "optOut",
              "optIn", "row", "updateRow", "addRow", "members"}
Numbers == Phones \union {NoNumber, "delete", "optOut", "optIn"}

\* The rows.
Tables ==
    /\ clear \in BOOLEAN /\ list \in BOOLEAN
    /\ phone \in [Contacts -> Phones \union {"unborn", "gone"}]
    /\ optedOut \subseteq Saved /\ members \subseteq Saved /\ (~list => members = {})

\* The locals of the requests.
Locals ==
    /\ bstep \in [BookRequests -> BookSteps]
    /\ subject \in [BookRequests -> Contacts \union {NoContact}]
    /\ number \in [BookRequests -> Numbers]
    /\ targets \in [BookRequests -> SUBSET Contacts]
    /\ file \in [BookRequests -> Seq(Spelled)]
    /\ total \in [BookRequests -> 0 .. MaxRows]
    /\ summary \in [BookRequests -> [1 .. 3 -> Nat]]
    /\ made \in [BookRequests -> SUBSET Contacts]
    /\ invalid \in [BookRequests -> Nat]

\* A request that writes a number has one, and one that is about a contact has that.
Knows(r) ==
    /\ bstep[r] \in {"findPhone", "insertContact", "updateRow", "addRow"} => number[r] \in Phones
    /\ bstep[r] = "edit" => number[r] \in Phones \union {NoNumber}
    /\ bstep[r] \in {"found", "edit", "delete", "optOut", "optIn", "updateRow"} =>
            subject[r] \in Contacts

\* An import has a row in hand while it writes one, and has counted those before; its
\* contacts have been born.
Counts(r) ==
    /\ ~Importing(r) =>
        file[r] = <<>> /\ summary[r] = <<0, 0, 0>> /\ made[r] = {} /\ invalid[r] = 0
    /\ bstep[r] \in {"updateRow", "addRow"} => file[r] # <<>>
    /\ Importing(r) =>
        /\ summary[r][1] + summary[r][2] + summary[r][3] + Len(file[r]) = total[r]
        /\ summary[r][1] = Cardinality(made[r])
        /\ invalid[r] <= summary[r][3]
    /\ \A c \in made[r] : phone[c] # "unborn"

\* What a request has looked up for a row still holds when it writes it, as long as nothing
\* else is asked for.
StillSo(r) ==
    /\ Importing(r) => summary[r][3] = invalid[r]
    /\ bstep[r] = "addRow" => Holding(number[r]) = {}
    /\ bstep[r] = "updateRow" => subject[r] \in Saved

AloneWithFile == clear =>
    \A r, q \in BookRequests : Importing(r) /\ bstep[q] # "idle" => q = r

\* The inductive invariant.
BookIInv ==
    /\ Tables /\ Locals /\ AloneWithFile
    /\ \A r \in BookRequests : Knows(r) /\ Counts(r) /\ (clear => StillSo(r))

\* A step of one request.
BookStep(r) ==
    \/ createContact(r) \/ findPhone(r) \/ insertContact(r)
    \/ changeContact(r) \/ findContact(r) \/ editContact(r) \/ deleteContact(r)
    \/ setOptedOut(r)
    \/ importCsv(r) \/ importRow(r) \/ updateRow(r) \/ addRow(r) \/ statementFails(r)
    \/ reportImport(r) \/ addMembers(r) \/ insertMembers(r)

-----------------------------------------------------------------------------
(* Helpers *)

\* Counting a row raises one number of the summary by one.
LEMMA CountOne ==
  ASSUME NEW i \in 1 .. 3, NEW s \in [1 .. 3 -> Nat]
  PROVE  /\ Count(i, s) \in [1 .. 3 -> Nat]
         /\ \A j \in 1 .. 3 : Count(i, s)[j] = IF j = i THEN s[j] + 1 ELSE s[j]
         /\ Count(i, s)[1] + Count(i, s)[2] + Count(i, s)[3] = s[1] + s[2] + s[3] + 1
<1>1. /\ Count(i, s) \in [1 .. 3 -> Nat]
      /\ \A j \in 1 .. 3 : Count(i, s)[j] = IF j = i THEN s[j] + 1 ELSE s[j]
  BY DEF Count
<1>2. i = 1 \/ i = 2 \/ i = 3
  OBVIOUS
<1> QED BY <1>1, <1>2

LEMMA NothingCounted == <<0, 0, 0>> \in [1 .. 3 -> Nat]
  OBVIOUS

\* A number that is valid is one the database may keep.
LEMMA Normalized ==
  ASSUME NEW raw \in Spelled
  PROVE  normalizePhoneNumber(raw) \in Phones \union {NoNumber}
  BY DEF Spelled, normalizePhoneNumber

\* The rest of a file.
LEMMA RestOfFile ==
  ASSUME NEW f \in Seq(Spelled), f # <<>>
  PROVE  /\ Head(f) \in Spelled /\ Tail(f) \in Seq(Spelled)
         /\ Len(f) \in Nat /\ Len(Tail(f)) = Len(f) - 1
  BY HeadTailProperties, LenProperties

LEMMA BookInitInv == BookInit => BookIInv
<1> SUFFICES ASSUME BookInit PROVE BookIInv
  OBVIOUS
<1>1. Tables
  BY DEF BookInit, Tables, Saved
<1>2. Locals
  BY NothingCounted DEF BookInit, Locals, BookSteps, Numbers
<1> QED BY <1>1, <1>2 DEF BookInit, BookIInv, AloneWithFile, Knows, Counts, StillSo, Importing
-----------------------------------------------------------------------------
(* Steps *)

\* Rows keep their shape; a contact that exists or existed is never born again.
LEMMA StepTables ==
  ASSUME Tables, Locals, NEW r \in BookRequests, Knows(r), BookStep(r)
  PROVE  /\ Tables' /\ clear' = clear
         /\ \A c \in Contacts : phone[c] # "unborn" => phone'[c] # "unborn"
<1> USE DEF Tables, Knows, Saved, book
<1>1. CASE UNCHANGED <<clear, book>>
  BY <1>1
<1>2. CASE insertContact(r)
  <2>1. clear' = clear /\ bstep[r] = "insertContact" /\ number[r] \in Phones
    BY <1>2 DEF insertContact, BEnds, BGoesOn
  <2>2. CASE UNCHANGED book
    BY <2>1, <2>2
  <2>3. CASE \E c \in Contacts : Insert(c, number[r]) /\ UNCHANGED <<optedOut, list, members>>
    <3>1. PICK c \in Contacts : Insert(c, number[r]) /\ UNCHANGED <<optedOut, list, members>>
      BY <2>3
    <3> QED BY <2>1, <3>1 DEF Insert
  <2> QED BY <1>2, <2>2, <2>3 DEF insertContact
<1>3. CASE editContact(r)
  BY <1>3 DEF editContact, BEnds, BGoesOn
<1>4. CASE deleteContact(r)
  BY <1>4 DEF deleteContact, BEnds, BGoesOn
<1>5. CASE setOptedOut(r)
  BY <1>5 DEF setOptedOut, BEnds, BGoesOn
<1>6. CASE addRow(r)
  <2>1. clear' = clear /\ bstep[r] = "addRow" /\ number[r] \in Phones
    BY <1>6 DEF addRow, RowDone, BGoesOn
  <2>2. CASE UNCHANGED book
    BY <2>1, <2>2
  <2>3. CASE \E c \in Contacts : Insert(c, number[r]) /\ UNCHANGED <<optedOut, list, members>>
    <3>1. PICK c \in Contacts : Insert(c, number[r]) /\ UNCHANGED <<optedOut, list, members>>
      BY <2>3
    <3> QED BY <2>1, <3>1 DEF Insert
  <2> QED BY <1>6, <2>2, <2>3 DEF addRow
<1>7. CASE insertMembers(r)
  BY <1>7 DEF insertMembers, BEnds, BGoesOn
<1>8. CASE \/ createContact(r) \/ findPhone(r) \/ changeContact(r) \/ findContact(r)
           \/ importCsv(r) \/ importRow(r) \/ updateRow(r) \/ statementFails(r)
           \/ reportImport(r) \/ addMembers(r)
  BY <1>8, <1>1 DEF createContact, findPhone, changeContact, findContact, importCsv, importRow,
     TreatRow, updateRow, statementFails, reportImport, addMembers, BookAsks, BEnds, BGoesOn, RowDone
<1> QED
  BY <1>2, <1>3, <1>4, <1>5, <1>6, <1>7, <1>8 DEF BookStep

\* A request writes no locals but its own.
LEMMA OwnLocals ==
  ASSUME Locals, NEW r \in BookRequests, BookStep(r), NEW q \in BookRequests, q # r
  PROVE  /\ bstep'[q] = bstep[q] /\ subject'[q] = subject[q] /\ number'[q] = number[q]
         /\ file'[q] = file[q] /\ total'[q] = total[q] /\ summary'[q] = summary[q]
         /\ made'[q] = made[q] /\ invalid'[q] = invalid[q]
<1> USE DEF Locals, blocals, import, BookAsks, BEnds, BGoesOn, RowDone
<1>1. CASE createContact(r) \/ findPhone(r) \/ changeContact(r) \/ findContact(r)
  BY <1>1 DEF createContact, findPhone, changeContact, findContact
<1>2. CASE insertContact(r) \/ editContact(r) \/ deleteContact(r) \/ setOptedOut(r)
  BY <1>2 DEF insertContact, editContact, deleteContact, setOptedOut
<1>3. CASE importCsv(r) \/ updateRow(r) \/ statementFails(r) \/ reportImport(r)
  BY <1>3 DEF importCsv, updateRow, statementFails, reportImport
<1>4. CASE importRow(r)
  BY <1>4 DEF importRow, TreatRow
<1>5. CASE addRow(r)
  BY <1>5 DEF addRow
<1>6. CASE addMembers(r) \/ insertMembers(r)
  BY <1>6 DEF addMembers, insertMembers
<1> QED BY <1>1, <1>2, <1>3, <1>4, <1>5, <1>6 DEF BookStep

\* What a request that ends leaves of itself.
LEMMA EndsClean ==
  ASSUME Locals, NEW r \in BookRequests, BEnds(r)
  PROVE  /\ Locals' /\ bstep'[r] = "idle" /\ file'[r] = <<>> /\ summary'[r] = <<0, 0, 0>>
         /\ made'[r] = {} /\ invalid'[r] = 0
<1>1. <<>> \in Seq(Spelled) /\ 0 \in 0 .. MaxRows
  OBVIOUS
<1> QED BY <1>1, NothingCounted DEF Locals, BEnds, BGoesOn, BookSteps, Numbers

\* What counting a row changes.
LEMMA RowCounted ==
  ASSUME Locals, NEW r \in BookRequests, NEW i \in 1 .. 3, RowDone(r, i), file[r] # <<>>
  PROVE  /\ bstep' \in [BookRequests -> BookSteps] /\ bstep'[r] = "row"
         /\ file' \in [BookRequests -> Seq(Spelled)]
         /\ summary' \in [BookRequests -> [1 .. 3 -> Nat]]
         /\ summary'[r][1] + summary'[r][2] + summary'[r][3] + Len(file'[r])
                = summary[r][1] + summary[r][2] + summary[r][3] + Len(file[r])
         /\ summary'[r][1] = IF i = 1 THEN summary[r][1] + 1 ELSE summary[r][1]
         /\ summary'[r][3] = IF i = 3 THEN summary[r][3] + 1 ELSE summary[r][3]
         /\ summary[r][1] \in Nat /\ summary[r][3] \in Nat
         /\ UNCHANGED <<subject, number, targets, total>>
<1>1. summary[r] \in [1 .. 3 -> Nat] /\ file[r] \in Seq(Spelled)
  BY DEF Locals
<1>2. /\ Count(i, summary[r]) \in [1 .. 3 -> Nat]
      /\ \A j \in 1 .. 3 : Count(i, summary[r])[j]
                                = IF j = i THEN summary[r][j] + 1 ELSE summary[r][j]
      /\ Count(i, summary[r])[1] + Count(i, summary[r])[2] + Count(i, summary[r])[3]
            = summary[r][1] + summary[r][2] + summary[r][3] + 1
  BY <1>1, CountOne, Zenon
<1>3. /\ Tail(file[r]) \in Seq(Spelled) /\ Len(file[r]) \in Nat
      /\ Len(Tail(file[r])) = Len(file[r]) - 1
  BY <1>1, RestOfFile
<1>4. summary'[r] = Count(i, summary[r]) /\ file'[r] = Tail(file[r])
  BY DEF RowDone, Locals
<1>5. /\ bstep' \in [BookRequests -> BookSteps] /\ bstep'[r] = "row"
      /\ file' \in [BookRequests -> Seq(Spelled)]
      /\ summary' \in [BookRequests -> [1 .. 3 -> Nat]]
      /\ UNCHANGED <<subject, number, targets, total>>
  BY <1>2, <1>3 DEF RowDone, BGoesOn, Locals, BookSteps
<1>6. PICK s \in [1 .. 3 -> Nat], d \in [1 .. 3 -> Nat] : s = summary[r] /\ d = summary'[r]
  BY <1>1, <1>2, <1>4
<1>7. /\ d[1] + d[2] + d[3] = s[1] + s[2] + s[3] + 1
      /\ d[1] = IF 1 = i THEN s[1] + 1 ELSE s[1]
      /\ d[3] = IF 3 = i THEN s[3] + 1 ELSE s[3]
  <2>1. 1 \in 1 .. 3 /\ 3 \in 1 .. 3
    OBVIOUS
  <2> QED BY <1>2, <1>4, <1>6, <2>1, Zenon
<1>8. PICK m \in Nat, n \in Nat : m = Len(file[r]) /\ n = Len(file'[r]) /\ n = m - 1
  BY <1>1, <1>3, <1>4, LenProperties
<1>9. d[1] + d[2] + d[3] + n = s[1] + s[2] + s[3] + m
  BY <1>7, <1>8
<1>10. summary'[r][1] + summary'[r][2] + summary'[r][3] + Len(file'[r])
            = summary[r][1] + summary[r][2] + summary[r][3] + Len(file[r])
  BY <1>6, <1>8, <1>9, Zenon
<1>11. /\ summary'[r][1] = IF i = 1 THEN summary[r][1] + 1 ELSE summary[r][1]
       /\ summary'[r][3] = IF i = 3 THEN summary[r][3] + 1 ELSE summary[r][3]
  BY <1>6, <1>7
<1>12. summary[r][1] \in Nat /\ summary[r][3] \in Nat
  BY <1>6
<1> QED BY <1>5, <1>10, <1>11, <1>12, Zenon

\* A row that is counted under i keeps the import adding up, when a contact is made for
\* i = 1 only, and only skipped rows are invalid.
LEMMA RowKeepsCounts ==
  ASSUME Locals, NEW r \in BookRequests, NEW i \in 1 .. 3, RowDone(r, i), file[r] # <<>>,
         Importing(r), Counts(r),
         Cardinality(made'[r]) = Cardinality(made[r]) + (IF i = 1 THEN 1 ELSE 0),
         invalid'[r] = invalid[r] \/ (i = 3 /\ invalid'[r] = invalid[r] + 1),
         \A c \in made'[r] : phone'[c] # "unborn"
  PROVE  Knows(r)' /\ Counts(r)'
<1> DEFINE s == summary[r]
           d == summary'[r]
<1>1. /\ bstep'[r] = "row" /\ s[1] \in Nat /\ s[3] \in Nat /\ total'[r] = total[r]
      /\ d[1] + d[2] + d[3] + Len(file'[r]) = s[1] + s[2] + s[3] + Len(file[r])
      /\ d[1] = IF i = 1 THEN s[1] + 1 ELSE s[1]
      /\ d[3] = IF i = 3 THEN s[3] + 1 ELSE s[3]
  BY RowCounted
<1>2. /\ s[1] + s[2] + s[3] + Len(file[r]) = total[r] /\ s[1] = Cardinality(made[r])
      /\ invalid[r] <= s[3] /\ invalid[r] \in Nat
  BY DEF Counts, Locals
<1>3. d[1] + d[2] + d[3] + Len(file'[r]) = total'[r]
  BY <1>1, <1>2
<1>4. d[1] = Cardinality(made'[r])
  BY <1>1, <1>2
<1>5. invalid'[r] <= d[3]
  <2> HIDE DEF s, d
  <2> QED BY <1>1, <1>2
<1> QED BY <1>1, <1>3, <1>4, <1>5 DEF Knows, Counts, Importing

\* The request that steps: its locals keep their shape, it knows what it needs next, and
\* its import adds up.
LEMMA StepLocals ==
  ASSUME Tables, Locals, NEW r \in BookRequests, Knows(r), Counts(r), BookStep(r)
  PROVE  Locals' /\ Knows(r)' /\ Counts(r)'
<1>0. \A c \in Contacts : phone[c] # "unborn" => phone'[c] # "unborn"
  BY StepTables
<1>1. CASE BEnds(r)
  <2>1. /\ Locals' /\ bstep'[r] = "idle" /\ file'[r] = <<>> /\ summary'[r] = <<0, 0, 0>>
        /\ made'[r] = {} /\ invalid'[r] = 0
    BY <1>1, EndsClean
  <2> QED BY <2>1 DEF Knows, Counts, Importing
<1>2. CASE createContact(r) \/ changeContact(r) \/ addMembers(r)
  <2>1. /\ bstep[r] = "idle" /\ UNCHANGED <<import, phone>>
        /\ bstep' \in [BookRequests -> BookSteps] /\ bstep'[r] \in {"findPhone", "found", "members"}
    BY <1>2 DEF createContact, changeContact, addMembers, BookAsks, book, Locals, BookSteps
  <2>2. /\ subject' \in [BookRequests -> Contacts \union {NoContact}]
        /\ number' \in [BookRequests -> Numbers]
        /\ targets' \in [BookRequests -> SUBSET Contacts]
    <3>1. CASE createContact(r)
      BY <3>1 DEF createContact, Locals, Numbers
    <3>2. CASE changeContact(r)
      BY <3>2 DEF changeContact, Locals, Numbers
    <3>3. CASE addMembers(r)
      BY <3>3 DEF addMembers, Locals
    <3> QED BY <1>2, <3>1, <3>2, <3>3
  <2>3. Knows(r)'
    BY <1>2, <2>1 DEF createContact, changeContact, addMembers, BookAsks, Knows, Locals
  <2>4. Counts(r)'
    BY <2>1 DEF Counts, Importing, import, Locals
  <2> QED BY <2>1, <2>2, <2>3, <2>4 DEF Locals, import
<1>3. CASE (findPhone(r) \/ findContact(r)) /\ ~BEnds(r)
  <2>1. /\ UNCHANGED <<blocals, phone>> /\ bstep[r] \in {"findPhone", "found"}
        /\ bstep' \in [BookRequests -> BookSteps]
        /\ bstep'[r] \in {"insertContact", "delete", "optOut", "optIn", "edit"}
    BY <1>3 DEF findPhone, findContact, BGoesOn, book, Locals, BookSteps
  <2>2. Locals'
    BY <2>1 DEF Locals, blocals, import
  <2>3. Knows(r)'
    BY <1>3 DEF findPhone, findContact, BGoesOn, Knows, Locals, blocals, Numbers
  <2>4. Counts(r)'
    BY <2>1 DEF Counts, Importing, blocals, import, Locals
  <2> QED BY <2>2, <2>3, <2>4
<1>4. CASE importCsv(r)
  <2>1. PICK n \in 1 .. MaxRows : \E lines \in [1 .. n -> Spelled] :
            /\ BookAsks(r, "row")
            /\ file' = [file EXCEPT ![r] = lines] /\ total' = [total EXCEPT ![r] = n]
            /\ UNCHANGED <<subject, number, targets, summary, made, invalid>>
    BY <1>4 DEF importCsv
  <2>2. PICK lines \in [1 .. n -> Spelled] :
            /\ BookAsks(r, "row")
            /\ file' = [file EXCEPT ![r] = lines] /\ total' = [total EXCEPT ![r] = n]
            /\ UNCHANGED <<subject, number, targets, summary, made, invalid>>
    BY <2>1
  <2>3. lines \in Seq(Spelled) /\ Len(lines) = n /\ n \in 0 .. MaxRows
    BY IsASeq, LenProperties
  <2>4. Locals'
    BY <2>2, <2>3 DEF Locals, BookAsks, BookSteps
  <2>5. bstep'[r] = "row" /\ bstep[r] = "idle"
    BY <2>2 DEF BookAsks, Locals
  <2>6. summary'[r] = <<0, 0, 0>> /\ made'[r] = {} /\ invalid'[r] = 0
    BY <2>2, <2>5 DEF Counts, Importing
  <2>7. file'[r] = lines /\ total'[r] = n
    BY <2>2 DEF Locals
  <2>8. Counts(r)'
    BY <2>3, <2>5, <2>6, <2>7, FS_EmptySet DEF Counts, Importing
  <2>9. Knows(r)'
    BY <2>5 DEF Knows
  <2> QED BY <2>4, <2>8, <2>9
<1>5. CASE importRow(r)
  <2> DEFINE n == normalizePhoneNumber(Head(file[r]))
  <2>1. bstep[r] = "row" /\ file[r] # <<>> /\ TreatRow(r, n, Holding(n)) /\ UNCHANGED book
    BY <1>5 DEF importRow
  <2>2. n \in Phones \union {NoNumber}
    BY <2>1, RestOfFile, Normalized DEF Locals
  <2>3. CASE ~isValidPhoneNumber(n)
    <3>1. /\ RowDone(r, 3) /\ invalid' = [invalid EXCEPT ![r] = @ + 1] /\ UNCHANGED made
      BY <2>1, <2>3 DEF TreatRow
    <3>2. Locals'
      <4>1. 3 \in 1 .. 3 /\ invalid' \in [BookRequests -> Nat]
        BY <3>1 DEF Locals
      <4> HIDE DEF n
      <4> QED BY <2>1, <3>1, <4>1, RowCounted DEF Locals
    <3>3. invalid[r] \in Nat /\ invalid'[r] = invalid[r] + 1 /\ made'[r] = made[r]
      BY <3>1 DEF Locals
    <3>4. Cardinality(made[r]) \in Nat /\ \A c \in made'[r] : phone'[c] # "unborn"
      BY <3>3, <1>0, FS_Subset, FS_CardinalityType DEF Locals, Counts
    <3>5. Knows(r)' /\ Counts(r)'
      BY <2>1, <3>1, <3>3, <3>4, RowKeepsCounts DEF Importing
    <3> QED BY <3>2, <3>5
  <2>4. CASE isValidPhoneNumber(n)
    <3>1. /\ number' = [number EXCEPT ![r] = n]
          /\ \/ BGoesOn(r, "addRow") /\ UNCHANGED subject
             \/ \E c \in Holding(n) :
                   BGoesOn(r, "updateRow") /\ subject' = [subject EXCEPT ![r] = c]
          /\ UNCHANGED <<targets, file, total, summary, made, invalid>>
      BY <2>1, <2>4 DEF TreatRow
    <3>2. n \in Phones
      BY <2>2, <2>4 DEF isValidPhoneNumber
    <3>3. Holding(n) \subseteq Contacts
      BY DEF Holding, Saved
    <3>4. Locals' /\ Knows(r)' /\ bstep'[r] \in {"addRow", "updateRow"}
      BY <3>1, <3>2, <3>3 DEF Locals, Knows, BGoesOn, BookSteps, Numbers
    <3> QED BY <2>1, <3>1, <3>4, <1>0 DEF Counts, Importing, Locals
  <2> QED BY <2>3, <2>4
<1>6. CASE updateRow(r)
  <2>1. PICK i \in {2, 3} : RowDone(r, i) /\ bstep[r] = "updateRow" /\ UNCHANGED <<made, invalid>>
    BY <1>6 DEF updateRow
  <2>2. file[r] # <<>> /\ i \in 1 .. 3
    BY <2>1 DEF Counts
  <2>3. Locals'
    BY <2>1, <2>2, RowCounted DEF Locals
  <2>4. /\ Cardinality(made[r]) \in Nat /\ made'[r] = made[r] /\ invalid'[r] = invalid[r]
        /\ \A c \in made'[r] : phone'[c] # "unborn"
    BY <2>1, <1>0, FS_Subset, FS_CardinalityType DEF Locals, Counts
  <2>5. Knows(r)' /\ Counts(r)'
    BY <2>1, <2>2, <2>4, RowKeepsCounts DEF Importing
  <2> QED BY <2>3, <2>5
<1>7. CASE addRow(r)
  <2>1. bstep[r] = "addRow" /\ file[r] # <<>> /\ 1 \in 1 .. 3 /\ 3 \in 1 .. 3
    BY <1>7 DEF addRow, Counts
  <2>2. CASE \E c \in Contacts :
            /\ Insert(c, number[r]) /\ made' = [made EXCEPT ![r] = @ \union {c}]
            /\ RowDone(r, 1) /\ UNCHANGED invalid
    <3>1. PICK c \in Contacts :
            /\ Insert(c, number[r]) /\ made' = [made EXCEPT ![r] = @ \union {c}]
            /\ RowDone(r, 1) /\ UNCHANGED invalid
      BY <2>2
    <3>2. Locals'
      BY <2>1, <3>1, RowCounted DEF Locals
    <3>3. made[r] \subseteq Contacts /\ made'[r] = made[r] \union {c} /\ c \notin made[r]
      BY <3>1 DEF Locals, Counts, Insert
    <3>4. Cardinality(made'[r]) = Cardinality(made[r]) + 1 /\ Cardinality(made[r]) \in Nat
      BY <3>3, FS_Subset, FS_AddElement, FS_CardinalityType
    <3>5. phone'[c] # "unborn"
      BY <2>1, <3>1 DEF Insert, Knows, Tables
    <3>6. \A d \in made'[r] : phone'[d] # "unborn"
      BY <3>3, <3>5, <1>0 DEF Counts
    <3>7. Knows(r)' /\ Counts(r)'
      BY <2>1, <3>1, <3>4, <3>6, RowKeepsCounts DEF Importing, Locals
    <3> QED BY <3>2, <3>7
  <2>3. CASE RowDone(r, 3) /\ UNCHANGED <<made, invalid>>
    <3>1. Locals'
      BY <2>1, <2>3, RowCounted DEF Locals
    <3>2. /\ Cardinality(made[r]) \in Nat /\ made'[r] = made[r] /\ invalid'[r] = invalid[r]
          /\ \A c \in made'[r] : phone'[c] # "unborn"
      BY <2>3, <1>0, FS_Subset, FS_CardinalityType DEF Locals, Counts
    <3>3. Knows(r)' /\ Counts(r)'
      BY <2>1, <2>3, <3>2, RowKeepsCounts DEF Importing
    <3> QED BY <3>1, <3>3
  <2> QED BY <1>7, <2>2, <2>3 DEF addRow
<1>8. CASE statementFails(r) /\ ~BEnds(r)
  <2>1. RowDone(r, 3) /\ UNCHANGED <<book, made, invalid>> /\ Importing(r)
    BY <1>8 DEF statementFails, HasNumber, Importing
  <2>2. file[r] # <<>> /\ 3 \in 1 .. 3
    BY <1>8 DEF Counts, statementFails, HasNumber
  <2>3. Locals'
    BY <2>1, <2>2, RowCounted DEF Locals
  <2>4. /\ Cardinality(made[r]) \in Nat /\ made'[r] = made[r] /\ invalid'[r] = invalid[r]
        /\ \A c \in made'[r] : phone'[c] # "unborn"
    BY <2>1, <1>0, FS_Subset, FS_CardinalityType DEF Locals, Counts
  <2>5. Knows(r)' /\ Counts(r)'
    BY <2>1, <2>2, <2>4, RowKeepsCounts
  <2> QED BY <2>3, <2>5
<1> QED
  BY <1>1, <1>2, <1>3, <1>4, <1>5, <1>6, <1>7, <1>8 DEF BookStep, insertContact, editContact,
     deleteContact, setOptedOut, reportImport, insertMembers
\* Under clear a request that steps is alone with its file, or nobody has one.
LEMMA StepAlone ==
  ASSUME Tables, Locals, AloneWithFile, NEW r \in BookRequests, Knows(r), BookStep(r)
  PROVE  /\ AloneWithFile'
         /\ clear => \A q \in BookRequests \ {r} : ~Importing(q)
<1>1. /\ clear' = clear
      /\ \A q \in BookRequests \ {r} : bstep'[q] = bstep[q]
  BY StepTables, OwnLocals
<1>2. bstep[r] = "idle" \/ (bstep[r] # "idle" /\ (Importing(r)' => Importing(r)))
  <2> USE DEF Locals, BookAsks, BEnds, BGoesOn, RowDone, Importing
  <2>1. CASE createContact(r) \/ changeContact(r) \/ importCsv(r) \/ addMembers(r)
    BY <2>1 DEF createContact, changeContact, importCsv, addMembers
  <2>2. CASE findPhone(r) \/ insertContact(r) \/ editContact(r) \/ deleteContact(r)
    BY <2>2 DEF findPhone, insertContact, editContact, deleteContact
  <2>3. CASE findContact(r)
    BY <2>3 DEF findContact, Knows, Numbers
  <2>4. CASE setOptedOut(r) \/ insertMembers(r) \/ reportImport(r)
    BY <2>4 DEF setOptedOut, insertMembers, reportImport
  <2>5. CASE importRow(r) \/ updateRow(r) \/ addRow(r) \/ statementFails(r)
    BY <2>5 DEF importRow, updateRow, addRow, statementFails, HasNumber
  <2> QED BY <2>1, <2>2, <2>3, <2>4, <2>5 DEF BookStep
<1>3. ASSUME bstep[r] = "idle"
      PROVE  /\ clear => \A q \in BookRequests : ~Importing(q)
             /\ clear /\ Importing(r)' => \A q \in BookRequests : bstep[q] = "idle"
  <2>1. \E step \in BookSteps : BookAsks(r, step)
    BY <1>3 DEF BookStep, createContact, changeContact, importCsv, addMembers, findPhone,
       insertContact, findContact, editContact, deleteContact, setOptedOut, importRow,
       updateRow, addRow, statementFails, HasNumber, Importing, reportImport, insertMembers,
       BookSteps
  <2>2. PICK step \in BookSteps : BookAsks(r, step)
    BY <2>1
  <2>3. clear => \A q \in BookRequests : ~Importing(q) /\ (step = "row" => bstep[q] = "idle")
    BY <2>2 DEF BookAsks
  <2>4. bstep'[r] = step
    BY <2>2 DEF BookAsks, Locals
  <2>5. Importing(r)' /\ clear => step = "row"
    BY <1>3, <2>2, <2>4 DEF BookStep, createContact, changeContact, importCsv, addMembers, findPhone,
       insertContact, findContact, editContact, deleteContact, setOptedOut, importRow,
       updateRow, addRow, statementFails, HasNumber, reportImport, insertMembers, BookAsks,
       Importing, Locals
  <2> QED BY <2>3, <2>5
<1>4. clear => \A q \in BookRequests \ {r} : ~Importing(q)
  BY <1>2, <1>3 DEF AloneWithFile
<1>5. AloneWithFile'
  BY <1>1, <1>2, <1>3, <1>4 DEF AloneWithFile, Importing
<1> QED BY <1>4, <1>5

\* Under clear the look-up of a row still holds when the row is written.
LEMMA StepStillSo ==
  ASSUME clear, Tables, Locals, NEW r \in BookRequests, Knows(r), Counts(r), StillSo(r), BookStep(r)
  PROVE  StillSo(r)'
<1>1. CASE ~Importing(r)'
  BY <1>1 DEF StillSo, Importing
<1>2. CASE importCsv(r)
  <2>1. bstep'[r] = "row" /\ bstep[r] = "idle" /\ UNCHANGED <<summary, invalid>>
    BY <1>2 DEF importCsv, BookAsks, Locals
  <2> QED BY <2>1 DEF Counts, Importing, StillSo
<1>3. CASE importRow(r)
  <2>1. bstep[r] = "row" /\ file[r] # <<>> /\ UNCHANGED book
    BY <1>3 DEF importRow
  <2>2. CASE \E n : number' = [number EXCEPT ![r] = n] /\ UNCHANGED <<summary, invalid>>
                /\ \/ Holding(n) = {} /\ BGoesOn(r, "addRow")
                   \/ \E c \in Holding(n) :
                        BGoesOn(r, "updateRow") /\ subject' = [subject EXCEPT ![r] = c]
    <3>1. PICK n : /\ number' = [number EXCEPT ![r] = n] /\ UNCHANGED <<summary, invalid>>
                   /\ \/ Holding(n) = {} /\ BGoesOn(r, "addRow")
                      \/ \E c \in Holding(n) :
                           BGoesOn(r, "updateRow") /\ subject' = [subject EXCEPT ![r] = c]
      BY <2>2
    <3>2. summary'[r][3] = invalid'[r]
      BY <2>1, <3>1 DEF StillSo, Importing
    <3>3. phone' = phone /\ number'[r] = n
      BY <2>1, <3>1 DEF book, Locals
    <3>4. CASE Holding(n) = {} /\ BGoesOn(r, "addRow")
      <4>1. bstep'[r] = "addRow"
        BY <3>4 DEF BGoesOn, Locals
      <4>2. Holding(number[r])' = {}
        BY <3>3, <3>4 DEF Holding, Saved
      <4> QED BY <3>2, <4>1, <4>2 DEF StillSo
    <3>5. ASSUME NEW c \in Holding(n), BGoesOn(r, "updateRow"),
                 subject' = [subject EXCEPT ![r] = c]
          PROVE  StillSo(r)'
      <4>1. bstep'[r] = "updateRow" /\ subject'[r] = c
        BY <3>5 DEF BGoesOn, Locals
      <4>2. c \in Saved'
        BY <3>3, <3>5 DEF Holding, Saved
      <4> QED BY <3>2, <4>1, <4>2 DEF StillSo
    <3> QED BY <3>1, <3>4, <3>5
  <2>3. CASE RowDone(r, 3) /\ invalid' = [invalid EXCEPT ![r] = @ + 1]
    <3>1. bstep'[r] = "row" /\ summary'[r][3] = summary[r][3] + 1
      BY <2>1, <2>3, RowCounted
    <3>2. invalid'[r] = invalid[r] + 1
      BY <2>3 DEF Locals
    <3> QED BY <2>1, <3>1, <3>2 DEF StillSo, Importing
  <2> QED BY <1>3, <2>2, <2>3 DEF importRow, TreatRow
<1>4. CASE updateRow(r)
  <2>1. bstep[r] = "updateRow" /\ file[r] # <<>> /\ subject[r] \in Saved
    BY <1>4 DEF updateRow, Counts, StillSo
  <2>2. RowDone(r, 2) /\ invalid' = invalid
    BY <1>4, <2>1 DEF updateRow
  <2>3. bstep'[r] = "row" /\ summary'[r][3] = summary[r][3]
    BY <2>1, <2>2, RowCounted
  <2> QED BY <2>1, <2>2, <2>3 DEF StillSo, Importing
<1>5. CASE addRow(r)
  <2>1. bstep[r] = "addRow" /\ file[r] # <<>> /\ Holding(number[r]) = {}
    BY <1>5 DEF addRow, Counts, StillSo
  <2>2. RowDone(r, 1) /\ invalid' = invalid
    BY <1>5, <2>1 DEF addRow
  <2>3. bstep'[r] = "row" /\ summary'[r][3] = summary[r][3]
    BY <2>1, <2>2, RowCounted
  <2> QED BY <2>1, <2>2, <2>3 DEF StillSo, Importing
<1>6. CASE BEnds(r)
  BY <1>6, EndsClean DEF StillSo, Importing
<1>7. CASE createContact(r) \/ changeContact(r) \/ addMembers(r)
  BY <1>7, <1>1 DEF createContact, changeContact, addMembers, BookAsks, Locals, Importing
<1>8. CASE (findPhone(r) \/ findContact(r)) /\ ~BEnds(r)
  BY <1>8, <1>1 DEF findPhone, findContact, BGoesOn, Locals, Importing, Knows, Numbers
<1>9. ~statementFails(r)
  BY DEF statementFails
<1> QED
  BY <1>2, <1>3, <1>4, <1>5, <1>6, <1>7, <1>8, <1>9 DEF BookStep, insertContact, editContact,
     deleteContact, setOptedOut, reportImport, insertMembers

LEMMA BookStepInv == BookIInv /\ [BookNext]_bvars => BookIInv'
<1> SUFFICES ASSUME BookIInv, [BookNext]_bvars PROVE BookIInv'
  OBVIOUS
<1>1. CASE /\ UNCHANGED <<clear, phone, optedOut, bstep, blocals>>
           /\ list' \in BOOLEAN /\ members' \subseteq Saved /\ (~list' => members' = {})
  BY <1>1 DEF BookIInv, Tables, Locals, AloneWithFile, Knows, Counts, StillSo, Importing,
              Saved, Holding, blocals, import
<1>2. CASE UNCHANGED bvars
  BY <1>1, <1>2 DEF bvars, book, BookIInv, Tables
<1>3. CASE removeMember \/ removeList
  BY <1>1, <1>3 DEF removeMember, removeList, BookIInv, Tables
<1>4. ASSUME NEW r \in BookRequests, BookStep(r) PROVE BookIInv'
  <2>1. /\ Tables' /\ clear' = clear
        /\ \A c \in Contacts : phone[c] # "unborn" => phone'[c] # "unborn"
    BY <1>4, StepTables DEF BookIInv
  <2>2. Locals' /\ Knows(r)' /\ Counts(r)'
    BY <1>4, StepLocals DEF BookIInv
  <2>3. AloneWithFile' /\ (clear => \A q \in BookRequests \ {r} : ~Importing(q))
    BY <1>4, StepAlone DEF BookIInv
  <2>4. clear => StillSo(r)'
    BY <1>4, StepStillSo DEF BookIInv
  <2>5. ASSUME NEW q \in BookRequests, q # r PROVE Knows(q)' /\ Counts(q)' /\ (clear => StillSo(q)')
    <3>1. /\ bstep'[q] = bstep[q] /\ subject'[q] = subject[q] /\ number'[q] = number[q]
          /\ file'[q] = file[q] /\ total'[q] = total[q] /\ summary'[q] = summary[q]
          /\ made'[q] = made[q] /\ invalid'[q] = invalid[q]
      BY <1>4, <2>5, OwnLocals DEF BookIInv
    <3>2. Knows(q) /\ Counts(q) /\ made[q] \subseteq Contacts
      BY DEF BookIInv, Locals
    <3>3. Knows(q)'
      BY <3>1, <3>2 DEF Knows
    <3>4. Counts(q)'
      BY <2>1, <3>1, <3>2 DEF Counts, Importing
    <3>5. clear => StillSo(q)'
      BY <2>3, <2>5, <3>1 DEF StillSo, Importing
    <3> QED BY <3>3, <3>4, <3>5
  <2> QED BY <2>1, <2>2, <2>3, <2>4, <2>5 DEF BookIInv
<1> QED BY <1>2, <1>3, <1>4 DEF BookNext, BookStep

LEMMA BookInvariant == BookSpec => []BookIInv
  BY BookInitInv, BookStepInv, PTL DEF BookSpec

-----------------------------------------------------------------------------
(* Theorems *)

\* ContactsService.importCsv: the report agrees with what the import did, whatever overlaps;
\* memberships and opt-outs are of contacts that exist; alone and with no statement failing, an
\* import skips invalid rows only.
THEOREM BookInvCorrect == BookSpec => []BookInv
<1>1. BookIInv => BookInv
  <2> SUFFICES ASSUME BookIInv PROVE BookTypeOK /\ ImportAddsUp /\ ImportLands
    BY DEF BookInv
  <2>1. ImportAddsUp
    BY DEF BookIInv, Counts, ImportAddsUp
  <2>2. ImportLands
    BY DEF BookIInv, StillSo, ImportLands
  <2>3. ASSUME NEW r \in BookRequests
        PROVE  Len(file[r]) <= total[r] /\ invalid[r] \in 0 .. MaxRows
    <3>1. /\ summary[r] \in [1 .. 3 -> Nat] /\ Len(file[r]) \in Nat
          /\ total[r] \in 0 .. MaxRows /\ invalid[r] \in Nat /\ Counts(r)
      BY LenProperties DEF BookIInv, Locals
    <3>2. CASE Importing(r)
      <4>1. /\ summary[r][1] \in Nat /\ summary[r][2] \in Nat /\ summary[r][3] \in Nat
        BY <3>1
      <4>2. /\ summary[r][1] + summary[r][2] + summary[r][3] + Len(file[r]) = total[r]
            /\ invalid[r] <= summary[r][3]
        BY <3>1, <3>2 DEF Counts
      <4>3. PICK a \in Nat, b \in Nat, c \in Nat :
                a = summary[r][1] /\ b = summary[r][2] /\ c = summary[r][3]
        BY <4>1
      <4>4. PICK n \in Nat, m \in 0 .. MaxRows : n = Len(file[r]) /\ m = total[r]
        BY <3>1
      <4>5. a + b + c + n = m /\ invalid[r] <= c
        BY <4>2, <4>3, <4>4
      <4>6. n <= m /\ c <= MaxRows
        BY <4>5
      <4> QED BY <3>1, <4>4, <4>5, <4>6
    <3>3. CASE ~Importing(r)
      BY <3>1, <3>3 DEF Counts
    <3> QED BY <3>2, <3>3
  <2>4. BookTypeOK
    BY <2>3 DEF BookIInv, Tables, Locals, BookTypeOK
  <2> QED BY <2>1, <2>2, <2>4
<1> QED BY BookInvariant, <1>1, PTL

\* ContactsService.importRow and update leave isOptedOut alone: an opt-out lasts until the
\* contact is deleted or opted in.
THEOREM OptOutSticksCorrect == BookSpec => OptOutSticks
<1> DEFINE Sticks ==
      \A c \in optedOut : c \in optedOut' \/ phone'[c] = "gone"
          \/ \E r \in BookRequests : bstep[r] = "optIn" /\ subject[r] = c
<1>1. ASSUME BookIInv, NEW r \in BookRequests, BookStep(r) PROVE Sticks
  <2>1. CASE optedOut' = optedOut
    BY <2>1
  <2>2. CASE deleteContact(r)
    BY <2>2, <1>1 DEF deleteContact, BookIInv, Tables, Saved
  <2>3. CASE setOptedOut(r)
    BY <2>3, <1>1 DEF setOptedOut, BookIInv, Tables, Saved
  <2> QED
    BY <1>1, <2>1, <2>2, <2>3 DEF BookStep, createContact, findPhone, insertContact,
       changeContact, findContact, editContact, importCsv, importRow, updateRow, addRow,
       statementFails, reportImport, addMembers, insertMembers, BookAsks, book
<1>2. BookIInv /\ [BookNext]_bvars => [Sticks]_bvars
  BY <1>1 DEF BookNext, BookStep, removeMember, removeList
<1> QED BY BookInvariant, <1>2, PTL DEF BookSpec, OptOutSticks
=============================================================================
