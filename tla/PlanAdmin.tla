------------------------------ MODULE PlanAdmin ------------------------------
(***************************************************************************)
(* The plan of one organization, what it grants and what it allows: the      *)
(* Super Admin's PlansService and OrganizationsService and the customer's    *)
(* WhatsAppService.create, one statement at a time.  The credits a plan      *)
(* grants are booked by a statement of its own, after the one that writes    *)
(* the organization.  A plan's name stands for its row.                      *)
(*                                                                          *)
(* orderly is an environment assumption, fixed for a behaviour: requests of  *)
(* one kind (plans, accounts, module switches) do not overlap and no         *)
(* statement fails.  Requests of different kinds may always overlap.         *)
(***************************************************************************)
EXTENDS Integers

CONSTANTS
    PlanRequests,   \* requests that may be under way at a time
    Plans, NoPlan,  \* the names plans may have
    PlanTerms,      \* what a plan may say: <<credits, accounts, days>>, 0 days for no end
    ModuleKeys,     \* the modules that can be switched
    MaxAccounts,    \* bound on the organization's accounts
    MaxToday,       \* bound on the days that pass
    PlanModes       \* the values of orderly to explore

NoTerms == <<0, 0, 0>>

ASSUME PlanAdminAssumption ==
    /\ PlanTerms \subseteq Nat \X (Nat \ {0}) \X Nat
    /\ MaxAccounts \in Nat /\ MaxToday \in Nat /\ PlanModes \subseteq BOOLEAN
    /\ NoPlan \notin Plans

VARIABLES
    orderly,    \* the assumption above
    plan,       \* the row of each plan, or NoTerms
    planId,     \* the organization's plan, or NoPlan
    expires,    \* planExpiresAt: a day, or Never
    switches,   \* enabledModules: absent, on or off
    accounts,   \* how many WhatsApp accounts the organization has
    today,      \* days that have passed
    unpaid,     \* history (kept if orderly): credits assigned with a plan less those booked
    due,        \* history: the end of the plan that was assigned last
    lastSwitch, \* history: how each switch was last set
    pstep,      \* the step of each request
    pname,      \* the plan it is about
    pread,      \* the plan the organization had when it looked
    pterms,     \* the terms it writes or has read
    pflags,     \* the switches it sets
    pseen       \* the switches it has read

organization == <<planId, expires, switches>>
history == <<unpaid, due, lastSwitch>>
plocals == <<pname, pread, pterms, pflags, pseen>>
pdata == <<plan, organization, accounts, history>>
pvars == <<orderly, pdata, today, pstep, plocals>>

Never == -1
Unset == [k \in ModuleKeys |-> "absent"]
GrantOf(terms) == terms[1]
LimitOf(terms) == terms[2]
\* computePlanExpiresAt
EndOf(terms) == IF terms[3] = 0 THEN Never ELSE today + terms[3]
AccountSteps == {"planLimit", "countAccounts", "insertAccount"}
SwitchSteps == {"readSwitches", "writeSwitches"}
KindOf(step) == IF step \in AccountSteps THEN "accounts"
                ELSE IF step \in SwitchSteps THEN "switches" ELSE "plans"

PlanInit ==
    /\ orderly \in PlanModes
    /\ plan = [p \in Plans |-> NoTerms]
    /\ planId = NoPlan /\ expires = Never /\ switches = Unset
    /\ accounts = 0 /\ today = 0
    /\ unpaid = 0 /\ due = Never /\ lastSwitch = Unset
    /\ pstep = [r \in PlanRequests |-> "idle"]
    /\ pname = [r \in PlanRequests |-> NoPlan] /\ pread = [r \in PlanRequests |-> NoPlan]
    /\ pterms = [r \in PlanRequests |-> NoTerms]
    /\ pflags = [r \in PlanRequests |-> Unset] /\ pseen = [r \in PlanRequests |-> Unset]

PlanAsks(r, step) ==
    /\ pstep[r] = "idle"
    /\ orderly => \A q \in PlanRequests : pstep[q] = "idle" \/ KindOf(pstep[q]) # KindOf(step)
    /\ pstep' = [pstep EXCEPT ![r] = step]
    /\ UNCHANGED <<orderly, pdata, today>>
PStays == UNCHANGED <<orderly, pdata, today>>
PGoesOn(r, step) == pstep' = [pstep EXCEPT ![r] = step]
PEnds(r) ==
    /\ PGoesOn(r, "idle")
    /\ pname' = [pname EXCEPT ![r] = NoPlan] /\ pread' = [pread EXCEPT ![r] = NoPlan]
    /\ pterms' = [pterms EXCEPT ![r] = NoTerms]
    /\ pflags' = [pflags EXCEPT ![r] = Unset] /\ pseen' = [pseen EXCEPT ![r] = Unset]

-----------------------------------------------------------------------------
(* PlansService *)

\* create and update: one of them finds the row it wants, or none.
savePlan(r) == \E p \in Plans, terms \in PlanTerms :
    /\ PlanAsks(r, "writePlan")
    /\ pname' = [pname EXCEPT ![r] = p] /\ pterms' = [pterms EXCEPT ![r] = terms]
    /\ UNCHANGED <<pread, pflags, pseen>>

writePlan(r) ==
    /\ pstep[r] = "writePlan"
    /\ plan' = [plan EXCEPT ![pname[r]] = pterms[r]]
    /\ PEnds(r)
    /\ UNCHANGED <<orderly, organization, accounts, today, history>>

removePlan(r) == \E p \in Plans :
    /\ plan[p] # NoTerms /\ PlanAsks(r, "inUse")
    /\ pname' = [pname EXCEPT ![r] = p] /\ UNCHANGED <<pread, pterms, pflags, pseen>>

\* Fault: a plan is deleted without a look at who is on it.
inUseOrNot(r) ==
    /\ pstep[r] = "inUse"
    /\ PGoesOn(r, "deletePlan") /\ UNCHANGED plocals
    /\ PStays

inUse(r) ==
    /\ pstep[r] = "inUse"
    /\ IF pname[r] = planId THEN PEnds(r) ELSE PGoesOn(r, "deletePlan") /\ UNCHANGED plocals
    /\ PStays

\* The organization's foreign key is ON DELETE SET NULL.
deletePlan(r) ==
    /\ pstep[r] = "deletePlan"
    /\ plan' = [plan EXCEPT ![pname[r]] = NoTerms]
    /\ planId' = IF planId = pname[r] THEN NoPlan ELSE planId
    /\ PEnds(r)
    /\ UNCHANGED <<orderly, expires, switches, accounts, today, history>>

-----------------------------------------------------------------------------
(* OrganizationsService.update: a plan, or null to clear it; create: the first plan *)

updateOrg(r) == \E p \in Plans \union {NoPlan} :
    /\ PlanAsks(r, "findOrg")
    /\ pname' = [pname EXCEPT ![r] = p] /\ UNCHANGED <<pread, pterms, pflags, pseen>>

findOrg(r) ==
    /\ pstep[r] = "findOrg"
    /\ pread' = [pread EXCEPT ![r] = planId]
    /\ PGoesOn(r, IF pname[r] = NoPlan THEN "writeOrg" ELSE "readPlan")
    /\ PStays /\ UNCHANGED <<pname, pterms, pflags, pseen>>

readPlan(r) ==
    /\ pstep[r] = "readPlan"
    /\ IF plan[pname[r]] = NoTerms THEN PEnds(r)
       ELSE /\ pterms' = [pterms EXCEPT ![r] = plan[pname[r]]]
            /\ PGoesOn(r, "writeOrg") /\ UNCHANGED <<pname, pread, pflags, pseen>>
    /\ PStays

\* Fault: a plan that is saved again starts anew.
planSaved(r) == pname[r] # NoPlan

\* Re-saving the same plan does not reset the expiry.
planChanged(r) == pname[r] # pread[r]

\* The statement fails when the plan has been deleted since.
writeOrg(r) ==
    /\ pstep[r] = "writeOrg"
    /\ pname[r] # NoPlan => plan[pname[r]] # NoTerms
    /\ planId' = pname[r]
    /\ expires' = IF planChanged(r) THEN EndOf(pterms[r]) ELSE expires
    /\ due' = IF orderly /\ planId # pname[r] THEN EndOf(pterms[r]) ELSE due
    /\ unpaid' = IF orderly /\ planId # pname[r] THEN unpaid + GrantOf(pterms[r]) ELSE unpaid
    /\ IF planChanged(r) /\ GrantOf(pterms[r]) > 0
       THEN PGoesOn(r, "topup") /\ UNCHANGED plocals ELSE PEnds(r)
    /\ UNCHANGED <<orderly, plan, switches, accounts, today, lastSwitch>>

\* CreditsService.topup, one transaction.
topupPlan(r) ==
    /\ pstep[r] = "topup"
    /\ unpaid' = IF orderly THEN unpaid - GrantOf(pterms[r]) ELSE unpaid
    /\ PEnds(r)
    /\ UNCHANGED <<orderly, plan, organization, accounts, today, due, lastSwitch>>

-----------------------------------------------------------------------------
(* OrganizationsService.updateModules reads the switches and writes them merged *)

updateModules(r) == \E flags \in [ModuleKeys -> {"absent", "on", "off"}] :
    /\ PlanAsks(r, "readSwitches")
    /\ pflags' = [pflags EXCEPT ![r] = flags] /\ UNCHANGED <<pname, pread, pterms, pseen>>

readSwitches(r) ==
    /\ pstep[r] = "readSwitches"
    /\ pseen' = [pseen EXCEPT ![r] = switches]
    /\ PGoesOn(r, "writeSwitches")
    /\ PStays /\ UNCHANGED <<pname, pread, pterms, pflags>>

Merged(old, new) == [k \in ModuleKeys |-> IF new[k] = "absent" THEN old[k] ELSE new[k]]

writeSwitches(r) ==
    /\ pstep[r] = "writeSwitches"
    /\ switches' = Merged(pseen[r], pflags[r])
    /\ lastSwitch' = IF orderly THEN Merged(lastSwitch, pflags[r]) ELSE lastSwitch
    /\ PEnds(r)
    /\ UNCHANGED <<orderly, plan, planId, expires, accounts, today, unpaid, due>>

-----------------------------------------------------------------------------
(* WhatsAppService.create and remove *)

createAccount(r) == PlanAsks(r, "planLimit") /\ UNCHANGED plocals

\* Without a plan there is no limit.
planLimit(r) ==
    /\ pstep[r] = "planLimit"
    /\ IF planId = NoPlan
       THEN PGoesOn(r, "insertAccount") /\ UNCHANGED plocals
       ELSE /\ pterms' = [pterms EXCEPT ![r] = plan[planId]]
            /\ PGoesOn(r, "countAccounts") /\ UNCHANGED <<pname, pread, pflags, pseen>>
    /\ PStays

countAccounts(r) ==
    /\ pstep[r] = "countAccounts"
    /\ IF accounts >= LimitOf(pterms[r]) THEN PEnds(r)
       ELSE PGoesOn(r, "insertAccount") /\ UNCHANGED plocals
    /\ PStays

insertAccount(r) ==
    /\ pstep[r] = "insertAccount" /\ accounts < MaxAccounts
    /\ accounts' = accounts + 1
    /\ PEnds(r)
    /\ UNCHANGED <<orderly, plan, organization, today, history>>

removeAccount ==
    /\ accounts > 0 /\ accounts' = accounts - 1
    /\ UNCHANGED <<orderly, plan, organization, today, history, pstep, plocals>>

-----------------------------------------------------------------------------
\* A statement fails: the request is answered with an error, what was written stays.
StatementFails(r) == pstep[r] # "idle" /\ ~orderly /\ PEnds(r) /\ PStays

DayPasses ==
    /\ today < MaxToday /\ today' = today + 1
    /\ UNCHANGED <<orderly, pdata, pstep, plocals>>

PlanNext ==
    \/ \E r \in PlanRequests :
        \/ savePlan(r) \/ writePlan(r) \/ removePlan(r) \/ inUse(r) \/ deletePlan(r)
        \/ updateOrg(r) \/ findOrg(r) \/ readPlan(r) \/ writeOrg(r) \/ topupPlan(r)
        \/ updateModules(r) \/ readSwitches(r) \/ writeSwitches(r)
        \/ createAccount(r) \/ planLimit(r) \/ countAccounts(r) \/ insertAccount(r)
        \/ StatementFails(r)
    \/ removeAccount \/ DayPasses

PlanSpec == PlanInit /\ [][PlanNext]_pvars
-----------------------------------------------------------------------------
(* Properties *)

PlanSteps == {"idle", "writePlan", "inUse", "deletePlan", "findOrg", "readPlan",
              "writeOrg", "topup"} \union AccountSteps \union SwitchSteps
SwitchStates == [ModuleKeys -> {"absent", "on", "off"}]

\* Rows and requests have the shape the code gives them; a plan the organization is on
\* exists, which the foreign key ensures.
PlanTypeOK ==
    /\ orderly \in BOOLEAN
    /\ plan \in [Plans -> PlanTerms \union {NoTerms}]
    /\ planId = NoPlan \/ (planId \in Plans /\ plan[planId] # NoTerms)
    /\ expires \in Nat \union {Never} /\ due \in Nat \union {Never}
    /\ switches \in SwitchStates /\ lastSwitch \in SwitchStates
    /\ accounts \in 0 .. MaxAccounts /\ today \in 0 .. MaxToday /\ unpaid \in Int
    /\ pstep \in [PlanRequests -> PlanSteps]
    /\ pname \in [PlanRequests -> Plans \union {NoPlan}]
    /\ pread \in [PlanRequests -> Plans \union {NoPlan}]
    /\ pterms \in [PlanRequests -> PlanTerms \union {NoTerms}]
    /\ pflags \in [PlanRequests -> SwitchStates] /\ pseen \in [PlanRequests -> SwitchStates]

\* "Your plan allows up to n WhatsApp account(s)" (whatsapp.service.ts): an account that is
\* created is within the limit its request read, although accounts are removed and the plan
\* is edited meanwhile, as long as creations do not overlap.
NoAccountOverPlan ==
    orderly => \A r \in PlanRequests :
        pstep[r] = "insertAccount" /\ pterms[r] # NoTerms => accounts < LimitOf(pterms[r])

\* The credits of a plan are booked once for each time it is assigned, and not when the plan
\* the organization is on already is saved with it again, while requests about plans do not
\* overlap and no statement fails.
PlanGrantsOnce ==
    orderly /\ (\A r \in PlanRequests : pstep[r] # "topup") => unpaid = 0

\* "Re-saving the same plan must not reset the expiry clock" (organizations.service.ts): the
\* end of the organization's plan is the one it was assigned with, also after the plan has
\* been edited and after it was saved again on another day, under the same condition.
ExpiryFollowsPlan == orderly => expires = due

\* "This plan can't be deleted: n organization(s) are still on it" (plans.service.ts):
\* while requests about plans do not overlap, an organization loses its plan by its own update
\* only.  (One that is given the plan between the count and the delete loses it by SET NULL.)
PlanNotPulled ==
    [][orderly /\ planId # NoPlan /\ planId' = NoPlan =>
            \E r \in PlanRequests : pstep[r] = "writeOrg" /\ pname[r] = NoPlan]_pvars

\* Each module is as it was last switched, when one request switches several, or none, while
\* requests about switches do not overlap.
SwitchesStick == orderly => switches = lastSwitch

\* A plan gives an organization its credits, its end date and its limits once and lastingly,
\* whatever is saved, edited, removed or switched between the requests.
PlanInv == PlanTypeOK /\ NoAccountOverPlan /\ PlanGrantsOnce /\ ExpiryFollowsPlan /\ SwitchesStick
=============================================================================
