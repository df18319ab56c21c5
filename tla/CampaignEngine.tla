----------------------------- MODULE CampaignEngine -----------------------------
(***************************************************************************)
(* The campaign engine: CampaignsService (the requests that create, fill,   *)
(* launch, pause, resume, cancel, relaunch, delete and stop campaigns), the *)
(* minute cron that launches scheduled ones, CampaignRunnerService (the     *)
(* one-second tick that claims recipients in the database) and              *)
(* CampaignProcessor (one asynchronous call per claimed recipient).         *)
(*                                                                          *)
(* One Node.js process: each action is one awaited statement and the code   *)
(* up to the next await.  req[q] is a request (or a run of the cron) in     *)
(* progress with its local variables, tick the tick in progress, work[w] a  *)
(* processRecipient call in progress and the completion check that its      *)
(* event triggers.  A row of campaign_recipients is <<campaign, contact>>,  *)
(* the table's unique key.  An id is never used again after a delete.       *)
(*                                                                          *)
(* Time is counted in units long enough for any request; wait[r] is how far *)
(* scheduledFor lies ahead, 0 when it is null or past.  findOne at the end  *)
(* of a request only builds its response and is left out.                   *)
(***************************************************************************)
EXTENDS Integers, FiniteSets

CONSTANTS Campaigns, Contacts,
          Requests,     \* how many requests are in progress at once
          Workers,      \* how many processRecipient calls are in progress at once
          BatchSize,    \* Organization.campaignBatchSize
          MinGap,       \* ... .campaignBatchIntervalMinSeconds, in units of time
          MaxGap,       \* ... .campaignBatchIntervalMaxSeconds, in units of time
          Ops,          \* the requests users make
          OptOuts,      \* the contacts who may opt out or in again
          Flaky,        \* whether the WhatsApp account may lose its connection
          DbFails,      \* whether a database statement may throw
          Crashes,      \* whether the process may stop and start again
          NoCampaign,   \* stands for no campaign
          SetupAlone    \* whether the requests that fill or start a campaign run
                        \* to their end before a tick or another request begins

AllOps == {"create", "update", "add", "launch", "due", "pause", "resume",
           "cancel", "stop", "relaunch", "remove"}

ASSUME SetsAssumption == IsFiniteSet(Campaigns) /\ IsFiniteSet(Contacts)
ASSUME NoCampaignAssumption == NoCampaign \notin Campaigns
ASSUME BatchAssumption == BatchSize \in Nat \ {0}
ASSUME GapAssumption == MinGap \in Nat /\ MaxGap \in Nat
ASSUME OpsAssumption == Ops \subseteq AllOps /\ OptOuts \subseteq Contacts
ASSUME FlagsAssumption == {Flaky, DbFails, Crashes, SetupAlone} \subseteq BOOLEAN

Recipients == Campaigns \X Contacts
Of(c) == {r \in Recipients : r[1] = c}

VARIABLES status,       \* Campaign.status; "none" before create, "deleted" after remove
          later,        \* the campaigns whose scheduledAt lies in the future
          rec,          \* CampaignRecipient.status, "none" where there is no row
          wait,         \* how far scheduledFor lies ahead
          optedOut,     \* Contact.isOptedOut
          connected,    \* the WhatsApp account's status is CONNECTED
          req, tick, work

\* History, never read by an action: how many messages a recipient was sent.
VARIABLE sent

db == <<status, later, rec, wait>>
world == <<optedOut, connected>>
vars == <<db, world, req, tick, work, sent>>

Launchable == {"DRAFT", "SCHEDULED"}
LAUNCHED_STATUSES == {"DRAFT", "SCHEDULED", "RUNNING", "PAUSED"}
ACTIVE_RECIPIENT_STATUSES == {"PENDING", "QUEUED", "SENDING"}
\* Fault: rows that are SENDING may be claimed again, as if they were stuck.
ClaimableAgain == {"PENDING", "QUEUED", "SENDING"}
Claimable == {"PENDING", "QUEUED"}

CampaignStatus == LAUNCHED_STATUSES \union {"COMPLETED", "CANCELLED", "none", "deleted"}
RecipientStatus == ACTIVE_RECIPIENT_STATUSES \union
                   {"SENT", "FAILED", "SKIPPED_OPTOUT", "CANCELLED", "none"}
Missing == {"none", "deleted"}

WithStatus(c, S) == {r \in Of(c) : rec[r] \in S}
Active(c) == WithStatus(c, ACTIVE_RECIPIENT_STATUSES)

\* updateMany: the rows of rs get status v; a row that is gone is not matched.
SetAll(rs, v) ==
    rec' = [r \in Recipients |-> IF r \in rs /\ rec[r] # "none" THEN v ELSE rec[r]]

--------------------------------------------------------------------------------
(* Requests.                                                                *)

ReqSteps == {"idle", "update", "addContacts", "addWrite", "count", "schedule",
             "runRead", "runWrite", "runPending", "enqueue", "pause", "resume",
             "cancelRead", "cancelWrite", "cancelRecipients", "cancelFind", "remove",
             "relaunchRecipients", "relaunchContacts", "relaunchCreate",
             "relaunchWrite"}
SetupSteps == ReqSteps \ {"idle", "update", "pause", "resume", "cancelRead",
                          "cancelWrite", "cancelRecipients", "cancelFind", "remove"}

\* c: the campaign at hand; todo: the campaigns still to cancel or start; listed:
\* what emergencyStopAll listed; rs: recipients; skip: those seen opted out; flag:
\* whether scheduledAt was seen in the future; gap: cumulativeMs.
NoReq == [at |-> "idle", c |-> NoCampaign, todo |-> {}, listed |-> {}, rs |-> {},
          skip |-> {}, flag |-> FALSE, gap |-> 0]

Set(q, v) == req' = [req EXCEPT ![q] = v]
To(q, step) == Set(q, [req[q] EXCEPT !.at = step])
Return(q) == Set(q, NoReq)

\* A request begins with its first read, which finds what it requires; a request
\* that finds otherwise throws and changes nothing.
Begins(q, op) ==
    /\ op \in Ops
    /\ req[q].at = "idle"
    /\ SetupAlone => \A p \in Requests : req[p].at \notin SetupSteps

BeginsSetup(q, op) ==
    /\ Begins(q, op)
    /\ SetupAlone => tick.at = "idle" /\ \A p \in Requests : req[p].at = "idle"

\* A request on campaign c alone, which its first read must find in a status of S.
Reads(q, c, S, step) ==
    /\ status[c] \in S
    /\ Set(q, [NoReq EXCEPT !.at = step, !.c = c])
    /\ UNCHANGED <<db, world, tick, work, sent>>

\* A statement of request q that throws: the cron catches it and goes on with the
\* next campaign, everything else gives up.
NextToRun(q) ==
    IF req[q].todo = {} THEN Return(q)
    ELSE \E d \in req[q].todo :
            Set(q, [NoReq EXCEPT !.at = "runRead", !.c = d, !.todo = req[q].todo \ {d}])

NextToCancel(q) ==
    IF req[q].todo = {} THEN Return(q)
    ELSE \E d \in req[q].todo :
            Set(q, [NoReq EXCEPT !.at = "cancelRead", !.c = d,
                                 !.todo = req[q].todo \ {d}, !.listed = req[q].listed])

Gone(q) == status[req[q].c] \in Missing
At(q, step) == req[q].at = step

\* create, one write; scheduledAt is optional.
create(c) ==
    /\ "create" \in Ops
    /\ status[c] = "none"
    /\ status' = [status EXCEPT ![c] = "DRAFT"]
    /\ later' \in {later, later \union {c}}
    /\ UNCHANGED <<rec, wait, world, req, tick, work, sent>>

\* update, of a draft; the scheduledAt of the dto is optional.
updateReads(q, c) ==
    Begins(q, "update") /\ Reads(q, c, {"DRAFT"}, "update")

update(q) ==
    /\ At(q, "update")
    /\ later' \in IF Gone(q) THEN {later}
                  ELSE {later, later \union {req[q].c}, later \ {req[q].c}}
    /\ Return(q)
    /\ UNCHANGED <<status, rec, wait, world, tick, work, sent>>

\* addRecipients: the campaign, then the contacts, then createMany, which skips the
\* rows there are and fails when the campaign is gone.
addRecipientsReads(q, c, picks) ==
    /\ BeginsSetup(q, "add")
    /\ status[c] \in Launchable
    /\ Set(q, [NoReq EXCEPT !.at = "addContacts", !.c = c, !.rs = {c} \X picks])
    /\ UNCHANGED <<db, world, tick, work, sent>>

addRecipientsContacts(q) ==
    /\ At(q, "addContacts")
    /\ Set(q, [req[q] EXCEPT !.at = "addWrite", !.skip = optedOut])
    /\ UNCHANGED <<db, world, tick, work, sent>>

\* createMany, of the recipients rs, for opted-out and other contacts.
CreateRecipients(q) ==
    rec' = [r \in Recipients |->
              IF r \in req[q].rs /\ rec[r] = "none" /\ ~Gone(q)
              THEN IF r[2] \in req[q].skip THEN "SKIPPED_OPTOUT" ELSE "PENDING"
              ELSE rec[r]]

addRecipients(q) ==
    /\ At(q, "addWrite")
    /\ CreateRecipients(q)
    /\ Return(q)
    /\ UNCHANGED <<status, later, wait, world, tick, work, sent>>

\* launch: the campaign, the count of PENDING rows, then SCHEDULED or startRunning.
\* (A scheduledAt reached between the two is one reached before the first.)
launchReads(q, c) ==
    /\ BeginsSetup(q, "launch")
    /\ status[c] \in Launchable
    /\ Set(q, [NoReq EXCEPT !.at = "count", !.c = c, !.flag = c \in later])
    /\ UNCHANGED <<db, world, tick, work, sent>>

launchCounts(q) ==
    /\ At(q, "count")
    /\ IF WithStatus(req[q].c, {"PENDING"}) = {} THEN Return(q)
       ELSE To(q, IF req[q].flag THEN "schedule" ELSE "runRead")
    /\ UNCHANGED <<db, world, tick, work, sent>>

\* UPDATE ... SET status = v WHERE id = ?, which throws when the row is gone.
Write(q, v) ==
    status' = IF Gone(q) THEN status ELSE [status EXCEPT ![req[q].c] = v]

Writes(q, step, v) ==
    /\ At(q, step)
    /\ Write(q, v)
    /\ Return(q)
    /\ UNCHANGED <<later, rec, wait, world, tick, work, sent>>

launchSchedules(q) == Writes(q, "schedule", "SCHEDULED")

\* startRunning: the campaign with its organization's batch settings, ...
startRunningReads(q) ==
    /\ At(q, "runRead")
    /\ IF Gone(q) THEN NextToRun(q) ELSE To(q, "runWrite")
    /\ UNCHANGED <<db, world, tick, work, sent>>

\* ... status RUNNING whatever it was, ...
startRunning(q) ==
    /\ At(q, "runWrite")
    /\ Write(q, "RUNNING")
    /\ IF Gone(q) THEN NextToRun(q) ELSE To(q, "runPending")
    /\ UNCHANGED <<later, rec, wait, world, tick, work, sent>>

\* ... and the PENDING rows, handed to enqueueMany.
startRunningLists(q) ==
    /\ At(q, "runPending")
    /\ LET pending == WithStatus(req[q].c, {"PENDING"}) IN
         IF pending = {} THEN NextToRun(q)
         ELSE Set(q, [req[q] EXCEPT !.at = "enqueue", !.rs = pending, !.gap = 0])
    /\ UNCHANGED <<db, world, tick, work, sent>>

\* Fault: the range begins one too low.
DelaysOffByOne == (MinGap - 1) .. MaxGap

\* randomDelaySeconds: any value of the range, minSeconds when it is empty.
Delays == IF MaxGap <= MinGap THEN {MinGap} ELSE MinGap .. MaxGap

\* The next n elements of a list whose order is not modelled.
Firsts(S, n) ==
    {T \in SUBSET S : Cardinality(T) = IF Cardinality(S) < n THEN Cardinality(S) ELSE n}

\* enqueueMany, one batch: its rows become QUEUED whatever they were, all with the
\* same scheduledFor; the next batch comes a random delay later.
enqueueMany(q) ==
    /\ At(q, "enqueue")
    /\ \E batch \in Firsts(req[q].rs, BatchSize) :
         /\ SetAll(batch, "QUEUED")
         /\ wait' = [r \in Recipients |-> IF r \in batch /\ rec[r] # "none"
                                       THEN req[q].gap ELSE wait[r]]
         /\ IF batch = req[q].rs THEN NextToRun(q)
            ELSE \E delay \in Delays :
                   Set(q, [req[q] EXCEPT !.rs = @ \ batch, !.gap = @ + delay])
    /\ UNCHANGED <<status, later, world, tick, work, sent>>

\* Fault: scheduledAt is compared the wrong way round.
launchEarlyCampaigns(q) ==
    /\ BeginsSetup(q, "due")
    /\ \E d \in Campaigns :
         LET due == {c \in Campaigns : status[c] = "SCHEDULED" /\ c \in later} IN
         /\ d \in due
         /\ Set(q, [NoReq EXCEPT !.at = "runRead", !.c = d, !.todo = due \ {d}])
    /\ UNCHANGED <<db, world, tick, work, sent>>

\* launchDueCampaigns, the cron: the SCHEDULED campaigns that are due.
launchDueCampaigns(q) ==
    /\ BeginsSetup(q, "due")
    /\ \E d \in Campaigns :
         LET due == {c \in Campaigns : status[c] = "SCHEDULED" /\ c \notin later} IN
         /\ d \in due
         /\ Set(q, [NoReq EXCEPT !.at = "runRead", !.c = d, !.todo = due \ {d}])
    /\ UNCHANGED <<db, world, tick, work, sent>>

\* pause and resume: the status is read, then written whatever it has become.
pauseReads(q, c) ==
    Begins(q, "pause") /\ Reads(q, c, {"RUNNING"}, "pause")
resumeReads(q, c) ==
    Begins(q, "resume") /\ Reads(q, c, {"PAUSED"}, "resume")

pause(q) == Writes(q, "pause", "PAUSED")
resume(q) == Writes(q, "resume", "RUNNING")

\* cancel: the status, the campaign, then its recipients that are still active.
cancelReads(q, c) ==
    Begins(q, "cancel") /\ Reads(q, c, LAUNCHED_STATUSES, "cancelWrite")

cancel(q) ==
    /\ At(q, "cancelWrite")
    /\ Write(q, "CANCELLED")
    /\ IF Gone(q) THEN Return(q) ELSE To(q, "cancelRecipients")
    /\ UNCHANGED <<later, rec, wait, world, tick, work, sent>>

\* Fault: the recipients in flight are left to finish by themselves.
cancelWaitingRecipients(q) ==
    /\ At(q, "cancelRecipients")
    /\ SetAll(WithStatus(req[q].c, Claimable), "CANCELLED")
    /\ IF req[q].listed = {} THEN Return(q) ELSE To(q, "cancelFind")
    /\ UNCHANGED <<status, later, wait, world, tick, work, sent>>

cancelRecipients(q) ==
    /\ At(q, "cancelRecipients")
    /\ SetAll(Active(req[q].c), "CANCELLED")
    /\ IF req[q].listed = {} THEN Return(q) ELSE To(q, "cancelFind")
    /\ UNCHANGED <<status, later, wait, world, tick, work, sent>>

\* emergencyStopAll: the list, then cancel for each; the first cancel that throws
\* ("Campaign has already finished") ends it.
emergencyStopAll(q) ==
    /\ Begins(q, "stop")
    /\ \E d \in Campaigns :
         LET running == {c \in Campaigns :
                           status[c] \in {"RUNNING", "PAUSED", "SCHEDULED"}} IN
         /\ d \in running
         /\ Set(q, [NoReq EXCEPT !.at = "cancelRead", !.c = d,
                                 !.todo = running \ {d}, !.listed = running])
    /\ UNCHANGED <<db, world, tick, work, sent>>

stopReads(q) ==
    /\ At(q, "cancelRead")
    /\ IF status[req[q].c] \in LAUNCHED_STATUSES
       THEN To(q, "cancelWrite") ELSE Return(q)
    /\ UNCHANGED <<db, world, tick, work, sent>>

\* cancel's findOne, which throws when the campaign has just been removed.
stopFinds(q) ==
    /\ At(q, "cancelFind")
    /\ IF Gone(q) THEN Return(q) ELSE NextToCancel(q)
    /\ UNCHANGED <<db, world, tick, work, sent>>

\* relaunch: a completed campaign, its recipients, their contacts, a new campaign
\* with the same recipients, and startRunning.
relaunchReads(q, c) ==
    BeginsSetup(q, "relaunch") /\ Reads(q, c, {"COMPLETED"}, "relaunchRecipients")

relaunchRecipients(q) ==
    /\ At(q, "relaunchRecipients")
    /\ LET source == WithStatus(req[q].c, RecipientStatus \ {"none"}) IN
         IF source = {} THEN Return(q)
         ELSE Set(q, [req[q] EXCEPT !.at = "relaunchContacts", !.rs = source])
    /\ UNCHANGED <<db, world, tick, work, sent>>

relaunchContacts(q) ==
    /\ At(q, "relaunchContacts")
    /\ IF \A r \in req[q].rs : r[2] \in optedOut THEN Return(q)
       ELSE Set(q, [req[q] EXCEPT !.at = "relaunchCreate", !.skip = optedOut])
    /\ UNCHANGED <<db, world, tick, work, sent>>

relaunchCreates(q, d) ==
    /\ At(q, "relaunchCreate")
    /\ status[d] = "none"
    /\ status' = [status EXCEPT ![d] = "DRAFT"]
    /\ Set(q, [req[q] EXCEPT !.at = "relaunchWrite", !.c = d,
                             !.rs = {<<d, r[2]>> : r \in req[q].rs}])
    /\ UNCHANGED <<later, rec, wait, world, tick, work, sent>>

\* This createMany skips no duplicates: it fails as a whole when one of the rows is
\* there (addRecipients found the new draft first) or the campaign is gone.
relaunch(q) ==
    /\ At(q, "relaunchWrite")
    /\ IF Gone(q) \/ \E r \in req[q].rs : rec[r] # "none"
       THEN Return(q) /\ UNCHANGED rec
       ELSE /\ CreateRecipients(q)
            /\ Set(q, [NoReq EXCEPT !.at = "runRead", !.c = req[q].c])
    /\ UNCHANGED <<status, later, wait, world, tick, work, sent>>

\* remove: the status, then the row, and with it (cascade) its recipients.
removeReads(q, c) ==
    Begins(q, "remove") /\ Reads(q, c, {"DRAFT", "COMPLETED", "CANCELLED"}, "remove")

remove(q) ==
    /\ At(q, "remove")
    /\ Write(q, "deleted")
    /\ SetAll(Of(req[q].c), "none")
    /\ wait' = [r \in Recipients |-> IF r \in Of(req[q].c) THEN 0 ELSE wait[r]]
    /\ Return(q)
    /\ UNCHANGED <<later, world, tick, work, sent>>

RequestThrows(q) ==
    /\ DbFails
    /\ req[q].at # "idle"
    /\ IF req[q].at \in {"runRead", "runWrite", "runPending", "enqueue"}
       THEN NextToRun(q) ELSE Return(q)
    /\ UNCHANGED <<db, world, tick, work, sent>>

RequestBegins(q) ==
    \/ \E c \in Campaigns :
         \/ \E picks \in SUBSET Contacts \ {{}} : addRecipientsReads(q, c, picks)
         \/ updateReads(q, c) \/ launchReads(q, c) \/ pauseReads(q, c) \/ resumeReads(q, c)
         \/ cancelReads(q, c) \/ relaunchReads(q, c) \/ removeReads(q, c)
    \/ launchDueCampaigns(q)
    \/ emergencyStopAll(q)

RequestGoesOn(q) ==
    \/ update(q) \/ addRecipientsContacts(q) \/ addRecipients(q)
    \/ launchCounts(q) \/ launchSchedules(q)
    \/ startRunningReads(q) \/ startRunning(q) \/ startRunningLists(q) \/ enqueueMany(q)
    \/ pause(q) \/ resume(q)
    \/ cancel(q) \/ cancelRecipients(q) \/ stopReads(q) \/ stopFinds(q)
    \/ relaunchRecipients(q) \/ relaunchContacts(q)
    \/ (\E d \in Campaigns : relaunchCreates(q, d)) \/ relaunch(q)
    \/ remove(q)
    \/ RequestThrows(q)

--------------------------------------------------------------------------------
(* The tick.  The ticking flag admits one at a time.                        *)

\* todo: the campaigns still to process; c: the one at hand; room: available;
\* due: the recipients it selected and has not tried to claim yet.
NoTick == [at |-> "idle", todo |-> {}, c |-> NoCampaign, room |-> 0, due |-> {}]
NextToTick(todo) ==
    IF todo = {} THEN NoTick ELSE [NoTick EXCEPT !.at = "count", !.todo = todo]

Idle(w) == work[w].at = "idle"

ticking ==
    /\ tick.at = "idle"
    /\ SetupAlone => \A q \in Requests : req[q].at \notin SetupSteps
    /\ \E c \in Campaigns : status[c] = "RUNNING"
    /\ tick' = NextToTick({c \in Campaigns : status[c] = "RUNNING"})
    /\ UNCHANGED <<db, world, req, work, sent>>

\* Fault: a full batch in every tick.
countNothing ==
    /\ tick.at = "count"
    /\ \E c \in tick.todo :
         tick' = [at |-> "find", todo |-> tick.todo \ {c}, c |-> c,
                  room |-> BatchSize, due |-> {}]
    /\ UNCHANGED <<db, world, req, work, sent>>

\* processDueRecipients: the rows in flight, ...
countInFlight ==
    /\ tick.at = "count"
    /\ \E c \in tick.todo :
         LET inFlight == Cardinality(WithStatus(c, {"SENDING"})) IN
         tick' = IF inFlight >= BatchSize THEN NextToTick(tick.todo \ {c})
                 ELSE [at |-> "find", todo |-> tick.todo \ {c}, c |-> c,
                       room |-> BatchSize - inFlight, due |-> {}]
    /\ UNCHANGED <<db, world, req, work, sent>>

Due(c) == {r \in WithStatus(c, Claimable) : wait[r] = 0}

\* Fault: a batch is taken, not what there is room for.
findDueBatch ==
    /\ tick.at = "find"
    /\ \E due \in Firsts(Due(tick.c), BatchSize) :
         tick' = IF due = {} THEN NextToTick(tick.todo)
                 ELSE [tick EXCEPT !.at = "claim", !.due = due]
    /\ UNCHANGED <<db, world, req, work, sent>>

\* ... as many due rows as there is room for, ...
findDue ==
    /\ tick.at = "find"
    /\ \E due \in Firsts(Due(tick.c), tick.room) :
         tick' = IF due = {} THEN NextToTick(tick.todo)
                 ELSE [tick EXCEPT !.at = "claim", !.due = due]
    /\ UNCHANGED <<db, world, req, work, sent>>

\* ... and one conditional update for each; a claimed row is processed in a call of
\* its own, which the tick does not wait for.
claim ==
    /\ tick.at = "claim"
    /\ \E r \in tick.due :
         /\ tick' = IF tick.due = {r} THEN NextToTick(tick.todo)
                    ELSE [tick EXCEPT !.due = @ \ {r}]
         /\ IF rec[r] \in Claimable
            THEN \E w \in Workers :
                   /\ Idle(w)
                   /\ rec' = [rec EXCEPT ![r] = "SENDING"]
                   /\ work' = [work EXCEPT ![w] = [at |-> "load", r |-> r, opted |-> FALSE]]
            ELSE UNCHANGED <<rec, work>>
    /\ UNCHANGED <<status, later, wait, world, req, sent>>

\* A statement throws: the tick goes on with the next campaign.
tickThrows ==
    /\ DbFails
    /\ \/ /\ tick.at = "count"
          /\ \E c \in tick.todo : tick' = NextToTick(tick.todo \ {c})
       \/ /\ tick.at \in {"find", "claim"}
          /\ tick' = NextToTick(tick.todo)
    /\ UNCHANGED <<db, world, req, work, sent>>

Tick == ticking \/ countInFlight \/ findDue \/ claim \/ tickThrows

--------------------------------------------------------------------------------
(* processRecipient and, after its event, handleRecipientProcessed.         *)

WorkSteps == {"idle", "load", "gate", "skip", "send", "sent", "fail",
              "remaining", "check", "complete"}
Processing == {"load", "gate", "skip", "send", "sent", "fail"}
NoWork == [at |-> "idle", r |-> <<>>, opted |-> FALSE]

Working(w, step) == work[w].at = step
WorkTo(w, step) == work' = [work EXCEPT ![w].at = step]
WorkEnds(w) == work' = [work EXCEPT ![w] = NoWork]
CampaignOf(w) == work[w].r[1]

\* The recipient with its contact; a row that is gone, cancelled or skipped is left.
doProcess(w) ==
    /\ Working(w, "load")
    /\ LET r == work[w].r IN
         work' = [work EXCEPT ![w] =
           [at    |-> IF rec[r] \in {"none", "CANCELLED", "SKIPPED_OPTOUT"}
                      THEN "remaining" ELSE "gate",
            r     |-> r,
            opted |-> r[2] \in optedOut]]
    /\ UNCHANGED <<db, world, req, tick, sent>>

\* The campaign with its account; one that does not run is left, its row as it is.
checkCampaign(w) ==
    /\ Working(w, "gate")
    /\ WorkTo(w, IF status[CampaignOf(w)] # "RUNNING" THEN "remaining"
                 ELSE IF work[w].opted THEN "skip"
                 ELSE IF ~connected THEN "fail"
                 ELSE "send")
    /\ UNCHANGED <<db, world, req, tick, sent>>

\* UPDATE ... SET status = v WHERE id = ?, of a recipient.
WriteRecipient(w, v) ==
    rec' = IF rec[work[w].r] = "none" THEN rec ELSE [rec EXCEPT ![work[w].r] = v]

Marks(w, step, v, next) ==
    /\ Working(w, step)
    /\ WriteRecipient(w, v)
    /\ WorkTo(w, next)
    /\ UNCHANGED <<status, later, wait, world, req, tick, sent>>

skipOptedOut(w) == Marks(w, "skip", "SKIPPED_OPTOUT", "remaining")

\* createConversation, renderForContact and sendMessage, by their outcome (module
\* SendMessage): the Message is SENT; or it is FAILED or a guard refuses, and
\* nothing was sent; or a statement fails after WhatsApp accepted it, and it is
\* FAILED all the same.
sendMessage(w) ==
    /\ Working(w, "send")
    /\ \/ /\ sent' = [sent EXCEPT ![work[w].r] = @ + 1]
          /\ WorkTo(w, "sent") \/ (DbFails /\ WorkTo(w, "fail"))
       \/ /\ WorkTo(w, "fail")
          /\ UNCHANGED sent
    /\ UNCHANGED <<db, world, req, tick>>

\* Fault: only a row that is still SENDING becomes SENT.
markSentIfSending(w) ==
    /\ Working(w, "sent")
    /\ IF rec[work[w].r] = "SENDING" THEN WriteRecipient(w, "SENT") ELSE UNCHANGED rec
    /\ WorkTo(w, "remaining")
    /\ UNCHANGED <<status, later, wait, world, req, tick, sent>>

\* The row becomes SENT; when that throws (the row is gone), the catch block runs.
markSent(w) ==
    Marks(w, "sent", "SENT", IF rec[work[w].r] = "none" THEN "fail" ELSE "remaining")

\* Fault: the event of a failed recipient is not emitted.
markFailedSilently(w) ==
    /\ Working(w, "fail")
    /\ WriteRecipient(w, "FAILED")
    /\ WorkEnds(w)
    /\ UNCHANGED <<status, later, wait, world, req, tick, sent>>

markFailed(w) == Marks(w, "fail", "FAILED", "remaining")

\* Fault: recipients in flight do not count as remaining.
handleQueueEmpty(w) ==
    /\ Working(w, "remaining")
    /\ IF WithStatus(CampaignOf(w), Claimable) # {}
       THEN WorkEnds(w) ELSE WorkTo(w, "check")
    /\ UNCHANGED <<db, world, req, tick, sent>>

\* The event is emitted in a finally block, whatever happened before; how many
\* recipients are still active decides whether the check goes on.
handleRecipientProcessed(w) ==
    /\ Working(w, "remaining")
    /\ IF Active(CampaignOf(w)) # {} THEN WorkEnds(w) ELSE WorkTo(w, "check")
    /\ UNCHANGED <<db, world, req, tick, sent>>

checkRunning(w) ==
    /\ Working(w, "check")
    /\ IF status[CampaignOf(w)] = "RUNNING" THEN WorkTo(w, "complete") ELSE WorkEnds(w)
    /\ UNCHANGED <<db, world, req, tick, sent>>

complete(w) ==
    /\ Working(w, "complete")
    /\ status' = IF status[CampaignOf(w)] \in Missing THEN status
                 ELSE [status EXCEPT ![CampaignOf(w)] = "COMPLETED"]
    /\ WorkEnds(w)
    /\ UNCHANGED <<later, rec, wait, world, req, tick, sent>>

\* A statement throws: in the try block markFailed follows, otherwise the call ends,
\* and with it the event or the check.
workThrows(w) ==
    /\ DbFails
    /\ ~Idle(w)
    /\ IF work[w].at = "sent" THEN WorkTo(w, "fail")
       ELSE IF work[w].at \in {"load", "gate", "skip", "fail"} THEN WorkTo(w, "remaining")
       ELSE work[w].at # "send" /\ WorkEnds(w)
    /\ UNCHANGED <<db, world, req, tick, sent>>

Work(w) ==
    \/ doProcess(w) \/ checkCampaign(w) \/ skipOptedOut(w)
    \/ sendMessage(w) \/ markSent(w) \/ markFailed(w)
    \/ handleRecipientProcessed(w) \/ checkRunning(w) \/ complete(w)
    \/ workThrows(w)

--------------------------------------------------------------------------------
(* The surroundings.                                                        *)

\* setOptedOut, of contacts, and the account's connection events.
Surroundings ==
    /\ \/ \E x \in OptOuts :
            /\ optedOut' = IF x \in optedOut THEN optedOut \ {x} ELSE optedOut \union {x}
            /\ UNCHANGED connected
       \/ Flaky /\ connected' = ~connected /\ UNCHANGED optedOut
    /\ UNCHANGED <<db, req, tick, work, sent>>

\* A unit of time passes; a request does not take that long.
Clock ==
    /\ \A q \in Requests : req[q].at # "enqueue"
    /\ \E r \in Recipients : wait[r] > 0
    /\ wait' = [r \in Recipients |-> IF wait[r] > 0 THEN wait[r] - 1 ELSE 0]
    /\ UNCHANGED <<status, later, rec, world, req, tick, work, sent>>

\* A campaign's scheduledAt is reached.
DueDate(c) ==
    /\ c \in later
    /\ later' = later \ {c}
    /\ UNCHANGED <<status, rec, wait, world, req, tick, work, sent>>

\* The process stops and starts again: what was in progress is gone, the database
\* stays, and nothing at start-up looks at campaigns.
Crash ==
    /\ Crashes
    /\ req' = [q \in Requests |-> NoReq]
    /\ tick' = NoTick
    /\ work' = [w \in Workers |-> NoWork]
    /\ <<req, tick, work>>' # <<req, tick, work>>
    /\ UNCHANGED <<db, world, sent>>

Init ==
    /\ status = [c \in Campaigns |-> "none"]
    /\ later = {}
    /\ rec = [r \in Recipients |-> "none"]
    /\ wait = [r \in Recipients |-> 0]
    /\ optedOut = {}
    /\ connected = TRUE
    /\ req = [q \in Requests |-> NoReq]
    /\ tick = NoTick
    /\ work = [w \in Workers |-> NoWork]
    /\ sent = [r \in Recipients |-> 0]

Next ==
    \/ \E c \in Campaigns : create(c) \/ DueDate(c)
    \/ \E q \in Requests : RequestBegins(q) \/ RequestGoesOn(q)
    \/ Tick
    \/ \E w \in Workers : Work(w)
    \/ Surroundings \/ Clock \/ Crash

Spec == Init /\ [][Next]_vars

\* What the runtime guarantees: the interval timer starts a tick again and again, a
\* call in progress is resumed after each await, the cron comes back every minute,
\* time passes.  Users are free never to make a request.  The cron's timer does not
\* wait for users: only the bound on Requests makes it wait for a free place, hence
\* its strong fairness.
Fairness ==
    /\ WF_vars(Tick)
    /\ \A w \in Workers : WF_vars(Work(w))
    /\ \A q \in Requests : WF_vars(RequestGoesOn(q))
    /\ SF_vars(\E q \in Requests : launchDueCampaigns(q))
    /\ WF_vars(Clock)
    /\ \A c \in Campaigns : WF_vars(DueDate(c))

FairSpec == Spec /\ Fairness

--------------------------------------------------------------------------------
(* Properties.                                                              *)

ReqType == [at : ReqSteps, c : Campaigns \union {NoCampaign}, todo : SUBSET Campaigns,
            listed : SUBSET Campaigns, rs : SUBSET Recipients, skip : SUBSET Contacts,
            flag : BOOLEAN, gap : Nat]
TickType == [at : {"idle", "count", "find", "claim"}, todo : SUBSET Campaigns,
             c : Campaigns \union {NoCampaign}, room : Nat, due : SUBSET Recipients]
WorkType == [at : WorkSteps, r : Recipients \union {<<>>}, opted : BOOLEAN]

TypeOK ==
    /\ status \in [Campaigns -> CampaignStatus]
    /\ later \subseteq Campaigns
    /\ rec \in [Recipients -> RecipientStatus]
    /\ wait \in [Recipients -> Nat]
    /\ optedOut \subseteq Contacts
    /\ connected \in BOOLEAN
    /\ req \in [Requests -> ReqType]
    /\ tick \in TickType
    /\ work \in [Workers -> WorkType]
    /\ sent \in [Recipients -> Nat]

\* processDueRecipients: the rows of a campaign that are SENDING never exceed the
\* organization's batch size, however launches, cancels and completions overlap with
\* the claims of a tick that counted them earlier.
BatchCap ==
    \A c \in Campaigns : Cardinality(WithStatus(c, {"SENDING"})) <= BatchSize

\* "Campaigns send once per recipient and are done": no recipient is ever sent two
\* messages of a campaign.
SentOnce == \A r \in Recipients : sent[r] <= 1

\* The calls that process recipients of c, from the claim to the outcome.
InFlight(c) == {w \in Workers : work[w].at \in Processing /\ work[w].r \in Of(c)}

\* Not the rows but the sends themselves: at most a batch of them at once.
SendsCap == \A c \in Campaigns : Cardinality(InFlight(c)) <= BatchSize

\* No request is in the middle of campaign c.
Settled(c) == \A q \in Requests : req[q].c # c

\* When a campaign is over and no request is at work on it, no recipient of it is
\* left PENDING, QUEUED or SENDING, for good.
OverMeansOver ==
    \A c \in Campaigns :
        status[c] \in {"COMPLETED", "CANCELLED"} /\ Settled(c) => Active(c) = {}

\* No call is processing recipient r.
AtRest(r) == \A w \in Workers : ~(work[w].at \in Processing /\ work[w].r = r)

\* What insights and the exported report tell is what happened: once nobody works on
\* a recipient, SENT means one message went out, and any other status that none did,
\* however cancels, pauses and deletes hit calls in progress (no failing statement).
ReportIsTruthful ==
    ~DbFails => \A r \in Recipients : AtRest(r) /\ rec[r] # "none" =>
        sent[r] = IF rec[r] = "SENT" THEN 1 ELSE 0

\* The recipients of a completed campaign stay as they are until it is deleted: the last of
\* them is written before the campaign completes, and relaunch copies them.  Only where users
\* may resume, a row that a cancel took from its call may still change: a resume that read
\* PAUSED before the cancel puts RUNNING over it, and the campaign completes under the call.
CompletedIsFrozen ==
    [][\A r \in Recipients : status[r[1]] = "COMPLETED" =>
         \/ rec'[r] \in {rec[r], "none"}
         \/ "resume" \in Ops /\ rec[r] = "CANCELLED"]_vars

\* A campaign that runs ends, is paused, or is cancelled: the tick and the calls it
\* starts get through all recipients and the last of them completes the campaign.
RunsToItsEnd ==
    \A c \in Campaigns : status[c] = "RUNNING" ~> status[c] # "RUNNING"

\* A scheduled campaign starts when its time has come, unless it is cancelled.
ScheduledStarts ==
    \A c \in Campaigns : status[c] = "SCHEDULED" ~> status[c] # "SCHEDULED"
================================================================================
