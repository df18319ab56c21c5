------------------------- MODULE CampaignEngine_proof -------------------------
(***************************************************************************)
(* What is proved of CampaignEngine for every set of campaigns, contacts,   *)
(* requests and workers, every batch size and every choice of faults: its   *)
(* type invariant and the cap on the rows in flight; and, when campaigns    *)
(* are set up alone, that no recipient is sent to twice, that no more sends *)
(* are under way than a batch, and that what is over stays over and is      *)
(* reported as it was.                                                      *)
(***************************************************************************)
EXTENDS CampaignEngine, FiniteSetTheorems, TLAPS

\* A request in progress has a campaign at hand; any other is NoReq.
InHand == {x \in ReqType : x.c \in Campaigns}
GoodReq == InHand \union {NoReq}

--------------------------------------------------------------------------------
(* Updates of a request's record.                                           *)

\* The record of a free request is well typed.
LEMMA NoReqType == NoReq \in ReqType /\ NoReq.at = "idle"
BY DEF NoReq, ReqType, ReqSteps

\* Moving a request to another step keeps its type.
LEMMA TypeAt == ASSUME NEW x \in ReqType, NEW v \in ReqSteps
                PROVE  [x EXCEPT !.at = v] \in ReqType
BY DEF ReqType

\* A request given a campaign has one at hand.
LEMMA HandC == ASSUME NEW x \in ReqType, NEW v \in Campaigns
               PROVE  [x EXCEPT !.c = v] \in InHand
BY DEF InHand, ReqType

\* A request keeps its campaign when it goes to its next statement, ...
LEMMA HandAt == ASSUME NEW x \in InHand, NEW v \in ReqSteps
                PROVE  [x EXCEPT !.at = v] \in InHand
BY DEF InHand, ReqType

\* ... when the campaigns still to start or cancel change, ...
LEMMA HandTodo == ASSUME NEW x \in InHand, NEW v \in SUBSET Campaigns
                  PROVE  [x EXCEPT !.todo = v] \in InHand
BY DEF InHand, ReqType

\* ... when emergencyStopAll notes what it listed, ...
LEMMA HandListed == ASSUME NEW x \in InHand, NEW v \in SUBSET Campaigns
                    PROVE  [x EXCEPT !.listed = v] \in InHand
BY DEF InHand, ReqType

\* ... when its list of recipients changes, ...
LEMMA HandRs == ASSUME NEW x \in InHand, NEW v \in SUBSET Recipients
                PROVE  [x EXCEPT !.rs = v] \in InHand
BY DEF InHand, ReqType

\* ... when it reads which contacts have opted out, ...
LEMMA HandSkip == ASSUME NEW x \in InHand, NEW v \in SUBSET Contacts
                  PROVE  [x EXCEPT !.skip = v] \in InHand
BY DEF InHand, ReqType

\* ... when launch reads whether scheduledAt lies ahead, ...
LEMMA HandFlag == ASSUME NEW x \in InHand, NEW v \in BOOLEAN
                  PROVE  [x EXCEPT !.flag = v] \in InHand
BY DEF InHand, ReqType

\* ... and when enqueueMany adds a delay.
LEMMA HandGap == ASSUME NEW x \in InHand, NEW v \in Nat
                 PROVE  [x EXCEPT !.gap = v] \in InHand
BY DEF InHand, ReqType

\* A request that begins, on campaign c, has a campaign at hand.
LEMMA Starts == ASSUME NEW s \in ReqSteps, NEW c \in Campaigns
                PROVE  [NoReq EXCEPT !.at = s, !.c = c] \in InHand
BY NoReqType, TypeAt, HandC

\* The types of a request's variables while it is in progress.
LEMMA HandType == ASSUME NEW x \in InHand
                  PROVE  /\ x.c \in Campaigns /\ x.todo \in SUBSET Campaigns
                         /\ x.listed \in SUBSET Campaigns /\ x.rs \in SUBSET Recipients
                         /\ x.skip \in SUBSET Contacts /\ x.gap \in Nat
BY DEF InHand, ReqType

\* So it has when the cron or emergencyStopAll goes on with campaign c.
LEMMA Fresh == ASSUME NEW s \in ReqSteps, NEW c \in Campaigns, NEW T \in SUBSET Campaigns,
                      NEW L \in SUBSET Campaigns
               PROVE  /\ [NoReq EXCEPT !.at = s, !.c = c, !.todo = T] \in InHand
                      /\ [NoReq EXCEPT !.at = s, !.c = c, !.todo = T, !.listed = L] \in InHand
BY Starts, HandTodo, HandListed

--------------------------------------------------------------------------------
(* The moves of requests.                                                   *)

\* Request q is NoReq next, or has a campaign at hand.
Moves(q) == \E v \in GoodReq : Set(q, v)

\* Writing a record with a campaign at hand is a move, ...
LEMMA MovesTo ==
    ASSUME NEW q, NEW v \in InHand, Set(q, v)
    PROVE  Moves(q)
BY DEF Moves, GoodReq

\* ... and so is returning.
LEMMA MovesReturn ==
    ASSUME NEW q, Return(q)
    PROVE  Moves(q)
BY DEF Moves, GoodReq, Return

\* The cron's and emergencyStopAll's loops go on with a campaign of their list, or
\* return.
LEMMA MovesNext ==
    ASSUME NEW q, req[q] \in InHand, NextToRun(q) \/ NextToCancel(q)
    PROVE  Moves(q)
<1>1. ASSUME NEW d \in req[q].todo
      PROVE  d \in Campaigns /\ req[q].todo \ {d} \in SUBSET Campaigns
  BY HandType
<1>2. CASE NextToRun(q)
  <2>1. ASSUME NEW d \in req[q].todo,
               Set(q, [NoReq EXCEPT !.at = "runRead", !.c = d, !.todo = req[q].todo \ {d}])
        PROVE  Moves(q)
    <3>1. "runRead" \in ReqSteps
      BY DEF ReqSteps
    <3>2. QED
      BY <1>1, <2>1, <3>1, Fresh, MovesTo
  <2>2. QED
    BY <1>2, <2>1, MovesReturn DEF NextToRun
<1>3. CASE NextToCancel(q)
  <2>1. ASSUME NEW d \in req[q].todo,
               Set(q, [NoReq EXCEPT !.at = "cancelRead", !.c = d,
                                    !.todo = req[q].todo \ {d}, !.listed = req[q].listed])
        PROVE  Moves(q)
    <3>1. "cancelRead" \in ReqSteps
      BY DEF ReqSteps
    <3>2. req[q].listed \in SUBSET Campaigns
      BY HandType
    <3>3. QED
      BY <1>1, <2>1, <3>1, <3>2, Fresh, MovesTo
  <2>2. QED
    BY <1>3, <2>1, MovesReturn DEF NextToCancel
<1>4. QED
  BY <1>2, <1>3

\* The first read of every request leaves it with the campaign it read.
LEMMA MovesBegins ==
    ASSUME NEW q \in Requests, RequestBegins(q), optedOut \in SUBSET Contacts
    PROVE  Moves(q)
<1>1. {"update", "addContacts", "count", "runRead", "pause", "resume", "cancelRead",
       "cancelWrite", "relaunchRecipients", "remove"} \subseteq ReqSteps
  BY DEF ReqSteps
<1>2. ASSUME NEW c \in Campaigns, NEW S, NEW step \in ReqSteps, Reads(q, c, S, step)
      PROVE  Moves(q)
  BY <1>2, Starts, MovesTo DEF Reads
<1>3. ASSUME NEW c \in Campaigns,
             updateReads(q, c) \/ pauseReads(q, c) \/ resumeReads(q, c) \/
             cancelReads(q, c) \/ relaunchReads(q, c) \/ removeReads(q, c)
      PROVE  Moves(q)
  BY <1>1, <1>2, <1>3 DEF updateReads, pauseReads, resumeReads, cancelReads,
     relaunchReads, removeReads
<1>4. ASSUME NEW c \in Campaigns, NEW picks \in SUBSET Contacts,
             addRecipientsReads(q, c, picks)
      PROVE  Moves(q)
  <2>1. {c} \X picks \in SUBSET Recipients
    BY DEF Recipients
  <2>2. [NoReq EXCEPT !.at = "addContacts", !.c = c, !.rs = {c} \X picks] \in InHand
    BY <1>1, <2>1, Starts, HandRs
  <2>3. QED
    BY <1>4, <2>2, MovesTo DEF addRecipientsReads
<1>5. ASSUME NEW c \in Campaigns, launchReads(q, c)
      PROVE  Moves(q)
  <2> DEFINE seen == c \in later
  <2>1. seen \in BOOLEAN
    OBVIOUS
  <2> HIDE DEF seen
  <2>2. [NoReq EXCEPT !.at = "count", !.c = c, !.flag = seen] \in InHand
    BY <1>1, <2>1, Starts, HandFlag
  <2>3. Set(q, [NoReq EXCEPT !.at = "count", !.c = c, !.flag = seen])
    BY <1>5 DEF launchReads, seen
  <2>4. QED
    BY <2>2, <2>3, MovesTo
<1>6. ASSUME launchDueCampaigns(q)
      PROVE  Moves(q)
  <2> DEFINE due == {c \in Campaigns : status[c] = "SCHEDULED" /\ c \notin later}
  <2>1. PICK d \in Campaigns :
          Set(q, [NoReq EXCEPT !.at = "runRead", !.c = d, !.todo = due \ {d}])
    BY <1>6 DEF launchDueCampaigns
  <2>2. due \ {d} \in SUBSET Campaigns
    OBVIOUS
  <2> HIDE DEF due
  <2>3. QED
    BY <1>1, <2>1, <2>2, Fresh, MovesTo
<1>7. ASSUME emergencyStopAll(q)
      PROVE  Moves(q)
  <2> DEFINE running == {c \in Campaigns : status[c] \in {"RUNNING", "PAUSED", "SCHEDULED"}}
  <2>1. PICK d \in Campaigns :
          Set(q, [NoReq EXCEPT !.at = "cancelRead", !.c = d,
                               !.todo = running \ {d}, !.listed = running])
    BY <1>7 DEF emergencyStopAll
  <2>2. running \ {d} \in SUBSET Campaigns /\ running \in SUBSET Campaigns
    OBVIOUS
  <2> HIDE DEF running
  <2>3. QED
    BY <1>1, <2>1, <2>2, Fresh, MovesTo
<1>8. QED
  BY <1>3, <1>4, <1>5, <1>6, <1>7 DEF RequestBegins

\* A statement that changes nothing but the step is a move.
LEMMA MovesStep ==
    ASSUME NEW q, req[q] \in InHand, NEW step \in ReqSteps, To(q, step)
    PROVE  Moves(q)
BY HandAt, MovesTo DEF To

\* Every later statement of a request keeps its campaign, takes up the next of its
\* list (or relaunch's new one), or returns.
LEMMA MovesGoesOn ==
    ASSUME NEW q \in Requests, RequestGoesOn(q), req[q] \in InHand,
           optedOut \in SUBSET Contacts
    PROVE  Moves(q)
<1>1. {"addWrite", "schedule", "runRead", "runWrite", "runPending", "enqueue",
       "cancelWrite", "cancelRecipients", "cancelFind", "relaunchContacts",
       "relaunchCreate", "relaunchWrite"} \subseteq ReqSteps
  BY DEF ReqSteps
<1> USE MovesReturn, MovesNext
<1>2. CASE update(q) \/ addRecipients(q) \/ launchSchedules(q) \/ pause(q) \/ resume(q)
           \/ remove(q)
  BY <1>2 DEF update, addRecipients, launchSchedules, pause, resume, remove, Writes
<1>3. CASE launchCounts(q) \/ startRunningReads(q) \/ startRunning(q) \/ cancel(q)
           \/ cancelRecipients(q) \/ stopReads(q) \/ stopFinds(q) \/ RequestThrows(q)
  BY <1>1, <1>3, MovesStep DEF launchCounts, startRunningReads, startRunning, cancel,
     cancelRecipients, stopReads, stopFinds, RequestThrows
<1>4. CASE addRecipientsContacts(q)
  <2>1. [req[q] EXCEPT !.at = "addWrite", !.skip = optedOut] \in InHand
    BY <1>1, HandAt, HandSkip
  <2>2. QED
    BY <1>4, <2>1, MovesTo DEF addRecipientsContacts
<1>5. CASE startRunningLists(q)
  <2> DEFINE pending == WithStatus(req[q].c, {"PENDING"})
  <2>1. pending \in SUBSET Recipients /\ 0 \in Nat
    BY DEF WithStatus, Of
  <2>2. \/ NextToRun(q)
        \/ Set(q, [req[q] EXCEPT !.at = "enqueue", !.rs = pending, !.gap = 0])
    BY <1>5 DEF startRunningLists
  <2> HIDE DEF pending
  <2>3. [req[q] EXCEPT !.at = "enqueue", !.rs = pending, !.gap = 0] \in InHand
    BY <1>1, <2>1, HandAt, HandRs, HandGap
  <2>4. QED
    BY <2>2, <2>3, MovesTo
<1>6. CASE enqueueMany(q)
  <2>1. PICK batch \in Firsts(req[q].rs, BatchSize) :
          \/ NextToRun(q)
          \/ \E delay \in Delays :
                Set(q, [req[q] EXCEPT !.rs = req[q].rs \ batch, !.gap = req[q].gap + delay])
    BY <1>6 DEF enqueueMany
  <2>2. ASSUME NEW delay \in Delays,
               Set(q, [req[q] EXCEPT !.rs = req[q].rs \ batch, !.gap = req[q].gap + delay])
        PROVE  Moves(q)
    <3> DEFINE rs == req[q].rs \ batch
               gap == req[q].gap + delay
    <3>1. rs \in SUBSET Recipients
      BY HandType
    <3>2. delay \in Nat
      BY GapAssumption DEF Delays
    <3>3. gap \in Nat
      BY <3>2, HandType
    <3>4. Set(q, [req[q] EXCEPT !.rs = rs, !.gap = gap])
      BY <2>2
    <3> HIDE DEF rs, gap
    <3>5. [req[q] EXCEPT !.rs = rs, !.gap = gap] \in InHand
      BY <3>1, <3>3, HandRs, HandGap
    <3>6. QED
      BY <3>4, <3>5, MovesTo
  <2>3. QED
    BY <2>1, <2>2
<1>7. CASE relaunchRecipients(q)
  <2> DEFINE source == WithStatus(req[q].c, RecipientStatus \ {"none"})
  <2>1. source \in SUBSET Recipients
    BY DEF WithStatus, Of
  <2>2. \/ Return(q)
        \/ Set(q, [req[q] EXCEPT !.at = "relaunchContacts", !.rs = source])
    BY <1>7 DEF relaunchRecipients
  <2> HIDE DEF source
  <2>3. [req[q] EXCEPT !.at = "relaunchContacts", !.rs = source] \in InHand
    BY <1>1, <2>1, HandAt, HandRs
  <2>4. QED
    BY <2>2, <2>3, MovesTo
<1>8. CASE relaunchContacts(q)
  <2>1. [req[q] EXCEPT !.at = "relaunchCreate", !.skip = optedOut] \in InHand
    BY <1>1, HandAt, HandSkip
  <2>2. QED
    BY <1>8, <2>1, MovesTo DEF relaunchContacts
<1>9. ASSUME NEW d \in Campaigns, relaunchCreates(q, d)
      PROVE  Moves(q)
  <2> DEFINE copies == {<<d, r[2]>> : r \in req[q].rs}
  <2>1. copies \in SUBSET Recipients
    BY HandType DEF Recipients
  <2>2. Set(q, [req[q] EXCEPT !.at = "relaunchWrite", !.c = d, !.rs = copies])
    BY <1>9 DEF relaunchCreates
  <2> HIDE DEF copies
  <2>3. [req[q] EXCEPT !.at = "relaunchWrite", !.c = d] \in InHand
    BY <1>1, HandAt, HandC DEF InHand
  <2>4. [req[q] EXCEPT !.at = "relaunchWrite", !.c = d, !.rs = copies] \in InHand
    BY <2>1, <2>3, HandRs
  <2>5. QED
    BY <2>2, <2>4, MovesTo
<1>10. CASE relaunch(q)
  <2>1. [NoReq EXCEPT !.at = "runRead", !.c = req[q].c] \in InHand
    BY <1>1, HandType, Starts
  <2>2. QED
    BY <1>10, <2>1, MovesTo DEF relaunch
<1>11. QED
  BY <1>2, <1>3, <1>4, <1>5, <1>6, <1>7, <1>8, <1>9, <1>10 DEF RequestGoesOn

--------------------------------------------------------------------------------
(* The tables.                                                              *)

\* The database's tables, as far as the engine uses them.
Tables ==
    /\ status \in [Campaigns -> CampaignStatus]
    /\ later \in SUBSET Campaigns
    /\ rec \in [Recipients -> RecipientStatus]
    /\ wait \in [Recipients -> Nat]

\* No row becomes SENDING.
NoneClaimed == \A r \in Recipients : rec'[r] = "SENDING" => rec[r] = "SENDING"

\* No statement of a request spoils the tables, and none makes a row SENDING:
\* enqueueMany, createMany and the cancels write other statuses.
LEMMA RequestTables ==
    ASSUME Tables, NEW q \in Requests, req[q] \in InHand, RequestGoesOn(q)
    PROVE  Tables' /\ NoneClaimed
<1>1. req[q].c \in Campaigns /\ req[q].gap \in Nat
  BY HandType
<1> USE <1>1 DEF Tables, NoneClaimed
<1>2. CASE UNCHANGED db
  BY <1>2 DEF db
<1>3. CASE update(q)
  BY <1>3 DEF update
<1>4. CASE addRecipients(q) \/ relaunch(q)
  <2>1. CreateRecipients(q) \/ UNCHANGED rec
    BY <1>4 DEF addRecipients, relaunch
  <2>2. UNCHANGED <<status, later, wait>>
    BY <1>4 DEF addRecipients, relaunch
  <2>3. QED
    BY <2>1, <2>2 DEF CreateRecipients, RecipientStatus, ACTIVE_RECIPIENT_STATUSES
<1>5. ASSUME NEW v \in {"SCHEDULED", "RUNNING", "PAUSED", "CANCELLED"}, Write(q, v),
             UNCHANGED <<later, rec, wait>>
      PROVE  Tables' /\ NoneClaimed
  BY <1>5 DEF Write, CampaignStatus, LAUNCHED_STATUSES
<1>6. CASE launchSchedules(q) \/ pause(q) \/ resume(q) \/ startRunning(q) \/ cancel(q)
  BY <1>5, <1>6 DEF launchSchedules, pause, resume, startRunning, cancel, Writes
<1>7. CASE enqueueMany(q)
  <2>1. PICK batch : /\ SetAll(batch, "QUEUED")
                     /\ wait' = [r \in Recipients |->
                                   IF r \in batch /\ rec[r] # "none"
                                   THEN req[q].gap ELSE wait[r]]
                     /\ UNCHANGED <<status, later>>
    BY <1>7 DEF enqueueMany
  <2>2. QED
    BY <2>1 DEF SetAll, RecipientStatus, ACTIVE_RECIPIENT_STATUSES
<1>8. CASE cancelRecipients(q)
  BY <1>8 DEF cancelRecipients, SetAll, RecipientStatus
<1>9. ASSUME NEW d \in Campaigns, relaunchCreates(q, d)
      PROVE  Tables' /\ NoneClaimed
  BY <1>9 DEF relaunchCreates, CampaignStatus, LAUNCHED_STATUSES
<1>10. CASE remove(q)
  BY <1>10 DEF remove, Write, SetAll, CampaignStatus, RecipientStatus
<1>11. QED
  BY <1>2, <1>3, <1>4, <1>6, <1>7, <1>8, <1>9, <1>10 DEF RequestGoesOn,
     addRecipientsContacts, launchCounts, startRunningReads, startRunningLists,
     stopReads, stopFinds, relaunchRecipients, relaunchContacts, RequestThrows

--------------------------------------------------------------------------------
(* The tick.                                                                *)

\* A tick at find or claim has a campaign at hand, and rows of it to claim.
AtHand == {t \in TickType : /\ t.at \in {"find", "claim"}
                            /\ t.c \in Campaigns
                            /\ t.due \subseteq Of(t.c)}
GoodTick == {t \in TickType : t.at \in {"idle", "count"}} \union AtHand

\* A tick that is done with a campaign is idle or about to count another.
LEMMA NextTick ==
    ASSUME NEW T \in SUBSET Campaigns
    PROVE  /\ NextToTick(T) \in GoodTick
           /\ NextToTick(T).at \in {"idle", "count"}
<1>1. NoTick \in TickType /\ NoTick.at = "idle"
  BY DEF NoTick, TickType
<1>2. [NoTick EXCEPT !.at = "count"] \in TickType
  BY <1>1 DEF TickType
<1>3. [NoTick EXCEPT !.at = "count", !.todo = T] \in TickType
  BY <1>2 DEF TickType
<1>4. [NoTick EXCEPT !.at = "count", !.todo = T].at = "count"
  BY DEF NoTick
<1>5. QED
  BY <1>1, <1>3, <1>4 DEF NextToTick, GoodTick

\* A tick keeps its campaign when the rows it goes through change.
LEMMA TickDue ==
    ASSUME NEW t \in AtHand, NEW D \in SUBSET Of(t.c)
    PROVE  /\ [t EXCEPT !.due = D] \in AtHand
           /\ [t EXCEPT !.due = D].at = t.at
           /\ [t EXCEPT !.due = D].c = t.c
           /\ [t EXCEPT !.due = D].due = D
<1>1. t \in TickType /\ D \in SUBSET Recipients
  BY DEF AtHand, Of
<1>2. /\ [t EXCEPT !.due = D] \in TickType
      /\ [t EXCEPT !.due = D].at = t.at
      /\ [t EXCEPT !.due = D].c = t.c
      /\ [t EXCEPT !.due = D].due = D
  BY <1>1 DEF TickType
<1> DEFINE y == [t EXCEPT !.due = D]
<1> HIDE DEF y
<1>3. y \in TickType /\ y.at = t.at /\ y.c = t.c /\ y.due = D
  BY <1>2 DEF y
<1>4. y \in AtHand
  BY <1>3 DEF AtHand
<1>5. QED
  BY <1>3, <1>4 DEF y

\* A tick that found due rows of its campaign goes on to claim them.
LEMMA TickClaims ==
    ASSUME NEW t \in AtHand, NEW D \in SUBSET Of(t.c)
    PROVE  /\ [t EXCEPT !.at = "claim", !.due = D] \in AtHand
           /\ [t EXCEPT !.at = "claim", !.due = D].at = "claim"
           /\ [t EXCEPT !.at = "claim", !.due = D].c = t.c
           /\ [t EXCEPT !.at = "claim", !.due = D].due = D
<1> DEFINE y == [t EXCEPT !.at = "claim"]
<1>1. t \in TickType
  BY DEF AtHand
<1>2. y \in TickType /\ y.at = "claim" /\ y.c = t.c /\ y.due = t.due
  BY <1>1 DEF TickType
<1> HIDE DEF y
<1>3. y \in AtHand
  BY <1>2 DEF AtHand
<1>4. /\ [y EXCEPT !.due = D] \in AtHand
      /\ [y EXCEPT !.due = D].at = "claim"
      /\ [y EXCEPT !.due = D].c = t.c
      /\ [y EXCEPT !.due = D].due = D
  BY <1>2, <1>3, TickDue
<1>5. QED
  BY <1>4 DEF y

--------------------------------------------------------------------------------
(* The cap.                                                                 *)

\* The rows of c in flight.
Sending(c) == WithStatus(c, {"SENDING"})

\* How many more rows of c the tick may make SENDING before it counts again.
Promised(c) == IF tick.c # c THEN 0
               ELSE IF tick.at = "find" THEN tick.room
               ELSE IF tick.at = "claim" THEN Cardinality(tick.due) ELSE 0

\* The strengthening of BatchCap that is inductive: what is in flight and what the
\* tick has already been granted are a batch at most.
CapInv == \A c \in Campaigns : Cardinality(Sending(c)) + Promised(c) <= BatchSize

\* Sets of recipients are finite, a part of one is not larger, and a row more or
\* less is one more or less.
LEMMA Counting ==
    ASSUME NEW S \in SUBSET Recipients
    PROVE  /\ IsFiniteSet(S)
           /\ Cardinality(S) \in Nat
           /\ \A T \in SUBSET S : Cardinality(T) \in Nat /\ Cardinality(T) <= Cardinality(S)
           /\ \A r : r \notin S => Cardinality(S \union {r}) = Cardinality(S) + 1
           /\ \A r \in S : Cardinality(S \ {r}) = Cardinality(S) - 1
<1>1. IsFiniteSet(Recipients)
  BY SetsAssumption, FS_Product DEF Recipients
<1>2. IsFiniteSet(S)
  BY <1>1, FS_Subset
<1>3. \A T \in SUBSET S : Cardinality(T) \in Nat /\ Cardinality(T) <= Cardinality(S)
  BY <1>2, FS_Subset, FS_CardinalityType
<1>4. QED
  BY <1>2, <1>3, FS_CardinalityType, FS_AddElement, FS_RemoveElement

\* The rows in flight are recipients.
LEMMA SendingRows ==
    ASSUME NEW c \in Campaigns
    PROVE  /\ Sending(c) \in SUBSET Recipients
           /\ Sending(c)' \in SUBSET Recipients
BY DEF Sending, WithStatus, Of

\* What the tick has promised is a number.
LEMMA PromisedNat ==
    ASSUME tick \in GoodTick, NEW c \in Campaigns
    PROVE  Promised(c) \in Nat
<1>1. tick \in TickType
  BY DEF GoodTick, AtHand
<1>2. tick.room \in Nat /\ tick.due \in SUBSET Recipients
  BY <1>1 DEF TickType
<1>3. QED
  BY <1>2, Counting DEF Promised

\* A step that makes no row SENDING keeps the cap, if it promises nothing new.
LEMMA CapKept ==
    ASSUME CapInv, NoneClaimed, tick \in GoodTick,
           UNCHANGED tick \/ tick'.at \in {"idle", "count"}
    PROVE  CapInv'
<1> SUFFICES ASSUME NEW c \in Campaigns
             PROVE  Cardinality(Sending(c)') + Promised(c)' <= BatchSize
  BY DEF CapInv
<1>1. Sending(c)' \in SUBSET Sending(c)
  BY DEF NoneClaimed, Sending, WithStatus, Of
<1>2. Cardinality(Sending(c)') <= Cardinality(Sending(c))
      /\ Cardinality(Sending(c)') \in Nat /\ Cardinality(Sending(c)) \in Nat
  BY <1>1, SendingRows, Counting
<1>3. Promised(c) \in Nat /\ Promised(c)' \in {Promised(c), 0}
  BY PromisedNat DEF Promised
<1>4. Cardinality(Sending(c)) + Promised(c) <= BatchSize
  BY DEF CapInv
<1>5. QED
  BY <1>2, <1>3, <1>4, BatchAssumption

\* countInFlight promises what is missing to a batch.
LEMMA CapCount ==
    ASSUME CapInv, tick \in GoodTick, countInFlight
    PROVE  tick' \in GoodTick /\ CapInv'
<1>1. UNCHANGED rec
  BY DEF countInFlight, db
<1>2. tick \in TickType /\ tick.todo \in SUBSET Campaigns
  BY DEF GoodTick, AtHand, TickType
<1>3. NoneClaimed
  BY <1>1 DEF NoneClaimed
<1>4. PICK c \in tick.todo :
        tick' = IF Cardinality(Sending(c)) >= BatchSize THEN NextToTick(tick.todo \ {c})
                ELSE [at |-> "find", todo |-> tick.todo \ {c}, c |-> c,
                      room |-> BatchSize - Cardinality(Sending(c)), due |-> {}]
  BY DEF countInFlight, Sending
<1>5. c \in Campaigns /\ tick.todo \ {c} \in SUBSET Campaigns
  BY <1>2
<1>6. CASE Cardinality(Sending(c)) >= BatchSize
  BY <1>3, <1>4, <1>5, <1>6, NextTick, CapKept
<1>7. CASE ~(Cardinality(Sending(c)) >= BatchSize)
  <2> DEFINE n == Cardinality(Sending(c))
             room == BatchSize - n
  <2>1. n \in Nat
    BY <1>5, SendingRows, Counting
  <2>2. room \in Nat /\ n + room <= BatchSize
    BY <2>1, <1>7, BatchAssumption
  <2>3. tick' = [at |-> "find", todo |-> tick.todo \ {c}, c |-> c, room |-> room, due |-> {}]
    BY <1>4, <1>7
  <2>4. tick' \in GoodTick
    <3> HIDE DEF room
    <3>1. QED
      BY <2>2, <2>3, <1>5 DEF GoodTick, AtHand, TickType
  <2>5. ASSUME NEW d \in Campaigns
        PROVE  Cardinality(Sending(d)') + Promised(d)' <= BatchSize
    <3>1. Sending(d)' = Sending(d)
      BY <1>1 DEF Sending, WithStatus, Of
    <3>2. CASE d = c
      BY <2>2, <2>3, <3>1, <3>2 DEF Promised
    <3>3. CASE d # c
      <4>1. Promised(d)' = 0
        BY <2>3, <3>3 DEF Promised
      <4>2. Promised(d) \in Nat /\ Cardinality(Sending(d)) \in Nat
        BY PromisedNat, SendingRows, Counting
      <4>3. Cardinality(Sending(d)) + Promised(d) <= BatchSize
        BY DEF CapInv
      <4>4. QED
        BY <3>1, <4>1, <4>2, <4>3, BatchAssumption
    <3>4. QED
      BY <3>2, <3>3
  <2>6. QED
    BY <2>4, <2>5 DEF CapInv
<1>8. QED
  BY <1>6, <1>7

\* findDue takes no more rows than were promised.
LEMMA CapFind ==
    ASSUME CapInv, tick \in GoodTick, findDue
    PROVE  tick' \in GoodTick /\ CapInv'
<1>1. UNCHANGED rec /\ tick.at = "find"
  BY DEF findDue, db
<1>2. tick \in AtHand /\ tick \in TickType
  BY <1>1 DEF GoodTick, AtHand
<1>3. tick.todo \in SUBSET Campaigns /\ tick.room \in Nat /\ tick.c \in Campaigns
  BY <1>2 DEF AtHand, TickType
<1>4. NoneClaimed
  BY <1>1 DEF NoneClaimed
<1>5. PICK due \in Firsts(Due(tick.c), tick.room) :
        tick' = IF due = {} THEN NextToTick(tick.todo)
                ELSE [tick EXCEPT !.at = "claim", !.due = due]
  BY DEF findDue
<1>6. due \in SUBSET Of(tick.c) /\ due \in SUBSET Recipients
  BY <1>5 DEF Firsts, Due, WithStatus, Of
<1>7. CASE due = {}
  BY <1>3, <1>4, <1>5, <1>7, NextTick, CapKept
<1>8. CASE due # {}
  <2>1. tick' = [tick EXCEPT !.at = "claim", !.due = due]
    BY <1>5, <1>8
  <2>2. /\ tick' \in AtHand /\ tick'.at = "claim"
        /\ tick'.c = tick.c /\ tick'.due = due
    BY <1>2, <1>6, <2>1, TickClaims
  <2>3. Cardinality(due) <= tick.room /\ Cardinality(due) \in Nat
    <3>1. Due(tick.c) \in SUBSET Recipients
      BY DEF Due, WithStatus, Of
    <3>2. Cardinality(Due(tick.c)) \in Nat /\ Cardinality(due) \in Nat
      BY <3>1, <1>6, Counting
    <3>3. Cardinality(due) = IF Cardinality(Due(tick.c)) < tick.room
                             THEN Cardinality(Due(tick.c)) ELSE tick.room
      BY <1>5 DEF Firsts
    <3>4. QED
      BY <1>3, <3>2, <3>3
  <2>4. ASSUME NEW d \in Campaigns
        PROVE  Cardinality(Sending(d)') + Promised(d)' <= BatchSize
    <3>1. Sending(d)' = Sending(d)
      BY <1>1 DEF Sending, WithStatus, Of
    <3>2. Promised(d)' <= Promised(d) /\ Promised(d)' \in Nat
      BY <1>1, <1>3, <2>2, <2>3 DEF Promised
    <3>3. Promised(d) \in Nat /\ Cardinality(Sending(d)) \in Nat
      BY PromisedNat, SendingRows, Counting
    <3>4. Cardinality(Sending(d)) + Promised(d) <= BatchSize
      BY DEF CapInv
    <3>5. QED
      BY <3>1, <3>2, <3>3, <3>4, BatchAssumption
  <2>5. QED
    BY <2>2, <2>4 DEF CapInv, GoodTick
<1>9. QED
  BY <1>7, <1>8

\* claim turns a promised row into one in flight.
LEMMA CapClaim ==
    ASSUME Tables, CapInv, tick \in GoodTick, claim
    PROVE  tick' \in GoodTick /\ CapInv'
<1>1. tick.at = "claim"
  BY DEF claim
<1>2. tick \in AtHand /\ tick \in TickType
  BY <1>1 DEF GoodTick, AtHand
<1>3. /\ tick.todo \in SUBSET Campaigns /\ tick.c \in Campaigns
      /\ tick.due \in SUBSET Recipients /\ tick.due \in SUBSET Of(tick.c)
  BY <1>2 DEF AtHand, TickType
<1>4. PICK r \in tick.due :
        /\ tick' = IF tick.due = {r} THEN NextToTick(tick.todo)
                   ELSE [tick EXCEPT !.due = tick.due \ {r}]
        /\ \/ rec' = [rec EXCEPT ![r] = "SENDING"]
           \/ UNCHANGED rec
  BY DEF claim
<1>5. r \in Recipients /\ r[1] = tick.c
  BY <1>3 DEF Of
<1>6. tick.due \ {r} \in SUBSET Of(tick.c) /\ tick.due \ {r} \in SUBSET Recipients
  BY <1>3
<1> DEFINE more == Cardinality(tick.due \ {r})
<1>7. Cardinality(tick.due) = more + 1 /\ more \in Nat
  BY <1>3, <1>6, Counting
<1>8. /\ tick' \in GoodTick
      /\ \A d \in Campaigns : Promised(d)' = IF d = tick.c THEN more ELSE 0
  <2>1. CASE tick.due = {r}
    <3>1. tick'.at \in {"idle", "count"} /\ tick' \in GoodTick
      BY <1>3, <1>4, <2>1, NextTick
    <3>2. more = 0
      BY <2>1, FS_EmptySet
    <3> HIDE DEF more
    <3>3. QED
      BY <3>1, <3>2 DEF Promised
  <2>2. CASE tick.due # {r}
    <3>1. /\ tick' \in AtHand /\ tick'.at = "claim"
          /\ tick'.c = tick.c /\ tick'.due = tick.due \ {r}
      BY <1>1, <1>2, <1>4, <1>6, <2>2, TickDue
    <3>2. QED
      BY <3>1 DEF Promised, GoodTick
  <2>3. QED
    BY <2>1, <2>2
<1>9. ASSUME NEW d \in Campaigns
      PROVE  Cardinality(Sending(d)') + Promised(d)' <= BatchSize
  <2> HIDE DEF more
  <2>1. Cardinality(Sending(d)) \in Nat /\ Promised(d) \in Nat
    BY PromisedNat, SendingRows, Counting
  <2>2. Cardinality(Sending(d)) + Promised(d) <= BatchSize
    BY DEF CapInv
  <2>3. CASE d # tick.c
    <3>1. Sending(d)' = Sending(d)
      BY <1>4, <1>5, <2>3 DEF Sending, WithStatus, Of, Tables
    <3>2. QED
      BY <1>8, <2>1, <2>2, <2>3, <3>1, BatchAssumption
  <2>4. CASE d = tick.c
    <3>1. Promised(d) = more + 1 /\ Promised(d)' = more
      BY <1>1, <1>7, <1>8, <2>4 DEF Promised
    <3>2. Sending(d)' \in SUBSET (Sending(d) \union {r})
      BY <1>4, <1>5, <2>4 DEF Sending, WithStatus, Of, Tables
    <3>3. /\ Sending(d) \union {r} \in SUBSET Recipients
          /\ Sending(d) \in SUBSET Recipients
      BY <1>5, SendingRows
    <3>4. /\ Cardinality(Sending(d)') \in Nat
          /\ Cardinality(Sending(d)') <= Cardinality(Sending(d) \union {r})
      BY <3>2, <3>3, Counting
    <3>5. \/ Cardinality(Sending(d) \union {r}) = Cardinality(Sending(d))
          \/ Cardinality(Sending(d) \union {r}) = Cardinality(Sending(d)) + 1
      <4>1. CASE r \in Sending(d)
        <5>1. Sending(d) \union {r} = Sending(d)
          BY <4>1
        <5>2. QED
          BY <5>1
      <4>2. CASE r \notin Sending(d)
        BY <3>3, <4>2, Counting
      <4>3. QED
        BY <4>1, <4>2
    <3>6. QED
      BY <1>7, <2>1, <2>2, <3>1, <3>4, <3>5, BatchAssumption
  <2>5. QED
    BY <2>3, <2>4
<1>10. QED
  BY <1>8, <1>9 DEF CapInv

\* Every step of the tick.
LEMMA CapTick ==
    ASSUME Tables, CapInv, tick \in GoodTick, Tick
    PROVE  Tables' /\ tick' \in GoodTick /\ CapInv'
<1>1. tick.todo \in SUBSET Campaigns
  BY DEF GoodTick, AtHand, TickType
<1>2. Tables'
  <2>1. UNCHANGED <<status, later, wait>>
        /\ \/ UNCHANGED rec
           \/ \E r : rec' = [rec EXCEPT ![r] = "SENDING"]
    BY DEF Tick, ticking, countInFlight, findDue, claim, tickThrows, db
  <2>2. QED
    BY <2>1 DEF Tables, RecipientStatus, ACTIVE_RECIPIENT_STATUSES
<1>3. CASE ticking
  <2>1. NoneClaimed
    BY <1>3 DEF ticking, db, NoneClaimed
  <2>2. tick' \in GoodTick /\ tick'.at \in {"idle", "count"}
    <3> DEFINE running == {c \in Campaigns : status[c] = "RUNNING"}
    <3>1. running \in SUBSET Campaigns /\ tick' = NextToTick(running)
      BY <1>3 DEF ticking
    <3> HIDE DEF running
    <3>2. QED
      BY <3>1, NextTick
  <2>3. QED
    BY <1>2, <2>1, <2>2, CapKept
<1>4. CASE tickThrows
  <2>1. NoneClaimed
    BY <1>4 DEF tickThrows, db, NoneClaimed
  <2>2. tick' \in GoodTick /\ tick'.at \in {"idle", "count"}
    BY <1>1, <1>4, NextTick DEF tickThrows
  <2>3. QED
    BY <1>2, <2>1, <2>2, CapKept
<1>5. QED
  BY <1>2, <1>3, <1>4, CapCount, CapFind, CapClaim DEF Tick

--------------------------------------------------------------------------------
(* The calls that process recipients.                                       *)

\* A call in progress has a recipient.
GoodWork == {x \in WorkType : x.at # "idle" => x.r \in Recipients}

\* A place for a call that is free is well typed.
LEMMA NoWorkGood == NoWork \in GoodWork
BY DEF NoWork, GoodWork, WorkType, WorkSteps

\* A call keeps its recipient when it goes to its next statement.
LEMMA WorkAt ==
    ASSUME NEW x \in GoodWork, x.at # "idle", NEW step \in WorkSteps
    PROVE  [x EXCEPT !.at = step] \in GoodWork
<1> DEFINE y == [x EXCEPT !.at = step]
<1>1. y \in WorkType /\ y.r = x.r
  BY DEF GoodWork, WorkType
<1> HIDE DEF y
<1>2. y \in GoodWork
  BY <1>1 DEF GoodWork
<1>3. QED
  BY <1>2 DEF y

\* A step of a call leaves every call with its recipient.
LEMMA WorkMoves ==
    ASSUME work \in [Workers -> GoodWork], NEW w \in Workers, Work(w)
    PROVE  work' \in [Workers -> GoodWork]
<1>1. work[w] \in GoodWork
  OBVIOUS
<1>2. work[w].at # "idle"
  BY DEF Work, doProcess, checkCampaign, skipOptedOut, sendMessage, markSent, markFailed,
     Marks, handleRecipientProcessed, checkRunning, complete, workThrows, Working, Idle
<1>3. {"gate", "skip", "send", "sent", "fail", "remaining", "check", "complete"}
        \subseteq WorkSteps
  BY DEF WorkSteps
<1>4. SUFFICES \E v \in GoodWork : work' = [work EXCEPT ![w] = v]
  OBVIOUS
<1>5. ASSUME NEW step \in WorkSteps, WorkTo(w, step)
      PROVE  \E v \in GoodWork : work' = [work EXCEPT ![w] = v]
  BY <1>1, <1>2, <1>5, WorkAt DEF WorkTo
<1>6. ASSUME WorkEnds(w)
      PROVE  \E v \in GoodWork : work' = [work EXCEPT ![w] = v]
  BY <1>6, NoWorkGood DEF WorkEnds
<1>7. CASE doProcess(w)
  <2> DEFINE opted == work[w].r[2] \in optedOut
  <2>1. opted \in BOOLEAN /\ work[w].r \in Recipients
    BY <1>1, <1>2 DEF GoodWork
  <2>2. \E step \in {"remaining", "gate"} :
          work' = [work EXCEPT ![w] = [at |-> step, r |-> work[w].r, opted |-> opted]]
    BY <1>7 DEF doProcess
  <2> HIDE DEF opted
  <2>3. ASSUME NEW step \in {"remaining", "gate"}
        PROVE  [at |-> step, r |-> work[w].r, opted |-> opted] \in GoodWork
    BY <1>3, <2>1 DEF GoodWork, WorkType
  <2>4. QED
    BY <2>2, <2>3
<1>8. QED
  BY <1>3, <1>5, <1>6, <1>7 DEF Work, checkCampaign, skipOptedOut, sendMessage, markSent,
     markFailed, Marks, handleRecipientProcessed, checkRunning, complete, workThrows

\* A step of a call keeps the tables, and makes no row SENDING.
LEMMA WorkTables ==
    ASSUME Tables, NEW w \in Workers, Work(w), work \in [Workers -> GoodWork],
           sent \in [Recipients -> Nat]
    PROVE  Tables' /\ NoneClaimed /\ sent' \in [Recipients -> Nat]
<1> USE DEF Tables, NoneClaimed
<1>1. ASSUME NEW v \in {"SKIPPED_OPTOUT", "SENT", "FAILED"}, WriteRecipient(w, v),
             UNCHANGED <<status, later, wait>>
      PROVE  Tables' /\ NoneClaimed
  BY <1>1 DEF WriteRecipient, RecipientStatus
<1>2. CASE skipOptedOut(w) \/ markSent(w) \/ markFailed(w)
  BY <1>1, <1>2 DEF skipOptedOut, markSent, markFailed, Marks
<1>3. CASE complete(w)
  BY <1>3 DEF complete, CampaignStatus
<1>4. CASE sendMessage(w)
  <2>1. work[w].r \in Recipients
    BY <1>4 DEF sendMessage, Working, GoodWork
  <2>2. QED
    BY <1>4, <2>1 DEF sendMessage, db
<1>5. CASE UNCHANGED <<db, sent>>
  BY <1>5 DEF db
<1>6. QED
  BY <1>2, <1>3, <1>4, <1>5 DEF Work, doProcess, checkCampaign, handleRecipientProcessed,
     checkRunning, workThrows

--------------------------------------------------------------------------------
(* The theorems.                                                            *)

\* The types, with what is at hand: TypeOK alone is not inductive.
TypeInv ==
    /\ Tables
    /\ optedOut \in SUBSET Contacts /\ connected \in BOOLEAN
    /\ req \in [Requests -> GoodReq]
    /\ tick \in GoodTick
    /\ work \in [Workers -> GoodWork]
    /\ sent \in [Recipients -> Nat]

\* The types and the cap, with what the tick has promised counted in.
IInv == TypeInv /\ CapInv

\* The strengthening implies the type invariant and the cap.
LEMMA InvImplies == IInv => TypeOK /\ BatchCap
<1> SUFFICES ASSUME IInv PROVE TypeOK /\ BatchCap
  OBVIOUS
<1>1. GoodReq \subseteq ReqType /\ GoodTick \subseteq TickType /\ GoodWork \subseteq WorkType
  BY NoReqType DEF GoodReq, InHand, GoodTick, AtHand, GoodWork
<1>2. TypeOK
  BY <1>1 DEF IInv, TypeInv, Tables, TypeOK
<1>3. ASSUME NEW c \in Campaigns
      PROVE  Cardinality(Sending(c)) <= BatchSize
  <2>1. Cardinality(Sending(c)) \in Nat /\ Promised(c) \in Nat
    BY SendingRows, Counting, PromisedNat DEF IInv, TypeInv
  <2>2. QED
    BY <2>1, BatchAssumption DEF IInv, CapInv
<1>4. QED
  BY <1>2, <1>3 DEF BatchCap, Sending

\* Before the first request there is no row, and no tick in progress.
LEMMA InvInit == Init => IInv
<1> SUFFICES ASSUME Init PROVE IInv
  OBVIOUS
<1> USE DEF Init
<1>1. Tables
  BY DEF Tables, CampaignStatus, RecipientStatus
<1>2. req \in [Requests -> GoodReq]
  BY DEF GoodReq
<1>3. work \in [Workers -> GoodWork]
  BY NoWorkGood
<1>4. tick \in GoodTick /\ tick.at = "idle"
  BY DEF GoodTick, TickType, NoTick
<1>5. ASSUME NEW c \in Campaigns
      PROVE  Cardinality(Sending(c)) + Promised(c) <= BatchSize
  <2>1. Sending(c) = {}
    BY DEF Sending, WithStatus, Of
  <2>2. Promised(c) = 0
    BY <1>4 DEF Promised
  <2>3. QED
    BY <2>1, <2>2, FS_EmptySet, BatchAssumption
<1>6. QED
  BY <1>1, <1>2, <1>3, <1>4, <1>5 DEF IInv, TypeInv, CapInv

\* Every step preserves the strengthening: a request's, the tick's, a call's, the
\* surroundings' and a crash, which loses the tick's promise and frees no row.
LEMMA InvNext == IInv /\ [Next]_vars => IInv'
<1> SUFFICES ASSUME IInv, [Next]_vars PROVE IInv'
  OBVIOUS
<1> USE DEF IInv, TypeInv
<1>1. ASSUME NEW q \in Requests, RequestBegins(q)
      PROVE  IInv'
  <2>1. UNCHANGED <<db, world, tick, work, sent>>
    BY <1>1 DEF RequestBegins, updateReads, pauseReads, resumeReads, cancelReads,
       relaunchReads, removeReads, Reads, addRecipientsReads, launchReads,
       launchDueCampaigns, emergencyStopAll
  <2>2. PICK v \in GoodReq : req' = [req EXCEPT ![q] = v]
    BY <1>1, MovesBegins DEF Moves, Set
  <2>3. NoneClaimed
    BY <2>1 DEF NoneClaimed, db
  <2>4. CapInv'
    BY <2>1, <2>3, CapKept
  <2>5. QED
    BY <2>1, <2>2, <2>4 DEF db, world, Tables
<1>2. ASSUME NEW q \in Requests, RequestGoesOn(q)
      PROVE  IInv'
  <2>1. req[q].at # "idle"
    BY <1>2 DEF RequestGoesOn, At, Writes, update, addRecipientsContacts, addRecipients,
       launchCounts, launchSchedules, startRunningReads, startRunning, startRunningLists,
       enqueueMany, pause, resume, cancel, cancelRecipients, stopReads, stopFinds,
       relaunchRecipients, relaunchContacts, relaunchCreates, relaunch, remove, RequestThrows
  <2>2. req[q] \in InHand
    BY <2>1, NoReqType DEF GoodReq
  <2>3. UNCHANGED <<world, tick, work, sent>>
    BY <1>2 DEF RequestGoesOn, Writes, update, addRecipientsContacts, addRecipients,
       launchCounts, launchSchedules, startRunningReads, startRunning, startRunningLists,
       enqueueMany, pause, resume, cancel, cancelRecipients, stopReads, stopFinds,
       relaunchRecipients, relaunchContacts, relaunchCreates, relaunch, remove, RequestThrows
  <2>4. PICK v \in GoodReq : req' = [req EXCEPT ![q] = v]
    BY <1>2, <2>2, MovesGoesOn DEF Moves, Set
  <2>5. Tables' /\ NoneClaimed
    BY <1>2, <2>2, RequestTables
  <2>6. CapInv'
    BY <2>3, <2>5, CapKept
  <2>7. QED
    BY <2>3, <2>4, <2>5, <2>6 DEF world
<1>3. CASE Tick
  <2>1. Tables' /\ tick' \in GoodTick /\ CapInv'
    BY <1>3, CapTick
  <2>2. UNCHANGED <<world, req, sent>>
    BY <1>3 DEF Tick, ticking, countInFlight, findDue, claim, tickThrows
  <2>3. work' \in [Workers -> GoodWork]
    <3>1. CASE UNCHANGED work
      BY <3>1
    <3>2. CASE claim
      <4>1. tick.due \subseteq Recipients
        BY DEF GoodTick, AtHand, TickType
      <4>2. ASSUME NEW r \in tick.due
            PROVE  [at |-> "load", r |-> r, opted |-> FALSE] \in GoodWork
        BY <4>1 DEF GoodWork, WorkType, WorkSteps
      <4>3. QED
        BY <3>2, <4>2 DEF claim
    <3>3. QED
      BY <1>3, <3>1, <3>2 DEF Tick, ticking, countInFlight, findDue, tickThrows
  <2>4. QED
    BY <2>1, <2>2, <2>3 DEF world
<1>4. ASSUME NEW w \in Workers, Work(w)
      PROVE  IInv'
  <2>1. UNCHANGED <<world, req, tick>>
    BY <1>4 DEF Work, doProcess, checkCampaign, skipOptedOut, sendMessage, markSent,
       markFailed, Marks, handleRecipientProcessed, checkRunning, complete, workThrows
  <2>2. Tables' /\ NoneClaimed /\ sent' \in [Recipients -> Nat]
    BY <1>4, WorkTables
  <2>3. work' \in [Workers -> GoodWork]
    BY <1>4, WorkMoves
  <2>4. CapInv'
    BY <2>1, <2>2, CapKept
  <2>5. QED
    BY <2>1, <2>2, <2>3, <2>4 DEF world
<1>5. ASSUME NEW c \in Campaigns, create(c) \/ DueDate(c)
      PROVE  IInv'
  <2>1. Tables' /\ NoneClaimed
    BY <1>5 DEF create, DueDate, Tables, NoneClaimed, CampaignStatus, LAUNCHED_STATUSES
  <2>2. UNCHANGED <<world, req, tick, work, sent>>
    BY <1>5 DEF create, DueDate
  <2>3. CapInv'
    BY <2>1, <2>2, CapKept
  <2>4. QED
    BY <2>1, <2>2, <2>3 DEF world
<1>6. CASE Surroundings \/ Clock \/ UNCHANGED vars
  <2>1. Tables' /\ NoneClaimed
    BY <1>6 DEF Surroundings, Clock, vars, db, Tables, NoneClaimed
  <2>2. UNCHANGED <<req, tick, work, sent>>
    BY <1>6 DEF Surroundings, Clock, vars
  <2>3. optedOut' \in SUBSET Contacts /\ connected' \in BOOLEAN
    BY <1>6, OpsAssumption DEF Surroundings, Clock, vars, world
  <2>4. CapInv'
    BY <2>1, <2>2, CapKept
  <2>5. QED
    BY <2>1, <2>2, <2>3, <2>4
<1>7. CASE Crash
  <2>1. UNCHANGED <<db, world, sent>> /\ tick' = NoTick
    BY <1>7 DEF Crash
  <2>2. tick' \in GoodTick /\ tick'.at = "idle"
    BY <2>1 DEF GoodTick, TickType, NoTick
  <2>3. req' \in [Requests -> GoodReq] /\ work' \in [Workers -> GoodWork]
    BY <1>7, NoWorkGood DEF Crash, GoodReq
  <2>4. NoneClaimed
    BY <2>1 DEF NoneClaimed, db
  <2>5. CapInv'
    BY <2>2, <2>4, CapKept
  <2>6. QED
    BY <2>1, <2>2, <2>3, <2>5 DEF db, world, Tables
<1>8. QED
  BY <1>1, <1>2, <1>3, <1>4, <1>5, <1>6, <1>7 DEF Next

\* The types and the cap with the tick's promise hold in every reachable state: a
\* request, tick or call always knows what it works on, and a tick never promises
\* more rows than its count left room for.
THEOREM InvCorrect == Spec => []IInv
BY InvInit, InvNext, PTL DEF Spec

\* Every table and every local variable of the engine keeps its type, for any
\* campaigns, contacts, requests, calls, delays and faults.
THEOREM TypeCorrect == Spec => []TypeOK
BY InvCorrect, InvImplies, PTL

\* Never more rows of a campaign SENDING than a batch, for any number of campaigns,
\* contacts, requests and calls in any interleaving, with all faults.
THEOREM BatchCapCorrect == Spec => []BatchCap
BY InvCorrect, InvImplies, PTL

--------------------------------------------------------------------------------
(* Campaigns that are set up alone.                                         *)

\* A campaign that has been started or is over: nothing sets it up again.
Launched(c) == status[c] \notin Launchable \union {"none"}
Setup(q) == req[q].at \in SetupSteps
PreSend == {"load", "gate", "skip", "send"}
Busy(w) == work[w].at \in Processing
Filling == {"addContacts", "addWrite", "count", "schedule", "relaunchWrite"}
Starting == {"runRead", "runWrite", "runPending", "enqueue"}

\* A call is at work on a recipient, or has sent it a message.
Touched(r) == sent[r] > 0 \/ \E w \in Workers : Busy(w) /\ work[w].r = r

\* While a campaign is set up there is no tick and no other request.
Solo == \A q \in Requests : Setup(q) =>
    tick.at = "idle" /\ \A p \in Requests : p # q => req[p].at = "idle"

\* A request that fills or starts campaigns does so before they are launched, and what it
\* enqueues is still to be claimed.
SetsUp(q) ==
    /\ req[q].at \in Filling \union {"runRead", "runWrite"} => status[req[q].c] \in Launchable
    /\ req[q].at \in {"addContacts", "addWrite", "relaunchWrite"} => req[q].rs \subseteq Of(req[q].c)
    /\ req[q].at \in Starting =>
        req[q].c \notin req[q].todo /\ \A d \in req[q].todo : status[d] \in Launchable
    /\ req[q].at = "count" => req[q].todo = {}
    /\ req[q].at = "enqueue" => \A r \in req[q].rs : rec[r] \in Claimable

\* The tick and the calls work on campaigns that have been launched.
Started ==
    /\ \A c \in tick.todo : Launched(c)
    /\ tick.at \in {"find", "claim"} => Launched(tick.c)
    /\ \A w \in Workers : ~Idle(w) => Launched(work[w].r[1])

\* A recipient that is still to be claimed, or to be added, is untouched.
Rows ==
    /\ \A r \in Recipients : Touched(r) =>
        /\ rec[r] \notin Claimable
        /\ rec[r] = "none" => status[r[1]] = "deleted"
    /\ \A r \in Recipients : status[r[1]] = "none" => rec[r] = "none"

\* Each call has a recipient of its own, which it has not sent to before it does. Its row is
\* SENDING, or has been taken from it, and with it whatever there was to claim.
Calls ==
    /\ \A w \in Workers : Busy(w) =>
        /\ rec[work[w].r] \in {"SENDING", "CANCELLED", "none"}
        /\ rec[work[w].r] # "SENDING" => WithStatus(work[w].r[1], Claimable) = {}
    /\ \A w, v \in Workers : Busy(w) /\ Busy(v) /\ work[w].r = work[v].r => w = v
    /\ \A w \in Workers : work[w].at \in PreSend => sent[work[w].r] = 0

\* A campaign that is completed, or about to be, has no active row.
Ended ==
    /\ \A c \in Campaigns : status[c] = "COMPLETED" => Active(c) = {}
    /\ \A w \in Workers : work[w].at \in {"check", "complete"} => Active(work[w].r[1]) = {}

SoloParts ==
    /\ Solo /\ \A q \in Requests : SetsUp(q)
    /\ Started /\ Rows /\ Calls /\ Ended
    /\ SentOnce /\ SendsCap

--------------------------------------------------------------------------------
(* What a step may do to rows and campaigns.                                *)

\* A row is cancelled, enqueued, created in a campaign to be launched, or removed with it.
RowMoves(r) ==
    \/ rec'[r] = rec[r]
    \/ rec[r] \in ACTIVE_RECIPIENT_STATUSES /\ rec'[r] = "CANCELLED"
    \/ rec[r] \in Claimable /\ rec'[r] = "QUEUED"
    \/ /\ rec[r] = "none" /\ status[r[1]] \in Launchable
       /\ rec'[r] \in {"PENDING", "SKIPPED_OPTOUT"}
    \/ rec'[r] = "none" /\ status'[r[1]] = "deleted"

\* A campaign is created, scheduled before it has been launched, or launched.
StatusMoves(c) ==
    \/ status'[c] = status[c]
    \/ status[c] = "none" /\ status'[c] = "DRAFT"
    \/ status[c] \in Launchable /\ status'[c] = "SCHEDULED"
    \/ status[c] \notin Missing /\ status'[c] \in {"RUNNING", "PAUSED", "CANCELLED", "deleted"}

\* Whoever takes a row that is SENDING takes all that are still to be claimed.
TakesAll(c) ==
    (\E r \in Of(c) : rec[r] = "SENDING" /\ rec'[r] # "SENDING") =>
        \A r \in Of(c) : rec'[r] \notin Claimable

\* A recipient is one of its campaign.
LEMMA RowOf == \A r \in Recipients : r[1] \in Campaigns /\ r \in Of(r[1])
BY DEF Recipients, Of

\* A launched campaign stays launched, and gets no new rows.
LEMMA StaysLaunched ==
    ASSUME NEW c \in Campaigns, StatusMoves(c), Launched(c)
    PROVE  Launched(c)'
BY DEF Launched, StatusMoves, Launchable, Missing

\* A row of a launched campaign only becomes active by having been active.
LEMMA NoNewRows ==
    ASSUME NEW r \in Recipients, RowMoves(r), Launched(r[1])
    PROVE  /\ rec'[r] \in Claimable => rec[r] \in Claimable
           /\ rec'[r] \in ACTIVE_RECIPIENT_STATUSES => rec[r] \in ACTIVE_RECIPIENT_STATUSES
BY DEF RowMoves, Launched, Launchable, Claimable, ACTIVE_RECIPIENT_STATUSES

\* Such steps leave the calls what they know.
LEMMA Kept ==
    ASSUME TypeInv, Started, Rows, Calls, Ended, SentOnce, SendsCap,
           \A r \in Recipients : RowMoves(r),
           \A c \in Campaigns : StatusMoves(c) /\ TakesAll(c),
           UNCHANGED <<work, sent>>
    PROVE  Rows' /\ Calls' /\ Ended' /\ SentOnce' /\ SendsCap'
<1>1. Rows'
  <2>1. ASSUME NEW r \in Recipients, Touched(r)'
        PROVE  rec'[r] \notin Claimable /\ (rec'[r] = "none" => status'[r[1]] = "deleted")
    <3>1. Touched(r)
      BY <2>1 DEF Touched, Busy
    <3>2. /\ rec[r] \notin Claimable
          /\ rec[r] = "none" => status[r[1]] = "deleted"
          /\ RowMoves(r) /\ StatusMoves(r[1])
      BY <3>1, RowOf DEF Rows
    <3>3. QED
      BY <3>2 DEF RowMoves, StatusMoves, Launchable, Missing, Claimable
  <2>2. ASSUME NEW r \in Recipients, status'[r[1]] = "none"
        PROVE  rec'[r] = "none"
    <3>1. StatusMoves(r[1]) /\ RowMoves(r)
      BY RowOf
    <3>2. status[r[1]] = "none"
      BY <2>2, <3>1 DEF StatusMoves
    <3>3. rec[r] = "none"
      BY <3>2 DEF Rows
    <3>4. QED
      BY <3>1, <3>2, <3>3 DEF RowMoves, Claimable, ACTIVE_RECIPIENT_STATUSES, Launchable
  <2>3. QED
    BY <2>1, <2>2 DEF Rows
<1>2. Calls'
  <2>1. ASSUME NEW w \in Workers, Busy(w)
        PROVE  /\ rec'[work[w].r] \in {"SENDING", "CANCELLED", "none"}
               /\ rec'[work[w].r] # "SENDING" => WithStatus(work[w].r[1], Claimable)' = {}
    <3> DEFINE r == work[w].r
               c == r[1]
    <3>1. r \in Recipients /\ ~Idle(w)
      BY <2>1 DEF TypeInv, GoodWork, Busy, Processing, Idle
    <3>2. c \in Campaigns /\ r \in Of(c) /\ Launched(c)
      BY <3>1, RowOf DEF Started
    <3>3. /\ rec[r] \in {"SENDING", "CANCELLED", "none"}
          /\ rec[r] # "SENDING" => \A s \in Of(c) : rec[s] \notin Claimable
      BY <2>1 DEF Calls, WithStatus
    <3> HIDE DEF r, c
    <3>4. rec'[r] \in {"SENDING", "CANCELLED", "none"}
      <4>1. RowMoves(r) /\ status[r[1]] \notin Launchable
        BY <3>1, <3>2 DEF Launched, c
      <4>2. QED
        BY <3>3, <4>1 DEF RowMoves, Claimable
    <3>5. ASSUME rec'[r] # "SENDING", NEW s \in Of(c) PROVE rec'[s] \notin Claimable
      <4>1. CASE rec[r] = "SENDING"
        BY <3>2, <3>5, <4>1 DEF TakesAll
      <4>2. CASE rec[r] # "SENDING"
        <5>1. s \in Recipients /\ s[1] = c
          BY DEF Of
        <5>2. QED
          BY <3>2, <3>3, <4>2, <5>1, NoNewRows
      <4>3. QED
        BY <4>1, <4>2
    <3>6. rec'[r] # "SENDING" => WithStatus(c, Claimable)' = {}
      BY <3>5 DEF WithStatus, Of, c, r
    <3>7. QED
      BY <3>4, <3>6 DEF r, c
  <2>2. QED
    BY <2>1 DEF Calls, Busy
<1>3. Ended'
  <2>1. ASSUME NEW c \in Campaigns, Launched(c), Active(c) = {}
        PROVE  Active(c)' = {}
    <3>1. ASSUME NEW r \in Of(c) PROVE rec'[r] \notin ACTIVE_RECIPIENT_STATUSES
      BY <2>1, NoNewRows DEF Of, Active, WithStatus
    <3>2. QED
      BY <3>1 DEF Active, WithStatus
  <2>2. ASSUME NEW c \in Campaigns, status'[c] = "COMPLETED"
        PROVE  Active(c)' = {}
    <3>1. status[c] = "COMPLETED"
      BY <2>2 DEF StatusMoves
    <3>2. QED
      BY <2>1, <3>1 DEF Ended, Launched, Launchable
  <2>3. ASSUME NEW w \in Workers, work[w].at \in {"check", "complete"}
        PROVE  Active(work[w].r[1])' = {}
    <3>1. work[w].r[1] \in Campaigns /\ Launched(work[w].r[1])
      BY <2>3, RowOf DEF TypeInv, GoodWork, Started, Idle
    <3>2. QED
      BY <2>1, <2>3, <3>1 DEF Ended
  <2>4. QED
    BY <2>2, <2>3 DEF Ended
<1>4. SentOnce' /\ SendsCap'
  BY DEF SentOnce, SendsCap, InFlight
<1>5. QED
  BY <1>1, <1>2, <1>3, <1>4

--------------------------------------------------------------------------------
(* Requests, of campaigns that are set up alone.                            *)

\* A later statement of a request is of one in progress, and changes its own record.
LEMMA RequestStep ==
    ASSUME TypeInv, NEW q \in Requests, RequestGoesOn(q)
    PROVE  /\ req[q].at # "idle" /\ req[q] \in InHand
           /\ UNCHANGED <<world, tick, work, sent>>
           /\ \E v \in GoodReq : req' = [req EXCEPT ![q] = v]
<1>1. req[q].at # "idle" /\ UNCHANGED <<world, tick, work, sent>>
  BY DEF RequestGoesOn, At, Writes, update, addRecipientsContacts, addRecipients,
     launchCounts, launchSchedules, startRunningReads, startRunning, startRunningLists,
     enqueueMany, pause, resume, cancel, cancelRecipients, stopReads, stopFinds,
     relaunchRecipients, relaunchContacts, relaunchCreates, relaunch, remove, RequestThrows
<1>2. req[q] \in InHand
  BY <1>1, NoReqType DEF GoodReq, TypeInv
<1>3. QED
  BY <1>1, <1>2, MovesGoesOn DEF Moves, Set, TypeInv

\* The record of request q after it goes to another step, returns, or takes up the next
\* campaign to start or to cancel.
LEMMA Next1 ==
    ASSUME TypeInv, NEW q \in Requests, req[q] \in InHand
    PROVE  /\ \A step \in ReqSteps : To(q, step) =>
                req'[q].at = step /\ req'[q].c = req[q].c /\ req'[q].todo = req[q].todo
                    /\ req'[q].rs = req[q].rs
           /\ Return(q) => req'[q].at = "idle"
           /\ NextToRun(q) => Return(q) \/
                (req'[q].at = "runRead" /\ \E d \in req[q].todo :
                    req'[q].c = d /\ req'[q].todo = req[q].todo \ {d})
           /\ NextToCancel(q) => req'[q].at \in {"idle", "cancelRead"}
<1>1. ASSUME NEW step \in ReqSteps, To(q, step)
      PROVE  req'[q].at = step /\ req'[q].c = req[q].c /\ req'[q].todo = req[q].todo
                 /\ req'[q].rs = req[q].rs
  <2>1. req'[q] = [req[q] EXCEPT !.at = step] /\ req[q] \in ReqType
    BY <1>1 DEF To, Set, TypeInv, InHand
  <2>2. QED
    BY <2>1 DEF ReqType
<1>2. Return(q) => req'[q].at = "idle"
  BY DEF Return, Set, NoReq, TypeInv
<1>3. ASSUME NextToRun(q)
      PROVE  Return(q) \/ (req'[q].at = "runRead" /\ \E d \in req[q].todo :
                 req'[q].c = d /\ req'[q].todo = req[q].todo \ {d})
  BY <1>3 DEF NextToRun, Set, NoReq, TypeInv
<1>4. ASSUME NextToCancel(q)
      PROVE  req'[q].at \in {"idle", "cancelRead"}
  BY <1>2, <1>4 DEF NextToCancel, Set, NoReq, TypeInv
<1>5. QED
  BY <1>1, <1>2, <1>3, <1>4

\* A request that does not set up a campaign does not come to do so.
LEMMA StaysOut ==
    ASSUME TypeInv, NEW q \in Requests, RequestGoesOn(q), ~Setup(q)
    PROVE  ~Setup(q)'
<1>1. req[q].at # "idle" /\ req[q] \in InHand /\ req[q].at \in ReqSteps
  BY RequestStep DEF InHand, ReqType
<1>2. {"cancelRecipients", "cancelFind", "cancelWrite"} \subseteq ReqSteps
  BY DEF ReqSteps
<1>3. req'[q].at \in {"idle", "cancelRead", "cancelWrite", "cancelRecipients", "cancelFind"}
  BY <1>1, <1>2, Next1 DEF RequestGoesOn, Setup, SetupSteps, ReqSteps, At, Writes, update,
     addRecipientsContacts, addRecipients, launchCounts, launchSchedules, startRunningReads,
     startRunning, startRunningLists, enqueueMany, pause, resume, cancel, cancelRecipients,
     stopReads, stopFinds, relaunchRecipients, relaunchContacts, relaunchCreates, relaunch,
     remove, RequestThrows
<1>4. QED
  BY <1>3 DEF Setup, SetupSteps

\* A request that begins changes nothing else, and sets up a campaign only when it is alone
\* and finds it not launched.
LEMMA RequestBegun ==
    ASSUME TypeInv, SetupAlone, NEW q \in Requests, RequestBegins(q)
    PROVE  /\ UNCHANGED <<db, world, tick, work, sent>>
           /\ \E v \in GoodReq : req' = [req EXCEPT ![q] = v]
           /\ \A p \in Requests : ~Setup(p)
           /\ Setup(q)' => tick.at = "idle" /\ \A p \in Requests : req[p].at = "idle"
           /\ SetsUp(q)'
<1>1. UNCHANGED <<db, world, tick, work, sent>>
  BY DEF RequestBegins, updateReads, pauseReads, resumeReads, cancelReads,
     relaunchReads, removeReads, Reads, addRecipientsReads, launchReads,
     launchDueCampaigns, emergencyStopAll
<1>2. \E v \in GoodReq : req' = [req EXCEPT ![q] = v]
  BY MovesBegins DEF Moves, Set, TypeInv
<1>3. \A p \in Requests : ~Setup(p)
  BY DEF Setup, RequestBegins, updateReads, pauseReads, resumeReads, cancelReads,
     relaunchReads, removeReads, Reads, addRecipientsReads, launchReads,
     launchDueCampaigns, emergencyStopAll, BeginsSetup, Begins
<1>4. ASSUME NEW S, NEW step, NEW c \in Campaigns, Reads(q, c, S, step)
      PROVE  req'[q].at = step /\ req'[q].c = c
  BY <1>4 DEF Reads, Set, NoReq, TypeInv
<1>5. \/ req'[q].at \in {"update", "pause", "resume", "cancelWrite", "remove", "cancelRead"}
      \/ /\ tick.at = "idle" /\ \A p \in Requests : req[p].at = "idle"
         /\ req'[q].at \in {"addContacts", "count", "runRead", "relaunchRecipients"}
         /\ SetsUp(q)'
  <2>1. CASE \E c \in Campaigns : updateReads(q, c) \/ pauseReads(q, c) \/ resumeReads(q, c)
                  \/ cancelReads(q, c) \/ removeReads(q, c)
    BY <1>4, <2>1 DEF updateReads, pauseReads, resumeReads, cancelReads, removeReads
  <2>2. CASE emergencyStopAll(q)
    BY <2>2 DEF emergencyStopAll, Set, NoReq, TypeInv
  <2>3. ASSUME NEW c \in Campaigns, relaunchReads(q, c)
        PROVE  /\ tick.at = "idle" /\ \A p \in Requests : req[p].at = "idle"
               /\ req'[q].at = "relaunchRecipients" /\ SetsUp(q)'
    BY <1>4, <2>3 DEF relaunchReads, BeginsSetup, SetsUp, Filling, Starting
  <2>4. ASSUME NEW c \in Campaigns, NEW picks \in SUBSET Contacts, addRecipientsReads(q, c, picks)
        PROVE  /\ tick.at = "idle" /\ \A p \in Requests : req[p].at = "idle"
               /\ req'[q].at = "addContacts" /\ SetsUp(q)'
    <3>1. req'[q].at = "addContacts" /\ req'[q].c = c /\ req'[q].rs = {c} \X picks
      BY <2>4 DEF addRecipientsReads, Set, NoReq, TypeInv
    <3>2. {c} \X picks \subseteq Of(c)
      BY DEF Of, Recipients
    <3>3. status'[c] \in Launchable
      BY <1>1, <2>4 DEF addRecipientsReads, db
    <3>4. SetsUp(q)'
      BY <3>1, <3>2, <3>3 DEF SetsUp, Filling, Starting, Of
    <3>5. QED
      BY <2>4, <3>1, <3>4 DEF addRecipientsReads, BeginsSetup
  <2>5. ASSUME NEW c \in Campaigns, launchReads(q, c)
        PROVE  /\ tick.at = "idle" /\ \A p \in Requests : req[p].at = "idle"
               /\ req'[q].at = "count" /\ SetsUp(q)'
    <3>1. req'[q].at = "count" /\ req'[q].c = c /\ req'[q].todo = {}
      BY <2>5 DEF launchReads, Set, NoReq, TypeInv
    <3>2. status'[c] \in Launchable
      BY <1>1, <2>5 DEF launchReads, db
    <3>3. SetsUp(q)'
      BY <3>1, <3>2 DEF SetsUp, Filling, Starting
    <3>4. QED
      BY <2>5, <3>1, <3>3 DEF launchReads, BeginsSetup
  <2>6. CASE launchDueCampaigns(q)
    <3> DEFINE due == {c \in Campaigns : status[c] = "SCHEDULED" /\ c \notin later}
    <3>1. PICK d \in due :
            Set(q, [NoReq EXCEPT !.at = "runRead", !.c = d, !.todo = due \ {d}])
      BY <2>6 DEF launchDueCampaigns
    <3>2. \A c \in due : status'[c] \in Launchable
      BY <1>1 DEF db, Launchable
    <3> HIDE DEF due
    <3>3. req'[q].at = "runRead" /\ req'[q].c = d /\ req'[q].todo = due \ {d}
      BY <3>1 DEF Set, NoReq, TypeInv
    <3>4. SetsUp(q)'
      BY <3>2, <3>3 DEF SetsUp, Filling, Starting
    <3>5. QED
      BY <2>6, <3>3, <3>4 DEF launchDueCampaigns, BeginsSetup
  <2>7. QED
    BY <2>1, <2>2, <2>3, <2>4, <2>5, <2>6 DEF RequestBegins
<1>6. QED
  BY <1>1, <1>2, <1>3, <1>5 DEF Setup, SetupSteps, SetsUp, Filling, Starting

\* A request that sets up a campaign goes on in the same way.
LEMMA SetsUpOn ==
    ASSUME TypeInv, NEW q \in Requests, RequestGoesOn(q), Setup(q), SetsUp(q)
    PROVE  SetsUp(q)'
<1> DEFINE c == req[q].c
<1>1. req[q].at # "idle" /\ req[q] \in InHand /\ req[q] \in ReqType
  BY RequestStep DEF InHand
<1>2. c \in Campaigns
  BY <1>1, HandType
<1>3. req[q].at \in SetupSteps
  BY DEF Setup
<1>4. {"addWrite", "schedule", "runRead", "runWrite", "runPending"} \subseteq ReqSteps
  BY DEF ReqSteps
<1> USE DEF SetsUp, Filling, Starting
<1>5. CASE req'[q].at \in {"idle", "relaunchContacts", "relaunchCreate"}
  BY <1>5
<1>6. ASSUME NextToRun(q), req[q].at \in Starting,
             \A d \in Campaigns : d # c => status'[d] = status[d]
      PROVE  SetsUp(q)'
  <2>1. \A d \in req[q].todo : d # c /\ d \in Campaigns
    BY <1>1, <1>6, HandType
  <2>2. CASE req'[q].at = "runRead" /\ \E d \in req[q].todo :
                 req'[q].c = d /\ req'[q].todo = req[q].todo \ {d}
    BY <1>6, <2>1, <2>2
  <2>3. QED
    BY <1>1, <1>5, <1>6, <2>2, Next1
<1>7. CASE addRecipients(q) \/ launchSchedules(q)
  BY <1>1, <1>5, <1>7, Next1 DEF addRecipients, launchSchedules, Writes
<1>8. CASE addRecipientsContacts(q)
  <2>1. req'[q] = [req[q] EXCEPT !.at = "addWrite", !.skip = optedOut]
    BY <1>8 DEF addRecipientsContacts, Set, TypeInv
  <2>2. req'[q].at = "addWrite" /\ req'[q].c = c /\ req'[q].rs = req[q].rs
    BY <1>1, <2>1 DEF ReqType
  <2>3. QED
    BY <1>8, <2>2 DEF addRecipientsContacts, At, db, Of
<1>9. CASE launchCounts(q)
  <2>1. req[q].at = "count" /\ UNCHANGED db
    BY <1>9 DEF launchCounts, At
  <2>2. CASE Return(q)
    BY <1>1, <1>5, <2>2, Next1
  <2>3. CASE \E step \in {"schedule", "runRead"} : To(q, step)
    <3>1. /\ req'[q].at \in {"schedule", "runRead"} /\ req'[q].c = c
          /\ req'[q].todo = req[q].todo
      BY <1>1, <1>4, <2>3, Next1
    <3>2. QED
      BY <2>1, <3>1 DEF db
  <2>4. QED
    BY <1>9, <2>2, <2>3 DEF launchCounts
<1>10. CASE startRunningReads(q)
  <2>1. req[q].at = "runRead" /\ UNCHANGED db
    BY <1>10 DEF startRunningReads, At
  <2>2. CASE NextToRun(q)
    BY <1>6, <2>1, <2>2 DEF db
  <2>3. CASE To(q, "runWrite")
    <3>1. req'[q].at = "runWrite" /\ req'[q].c = c /\ req'[q].todo = req[q].todo
      BY <1>1, <1>4, <2>3, Next1
    <3>2. QED
      BY <2>1, <3>1 DEF db
  <2>4. QED
    BY <1>10, <2>2, <2>3 DEF startRunningReads
<1>11. CASE startRunning(q)
  <2>1. /\ req[q].at = "runWrite"
        /\ \A d \in Campaigns : d # c => status'[d] = status[d]
    BY <1>11 DEF startRunning, At, Write, TypeInv, Tables
  <2>2. CASE NextToRun(q)
    BY <1>6, <2>1, <2>2
  <2>3. CASE To(q, "runPending")
    <3>1. req'[q].at = "runPending" /\ req'[q].c = c /\ req'[q].todo = req[q].todo
      BY <1>1, <1>4, <2>3, Next1
    <3>2. req[q].todo \subseteq Campaigns /\ c \notin req[q].todo
      BY <1>1, <2>1, HandType
    <3>3. QED
      BY <2>1, <3>1, <3>2
  <2>4. QED
    BY <1>11, <2>2, <2>3 DEF startRunning
<1>12. CASE startRunningLists(q)
  <2> DEFINE pending == WithStatus(req[q].c, {"PENDING"})
  <2>1. req[q].at = "runPending" /\ UNCHANGED db
    BY <1>12 DEF startRunningLists, At
  <2>2. CASE NextToRun(q)
    BY <1>6, <2>1, <2>2 DEF db
  <2>3. CASE Set(q, [req[q] EXCEPT !.at = "enqueue", !.rs = pending, !.gap = 0])
    <3>1. \A r \in pending : rec'[r] \in Claimable
      BY <2>1 DEF db, WithStatus, Claimable
    <3> HIDE DEF pending
    <3>2. /\ req'[q].at = "enqueue" /\ req'[q].c = c /\ req'[q].todo = req[q].todo
          /\ req'[q].rs = pending
      BY <1>1, <2>3 DEF Set, TypeInv, ReqType
    <3>3. QED
      BY <2>1, <3>1, <3>2 DEF db
  <2>4. QED
    BY <1>12, <2>2, <2>3 DEF startRunningLists
<1>13. CASE enqueueMany(q)
  <2>1. req[q].at = "enqueue" /\ UNCHANGED status
    BY <1>13 DEF enqueueMany, At
  <2>2. PICK batch \in Firsts(req[q].rs, BatchSize) :
          /\ SetAll(batch, "QUEUED")
          /\ \/ NextToRun(q)
             \/ \E delay \in Delays :
                   Set(q, [req[q] EXCEPT !.rs = req[q].rs \ batch, !.gap = req[q].gap + delay])
    BY <1>13 DEF enqueueMany
  <2>3. CASE NextToRun(q)
    BY <1>6, <2>1, <2>3
  <2>4. ASSUME NEW delay \in Delays,
               Set(q, [req[q] EXCEPT !.rs = req[q].rs \ batch, !.gap = req[q].gap + delay])
        PROVE  SetsUp(q)'
    <3>1. \A r \in req[q].rs : rec'[r] \in Claimable
      <4>1. req[q].rs \subseteq Recipients
        BY <1>1, HandType
      <4>2. QED
        BY <2>1, <2>2, <4>1 DEF SetAll, Claimable
    <3>2. /\ req'[q].at = "enqueue" /\ req'[q].c = c /\ req'[q].todo = req[q].todo
          /\ req'[q].rs = req[q].rs \ batch
      BY <1>1, <2>1, <2>4 DEF Set, TypeInv, ReqType
    <3>3. QED
      BY <2>1, <3>1, <3>2
  <2>5. QED
    BY <2>2, <2>3, <2>4
<1>14. CASE relaunchRecipients(q) \/ relaunchContacts(q)
  <2>1. req'[q].at \in {"idle", "relaunchContacts", "relaunchCreate"}
    <3>1. ASSUME NEW step, NEW rs, NEW skip,
                 \/ Set(q, [req[q] EXCEPT !.at = step, !.rs = rs])
                 \/ Set(q, [req[q] EXCEPT !.at = step, !.skip = skip])
          PROVE  req'[q].at = step
      BY <1>1, <3>1 DEF Set, TypeInv, ReqType
    <3>2. Return(q) => req'[q].at = "idle"
      BY <1>1, Next1
    <3>3. CASE relaunchRecipients(q)
      BY <3>1, <3>2, <3>3 DEF relaunchRecipients
    <3>4. CASE relaunchContacts(q)
      BY <3>1, <3>2, <3>4 DEF relaunchContacts
    <3>5. QED
      BY <1>14, <3>3, <3>4
  <2>2. QED
    BY <1>5, <2>1
<1>15. ASSUME NEW d \in Campaigns, relaunchCreates(q, d)
       PROVE  SetsUp(q)'
  <2> DEFINE copies == {<<d, r[2]>> : r \in req[q].rs}
  <2>1. copies \subseteq Of(d)
    BY <1>1, HandType DEF Of, Recipients
  <2>2. Set(q, [req[q] EXCEPT !.at = "relaunchWrite", !.c = d, !.rs = copies])
    BY <1>15 DEF relaunchCreates
  <2>3. status'[d] = "DRAFT"
    BY <1>15 DEF relaunchCreates, TypeInv, Tables
  <2> HIDE DEF copies
  <2>4. req'[q].at = "relaunchWrite" /\ req'[q].c = d /\ req'[q].rs = copies
    BY <1>1, <2>2 DEF Set, TypeInv, ReqType
  <2>5. QED
    BY <2>1, <2>3, <2>4 DEF Launchable, Of
<1>16. CASE relaunch(q)
  <2>1. req[q].at = "relaunchWrite" /\ UNCHANGED status
    BY <1>16 DEF relaunch, At
  <2>2. CASE Return(q)
    BY <1>1, <1>5, <2>2, Next1
  <2>3. CASE Set(q, [NoReq EXCEPT !.at = "runRead", !.c = req[q].c])
    <3>1. req'[q].at = "runRead" /\ req'[q].c = c /\ req'[q].todo = {}
      BY <2>3 DEF Set, TypeInv, NoReq
    <3>2. QED
      BY <2>1, <3>1
  <2>4. QED
    BY <1>16, <2>2, <2>3 DEF relaunch
<1>17. CASE RequestThrows(q)
  <2>1. UNCHANGED status
    BY <1>17 DEF RequestThrows, db
  <2>2. QED
    BY <1>1, <1>5, <1>6, <1>17, <2>1, Next1 DEF RequestThrows
<1>18. QED
  BY <1>3, <1>7, <1>8, <1>9, <1>10, <1>11, <1>12, <1>13, <1>14, <1>15, <1>16, <1>17
     DEF RequestGoesOn, SetupSteps, ReqSteps, At, Writes, update, pause, resume, cancel,
     cancelRecipients, stopReads, stopFinds, remove

\* What a request does to rows and campaigns.
LEMMA RequestMoves ==
    ASSUME TypeInv, Rows, NEW q \in Requests, RequestGoesOn(q), SetsUp(q)
    PROVE  /\ \A r \in Recipients : RowMoves(r)
           /\ \A c \in Campaigns : StatusMoves(c) /\ TakesAll(c)
<1> DEFINE c == req[q].c
<1>1. req[q].at # "idle" /\ req[q] \in InHand
  BY RequestStep
<1>2. c \in Campaigns /\ req[q].rs \subseteq Recipients
  BY <1>1, HandType
<1>3. ASSUME UNCHANGED rec
      PROVE  /\ \A r \in Recipients : RowMoves(r)
             /\ \A d \in Campaigns : TakesAll(d)
  BY <1>3 DEF RowMoves, TakesAll
<1>4. UNCHANGED status => \A d \in Campaigns : StatusMoves(d)
  BY DEF StatusMoves
<1>5. ASSUME NEW v \in {"RUNNING", "PAUSED", "CANCELLED", "deleted"}, Write(q, v)
      PROVE  \A d \in Campaigns : StatusMoves(d)
  BY <1>2, <1>5 DEF Write, Gone, StatusMoves, TypeInv, Tables
<1>6. CASE UNCHANGED <<status, rec>>
  BY <1>3, <1>4, <1>6
<1>7. CASE pause(q) \/ resume(q) \/ startRunning(q) \/ cancel(q)
  BY <1>3, <1>5, <1>7 DEF pause, resume, startRunning, cancel, Writes
<1>8. CASE launchSchedules(q)
  <2>1. status[c] \in Launchable /\ Write(q, "SCHEDULED") /\ UNCHANGED rec
    BY <1>8 DEF launchSchedules, Writes, At, SetsUp, Filling
  <2>2. \A d \in Campaigns : StatusMoves(d)
    BY <1>2, <2>1 DEF Write, Gone, StatusMoves, TypeInv, Tables
  <2>3. QED
    BY <1>3, <2>1, <2>2
<1>9. ASSUME NEW d \in Campaigns, relaunchCreates(q, d)
      PROVE  /\ \A r \in Recipients : RowMoves(r)
             /\ \A e \in Campaigns : StatusMoves(e) /\ TakesAll(e)
  <2>1. \A e \in Campaigns : StatusMoves(e)
    BY <1>9 DEF relaunchCreates, StatusMoves, TypeInv, Tables
  <2>2. QED
    BY <1>3, <1>9, <2>1 DEF relaunchCreates
<1>10. CASE addRecipients(q) \/ (relaunch(q) /\ ~UNCHANGED rec)
  <2>1. /\ status[c] \in Launchable /\ req[q].rs \subseteq Of(c)
        /\ CreateRecipients(q) /\ UNCHANGED status
    BY <1>10 DEF addRecipients, relaunch, At, SetsUp, Filling
  <2>2. \A r \in Recipients : RowMoves(r)
    BY <2>1 DEF CreateRecipients, RowMoves, Of
  <2>3. \A d \in Campaigns : TakesAll(d)
    BY <2>1 DEF CreateRecipients, TakesAll, Of
  <2>4. QED
    BY <1>4, <2>1, <2>2, <2>3
<1>11. CASE enqueueMany(q)
  <2>1. /\ UNCHANGED status
        /\ \A r \in req[q].rs : rec[r] \in Claimable
    BY <1>11 DEF enqueueMany, At, SetsUp
  <2>2. PICK batch \in SUBSET req[q].rs : SetAll(batch, "QUEUED")
    BY <1>11 DEF enqueueMany, Firsts
  <2>3. \A r \in Recipients : RowMoves(r)
    BY <2>1, <2>2 DEF SetAll, RowMoves
  <2>4. \A d \in Campaigns : TakesAll(d)
    BY <2>1, <2>2 DEF SetAll, TakesAll, Of, Claimable
  <2>5. QED
    BY <1>4, <2>1, <2>3, <2>4
<1>12. CASE cancelRecipients(q)
  <2>1. UNCHANGED status /\ SetAll(Active(c), "CANCELLED")
    BY <1>12 DEF cancelRecipients
  <2>2. \A r \in Recipients : RowMoves(r)
    BY <2>1 DEF SetAll, RowMoves, Active, WithStatus, Of
  <2>3. \A d \in Campaigns : TakesAll(d)
    BY <2>1 DEF SetAll, TakesAll, Of, Active, WithStatus, Claimable, ACTIVE_RECIPIENT_STATUSES
  <2>4. QED
    BY <1>4, <2>1, <2>2, <2>3
<1>13. CASE remove(q)
  <2>1. Write(q, "deleted") /\ SetAll(Of(c), "none")
    BY <1>13 DEF remove
  <2>2. \A d \in Campaigns : StatusMoves(d)
    BY <1>5, <2>1
  <2>3. ASSUME NEW r \in Recipients PROVE RowMoves(r)
    <3>1. CASE r \notin Of(c)
      BY <2>1, <3>1 DEF SetAll, RowMoves
    <3>2. CASE r \in Of(c)
      <4>1. rec'[r] = "none" /\ r[1] = c
        BY <2>1, <3>2 DEF SetAll, Of
      <4>2. status'[c] = "deleted" \/ status[c] = "none"
        BY <1>2, <2>1 DEF Write, Gone, Missing, TypeInv, Tables
      <4>3. QED
        BY <4>1, <4>2 DEF RowMoves, Rows
    <3>3. QED
      BY <3>1, <3>2
  <2>4. \A d \in Campaigns : TakesAll(d)
    BY <2>1 DEF SetAll, TakesAll, Of, Claimable
  <2>5. QED
    BY <2>2, <2>3, <2>4
<1>14. QED
  BY <1>6, <1>7, <1>8, <1>9, <1>10, <1>11, <1>12, <1>13 DEF RequestGoesOn, update,
     addRecipientsContacts, launchCounts, startRunningReads, startRunningLists, stopReads,
     stopFinds, relaunchRecipients, relaunchContacts, relaunch, RequestThrows, db

\* The tick and the calls go on to work on launched campaigns.
LEMMA StartedKept ==
    ASSUME TypeInv, Started, \A c \in Campaigns : StatusMoves(c), UNCHANGED <<tick, work>>
    PROVE  Started'
<1>1. \A c \in Campaigns : Launched(c) => Launched(c)'
  BY StaysLaunched
<1>2. tick.todo \subseteq Campaigns /\ (tick.at \in {"find", "claim"} => tick.c \in Campaigns)
  BY DEF TypeInv, GoodTick, AtHand, TickType
<1>3. \A w \in Workers : ~Idle(w) => work[w].r[1] \in Campaigns
  BY RowOf DEF TypeInv, GoodWork, Idle
<1>4. QED
  BY <1>1, <1>2, <1>3 DEF Started, Idle

\* A request, as it begins and as it goes on.
LEMMA SoloRequest ==
    ASSUME TypeInv, SetupAlone, SoloParts, NEW q \in Requests,
           RequestBegins(q) \/ RequestGoesOn(q)
    PROVE  SoloParts'
<1> USE DEF SoloParts
<1>1. CASE RequestBegins(q)
  <2>1. /\ UNCHANGED <<status, rec, tick, work, sent>>
        /\ \A p \in Requests : ~Setup(p) /\ (p # q => req'[p] = req[p])
        /\ Setup(q)' => tick.at = "idle" /\ \A p \in Requests : req[p].at = "idle"
        /\ SetsUp(q)'
    BY <1>1, RequestBegun DEF db, TypeInv
  <2>2. Solo'
    BY <2>1 DEF Solo, Setup
  <2>3. ASSUME NEW p \in Requests PROVE SetsUp(p)'
    <3>1. CASE p = q
      BY <2>1, <3>1
    <3>2. CASE p # q
      BY <2>1, <3>2 DEF SetsUp, Filling, Starting, Setup, SetupSteps, ReqSteps
    <3>3. QED
      BY <3>1, <3>2
  <2>4. /\ \A r \in Recipients : RowMoves(r)
        /\ \A c \in Campaigns : StatusMoves(c) /\ TakesAll(c)
    BY <2>1 DEF RowMoves, StatusMoves, TakesAll
  <2>5. QED
    BY <2>1, <2>2, <2>3, <2>4, Kept, StartedKept
<1>2. CASE RequestGoesOn(q)
  <2>1. /\ req[q].at # "idle" /\ UNCHANGED <<tick, work, sent>>
        /\ \A p \in Requests : p # q => req'[p] = req[p]
    BY <1>2, RequestStep DEF TypeInv
  <2>2. /\ \A r \in Recipients : RowMoves(r)
        /\ \A c \in Campaigns : StatusMoves(c) /\ TakesAll(c)
    BY <1>2, RequestMoves
  <2>3. CASE Setup(q)
    <3>1. SetsUp(q)'
      BY <1>2, <2>3, SetsUpOn
    <3>2. tick'.at = "idle" /\ \A p \in Requests : p # q => req'[p].at = "idle"
      BY <2>1, <2>3 DEF Solo
    <3>3. Solo'
      BY <3>2 DEF Solo, Setup, SetupSteps
    <3>4. \A p \in Requests : SetsUp(p)'
      BY <3>1, <3>2 DEF SetsUp, Filling, Starting
    <3>5. QED
      BY <2>1, <2>2, <3>3, <3>4, Kept, StartedKept
  <2>4. CASE ~Setup(q)
    <3>1. ~Setup(q)'
      BY <1>2, <2>4, StaysOut
    <3>2. \A p \in Requests : ~Setup(p)
      BY <2>1, <2>4 DEF Solo
    <3>3. \A p \in Requests : ~Setup(p)'
      BY <2>1, <3>1, <3>2 DEF Setup
    <3>4. Solo' /\ \A p \in Requests : SetsUp(p)'
      BY <3>3 DEF Solo, Setup, SetupSteps, ReqSteps, SetsUp, Filling, Starting
    <3>5. QED
      BY <2>1, <2>2, <3>4, Kept, StartedKept
  <2>5. QED
    BY <2>3, <2>4
<1>3. QED
  BY <1>1, <1>2

--------------------------------------------------------------------------------
(* The tick, of campaigns that are set up alone.                            *)

\* While there is a tick no campaign is set up.
LEMMA TickAlone ==
    ASSUME SetupAlone, Solo, Tick
    PROVE  /\ \A q \in Requests : ~Setup(q)
           /\ UNCHANGED <<status, later, wait, world, req, sent>>
BY DEF Solo, Setup, Tick, ticking, countInFlight, findDue, claim, tickThrows, db

\* The tick takes its campaigns from those that are RUNNING.
LEMMA TickCampaigns ==
    ASSUME TypeInv, Started, Tick
    PROVE  /\ \A c \in tick'.todo : Launched(c)
           /\ tick'.at \in {"find", "claim"} => Launched(tick'.c)
<1>1. tick \in TickType /\ (tick.at \in {"find", "claim"} => tick \in AtHand)
  BY DEF TypeInv, GoodTick, AtHand
<1>2. ASSUME NEW T \in SUBSET Campaigns, tick' = NextToTick(T)
      PROVE  tick'.todo \subseteq T /\ tick'.at \in {"idle", "count"}
  BY <1>2 DEF NextToTick, NoTick
<1>3. tick.todo \in SUBSET Campaigns
  BY <1>1 DEF TickType
<1>4. CASE ticking
  <2> DEFINE running == {c \in Campaigns : status[c] = "RUNNING"}
  <2>1. tick' = NextToTick(running) /\ running \in SUBSET Campaigns
    BY <1>4 DEF ticking
  <2>2. tick'.todo \subseteq running /\ tick'.at \in {"idle", "count"}
    BY <1>2, <2>1
  <2>3. QED
    BY <2>2 DEF Launched, Launchable
<1>5. CASE countInFlight
  <2>1. PICK c \in tick.todo :
          \/ tick' = NextToTick(tick.todo \ {c})
          \/ \E room : tick' = [at |-> "find", todo |-> tick.todo \ {c}, c |-> c,
                                room |-> room, due |-> {}]
    BY <1>5 DEF countInFlight
  <2>2. CASE tick' = NextToTick(tick.todo \ {c})
    <3>1. tick'.todo \subseteq tick.todo \ {c} /\ tick'.at \in {"idle", "count"}
      BY <1>2, <1>3, <2>2
    <3>2. QED
      BY <3>1 DEF Started
  <2>3. CASE \E room : tick' = [at |-> "find", todo |-> tick.todo \ {c}, c |-> c,
                                room |-> room, due |-> {}]
    BY <2>3 DEF Started
  <2>4. QED
    BY <2>1, <2>2, <2>3
<1>6. CASE findDue \/ claim
  <2>1. /\ tick.at \in {"find", "claim"}
        /\ \/ tick' = NextToTick(tick.todo)
           \/ \E due : tick' = [tick EXCEPT !.at = "claim", !.due = due]
           \/ \E due : tick' = [tick EXCEPT !.due = due]
    BY <1>6 DEF findDue, claim
  <2>2. CASE tick' = NextToTick(tick.todo)
    <3>1. tick'.todo \subseteq tick.todo /\ tick'.at \in {"idle", "count"}
      BY <1>2, <1>3, <2>2
    <3>2. QED
      BY <3>1 DEF Started
  <2>3. CASE \/ \E due : tick' = [tick EXCEPT !.at = "claim", !.due = due]
             \/ \E due : tick' = [tick EXCEPT !.due = due]
    <3>1. tick'.todo = tick.todo /\ tick'.c = tick.c
      BY <1>1, <2>3 DEF TickType
    <3>2. QED
      BY <2>1, <3>1 DEF Started
  <2>4. QED
    BY <2>1, <2>2, <2>3
<1>7. CASE tickThrows
  <2>1. PICK T \in SUBSET tick.todo : tick' = NextToTick(T)
    BY <1>7 DEF tickThrows
  <2>2. tick'.todo \subseteq T /\ tick'.at \in {"idle", "count"}
    BY <1>2, <1>3, <2>1
  <2>3. QED
    BY <2>2 DEF Started
<1>8. QED
  BY <1>4, <1>5, <1>6, <1>7 DEF Tick

\* A call starts on a row that was to be claimed, or rows and calls are left alone.
Claims(w, r) ==
    /\ tick.at = "claim" /\ r \in Of(tick.c) /\ rec[r] \in Claimable /\ Idle(w)
    /\ rec' = [rec EXCEPT ![r] = "SENDING"]
    /\ work' = [work EXCEPT ![w] = [at |-> "load", r |-> r, opted |-> FALSE]]

\* A step of the tick claims one row or leaves rows and calls alone.
LEMMA TickClaimsOne ==
    ASSUME TypeInv, Tick
    PROVE  \/ UNCHANGED <<rec, work>>
           \/ \E w \in Workers : \E r \in Recipients : Claims(w, r)
<1>1. tick.at = "claim" => tick.due \subseteq Of(tick.c)
  BY DEF TypeInv, GoodTick, AtHand
<1>2. CASE claim
  <2>1. PICK r \in tick.due :
          IF rec[r] \in Claimable
          THEN \E w \in Workers :
                 /\ Idle(w)
                 /\ rec' = [rec EXCEPT ![r] = "SENDING"]
                 /\ work' = [work EXCEPT ![w] = [at |-> "load", r |-> r, opted |-> FALSE]]
          ELSE UNCHANGED <<rec, work>>
    BY <1>2 DEF claim
  <2>2. tick.at = "claim" /\ r \in Of(tick.c) /\ r \in Recipients
    BY <1>1, <1>2 DEF claim, Of
  <2>3. QED
    BY <2>1, <2>2 DEF Claims
<1>3. QED
  BY <1>2 DEF Tick, ticking, countInFlight, findDue, tickThrows, db

\* The calls in flight are not more than the rows they have, if each has one of its own.
LEMMA CallsCounted ==
    ASSUME NEW S \in SUBSET Workers, NEW T \in SUBSET Recipients,
           NEW f \in [S -> T], \A v, w \in S : f[v] = f[w] => v = w
    PROVE  IsFiniteSet(S) /\ Cardinality(S) <= Cardinality(T)
<1>1. IsFiniteSet(T)
  BY Counting
<1>2. f \in Injection(S, T)
  BY DEF Injection, IsInjective
<1>3. QED
  BY <1>1, <1>2, FS_Injection DEF ExistsInjection

\* What starting a call does to the calls.
LEMMA ClaimKept ==
    ASSUME TypeInv, Started, Rows, Calls, Ended, SentOnce, SendsCap, BatchCap',
           NEW w \in Workers, NEW r \in Recipients, Claims(w, r), UNCHANGED <<status, sent>>
    PROVE  Rows' /\ Calls' /\ Ended' /\ SentOnce' /\ SendsCap'
<1> USE DEF Busy
<1>0. PICK c : c = tick.c
  OBVIOUS
<1>1. /\ ~Touched(r) /\ sent[r] = 0 /\ r[1] = c /\ c \in Campaigns
      /\ rec[r] \in Claimable /\ rec'[r] = "SENDING"
      /\ \A s \in Recipients : s # r => rec'[s] = rec[s]
  <2>1. r[1] = c /\ c \in Campaigns
    BY <1>0, RowOf DEF Claims, Of
  <2>2. ~Touched(r)
    BY DEF Claims, Rows
  <2>3. QED
    BY <2>1, <2>2 DEF Touched, Claims, TypeInv, Tables
<1>2. /\ ~Busy(w) /\ work'[w].at = "load" /\ work'[w].r = r
      /\ \A v \in Workers : v # w => work'[v] = work[v]
      /\ Busy(w)'
  BY DEF Claims, Idle, Busy, Processing, TypeInv
<1>3. \A v \in Workers : Busy(v) => work[v].r # r /\ work[v].r \in Recipients
  BY <1>1 DEF Touched, TypeInv, GoodWork, Busy, Processing
<1>4. \A v \in Workers : v # w => Busy(v)' = Busy(v)
  BY <1>2 DEF Busy
<1>5. Rows'
  <2>1. ASSUME NEW s \in Recipients, Touched(s)', s # r
        PROVE  Touched(s)
    BY <1>2, <1>4, <2>1 DEF Touched, Busy
  <2>2. QED
    BY <1>1, <2>1 DEF Rows, Claimable
<1>6. ASSUME NEW d \in Campaigns, WithStatus(d, Claimable) = {}
      PROVE  WithStatus(d, Claimable)' = {}
  BY <1>1, <1>6 DEF WithStatus, Of
<1>7. Calls'
  <2>1. ASSUME NEW v \in Workers, Busy(v)'
        PROVE  /\ rec'[work'[v].r] \in {"SENDING", "CANCELLED", "none"}
               /\ rec'[work'[v].r] # "SENDING" => WithStatus(work[v].r[1], Claimable)' = {}
    <3>1. CASE v = w
      BY <1>1, <1>2, <3>1
    <3>2. CASE v # w
      <4>1. Busy(v) /\ work'[v] = work[v] /\ rec'[work[v].r] = rec[work[v].r]
        BY <1>1, <1>2, <1>3, <1>4, <2>1, <3>2
      <4>2. PICK d \in Campaigns : d = work[v].r[1]
        BY <1>3, <4>1, RowOf
      <4>3. rec[work[v].r] # "SENDING" => WithStatus(d, Claimable)' = {}
        BY <1>6, <4>1, <4>2 DEF Calls
      <4>4. WithStatus(work[v].r[1], Claimable)' = WithStatus(d, Claimable)'
        BY <4>1, <4>2
      <4>5. QED
        BY <4>1, <4>3, <4>4 DEF Calls
    <3>3. QED
      BY <3>1, <3>2
  <2>2. ASSUME NEW u \in Workers, NEW v \in Workers, Busy(u)', Busy(v)',
               work'[u].r = work'[v].r
        PROVE  u = v
    BY <1>2, <1>3, <1>4, <2>2 DEF Calls
  <2>3. ASSUME NEW v \in Workers, work'[v].at \in PreSend
        PROVE  sent'[work'[v].r] = 0
    BY <1>1, <1>2, <2>3 DEF Calls
  <2>4. QED
    BY <2>1, <2>2, <2>3 DEF Calls
<1>8. Ended'
  <2>1. ASSUME NEW d \in Campaigns, Active(d) = {} PROVE Active(d)' = {}
    BY <1>1, <2>1 DEF Active, WithStatus, Of, Claimable, ACTIVE_RECIPIENT_STATUSES
  <2>2. ASSUME NEW v \in Workers, work'[v].at \in {"check", "complete"}
        PROVE  Active(work[v].r[1])' = {}
    <3>1. v # w /\ work'[v] = work[v]
      BY <1>2, <2>2
    <3>2. PICK d \in Campaigns : d = work[v].r[1] /\ Active(d) = {}
      BY <2>2, <3>1, RowOf DEF Ended, TypeInv, GoodWork
    <3>3. Active(work[v].r[1])' = Active(d)'
      BY <3>1, <3>2
    <3>4. QED
      BY <2>1, <3>2, <3>3
  <2>3. QED
    BY <2>1, <2>2 DEF Ended
<1>9. SendsCap'
  <2> SUFFICES ASSUME NEW d \in Campaigns PROVE Cardinality(InFlight(d)') <= BatchSize
    BY DEF SendsCap
  <2>1. CASE d # c
    <3>1. InFlight(d)' = InFlight(d)
      BY <1>1, <1>2, <2>1 DEF InFlight, Of, Busy
    <3>2. QED
      BY <3>1 DEF SendsCap
  <2>2. CASE d = c
    <3> DEFINE S == InFlight(c)'
               T == WithStatus(c, {"SENDING"})'
               f == [v \in S |-> work'[v].r]
    <3>1. ASSUME NEW v \in S PROVE f[v] \in T
      <4>1. v \in Workers /\ Busy(v)' /\ work'[v].r \in Of(c)
        BY DEF InFlight, Busy, Of
      <4>2. rec'[work'[v].r] = "SENDING"
        <5>2. CASE v = w
          BY <1>1, <1>2, <5>2
        <5>3. CASE v # w
          <6>1. Busy(v) /\ work[v].r = work'[v].r /\ work[v].r[1] = c
            BY <1>2, <1>4, <4>1, <5>3 DEF Of
          <6>2. r \in WithStatus(work[v].r[1], Claimable)
            BY <1>1, <6>1 DEF WithStatus, Of
          <6>3. rec[work[v].r] = "SENDING"
            BY <4>1, <6>1, <6>2 DEF Calls
          <6>4. v \in Workers /\ work[v].r # r /\ work[v].r \in Recipients
            BY <1>3, <4>1, <6>1
          <6>5. rec'[work[v].r] = rec[work[v].r]
            BY <1>1, <6>4
          <6>6. QED
            BY <6>1, <6>3, <6>5
        <5>4. QED
          BY <5>2, <5>3
      <4>3. QED
        BY <4>1, <4>2 DEF WithStatus, Of
    <3>2. S \in SUBSET Workers /\ T \in SUBSET Recipients
      BY DEF InFlight, WithStatus, Of
    <3>3. \A u, v \in S : f[u] = f[v] => u = v
      <4>1. \A v \in S : v \in Workers /\ Busy(v)'
        BY DEF InFlight, Busy
      <4>2. QED
        BY <1>7, <4>1 DEF Calls
    <3>4. f \in [S -> T]
      BY <3>1
    <3>5. Cardinality(T) <= BatchSize /\ Cardinality(T) \in Nat
      BY <1>1, <3>2, Counting DEF BatchCap
    <3> HIDE DEF S, T, f
    <3>6. IsFiniteSet(S) /\ Cardinality(S) <= Cardinality(T)
      BY <3>2, <3>3, <3>4, CallsCounted
    <3>7. Cardinality(S) \in Nat
      BY <3>6, FS_CardinalityType
    <3>8. Cardinality(S) <= BatchSize
      BY <3>5, <3>6, <3>7, BatchAssumption
    <3>9. QED
      BY <2>2, <3>8 DEF S
  <2>3. QED
    BY <2>1, <2>2
<1>10. SentOnce'
  BY DEF SentOnce
<1>11. QED
  BY <1>5, <1>7, <1>8, <1>9, <1>10

\* Every step of the tick.
LEMMA SoloTick ==
    ASSUME TypeInv, SetupAlone, SoloParts, BatchCap', Tick
    PROVE  SoloParts'
<1> USE DEF SoloParts
<1>1. (\A q \in Requests : ~Setup(q)) /\ UNCHANGED <<status, req, sent>>
  BY TickAlone
<1>2. Solo' /\ \A q \in Requests : SetsUp(q)'
  BY <1>1 DEF Solo, Setup, SetupSteps, ReqSteps, SetsUp, Filling, Starting
<1>3. (\A c \in tick'.todo : Launched(c)') /\ (tick'.at \in {"find", "claim"} => Launched(tick.c)')
  BY <1>1, TickCampaigns DEF Launched
<1>4. CASE UNCHANGED <<rec, work>>
  <2>1. Started'
    BY <1>1, <1>3, <1>4 DEF Started, Launched, Idle
  <2>2. /\ \A r \in Recipients : RowMoves(r)
        /\ \A c \in Campaigns : StatusMoves(c) /\ TakesAll(c)
    BY <1>1, <1>4 DEF RowMoves, StatusMoves, TakesAll
  <2>3. QED
    BY <1>1, <1>2, <1>4, <2>1, <2>2, Kept
<1>5. ASSUME NEW w \in Workers, NEW r \in Recipients, Claims(w, r)
      PROVE  SoloParts'
  <2>1. Started'
    <3>1. work' = [work EXCEPT ![w] = [at |-> "load", r |-> r, opted |-> FALSE]]
          /\ Launched(r[1])
      BY <1>5 DEF Claims, Of, Started
    <3>2. \A v \in Workers : work'[v].at # "idle" => Launched(work'[v].r[1])
      BY <3>1 DEF Started, Idle, TypeInv
    <3>3. QED
      BY <1>1, <1>3, <3>2 DEF Started, Launched, Idle
  <2>2. QED
    BY <1>1, <1>2, <1>5, <2>1, ClaimKept
<1>6. QED
  BY <1>4, <1>5, TickClaimsOne

--------------------------------------------------------------------------------
(* The calls, of campaigns that are set up alone.                           *)

\* Call w goes on with its recipient, or ends.
CallGoes(w) ==
    /\ ~Idle(w) /\ work[w].r \in Recipients
    /\ \A v \in Workers : v # w => work'[v] = work[v]
    /\ work'[w].at # "idle" => work'[w].r = work[w].r
    /\ work'[w].at \in Processing => Busy(w)
    /\ work'[w].at \in PreSend => work[w].at \in PreSend
    /\ work'[w].at \in {"check", "complete"} => Active(work[w].r[1]) = {}

\* It writes its row when it is done with it, counts one message when it sends one, and
\* completes the campaign.
CallWrites(w) ==
    /\ \A s \in Recipients :
        \/ rec'[s] = rec[s]
        \/ /\ s = work[w].r /\ Busy(w) /\ work'[w].at = "remaining"
           /\ rec[s] # "none" /\ rec'[s] \in {"SKIPPED_OPTOUT", "SENT", "FAILED"}
    /\ \A s \in Recipients :
        \/ sent'[s] = sent[s]
        \/ /\ s = work[w].r /\ work[w].at = "send" /\ work'[w].at \in {"sent", "fail"}
           /\ sent'[s] = sent[s] + 1
    /\ \A c \in Campaigns :
        \/ status'[c] = status[c]
        \/ /\ c = work[w].r[1] /\ work[w].at = "complete" /\ status[c] \notin Missing
           /\ status'[c] = "COMPLETED"

\* Every step of a call goes and writes so.
LEMMA CallSteps ==
    ASSUME TypeInv, Ended, NEW w \in Workers, Work(w)
    PROVE  CallGoes(w) /\ CallWrites(w) /\ UNCHANGED <<req, tick>>
<1>1. ~Idle(w) /\ UNCHANGED <<req, tick>>
  BY DEF Idle, Work, doProcess, checkCampaign, skipOptedOut, sendMessage, markSent,
     markFailed, Marks, handleRecipientProcessed, checkRunning, complete, workThrows, Working,
     world
<1>2. work[w] \in WorkType /\ work[w].r \in Recipients
  BY <1>1 DEF TypeInv, GoodWork, Idle
<1>3. ASSUME NEW step, WorkTo(w, step)
      PROVE  /\ work'[w].at = step /\ work'[w].r = work[w].r
             /\ \A v \in Workers : v # w => work'[v] = work[v]
  BY <1>2, <1>3 DEF WorkTo, TypeInv, WorkType
<1>4. ASSUME WorkEnds(w)
      PROVE  work'[w].at = "idle" /\ \A v \in Workers : v # w => work'[v] = work[v]
  BY <1>4 DEF WorkEnds, NoWork, TypeInv
<1>5. ASSUME NEW S, \E step \in S : WorkTo(w, step)
      PROVE  /\ work'[w].at \in S /\ work'[w].r = work[w].r
             /\ \A v \in Workers : v # w => work'[v] = work[v]
  BY <1>3, <1>5
<1>6. ASSUME UNCHANGED <<status, rec, sent>>
      PROVE  CallWrites(w)
  BY <1>6 DEF CallWrites
<1> USE DEF CallGoes, Busy, Processing, PreSend
<1>7. CASE doProcess(w)
  <2>1. PICK step \in {"remaining", "gate"} :
          work' = [work EXCEPT ![w] = [at |-> step, r |-> work[w].r,
                                       opted |-> work[w].r[2] \in optedOut]]
    BY <1>7 DEF doProcess
  <2>2. work[w].at = "load" /\ UNCHANGED <<status, rec, sent>>
    BY <1>7 DEF doProcess, Working, db
  <2>3. QED
    BY <1>1, <1>2, <1>6, <2>1, <2>2 DEF TypeInv
<1>8. CASE checkCampaign(w)
  <2>1. work[w].at = "gate" /\ UNCHANGED <<status, rec, sent>>
    BY <1>8 DEF checkCampaign, Working, db
  <2>2. \E step \in {"remaining", "skip", "fail", "send"} : WorkTo(w, step)
    BY <1>8 DEF checkCampaign
  <2>3. work'[w].at \in {"remaining", "skip", "fail", "send"} /\ work'[w].r = work[w].r
        /\ \A v \in Workers : v # w => work'[v] = work[v]
    BY <1>5, <2>2
  <2>4. QED
    BY <1>1, <1>2, <1>6, <2>1, <2>3
<1>9. ASSUME NEW v \in {"SKIPPED_OPTOUT", "SENT", "FAILED"}, NEW from \in Processing,
             NEW next \in {"remaining", "fail"}, Marks(w, from, v, next),
             next = "fail" => rec[work[w].r] = "none"
      PROVE  CallGoes(w) /\ CallWrites(w)
  <2>1. work[w].at = from /\ UNCHANGED <<status, sent>> /\ WriteRecipient(w, v)
    BY <1>9 DEF Marks, Working
  <2>2. work'[w].at = next /\ work'[w].r = work[w].r
        /\ \A u \in Workers : u # w => work'[u] = work[u]
    BY <1>3, <1>9 DEF Marks
  <2>3. CallGoes(w)
    BY <1>1, <1>2, <2>1, <2>2
  <2>4. CallWrites(w)
    BY <1>2, <1>9, <2>1, <2>2 DEF CallWrites, WriteRecipient, TypeInv, Tables
  <2>5. QED
    BY <2>3, <2>4
<1>10. CASE skipOptedOut(w) \/ markSent(w) \/ markFailed(w)
  <2>1. CASE skipOptedOut(w) \/ markFailed(w)
    BY <1>1, <1>9, <2>1 DEF skipOptedOut, markFailed
  <2>2. CASE markSent(w)
    BY <1>1, <1>9, <2>2 DEF markSent
  <2>3. QED
    BY <1>10, <2>1, <2>2
<1>11. CASE sendMessage(w)
  <2>1. work[w].at = "send" /\ UNCHANGED <<status, rec>>
    BY <1>11 DEF sendMessage, Working, db
  <2>2. \E step \in {"sent", "fail"} : WorkTo(w, step)
    BY <1>11 DEF sendMessage
  <2>3. work'[w].at \in {"sent", "fail"} /\ work'[w].r = work[w].r
        /\ \A v \in Workers : v # w => work'[v] = work[v]
    BY <1>5, <2>2
  <2>4. UNCHANGED sent \/ sent' = [sent EXCEPT ![work[w].r] = @ + 1]
    BY <1>11 DEF sendMessage
  <2>5. CallWrites(w)
    BY <1>2, <2>1, <2>3, <2>4 DEF CallWrites, TypeInv
  <2>6. QED
    BY <1>1, <1>2, <2>1, <2>3, <2>5
<1>12. CASE handleRecipientProcessed(w)
  <2>1. work[w].at = "remaining" /\ UNCHANGED <<status, rec, sent>>
    BY <1>12 DEF handleRecipientProcessed, Working, db
  <2>2. CASE WorkEnds(w)
    BY <1>1, <1>2, <1>4, <1>6, <2>1, <2>2
  <2>3. CASE WorkTo(w, "check") /\ Active(CampaignOf(w)) = {}
    BY <1>1, <1>2, <1>3, <1>6, <2>1, <2>3 DEF CampaignOf
  <2>4. QED
    BY <1>12, <2>2, <2>3 DEF handleRecipientProcessed
<1>13. CASE checkRunning(w)
  <2>1. work[w].at = "check" /\ UNCHANGED <<status, rec, sent>>
    BY <1>13 DEF checkRunning, Working, db
  <2>2. CASE WorkEnds(w)
    BY <1>1, <1>2, <1>4, <1>6, <2>1, <2>2
  <2>3. CASE WorkTo(w, "complete")
    BY <1>1, <1>2, <1>3, <1>6, <2>1, <2>3 DEF Ended
  <2>4. QED
    BY <1>13, <2>2, <2>3 DEF checkRunning
<1>14. CASE complete(w)
  <2>1. work[w].at = "complete" /\ UNCHANGED <<rec, sent>> /\ WorkEnds(w)
        /\ status' = IF status[work[w].r[1]] \in Missing THEN status
                     ELSE [status EXCEPT ![work[w].r[1]] = "COMPLETED"]
    BY <1>14 DEF complete, Working, CampaignOf
  <2>2. CallGoes(w)
    BY <1>1, <1>2, <1>4, <2>1
  <2>3. CallWrites(w)
    BY <2>1 DEF CallWrites, TypeInv, Tables
  <2>4. QED
    BY <1>1, <2>2, <2>3
<1>15. CASE workThrows(w)
  <2>1. UNCHANGED <<status, rec, sent>>
    BY <1>15 DEF workThrows, db
  <2>2. CASE WorkEnds(w)
    BY <1>1, <1>2, <1>4, <1>6, <2>1, <2>2
  <2>3. CASE /\ work[w].at \in Processing
             /\ \E step \in {"remaining", "fail"} : WorkTo(w, step)
    <3>1. work'[w].at \in {"remaining", "fail"} /\ work'[w].r = work[w].r
          /\ \A v \in Workers : v # w => work'[v] = work[v]
      BY <1>5, <2>3
    <3>2. QED
      BY <1>1, <1>2, <1>6, <2>1, <2>3, <3>1
  <2>4. QED
    BY <1>15, <2>2, <2>3 DEF workThrows
<1>16. QED
  BY <1>1, <1>7, <1>8, <1>10, <1>11, <1>12, <1>13, <1>14, <1>15 DEF Work

\* The calls that are in flight are finitely many.
LEMMA InFlightFinite ==
    ASSUME TypeInv, Calls, NEW c \in Campaigns
    PROVE  IsFiniteSet(InFlight(c))
<1> DEFINE S == InFlight(c)
           f == [v \in S |-> work[v].r]
<1>1. S \in SUBSET Workers /\ \A v \in S : Busy(v) /\ work[v].r \in Recipients
  BY DEF InFlight, Of, Busy
<1>2. f \in [S -> Recipients] /\ \A u, v \in S : f[u] = f[v] => u = v
  BY <1>1 DEF Calls
<1> HIDE DEF S, f
<1>3. IsFiniteSet(S)
  BY <1>1, <1>2, CallsCounted
<1>4. QED
  BY <1>3 DEF S

\* Every step of a call.
LEMMA SoloWork ==
    ASSUME TypeInv, SoloParts, NEW w \in Workers, Work(w)
    PROVE  SoloParts'
<1> USE DEF SoloParts, Busy
<1> DEFINE r == work[w].r
<1>1. CallGoes(w) /\ CallWrites(w) /\ UNCHANGED <<req, tick>>
  BY CallSteps
<1>2. PICK c \in Campaigns : c = r[1] /\ Launched(c)
  BY <1>1, RowOf DEF CallGoes, Started
<1>3. /\ r \in Recipients
      /\ Busy(w) => rec[r] \notin Claimable /\ (rec[r] = "none" => status[c] = "deleted")
      /\ work[w].at = "send" => Busy(w) /\ sent[r] = 0
      /\ work[w].at = "complete" => Active(c) = {}
  BY <1>1, <1>2 DEF CallGoes, Rows, Touched, Calls, PreSend, Processing, Ended
<1>4. ASSUME NEW s \in Recipients
      PROVE  /\ rec'[s] \in Claimable => rec[s] \in Claimable
             /\ rec'[s] \in ACTIVE_RECIPIENT_STATUSES => rec[s] \in ACTIVE_RECIPIENT_STATUSES
             /\ rec[s] \in Claimable => rec'[s] = rec[s]
  BY <1>1, <1>3 DEF CallWrites, Claimable, ACTIVE_RECIPIENT_STATUSES
<1>5. ASSUME NEW d \in Campaigns
      PROVE  /\ Launched(d) => Launched(d)'
             /\ ~Launched(d) => status'[d] = status[d]
             /\ Active(d) = {} => Active(d)' = {}
             /\ WithStatus(d, Claimable) = {} => WithStatus(d, Claimable)' = {}
  BY <1>1, <1>2, <1>4 DEF CallWrites, Launched, Launchable, Active, WithStatus, Of
<1>6. \A v \in Workers : Busy(v)' => Busy(v) /\ work'[v].r = work[v].r
  BY <1>1 DEF CallGoes, Processing
<1>7. \A v \in Workers : work'[v].at # "idle" =>
          work[v].at # "idle" /\ work'[v].r = work[v].r /\ work[v].r \in Recipients
  BY <1>1 DEF CallGoes, Idle, TypeInv, GoodWork
<1>8. Solo'
  BY <1>1 DEF Solo, Setup
<1>9. ASSUME NEW q \in Requests PROVE SetsUp(q)'
  <2>1. /\ req[q].at # "idle" => req[q].c \in Campaigns /\ req[q].todo \subseteq Campaigns
        /\ req[q].rs \subseteq Recipients
    BY NoReqType DEF TypeInv, GoodReq, InHand, ReqType
  <2>2. \A d \in Campaigns : status[d] \in Launchable => status'[d] \in Launchable
    BY <1>5 DEF Launched
  <2>3. QED
    BY <1>1, <1>4, <2>1, <2>2 DEF SetsUp, Filling, Starting, Of
<1>10. Started'
  <2>1. \A d \in tick.todo : d \in Campaigns
    BY DEF TypeInv, GoodTick, AtHand, TickType
  <2>2. tick.at \in {"find", "claim"} => tick.c \in Campaigns
    BY DEF TypeInv, GoodTick, AtHand
  <2>3. ASSUME NEW v \in Workers, work'[v].at # "idle"
        PROVE  Launched(work[v].r[1])'
    <3>1. PICK d \in Campaigns : d = work[v].r[1] /\ Launched(d)
      BY <1>7, <2>3, RowOf DEF Started, Idle
    <3>2. d = work'[v].r[1]
      BY <1>7, <2>3, <3>1
    <3>3. QED
      BY <1>5, <3>1, <3>2
  <2>4. QED
    BY <1>1, <1>5, <2>1, <2>2, <2>3 DEF Started, Idle
<1>11. Rows'
  <2>1. ASSUME NEW s \in Recipients, Touched(s)'
        PROVE  rec'[s] \notin Claimable /\ (rec'[s] = "none" => status'[s[1]] = "deleted")
    <3>1. Touched(s)
      <4>1. CASE \E v \in Workers : Busy(v)' /\ work'[v].r = s
        BY <1>6, <4>1 DEF Touched
      <4>2. CASE sent'[s] > 0
        BY <1>1, <1>3, <4>2 DEF CallWrites, Touched
      <4>3. QED
        BY <2>1, <4>1, <4>2 DEF Touched
    <3>2. /\ rec[s] \notin Claimable
          /\ rec[s] = "none" => status[s[1]] = "deleted"
          /\ s[1] \in Campaigns
      BY <3>1, RowOf DEF Rows
    <3>3. QED
      BY <1>1, <1>4, <3>2 DEF CallWrites, Missing
  <2>2. ASSUME NEW s \in Recipients, status'[s[1]] = "none"
        PROVE  rec'[s] = "none"
    <3>1. s[1] \in Campaigns
      BY RowOf
    <3>2. status[s[1]] = "none"
      BY <1>1, <2>2, <3>1 DEF CallWrites
    <3>3. QED
      BY <1>1, <3>2 DEF Rows, CallWrites
  <2>3. QED
    BY <2>1, <2>2 DEF Rows
<1>12. Calls'
  <2>1. ASSUME NEW v \in Workers, Busy(v)'
        PROVE  /\ rec'[work'[v].r] \in {"SENDING", "CANCELLED", "none"}
               /\ rec'[work'[v].r] # "SENDING" => WithStatus(work[v].r[1], Claimable)' = {}
    <3>1. Busy(v) /\ work'[v].r = work[v].r /\ work[v].r \in Recipients
      BY <1>6, <2>1 DEF TypeInv, GoodWork, Processing
    <3>2. rec'[work[v].r] = rec[work[v].r]
      <4>1. CASE v = w
        BY <1>1, <2>1, <3>1, <4>1 DEF CallWrites, Processing
      <4>2. CASE v # w
        BY <1>1, <3>1, <4>2 DEF CallWrites, Calls
      <4>3. QED
        BY <4>1, <4>2
    <3>3. PICK d \in Campaigns : d = work[v].r[1]
      BY <3>1, RowOf
    <3>4. rec[work[v].r] # "SENDING" => WithStatus(d, Claimable)' = {}
      BY <1>5, <3>1, <3>3 DEF Calls
    <3>5. WithStatus(work[v].r[1], Claimable)' = WithStatus(d, Claimable)'
      BY <3>1, <3>3
    <3>6. QED
      BY <3>1, <3>2, <3>4, <3>5 DEF Calls
  <2>2. ASSUME NEW u \in Workers, NEW v \in Workers, Busy(u)', Busy(v)',
               work'[u].r = work'[v].r
        PROVE  u = v
    BY <1>6, <2>2 DEF Calls
  <2>3. ASSUME NEW v \in Workers, work'[v].at \in PreSend
        PROVE  sent'[work'[v].r] = 0
    <3>1. /\ work[v].at \in PreSend /\ work'[v].r = work[v].r
          /\ work[v].r \in Recipients /\ Busy(v)
      BY <1>1, <1>7, <2>3 DEF CallGoes, PreSend, Processing
    <3>2. sent'[work[v].r] = sent[work[v].r]
      <4>1. CASE v = w
        BY <1>1, <2>3, <3>1, <4>1 DEF CallWrites, PreSend
      <4>2. CASE v # w
        BY <1>1, <1>3, <3>1, <4>2 DEF CallWrites, Calls
      <4>3. QED
        BY <4>1, <4>2
    <3>3. QED
      BY <3>1, <3>2 DEF Calls
  <2>4. QED
    BY <2>1, <2>2, <2>3 DEF Calls
<1>13. Ended'
  <2>1. ASSUME NEW d \in Campaigns, status'[d] = "COMPLETED" PROVE Active(d)' = {}
    BY <1>1, <1>2, <1>3, <1>5, <2>1 DEF CallWrites, Ended
  <2>2. ASSUME NEW v \in Workers, work'[v].at \in {"check", "complete"}
        PROVE  Active(work[v].r[1])' = {}
    <3>1. /\ work'[v].r = work[v].r /\ work[v].r \in Recipients
          /\ Active(work[v].r[1]) = {}
      BY <1>1, <1>7, <2>2 DEF CallGoes, Ended
    <3>2. PICK d \in Campaigns : d = work[v].r[1]
      BY <3>1, RowOf
    <3>3. Active(work[v].r[1])' = Active(d)'
      BY <3>1, <3>2
    <3>4. QED
      BY <1>5, <3>1, <3>2, <3>3
  <2>3. QED
    BY <2>1, <2>2 DEF Ended
<1>14. SentOnce'
  BY <1>1, <1>3 DEF SentOnce, CallWrites
<1>15. SendsCap'
  <2> SUFFICES ASSUME NEW d \in Campaigns PROVE Cardinality(InFlight(d)') <= BatchSize
    BY DEF SendsCap
  <2>1. InFlight(d)' \subseteq InFlight(d)
    BY <1>6 DEF InFlight
  <2>2. IsFiniteSet(InFlight(d))
    BY InFlightFinite
  <2>3. Cardinality(InFlight(d)') <= Cardinality(InFlight(d)) /\ Cardinality(InFlight(d)) \in Nat
        /\ Cardinality(InFlight(d)') \in Nat
    BY <2>1, <2>2, FS_Subset, FS_CardinalityType
  <2>4. QED
    BY <2>3, BatchAssumption DEF SendsCap
<1>16. QED
  BY <1>8, <1>9, <1>10, <1>11, <1>12, <1>13, <1>14, <1>15

--------------------------------------------------------------------------------
(* The rest, and the theorems on campaigns that are set up alone.           *)

\* Creating a campaign, and all that happens outside the engine.
LEMMA SoloRest ==
    ASSUME TypeInv, SoloParts,
           (\E c \in Campaigns : create(c) \/ DueDate(c)) \/ Surroundings \/ Clock
               \/ UNCHANGED vars
    PROVE  SoloParts'
<1>1. UNCHANGED <<rec, req, tick, work, sent>>
  BY DEF create, DueDate, Surroundings, Clock, vars, db
<1>2. \A c \in Campaigns : StatusMoves(c)
  BY DEF StatusMoves, create, DueDate, Surroundings, Clock, vars, db, TypeInv, Tables
<1>3. /\ \A r \in Recipients : RowMoves(r)
      /\ \A c \in Campaigns : TakesAll(c)
  BY <1>1 DEF RowMoves, TakesAll
<1>4. Solo'
  BY <1>1 DEF SoloParts, Solo, Setup
<1>5. \A c \in Campaigns : status[c] \in Launchable => status'[c] \in Launchable
  BY DEF create, DueDate, Surroundings, Clock, vars, db, TypeInv, Tables, Launchable
<1>6. ASSUME NEW q \in Requests PROVE SetsUp(q)'
  <2>1. req[q].at # "idle" => req[q].c \in Campaigns /\ req[q].todo \subseteq Campaigns
    BY NoReqType DEF TypeInv, GoodReq, InHand, ReqType
  <2>2. QED
    BY <1>1, <1>5, <2>1 DEF SoloParts, SetsUp, Filling, Starting, Of
<1>7. QED
  BY <1>1, <1>2, <1>3, <1>4, <1>6, Kept, StartedKept DEF SoloParts

\* After a crash nothing is at work, and a row stays what it was.
LEMMA SoloCrash ==
    ASSUME TypeInv, SoloParts, Crash
    PROVE  SoloParts'
<1>1. /\ UNCHANGED <<status, rec, sent>>
      /\ tick'.at = "idle" /\ tick'.todo = {}
      /\ \A q \in Requests : req'[q].at = "idle"
      /\ \A w \in Workers : work'[w].at = "idle"
  BY DEF Crash, db, NoReq, NoTick, NoWork
<1> USE DEF SoloParts
<1>2. Solo' /\ \A q \in Requests : SetsUp(q)'
  BY <1>1 DEF Solo, Setup, SetupSteps, SetsUp, Filling, Starting
<1>3. Started'
  BY <1>1 DEF Started, Idle
<1>4. Rows'
  <2>1. ASSUME NEW r \in Recipients, Touched(r)' PROVE Touched(r)
    BY <1>1, <2>1 DEF Touched, Busy, Processing
  <2>2. QED
    BY <1>1, <2>1 DEF Rows
<1>5. Calls'
  BY <1>1 DEF Calls, Busy, Processing, PreSend
<1>6. Ended'
  BY <1>1 DEF Ended, Active, WithStatus
<1>7. SentOnce'
  BY <1>1 DEF SentOnce
<1>8. SendsCap'
  <2>1. \A c \in Campaigns : InFlight(c)' = {}
    BY <1>1 DEF InFlight, Processing
  <2>2. QED
    BY <2>1, FS_EmptySet, BatchAssumption DEF SendsCap
<1>9. QED
  BY <1>2, <1>3, <1>4, <1>5, <1>6, <1>7, <1>8

\* When every campaign is set up alone, each recipient has one call at most, before a
\* message is sent to it.
SoloInv == SetupAlone => SoloParts

\* The parts hold at the start, ...
LEMMA SoloInit == Init => SoloInv
<1> SUFFICES ASSUME Init, SetupAlone PROVE SoloParts
  BY DEF SoloInv
<1>1. /\ tick.at = "idle" /\ tick.todo = {}
      /\ \A q \in Requests : req[q].at = "idle"
      /\ \A w \in Workers : work[w].at = "idle"
      /\ \A c \in Campaigns : status[c] = "none"
      /\ \A r \in Recipients : rec[r] = "none" /\ sent[r] = 0
  BY DEF Init, NoReq, NoTick, NoWork
<1>2. Solo /\ \A q \in Requests : SetsUp(q)
  BY <1>1 DEF Solo, Setup, SetupSteps, SetsUp, Filling, Starting
<1>3. Started /\ Calls /\ Ended /\ SentOnce
  BY <1>1 DEF Started, Idle, Calls, Busy, Processing, PreSend, Ended, SentOnce
<1>4. Rows
  BY <1>1 DEF Rows, Touched, Busy, Processing, Claimable
<1>5. SendsCap
  <2>1. \A c \in Campaigns : InFlight(c) = {}
    BY <1>1 DEF InFlight, Processing
  <2>2. QED
    BY <2>1, FS_EmptySet, BatchAssumption DEF SendsCap
<1>6. QED
  BY <1>2, <1>3, <1>4, <1>5 DEF SoloParts

\* ... and every step keeps them.
LEMMA SoloNext == IInv /\ SoloInv /\ [Next]_vars => SoloInv'
<1> SUFFICES ASSUME IInv, SoloParts, SetupAlone, [Next]_vars PROVE SoloParts'
  BY DEF SoloInv
<1>1. TypeInv /\ BatchCap'
  <2>1. IInv'
    BY InvNext
  <2>2. BatchCap'
    BY <2>1, InvImplies, PTL
  <2>3. QED
    BY <2>2 DEF IInv
<1>2. QED
  BY <1>1, SoloRequest, SoloTick, SoloWork, SoloRest, SoloCrash DEF Next

\* No recipient is sent two messages of a campaign when nothing else happens to campaigns
\* while one is filled or started: whatever fails, and whenever the process stops.
THEOREM SentOnceCorrect == Spec => [](SetupAlone => SentOnce)
<1>1. SoloInv => (SetupAlone => SentOnce)
  BY DEF SoloInv, SoloParts
<1>2. QED
  BY <1>1, InvInit, InvNext, SoloInit, SoloNext, PTL DEF Spec

\* Nor are there ever more sends of a campaign under way than a batch, although cancelling it
\* takes their rows away before they end.
THEOREM SendsCapCorrect == Spec => [](SetupAlone => SendsCap)
<1>1. SoloInv => (SetupAlone => SendsCap)
  BY DEF SoloInv, SoloParts
<1>2. QED
  BY <1>1, InvInit, InvNext, SoloInit, SoloNext, PTL DEF Spec

--------------------------------------------------------------------------------
(* Reports: campaigns that are set up alone, and nothing fails.             *)

\* A campaign that is cancelled has no active row, or a request is about to see to it.
Cancelled == \A c \in Campaigns : status[c] = "CANCELLED" =>
    Active(c) = {} \/ \E q \in Requests : req[q].at = "cancelRecipients" /\ req[q].c = c

\* A row is SENT when one message has been sent and its call has said so.
Reported ==
    /\ \A r \in Recipients : rec[r] = "SENT" => sent[r] = 1
    /\ \A r \in Recipients : sent[r] > 0 /\ rec[r] \notin {"SENT", "none"} =>
        \E w \in Workers : work[w].at = "sent" /\ work[w].r = r
    /\ \A w \in Workers : work[w].at = "sent" => sent[work[w].r] = 1
    /\ \A w \in Workers : work[w].at = "fail" =>
        sent[work[w].r] = 0 \/ rec[work[w].r] = "none"

\* How a step of a call without a failing statement ends for its row.
CallReports(w) ==
    /\ work[w].at = "sent" =>
        \/ work'[w].at = "remaining" /\ rec'[work[w].r] = "SENT"
        \/ rec[work[w].r] = "none" /\ UNCHANGED rec
    /\ work'[w].at = "sent" => work[w].at = "send" /\ sent'[work[w].r] = sent[work[w].r] + 1
    /\ UNCHANGED sent \/ work'[w].at = "sent"
    /\ work'[w].at = "fail" =>
        \/ work[w].at = "sent" /\ rec[work[w].r] = "none"
        \/ work[w].at \in {"send", "gate"}
    /\ UNCHANGED rec \/ work[w].at \in {"sent", "fail", "skip"}
    /\ rec'[work[w].r] = "SENT" => rec[work[w].r] = "SENT" \/ work[w].at = "sent"

\* Every step of a call reports so when no statement fails.
LEMMA CallReportsStep ==
    ASSUME TypeInv, ~DbFails, NEW w \in Workers, Work(w)
    PROVE  CallReports(w)
<1>1. ASSUME NEW step, WorkTo(w, step)
      PROVE  work'[w].at = step
  BY <1>1 DEF WorkTo, TypeInv, GoodWork, WorkType
<1>2. WorkEnds(w) => work'[w].at = "idle"
  BY DEF WorkEnds, NoWork, TypeInv
<1>3. work[w].at # "idle" => work[w].r \in Recipients
  BY DEF TypeInv, GoodWork
<1> USE DEF CallReports, Working
<1>4. CASE doProcess(w)
  <2>1. work'[w].at \in {"remaining", "gate"}
    BY <1>4 DEF doProcess, TypeInv
  <2>2. QED
    BY <1>4, <2>1 DEF doProcess, db
<1>5. CASE checkCampaign(w)
  <2>1. \E step \in {"remaining", "skip", "fail", "send"} : WorkTo(w, step)
    BY <1>5 DEF checkCampaign
  <2>2. work'[w].at \in {"remaining", "skip", "fail", "send"}
    BY <1>1, <2>1
  <2>3. QED
    BY <1>5, <2>2 DEF checkCampaign, db
<1>6. CASE skipOptedOut(w)
  <2>1. work'[w].at = "remaining"
    BY <1>1, <1>6 DEF skipOptedOut, Marks
  <2>2. QED
    BY <1>3, <1>6, <2>1 DEF skipOptedOut, Marks, WriteRecipient, TypeInv, Tables
<1>7. CASE markFailed(w)
  <2>1. work'[w].at = "remaining"
    BY <1>1, <1>7 DEF markFailed, Marks
  <2>2. QED
    BY <1>3, <1>7, <2>1 DEF markFailed, Marks, WriteRecipient, TypeInv, Tables
<1>8. CASE markSent(w)
  <2>1. work'[w].at = IF rec[work[w].r] = "none" THEN "fail" ELSE "remaining"
    BY <1>1, <1>8 DEF markSent, Marks
  <2>2. QED
    BY <1>3, <1>8, <2>1 DEF markSent, Marks, WriteRecipient, TypeInv, Tables
<1>9. CASE sendMessage(w)
  <2>1. \/ work'[w].at = "sent" /\ sent' = [sent EXCEPT ![work[w].r] = @ + 1]
        \/ work'[w].at = "fail" /\ UNCHANGED sent
    BY <1>1, <1>9 DEF sendMessage
  <2>2. QED
    BY <1>3, <1>9, <2>1 DEF sendMessage, db, TypeInv
<1>10. CASE handleRecipientProcessed(w) \/ checkRunning(w) \/ complete(w)
  <2>1. work'[w].at \in {"idle", "check", "complete"}
    BY <1>1, <1>2, <1>10 DEF handleRecipientProcessed, checkRunning, complete
  <2>2. QED
    BY <1>10, <2>1 DEF handleRecipientProcessed, checkRunning, complete, db
<1>11. QED
  BY <1>4, <1>5, <1>6, <1>7, <1>8, <1>9, <1>10 DEF Work, workThrows

\* What a request or anybody else outside the calls does leaves the reports true.
LEMMA ReportedKept ==
    ASSUME TypeInv, Rows, Calls, Reported,
           \A r \in Recipients : RowMoves(r), UNCHANGED <<work, sent>>
    PROVE  Reported'
<1>1. ASSUME NEW r \in Recipients, Touched(r)
      PROVE  \/ rec'[r] = rec[r]
             \/ rec[r] = "SENDING" /\ rec'[r] = "CANCELLED"
             \/ rec'[r] = "none"
  <2>1. /\ rec[r] \notin Claimable
        /\ rec[r] = "none" => status[r[1]] = "deleted"
        /\ RowMoves(r)
    BY <1>1 DEF Rows
  <2>2. QED
    BY <2>1 DEF RowMoves, Claimable, ACTIVE_RECIPIENT_STATUSES, Launchable
<1>2. \A r \in Recipients : rec'[r] = "SENT" => rec[r] = "SENT"
  BY DEF RowMoves
<1>3. \A r \in Recipients : sent[r] > 0 => Touched(r)
  BY DEF Touched
<1>4. \A w \in Workers : work[w].at = "fail" => work[w].r \in Recipients /\ Touched(work[w].r)
  BY DEF Touched, Busy, Processing, TypeInv, GoodWork
<1>5. QED
  BY <1>1, <1>2, <1>3, <1>4 DEF Reported

\* A request's step, while no statement fails.
LEMMA CalmRequest ==
    ASSUME TypeInv, SoloParts, SetupAlone, ~DbFails, Cancelled, Reported, NEW q \in Requests,
           RequestBegins(q) \/ RequestGoesOn(q)
    PROVE  Cancelled' /\ Reported'
<1>1. CASE RequestBegins(q)
  <2>1. UNCHANGED <<status, rec, work, sent>>
    BY <1>1, RequestBegun DEF db
  <2>2. \A p \in Requests : req[p].at = "cancelRecipients" => req'[p] = req[p]
    <3>1. req[q].at = "idle"
      BY <1>1 DEF RequestBegins, updateReads, pauseReads, resumeReads, cancelReads,
         relaunchReads, removeReads, addRecipientsReads, launchReads, launchDueCampaigns,
         emergencyStopAll, BeginsSetup, Begins
    <3>2. \A p \in Requests : p # q => req'[p] = req[p]
      BY <1>1, RequestBegun DEF TypeInv
    <3>3. QED
      BY <3>1, <3>2
  <2>3. Cancelled'
    BY <2>1, <2>2 DEF Cancelled, Active, WithStatus
  <2>4. Reported'
    BY <2>1 DEF Reported
  <2>5. QED
    BY <2>3, <2>4
<1>2. CASE RequestGoesOn(q)
  <2>1. /\ req[q].at # "idle" /\ req[q] \in InHand /\ UNCHANGED <<work, sent>>
        /\ \A p \in Requests : p # q => req'[p] = req[p]
    BY <1>2, RequestStep DEF TypeInv
  <2>2. /\ \A r \in Recipients : RowMoves(r)
        /\ \A c \in Campaigns : StatusMoves(c)
    BY <1>2, RequestMoves DEF SoloParts
  <2>3. Reported'
    BY <2>1, <2>2, ReportedKept DEF SoloParts
  <2>4. ASSUME NEW c \in Campaigns, Launched(c), Active(c) = {}
        PROVE  Active(c)' = {}
    BY <2>2, <2>4, NoNewRows DEF Of, Active, WithStatus
  <2>5. ASSUME NEW c \in Campaigns, status'[c] = "CANCELLED"
        PROVE  Active(c)' = {} \/ \E p \in Requests : req'[p].at = "cancelRecipients" /\ req'[p].c = c
    <3>1. CASE status[c] # "CANCELLED"
      <4>1. cancel(q) /\ c = req[q].c /\ ~Gone(q)
        BY <1>2, <2>5, <3>1 DEF RequestGoesOn, update, addRecipientsContacts, addRecipients,
           launchCounts, launchSchedules, startRunningReads, startRunning,
           startRunningLists, enqueueMany, pause, resume, cancel, cancelRecipients,
           stopReads, stopFinds, relaunchRecipients, relaunchContacts, relaunchCreates,
           relaunch, remove, RequestThrows, Writes, Write, db, TypeInv, Tables
      <4>2. To(q, "cancelRecipients") /\ "cancelRecipients" \in ReqSteps
        BY <4>1 DEF cancel, ReqSteps
      <4>3. req'[q].at = "cancelRecipients" /\ req'[q].c = c
        BY <2>1, <4>1, <4>2, Next1
      <4>4. QED
        BY <4>3
    <3>2. CASE status[c] = "CANCELLED" /\ Active(c) = {}
      BY <2>4, <3>2 DEF Launched, Launchable
    <3>3. ASSUME status[c] = "CANCELLED", NEW p \in Requests,
                 req[p].at = "cancelRecipients", req[p].c = c
          PROVE  Active(c)' = {}
                   \/ (req'[p].at = "cancelRecipients" /\ req'[p].c = c)
      <4>1. CASE p # q
        BY <2>1, <3>3, <4>1
      <4>2. CASE p = q
        <5>1. cancelRecipients(q)
          BY <1>2, <3>3, <4>2 DEF RequestGoesOn, update, addRecipientsContacts,
             addRecipients, launchCounts, launchSchedules, startRunningReads, startRunning,
             startRunningLists, enqueueMany, pause, resume, cancel, stopReads, stopFinds,
             relaunchRecipients, relaunchContacts, relaunchCreates, relaunch, remove,
             RequestThrows, Writes, At
        <5>2. SetAll(Active(c), "CANCELLED")
          BY <3>3, <4>2, <5>1 DEF cancelRecipients
        <5>3. Active(c)' = {}
          BY <5>2 DEF SetAll, Active, WithStatus, Of, ACTIVE_RECIPIENT_STATUSES
        <5>4. QED
          BY <5>3
      <4>3. QED
        BY <4>1, <4>2
    <3>4. QED
      BY <3>1, <3>2, <3>3 DEF Cancelled
  <2>6. Cancelled'
    BY <2>5 DEF Cancelled
  <2>7. QED
    BY <2>3, <2>6
<1>3. QED
  BY <1>1, <1>2

\* A step of the tick.
LEMMA CalmTick ==
    ASSUME TypeInv, SoloParts, SetupAlone, Cancelled, Reported, Tick
    PROVE  Cancelled' /\ Reported'
<1>1. UNCHANGED <<status, req, sent>>
  BY TickAlone DEF SoloParts
<1>2. CASE UNCHANGED <<rec, work>>
  BY <1>1, <1>2 DEF Cancelled, Reported, Active, WithStatus
<1>3. ASSUME NEW w \in Workers, NEW r \in Recipients, Claims(w, r)
      PROVE  Cancelled' /\ Reported'
  <2>1. /\ ~Touched(r) /\ rec[r] \in Claimable /\ rec'[r] = "SENDING"
        /\ \A s \in Recipients : s # r => rec'[s] = rec[s]
    BY <1>3 DEF Claims, SoloParts, Rows, TypeInv, Tables
  <2>2. /\ work[w].at = "idle" /\ work'[w].at = "load"
        /\ \A v \in Workers : v # w => work'[v] = work[v]
    BY <1>3 DEF Claims, Idle, TypeInv
  <2>3. Cancelled'
    <3>1. ASSUME NEW c \in Campaigns, Active(c) = {} PROVE Active(c)' = {}
      BY <2>1, <3>1 DEF Active, WithStatus, Of, Claimable, ACTIVE_RECIPIENT_STATUSES
    <3>2. QED
      BY <1>1, <3>1 DEF Cancelled
  <2>4. Reported'
    <3>1. ~(sent[r] > 0)
      BY <2>1 DEF Touched
    <3>2. \A v \in Workers : work[v].at \in {"sent", "fail"} =>
              v # w /\ work[v].r # r /\ work[v].r \in Recipients
      BY <2>1, <2>2 DEF Touched, Busy, Processing, TypeInv, GoodWork
    <3>3. \A v \in Workers : work'[v].at \in {"sent", "fail"} => v # w
      BY <2>2
    <3>4. \A s \in Recipients : rec'[s] = "SENT" => sent'[s] = 1
      BY <1>1, <2>1 DEF Reported
    <3>5. ASSUME NEW s \in Recipients, sent'[s] > 0, rec'[s] \notin {"SENT", "none"}
          PROVE  \E v \in Workers : work'[v].at = "sent" /\ work'[v].r = s
      <4>1. s # r /\ sent[s] > 0 /\ rec[s] \notin {"SENT", "none"}
        BY <1>1, <2>1, <3>1, <3>5
      <4>2. PICK v \in Workers : work[v].at = "sent" /\ work[v].r = s
        BY <4>1 DEF Reported
      <4>3. QED
        BY <2>2, <3>2, <4>2
    <3>6. \A v \in Workers :
            /\ work'[v].at = "sent" => sent'[work'[v].r] = 1
            /\ work'[v].at = "fail" => sent'[work'[v].r] = 0 \/ rec'[work'[v].r] = "none"
      BY <1>1, <2>1, <2>2, <3>2, <3>3 DEF Reported
    <3>7. QED
      BY <3>4, <3>5, <3>6 DEF Reported
  <2>5. QED
    BY <2>3, <2>4
<1>4. QED
  BY <1>2, <1>3, TickClaimsOne

\* A step of a call.
LEMMA CalmWork ==
    ASSUME TypeInv, SoloParts, ~DbFails, Cancelled, Reported, NEW w \in Workers, Work(w)
    PROVE  Cancelled' /\ Reported'
<1> DEFINE r == work[w].r
<1>1. CallGoes(w) /\ CallWrites(w) /\ UNCHANGED <<req, tick>>
  BY CallSteps DEF SoloParts
<1>2. CallReports(w)
  BY CallReportsStep
<1>3. /\ r \in Recipients /\ sent[r] \in Nat
      /\ work[w].at \in {"send", "gate", "skip"} => sent[r] = 0
      /\ work[w].at \in Processing => rec[r] # "SENT"
      /\ \A v \in Workers : v # w /\ work[w].at \in Processing /\ work[v].at \in Processing
            => work[v].r # r /\ work[v].r \in Recipients
  BY <1>1 DEF SoloParts, Calls, CallGoes, PreSend, Busy, TypeInv, GoodWork, Processing
<1>4. Cancelled'
  <2>1. ASSUME NEW c \in Campaigns, Active(c) = {} PROVE Active(c)' = {}
    BY <1>1, <2>1 DEF CallWrites, Active, WithStatus, Of, ACTIVE_RECIPIENT_STATUSES
  <2>2. \A c \in Campaigns : status'[c] = "CANCELLED" => status[c] = "CANCELLED"
    BY <1>1 DEF CallWrites
  <2>3. QED
    BY <1>1, <2>1, <2>2 DEF Cancelled
<1>5. /\ \A v \in Workers : v # w => work'[v] = work[v]
      /\ \A s \in Recipients : s # r => rec'[s] = rec[s] /\ sent'[s] = sent[s]
      /\ work'[w].at # "idle" => work'[w].r = r
  BY <1>1 DEF CallGoes, CallWrites
<1>6. rec'[r] = "SENT" => sent'[r] = 1
  <2>1. CASE rec[r] = "SENT"
    BY <1>1, <1>2, <1>3, <2>1 DEF CallReports, Reported, CallWrites, Processing
  <2>2. CASE work[w].at = "sent"
    BY <1>1, <1>2, <1>3, <2>2 DEF CallReports, Reported, CallWrites
  <2>3. QED
    BY <1>2, <2>1, <2>2 DEF CallReports
<1>7. ASSUME NEW s \in Recipients, sent'[s] > 0, rec'[s] \notin {"SENT", "none"}
      PROVE  \E v \in Workers : work'[v].at = "sent" /\ work'[v].r = s
  <2>1. CASE s = r /\ work'[w].at = "sent"
    BY <1>5, <2>1
  <2>2. CASE ~(s = r /\ work'[w].at = "sent")
    <3>1. sent[s] > 0
      BY <1>2, <1>5, <1>7, <2>2 DEF CallReports
    <3>2. rec'[s] = rec[s]
      <4>1. CASE s # r
        BY <1>5, <4>1
      <4>2. CASE s = r
        <5>1. work[w].at # "skip" /\ (work[w].at = "fail" => rec[r] = "none")
          BY <1>3, <3>1, <4>2 DEF Reported
        <5>2. work[w].at # "sent" \/ UNCHANGED rec
          BY <1>2, <1>7, <4>2 DEF CallReports
        <5>3. QED
          BY <1>1, <1>2, <4>2, <5>1, <5>2 DEF CallReports, CallWrites
      <4>3. QED
        BY <4>1, <4>2
    <3>3. PICK v \in Workers : work[v].at = "sent" /\ work[v].r = s
      BY <1>7, <3>1, <3>2 DEF Reported
    <3>4. v # w
      BY <1>2, <1>7, <3>2, <3>3 DEF CallReports
    <3>5. QED
      BY <1>5, <3>3, <3>4
  <2>3. QED
    BY <2>1, <2>2
<1>8. ASSUME NEW v \in Workers, work'[v].at \in {"sent", "fail"}
      PROVE  /\ work'[v].at = "sent" => sent'[work'[v].r] = 1
             /\ work'[v].at = "fail" => sent'[work'[v].r] = 0 \/ rec'[work'[v].r] = "none"
  <2>1. CASE v = w
    <3>1. CASE work'[w].at = "sent"
      BY <1>2, <1>3, <1>5, <2>1, <3>1 DEF CallReports
    <3>2. CASE work'[w].at = "fail"
      <4>1. work'[w].r = r /\ UNCHANGED sent
        BY <1>2, <1>5, <3>2 DEF CallReports
      <4>2. CASE work[w].at = "sent" /\ rec[r] = "none"
        BY <1>2, <2>1, <3>2, <4>1, <4>2 DEF CallReports
      <4>3. CASE work[w].at \in {"send", "gate"}
        BY <1>3, <2>1, <3>2, <4>1, <4>3
      <4>4. QED
        BY <1>2, <3>2, <4>2, <4>3 DEF CallReports
    <3>3. QED
      BY <1>8, <2>1, <3>1, <3>2
  <2>2. CASE v # w
    <3>1. work'[v] = work[v] /\ work[v].r \in Recipients
      BY <1>5, <1>8, <2>2 DEF TypeInv, GoodWork
    <3>2. /\ work[v].at = "sent" => sent[work[v].r] = 1
          /\ work[v].at = "fail" => sent[work[v].r] = 0 \/ rec[work[v].r] = "none"
      BY DEF Reported
    <3>3. sent'[work[v].r] = sent[work[v].r] /\ rec'[work[v].r] = rec[work[v].r]
      <4>1. CASE work[w].at \in Processing
        BY <1>3, <1>5, <1>8, <2>2, <3>1, <4>1 DEF Processing
      <4>2. CASE work[w].at \notin Processing
        BY <1>1, <3>1, <4>2 DEF CallWrites, Busy, Processing
      <4>3. QED
        BY <4>1, <4>2
    <3>4. QED
      BY <1>8, <3>1, <3>2, <3>3
  <2>3. QED
    BY <2>1, <2>2
<1>9. Reported'
  <2>1. \A s \in Recipients : rec'[s] = "SENT" => sent'[s] = 1
    BY <1>5, <1>6 DEF Reported
  <2>2. QED
    BY <1>7, <1>8, <2>1 DEF Reported
<1>10. QED
  BY <1>4, <1>9

\* While nothing fails and the process does not stop, what is reported is true.
CalmInv == SetupAlone /\ ~DbFails /\ ~Crashes => Cancelled /\ Reported

\* It holds at the start, ...
LEMMA CalmInit == Init => CalmInv
BY DEF Init, CalmInv, Cancelled, Reported, NoWork

\* ... and every step keeps it.
LEMMA CalmNext == IInv /\ SoloInv /\ CalmInv /\ [Next]_vars => CalmInv'
<1> SUFFICES ASSUME TypeInv, SoloParts, SetupAlone, ~DbFails, ~Crashes, Cancelled, Reported,
                    [Next]_vars
             PROVE  Cancelled' /\ Reported'
  BY DEF CalmInv, IInv, SoloInv
<1>1. CASE (\E c \in Campaigns : create(c) \/ DueDate(c)) \/ Surroundings \/ Clock
               \/ UNCHANGED vars
  <2>1. UNCHANGED <<rec, req, tick, work, sent>>
    BY <1>1 DEF create, DueDate, Surroundings, Clock, vars, db
  <2>2. \A c \in Campaigns : status'[c] = "CANCELLED" => status[c] = "CANCELLED"
    BY <1>1 DEF create, DueDate, Surroundings, Clock, vars, db, TypeInv, Tables
  <2>3. Cancelled'
    BY <2>1, <2>2 DEF Cancelled, Active, WithStatus
  <2>4. Reported'
    BY <2>1 DEF Reported
  <2>5. QED
    BY <2>3, <2>4
<1>2. QED
  BY <1>1, CalmRequest, CalmTick, CalmWork DEF Next, Crash

\* A campaign that is over and that no request is at work on has no active recipient, when
\* it was set up alone, no statement fails and the process does not stop.
THEOREM OverMeansOverCorrect == Spec => [](SetupAlone /\ ~DbFails /\ ~Crashes => OverMeansOver)
<1>1. SoloInv /\ CalmInv => (SetupAlone /\ ~DbFails /\ ~Crashes => OverMeansOver)
  BY DEF SoloInv, SoloParts, CalmInv, Cancelled, Ended, OverMeansOver, Settled
<1>2. QED
  BY <1>1, InvInit, InvNext, SoloInit, SoloNext, CalmInit, CalmNext, PTL DEF Spec

\* What the report says of a recipient nobody works on is what happened, however cancels,
\* pauses and deletes hit the calls.
THEOREM ReportIsTruthfulCorrect == Spec => [](SetupAlone /\ ~Crashes => ReportIsTruthful)
<1>1. IInv /\ SoloInv /\ CalmInv => (SetupAlone /\ ~Crashes => ReportIsTruthful)
  <2> SUFFICES ASSUME TypeInv, SentOnce, Reported, NEW r \in Recipients, AtRest(r),
                      rec[r] # "none"
               PROVE  sent[r] = IF rec[r] = "SENT" THEN 1 ELSE 0
    BY DEF IInv, SoloInv, SoloParts, CalmInv, ReportIsTruthful
  <2>1. sent[r] \in Nat /\ sent[r] <= 1
    BY DEF TypeInv, SentOnce
  <2>2. rec[r] # "SENT" => ~(sent[r] > 0)
    BY DEF Reported, AtRest, Processing
  <2>3. QED
    BY <2>1, <2>2 DEF Reported
<1>2. QED
  BY <1>1, InvInit, InvNext, SoloInit, SoloNext, CalmInit, CalmNext, PTL DEF Spec

--------------------------------------------------------------------------------
(* Completed campaigns: set up alone, with or without resume.               *)

Stopped == {"CANCELLED", "PAUSED", "deleted"}

\* A row is taken from its call in a campaign that has been stopped, and a campaign that is
\* completed, or about to be, has no call at work.
Frozen ==
    /\ \A q \in Requests : req[q].at # "resume"
    /\ \A q \in Requests : req[q].at = "cancelRecipients" =>
        status[req[q].c] \in Stopped \union {"COMPLETED"}
    /\ \A w \in Workers : Busy(w) /\ rec[work[w].r] # "SENDING" =>
        status[work[w].r[1]] \in Stopped
    /\ \A w \in Workers : work[w].at = "complete" => InFlight(work[w].r[1]) = {}
    /\ \A c \in Campaigns : status[c] = "COMPLETED" => InFlight(c) = {}

\* Without resume a request only stops a campaign that has been launched.
OnlyStops(c) ==
    \/ status'[c] = status[c] /\ status'[c] # "none"
    \/ ~Launched(c) /\ status'[c] # "COMPLETED"
    \/ status'[c] \in Stopped

\* Every step of a request that goes on does so.
LEMMA RequestStops ==
    ASSUME TypeInv, Frozen, NEW q \in Requests, RequestGoesOn(q), SetsUp(q), NEW c \in Campaigns
    PROVE  OnlyStops(c)
<1>1. req[q].at # "idle" /\ req[q] \in InHand
  BY RequestStep
<1>2. req[q].c \in Campaigns /\ ~resume(q)
  BY <1>1 DEF InHand, resume, Writes, At, Frozen
<1> USE DEF OnlyStops, Launched
<1>3. CASE UNCHANGED status
  BY <1>3
<1>4. ASSUME NEW v \in Stopped, Write(q, v) PROVE OnlyStops(c)
  BY <1>2, <1>4 DEF Write, Gone, TypeInv, Tables
<1>5. CASE pause(q) \/ cancel(q) \/ remove(q)
  BY <1>4, <1>5 DEF pause, cancel, remove, Writes, Stopped
<1>6. CASE startRunning(q) \/ launchSchedules(q)
  <2>1. status[req[q].c] \in Launchable
    BY <1>6 DEF startRunning, launchSchedules, Writes, At, SetsUp, Filling
  <2>2. Write(q, "RUNNING") \/ Write(q, "SCHEDULED")
    BY <1>6 DEF startRunning, launchSchedules, Writes
  <2>3. QED
    BY <1>2, <2>1, <2>2 DEF Write, TypeInv, Tables
<1>7. ASSUME NEW d \in Campaigns, relaunchCreates(q, d) PROVE OnlyStops(c)
  BY <1>7 DEF relaunchCreates, TypeInv, Tables
<1>8. QED
  BY <1>2, <1>3, <1>5, <1>6, <1>7 DEF RequestGoesOn, update, addRecipientsContacts, addRecipients,
     launchCounts, startRunningReads, startRunningLists, enqueueMany, cancelRecipients, stopReads,
     stopFinds, relaunchRecipients, relaunchContacts, relaunch, RequestThrows, db

\* A row a call is at work on is only taken by cancel and remove.
LEMMA RequestTakes ==
    ASSUME TypeInv, Rows, NEW q \in Requests, RequestGoesOn(q), SetsUp(q),
           NEW r \in Recipients, rec[r] = "SENDING", rec'[r] # "SENDING"
    PROVE  \/ req[q].at = "cancelRecipients" /\ r[1] = req[q].c /\ UNCHANGED status
           \/ status'[r[1]] = "deleted"
<1>1. RowMoves(r)
  BY RequestMoves
<1>2. CASE rec'[r] = "none"
  BY <1>1, <1>2 DEF RowMoves, ACTIVE_RECIPIENT_STATUSES, Claimable
<1>3. CASE cancelRecipients(q)
  BY <1>3 DEF cancelRecipients, At, SetAll, Active, WithStatus, Of
<1>4. ASSUME NEW S \in SUBSET Recipients, SetAll(S, "QUEUED") PROVE rec'[r] \in {rec[r], "QUEUED"}
  BY <1>4 DEF SetAll
<1>5. CASE rec'[r] # "none" /\ ~cancelRecipients(q)
  <2>1. rec'[r] = "CANCELLED"
    BY <1>1, <1>5 DEF RowMoves, Claimable
  <2>2. UNCHANGED rec \/ CreateRecipients(q) \/ enqueueMany(q) \/ remove(q)
    BY <1>5 DEF RequestGoesOn, update, addRecipientsContacts, addRecipients, launchCounts,
       launchSchedules, startRunningReads, startRunning, startRunningLists, pause, resume, cancel,
       stopReads, stopFinds, relaunchRecipients, relaunchContacts, relaunchCreates, relaunch,
       RequestThrows, Writes, db
  <2>3. CASE enqueueMany(q)
    <3>1. PICK batch \in SUBSET req[q].rs : SetAll(batch, "QUEUED")
      BY <2>3 DEF enqueueMany, Firsts
    <3>2. QED
      BY <2>1, <3>1 DEF SetAll
  <2>4. CASE remove(q)
    BY <2>1, <2>4 DEF remove, SetAll
  <2>5. CASE CreateRecipients(q)
    BY <2>1, <2>5 DEF CreateRecipients
  <2>6. QED
    BY <2>1, <2>2, <2>3, <2>4, <2>5
<1>6. QED
  BY <1>2, <1>3, <1>5

\* A request comes to the recipients to cancel by writing CANCELLED, and to resume in no way.
LEMMA OnlyCancels ==
    ASSUME TypeInv, NEW q \in Requests, RequestGoesOn(q)
    PROVE  /\ req'[q].at # "resume"
           /\ req'[q].at = "cancelRecipients" => cancel(q) /\ ~Gone(q) /\ req'[q].c = req[q].c
<1> DEFINE Others == {"idle", "cancelRead", "cancelWrite", "cancelFind", "addWrite", "schedule",
                      "runRead", "runWrite", "runPending", "enqueue", "relaunchContacts",
                      "relaunchCreate", "relaunchWrite"}
<1>1. req[q] \in InHand /\ req[q] \in ReqType
  BY RequestStep DEF InHand
<1>2. {"cancelRecipients", "cancelFind", "cancelWrite", "addWrite", "schedule",
       "runRead", "runWrite", "runPending"} \subseteq ReqSteps
  BY DEF ReqSteps
<1>3. CASE req'[q].at \in Others
  BY <1>3
<1>4. ASSUME NEW step \in Others, NEW c, NEW rs, NEW skip,
             \/ Set(q, [req[q] EXCEPT !.at = step, !.skip = skip])
             \/ Set(q, [req[q] EXCEPT !.at = step, !.rs = rs, !.gap = 0])
             \/ Set(q, [req[q] EXCEPT !.at = step, !.rs = rs])
             \/ Set(q, [req[q] EXCEPT !.at = step, !.c = c, !.rs = rs])
             \/ Set(q, [NoReq EXCEPT !.at = step, !.c = c])
      PROVE  req'[q].at \in Others
  BY <1>1, <1>4 DEF Set, TypeInv, ReqType, NoReq
<1>5. CASE update(q) \/ pause(q) \/ resume(q) \/ remove(q) \/ launchSchedules(q)
             \/ addRecipients(q) \/ launchCounts(q) \/ startRunningReads(q) \/ startRunning(q)
             \/ cancelRecipients(q) \/ stopReads(q) \/ stopFinds(q) \/ RequestThrows(q)
  BY <1>1, <1>2, <1>5, Next1 DEF update, pause, resume, remove, launchSchedules, addRecipients,
     launchCounts, startRunningReads, startRunning, cancelRecipients, stopReads, stopFinds,
     RequestThrows, Writes
<1>6. CASE addRecipientsContacts(q)
  BY <1>4, <1>6 DEF addRecipientsContacts
<1>7. CASE startRunningLists(q)
  BY <1>1, <1>4, <1>7, Next1 DEF startRunningLists
<1>8. CASE relaunchRecipients(q) \/ relaunchContacts(q) \/ relaunch(q)
  <2>1. \/ Return(q)
        \/ \E rs : Set(q, [req[q] EXCEPT !.at = "relaunchContacts", !.rs = rs])
        \/ Set(q, [req[q] EXCEPT !.at = "relaunchCreate", !.skip = optedOut])
        \/ Set(q, [NoReq EXCEPT !.at = "runRead", !.c = req[q].c])
    BY <1>8 DEF relaunchRecipients, relaunchContacts, relaunch
  <2>2. QED
    BY <1>1, <1>4, <2>1, Next1
<1>9. ASSUME NEW d \in Campaigns, relaunchCreates(q, d) PROVE req'[q].at \in Others
  BY <1>4, <1>9 DEF relaunchCreates
<1>10. CASE enqueueMany(q)
  <2>1. req[q].at = "enqueue"
    BY <1>10 DEF enqueueMany, At
  <2>2. ASSUME NEW rs, NEW gap, Set(q, [req[q] EXCEPT !.rs = rs, !.gap = gap])
        PROVE  req'[q].at = "enqueue"
    BY <1>1, <2>1, <2>2 DEF Set, TypeInv, ReqType
  <2>3. QED
    BY <1>1, <1>10, <2>2, Next1 DEF enqueueMany
<1>11. CASE cancel(q)
  BY <1>1, <1>2, <1>11, Next1 DEF cancel
<1>12. QED
  BY <1>3, <1>5, <1>6, <1>7, <1>8, <1>9, <1>10, <1>11 DEF RequestGoesOn

\* A request's step, without resume.
LEMMA FrozenRequest ==
    ASSUME TypeInv, SoloParts, SetupAlone, "resume" \notin Ops, Frozen, NEW q \in Requests,
           RequestBegins(q) \/ RequestGoesOn(q)
    PROVE  Frozen'
<1>1. CASE RequestBegins(q)
  <2>1. UNCHANGED <<status, rec, work>> /\ \A p \in Requests : p # q => req'[p] = req[p]
    BY <1>1, RequestBegun DEF db, TypeInv
  <2>2. req'[q].at \notin {"resume", "cancelRecipients"}
    <3>1. ASSUME NEW S, NEW step, NEW c \in Campaigns, Reads(q, c, S, step)
          PROVE  req'[q].at = step
      BY <3>1 DEF Reads, Set, NoReq, TypeInv
    <3>2. CASE \E c \in Campaigns : updateReads(q, c) \/ pauseReads(q, c) \/ cancelReads(q, c)
                                   \/ relaunchReads(q, c) \/ removeReads(q, c)
      BY <3>1, <3>2 DEF updateReads, pauseReads, cancelReads, relaunchReads, removeReads
    <3>3. CASE emergencyStopAll(q) \/ launchDueCampaigns(q)
      BY <3>3 DEF emergencyStopAll, launchDueCampaigns, Set, NoReq, TypeInv
    <3>4. CASE \E c \in Campaigns : launchReads(q, c) \/ \E picks \in SUBSET Contacts :
                                                         addRecipientsReads(q, c, picks)
      BY <3>4 DEF launchReads, addRecipientsReads, Set, NoReq, TypeInv
    <3>5. \A c \in Campaigns : ~resumeReads(q, c)
      BY DEF resumeReads, Begins
    <3>6. QED
      BY <1>1, <3>2, <3>3, <3>4, <3>5 DEF RequestBegins
  <2>3. QED
    BY <2>1, <2>2 DEF Frozen, Busy, InFlight
<1>2. CASE RequestGoesOn(q)
  <2>1. /\ req[q] \in InHand /\ UNCHANGED work
        /\ \A p \in Requests : p # q => req'[p] = req[p]
    BY <1>2, RequestStep DEF TypeInv
  <2>2. \A c \in Campaigns : OnlyStops(c)
    BY <1>2, RequestStops DEF SoloParts
  <2>3. \A r \in Recipients : RowMoves(r)
    BY <1>2, RequestMoves DEF SoloParts
  <2>4. /\ req'[q].at # "resume"
        /\ req'[q].at = "cancelRecipients" => cancel(q) /\ ~Gone(q) /\ req'[q].c = req[q].c
    BY <1>2, OnlyCancels
  <2>5. ASSUME NEW p \in Requests, req'[p].at = "cancelRecipients"
        PROVE  status'[req'[p].c] \in Stopped \union {"COMPLETED"}
    <3>1. CASE p = q
      BY <2>1, <2>4, <2>5, <3>1 DEF cancel, Write, InHand, TypeInv, Tables, Stopped
    <3>2. CASE p # q
      <4>1. req'[p] = req[p] /\ status[req[p].c] \in Stopped \union {"COMPLETED"}
        BY <2>1, <2>5, <3>2 DEF Frozen
      <4>2. req[p].c \in Campaigns
        BY <2>1, <2>5, <3>2 DEF TypeInv, GoodReq, InHand, NoReq
      <4>3. QED
        BY <2>2, <4>1, <4>2 DEF OnlyStops, Launched, Launchable, Stopped
    <3>3. QED
      BY <3>1, <3>2
  <2>6. ASSUME NEW w \in Workers, Busy(w), rec'[work[w].r] # "SENDING"
        PROVE  status'[work[w].r[1]] \in Stopped
    <3> DEFINE r == work[w].r
    <3>1. r \in Recipients /\ r[1] \in Campaigns /\ w \in InFlight(r[1])
      BY <2>6, RowOf DEF TypeInv, GoodWork, Busy, Processing, InFlight
    <3>2. CASE rec[r] # "SENDING"
      <4>1. status[r[1]] \in Stopped
        BY <2>6, <3>2 DEF Frozen
      <4>2. QED
        BY <2>2, <3>1, <4>1 DEF OnlyStops, Launched, Launchable, Stopped
    <3>3. CASE rec[r] = "SENDING"
      <4>1. \/ req[q].at = "cancelRecipients" /\ r[1] = req[q].c /\ UNCHANGED status
            \/ status'[r[1]] = "deleted"
        BY <1>2, <2>6, <3>1, <3>3, RequestTakes DEF SoloParts
      <4>2. QED
        BY <3>1, <4>1 DEF Frozen, Stopped
    <3>4. QED
      BY <3>2, <3>3
  <2>7. ASSUME NEW c \in Campaigns, status'[c] = "COMPLETED" PROVE InFlight(c)' = {}
    BY <2>1, <2>2, <2>7 DEF OnlyStops, Stopped, Frozen, InFlight
  <2>8. \A p \in Requests : req'[p].at # "resume"
    BY <2>1, <2>4 DEF Frozen
  <2>9. QED
    BY <2>1, <2>5, <2>6, <2>7, <2>8 DEF Frozen, Busy, InFlight
<1>3. QED
  BY <1>1, <1>2

\* The tick claims no row of a campaign that is completed or about to be, and none that a
\* call is at work on.
LEMMA FrozenTick ==
    ASSUME TypeInv, SoloParts, SetupAlone, Frozen, Tick
    PROVE  Frozen'
<1>1. UNCHANGED <<status, req, sent>>
  BY TickAlone DEF SoloParts
<1>2. CASE UNCHANGED <<rec, work>>
  BY <1>1, <1>2 DEF Frozen, Busy, InFlight
<1>3. ASSUME NEW w \in Workers, NEW r \in Recipients, Claims(w, r)
      PROVE  Frozen'
  <2>1. /\ ~Touched(r) /\ rec'[r] = "SENDING" /\ r \in Active(r[1]) /\ r[1] \in Campaigns
        /\ \A s \in Recipients : s # r => rec'[s] = rec[s]
    BY <1>3, RowOf DEF Claims, SoloParts, Rows, TypeInv, Tables, Active, WithStatus, Claimable,
       ACTIVE_RECIPIENT_STATUSES
  <2>2. /\ work[w].at = "idle" /\ work'[w].at = "load" /\ work'[w].r = r
        /\ \A v \in Workers : v # w => work'[v] = work[v]
    BY <1>3 DEF Claims, Idle, TypeInv
  <2>3. ASSUME NEW c \in Campaigns, Active(c) = {} PROVE InFlight(c)' = InFlight(c)
    <3>1. r \notin Of(c) /\ w \notin InFlight(c)
      BY <2>1, <2>2, <2>3 DEF Of, InFlight, Processing
    <3>2. QED
      BY <2>2, <3>1 DEF InFlight, Of
  <2>4. ASSUME NEW v \in Workers, Busy(v)', rec'[work'[v].r] # "SENDING"
        PROVE  status[work'[v].r[1]] \in Stopped
    <3>1. v # w
      BY <2>1, <2>2, <2>4
    <3>2. work'[v] = work[v] /\ Busy(v) /\ work[v].r \in Recipients
      BY <2>2, <2>4, <3>1 DEF Busy, Processing, TypeInv, GoodWork
    <3>3. QED
      BY <2>1, <2>4, <3>2 DEF Touched, Frozen
  <2>5. ASSUME NEW v \in Workers, work'[v].at = "complete"
        PROVE  InFlight(work[v].r[1])' = {}
    <3>1. v # w
      BY <2>2, <2>5
    <3>2. work'[v] = work[v] /\ work[v].at = "complete" /\ work[v].r \in Recipients
      BY <2>2, <2>5, <3>1 DEF TypeInv, GoodWork
    <3>3. PICK c \in Campaigns : c = work[v].r[1]
      BY <3>2, RowOf
    <3>4. Active(c) = {} /\ InFlight(c) = {}
      BY <3>2, <3>3 DEF SoloParts, Ended, Frozen
    <3>5. InFlight(c)' = {}
      BY <2>3, <3>4
    <3>6. QED
      BY <3>2, <3>3, <3>5
  <2>6. \A c \in Campaigns : status[c] = "COMPLETED" => InFlight(c)' = {}
    BY <2>3 DEF SoloParts, Ended, Frozen
  <2>7. QED
    BY <1>1, <2>4, <2>5, <2>6 DEF Frozen
<1>4. QED
  BY <1>2, <1>3, TickClaimsOne

\* Only a call that has found the campaign RUNNING goes on to complete it.
LEMMA GoesTo ==
    ASSUME TypeInv, NEW w \in Workers, Work(w), work'[w].at = "complete"
    PROVE  checkRunning(w)
<1>1. ASSUME NEW step, WorkTo(w, step) PROVE work'[w].at = step
  BY <1>1 DEF WorkTo, TypeInv, GoodWork, WorkType
<1>2. ~WorkEnds(w)
  BY DEF WorkEnds, NoWork, TypeInv
<1>3. work[w].at # "complete"
  BY <1>2 DEF Work, doProcess, checkCampaign, skipOptedOut, sendMessage, markSent, markFailed,
     Marks, handleRecipientProcessed, checkRunning, complete, workThrows, Working
<1>4. ~doProcess(w)
  BY DEF doProcess, TypeInv
<1>5. ~checkCampaign(w) /\ ~sendMessage(w)
  BY <1>1 DEF checkCampaign, sendMessage
<1>6. ~skipOptedOut(w) /\ ~markSent(w) /\ ~markFailed(w)
  BY <1>1 DEF skipOptedOut, markSent, markFailed, Marks
<1>7. ~handleRecipientProcessed(w) /\ ~complete(w) /\ ~workThrows(w)
  BY <1>1, <1>2 DEF handleRecipientProcessed, complete, workThrows
<1>8. QED
  BY <1>4, <1>5, <1>6, <1>7 DEF Work

\* A call completes a campaign that was RUNNING when it found no active row: no call had lost
\* its row, so that none was at work.
LEMMA FrozenWork ==
    ASSUME TypeInv, SoloParts, Frozen, NEW w \in Workers, Work(w)
    PROVE  Frozen'
<1>1. CallGoes(w) /\ CallWrites(w) /\ UNCHANGED <<req, tick>>
  BY CallSteps DEF SoloParts
<1>2. ASSUME NEW v \in Workers, Busy(v)'
      PROVE  Busy(v) /\ work'[v].r = work[v].r /\ work[v].r \in Recipients
  BY <1>1, <1>2 DEF CallGoes, Busy, Processing, TypeInv, GoodWork
<1>3. \A c \in Campaigns : InFlight(c)' \subseteq InFlight(c)
  BY <1>2 DEF InFlight, Busy
<1>4. \A c \in Campaigns : status'[c] # status[c] =>
        c = work[w].r[1] /\ work[w].at = "complete" /\ status'[c] = "COMPLETED"
  BY <1>1 DEF CallWrites
<1>5. ASSUME NEW q \in Requests, req'[q].at = "cancelRecipients"
      PROVE  status'[req'[q].c] \in Stopped \union {"COMPLETED"}
  <2>1. req[q].c \in Campaigns /\ req'[q] = req[q]
    BY <1>1, <1>5 DEF TypeInv, GoodReq, InHand, NoReq
  <2>2. status[req[q].c] \in Stopped \union {"COMPLETED"}
    BY <1>5, <2>1 DEF Frozen
  <2>3. QED
    BY <1>4, <2>1, <2>2
<1>6. ASSUME NEW v \in Workers, Busy(v)', rec'[work'[v].r] # "SENDING"
      PROVE  status'[work'[v].r[1]] \in Stopped
  <2>1. PICK s \in Recipients : s = work[v].r
    BY <1>2, <1>6
  <2>2. PICK c \in Campaigns : c = s[1]
    BY RowOf
  <2>3. Busy(v) /\ work'[v].r = s /\ v \in InFlight(c)
    BY <1>2, <1>6, <2>1, <2>2, RowOf DEF InFlight, Busy
  <2>4. rec'[s] = rec[s]
    <3>1. CASE v = w
      BY <1>1, <1>6, <3>1 DEF CallWrites, Busy, Processing
    <3>2. CASE v # w
      BY <1>1, <2>1, <2>3, <3>2 DEF CallWrites, SoloParts, Calls
    <3>3. QED
      BY <3>1, <3>2
  <2>5. status[c] \in Stopped
    BY <1>6, <2>1, <2>2, <2>3, <2>4 DEF Frozen
  <2>6. status'[c] = status[c]
    BY <1>4, <2>2, <2>3 DEF Frozen
  <2>7. QED
    BY <2>2, <2>3, <2>5, <2>6
<1>7. ASSUME NEW v \in Workers, work'[v].at = "complete"
      PROVE  InFlight(work[v].r[1])' = {}
  <2>1. CASE work[v].at = "complete"
    <3>1. work'[v].r = work[v].r
      BY <1>1, <1>7 DEF CallGoes
    <3>2. PICK c \in Campaigns : c = work[v].r[1]
      BY <2>1, RowOf DEF TypeInv, GoodWork
    <3>3. QED
      BY <1>3, <2>1, <3>1, <3>2 DEF Frozen
  <2>2. CASE work[v].at # "complete"
    <3>1. v = w /\ work[w].r \in Recipients /\ work'[w].r = work[w].r
      BY <1>1, <1>7, <2>2 DEF CallGoes
    <3>2. PICK c \in Campaigns : c = work[w].r[1]
      BY <3>1, RowOf
    <3>3. status[c] = "RUNNING" /\ work[w].at = "check"
      <4>1. CASE checkRunning(w)
        BY <1>7, <3>1, <3>2, <4>1 DEF checkRunning, Working, CampaignOf, WorkEnds, NoWork, TypeInv
      <4>2. CASE ~checkRunning(w)
        BY <1>7, <2>2, <3>1, <4>2, GoesTo
      <4>3. QED
        BY <4>1, <4>2
    <3>4. Active(c) = {}
      BY <3>2, <3>3 DEF SoloParts, Ended
    <3>5. ASSUME NEW u \in InFlight(c) PROVE FALSE
      <4>1. Busy(u) /\ work[u].r \in Of(c) /\ work[u].r[1] = c
        BY <3>5 DEF InFlight, Busy, Of
      <4>2. rec[work[u].r] # "SENDING"
        BY <3>4, <4>1 DEF Active, WithStatus, ACTIVE_RECIPIENT_STATUSES
      <4>3. QED
        BY <3>3, <4>1, <4>2 DEF Frozen, Stopped, InFlight
    <3>6. QED
      BY <1>3, <3>1, <3>2, <3>5
  <2>3. QED
    BY <2>1, <2>2
<1>8. ASSUME NEW c \in Campaigns, status'[c] = "COMPLETED"
      PROVE  InFlight(c)' = {}
  BY <1>3, <1>4, <1>8 DEF Frozen
<1>9. QED
  BY <1>1, <1>5, <1>6, <1>7, <1>8 DEF Frozen

\* While campaigns are set up alone and none is resumed, a completed campaign is at rest.
FrozenInv == SetupAlone /\ "resume" \notin Ops => Frozen

\* It holds at the start, ...
LEMMA FrozenInit == Init => FrozenInv
BY DEF Init, FrozenInv, Frozen, NoReq, NoWork, Busy, Processing, InFlight

\* ... and every step keeps it.
LEMMA FrozenNext == IInv /\ SoloInv /\ FrozenInv /\ [Next]_vars => FrozenInv'
<1> SUFFICES ASSUME TypeInv, SoloParts, SetupAlone, "resume" \notin Ops, Frozen, [Next]_vars
             PROVE  Frozen'
  BY DEF FrozenInv, IInv, SoloInv
<1>1. CASE (\E c \in Campaigns : create(c) \/ DueDate(c)) \/ Surroundings \/ Clock
               \/ UNCHANGED vars
  <2>1. /\ UNCHANGED <<rec, req, tick, work, sent>>
        /\ \A c \in Campaigns :
             status'[c] = status[c] \/ (status[c] = "none" /\ status'[c] = "DRAFT")
    BY <1>1 DEF create, DueDate, Surroundings, Clock, vars, db, TypeInv, Tables
  <2>2. QED
    BY <2>1, RowOf DEF Frozen, Busy, InFlight, Stopped, TypeInv, GoodReq, InHand, NoReq, GoodWork,
       Processing
<1>2. CASE Crash
  BY <1>2 DEF Crash, db, NoReq, NoWork, Frozen, Busy, Processing, InFlight
<1>3. QED
  BY <1>1, <1>2, FrozenRequest, FrozenTick, FrozenWork DEF Next

\* The recipients of a completed campaign stay as they are until it is deleted, when
\* campaigns are set up alone, whatever fails or crashes; where users may resume, but for rows
\* that a cancel took from their calls.
THEOREM CompletedIsFrozenCorrect ==
    ASSUME SetupAlone
    PROVE  Spec => CompletedIsFrozen
<1> DEFINE Still == \A r \in Recipients : status[r[1]] = "COMPLETED" =>
                      \/ rec'[r] \in {rec[r], "none"}
                      \/ "resume" \in Ops /\ rec[r] = "CANCELLED"
<1>1. ASSUME IInv, SoloInv, FrozenInv, [Next]_vars PROVE [Still]_vars
  <2> SUFFICES ASSUME TypeInv, SoloParts, Next, NEW r \in Recipients,
                      status[r[1]] = "COMPLETED",
                      "resume" \in Ops => rec[r] # "CANCELLED"
               PROVE  rec'[r] \in {rec[r], "none"}
    BY <1>1 DEF IInv, SoloInv
  <2>1. r[1] \in Campaigns /\ r \in Of(r[1])
    BY RowOf
  <2>2. rec[r] \notin ACTIVE_RECIPIENT_STATUSES /\ rec[r] \notin Claimable
    BY <2>1 DEF SoloParts, Ended, Active, WithStatus, ACTIVE_RECIPIENT_STATUSES, Claimable
  <2>3. CASE UNCHANGED rec
    BY <2>3
  <2>4. ASSUME NEW q \in Requests, RequestGoesOn(q) PROVE rec'[r] \in {rec[r], "none"}
    <3>1. RowMoves(r)
      BY <2>4, RequestMoves DEF SoloParts
    <3>2. QED
      BY <2>2, <3>1 DEF RowMoves, Launchable
  <2>5. CASE Tick
    <3>1. ASSUME NEW w \in Workers, NEW s \in Recipients, Claims(w, s) PROVE rec'[r] = rec[r]
      BY <2>2, <3>1 DEF Claims, TypeInv, Tables
    <3>2. QED
      BY <2>3, <2>5, <3>1, TickClaimsOne
  <2>6. ASSUME NEW w \in Workers, Work(w) PROVE rec'[r] \in {rec[r], "none"}
    <3>1. CallWrites(w)
      BY <2>6, CallSteps DEF SoloParts
    <3>2. CASE "resume" \in Ops
      <4>1. Busy(w) /\ work[w].r = r => rec[r] \in {"SENDING", "CANCELLED", "none"}
        BY DEF SoloParts, Calls
      <4>2. Busy(w) /\ work[w].r = r => rec[r] = "none"
        BY <2>2, <3>2, <4>1 DEF ACTIVE_RECIPIENT_STATUSES
      <4>3. QED
        BY <3>1, <4>2 DEF CallWrites
    <3>3. CASE "resume" \notin Ops
      <4>1. InFlight(r[1]) = {}
        BY <1>1, <2>1, <3>3 DEF FrozenInv, Frozen
      <4>2. QED
        BY <2>1, <3>1, <4>1 DEF CallWrites, InFlight, Busy
    <3>4. QED
      BY <3>2, <3>3
  <2>7. ASSUME NEW q \in Requests, RequestBegins(q) PROVE UNCHANGED rec
    BY <2>7, RequestBegun DEF db
  <2>8. CASE (\E c \in Campaigns : create(c) \/ DueDate(c)) \/ Surroundings \/ Clock \/ Crash
    BY <2>8 DEF create, DueDate, Surroundings, Clock, Crash, db
  <2>9. QED
    BY <2>3, <2>4, <2>5, <2>6, <2>7, <2>8 DEF Next
<1>2. QED
  BY <1>1, InvInit, InvNext, SoloInit, SoloNext, FrozenInit, FrozenNext, PTL
     DEF Spec, CompletedIsFrozen
================================================================================
