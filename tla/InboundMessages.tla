--------------------------- MODULE InboundMessages ---------------------------
(***************************************************************************)
(* What WhatsApp tells one account: inbound messages, processed by          *)
(* ConversationsService.processIncomingMessage one statement at a time and   *)
(* answered by the automations that match, and status reports, of the        *)
(* account's own messages and of those it received, processed by             *)
(* handleMessageStatusUpdate.  The provider starts a handler per event and   *)
(* awaits none, so handlers overlap.                                         *)
(*                                                                          *)
(* Two assumptions, fixed for a behaviour, say what a property depends on.   *)
(* apart: messages of one sender are handled one after the other, and so are *)
(* the reports on one message, in WhatsApp's order.  sound: no               *)
(* statement fails and the process does not restart.  The code enforces      *)
(* neither.                                                                  *)
(***************************************************************************)
EXTENDS Integers, FiniteSets

CONSTANTS
    In,             \* messages that people send to the account, by waMessageId
    Out,            \* messages of accounts of this platform, by waMessageId
    Phones,         \* senders
    From,           \* the sender of each message
    Media,          \* messages with a file
    Automations,
    Matching,       \* pairs of an automation and a message that has its keyword
    NoMessage,      \* the message of an idle handler
    Handlers,       \* inbound handlers that may be under way at once
    Modes,          \* the values of <<apart, sound>> to explore
    MaxDeliveries,  \* bound on the deliveries of each message
    MaxReports      \* bound on the updates of an INBOUND row that reports start

\* A message in both sets goes from one account of the platform to another: its INBOUND
\* and its OUTBOUND row have the same waMessageId.
ASSUME MessagesAssumption ==
    /\ From \in [In -> Phones] /\ NoMessage \notin In
    /\ Media \subseteq In /\ Matching \subseteq Automations \X In
    /\ Modes \subseteq BOOLEAN \X BOOLEAN

VARIABLES
    apart, sound,   \* the assumptions above
    contacts,       \* phone numbers with a contact
    convs,          \* senders with a conversation
    unread,         \* each conversation's unreadCount
    rows,           \* how many INBOUND Message rows each message has
    unseen,         \* messages whose row was written after the last markRead
    due,            \* listener runs that have yet to come to a matching automation
    replies,        \* how often each automation answered each message
    updates,        \* updates of each message's INBOUND row: each starts the automations
    pc, msg,        \* each inbound handler's step and message
    deliveries,     \* how often WhatsApp delivered each message
    out,            \* the status of each OUTBOUND row
    sending,        \* messages whose sendMessage call is under way
    ids,            \* OUTBOUND rows with their waMessageId
    wa,             \* what WhatsApp did with each message of Out
    acks            \* status handlers under way

inbox == <<contacts, convs, unread, rows, unseen>>
handlers == <<pc, msg, deliveries>>
answers == <<due, replies, updates>>
outbox == <<out, sending, ids, wa, acks>>
modes == <<apart, sound>>
vars == <<modes, inbox, handlers, outbox, answers>>

Level == [server |-> 1, delivered |-> 2, read |-> 3, rejected |-> 4]

\* Fault: the map is off by one.
AckStatusShifted ==
    [server |-> "DELIVERED", delivered |-> "DELIVERED", read |-> "READ", rejected |-> "FAILED"]

\* ACK_STATUS_MAP
AckStatus ==
    [server |-> "SENT", delivered |-> "DELIVERED", read |-> "READ", rejected |-> "FAILED"]

Sender(h) == From[msg[h]]
Busy(h) == pc[h] # "idle"
Goes(h, step) ==
    /\ pc' = [pc EXCEPT ![h] = step]
    /\ msg' = [msg EXCEPT ![h] = IF step = "idle" THEN NoMessage ELSE @]

Init ==
    /\ \E mode \in Modes : apart = mode[1] /\ sound = mode[2]
    /\ contacts = {} /\ convs = {}
    /\ unread = [p \in Phones |-> 0] /\ unseen = [p \in Phones |-> {}]
    /\ rows = [m \in In |-> 0] /\ updates = [m \in In |-> 0]
    /\ due = [j \in Matching |-> 0] /\ replies = [j \in Matching |-> 0]
    /\ pc = [h \in Handlers |-> "idle"] /\ msg = [h \in Handlers |-> NoMessage]
    /\ deliveries = [m \in In |-> 0]
    /\ out = [o \in Out |-> "PENDING"] /\ wa = [o \in Out |-> "accepted"]
    /\ sending = Out /\ ids = {} /\ acks = {}

-----------------------------------------------------------------------------
(* An inbound message. *)

\* messages.upsert: personal chats only.  The provider downloads the file, then emits.
Receive(h, m) ==
    /\ pc[h] = "idle" /\ deliveries[m] < MaxDeliveries[m]
    /\ m \in Out => wa[m] # "rejected"
    /\ apart => \A g \in Handlers : Busy(g) => Sender(g) # From[m]
    /\ deliveries' = [deliveries EXCEPT ![m] = @ + 1]
    /\ msg' = [msg EXCEPT ![h] = m]
    /\ pc' = [pc EXCEPT ![h] = IF m \in Media THEN "download" ELSE "dedupe"]
    /\ UNCHANGED <<modes, inbox, outbox, answers>>

\* A download that fails drops the message.
downloadIncomingMedia(h) ==
    /\ pc[h] = "download"
    /\ Goes(h, "dedupe") \/ (~sound /\ Goes(h, "idle"))
    /\ UNCHANGED <<modes, inbox, outbox, answers, deliveries>>

\* Fault: a redelivered message is not looked up.
noLookup(h) ==
    /\ pc[h] = "dedupe"
    /\ Goes(h, "contact")
    /\ UNCHANGED <<modes, inbox, outbox, answers, deliveries>>

\* The lookup by waMessageId within the account.
alreadyProcessed(h) ==
    /\ pc[h] = "dedupe"
    /\ Goes(h, IF rows[msg[h]] > 0 THEN "idle" ELSE "contact")
    /\ UNCHANGED <<modes, inbox, outbox, answers, deliveries>>

findContact(h) ==
    /\ pc[h] = "contact"
    /\ Goes(h, IF Sender(h) \in contacts THEN "conversation" ELSE "create contact")
    /\ UNCHANGED <<modes, inbox, outbox, answers, deliveries>>

\* (organizationId, phoneNumber) is unique: the second create throws and the message
\* goes with it.
createContact(h) ==
    /\ pc[h] = "create contact"
    /\ contacts' = contacts \union {Sender(h)}
    /\ Goes(h, IF Sender(h) \in contacts THEN "idle" ELSE "conversation")
    /\ UNCHANGED <<modes, outbox, answers, deliveries, convs, unread, rows, unseen>>

\* INBOX_MESSAGE_EVENT of an INBOUND row: handleMessage goes through every automation that
\* matches.
Emits(m) == due' = [j \in Matching |-> due[j] + IF j[2] = m THEN 1 ELSE 0]

Counted(h) ==
    /\ convs' = convs \union {Sender(h)}
    /\ unread' = [unread EXCEPT ![Sender(h)] = @ + 1]

\* The conversation's upsert counts the message before it has a row.  (It fails when
\* somebody else creates the row under it: handlerThrows.)
upsertConversation(h) ==
    /\ pc[h] = "conversation"
    /\ Counted(h)
    /\ Goes(h, "create")
    /\ UNCHANGED <<modes, outbox, answers, deliveries, contacts, rows, unseen>>

\* Fault: the message is counted with its row, and again.
createMessageCounting(h) ==
    /\ pc[h] = "create"
    /\ rows' = [rows EXCEPT ![msg[h]] = @ + 1]
    /\ unseen' = [unseen EXCEPT ![Sender(h)] = @ \union {msg[h]}]
    /\ Counted(h) /\ Emits(msg[h])
    /\ Goes(h, "idle")
    /\ UNCHANGED <<modes, outbox, replies, updates, deliveries, contacts>>

\* Fault: the row is left for later when the user has just opened the conversation.
createMessageUnlessRead(h) ==
    /\ pc[h] = "create"
    /\ IF unread[Sender(h)] = 0 THEN UNCHANGED <<rows, unseen, due>>
       ELSE /\ rows' = [rows EXCEPT ![msg[h]] = @ + 1]
            /\ unseen' = [unseen EXCEPT ![Sender(h)] = @ \union {msg[h]}]
            /\ Emits(msg[h])
    /\ Goes(h, "idle")
    /\ UNCHANGED <<modes, outbox, replies, updates, deliveries, contacts, convs, unread>>

\* The file is saved and the row written: message.create, and the event, which the handler
\* does not wait for.
createMessage(h) ==
    /\ pc[h] = "create"
    /\ rows' = [rows EXCEPT ![msg[h]] = @ + 1]
    /\ unseen' = [unseen EXCEPT ![Sender(h)] = @ \union {msg[h]}]
    /\ Emits(msg[h])
    /\ Goes(h, "idle")
    /\ UNCHANGED <<modes, outbox, replies, updates, deliveries, contacts, convs, unread>>

\* A statement fails.  Nobody catches it; nothing that was written is taken back.
handlerThrows(h) ==
    /\ ~sound /\ pc[h] \in {"dedupe", "contact", "create contact", "conversation", "create"}
    /\ Goes(h, "idle")
    /\ UNCHANGED <<modes, inbox, outbox, answers, deliveries>>

-----------------------------------------------------------------------------
(* Automations: AutomationsListenerService. *)

\* The loop comes to an automation, which renders its template and sends it; when that
\* fails, also because the automation is inactive by now, it is only logged.
runAction(j) ==
    /\ due[j] > 0
    /\ due' = [due EXCEPT ![j] = @ - 1]
    /\ \/ replies' = [replies EXCEPT ![j] = @ + 1]
       \/ UNCHANGED replies
    /\ UNCHANGED <<modes, inbox, handlers, outbox, updates>>

-----------------------------------------------------------------------------
(* The users of the inbox. *)

markRead(p) ==
    /\ p \in convs
    /\ unread' = [unread EXCEPT ![p] = 0]
    /\ unseen' = [unseen EXCEPT ![p] = {}]
    /\ UNCHANGED <<modes, handlers, outbox, answers, contacts, convs, rows>>

\* A conversation that exists already is returned as it is.
createConversation(p) ==
    /\ p \in contacts
    /\ convs' = convs \union {p}
    /\ UNCHANGED <<modes, handlers, outbox, answers, contacts, unread, rows, unseen>>

-----------------------------------------------------------------------------
(* The account's own messages, from the moment WhatsApp has accepted them, and reports. *)

OutUnchanged == UNCHANGED <<modes, inbox, handlers, replies>>

\* sendMessage's update: SENT and the id, in one statement.
Confirm(o) ==
    /\ o \in sending /\ sending' = sending \ {o}
    /\ out' = [out EXCEPT ![o] = "SENT"] /\ ids' = ids \union {o}
    /\ OutUnchanged /\ UNCHANGED <<wa, acks, due, updates>>

\* recordDebit or that update fails: the catch makes the row FAILED, without an id, unless it
\* fails too.
sendThrows(o) ==
    /\ ~sound /\ o \in sending /\ sending' = sending \ {o}
    /\ out' = [out EXCEPT ![o] = "FAILED"] \/ UNCHANGED out
    /\ OutUnchanged /\ UNCHANGED <<ids, wa, acks, due, updates>>

Handles(id, level, whose) ==
    acks' = acks \union {[id |-> id, level |-> level, whose |-> whose, step |-> "find"]}

\* WhatsApp goes on with the message and tells the account; messages.update.
Acknowledge(o, level) ==
    /\ \/ wa[o] = "accepted" /\ level \in {"server", "rejected"}
       \/ wa[o] = "server" /\ level = "delivered"
       \/ wa[o] = "delivered" /\ level = "read"
    /\ wa' = [wa EXCEPT ![o] = level]
    /\ Handles(o, level, "sent")
    /\ OutUnchanged /\ UNCHANGED <<out, sending, ids, due, updates>>

\* messages.update of a message the account received: its phone has read it.
Report(m) ==
    /\ deliveries[m] > 0 /\ updates[m] < MaxReports
    /\ m \in Out => wa[m] = "read"
    /\ Handles(m, "read", "received")
    /\ OutUnchanged /\ UNCHANGED <<out, sending, ids, wa, due, updates>>

\* findFirst by waMessageId, over the rows of every account and of both directions.
findMessage(a) ==
    /\ a.step = "find"
    /\ apart => \A b \in acks : b.id = a.id => Level[a.level] <= Level[b.level]
    /\ LET found == {s \in {"outbound", "inbound"} :
                        \/ s = "outbound" /\ a.id \in ids
                        \/ s = "inbound" /\ a.id \in In /\ rows[a.id] > 0}
       IN  \/ found = {} /\ acks' = acks \ {a}
           \/ \E s \in found : acks' = (acks \ {a}) \union {[a EXCEPT !.step = s]}
    /\ OutUnchanged /\ UNCHANGED <<out, sending, ids, wa, due, updates>>

\* The update of the row that was found, whatever it says by now.
updateStatus(a) ==
    /\ a.step = "outbound"
    /\ out' = [out EXCEPT ![a.id] = AckStatus[a.level]]
    /\ acks' = acks \ {a}
    /\ OutUnchanged /\ UNCHANGED <<sending, ids, wa, due, updates>>

\* The update of an INBOUND row; its event starts the automations.
updateInbound(a) ==
    /\ a.step = "inbound"
    /\ acks' = acks \ {a}
    /\ updates' = [updates EXCEPT ![a.id] = @ + 1] /\ Emits(a.id)
    /\ OutUnchanged /\ UNCHANGED <<out, sending, ids, wa>>

\* A statement of the handler fails: the report is lost.
updateThrows(a) ==
    /\ ~sound /\ acks' = acks \ {a}
    /\ OutUnchanged /\ UNCHANGED <<out, sending, ids, wa, due, updates>>

Restart ==
    /\ ~sound
    /\ pc' = [h \in Handlers |-> "idle"] /\ msg' = [h \in Handlers |-> NoMessage]
    /\ acks' = {} /\ sending' = {} /\ due' = [j \in Matching |-> 0]
    /\ UNCHANGED <<modes, inbox, replies, updates, deliveries, out, ids, wa>>

-----------------------------------------------------------------------------
Step(h) ==
    \/ downloadIncomingMedia(h) \/ alreadyProcessed(h) \/ findContact(h)
    \/ createContact(h) \/ upsertConversation(h) \/ createMessage(h)
    \/ handlerThrows(h)
AckStep == \E a \in acks :
    findMessage(a) \/ updateStatus(a) \/ updateInbound(a) \/ updateThrows(a)
SendStep(o) == Confirm(o) \/ sendThrows(o)

Next ==
    \/ \E h \in Handlers : Step(h) \/ \E m \in In : Receive(h, m)
    \/ \E p \in Phones : markRead(p) \/ createConversation(p)
    \/ \E j \in Matching : runAction(j)
    \/ \E o \in Out :
        SendStep(o) \/ \E level \in DOMAIN Level : Acknowledge(o, level)
    \/ \E m \in In : Report(m)
    \/ AckStep \/ Restart

\* Every statement of an inbound handler settles; WhatsApp has to deliver and report nothing.
Fairness == \A h \in Handlers : WF_vars(Step(h))

Spec == Init /\ [][Next]_vars /\ Fairness
-----------------------------------------------------------------------------
(* Properties *)

\* Every table and every handler's local has the shape the code gives it.
TypeOK ==
    /\ apart \in BOOLEAN /\ sound \in BOOLEAN
    /\ contacts \in SUBSET Phones /\ convs \in SUBSET contacts
    /\ unread \in [Phones -> Nat] /\ unseen \in [Phones -> SUBSET In]
    /\ rows \in [In -> Nat] /\ updates \in [In -> Nat]
    /\ due \in [Matching -> Nat] /\ replies \in [Matching -> Nat]
    /\ pc \in [Handlers -> {"idle", "download", "dedupe", "contact", "create contact",
                            "conversation", "create"}]
    /\ msg \in [Handlers -> In \union {NoMessage}] /\ deliveries \in [In -> Nat]
    /\ out \in [Out -> {"PENDING", "SENT", "DELIVERED", "READ", "FAILED"}]
    /\ wa \in [Out -> {"accepted"} \union DOMAIN Level]
    /\ sending \in SUBSET Out /\ ids \in SUBSET Out
    /\ acks \in SUBSET [id : In \union Out, level : DOMAIN Level, whose : {"sent", "received"},
                        step : {"find", "outbound", "inbound"}]

\* A message that WhatsApp redelivers, also after a failure or a restart, has one row
\* (the idempotency guard of processIncomingMessage), while deliveries do not overlap.
ReceivedOnce == apart => \A m \in In : rows[m] <= 1

\* The unread count only grows for a message the user does not have yet (the guard's
\* comment), whatever fails.
RedeliveryIsSilent ==
    [][\A p \in Phones : apart /\ unread'[p] > unread[p] =>
        \E h \in Handlers : Busy(h) /\ Sender(h) = p /\ rows[msg[h]] = 0]_vars

\* While nothing fails and deliveries do not overlap, the unread count never exceeds the
\* messages the user has not seen and those being written, wherever a markRead falls.
NotCountedTwice ==
    apart /\ sound => \A p \in Phones :
        unread[p] <= Cardinality(unseen[p] \union
            {msg[h] : h \in {g \in Handlers : pc[g] = "create" /\ Sender(g) = p}})

\* While deliveries do not overlap, each automation answers a message once, and once more for
\* every report that found the INBOUND row (its update emits the message again), however
\* often the message is delivered.
OneReply == apart => \A j \in Matching : replies[j] <= 1 + updates[j[2]]

\* What an OUTBOUND row says of a message has happened to it, in whatever order the reports
\* are handled and whichever row each one finds; only a row whose own send threw after
\* WhatsApp had accepted the message says FAILED of one that went out, and it has no id.
StatusIsWitnessed ==
    \A o \in Out :
        /\ out[o] = "READ" => wa[o] = "read"
        /\ out[o] = "DELIVERED" => wa[o] \in {"delivered", "read"}
        /\ out[o] = "FAILED" => wa[o] = "rejected" \/ (~sound /\ o \notin ids)

Rank == [PENDING |-> 0, SENT |-> 1, DELIVERED |-> 2, READ |-> 3, FAILED |-> 4]

\* "progresses (sent -> server-ack -> delivered -> read)" (InboxPage): while the
\* reports on a message are handled in order, its status never goes back.
StatusNeverRetreats ==
    [][\A o \in Out : apart => Rank[out'[o]] >= Rank[out[o]]]_vars

\* While nothing fails and messages of one sender do not overlap, a message that was
\* delivered gets its row: no first contact, conversation or file loses it.
MessageLands ==
    \A m \in In : (apart /\ sound /\ deliveries[m] > 0) ~> rows[m] > 0

\* While deliveries of one sender do not overlap, a message has one row and starts each
\* automation once, and once per report on it, whatever is still being processed when the
\* process stops.
InboxInv == TypeOK /\ ReceivedOnce /\ OneReply

\* While deliveries of one sender and reports on one message are handled one after the other,
\* none undoes what the inbox showed: no message is counted as unread again, no status goes
\* back.
NothingGoesBack == RedeliveryIsSilent /\ StatusNeverRetreats
=============================================================================
