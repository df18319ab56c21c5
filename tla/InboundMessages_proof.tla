------------------------ MODULE InboundMessages_proof ------------------------
(***************************************************************************)
(* For any messages, senders, handlers and deliveries: while the deliveries *)
(* of one sender do not overlap, a message has one row and is answered once  *)
(* by each automation and once more per report on it, whatever fails and     *)
(* whenever the process restarts, and is counted once while nothing fails;   *)
(* a status is one WhatsApp has reported or comes of a send that threw, and  *)
(* does not go back while the reports on a message are handled in order.     *)
(***************************************************************************)
EXTENDS InboundMessages, FiniteSetTheorems, TLAPS

USE MessagesAssumption

Steps == {"idle", "download", "dedupe", "contact", "create contact", "conversation",
          "create"}
Statuses == {"PENDING", "SENT", "DELIVERED", "READ", "FAILED"}
Levels == {"server", "delivered", "read", "rejected"}
AckRecords == [id : In \union Out, level : Levels, whose : {"sent", "received"},
               step : {"find", "outbound", "inbound"}]

\* The inbox' tables and the handlers' locals.
InboxTables ==
    /\ apart \in BOOLEAN /\ sound \in BOOLEAN
    /\ contacts \in SUBSET Phones /\ convs \in SUBSET contacts
    /\ unread \in [Phones -> Nat] /\ unseen \in [Phones -> SUBSET In]
    /\ rows \in [In -> Nat]
    /\ pc \in [Handlers -> Steps] /\ msg \in [Handlers -> In \union {NoMessage}]
    /\ deliveries \in [In -> Nat]

\* A handler has a message until it is done, and a contact when it wants a conversation;
\* what the user has not seen has a row.
InboxKnows ==
    /\ \A h \in Handlers :
        /\ pc[h] # "idle" => msg[h] \in In
        /\ pc[h] = "conversation" => Sender(h) \in contacts
    /\ \A p \in Phones : IsFiniteSet(unseen[p]) /\ \A m \in unseen[p] : rows[m] > 0

\* One handler at a time works on a sender's messages, and the message it is about to
\* create has no row.
OneBusy == \A g, h \in Handlers : Busy(g) /\ Busy(h) /\ Sender(g) = Sender(h) => g = h
Creating(h) == pc[h] \in {"contact", "create contact", "conversation", "create"}
Once ==
    /\ \A h \in Handlers : Creating(h) => rows[msg[h]] = 0
    /\ \A m \in In : rows[m] <= 1

\* A run of the listener follows the row's creation or an update of it.
AnswersIInv ==
    /\ due \in [Matching -> Nat] /\ replies \in [Matching -> Nat] /\ updates \in [In -> Nat]
    /\ \A j \in Matching : due[j] + replies[j] <= rows[j[2]] + updates[j[2]]

\* Messages of a sender that are counted and have no row yet.
BeingWritten(p) == {msg[h] : h \in {g \in Handlers : pc[g] = "create" /\ Sender(g) = p}}
CountedOnce ==
    \A p \in Phones : unread[p] <= Cardinality(unseen[p] \union BeingWritten(p))

\* The inductive invariant of the inbox.
InboxIInv ==
    /\ InboxTables /\ InboxKnows
    /\ apart => OneBusy /\ Once
    /\ apart /\ sound => CountedOnce

\* The rest of the type invariant: rows and reports.  A row whose send is under way is PENDING
\* and has no id; without a failure, no other row is without one.
OutboxTables ==
    /\ apart \in BOOLEAN /\ sound \in BOOLEAN
    /\ out \in [Out -> Statuses] /\ wa \in [Out -> {"accepted"} \union Levels]
    /\ sending \in SUBSET Out /\ ids \in SUBSET Out
    /\ acks \in SUBSET AckRecords
    /\ \A o \in sending : out[o] = "PENDING" /\ o \notin ids
    /\ \A a \in acks :
        /\ a.step = "outbound" => a.id \in ids
        /\ a.step = "inbound" => a.id \in In

\* What is acknowledged has happened to the message.
Happened(o, level) ==
    \/ wa[o] = level
    \/ level = "server" /\ wa[o] \in {"delivered", "read"}
    \/ level = "delivered" /\ wa[o] = "read"
Witnessed ==
    /\ \A a \in acks : a.id \in Out => Happened(a.id, a.level)
    /\ StatusIsWitnessed

\* The report whose row has been found is the earliest on its message, and none of them is
\* behind the row.
InOrder == \A a \in acks : a.id \in Out =>
    /\ a.id \in ids => Rank[out[a.id]] <= Level[a.level]
    /\ a.step # "find" => \A b \in acks : b.id = a.id => Level[a.level] <= Level[b.level]

\* The inductive invariant of the acknowledgements.
OutboxIInv == OutboxTables /\ Witnessed /\ (apart => InOrder)

\* What a delivery starts, and an action of the users.
Delivered(h) == \E m \in In : Receive(h, m)
UserActs == \E p \in Phones : markRead(p) \/ createConversation(p)

-----------------------------------------------------------------------------
(* The inbox: types *)

LEMMA InboxInit == Init => InboxIInv
<1> SUFFICES ASSUME Init PROVE InboxIInv
  OBVIOUS
<1>1. InboxTables
  <2>1. PICK mode \in Modes : apart = mode[1] /\ sound = mode[2]
    BY DEF Init
  <2>2. mode \in BOOLEAN \X BOOLEAN
    OBVIOUS
  <2> QED BY <2>1, <2>2 DEF Init, InboxTables, Steps
<1>2. \A p \in Phones : IsFiniteSet(unseen[p]) /\ unseen[p] = {}
  BY FS_EmptySet DEF Init
<1>3. InboxKnows
  BY <1>2 DEF Init, InboxKnows
<1>4. OneBusy /\ Once
  BY DEF Init, OneBusy, Once, Busy, Creating
<1>5. CountedOnce
  <2> SUFFICES ASSUME NEW p \in Phones
               PROVE  unread[p] <= Cardinality(unseen[p] \union BeingWritten(p))
    BY DEF CountedOnce
  <2>1. BeingWritten(p) = {}
    BY DEF Init, BeingWritten
  <2> QED BY <1>2, <2>1, FS_EmptySet DEF Init
<1> QED BY <1>1, <1>3, <1>4, <1>5 DEF InboxIInv

\* A step of a handler is of its own locals.
LEMMA StepLocal ==
  ASSUME InboxTables, InboxKnows, NEW h \in Handlers, Step(h)
  PROVE  /\ pc[h] # "idle" /\ msg[h] \in In /\ UNCHANGED <<modes, outbox, deliveries>>
         /\ pc' \in [Handlers -> Steps] /\ msg' \in [Handlers -> In \union {NoMessage}]
         /\ pc'[h] # "idle" => msg'[h] = msg[h]
         /\ \A g \in Handlers : g # h => pc'[g] = pc[g] /\ msg'[g] = msg[g]
<1>1. pc[h] # "idle" /\ UNCHANGED <<modes, outbox, deliveries>>
  BY DEF Step, downloadIncomingMedia, alreadyProcessed, findContact, createContact,
         upsertConversation, createMessage, handlerThrows
<1>2. \E step \in Steps : Goes(h, step)
  BY DEF Step, downloadIncomingMedia, alreadyProcessed, findContact, createContact,
         upsertConversation, createMessage, handlerThrows, Steps
<1> QED BY <1>1, <1>2 DEF Goes, InboxTables, InboxKnows

LEMMA StepTables ==
  ASSUME InboxTables, InboxKnows, NEW h \in Handlers, Step(h)
  PROVE  InboxTables' /\ InboxKnows'
<1>1. /\ pc[h] # "idle" /\ msg[h] \in In /\ UNCHANGED <<modes, deliveries>>
      /\ pc' \in [Handlers -> Steps] /\ msg' \in [Handlers -> In \union {NoMessage}]
      /\ pc'[h] # "idle" => msg'[h] = msg[h]
      /\ \A g \in Handlers : g # h => pc'[g] = pc[g] /\ msg'[g] = msg[g]
  BY StepLocal
<1>2. Sender(h) \in Phones
  BY <1>1 DEF Sender
<1>3. CASE UNCHANGED inbox /\ pc'[h] # "conversation"
  BY <1>1, <1>3 DEF InboxTables, InboxKnows, inbox, modes, Sender
<1>4. CASE findContact(h)
  <2>1. pc'[h] = "conversation" => Sender(h) \in contacts
    BY <1>4 DEF findContact, Goes, InboxTables
  <2> QED BY <1>1, <1>4, <2>1 DEF findContact, InboxTables, InboxKnows, inbox, modes, Sender
<1>5. CASE createContact(h)
  <2>1. contacts' = contacts \union {Sender(h)} /\ UNCHANGED <<convs, unread, rows, unseen>>
    BY <1>5 DEF createContact
  <2> QED BY <1>1, <1>2, <2>1 DEF InboxTables, InboxKnows, modes, Sender
<1>6. CASE upsertConversation(h)
  <2>1. /\ convs' = convs \union {Sender(h)} /\ unread' = [unread EXCEPT ![Sender(h)] = @ + 1]
        /\ UNCHANGED <<contacts, rows, unseen>>
        /\ Sender(h) \in contacts /\ pc'[h] = "create"
    BY <1>6 DEF upsertConversation, Counted, Goes, InboxKnows, InboxTables
  <2> QED BY <1>1, <1>2, <2>1 DEF InboxTables, InboxKnows, modes, Sender
<1>7. CASE createMessage(h)
  <2>1. /\ rows' = [rows EXCEPT ![msg[h]] = @ + 1]
        /\ unseen' = [unseen EXCEPT ![Sender(h)] = @ \union {msg[h]}]
        /\ UNCHANGED <<contacts, convs, unread>> /\ pc'[h] = "idle"
    BY <1>7 DEF createMessage, Goes, InboxTables
  <2>2. InboxTables'
    BY <1>1, <1>2, <2>1 DEF InboxTables, modes
  <2>3. ASSUME NEW p \in Phones
        PROVE  IsFiniteSet(unseen'[p]) /\ \A m \in unseen'[p] : rows'[m] > 0
    <3>1. IsFiniteSet(unseen[p]) /\ (\A m \in unseen[p] : rows[m] > 0) /\ unseen[p] \subseteq In
      BY DEF InboxTables, InboxKnows
    <3>2. IsFiniteSet(unseen[p] \union {msg[h]})
      BY <3>1, FS_AddElement
    <3>3. unseen'[p] = unseen[p] \/ unseen'[p] = unseen[p] \union {msg[h]}
      BY <2>1 DEF InboxTables
    <3>4. \A m \in In : rows[m] \in Nat /\ rows'[m] = IF m = msg[h] THEN rows[m] + 1 ELSE rows[m]
      BY <2>1 DEF InboxTables
    <3>5. \A m \in unseen[p] \union {msg[h]} : rows'[m] > 0
      BY <1>1, <3>1, <3>4
    <3> QED BY <3>1, <3>2, <3>3, <3>5
  <2> QED BY <1>1, <2>1, <2>2, <2>3 DEF InboxKnows, Sender
<1>9. CASE downloadIncomingMedia(h) \/ alreadyProcessed(h) \/ handlerThrows(h)
  <2>1. UNCHANGED inbox /\ pc'[h] # "conversation"
    BY <1>9 DEF downloadIncomingMedia, alreadyProcessed, handlerThrows, Goes, InboxTables
  <2> QED BY <1>3, <2>1
<1> QED BY <1>4, <1>5, <1>6, <1>7, <1>9 DEF Step

\* A delivery gives an idle handler its message.
LEMMA ReceiveLocal ==
  ASSUME InboxTables, NEW h \in Handlers, NEW m \in In, Receive(h, m)
  PROVE  /\ pc[h] = "idle" /\ UNCHANGED <<modes, inbox>>
         /\ msg'[h] = m /\ pc'[h] \in {"download", "dedupe"}
         /\ pc' \in [Handlers -> Steps] /\ msg' \in [Handlers -> In \union {NoMessage}]
         /\ deliveries' \in [In -> Nat]
         /\ \A g \in Handlers : g # h => pc'[g] = pc[g] /\ msg'[g] = msg[g]
<1>1. /\ pc[h] = "idle" /\ UNCHANGED <<modes, inbox, outbox>>
      /\ deliveries' = [deliveries EXCEPT ![m] = @ + 1]
      /\ msg' = [msg EXCEPT ![h] = m]
      /\ pc' = [pc EXCEPT ![h] = IF m \in Media THEN "download" ELSE "dedupe"]
  BY DEF Receive
<1>2. deliveries' \in [In -> Nat]
  BY <1>1 DEF InboxTables
<1>3. msg' \in [Handlers -> In \union {NoMessage}] /\ pc' \in [Handlers -> Steps]
  BY <1>1 DEF InboxTables, Steps
<1> QED BY <1>1, <1>2, <1>3 DEF InboxTables

\* What happens elsewhere leaves the handlers and the tables alone, or stops every handler.
LEMMA OtherTables ==
  ASSUME InboxTables, InboxKnows, UserActs \/ (\E h \in Handlers : Delivered(h)) \/ Restart
  PROVE  InboxTables' /\ InboxKnows'
<1>1. CASE \E h \in Handlers : Delivered(h)
  <2>1. PICK h \in Handlers, m \in In : Receive(h, m)
    BY <1>1 DEF Delivered
  <2> QED BY <2>1, ReceiveLocal DEF InboxTables, InboxKnows, inbox, modes, Sender
<1>2. CASE \E p \in Phones : markRead(p)
  <2>1. PICK p \in Phones : markRead(p)
    BY <1>2
  <2>2. InboxTables'
    BY <2>1 DEF markRead, InboxTables, modes, handlers
  <2>3. \A q \in Phones : unseen'[q] = unseen[q] \/ unseen'[q] = {}
    BY <2>1 DEF markRead, InboxTables
  <2>4. \A q \in Phones : IsFiniteSet(unseen'[q]) /\ \A m \in unseen'[q] : rows'[m] > 0
    BY <2>1, <2>3, FS_EmptySet DEF markRead, InboxKnows
  <2> QED BY <2>1, <2>2, <2>4 DEF markRead, InboxKnows, handlers, Sender
<1>3. CASE \E p \in Phones : createConversation(p)
  BY <1>3 DEF createConversation, InboxTables, InboxKnows, modes, handlers, Sender
<1>4. CASE Restart
  BY <1>4 DEF Restart, InboxTables, InboxKnows, Steps, modes, inbox
<1> QED BY <1>1, <1>2, <1>3, <1>4 DEF UserActs

-----------------------------------------------------------------------------
(* The inbox: one row *)

\* What a step of a handler does to its place in the line.
LEMMA StepPlace ==
  ASSUME InboxTables, InboxKnows, NEW h \in Handlers, Step(h)
  PROVE  /\ Busy(h)' => Busy(h)
         /\ Creating(h)' => Creating(h) \/ rows[msg[h]] = 0
         /\ createMessage(h) \/ UNCHANGED rows
<1> USE DEF Goes, InboxTables, Busy, Creating
<1>1. CASE downloadIncomingMedia(h)
  BY <1>1 DEF downloadIncomingMedia, inbox
<1>2. CASE alreadyProcessed(h)
  <2>1. rows[msg[h]] \in Nat
    BY <1>2, StepLocal
  <2> QED BY <1>2, <2>1 DEF alreadyProcessed, inbox
<1>3. CASE findContact(h)
  BY <1>3 DEF findContact, inbox
<1>4. CASE createContact(h)
  BY <1>4 DEF createContact
<1>5. CASE upsertConversation(h)
  BY <1>5 DEF upsertConversation
<1>6. CASE createMessage(h)
  BY <1>6 DEF createMessage
<1>7. CASE handlerThrows(h)
  BY <1>7 DEF handlerThrows, inbox
<1> QED BY <1>1, <1>2, <1>3, <1>4, <1>5, <1>6, <1>7 DEF Step

\* A step of a handler keeps the line and the rows.
LEMMA StepOnce ==
  ASSUME InboxIInv, apart, NEW h \in Handlers, Step(h)
  PROVE  OneBusy' /\ Once'
<1>1. InboxTables /\ InboxKnows /\ OneBusy /\ Once
  BY DEF InboxIInv
<1>2. /\ pc[h] # "idle" /\ msg[h] \in In
      /\ pc'[h] # "idle" => msg'[h] = msg[h]
      /\ \A g \in Handlers : g # h => pc'[g] = pc[g] /\ msg'[g] = msg[g]
  BY <1>1, StepLocal
<1>3. /\ Busy(h)' => Busy(h)
      /\ Creating(h)' => Creating(h) \/ rows[msg[h]] = 0
      /\ createMessage(h) \/ UNCHANGED rows
  BY <1>1, StepPlace
<1>4. OneBusy'
  BY <1>1, <1>2, <1>3 DEF OneBusy, Busy, Sender
<1>5. CASE createMessage(h)
  <2>1. /\ rows' = [rows EXCEPT ![msg[h]] = @ + 1]
        /\ pc[h] = "create" /\ pc'[h] = "idle" /\ rows[msg[h]] = 0
    BY <1>1, <1>5 DEF createMessage, Goes, InboxTables, Once, Creating
  <2>2. \A m \in In : rows'[m] = IF m = msg[h] THEN 1 ELSE rows[m]
    BY <1>1, <1>2, <2>1 DEF InboxTables
  <2>3. \A g \in Handlers : g # h /\ Creating(g) => msg[g] # msg[h]
    BY <1>1, <2>1 DEF OneBusy, Busy, Creating, Sender
  <2>4. \A g \in Handlers : g # h /\ Creating(g) => msg[g] \in In
    BY <1>1 DEF InboxKnows, Creating
  <2>5. \A m \in In : rows'[m] <= 1
    BY <1>1, <2>2 DEF Once
  <2>6. ASSUME NEW g \in Handlers, Creating(g)'
        PROVE  rows'[msg'[g]] = 0
    <3>1. g # h
      BY <2>1, <2>6 DEF Creating
    <3>2. Creating(g) /\ msg'[g] = msg[g]
      BY <1>2, <2>6, <3>1 DEF Creating
    <3>3. msg[g] # msg[h] /\ msg[g] \in In /\ rows[msg[g]] = 0
      BY <1>1, <2>3, <2>4, <3>1, <3>2 DEF Once
    <3> QED BY <2>2, <3>2, <3>3
  <2> QED BY <1>4, <2>5, <2>6 DEF Once
<1>6. CASE ~createMessage(h)
  <2>1. rows' = rows
    BY <1>3, <1>6
  <2>2. Once'
    BY <1>1, <1>2, <1>3, <2>1 DEF Once, Creating
  <2> QED BY <1>4, <2>2
<1> QED BY <1>5, <1>6

\* So does what happens elsewhere: a delivery waits for the sender's line to be free.
LEMMA OtherOnce ==
  ASSUME InboxIInv, apart, UserActs \/ (\E h \in Handlers : Delivered(h)) \/ Restart
  PROVE  OneBusy' /\ Once'
<1>1. InboxTables /\ InboxKnows /\ OneBusy /\ Once
  BY DEF InboxIInv
<1>2. CASE \E h \in Handlers : Delivered(h)
  <2>1. PICK h \in Handlers, m \in In : Receive(h, m)
    BY <1>2 DEF Delivered
  <2>2. \A g \in Handlers : Busy(g) => Sender(g) # From[m]
    BY <2>1 DEF Receive
  <2>3. /\ msg'[h] = m /\ pc'[h] \in {"download", "dedupe"}
        /\ \A g \in Handlers : g # h => pc'[g] = pc[g] /\ msg'[g] = msg[g]
        /\ rows' = rows
    BY <1>1, <2>1, ReceiveLocal DEF inbox
  <2>4. OneBusy'
    BY <1>1, <2>2, <2>3 DEF OneBusy, Busy, Sender
  <2>5. Once'
    BY <1>1, <2>3 DEF Once, Creating
  <2> QED BY <2>4, <2>5
<1>3. CASE UserActs
  <2>1. UNCHANGED <<handlers, rows>>
    BY <1>3 DEF UserActs, markRead, createConversation
  <2> QED BY <1>1, <2>1 DEF handlers, OneBusy, Once, Busy, Creating, Sender
<1>4. CASE Restart
  <2>1. (\A h \in Handlers : pc'[h] = "idle") /\ UNCHANGED rows
    BY <1>4 DEF Restart, inbox
  <2> QED BY <1>1, <2>1 DEF OneBusy, Once, Busy, Creating
<1> QED BY <1>2, <1>3, <1>4

-----------------------------------------------------------------------------
(* The inbox: the unread count *)

\* One message of a sender is being written at a time.
LEMMA WritingIsFinite ==
  ASSUME InboxTables, InboxKnows, OneBusy, NEW p \in Phones
  PROVE  /\ IsFiniteSet(BeingWritten(p)) /\ IsFiniteSet(unseen[p] \union BeingWritten(p))
         /\ \A h \in Handlers : Busy(h) /\ Sender(h) = p =>
                BeingWritten(p) = IF pc[h] = "create" THEN {msg[h]} ELSE {}
<1>1. \A h \in Handlers : Busy(h) /\ Sender(h) = p =>
            BeingWritten(p) = IF pc[h] = "create" THEN {msg[h]} ELSE {}
  <2> SUFFICES ASSUME NEW h \in Handlers, Busy(h), Sender(h) = p
               PROVE  BeingWritten(p) = IF pc[h] = "create" THEN {msg[h]} ELSE {}
    OBVIOUS
  <2>1. \A g \in Handlers : pc[g] = "create" /\ Sender(g) = p => g = h
    BY DEF OneBusy, Busy
  <2> QED BY <2>1 DEF BeingWritten
<1>2. IsFiniteSet(BeingWritten(p))
  <2>1. CASE BeingWritten(p) = {}
    BY <2>1, FS_EmptySet
  <2>2. CASE BeingWritten(p) # {}
    <3>1. PICK h \in Handlers : pc[h] = "create" /\ Sender(h) = p
      BY <2>2 DEF BeingWritten
    <3>2. BeingWritten(p) = {msg[h]}
      BY <1>1, <3>1 DEF Busy
    <3> QED BY <3>2, FS_Singleton
  <2> QED BY <2>1, <2>2
<1>3. IsFiniteSet(unseen[p] \union BeingWritten(p))
  BY <1>2, FS_Union DEF InboxKnows
<1> QED BY <1>1, <1>2, <1>3

LEMMA StepCounted ==
  ASSUME InboxIInv, apart, sound, NEW h \in Handlers, Step(h)
  PROVE  CountedOnce'
<1>1. InboxTables /\ InboxKnows /\ OneBusy /\ Once /\ CountedOnce
  BY DEF InboxIInv
<1>2. /\ pc[h] # "idle" /\ msg[h] \in In
      /\ pc'[h] # "idle" => msg'[h] = msg[h]
      /\ \A g \in Handlers : g # h => pc'[g] = pc[g] /\ msg'[g] = msg[g]
  BY <1>1, StepLocal
<1> SUFFICES ASSUME NEW p \in Phones
             PROVE  unread'[p] <= Cardinality(unseen'[p] \union BeingWritten(p)')
  BY DEF CountedOnce
<1>3. unread[p] <= Cardinality(unseen[p] \union BeingWritten(p))
  BY <1>1 DEF CountedOnce
<1>4. CASE Sender(h) # p \/ (pc[h] # "create" /\ pc'[h] # "create")
  <2>1. unread'[p] = unread[p] /\ unseen'[p] = unseen[p]
    <3>1. CASE UNCHANGED <<unread, unseen>>
      BY <3>1
    <3>2. CASE upsertConversation(h)
      BY <1>1, <1>4, <3>2 DEF upsertConversation, Counted, Goes, InboxTables
    <3>3. CASE createMessage(h)
      BY <1>1, <1>4, <3>3 DEF createMessage, InboxTables
    <3> QED BY <3>1, <3>2, <3>3 DEF Step, downloadIncomingMedia, alreadyProcessed, findContact,
            createContact, handlerThrows, inbox
  <2>2. \A g \in Handlers : pc'[g] = "create" /\ From[msg'[g]] = p <=>
                            pc[g] = "create" /\ From[msg[g]] = p
    BY <1>2, <1>4 DEF Sender
  <2>3. \A g \in Handlers : pc'[g] = "create" => msg'[g] = msg[g]
    BY <1>2
  <2>4. BeingWritten(p)' = BeingWritten(p)
    BY <2>2, <2>3 DEF BeingWritten, Sender
  <2> QED BY <1>3, <2>1, <2>4
<1>5. CASE Sender(h) = p /\ pc[h] # "create" /\ pc'[h] = "create"
  <2>1. upsertConversation(h)
    BY <1>1, <1>5 DEF Step, downloadIncomingMedia, alreadyProcessed, findContact, createContact,
       createMessage, handlerThrows, Goes, InboxTables
  <2>2. /\ unread'[p] = unread[p] + 1 /\ unseen' = unseen /\ pc[h] = "conversation"
        /\ rows[msg[h]] = 0
    BY <1>1, <1>5, <2>1 DEF upsertConversation, Counted, InboxTables, Once, Creating
  <2>3. BeingWritten(p) = {}
    BY <1>1, <1>5, <2>2, WritingIsFinite DEF Busy
  <2>4. BeingWritten(p)' = {msg[h]}
    <3>1. \A g \in Handlers : g # h => ~(pc'[g] = "create" /\ From[msg'[g]] = p)
      BY <1>1, <1>2, <1>5, <2>2 DEF OneBusy, Busy, Sender
    <3>2. msg'[h] = msg[h] /\ From[msg[h]] = p
      BY <1>2, <1>5 DEF Sender
    <3> QED BY <1>5, <3>1, <3>2 DEF BeingWritten, Sender
  <2>5. IsFiniteSet(unseen[p]) /\ msg[h] \notin unseen[p]
    BY <1>1, <2>2 DEF InboxKnows
  <2>6. Cardinality(unseen[p] \union {msg[h]}) = Cardinality(unseen[p]) + 1
    BY <2>5, FS_AddElement
  <2>7. Cardinality(unseen[p]) \in Nat /\ unread[p] \in Nat
    BY <1>1, <2>5, FS_CardinalityType DEF InboxTables
  <2>8. unread[p] <= Cardinality(unseen[p])
    BY <1>3, <2>3
  <2> QED BY <2>2, <2>4, <2>6, <2>7, <2>8
<1>6. CASE Sender(h) = p /\ pc[h] = "create"
  <2>1. createMessage(h)
    BY <1>1, <1>6 DEF Step, downloadIncomingMedia, alreadyProcessed, findContact,
       createContact, upsertConversation, handlerThrows
  <2>2. /\ unread'[p] = unread[p] /\ unseen'[p] = unseen[p] \union {msg[h]} /\ pc'[h] = "idle"
    BY <1>1, <1>6, <2>1 DEF createMessage, Goes, InboxTables
  <2>3. BeingWritten(p) = {msg[h]}
    BY <1>1, <1>6, WritingIsFinite DEF Busy
  <2>4. BeingWritten(p)' = {}
    <3>1. \A g \in Handlers : ~(pc'[g] = "create" /\ From[msg'[g]] = p)
      BY <1>1, <1>2, <1>6, <2>2 DEF OneBusy, Busy, Sender
    <3> QED BY <3>1 DEF BeingWritten, Sender
  <2>5. unseen'[p] \union BeingWritten(p)' = unseen[p] \union BeingWritten(p)
    BY <2>2, <2>3, <2>4
  <2> QED BY <1>3, <2>2, <2>5
<1> QED BY <1>4, <1>5, <1>6

LEMMA OtherCounted ==
  ASSUME InboxIInv, apart, sound, UserActs \/ (\E h \in Handlers : Delivered(h)) \/ Restart
  PROVE  CountedOnce'
<1>1. InboxTables /\ InboxKnows /\ OneBusy /\ CountedOnce
  BY DEF InboxIInv
<1> SUFFICES ASSUME NEW p \in Phones
             PROVE  unread'[p] <= Cardinality(unseen'[p] \union BeingWritten(p)')
  BY DEF CountedOnce
<1>2. unread[p] <= Cardinality(unseen[p] \union BeingWritten(p))
  BY <1>1 DEF CountedOnce
<1>3. CASE \E h \in Handlers : Delivered(h)
  <2>1. PICK h \in Handlers, m \in In : Receive(h, m)
    BY <1>3 DEF Delivered
  <2>2. /\ UNCHANGED <<unread, unseen>> /\ pc[h] # "create" /\ pc'[h] # "create"
        /\ \A g \in Handlers : g # h => pc'[g] = pc[g] /\ msg'[g] = msg[g]
    BY <1>1, <2>1, ReceiveLocal DEF inbox
  <2>3. \A g \in Handlers : pc'[g] = "create" <=> pc[g] = "create"
    BY <2>2
  <2>4. \A g \in Handlers : pc[g] = "create" => msg'[g] = msg[g]
    BY <2>2
  <2>5. BeingWritten(p)' = BeingWritten(p)
    BY <2>3, <2>4 DEF BeingWritten, Sender
  <2> QED BY <1>2, <2>2, <2>5
<1>4. CASE UserActs
  <2>1. UNCHANGED <<pc, msg>>
    BY <1>4 DEF UserActs, markRead, createConversation, handlers
  <2>2. BeingWritten(p)' = BeingWritten(p)
    BY <2>1 DEF BeingWritten, Sender
  <2>3. CASE UNCHANGED <<unread[p], unseen[p]>>
    BY <1>2, <2>2, <2>3
  <2>4. CASE unread'[p] = 0 /\ unseen'[p] = {}
    <3>1. IsFiniteSet(BeingWritten(p))
      BY <1>1, WritingIsFinite
    <3>2. Cardinality(BeingWritten(p)) \in Nat
      BY <3>1, FS_CardinalityType
    <3>3. unseen'[p] \union BeingWritten(p)' = BeingWritten(p)
      BY <2>2, <2>4
    <3> QED BY <2>4, <3>2, <3>3
  <2> QED BY <1>1, <1>4, <2>3, <2>4 DEF UserActs, markRead, createConversation, InboxTables
<1>5. ~Restart
  BY DEF Restart
<1> QED BY <1>3, <1>4, <1>5

-----------------------------------------------------------------------------
(* The inbox: the invariant *)

\* Sends, reports and automations leave the inbox alone.
OutboxStep ==
    \/ \E j \in Matching : runAction(j)
    \/ \E o \in Out : SendStep(o) \/ \E level \in DOMAIN Level : Acknowledge(o, level)
    \/ \E m \in In : Report(m)
    \/ AckStep

LEMMA OutboxKeepsInbox ==
  ASSUME InboxIInv, OutboxStep \/ UNCHANGED vars
  PROVE  InboxIInv'
<1>1. UNCHANGED <<modes, inbox, handlers>>
  <2>1. CASE UNCHANGED vars
    BY <2>1 DEF vars
  <2>2. CASE OutboxStep
    BY <2>2 DEF OutboxStep, runAction, SendStep, Confirm, sendThrows, Acknowledge, Report,
       AckStep, findMessage, updateStatus, updateInbound, updateThrows, OutUnchanged
  <2> QED BY <2>1, <2>2
<1>2. InboxTables' /\ InboxKnows'
  BY <1>1 DEF InboxIInv, InboxTables, InboxKnows, modes, inbox, handlers, Sender
<1>3. apart => OneBusy' /\ Once'
  BY <1>1 DEF InboxIInv, OneBusy, Once, Busy, Creating, Sender, inbox, handlers
<1>4. apart /\ sound => CountedOnce'
  <2>1. \A p \in Phones : BeingWritten(p)' = BeingWritten(p)
    BY <1>1 DEF BeingWritten, Sender, handlers
  <2> QED BY <1>1, <2>1 DEF InboxIInv, CountedOnce, inbox
<1> QED BY <1>1, <1>2, <1>3, <1>4 DEF InboxIInv, modes

\* Every step keeps the invariant of the inbox.
LEMMA InboxNext == InboxIInv /\ [Next]_vars => InboxIInv'
<1> SUFFICES ASSUME InboxIInv, [Next]_vars PROVE InboxIInv'
  OBVIOUS
<1>0. InboxTables /\ InboxKnows
  BY DEF InboxIInv
<1>1. CASE \E h \in Handlers : Step(h)
  <2>1. PICK h \in Handlers : Step(h)
    BY <1>1
  <2>2. UNCHANGED modes
    BY <1>0, <2>1, StepLocal
  <2> QED BY <1>0, <2>1, <2>2, StepTables, StepOnce, StepCounted DEF InboxIInv, modes
<1>2. CASE UserActs \/ (\E h \in Handlers : Delivered(h)) \/ Restart
  <2>1. UNCHANGED modes
    BY <1>2 DEF UserActs, markRead, createConversation, Delivered, Receive, Restart
  <2> QED BY <1>0, <1>2, <2>1, OtherTables, OtherOnce, OtherCounted DEF InboxIInv, modes
<1>3. CASE OutboxStep \/ UNCHANGED vars
  BY <1>3, OutboxKeepsInbox
<1> QED BY <1>1, <1>2, <1>3 DEF Next, UserActs, Delivered, OutboxStep

-----------------------------------------------------------------------------
(* The automations *)

LEMMA AnswersInit == Init => AnswersIInv
<1> SUFFICES ASSUME Init PROVE AnswersIInv
  OBVIOUS
<1>1. \A j \in Matching : j[2] \in In
  OBVIOUS
<1> QED BY <1>1 DEF Init, AnswersIInv

\* A row that is written or updated makes the listener run once.
LEMMA EmitKeeps ==
  ASSUME InboxTables, AnswersIInv, NEW m \in In, Emits(m), UNCHANGED replies,
         \/ rows' = [rows EXCEPT ![m] = @ + 1] /\ UNCHANGED updates
         \/ updates' = [updates EXCEPT ![m] = @ + 1] /\ UNCHANGED rows
  PROVE  AnswersIInv'
<1>1. rows \in [In -> Nat] /\ updates \in [In -> Nat] /\ due \in [Matching -> Nat]
      /\ replies \in [Matching -> Nat]
  BY DEF InboxTables, AnswersIInv
<1>2. updates' \in [In -> Nat] /\ due' \in [Matching -> Nat]
  BY <1>1 DEF Emits
<1>3. ASSUME NEW j \in Matching
      PROVE  due'[j] + replies'[j] <= rows'[j[2]] + updates'[j[2]]
  <2>1. j[2] \in In /\ due'[j] = due[j] + (IF j[2] = m THEN 1 ELSE 0)
    BY DEF Emits
  <2>2. rows'[j[2]] + updates'[j[2]] = rows[j[2]] + updates[j[2]] + (IF j[2] = m THEN 1 ELSE 0)
    BY <1>1, <2>1
  <2>3. due[j] + replies[j] <= rows[j[2]] + updates[j[2]]
    BY DEF AnswersIInv
  <2> QED BY <1>1, <2>1, <2>2, <2>3
<1> QED BY <1>1, <1>2, <1>3 DEF AnswersIInv

\* Every step keeps the account of what the automations did.
LEMMA AnswersNext ==
  ASSUME InboxIInv, OutboxTables, AnswersIInv, [Next]_vars
  PROVE  AnswersIInv'
<1>0. InboxTables /\ InboxKnows
  BY DEF InboxIInv
<1>1. CASE UNCHANGED <<answers, rows>>
  BY <1>1 DEF AnswersIInv, answers
<1>2. CASE \E h \in Handlers : createMessage(h)
  <2>1. PICK h \in Handlers : createMessage(h)
    BY <1>2
  <2>2. msg[h] \in In
    BY <1>0, <2>1 DEF createMessage, InboxKnows
  <2>3. Emits(msg[h]) /\ rows' = [rows EXCEPT ![msg[h]] = @ + 1] /\ UNCHANGED <<replies, updates>>
    BY <2>1 DEF createMessage
  <2> QED BY <1>0, <2>2, <2>3, EmitKeeps
<1>3. CASE \E a \in acks : updateInbound(a)
  <2>1. PICK a \in acks : updateInbound(a)
    BY <1>3
  <2>2. a.id \in In
    BY <2>1 DEF updateInbound, OutboxTables
  <2>3. Emits(a.id) /\ updates' = [updates EXCEPT ![a.id] = @ + 1] /\ UNCHANGED <<replies, rows>>
    BY <2>1 DEF updateInbound, OutUnchanged, inbox
  <2> QED BY <1>0, <2>2, <2>3, EmitKeeps
<1>4. CASE \E j \in Matching : runAction(j)
  <2>1. PICK j \in Matching : runAction(j)
    BY <1>4
  <2>2. /\ due[j] > 0 /\ due' = [due EXCEPT ![j] = @ - 1] /\ UNCHANGED <<rows, updates>>
        /\ replies' = [replies EXCEPT ![j] = @ + 1] \/ UNCHANGED replies
    BY <2>1 DEF runAction, inbox
  <2>3. \A k \in Matching : k[2] \in In
    OBVIOUS
  <2>4. /\ due' \in [Matching -> Nat] /\ replies' \in [Matching -> Nat]
        /\ \A k \in Matching : due'[k] + replies'[k] <= due[k] + replies[k]
    BY <2>2 DEF AnswersIInv
  <2>5. \A k \in Matching : rows[k[2]] \in Nat /\ updates[k[2]] \in Nat
    BY <1>0, <2>3 DEF AnswersIInv, InboxTables
  <2> QED BY <2>2, <2>4, <2>5 DEF AnswersIInv
<1>5. CASE Restart
  <2>1. due' = [j \in Matching |-> 0] /\ UNCHANGED <<rows, replies, updates>>
    BY <1>5 DEF Restart, inbox
  <2>2. \A k \in Matching : k[2] \in In
    OBVIOUS
  <2>3. \A k \in Matching : rows[k[2]] \in Nat /\ updates[k[2]] \in Nat
    BY <1>0, <2>2 DEF AnswersIInv, InboxTables
  <2> QED BY <2>1, <2>3 DEF AnswersIInv
<1>6. CASE \E h \in Handlers : Delivered(h) \/ (Step(h) /\ ~createMessage(h))
  BY <1>1, <1>6 DEF Delivered, Receive, Step, downloadIncomingMedia, alreadyProcessed, findContact,
     createContact, upsertConversation, handlerThrows, inbox
<1>7. CASE UserActs \/ UNCHANGED vars
  BY <1>1, <1>7 DEF UserActs, markRead, createConversation, vars, inbox
<1>8. CASE \/ \E o \in Out : SendStep(o) \/ \E level \in DOMAIN Level : Acknowledge(o, level)
           \/ \E m \in In : Report(m)
           \/ \E a \in acks : findMessage(a) \/ updateStatus(a) \/ updateThrows(a)
  <2>1. UNCHANGED <<answers, rows>>
    BY <1>8 DEF SendStep, Confirm, sendThrows, Acknowledge, Report, findMessage, updateStatus,
       updateThrows, OutUnchanged, inbox, answers
  <2> QED BY <1>1, <2>1
<1> QED BY <1>2, <1>3, <1>4, <1>5, <1>6, <1>7, <1>8 DEF Next, UserActs, Delivered, AckStep

-----------------------------------------------------------------------------
(* The acknowledgements *)

LEMMA OutboxInit == Init => OutboxIInv
BY DEF Init, OutboxIInv, OutboxTables, Statuses, Levels, Witnessed, StatusIsWitnessed, InOrder

\* A status is as far as the acknowledgement it was taken from.
LEMMA AckRank ==
  ASSUME NEW level \in Levels
  PROVE  AckStatus[level] \in Statuses /\ Rank[AckStatus[level]] = Level[level]
BY DEF Levels, AckStatus, Statuses, Rank, Level

LEMMA RankIsNat ==
  ASSUME NEW s \in Statuses
  PROVE  Rank[s] \in 0 .. 4
BY DEF Statuses, Rank

LEMMA LevelIsNat ==
  ASSUME NEW l \in Levels
  PROVE  Level[l] \in 1 .. 4
BY DEF Levels, Level

LEMMA LevelNames == DOMAIN Level = Levels
BY DEF Level, Levels

\* A report that is dropped leaves the others and the rows.
LEMMA DropKeeps ==
  ASSUME OutboxIInv, acks' \subseteq acks, sending' \subseteq sending,
         UNCHANGED <<modes, out, ids, wa>>
  PROVE  OutboxIInv'
<1>1. OutboxTables'
  BY DEF OutboxIInv, OutboxTables, modes
<1>2. Witnessed'
  BY DEF OutboxIInv, Witnessed, StatusIsWitnessed, Happened, modes
<1>3. apart => InOrder'
  BY DEF OutboxIInv, InOrder
<1> QED BY <1>1, <1>2, <1>3 DEF OutboxIInv, modes

\* A row whose send is over has its outcome; it had none before.
LEMMA SendKeeps ==
  ASSUME OutboxIInv, NEW o \in Out, SendStep(o)
  PROVE  OutboxIInv' /\ (\A x \in Out : Rank[out'[x]] >= Rank[out[x]])
<1>1. /\ o \in sending /\ sending' = sending \ {o} /\ UNCHANGED <<wa, acks, modes>>
      /\ \/ out' = [out EXCEPT ![o] = "SENT"] /\ ids' = ids \union {o}
         \/ ~sound /\ ids' = ids /\ (out' = [out EXCEPT ![o] = "FAILED"] \/ UNCHANGED out)
  BY DEF SendStep, Confirm, sendThrows, OutUnchanged
<1>2. OutboxTables /\ out[o] = "PENDING" /\ o \notin ids
  BY <1>1 DEF OutboxIInv, OutboxTables
<1>3. OutboxTables'
  BY <1>1, <1>2 DEF OutboxTables, Statuses, modes
<1>4. /\ \A x \in Out : x # o => out'[x] = out[x] /\ (x \in ids' <=> x \in ids)
      /\ out'[o] \in {"SENT", "FAILED", "PENDING"}
      /\ out'[o] = "FAILED" => ~sound /\ o \notin ids'
      /\ o \in ids' => out'[o] = "SENT"
  BY <1>1, <1>2 DEF OutboxTables
<1>5. Witnessed'
  <2>1. ASSUME NEW x \in Out
        PROVE  /\ out'[x] = "READ" => wa'[x] = "read"
               /\ out'[x] = "DELIVERED" => wa'[x] \in {"delivered", "read"}
               /\ out'[x] = "FAILED" => wa'[x] = "rejected" \/ (~sound' /\ x \notin ids')
    BY <1>1, <1>4 DEF OutboxIInv, Witnessed, StatusIsWitnessed, modes
  <2>2. \A a \in acks' : a.id \in Out => Happened(a.id, a.level)'
    BY <1>1 DEF OutboxIInv, Witnessed, Happened
  <2> QED BY <2>1, <2>2 DEF Witnessed, StatusIsWitnessed
<1>6. \A x \in Out : Rank[out'[x]] >= Rank[out[x]]
  <2> TAKE x \in Out
  <2>1. Rank[out[x]] \in 0 .. 4
    BY <1>2, RankIsNat DEF OutboxTables
  <2>2. CASE x = o
    BY <1>2, <1>4, <2>2 DEF Rank
  <2>3. CASE x # o
    BY <1>4, <2>1, <2>3
  <2> QED BY <2>2, <2>3
<1>7. ASSUME apart, NEW a \in acks, a.id \in ids', a.id \in Out
      PROVE  Rank[out'[a.id]] <= Level[a.level]
  <2>1. a.level \in Levels
    BY <1>2 DEF OutboxTables, AckRecords
  <2>2. CASE a.id = o
    BY <1>4, <1>7, <2>1, <2>2, LevelIsNat DEF Rank
  <2>3. CASE a.id # o
    BY <1>4, <1>7, <2>1, <2>3 DEF OutboxIInv, InOrder
  <2> QED BY <2>2, <2>3
<1>8. apart => InOrder'
  BY <1>1, <1>7 DEF OutboxIInv, InOrder
<1> QED BY <1>1, <1>3, <1>5, <1>6, <1>8 DEF OutboxIInv, modes

\* A report that starts to be handled: it has happened, and is as far as all others.
LEMMA HandlesKeeps ==
  ASSUME OutboxIInv, NEW id \in In \union Out, NEW level \in Levels,
         NEW whose \in {"sent", "received"}, Handles(id, level, whose),
         UNCHANGED <<modes, out, sending, ids>>, wa' \in [Out -> {"accepted"} \union Levels],
         \A a \in acks : a.id \in Out => Happened(a.id, a.level)',
         StatusIsWitnessed',
         id \in Out => /\ Happened(id, level)'
                       /\ id \in ids => Rank[out[id]] <= Level[level]
                       /\ \A a \in acks : a.id = id => Level[a.level] <= Level[level]
  PROVE  OutboxIInv'
<1> DEFINE new == [id |-> id, level |-> level, whose |-> whose, step |-> "find"]
<1>1. /\ acks' = acks \union {new} /\ UNCHANGED <<apart, sound, out, sending, ids>>
      /\ OutboxTables
  BY DEF Handles, modes, OutboxIInv
<1>2. new \in AckRecords /\ new.id = id /\ new.level = level /\ new.step = "find"
  BY DEF AckRecords
<1> HIDE DEF new
<1>3. OutboxTables'
  BY <1>1, <1>2 DEF OutboxTables
<1>4. Witnessed'
  <2>1. ASSUME NEW a \in acks', a.id \in Out
        PROVE  Happened(a.id, a.level)'
    <3>1. CASE a = new
      BY <1>2, <2>1, <3>1 DEF Happened
    <3>2. CASE a \in acks
      BY <2>1, <3>2
    <3> QED BY <1>1, <3>1, <3>2
  <2> QED BY <2>1 DEF Witnessed
<1>5. ASSUME apart
      PROVE  InOrder'
  <2>1. InOrder
    BY <1>5 DEF OutboxIInv
  <2>2. ASSUME NEW a \in acks', a.id \in Out
        PROVE  /\ a.id \in ids' => Rank[out'[a.id]] <= Level[a.level]
               /\ a.step # "find" =>
                    \A b \in acks' : b.id = a.id => Level[a.level] <= Level[b.level]
    <3>1. CASE a = new
      BY <1>1, <1>2, <2>2, <3>1
    <3>2. CASE a \in acks
      BY <1>1, <1>2, <2>1, <2>2, <3>2 DEF InOrder
    <3> QED BY <1>1, <3>1, <3>2
  <2> QED BY <2>2 DEF InOrder
<1> QED BY <1>1, <1>3, <1>4, <1>5 DEF OutboxIInv

\* WhatsApp goes on to a level that is above all that it has reported.
LEMMA AcknowledgeKeeps ==
  ASSUME OutboxIInv, NEW o \in Out, NEW level \in Levels, Acknowledge(o, level)
  PROVE  OutboxIInv' /\ out' = out
<1>1. /\ wa' = [wa EXCEPT ![o] = level] /\ Handles(o, level, "sent")
      /\ UNCHANGED <<modes, out, sending, ids>>
      /\ \/ wa[o] = "accepted" /\ level \in {"server", "rejected"}
         \/ wa[o] = "server" /\ level = "delivered"
         \/ wa[o] = "delivered" /\ level = "read"
  BY DEF Acknowledge, OutUnchanged
<1>2. OutboxTables /\ Witnessed
  BY DEF OutboxIInv
<1>3. /\ \A x \in Out : wa'[x] = IF x = o THEN level ELSE wa[x]
      /\ wa' \in [Out -> {"accepted"} \union Levels]
  BY <1>1, <1>2 DEF OutboxTables
<1>4. \A a \in acks : a.level \in Levels /\ (a.id \in Out => Happened(a.id, a.level))
  BY <1>2 DEF OutboxTables, AckRecords, Witnessed
<1>5. ASSUME NEW a \in acks, a.id \in Out
      PROVE  Happened(a.id, a.level)'
  <2>1. a.level \in Levels /\ Happened(a.id, a.level)
    BY <1>4, <1>5
  <2>2. CASE a.id = o
    BY <1>1, <1>3, <2>1, <2>2 DEF Happened, Levels
  <2>3. CASE a.id # o
    BY <1>3, <1>5, <2>1, <2>3 DEF Happened
  <2> QED BY <2>2, <2>3
<1>6. Happened(o, level)'
  BY <1>3 DEF Happened
<1>7. StatusIsWitnessed'
  BY <1>1, <1>2, <1>3 DEF Witnessed, StatusIsWitnessed, modes
<1>8. \A a \in acks : a.id = o => Level[a.level] <= Level[level]
  BY <1>1, <1>4 DEF Happened, Level, Levels
<1>9. o \in ids => Rank[out[o]] <= Level[level]
  <2>1. out[o] \in Statuses /\ StatusIsWitnessed
    BY <1>2 DEF OutboxTables, Witnessed
  <2>2. CASE level = "server" \/ level = "rejected"
    BY <1>1, <2>1, <2>2 DEF StatusIsWitnessed, Statuses, Rank, Level
  <2>3. CASE level = "delivered"
    BY <1>1, <2>1, <2>3 DEF StatusIsWitnessed, Statuses, Rank, Level
  <2>4. CASE level = "read"
    BY <1>1, <2>1, <2>4 DEF StatusIsWitnessed, Statuses, Rank, Level
  <2> QED BY <2>2, <2>3, <2>4 DEF Levels
<1>10. OutboxIInv'
  BY <1>1, <1>3, <1>5, <1>6, <1>7, <1>8, <1>9, HandlesKeeps
<1> QED BY <1>1, <1>10

\* A message of this platform that is reported as read by the account that received it has been
\* read.
LEMMA ReportKeeps ==
  ASSUME OutboxIInv, NEW m \in In, Report(m)
  PROVE  OutboxIInv' /\ out' = out
<1>1. /\ Handles(m, "read", "received") /\ UNCHANGED <<modes, out, sending, ids, wa>>
      /\ m \in Out => wa[m] = "read"
  BY DEF Report, OutUnchanged
<1>2. OutboxTables /\ Witnessed
  BY DEF OutboxIInv
<1>3. \A a \in acks : a.level \in Levels /\ (a.id \in Out => Happened(a.id, a.level))
  BY <1>2 DEF OutboxTables, AckRecords, Witnessed
<1>4. \A a \in acks : a.id \in Out => Happened(a.id, a.level)'
  BY <1>1, <1>3 DEF Happened
<1>5. StatusIsWitnessed'
  BY <1>1, <1>2 DEF Witnessed, StatusIsWitnessed, modes
<1>6. ASSUME m \in Out
      PROVE  /\ Happened(m, "read")'
             /\ m \in ids => Rank[out[m]] <= Level["read"]
             /\ \A a \in acks : a.id = m => Level[a.level] <= Level["read"]
  <2>1. Happened(m, "read")'
    BY <1>1, <1>6 DEF Happened
  <2>2. m \in ids => out[m] # "FAILED"
    BY <1>1, <1>2, <1>6 DEF Witnessed, StatusIsWitnessed
  <2>3. out[m] \in Statuses
    BY <1>2, <1>6 DEF OutboxTables
  <2>4. m \in ids => Rank[out[m]] <= Level["read"]
    BY <2>2, <2>3 DEF Statuses, Rank, Level
  <2>5. \A a \in acks : a.id = m => Level[a.level] <= Level["read"]
    BY <1>1, <1>3, <1>6 DEF Happened, Level, Levels
  <2> QED BY <2>1, <2>4, <2>5
<1>7. wa' \in [Out -> {"accepted"} \union Levels]
  BY <1>1, <1>2 DEF OutboxTables
<1>8. "read" \in Levels /\ m \in In \union Out
  BY DEF Levels
<1>9. OutboxIInv'
  BY <1>1, <1>4, <1>5, <1>6, <1>7, <1>8, HandlesKeeps
<1> QED BY <1>1, <1>9

\* The lookup finds a row with the id; while reports are handled in order, for the earliest.
LEMMA FindKeeps ==
  ASSUME OutboxIInv, NEW a \in acks, findMessage(a)
  PROVE  OutboxIInv' /\ out' = out
<1>1. /\ a.step = "find" /\ UNCHANGED <<out, sending, ids, wa, modes>> /\ OutboxTables
      /\ apart => \A b \in acks : b.id = a.id => Level[a.level] <= Level[b.level]
      /\ \/ acks' = acks \ {a}
         \/ a.id \in ids /\ acks' = (acks \ {a}) \union {[a EXCEPT !.step = "outbound"]}
         \/ a.id \in In /\ acks' = (acks \ {a}) \union {[a EXCEPT !.step = "inbound"]}
  BY DEF findMessage, OutUnchanged, OutboxIInv
<1>2. CASE acks' = acks \ {a}
  BY <1>1, <1>2, DropKeeps
<1>3. CASE \E s \in {"outbound", "inbound"} :
              /\ acks' = (acks \ {a}) \union {[a EXCEPT !.step = s]}
              /\ s = "outbound" => a.id \in ids
              /\ s = "inbound" => a.id \in In
  <2>1. PICK s \in {"outbound", "inbound"} :
              /\ acks' = (acks \ {a}) \union {[a EXCEPT !.step = s]}
              /\ s = "outbound" => a.id \in ids
              /\ s = "inbound" => a.id \in In
    BY <1>3
  <2> DEFINE f == [a EXCEPT !.step = s]
  <2>2. f \in AckRecords /\ f.id = a.id /\ f.level = a.level /\ f.step = s
    BY <1>1 DEF OutboxTables, AckRecords
  <2>3. acks' = (acks \ {a}) \union {f}
    BY <2>1
  <2> HIDE DEF f
  <2>4. OutboxTables'
    BY <1>1, <2>1, <2>2, <2>3 DEF OutboxTables, modes
  <2>5. Witnessed'
    BY <1>1, <2>2, <2>3 DEF OutboxIInv, Witnessed, StatusIsWitnessed, Happened, modes
  <2>6. apart => InOrder'
    BY <1>1, <2>2, <2>3 DEF OutboxIInv, InOrder
  <2> QED BY <1>1, <2>4, <2>5, <2>6 DEF OutboxIInv, modes
<1> QED BY <1>1, <1>2, <1>3

\* The row takes the level of the earliest report.
LEMMA UpdateKeeps ==
  ASSUME OutboxIInv, NEW a \in acks, updateStatus(a)
  PROVE  OutboxIInv' /\ (apart => \A x \in Out : Rank[out'[x]] >= Rank[out[x]])
<1>1. /\ a.step = "outbound" /\ out' = [out EXCEPT ![a.id] = AckStatus[a.level]]
      /\ acks' = acks \ {a} /\ UNCHANGED <<sending, ids, wa, modes>>
  BY DEF updateStatus, OutUnchanged
<1>2. OutboxTables /\ Witnessed
  BY DEF OutboxIInv
<1>3. a.id \in ids /\ a.id \in Out /\ a.level \in Levels /\ Happened(a.id, a.level)
  BY <1>1, <1>2 DEF OutboxTables, AckRecords, Witnessed
<1>4. AckStatus[a.level] \in Statuses /\ Rank[AckStatus[a.level]] = Level[a.level]
  BY <1>3, AckRank
<1>5. OutboxTables'
  BY <1>1, <1>2, <1>3, <1>4 DEF OutboxTables, modes
<1>6. StatusIsWitnessed'
  <2> SUFFICES ASSUME NEW o \in Out
               PROVE  /\ out'[o] = "READ" => wa'[o] = "read"
                      /\ out'[o] = "DELIVERED" => wa'[o] \in {"delivered", "read"}
                      /\ out'[o] = "FAILED" => wa'[o] = "rejected" \/ (~sound' /\ o \notin ids')
    BY DEF StatusIsWitnessed
  <2>1. CASE o # a.id
    BY <1>1, <1>2, <2>1 DEF OutboxTables, Witnessed, StatusIsWitnessed, modes
  <2>2. CASE o = a.id
    <3>1. out'[o] = AckStatus[a.level]
      BY <1>1, <1>2, <2>2 DEF OutboxTables
    <3> QED BY <1>1, <1>3, <2>2, <3>1 DEF AckStatus, Happened, Levels
  <2> QED BY <2>1, <2>2
<1>7. Witnessed'
  BY <1>1, <1>2, <1>6 DEF Witnessed, Happened
<1>8. ASSUME apart
      PROVE  InOrder' /\ \A x \in Out : Rank[out'[x]] >= Rank[out[x]]
  <2>1. InOrder
    BY <1>8 DEF OutboxIInv
  <2>2. \A x \in Out : Rank[out'[x]] = IF x = a.id THEN Level[a.level] ELSE Rank[out[x]]
    BY <1>1, <1>2, <1>4 DEF OutboxTables
  <2>3. \A x \in Out : Rank[out[x]] \in Nat
    BY <1>2, RankIsNat DEF OutboxTables
  <2>4. \A b \in acks : b.id = a.id => Level[a.level] <= Level[b.level]
    BY <1>1, <1>3, <2>1 DEF InOrder
  <2>5. InOrder'
    BY <1>1, <2>1, <2>2, <2>4 DEF InOrder
  <2>6. Rank[out[a.id]] <= Level[a.level]
    BY <1>3, <2>1 DEF InOrder
  <2>7. Level[a.level] \in Nat
    BY <1>3, LevelIsNat
  <2> QED BY <2>2, <2>3, <2>5, <2>6, <2>7
<1> QED BY <1>1, <1>5, <1>7, <1>8 DEF OutboxIInv, modes

\* The status of a row goes with WhatsApp's reports, and with them forward.
LEMMA OutboxNext ==
  ASSUME OutboxIInv, [Next]_vars
  PROVE  OutboxIInv' /\ (apart => \A o \in Out : Rank[out'[o]] >= Rank[out[o]])
<1>0. \A o \in Out : Rank[out[o]] \in Nat
  BY RankIsNat DEF OutboxIInv, OutboxTables
<1>1. CASE \E o \in Out : SendStep(o)
  BY <1>1, SendKeeps
<1>2. CASE \E o \in Out : \E level \in DOMAIN Level : Acknowledge(o, level)
  <2>1. PICK o \in Out, level \in Levels : Acknowledge(o, level)
    BY <1>2, LevelNames
  <2> QED BY <1>0, <2>1, AcknowledgeKeeps
<1>3. CASE \E m \in In : Report(m)
  BY <1>0, <1>3, ReportKeeps
<1>4. CASE \E a \in acks : findMessage(a)
  BY <1>0, <1>4, FindKeeps
<1>5. CASE \E a \in acks : updateStatus(a)
  BY <1>5, UpdateKeeps
<1>6. CASE (\E a \in acks : updateInbound(a) \/ updateThrows(a)) \/ Restart
  <2>1. acks' \subseteq acks /\ sending' \subseteq sending /\ UNCHANGED <<modes, out, ids, wa>>
    BY <1>6 DEF updateInbound, updateThrows, OutUnchanged, Restart
  <2> QED BY <1>0, <2>1, DropKeeps
<1>7. CASE UNCHANGED <<modes, outbox>>
  <2>1. acks' \subseteq acks /\ sending' \subseteq sending /\ UNCHANGED <<modes, out, ids, wa>>
    BY <1>7 DEF outbox
  <2> QED BY <1>0, <2>1, DropKeeps
<1>8. CASE \E h \in Handlers : Step(h) \/ Delivered(h)
  <2>1. UNCHANGED <<modes, outbox>>
    BY <1>8 DEF Delivered, Receive, Step, downloadIncomingMedia, alreadyProcessed, findContact,
       createContact, upsertConversation, createMessage, handlerThrows
  <2> QED BY <1>7, <2>1
<1>9. CASE UserActs \/ \E j \in Matching : runAction(j)
  BY <1>7, <1>9 DEF UserActs, markRead, createConversation, runAction
<1>10. CASE UNCHANGED vars
  BY <1>7, <1>10 DEF vars
<1> QED BY <1>1, <1>2, <1>3, <1>4, <1>5, <1>6, <1>8, <1>9, <1>10
        DEF Next, AckStep, UserActs, Delivered

-----------------------------------------------------------------------------
(* Theorems *)

\* Only upsertConversation raises the count, for a message that has no row.
LEMMA UnreadStep ==
  ASSUME InboxIInv, [Next]_vars, NEW p \in Phones, apart, unread'[p] > unread[p]
  PROVE  \E h \in Handlers : Busy(h) /\ Sender(h) = p /\ rows[msg[h]] = 0
<1>1. InboxTables /\ InboxKnows /\ Once
  BY DEF InboxIInv
<1>2. unread[p] \in Nat
  BY <1>1 DEF InboxTables
<1>3. unread' # unread
  BY <1>2
<1>4. \A q \in Phones : ~markRead(q)
  BY <1>1, <1>2 DEF markRead, InboxTables
<1>5. PICK h \in Handlers : upsertConversation(h)
  BY <1>3, <1>4 DEF Next, Step, Receive, downloadIncomingMedia, alreadyProcessed, findContact,
     createContact, createMessage, handlerThrows, createConversation, runAction, SendStep, Confirm,
     sendThrows, Acknowledge, Report, AckStep, findMessage, updateStatus, updateInbound,
     updateThrows, OutUnchanged, Restart, inbox, vars
<1>6. /\ pc[h] = "conversation" /\ unread' = [unread EXCEPT ![Sender(h)] = @ + 1]
  BY <1>5 DEF upsertConversation, Counted
<1>7. Sender(h) = p
  BY <1>1, <1>2, <1>6 DEF InboxTables
<1> QED BY <1>1, <1>6, <1>7 DEF Once, Creating, Busy

\* The three inductive invariants, and what they imply.
IInv == InboxIInv /\ AnswersIInv /\ OutboxIInv

LEMMA InvariantsHold == IInv => InboxInv /\ NotCountedTwice /\ StatusIsWitnessed
<1> SUFFICES ASSUME IInv
             PROVE  InboxInv /\ NotCountedTwice /\ StatusIsWitnessed
  OBVIOUS
<1>0. InboxIInv /\ AnswersIInv /\ OutboxIInv
  BY DEF IInv
<1>1. TypeOK
  BY <1>0, LevelNames DEF InboxIInv, OutboxIInv, AnswersIInv, InboxTables, OutboxTables, TypeOK,
     Steps, Statuses, AckRecords
<1>2. ReceivedOnce
  BY <1>0 DEF InboxIInv, Once, ReceivedOnce
<1>3. OneReply
  <2> SUFFICES ASSUME apart, NEW j \in Matching
               PROVE  replies[j] <= 1 + updates[j[2]]
    BY DEF OneReply
  <2>1. j[2] \in In
    OBVIOUS
  <2>2. /\ due[j] \in Nat /\ replies[j] \in Nat /\ updates[j[2]] \in Nat
        /\ due[j] + replies[j] <= rows[j[2]] + updates[j[2]]
    BY <1>0, <2>1 DEF AnswersIInv
  <2>3. rows[j[2]] \in Nat /\ rows[j[2]] <= 1
    BY <1>0, <2>1 DEF InboxIInv, InboxTables, Once
  <2> QED BY <2>2, <2>3
<1>4. NotCountedTwice
  BY <1>0 DEF InboxIInv, CountedOnce, BeingWritten, NotCountedTwice
<1> QED BY <1>0, <1>1, <1>2, <1>3, <1>4 DEF InboxInv, OutboxIInv, Witnessed

LEMMA IInvInit == Init => IInv
BY InboxInit, AnswersInit, OutboxInit DEF IInv

LEMMA IInvNext == IInv /\ [Next]_vars => IInv'
BY InboxNext, AnswersNext, OutboxNext DEF IInv, OutboxIInv

\* While deliveries of one sender do not overlap, a message has one row and each automation
\* answers it once, and once more per report that found the row, however often it is delivered
\* and whenever a statement fails or the process restarts.
THEOREM InboxInvCorrect == Spec => []InboxInv
<1> QED BY IInvInit, IInvNext, InvariantsHold, PTL DEF Spec

\* While nothing fails and deliveries do not overlap, the unread count stays within what the
\* user has not seen.
THEOREM NotCountedTwiceCorrect == Spec => []NotCountedTwice
<1> QED BY IInvInit, IInvNext, InvariantsHold, PTL DEF Spec

\* A status is one that WhatsApp has reported, in whatever order the reports are handled, or
\* the FAILED of a row whose own send threw.
THEOREM StatusIsWitnessedCorrect == Spec => []StatusIsWitnessed
<1> QED BY IInvInit, IInvNext, InvariantsHold, PTL DEF Spec

\* Handled one at a time, a redelivery is not counted as unread and a status does not go back.
THEOREM NothingGoesBackCorrect == Spec => NothingGoesBack
<1>1. IInv /\ [Next]_vars =>
        [\A p \in Phones : apart /\ unread'[p] > unread[p] =>
            \E h \in Handlers : Busy(h) /\ Sender(h) = p /\ rows[msg[h]] = 0]_vars
  BY UnreadStep DEF IInv
<1>2. IInv /\ [Next]_vars =>
        [\A o \in Out : apart => Rank[out'[o]] >= Rank[out[o]]]_vars
  BY OutboxNext DEF IInv
<1> QED BY <1>1, <1>2, IInvInit, IInvNext, PTL
        DEF Spec, NothingGoesBack, RedeliveryIsSilent, StatusNeverRetreats
=============================================================================
