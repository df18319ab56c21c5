----------------------------- MODULE WaConnection -----------------------------
(***************************************************************************)
(* One WhatsApp account: its row and session rows, its encrypted session   *)
(* files, the provider's map from account to Baileys socket, every socket   *)
(* object that was made for it, and the calls and event handlers that act   *)
(* on them, one action per awaited step.  whatsapp.service.ts and           *)
(* baileys-whatsapp.provider.ts touch one account per call, so one account  *)
(* is enough.                                                               *)
(*                                                                          *)
(* Two assumptions are fixed for a behaviour.  orderly: a connect,          *)
(* disconnect or remove begins only when nothing else is under way for the  *)
(* account, WhatsApp neither restarts a pairing nor unlinks the device in   *)
(* the middle of such a call, and status updates reach the database in the  *)
(* order they were started.  sound: no statement, file operation or lookup  *)
(* of the Baileys version fails.  Nothing in the code enforces either; what *)
(* depends on one names it.                                                 *)
(***************************************************************************)
EXTENDS Integers, Sequences, FiniteSets, SequencesExt

CONSTANTS
    Calls,          \* HTTP calls and sends that may be under way at once
    Sockets,        \* socket objects that may be alive or winding down at once
    Boot,           \* the process that runs onModuleInit
    NoSocket,       \* sockets.get(accountId) is undefined
    Modes,          \* the values of <<orderly, sound>> to explore
    MaxWrites,      \* bound on status updates under way
    MaxRestarts     \* bound on restarts of the process

ASSUME SlotsAssumption ==
    /\ Boot \notin Calls \union Sockets
    /\ NoSocket \notin Sockets
    /\ Calls \intersect Sockets = {}
    /\ Modes \subseteq BOOLEAN \X BOOLEAN
    /\ MaxWrites \in Nat /\ MaxRestarts \in Nat

VARIABLES
    orderly,
    sound,      \* the assumptions above
    row,        \* the account's status column, or GONE once the row is deleted
    active,     \* it has a session row with status ACTIVE
    files,      \* the session directory: none, fresh (not paired) or paired
    current,    \* the entry of the provider's sockets map
    sock,       \* each socket object's state
    qr,         \* sockets whose QR code is being rendered to an image
    writes,     \* handleStatusEvent: updates of the row under way
    revokes,    \* handleStatusEvent: revocations of the session rows under way
    pc,         \* the step each call or handler executes next
    via,        \* the socket a call holds
    restarts    \* restarts of the process so far

modes == <<orderly, sound>>
vars == <<modes, row, active, files, current, sock, qr, writes, revokes,
          pc, via, restarts>>

AccountStatus == {"DISCONNECTED", "CONNECTING", "CONNECTED", "LOGGED_OUT"}
\* pairing shows QR codes, scanned has its credentials and waits for WhatsApp to close
\* it, resuming has credentials and is not open yet.
Live == {"pairing", "scanned", "resuming", "open"}
HasUser == {"scanned", "resuming", "open"}
\* Calls, the close handler of each socket, and the start of the application.
Procs == Calls \union Sockets \union {Boot}

disk == <<row, active, files>>
events == <<writes, revokes, qr>>
live == <<current, sock>>

Goes(p, step) == pc' = [pc EXCEPT ![p] = step]
LiveSockets == {s \in Sockets : sock[s] \in Live}
\* A connect, disconnect or remove is under way.
Calling == \E c \in Calls : pc[c] \notin {"idle", "sent", "resolve"}
\* Nothing is under way for the account.
Quiet ==
    /\ ~Calling /\ \A p \in Procs \ Calls : pc[p] = "idle"
    /\ writes = <<>> /\ revokes = 0 /\ qr = {}
\* A slot for a new socket object: the old one is closed and nothing refers to it.
Free(s) ==
    /\ sock[s] = "closed" /\ pc[s] = "idle" /\ s \notin qr
    /\ \A c \in Calls : via[c] # s
Emits(status) == writes' = Append(writes, status)

Init ==
    /\ \E mode \in Modes : orderly = mode[1] /\ sound = mode[2]
    /\ row = "DISCONNECTED" /\ active = FALSE /\ files = "none"
    /\ current = NoSocket /\ sock = [s \in Sockets |-> "closed"]
    /\ qr = {} /\ writes = <<>> /\ revokes = 0
    /\ pc = [p \in Procs |-> "idle"]
    /\ via = [c \in Calls |-> NoSocket]
    /\ restarts = 0

-----------------------------------------------------------------------------
(* provider.connect, run by the service, by a close handler and at start-up. *)

\* Fault: a second connect does not look at the map.
StartsConnectAgain(p) == Goes(p, "auth")

\* The check of the map runs before the first await.
StartsConnect(p) == Goes(p, IF current # NoSocket THEN "idle" ELSE "auth")

\* useEncryptedFileAuthState: makes the directory unless it is there, reads creds.json;
\* a file that cannot be read counts as none.
readAuthState(p) ==
    /\ pc[p] = "auth"
    /\ files' = IF files = "none" THEN "fresh" ELSE files
    /\ \/ Goes(p, IF files = "paired" THEN "paired" ELSE "fresh")
       \/ ~sound /\ Goes(p, "fresh")
    /\ UNCHANGED <<modes, row, active, via, restarts, events, live>>

\* fetchLatestBaileysVersion has answered: the socket is made with the credentials that
\* were read, and put into the map.
makeSocket(p) ==
    /\ pc[p] \in {"fresh", "paired"}
    /\ \E s \in Sockets :
        /\ Free(s)
        /\ sock' = [sock EXCEPT ![s] = IF pc[p] = "paired" THEN "resuming" ELSE "pairing"]
        /\ current' = s
    /\ Goes(p, "idle")
    /\ UNCHANGED <<modes, via, restarts, disk, events>>

-----------------------------------------------------------------------------
(* WhatsAppService *)

BeginCall(c, what) ==
    /\ pc[c] \in {"idle", "sent"} /\ row # "GONE"
    /\ orderly => Quiet
    /\ Goes(c, what)
    /\ UNCHANGED <<modes, via, restarts, disk, events, live>>

\* findOne and the look at the live socket, which refuses one that has a user.
connect(c) ==
    /\ pc[c] = "connect"
    /\ Goes(c, IF row = "GONE" \/ (current # NoSocket /\ sock[current] \in HasUser)
               THEN "idle" ELSE "session")
    /\ UNCHANGED <<modes, via, restarts, disk, events, live>>

\* The session row.  Its foreign key fails when the account has gone.
createSession(c) ==
    /\ pc[c] = "session"
    /\ IF row = "GONE" THEN Goes(c, "idle") /\ UNCHANGED active
       ELSE StartsConnect(c) /\ active' = TRUE
    /\ UNCHANGED <<modes, row, files, via, restarts, events, live>>

\* Fault: remove discards the session files only when there was a socket.
RemovingKept == [rm |-> "delete", logout |-> "removeLogout"]

Removing == [rm |-> "removeRm", logout |-> "removeLogout"]
\* findOne of disconnect and remove, remove's check of the status column, and the start
\* of provider.disconnect, which takes the socket of the map.
disconnect(c) ==
    /\ pc[c] \in {"disconnect", "remove"}
    /\ IF row = "GONE" \/ (pc[c] = "remove" /\ row = "CONNECTED")
       THEN Goes(c, "idle") /\ UNCHANGED via
       ELSE /\ via' = [via EXCEPT ![c] = current]
            /\ LET next == IF current = NoSocket THEN "rm" ELSE "logout"
               IN  pc' = [pc EXCEPT ![c] = IF @ = "remove" THEN Removing[next] ELSE next]
    /\ UNCHANGED <<modes, restarts, disk, events, live>>

\* sock.logout() has answered.  It ends the socket with the reason loggedOut, so the
\* socket's close handler starts and awaits its rm; or it fails, and sock.end() closes
\* the socket without a reason.  Either way the map's entry, whichever socket it holds by
\* now, is deleted.
logout(c) ==
    /\ pc[c] \in {"logout", "removeLogout"}
    /\ current' = NoSocket
    /\ via' = [via EXCEPT ![c] = NoSocket]
    /\ LET s == via[c]
           next == IF pc[c] = "logout" THEN "rm" ELSE "removeRm"
       IN  \/ /\ sock[s] \in Live
              /\ sock' = [sock EXCEPT ![s] = "closed"]
              /\ pc' = [pc EXCEPT ![c] = next, ![s] = "closeRm"]
              /\ UNCHANGED writes
           \/ /\ sock[s] \in Live /\ Len(writes) < MaxWrites
              /\ sock' = [sock EXCEPT ![s] = "closed"]
              /\ Goes(c, next) /\ Emits("DISCONNECTED")
           \/ sock[s] \notin Live /\ Goes(c, next) /\ UNCHANGED <<sock, writes>>
    /\ UNCHANGED <<modes, restarts, disk, revokes, qr>>

\* The session directory is removed and LOGGED_OUT is emitted; remove goes on.
discard(c) ==
    /\ pc[c] \in {"rm", "removeRm"} /\ Len(writes) < MaxWrites
    /\ files' = "none" /\ Emits("LOGGED_OUT")
    /\ Goes(c, IF pc[c] = "removeRm" THEN "delete" ELSE "idle")
    /\ UNCHANGED <<modes, row, active, via, restarts, revokes, qr, live>>

\* The row is deleted and its session rows with it; messages or campaigns that refer to
\* it make the delete fail.
delete(c) ==
    /\ pc[c] = "delete"
    /\ Goes(c, "idle")
    /\ \/ row' = "GONE" /\ active' = FALSE
       \/ UNCHANGED <<row, active>>
    /\ UNCHANGED <<modes, files, via, restarts, events, live>>

\* handleStatusEvent: the row's status, then for LOGGED_OUT the session rows.  An update
\* that fails, that of a deleted row always, is only logged.
handleStatusEvent(i) ==
    /\ i \in 1..Len(writes) /\ (orderly => i = 1)
    /\ writes' = RemoveAt(writes, i)
    /\ \/ row # "GONE" /\ row' = writes[i]
       \/ (row = "GONE" \/ ~sound) /\ UNCHANGED row
    /\ revokes' = IF writes[i] = "LOGGED_OUT" THEN revokes + 1 ELSE revokes
    /\ UNCHANGED <<modes, active, files, pc, via, restarts, qr, live>>

\* The event emitter logs what the listener throws.
revokeSessions ==
    /\ revokes > 0
    /\ revokes' = revokes - 1
    /\ active' = FALSE \/ (~sound /\ UNCHANGED active)
    /\ UNCHANGED <<modes, row, files, pc, via, restarts, writes, qr, live>>

-----------------------------------------------------------------------------
(* The socket's events and handleConnectionUpdate. *)

Untouched == UNCHANGED <<modes, via, restarts, revokes>>

\* A QR code arrives; its handler awaits the rendering.
QrArrives(s) ==
    /\ sock[s] = "pairing" /\ s \notin qr
    /\ qr' = qr \union {s}
    /\ Untouched /\ UNCHANGED <<disk, live, pc, writes>>

showQr(s) ==
    /\ s \in qr /\ Len(writes) < MaxWrites
    /\ qr' = qr \ {s} /\ Emits("CONNECTING")
    /\ Untouched /\ UNCHANGED <<disk, live, pc>>

\* The phone scans the code and creds.update saves the credentials.  When the directory
\* has been removed that fails, nobody catches it, and the process stops: Restart.
Scanned(s) ==
    /\ sock[s] = "pairing" /\ files # "none"
    /\ sock' = [sock EXCEPT ![s] = "scanned"]
    /\ files' = "paired"
    /\ Untouched /\ UNCHANGED <<row, active, current, pc, writes, qr>>

\* Fault: the close that follows a pairing is taken for the end.
restartForgotten(s) ==
    /\ sock[s] = "scanned" /\ (orderly => ~Calling)
    /\ sock' = [sock EXCEPT ![s] = "closed"]
    /\ current' = NoSocket
    /\ Untouched /\ UNCHANGED <<disk, writes, qr, pc>>

\* WhatsApp closes a socket that was just paired with restartRequired; the handler
\* deletes the map's entry and connects again.
restartRequired(s) ==
    /\ sock[s] = "scanned" /\ (orderly => ~Calling)
    /\ sock' = [sock EXCEPT ![s] = "closed"]
    /\ current' = NoSocket
    /\ Goes(s, "auth")
    /\ Untouched /\ UNCHANGED <<disk, writes, qr>>

opened(s) ==
    /\ sock[s] = "resuming" /\ Len(writes) < MaxWrites
    /\ sock' = [sock EXCEPT ![s] = "open"]
    /\ Emits("CONNECTED")
    /\ Untouched /\ UNCHANGED <<disk, current, pc, qr>>

\* Fault: the handler tells nobody.
closedSilently(s) ==
    /\ sock[s] \in Live
    /\ sock' = [sock EXCEPT ![s] = "closed"]
    /\ current' = NoSocket
    /\ Untouched /\ UNCHANGED <<disk, pc, qr, writes>>

\* Any other close drops the socket.
closed(s) ==
    /\ sock[s] \in Live /\ Len(writes) < MaxWrites
    /\ sock' = [sock EXCEPT ![s] = "closed"]
    /\ current' = NoSocket
    /\ Emits("DISCONNECTED")
    /\ Untouched /\ UNCHANGED <<disk, pc, qr>>

\* The phone unlinked this device: the handler removes the files first.
loggedOut(s) ==
    /\ sock[s] \in {"resuming", "open"} /\ (orderly => ~Calling)
    /\ sock' = [sock EXCEPT ![s] = "closed"]
    /\ current' = NoSocket
    /\ Goes(s, "closeRm")
    /\ Untouched /\ UNCHANGED <<disk, writes, qr>>

discardClosed(s) ==
    /\ pc[s] = "closeRm" /\ Len(writes) < MaxWrites
    /\ files' = "none" /\ Emits("LOGGED_OUT")
    /\ Goes(s, "idle")
    /\ Untouched /\ UNCHANGED <<row, active, live, qr>>

-----------------------------------------------------------------------------
(* Sending: requireSocket runs at once, then the number is looked up and the message *)
(* goes out over the socket the call took, if that is still open.                    *)

sendMessage(c) ==
    /\ pc[c] \in {"idle", "sent"}
    /\ current # NoSocket /\ sock[current] \in HasUser
    /\ via' = [via EXCEPT ![c] = current]
    /\ Goes(c, "resolve")
    /\ UNCHANGED <<modes, restarts, disk, events, live>>

\* Fault: a message given to a closed socket is kept and goes out.
resolvedAnyway(c) ==
    /\ pc[c] = "resolve"
    /\ \E next \in {"sent", "idle"} : Goes(c, next)
    /\ via' = [via EXCEPT ![c] = NoSocket]
    /\ UNCHANGED <<modes, restarts, disk, events, live>>

resolved(c) ==
    /\ pc[c] = "resolve"
    /\ \/ sock[via[c]] = "open" /\ Goes(c, "sent")
       \/ Goes(c, "idle")
    /\ via' = [via EXCEPT ![c] = NoSocket]
    /\ UNCHANGED <<modes, restarts, disk, events, live>>

-----------------------------------------------------------------------------
(* Failures and restarts *)

\* What a removal of the session directory that does not finish may leave.
CutShort(p) ==
    /\ pc[p] \in {"rm", "removeRm", "closeRm"} /\ files # "none"
    /\ files' = "fresh"

\* A step fails.  It ends the call, which is answered with an error, or the connect that
\* onModuleInit started, which is logged.  What a socket's handler throws nobody catches:
\* the process stops, see Restart.
fails(p) ==
    /\ ~sound
    /\ \/ p \in Calls /\ pc[p] \in {"connect", "session", "auth", "fresh", "paired",
                                    "disconnect", "remove", "rm", "removeRm"}
       \/ p = Boot /\ pc[p] \in {"auth", "fresh", "paired"}
    /\ Goes(p, "idle")
    /\ UNCHANGED files \/ CutShort(p)
    /\ UNCHANGED <<modes, row, active, via, restarts, events, live>>

(* The process stops: sockets, map, calls and updates under way are lost.  It starts  *)
(* again and connects the accounts the database calls CONNECTED.                      *)

Restart ==
    /\ restarts < MaxRestarts /\ restarts' = restarts + 1
    /\ sock' = [s \in Sockets |-> "closed"] /\ current' = NoSocket
    /\ qr' = {} /\ writes' = <<>> /\ revokes' = 0
    /\ pc' = [p \in Procs |-> IF p = Boot THEN "find" ELSE "idle"]
    /\ via' = [c \in Calls |-> NoSocket]
    /\ UNCHANGED files \/ \E p \in Procs : CutShort(p)
    /\ UNCHANGED <<modes, row, active>>

onModuleInit ==
    /\ pc[Boot] = "find"
    /\ IF row = "CONNECTED" THEN StartsConnect(Boot) ELSE Goes(Boot, "idle")
    /\ UNCHANGED <<modes, via, restarts, disk, events, live>>

-----------------------------------------------------------------------------
Call(c) ==
    \/ connect(c) \/ createSession(c)
    \/ disconnect(c) \/ logout(c) \/ discard(c) \/ delete(c)
    \/ resolved(c)
Connects(p) == readAuthState(p) \/ makeSocket(p)
Answered(s) == restartRequired(s) \/ opened(s) \/ loggedOut(s) \/ (sock[s] # "open" /\ closed(s))
Persists == (\E i \in 1..Len(writes) : handleStatusEvent(i)) \/ revokeSessions

Next ==
    \/ \E c \in Calls :
        \/ \E what \in {"connect", "disconnect", "remove"} : BeginCall(c, what)
        \/ sendMessage(c) \/ Call(c)
    \/ \E p \in Procs : Connects(p) \/ fails(p)
    \/ \E s \in Sockets :
        \/ QrArrives(s) \/ showQr(s) \/ Scanned(s) \/ restartRequired(s)
        \/ opened(s) \/ closed(s) \/ loggedOut(s) \/ discardClosed(s)
    \/ Persists \/ Restart \/ onModuleInit

\* Every awaited step settles; WhatsApp answers a socket that is resuming or was just
\* paired, or the socket gives up.  Nobody has to call, scan a code or lose a connection.
Fairness ==
    /\ \A c \in Calls : WF_vars(Call(c))
    /\ \A p \in Procs : WF_vars(Connects(p))
    /\ \A s \in Sockets :
        /\ WF_vars(sock[s] \in {"scanned", "resuming"} /\ Answered(s))
        /\ WF_vars(showQr(s)) /\ WF_vars(discardClosed(s))
    /\ WF_vars(Persists) /\ WF_vars(onModuleInit)

Spec == Init /\ [][Next]_vars /\ Fairness
-----------------------------------------------------------------------------
(* Properties *)

\* Every part of the state has the shape the code gives it.
TypeOK ==
    /\ orderly \in BOOLEAN /\ sound \in BOOLEAN
    /\ row \in AccountStatus \union {"GONE"}
    /\ active \in BOOLEAN
    /\ files \in {"none", "fresh", "paired"}
    /\ current \in Sockets \union {NoSocket}
    /\ sock \in [Sockets -> Live \union {"closed"}]
    /\ qr \in SUBSET Sockets
    /\ writes \in Seq(AccountStatus) /\ revokes \in Nat
    /\ pc \in [Procs -> {"idle", "connect", "session", "auth", "fresh", "paired",
                         "disconnect", "remove", "logout", "removeLogout", "rm",
                         "removeRm", "delete", "closeRm", "resolve", "sent", "find"}]
    /\ via \in [Calls -> Sockets \union {NoSocket}]
    /\ restarts \in 0..MaxRestarts

\* The map never offers a dead socket to a sender, whatever overlaps: each way a socket
\* closes takes the entry away, even when the entry is another socket's by then.
NoDeadSocket == current # NoSocket => sock[current] \in Live

\* While calls do not overlap, an account has one live socket at most, and it is the one
\* that disconnect and remove would find.
OneLiveSocket == orderly => LiveSockets \subseteq {current}

\* While calls do not overlap, a removed account leaves neither a socket nor files.
RemovedIsGone == orderly /\ row = "GONE" => LiveSockets = {} /\ files = "none"

\* While calls do not overlap and nothing fails, what the database says once everything has
\* settled is so: a CONNECTED account has a socket, and one that is off has no open one.  (A
\* start that cannot connect leaves CONNECTED behind, so does an update that is lost.)
StatusIsTruthful ==
    orderly /\ sound /\ Quiet =>
        /\ row = "CONNECTED" => current # NoSocket
        /\ row \in {"DISCONNECTED", "LOGGED_OUT"} => \A s \in Sockets : sock[s] # "open"

\* While calls do not overlap, an open socket has what it needs to survive a restart of the
\* process: paired credentials on disk, whatever fails, and, if nothing does and once all has
\* settled, an ACTIVE session row.
LinkSurvivesRestart ==
    orderly => \A s \in Sockets : sock[s] = "open" =>
        /\ files = "paired"
        /\ sound /\ Quiet => active

\* While calls do not overlap, WhatsApp accepts nothing in the name of an account that has
\* been removed, although sends overlap with everything.
NoSendAfterRemoval ==
    [][\A c \in Calls : orderly /\ row = "GONE" => ~(pc[c] = "resolve" /\ pc'[c] = "sent")]_vars

\* A phone that scanned a code is not left at "connecting" (handleConnectionUpdate): while
\* calls do not overlap and nothing fails, the status moves on unless the process restarts.
PairingConcludes ==
    \A s \in Sockets :
        (orderly /\ sound /\ sock[s] = "scanned") ~> (row # "CONNECTING" \/ restarts > 0)

\* A restart does not strand an account that was CONNECTED (onModuleInit): while calls do not
\* overlap and nothing fails, it gets a socket again, or its status stops saying so.  (A
\* connect that fails at the start is not tried again.)
RestartReconnects ==
    (orderly /\ sound /\ pc[Boot] = "find" /\ row = "CONNECTED")
        ~> (current # NoSocket \/ row # "CONNECTED")

\* The map and the sockets of an account agree: every closing, reconnecting and starting
\* again leaves at most one socket, which senders find while it lives.
SocketInv == TypeOK /\ NoDeadSocket /\ OneLiveSocket

\* The account's row, its session row and its files tell what its socket is and needs, once
\* the asynchronous status listeners are done, under the assumptions that each part names.
AccountInv == StatusIsTruthful /\ LinkSurvivesRestart

\* A pairing and a restart both lead somewhere, while calls do not overlap and nothing fails:
\* the account's status is not left behind.
ConnectionsComeBack == PairingConcludes /\ RestartReconnects
=============================================================================
