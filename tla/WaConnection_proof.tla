------------------------- MODULE WaConnection_proof -------------------------
(***************************************************************************)
(* For any number of calls, sockets, restarts and pending updates: senders   *)
(* never find a dead socket, and while calls of one account do not overlap   *)
(* it has one live socket at most and nothing is left of it once the account *)
(* is removed, whatever fails; while nothing fails, its row, session row and *)
(* files tell what that socket is.                                           *)
(***************************************************************************)
EXTENDS WaConnection, SequenceTheorems, TLAPS

USE SlotsAssumption

CallSteps == {"idle", "connect", "session", "auth", "fresh", "paired", "disconnect", "remove",
              "logout", "removeLogout", "rm", "removeRm", "delete", "resolve", "sent"}
SocketSteps == {"idle", "auth", "fresh", "paired", "closeRm"}
BootSteps == {"idle", "find", "auth", "fresh", "paired"}
Steps == CallSteps \union SocketSteps \union BootSteps

\* Types, each process in steps of its own, and a socket for each step that uses one.
WaShape ==
    /\ orderly \in BOOLEAN /\ sound \in BOOLEAN /\ active \in BOOLEAN
    /\ row \in AccountStatus \union {"GONE"} /\ files \in {"none", "fresh", "paired"}
    /\ current \in Sockets \union {NoSocket} /\ sock \in [Sockets -> Live \union {"closed"}]
    /\ qr \in SUBSET Sockets /\ writes \in Seq(AccountStatus) /\ revokes \in Nat
    /\ pc \in [Procs -> Steps] /\ via \in [Calls -> Sockets \union {NoSocket}]
    /\ restarts \in 0 .. MaxRestarts
    /\ \A c \in Calls :
        /\ pc[c] \in CallSteps
        /\ pc[c] \in {"logout", "removeLogout", "resolve"} => via[c] \in Sockets
    /\ \A s \in Sockets : pc[s] \in SocketSteps
    /\ pc[Boot] \in BootSteps
    /\ NoDeadSocket

\* A process that makes a socket, and a call that began alone.
Connecting(p) == pc[p] \in {"auth", "fresh", "paired"}
Caller(c) == pc[c] \notin {"idle", "sent", "resolve"}
\* The account has a socket or gets one, or may get one by what is under way.
Attached == current # NoSocket \/ \E p \in Procs : Connecting(p)
Up ==
    \/ Attached
    \/ \E c \in Calls : pc[c] \in {"connect", "session"}
    \/ pc[Boot] = "find"
Pending(status) == \E i \in 1 .. Len(writes) : writes[i] = status
\* No logout is being carried out.
NoLogout ==
    /\ revokes = 0 /\ ~Pending("LOGGED_OUT")
    /\ \A s \in Sockets : pc[s] # "closeRm"
    /\ \A c \in Calls : pc[c] \notin {"rm", "removeRm", "delete"}

\* Calls, close handlers and the start of the process make one socket at a time, and no
\* logout is carried out meanwhile.
Control ==
    /\ LiveSockets \subseteq {current}
    /\ \A c \in Calls : Caller(c) =>
        /\ pc[Boot] = "idle" /\ \A s \in Sockets : pc[s] \in {"idle", "closeRm"}
        /\ \A d \in Calls : Caller(d) => d = c
    /\ pc[Boot] = "find" =>
        /\ \A p \in Procs : p # Boot => pc[p] = "idle"
        /\ current = NoSocket /\ writes = <<>> /\ qr = {}
    /\ \A p \in Procs : Connecting(p) =>
        current = NoSocket /\ \A q \in Procs : Connecting(q) => q = p
    /\ \A c \in Calls : pc[c] \in {"logout", "removeLogout"} => current \in {via[c], NoSocket}
    /\ Up => NoLogout

\* The credentials a socket needs are on disk; a removed account has none.
Credentials ==
    /\ \A p \in Procs :
        /\ pc[p] = "fresh" => files # "none"
        /\ pc[p] = "paired" => files = "paired"
    /\ \A s \in Sockets :
        /\ sock[s] = "pairing" => files # "none"
        /\ sock[s] \in HasUser => files = "paired"
    /\ row = "GONE" =>
        /\ current = NoSocket /\ files = "none"
        /\ \A c \in Calls : ~Caller(c)
        /\ \A p \in Procs : ~Connecting(p)
    /\ (\E c \in Calls : pc[c] = "delete") => files = "none"

\* An account that is connected, or is about to be called so, has an ACTIVE session row:
\* a logout that takes it follows every CONNECTED.
SessionRow ==
    /\ row # "GONE" /\ (Attached \/ row = "CONNECTED" \/ Pending("CONNECTED")) => active
    /\ revokes > 0 => row # "CONNECTED" /\ ~Pending("CONNECTED")
    /\ \A i, j \in 1 .. Len(writes) : i < j /\ writes[i] = "LOGGED_OUT" => writes[j] # "CONNECTED"

\* What the row will say once the updates under way are written.
Final == IF writes = <<>> THEN row ELSE writes[Len(writes)]
StatusFollows ==
    /\ Final = "CONNECTED" =>
        \/ Attached
        \/ \E s \in Sockets : pc[s] = "closeRm"
        \/ \E c \in Calls : pc[c] \in {"rm", "removeRm"}
        \/ pc[Boot] = "find"
    /\ \A s \in Sockets : sock[s] = "open" => Final \in {"CONNECTED", "CONNECTING"}

\* The inductive invariant: what holds whatever overlaps, while calls do not overlap, and
\* while nothing fails either.
WaIInv ==
    /\ WaShape
    /\ orderly => Control /\ Credentials
    /\ orderly /\ sound => SessionRow /\ StatusFollows

\* A step of a call, and of a socket.
CallStep(c) ==
    \/ \E what \in {"connect", "disconnect", "remove"} : BeginCall(c, what)
    \/ sendMessage(c) \/ Call(c)
SocketStep(s) ==
    \/ QrArrives(s) \/ showQr(s) \/ Scanned(s) \/ restartRequired(s)
    \/ opened(s) \/ closed(s) \/ loggedOut(s) \/ discardClosed(s)

-----------------------------------------------------------------------------
(* Helpers *)

\* A pending update is appended to the others.
LEMMA Emitted ==
  ASSUME WaShape, NEW status \in AccountStatus, Emits(status)
  PROVE  /\ writes' \in Seq(AccountStatus)
         /\ Len(writes') = Len(writes) + 1 /\ Len(writes) \in Nat
         /\ writes'[Len(writes')] = status
         /\ \A i \in 1 .. Len(writes) : writes'[i] = writes[i] /\ i \in 1 .. Len(writes')
         /\ \A i \in 1 .. Len(writes') : i = Len(writes') \/ i \in 1 .. Len(writes)
<1>1. writes \in Seq(AccountStatus) /\ writes' = Append(writes, status)
  BY DEF WaShape, Emits
<1>2. Len(writes) \in Nat
  BY <1>1, LenProperties
<1> QED BY <1>1, <1>2, AppendProperties

LEMMA Removed ==
  ASSUME WaShape, NEW i \in 1 .. Len(writes)
  PROVE  /\ RemoveAt(writes, i) \in Seq(AccountStatus)
         /\ writes[i] \in AccountStatus /\ Len(writes) \in Nat
         /\ Len(RemoveAt(writes, 1)) = Len(writes) - 1
         /\ \A j \in 1 .. Len(writes) - 1 :
                RemoveAt(writes, 1)[j] = writes[j + 1] /\ j + 1 \in 1 .. Len(writes)
<1>1. writes \in Seq(AccountStatus) /\ Len(writes) \in Nat
  BY LenProperties DEF WaShape
<1>2. RemoveAt(writes, i) \in Seq(AccountStatus)
  BY <1>1 DEF RemoveAt
<1>3. writes[i] \in AccountStatus
  BY <1>1
<1>4. /\ Len(RemoveAt(writes, 1)) = Len(writes) - 1
      /\ \A j \in 1 .. Len(writes) - 1 :
                RemoveAt(writes, 1)[j] = writes[j + 1] /\ j + 1 \in 1 .. Len(writes)
  <2>1. SubSeq(writes, 1, 1 - 1) = <<>>
    BY <1>1
  <2>2. RemoveAt(writes, 1) = SubSeq(writes, 2, Len(writes))
    BY <1>1, <2>1 DEF RemoveAt
  <2> QED BY <1>1, <2>2
<1> QED BY <1>1, <1>2, <1>3, <1>4

\* The processes are apart.
LEMMA ProcsApart ==
  /\ \A c \in Calls : c \in Procs /\ c \notin Sockets /\ c # Boot
  /\ \A s \in Sockets : s \in Procs /\ s \notin Calls /\ s # Boot /\ s # NoSocket
  /\ Boot \in Procs /\ \A p \in Procs : p \in Calls \/ p \in Sockets \/ p = Boot
  BY DEF Procs

LEMMA WaInit == Init => WaShape
<1> SUFFICES ASSUME Init PROVE WaShape
  OBVIOUS
<1>1. writes \in Seq(AccountStatus)
  BY DEF Init
<1>2. /\ orderly \in BOOLEAN /\ sound \in BOOLEAN /\ row \in AccountStatus /\ restarts \in 0 .. MaxRestarts
      /\ \A p \in Procs : pc[p] = "idle"
  BY DEF Init, AccountStatus
<1>3. /\ pc \in [Procs -> Steps] /\ via \in [Calls -> Sockets \union {NoSocket}]
      /\ sock \in [Sockets -> Live \union {"closed"}]
  BY DEF Init, Steps, CallSteps
<1> QED BY <1>1, <1>2, <1>3, ProcsApart
        DEF Init, WaShape, CallSteps, SocketSteps, BootSteps, NoDeadSocket

\* A step of a call moves the call, and logout the socket it closes.
LEMMA CallShape ==
  ASSUME WaShape, NEW c \in Calls, CallStep(c)
  PROVE  WaShape'
<1> USE ProcsApart DEF WaShape, NoDeadSocket, Goes, Steps, modes
<1>c. c \in Procs /\ c # Boot /\ c \notin Sockets
  OBVIOUS
<1>1. CASE \E what \in {"connect", "disconnect", "remove"} : BeginCall(c, what)
  BY <1>1 DEF BeginCall, disk, events, live, CallSteps
<1>2. CASE sendMessage(c)
  BY <1>2 DEF sendMessage, disk, events, live, CallSteps
<1>3. CASE connect(c)
  BY <1>3 DEF connect, disk, events, live, CallSteps
<1>4. CASE createSession(c)
  <2>1. /\ \E step \in {"idle", "auth"} : pc' = [pc EXCEPT ![c] = step]
        /\ active' \in BOOLEAN
        /\ UNCHANGED <<orderly, sound, row, files, via, restarts, writes, revokes, qr, current, sock>>
    BY <1>4 DEF createSession, StartsConnect, events, live
  <2> QED BY <2>1 DEF CallSteps
<1>5. CASE disconnect(c)
  <2>1. /\ \E step \in {"idle", "rm", "removeRm", "logout", "removeLogout"} :
              /\ pc' = [pc EXCEPT ![c] = step]
              /\ step \in {"logout", "removeLogout"} => via'[c] \in Sockets
        /\ via' \in [Calls -> Sockets \union {NoSocket}]
        /\ \A d \in Calls : d # c => via'[d] = via[d]
    BY <1>5 DEF disconnect, Removing
  <2>2. UNCHANGED <<orderly, sound, row, active, files, restarts, writes, revokes, qr, current, sock>>
    BY <1>5 DEF disconnect, disk, events, live
  <2> QED BY <2>1, <2>2 DEF CallSteps
<1>6. CASE logout(c)
  <2>1. /\ pc[c] \in {"logout", "removeLogout"} /\ via[c] \in Sockets /\ current' = NoSocket
        /\ via' = [via EXCEPT ![c] = NoSocket]
        /\ UNCHANGED <<orderly, sound, row, active, files, restarts, revokes, qr>>
    BY <1>6 DEF logout, disk
  <2>2. writes' \in Seq(AccountStatus)
    BY <1>6, Emitted DEF logout, AccountStatus
  <2>3. sock' \in [Sockets -> Live \union {"closed"}]
    BY <1>6 DEF logout
  <2>4. \E step \in {"rm", "removeRm"} :
            \/ pc' = [pc EXCEPT ![c] = step, ![via[c]] = "closeRm"]
            \/ pc' = [pc EXCEPT ![c] = step]
    BY <1>6 DEF logout
  <2>5. /\ pc' \in [Procs -> Steps] /\ pc'[c] \in {"rm", "removeRm"}
        /\ \A q \in Procs : q # c => pc'[q] = pc[q] \/ (q \in Sockets /\ pc'[q] = "closeRm")
    <3>1. PICK step \in {"rm", "removeRm"} :
            \/ pc' = [pc EXCEPT ![c] = step, ![via[c]] = "closeRm"]
            \/ pc' = [pc EXCEPT ![c] = step]
      BY <2>4
    <3>2. step \in Steps /\ "closeRm" \in Steps /\ via[c] \in Procs /\ via[c] # c
      BY <2>1 DEF CallSteps, SocketSteps
    <3>3. pc \in [Procs -> Steps]
      OBVIOUS
    <3> HIDE DEF Steps, WaShape, NoDeadSocket
    <3> QED BY <2>1, <3>1, <3>2, <3>3
  <2>6. \A d \in Calls : /\ pc'[d] \in CallSteps
                         /\ pc'[d] \in {"logout", "removeLogout", "resolve"} => via'[d] \in Sockets
    BY <2>1, <2>5 DEF CallSteps
  <2>7. pc'[Boot] \in BootSteps /\ \A s \in Sockets : pc'[s] \in SocketSteps
    BY <2>5 DEF SocketSteps
  <2>8. via' \in [Calls -> Sockets \union {NoSocket}]
    BY <2>1
  <2>9. NoDeadSocket' /\ current' \in Sockets \union {NoSocket}
    BY <2>1
  <2>10. /\ orderly' \in BOOLEAN /\ sound' \in BOOLEAN /\ active' \in BOOLEAN
         /\ row' \in AccountStatus \union {"GONE"} /\ files' \in {"none", "fresh", "paired"}
         /\ qr' \in SUBSET Sockets /\ revokes' \in Nat /\ restarts' \in 0 .. MaxRestarts
    BY <2>1
  <2>11. pc' \in [Procs -> Steps]
    BY <2>5
  <2> HIDE DEF Steps, NoDeadSocket
  <2> QED BY <2>2, <2>3, <2>6, <2>7, <2>8, <2>9, <2>10, <2>11
<1>7. CASE discard(c)
  BY <1>7, Emitted DEF discard, live, CallSteps, AccountStatus
<1>8. CASE delete(c)
  BY <1>8 DEF delete, events, live, CallSteps
<1>9. CASE resolved(c)
  BY <1>9 DEF resolved, disk, events, live, CallSteps
<1> QED BY <1>1, <1>2, <1>3, <1>4, <1>5, <1>6, <1>7, <1>8, <1>9 DEF CallStep, Call

\* A step of a socket moves the socket and its close handler.
LEMMA SocketShape ==
  ASSUME WaShape, NEW s \in Sockets, SocketStep(s)
  PROVE  WaShape'
<1> USE ProcsApart DEF WaShape, NoDeadSocket, Goes, Steps, Untouched, modes
<1>s. s \in Procs /\ s # Boot /\ s \notin Calls
  OBVIOUS
<1>1. CASE QrArrives(s)
  BY <1>1 DEF QrArrives, disk, live
<1>2. CASE showQr(s)
  BY <1>2, Emitted DEF showQr, disk, live, AccountStatus
<1>3. CASE Scanned(s)
  BY <1>3 DEF Scanned, Live
<1>4. CASE restartRequired(s)
  BY <1>4 DEF restartRequired, disk, SocketSteps
<1>5. CASE opened(s)
  BY <1>5, Emitted DEF opened, disk, Live, AccountStatus
<1>6. CASE closed(s)
  BY <1>6, Emitted DEF closed, disk, AccountStatus
<1>7. CASE loggedOut(s)
  BY <1>7 DEF loggedOut, disk, SocketSteps
<1>8. CASE discardClosed(s)
  BY <1>8, Emitted DEF discardClosed, live, SocketSteps, AccountStatus
<1> QED BY <1>1, <1>2, <1>3, <1>4, <1>5, <1>6, <1>7, <1>8 DEF SocketStep

\* A connect, whichever process runs it, and a step that fails.
LEMMA ConnectShape ==
  ASSUME WaShape, NEW p \in Procs, Connects(p) \/ fails(p)
  PROVE  WaShape'
<1> USE ProcsApart
    DEF WaShape, NoDeadSocket, Goes, Steps, CallSteps, SocketSteps, BootSteps, modes
<1>1. CASE readAuthState(p)
  <2>1. /\ pc' \in [Procs -> Steps] /\ pc'[p] \in {"paired", "fresh"}
        /\ \A q \in Procs : q # p => pc'[q] = pc[q]
    BY <1>1 DEF readAuthState
  <2> QED BY <1>1, <2>1 DEF readAuthState, events, live
<1>2. CASE makeSocket(p)
  <2>1. PICK s \in Sockets :
            /\ sock' = [sock EXCEPT ![s] = IF pc[p] = "paired" THEN "resuming" ELSE "pairing"]
            /\ current' = s
    BY <1>2 DEF makeSocket
  <2>2. /\ pc' \in [Procs -> Steps] /\ pc'[p] = "idle"
        /\ \A q \in Procs : q # p => pc'[q] = pc[q]
    BY <1>2 DEF makeSocket
  <2>3. sock' \in [Sockets -> Live \union {"closed"}] /\ sock'[s] \in Live
    BY <2>1 DEF Live
  <2> QED BY <1>2, <2>1, <2>2, <2>3 DEF makeSocket, disk, events
<1>3. CASE fails(p)
  <2>1. /\ pc' \in [Procs -> Steps] /\ pc'[p] = "idle"
        /\ \A q \in Procs : q # p => pc'[q] = pc[q]
    BY <1>3 DEF fails
  <2>2. files' \in {"none", "fresh", "paired"}
    BY <1>3 DEF fails, CutShort
  <2> QED BY <1>3, <2>1, <2>2 DEF fails, events, live
<1> QED BY <1>1, <1>2, <1>3 DEF Connects

LEMMA OtherShape ==
  ASSUME WaShape, Persists \/ Restart \/ onModuleInit \/ UNCHANGED vars
  PROVE  WaShape'
<1> USE ProcsApart DEF WaShape, NoDeadSocket, modes
<1>1. CASE \E i \in 1 .. Len(writes) : handleStatusEvent(i)
  <2>1. PICK i \in 1 .. Len(writes) : handleStatusEvent(i)
    BY <1>1
  <2>0. RemoveAt(writes, i) \in Seq(AccountStatus) /\ writes[i] \in AccountStatus
    BY Removed
  <2>2. writes' \in Seq(AccountStatus) /\ row' \in AccountStatus \union {"GONE"} /\ revokes' \in Nat
    <3>1. writes' = RemoveAt(writes, i) /\ row' \in {row, writes[i]} /\ revokes' \in {revokes, revokes + 1}
      BY <2>1 DEF handleStatusEvent
    <3> HIDE DEF NoDeadSocket
    <3> QED BY <2>0, <3>1
  <2>3. UNCHANGED <<orderly, sound, active, files, pc, via, restarts, qr, current, sock>>
    BY <2>1 DEF handleStatusEvent, live
  <2> QED BY <2>2, <2>3
<1>2. CASE revokeSessions
  <2>1. revokes' \in Nat /\ active' \in BOOLEAN
    <3>1. revokes > 0 /\ revokes' = revokes - 1
      BY <1>2 DEF revokeSessions
    <3>2. active' = FALSE \/ active' = active
      BY <1>2, Zenon DEF revokeSessions
    <3>3. revokes' \in Nat
      BY <3>1
    <3>4. active' \in BOOLEAN
      BY <3>2, Zenon
    <3> QED BY <3>3, <3>4
  <2>2. UNCHANGED <<orderly, sound, row, files, pc, via, restarts, writes, qr, current, sock>>
    BY <1>2 DEF revokeSessions, live
  <2> QED BY <2>1, <2>2
<1>3. CASE Restart
  <2>1. files' \in {"none", "fresh", "paired"}
    BY <1>3 DEF Restart, CutShort
  <2> QED BY <1>3, <2>1 DEF Restart, Steps, CallSteps, SocketSteps, BootSteps
<1>4. CASE onModuleInit
  BY <1>4 DEF onModuleInit, StartsConnect, Goes, disk, events, live, Steps, BootSteps
<1>5. CASE UNCHANGED vars
  BY <1>5 DEF vars
<1> QED BY <1>1, <1>2, <1>3, <1>4, <1>5 DEF Persists

-----------------------------------------------------------------------------
(* One socket at a time *)

\* A process moves, and no other.
LEMMA Moves ==
  ASSUME WaShape, NEW p \in Procs, NEW step, Goes(p, step)
  PROVE  pc'[p] = step /\ \A q \in Procs : q # p => pc'[q] = pc[q]
  BY DEF Goes, WaShape

\* What a status update adds to those pending.
LEMMA EmittedPending ==
  ASSUME WaShape, NEW status \in AccountStatus, Emits(status)
  PROVE  /\ \A other : Pending(other)' <=> Pending(other) \/ other = status
         /\ writes' # <<>> /\ Final' = status
<1> DEFINE n == Len(writes')
<1>1. /\ n = Len(writes) + 1 /\ Len(writes) \in Nat /\ writes'[n] = status
      /\ \A i \in 1 .. Len(writes) : writes'[i] = writes[i] /\ i \in 1 .. n
      /\ \A i \in 1 .. n : i = n \/ i \in 1 .. Len(writes)
  BY Emitted
<1>2. n \in 1 .. n /\ writes' # <<>>
  BY <1>1
<1>3. Final' = status
  BY <1>1, <1>2 DEF Final
<1>4. \A other : Pending(other)' <=> Pending(other) \/ other = status
  BY <1>1, <1>2, Zenon DEF Pending
<1> QED BY <1>2, <1>3, <1>4

LEMMA CallControl ==
  ASSUME WaShape, Control, orderly, NEW c \in Calls, CallStep(c)
  PROVE  Control'
<1> USE ProcsApart
<1>c. c \in Procs /\ c # Boot /\ c \notin Sockets
  OBVIOUS
<1> USE DEF Control, Up, Attached, NoLogout, Connecting, Caller
<1>1. CASE \E what \in {"connect", "disconnect", "remove"} : BeginCall(c, what)
  <2>1. PICK what \in {"connect", "disconnect", "remove"} : BeginCall(c, what)
    BY <1>1
  <2>2. Quiet /\ UNCHANGED <<via, current, sock, writes, revokes, qr>>
    BY <2>1 DEF BeginCall, events, live
  <2>3. pc'[c] = what /\ \A q \in Procs : q # c => pc'[q] = pc[q]
    BY <2>1, Moves DEF BeginCall
  <2>4. /\ \A d \in Calls : ~Caller(d) /\ \A q \in Procs : q \notin Calls => pc[q] = "idle"
        /\ revokes = 0 /\ writes = <<>>
    BY <2>2 DEF Quiet, Calling
  <2>5. ~Pending("LOGGED_OUT")'
    BY <2>2, <2>4 DEF Pending
  <2> QED BY <2>2, <2>3, <2>4, <2>5 DEF LiveSockets
<1>2. CASE sendMessage(c)
  <2>1. /\ pc[c] \in {"idle", "sent"} /\ current # NoSocket
        /\ UNCHANGED <<current, sock, writes, revokes, qr>>
        /\ via' = [via EXCEPT ![c] = current]
    BY <1>2 DEF sendMessage, events, live
  <2>2. pc'[c] = "resolve" /\ \A q \in Procs : q # c => pc'[q] = pc[q]
    BY <1>2, Moves DEF sendMessage
  <2>3. \A d \in Calls : d # c => via'[d] = via[d]
    BY <2>1 DEF WaShape
  <2> QED BY <2>1, <2>2, <2>3 DEF LiveSockets, Pending
<1>3. CASE connect(c)
  <2>1. pc[c] = "connect" /\ UNCHANGED <<via, current, sock, writes, revokes, qr>>
    BY <1>3 DEF connect, events, live
  <2>2. pc'[c] \in {"idle", "session"} /\ \A q \in Procs : q # c => pc'[q] = pc[q]
    BY <1>3, Moves DEF connect
  <2> QED BY <2>1, <2>2 DEF LiveSockets, Pending
<1>4. CASE createSession(c)
  <2>1. pc[c] = "session" /\ UNCHANGED <<via, current, sock, writes, revokes, qr>>
    BY <1>4 DEF createSession, events, live
  <2>2. /\ pc'[c] \in {"idle", "auth"} /\ \A q \in Procs : q # c => pc'[q] = pc[q]
        /\ pc'[c] = "auth" => current = NoSocket
    BY <1>4, Moves DEF createSession, StartsConnect
  <2> QED BY <2>1, <2>2 DEF LiveSockets, Pending
<1>5. CASE disconnect(c)
  <2>1. pc[c] \in {"disconnect", "remove"} /\ UNCHANGED <<current, sock, writes, revokes, qr>>
    BY <1>5 DEF disconnect, events, live
  <2>2. /\ pc'[c] \in {"idle", "rm", "removeRm", "logout", "removeLogout"}
        /\ pc'[c] \in {"rm", "removeRm"} => current = NoSocket
        /\ pc'[c] \in {"logout", "removeLogout"} => via'[c] = current
        /\ \A q \in Procs : q # c => pc'[q] = pc[q]
        /\ \A d \in Calls : d # c => via'[d] = via[d]
    BY <1>5, <2>1 DEF disconnect, Removing, Goes, WaShape
  <2> QED BY <2>1, <2>2 DEF LiveSockets, Pending
<1>6. CASE logout(c)
  <2>1. /\ pc[c] \in {"logout", "removeLogout"} /\ via[c] \in Sockets /\ current' = NoSocket
        /\ UNCHANGED <<revokes, qr>> /\ \A d \in Calls : d # c => via'[d] = via[d]
    BY <1>6 DEF logout, WaShape
  <2>2. /\ pc'[c] \in {"rm", "removeRm"}
        /\ \A q \in Procs : q # c => pc'[q] = pc[q] \/ (q \in Sockets /\ pc'[q] = "closeRm")
    BY <1>6, <2>1, Moves DEF logout, Goes, WaShape
  <2>3. /\ \A s \in Sockets : s # via[c] => sock'[s] = sock[s]
        /\ sock'[via[c]] \notin Live
    BY <1>6, <2>1 DEF logout, WaShape, Live
  <2>4. LiveSockets' = {}
    BY <2>1, <2>3 DEF LiveSockets
  <2>5. ~Up'
    BY <2>1, <2>2
  <2> QED BY <2>1, <2>2, <2>4, <2>5
<1>7. CASE discard(c)
  <2>1. pc[c] \in {"rm", "removeRm"} /\ UNCHANGED <<via, current, sock, revokes, qr>>
    BY <1>7 DEF discard, live
  <2>2. pc'[c] \in {"idle", "delete"} /\ \A q \in Procs : q # c => pc'[q] = pc[q]
    BY <1>7, Moves DEF discard
  <2> QED BY <2>1, <2>2 DEF LiveSockets
<1>8. CASE delete(c)
  <2>1. pc[c] = "delete" /\ UNCHANGED <<via, current, sock, writes, revokes, qr>>
    BY <1>8 DEF delete, events, live
  <2>2. pc'[c] = "idle" /\ \A q \in Procs : q # c => pc'[q] = pc[q]
    BY <1>8, Moves DEF delete
  <2> QED BY <2>1, <2>2 DEF LiveSockets
<1>9. CASE resolved(c)
  <2>1. /\ pc[c] = "resolve" /\ UNCHANGED <<current, sock, writes, revokes, qr>>
        /\ \A d \in Calls : d # c => via'[d] = via[d]
    BY <1>9 DEF resolved, events, live, WaShape
  <2>2. pc'[c] \in {"idle", "sent"} /\ \A q \in Procs : q # c => pc'[q] = pc[q]
    BY <1>9, Moves DEF resolved
  <2> QED BY <2>1, <2>2 DEF LiveSockets, Pending
<1> QED BY <1>1, <1>2, <1>3, <1>4, <1>5, <1>6, <1>7, <1>8, <1>9 DEF CallStep, Call

LEMMA SocketControl ==
  ASSUME WaShape, Control, orderly, NEW s \in Sockets, SocketStep(s)
  PROVE  Control'
<1> USE ProcsApart
<1>s. s \in Procs /\ s # Boot /\ s \notin Calls
  OBVIOUS
<1> USE DEF Control, Up, Attached, NoLogout, Connecting, Caller
<1>1. CASE QrArrives(s)
  <2>1. sock[s] = "pairing" /\ UNCHANGED <<via, current, sock, pc, writes, revokes>>
    BY <1>1 DEF QrArrives, Untouched, live
  <2>2. current = s
    BY <2>1 DEF LiveSockets, Live
  <2> QED BY <2>1, <2>2 DEF LiveSockets, Pending
<1>2. CASE showQr(s)
  <2>1. s \in qr /\ UNCHANGED <<via, current, sock, pc, revokes>> /\ Emits("CONNECTING")
    BY <1>2 DEF showQr, Untouched, live
  <2>2. Pending("LOGGED_OUT")' <=> Pending("LOGGED_OUT")
    BY <2>1, EmittedPending DEF AccountStatus
  <2> QED BY <2>1, <2>2 DEF LiveSockets
<1>3. CASE Scanned(s)
  <2>1. /\ sock[s] = "pairing" /\ UNCHANGED <<via, current, pc, writes, revokes, qr>>
        /\ sock' = [sock EXCEPT ![s] = "scanned"]
    BY <1>3 DEF Scanned, Untouched
  <2>2. LiveSockets' \subseteq LiveSockets
    BY <2>1 DEF LiveSockets, Live, WaShape
  <2> QED BY <2>1, <2>2 DEF Pending
<1>4. CASE restartRequired(s)
  <2>1. /\ sock[s] = "scanned" /\ ~Calling /\ current' = NoSocket
        /\ UNCHANGED <<via, writes, revokes, qr>> /\ sock' = [sock EXCEPT ![s] = "closed"]
    BY <1>4 DEF restartRequired, Untouched
  <2>2. pc'[s] = "auth" /\ \A q \in Procs : q # s => pc'[q] = pc[q]
    BY <1>4, Moves DEF restartRequired
  <2>3. current = s
    BY <2>1 DEF LiveSockets, Live
  <2>4. LiveSockets' = {}
    BY <2>1, <2>3 DEF LiveSockets, Live, WaShape
  <2>5. \A c \in Calls : ~Caller(c)
    BY <2>1 DEF Calling
  <2>6. Pending("LOGGED_OUT")' <=> Pending("LOGGED_OUT")
    BY <2>1 DEF Pending
  <2> QED BY <2>1, <2>2, <2>3, <2>4, <2>5, <2>6
<1>5. CASE opened(s)
  <2>1. /\ sock[s] = "resuming" /\ UNCHANGED <<via, current, pc, revokes, qr>>
        /\ sock' = [sock EXCEPT ![s] = "open"] /\ Emits("CONNECTED")
    BY <1>5 DEF opened, Untouched
  <2>2. current = s
    BY <2>1 DEF LiveSockets, Live
  <2>3. LiveSockets' \subseteq LiveSockets
    BY <2>1 DEF LiveSockets, Live, WaShape
  <2>4. Pending("LOGGED_OUT")' <=> Pending("LOGGED_OUT")
    BY <2>1, EmittedPending DEF AccountStatus
  <2> QED BY <2>1, <2>2, <2>3, <2>4
<1>6. CASE closed(s)
  <2>1. /\ sock[s] \in Live /\ current' = NoSocket /\ UNCHANGED <<via, pc, revokes, qr>>
        /\ sock' = [sock EXCEPT ![s] = "closed"] /\ Emits("DISCONNECTED")
    BY <1>6 DEF closed, Untouched
  <2>2. current = s
    BY <2>1 DEF LiveSockets
  <2>3. LiveSockets' = {}
    BY <2>1, <2>2 DEF LiveSockets, Live, WaShape
  <2>4. Pending("LOGGED_OUT")' <=> Pending("LOGGED_OUT")
    BY <2>1, EmittedPending DEF AccountStatus
  <2> QED BY <2>1, <2>2, <2>3, <2>4
<1>7. CASE loggedOut(s)
  <2>1. /\ sock[s] \in {"resuming", "open"} /\ ~Calling /\ current' = NoSocket
        /\ UNCHANGED <<via, writes, revokes, qr>> /\ sock' = [sock EXCEPT ![s] = "closed"]
    BY <1>7 DEF loggedOut, Untouched
  <2>2. pc'[s] = "closeRm" /\ \A q \in Procs : q # s => pc'[q] = pc[q]
    BY <1>7, Moves DEF loggedOut
  <2>3. current = s
    BY <2>1 DEF LiveSockets, Live
  <2>4. LiveSockets' = {}
    BY <2>1, <2>3 DEF LiveSockets, Live, WaShape
  <2>5. \A c \in Calls : ~Caller(c)
    BY <2>1 DEF Calling
  <2>6. ~Up'
    BY <2>1, <2>2, <2>3, <2>5
  <2> QED BY <2>1, <2>2, <2>3, <2>4, <2>5, <2>6
<1>8. CASE discardClosed(s)
  <2>1. pc[s] = "closeRm" /\ UNCHANGED <<via, current, sock, revokes, qr>>
    BY <1>8 DEF discardClosed, Untouched, live
  <2>2. pc'[s] = "idle" /\ \A q \in Procs : q # s => pc'[q] = pc[q]
    BY <1>8, Moves DEF discardClosed
  <2>3. ~Up'
    BY <2>1, <2>2
  <2> QED BY <2>1, <2>2, <2>3 DEF LiveSockets
<1> QED BY <1>1, <1>2, <1>3, <1>4, <1>5, <1>6, <1>7, <1>8 DEF SocketStep

LEMMA ConnectControl ==
  ASSUME WaShape, Control, orderly, NEW p \in Procs, Connects(p) \/ fails(p)
  PROVE  Control'
<1> USE ProcsApart DEF Control, Up, Attached, NoLogout, Connecting, Caller
<1>1. CASE readAuthState(p)
  <2>1. pc[p] = "auth" /\ UNCHANGED <<via, current, sock, writes, revokes, qr>>
    BY <1>1 DEF readAuthState, events, live
  <2>2. pc'[p] \in {"paired", "fresh"} /\ \A q \in Procs : q # p => pc'[q] = pc[q]
    BY <1>1, Moves DEF readAuthState
  <2>3. Pending("LOGGED_OUT")' <=> Pending("LOGGED_OUT")
    BY <2>1 DEF Pending
  <2> QED BY <2>1, <2>2, <2>3 DEF LiveSockets
<1>2. CASE makeSocket(p)
  <2>1. pc[p] \in {"fresh", "paired"} /\ UNCHANGED <<via, writes, revokes, qr>>
    BY <1>2 DEF makeSocket, events
  <2>2. PICK s \in Sockets :
            /\ sock' = [sock EXCEPT ![s] = IF pc[p] = "paired" THEN "resuming" ELSE "pairing"]
            /\ current' = s
    BY <1>2 DEF makeSocket
  <2>3. pc'[p] = "idle" /\ \A q \in Procs : q # p => pc'[q] = pc[q]
    BY <1>2, Moves DEF makeSocket
  <2>4. LiveSockets = {}
    BY <2>1 DEF LiveSockets
  <2>5. LiveSockets' \subseteq {s}
    BY <2>2, <2>4 DEF LiveSockets, WaShape
  <2>6. Pending("LOGGED_OUT")' <=> Pending("LOGGED_OUT")
    BY <2>1 DEF Pending
  <2> QED BY <2>1, <2>2, <2>3, <2>5, <2>6
<1>3. CASE fails(p)
  <2>1. UNCHANGED <<via, current, sock, writes, revokes, qr>>
    BY <1>3 DEF fails, events, live
  <2>2. pc'[p] = "idle" /\ \A q \in Procs : q # p => pc'[q] = pc[q]
    BY <1>3, Moves DEF fails
  <2>3. Pending("LOGGED_OUT")' <=> Pending("LOGGED_OUT")
    BY <2>1 DEF Pending
  <2> QED BY <2>1, <2>2, <2>3 DEF LiveSockets
<1> QED BY <1>1, <1>2, <1>3 DEF Connects

LEMMA OtherControl ==
  ASSUME WaShape, Control, orderly, Persists \/ Restart \/ onModuleInit \/ UNCHANGED vars
  PROVE  Control'
<1> USE ProcsApart DEF Control, Up, Attached, NoLogout, Connecting, Caller
<1>1. CASE \E i \in 1 .. Len(writes) : handleStatusEvent(i)
  <2>1. PICK i \in 1 .. Len(writes) : handleStatusEvent(i)
    BY <1>1
  <2>2. /\ i = 1 /\ writes' = RemoveAt(writes, 1) /\ UNCHANGED <<via, current, sock, pc, qr>>
        /\ revokes' = IF writes[1] = "LOGGED_OUT" THEN revokes + 1 ELSE revokes
    BY <2>1 DEF handleStatusEvent, live
  <2>3. /\ Pending("LOGGED_OUT")' => Pending("LOGGED_OUT")
        /\ writes[1] = "LOGGED_OUT" => Pending("LOGGED_OUT")
        /\ writes # <<>>
    <3>1. /\ Len(writes) \in Nat /\ 1 \in 1 .. Len(writes) /\ Len(writes') = Len(writes) - 1
          /\ \A j \in 1 .. Len(writes) - 1 : writes'[j] = writes[j + 1] /\ j + 1 \in 1 .. Len(writes)
      BY <2>1, <2>2, Removed
    <3>2. writes # <<>>
      BY <3>1
    <3>3. writes[1] = "LOGGED_OUT" => Pending("LOGGED_OUT")
      BY <3>1 DEF Pending
    <3>4. Pending("LOGGED_OUT")' => Pending("LOGGED_OUT")
      BY <3>1 DEF Pending
    <3> QED BY <3>2, <3>3, <3>4
  <2> QED BY <2>2, <2>3 DEF LiveSockets
<1>2. CASE revokeSessions
  <2>1. revokes > 0 /\ UNCHANGED <<via, current, sock, pc, writes, qr>>
    BY <1>2 DEF revokeSessions, live
  <2>2. ~Up
    BY <2>1
  <2> QED BY <2>1, <2>2 DEF LiveSockets
<1>3. CASE Restart
  <2>1. /\ \A s \in Sockets : sock'[s] = "closed"
        /\ current' = NoSocket /\ writes' = <<>> /\ revokes' = 0 /\ qr' = {}
        /\ pc'[Boot] = "find" /\ \A p \in Procs : p # Boot => pc'[p] = "idle"
    BY <1>3 DEF Restart
  <2>2. LiveSockets' = {} /\ ~Pending("LOGGED_OUT")'
    BY <2>1 DEF LiveSockets, Live, Pending
  <2> QED BY <2>1, <2>2
<1>4. CASE onModuleInit
  <2>1. pc[Boot] = "find" /\ UNCHANGED <<via, current, sock, writes, revokes, qr>>
    BY <1>4 DEF onModuleInit, events, live
  <2>2. pc'[Boot] \in {"idle", "auth"} /\ \A q \in Procs : q # Boot => pc'[q] = pc[q]
    BY <1>4, Moves DEF onModuleInit, StartsConnect
  <2>3. Pending("LOGGED_OUT")' <=> Pending("LOGGED_OUT")
    BY <2>1 DEF Pending
  <2> QED BY <2>1, <2>2, <2>3 DEF LiveSockets
<1>5. CASE UNCHANGED vars
  BY <1>5 DEF vars, LiveSockets, Pending
<1> QED BY <1>1, <1>2, <1>3, <1>4, <1>5 DEF Persists

-----------------------------------------------------------------------------
(* Credentials *)

\* Nothing of the account changes that its credentials are about, but the steps of
\* processes that do not connect.
LEMMA CredentialsStay ==
  ASSUME WaShape, Credentials, UNCHANGED <<row, files, sock>>,
         current' \in {current, NoSocket},
         \A p \in Procs : pc'[p] \in {"fresh", "paired"} => pc'[p] = pc[p],
         \A p \in Procs : row = "GONE" /\ Connecting(p)' => Connecting(p),
         \A c \in Calls : row = "GONE" /\ Caller(c)' => Caller(c),
         \A c \in Calls : pc'[c] = "delete" => pc[c] = "delete"
  PROVE  Credentials'
  BY DEF Credentials

LEMMA CallCredentials ==
  ASSUME WaShape, Control, Credentials, orderly, NEW c \in Calls, CallStep(c)
  PROVE  Credentials'
<1> USE ProcsApart
<1>c. c \in Procs /\ c # Boot /\ c \notin Sockets
  OBVIOUS
<1>1. CASE \E what \in {"connect", "disconnect", "remove"} : BeginCall(c, what)
  <2>1. PICK what \in {"connect", "disconnect", "remove"} : BeginCall(c, what)
    BY <1>1
  <2>2. row # "GONE" /\ UNCHANGED <<row, files, sock, current>>
    BY <2>1 DEF BeginCall, disk, live
  <2>3. pc'[c] = what /\ \A q \in Procs : q # c => pc'[q] = pc[q]
    BY <2>1, Moves DEF BeginCall
  <2> QED BY <2>2, <2>3, CredentialsStay
<1>2. CASE sendMessage(c) \/ resolved(c)
  <2>1. UNCHANGED <<row, files, sock, current>>
    BY <1>2 DEF sendMessage, resolved, disk, live
  <2>2. pc'[c] \in {"idle", "sent", "resolve"} /\ \A q \in Procs : q # c => pc'[q] = pc[q]
    BY <1>2, Moves DEF sendMessage, resolved
  <2> QED BY <2>1, <2>2, CredentialsStay DEF Caller, Connecting
<1>3. CASE connect(c)
  <2>1. pc[c] = "connect" /\ UNCHANGED <<row, files, sock, current>>
    BY <1>3 DEF connect, disk, live
  <2>2. pc'[c] \in {"idle", "session"} /\ \A q \in Procs : q # c => pc'[q] = pc[q]
    BY <1>3, Moves DEF connect
  <2> QED BY <2>1, <2>2, CredentialsStay DEF Caller, Connecting
<1>4. CASE createSession(c)
  <2>1. pc[c] = "session" /\ UNCHANGED <<row, files, sock, current>>
    BY <1>4 DEF createSession, live
  <2>2. /\ pc'[c] \in {"idle", "auth"} /\ \A q \in Procs : q # c => pc'[q] = pc[q]
        /\ row = "GONE" => pc'[c] = "idle"
    BY <1>4, Moves DEF createSession, StartsConnect
  <2> QED BY <2>1, <2>2, CredentialsStay DEF Caller, Connecting
<1>5. CASE disconnect(c)
  <2>1. pc[c] \in {"disconnect", "remove"} /\ UNCHANGED <<row, files, sock, current>>
    BY <1>5 DEF disconnect, disk, live
  <2>2. /\ pc'[c] \in {"idle", "rm", "removeRm", "logout", "removeLogout"}
        /\ \A q \in Procs : q # c => pc'[q] = pc[q]
    BY <1>5, <2>1 DEF disconnect, Removing, Goes, WaShape
  <2> QED BY <2>1, <2>2, CredentialsStay DEF Caller, Connecting
<1>6. CASE logout(c)
  <2>1. /\ pc[c] \in {"logout", "removeLogout"} /\ via[c] \in Sockets /\ current' = NoSocket
        /\ UNCHANGED <<row, files>>
    BY <1>6 DEF logout, WaShape, disk
  <2>2. /\ pc'[c] \in {"rm", "removeRm"}
        /\ \A q \in Procs : q # c => pc'[q] = pc[q] \/ (q \in Sockets /\ pc'[q] = "closeRm")
    BY <1>6, <2>1, Moves DEF logout, Goes, WaShape
  <2>3. \A s \in Sockets : sock'[s] = sock[s] \/ sock'[s] = "closed"
    BY <1>6 DEF logout, WaShape
  <2>4. row # "GONE"
    BY <2>1 DEF Credentials, Caller
  <2> QED BY <2>1, <2>2, <2>3, <2>4 DEF Credentials, HasUser
<1>7. CASE discard(c)
  <2>1. pc[c] \in {"rm", "removeRm"} /\ files' = "none" /\ UNCHANGED <<row, sock, current>>
    BY <1>7 DEF discard, live
  <2>2. pc'[c] \in {"idle", "delete"} /\ \A q \in Procs : q # c => pc'[q] = pc[q]
    BY <1>7, Moves DEF discard
  <2>3. current = NoSocket /\ \A p \in Procs : ~Connecting(p)
    BY <2>1 DEF Control, Up, Attached, NoLogout
  <2>4. \A s \in Sockets : sock[s] \notin Live
    BY <2>3 DEF Control, LiveSockets
  <2>5. row # "GONE"
    BY <2>1 DEF Credentials, Caller
  <2> QED BY <2>1, <2>2, <2>3, <2>4, <2>5 DEF Credentials, HasUser, Live, Connecting
<1>8. CASE delete(c)
  <2>1. pc[c] = "delete" /\ files = "none" /\ UNCHANGED <<files, sock, current>>
    BY <1>8 DEF delete, live, events, Credentials
  <2>2. pc'[c] = "idle" /\ \A q \in Procs : q # c => pc'[q] = pc[q]
    BY <1>8, Moves DEF delete
  <2>3. current = NoSocket /\ \A p \in Procs : ~Connecting(p)
    BY <2>1 DEF Control, Up, Attached, NoLogout
  <2>4. \A d \in Calls : d # c => ~Caller(d)
    BY <2>1 DEF Control, Caller
  <2> QED BY <2>1, <2>2, <2>3, <2>4 DEF Credentials, Connecting, Caller
<1> QED BY <1>1, <1>2, <1>3, <1>4, <1>5, <1>6, <1>7, <1>8 DEF CallStep, Call

LEMMA SocketCredentials ==
  ASSUME WaShape, Control, Credentials, orderly, NEW s \in Sockets, SocketStep(s)
  PROVE  Credentials'
<1> USE ProcsApart
<1>s. s \in Procs /\ s # Boot /\ s \notin Calls
  OBVIOUS
<1>1. CASE QrArrives(s) \/ showQr(s)
  BY <1>1, CredentialsStay DEF QrArrives, showQr, Untouched, disk, live, Connecting, Caller
<1>2. CASE Scanned(s)
  <2>1. /\ sock[s] = "pairing" /\ UNCHANGED <<row, current, pc>>
        /\ sock' = [sock EXCEPT ![s] = "scanned"]
        /\ files' = IF files = "none" THEN "none" ELSE "paired"
    BY <1>2 DEF Scanned, Untouched
  <2>2. files # "none" /\ current = s
    BY <2>1 DEF Credentials, Control, LiveSockets, Live
  <2>3. row # "GONE" /\ \A p \in Procs : ~Connecting(p)
    BY <2>2 DEF Credentials, Control
  <2>4. \A c \in Calls : pc[c] # "delete"
    BY <2>2 DEF Credentials
  <2>5. \A t \in Sockets : t # s => sock'[t] = sock[t]
    BY <2>1 DEF WaShape
  <2> QED BY <2>1, <2>2, <2>3, <2>4, <2>5 DEF Credentials, Connecting
<1>3. CASE restartRequired(s) \/ loggedOut(s)
  <2>1. /\ sock[s] \in Live /\ current' = NoSocket /\ UNCHANGED <<row, files>>
        /\ sock' = [sock EXCEPT ![s] = "closed"]
    BY <1>3 DEF restartRequired, loggedOut, Untouched, disk, Live
  <2>2. pc'[s] \in {"auth", "closeRm"} /\ \A q \in Procs : q # s => pc'[q] = pc[q]
    BY <1>3, Moves DEF restartRequired, loggedOut
  <2>3. current = s
    BY <2>1 DEF LiveSockets, Control
  <2>4. row # "GONE"
    BY <2>3 DEF Credentials
  <2>5. \A t \in Sockets : sock'[t] = sock[t] \/ sock'[t] = "closed"
    BY <2>1 DEF WaShape
  <2> QED BY <2>1, <2>2, <2>4, <2>5 DEF Credentials, HasUser
<1>4. CASE opened(s)
  <2>1. /\ sock[s] = "resuming" /\ UNCHANGED <<row, files, current, pc>>
        /\ sock' = [sock EXCEPT ![s] = "open"]
    BY <1>4 DEF opened, Untouched, disk
  <2>2. \A t \in Sockets : t # s => sock'[t] = sock[t]
    BY <2>1 DEF WaShape
  <2> QED BY <2>1, <2>2 DEF Credentials, Connecting, Caller, HasUser, WaShape
<1>5. CASE closed(s)
  <2>1. /\ current' = NoSocket /\ UNCHANGED <<row, files, pc>>
        /\ sock' = [sock EXCEPT ![s] = "closed"]
    BY <1>5 DEF closed, Untouched, disk
  <2>2. \A t \in Sockets : sock'[t] = sock[t] \/ sock'[t] = "closed"
    BY <2>1 DEF WaShape
  <2> QED BY <2>1, <2>2 DEF Credentials, Connecting, Caller, HasUser
<1>6. CASE discardClosed(s)
  <2>1. pc[s] = "closeRm" /\ files' = "none" /\ UNCHANGED <<row, sock, current>>
    BY <1>6 DEF discardClosed, Untouched, live
  <2>2. pc'[s] = "idle" /\ \A q \in Procs : q # s => pc'[q] = pc[q]
    BY <1>6, Moves DEF discardClosed
  <2>3. current = NoSocket /\ \A p \in Procs : ~Connecting(p)
    BY <2>1 DEF Control, Up, Attached, NoLogout
  <2>4. \A t \in Sockets : sock[t] \notin Live
    BY <2>3 DEF Control, LiveSockets
  <2> QED BY <2>1, <2>2, <2>3, <2>4 DEF Credentials, HasUser, Live, Connecting, Caller
<1> QED BY <1>1, <1>2, <1>3, <1>4, <1>5, <1>6 DEF SocketStep

LEMMA ConnectCredentials ==
  ASSUME WaShape, Control, Credentials, orderly, NEW p \in Procs, Connects(p)
  PROVE  Credentials'
<1> USE ProcsApart
<1>0. Connecting(p) /\ row # "GONE" /\ \A c \in Calls : pc[c] # "delete"
  BY DEF Connects, readAuthState, makeSocket, Connecting, Credentials, Control, Up, Attached, NoLogout
<1>1. \A s \in Sockets : sock[s] \notin Live
  BY <1>0 DEF Control, LiveSockets
<1>2. CASE readAuthState(p)
  <2>1. /\ files' = IF files = "none" THEN "fresh" ELSE files
        /\ UNCHANGED <<row, sock, current>>
    BY <1>2 DEF readAuthState, live
  <2>2. /\ pc'[p] = "fresh" \/ (pc'[p] = "paired" /\ files = "paired")
        /\ \A q \in Procs : q # p => pc'[q] = pc[q]
    BY <1>2, Moves DEF readAuthState
  <2>3. \A q \in Procs : q # p => ~Connecting(q)
    BY <1>0 DEF Control
  <2> QED BY <1>0, <1>1, <2>1, <2>2, <2>3 DEF Credentials, Connecting, HasUser, Live, WaShape
<1>3. CASE makeSocket(p)
  <2>1. pc[p] \in {"fresh", "paired"} /\ UNCHANGED <<row, files>>
    BY <1>3 DEF makeSocket, disk
  <2>2. PICK s \in Sockets :
            /\ sock' = [sock EXCEPT ![s] = IF pc[p] = "paired" THEN "resuming" ELSE "pairing"]
            /\ current' = s
    BY <1>3 DEF makeSocket
  <2>3. pc'[p] = "idle" /\ \A q \in Procs : q # p => pc'[q] = pc[q]
    BY <1>3, Moves DEF makeSocket
  <2>4. /\ \A t \in Sockets : t # s => sock'[t] = sock[t]
        /\ sock'[s] = IF pc[p] = "paired" THEN "resuming" ELSE "pairing"
    BY <2>2 DEF WaShape
  <2> QED BY <1>0, <2>1, <2>3, <2>4 DEF Credentials, HasUser
<1> QED BY <1>2, <1>3 DEF Connects

\* A removal that is cut short left no socket that needs the files.
LEMMA CutCredentials ==
  ASSUME WaShape, Control, Credentials, NEW p \in Procs, CutShort(p)
  PROVE  /\ files' = "fresh" /\ row # "GONE" /\ current = NoSocket
         /\ \A q \in Procs : ~Connecting(q)
         /\ \A s \in Sockets : sock[s] \notin Live
         /\ \A c \in Calls : pc[c] # "delete"
<1> USE ProcsApart
<1>1. files' = "fresh" /\ files # "none" /\ pc[p] \in {"rm", "removeRm", "closeRm"}
  BY DEF CutShort
<1>2. p # Boot /\ (p \in Calls => pc[p] # "closeRm") /\ (p \in Sockets => pc[p] = "closeRm")
  BY <1>1 DEF WaShape, CallSteps, SocketSteps, BootSteps
<1>3. ~NoLogout
  BY <1>1, <1>2 DEF NoLogout
<1>4. current = NoSocket /\ \A q \in Procs : ~Connecting(q)
  BY <1>3 DEF Control, Up, Attached
<1>5. \A s \in Sockets : sock[s] \notin Live
  BY <1>4 DEF Control, LiveSockets
<1> QED BY <1>1, <1>4, <1>5 DEF Credentials

LEMMA FailCredentials ==
  ASSUME WaShape, Control, Credentials, orderly, NEW p \in Procs, fails(p)
  PROVE  Credentials'
<1> USE ProcsApart
<1>1. UNCHANGED <<row, sock, current>>
  BY DEF fails, live
<1>2. pc'[p] = "idle" /\ \A q \in Procs : q # p => pc'[q] = pc[q]
  BY Moves DEF fails
<1>3. CASE UNCHANGED files
  BY <1>1, <1>2, <1>3, CredentialsStay DEF Connecting, Caller
<1>4. CASE CutShort(p)
  BY <1>1, <1>2, <1>4, CutCredentials DEF Credentials, Connecting, HasUser, Live
<1> QED BY <1>3, <1>4 DEF fails

LEMMA OtherCredentials ==
  ASSUME WaShape, Control, Credentials, orderly,
         Persists \/ Restart \/ onModuleInit \/ UNCHANGED vars
  PROVE  Credentials'
<1> USE ProcsApart
<1>1. CASE \E i \in 1 .. Len(writes) : handleStatusEvent(i)
  <2>1. PICK i \in 1 .. Len(writes) : handleStatusEvent(i)
    BY <1>1
  <2>2. /\ UNCHANGED <<files, current, sock, pc>>
        /\ row' \in {row, writes[i]}
    BY <2>1 DEF handleStatusEvent, live
  <2>3. row' = "GONE" => row = "GONE"
    BY <2>1, <2>2, Removed DEF AccountStatus
  <2> QED BY <2>2, <2>3 DEF Credentials, Connecting, Caller
<1>2. CASE revokeSessions
  BY <1>2, CredentialsStay DEF revokeSessions, live, Connecting, Caller
<1>3. CASE Restart
  <2>1. /\ \A s \in Sockets : sock'[s] = "closed"
        /\ current' = NoSocket /\ UNCHANGED row
        /\ pc'[Boot] = "find" /\ \A p \in Procs : p # Boot => pc'[p] = "idle"
    BY <1>3 DEF Restart
  <2>2. row = "GONE" => files' = "none"
    BY <1>3, CutCredentials DEF Restart, Credentials
  <2> QED BY <2>1, <2>2 DEF Credentials, Connecting, Caller, HasUser
<1>4. CASE onModuleInit
  <2>1. pc[Boot] = "find" /\ UNCHANGED <<row, files, sock, current>>
    BY <1>4 DEF onModuleInit, disk, live
  <2>2. /\ pc'[Boot] \in {"idle", "auth"} /\ \A q \in Procs : q # Boot => pc'[q] = pc[q]
        /\ row = "GONE" => pc'[Boot] = "idle"
    BY <1>4, Moves DEF onModuleInit, StartsConnect
  <2> QED BY <2>1, <2>2, CredentialsStay DEF Connecting, Caller
<1>5. CASE UNCHANGED vars
  BY <1>5, CredentialsStay DEF vars, Connecting, Caller
<1> QED BY <1>1, <1>2, <1>3, <1>4, <1>5 DEF Persists

-----------------------------------------------------------------------------
(* The session row and the status *)

\* The steps of a process that does not begin to connect leave the account attached or not
\* as it is; a step that closes its socket detaches it.
LEMMA StaysAttached ==
  ASSUME current' \in {current, NoSocket},
         \A p \in Procs : Connecting(p)' => Connecting(p)
  PROVE  Attached' => Attached
  BY DEF Attached

LEMMA SessionStays ==
  ASSUME SessionRow, UNCHANGED <<row, writes, revokes>>, active' = active \/ active' = TRUE,
         active' = TRUE \/ (Attached' => Attached \/ row = "CONNECTED")
  PROVE  SessionRow'
  BY DEF SessionRow, Pending

\* No CONNECTED is emitted while a logout is carried out.
LEMMA SessionEmits ==
  ASSUME WaShape, SessionRow, NEW status \in AccountStatus, Emits(status),
         UNCHANGED <<row, active, revokes>>, Attached' => Attached,
         status = "CONNECTED" => Attached /\ revokes = 0 /\ ~Pending("LOGGED_OUT")
  PROVE  SessionRow'
<1>1. Pending("CONNECTED")' <=> Pending("CONNECTED") \/ status = "CONNECTED"
  BY EmittedPending
<1>2. revokes' > 0 => row' # "CONNECTED" /\ ~Pending("CONNECTED")'
  BY <1>1 DEF SessionRow
<1>3. ASSUME NEW i \in 1 .. Len(writes'), NEW j \in 1 .. Len(writes'), i < j,
             writes'[i] = "LOGGED_OUT"
      PROVE  writes'[j] # "CONNECTED"
  <2>1. i \in 1 .. Len(writes) /\ writes[i] = "LOGGED_OUT"
    BY <1>3, Emitted
  <2>2. status # "CONNECTED"
    BY <2>1 DEF Pending
  <2>3. CASE j = Len(writes')
    BY <2>2, <2>3, Emitted
  <2>4. CASE j # Len(writes')
    BY <1>3, <2>1, <2>4, Emitted DEF SessionRow
  <2> QED BY <2>3, <2>4
<1> QED BY <1>1, <1>2, <1>3 DEF SessionRow

LEMMA SessionNext ==
  ASSUME WaShape, Control, Credentials, SessionRow, orderly, sound, [Next]_vars
  PROVE  SessionRow'
<1> USE ProcsApart
<1>1. ASSUME NEW c \in Calls, CallStep(c)
      PROVE  SessionRow'
  <2>c. c \in Procs
    OBVIOUS
  <2>1. CASE \/ \E what \in {"connect", "disconnect", "remove"} : BeginCall(c, what)
             \/ sendMessage(c) \/ connect(c) \/ disconnect(c) \/ resolved(c)
    <3>1. UNCHANGED <<row, active, writes, revokes, current>>
      BY <2>1 DEF BeginCall, sendMessage, connect, disconnect, resolved, disk, events, live
    <3>2. pc'[c] \notin {"auth", "fresh", "paired"} /\ \A q \in Procs : q # c => pc'[q] = pc[q]
      BY <2>1 DEF BeginCall, sendMessage, connect, disconnect, resolved, Goes, WaShape, Removing
    <3>3. Attached' => Attached
      BY <3>1, <3>2, StaysAttached DEF Connecting
    <3> QED BY <3>1, <3>3, SessionStays
  <2>2. CASE createSession(c)
    <3>1. CASE row = "GONE"
      <4>1. UNCHANGED <<row, active, writes, revokes, current>>
        BY <2>2, <3>1 DEF createSession, events, live
      <4>2. pc'[c] = "idle" /\ \A q \in Procs : q # c => pc'[q] = pc[q]
        BY <2>2, <3>1, Moves DEF createSession
      <4>3. Attached' => Attached
        BY <4>1, <4>2, StaysAttached DEF Connecting
      <4> QED BY <4>1, <4>3, SessionStays
    <3>2. CASE row # "GONE"
      <4>1. active' = TRUE /\ UNCHANGED <<row, writes, revokes>>
        BY <2>2, <3>2 DEF createSession, events, live
      <4> QED BY <4>1, SessionStays
    <3> QED BY <3>1, <3>2
  <2>3. CASE logout(c)
    <3>1. UNCHANGED <<row, active, revokes>> /\ current' = NoSocket
      BY <2>3 DEF logout, disk
    <3>2. \A q \in Procs : pc'[q] = pc[q] \/ pc'[q] \in {"rm", "removeRm", "closeRm"}
      BY <2>3, Moves DEF logout, Goes, WaShape
    <3>3. Attached' => Attached
      BY <3>1, <3>2, StaysAttached DEF Connecting
    <3>4. writes' = writes \/ Emits("DISCONNECTED")
      BY <2>3 DEF logout
    <3> QED BY <3>1, <3>3, <3>4, SessionStays, SessionEmits DEF AccountStatus
  <2>4. CASE discard(c)
    <3>1. UNCHANGED <<row, active, revokes, current>> /\ Emits("LOGGED_OUT")
      BY <2>4 DEF discard, live
    <3>2. pc'[c] \in {"idle", "delete"} /\ \A q \in Procs : q # c => pc'[q] = pc[q]
      BY <2>4, Moves DEF discard
    <3>3. Attached' => Attached
      BY <3>1, <3>2, StaysAttached DEF Connecting
    <3> QED BY <3>1, <3>3, SessionEmits DEF AccountStatus
  <2>5. CASE delete(c)
    <3>1. /\ UNCHANGED <<writes, revokes, current>> /\ pc[c] = "delete"
          /\ (row' = "GONE" /\ active' = FALSE) \/ UNCHANGED <<row, active>>
      BY <2>5 DEF delete, events, live
    <3>2. pc'[c] = "idle" /\ \A q \in Procs : q # c => pc'[q] = pc[q]
      BY <2>5, Moves DEF delete
    <3>3. Attached' => Attached
      BY <3>1, <3>2, StaysAttached DEF Connecting
    <3> QED BY <3>1, <3>3, SessionStays DEF SessionRow, Pending
  <2> QED BY <1>1, <2>1, <2>2, <2>3, <2>4, <2>5 DEF CallStep, Call
<1>2. ASSUME NEW s \in Sockets, SocketStep(s)
      PROVE  SessionRow'
  <2>s. s \in Procs
    OBVIOUS
  <2>1. CASE QrArrives(s) \/ Scanned(s)
    <3>1. UNCHANGED <<row, active, writes, revokes, current, pc>>
      BY <2>1 DEF QrArrives, Scanned, Untouched, disk, live
    <3> QED BY <3>1, SessionStays DEF Attached, Connecting
  <2>2. CASE showQr(s)
    <3>1. UNCHANGED <<row, active, revokes, current, pc>> /\ Emits("CONNECTING")
      BY <2>2 DEF showQr, Untouched, disk, live
    <3> QED BY <3>1, SessionEmits DEF Attached, Connecting, AccountStatus
  <2>3. CASE restartRequired(s) \/ loggedOut(s)
    <3>1. UNCHANGED <<row, active, writes, revokes>> /\ sock[s] \in Live
      BY <2>3 DEF restartRequired, loggedOut, Untouched, disk, Live
    <3>2. current = s
      BY <3>1 DEF Control, LiveSockets
    <3>3. Attached
      BY <3>2 DEF Attached
    <3> QED BY <3>1, <3>3, SessionStays
  <2>4. CASE opened(s)
    <3>1. /\ UNCHANGED <<row, active, revokes, current, pc>> /\ Emits("CONNECTED")
          /\ sock[s] = "resuming"
      BY <2>4 DEF opened, Untouched, disk
    <3>2. current = s
      BY <3>1 DEF Control, LiveSockets, Live
    <3>3. Attached /\ revokes = 0 /\ ~Pending("LOGGED_OUT")
      BY <3>2 DEF Control, Up, Attached, NoLogout
    <3> QED BY <3>1, <3>3, SessionEmits DEF AccountStatus
  <2>5. CASE closed(s)
    <3>1. UNCHANGED <<row, active, revokes, pc>> /\ current' = NoSocket /\ Emits("DISCONNECTED")
      BY <2>5 DEF closed, Untouched, disk
    <3> QED BY <3>1, SessionEmits DEF Attached, Connecting, AccountStatus
  <2>6. CASE discardClosed(s)
    <3>1. UNCHANGED <<row, active, revokes, current>> /\ Emits("LOGGED_OUT")
      BY <2>6 DEF discardClosed, Untouched, live
    <3>2. pc'[s] = "idle" /\ \A q \in Procs : q # s => pc'[q] = pc[q]
      BY <2>6, Moves DEF discardClosed
    <3>3. Attached' => Attached
      BY <3>1, <3>2, StaysAttached DEF Connecting
    <3> QED BY <3>1, <3>3, SessionEmits DEF AccountStatus
  <2> QED BY <1>2, <2>1, <2>2, <2>3, <2>4, <2>5, <2>6 DEF SocketStep
<1>3. ASSUME NEW p \in Procs, Connects(p)
      PROVE  SessionRow'
  <2>1. UNCHANGED <<row, active, writes, revokes>> /\ Connecting(p)
    BY <1>3 DEF Connects, readAuthState, makeSocket, events, live, disk, Connecting
  <2>2. Attached
    BY <2>1 DEF Attached
  <2> QED BY <2>1, <2>2, SessionStays
<1>4. CASE \E i \in 1 .. Len(writes) : handleStatusEvent(i)
  <2>1. PICK i \in 1 .. Len(writes) : handleStatusEvent(i)
    BY <1>4
  <2>2. /\ i = 1 /\ writes' = RemoveAt(writes, 1) /\ UNCHANGED <<active, current, pc>>
        /\ row' = IF row = "GONE" THEN "GONE" ELSE writes[1]
        /\ revokes' = IF writes[1] = "LOGGED_OUT" THEN revokes + 1 ELSE revokes
    BY <2>1 DEF handleStatusEvent, live
  <2>3. /\ 1 \in 1 .. Len(writes) /\ Len(writes) \in Nat /\ Len(writes') = Len(writes) - 1
        /\ \A j \in 1 .. Len(writes') : writes'[j] = writes[j + 1] /\ j + 1 \in 1 .. Len(writes)
    BY <2>1, <2>2, Removed
  <2>4. /\ Pending("CONNECTED")' => Pending("CONNECTED")
        /\ writes[1] = "CONNECTED" => Pending("CONNECTED")
        /\ writes[1] = "LOGGED_OUT" => ~Pending("CONNECTED")'
    BY <2>3 DEF Pending, SessionRow
  <2>5. Attached' = Attached
    BY <2>2 DEF Attached, Connecting
  <2>6. row' # "GONE" /\ (Attached' \/ row' = "CONNECTED" \/ Pending("CONNECTED")') => active'
    BY <2>2, <2>4, <2>5 DEF SessionRow
  <2>7. revokes' > 0 => row' # "CONNECTED" /\ ~Pending("CONNECTED")'
    BY <2>2, <2>4 DEF SessionRow
  <2>8. \A k, j \in 1 .. Len(writes') :
            k < j /\ writes'[k] = "LOGGED_OUT" => writes'[j] # "CONNECTED"
    BY <2>3 DEF SessionRow
  <2> QED BY <2>6, <2>7, <2>8 DEF SessionRow
<1>5. CASE revokeSessions
  <2>1. revokes > 0 /\ UNCHANGED <<row, writes, current, pc>>
    BY <1>5 DEF revokeSessions, live
  <2>2. ~Attached'
    BY <2>1 DEF Control, Up, NoLogout, Attached, Connecting
  <2> QED BY <2>1, <2>2 DEF SessionRow, Pending
<1>6. CASE Restart
  <2>1. /\ current' = NoSocket /\ UNCHANGED <<row, active>> /\ writes' = <<>> /\ revokes' = 0
        /\ pc'[Boot] = "find" /\ \A p \in Procs : p # Boot => pc'[p] = "idle"
    BY <1>6 DEF Restart
  <2>2. ~Attached'
    BY <2>1 DEF Attached, Connecting
  <2> QED BY <2>1, <2>2 DEF SessionRow, Pending
<1>7. CASE onModuleInit
  <2>1. UNCHANGED <<row, active, writes, revokes, current>>
    BY <1>7 DEF onModuleInit, disk, events, live
  <2>2. /\ row # "CONNECTED" => pc'[Boot] = "idle"
        /\ \A q \in Procs : q # Boot => pc'[q] = pc[q]
    BY <1>7, Moves DEF onModuleInit, StartsConnect
  <2>3. Attached' => Attached \/ row = "CONNECTED"
    BY <2>1, <2>2 DEF Attached, Connecting
  <2> QED BY <2>1, <2>3, SessionStays
<1>8. CASE UNCHANGED vars
  BY <1>8, SessionStays DEF vars, Attached, Connecting
<1> QED BY <1>1, <1>2, <1>3, <1>4, <1>5, <1>6, <1>7, <1>8
        DEF Next, CallStep, SocketStep, Persists, fails

\* A step that neither emits nor closes leaves the account as its row will say, unless what
\* was under way ends.
LEMMA StatusStays ==
  ASSUME StatusFollows, UNCHANGED <<row, writes>>,
         Attached => Attached' \/ \E p \in Procs : pc'[p] \in {"closeRm", "rm", "removeRm"},
         \A p \in Procs : pc[p] \in {"closeRm", "rm", "removeRm"} => pc'[p] = pc[p],
         pc[Boot] = "find" => pc'[Boot] = "find" \/ Attached',
         \A p \in Procs : pc'[p] \in {"rm", "removeRm"} => p \in Calls,
         \A p \in Procs : pc'[p] = "closeRm" => p \in Sockets,
         \A s \in Sockets : sock'[s] = "open" => sock[s] = "open"
  PROVE  StatusFollows'
<1> USE ProcsApart
<1>1. Final' = Final
  BY DEF Final
<1> QED BY <1>1 DEF StatusFollows

\* What is emitted is what the row will say.
LEMMA StatusEmits ==
  ASSUME WaShape, NEW status \in AccountStatus, Emits(status),
         status = "CONNECTED" => Attached',
         status \notin {"CONNECTED", "CONNECTING"} => \A s \in Sockets : sock'[s] # "open"
  PROVE  StatusFollows'
  BY EmittedPending DEF StatusFollows

LEMMA StatusNext ==
  ASSUME WaShape, WaShape', Control, Credentials, StatusFollows, orderly, sound, [Next]_vars
  PROVE  StatusFollows'
<1> USE ProcsApart
<1>p. /\ \A p \in Procs : pc'[p] \in {"rm", "removeRm"} => p \in Calls
      /\ \A p \in Procs : pc'[p] = "closeRm" => p \in Sockets
  BY DEF WaShape, CallSteps, SocketSteps, BootSteps
<1>u. (\E c \in Calls : pc[c] \in {"rm", "removeRm"}) \/ (\E s \in Sockets : pc[s] = "closeRm")
            => \A s \in Sockets : sock[s] \notin Live
  BY DEF Control, Up, Attached, NoLogout, LiveSockets
<1>1. ASSUME NEW c \in Calls, CallStep(c)
      PROVE  StatusFollows'
  <2>c. c \in Procs /\ c # Boot
    OBVIOUS
  <2>1. CASE \/ \E what \in {"connect", "disconnect", "remove"} : BeginCall(c, what)
             \/ sendMessage(c) \/ connect(c) \/ disconnect(c) \/ resolved(c) \/ createSession(c)
    <3>1. UNCHANGED <<row, writes, current, sock>> /\ pc[c] \notin {"auth", "fresh", "paired"}
      BY <2>1 DEF BeginCall, sendMessage, connect, disconnect, resolved, createSession, disk,
         events, live
    <3>2. /\ pc[c] \notin {"rm", "removeRm"} /\ \A q \in Procs : q # c => pc'[q] = pc[q]
      BY <2>1, Moves DEF BeginCall, sendMessage, connect, disconnect, resolved, createSession,
         StartsConnect, Goes, WaShape
    <3>3. Attached => Attached'
      BY <3>1, <3>2 DEF Attached, Connecting
    <3>4. pc[c] # "closeRm"
      BY DEF WaShape, CallSteps
    <3> QED BY <1>p, <3>1, <3>2, <3>3, <3>4, StatusStays
  <2>2. CASE logout(c)
    <3>1. /\ UNCHANGED row /\ via[c] \in Sockets /\ pc[c] \in {"logout", "removeLogout"}
          /\ \/ UNCHANGED writes
             \/ Emits("DISCONNECTED") /\ sock' = [sock EXCEPT ![via[c]] = "closed"]
      BY <2>2 DEF logout, disk, WaShape
    <3>2. /\ pc'[c] \in {"rm", "removeRm"}
          /\ \A q \in Procs : q # c => pc'[q] = pc[q] \/ (q \in Sockets /\ pc'[q] = "closeRm")
      BY <2>2, <3>1, Moves DEF logout, Goes, WaShape
    <3>3. \A s \in Sockets : sock'[s] = sock[s] \/ sock'[s] = "closed"
      BY <2>2 DEF logout, WaShape
    <3>4. CASE UNCHANGED writes
      <4>1. Final' = Final
        BY <3>1, <3>4 DEF Final
      <4> QED BY <3>2, <3>3, <4>1 DEF StatusFollows
    <3>5. CASE Emits("DISCONNECTED") /\ sock' = [sock EXCEPT ![via[c]] = "closed"]
      <4>1. \A s \in Sockets : s # via[c] => sock[s] \notin Live
        BY <3>1 DEF Control, LiveSockets
      <4>2. \A s \in Sockets : sock'[s] # "open"
        BY <3>1, <3>5, <4>1 DEF WaShape, Live
      <4> QED BY <3>5, <4>2, StatusEmits DEF AccountStatus
    <3> QED BY <3>1, <3>4, <3>5
  <2>3. CASE discard(c)
    <3>1. Emits("LOGGED_OUT") /\ sock' = sock /\ pc[c] \in {"rm", "removeRm"}
      BY <2>3 DEF discard, live
    <3>2. \A s \in Sockets : sock'[s] # "open"
      BY <1>u, <3>1 DEF Live
    <3> QED BY <3>1, <3>2, StatusEmits DEF AccountStatus
  <2>4. CASE delete(c)
    <3>1. /\ UNCHANGED <<writes, current, sock>> /\ pc[c] = "delete"
          /\ row' \in {"GONE", row}
      BY <2>4 DEF delete, events, live
    <3>2. pc'[c] = "idle" /\ \A q \in Procs : q # c => pc'[q] = pc[q]
      BY <2>4, Moves DEF delete
    <3>3. Final' \in {Final, "GONE"}
      BY <3>1 DEF Final
    <3>4. current = NoSocket /\ \A s \in Sockets : sock[s] \notin Live
      BY <3>1 DEF Control, Up, Attached, NoLogout, LiveSockets
    <3> QED BY <3>1, <3>2, <3>3, <3>4 DEF StatusFollows, Attached, Connecting, Live
  <2> QED BY <1>1, <2>1, <2>2, <2>3, <2>4 DEF CallStep, Call
<1>2. ASSUME NEW s \in Sockets, SocketStep(s)
      PROVE  StatusFollows'
  <2>s. s \in Procs /\ s # Boot /\ s \notin Calls
    OBVIOUS
  <2>1. CASE QrArrives(s) \/ Scanned(s)
    <3>1. UNCHANGED <<row, writes, current, pc>>
      BY <2>1 DEF QrArrives, Scanned, Untouched, disk, live
    <3>2. \A t \in Sockets : sock'[t] = "open" => sock[t] = "open"
      BY <2>1 DEF QrArrives, Scanned, live, WaShape
    <3>3. Attached' = Attached
      BY <3>1 DEF Attached, Connecting
    <3> QED BY <1>p, <3>1, <3>2, <3>3, StatusStays
  <2>2. CASE showQr(s)
    <3>1. Emits("CONNECTING")
      BY <2>2 DEF showQr
    <3> QED BY <3>1, StatusEmits DEF AccountStatus
  <2>3. CASE restartRequired(s) \/ loggedOut(s)
    <3>1. UNCHANGED <<row, writes>> /\ sock[s] \in Live /\ sock' = [sock EXCEPT ![s] = "closed"]
      BY <2>3 DEF restartRequired, loggedOut, Untouched, disk, Live
    <3>2. pc'[s] \in {"auth", "closeRm"} /\ \A q \in Procs : q # s => pc'[q] = pc[q]
      BY <2>3, Moves DEF restartRequired, loggedOut
    <3>3. Final' = Final
      BY <3>1 DEF Final
    <3>4. \A t \in Sockets : sock'[t] = "open" => sock[t] = "open"
      BY <3>1 DEF WaShape
    <3>5. pc'[s] = "auth" => Attached'
      BY DEF Attached, Connecting
    <3> QED BY <3>2, <3>3, <3>4, <3>5 DEF StatusFollows
  <2>4. CASE opened(s)
    <3>1. UNCHANGED current /\ Emits("CONNECTED") /\ sock[s] = "resuming"
      BY <2>4 DEF opened
    <3>2. current = s
      BY <3>1 DEF Control, LiveSockets, Live
    <3> QED BY <3>1, <3>2, StatusEmits DEF Attached, AccountStatus
  <2>5. CASE closed(s)
    <3>1. /\ Emits("DISCONNECTED") /\ sock[s] \in Live
          /\ sock' = [sock EXCEPT ![s] = "closed"]
      BY <2>5 DEF closed
    <3>2. \A t \in Sockets : t # s => sock[t] \notin Live
      BY <3>1 DEF Control, LiveSockets
    <3>3. \A t \in Sockets : sock'[t] # "open"
      BY <3>1, <3>2 DEF WaShape, Live
    <3> QED BY <3>1, <3>3, StatusEmits DEF AccountStatus
  <2>6. CASE discardClosed(s)
    <3>1. Emits("LOGGED_OUT") /\ sock' = sock /\ pc[s] = "closeRm"
      BY <2>6 DEF discardClosed, live
    <3>2. \A t \in Sockets : sock'[t] # "open"
      BY <1>u, <3>1 DEF Live
    <3> QED BY <3>1, <3>2, StatusEmits DEF AccountStatus
  <2> QED BY <1>2, <2>1, <2>2, <2>3, <2>4, <2>5, <2>6 DEF SocketStep
<1>3. ASSUME NEW p \in Procs, Connects(p)
      PROVE  StatusFollows'
  <2>1. UNCHANGED <<row, writes>> /\ Connecting(p)
    BY <1>3 DEF Connects, readAuthState, makeSocket, events, live, disk, Connecting
  <2>2. /\ \A q \in Procs : q # p => pc'[q] = pc[q]
        /\ Connecting(p)' \/ current' \in Sockets
    BY <1>3, Moves DEF Connects, readAuthState, makeSocket, Connecting
  <2>3. Attached'
    BY <2>2 DEF Attached
  <2>4. \A s \in Sockets : sock'[s] = "open" => sock[s] = "open"
    BY <1>3 DEF Connects, readAuthState, makeSocket, live, WaShape
  <2>5. Final' = Final
    BY <2>1 DEF Final
  <2> QED BY <2>3, <2>4, <2>5 DEF StatusFollows
<1>4. CASE \E i \in 1 .. Len(writes) : handleStatusEvent(i)
  <2>1. PICK i \in 1 .. Len(writes) : handleStatusEvent(i)
    BY <1>4
  <2>2. /\ i = 1 /\ writes' = RemoveAt(writes, 1) /\ UNCHANGED <<current, sock, pc>>
        /\ row' = IF row = "GONE" THEN "GONE" ELSE writes[1]
    BY <2>1 DEF handleStatusEvent, live
  <2>3. /\ 1 \in 1 .. Len(writes) /\ Len(writes) \in Nat /\ Len(writes') = Len(writes) - 1
        /\ \A j \in 1 .. Len(writes') : writes'[j] = writes[j + 1] /\ j + 1 \in 1 .. Len(writes)
        /\ writes' \in Seq(AccountStatus) /\ writes # <<>>
    BY <2>1, <2>2, Removed
  <2>4. Final' \in {Final, "GONE"} /\ (row # "GONE" => Final' = Final)
    <3>1. CASE writes' = <<>>
      <4>1. Len(writes) = 1
        BY <2>3, <3>1
      <4> QED BY <2>2, <2>3, <3>1, <4>1 DEF Final
    <3>2. CASE writes' # <<>>
      <4>1. Len(writes') \in 1 .. Len(writes')
        BY <2>3, <3>2
      <4>2. writes'[Len(writes')] = writes[Len(writes)]
        BY <2>3, <4>1
      <4> QED BY <2>3, <3>2, <4>2 DEF Final
    <3> QED BY <3>1, <3>2
  <2>5. row = "GONE" => \A s \in Sockets : sock[s] \notin Live
    BY DEF Credentials, Control, LiveSockets
  <2>6. Attached' = Attached
    BY <2>2 DEF Attached, Connecting
  <2> QED BY <2>2, <2>4, <2>5, <2>6 DEF StatusFollows, Live
<1>5. CASE revokeSessions \/ UNCHANGED vars
  <2>1. UNCHANGED <<row, writes, current, sock, pc>>
    BY <1>5 DEF revokeSessions, live, vars
  <2>2. Attached' = Attached /\ Final' = Final
    BY <2>1 DEF Attached, Connecting, Final
  <2> QED BY <2>1, <2>2 DEF StatusFollows
<1>6. CASE Restart
  <2>1. /\ pc'[Boot] = "find" /\ \A s \in Sockets : sock'[s] = "closed"
    BY <1>6 DEF Restart
  <2> QED BY <2>1 DEF StatusFollows
<1>7. CASE onModuleInit
  <2>1. pc[Boot] = "find" /\ UNCHANGED <<row, writes, current, sock>>
    BY <1>7 DEF onModuleInit, disk, events, live
  <2>2. /\ row = "CONNECTED" => current # NoSocket \/ pc'[Boot] = "auth"
        /\ \A q \in Procs : q # Boot => pc'[q] = pc[q]
    BY <1>7, Moves DEF onModuleInit, StartsConnect
  <2>3. Final = row /\ Final' = row
    BY <2>1 DEF Final, Control
  <2>4. row = "CONNECTED" => Attached'
    BY <2>1, <2>2 DEF Attached, Connecting
  <2> QED BY <2>1, <2>3, <2>4 DEF StatusFollows
<1> QED BY <1>1, <1>2, <1>3, <1>4, <1>5, <1>6, <1>7
        DEF Next, CallStep, SocketStep, Persists, fails

-----------------------------------------------------------------------------
(* Theorems *)

LEMMA WaIInit == Init => WaIInv
<1> SUFFICES ASSUME Init PROVE WaIInv
  OBVIOUS
<1>1. /\ \A p \in Procs : pc[p] = "idle"
      /\ \A s \in Sockets : sock[s] = "closed"
      /\ current = NoSocket /\ row = "DISCONNECTED" /\ files = "none"
      /\ writes = <<>> /\ revokes = 0 /\ qr = {}
  BY DEF Init
<1>2. ~Attached /\ ~Up /\ LiveSockets = {} /\ \A status : ~Pending(status)
  BY <1>1, ProcsApart DEF Attached, Connecting, Up, LiveSockets, Live, Pending
<1> QED BY <1>1, <1>2, WaInit, ProcsApart
        DEF WaIInv, Control, Credentials, SessionRow, StatusFollows, Connecting, Caller, HasUser,
            Final

LEMMA WaINext == WaIInv /\ [Next]_vars => WaIInv'
<1> SUFFICES ASSUME WaIInv, [Next]_vars PROVE WaIInv'
  OBVIOUS
<1>1. WaShape
  BY DEF WaIInv
<1>2. WaShape'
  BY <1>1, CallShape, SocketShape, ConnectShape, OtherShape DEF Next, CallStep, SocketStep
<1>3. orderly' = orderly /\ sound' = sound
  BY DEF Next, BeginCall, sendMessage, Call, connect, createSession, disconnect, logout, discard,
     delete, resolved, Connects, readAuthState, makeSocket, fails, QrArrives, showQr, Scanned,
     restartRequired, opened, closed, loggedOut, discardClosed, Persists, handleStatusEvent,
     revokeSessions, Restart, onModuleInit, Untouched, vars, modes
<1>4. ASSUME orderly
      PROVE  Control' /\ Credentials'
  <2>0. Control /\ Credentials
    BY <1>4 DEF WaIInv
  <2>1. Control'
    BY <1>1, <1>4, <2>0, CallControl, SocketControl, ConnectControl, OtherControl
       DEF Next, CallStep, SocketStep
  <2>2. Credentials'
    BY <1>1, <1>4, <2>0, CallCredentials, SocketCredentials, ConnectCredentials, FailCredentials,
       OtherCredentials DEF Next, CallStep, SocketStep
  <2> QED BY <2>1, <2>2
<1>5. ASSUME orderly, sound
      PROVE  SessionRow' /\ StatusFollows'
  <2>0. Control /\ Credentials /\ SessionRow /\ StatusFollows
    BY <1>5 DEF WaIInv
  <2>1. SessionRow'
    BY <1>1, <1>5, <2>0, SessionNext
  <2>2. StatusFollows'
    BY <1>1, <1>2, <1>5, <2>0, StatusNext
  <2> QED BY <2>1, <2>2
<1> QED BY <1>2, <1>3, <1>4, <1>5 DEF WaIInv

LEMMA WaHolds == WaIInv => SocketInv /\ RemovedIsGone /\ AccountInv
<1> SUFFICES ASSUME WaIInv PROVE SocketInv /\ RemovedIsGone /\ AccountInv
  OBVIOUS
<1>1. WaShape
  BY DEF WaIInv
<1>2. TypeOK
  BY <1>1 DEF WaShape, TypeOK, Steps, CallSteps, SocketSteps, BootSteps
<1>3. NoDeadSocket /\ OneLiveSocket
  BY <1>1 DEF WaShape, WaIInv, Control, OneLiveSocket
<1>4. RemovedIsGone
  BY <1>1 DEF WaIInv, Credentials, Control, LiveSockets, RemovedIsGone, WaShape
<1>5. StatusIsTruthful
  <2> SUFFICES ASSUME orderly, sound, Quiet
               PROVE  /\ row = "CONNECTED" => current # NoSocket
                      /\ row \in {"DISCONNECTED", "LOGGED_OUT"} =>
                            \A s \in Sockets : sock[s] # "open"
    BY DEF StatusIsTruthful
  <2>1. Final = row
    BY DEF Final, Quiet
  <2>2. \A p \in Procs : pc[p] \in {"idle", "sent", "resolve"}
    BY ProcsApart DEF Quiet, Calling
  <2> QED BY <2>1, <2>2, ProcsApart DEF WaIInv, StatusFollows, Attached, Connecting
<1>6. LinkSurvivesRestart
  <2> SUFFICES ASSUME orderly, NEW s \in Sockets, sock[s] = "open"
               PROVE  files = "paired" /\ (sound => active)
    BY DEF LinkSurvivesRestart
  <2>1. files = "paired"
    BY DEF WaIInv, Credentials, HasUser
  <2>2. current = s /\ s # NoSocket
    BY ProcsApart DEF WaIInv, Control, LiveSockets, Live
  <2> QED BY <2>1, <2>2 DEF WaIInv, Credentials, SessionRow, Attached
<1> QED BY <1>2, <1>3, <1>4, <1>5, <1>6 DEF SocketInv, AccountInv

\* Only resolved ends a send, over a socket that is open.
LEMMA SentStep ==
  ASSUME WaIInv, [Next]_vars, orderly, row = "GONE", NEW c \in Calls, pc[c] = "resolve"
  PROVE  pc'[c] # "sent"
<1> USE ProcsApart
<1>1. WaShape /\ via[c] \in Sockets /\ c \in Procs
  BY DEF WaIInv, WaShape
<1>2. \A s \in Sockets : sock[s] \notin Live
  BY DEF WaIInv, Credentials, Control, LiveSockets
<1>3. CASE resolved(c)
  BY <1>1, <1>2, <1>3, Moves DEF resolved, Live
<1>4. ASSUME NEW p \in Procs, NEW step, step # "sent", Goes(p, step)
      PROVE  pc'[c] # "sent"
  BY <1>1, <1>4, Moves
<1>5. CASE UNCHANGED pc
  BY <1>5
<1>6. ASSUME NEW d \in Calls, d # c, resolved(d)
      PROVE  pc'[c] # "sent"
  BY <1>1, <1>6, Moves DEF resolved
<1>7. ASSUME NEW d \in Calls, logout(d)
      PROVE  pc'[c] # "sent"
  BY <1>1, <1>7 DEF logout, Goes, WaShape
<1>8. ASSUME NEW d \in Calls, disconnect(d)
      PROVE  pc'[c] # "sent"
  BY <1>1, <1>8 DEF disconnect, Goes, WaShape, Removing
<1>9. ~Restart \/ pc'[c] # "sent"
  BY <1>1 DEF Restart
<1> QED BY <1>3, <1>4, <1>5, <1>6, <1>7, <1>8, <1>9
    DEF Next, BeginCall, sendMessage, Call, connect, createSession, StartsConnect, discard,
        delete, Connects, readAuthState, makeSocket, fails, QrArrives, showQr, Scanned,
        restartRequired, opened, closed, loggedOut, discardClosed, Persists, handleStatusEvent,
        revokeSessions, onModuleInit, vars

\* The map and the sockets agree: senders find no dead socket, and while calls do not overlap
\* there is one live socket at most.
THEOREM SocketInvCorrect == Spec => []SocketInv
<1> QED BY WaIInit, WaINext, WaHolds, PTL DEF Spec

\* While calls do not overlap, neither a socket nor files are left of a removed account.
THEOREM RemovedIsGoneCorrect == Spec => []RemovedIsGone
<1> QED BY WaIInit, WaINext, WaHolds, PTL DEF Spec

\* While calls do not overlap and nothing fails, the row and the session row agree with the
\* socket once all has settled; an open socket has paired files, whatever fails.
THEOREM AccountInvCorrect == Spec => []AccountInv
<1> QED BY WaIInit, WaINext, WaHolds, PTL DEF Spec

\* While calls do not overlap, nothing is sent in the name of a removed account.
THEOREM NoSendAfterRemovalCorrect == Spec => NoSendAfterRemoval
<1>1. WaIInv /\ [Next]_vars =>
        [\A c \in Calls : orderly /\ row = "GONE" => ~(pc[c] = "resolve" /\ pc'[c] = "sent")]_vars
  BY SentStep
<1> QED BY <1>1, WaIInit, WaINext, PTL DEF Spec, NoSendAfterRemoval
=============================================================================
