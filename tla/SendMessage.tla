------------------------------ MODULE SendMessage ------------------------------
(***************************************************************************)
(* ConversationsService.sendMessage, the one send path of the inbox, the    *)
(* campaigns and the automations, together with the CreditsService calls    *)
(* it makes and what a Super Admin does to the same wallet: the adjust      *)
(* endpoint (topup or debit) and the topup of a newly assigned plan.        *)
(*                                                                          *)
(* The API is one Node.js process: the code between two awaits is atomic,   *)
(* and calls interleave at the awaits.  Each action below is one awaited    *)
(* statement with the code that follows it up to the next await; pc[s]      *)
(* names the statement call s executes next.  The wallet of one             *)
(* organization is modelled, for no statement touches two.                  *)
(*                                                                          *)
(* getOrCreateWallet, awaited before each wallet statement, only finds the  *)
(* row (created with balance 0 the first time): it is folded into the       *)
(* statement it precedes, except in recordDebit, whose balanceAfter is the  *)
(* balance it returned.                                                     *)
(***************************************************************************)
EXTENDS Integers, FiniteSets

CONSTANTS Sends,        \* calls of sendMessage; each makes at most one Message
          Adjustments,  \* calls of topup and debit by a Super Admin's request
          Amounts,      \* the amounts those adjust by
          Blockers,     \* which of the reasons to refuse a send may come and go
          DbFails,      \* whether a database statement may throw
          Crashes       \* whether the process may stop and start again

ASSUME SendsAssumption == IsFiniteSet(Sends)
ASSUME AmountsAssumption == Amounts \subseteq Nat \ {0}
ASSUME BlockersAssumption ==
    Blockers \subseteq {"optedOut", "disconnected", "planExpired"}
ASSUME FaultsAssumption == DbFails \in BOOLEAN /\ Crashes \in BOOLEAN

VARIABLES balance,      \* CreditWallet.balance
          posted,       \* the CREDIT rows less the DEBIT rows of the ledger
          lastAfter,    \* balanceAfter of the ledger's newest row
          charged,      \* the sends whose Message a DEBIT row refers to
          status,       \* Message.status by call, "none" before the row exists
          blocked,      \* the reasons to refuse a send that hold now
          pc,           \* the statement each call of sendMessage is at
          seen,         \* the balance recordDebit read, by call
          adj           \* each adjust call: its statement, change and balance

\* History, never read by an action: the messages WhatsApp accepted, the calls
\* whose credit is off the balance, and the balance changes of adjust calls
\* whose ledger row is not written.
VARIABLES delivered, held, unposted

money == <<balance, posted, lastAfter, charged, held, unposted>>
vars == <<money, status, blocked, pc, seen, adj, delivered>>

Steps == {"idle", "plan", "precheck", "create", "reserve", "refuse", "send",
          "read", "post", "confirm", "release", "giveUp",
          "done", "rejected", "lost"}
Ended == {"done", "rejected", "lost"}
AdjSteps == {"idle", "post", "done", "rejected", "lost"}

TypeOK ==
    /\ balance \in Int
    /\ posted \in Int
    /\ lastAfter \in Int
    /\ unposted \in Int
    /\ charged \subseteq Sends
    /\ held \subseteq Sends
    /\ delivered \subseteq Sends
    /\ status \in [Sends -> {"none", "PENDING", "SENT", "FAILED"}]
    /\ blocked \subseteq Blockers
    /\ pc \in [Sends -> Steps]
    /\ seen \in [Sends -> Int]
    /\ adj \in [Adjustments -> [at : AdjSteps, change : Int, after : Int]]

Init ==
    /\ balance = 0 /\ posted = 0 /\ lastAfter = 0 /\ unposted = 0
    /\ charged = {} /\ held = {} /\ delivered = {}
    /\ status = [s \in Sends |-> "none"]
    /\ blocked = {}
    /\ pc = [s \in Sends |-> "idle"]
    /\ seen = [s \in Sends |-> 0]
    /\ adj = [a \in Adjustments |-> [at |-> "idle", change |-> 0, after |-> 0]]

CREDITS_PER_MESSAGE == 1

Goto(s, step) == pc' = [pc EXCEPT ![s] = step]
Step(s, from, to) == pc[s] = from /\ Goto(s, to)
SetStatus(s, v) == status' = [status EXCEPT ![s] = v]

\* All but pc.
rest == <<money, status, blocked, seen, adj, delivered>>

--------------------------------------------------------------------------------
(* The guards, in the order of the code; each refusal is an exception.      *)

\* findOne, then the opt-out and the connection of the row it returned.
Open(s) ==
    /\ Step(s, "idle", IF blocked \intersect {"optedOut", "disconnected"} = {}
                       THEN "plan" ELSE "rejected")
    /\ UNCHANGED rest

CheckPlan(s) ==
    /\ Step(s, "plan", IF "planExpired" \notin blocked
                       THEN "precheck" ELSE "rejected")
    /\ UNCHANGED rest

assertSufficientBalance(s) ==
    /\ Step(s, "precheck", IF balance >= CREDITS_PER_MESSAGE
                           THEN "create" ELSE "rejected")
    /\ UNCHANGED rest

\* The dto names a media file that does not exist.
MediaMissing(s) ==
    /\ Step(s, "create", "rejected")
    /\ UNCHANGED rest

CreateMessage(s) ==
    /\ Step(s, "create", "reserve")
    /\ SetStatus(s, "PENDING")
    /\ UNCHANGED <<money, blocked, seen, adj, delivered>>

--------------------------------------------------------------------------------
(* The credit, the provider and the outcome.                                *)

\* Fault: the decrement without its balance condition.
reserveUnchecked(s) ==
    /\ Step(s, "reserve", "send")
    /\ balance' = balance - CREDITS_PER_MESSAGE
    /\ held' = held \union {s}
    /\ UNCHANGED <<posted, lastAfter, charged, unposted,
                   status, blocked, seen, adj, delivered>>

\* UPDATE ... SET balance = balance - 1 WHERE id = ? AND balance >= 1
reserve(s) ==
    /\ Step(s, "reserve", "send")
    /\ balance >= CREDITS_PER_MESSAGE
    /\ balance' = balance - CREDITS_PER_MESSAGE
    /\ held' = held \union {s}
    /\ UNCHANGED <<posted, lastAfter, charged, unposted,
                   status, blocked, seen, adj, delivered>>

\* Fault: the failed reserve is logged and the send goes on.
reserveFailsQuietly(s) ==
    /\ Step(s, "reserve", "send")
    /\ balance < CREDITS_PER_MESSAGE \/ DbFails
    /\ UNCHANGED rest

\* No such row any more (P2025), or the statement failed: either way it throws.
reserveFails(s) ==
    /\ Step(s, "reserve", "refuse")
    /\ balance < CREDITS_PER_MESSAGE \/ DbFails
    /\ UNCHANGED rest

\* Fault: the loser's call throws and leaves its Message as it is.
RefuseUnmarked(s) ==
    /\ Step(s, "refuse", "rejected")
    /\ UNCHANGED rest

\* The loser's Message is marked FAILED and returned.
Refuse(s) ==
    /\ Step(s, "refuse", "done")
    /\ SetStatus(s, "FAILED")
    /\ UNCHANGED <<money, blocked, seen, adj, delivered>>

\* provider.sendTextMessage or sendMediaMessage resolves: WhatsApp has it.
ProviderSends(s) ==
    /\ Step(s, "send", "read")
    /\ delivered' = delivered \union {s}
    /\ UNCHANGED <<money, status, blocked, seen, adj>>

\* Fault: the catch block forgets to release.
ProviderThrowsKept(s) ==
    /\ Step(s, "send", "giveUp")
    /\ UNCHANGED rest

ProviderThrows(s) ==
    /\ Step(s, "send", "release")
    /\ UNCHANGED rest

\* recordDebit, its first statement: the wallet as it is now ...
recordDebitReads(s) ==
    /\ Step(s, "read", "post")
    /\ seen' = [seen EXCEPT ![s] = balance]
    /\ UNCHANGED <<money, status, blocked, adj, delivered>>

\* Fault: debit is called instead, which takes the credit a second time.
recordDebitTwice(s) ==
    /\ Step(s, "post", "confirm")
    /\ balance' = balance - CREDITS_PER_MESSAGE
    /\ posted' = posted - CREDITS_PER_MESSAGE
    /\ lastAfter' = seen[s]
    /\ charged' = charged \union {s}
    /\ UNCHANGED <<held, unposted, status, blocked, seen, adj, delivered>>

\* ... and its second: the DEBIT row, with the balance read before.
recordDebit(s) ==
    /\ Step(s, "post", "confirm")
    /\ posted' = posted - CREDITS_PER_MESSAGE
    /\ lastAfter' = seen[s]
    /\ charged' = charged \union {s}
    /\ UNCHANGED <<balance, held, unposted, status, blocked, seen, adj, delivered>>

\* The Message becomes SENT.  touchConversation follows, which swallows its own
\* failure and changes nothing modelled here.
Confirm(s) ==
    /\ Step(s, "confirm", "done")
    /\ SetStatus(s, "SENT")
    /\ UNCHANGED <<money, blocked, seen, adj, delivered>>

\* Fault: a failed ledger write is only logged, as touchConversation's is.
FailsAfterSendQuietly(s) ==
    /\ DbFails
    /\ pc[s] \in {"read", "post", "confirm"}
    /\ Goto(s, IF pc[s] = "post" THEN "confirm" ELSE "release")
    /\ UNCHANGED rest

\* A statement of the try block throws after the provider resolved.
FailsAfterSend(s) ==
    /\ DbFails
    /\ pc[s] \in {"read", "post", "confirm"}
    /\ Goto(s, "release")
    /\ UNCHANGED rest

release(s) ==
    /\ Step(s, "release", "giveUp")
    /\ balance' = balance + CREDITS_PER_MESSAGE
    /\ held' = held \ {s}
    /\ UNCHANGED <<posted, lastAfter, charged, unposted,
                   status, blocked, seen, adj, delivered>>

\* Fault: the failed Message's row is deleted.
GiveUpDeletes(s) ==
    /\ Step(s, "giveUp", "done")
    /\ SetStatus(s, "deleted")
    /\ UNCHANGED <<money, blocked, seen, adj, delivered>>

GiveUp(s) ==
    /\ Step(s, "giveUp", "done")
    /\ SetStatus(s, "FAILED")
    /\ UNCHANGED <<money, blocked, seen, adj, delivered>>

\* A statement outside the try blocks, or in a catch block, throws to the caller.
Throws(s) ==
    /\ DbFails
    /\ pc[s] \in {"idle", "plan", "precheck", "create", "refuse", "release", "giveUp"}
    /\ Goto(s, "rejected")
    /\ UNCHANGED rest

Advance(s) ==
    \/ Open(s) \/ CheckPlan(s) \/ assertSufficientBalance(s)
    \/ MediaMissing(s) \/ CreateMessage(s)
    \/ reserve(s) \/ reserveFails(s) \/ Refuse(s)
    \/ ProviderSends(s) \/ ProviderThrows(s)
    \/ recordDebitReads(s) \/ recordDebit(s) \/ Confirm(s)
    \/ FailsAfterSend(s) \/ release(s) \/ GiveUp(s) \/ Throws(s)

--------------------------------------------------------------------------------
(* topup and debit, for AdminCreditsController.adjust and (topup) for the   *)
(* plan of an organization: two statements, in no transaction.              *)

\* topup's UPDATE, which increments and returns the new balance.
topup(a, n) ==
    /\ adj[a].at = "idle"
    /\ balance' = balance + n
    /\ unposted' = unposted + n
    /\ adj' = [adj EXCEPT ![a] = [at |-> "post", change |-> n, after |-> balance']]
    /\ UNCHANGED <<posted, lastAfter, charged, held,
                   status, blocked, pc, seen, delivered>>

\* Fault: debit without its balance condition.
debitUnchecked(a, n) ==
    /\ adj[a].at = "idle"
    /\ balance' = balance - n
    /\ unposted' = unposted - n
    /\ adj' = [adj EXCEPT ![a] = [at |-> "post", change |-> 0 - n, after |-> balance']]
    /\ UNCHANGED <<posted, lastAfter, charged, held,
                   status, blocked, pc, seen, delivered>>

\* debit's conditional UPDATE; with too little balance it throws.
debit(a, n) ==
    /\ adj[a].at = "idle"
    /\ IF balance >= n
       THEN /\ balance' = balance - n
            /\ unposted' = unposted - n
            /\ adj' = [adj EXCEPT ![a] =
                          [at |-> "post", change |-> 0 - n, after |-> balance']]
       ELSE /\ adj' = [adj EXCEPT ![a].at = "rejected"]
            /\ UNCHANGED <<balance, unposted>>
    /\ UNCHANGED <<posted, lastAfter, charged, held,
                   status, blocked, pc, seen, delivered>>

\* creditTransaction.create of either.
PostAdjustment(a) ==
    /\ adj[a].at = "post"
    /\ posted' = posted + adj[a].change
    /\ unposted' = unposted - adj[a].change
    /\ lastAfter' = adj[a].after
    /\ adj' = [adj EXCEPT ![a].at = "done"]
    /\ UNCHANGED <<balance, charged, held, status, blocked, pc, seen, delivered>>

AdjustThrows(a) ==
    /\ DbFails
    /\ adj[a].at \in {"idle", "post"}
    /\ adj' = [adj EXCEPT ![a].at = "rejected"]
    /\ UNCHANGED <<money, status, blocked, pc, seen, delivered>>

Adjust(a) ==
    \/ \E n \in Amounts : topup(a, n) \/ debit(a, n)
    \/ PostAdjustment(a)
    \/ AdjustThrows(a)

--------------------------------------------------------------------------------
(* The surroundings.                                                        *)

\* The contact opts out or in again, the account connects or disconnects, the
\* plan runs out or is renewed: writes of other requests, at any moment.
Surroundings ==
    /\ blocked' \in SUBSET Blockers
    /\ blocked' # blocked
    /\ UNCHANGED <<money, status, pc, seen, adj, delivered>>

\* The process stops: every call in progress is gone, and nothing at start-up
\* looks for the rows it left behind.
Crash ==
    /\ Crashes
    /\ \/ \E s \in Sends : pc[s] \notin Ended \union {"idle"}
       \/ \E a \in Adjustments : adj[a].at = "post"
    /\ pc' = [s \in Sends |->
                IF pc[s] \in Ended \union {"idle"} THEN pc[s] ELSE "lost"]
    /\ adj' = [a \in Adjustments |->
                IF adj[a].at = "post" THEN [adj[a] EXCEPT !.at = "lost"] ELSE adj[a]]
    /\ UNCHANGED <<money, status, blocked, seen, delivered>>

Next ==
    \/ \E s \in Sends : Advance(s)
    \/ \E a \in Adjustments : Adjust(a)
    \/ Surroundings
    \/ Crash

Spec == Init /\ [][Next]_vars

\* Once a call has begun, the runtime resumes it after every await: the database
\* answers, and so does the provider (with a result or an exception).
Fairness ==
    /\ \A s \in Sends : WF_vars(pc[s] # "idle" /\ Advance(s))
    /\ \A a \in Adjustments : WF_vars(PostAdjustment(a))

FairSpec == Spec /\ Fairness

--------------------------------------------------------------------------------
(* Properties.                                                              *)

\* What the balance is made of, at every moment and whatever fails: the ledger,
\* plus the balance changes whose ledger row is missing (topup and debit write it
\* in a second statement), less the credits of sends that are off the balance
\* with no DEBIT row (a reserve not yet recorded, or abandoned by a crash), plus
\* the credits given back to sends that do have one (a failure after recordDebit).
\* A double release, a second DEBIT row or a forgotten reserve breaks it.
BooksBalance ==
    balance = posted + unposted - Cardinality(held \ charged)
                                + Cardinality(charged \ held)

\* The conditional updates of reserve and debit: two calls that both passed
\* assertSufficientBalance on the same credits never take more than there are.
NeverOverdrawn == balance >= 0

\* A Message marked SENT was accepted by WhatsApp, has its DEBIT row and its
\* credit is off the balance, even when statements fail and the process stops.
SentIsCharged ==
    \A s \in Sends :
        status[s] = "SENT" => s \in delivered \intersect charged \intersect held

\* The loser of a race for the last credit never reaches WhatsApp: a message
\* WhatsApp has is paid with a credit of its own, which is never given back
\* (while no statement fails; a crash does not matter).
DeliveredIsPaid == ~DbFails => delivered \subseteq held

\* sendMessage's catch block: a send that ends FAILED took nothing from the wallet,
\* left no DEBIT row, and nothing of it is on WhatsApp (while no statement fails).
FailedSendIsFree ==
    ~DbFails => \A s \in Sends :
        status[s] = "FAILED" => s \notin delivered \union charged \union held

\* The abstract account this implements while no statement fails: a credit is held
\* from reserve on, spent by recordDebit, refunded by release.
Account == INSTANCE CreditAccount
             WITH free <- balance, holds <- held \ charged, spent <- charged

\* Every reserve is settled at most once, and a charge is final.
ImplementsAccount == Account!Spec

\* A Message row never stays PENDING: one of the four ways sendMessage ends a
\* message is reached on every path (no failing statement, no crash).
PendingResolves ==
    \A s \in Sends : status[s] = "PENDING" ~> status[s] \in {"SENT", "FAILED"}

\* A credit that is off the balance with no ledger row is recorded or given back
\* in the end: reserve is followed by recordDebit or release.
HoldsEnd ==
    \A s \in Sends : s \in held \ charged ~> s \in charged \/ s \notin held
================================================================================
