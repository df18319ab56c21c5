----------------------------- MODULE CreditAccount -----------------------------
(***************************************************************************)
(* What the credit system promises an organization, with no statement-level *)
(* detail: prepaid credits, each of which is free, held for one send, or    *)
(* spent on one send.  A hold ends at most once, either captured (the send  *)
(* is charged for good) or refunded; spent is final.  SendMessage is shown  *)
(* to implement this under the mapping given there.                         *)
(***************************************************************************)
EXTENDS Integers

CONSTANTS Sends,      \* chargeable sends
          Amounts     \* the credits a Super Admin adds or takes away at once

VARIABLES free,       \* credits a new send may still hold
          holds,      \* sends that hold one credit
          spent       \* sends that were charged one credit

account == <<free, holds, spent>>

Init ==
    /\ free = 0
    /\ holds = {}
    /\ spent = {}

Grant(n) ==
    /\ free' = free + n
    /\ UNCHANGED <<holds, spent>>

Withdraw(n) ==
    /\ free >= n
    /\ free' = free - n
    /\ UNCHANGED <<holds, spent>>

\* A send holds at most one credit, and none once it is spent.
Hold(s) ==
    /\ s \notin holds \union spent
    /\ free >= 1
    /\ free' = free - 1
    /\ holds' = holds \union {s}
    /\ UNCHANGED spent

Capture(s) ==
    /\ s \in holds
    /\ holds' = holds \ {s}
    /\ spent' = spent \union {s}
    /\ UNCHANGED free

Refund(s) ==
    /\ s \in holds
    /\ free' = free + 1
    /\ holds' = holds \ {s}
    /\ UNCHANGED spent

Next ==
    \/ \E n \in Amounts : Grant(n) \/ Withdraw(n)
    \/ \E s \in Sends : Hold(s) \/ Capture(s) \/ Refund(s)

Spec == Init /\ [][Next]_account
================================================================================
