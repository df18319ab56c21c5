--------------------------- MODULE SendMessage_proof ---------------------------
(***************************************************************************)
(* What is proved of SendMessage for every set of calls, every set of       *)
(* amounts and every choice of faults: its type invariant, where each call  *)
(* stands (Stages), and from these the safety properties and, while no      *)
(* statement fails, the refinement of CreditAccount.                        *)
(***************************************************************************)
EXTENDS SendMessage, FiniteSetTheorems, TLAPS

USE DEF CREDITS_PER_MESSAGE

\* Where the credit of a call is, by the statement the call is at: the link between
\* the program counter, the Message and the wallet that every property rests on.
Stage(s) ==
    /\ pc[s] \in {"idle", "plan", "precheck", "create"} =>
          status[s] = "none" /\ s \notin held \union charged \union delivered
    /\ pc[s] \in {"reserve", "refuse"} =>
          status[s] = "PENDING" /\ s \notin held \union charged \union delivered
    /\ pc[s] = "send" =>
          status[s] = "PENDING" /\ s \in held /\ s \notin charged \union delivered
    /\ pc[s] \in {"read", "post"} =>
          /\ status[s] = "PENDING"
          /\ s \in held \intersect delivered
          /\ s \notin charged
    /\ pc[s] = "confirm" =>
          status[s] = "PENDING" /\ s \in held \intersect charged \intersect delivered
    /\ pc[s] = "release" =>
          /\ status[s] = "PENDING"
          /\ s \in held
          /\ ~DbFails => s \notin charged \union delivered
    /\ pc[s] = "giveUp" =>
          /\ status[s] = "PENDING"
          /\ s \notin held
          /\ ~DbFails => s \notin charged \union delivered
    /\ status[s] = "SENT" =>
          pc[s] = "done" /\ s \in held \intersect charged \intersect delivered
    /\ status[s] = "FAILED" =>
          /\ pc[s] = "done"
          /\ ~DbFails => s \notin held \union charged \union delivered
    /\ ~DbFails /\ s \in delivered => s \in held

Stages == \A s \in Sends : Stage(s)

--------------------------------------------------------------------------------
(* Cardinalities.                                                           *)

\* A set of calls is finite, and gains or loses one when one call is added or
\* taken away.
LEMMA OneMoreOneLess ==
    ASSUME NEW S \in SUBSET Sends, NEW s
    PROVE  /\ Cardinality(S) \in Nat
           /\ s \notin S => Cardinality(S \union {s}) = Cardinality(S) + 1
           /\ s \in S => Cardinality(S \ {s}) = Cardinality(S) - 1
<1>1. IsFiniteSet(S)
  BY SendsAssumption, FS_Subset
<1>2. QED
  BY <1>1, FS_CardinalityType, FS_AddElement, FS_RemoveElement

--------------------------------------------------------------------------------
(* Type correctness.                                                        *)

\* The initial state has the types.
LEMMA TypeInit == Init => TypeOK
BY DEF Init, TypeOK, Steps, AdjSteps

\* A step of a send keeps every variable in its type.
LEMMA TypeAdvance ==
    ASSUME TypeOK, NEW s \in Sends, Advance(s)
    PROVE  TypeOK'
<1> USE DEF TypeOK, Steps, Step, Goto, SetStatus, rest, money
<1>1. CASE Open(s) \/ CheckPlan(s) \/ assertSufficientBalance(s) \/ MediaMissing(s)
  BY <1>1 DEF Open, CheckPlan, assertSufficientBalance, MediaMissing
<1>2. CASE CreateMessage(s) \/ Refuse(s) \/ Confirm(s) \/ GiveUp(s)
  BY <1>2 DEF CreateMessage, Refuse, Confirm, GiveUp
<1>3. CASE reserve(s)
  BY <1>3 DEF reserve
<1>4. CASE reserveFails(s) \/ ProviderThrows(s) \/ FailsAfterSend(s) \/ Throws(s)
  BY <1>4 DEF reserveFails, ProviderThrows, FailsAfterSend, Throws
<1>5. CASE ProviderSends(s)
  BY <1>5 DEF ProviderSends
<1>6. CASE recordDebitReads(s)
  BY <1>6 DEF recordDebitReads
<1>7. CASE recordDebit(s)
  BY <1>7 DEF recordDebit
<1>8. CASE release(s)
  BY <1>8 DEF release
<1>9. QED
  BY <1>1, <1>2, <1>3, <1>4, <1>5, <1>6, <1>7, <1>8 DEF Advance

\* A step of an adjust call keeps every variable in its type.
LEMMA TypeAdjust ==
    ASSUME TypeOK, NEW a \in Adjustments, Adjust(a)
    PROVE  TypeOK'
<1> USE DEF TypeOK, AdjSteps, money
<1>1. ASSUME NEW n \in Amounts, topup(a, n)
      PROVE  TypeOK'
  BY <1>1, AmountsAssumption DEF topup
<1>2. ASSUME NEW n \in Amounts, debit(a, n)
      PROVE  TypeOK'
  <2>1. n \in Int
    BY AmountsAssumption
  <2>2. CASE balance >= n
    BY <1>2, <2>1, <2>2 DEF debit
  <2>3. CASE ~(balance >= n)
    BY <1>2, <2>3 DEF debit
  <2>4. QED
    BY <2>2, <2>3
<1>3. CASE PostAdjustment(a)
  BY <1>3 DEF PostAdjustment
<1>4. CASE AdjustThrows(a)
  BY <1>4 DEF AdjustThrows
<1>5. QED
  BY <1>1, <1>2, <1>3, <1>4 DEF Adjust

\* Every step keeps the types.
LEMMA TypeNext == TypeOK /\ [Next]_vars => TypeOK'
<1> SUFFICES ASSUME TypeOK, [Next]_vars PROVE TypeOK'
  OBVIOUS
<1>1. CASE Surroundings
  BY <1>1 DEF Surroundings, TypeOK, money
<1>2. CASE Crash
  BY <1>2 DEF Crash, TypeOK, Steps, AdjSteps, Ended, money
<1>3. CASE UNCHANGED vars
  BY <1>3 DEF vars, TypeOK, money
<1>4. QED
  BY <1>1, <1>2, <1>3, TypeAdvance, TypeAdjust DEF Next

\* Every variable keeps its type, for all constants.
THEOREM TypeCorrect == Spec => []TypeOK
BY TypeInit, TypeNext, PTL DEF Spec

--------------------------------------------------------------------------------
(* Stages.                                                                  *)

\* Initially every call is at its first stage.
LEMMA StagesInit == Init => Stages
BY DEF Init, Stages, Stage

\* A step of a send moves the send to its next stage and no other send.
LEMMA StagesAdvance ==
    ASSUME TypeOK, Stages, NEW s \in Sends, Advance(s)
    PROVE  Stages'
<1> SUFFICES ASSUME NEW t \in Sends PROVE Stage(t)'
  BY DEF Stages
<1>0. Stage(t) /\ Stage(s)
  BY DEF Stages
<1> USE <1>0 DEF TypeOK, Stage, Step, Goto, SetStatus, rest, money
<1>1. CASE Open(s) \/ CheckPlan(s) \/ assertSufficientBalance(s) \/ MediaMissing(s)
  BY <1>1 DEF Open, CheckPlan, assertSufficientBalance, MediaMissing
<1>2. CASE CreateMessage(s)
  BY <1>2 DEF CreateMessage
<1>3. CASE reserve(s)
  BY <1>3 DEF reserve
<1>4. CASE reserveFails(s) \/ ProviderThrows(s)
  BY <1>4 DEF reserveFails, ProviderThrows
<1>5. CASE Refuse(s) \/ GiveUp(s)
  BY <1>5 DEF Refuse, GiveUp
<1>6. CASE ProviderSends(s)
  BY <1>6 DEF ProviderSends
<1>7. CASE recordDebitReads(s)
  BY <1>7 DEF recordDebitReads
<1>8. CASE recordDebit(s)
  BY <1>8 DEF recordDebit
<1>9. CASE Confirm(s)
  BY <1>9 DEF Confirm
<1>10. CASE FailsAfterSend(s) \/ Throws(s)
  BY <1>10 DEF FailsAfterSend, Throws
<1>11. CASE release(s)
  BY <1>11 DEF release
<1>12. QED
  BY <1>1, <1>2, <1>3, <1>4, <1>5, <1>6, <1>7, <1>8, <1>9, <1>10, <1>11 DEF Advance

\* Every step keeps every call at a stage.
LEMMA StagesNext == TypeOK /\ Stages /\ [Next]_vars => Stages'
<1> SUFFICES ASSUME TypeOK, Stages, [Next]_vars PROVE Stages'
  OBVIOUS
<1>1. ASSUME NEW a \in Adjustments, Adjust(a)
      PROVE  Stages'
  BY <1>1 DEF Adjust, topup, debit, PostAdjustment, AdjustThrows, Stages, Stage, money
<1>2. CASE Surroundings
  BY <1>2 DEF Surroundings, Stages, Stage, money
<1>3. CASE Crash
  BY <1>3 DEF Crash, Stages, Stage, Ended, TypeOK, money
<1>4. CASE UNCHANGED vars
  BY <1>4 DEF vars, Stages, Stage, money
<1>5. QED
  BY <1>1, <1>2, <1>3, <1>4, StagesAdvance DEF Next

\* Where a call stands always tells what its Message and its credit are.
THEOREM StagesCorrect == Spec => []Stages
BY TypeInit, TypeNext, StagesInit, StagesNext, PTL DEF Spec

\* A SENT Message is delivered, recorded and paid, whatever fails.
THEOREM SentIsChargedCorrect == Spec => []SentIsCharged
<1>1. Stages => SentIsCharged
  BY DEF Stages, Stage, SentIsCharged
<1>2. QED
  BY <1>1, StagesCorrect, PTL

\* A message on WhatsApp is paid for, while no statement fails.
THEOREM DeliveredIsPaidCorrect == Spec => []DeliveredIsPaid
<1>1. TypeOK /\ Stages => DeliveredIsPaid
  BY DEF TypeOK, Stages, Stage, DeliveredIsPaid
<1>2. QED
  BY <1>1, TypeCorrect, StagesCorrect, PTL

\* A FAILED Message costs nothing and leaves no trace, while no statement fails.
THEOREM FailedSendIsFreeCorrect == Spec => []FailedSendIsFree
<1>1. Stages => FailedSendIsFree
  BY DEF Stages, Stage, FailedSendIsFree
<1>2. QED
  BY <1>1, StagesCorrect, PTL

--------------------------------------------------------------------------------
(* The books.                                                               *)

\* The books are balanced to begin with.
LEMMA BooksInit == Init => BooksBalance /\ NeverOverdrawn
<1>1. {} \ {} = {}
  OBVIOUS
<1>2. QED
  BY <1>1, FS_EmptySet DEF Init, BooksBalance, NeverOverdrawn

\* A step of a send: reserve adds the call to those that hold a credit without a
\* row, recordDebit and release take it away, and release of a call that has a row
\* adds it to those that got a recorded credit back.
LEMMA BooksAdvance ==
    ASSUME TypeOK, Stages, BooksBalance, NEW s \in Sends, Advance(s)
    PROVE  BooksBalance'
<1> DEFINE unrecorded == held \ charged
           returned   == charged \ held
           u == Cardinality(unrecorded)
           r == Cardinality(returned)
<1>1. /\ unrecorded \in SUBSET Sends /\ returned \in SUBSET Sends
      /\ balance \in Int /\ posted \in Int /\ unposted \in Int
  BY DEF TypeOK
<1>2. balance = posted + unposted - u + r
  BY DEF BooksBalance
<1>3. u \in Nat /\ r \in Nat
  BY <1>1, OneMoreOneLess
<1>4. Stage(s)
  BY DEF Stages
<1>5. SUFFICES balance' = posted' + unposted' - u' + r'
  BY DEF BooksBalance
<1>6. CASE UNCHANGED <<balance, posted, unposted, held, charged>>
  BY <1>6, <1>2
<1>7. CASE reserve(s)
  <2>1. s \notin held /\ s \notin charged
    BY <1>4, <1>7 DEF Stage, Step, reserve
  <2>2. unrecorded' = unrecorded \union {s} /\ returned' = returned /\ s \notin unrecorded
    BY <2>1, <1>7 DEF reserve
  <2>3. u' = u + 1 /\ r' = r
    BY <2>2, <1>1, OneMoreOneLess
  <2>4. balance' = balance - 1 /\ posted' = posted /\ unposted' = unposted
    BY <1>7 DEF reserve
  <2> HIDE DEF u, r
  <2>5. QED
    BY <1>1, <1>2, <1>3, <2>3, <2>4
<1>8. CASE recordDebit(s)
  <2>1. s \in held /\ s \notin charged
    BY <1>4, <1>8 DEF Stage, Step, recordDebit
  <2>2. unrecorded' = unrecorded \ {s} /\ returned' = returned /\ s \in unrecorded
    BY <2>1, <1>8 DEF recordDebit
  <2>3. u' = u - 1 /\ r' = r
    BY <2>2, <1>1, OneMoreOneLess
  <2>4. balance' = balance /\ posted' = posted - 1 /\ unposted' = unposted
    BY <1>8 DEF recordDebit
  <2> HIDE DEF u, r
  <2>5. QED
    BY <1>1, <1>2, <1>3, <2>3, <2>4
<1>9. CASE release(s)
  <2>1. s \in held
    BY <1>4, <1>9 DEF Stage, Step, release
  <2>2. balance' = balance + 1 /\ posted' = posted /\ unposted' = unposted
    BY <1>9 DEF release
  <2>3. CASE s \in charged
    <3>1. unrecorded' = unrecorded /\ returned' = returned \union {s} /\ s \notin returned
      BY <2>1, <2>3, <1>9 DEF release
    <3>2. u' = u /\ r' = r + 1
      BY <3>1, <1>1, OneMoreOneLess
    <3> HIDE DEF u, r
    <3>3. QED
      BY <1>1, <1>2, <1>3, <2>2, <3>2
  <2>4. CASE s \notin charged
    <3>1. unrecorded' = unrecorded \ {s} /\ returned' = returned /\ s \in unrecorded
      BY <2>1, <2>4, <1>9 DEF release
    <3>2. u' = u - 1 /\ r' = r
      BY <3>1, <1>1, OneMoreOneLess
    <3> HIDE DEF u, r
    <3>3. QED
      BY <1>1, <1>2, <1>3, <2>2, <3>2
  <2>5. QED
    BY <2>3, <2>4
<1>10. QED
  BY <1>6, <1>7, <1>8, <1>9 DEF Advance, rest, money, Step, Open, CheckPlan, assertSufficientBalance,
     MediaMissing, CreateMessage, reserveFails, Refuse, ProviderSends, ProviderThrows,
     recordDebitReads, Confirm, FailsAfterSend, GiveUp, Throws

\* An adjust call moves its change from the balance's side to the ledger's.
LEMMA BooksAdjust ==
    ASSUME TypeOK, BooksBalance, NEW a \in Adjustments, Adjust(a)
    PROVE  BooksBalance'
<1> DEFINE u == Cardinality(held \ charged)
           r == Cardinality(charged \ held)
<1>1. /\ held \ charged \in SUBSET Sends /\ charged \ held \in SUBSET Sends
      /\ balance \in Int /\ posted \in Int /\ unposted \in Int
      /\ adj[a].change \in Int
  BY DEF TypeOK
<1>2. u \in Nat /\ r \in Nat /\ balance = posted + unposted - u + r
  BY <1>1, OneMoreOneLess DEF BooksBalance
<1>3. UNCHANGED <<held, charged>>
  BY DEF Adjust, topup, debit, PostAdjustment, AdjustThrows, money
<1>4. u' = u /\ r' = r
  BY <1>3
<1>5. SUFFICES balance' = posted' + unposted' - u' + r'
  BY DEF BooksBalance
<1> HIDE DEF u, r
<1>6. ASSUME NEW n \in Amounts, topup(a, n) \/ debit(a, n)
      PROVE  balance' = posted' + unposted' - u' + r'
  <2>1. n \in Int
    BY AmountsAssumption
  <2>2. \E d \in Int : /\ balance' = balance + d
                       /\ unposted' = unposted + d
                       /\ posted' = posted
    <3>1. CASE balance' = balance + n /\ unposted' = unposted + n /\ posted' = posted
      BY <2>1, <3>1
    <3>2. CASE balance' = balance - n /\ unposted' = unposted - n /\ posted' = posted
      BY <2>1, <3>2, <1>1, 0 - n \in Int
    <3>3. CASE balance' = balance /\ unposted' = unposted /\ posted' = posted
      BY <3>3, <1>1, 0 \in Int
    <3>4. QED
      BY <1>6, <3>1, <3>2, <3>3 DEF topup, debit
  <2>3. QED
    BY <1>1, <1>2, <1>4, <2>2
<1>7. CASE PostAdjustment(a)
  <2>1. PICK d \in Int : /\ posted' = posted + d
                         /\ unposted' = unposted - d
                         /\ balance' = balance
    BY <1>1, <1>7 DEF PostAdjustment
  <2>2. QED
    BY <1>1, <1>2, <1>4, <2>1
<1>8. CASE AdjustThrows(a)
  BY <1>2, <1>4, <1>8 DEF AdjustThrows, money
<1>9. QED
  BY <1>6, <1>7, <1>8 DEF Adjust

\* At every moment the balance is accounted for, whatever fails.
THEOREM BooksBalanceCorrect == Spec => []BooksBalance
<1>1. TypeOK /\ Stages /\ BooksBalance /\ [Next]_vars => BooksBalance'
  <2> SUFFICES ASSUME TypeOK, Stages, BooksBalance, [Next]_vars PROVE BooksBalance'
    OBVIOUS
  <2>1. CASE Surroundings \/ Crash \/ UNCHANGED vars
    BY <2>1 DEF Surroundings, Crash, vars, money, BooksBalance
  <2>2. QED
    BY <2>1, BooksAdvance, BooksAdjust DEF Next
<1>2. QED
  BY <1>1, BooksInit, TypeCorrect, StagesCorrect, PTL DEF Spec

\* No interleaving of sends and debits takes the balance below zero.
THEOREM NeverOverdrawnCorrect == Spec => []NeverOverdrawn
<1>1. TypeOK /\ NeverOverdrawn /\ [Next]_vars => NeverOverdrawn'
  <2> SUFFICES ASSUME TypeOK, NeverOverdrawn, [Next]_vars PROVE NeverOverdrawn'
    OBVIOUS
  <2> USE DEF NeverOverdrawn, TypeOK
  <2>1. ASSUME NEW s \in Sends, Advance(s)
        PROVE  NeverOverdrawn'
    BY <2>1 DEF Advance, rest, money, Step, Open, CheckPlan, assertSufficientBalance, MediaMissing,
       CreateMessage, reserve, reserveFails, Refuse, ProviderSends, ProviderThrows,
       recordDebitReads, recordDebit, Confirm, FailsAfterSend, release, GiveUp, Throws
  <2>2. ASSUME NEW a \in Adjustments, Adjust(a)
        PROVE  NeverOverdrawn'
    BY <2>2, AmountsAssumption DEF Adjust, topup, debit, PostAdjustment, AdjustThrows, money
  <2>3. CASE Surroundings \/ Crash \/ UNCHANGED vars
    BY <2>3 DEF Surroundings, Crash, vars, money
  <2>4. QED
    BY <2>1, <2>2, <2>3 DEF Next
<1>2. QED
  BY <1>1, BooksInit, TypeCorrect, PTL DEF Spec

--------------------------------------------------------------------------------
(* The refinement.                                                          *)

\* Every step of a send holds, captures or refunds one credit of the abstract
\* account, or none.
LEMMA AdvanceImplements ==
    ASSUME TypeOK, Stages, ~DbFails, NEW s \in Sends, Advance(s)
    PROVE  Account!Next \/ UNCHANGED Account!account
<1> USE DEF Account!Next, Account!account
<1>1. Stage(s)
  BY DEF Stages
<1>2. CASE UNCHANGED <<balance, held, charged>>
  BY <1>2
<1>3. CASE reserve(s)
  <2>1. s \notin held /\ s \notin charged
    BY <1>1, <1>3 DEF Stage, Step, reserve
  <2>2. Account!Hold(s)
    BY <2>1, <1>3 DEF reserve, Account!Hold
  <2>3. QED
    BY <2>2
<1>4. CASE recordDebit(s)
  <2>1. s \in held /\ s \notin charged
    BY <1>1, <1>4 DEF Stage, Step, recordDebit
  <2>2. Account!Capture(s)
    BY <2>1, <1>4 DEF recordDebit, Account!Capture
  <2>3. QED
    BY <2>2
<1>5. CASE release(s)
  <2>1. s \in held /\ s \notin charged
    BY <1>1, <1>5 DEF Stage, Step, release
  <2>2. Account!Refund(s)
    BY <2>1, <1>5 DEF release, Account!Refund
  <2>3. QED
    BY <2>2
<1>6. QED
  BY <1>2, <1>3, <1>4, <1>5 DEF Advance, rest, money, Step, Open, CheckPlan, assertSufficientBalance,
     MediaMissing, CreateMessage, reserveFails, Refuse, ProviderSends, ProviderThrows,
     recordDebitReads, Confirm, FailsAfterSend, GiveUp, Throws

\* Every step of an adjust call grants, withdraws, or changes nothing.
LEMMA AdjustImplements ==
    ASSUME NEW a \in Adjustments, Adjust(a)
    PROVE  Account!Next \/ UNCHANGED Account!account
<1> USE DEF Account!Next, Account!account
<1>1. ASSUME NEW n \in Amounts, topup(a, n)
      PROVE  Account!Grant(n)
  BY <1>1 DEF topup, Account!Grant
<1>2. ASSUME NEW n \in Amounts, debit(a, n)
      PROVE  Account!Withdraw(n) \/ UNCHANGED <<balance, held, charged>>
  BY <1>2 DEF debit, Account!Withdraw
<1>3. CASE PostAdjustment(a) \/ AdjustThrows(a)
  BY <1>3 DEF PostAdjustment, AdjustThrows, money
<1>4. QED
  BY <1>1, <1>2, <1>3 DEF Adjust

\* While no statement fails, the send path implements the abstract account.
THEOREM ImplementsAccountCorrect == ~DbFails /\ Spec => ImplementsAccount
<1> SUFFICES ASSUME ~DbFails PROVE Spec => ImplementsAccount
  OBVIOUS
<1>1. Init => Account!Init
  BY DEF Init, Account!Init
<1>2. TypeOK /\ Stages /\ [Next]_vars => [Account!Next]_(Account!account)
  <2> SUFFICES ASSUME TypeOK, Stages, [Next]_vars
               PROVE  Account!Next \/ UNCHANGED Account!account
    OBVIOUS
  <2>1. CASE Surroundings \/ Crash \/ UNCHANGED vars
    BY <2>1 DEF Surroundings, Crash, vars, money, Account!account
  <2>2. QED
    BY <2>1, AdvanceImplements, AdjustImplements DEF Next
<1>3. QED
  BY <1>1, <1>2, TypeCorrect, StagesCorrect, PTL DEF Spec, ImplementsAccount, Account!Spec
================================================================================
