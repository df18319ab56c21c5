# TLA+ model of the WhatsApp CRM

The repository is a multi-tenant WhatsApp CRM: a NestJS API (`apps/api`), one
Node.js process over MySQL through Prisma, with the Baileys library as its
WhatsApp provider, and a React frontend (`apps/web`). This directory models the parts
whose correctness depends on the order of steps, checks them with TLC and
proves what matters most of them with TLAPS. Paths below are under `apps/api/src/`
unless they say otherwise.

## 1. Inventory

There are no locks and almost no database transactions. The code between two
`await`s is atomic; everything else interleaves: HTTP requests, the cron, the one-second
tick, the calls it starts, and the events of the WhatsApp sockets. Correctness rests
on conditional single-row updates (`WHERE id = ? AND balance >= ?`,
`WHERE id = ? AND status IN (...)`), on unique keys, and on reads made before writes.

| Component | State | Operations | Talks to | Hard behaviour | What makes it correct |
|---|---|---|---|---|---|
| Credits (`credits/`, `admin/credits/`) | one wallet per organization, a ledger | `topup`, `debit`, `reserve`, `release`, `recordDebit`, pre-check, reports | called by the send path, the Super Admin, plan assignment | two statements per operation, races for the last credit | never negative; each credit is accounted for; a send is charged once or not at all |
| Inbox, sending (`inbox/conversations.service.ts`) | messages, conversations | `sendMessage`, `createConversation`, `markRead` | credits, provider, events to browsers; called by campaigns and automations | failures before, at and after the provider | an outcome for each message; charged exactly when sent |
| Inbox, receiving (same file) | messages, conversations, contacts | `handleIncomingMessage`, `handleMessageStatusUpdate` | provider events, automations | redelivery, first contact twice, reports late or early, also of received messages | one row per message; unread counts right; a status never goes back |
| Automations (`automations/`) | automations | listener on inbound messages | send path | a reply for each event, also of a status report | each answers a message once |
| Campaigns service (`campaigns/campaigns.service.ts`) | campaigns, recipients | create, update, add, launch, pause, resume, cancel, relaunch, remove, stop, completion check, reports | runner, processor (by event), scheduler | unconditional writes after reads | nothing active when it is over; reports tell what happened; it ends |
| Campaign runner (`campaign-runner.service.ts`) | `ticking` flag, recipients | `enqueueMany`, `tick`, claims | processor | claims race with launches and cancels | at most a batch in flight; one claim per recipient |
| Campaign processor (`campaign-processor.service.ts`) | recipients | `processRecipient`, `markFailed` | send path, templates, completion event | cancelled, paused, deleted or stopped under way | one message per recipient |
| Campaign scheduler (`campaign-scheduler.service.ts`) | – | `launchDueCampaigns` every minute | campaigns service | overlaps with requests | a scheduled campaign starts |
| WhatsApp accounts and provider (`whatsapp/`) | accounts, session rows, sockets, session files | create, connect, disconnect, remove, status events, start-up, QR codes, send | inbox (events) | overlapping connects, late socket events, restarts | one live socket per account; removed means gone; the status is true |
| Authentication (`auth/`) and sessions in the browser (`apps/web/src/lib/`) | refresh tokens; cookie, access token, shown user | login, refresh, logout, impersonation, start of a tab | users, organizations | concurrent rotation, lost replies | a rotated token is dead; a logout ends the session; a tab acts for whom it shows |
| Guards (`auth/guards/`) and tenant scope (`prisma/`, `common/tenant-*`) | the request's context | authorization; adds the organization to each query | everything | suspension during a request, jobs outside a request, includes and foreign keys | a tenant reaches its own rows only |
| Users and roles (`users/`, `roles/`) | users, roles | create, update, remove | auth | read, then write | one Admin per organization |
| Organizations and plans (`admin/`, `organization/`) | organizations, plans | create, update, status, modules, batch settings, plan CRUD | credits, auth | a plan granted twice, limits checked before the write | a plan grants its credits once; limits hold |
| Contacts and lists | contacts, lists, members | CRUD, opt-out, CSV import | campaigns, inbox | an import among edits and deletes | the report of an import is true; an opt-out stays |
| Web pages (`apps/web/src/pages/`) | what a page shows | load, forms, dialogs, row actions | the API | late answers, double clicks, failures nobody catches | the page tells the truth |
| Templates, media, settings, analytics, audit logs, health, gateways | own tables or none | CRUD, rendering, reports, broadcasting | – | – | single statements or reads |
| Generated files, coverage reports, build files | – | – | – | – | not part of the model |

`PROJECT.json` lists the components with their sources and status, and the
hazards of this code, each at its line with the properties aimed at it.

## 2. Modules

| Module | What it is |
|---|---|
| `CreditAccount` | Abstract specification: a prepaid account whose credits are free, held for one send or spent on one send. |
| `SendMessage` | `sendMessage` with the credit operations it calls, with Super Admin adjustments on the same wallet. Implements `CreditAccount`. |
| `CampaignEngine` | Campaign service, scheduler, runner, processor and completion check together. |
| `InboundMessages` | Inbound messages, the automations' replies, read marks and status reports of one account. |
| `WaConnection` | One WhatsApp account: row, session files, map of sockets, sockets, calls and events. |
| `Sessions` | The sessions of one user, in the database, in cookies and in tabs. |
| `UserAdmin` | The users of one organization. |
| `PlanAdmin` | Plans, their assignment, module switches and the limit of accounts. |
| `Tenancy` | Guards, tenant context, the query extension, and rows that refer to one another. |
| `ContactBook` | Contacts, the CSV import, and one list. |
| `WebPages` | The handlers of 14 pages of the frontend. |
| `*_proof` | Theorems about the module of that name; `Office_proof` has those about `UserAdmin`, `PlanAdmin` and `ContactBook`. |
| `MCOffice` | `UserAdmin`, `PlanAdmin` and `ContactBook` for TLC. |
| `MCBrowser` | `Sessions` and `WebPages` for TLC. |
| `MCCampaignEngine`, `MCEngineTwo` | `CampaignEngine` for TLC; the second restricts which requests overlap. |
| other `MC*` | One module with its small sets and symmetry. |

In all of them an action is one awaited statement (or an event, or a step of the
environment) and the code up to the next `await`; `pc`, `ustep`, `rstep`, ... name the
statement a call executes next and its locals are variables of their own.

Most hazards of this code are requests that overlap. Each module therefore has a
Boolean variable (or two), fixed at the start, that names the assumption some
properties need. A property that does not mention the assumption holds without it; the last
column says which values TLC explores, the proofs cover both.

| Module | Assumption | It says | Explored |
|---|---|---|---|
| `CampaignEngine` | `SetupAlone` (a constant) | `addRecipients`, `launch`, `relaunch` and the cron run to their end before a tick or another request begins | with it, but in `engine_live` and `engine_sent_twice` without |
| `InboundMessages` | `apart`, `sound` | messages of one sender, and reports on one message, are handled one after the other; no statement fails and the process does not restart | both, either one, not neither |
| `WaConnection` | `orderly`, `sound` | connect, disconnect and remove of an account do not overlap with one another or with what WhatsApp closes, and status updates are stored in order; no statement, file operation or look-up fails | `orderly` only, with and without `sound` |
| `Sessions` | `calm`, `kept` | refreshes, logins, logouts and impersonations do not overlap, and an impersonation ends before its token expires; no reply is lost, no statement fails and the process does not stop between two | `calm` with and without `kept`; without both, one tab |
| `UserAdmin` | `apart` | the requests about users do not overlap | with and without |
| `PlanAdmin` | `orderly` | requests of one kind do not overlap and no statement fails | with and without |
| `ContactBook` | `clear` | nothing else is asked for while an import runs, and no statement fails | with and without |
| `Tenancy` | `looksUp` | an id that a request stores in a row is one it has looked up | with and without |
| `WebPages` | `patient` | the user clicks nothing while a call is under way | with and without |

Nothing in the code enforces any of them. What happens without them is listed in section 3.

### SendMessage

`balance` is the wallet row; the ledger is kept as its total (`posted`), the newest row's
`balanceAfter` (`lastAfter`) and the sends its DEBIT rows refer to (`charged`). `seen[s]`
is the balance `recordDebit` read before it writes its row. `adj[a]` is a `topup` or `debit`
between its two statements. Three history variables, read by no action, state the
properties: `delivered` (WhatsApp accepted the message), `held` (the send's credit is off
the balance) and `unposted` (adjustments whose row is not written).

`getOrCreateWallet` only finds the row and is folded into the statement it precedes, except
where its result is used later. `touchConversation` and the events to browsers change
nothing that is modelled. One wallet is enough: no statement touches two. A provider call
that throws did not deliver. Acknowledgements, which may change a message's status after
`sendMessage` has returned, belong to `InboundMessages`. `Surroundings` lets opt-outs, the
connection and the plan's expiry change at any moment.

### CampaignEngine

`status`, `later`, `rec` and `wait` are the tables; a recipient is the pair of the table's
unique key. `req[q]` is a request or a run of the cron with its local variables, `tick`
the tick (the `ticking` flag admits one), `work[w]` a `processRecipient` call followed
by the completion check that its event triggers. `sent` is history.

`sendMessage` appears by its outcome: sent, not sent, or (only when statements fail)
sent but reported as failed; `SendMessage` is its detail. The order in which rows are listed
(`createdAt`) is left open, so every choice of a batch is explored. Time is in units longer
than a request; `wait[r]` counts down to `scheduledFor`. A deleted campaign's id is not used
again. The `findOne` that ends a request only builds its response. Batch size and gaps
are constants: a change of the settings while a campaign runs is not modelled.

### InboundMessages

`pc[h]` and `msg[h]` are an inbound handler and its message; the provider awaits no handler,
so any number overlap. `rows[m]` counts the INBOUND rows of a message (the table has no
unique key for it), `unread` is the conversation's counter. Each time an INBOUND row is emitted
the listener goes through the automations that match: `due` counts the answers it still owes,
`replies` those it has sent. `out`, `ids`, `wa` and `acks` are the OUTBOUND rows with their
`waMessageId`, what WhatsApp did with their messages, and the report handlers under way;
`sending` are the `sendMessage` calls that WhatsApp has accepted and that have not written SENT.
Such a call may throw (`sendThrows`), and its row is FAILED although the message is out.
`messages.update` reports on received messages too (`Report`), and the update of the INBOUND row
is emitted again (`updates` counts these). A message may be in `In` and in `Out`: sent from
one account of the platform to another, its two rows have one `waMessageId`, and
`findFirst` may find either. `deliveries` bounds WhatsApp's deliveries, the redeliveries
after a restart among them.

### WaConnection

`row`, `active` and `files` are what survives a restart; `current` is the provider's map and
`sock` each socket object, in or out of the map. `writes` and `revokes` are the
asynchronous listeners of status events, each with its update of the database under way. The
close handler of a socket, the calls and the start-up are processes of their own. Without
`sound` any step of a call or of the start-up may fail (`fails`), a status update or a revocation
may be lost, credentials may not be readable, and a removal of the files may stop half-way
(`CutShort`). One account is enough: no step touches two.

### Sessions

`tokens` and `root` are the rows of `refreshToken` and the login each descends from, `cookie`
the token in each browser; `access`, `shown`, `stash` and `prev` are the state of a tab in
`auth-context.tsx`. Rows nobody can present any more are reused (`Unused`), so a history of any
length fits in a few rows. Expiry is an action, since tokens expire at any time. `doomed` is
history: the logins that were alive when a reuse was detected. Without `kept` a reply is lost, a
statement of a refresh or login fails after the one before it has been written (`serverFails`),
or the revocation of a logout fails, which `logout` swallows: the cookie is cleared all the same.

### UserAdmin, PlanAdmin, ContactBook

`UserAdmin`: `role` and `active` are the users' rows. The caller may be any user, for an
access token outlives the row it was issued for; an e-mail address is the user.
`PlanAdmin`: `plan`, `planId`, `expires`, `switches` and `accounts` are the rows; `unpaid`, `due`
and `lastSwitch` are history. The foreign key clears `planId` when a plan is deleted, and
`expires` stays. The wallet itself is `SendMessage`'s; here a booked grant only lowers `unpaid`.
`ContactBook`: `phone`, `optedOut` and `members` are the rows; a spelled number is a pair
of its spelling (with the country code, without, with blanks) and the number it denotes,
which is all `normalizePhoneNumber` and `isValidPhoneNumber` tell apart. An import is a loop over
its rows with the look-up and the write as separate statements; whatever a row throws, the
import counts it as skipped (`statementFails`).

### Tenancy

A request passes `validate`, `RbacGuard`, `TenantStatusGuard` and the interceptor, then makes any
number of statements on the tenants' rows; a job enters the context without guards. `scoped` and
`stamp` are what the Prisma extension does to the top-level `where` and `data` of each kind of
query. `refs[x]` are the rows the foreign keys of row `x` name; neither what an include adds
(`Included`) nor what a delete cascades to (`Cascade`) is scoped by the extension. `known[r]` are
the rows a request has looked up: `Storable` lets it store any id, or with `looksUp` only one of
these. The columns themselves are not modelled; no update of the code has an `organizationId`
among its data, and the extension would pass one through. `writer`, `fetched` and `barred` are
history. Which permission a role has is left open.

### WebPages

A page is a table of handlers, and a handler a sequence of steps: ask the API, open or close
a dialog or a panel, show a row; with the flag that disables its buttons and the place where
a failure is shown, if any. `Pages` is that table for Contacts, Lists, Templates, Users,
Automations, Campaigns, Plans, Roles, Settings, Organizations, Credits, Audit logs, Admin
dashboard and Analytics; `Click`, `Serve`, `Succeeds` and `Fails` run it. The database is a
version number that each write increases; a read returns the version it was served at,
which is what tells fresh rows from stale ones. A debounce counts as part of the call that
follows it.

`FailureIsSaid` leaves out Contacts, Lists, Credits, Campaigns and Templates, whose handlers let
some rejections go uncaught (the downloads of Contacts and Campaigns among them, `Download`); `RowsAreTrue` leaves out Lists, Credits, Campaigns and Organizations,
where a failure or an order of answers does leave old rows without a word.

## 3. Runs

`tlc -config <run>.cfg <module>`; modules are in `PROJECT.json`.

| Run | Shows | Bounds |
|---|---|---|
| `send_faults` | `TypeOK`, `BooksBalance`, `NeverOverdrawn`, `SentIsCharged` while statements fail and the process stops | 2 sends, 2 adjustments of 1 or 2 |
| `send_clean` | `DeliveredIsPaid`, `FailedSendIsFree`, refinement of `CreditAccount`, `PendingResolves`, `HoldsEnd` | 2 sends, 2 adjustments of 1, no faults |
| `engine_faults` | `SentOnce`, `SendsCap` with failing statements and crashes | 3 contacts, batch 2, gap 0..1, 1 request |
| `engine_cancel` | `OverMeansOver`, `ReportIsTruthful` | 2 contacts, 2 requests, opt-outs, lost connections |
| `engine_two` | `CompletedIsFrozen` with relaunch, emergency stop, pause and resume | 2 contacts; 1 campaign with 2 requests at once, or 2 campaigns with 1 request and no pause |
| `engine_live` | `TypeOK`, `BatchCap`, `RunsToItsEnd`, `ScheduledStarts`, requests overlapping with the tick | 2 contacts, batch 1, gap 0..1, 1 request |
| `wa_link` | `SocketInv`, `RemovedIsGone`, `AccountInv`, `NoSendAfterRemoval`, `ConnectionsComeBack` | 2 calls or sends, 2 sockets, 3 updates under way, 2 restarts, with and without failures |
| `inbound` | `InboxInv`, `NotCountedTwice`, `StatusIsWitnessed`, `NothingGoesBack`, `MessageLands` | 2 handlers, 2 senders, 2 automations, a message with a file delivered twice and reported on once, one between accounts |
| `browser` | `SessionInv`, `SessionsEnd`; `PageInv`, `PageIsTrue` | 2 tabs, 1 or 2 browsers, 3 token rows, 2 logins (1 tab while its requests overlap); each of 14 pages with 2 handlers, 2 rows, 1 write |
| `office` | `OneAdmin`, `LastAdminSurvivesDeletes`; `PlanInv`, `PlanNotPulled`; `BookInv`, `OptOutSticks` | 3 users, 2 requests; 2 plans, 2 accounts, 1 day; 2 contacts, 2 numbers, files of 2 rows |
| `tenancy` | `Isolation`, `GuardHolds` | 2 organizations, 2 requests or jobs; 2 rows with foreign keys, or 1 module |
| `engine_sent_twice` | violation of `SentOnce`, see below | 1 contact, without `SetupAlone` |

`MCOffice` and `MCBrowser` hold components that share no state. They are explored one after
the other: `part`, fixed at the start, says which one moves. In the same way `MCTenancy` explores
tables and measures, `MCInboundMessages` the inbox, the answers and the reports, and `MCEngineTwo`
one campaign and two: what each part holds still is said in the module. A property ending in
`Inv`, and `ConnectionsComeBack`, `NothingGoesBack`, `SessionsEnd` and `PageIsTrue`, are
conjunctions of named parts that are stated one by one above them in the module.

Why the bounds are enough. On the wallet, each hazard needs one call that read and one that
wrote in between. Two recipients with a batch of one make a full batch, a recipient that
has to wait, and a second batch; three with a batch of two make a partial batch. Two
requests at once (`engine_cancel`) give each pair of overlapping handlers; that the cap and
the types survive any number of them is proved. Two workers with a batch of one allow one
call in flight beyond the cap, which is what `SendsCap` would show. Two sockets are the
one in the map and one that winds down or comes up beside it. Two handlers with one message
delivered twice give every overlap of a message with itself, with another of its sender,
and with a `markRead`. Three token rows are the one that was used, its successor and another
login's. Three users are two candidates for Admin and a caller; a file of two rows is the
smallest that names a number twice; two plans let one be edited or removed while the other
is assigned. Two rows are a list and the other tenant's contact it refers to, or a member and
what it cascades from; isolation is proved for any sizes. One write is what tells the rows
before it from those after.

Runs that check liveness use no `SYMMETRY`. `CHECK_DEADLOCK FALSE` stands where the system really may
stop: users may never make another request, and bounded restarts, deliveries and writes
are used up.

### Where the code disagrees with its documents, or with an assumption

`engine_sent_twice` is kept as a run: "Campaigns send once per recipient and are done"
(`campaign-processor.service.ts:123-125`). `startRunning` makes the campaign RUNNING before it
enqueues; a tick in between claims PENDING rows, and `enqueueMany` puts them back to QUEUED over
SENDING or SENT. The same overlap hides a send from the count of SENDING rows, and a launch
still enqueueing can put the recipients of a campaign that was just cancelled back into its queue.

The models contain the following too; each is reachable in them, and no property
contradicts it.

* `balanceAfter` of a DEBIT row is a balance read one statement earlier; with two sends the
  newest row need not show the balance (`lastAfter` in `SendMessage`).
* If the update to SENT fails after `recordDebit`, the Message is FAILED although it went out, its
  credit is returned, its DEBIT row stays, and without an id it never learns of a report.
* A resume that read PAUSED before a cancel overwrites it: the completion check may then complete
  the campaign while a call is still at work whose row the cancel had taken
  (`CompletedIsFrozen` excepts that row).
* An organization's rows may refer to another's. "A query/write for a tenant-scoped model can only
  touch rows belonging to `organizationId`" (`tenant-scope.util.ts:40-41`) is about the top-level
  `where`: `addMembers` (`lists/lists.service.ts:66-72`) stores contact ids it has not looked up,
  and `members` (31-41) returns the contacts by an include; `assign`
  (`conversations.service.ts:162-168`) does so with a user, a template with its media. A delete
  then cascades to the other's rows. `createConversation` looks up for that reason (120-126).
* A recipient claimed just before a pause stays SENDING for good; a campaign whose last
  recipient finishes during a pause is never completed; `emergencyStopAll` is aborted by a
  campaign that completes after it was listed.
* "So a routine restart doesn't silently strand every paired account"
  (`whatsapp.service.ts:36-42`): a connect that fails at the start (56-60) is logged and not tried
  again, and the row stays CONNECTED without a socket; a status update that fails (173-178) leaves
  it so too.
* `disconnect` awaits `logout` and then drops whatever the map holds by now. A connect that
  overlaps with a removal leaves a socket connected after its row is gone.
* Two deliveries of one message that overlap make two rows; a failure between the unread
  count and the row counts the message again at its redelivery; two first messages of one
  number that overlap lose one.
* A report on a received message emits its INBOUND row again, and every automation that matches
  answers once more.
* A refresh whose reply is lost, or a page opened twice at once (React's StrictMode does),
  presents a used token: every session of the user is ended. A session whose refresh has
  passed its checks when a reuse is detected survives it.
* `refresh` revokes the old token (`auth.service.ts:96`) before it writes the new one (103): when
  that fails, the browser keeps a used token, and its next refresh ends every session. `logout`
  swallows a failed revocation (130-132): the cookie is cleared and the token lives on.
* A row of an import whose statement fails is reported as skipped, with the error as its reason.
* Two requests that overlap may make two Admins, and `update` lets the only Admin make
  himself an Agent. Two assignments of one plan both grant its credits, two creations pass
  the limit of accounts together, two switches of different modules lose one.
* On the Organizations page the detail that arrives last is shown, whichever was
  opened last, unless the user waits.

### Fairness

`SendMessage`: a call that has begun is resumed after each `await`, for the database and the
provider answer with a result or an exception; so is an adjustment between its
statements. `CampaignEngine`: the interval timer comes back every second (`WF` on the tick),
calls in progress go on, time passes, the cron comes back every minute. The cron has strong
fairness because only the bound on `Requests` can keep it from a free place; its timer does
not wait for users. `WaConnection`: awaited steps and listeners settle, and WhatsApp answers
a socket that is resuming or was just paired, or it is given up. `InboundMessages`: statements
settle; WhatsApp need not deliver or acknowledge anything. `Sessions`: statements and replies
settle, and access tokens expire. Users are under no fairness anywhere: nobody has to begin
a call, scan a code, or click.

## 4. Proofs

Checked by TLAPS for every value of the constants that satisfies the named assumptions.

### SendMessage_proof

For every finite set of calls, every set of amounts and every choice of faults.

* `TypeCorrect`: the type invariant, inductive by itself.
* `StagesCorrect`: `Stages`, the strengthening everything else rests on. It says for each
  statement a call can be at whether its Message exists, whether its credit is off the balance,
  whether it has a DEBIT row and whether WhatsApp has it. It is inductive with `TypeOK`.
  None of the safety properties is inductive alone: that a FAILED message is free, for
  instance, depends on what `release` and `giveUp` know about the call.
* `SentIsChargedCorrect`, `DeliveredIsPaidCorrect`, `FailedSendIsFreeCorrect` follow from
  `Stages`.
* `BooksBalanceCorrect`: each step changes both sides of the balance equation alike; the
  cardinality lemma `OneMoreOneLess` rests on the calls being finitely many
  (`SendsAssumption`), the stages say which set each step changes.
* `NeverOverdrawnCorrect` rests on the conditional updates and `AmountsAssumption`.
* `ImplementsAccountCorrect`: while no statement fails, each step maps to a step of
  `CreditAccount` or to a stutter. With failing statements it does not hold: `release`
  may follow `recordDebit`.

### CampaignEngine_proof

For every finite set of campaigns and contacts, any requests, workers and batch size, any
gaps and every choice of faults, with and without `SetupAlone`.

* `TypeCorrect`. The type invariant is not inductive: `update` writes `later` from the
  campaign its request holds, `doProcess` reads the recipient its call holds, and nothing
  in `TypeOK` says that they hold one. `TypeInv` adds that a request in progress has a
  campaign at hand, that a tick about to find or claim has a campaign and only rows of
  it, and that a call in progress has a recipient.
* `BatchCapCorrect`. The cap is not inductive either: between its count and its last claim
  the tick acts on a number that is no longer true. `CapInv` counts in what the tick may
  still claim (`Promised`: the room it computed, then the rows it selected) and says that
  SENDING rows and promise together are a batch at most. `countInFlight` makes the promise,
  `findDue` may only lower it, `claim` turns one promised row into a row in flight, and every
  other step makes no row SENDING (`NoneClaimed`), whatever else it overwrites.
* `InvCorrect`: both together, `IInv`, are inductive.

Five more hold under `SetupAlone`: adding recipients, launching or relaunching overlaps with no
tick and no other request. `engine_sent_twice` (section 3) shows what goes wrong without it. For
all five, `SoloParts` is inductive (`SoloNext`):

* `Solo`, `SetsUp`, `Started`: a request that fills or starts campaigns is alone and finds them
  not launched, and the tick and the calls work on launched ones only, whose rows nobody adds to.
* `Rows`: a row that is still to be claimed is untouched: no call is at work on its recipient and
  nothing has been sent to it. Nobody turns a touched row back into one to claim, and one that
  is gone went with its campaign.
* `Calls`: each call has a recipient of its own, sends to it once, and its row is SENDING or has
  been taken from it. Whoever takes a row that is SENDING (`cancelRecipients`, `remove`) takes all
  that are to be claimed with it (`TakesAll`), so that no call is added to those that outlive
  their rows. That bounds the calls by a batch, where the rows alone no longer do.
* `Ended`: a completed campaign, or one a call has found without active rows, has none.

From it follow `SentOnceCorrect` and `SendsCapCorrect`, with failing statements and crashes. Two
need what those may break: `OverMeansOverCorrect` that a cancelled campaign has no active row once
the cancel is through (`Cancelled`; a cancel that throws or crashes between its two writes leaves
them active), and `ReportIsTruthfulCorrect` that a row is SENT when its call has sent one message
and has said so (`Reported`; a call that crashes between the two is lost to the report).
`CompletedIsFrozenCorrect` holds with all faults. A completed campaign has no active row (`Ended`),
and nobody but the call at work on it writes one that is not; such a call has lost its row to a
cancel. Without resume there is none: `Frozen` says that a row is taken from its call only in a
campaign that has been stopped, so that the call that finds it RUNNING without active rows is the
last one at work. A resume that overwrites the cancel makes one possible, and the property excepts
its row.

### Office_proof

The users, for every finite set of users, any requests and both values of `apart`.

* `UserTypeCorrect`, `OneAdminCorrect`, `LastAdminSurvivesDeletesCorrect`. The rule is kept by
  reads that precede the write, so the invariant `UserInv` says what each request has
  found out and that it still holds (`Found`) because no other request is under way (`Alone`):
  before an insert of an Admin there is none, before a re-pointing only the user in question
  may be one, before a delete another Admin is active.

The plans, for any plans, terms, modules, limits, days and requests.

* `PlanInvCorrect`. Every rule here is a read in one statement and a write in a later one.
  `PlanIInv` says what each request has read and that it still holds when it writes
  (`StillTrue`), which only requests of the same kind could undo (`OneOfAKind`): the plan
  found is still the organization's, a plan found unused still is, the accounts counted are
  still below the limit, the switches merged are still the row's, and what the assignment
  owes is what `topup` will book.
* `PlanNotPulledCorrect`: from the same invariant, while requests do not overlap; `deletePlan` removes a plan that was found
  unused and is.

The contacts, for every finite set of contacts, any numbers, files, imports and requests.

* `BookInvCorrect`. The report of an import is a sum over rows already written, so `BookIInv`
  follows an import row by row: `Counts` says that the three numbers and the rows still in the
  file add up to the rows it had, that "created" counts the contacts it has made, and that
  these have been born. What it looked up for the row in hand holds when it writes
  (`StillSo`) only as long as no other request is under way (`AloneWithFile`); only then, and when
  no statement fails, does an import skip invalid rows and nothing else. That no opt-out and no membership
  outlives its contact is proved for every overlap.
* `OptOutSticksCorrect`: from the same invariant, for every overlap.

### Tenancy_proof

For any organizations, rows, modules and requests.

* `IsolationCorrect`: whatever overlaps, under `looksUp`. The invariant `Apart` says that rows
  refer only to rows of their own organization and that what a request has looked up is its own
  organization's. `ScopedRows` (what a `where` matches), `IncludedRows` (what an include adds),
  `StorableRows` (what a foreign key may name), `Stamps` (whose a new row is) and `CascadeWithin`
  (a cascade stays in the organizations it began in) each say how a statement keeps it.
* `GuardHoldsCorrect`: `BarredStands` says that what stood against a request when it began
  still stands while it is before the guard; that makes the guard's one read enough.

### InboundMessages_proof

For any messages, senders, handlers and automations, any number of deliveries and reports.

* `InboxInvCorrect`, `NotCountedTwiceCorrect`: from `InboxIInv`. While one handler works on a
  sender's messages (`OneBusy`), a message that passed the check for duplicates has no row
  until this handler creates it (`Once`). `AnswersIInv` says that the answers an automation has
  given and still owes are at most one for the row and one per update of it (`AnswersNext`).
  The count of unread messages is ahead of the rows by the messages
  that are about to be created (`CountedOnce`), which a failing statement breaks: the
  property is about the runs of `sound`.
* `StatusIsWitnessedCorrect`: from `OutboxIInv`, for every overlap: a report that is
  still to be handled has happened (`Witnessed`), so whichever is written tells the truth; a row
  whose send threw has no id, so that no report finds it.
* `NothingGoesBackCorrect`: from both, with `InOrder`: the row is not ahead of the
  acknowledgements to come, and the one being written is the earliest of its message.

### WaConnection_proof

For any number of calls, sockets, restarts and pending status updates.

* `SocketInvCorrect`. That a sender never finds a dead socket is inductive with the types and
  holds for every overlap. That there is one live socket needs to know who may make one:
  `Control` says that calls, close handlers and the start of the process connect one at a
  time, with nothing in the map and no logout under way.
* `RemovedIsGoneCorrect`, `NoSendAfterRemovalCorrect`: from `Control` and `Credentials`, which
  ties the files to the sockets and to the processes about to make one, also when a removal of
  the files stops half-way (`CutCredentials`, `FailCredentials`). A send that
  resolved its socket before the removal holds a closed one.
* `AccountInvCorrect`, whose second half needs `sound`. The status listeners write later than the events happen, so
  `StatusFollows` is about the status the row will have once the pending updates are
  written (`Final`), and `SessionRow` says that a logout comes after every CONNECTED that is
  pending: revoking the session row can then not meet an account called CONNECTED.

### Sessions_proof

For any tabs, browsers, token rows and logins.

* `SessionTypeCorrect`: the types, for every overlap. They need that the row a refresh presents
  is there (`AtHand`) and that every row written has a login (`Rooted`).
* `SessionInvCorrect`: under `calm`, as in its run, for a session may survive a reuse when a
  refresh overlaps with it. `CalmInv` says that one request is under way at a
  time (`OneActivity`), that the row a refresh found is live until it rotates it, and that its
  login has none from there to the next row (`Presents`), and where the user's own token is while
  a tab acts for the customer (`Identity`). That no alarm is false needs `kept` too, for a rotation
  may be cut off between its statements: `KeptInv` says that a cookie is live or about to be replaced (`CookieLives`), and that a request presents
  the cookie of its browser.
* `LogoutEndsCorrect` is the first half of `SessionsEnd`, from `KeptInv`: without `kept` the
  revocation may fail.
* `LockedOutForGood`, for every overlap, failure and lost reply: a deactivated user without an access
  token, and without a request that has passed its checks, gets none any more. It is what
  `DeactivationTakesHold` needs besides fairness; that he comes to be locked out stays with TLC.

### WebPages_proof

For any of the 14 pages, any rows, any number of handlers under way and any number of writes.

* What is said of a page is proved of its table first: `Handled` lists the rules a handler keeps
  (its button is disabled by its flag; a write is followed by the closing of its dialog, and
  later by a load; what goes on after a failure is the load behind the panel that shows it; a
  detail is loaded for the row the panel was opened for), and one lemma per page checks them
  entry by entry. `RunToIs` and `NextAskIs` say what runs between two calls.
* `PageInvCorrect`: `Shape` is inductive by itself, and so is `Taken` with it: a flag is on just
  while one handler holds it. `DetailIsItsOwn` follows from `OwnPanel`: a detail that is awaited
  is that of the row the panel is open for.
* `PageIsTrueCorrect`: at rest a page says nothing of how it got there, so the invariant speaks of
  what is to come. `RowsComing`: the rows are those of the database or a handler under way
  will still load them, for the view of now. `FailureStays`: a failure that was shown is not
  taken back by what still runs. `WrittenOK`: an answered write has closed its dialog. The first
  two rest on `OneHandler`, which is where the patience of the user comes in.

The least element of a set of numbers (`NextAsk`, `NextSlot` and `Least` choose one) is found by the
well-foundedness of strict inclusion, since induction is out of reach.

Out of the prover's reach and left to TLC: liveness under fairness (`PendingResolves`,
`HoldsEnd`, `RunsToItsEnd`, `ScheduledStarts`, `ConnectionsComeBack`, `MessageLands`,
`DeactivationTakesHold`), `ENABLED`, and induction over data. Every invariant the runs check
is stated by a theorem.

## 5. Not modelled

* Templates, settings, roles, automations' own CRUD, renaming lists, exports, passwords: a
  check and a single statement each; nothing is interleaved that their readers could see.
* Creating an organization (`OrganizationsService.create`): one transaction, then the plan's
  credits, in the order that `PlanAdmin` has for an update.
* Batch settings that change while a campaign runs: `CampaignEngine` has them as constants.
* Media: a file and then its row; a failure in between costs disk space only.
* Reports, analytics, audit logs and health: they only read, or append.
* The WebSocket gateways, and the inbox, WhatsApp, dashboard and login pages that listen to
  them: what a browser misses is shown after the next reload. The layout, themes
  and branding of the frontend have no state the API knows.
* Generated and build files, coverage reports, the seed script.

What is left to do: the gateways with the pages that listen to them; a library module
(templates, media and automations that refer to each other).
