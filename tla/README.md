# EventPro: specifications, model checking and proofs

EventPro is the backend of a company that sells and runs children's shows. A
client writes on WhatsApp; a bot or an employee answers; a quote is made, an
advance is paid, a receipt is verified, the date is booked, a contract is signed
with a one-time code and the show takes place. FastAPI serves the staff and the
public pages, PostgreSQL keeps the state, an arq worker runs the crons and the
queued events, Redis holds locks and keys with a life, Chatwoot is the gateway to
WhatsApp.

This directory has TLA+ modules translated from `src/app`, the TLC runs that
check them, and TLAPS proofs of what matters most. `PROJECT.json` says for every
definition which lines it stands for, for every property which run checks it and
which change of the code it notices, and lists the hazards of the code at their
lines.

## 1. Inventory

| component | state | operations | what makes it correct |
|---|---|---|---|
| **Outbox** (`dispatch_due_messages`, `outbox_message`, `sqlalchemy_outbox_repository`, `send_conversation_message`) | `outbox_messages`: status, content, attempts, next attempt, external id, delivery | enqueue, claim, send, save the result, notices, retry by the staff, invalidate the links of a contract | SENT only for a copy the gateway took; one worker per message; a result is never overwritten; every message settles |
| **Quotes** (`quote`, `use_cases/quote`) | `quotes`: status, deadline, source, liquidation | create, pay, correct the mobility, cancel, expire (cron) | closed on time, never under a receipt that waits for review |
| **Payments** (`payment`, `use_cases/payment`) | `payments`: status, quote, event, verifier | register, verify, reject, approve or reject an overbooked one, refund, audit | money is decided once; verified if and only if booked |
| **Manual bookings** (`confirm_manual_booking`, `manual_booking_repository`) | writes quotes, payments, events, contracts, reservations | stage, preview, confirm, refund, manual contract | the contract says what was booked; no booking without its payment |
| **Contracts and remote signature** (`manage_contracts`, `sign_contract`) | `contracts`: status, document, link, code, attempts, window of requests | issue, resend, edit, void; resolve, request a code, verify it, sign | what was offered is what is signed, once, by who has the last code |
| **Availability and occupancy** (`availability_adapter`, `sqlalchemy_event_occupancy`, the services of `domain/services`) | windows of events, reservations of items, crews; the advisory lock, a Redis lock that only informs | check, lock, reserve, extend, edit the stock | room, stock and crews are not exceeded without an approval |
| **Events** (`event`, `register_event_extension`, `settle_event`) | `events`, extensions, snapshots, files of evidence | schedule, start, extend, settle | an extension never takes a place that is booked; its evidence stays; settled once |
| **Reports** (`get_financial_pnl`, dashboard), **catalog**, **crews** | snapshots, costs, requirements, transit intervals | sum, edit | the past does not change with the catalogue |
| **Inbox** (`conversation_assignment`, `bot_handoff`, `process_gateway_event`) | conversation links; the status in Chatwoot; the lock of a turn in Redis | note a message, take, give back, hand over | one owner, by right; Chatwoot and the link agree; one turn at a time |
| **Bot** (`handle_incoming_message`, `agent_engine`) | one session per conversation in Redis | ask, quote, pay, undo, fall back, hand over | quotes hold what was answered; the newest is paid; nothing is done twice |
| **Accounts and sessions** (`login`, `refresh`, `update_user`) | `users`, `refresh_tokens` | log in, rotate, log out, create, edit, deactivate | a used or revoked token opens nothing; a superadmin remains |
| **Gateway events** (`chatwoot_webhook`, `receive_gateway_event`, `process_gateway_event`) | deduplication keys in Redis, the queue of arq | receive, release the key, process, repeat | what was acknowledged was queued |
| **Commercial cycle** (`lead_status`, `mark_event_done`, `conversation_link`) | quote, mark and last message in the link | note, restart, link a quote, mark as done | the link has the newest quote, and a mark of that quote |
| Pricing, clients, audit log, SSE, HTTP, storage, migrations | tables without a protocol | one-row updates, sums, reads | not modelled, or partly; reasons in `PROJECT.json` |

Interaction is by the database: a use case runs in one transaction, or in two or
three with reads and calls to the gateway in between. Quotes, payments, bookings and contracts
meet in `ConfirmManualBooking`; contracts hand their links and codes to the outbox;
gateway events bring back the delivery notices and the messages of clients, which
the bot answers through the outbox; a signature schedules the event, whose time,
items and crews every later booking and extension has to respect.

What is hard: reads without a lock that a later transaction relies on (refund,
expiry, registration, confirmation); a call to the gateway between two
transactions, with timeouts that hide a success; workers that crash or that arq
cancels; notices out of order; secrets of the past (links, codes, proofs) in the
hands of clients; limits counted over rows that are replaced; state kept in two
places (Chatwoot and the database, Redis and the database, a file and a row) that a
crash may leave apart. The list, by line, is under "hazards" in `PROJECT.json`; a
hazard that no property covers carries a note that says why.

## 2. Modules

| module | what it is |
|---|---|
| `Outbox` | the outbox with workers, gateway, notices and retries |
| `OutboxPromise` | what the outbox promises, without workers, rows and leases; `Outbox` implements it (`KeepsPromise`) |
| `OutboxProofs` | theorems about `Outbox` |
| `QuotePayments` | quotes, advances, bookings and their contracts |
| `QuotePaymentsProofs` | theorems about `QuotePayments` |
| `ContractSigning` | the contract of one event, its links, codes and signature |
| `ContractSigningProofs` | theorems about `ContractSigning` |
| `Schedule` | pure rules: windows, simultaneous shows, stock, travel |
| `Occupancy` | bookings, extensions, settlements, reports and edits of the catalogue, over `Schedule` |
| `Inbox` | one conversation: who has it, in Chatwoot and in the database, and the turns of the bot |
| `Bot` | the dialogue of the bot inside those turns, with both engines |
| `Reception` | the webhook, its keys in Redis and the queue of arq |
| `Lead` | the commercial cycle of one conversation, over `Reception` |
| `LeadProofs` | theorems about both: the webhook, and the link |
| `Accounts` | accounts, logins and refresh tokens |
| `AccountsProofs`, `InboxProofs`, `OccupancyProofs`, `BotProofs` | theorems about the module of that name |
| `MC...` | what TLC needs to run an instance |

Conventions of all of them:

* An action is a transaction, or a call between two. A handler that reads under a
  lock and writes in the same transaction is one action; one that reads first and
  locks later is two, and what it read is kept in a variable in between (`session`,
  `found`, `batch`, `answer`).
* An aggregate without a row has status `ABSENT`; NULL is 0, or a `No...` constant.
* Times are what remains of them: 0 means the deadline has come. `Tick` lets time
  pass. (In `QuotePayments` only one deadline matters, so it is a flag.)
* An operation that raises rolls back, so a refused call is no step. Where the code
  commits before it raises (a wrong code), the step is in the model.
* An optional value is `None`. A step that fails outside the code (Chatwoot, Redis, a
  worker, an API process) takes one of a bounded number of faults.
* Definitions named `X_...` above a definition `X` are plausible mistakes in `X`.
  Nothing uses them; each shows that some property notices that mistake.

### Outbox

`row[m]` is the row; `copies[m]` the copies that the gateway accepted (external:
Chatwoot answers, answers late, or answers nobody). A cycle of `DispatchDueMessages.execute`
is `StartCycle` (`claim_due`: due rows not locked by others, each given a lease),
then per message `Send`, `GatewayAnswer` and `SaveResult`. `SaveFails` is the
`except` of the loop: the message is left to its lease. `Abandon` is a crash,
`CancelCycle` the timeout of arq; both may leave a request under way (`orphans`)
that the gateway still accepts. `ProcessNotice` is `_process_notice` with
`record_delivery`; `Retry` is `RetryConversationMessage`, which keeps the id of the
copy before (`retried`), so that late notices are told apart. `ReplaceLink` and
`InvalidateLinks` are what contracts do to the table.

A pending row always has its content (`ContentMatchesStatus`), so the branch of
`_send` for a row without payload is not reachable, and is not modelled.

### QuotePayments

`quote`, `event`, `document` and `payment` are the tables; `session[s]` is what a request
of the staff read before its deciding transaction. `CheckAdvance`/`InsertAdvance` is
the registration of an advance, which checks without a lock;
`PreviewBooking`/`ConfirmBooking` is the confirmation, whose preview is read in an
earlier transaction and compared again under the lock; `ReadRefund`/`SaveRefund`
is the refund, which saves every column of a row it read without a lock. The cron
reads its list (`FindDue`) and then locks each quote (`ExpireDue`) or skips it
(`SkipDue`). Inserting a payment takes the key-share lock of its quote through the
foreign key, so it does not come between the lock of a quote and the end of that
transaction: this is why cancelling and expiring, which read the payments again
under the lock, are single actions.

Amounts are told apart by the number of corrections they had (`version`). The room
check (`Capacity`) is an input; refusals for other reasons (amounts, package,
date, receipt) are `RefuseConfirmation`.

### ContractSigning

Every operation locks the row of the event, and reads the contract again under that
lock (`populate_existing`), so an operation is an action and one event is
enough. Contracts, links and codes are numbered as they are made, because hashes are
fresh each time; a document is told apart by the observations printed in it; PDF,
image and seal are not modelled, but without a seal nothing changes (the
transaction rolls back). What the client holds is `links`, `codes` and `proof`, and
any of it may be used at any later time. `queue` are the secrets that wait in the
outbox for their first dispatch.

An issued contract without a link is an initial state (contracts made before the
links existed, or by `CreateManualContract`). Voiding a signed contract needs a cancelled event, and
nothing in the code cancels one: that branch is not modelled.

`offered`, `guesses`, `asked`, `lastCode` and `signature` are history: no guard reads
them.

### Schedule and Occupancy

`Schedule` translates `TimeWindow`, `ConcurrencyEvaluator`, `InventoryAvailabilityService` and
`TravelIntervalService` operator by operator; time is in slots of a day of `Day` slots.
An `end_time` is a time of day, so the window of an event is rebuilt with the rule for
midnight (`EventWindow`), and `Occupancy` uses it wherever the code reads an event back. A package
may last a day or more; its row then has the hours of the last day only, and one that would end at the
time it begins is refused by a constraint of the table (`HasHours`).

A booking is `PrepareBudget` (the check that informs, without a lock) and `ConfirmBooking` or
`CheckManualContract`, which take the advisory lock, check, and are followed by `Finalize`
and the release. An extension is `StoreEvidence`, `CheckExtension` (lock and checks),
`PersistExtension`, or one of the ways to fail: refused, failed with or without a
rollback, an answer of the commit that is lost (`LoseAnswer`), a crash. The
transactions that hold the lock have two steps, so what the lock does *not* guard, edits
of stock, requirements, costs and intervals, comes in between. `SettleEvent` writes the
snapshot; `Totals`, `Pnl` and `DistrictProfit` are what the reports compute from it.

The first state is an evening on which nothing has gone wrong yet: `First` is the catalogue,
`Booked` are shows with their reservations, and `FirstCalendar` asks that they keep to the threshold and
to one crew at a time, as the check of a booking and the staff's assignments would have it.

`Verified` (the balance collected on site) and `Assigned` (crews of events) are constants:
no code under `src/app` writes them, the container wires `Fake` adapters for both.

### Inbox

`status` is the conversation in Chatwoot, `holder` the column `assigned_user_id`. Taking is
`Takeover`, `ReadHolder`, `Claim` (the conditional update), `Reopen` and `ClearSession`, with
`Restore` when Chatwoot refuses, or does not answer: a request that timed out may have been carried out
(`ReopenFails`, `SetPendingFails`); giving back is `Release`, `Authorize`, `SetPending`, `Leave`.
A job first notes the message in the link, a read and a save that other transactions may
come between; the holder is the one column that a save leaves alone (`Save`), which
is why a stale copy of the link does not undo a takeover. Then it waits for the lock, has
its turn, and answers or hands over (`HandOver`, `OpenByBot`, `RecordHandoff`,
`RemoveHolder`). The lock expires in Redis; the adapter, shared by the jobs of a worker,
remembers one token; arq cancels a job at `JobTimeout`. The same message may be queued again.

### Bot

A turn reads the session, does something in one transaction with its reply, and then saves the
session: `Reply` is the commit and `Save` what follows; `LoseWorker` may come between,
and `GiveUp` is a turn that fails before it commits. The menus are `Ask` (the next
question, with the answer stored), `OnLastAnswer`, `OnAlternatives`, `OnConfirm`, `OnPaid` and
`Misunderstand`; `Undone`, `Offered` and `Corrected` are the three ways an error of the business puts
the session back. The agent is a loop of tools (`CreateByAgent`, `PayByAgent`, `OtherTool`), a
text (`Says`), a person (`AgentHandsOver`) or a failure (`ModelFails`), which falls back to the
menus unless something was done. What the client means, what the model chooses, and whether
there is room are choices. `lost` (history) is a turn that did or said something and whose session was not saved.
`shown` is the question before the client's eyes, so that a
message can be an answer to it and be read as an answer to another. A message with
only an attachment counts as not understood. Quotes change by themselves (`ChangeQuote`),
and the session expires (`Forget`).

### Reception and Lead

`Reception` is `ReceiveGatewayEvent` with its two adapters: `Receive` sets the key of the event, or
drops an event that has one; `Enqueue` gives it to arq, which takes no second job of an
event while the first is there; `EnqueueFails` and `ReleaseKey` give the key up. Any of
these may fail, with or without an effect on Redis, and the API may die in between. A job is
started, ends, or is run again up to `MaxTries` times when its worker dies.

`Lead` is what jobs do to the link. A job reads it (`ReadLink`), looks up whether the show of its quote is
done (`LookUp`, on another connection), and saves it (`FindRow`, `SaveNote`); then the bot may answer,
make a quote and link it (`QuoteClient`, `FindRow`, `SaveQuote`); the staff marks a show as done
(`ViewConversation`, `ReadLinkAgain`, `FindMarkRow`, `SaveMark`). Nobody holds the row that
was read, so SQLAlchemy, whose identity map is weak, reads it again when the
link is saved, and updates every column in which it differs from the link in memory (`Written`),
also those that someone else changed in between. `done` is the mark with the quote the staff
had before its eyes; the code stores a time only. `stale`, `crossed` and `noted` are history. The other
savers of a link (takeover, handoff) are in `Inbox`; they do to these columns what a job does.

### Accounts

A request reads (`Login`, `Refresh`, `UpdateUser`) and writes later (`IssueSession`, `Rotate`,
`ApplyPatch`). Rotation and update lock the row of the account and check again; a login does
not. The time of a rotation is that of `CheckUser`, before the lock is waited for. `late`, `session` and `password` of a token are history.

## 3. What is checked

| run | instance | what it shows |
|---|---|---|
| `outbox` | 1 message, 2 workers, 2 attempts, 2 copies, 2 faults, lease 3 > cycle 2 | no two workers hold the row; deliveries never regress; known ids resolve; every message settles; the outbox implements `OutboxPromise`: SENT only with a copy, no result overwritten, no row reopened but by a retry |
| `quote_payments` | 1 quote, 3 payments, 2 requests, 1 correction | booked if and only if paid; contract as booked; refunds close their quote; money is decided once; no quote is closed under review; due quotes close |
| `contract_signing` | 2 contracts, 3 links, 3 codes, 2 attempts, 2 notes | scheduled if and only if signed, one active contract; signed as offered, with the last code; guesses bounded; queued secrets current |
| `occupancy` | 2 running shows of one crew, a booking and a manual contract at midnight, packages of a slot, a day, and a day and a third, 2 extensions, 1 edit | shows within the threshold unless approved; stock as judged; a crew in one place; evidence kept; reservations follow the event; settlements add up; reports stable |
| `inbox` | an employee and a superadmin with 2 commands each, one message that two jobs answer, 2 faults | one turn at a time; hands change by right; who has a conversation has it open |
| `bot` | 2 messages, 2 quotes, 2 misses, 2 replies, one upset | quotes as answered; the newest is paid; no fallback after effects |
| `lead` | 2 messages, 2 requests to the webhook, 3 quotes, 2 tries, 2 faults | what was acknowledged was queued; the link follows the quotes and has, at any time, the newest message, the newest quote or none, and a mark of that quote |
| `accounts` | 3 accounts (2 superadmins), 3 tokens, 2 requests at a time, 5 in all | a superadmin remains; live tokens are of the current password and an active account; a session neither forks nor comes back |

Four more runs show where the code and what it says of itself disagree; each is a finding.

* `refund_without_verifier`: an overbooked advance rejected through `/overrides` and
  refunded through `/payments` is stored REFUNDED without a verifier; `Payment.__post_init__` then
  refuses to load it.
* `two_active_advances`: the check for an active advance and the insert are not one
  locked transaction, so two registrations both pass. A consequence is seen in
  `ClosingSparesReviews`: the desk knows the newest advance only, so refunding it closes
  the quote although the older one is under review.
* `stock_below_reserved`: ends of reservations are local marks labelled UTC, and
  `count_future_reserved_units` compares them with the UTC clock, which is ahead: tonight's
  reservation stops counting hours before its show ends.
* `observations_lost`: the answer to the last question is stored in the turn that makes the
  quote; a date without room undoes that turn, and the quote of the alternative is made
  without the observations and without asking again.

Some properties have an exception that the code really makes, kept as history so that
everything else is still checked. `TakenIsOpen` excepts a conversation that changed hands during a
release, or before the failed taking of its holder was undone, and a command that was cut short or whose
answer was lost: Chatwoot and the link are changed one after the other, and
nothing repairs them (spec 09, section 15, accepts it). `LiveTokensAreCurrent` excepts the
session of a login that had verified the password before it changed. `QuotedAsAnswered`
and `PaysNewestQuote` except turns whose effects were committed and whose session was not saved;
`QuotedAsAnswered` also a client who writes ahead of the question. `LinkFollowsQuotes`
excepts the save of a link whose row was changed since it was read, and `LinkIsRight` what such a save
leaves, what a mark beside a job leaves, and a done cycle that a failure kept from
restarting; without the exceptions TLC finds both violated (section 5). `NoSilentLoss` excepts
nothing, but says only what the webhook can promise: an event with a request that was not
acknowledged may be lost.
`ReservationsFollowEvent` compares a reservation with the row of its event up to whole days (`SameHours`):
they are equal unless the package lasts a day or more, when the code loses whole days in the row (section 5).

### Bounds

Two actors meet in every hazard that was found, so two workers and two requests are
what the interleavings need; a third payment lets two races of one quote follow
each other. One message is enough for the outbox, whose rows never decide about each other but
in the size of a batch; that no batch of any size breaks its safety is proved (section 4).
Two copies make an earlier and a later external
id. Two contracts and three links let a contract be voided, issued again and resent;
three codes let a code of the present follow a code of an earlier link.
Durations are the smallest that keep their order: a lease exceeds the cycle;
proofs outlive codes, as in the code (15 and 10 minutes); the window outlasts the cooldown.
One quote, and one event, are enough because no operation of those modules relates
two of them but the list of the cron, which decides on each apart.

`Occupancy` needs several events at once: two that run and may be extended into each other
and into midnight, one booked by the desk, one by a manual contract; a threshold of two makes
the third one too many, and a stock of three is exceeded by two reservations of two. A day has
six slots, and packages last one slot, six (a day, which the table refuses) or eight. Two
shows of a crew do not end at the same time.

In `Inbox` a superadmin may do all that an employee may, so one of each suffices for a race;
two commands let a release be followed by another taking; two faults are two takings of which both fail, the
second one after it took the conversation from the first; one message answered by two jobs is what
overlapping turns need (two messages with two faults take too long for a run, and the theorems hold for
any number). The job's life is not longer than that
of the lock, as the code has it (30 seconds each). In `Bot` two quotes make an older and a newer one,
`MaxMisses` is that of the code, one upset is one crash, one failure of Chatwoot or one message written
ahead. Two upsets (7.4 million states) were checked once, and showed that a greeting that was shown and not
saved has to count as lost, too; the run keeps one, and the theorems hold for any number. In `Accounts` two superadmins are needed to deactivate each other, three tokens to
rotate twice or to have two sessions. In `Lead` two messages make two jobs that overlap, or one message
that is sent twice; three quotes let a stale save come between a second and a third; two faults are an
enqueue and a release that both fail, or a worker that dies twice, once more than
`MaxTries` admits. Who has the turn of the bot is not repeated there: one quote at a time is being
made, as `OneTurnAtATime` of `Inbox` says.

Every other bound is named: `MaxCopies`, `MaxFaults`, `MaxPayments`, `MaxVersions`,
`MaxContracts`, `MaxLinks`, `MaxCodes`, `MaxCommands`, `MaxEdits`, `Horizon`, `MaxQuotes`,
`MaxReplies`, `MaxUpsets`, `MaxPasswords`, `MaxRequests`, `MaxTries` cap what would grow for ever. Deadlock is not
checked, as all of these stop once their bound is used up, and a client may never
come back.

### Fairness

Safety is checked without it, but for the two runs that also check liveness.

* `Outbox`: the worker starts a cycle every five seconds and restarts after a crash;
  HTTP requests have a timeout, so each send gets some answer; arq cancels a cycle at
  its timeout. Claims are ordered by time and batches are bounded, so a due message
  may wait while others go first, but not for ever: strong fairness of the claim, the
  send, the answer and the save *of each message*. Faults are finitely many
  (`MaxFaults`), which stands for "not at every attempt".
* `QuotePayments`: the cron runs every minute (weak fairness of `FindDue`). A quote is
  skipped only while another transaction holds its lock, so it is not skipped every
  time: strong fairness of `ExpireDue(q)`. Nobody is assumed to verify a receipt,
  which is why `DueQuotesClose` admits a quote under review.
* The other modules have none: neither staff nor client has to do anything, and a job that
  is lost is not repeated by anybody.

## 4. What is proved

Every safety property that a passing run checks is also a theorem, for any value of the constants that
satisfies the ASSUMEs of the module: any number of messages, workers, quotes, payments, contracts,
shows, users and requests, any durations, any number of faults. The assumptions say that bounds are numbers and `None` is nobody,
and four more things. Two of them the code has itself: a job of the worker does not outlive the lock of a turn (`InboxConstants`;
both are 30 seconds), and packages are paid something in advance (`OccupancyConstants`). The third is that the rows there
are at first are consistent: within the threshold, a crew in one place, no show that ends at the time it begins (`FirstCalendar`). The fourth is
`LeaseCoversCycle`, below. The duration of a package is any positive number, as in the catalogue. A property of the form `[][A]_vars` is
proved of every step from a state of the inductive invariant.

**Outbox.** In three layers, each inductive given the ones before. `TypeInv` adds to
`TypeOK` the shape of a cycle (it sends what it holds, and a pending row has
attempts left). `RowInv` says of a row only what its copies bear out, and of an answer that it
was given: `SentWasAccepted`, `ContentMatchesStatus`, `FailureHasCause` and
`DeliveryWasReported` follow. `LeaseInv` says that every held row is leased until after the
end of its cycle; it needs `LeaseCoversCycle == CycleTimeout < Lease`, which a comment
in `core/config.py` asks for and nothing enforces: it is an assumption of
`DispatchIsExclusive`, `HeldRowsStayLeased`, `NothingSentIsSentAgain` and of the refinement
`OutboxKeepsPromise`, of `IdsKeepResolving`, and of no other theorem. The refinement maps every action to a
step of the promise or to a stutter; it needs the leases because a report may only name a
copy later than the last one. So does `IdsKeepResolving`: with a lease that may run out during a cycle,
the answer of an earlier copy can be saved after the retry of a later one, and TLC then finds
`KnownIdsResolve` violated. `RowMoves` says once how any step may change a row; that a delivery does not
go back, and that only a retry reopens a row, follow from it without the leases.

**QuotePayments.** The invariant says what one payment, one quote and one request between
its transactions may look like. It is stronger than the properties: a refund that
was read still finds its payment refundable or refunded, a registered payment is
constructed by one request only, and a payment with a verifier is either verified or
being given back. The two action properties, `MoneyDecisionsAreFinal` and
`ClosingSparesReviews`, are proved of every step from a state of the invariant.

**ContractSigning.** `Inv` ties every row to its history: its link is one that was made
and opens its document; its code is the last one requested, and its attempts are
the wrong guesses at that code, fewer than the limit; a code not requested yet has
no guesses. Without the last two, `GuessesAreBounded` is not inductive: nothing
would say that a counter starts at zero with each new code. All six properties of
the run `contract_signing` follow.

**Reception and Lead.** `NoSilentLoss` is not inductive: nothing in it says why a key is there when a
duplicate is dropped. `KeysHaveReasons` does: a key without a job has a request that still
has to answer, or that was refused. No step of a job, of the worker or of the staff touches
keys and requests, or forgets a job (`JobsGoOn`), so the rest of `Lead` needs one lemma.
For the link the difficulty is that nobody holds it: what a job is about to write was
decided on a row that may have changed. `JobSound` and `MarkSound` say it by staleness: a save that is not
stale found the link as it still is, and writes it with the one change that it is there for (`FreshJob`),
so `LinkSound` survives every save but a stale one. A stale save may only bring back a quote that
existed (`kept.quote`), never one to come. `MarkGone` adds that a job which has noted its message leaves no mark
of an older quote behind.

**Accounts.** The four properties need one another: that a session comes back is prevented by `SessionsDoNotFork` (at most
one token that is not revoked, since rotating revokes the old token and inserts the new one under the lock of the account),
and a rotation gives a current token because the token it started from was current (`LiveTokensAreCurrent`),
which the check under the lock establishes. `TokensBelong` and `RequestsRefer` say that what a request read still
exists. `SessionsEndForGood` counts the live tokens of a session before and after each step; a token that expires
while its rotation waits for the lock is still live, as the time was taken before (`refresh.py:45`), and `Wanes` says that no
step begins to rotate a token that has no days left.

**Inbox.** `TurnsRunOneAtATime` needs `TurnsHoldLock`: a job in its turn owns the lock, for at least as long as
arq lets the job live; a job that had to wait for the lock has only the rest of its life left.
`TakenIsOpen` speaks of the quiet state only. Before it, takings overlap: each remembers from whom it took, and
would give back. `PendingIsTransient` says that while Chatwoot has the conversation pending there is a `Chain` of
takings that still have to open it, each from the one before, that ends with the holder; when the last
of them fails, the one before holds again. `HandsChangeByRight` follows from what a command had read when it was authorised
(`CommandsByRight`) and from the conditional update.

**Occupancy.** What makes the check hold until the commit is that the rows it read are changed only
under the lock. `BookingFits` and `ExtensionFound` say so: while a booking or an extension holds
the lock, the number of shows, the crews and the units in its window are still those that it found, so the commit keeps
`ShowsWithinThreshold`, `CrewsInOnePlace` and `ReservationsFollowEvent`. The code compares whole windows and the
properties speak of instants: whoever takes place at an instant of a window overlaps the window
(`FitsAtEveryInstant`, `ThresholdKept`). The row keeps a time of day, so what is read
back is the window that was written, past midnight too, less whole days: `EndIsReadBack` shows it for any duration, and
`LongerHours` and `PartHasRoom` that a show which seems shorter than it is takes no more room than
was found for it. That is why the threshold and the crews are stated by the hours of the rows.
Sums of units and of money are folds of the library, and induction over them is out of the
prover's reach; `SumsAgree`, `SumsInAnyOrder` and `PartIsLess` are proved from a minimal counterexample, a
finite set that has none smaller (`MinimalSubset`). `EvidenceOfCharges` needs that the file of an
extension is stored before its row is written and discarded only when there is none.

**Bot.** `QuotedAsAnswered` is about two things that the code keeps apart: the session, and the question
that the client sees. `AnswersInOrder` says which answers a session has at each step, so a session that
quotes has all of them; `AnswersToThePoint` says that, unless the client wrote ahead or a session was lost, there is one
message at a time and it answers the question of the session. `SessionsPayRight` has the only two sessions that can
pay with the newest quote; while the agent has made a newer one and not yet saved, the old
session in Redis is behind, which is harmless as nobody reads it before the turn ends, unless the
worker is lost.

**Left to TLC.** Liveness (`EveryMessageSettles`, `DueQuotesClose`), which needs fairness
and ENABLED. Some theorems are about properties that have no run of their own, because `KeepsPromise` fails
when they do: `SentWasAccepted`, `ContentMatchesStatus`, `FailureHasCause`, `DeliveryWasReported`,
`HeldRowsAreLeased`, `NoSendOnceSent`, `ResolvedRowsReopenOnlyByRetry`. The type invariants of `Outbox`,
`QuotePayments` and `ContractSigning` are proved, and not run either.

**What the proofs changed.** Three properties had held in the runs for want of a second fault or of an
intermediate state. `TakenIsOpen` fails after two failed takings, the second of which took the
conversation from the first: its restore gives it back to one whose own undoing has already found nothing to undo.
`QuotedAsAnswered` fails when a restart was answered, its session lost, and its repetition given up. Both
are what the code does; the exceptions (`overtaken`, `lost`) now name them. `LinkIsRight` had been stated of quiet
states only, and holds at any time.

## 5. What a reader of the code may like to know

* A payment is verified through `/payments/verify` only if its quote has an event already,
  and only a manual booking makes one: the advance of a quote of the bot can be rejected, or
  taken over by the desk, but not verified there, although
  `src/Docs/06-entrega-v1/02-diseno-de-solucion.md:141` says that the quote is converted.
* An advance registered for an expired quote is stored for verification.
* No code creates a BALANCE payment, so payments on site and their audit are not reached in
  practice, nor is `Event.start` unless the advance covers the whole amount.
* A link that failed to be sent keeps its content when the link is replaced (only pending
  messages are invalidated), and the staff may retry it; the client then gets a link that
  opens nothing. A link already under way may also arrive after its successor, which
  `src/Docs` accepts.

* "Three codes every ten minutes" (`src/Docs/04-api/02-matriz-rbac-y-seguridad.md:221`) holds for
  windows that start with a request, not for any ten minutes.
* `RegisterAdvancePayment` never reads the quote and accepts an advance for a converted or
  cancelled one, which `src/Docs/04-api/01-especificacion-endpoints-rest.md:670` promises to refuse.
* The handoff of the bot clears the holder it reads (`bot_handoff.py:177`), also one who took the
  conversation a moment before. `HandsChangeByRight` admits it.
* A crash between the commit of a turn and the save of its session answers, and may quote,
  twice when the job is repeated; the comment on the session says that it does not.
* A login that verified the old password stores its session after the change has revoked all
  others (`login.py:25`), although `src/Docs/01-requisitos/05-historias-de-usuario.md:470` says that all are revoked and
  the user cannot renew.
* A link is saved whole, as it was read, and without a lock. A mark of the staff, a takeover or a job that
  read the link before the bot linked a new quote puts the old one back, or none if it restarts
  the cycle, although `bot_handoff.py:63` says that the newest wins; `last_client_message_at` may go
  back, which the docstring of `record_client_message` excludes. It takes two requests in the same instant.
* Spec 09 (D25) has a conversation marked EVENT_DONE from CONVERTED only. The mark is a time in the link, not
  tied to a quote: a lookup that fails (`process_gateway_event.py:186`), or a mark made while a job runs, leaves it for the
  next quote, which is EVENT_DONE the moment it converts; the next message then unlinks a show that
  is still to come.
* A package of more than a day is booked and reserved for all its hours, but the row keeps the time of day of its
  end (`manual_booking_repository.py:331`), from which at most one midnight is rebuilt: its show seems shorter by whole
  days, although `time_window.py:3` has a window be the start plus the duration. The threshold and the travel times are kept by the hours that the rows show, so another
  show may be booked into the hours that were lost; items are not affected, as reservations have full dates. A package of
  exactly one day, or several, cannot be booked at all: the insert fails on `ck_events_time_window_non_empty`.
* An event is lost for good when the API dies between the key and the queue, when neither the queue nor
  the release of the key works, or when Redis sets the key and its answer is lost (`receive_gateway_event.py:34` releases nothing): the key stays for a week, and what `receive_gateway_event.py:3` calls a later resend is
  acknowledged as a duplicate. A request repeated while the first is being queued is acknowledged, too,
  whatever becomes of the first.
* Two takings of which both fail may leave a holder while the bot has the conversation: the second restores the first, whose own
  restore has come and gone (`conversation_assignment.py:134`). A release whose request to Chatwoot times out may have given the
  conversation back although its holder stays, which the docstring of `ReleaseConversation.execute`
  excludes ("si falla, no cambia nada").
* A bot that waits for the lock decides with the status that the webhook had, not with
  the one of its turn.

## 6. Not modelled, and why

* What the client means and what the language model chooses: inputs of `Bot`.
* Amounts, tariffs and rounding: decimal arithmetic without a protocol, which no other
  decision reads.
* PDF, images, seals, formatting of messages: pure input and output.
* Authorisation by role, decoding of requests, mapping of errors: the modules
  start where a handler does. The signature of the webhook belongs here too; the key of an event
  does not expire in `Reception`, while `Inbox` and `Bot` admit repeated jobs freely.
* What arq keeps of a job that ran out of tries: its result stays for an hour (`keep_result` of the worker is of
  the results of the function), an event queued again within it gets no job, and the adapter does not look at the
  answer. `Reception` admits the new job.
* An employee's takeover in `Bot` is only the session that is cleared (`Forget`); what he writes is not a question
  of the bot, so `shown` does not follow it. Who has the conversation is `Inbox`.
* An extension whose commit is uncertain: `LoseAnswer` assumes that a commit which will succeed is visible when the
  evidence is about to be discarded (`register_event_extension.py:91`).
* Echoes of outgoing messages, which only read the outbox and the link; read marks and events for
  browsers: single calls and notifications.
* Clients, audit log, live updates, themes, prices and images of the catalogue, rows of crews: no
  decision of the modelled components reads them.
* Audit of payments on site: a read-modify-write without a lock, whose result is only reported.
* The container, migrations, payloads of Chatwoot, schemas and fakes: declarations and
  conversions; the constraints that matter are in the guards of the actions.

## 7. Plan

1. `Outbox`, `QuotePayments`, `ContractSigning`, with their proofs: done.
2. `Schedule`, `Occupancy`, `Inbox`, `Bot`, `Accounts`, `Reception`, `Lead`, with their runs: done.
3. Proofs of every safety property that a run checks: done.
4. Next: abstract specifications for `ContractSigning` (an offer that is signed once, or withdrawn) and for the sessions of
   `Accounts`, with their refinements proved; that `Inbox` and `Bot` share the turns as `OneTurnAtATime` lets them.

To run: `tlc -workers 2 -config MCOutbox.cfg MCOutbox.tla` and likewise for the other
runs; `tlapm OutboxProofs.tla` and likewise for the other proofs.
