# A verification of the ITAMLS back-office

The repository is the IT asset, logistics and service back-office of a retail
chain: a NestJS API over PostgreSQL (`apps/api`), a web and a mobile client, and
agents on the stores' PCs and signage players. This directory holds TLA+ modules
translated from that code, TLC configurations that check them on small
instances, and TLAPS proofs of the results that hold for every instance.

Unless a path says otherwise it is relative to `apps/api/src/`.

## What is here

| module | models | checked by | proved |
|---|---|---|---|
| `Logistics` | goods received vouchers, branch transfers, the stock ledger | `LogisticsVouchers`, `LogisticsTransfer`, `LogisticsIbtTwice` | `LogisticsProofs` |
| `SignageCommands` | the command queue between operators, server and signage players | `SignageCommandsQueue`, `SignageCommandsLive`, `SignageCommandsTwice` | `SignageCommandsProofs` |
| `CommandDelivery` | the abstract queue `SignageCommands` implements | refined in `SignageCommandsQueue` | the refinement, in `SignageCommandsProofs` |
| `SignagePlayer` | the player's tick: config, cache, rotation, mpv | `SignagePlayerShows`, `SignagePlayerDark` | `SignagePlayerProofs` |
| `Tickets` | ticket status, SLA clock, breach sweep, auto-close, merges | `TicketsClock`, `TicketsPaused` | `TicketsProofs` |
| `AssetRegister` | where an asset is and its status: moves, repairs, transfers, disposals, reports, history | `BackOffice` | `AssetRegisterProofs` |
| `AssetValues` | depreciation, catalogue costs, imports, write-downs | `BackOffice` | `BackOfficeProofs` |
| `StockTake` | audits of a store: lines, scans, variances, completion | `BackOffice` | `BackOfficeProofs` |
| `Stores` | stores with their location, backup job, login and access rows | `BackOffice` | `BackOfficeProofs` |
| `PcFleet` | enrolment tokens, PCs and their API keys | `BackOffice` | `BackOfficeProofs` |
| `TonerOrders` | monthly toner orders, their lines and head office stock | `BackOffice` | `BackOfficeProofs` |
| `RouterPool` | the subnets handed to the stores' routers | `BackOffice` | `BackOfficeProofs` |
| `RecurringTickets` | tickets opened on a schedule | `BackOffice` | `BackOfficeProofs` |
| `BusinessTime` | opening hours, holidays and the deadlines computed from them | `BackOffice` | `BackOfficeProofs` |
| `Procurement` | purchase requests, their approvals and orders | `BackOffice` | `BackOfficeProofs` |
| `PinPads` | PIN pads: detection, confirmation, return, missing sweep | `BackOffice` | `BackOfficeProofs` |
| `ApiTables` | for each REST operation a screen calls, the tables it reads or writes | through `WebScreens` | - |
| `WebScreens` | the web client's components: their queries, operations and invalidations | `BackOffice` | - |
| `WebCache` | the client's cache between an operation and a query it changes | `BackOffice` | `WebCacheProofs`, `BackOfficeProofs` |
| `MailIntake` | e-mails that become tickets and comments | `Services` | `ServicesProofs` |
| `BackupRuns` | backup runs, their archives, the nightly purge | `Services` | `ServicesProofs` |
| `Alerts` | the scan that opens alerts, dismissal | `Services` | `ServicesProofs` (types, number of alerts) |
| `TranscodeQueue` | transcoding of signage videos into checksummed variants | `Services` | `ServicesProofs` |

The `MC*` modules of the first five add the symmetry sets and constant functions
that TLC needs; `MCBackOffice` and `MCServices` compose the modules of their runs
(see *The two composite runs*). The runs named `...Twice`, `...Dark` and `...Paused` are expected to fail:
each checks one sentence of the repository that the code does not keep (see
*Findings*). Operators whose comment starts with "mutant:" are wrong variants of
the definition that follows them; replacing the definition by its variant must
break the property it is listed with in `PROJECT.json`, which shows that the
property depends on that piece of code.

## The system

### Concurrency and failure, everywhere

The API is one Node process (or several) serving HTTP requests and crons. A
handler runs until an `await`; between two awaits of one handler any number of
statements of others can run. PostgreSQL runs at READ COMMITTED: a statement sees
what was committed before it began, an `UPDATE` locks its row until the
transaction ends, and no `SELECT` of the repository takes a lock. Hence the
pattern behind most of the hazards: *read a row, check its status, later write by
id*. A transaction gives atomicity, not isolation from that pattern. The models
cut each handler exactly at those points and make everything a transaction writes
visible in one step. A handler can also stop anywhere (failed statement, lost
connection, killed process); what it has not committed is gone.

### Parts, their state and what makes them correct

**Logistics** (`logistics/grv.service.ts`, `logistics/ibt.service.ts`,
`inventory/stock.service.ts`). State: `Grv`, `Ibt`, `Stock`, `StockMovement`,
`Dispatch` rows. Operations: create, confirm a voucher; create, approve,
dispatch, receive a transfer; count or adjust stock. Hard: overlapping requests
on one document, codes computed from `count()`, unguarded decrements. Correct
when documents move stock once, status and stock agree, and the movements
explain the stock.

**Signage commands** (`signage/remote-exec.service.ts`,
`signage/signage.service.ts`, `signage_agent/executor.py`, `api.py`). State:
`SignagePlayerCommand` and `FleetFreeze` rows, polls in progress, the batch the
agent executes. Operations: queue (with or without signature), freeze, poll,
execute, report, restart. Hard: polls that time out on one side only, lost
reports, restarts in the middle of a batch, a signature written after its row.
Correct when a result says no more than what happened, order is kept, nothing unsigned runs,
and every command ends.

**Signage player** (`signage_agent/agent.py`, `cache.py`, `player.py`,
`signage/signage.service.ts`, `signage/transcode.service.ts`). State: the config
a device is answered, its disk, its playlist and its mpv process. Operations:
poll, purge, download, transpose, play, heartbeat; on the server assign, rotate,
resync, transcode. Hard: long ticks while the config changes, partial failure,
process deaths, the several memories of "what is playing". Correct when a screen
converges to its config and is not interrupted without need.

**Tickets** (`helpdesk/tickets.service.ts`, `tickets.cron.ts`,
`helpdesk-v3.service.ts`). State: the `Ticket` row, ids the crons hold.
Operations: create, update (status, priority, assignee), merge, sweep,
auto-close. Hard: a clock that pauses, several writers of one row, crons that
act on what they read before. Correct when only legal moves happen, waiting for
the user costs nothing, only late tickets are flagged and all of them are.

**Asset register** (`inventory/assets.service.ts`,
`inventory/decommission.controller.ts`, `service/repairs.service.ts`,
`discovery/`, `logistics/ibt.service.ts`). State: `Asset`, `AssetHistory`,
`Repair`, `Ibt` and `Decommission` rows. Operations: create, move, assign, log
and move on a repair, dispatch and receive a transfer, dispose, report. Hard: a
move writes back the status it read, documents check before their transaction,
history rows are statements of their own. Correct when the history says where
the asset is and a document stands behind a status that only documents give.

**Asset values** (`depreciation/`, `catalog/skus.service.ts`,
`inventory/assets-import.service.ts`). State: cost, value, month of purchase,
the posted runs. Hard: a monthly run that reads all and writes one by one while
costs and disposals change the same rows, or dies half way. Correct when the
postings explain the values and nothing that is kept falls below its residual.

**Stock takes** (`audits/`). State: an audit and its lines. Hard: scans that look
and then write, completion while scanning goes on, nothing that stops either.
Correct when a completed audit accounts for all it expected.

**Stores** (`stores/`, `users/users.service.ts`). State: `Store`, `Location`,
`BackupJob`, `User`, `UserStoreAccess` rows written one after the other. Hard: a
failure between any two, wiped stores whose location is used again. Correct when
a store and its location carry one code.

**PC fleet** (`agents/`, `discovery/api-keys.service.ts`). State: enrolment tokens
with a number of uses, PCs, API keys. Hard: an enrolment of seven statements,
twice at once, cut short, against keys revoked by hand. Correct when a PC has one
key in force and a token is not overdrawn.

**Toner** (`toner/`) and **procurement** (`procurement/`). State: monthly orders
and lines against HQ stock; purchase requests and orders. Hard: an "idempotent"
generation without a unique key, corrections of a dispatched quantity, statuses
of line and order, or request and order, written apart. Correct when stock is
accounted for and the two statuses agree.

**Routers** (`mikrotik/`). State: the last octet of a brand's pool and the configs.
Hard: the next subnet is worked out long before it is written, deletions rewind
the pool. Correct when no two stores share a subnet.

**PIN pads** (`pinpads/`). State: status, and how long a pad was silent. Hard: the
daily detection, the operator and the nightly sweep write from stale reads.
Correct when a pad is MISSING or RETURNED for a reason.

**Scheduled tickets and business time** (`helpdesk-v3.service.ts`,
`business-hours.service.ts`). Hard: a crash between a ticket and its next date; a
walk over closed days, holidays and part days. Correct when a schedule opens one
ticket a day and a deadline leaves the time it promises.

**Jobs that run by themselves**: the e-mail ingest (`email-ingest.service.ts`), the
backup purge (`backups-retention.service.ts`), the alert scan (`alerts/`) and the
transcoding (`transcode.service.ts`). Hard: failures at every step, restarts,
things that change underneath, work that must not be starved by other work.
Correct when no mail is lost or left for ever, old runs and archives go, every
condition has its alert, and videos end transcoded to files that verify.

**Web client** (`apps/web`). State: React Query's cache, 30 seconds fresh, keyed by
strings that many screens share. Operations: any REST call, followed by the
invalidations its `onSuccess` names. Hard: components that know nothing of each
other, fetches under way when an operation commits, lost answers, swallowed errors.
Correct when a screen shows what its user has just done.

**Other clients and I/O.** Clients call the operations in any order, so they are
the environment of the models. Mail, object store, routers, DVRs, remote access
and the rendering of reports are I/O.

`PROJECT.json` lists every part with its files, and the hazards with their lines.

### How the parts interact

Transfers and vouchers share `Stock` (in `Logistics`); transfers, repairs,
disposals, moves and discovery share `Asset` (in `AssetRegister`), which also
takes the asset an enrolment books in. The values of the same rows are written by
other handlers and are a module of their own, since no handler reads a value to
decide a status or place. Signage commands and the player share one config answer
and one agent thread: the agent runs the command batch of a poll before it
reconciles the player (`agent.py:123-137`), so a restart command ends the tick,
which is `Restart` in one module and `AgentRestart` in the other; a `RESTART_MPV`
command is an `MpvDies`. A finished transcode is a `Publish` of `SignagePlayer`;
that the checksum it hands out verifies is `VariantsVerify` of `TranscodeQueue`.
The crons, the operators and the e-mail ingest share the `Ticket` row: `Tickets`
has what they do to one, `MailIntake` and `RecurringTickets` how one comes to be.
The deadline `Tickets` counts in plain time is computed by `BusinessTime`. A
deleted store takes its backup job (`Stores`), without which the purge of
`BackupRuns` passes its PCs by. The web client is tied to the rest through
`ApiTables`: an operation reaches a screen when the tables it writes meet those
the screen's query reads.

## The modules

### Logistics

Each handler that other requests can interleave with is two or three actions: the
unlocked read that checks the status (`ConfirmRead`, `ApproveRead`,
`DispatchRead`, `ReceiveRead`), the `count()` of a code (`CreateGrvCount`,
`CreateIbtCount`, `ReceiveCount`) and the commit. `receive` holds row locks while
it counts (`Locked`), and the unique index on a code makes the loser of a race
fail without a trace. `Fail` ends a request at any point. One non-serialised SKU
is modelled; a serialised voucher line whose serials do not match its quantity is
the `serialsOk` flag, and the assets of a transfer are not modelled (they touch
only `Asset` and `AssetHistory`).

History variables: `base` and `moved` (what the last count and the movements
account for), `posted` (how often a document moved stock), `overlapped`
(documents two requests handled at the same time), `clamped` (rows whose first
write was clamped at zero).

* `LedgerReconciles` - the movements explain every stock row, under any overlap.
* `PostedWithStatus` - a voucher is CONFIRMED exactly when its goods are in
  stock; a RECEIVED transfer has moved them.
* `OncePosted`, `TransfersAdvance` - without overlapping requests a document
  posts once and a transfer only moves forward. The exemption is needed: see
  `LogisticsIbtTwice`.
* `ArrivalsAcknowledged` - a transfer received at a store has its acknowledgement, also
  when two receives at different locations count the same number of dispatches: the one
  whose code is taken is undone whole.

Bounds. `LogisticsVouchers`: two vouchers, two locations, two overlapping
requests (the smallest number that can race), movements up to `MaxMoved`.
`LogisticsTransfer`: two transfers, two requests, two postings (so that a second one is
visible), and four locations, two of them stores: only receives that share no location
can race for a code, since the row locks (`Locked`) put the others one after the other.
Nothing a document goes through depends on the quantities in stock, so the run's `VIEW`,
`Documents`, leaves the ledger out and the quantity is 1.
`MaxPosted` and `MaxMoved` only stop counting. Requests may stop (`Fail` is a
step), so no liveness is claimed.

### SignageCommands and CommandDelivery

An operator's signed queueing is `QueueCheck` (freeze), `QueueCreate` (insert),
`QueueSign` (second statement); the plain endpoint is `QueueCommand`. A poll is
`Poll`, `PollFreeze`, `PollRead`, `PollMark`; it can time out on the device
(`PollTimeout`) while the server still handles it. The agent executes its batch
one by one (`Execute`, `Reported`); RESTART kinds end the process while the batch
is running (`Restart`, `Killed`), a `Crash` does so at any point. Reports are
messages that may be lost (`LoseReport`) or delivered late. Kinds are classes
(`HandlerEnds` says what a handler may do before it reports, and what it reports): RUN
acts then reports, SHELL does so too and needs a signature, RESTART reports first, NUDGE
(ROTATE_SCREEN) only reports, SYNC (SYNC_PLAY_AT) starts a detached process and reports,
UNHANDLED has no handler. A signature may also fail to match, or the agent may have no
secret (`Verify`). The process of a SYNC command (`worker`) acts later, without anyone
learning whether it did (`WorkerEnds`), and ends with the agent's service
(`WorkersLost`): its session is its own, its control group is not.

* `DeliveryInOrder` - with the refinement mapping *queued for a device / started /
  final status*, the queue implements `CommandDelivery`.
* `DoneWasRun` - what DONE says, by kind: a RUN or SHELL command was acted on, a SYNC
  command has had its process started, and no UNHANDLED kind is ever DONE. DONE says
  nothing of a RESTART or NUDGE, and not that a SYNC command's process did its work.
* `ShellWasSigned` - a shell command only runs from a poll that read it signed.
* `EveryCommandAnswered` - when the fleet stays unfrozen, every queued command
  gets a result.

Fairness (`FairSpec`). The agent loop and the server keep running (weak fairness
of their steps). Polls and reports may be lost any number of times but not for
ever: strong fairness of serving a device's poll and of delivering a report on a
command, which the 60-second loop and the re-sending of SENT commands justify.
Nothing is assumed about crashes (bounded by `MaxCrashes`, 0 in the liveness run,
where RESTART commands interrupt the batch anyway), operators, or the freeze.

Bounds. Two commands (order and a batch need two), one device (devices share
nothing but the freeze), two poll handlers (an overlap needs two), one operator.
`MaxRuns` only stops counting runs. `Kinds` bounds which kinds the first and the second
command may have: a SHELL before a SYNC or an UNHANDLED one in `SignageCommandsQueue`
(acting first, acting later and not at all), RUN or RESTART in `SignageCommandsLive`. A
NUDGE is a RUN that does not act; only the proofs, which are for all kinds, have it.
A RESTART whose background command cannot be started would report FAILED after its DONE;
that second report is left out.

### SignagePlayer

The agent is one thread whose tick is cut at its slow operations: `Fetch` (poll,
purge, flags), `Blank` or `Reconcile`, per item `Ensure`, `Download`,
`Transpose` or `ItemFails`, then `Play` and `Heartbeat`. A file has a version, so
that a rotated sibling made from an older download can be told from a current
one. mpv is `off`, `up`, or `idle` (up over a playlist none of whose files
exist). On the server, `Assign`, `Publish` (a finished transcode), `Rotate`,
`SetProfile`, `ForceResync` and `Retarget` change the config. Playlist order,
schedules and the resolution of assignments are abstracted to "some set of
videos".

* `AppliedStays` - what a tick has applied stays on disk and in mpv's playlist,
  in its version and rotation, until the config changes.
* `UnchangedKeepsPlaying` - a poll that brings nothing new never restarts or
  stops mpv.
* `SettledIsShown` - when the operators stop, the screen ends up showing exactly
  its config. The exception, an idling mpv, is the finding of
  `SignagePlayerDark`.

Fairness. The loop ticks for ever (weak fairness of the agent's steps); polls,
downloads and transposes that are tried again and again do not fail for ever
(strong fairness of each). Without the last a screen may rightly never change.
Deaths of mpv and restarts of the agent are bounded by `MaxFaults`, changes by
`MaxChanges`: both must end for a screen to settle.

Bounds. Two videos (one may fail or go while the other stays), one rotation
besides 0, two flag lists, two versions, two changes and one fault: enough for a
change during a tick, a change back, and a fault between any two steps.

### Tickets

`UpdateRead` reads the row, `UpdateWrite` writes what `TicketsService.update`
computes from it; `SweepRead`/`SweepWrite` and `CloseRead`/`CloseWrite` are the
breach sweep and the nightly auto-close, which write by id. `Merge` closes its
source in any status. Time is a counter (`Tick`); business hours are abstracted to
plain time, and `aged` tells whether a resolution is older than the auto-close
cutoff. The response deadline is handled by the same statements as the resolve
deadline and left out; the assignee only matters for the implicit ASSIGNED.
The clock is read where the update writes, not at its start.

* `WaitingIsFree` - the accounted pause is the time really spent waiting, over any
  number of pauses, and pushes the deadline by exactly that.
* `LegalMoves` - only the transitions of the table.
* `BreachWasLate` - only tickets that were open past their deadline are flagged.
* `OverdueIsFlagged`, `ResolvedIsClosed` - the crons reach every ticket.

`WaitingIsFree` and `LegalMoves` exempt tickets that two requests handled at the
same time, and merged ones; `WaitingIsFree` does not speak of the deadline after a
priority change, which recomputes it from the creation and drops the pause. All
three are what the code does (see *Observations*).

Fairness. The crons run for ever and do not fail for ever (weak fairness of their
read, strong fairness of their write): `@nestjs/schedule` starts them again
whatever happened before.

Bounds. One ticket (tickets share nothing here), one update slot (overlaps are
with the crons and merges; `TicketsPaused` has two slots), two priorities,
`ReopenThreshold` 1 so that the escalation happens, three units of time (two
pauses and a passed deadline).

### The two composite runs

`MCBackOffice` extends `AssetRegister`, `WebScreens` and instantiates the other
back-office modules; `MCServices` does the same for the four services. The
components in one run share no table in these models, so how their steps interleave
decides nothing: a behaviour follows one of them, its `focus`, chosen at the start,
and the others stay as they start. The runs therefore ask what one run for each
component would, with one reading of the constants. Both have
`CHECK_DEADLOCK FALSE`, because a component really may come to an end: the calendar
and the bounded numbers of documents, keys or failures run out.

Two things keep `BackOffice` small. Its `VIEW`, `InFocus`, is the tables of the component
followed (the others never leave their first value; of a status that keeps an asset
out of depreciation nothing reads which one it is, so `ValueState` has only that). Its `CONSTRAINT`, `Undecided`, ends a
behaviour once the history sets that a property exempts, and that only grow, hold
everything there is: nothing that the property still says can be broken after that. What
such states hold otherwise is part of the types, which are proved without the constraint.

Request slots (`Slot`, two: the smallest number that can race) stand for the
handlers in progress, and each slot can stop at its next statement (`Fail`). The
*history* variables record exactly the overlaps and failures after which the code
does not promise a property; each property names its own. Behind every one of them
is something the code does, listed under *Observations*.

### AssetRegister

`Find` reads the row for a move, an assignment or a report, `Move`, `Assign` and
`Report` write it; `WriteTrail` is the history row of a create or move, a
statement of its own. `FindRepair`/`Transition` and `FindTransfer`/`Approve`,
`Dispatch`, `Receive` and `Dispose` check a status and write it later, with the
status they give the asset (`Reflect`, `Carry`). Creation and logging are single
statements. Serial numbers, costs and assignees are left out.

* `LocationTraced` - the asset is where its history last put it, except after a
  report (which writes none) or a history row that was lost or late.
* `StatusHasDocument` - REPAIR, IN_TRANSIT and DISPOSED each have their document,
  whatever overlaps, except where a move wrote a status that was typed in or stale,
  or a transfer was approved again after its dispatch.

Bounds: one asset, repair and transfer, two places, two requests: a document of each
kind can meet another on the same asset. `Typeable` is REPAIR, a status
that otherwise only a document gives; `retyped` records that the screen lets any status be
typed.

### AssetValues

A run (`StartRun`, `Depreciate`, `FinishRun`, `CrashRun`) remembers the rows it read
and writes them one after the other; `Buy`, `Import`, `SetStatus`, `Dispose`, `Cascade`
(a catalogue cost onto the rows without a cost or a value) come between. `SetStatus` is
whatever writes a status and no value - a move, an assignment, a repair, a received
transfer - and none of them asks whether the asset is disposed of, so an asset may be back
in use with the value 0 its disposal left. `decommissions` are the `Decommission` rows,
of which an asset has one at most.

* `ValuesKept` - the values are the costs less what the runs posted or will post and
  what disposals and cascades took (`DepreciationPosted`, except once a run died or
  wrote over a change), and no asset that was never decommissioned is below its 10 %
  residual or above its cost, whatever its status became (`ResidualKept`). Of a
  decommissioned asset it says nothing: it is worth 0, in use or not, until a run or a
  catalogue cost gives it a value again.

Bounds: two assets, two runs, two months of life and of calendar, so that a value is
written half way and at its residual; costs are entered as 0, which takes the catalogue's
10 on an import and by a cascade. The costs 0 and 20 were checked once (2.6 million
states).

### StockTake

`Create` expects what is in the store; `FindLine`/`WriteScan` is a scan, cut where it
looks for its line; `markVariance` and `complete` as in the code, on any audit.

* `AuditExplained` - see above; the exemption is a line the auditor marked by hand.

Bounds: one audit, two assets, two scans at once, two lines of an asset. Assets move only
while an audit is still to be created: nothing reads where they are afterwards.

### Stores

Create is `StartCreate`, `UpsertLocation`, `CreateStore`, `CreateJob` and, with a
login, `provisionLogin`, `WriteLogin`, `GrantAccess`; an edit is `StartUpdate`,
`UpdateLocation`, `UpdateStore`; `remove` is one transaction; `HealJob` is the read
of the backups page, which makes a missing job.

* `LocationInStep` - the two codes agree, except after an edit that was cut short or
  overlapped another, a deletion or a create that had just found its location.

Bounds: two stores, two locations, two codes, one e-mail.

### PcFleet

`Redeem` reads the token, `UpsertPc`, `RevokeOld`, `Mint`, `Bind`, `Link`, `Spend` are
the statements that follow; tokens expire and are revoked, keys are revoked by hand,
PCs deleted.

* `OneKeyInForce` - one live key for an enrolled PC, except while an enrolment
  replaces it or after one that died half way or overlapped another.
* `TokenNotOverdrawn` - by no more enrolments than ran beside the one that used it up.

Bounds: one token of one use, one PC, three keys, two enrolments. Two PCs were
checked once.

### TonerOrders

`generate` is `StartGenerate`, `CreateOrder`; a dispatch is `ReadLine`, `WriteLine`
(which waits for a transaction that holds the same rows, `Locked`), `CheckOrder` (what
its transaction counts) and `CommitDispatch`; receipts, closing and cancelling are statements.

* `StockAccounted` - bought less sent, for any corrections, except of a line
  dispatched from a stale quantity.
* `OrderAdvances` - an order whose lines are all on their way is no draft, except when
  its last dispatches overlapped.

Bounds: one order, two lines of two toner types (with one type the second dispatch
waits for the first, and the overlap cannot happen), quantity and stock 1.

### RouterPool

`generate` works out an octet from the pool it read, `SaveConfig` writes it;
`deleteConfig` works out where the pool goes back to, `CommitDelete` writes it.

* `SubnetsDistinct` - except a subnet typed in or handed out again because the pool
  was set back by hand, and once a request wrote what it had worked out from a pool
  that had changed.

Bounds: three configs, octets 0 to 2 (with 3 checked once), two requests.

### RecurringTickets and BusinessTime

A pass (`runScheduledTicketsCron`) reads the schedules due, and for each
`CreateTicket`, then `SaveNext`; `CreateFails` and `Cut` are the failures before and
after the ticket. `ScheduledOnce` - one ticket a day, and one more for every such cut.

In `BusinessTime` the state is the two tables; `addBusinessMs` is the code's loop, `turn`
one pass through its body on the cursor and what remains. `DeadlineLeavesTime` compares it
with the set of moments of opening time: exactly the time asked for lies before the
deadline, and the deadline is the first such moment. It has two conditions, without which
the code gives up on purpose: `NeverShut`, from every day that a walk can reach a day opens
within `LookAhead` (else the search jumps ahead by `FarAway`), and `InReach`, the time fits
into the turns however short the days (else the loop stops at its cap; 730 turns are more
than two years of business days). A week of two days, days of four units, four holiday
dates, all pairs of the hours 0, 1, 3 and 4 (a day may close at midnight; one that closes
when or before it opens is shut), deadlines up to four units from any moment of the week:
every combination of starting before, in or after the hours, ending at closing time, and
going over one or more closed days occurs; `LookAhead` 3, `FarAway` 20 and `MaxIters` 4
stand for 29, 365 and 730. With one day more in `NeverShut`, or one turn more in
`InReach`, the run fails: neither says more than it must. Under the same conditions
`DeadlinesInOrder` compares two walks: more time, or a later start, is never due earlier.

### Procurement and PinPads

A transition of a request and the creation of an order read the request, check it
and write later; the order and the request's mark are two statements. `OrdersAgree` -
ORDERED exactly with an order, FINANCE_APPROVED only after IT, except for a mark
still to come, lost or overwritten. Two requests, two orders.

`Find` reads a pad for `Detect`, `confirm` or `markReturned`; `ReadStale` and
`markStaleMissing` are the sweep; `Silence` is a week without a report.
`PadStatusExplained` - MISSING only after such a week, RETURNED until the next
detection, except when a confirmation or sweep that had read the pad before wrote
after its return. One pad; two were checked once (5.7 million states).

### ApiTables, WebScreens and WebCache

`ApiTables` has one record for each service, with the tables every operation that a
screen calls stands on, read from the service's code. `WebScreens` has one definition
for each component of the web client that talks to the API, under the component's
name: `shows` are its `useQuery` calls (key, tables, whether it polls, whether a
`.catch` turns a failure into an empty answer), `does` its mutations with the keys
their `onSuccess` invalidates. `Pairs` puts them together: every operation with every
query that reads a table it writes, on one page or tied by an invalidation (292).

A behaviour of `WebCache` is about one pair. The query's screen opens and closes
(`Show`, `Hide`), its answer ages (`Age`), is fetched (`Read`, `Answer`,
`FetchFails`, `Poll`); the user starts the operation (`Send`), the server commits or
refuses (`Commit`), the answer is lost (`LoseAnswer`) or comes (`Told`), and the keys
are invalidated (`Invalidate`, which cancels a fetch under way unless it is the first
or nobody watches). The button that refetches a list is a `Show` without effect on
the rest and is left out.

* `OwnWriteShown` - once the client has the success of an operation, no screen rests
  on an answer from before it, except one that polls, whose fetch failed, or whose
  first fetch was answered before the commit, and the pairs of `LeftStale`: the
  places where an operation changes what a screen shows and does not name its key.
  `Unrelated` are pairs that share a table and no row or column.

The run shows that these two lists are complete: a pair that is neither told nor
polled nor listed is left stale in a few steps. One operation and one query are enough,
for what two operations or two queries do to each other goes through their own entries
only.

### MailIntake, BackupRuns, Alerts and TranscodeQueue

`MailIntake`: `pollNow` fetches the mailbox, `Look`, `Ingest`, `Tag` work one mail
through (event with its uid last), `FailOne` fails on one, `Quit` deletes, `Break` is
a lost connection. `MailsAccounted` - a mail leaves the server only once it became a
ticket or comment, and becomes a second only by a failure before its event was
written, or for a reply that stayed on the server. `EveryMailHandled` - each becomes
one. Two mails, one a poll, so that a mail waits behind another; each is cut short, and
left on the server by a poll that got through with it, once at most. (A server that is
told never to delete does leave mails for ever, see *Observations*.) `Without`, what is
left of the mailbox, is a recursive function and not `SelectSeq`, into which the provers
cannot see.

`BackupRuns`: runs start, upload, complete, fail and grow old; `purgeOld`, `ReadJob`,
`RemoveArchive`, `DeleteRun` are the purge; `removePc` and `Crash` cut into it.
`ExpiredRunsGo` - an old run of a store's PC goes, and its archive with it, except one
the object store refused to remove or whose PC is gone. Two store PCs, one of head
office, two runs.

`Alerts`: a scan (`runAll`, `Look`, `Raise`, `backupMissedScan`, `Done`) from the cron
job and from the button side by side, `Headless` where a PC without a store ends it.
`AlertRaised` - a row that goes on calling for an alert has one open again and again,
a backup only while no head office PC calls for one. No more alerts of a row are open
than scans ran side by side (in `AllTyped`).

`TranscodeQueue`: `pickNext`, `Start`, `Skip` or `Probe`, then `PutFile` and
`SaveVariant` for each quality, `Finish` or `Fails`; `Queue`/`DeleteRows` is a request
to transcode again; `Crash` leaves the video RUNNING. `VariantsVerify` - a variant's
checksum is its object's except between the two writes, and a DONE video has every
quality that fits, except for videos queued again or taken twice meanwhile.
`QueueDrains` - what is PENDING is not so for ever. One video, two qualities, two
processes, two outcomes of an encoder.

Fairness. Mail: polls go on and write events (weak fairness of `pollNow`, `Tag`);
looking, ingesting a given mail and quitting do not fail for ever (strong fairness):
the cron job polls every minute and nothing remembers a failure. Purge, scans and
transcoding: the cron jobs start them again and what is started goes on (weak
fairness of each process); crashes and refusals are bounded (`MaxCrashes`,
`MaxFails`), and no fairness is assumed of users or of the data that calls for an
alert.

## What is proved

Every safety property of the passing runs is a theorem about the specification, without the
constraint and views of the runs: for every value of the constants that satisfies the
module's assumptions. They say

* that tables are finite, there is something in them (a voucher or transfer, a device, a
  request slot), and the bounds are natural numbers;
* that a value that stands for no row (`None`, `Nowhere`, `Gone`, `"none"`, `"upload"`, a
  rotation 0 or -1) is none. The code has NULL, an enum or a checksum there;
* that quantities and costs are naturals and an asset's life is at least a month, and a poll
  takes at least one mail (`HELPDESK_POP3_MAX_PER_RUN`, 25 unless configured);
* that opening hours lie within a day, and weeks and days are not empty (`ClockAssumption`,
  which also has the hours of the first row among those that may be entered);
* `PairsTyped`: each pair read off the screens answers its four questions by yes or no.

TLC evaluates all of them in the runs. An invariant is proved as usual: it holds at the start,
each action keeps it, it implies the property. A property that exempts what a *history*
variable records is not inductive by itself; the invariant then says, of everything that is
not exempt, what the requests under way hold in their hands and why it is still so.

`LogisticsProofs`
* `TypeCorrect` - `[]TypeOK`, with `RequestsNameRows`: a request between its read
  and its write names an existing row.
* `LedgerCorrect` - `[]LedgerReconciles`. The invariant adds `NoRowNoStock`: a
  location without a row has no stock and no unexplained movement, which is what
  lets a first write create the row.
* `StatusCorrect` - `[]PostedWithStatus`; each commit writes both sides.
* `OnceCorrect` - `[]OncePosted`. The invariant `SerialInv` says of every document
  that was never overlapped: at most one request handles it, and what that
  request has read is still true, so its commit is the first.
* `AdvanceCorrect` - `TransfersAdvance`, an action property, from the same invariant.
* `ArrivalsCorrect` - `[]ArrivalsAcknowledged`. `ArrivalInv`: the acknowledgements of a
  transfer keep pace with its postings, since the destination of a row never changes and a
  receive's branch depends on it alone.

`SignageCommandsProofs`
* `TypeCorrect`, `DoneCorrect`, `ShellCorrect`, `DeliveryRefined`. The common
  invariant `DeliveryInv` relates the table to its traces in flight: commands are
  queued in order (`Rows`); whatever is listed by a poll, held by an agent or
  reported was queued, for that device (`Traces`); a poll or batch that lists a
  command lists, or has started, everything queued before it for that device
  (`Lists`); a final status or a report in flight implies that the command was
  started, and for DONE that what DONE means of its kind is so (`Outcomes`). `DeliveryRefined` maps each
  step to a step of `CommandDelivery` or to a stutter.

`SignagePlayerProofs`
* `TypeCorrect`, `AppliedCorrect` (`[]AppliedStays`) and `PlayingCorrect`
  (`UnchangedKeepsPlaying`, an action property). `PlayerInv` follows the several memories of
  "what is playing" through a tick: what mpv was started with is what the player remembers
  (`Remembered`); a tick only ensures files in the version that its config asks for
  (`Ensuring`); and once a config was applied, disk, player and agent agree with it until it
  changes, also in the middle of a tick that goes through its files again (`AppliedKept`).
  The last is why a poll that brings nothing new finds nothing to do.

`TicketsProofs`
* `TypeCorrect` - `[]TypeOK`. `TypeInv` adds that no clock runs ahead of time, that
  whatever is in progress names an existing ticket, and that a ticket that does not
  exist has not waited; the pure lemmas before it (`EditedStatus`, `EditedClock`,
  `EditedPrio`, `EditedType`) say what an edit writes, field by field.
* `BreachCorrect` - `[]BreachWasLate`, with no exemption. `BreachInv` follows the
  lateness through the sweep: an open overdue ticket, an id the sweep holds and a
  flagged ticket have all been late, so writing by a stale id is harmless.
* `MovesCorrect` - `LegalMoves`, an action property. `SerialInv` says of every
  ticket neither overlapped nor merged: what its one request has read is still so,
  and the auto-close only holds it while it is RESOLVED. Without it the update would
  check one status and overwrite another.
* `PauseCorrect` - `[]WaitingIsFree`. `PauseInv` splits it into the account of a row
  (`Clocked`, `OnTime`); `EditedClocked` and `EditedOnTime` show that an edit computed
  from an unchanged row keeps it, `SameAccount` that the other steps do.
* `RecordsCorrect` - `RecordsStand`, an action property: no edit clears a breach that a sweep
  recorded between its read and its write, and of a ticket handled by one request at a time
  the paused time never falls and the deadline only comes forward with another priority. An
  update adds to what it has *read*; that this is still so is `SerialInv` again.

`AssetRegisterProofs`
* `RequestsStayLinked` - types, and that every request in progress works on rows that
  exist and a document of its own kind that is about its asset. Without it a commit
  could give its status to another asset than the one it checked.
* `LocationIsTraced` - `[]LocationTraced`; each action either writes place and history
  together, leaves its row to `WriteTrail`, or puts the asset into `untraced`.
* `StatusIsDocumented` - `[]StatusHasDocument`. The invariant needs a document behind a
  status only for assets outside `retyped`, and what a request holds in its hands for
  the rest: a dispatch names a transfer of that asset, a transition a repair of it.

`WebCacheProofs`
* `OwnWriteIsShown` - for any set of pairs for which `Accounted` holds (each told,
  polled or listed): `[]OwnWriteShown`. The invariant `Renewed` says that after an
  `onSuccess` that named the key and left no old answer on its way, none is on its
  way, none is fresh, and none is at rest on display unless a fetch failed. It speaks
  of the cache alone, so it holds for screens yet to be written; that today's screens
  are accounted for is what the run `BackOffice` shows.

`BackOfficeProofs`, about `BackSpec`. A step of the composition is, for each component, one
of its steps or leaves its tables alone (`Steps`); so each theorem is about one component,
among the others.
* `ScheduledCorrect`. `PlanInv`: a schedule that may still be opened today has at most as many
  tickets of today as saves of it were cut short, the one being saved may have one more, and
  no schedule has a ticket of a day to come.
* `OrdersCorrect`. `BuyInv`: a transition to FINANCE_APPROVED under way was preceded by the
  approval of IT, a mark still to be written is of a request that has its order, and nobody is
  about to overwrite an ORDERED request that is not in `crossed`.
* `PadsCorrect`. `PadInv`: whatever the sweep holds has been silent for the period, and a pad
  sent away is RETURNED and in no stale hands, unless it was raced.
* `SubnetsCorrect`. `PoolInv`: no configuration is beyond the pool's last octet, unless its
  octet was chosen by hand or a request wrote from a pool that had changed (`stale`); a request
  in progress holds the octet after the last it read. That the next octet is new follows.
* `KeysCorrect`, `TokensCorrect`. `KeyInv`: a key belongs to the PC it was bound to, a minted
  key to nobody; enrolments of one PC do not overlap unless it is in `disturbed`; and each step
  of a rekeying has left exactly the keys in force that the next step expects. `TokenInv`
  counts: the enrolments under way with a token are not yet taken off its uses, so what is left
  is at least their number, less all slots but one; an argument about cardinalities, for any
  number of requests.
* `LocationsCorrect`. `ShopInv`: two stores have not the same location, an edit that is alone is of a
  store that exists, and its location carries the old code until it is written, then the new.
* `AuditsCorrect`. `AuditInv`: a scan in progress is of an audit that exists, and the line it
  has found is still there when it is written.
* `AdvancesCorrect`, `StockCorrect`. `TonerInv`, `StockInv`: of the dispatches that have
  written and not committed no two are of one line, for its row is locked (`LinesHeld`); what
  each has read of it is still so unless `twice` (`SeenStill`), so the commit books exactly the
  difference, and the stock is what was bought less what is sent (`Booked`).
* `ValuesCorrect`. `ValuesInv`: an asset that a run has read and not written still has the
  cost it read, or is decommissioned (`RunsSoFar`). Catalogue costs could break that, but they
  only reach assets that cost nothing or are worth nothing; a run only reads assets that cost
  something, and these are worth a tenth of it at least unless they are decommissioned. So the
  residual hangs on what a run has read being still the cost, and that on the residual. A status
  written over a disposal takes nothing from the argument: the Decommission row stays.
* `DeadlinesCorrect`. No invariant over states is needed beyond the types: the argument is an
  invariant of the loop. `Progress` says how far a walk is after `i` turns: the opening time up
  to the cursor is what was taken off; until nothing remains, the cursor of every turn but the
  first is at an opening, so each takes a whole day off, the day is among those that
  `NeverShut` speaks of, and what remains fits into the turns left (this is where `InReach`
  goes in); when nothing remains, the moment before the cursor is one of opening time.
  `TurnKeeps` has a lemma for each way a turn may end (`TurnJumps`, `TurnTakesDay`, `TurnFits`),
  and `ShutBetween` says that nothing is open between a closing and the opening the search
  finds. The recursive function exists (`WalkExists`) and keeps `Progress` (`WalkKeeps`) since
  there is no first turn at which it would not.
* `DeadlinesOrdered`. `DeadlinesInOrder`: more business time, or a later start, is never due
  earlier. A deadline that came before the other would span less opening time than it was
  given, by what `DeadlineIs` says of both walks and the lemmas on `Served`.
* `WritesShownCorrect`. The argument of `WebCacheProofs` beside the rest of the back office.
  Its hypothesis, `Web!Accounted`, is about the screens of today and no variable; the run
  decides it, since a pair that is not accounted for breaks `OwnWriteShown` in a few steps.
* `AllTypedCorrect`. The types of all twelve components, from the invariants above.

`StockCorrect` and `ValuesCorrect` are about sums over tables (`MapThenSumSet`). The library's
fold takes the elements in an order of its choosing. The lemmas on sums (`SumExists`,
`SumPlus`, `SumOne`) show that a sum over a finite set is what it should be in any order, and
what a change of one row does to it; they argue by a smallest set that fails, which needs no
induction theorem with an operator as a parameter.

`ServicesProofs`, about `ServicesSpec`
* `MailsCorrect`. `MailInv`: a poll works through mails of the mailbox, each once
  (`PollRuns`); a mail that is gone was made, a mail that was made has its event unless it is
  between the two (`MailsMade`), and was not made more often than failures and mails left on
  the server account for (`MadeBounded`).
* `VariantsCorrect`. `CodingInv`: a video that was not queued across a process has at most one
  process, whose record says how far its rows are (`AtWork`).
* `RunningCorrect`. `RunningHasProcess`: a video is RUNNING only while a process works on it or
  after one that did stopped, the safety side of `QueueDrains`. It is inductive beside
  `CodingInv`, which says that two processes at one video have crossed.
* `PurgeCorrect`. `PurgedLeaveNothing`, the safety side of `ExpiredRunsGo`: of a run whose row
  was purged no archive is left, unless the object store refused. `PurgeInv`: what the purge
  holds is old, an old run is not uploaded again, and the archive of a run is gone or refused
  when its row is up for deletion.
* `ServicesTyped`. Types, and that a row's open alerts and those about to be raised are no more
  than the scanners (`AlertsInv`).

Only model-checked:
* the liveness properties (`EveryCommandAnswered`, `SettledIsShown`, `OverdueIsFlagged`,
  `ResolvedIsClosed`, `EveryMailHandled`, `ExpiredRunsGo`, `AlertRaised`, `QueueDrains`):
  fairness and ENABLED are outside the prover's reach;
* `Web!Accounted`, the hypothesis about today's screens.

The type invariants of `Logistics`, `SignageCommands`, `SignagePlayer` and `Tickets` are
proved and not run again. So are `RecordsStand`, `DeadlinesInOrder`, `PurgedLeaveNothing` and
`RunningHasProcess`: they hold on the instances of `TicketsClock`, `BackOffice` and `Services`
and follow there from the theorems, so no run repeats them.

## Findings

1. `LogisticsIbtTwice` - two overlapping receives of one transfer both pass "Not
   in transit" (`ibt.service.ts:124`) and both move the stock.
2. `SignageCommandsTwice` - "Mark as SENT so the executor doesn't double-run them
   if a poll races" (`signage.service.ts:345`): SENT commands are selected again,
   so a lost report makes the device run the command twice.
3. `SignagePlayerDark` - "No-op if that's already what's playing and mpv is alive"
   (`player.py:64-65`): after a blank period mpv idles on deleted files, and the
   returning playlist is taken for playing. The screen stays dark until mpv or
   the agent dies or the playlist changes.
4. `TicketsPaused` - "techs aren't penalised for user delays"
   (`schema.prisma:866-867`): a ticket that waits for its user is flagged as
   breached, because its deadline is only pushed when the pause ends.

## Observations made while modelling

Not findings of a run, but what the code does, and why some properties name an
exception.

*Logistics and assets.* A disposed asset that a move, an assignment, a repair or a transfer
puts back in use is worth 0 (`assets.service.ts:139`, `158`, `repairs.service.ts:101`,
`ibt.service.ts:131`); the next depreciation run writes the value its age gives it, and so
posts a negative amount, and a catalogue cost reaches it before or after. Overlapping confirms of a voucher book its goods twice, like
receives. An approval that is written after the dispatch lets a transfer be
dispatched again. A REPLACED repair leaves its asset in REPAIR
(`repairs.service.ts:98-110`). `stores.transferAssets` (`stores.service.ts:182-230`)
fails whenever there is an asset to transfer. An enrolment links its PC to an asset by
host name only (`agents.service.ts:174-178`). A second scan of an unrecorded asset
resets its variance, which the comment at `audits.service.ts:82-86` does not expect,
and scans are accepted after completion.

*Helpdesk.* A priority change drops the accumulated pause from the deadline
(`tickets.service.ts:505-510`); a merge leaves the pause running
(`helpdesk-v3.service.ts:145`); an approval does not gate any status
(`schema.prisma:874-875` says it does); `slaBurnDown` reads `SlaPause` rows that
nothing writes; `pickRoundRobin` (`helpdesk-v3.service.ts:309-332`) is never called.
`nextCronRun` ignores the day fields, so weekly schedules fire daily, and a malformed
expression fires every hour; scheduled reports run daily whatever their expression
(`exports.service.ts:584-594`). With `HELPDESK_POP3_DELETE_AFTER=false` no mail after
the first 25 is ever read; a mail is deleted when the category it needs is not there
(`email-ingest.service.ts:156`); a reporter's reply counts as the technician's first
response. Holidays marked `recurring` are not repeated and `timezone` is never used
(hours are the server's UTC); a stretch of 30 closed days sends a deadline a year
ahead, and 730 days end the walk. Webhooks are delivered once.

*Toner and procurement.* Two overlapping dispatches that complete an order leave it
DRAFT; two orders for one month are possible (`toner-orders.service.ts:60`); a
RECEIVED order is only reached by a dispatch, since `receiveLine` does not advance it
(138-147). `po.service.ts:29-53` does not ask for the request's status, and order and
mark are not atomic.

*PCs and routers.* A deleted PC's key stays valid. `requireKey` rejects the
AGENT-scoped keys at the backup endpoints; completing or failing a run asks for no
status; runs of head office PCs are never purged, and archives of a removed PC stay.
The comment "Allocate atomically" at `mikrotik.service.ts:158` is not true, and the
guard at 160 can never fire. `rmm.gateway.ts:113-131` looks for database models that
do not exist, so no RMM agent can connect. A PIN pad that was set UNKNOWN "for review"
(`pinpads.service.ts:4-15`) is overwritten by the next daily detection, and UNKNOWN
pads are never swept.

*Alerts and dashboards.* A head office PC that missed its backup ends the scan, and the
digest with it, at `alerts.service.ts:80`, where `pc.store` is null. The agent
check-in widget guesses model names that do not exist and always shows 0; the
low-stock widget reads a `StockLevel` model there is none of.

*Signage.* SYNC_PLAY_AT and ROTATE_SCREEN are DONE without the device having acted; a restart
of the agent ends a SYNC worker that waits. The kinds UPLOAD_LOGS, TEST_PATTERN, TEST_AUDIO and PLAY_NOW are answered
"unknown kind" (`executor.py:109-112`), although the comment at 317-319 expects another
path to run them. A crash leaves a video RUNNING for ever; a request to transcode again
while it runs can delete rows of qualities already made, so that it ends DONE without
them; `schema.prisma:2049` says sha256, the code uses md5.

*Web client.* The pairs of `WebCache!LeftStale`: completing an audit leaves its Missing
tile as it was (`AuditDetail.tsx:45`), licences leave the Software tiles, dispatching or
receiving a transfer and moving on a repair leave the assets in the pickers of the same
page, deleting a store leaves it in the cached list, deleting a playlist its
assignments, saving a pool the previewed subnet, and so on; each until the answer is
30 seconds old and the screen is opened anew. Some keys
(`users`, `stores`, `regions`, `area-managers`, `store-templates`, `update-status`) are
shared by queries of which one swallows its errors: the empty list it answers is cached,
fresh, for the others. `EditStoreModal` asks for `/admin/templates`, which is no route of
the API, and so offers no template. `EmailIngestPanel.poll` invalidates a query that its
operation does not change.

## Not modelled, and why

Every part is in `PROJECT.json` with what is left out of it. Not modelled at all:

* **RMM** - no socket is ever accepted (see above), so there is no behaviour.
* **Incidents** - rows written one after the other that nothing reads to decide anything.
* **Remote access, DVRs, price lookup, PDF and spreadsheet rendering, mail, object store,
  updates, deployment scripts** - I/O and wrappers; the modules assume what the services
  rely on (read-committed statements, row locks, unique indexes).
* **The mobile client** - it has no cache and calls the same operations, in any order.

Left out of modelled parts, because they decide nothing the properties are about: forms
and layout of the web client, its login session; comments, attachments, watchers,
approvals, articles; the choice of a ticket's assignee (rules looked up one after the
other, the database picks among equals); the resolution of signage assignments and
schedules (an arbitrary set of videos here); the software, monitors and devices that
inventories replace; what reports and widgets compute; the opening hours another process
has still cached; `businessMsBetween` and `isOpen`, which nothing calls.

## Plan

Done: the core (logistics, signage, tickets), the rest of the back office, the
services, the web client's cache, and proofs of every safety property that the runs
check and of four that no run repeats. What would add most next:

1. Proofs: of `PurgedLeaveNothing` and `RunningHasProcess` the counterparts for the other
   liveness properties (a command listed stays listed until it is answered, a mail stays
   until it is made) as action properties.
2. The resolution of signage assignments (device before store before region, each by
   brand) against a reference definition, and an edit between its queries.
3. Two operations of two users on one cached list in `WebCache`.
