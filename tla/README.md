# Verification of BGreda

BGreda is the back office of a ceramics workshop: a FastAPI application over
PostgreSQL that numbers documents, keeps a stock ledger, quotes, produces, fires
and delivers. This directory holds TLA+ models of the part of it that must stay
right while many requests run at once, the TLC configurations that check them on
small instances, and TLAPS proofs for instances of any size. Paths are relative
to `src/app/` unless they begin with `src/`.

```
tlc -config Orders_live.cfg MC_ProductionOrders.tla   # any run, see "Runs"
tlapm QuoterV2Lifecycle_proofs.tla                    # any module of proofs
```

## Inventory

Every request is one READ COMMITTED transaction: `get_db_session`
(`db/session.py`) opens a session, the handler takes locks one statement at a
time (advisory locks for idempotency keys, `SELECT ... FOR UPDATE` for rows),
reads, writes, and commits; an exception, a lost client or a dead process rolls
everything back. Components meet only in the database and in calls inside one
transaction. There is no queue and no background worker, so the hard behaviours
are: interleavings of transactions between two locks, reads made before a lock
and used after it, retries with and without idempotency keys, circles of locks,
roll backs in the middle of a job, foreign keys that wait or cascade, the clock
that goes on while a request works, and midnight.

| component | state | operations | what makes it correct |
|---|---|---|---|
| Document numbering, `services/sequences.py` | one row per series, the register of issued numbers | `issue` (inside the transaction of the document), `PUT /settings/sequences`, `synchronize` (at the end of an import of products) | no number twice, no gap but the ones an import jumps, no rewind by a format or an import |
| Stock ledger, `services/inventory.py` | aggregate balances, lot balances, movements | `apply_movement`, `adjust`, `deliver`; called by preparations, orders, samples, import | balance = opening + movements; lots add up to the aggregate; `balance_after` is a chain; a job is whole or absent |
| Preparations, `services/preparations.py` | preparations, their lots | `prepare` | all ingredients or none; ordered locks |
| Production orders, `services/production.py` | orders, lines, consumptions, notes, notices, results | create (V2, legacy, sample), start, record, complete, cancel | one order per quotation, one entry per key, nothing spent by a cancelled order, all pieces of a closed one accounted for |
| Samples, `services/prototypes.py` | samples, their material, their decision, the line they follow | create, update, start, complete, cancel, approve, reject, successor; the order of the sample does part of the same | material leaves once, pieces come in once, sample and order agree, a line has one end |
| Quoter V2 lifecycle, `services/quoter_v2_lifecycle.py`, `quoter_v2_confirm.py` | headers, frozen documents, handoffs | draft, edit, preview, confirm, cancel, send to production, duplicate | what is issued was shown, and stays; produced once and in date; one successor |
| Quoter V2 content, `services/quoter_v2_{lines,processes,labor,wholesale,materials,firing,extras,pricing}.py` | pieces, processes, tasks, frozen rates, totals | every edit of a draft; each ends by computing the price again | the price is that of the content; work follows the pieces; what somebody decided stays |
| Legacy quotations, `services/quotation_builder.py`, `services/quotations.py` | quotations, charges, raised prices | draft, edit, charge, confirm, pay, cancel, duplicate, raise the price of the product | amounts are of one moment and of all charges; what the builder issues was seen; what is issued stands; the trail of a raise is right |
| Quotations of samples, `services/prototype_quotations.py`, `prototype_quotation.py` | quotations, payment, final quotations | draft, edit, confirm, cancel, pay (creates product, sample and order), quote the product | paid once, shown as issued, quoted from an approved sample |
| Kiln batches, `services/kiln_batches.py` | batches, planned pieces, volume counters, operations | create, edit, assign, move, release, light, finish, call off | counters add up, no piece planned twice, nothing raw in the high fire, what is lit stays |
| Kiln layout, `services/kiln_batch_layout.py` | the map of a batch | save, suggest | the map places what the batch holds |
| Firing quotations, `services/firing_quotation_v2.py` | quotations | as Quoter V2 | as Quoter V2 |
| Settings and logo, `services/settings.py`, `services/storage.py` | two rows with a version, a bucket | update, upload, delete | a stale form is refused, but for saves that overlap; the file of the row exists |
| Masters, import, `services/masters.py`, `services/importing` | products, codes | create, archive, import | codes unique, no circle of locks |
| Recipes, `services/recipes.py` | versions | new version | a used version does not change |
| Quoter arithmetic, packing of a kiln, PDF, audit, identity | none that decides | pure computation, output, external calls | not concurrent |

`PROJECT.json` lists every component with its status, and the hazards with the
line where each bites.

## Modules

| module | models | built on |
|---|---|---|
| `DocumentSequences` | one series: issuing, configuring, imports, the calendar | - |
| `StockLedger` | balances, lots and movements under the transactions of all callers | - |
| `ProductionRules` | rows of an order, and the rules its handlers consult | - |
| `OrderBook` | abstract: the orders changed one atomic step at a time | `ProductionRules` |
| `ProductionOrders` | the real requests: locks, reads, retries, commits; implements `OrderBook` | `ProductionRules`, `OrderBook` |
| `SampleProduction` | one sample made through its order and made directly | - |
| `QuoterV2Draft` | the content of drafts: one step per handler, two quotations | - |
| `OfferBook` | abstract: what the workshop promises of an offer | - |
| `QuoterV2Lifecycle` | headers, documents, clock and masters under real requests; implements `OfferBook` | `OfferBook` |
| `KilnBatches` | planning pieces of several orders into batches, and their fires | - |
| `SampleQuotations` | quotations and payments of samples, lines of samples, the gates behind them | - |
| `CompanySettings` | two rows with versions, forms that overlap, the logo in row and bucket | - |
| `LegacyQuotations` | quotations of the builder and classic ones, beside the settings and the product they are priced with | `CompanySettings` |
| `X_proofs` | the theorems about `X`: all but the abstract books and `ProductionRules`; those of `CompanySettings` are in `LegacyQuotations_proofs`, those of `StockLedger` and `KilnBatches` in `StockAndKilns_proofs` | `X`, TLAPS |
| `MC_X` | the small instances of `X` | `X` |

In all of them a request has a program counter (`pc`), one action is one
statement that can wait or one stretch of code between two waits, and the commit
is the action that changes the shared rows and frees the locks (`End`,
`Released`, `LetGo`, `Commit`, `Unlocked`). Writes before the commit live in the request
(`pending`, `number`), since READ COMMITTED hides them from the others. A handler
that does everything under the one lock it takes first is one action. The
`RollBack` action of each (in `KilnBatches`, `Forsake`) stands for every other error, for a lost client and
for a crash. An operator named `X_Slip` is `X` with a plausible mistake in it. No
action uses one: substituted for `X`, each makes TLC refute a property, which
shows that the property depends on the code.

**DocumentSequences.** `TakeDate`, `ReadRow`, `UpdateRow`, `CommitIssue` are the
statements of `SequenceService.issue` in order; `UpdateRow` waits for the row
lock and computes from the row committed by then. `ReadConfig` and `WriteConfig`
are the handler of `PUT /settings/sequences/{type}`, which reads without a lock
and writes only the columns that changed. `Synchronize` and `CommitImport` are
`SequenceService.synchronize` in the transaction of an import: the counter jumps to
the highest code of the file, in the period where the row is, and the register gets
no row; `jumped` remembers the numbers passed over. `cast` is the set of those who
take part in a behaviour. `Tick` is midnight in UTC. A period
key is a record of unit and index instead of a string. A pattern is the finest
date marker it contains.

**StockLedger.** A transaction runs a script of `check` (lock a balance, notice a
shortage), `number` (the correlative of a preparation) and `move`
(`apply_movement`), which `PrepareScript`, `StartScript` and `MoveScript` build
the way each caller does, in the order each caller does. `ApplyMovement` is the
whole of `apply_movement`: upsert, row lock, checks, lot balance, agreement of
lots and aggregate, movement with `balance_after`. Lots are kept for prepared
materials only (`Prepared`, `OfLot`), as in `_apply_prepared_lot_delta`; the
movements of a job are placed in the order of their products, and those of one
product in the order they came (`InProductOrder`, a stable sort). `nextId` grows when a movement
is flushed and `at` is `now()`, which in PostgreSQL is the start of the
transaction. Quantities are small integers instead of Decimal.

**ProductionRules, OrderBook, ProductionOrders.** `Arrive` gives a request one of the
calls it may make (`may`). A creation goes `LockKey`, `LookUpOrderKey`, `LockQuote`, `LookUpOrder`,
`InsertOrder` (a request without a key starts at the quotation). A record goes
`LockKey`, `LookUpEntryKey`, `LockOrder`, `RecordEntry`. Start, complete and
cancel begin with `LockOrder` and go on with `StartV2`, or `LockPayment` and
`StartLegacy`, or `CheckClose` and `CommitComplete` or `CommitCancel`. `lock`
holds advisory and row locks alike. `entries` are consumptions, workshop notes
and notices, `exits` the movements out of the stock, `results` the lines of a
completion. `OrderBook` has the same rows and no requests, keys in flight or
locks.

**SampleProduction.** The two services that can make the same sample. `birth` is
where the sample comes from (its own quotation, a product quotation, none),
`usage` what each client of a behaviour may ask of the two services,
`order` the status of its order, `spent` and `made` the requests that took the
material and brought in the pieces. A foreign key to the sample takes a share
lock on it, which waits for its `FOR UPDATE`: that is the `Free("sample")` of
`SpendForOrder`, `CompleteOrder` and `InsertOrder`. A decision takes the sample
and looks at it in `CheckDecidable`, and is written in `Decide`.

**QuoterV2Draft.** Every handler of the content takes the header of its quotation
first (`quoter_v2_locks.py`), so each is one action: pieces (`AddLine`,
`UpdateLine`, `DeleteLine`), processes (`AddProcess`, `SetQuantity`,
`RemoveProcess`), people (`AssignWorker`, `LoadWorker`, `AddLabor`,
`UpdateLabor`, `ApplyDefaults`...), decisions that are priced (`SetPlanning`,
`SetIllustration`, `EditExtras`), and `Confirm`. `WithDefault`, `Generated`,
`Follows` and `Synced` are the passes over processes and tasks that a handler
makes before it ends. `Basis` is all that the totals are computed from; `priced`
is the basis they were last computed from, instead of an amount, so that a
handler that forgot to recompute would be seen whatever the numbers.
`UpdateWorker` and `SetProductTechniques` change the masters between two edits.

**OfferBook, QuoterV2Lifecycle.** A request takes up a quotation by locking its
header and goes on in steps of its own where something is not behind that lock:
a confirmation with `Compare` and `Issue`, the bridge with `ReadClock` and
`SendToProduction`, a duplicate with `ReadView` and `Duplicate`. `CreateDraft`,
`Edit`, `Preview` and `Cancel` are one action each. `EditMaster` and `Tick` are
the masters and the clock, `Abort` the roll back. `master` is the state of customer and policy as
a counter: two documents are equal when their fingerprints would be. `shown` is
the document some client got from a preview. `handoff` keeps with the bridge to
production the instant that its check read (`db_now`, under the lock of the header),
which no column does: `created_at` of the bridge is the start of its transaction.
`KeepsTheBook` maps headers, documents and handoffs to an `OfferBook`.

**KilnBatches.** A planning request takes its key, then the order or load, then
the batches (a move has two) in order of id; lighting and calling off take the batch
and then its orders. What may come with a key (`Keyed`) takes its advisory lock and
looks it up in one step (`LockKey`, `Recall`) and records it in its last (`Record`);
in between the row lock is taken (`LockMap` and then `SaveLayout` for a map), and
UNIQUE refuses a key that somebody recorded meanwhile (`Clash`). `Take` is one of these
statements. `filled` is the counter a trigger of the database keeps from the
planned pieces, `plan` the pieces themselves. `Openings` are plans a behaviour
begins with, so that the fires are reached within the bounds. The locks are
`held`, a commit or a roll back lets go of them (`LetGo`), and `BreakCircle` is the
deadlock detector: the names differ from those of the other models because
`StockAndKilns_proofs` extends this one and `StockLedger`. What makes the rows right
is stated of any rows (`CounterIsVolume(B, P)` and the others), because it is asked
of the openings, proved of each change of the rows, and checked of the state.

**SampleQuotations.** Payment (`LockToPay`, `Pay`), successors (`LockPrevious`,
`InsertSuccessor`), final quotations (`LockToQuote`, `Quote`), edits (`Edit`,
with or without the token of what the screen showed) and the start of an order of
a product quotation (`LockToStart`, `ReadRoots`, `Walk`, `Start`) are requests of
several steps; the rest are single actions. A sample names its payment, its
product quotation and the sample it follows; `Effective` is the end of a line. An
INSERT or a move that refers to a quotation waits while somebody holds it `FOR
UPDATE` (`Reachable`): nothing in the code says so, PostgreSQL does it for the
foreign key, and the gate of the orders depends on it.

**CompanySettings.** A request about the settings reads the row (`BeginSave`,
`BeginUpload`, `BeginDelete`), and commits what differs from what it read, with
the version it read plus one (`Merged`, `CommitSave`, `CommitLogo`); no row is
locked, so others come in between. `form` is what an administrator has on the
screen. `DropOld` deletes the old file after the commit, and `Fail` may come at
any place. `past` remembers every content a row was committed with; a save
`Overwrites` when it replaces a value that its form never showed, and two contents
of one version are `Twin`s, what an overlap leaves behind.

**LegacyQuotations.** `Begin...` locks the row of the quotation and reads the
first of the two sources of its price, `Settings` for the builder and the product
for a classic quotation; the second read is one step with the commit (`Create`,
`Reprice`, `Confirm`, `Edit`, `Issue`). Amounts are a `Basis`, all that they are
computed from. `Fingerprint` is the part of it that `source_fingerprint` covers.
`screen` is the quotation somebody looks at: `IsFresh` compares its `updated_at`,
and a classic quotation its fingerprint. A raise of the price of the product
locks quotation and product (`LockProduct`, `RaisePrice`). `EditProduct` are the
masters.

## Runs

The passing runs take from some seconds to two minutes. Deadlock is not checked:
when every request has ended there is nothing left to do, and that is not an
error; that nobody waits for ever is what the liveness properties and
`ChecksNeverCircle` say instead.

| run | instance | what it shows |
|---|---|---|
| `Seq_numbers` | 3 requests with an administrator or with an import, or a request with an administrator and 2 imports; files that end at 1 or 3, 2 days that are 2 years, policies YEARLY and NEVER | no number is missing that an import did not jump, whatever rolls back; no number or text twice; neither a change of format nor an import takes the counter back, and nobody prints the old format; every request ends |
| `Ledger_mix` | a start, a preparation, an import and a consumption on two shared materials, too little for all | conservation, lots and aggregate, the chain of `balance_after` by id, jobs whole or absent; the ordered checks never wait in a circle; every transaction ends, although other circles are possible: the detector cancels one |
| `Orders_live` | a V2 and a legacy quotation without an order, a V2 one with an open order, one key; 3 requests that create, start, record, complete and cancel, or 4 at the open order: consumptions, a firing note, start, cancel, two different completions | no creation dies of a constraint; a V2 creation answers its own order; material leaves once; nothing is spent by a cancelled order; a key records once; a closed order is accounted for; retries are recognised; every commit is a step of `OrderBook`; every request ends |
| `Samples_ways` | 3 requests, through the order, directly or both, every origin; or 4: a start, a completion and two decisions, either way | made one way: material once, pieces once, sample and order agree; a direct start is paid for; of an approval and a rejection at once, one is refused; every request ends, the victims of circles included |
| `Samples_twice` | both ways together | finding: material twice |
| `Draft_work` | 2 quotations, 2 pieces of up to 2, 2 techniques, a worker of the house and a hired one, one loose task, 4 edits | the price is that of the content; tasks and quantities follow the pieces, and a removed process keeps no work; an issued quotation stays; rates, choices and removals that somebody decided stay |
| `Draft_foreign` | the same, and a task may name a piece of another quotation | finding: an issued quotation loses a task |
| `Lifecycle_offers` | 3 quotations, 2 requests at a time, 1 edit, 1 change of masters, 3 instants, validity 1 | what is issued was shown to somebody; what is produced stands, went within its term, by the clock under its lock, and has no successor; one open successor; every step is one of `OfferBook` |
| `Kilns_plan` | 3 sources (an order of two cups, one that pays for a kiln of its own, an internal load), 3 batches of 2, 3 openings, 2 requests | counters and pieces add up; nothing raw in the high fire; an exclusive order is alone; what is lit stays lit with its pieces and its map; every request ends |
| `Legacy_offers` | 2 administrators, 2 rows of settings with a field of 2 values and one of 3, the logo, 1 quotation of the builder, 2 classic ones of 2 products or none, 1 charge; 5 requests | amounts are of one moment and of all charges; what the builder issued is what the screen of who confirmed it said; what is issued stands but for its payment and cancellation; a raise records the price it replaces; the logo in the row exists; a save replaces what its form never showed only where it overlapped another, or where an overlap left twins |
| `Settings_overlap` | the settings of `Legacy_offers` alone | finding: a save is lost without a 409 |
| `Quotes_gate` | 1 quotation, 2 product quotations, 3 samples, 2 requests, 5 usages | a payment has one product, one original with its order, and one line; what was issued is shown as issued; orders start and products are quoted on approved samples in force |

**Bounds.** A violation of a property of these systems needs two transactions
that conflict and perhaps a third that sees the result; the runs have two to four
requests. Two quotations, and orders with the one key or without, let a creation
repeat the key of its own order or of another, and two lines let a completion
forget one. Two days are enough for a request to be on the
wrong side of midnight, three instants for an offer to be in date, then not, and
for a request to take time in between. Four edits of drafts are one more than any
slip we tried needs to show (add, choose, change, confirm). Three samples are a
line and a sample beside it. A request ends after one operation; the bounds of
what would grow are `MaxDay`, `MaxEdits`, `MaxContent`, `MaxMaster`, `MaxTime` and
`MaxSamples`. `MaxCharge` bounds the charges of a quotation, and `Budgets` the
requests about the settings, and about quotations and products, reads included:
5 and none, 2 and 3, or none and 5. A save that is lost takes two reads and two
saves, one that is lost by twins a third save, and a third value of a field to
tell the two first saves apart (`Choices`). Symmetry permutes only what the specifications do not tell apart,
and only in runs without liveness properties.

**Usages and openings.** `Orders_live`, `Samples_ways` and `Quotes_gate` draw in
`Init` which operations each client of a behaviour uses, `Seq_numbers` which
transactions it has (`Casts`). A set that is drawn includes all the
operations that touch the same rows for the property at hand; what it leaves out
is the product of unrelated ones. `Kilns_plan` draws the plan a behaviour begins
with, and `Legacy_offers` the drafts there are already; each is a state the code
can reach.

**Fairness.** `LiveSpec` (of kilns, `KilnLiveSpec`) asks for weak fairness of the steps of a request that has
arrived: asyncio schedules every coroutine, and PostgreSQL wakes a waiter when the
lock is free. With finitely many requests, each of which takes a lock once, weak
fairness suffices for the waiters. Where circles are possible (`StockLedger`,
`SampleProduction`, `KilnBatches`) it also asks that the deadlock detector of
PostgreSQL acts. Nothing is asked of `Arrive`, `Begin`, `Pay`, `Tick`,
`RollBack` or `Forsake`.

## Findings

Each has a run that ends in a counterexample, and a quotation of what the code or
a comment says, in `PROJECT.json`.

1. `Samples_twice`: a sample started directly and through its order spends its
   material twice: the start of the order does not look at the status of the
   sample (`services/production.py:1512`).
2. `Draft_foreign`: the piece that a task names is not looked up in its quotation
   (`services/quoter_v2_labor.py:741`). Deleting the piece where it belongs
   deletes the task by the foreign key, also when its quotation was issued.
3. `Settings_overlap`: two saves of one form that overlap both pass
   `_check_version`, and the later commit replaces what the other wrote, although
   the module promises a 409 "en vez de pisar en silencio el trabajo ajeno"
   (`services/settings.py:5-8`, `models/settings.py:76-78`). Both write the same
   version, so a form read between the two commits is accepted afterwards although
   it shows older values. `VersionProtects` says that nothing else is lost.

## What else was seen

Behaviours met while modelling that no run shows: most of them no line of the
repository contradicts outright, or no property here is about.

- New Year: the date is read before the wait for the row
  (`services/sequences.py:135`). A request of the old year that comes to the row
  after the first of the new year takes it back to the old year and restarts it at
  1, a number that was already handed out, although a comment promises distinct
  values "por construccion" (`services/sequences.py:143-144`). UNIQUE fails that
  document, which is why `RegisterSound` holds, and its roll back leaves the row as
  it was. If the old year had no document yet, the 1 is free and commits, and then it
  is every later request of the new year that computes a 1 again and fails.
- Numbering: after an import jumped in a series that restarts, the row may come
  back to that period over New Year and begin at 1 again: the numbers below the
  jump are free in the register, although products have those codes, and the one
  above it makes every later request fail, as at New Year. That is why
  `Contiguous` compares register and counter only where no import jumped.
- Settings: two uploads that overlap, or one that dies before its commit, leave a
  file that no row names.
- Legacy quotations: the confirmation of a classic quotation asks for no token and
  prices it anew, so it may issue what nobody saw, unless the sources moved; a
  cancellation looks neither at the payment nor at a live production order.
- Ledger: a preparation locks the balance of its product after those of the
  ingredients, outside the stable order (`services/preparations.py:612`); the
  post-0045 audit orders movements by `created_at`, the start of their
  transaction, while `balance_after` follows the locks.
- Orders: the legacy `create` does not compare the origin of the order its key
  finds, `create_for_v2_quotation` does (`services/production.py:624`).
- Samples: the status of a sample is read without a lock before its order is
  created, so a finished one can be made again (`services/production.py:948`); an
  unpaid sample of a product quotation starts through its order while its direct
  start is refused.
- Offers: `created_at` of the bridge to production is `now()` of the database, so a
  bridge whose request waited for a confirmation is dated before the issue, which
  `db_now` avoids for the issue itself (`services/quoter_v2_lifecycle.py:312`).
- Content: a task that `PUT labor` moves to another technique stays linked to its
  process; clearing the agreed hours keeps the old quantity; a loose task and a
  process added later for the same work are both paid; a process removed by hand
  keeps the same technique of a new product out of the piece; a worker may be read
  twice in one transaction, with two rates; a `PUT` of the firing with a null
  `customer_kind` drops the agreed rates.
- Kilns: the order of locks is to be "Siempre el mismo, para que dos operaciones no
  se esperen en cruz", parents before batches (`services/kiln_batches.py:16-22`).
  Lighting and calling off take the batch first (`services/kiln_batches.py:1419`,
  `1452`), so they and a request that plans pieces of an order in it may wait for
  each other (`Circle`). The detector ends one of the two, which writes nothing, and
  `EveryRequestEnds` holds.
- Kilns: lighting does not ask whether the orders in the batch are still open. Release, move and
  cancel leave the map of the batch as it was. A suggestion takes a half full
  exclusive batch of the same order for an empty one, and measures with today's
  dimensions where saving a map uses the frozen ones. Keys of maps share
  one UNIQUE register with those of new batches and plans, and have other advisory
  locks.
- Quotations of samples: confirm takes no token of what its client saw, and that
  of an edit is optional; a cancelled quotation is shown with today's rates; a
  successor may follow an approved sample, or one that is not decided; the start
  of an order asks for the payment of the product quotation and not for its
  status; the last sample of a line moved to another quotation can get a successor
  in the first one without waiting for it, which no longer is a sample in force
  there. `_guard_lineage` cannot fire.
- Firing quotations: where an open duplicate exists, asking for one again returns
  that draft, read without a lock (`services/firing_quotation_v2.py:1115-1117`) and
  recalculated from the masters of today; the route then commits
  (`api/v1/firing_quotations_v2.py:413`). If the draft is issued between that read
  and the commit, and a rate changed meanwhile, the amounts of an issued quotation
  are overwritten, although "Una emitida no se recalcula"
  (`services/firing_quotation_v2.py:640`). Read from the code, not checked.

## Proofs

Assumptions on constants are those of the `ASSUME` of each module, which the runs
evaluate. Every invariant of the runs is a consequence of an inductive one, `IInv`
(of kilns, `KilnInv`), which adds what a request knows between two of its steps. Of
the properties that the passing runs check, the theorems state all the invariants
and action properties.

`ProductionOrders_proofs`, for any sets of requests, quotations, lines, keys,
calls and reports, and any opening orders:

| theorem | says |
|---|---|
| `StepIInv`, `Consistent` | `IInv` is inductive, and so always holds |
| `TypeCorrect` | `TypeOK` |
| `CreationsNeverClash` | `NeverClashes` |
| `CreationsReplyOwn` | `RepliesOwnOrder` |
| `CancelledIsUnspent` | `CancelledSpentNothing` |
| `KeysRecordOnce` | `KeyRecordsOnce` |
| `ClosedOrdersAccount` | `ClosedIsAccounted` |
| `RetriesRecognised` | `RetryIsRecognised`, an action property |
| `MaterialLeavesOnce` | `SpentOnce`: as many exits as recorded consumptions, or one for a legacy order that was started |
| `Refinement` | `RefinesBook`: every behaviour implements `OrderBook` |

None of the properties is inductive. That no creation clashes, for instance,
depends on what the request read two steps ago still being so. `IInv` says it:

- `Fits(r)`: the place `r` is at fits its call;
- `Holds(r)`: the locks `r` has there;
- `Knows(r)`: what `r` read under those locks, and is still so (no order of this
  key, no order of this quotation, no entry of this key, the status of the order,
  nothing pending, nothing consumed);
- `OneOrder`, `NoOrphans`, `ExitsExplained`, `RepliesExist`: facts about the rows.

A step is shown to keep it in three parts. A step of one request leaves the state
and the locks of the others alone (`Bystanders`). What it writes is covered by its
own locks, so what the others know stays true (`RowsKeep`, `EntriesKeep`,
`OthersStay`). And it establishes what its own next place asks for (`MoverFits`).
The properties of the rows follow from what the writer knows when it commits, and
so does the refinement: the commit of a request is a step of the book, and every
other step is a stutter. `SpentOnce` counts, and needs `Counted` beside `IInv`: the
rows are finitely many and each was written by a request that is over. So what a
commit writes was not there before, and the two numbers it compares grow together
or not at all (`NothingLeaves`, `RecipeLeaves`, `EntryCounts`).

`DocumentSequences_proofs`, for any sets of requests, administrators and imports,
any files, any reset policies and any calendar, all that `Seq_numbers` checks but
liveness:

| theorem | says |
|---|---|
| `SequenceStep`, `SequenceConsistent` | its `IInv` is inductive, and so always holds |
| `SequenceTypes` | `TypeOK` |
| `RegisterIsSound`, from `NumbersNeverShared` and `NumbersContiguous` | `RegisterSound`: `NoSharedNumber` and `Contiguous` |
| `EditsAreSafe`, from `CounterForward` and `TextsFollowFormat` | `EditsOverlapSafely`: `CounterNeverRewinds` and `TextUsesCurrentFormat`, action properties |

`Contiguous` alone is not inductive: a commit adds the number a request computed
earlier. `IInv` says that this number and text still fit the row, whose lock the
request has (`Current`), and that the row is still behind the number of an import
that has it (`Moving`); that what is taken of every period, by the register or by a
jump, is 1..n for some n (`Filled`) and covers 1..value in the row's period
(`Counted`); and that where no import jumped, the register has nothing beyond value
(`Ahead`). A commit in the row's period adds value + 1, an import all up to its own
number (`ImportCommitStep`). A commit in another period computes 1, and there
UNIQUE matters: where no import jumped it lets the 1 through only if the period is
empty (`NumbersGrow`), which around midnight it may not be. `Filled` quantifies over all
natural numbers, so TLC does not check this `IInv` itself, only the properties
that follow from it.

`SampleProduction_proofs`, for any set of requests and any use of the two services:

| theorem | says |
|---|---|
| `StepIInv`, `Consistent`, `SampleTypes` | its `IInv` is inductive and holds; `TypeOK` |
| `DirectStartIsPaid` | `SpentIsPaid` |
| `DecisionIsFinal` | `DecidedOnce`, an action property |
| `StepOneWay`, `OneWayConsistent` | `OneWayInv` is inductive and holds |
| `OneWayMakesOnce`, and its parts `OneWaySpentOnce`, `OneWayMadeOnce`, `OneWayFollowsOrder` | `OneWayAgrees` |

`IInv` says which row a request has locked where it is (`Holds`) and what it
checked under that lock and is still so (`Prepared`); every step is shown to keep
a `Frame` that suffices for the others. `MadeOneWay` is the hypothesis that the
clients make a sample through its order only, or directly only. It is not a
promise of the code: it is what `Samples_twice` refutes the properties without.
With it, the status of the sample that the start of the order read without a lock
is still the sample's (`Seen`), since only the order moves it.
`DecisionIsFinal` needs `IInv`, not only the check of `_decide`: `Decide` writes what
`CheckDecidable` found some steps before, and `Prepared` says that the lock of the
sample kept it so.

`QuoterV2Lifecycle_proofs`, for any quotations and requests, any bounds of the
counters and any validity:

| theorem | says |
|---|---|
| `IssuedIsShown` | `IssuedAsShown` |
| `SentSafe` | `SentIsGood` |
| `ReplacedSafe` | `ReplacedOnce` |
| `OfferIsFinal` | the content of an issued quotation never changes, an action property |
| `BookIsKept` | `KeepsTheBook`: every behaviour implements `OfferBook` |

Here `IInv` says that a request at work holds its header alone, and what it may
rely on until its commit: a confirmation, that the draft is the one the document
was made from; the bridge, that the offer stands and has no successor, and that the
instant it read is of the offer's term; a duplicate, that the quotation is over for good. *Over* is what makes the last one
stable although others go on: nothing brings a cancelled quotation back, and the
clock does not go back either.

`SampleQuotations_proofs`, for any requests, quotations, samples and usages:

| theorem | says |
|---|---|
| `Invariance`, `TypeCorrect` | its `IInv` always holds; `TypeOK` |
| `PaidOnce` | `OneLinePerPayment` |
| `OfferStands` | `OfferKept`, an action property |
| `GatesHold` | `OnlyApprovedGoesOn`, an action property |

`IInv` ties three reads made before a commit to the rows: the originals that a
payment found are still those of the quotation (`Payable`), the sample of a final
quotation is still approved and in force (`Quotable`), both by the lock of the
row; and a start has read every sample of its quotation, in a state no better than
now (`ReadAll`), because whoever brings a sample to the quotation waits for the
lock of the quotation. That the whole line was examined and not only its end does
not matter to the proof: the end of a line is its own `Effective`.

`StockAndKilns_proofs`, about the two components that keep a number beside the rows
it is the sum of. First, for any slots, lots, opening stock, transactions and jobs:

| theorem | says |
|---|---|
| `LedgerSound` | `LedgerAddsUp`: conservation, lots and aggregate, the chain of `balance_after`, and that their agreement is never found broken |
| `NoHalfJob` | `WholeJob` |
| `OrderedChecks` | `ChecksNeverCircle` |

The sums are those of the community modules. `SumFunctionOnSet` chooses a function
that solves a recursion over subsets; the module first proves that there is one,
that it does not depend on the order of the elements, and that adding an element
adds its value (`UnfoldsExists` and the lemmas after it). The induction is over the
subsets of a finite set, with the set of those a formula holds of in the place of
a predicate (`AddingElements`). The assumption needs slots and lots to be finitely
many and the opening lots to add up to the opening balances. `IInv` then says what
the register is (`Registered`: it conserves, and is right at each of its places),
what a running transaction has written (`Evidence`: under the lock of the row, with
ids after those the register has of it, adding up with the committed rows to what
the transaction sees), how many movements that is (`Counted`), and what a lock
means (`Held`: a statement of its holder has passed that row). `OrderedChecks`
follows from the last and from the shape of the scripts (`ScriptsWellOrdered`):
whoever waits for a check has passed only smaller products, so in a circle of
them the largest product that is waited for has nobody who could hold it.

Then, for any orders and loads, lines, batches, capacities, calls and requests, and
any openings that are sound:

| theorem | says |
|---|---|
| `KilnConsistent` | `KilnInv` always holds |
| `PlansAddUp` | `PlanAddsUp`: types, the counter of volume, capacity, no piece twice in a cycle |
| `LoadsAreRight` | `LoadedRight`: no raw piece in the high fire, and exclusive kilns |
| `FiredStay` | `FiredStays`, an action property: pieces, map and stage |
| `KeysNeverClash` | nobody dies of UNIQUE on the register of keys, while no map is saved with a key of anything else |

A batch is changed by whoever locks it, but its rightness depends on other rows:
the places a line has left are counted over all batches of the cycle, and what
may be lit over batches that other people light and finish. `KilnInv` is the types,
`Sound(batch, plan)` (what the properties say of the rows, and that only pieces with
measures are planned, in batches that exist) and of each request `Prudent(r)`:

- `KilnFits`: the place it is at fits its call;
- `KilnHolds`: the locks it has there, and for who is about to light a batch, every
  order with pieces in it (`Unlocked(r) = {}`: `_lock_parents_of` has come to an end);
- `KilnKnows`: what it read under them and is still so: the batch is PLANNED, the
  low fire of its pieces is done (`LowDone`), what it plans is possible (`Possible`).

The argument has two halves. `Spares(q)` says what a step may do while `q` is on its
way: nothing to the batches `q` holds, nothing to the pieces of the orders `q`
holds, wherever they are, and to the rest only what cannot hurt (a batch goes on to
be of its cycle, what came out of the low fire stays out of it, and a batch that is
lit now has no pieces of those orders). `Bystander` shows that then what `q` knows is
still so, and each action is shown to spare everybody else: who plans pieces holds
their order and both batches, who lights or calls off a batch holds it and all
orders in it, a completion only moves a batch on. The other half needs no variable:
`TakeMoves`, `PutMoves`, `LightSound` and their like show of any sound rows what
taking pieces out, putting them in or lighting a batch leaves, with the lemmas on
sums for the counter and for the places in a cycle. `Write` is both halves
together: the rows are sound when it commits because `Possible` was checked under
locks that have kept it so.

The hypothesis of `KeysNeverClash` (`KeysApart`) is on the clients. Plans and new
batches take the advisory lock of their key in one namespace and maps in another,
but all record it in `kiln_batch_operations`, so one key used at once for a map and
for something else ends in the UNIQUE constraint: that is an error to the client and writes nothing. `OpeningAssumption`
says that the openings are sound, which TLC evaluates of those of `Kilns_plan`.

`LegacyQuotations_proofs`, for any administrators, quotations, forms, charges and
budgets, the settings of the company included:

| theorem | says |
|---|---|
| `SettingsAreKept` | `SettingsKept` |
| `VersionsProtect` | `VersionProtects`, an action property |
| `OffersAddUp` | `OfferAddsUp` |
| `OffersAreFinal` | `OfferIsFinal`, an action property |
| `RaisesLeaveTrail` | `PriceTrail`, an action property |

No lock protects the settings, so the first half of the invariant counts: paths
are numbered as files are made, hence the file of an upload is nobody else's and
nobody drops it before it is the logo (`Uploaded`, `Dropped`); a row and its
forms are contents that were committed under their version (`Remembered`), hence a
form of the row's version is the row or its twin. In the second half the lock of a quotation keeps what its holder was
allowed for (`Fits`, `Allowed`), one raise at a time holds the product (`Alone`),
and a screen with the stamp of the row shows the amounts of the row (`ScreenFits`):
a confirmation that passes `IsFresh` issues what was on the screen. `RowAssumption`
says that the mark for no row is no row.

`QuoterV2Draft_proofs`, for any quotations, pieces, techniques, people and tasks,
any catalogue and any worker by default:

| theorem | says |
|---|---|
| `Consistent` | its `IInv` always holds |
| `WorkIsOfPieces` | `WorkFollowsPieces`, type correctness included |
| `DecisionsAreKept` | `DecisionsStand`: four action properties |
| `TotalsAreOfContent` | `PriceIsOfContent`, while tasks name pieces of their own quotation |
| `IssuedKeepsWork` | `IssuedIsStaffed`, under the same hypothesis: proved here and not among the properties of a run |
| `IssuedIsKept` | `IssuedStands`, under the same hypothesis |

A handler locks one header, so the question is what it reaches beyond it. `Edited`
says what it may: pieces of its quotation or ids nobody uses, their processes, and
tasks of its quotation. It is proved of each handler, and everything about *other*
quotations follows from it once (`OthersStand`). That the reach ends there needs
that a task is of the quotation of its process (`PairsOfTheirQuotation`), which the
code guarantees, and of the quotation of the piece it names (`OwnPieces`), which it
does not: that is the hypothesis `~ForeignLines`, on the clients, and
`Draft_foreign` is the counterexample without it. For the pays, `Paid` and
`PaidAsShown` say that who has a task in a quotation, or is in its totals, has a
pay there that was frozen and is the one shown.

TLC alone checks liveness: fairness and ENABLED are out of the reach of TLAPS.

## Not modelled

Firing quotations V2: their protocol of drafts, confirmations and duplicates is
that of the V2 quotations, except for the repeated duplicate told above. Masters, import and recipes, which are planned. Bank
accounts, catalogs and patterns of the settings; the masters of techniques,
additionals and other costs, which are part of the form of a legacy quotation. Orders of firings without products (no service creates one), extras of an
order, archived materials, inactive locations: a refusal for one of these is a
`RollBack` of the model, since all have the same effect, none. What a delivery
reads of its order, the idempotency key of a preparation. The geometry of a kiln,
Decimal arithmetic, formatting, audit rows, authentication, PDF and the external
identity provider. The components with status `not_modelled` in `PROJECT.json`
say each why.

## Plan

Done, in this order: numbering, ledger, orders of quotations with their abstract
book and proofs, samples; then the content and the life of V2 quotations with
their abstract book and proofs, kilns, quotations of samples with proofs, legacy
quotations beside the settings of the company; then the proofs of the ledger, of
the legacy quotations, of the content of drafts and of the kilns. What follows, the
most important first:

1. `ProductCodes`: creation, import and numbering, and their order of locks.
2. `Preparations`: the key and its payload. `Deliveries`: the order they read.
3. Pure algorithms over bounded inputs: rounding and allocation of the quoter,
   packing of a kiln.
