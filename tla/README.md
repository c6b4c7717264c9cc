# A TLA+ model of KielSync

KielSync (`src/src/kielsync`) is a Django library that starts payments at
Paystack and Flutterwave, receives their webhooks, and decides from the
gateway's own answer whether a stored transaction was paid. This project
models how it does so, in three parts that meet in the tables:

- *the ledger*: webhook requests and sweeper runs over one database, with a
  gateway that changes its mind while they work;
- *the deliveries*: how a request becomes a row of the webhook table, or does not;
- *the money*: how one amount travels to a gateway, back and out again as a
  refund, through HTTP calls that may fail.

TLC checks small instances of each; TLAPS proves every one of their safety
properties for every instance, that the ledger implements an abstract
specification of what a payment's row may do, and that deliveries and ledger both
implement one of what the table of events keeps.

Paths without a directory are below `src/src/kielsync/`; `README:n` is the
repository's own README.

## Inventory

| Part | Keeps | Does | Talks to |
|---|---|---|---|
| `core/states.py` | two transition tables | `perform_transition`: check, assign, save | the models |
| `django/models.py` | `Transaction` (status, reconciliation status, amount, currency, `updated_at`), `PaymentAttempt` (status, gateway reference, `raw_response`), `WebhookEvent` (unique id, reference, `processed`) | `transition`, `mark_success(verified=True)` | the database |
| `django/services.py` | nothing | `resolve_transaction`: compare the answer with what is expected, move the transaction and its attempt, or flag a mismatch | models; called by the two below, under their row lock |
| `django/views.py` | nothing between requests | `webhook`: authenticate, `get_or_create` the event, `verify()`, lock, resolve, close the event | adapters, `resolve_transaction`, the database |
| `kielsync_sweep.py` | one run's clock and batch | select candidates, `verify()`, lock with `skip_locked`, resolve, close events, abandon | the same |
| `core/gateways/` | an HTTP client | `initialize`, `verify`, `refund`, `parse_webhook` | the gateway over HTTP |
| `core/errors.py` | code tables | `classify`: may a failed call be sent again? | adapters |
| `core/currency.py` | exponents | minor to major units and back | the Flutterwave adapter, hosts |
| `core/webhooks.py` | nothing | `derive_event_id` | adapters |
| `core/logging.py` | lists of sensitive keys | `redact` | adapters, before they log a body |
| `django/settings.py` | nothing; it reads the environment each time | `get_gateway` | the endpoint, the sweeper, hosts |
| urls, apps, migrations | - | wiring | - |

What makes each correct:

- *Ledger and resolution.* SUCCESS only on evidence; decided means decided;
  the attempt agrees with its transaction; a contradiction is flagged and the
  flag stays; calling twice is calling once; nothing raises.
- *Webhook endpoint.* An event is closed only by an answer about its own
  payment, at least as new as the event if a request closes it, and not for
  nothing; whatever fails leaves it to be picked up.
- *Sweeper.* It makes up for lost webhooks; it abandons only what has been
  quiet for the whole threshold and was just seen to be unpaid.
- *Deliveries.* An event has one row, however often, in how many requests at
  once and under whatever spelling of the URL it arrives; what was answered 200
  is on disk; nobody but Paystack can file anything as Paystack's (at
  Flutterwave's endpoint anyone can who has seen its hash once, which is why a
  webhook decides nothing); a replaced secret takes effect without a restart.
- *Adapters and currency.* The amount asked for is the amount stored, what is
  credited is the amount asked for and what is paid back is the amount wanted,
  in whatever unit it travelled.
- *Classification.* A refusal is never sent again, an outage is never taken for
  a refusal, an error envelope is never taken for data.

What is hard in it: requests and runs interleave on one row; the gateway is
asked *before* the lock is taken, so every decision uses a snapshot that may be
stale; events arrive late, twice and out of order; each step can raise or be
killed; a run reads the clock once and goes on for minutes; a transaction can
have several attempts; two requests may insert the same event; secrets change
while requests are served; a refund at Flutterwave is two calls. `PROJECT.json` lists each of these hazards at its line.

## Modules

```
States            transition tables, perform_transition
  Ledger          the tables and resolve_transaction as operators
    Gateway       what verify() returns, and how that changes
      WebhookEndpoint    one action per step of a request, from the stored event on
      Sweeper            one action per step of a run
        KielSync         both, with host, clock and crashes; TypeOK
          Requirements   safety, action and liveness properties, fairness,
                         the refinement mappings to PaymentPromise and EventTable
            DocClaims    sentences of the docs the code does not keep
    SweepItem     one item: the dry run, the run, the same run again
    MoneyPath     an amount on its way out and back
      Refunds     and out again: refund() of both adapters
Currency          the conversions, over exact decimals; used by MoneyPath
GatewayCall       one HTTP call and its classification; used by MoneyPath, Refunds
Delivery          from the request to the stored event; settings, ids, redaction;
                  the refinement mapping to EventTable
PaymentPromise    the abstract ledger
EventTable        the abstract table of webhook events
LedgerProofs      the operators of Ledger
  KielSyncProofs  locks and evidence
    PromiseProofs the order of answers, and the refinement
      OutcomeProofs      attempts, abandonment, events, locks, batches, idempotence
  MoneyProofs     calls, units, credits, refunds
  ItemProofs      one item: nothing is left to a second run
DeliveryProofs    the webhook table
  LogProofs       redaction, by induction over the tree of a body
MCLedger, MCKielSync, MCItem, MCMoney, MCCall, MCDelivery    instances for TLC
```

### Ledger

`txn[t]` is the row's `status` and `reconciliation_status`; `attempt[r]` is the
status of the attempt with reference `r` (references are unique), `ABSENT`
before it exists; `raw[r]` stands for `raw_response` and holds the *version* of
the gateway's answer stored there; `event[e]` is a `WebhookEvent`; `holder[t]`
is who holds the row lock. Transactions and references are numbered by
`created_at`, the only sort key in the code. `age[t]` counts ticks since
`updated_at`; it is kept for PENDING rows only, since every reader of
`updated_at` also asks for PENDING.

`Resolve` is the `Resolution` that `resolve_transaction` returns, `RowAfter`
the row it saves, `AttemptsAfter` what it does to the attempts and `Touches`
whether it moved `updated_at`. `RowAfter` keeps the difference between the row
in the database and the row the caller loaded (`seen`): each branch saves only
its `update_fields` and judges by `seen`. That the two are equal under the lock
is proved, not assumed.

### WebhookEndpoint

| Action | Code |
|---|---|
| `Receive` | `get_or_create`, committed on its own (views.py:116-124) |
| `AcknowledgeDuplicate` | the event is processed: 200 (126-135) |
| `HandlerVerify` | `adapter.verify`, before any lock (167) |
| `HandlerLock` | attempt found, `select_for_update().get()` (169-187) |
| `HandlerCommit` | resolve, `raw_response`, close the event, commit (188-200) |
| `LeaveForSweeper` | no reference, no attempt, or anything raised: 200, event left open (137-181) |
| `HandlerCrash` | the worker dies; an open database transaction rolls back |

What happens before `Receive` is the subject of `Delivery`. The writes inside `atomic()` are one action because no other process can see them
apart; the read of the gateway, the lock and the commit are three, because
others can act between them.

### Sweeper

`StartRun` reads the clock and the candidates, `NextItem` picks the latest
attempt of the oldest candidate, then `SweepVerify`, `SweepLock` or
`SkipLocked`, and `SweepCommit` (resolve, body, close events, abandon), or
`MaybeAbandon` if there is no attempt. `ItemFails` is the `except Exception` of
the loop. `elapsed[s]` counts the ticks since the run read `now`, so that
`PastThreshold` sees an age as the run's fixed cutoff does. The one-row
transaction of `_maybe_abandon` is one action. A run that finds nothing to do is
not shown.

### Gateway, host, clock

External, modelled from how the code uses them. A gateway's answer about a
reference starts PENDING, becomes SUCCESS (with some money a payer may have
paid) or FAILED, may become SUCCESS after FAILED (the payer tries again) and
FAILED after SUCCESS (`reversed`). `settled` is a history variable: the
references once paid with the expected money. The host opens attempts, moves a
transaction to PENDING, records what it knows of attempts, and takes flagged
rows into review. It is assumed not to overwrite rows it read earlier (see
"Not modelled").

### SweepItem

`ItemInit` is every state of one payment, its attempts and the gateway's answer
in which handlers and runs leave it (the invariants `CreditedIsReconciled` and
`AttemptsAgree` say which those are). `DryRunItem` is what `--dry-run` reports,
by the second implementation of the decision in `_dry_run_outcome`; `RealItem`
is the atomic block of the run, twice with the same answer.

### MoneyPath, Currency, GatewayCall

A decimal is an integer number of *grains* (thousandths in the runs), so that
the model itself rounds nothing. `MoneyPath` follows one amount: stored, sent
in the gateway's unit, reported with any word, type and currency and off by any
of a few slips, read by `verify()`, and compared by `Resolve`. `GatewayCall` is
one `_call()`: the transport may fail early or late, the gateway may accept or
decline meanwhile, and any envelope may come back. `MoneyPath` makes both of its
calls that way: `initialize()` raises if its call does or if the data holds no
checkout link, and `verify()` may raise and be called again.

What is assumed of a gateway's answers is `Truthful`: it says yes only if it has
accepted, and in an answer of its own (JSON) it does not call a refusal an outage.
It may refuse in a word that no table has, or in none, under any HTTP status;
`RefusalsAreFinal` says what becomes of that.

### Refunds

`Refund` is the host's call, on a payment that was credited; of the way before
it nothing is left but the row. Paystack's adapter makes one request
(`RefundByReference`). Flutterwave's asks `verify()` first (`RefundCalling` in
the stage `locating`), takes id and currency from the answer
(`_resolve_transaction_id`), converts a partial amount, or raises, and sends the
refund; a reference of digits skips the lookup, and then has no currency.
`RefundReturns` builds the `RefundResult` from whatever way the gateway may
report: another spelling of the currency or none, the amount refunded in a field
of its own or not, each number in any JSON type. `None` for "everything" is the
number -1, which no amount is; a truth test in place of `is None` is one of the
mutants.

### Delivery

| Action | Code |
|---|---|
| `Deliver`, `SendAgain` | somebody, or a gateway that was not answered 200, makes a request; `parse_webhook` |
| `parse_webhook` | `get_gateway`, signature, body (views.py:64-101); a request that fails any of it changes nothing and is no step |
| `RefuseUnidentified` | no usable event id: 400 (views.py:103-114) |
| `Lookup`, `Create` | the two halves of `get_or_create` (views.py:116-124), between which others may insert |
| `Found`, `Acknowledge` | a duplicate, or 200 whatever became of it (views.py:126-150) |
| `Process` | the row is closed, by whoever (`WebhookEndpoint` and `Sweeper` say when) |
| `Crash` | the worker dies, or the database raises |
| `Reconfigure` | one of the two places that hold a secret gets another one |

A body is a *happening*, something a gateway has to tell, and a record of the
fields that ids are made of; an id is the tuple that `derive_event_id` hashes
or `_webhook_event_id` prints. Some happenings are `Invented`: strangers made
them up, in the likeness of an event or as none that ever was. A signature is
the secret it was made with. For Paystack that says that nobody else can sign a
body, whatever the body is (`DeliveryAssumption`). For Flutterwave, whose header
*is* the secret, it says what README:267-271 and flutterwave.py:342-350 warn of: a
stranger who has seen the header, of any time, sends any body with it
(`Headers`), and such a body becomes a row. `acked` is what *gateways* have been
answered 200 for. `redact` works on trees of mappings, lists and
leaves; its result is the set of leaves left to be seen, and `line` is what the
request has written to the log. `PayloadAssumption` says what a decoded JSON body
is: each node but the root has one parent, and `Height` falls from a node to its
children, so that no body contains itself.

### PaymentPromise

The abstract ledger: one row per payment, what the gateway has said of it so far
(`yes`, `no`, and `paid` for the expected money), and seven ways the row may
move. It knows no request, run, lock, event, attempt or clock. A credited row
never moves again except for its flag; only the gateway's own word fails one;
a flag needs a contradiction, and is taken down by a credit or taken over by a
person. `Requirements!Promise` maps `KielSync` onto it: `row` is `txn`, `paid` is
`settled` by transaction, and `yes` and `no` are read off the version of the
gateway's answer. A credited payment that is paid a second time through another
attempt is *not* a contradiction there, because it is none in the code
(services.py:135-139). `Grounded` is its own invariant: no verdict and no flag
without a word of the gateway that grounds it.

### EventTable

What the table of events promises a gateway: what is stored stays, what is closed
stays closed, and a 200 is for something stored. `Delivery` (the table up to the
stored row) and `Requirements` (what becomes of a row) implement it under two
mappings, by key and by event. Neither model contains the other's half of the
endpoint; this is the interface at which the halves meet, with the same three
actions seen from both sides.

## Runs

| Run | Instance | Question |
|---|---|---|
| `race` | 1 transaction, 1 attempt, 1 event, 2 requests, 1 run, 1 crash; paid in full or short, 2 changes of mind; review, a host that lets attempts expire | every race on one row; when is a payment abandoned, an event closed? the inductive invariants; the refinements of `PaymentPromise` and `EventTable` |
| `batch` | 2 transactions at 2 gateways, `--limit 1`, `--gateway` on and off, answers under a foreign reference, an event without one | does one payment's news reach another, or its attempts? does the older one go first? |
| `progress` | 1 transaction, 2 attempts, an event about the older one, 1 request, 1 run, 1 crash, fair | is the right attempt credited? does a closed event's news reach the ledger? is every payment decided, every event closed that can be? |
| `item` | 1 transaction in every state, 2 attempts, every answer, known and unknown references | is the run idempotent, does it never raise, is it predicted for open payments? |
| `money` | currencies with 2 decimals, none, unknown, lower case; 7 slips, 6 JSON types, 5 prices; 5 HTTP statuses, 5 envelopes, 7 codes; both adapters; refunds of all, of 0 and of 2 minor units, by reference and by number | do units slip, on the way out, back or out again? is the verdict on a failed call what the gateway said? |
| `delivery` | 2 requests, 3 events of both gateways (one cannot be identified), 2 bodies that strangers made up (one the likeness of Paystack's event, one like Flutterwave's but for its status), strangers with no signature, with wrong ones and with Flutterwave's hash, 3 environments, 2 sets of secrets at the gateways, 1 crash; fair | one row for each event, Paystack's only from Paystack? is anything acknowledged and lost, or never filed? does the log withhold? the refinement of `EventTable` |

The bounds and why they are enough: two processes suffice for every race on a
row, since the lock admits one and a third adds no new order of *ask, lock,
commit* for a pair; `race` pairs two requests and mixes both kinds. Two runs at
once are in no run of TLC: the theorems cover them, for any number of runs.
`MaxVersion = 2` lets an answer go stale once and back, and both
reversals happen. `RunTicks = 1` against the thresholds separates the run's
clock from the row's age; `AgeCap` is the largest age anything compares with.
One crash is enough because a crashed process keeps nothing. Amounts are 0,
short, and right; currencies are right, right in another case, and foreign.
In `money` a grain is a thousandth (`One = 1000`), finer than any minor unit, so
that numbers between two minor units occur; `Portions` has a part and the 0 that
could be taken for "no amount". In `delivery` two requests meet in
`get_or_create`, one of the environments lacks both a key and the hash, and the
other two are those before and after secrets are replaced; the body has a card
below a mapping and an account in a list of them. `CHECK_DEADLOCK FALSE` stands
in the runs that end by design (`item`, `money`, `resend`).

### What the properties say

`CreditedOnlyIfPaid`, `TerminalIsFinal`, `AttemptsAgree`,
`PaidAttemptIsCredited`, `CreditedIsReconciled`, `FlagsAreKept`: the ledger
never says more than the gateway said, whoever wrote it. `NewsReachesLedger`:
closing an event means that its news was credited, flagged or ended the
payment. `NewsIsNotUsedUp`: an event that came when the gateway had decided is
not closed while its payment is PENDING and unflagged: a request closes its event
on PENDING too, but it asks after the event is stored; a run asks before, and
closes nothing on PENDING.
`AbandonedOnlyWhenQuiet`: both timing and evidence of an abandonment.
`KeepsPromise`: seen from outside, nothing else moves a row, and hence
`VerdictsAreGrounded`. `LocksAreInUse`: a row is locked only by a process between
its lock and its commit and on the row it works for, so no crash, failure or
`skip_locked` leaks a lock and nobody waits for a row while holding another.
`CommitsExhaust`: after a commit the same answer finds nothing to write, whoever
brings it; that is the idempotence of services.py:92 among all processes, where
run `item` checks it for one process and looks at events and bodies as well.
`KeepsEvents`, `FilesEvents`: no step loses a stored event, opens a closed one or
answers for one that is not there. `BatchIsAQueue`: a run leaves a waiting payment
out only for `Limit` older ones. That is what the comment at
kielsync_sweep.py:178-181 gives as the reason for the order, and it does not
give what the README concludes from it (run `starvation`). `DecisionsAreSound`
and `NewsInOrder` are the inductive invariants of the proofs: a decision is made
on a locked and current row by evidence that was true, and nothing held or stored
is from the gateway's future.
`PaidAttemptIsCredited` assumes that the gateway echoes the reference it was
asked about; with a foreign reference `_matching_attempt` falls back to the
most recent attempt, which need not be the paid one. What is left then is
`AttemptsAgree` (run `batch`): no attempt of another transaction is touched.

`OneRowPerEvent`, `AcknowledgedIsOnDisk`: deduplication neither doubles an event
nor swallows another one. Rows at Paystack's endpoint tell only what Paystack has
told (in `FilingIsSound`); rows at Flutterwave's may tell anything, and one may
stand in the place of Flutterwave's own event of the same id. That costs no
money: `CreditedOnlyIfPaid` and `VerdictsAreGrounded` hold whatever events there
are, as only `verify()` decides. Two events that agree in gateway, name, subject and status are one
event here (`About`), which is the limitation webhooks.py:82-89 documents; two
Paystack events without any id and with an empty reference are the extreme case
of it (paystack.py:525). `EveryEventIsFiled`: once the secrets in both places
agree, an event that was refused in between is filed after all.
`LogWithholds`: nothing below a private key reaches a log line.

`AskedIsStored`, `AskedIsPriced`, `CreditedToTheGrain`, `PaidInFullIsCredited`:
no unit error, in either direction, by either adapter. `PaysBackTheWanted`,
`ResultIsTrue`: the same of a refund and its result, whose amount is 0 in place of
another if and only if its number cannot be read (`Legible`); a `RefundResult` has
no currency (base.py:135-149). A price is asked for to the last grain if its
currency can hold it, to the nearest minor unit if not. A payment in full is
credited in every type of number that the adapter reads, Flutterwave's floats
included (`NumberTypes`), and in the currency as the table spells it; Paystack's
adapter takes any spelling. `DataMeansAccepted`, `RefusalsAreFinal`,
`OutagesAreRetryable`: the verdict on a call is what the gateway said of it. A
refusal in a word that is in no table, or in none, is judged by the HTTP status
(errors.py:249), and is RETRYABLE under 429 or a 5xx.

### Claims the code does not keep

Each has a run in which TLC finds the counterexample.

| Run | Claim | What happens |
|---|---|---|
| `starvation` | README:343-344, kielsync_sweep.py:178-181: nothing starves | a MISMATCHED payment stays PENDING and oldest, and fills the batch of every run |
| `older_attempt` | README:347-349: abandoned only after verification | only the latest attempt is verified; money through an older one is written off |
| `stale_close` | views.py:140-142: the sweeper picks the event up | an event stored after the run asked the gateway is closed by the older answer |
| `retry` | views.py:19-21, README:251: the sweeper will retry the event | not once its transaction is SUCCESS or FAILED |
| `resend` | errors.py:96: failures that prove the request was not processed | a read timeout does not |
| `rounding` | README:185-187: conversion refuses to round, it raises | `to_minor_units` rounds half to even: 5.015 NGN is stored, and asked for, as 502 |

`starvation` and `retry` are liveness claims; they are refuted under the same
fairness that makes `progress` hold.

Read in the code and described here without a run of their own:

- views.py:190 speaks of the "latest body"; of two requests the one that
  commits last may hold the older answer, and `raw_response` goes back to it.
  Nothing in the library decides by it.
- kielsync_sweep.py:339 says that "only terminal resolutions clear the backlog";
  the code returns early only for `PENDING`, so a MISMATCHED resolution closes
  the events of a payment that is still PENDING. `NewsReachesLedger` shows that
  the flag stands in that case.
- kielsync_sweep.py:68 says that `--dry-run` reports what would happen; for a
  candidate that is CREATED or ABANDONED `_dry_run_outcome`, which does not look
  at the status, may predict a resolution that the run does not make.
  `OpenPaymentsPredicted` is therefore about PENDING rows.
- `get_gateway` says that callers with more than occasional requests "should hold
  on to the instance rather than calling this per request" (settings.py:115-117);
  `webhook` calls it for every request (views.py:68) and closes no adapter.
  `EveryEventIsFiled` rests on just this: an adapter that is kept would keep the
  old secret.
- A refund by a reference of the host's own that is all digits goes to whatever
  transaction has that number at Flutterwave (flutterwave.py:482), and one whose
  answer was lost is `RETRYABLE` (run `resend`) although base.py:259-261 says that
  `refund` is not idempotent.
- An event about an attempt that is no longer the latest is not closed by the
  sweeper, which verifies the latest (kielsync_sweep.py:217, 344-346). While its
  transaction is PENDING or ABANDONED it makes it a candidate of every run; it is
  an exception of `EventsAreClosed`.
- Under `--gateway` an event that came to that gateway's endpoint makes a
  transaction a candidate which has no attempt there; the run then abandons it, if
  it is old enough, without a verification (kielsync_sweep.py:187-194, 219-222).
  `AbandonedOnlyWhenQuiet` allows for that.
- A contradiction that comes after a person has taken a transaction into review
  writes MISMATCHED over MANUAL_REVIEW (services.py:230-234).
- A currency in lower case in an answer of Flutterwave's has no exponent, so the
  amount is read as 0 and the payment is flagged (flutterwave.py:447), although
  `resolve_transaction` compares currencies without regard to case.

## Fairness

`Fairness` asks: the clock moves; a request in progress goes on (weakly fair);
runs keep being started and go on (cron, weakly fair); the database does not
roll the same request back for ever (`HandlerCommit`, strongly fair); and for
each transaction a run that examines it again and again at last gets an answer,
the lock, its commit, or its abandonment (strongly fair, per transaction,
because failures in the code are per item and a busy gateway or a locked row is
let be and tried again by the next run). Nothing is asked of deliveries,
payers, hosts, reviewers or crashes: webhooks may all be lost.

`Delivery!FairSpec` asks that a request that is served goes on, and that a
gateway which still has something to tell sends it again (strongly fair for each
event that can be identified: README, "Gateways retry, sometimes for days").
`Deliver`, crashes and changes of secrets are not fair; `EveryEventIsFiled` is
about behaviours in which the secrets agree from some time on.

`PaymentsAreDecided` is PENDING leading to a terminal status *or a flag*: a
mismatch waits for a person for ever, by design. `EventsAreClosed` excepts
events about transactions that are SUCCESS or FAILED, which the sweeper does
not look at (run `retry`), and events about attempts that are not the latest of
their transaction, which it does not verify.

## Proofs

All theorems hold for every value of the constants that satisfies the named
assumptions: `LedgerAssumption`, `GatewayAssumption`, `SweeperAssumption`,
`KielSyncAssumption`; `CurrencyAssumption`, `MoneyAssumption`,
`RefundsAssumption`, `GatewayCallAssumption`; `DeliveryAssumption`,
`PayloadAssumption`. Two theorems have a hypothesis besides, named below:
`ThePaidAttempt` and `LogStaysSilent`.

**Locks and evidence** (`KielSyncProofs`): `Soundness`
(`Spec => []DecisionsAreSound`), `TypeCorrect`, `OnlyPaidIsCredited`,
`TerminalStays`. `CreditedOnlyIfPaid` is not inductive: a process about to commit
could hold any answer and any row. `DecisionsAreSound` adds what each process
knows at each step. From `verified` on, its answer is about the reference it
asked for, and if the answer is evidence of payment then the payment is in
`settled`; from `locked` on, it holds the lock and the row it loaded *is* the row
in the database. The second is the point of `select_for_update`: it is preserved
because whoever writes a row holds its lock, or finds it unlocked
(`MaybeAbandon`, the host). The first survives everything because `settled` only
grows. The proof has one lemma per action (`HandlerCommitSound`,
`SweepLockSound`, ...), each resting on a few frame lemmas: what a process knows
is kept by a step that leaves its variables, its row and its lock alone.

**The order of answers and the refinement** (`PromiseProofs`): `NewsStaysInOrder`
adds `NewsInOrder`, that no answer held and no event stored is from the gateway's
future and that a held answer says PENDING if and only if it is from before the
gateway's first word, to the invariant.
`SystemKeepsPromise` (`Spec => KeepsPromise`) is the step simulation: each action
of `KielSync` changes at most one row, a commit changes it as one of `Credit`,
`Fail`, `Flag` or not at all, because the answer by which it decides is one the
gateway gave (`NewsInOrder`) and the row it judges is the row in the table
(`DecisionsAreSound`). `CreditedStaysReconciled` and `FlagsStay` follow. So does
`VerdictsStayGrounded`: `Grounded` is an invariant of the seven actions of
`PaymentPromise` (inductive together with the fact, `Backed`, that whoever is in
`paid` is in `yes`), and the refinement carries it over to the system without
another look at its actions.

**Outcomes** (`OutcomeProofs`): `TablesAgree`, `AbandonedWhenQuiet`,
`NewsIsNotLost` and `NewsIsKept` replace the loaded row by the stored one, as above, and then look
at what a commit writes; `NewsIsKept` uses of `NewsInOrder` that the answer of a
request is no older than its event. `ThePaidAttempt` has a hypothesis, that gateways answer
under the reference they were asked for (`Reported[r] = r`); without it the
fallback of `_matching_attempt` refutes it. `LocksStayInUse` needs one lemma,
`LocksKept`, that a step of one process gives up what it holds or takes what it
works on and leaves the rest; each action is an instance of it. `EventsAreKept` is
the refinement of `EventTable`: `TableSteps` lists the only three things a step may
do to the table, and `Marked` that closing some events is one of them, whether a
request closes one or a run all events of a reference. `RunsTakeTheOldest` is about
`Oldest`, for any number of transactions, even infinitely many: counting the older
ones places the batch injectively on `0 .. Limit - 1` (`OldestWithinLimit`), and the
oldest one left out of a batch that is not full would have had a place in it
(`LeftOutForOlder`). `CommitsLeaveNothing` joins `DecisionsAreSound` (the judged row
is the stored one) with `ResolveIdempotent` and `AttemptsSettle`; a run that abandons
is the only one that writes more than `resolve_transaction` says, and its answer was
no news (`OpenMeansNoNews`).

**Money** (`MoneyProofs`): `CallsStaySound` is one invariant for all calls a
payment takes, from which `DataIsAnAnswer`, `RefusedIsTerminal` and
`OutageIsRetryable` follow. `MoneyStaysSound` (`RefundSpec => []MoneyIsSound`) is
the other: what was asked is what `_to_wire_amount` makes of the stored amount,
the row is what `resolve_transaction` makes of the report and of nothing else,
and the request of a refund is what `RefundAmount` makes of the wanted amount.
The rest is arithmetic, for every amount and every grain: `WireIsWorth` (what is
written is worth what it was written for, stated as a proportion and not with the
conversions), `WrittenIsRead` and `ReadIsWritten` (writing and reading are
inverse), `HalfEvenNear` (rounding is off by half a unit at most). From these:
`StoredIsAsked`, `PriceIsTheAsked`, `CreditIsToTheGrain`, `PaidInFullIsNotLost`,
`RefundIsTheWanted`; and `HalfEvenExact`, that a price which its currency can hold
is stored as it is. `ResultStaysTrue` needs besides that there is no result
before the last step of a refund (`ResultIsSound`), and that what the gateway has
recorded is a whole number of minor units (`RecordedIsWritten`), which the adapter
reads back (`ReadsBack`). `MoneyAssumption` is used where a gateway spells a currency
in another way: no two currencies with a code of their own fold together.

**One item of a sweep** (`ItemProofs`): `OneRunIsEnough` says that after a run
nothing is left to write (`Settled`): the row is a fixed point of the answer, the
attempts are where the answer puts them (`AttemptsSettle` of `LedgerProofs`), it is
not abandoned again, the body is stored and the events are closed.
`SecondTimeIsQuiet`, `OnlyOpenMove`, `OpenArePredicted` and
`NothingIsRaised` follow. The module speaks of one transaction (`ItemAssumption`)
with any attempts in any statuses.

**Deliveries** (`DeliveryProofs`): `FilingStaysSound` (`Spec => []FilingIsSound`)
says that each row is of the gateway at whose endpoint it came, filed under its
id, and if of Paystack's, not invented; that keys are unique, and that each request
that has stored something finds it there. `NoSecondRow` and
`NothingAcknowledgedIsLost` are corollaries; the second unfolds the ids: equal ids mean equal `About`. `EndpointFilesEvents` is
the refinement of `EventTable` by the requests: it needs of the invariant that keys
are unique and that who acknowledges has stored.

**Redaction** (`LogProofs`): `redact` and `Below` are recursive functions over the
nodes of a body. TLA+ gives such a definition a value by CHOOSE, so first it is
proved that there is a function that solves the equation (`RecursionHasSolution`,
built level by level along `Height`), and with it what `redact` and `Below` are at
each node. The induction is over sets and not over predicates: a set of nodes that
contains a node as soon as it contains its children is all of them
(`NodeInduction`, from `WFMin` of the library on the order of the naturals). By
that induction, `RedactWithholds` (nothing below a private key is shown, in whatever
depth, and in lists too) and `RedactShowsTheRest` (nothing else is lost: what is
withheld is below a key that `is_sensitive_key` knows). `LogStaysSilent` is
`LogWithholds` for every run of the endpoint, under the hypothesis
`PrivateIsSensitive` that `is_sensitive_key` knows each key which is private. It is
a hypothesis and not an assumption because it is the point where the code's lists
end: a key that is on none of them is shown. The instance `MCDelivery` satisfies it
with a key in another case, one with hyphens, and one that only contains a
sensitive word.

**Operators** (`LedgerProofs`): among others `ResolveIdempotent`: for every row
and every answer, a second `resolve_transaction` leaves the row alone and does
not move `updated_at`; and `AttemptsSettle`: nor does it move the attempts
(`SecondAdvance`: it moves them if and only if the first one did;
`AdvanceIdempotent`: to where they are).

Only model-checked: the liveness properties `PaymentsAreDecided`,
`EventsAreClosed` and `EveryEventIsFiled` (fairness and ENABLED are beyond the
prover), and the findings, each of which is a counterexample. Every invariant and
every action property of the passing runs is a theorem.

## Not modelled, and why

- Cryptography and encodings: an HMAC, a digest, a header's spelling, JSON text.
  A signature is valid or not, a digest has no collisions, a body is an object
  or not.
- `status`, `amount` and `currency` of `WebhookParseResult`: no code in `src/`
  reads them, by design (views.py:1-26).
- Timestamps in results, counts printed by the sweeper, wording of errors, urls,
  apps, migrations: nothing decides by them.
- The sweeper's cache of adapters and `_close_adapters`: one run serves with the
  secrets it started with and ends.
- `Delivery`, `KielSync` and `Refunds` are not one state machine. They meet in a
  row of the webhook table (`Create` in the one, `Receive` in the other) and in
  the row of a transaction (`ResolveReport`, `HandlerCommit`, by the same
  operators of `Ledger`); a product would multiply their states and add no
  interaction, as no part reads another one's variables in between.
- A host that saves a row it loaded before somebody else changed it:
  `perform_transition` would let it. `BeginPayment` and `Review` act on an
  unlocked, current row; the code of hosts is not in `src/`.
- Which payment a number belongs to at Flutterwave, if a host passes a reference
  of digits to `refund`.
- A payment that comes twice: the second SUCCESS is `NO_CHANGE`
  (services.py:135-139), and no part of the code or its documents says more.
- Two rows with equal `created_at`: the code leaves their order to the database.
- `classify` on an exception that is a `GatewayError` already: no caller in
  `src/` passes one.

## Plan

The order in which the modules were written, each on those before it: the ledger
and its processes; the sentences of the docs and the single item; currency, calls
and the way of the money; the invariant of the system and its proof; the abstract
ledger and the refinement; deliveries, ids, settings and redaction; refunds; the
proofs of outcomes, money and deliveries; the abstract table of events and its two
refinements, locks and batches; redaction.

Open: an abstract specification of the money, as `PaymentPromise` is one of the
ledger, that `Refunds` implements and from which the money properties would follow
as `VerdictsAreGrounded` does.
What a host's own code would add (stale instances, retried refunds) has to be
modelled beside that code.
