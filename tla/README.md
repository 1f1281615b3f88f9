# VIP channel management: a TLA+ verification project

The system sells access to private Telegram channels in exchange for a referral:
a person registers at an exchange under a tenant's referral link, sends the bot
their exchange UID, and is invited into the tenant's VIP channel. A periodic job
re-checks every member, warns those who stopped qualifying and removes them.
This directory models that core, checks it with TLC on small instances and proves
parts of it with TLAPS for all instances.

## 1. Inventory

| Component | State | Operations | What is hard about it |
|---|---|---|---|
| Eligibility rule (`app/domain/eligibility.py`) | none | `evaluate_referral` | an outage must not read as a fault |
| Compliance rule (`app/domain/compliance.py`) | none | `decide_compliance` | boundaries of grace, interval, cap over many passes |
| Membership monitor (`app/jobs/membership_monitor.py`) | the loaded memberships of one transaction | `run`, `_process`, `_apply` | Telegram calls inside a transaction; rows loaded long before use |
| Period lock (`app/jobs/period_lock.py`, `JobExecution`) | a row per (tenant, job, period) | `claim_period`, `finish` | two instances, rollback of a claim |
| Scheduler (`app/jobs/scheduler.py`) | none | `active_tenant_ids`, `run_compliance_sweep` | commit, rollback, overlapping passes, one tenant's trouble and the others |
| Onboarding (`app/services/referral_onboarding.py`) | account, subscription, membership, user rows | `submit_uid` | two updates at once; two reads with a commit in between |
| Invite service (`app/services/invite_service.py`) | the link on the membership row | `issue`, `_live_link` | Telegram mints before the row is committed |
| Webhook (`app/adapters/web/routers/telegram_webhook.py`) | one transaction per update | `receive_update` | reply after commit, lost replies, crashes |
| Bot conversation (`app/services/bot_conversation.py`) | `pending_market` | `handle` and its branches | a choice made in one update and used in another |
| Admin API (`app/adapters/web/routers/admin.py`) | credentials, program, channel, bot rows | upserts, integration check | edits under a running sweep; verification that goes stale |
| Tenant isolation (`app/core/tenant_scope.py`, middlewares) | the tenant bound to a session | `bind_tenant`, hooks | every transaction of a pooled connection must be bound |
| Providers (`telegram.py`, `bitunix.py`) | none | HTTP calls | timeouts whose effect took place; replies that say nothing |
| Factory, crypto (`provider_factory.py`, `core/crypto.py`) | the key in the environment | `_secret`, `encrypt_secret`, `decrypt_secret` | secrets sealed with another key |
| UID validation (`app/domain/uid.py`) | none | `normalize_uid`, `is_valid_bitunix_uid` | one number, several scripts |
| Payments | payment rows | one insert | duplicate hashes |

Interaction: webhook handlers, sweeps and admin requests never call each other.
They meet in the database (rows, row locks, unique keys, pooled connections) and
in Telegram (links, standings in the channels). A handler is cut at its awaits; a sweep awaits between any two members
and between the Telegram calls of one member.

What makes each part correct:

* rule: nobody is removed without the full course of grace and warnings;
* sweep: at most one per period; counts agree with what was sent; rows, channel
  and entitlement agree; a failure loses nothing but time;
* onboarding: one exchange account backs one member; invited means a link exists;
  one open link, one subscription; every update ends;
* conversation: a UID is submitted for the market the user was told, never for a
  guessed one; nobody is led to a dead end; a number is one account;
* pass: a tenant that is set up is swept whatever other tenants do; passes end;
* tenant isolation: a session sees all rows of its tenant and no others;
* admin: token, bot row and route appear together; what is marked verified was
  verified.

The hazards, each at its line, are listed in `PROJECT.json`.

## 2. Modules

| Module | Models | Uses |
|---|---|---|
| `Eligibility` | the referral rule as an operator | |
| `Compliance` | `decide_compliance`, and the row `_apply` leaves for each decision | `Eligibility` |
| `MembershipCourse` | abstract specification: the life of one membership | `Compliance` |
| `MembershipCourse_proofs` | its theorems | |
| `VipStore` | the state handlers and sweeps share: committed rows, locks, links, channels; what onboarding writes into a row | `Compliance` |
| `MembershipMonitor` | the sweep, by any number of instances, with claim, failures, crashes, deadlock | `VipStore`, `MembershipCourse` |
| `MembershipMonitor_proofs` | its types and the exclusive claim | |
| `MonitorRecords_proofs` | its rows, messages and removals; the refinement of the course | |
| `ReferralOnboarding` | `submit_uid` cut at its awaits, any number of updates at once | `VipStore` |
| `VipStore_proofs` | lemmas about the shared rows, locks and links | |
| `UnitOfWork` | what an UPDATE of a loaded and changed row writes | |
| `Bitunix` | what the adapter makes of the exchange's reply | `Eligibility` |
| `Uid` | normalisation and validation of a UID | |
| `BotConversation` | a user's updates, cut at their reads, under an admin's edits | `Uid`, `UnitOfWork` |
| `TenantScope` | sessions, pooled connections, row policy and loader criteria | |
| `ComplianceScheduler` | the pass over all tenants, API requests, keys | `TenantScope` |
| `AdminCredentials` | the bot token: storing, installing, verifying | `UnitOfWork` |
| `ReferralOnboarding_proofs`, `BotConversation_proofs`, `AdminCredentials_proofs`, `ComplianceScheduler_proofs` | their theorems | |
| `MC...` | constants for TLC | |

### The database

A transaction reads committed rows (READ COMMITTED) and keeps its changes to
itself. SQLAlchemy's unit of work writes, of each row a transaction loaded, the
columns whose value changed: `Merge(cur, seen, new)`. A row that was updated or
inserted is locked until the transaction ends; whoever wants it waits, which is a
disabled action (`Free`). An insert that loses a unique key after waiting raises
IntegrityError and the transaction is rolled back. A cycle of waiting
transactions is broken by failing one (`DeadlockVictim`).

`compliance_state`, balances, `last_checked_at` and the committed
`TradingActivitySnapshot`s are written and never read again, and are left out
(the lock on the account row they cause is kept). Only the holder of a period
inserts snapshots of it, so the model keeps the snapshots of an open sweep only.

`subs[k].n` counts the subscription rows of a user and market, since the table
has no unique key. `members` is indexed by user and market because a market has
one channel. The statuses ACTIVE, SUSPENDED and EXPIRED of a membership are in the
type and in the rules, but no code of the repository writes them, nor
`joined_at`, so no reachable row has them and `since` is the day of creation.

### The sweep

| Code | Action |
|---|---|
| scheduler fires; `moment` is read (`membership_monitor.py:98`) | `StartSweep` |
| `claim_period` succeeds, `list_by_status` | `Claim` |
| `claim_period` meets a committed row | `StandDown` |
| `_process` and `_apply` of one member | `ProcessMember` |
| a Telegram call raises, after n calls took effect | `TelegramFails` |
| the snapshot's key is violated | `SnapshotClash` |
| `finish` and the scheduler's commit | `FinishSweep` |
| the scheduler's rollback, the FAILED mark included | `Rollback` (part of every failure) |

The members are taken in any order and the account is any account of the user:
neither query has an ORDER BY. A lock is taken in the `ProcessMember` step; the
flush that takes it in the code comes no later than the next query of the sweep.
Telegram's state is changed at once and is not rolled back. `told` is history for
the properties: the periods in which a member was sent a warning, rolled back or
not (`notices` counts the messages of a period).

`Enrol` is onboarding in one step (for what a sweep sees of it). It happens when
it need not wait for a row a sweep holds; the orders in which it does wait are
left to the planned composition.

### Onboarding

| Code (`referral_onboarding.py`) | Action |
|---|---|
| `_ensure_user` looks up (211-218) | `Receive` |
| inserts the user, or not; `get_by_uid` (126-128) | `InsertUser`, `KnownUser` |
| the UID is somebody else's (129-134) | `Claimed` |
| `validate_user` (144-157) | `Ask` |
| the account is saved (159-191) | `Verify` |
| `_ensure_subscription`, read of the membership (193-196) | `Entitle` |
| insert of the membership (272) | `InsertMember` |
| `InviteService.issue` (199) | `Reuse`, `Issue`, `IssueFails` |
| save and commit (200, `telegram_webhook.py:119`) | `Save` |
| the reply (`telegram_webhook.py:133`) | `Deliver` |

`Remove` is a removal by a sweep in one step: as in the sweep, grace, channel and
subscription are those of the account's market, the revoked row is the
membership's. `Start` is another update of the
same user that only creates the user row. The checks of the runs are
`validate_user` of five replies: none, one without a result, one with too small
and one with sufficient deposits, and one whose body is JSON but not an object.
The last one raises an exception nobody catches on the way (`Raises`) and gives no
check; the update fails as in `Fail`.

### The conversation

| Code (`bot_conversation.py`, `telegram_webhook.py`) | Action |
|---|---|
| `parse_update`, `handle` | `PressStart`, `PressButton`, `TypeText` (by `Receive`) |
| `get_by_telegram_id` in `_handle_uid` | `ReadUser` |
| the two queries of `_available_markets` | `ReadPrograms`, `ReadChannels` |
| `_start`, `_handle_uid` after them | `Chosen` |
| `_offer_referral_link` | `Offer` |
| `submit_uid` up to `_ensure_user` | `Submit` |
| the user's INSERT, or its unique key violated | `Insert`, `LosesInsert` |
| commit; exception, rollback and apology | `Commit`; `Fail` (by `GiveUp`) |
| the reply, or its loss | `Deliver`, `LoseReply` |
| `upsert_referral_config`, `upsert_channel` | `PutProgram`, `PutChannel` |

Each query sees what is committed: the lists of `_available_markets` are dropped
when it returns, and SQLAlchemy's identity map is weak, so a later query of the
same session loads the rows anew. Between its two queries an edit may come in
(`programs`). The user's row is held from `ReadUser` to its UPDATE. `expects`, `alone`, `fresh`, `steady`, `sure`
and `offered` are history for the properties: what the user was told and whether
anything has come in between. What `submit_uid` does after its checks is
`ReferralOnboarding`; here it only records the UID.

### The pass over the tenants

| Code (`scheduler.py`, `provider_factory.py`) | Action |
|---|---|
| APScheduler fires, `max_instances=1` | `Fire` |
| `active_tenant_ids` | `OpenRegistry`, `ReadRegistry` |
| a session, `bind_tenant` | `OpenTenant` |
| the factory succeeds / `MissingCredentialError` / `CredentialEncryptionError` | `Build` / `Skip` / `Abandon` |
| `claim_period`: granted, taken | `Claim`, `StandDown` |
| commit; `except` and rollback | `Finish`; `Fail` |
| payment and credential requests | `Receive`, `Commit`, `Reject` |
| redeployment with another key | `ChangeKey` |

`Silent` tenants have a failing member who has blocked the bot: their sweep fails
every time. A session's connection comes from the pool of its process (`Pool`) and
carries the setting `app.tenant_id` from `Begin` to `End`. `creds` is the first
trouble the factory meets among a tenant's secrets, which it asks for in order:
one PUT replaces one secret and the next bad one decides (`AfterPut`), a change of
the key turns stored secrets unreadable (`AfterRotation`). Which one comes next is
left open. `postgres` is FALSE for
SQLite, where only the loader criteria are there. The registry is read by a
session without a tenant.

### The bot token

`Load` is `get_named`, `Store` the flush of the UPDATE or INSERT, `Install` the
bot's row and the webhook route, `Verify` and `CannotVerify` the two outcomes of
`get_me`, `Commit` the end of `get_tenant_session`. The row is locked from `Store`
on. A token stands for its last four characters; `verified` holds the token that
was accepted instead of a time.

## 3. Runs

Days are the unit of time. Grace is one day, a period
one or two days, the warning interval one or two days, one warning is allowed:
the smallest values for which being within and past each limit are different
days. `MonitorOverlap` asks how counts are lost, not when a limit is
passed. Its unit is the period (`DEFAULT_COMPLIANCE_PERIOD`, seven days): the warning
interval (five days) and the life of a link (one day) are less than one unit, so
both are 0 and nobody is seen joining; there is no grace, and two warnings are
allowed.
`MaxDay` is chosen so that the course a run is about fits: admission,
grace, warning, interval, removal, return. `MaxLinks` bounds the links ever
minted, `MaxNotices` the count of messages (0 keeps no history of messages and
rollbacks, where no property reads it).

| Run | Instance | Shows |
|---|---|---|
| `MembershipCourse` | 1 membership, 2 links | the invariant that is proved, and its parts |
| `MonitorSingle` | 1 instance, 1 user, 7 days | the sweep implements the course; count, channel and entitlement agree; it ends |
| `MonitorOverlap` | 2 instances, 1 user, 1 account, 2 markets (both symmetric), 2 warnings, 3 periods | the claim is exclusive; one message in a period without rollback; nobody is removed who was not warned in two different periods, although overlapping sweeps overwrite each other's count |
| `MonitorDeadlock` | 2 instances, 2 users, 2 days | sweeps end although they lock rows in opposite orders |
| `OnboardRivals` | 2 users, 1 UID, 2 updates | the anti-sharing rule; one open link per member |
| `OnboardReturn` | 1 user, 1 UID, 2 updates, removals | invited means linked; entitlement matches; one subscription; updates end |
| `Conversation` | 1 user, 2 markets, 2 updates at once, 1 edit | the right market, none guessed, no dead end, one spelling; updates end |
| `Credentials` | 2 requests at once, 2 tokens, one of them genuine | bot, route and token are one; the mark belongs to a token Telegram accepted; requests end |
| `Scheduler` | 2 processes, 2 tenants (1 silent), 1 request, 2 periods, 1 fault, 1 change of key | a session sees its tenant, and a pass or request its own tenant's rows from first query to commit; tenants set up are swept; passes end |

In `Conversation` a UID has two digits; the texts are a UID in ASCII, the same one
in Persian and Arabic digits with a separator, and a text that is no number. Two updates are enough for every race of two reads
with a write; the invariants were also checked with two edits (1.3 million
states). In `Scheduler` the first process shares one connection between its pass
and the request, the tightest pool; two periods let a pass be late.

Where the code and its documentation disagree, a run states what the
documentation says and TLC finds the behaviour that refutes it:

| Run | What happens |
|---|---|
| `MonitorResend` | a rolled-back sweep's messages are sent again (`period_lock.py:11`) |
| `MonitorWrongChannel` | the removal names the market of the account, which keeps the one it was first submitted for, not the membership's (`models/membership.py:147`) |
| `SchedulerKeyChange` | a credential sealed with an earlier key ends the pass for all tenants after it (`scheduler.py:9`) |

Further disagreements that show in the actions themselves and have no run:

* Two sweeps of neighbouring periods may overlap. Each writes `warnings_sent` as a
  number computed from the row it loaded: both warn and one warning is counted
  (`compliance.py:14`). `WarningsCounted` fails with two instances. A count is
  only ever too low, so nobody is removed for it (`WarnedBeforeRemoval`). That
  property counts the warnings of all spells together: it says little of a member
  who was removed and has come back.
* `SnapshotClash`: a user in two channels is processed twice through one account,
  the second snapshot breaks its key and rolls the sweep back, each time
  (`models/membership.py:191`: "overwrites its own snapshot").
* Two updates of one member with different UIDs do not wait for one another and
  both mint a link (`invite_service.py:12`). `OneOpenLink` fails with two UIDs of
  one user.
* Two overlapping PUTs of the bot token: the second found `verified_at` empty, so
  its UPDATE does not clear what the first has set meanwhile, and a token Telegram
  never accepted is shown as verified; `last_four` may be the other token's in the
  same way (`admin.py:84`). `VerifiedInTurn` fails without `overlap`.
* A bot is marked verified as soon as `get_me` accepts its token (`Verify`,
  `admin.py:264-268`). `models/tenant.py:145` says that `verified_at` is "only set
  once §29's checks have actually passed — token valid, channel present,
  permissions sufficient": neither a channel nor permissions are looked at, so a
  bot without any channel is marked verified. `BotVerifiedHonestly` is about the
  token's check alone.
* PUT /credentials leaves the bot's own `verified_at` set (`models/tenant.py:145`);
  `BotVerifiedHonestly` excuses it by `rotated`.
* `PutChannel`: a channel that was switched off can never be registered again; the
  lookup sees active rows only and the INSERT breaks the unique key.
* A button further up in the chat offers a market whose channel has been switched
  off since; the offer looks at the program only (`bot_conversation.py:106`).
  `NoDeadEnd` excuses it, since something was edited.
* Digits of scripts other than Persian and Arabic match `\d` and are not folded
  (`Uid`, "wide"): one number, several accounts. `OneSpelling` fails with them.
* A reply of status 200 without a result reads as "not registered" rather than as
  an outage (`bitunix.py:125`), and an amount that is no number as zero. A body
  that is not an object is neither: `payload.get` raises AttributeError and the
  whole update, or the whole sweep, fails (`Bitunix!Raises`).
* A tenant with a member who blocked the bot is never swept (`Silent`).
* Payments: `tx_hash` is called unique (`schemas/payment.py:8`) and is not.
* `build_scheduler` is called nowhere in the repository; `Fire` assumes it is.

* `Rollback` undoes the FAILED mark with the claim, so a failed sweep leaves no
  job row (`scheduler.py:11`: failures are "recorded on that tenant's own job row").
* `EnsuredMember` keeps `since`, so a readmitted member gets no grace
  (`PHASE0_SPECIFICATION.md:665`).
* `TelegramFails` after the ban leaves a member banned whom no row calls removed
  (`membership_monitor.py:245`), until a later sweep removes them again.
* `LiveLink` looks at the age of a link only, so a used one is handed out again
  (`invite_service.py:58`: "a usable single-use invite").
* `CheckedAccount` turns a VERIFIED account UNVERIFIED on an outage
  (`models/membership.py:67`: "leaves the previous verdict standing").
* With two accounts of one user, a sweep may remove the member between the reads
  of `Verify` and `Entitle`; `Save` then invites them on an expired subscription
  (`enums.py:42`).

`OneSubscription` holds for one UID per user. Two UIDs of one user at the same
time create two subscription rows, since no key forbids it; no document speaks of
the case, so it is a hazard without a run.

### Fairness

`SF_vars(Advance(i))` for each sweep and each update: every awaited call returns
or times out (`httpx` with a timeout), PostgreSQL serves the waiters of a lock in
turn, the pool its waiters, and deadlocks are detected. Strong rather than weak, because a step that waits for
a lock is enabled and disabled as other transactions come and go. Nothing is
assumed of the scheduler, of crashes, failures or the clock, with two exceptions
in `ComplianceScheduler`: `WF_vars(Fire(i))`, the interval comes round again, and
`WF_vars(Answer(r))`, a request is answered; there, faults are finitely many
(`MaxFaults`). `SweepsEnd`, `UpdatesEnd`, `RequestsEnd`, `PassesEnd` and
`SetUpIsSwept` hold under these assumptions only.

`NoDeadEnd` is claimed for the two markets the `Market` enumeration has; with three
it fails (section 4).

## 4. Proofs

Every safety property of the passing runs is also a theorem, for every value of
the constants: any number of users, markets, accounts, instances, updates and
tenants, and any bound. The constants' assumptions (`CourseAssumption`,
`StoreAssumption`, `MonitorAssumption`, `ConversationAssumption`, ...) are
evaluated by TLC in the runs. Where a theorem has a further hypothesis, section 3
names what happens without it.

| Hypothesis | Says | Without it |
|---|---|---|
| `OneInstance` | one process runs sweeps | two overlapping sweeps count one of two warnings |
| `OneGrace` | all programs give the same grace | the course of a membership has the grace of its own market; a sweep takes that of the account's market |
| `OwnMarket`, always | the accounts of a member's owner are of the membership's market | `MonitorWrongChannel`; the subscription of the other market is ended (`EntitlementMatches`, in the sweep and in onboarding) |
| `OneUidEach`, always | updates and accounts name one UID for each user | two links, two subscription rows |
| `NobodyRemoved`, always | no membership is removed | a link minted before a removal outlives it, and the next is minted beside it |
| `MaxNotices # 0` | the history `told` is kept | nothing is said: the runs without it keep no history |
| `TwoMarkets` | the enumeration has two markets | with a third, a user who picked a market that was switched off is offered the two others, and the UID is submitted for the one picked |
| `FoldedScripts` | digits are typed in ASCII, Persian or Arabic | "wide" digits are not folded |

`OwnMarket`, `OneUidEach` and `NobodyRemoved` are state predicates, assumed along
the whole behaviour (`Spec /\ []OwnMarket => ...`); the others are about the
constants.

**The course** (`MembershipCourse_proofs`). `CourseInvariant`: `FullCourse` is not
inductive, since a removal looks at the last warning only. `Spaced` adds that the
n-th counted warning came at least n-1 intervals after the grace ended, and
`Shape` that the count and the time of the last warning are cleared together. The
step is one multiplication (`OneMoreInterval`) and the facts about the decision
(`DecisionFacts`). `NobodyRemovedEarly`, `WarningsAreCapped` and
`InvitedExactlyWithLink` are its parts.

**The sweep: claims** (`MembershipMonitor_proofs`, any number of instances).
`TypesHold`, one lemma per action. `OneSweepPerPeriod`: exclusiveness by itself
says nothing about who may claim next; `HoldsClaim` adds that a sweep at work
holds the lock of its job row.

**The sweep: records** (`MonitorRecords_proofs`).

* `OneMessage` (`CleanPeriodOneNotice`), for any number of instances. `NoticeInv`:
  a message of a period without a rollback means that the period is done or that
  its holder has passed the member.
* `NobodyRemovedUnwarned` (`WarnedBeforeRemoval`), for any number of instances.
  What a removal looks at is a count that a sweep loaded, perhaps before another
  one wrote it. `WarningInv` (theorem `CountIsCovered`): no row, committed, loaded
  or about to be written, counts more warnings than were sent in periods that are
  done; the one a sweep adds was sent in its own period, which is not done while
  the sweep holds its claim (`ClaimInv`), and so is a further one.
* `CountIsHonest` (`WarningsCounted`): `RecordInv` says that an invited member a
  sweep has loaded has at most got another link since, and that the row it will
  write is one decision away from the one it loaded (`Pending`).
* `CourseImplemented`: every step of a single instance is, for every membership, a
  step of `MembershipCourse` or leaves it alone. The merge of the columns a sweep
  changed is shown to be the row `Compliance` gives for its decision; a commit of
  the sweep is the step `Pass` of the course, on the day the sweep read.
* `RemovedMayReturn`, `RemovedIsOut`, `EntitlementsFollow`: `RemovalInv` adds
  that subscription and standing go with the committed row (`Agrees`), and that a
  running sweep has put out, and is about to end the subscriptions of, exactly those
  whose removal it has to commit (`EndsOf`).

**Onboarding** (`ReferralOnboarding_proofs`, any number of updates at once).
`TypesHold` needs what each stage has filled in (`Staged`). `AccountsNotShared`
(`OneAccountOneMember`): a member's account is the owner's (`BackedByOwn`), which
an update knows from its read to its commit because it holds the account's row
(`KnowsAccount`). `InvitationsComplete`, `SubscriptionsSingle`:
with one UID for each user the account's row is also a lock on the member, so that
what an update read of the membership is still so when it saves (`MemberInv`).
`EntitlementsAgree` needs `OwnMarket` besides: only then does a removal end the
subscription of the membership it revokes (`EntitleInv`).
`SingleOpenLink`: a link that is on its way out is recorded in the member's row
(`LinkInv`).

**The conversation** (`BotConversation_proofs`, any number of hooks and edits).
Each handler has a lemma that says what it does to its update (`OfferDoes`,
`SubmitDoes`, ...); the invariants are built on one another.

* `TypesHold`: from the choice on, an update has a market (`HookInv`).
* `RowsInv`: an update that is alone has the user's row as it is, and its commit
  writes what it decided; rows are never deleted.
* `WelcomeIsKept` (`RightMarket`): what the user was told is what the row says
  (`SureInv`), and an update that expects a market finds it there (`ExpectsInv`).
* `AskedNotGuessed` (`NeverGuessed`): what `_available_markets` has listed is the
  committed configuration, and a market taken without asking the only one there
  is, until something is edited (`FreshInv`).
* `OffersStand` (`NoDeadEnd`): offered markets stay open until an edit, and so is
  the market the user has picked (`OfferedInv`, `SteadyInv`). The second part needs
  `TwoMarkets`: several markets are all of them.
* `SpellingsAgree` (`OneSpelling`): account rows are in ASCII digits (`NumberInv`),
  for texts of any length. `Kept`, the recursion behind `normalize_uid`, is shown
  to have a solution (`KeptIs`) by induction over a set of numbers
  (`SetInduction`, from the well-foundedness of the order).

**Tokens** (`AdminCredentials_proofs`, any number of requests). `OneRoutePerBot`
(`BotIsWhole`), `BotMarkIsHonest` (`BotVerifiedHonestly`: the token's check only,
the others are not made, section 3), `RotationInvalidates`
(`VerifiedInTurn`). `CredentialInv`: from `Store` to `Commit` a request holds the
row's lock (`LockHeld`), so that what it will commit is still true of the committed
rows (`WillCommit`); without overlap it has loaded the committed row (`InTurn`).

**Tenants** (`ComplianceScheduler_proofs`, any number of processes, requests and
tenants). `SessionsApart` and `TenantsIsolated` (`ScopedExactly`): no two sessions
share a connection, a connection carries the setting of its session, a pooled one
carries none (`ScopeInv`). `WorkStaysInTenant` (`OwnTenantOnly`): a pass or request
at work is in a transaction bound to its tenant (`SessionInv`).

Only model-checked: the liveness properties (`SweepsEnd`, `UpdatesEnd`,
`RequestsEnd`, `PassesEnd`, `SetUpIsSwept`), which need fairness, and the three
refuted statements.

## 5. Not modelled, and the plan

Left out for good: cryptography, HTTP signing and parsing, wording, logging,
table creation, test doubles; the endpoints that only read; `format_amount` (it
prints 300 as "3E+2"); payment rows, which nothing reads.

Planned, in this order:

1. Proofs: the course for programs with different graces (`OwnMarket` in place of
   `OneGrace`), and what of `RecordInv` beyond `WarningInv` survives with several
   instances.
2. `VipSystem`: `MembershipMonitor` and `ReferralOnboarding` on one `VipStore`,
   with their opposite lock orders (account, membership, subscription against
   account, subscription, membership); an unused link that outlives a removal.
3. Thresholds and chat ids edited while a sweep runs; an unconfigured market in
   the sweep.
