# Still: a verification project for settings, purchases and sessions

Still blocks short-form video in browsers and on iPhone and Mac. Its switches
sync between a person's devices, must keep working offline and signed out, must
never cross from one account to another, and are written by new clients, by old
2.x clients and by retries that may arrive weeks late. A paid account is bought
on the web or at Apple, travels through two payment services and their
notifications, ends with a refund or a deletion, and is proved to devices with
signed records. Both halves meet in the account session of a browser. These
modules model those parts of the program, check them with TLC and prove with TLAPS
the settings row, the sync of devices with it, the webhook, the ledger of rights,
managed checkout and the extension session.

Paths below are relative to `src/`. `core` stands for `packages/core/src`.

## 1. The system

| Part | Source | State it keeps | Operations |
|---|---|---|---|
| Field order | `core/sync/field-order.ts` | none (pure) | merge, edit, acknowledge one switch |
| Settings row and function | `supabase/functions/_shared/settings-store.ts`, `settings-anchor.ts`, `pg-settings-store.ts`, `supabase/migrations/0015`, `0024` | profile row, anchor (lineage, key, `modern_used`), retained write identities | canonical read, per-field write, 2.x whole-document write, retention |
| Lazy migration | `core/storage/settings-v2.ts` | none (pure) | what an absent, schema-1 or schema-2 document is read as |
| Request parser | `packages/shared-types/src/settings-operation.ts` | none (pure) | which requests exist |
| Atomic settings writer | `core/storage/atomic-settings.ts` | the durable record of an installation: document, ownership, scope, anchor, journal, held choices, pause | `commit`, `enterScope`, `acknowledge`, `initialize`, `mirror`, `replace` |
| SyncService | `core/sync/service.ts` | session it serves, scope it entered, exchange under way, timers, lifecycle counter | `onSignedIn`, `resume`, `signOut`, `reconcileAtomic`, `flushAtomic`, `deleteAccount`; legacy reconcile |
| Safari projection | `packages/ext-safari/lib/reinstall-reconcile.ts`, `app-group-reconcile.ts`, `entitlement-pull.ts` | the copy of the app's record in browser storage, the install ids it was seen under | reconcile, decide after a reinstall, adopt, mirror, seed |
| SettingsCache | `core/storage/cache.ts` | the projection of the record a surface shows | commands, arbitration of projections, fallback reads |
| Safari native channel | `core/storage/safari-native-channel.ts` | queue and outstanding message of a page | send, abort, lost reply |
| Extension session | `core/sync/extension-session.ts`, `teardown-generation.ts` | stored session, entitlement record, last identity, stored checkout operation, teardown count and generation | sign-in, sign-out, deletion, reconcile, checkout |
| Apple session | `core/sync/apple-session.ts` | pending codes, status queue | sign-in, publish |
| Entitlement | `core/entitlement/*` | cached grants and signed access records | verify, expire |
| RevenueCat webhook | `supabase/functions/revenuecat-webhook/handler.ts`, `reconcile-entitlement/handler.ts`, `supabase/migrations/0011`, `0014` | one claim per event; the projection `public.entitlements` | claim, take over, look up, write, complete, release |
| Access rights ledger | `supabase/functions/_shared/pg-access-store.ts`, `apple-access.ts`, `supabase/migrations/0019`, `0020`, `0022` | rights, revocations, observation tokens, links | begin, commit and confirm an observation; refund, link, delete |
| Managed checkout and Stripe webhook | `supabase/functions/_shared/managed-*.ts`, `purchase-operation-store.ts`, `supabase/migrations/0026` | purchase operations; Sessions at Stripe, imports at RevenueCat | prepare, claim, create, recover, bind, record, import, refund |
| Apple host | `apps/apple/StillKit` | the Swift twin of the record in a file of the App Group | as the writer, and crash-safe replacement |
| Extension hosts, UI, rules, analytics, owner admin, scripts | `packages/ext-*`, `packages/app-webview`, `core/ui`, `core/rules`, `apps/owner-admin`, `scripts` | presentation and wiring | |

**How they interact.** A switch goes from a surface through `SettingsCache` to the
one `AtomicSettingsWriter` of the installation, which runs its operations one at a
time on the durable record. If an account is served, the choice is appended to the
record's journal with its rank and the receipt of the last canonical document. The
`SyncService` reads the canonical document (`acknowledge`), then sends the journal's
requests one by one, and acknowledges each answer. The server locks the account,
checks the receipt, claims the request's identity, merges its fields by rank and
commits a new revision. A realtime message only nudges a device to read again.

On Apple devices the record lives in the App Group of the app. Safari's pages save a
switch by a native message, and mirror the answer into browser storage, where the
content scripts read it; the background compares the two whenever a page nudges it.
Deleting the app wipes the App Group and leaves browser storage.

A purchase starts in the extension session, which asks `create-web-checkout` for an
operation and keeps it until it ends. Managed checkout makes one Stripe Session for
the operation and, once it is paid, imports the receipt into RevenueCat. RevenueCat's
notifications (the webhook), every sign-in and every completed checkout look the
subscriber up; the projection and the rights of the account are written from that
lookup, and the right is sent to devices as a signed proof. Refunds come back
through Stripe's events and RevenueCat's. Deleting the account detaches the payment
records and the rights from it.

**What is hard.** Every await of the service is a point where a choice may be
saved, the auth session may be replaced, the service may be torn down or the worker
may die; a call that nobody waits for any more may still reach the server; requests
are retried after their identity has expired; 2.x clients still write whole
documents; and one pause disables every switch. On the paid side every lookup is read
first and committed later, so an older answer can be written over a newer one; the
creation of a Session may be posted only once although its answer may be lost; a
claim outlives the worker that holds it; and refunds and deletions fall between any
two steps of a lookup in flight. `PROJECT.json` lists these hazards
at their lines.

**What makes each part correct.** Field order: the merge is a join, so
deliveries commute and repeat. Row: receipts stay good, retries change nothing, no
field loses rank, revisions name documents. Writer and service: no choice reaches an
account it was not made for, no choice of a pristine installation is lost, an answer
never undoes a newer choice, pauses have reasons, and rested devices converge.
Webhook: an event is acknowledged only when applied, and in the end if what it is
looked up from becomes ready.
Rights: a refund or a deletion is not undone by an older lookup, a revision belongs
to one account, and every outdated proof is under a revocation. Checkout: one
Session that takes the account's money, and a record for every payment. Session: a
purchase is stored only beside the account that made it, and is not lost while open.
Safari projection: a retained choice survives a reinstall until the new app's record
changes, and the copy ends up as the app's record, both unless a page was faster than
the app itself.

## 2. The modules

| Module | Models | Used by |
|---|---|---|
| `FieldOrder` | one field: stamps, `Merge`, `EditStatus`/`Edited`, `SurvivesAck` | all |
| `SettingsRow` | one account's row as a record, and the functions each transaction computes: `Canonical` (migration), `Status`, `RowAfter`, `LegacyWritten` | `SettingsStore`, `AtomicSettings` |
| `SettingsRegister` | the abstract promise of a row: a register per field | `SettingsStore` |
| `SettingsStore` | the row as a state machine under an arbitrary environment of clients; the refinement of `SettingsRegister` | `MCSettingsStore`, proofs |
| `AtomicSettings` | the durable record and the writer's operations, as functions from records to records | `SettingsSync` |
| `SettingsSync` | devices (record, auth session, service), accounts' rows and writes in flight | `MCSettingsSync` |
| `EventLedger` | the abstract promise of a receiver of notifications: at least once, and acknowledged only when applied | `RevenueCatWebhook` |
| `RevenueCatWebhook` | events, claims, workers, the projection and its other writers; the refinement of `EventLedger` | `MCRevenueCatWebhook`, proofs |
| `RightsLedger` | the abstract promise of a ledger of rights: one account per revision, and a removal past every proof that ended | `AccessRights`, proofs |
| `AccessRights` | rights of web and Apple purchases under lookups, links, refunds and deletions; the refinement of `RightsLedger` | `MCAccessRights`, proofs |
| `ManagedCheckout` | purchase operations, Stripe, RevenueCat and the requests that run between them | `MCManagedCheckout`, proofs |
| `ExtensionSession` | the records of one browser and the tasks of its worker | `MCExtensionSession`, proofs |
| `SafariProjection` | the Apple app's record, Safari's copy of it, the background and the pages that write the copy, through reinstalls | `MCSafariProjection`, proofs |
| `MC...` | the constants of the runs | |
| `SettingsRowProofs`, `SettingsStoreProofs` | lemmas and theorems about fields and rows | `SettingsSyncProofs` |
| `SettingsSyncProofs` | lemmas and theorems about devices and their accounts | |
| `AccessRightsProofs`, `RevenueCatWebhookProofs`, `ManagedCheckoutProofs` | lemmas and theorems about purchases | |
| `ExtensionSessionProofs` | lemmas and theorems about the records of a shared browser | |
| `SafariProjectionProofs` | lemmas and theorems about the app's record and Safari's copy | |

Operators marked "Seeded fault" are plausible bugs of the definition after them. No
specification uses them; they show that each property can tell the code from a
broken variant of it (`mutants` in `PROJECT.json`).

### Correspondence with the code

*Row.* `kind`, `version`, `legacy`/`doc` are `profiles.settings` and
`settings_version`; `modernUsed` is `settings_anchors.modern_used`; `writes` is
`settings_writes`, whose `old` says that thirty days have passed. A transaction
holds the account's lock from its first statement to its commit (`lock_settings`,
and the same lock in `write_profile_settings`), so each is one step. A refused claim
and a held commit roll the claim back (`RowAfter`). A receipt is its lineage and
revision: the MAC is taken to be unforgeable, so `SettingsStore` lets clients use
only receipts it has issued; `SettingsSync` gets its receipts from the answers.
The 2.x write is modelled from its current body, in `0024` (0015's, with another
error code).

*Record.* The fields are those of `AtomicSettingsState` and the document. Each
operation of the writer is one function because `transaction` serializes them. Every
branch of `commit` is there: the signed-out local edit (`CommitLocal`), the queued
edit, the unchanged edit and the held edit with its reason (`CommitQueued`), with
the compaction of a never-linked journal that precedes them.
The journal is an array in the code and a set here. Nothing depends on the positions
of its requests but which one `flushAtomic` sends first: the code only appends and
filters, so the array is in the order of the numbers in the requests' identities, and
`First` takes the lowest. `acknowledge` merges the requests into the document one after
another; the merge being the join of a total order, the result is the greatest version
of each field (`MergedPending`), in whatever order they are merged.

*Service.* `svc[d].pc` names the await a service is in. `userId`, `atomicScope` and
`atomicRetirementPending` are the fields of `SyncService`. `stopWriteThrough` is
`lifecycle += 1`: continuations of older lifecycles return at their next check, so a
torn-down exchange disappears from `svc`, and its request, if one was sent, moves to
`inFlight` to be processed late or never. `ownsAtomicSession` before and after every
call is `Owns`; when it fails the exchange is given up (`Abandon`). A call is sent
with the access token stored at that moment, so between the check and the send the
token may be a newer session's (`Subjects`); the check after the await is what keeps
such an answer out. An `onSignedIn` that overtakes a sign-out either lets the queued
`enterScope(null)` run first or finds that it failed. `Enter` returns to the armed
state, so a write-through may come before the first read; the code reads at once, so
this allows more than the code does. `SaveChoice` is possible while the record is
paused: the guard of `commitAtomicIntent` reads a surface's copy, which may be stale,
and `setService` has none. `linked` and `made` are history variables.

*Webhook.* A canonical subscriber is a version; odd versions are Pro. `claims[e]` is
the row of `revenuecat_events`, and `old` says that fifteen minutes have passed since
the claim; `worker[w].late` is the same clock seen from the worker. A refresh of the rights may be not
ready (`Refresh(w, FALSE)`: a partial listing, a missing customer, Apple not ready, an
observation superseded), any number of times and with no fault; the event is released
and answered 500. Every call may
fail before its effect (`Fail`), or commit and lose its answer (`Write(w, FALSE)`,
`Complete(w, FALSE)`, `CompleteUnanswered`). The order in which the users of an event
are looked up is left open.

*Rights.* A lookup is its token; `observed` holds the newest token of an account or
an Apple transaction, as the two observation tables do. Begin, commit and confirm are
transactions under a lock, so each is one step; the provider is read between them.
`rights`, `revocations` and `links` are the tables. `MovePurchase` is a transfer at
RevenueCat. Deletion is the trigger of `0022` and the cascades of the foreign keys
together.

*Checkout.* A request's `pc` names the call it makes next; its `row` is the receipt it
carries. `session` is Stripe, with the charge (`refunded`) and with whether the
customer was sent to it (`offered`); `listing` is RevenueCat. Authentication,
admission, rate limits and missing configuration only end a request (`Abandon`).
Listings are complete here; partial ones, and the interleavings of a lookup that
`Reconcile` takes as one step (it also stands for the already-entitled lookup before
the claim), are those of `AccessRights`.

*Extension session.* `TeardownsRunning` and `fresh` are the teardown count and the
captured generation, `Current` is `current()` of `reconcile` and `createCheckout`.
The checkout queue is `LaneFree`. Asking `current()` for the last time
(`AskComplete`, `AskCreate`) and sending the call (`Complete`, `Create`) are two steps:
the client awaits the admission and reads the token in between, so the call may travel
under a newer session. An entitlement answer is told apart only by the account it is
about, so `record` holds that account. `Restart` may happen at any time and loses the
tasks, not the records.

*Safari projection.* A record is its kind, its generation and commit order, and one
switch; ownership, clocks and journals are not needed to order records. A page may save
a choice at any time, before the app's web view has initialized the record as well;
the history variable `early` says that one did in this install. `app` changes
only under the lock of the App Group, so a choice (`Saved`), an adoption (`Adoption`)
and a pushed copy (`Pushed`) are one step each. `recon.at` names the call or the
storage access a reconcile is at, `seed` is the seeding shared by the reconcile and the
pull, `confirmed` the id this background asked for once. Ids are the number of the
install. A mirror reads the copy and writes it in a later step, in the background and
in each page, because each context has a queue of its own. A page's probe and first
read are one step. Before the reinstall the phone may have been new or updated from
2.x, never signed in there. `Reinstall` asks that an id was recorded once, as the known
gap named at `reinstall-reconcile.ts:24-27` does. `Nudge` stands for every message that
starts a reconcile; the pull may start at any time.

## 3. What is checked

Every action of every specification fires in the passing runs. Deadlock checking is
off in all of them: a person may rest and the counters that bound the runs are
spent, so the systems may stop.

| Run | Specification, size | Properties |
|---|---|---|
| `settings_store` | `SettingsStore`, 68,861 states | `TypeOK`, `StampsWithinRevision`, `ReceiptsStayValid`, `RetriesChangeNothing`, `BookkeepingAgrees`, `RankNeverRegresses`, `RevisionNamesDocument`, `ImplementsRegister` |
| `account_switch` | `SettingsSync` with fairness, 2.0 M states | `AccountIsolation`, `ChoicesStayHome`, `OneAccountPerChoice`, `NoPauseWithoutReason`, `Converges` |
| `two_devices` | `SettingsSync`, 1.7 M states | `RecordIsAccountPlusPending`, `ReplySettlesItsWrite`, `LocalRankHolds` |
| `journal_limit` | `SettingsSync`, 0.8 M states | `TypeOK`, `PristineChoicesSurvive` |
| `webhook_claims` | `RevenueCatWebhook` with fairness, 0.74 M states | `TypeOK`, `AcknowledgedIsApplied`, `LiveClaimStands`, `ImplementsLedger`, `EventuallyAcknowledged` |
| `access_rights` | `AccessRights`, 1.4 M states | `TypeOK`, `OutdatedProofsAreRevoked`, `KnownRefundStands`, `OrphansStayInactive`, `ImplementsLedger`, `AppleRefundIsFinal` |
| `managed_checkout` | `ManagedCheckout`, 0.6 M states | `TypeOK`, `OnePayableSession`, `PaymentsAreTraceable`, `LedgerFollowsStripe`, `AnsweredRefundIsFinal` |
| `extension_session` | `ExtensionSession`, 2.0 M states | `TypeOK`, `PurchasesStayHome`, `OperationsAreKept` |
| `safari_projection` | `SafariProjection` with fairness, 2.7 M states | `TypeOK`, `RetainedChoiceStands`, `CopyFollowsApp` |
| `sign_out_pause` | `SettingsSync`, violated | `SignOutReleasesPauses` |
| `held_choices` | `SettingsSync`, violated | `HeldChoicesStayHome` |
| `projection_race` | `RevenueCatWebhook`, violated | `RacesCollapse` |

### Bounds, and why they are enough

- `settings_store`: two fields, a service switch and the free-tier site switch that
  copies it; two identities, so an identity can be reused with another body; a
  foreign lineage, so receipts can be refused; one retained identity, so the store of
  identities fills; `MaxRevision` 3, so the last revision is reached and commits are
  held; steps up to 1, so equal ranks with different values meet; rows that start
  empty or as schema 1 at version 0 or 1. `MaxAccepted` 2 bounds the history of
  accepted requests: the properties speak of one request against a later change.
- `account_switch`: three sign-ins give A, B and A again, which is where an old
  session of the same account meets a new one; a record that starts fresh or as a 2.x
  upgrade of unknown ownership; rows missing or schema 1; two choices, so one is made
  in each of two scopes; one fault, which may be a failed retirement, a lost answer or
  a dead worker; a journal of two.
- `two_devices`: interchangeable devices (symmetry is sound: no constant names one),
  fresh records, two choices, a sign-in each, one fault, one 2.x write and one field,
  so that every choice competes for the same field.
- `journal_limit`: the code's limit is 64. A never-linked journal compacts to one
  request per field, so a limit of three over two fields lets the journal reach it
  only in an account's scope, as in the code; four choices fill it and overflow it.
  The step bound of two makes the saturated step (`ordering-hold`) reachable.
- `webhook_claims`: one event that names two users, so that it can be applied to one
  and not to the other; two workers and three tokens, so that a claim is taken over
  while its first owner still runs and again after that; two faults, so that a
  completion can be lost and the release after it as well; one user who may leave and
  one who signs in, so that the projection has every writer it has in the code.
- `access_rights`: two accounts, so that rights move between them; one web and one
  Apple purchase, whose tables of tokens differ; two lookups, so that each property
  meets an older and a newer one; two operation ids and revisions up to 1, so that a
  link can be repeated, refused as stale, and made back. Symmetry is over accounts,
  operations and lookups, which no constant names apart.
- `managed_checkout`: one account, as operations of two accounts share no state but
  the ids; two operations and two Sessions, so that a second one could be payable
  beside the first; two requests, so that every step meets every other; one payment,
  so that one Session is paid and another not.
- `extension_session`: two people on one browser; two tasks, so that each pair of
  operations interleaves at every await; three sign-ins, for A, B and A again;
  two purchases, so that a new operation can follow one that ended.
- `safari_projection`: two installs, so that the copy of the first meets the record of
  the second; orders up to 2 and one change of account, so that the old copy is higher
  than, equal to or lower than the new record, and may be at the limit; one page and
  one fault (a lost message, a failed first read or a stopped background). In the last
  install a state with `early` has no successors (the constraint `EarlyEndsIt`): `early`
  holds there to the end, and neither property says anything of such states. Without
  the constraint the safety properties hold on 7.3 million states. The bound on orders is
  what makes the app's record rest in the end, which `CopyFollowsApp` speaks of.
- `projection_race`: two events about one user and no fault at all.

`MaxEdits`, `MaxLogins`, `MaxFaults` and `MaxLegacyWrites` are guards that stop
the environment; in `SettingsStore` the guard on `WriteProfileSettings` is a bound
too (the code does not bound that path). `Lookups`, `Requests`, `Tasks`,
`Workers`, `Tokens`, `SignIns`, `Leavers`, `MaxSignIns`, `MaxPurchases`,
`MaxPayments`, `MaxInstalls`, `MaxOrder`, `MaxGeneration` and the `MaxRevision` and `MaxFaults` of these modules bound
their environment in the same way.

### Fairness

`FairSpec` assumes, for each device, weak fairness of the service's own steps
(an await settles or times out, and its continuation runs), weak fairness of
`OnSignedIn` (a stored session's event is delivered, or found at the next wake), and
strong fairness of `Reconcile`: `scheduleRetry` after a failure and
`scheduleRefresh` after an exchange read the account again, although uploads started
by choices may come in between and make the read wait. Nothing is assumed of the
person, of faults, of 2.x clients or of late writes. `Converges` speaks of devices
that are signed in and not paused: held choices are never uploaded by the program
itself, so a paused device waits for a person, by design.

`FairSpec` of `RevenueCatWebhook` assumes that the platform runs a worker it has
started (weak fairness of the steps of each worker), that time passes (`Age`), and
that the provider sends an event again until it is answered 200 (`Start` and
`AnswerDuplicate`). `SourcesSettle` is one more assumption, about the provider and Apple,
which nothing in the code enforces: a refresh that the deliveries of an event reach again
and again is ready again and again (strong fairness). Until then it may be not ready
any number of times, and if it never is the event is retried for ever and rightly never
acknowledged. Crashes, lost answers and deletions need no fairness; they are finitely
many (`MaxFaults`, `Leavers`). `EventuallyAcknowledged` then rests on the takeover:
without it an event whose worker died would be claimed for ever.

`FairSpec` of `SafariProjection` assumes weak fairness of the nudge, which a visible
page repeats every fifteen seconds (`reconcile-nudge.ts:35`), and of the steps of the
background's reconcile, seeding and pull, whose calls settle. Pages, the app, lost
messages and stops need no fairness.

`AccessRights`, `ManagedCheckout` and `ExtensionSession` state no liveness. A claim
whose POST may or may not have arrived keeps the account's one open operation until
Stripe shows a Session, by design; lookups and tasks may be superseded for as long as
newer ones come.

### Findings

The first two concern a choice made after a never-linked installation has entered an
account's scope and before the first answer of that account. It is held and pauses
the record (`awaiting-anchor`).

1. `sign_out_pause`: signing out, and every later wake, keep that pause
   (`atomic-settings.ts:325`, `:348`, `:206-221` release ownership pauses), so the
   switches stay disabled outside any account. The note at
   `docs/solutions/logic-errors/empty-account-sign-in-adopts-defaults-not-a-held-overlay.md:48`
   asks for a way out of every pause "through retry, restart and sign-out".
2. `held_choices`: if another account signs in before that answer, the held choice
   is still held and shown over that account's document (`:401-406`), which the test
   named at `core/storage/__tests__/atomic-settings.test.ts:120` and the comment at
   `atomic-settings.ts:394` say does not happen. It is not uploaded
   (`ChoicesStayHome` holds).
3. `projection_race`: the webhook reads a subscriber and then upserts what it read,
   with no version between (`revenuecat-webhook/handler.ts:71-79`). Two events of one
   user, or an event and a sign-in, can write in the other order than they read, and
   the projection keeps the older answer after both are acknowledged. The comments at
   `_shared/revenuecat.ts:3-4` and `handler.ts:64` say that races collapse to the
   current truth. The signed rights do not have this race: their observation token
   fences it, as `KnownRefundStands` shows.

Observed, not counted as a finding: a schema-1 row at version 0 reads as revision 1,
and its next 2.x write has version 1, so one revision names two documents.
`RevisionNamesDocument` names the exception. It is harmless, because an
acknowledgement replaces the document even at an equal revision.

Also observed, with no run of their own:

- The header of `reinstall-reconcile.ts` promises two rules "whatever order the app, the
  popup and this background run in" (`:10-24`). The code keeps neither in every order, and
  the properties leave out the orders in which it fails.
  The first rule is `RetainedChoiceStands`, for a committed copy and an install in which
  no page saved a choice before the app had a committed record (`~early`). For a 2.x copy
  it fails: `settle` sees no record and hands over to the ordinary reconcile (`:131`),
  which reads the app again (`app-group-reconcile.ts:51`); if the app has saved its first
  record in between, that record outranks any 2.x copy and is written over it. Dropping
  `copy.atomic` from the property shows it in eleven steps and without a fault. With
  `early` it fails too: Off and On again in a 2.x record is converted to a record nothing
  tells from an untouched one, and the next answer to a page writes it over a retained Off.
- The second rule is `CopyFollowsApp`, for a last install in which no page saved a choice
  that early. Otherwise the app holds a 2.x record when the reconcile asks: it
  records the new install id without a decision (`:131-135`), the record is converted to
  order 0, and nothing tells the old copy from the new install any more, so a higher copy
  never follows. Such a page exists: legacy pages save with no record or a legacy
  one (`packages/ext-safari/lib/safari-v3.ts:35-40`, `core/storage/chrome-adapter.ts:113-130`,
  `SharedSettingsStore.swift:163-175`). `<>[]Follows` without the proviso is violated by it.
- `replace` reads the copy again right before it writes (`:120-128`), which the comment
  calls a compare-and-set; the two are steps (`Reread`, `Replace`), and a mirror between
  them is overwritten until the next reconcile.
- A page that shows a retained copy of higher order refuses the reinstalled app's record
  (`Answered`; `cache.ts:677`) until it is loaded again.

- `verifyCode` reads the published state and its generation, then awaits the user
  and writes the record with no second look (`core/sync/extension-session.ts:581-582`;
  `Check` and `Grant`). A sign-out that purges between the two is overwritten,
  although the comment at `:576-577` says it must not be. In the same way
  `onEntitlementConfirmed` runs after the last fence of a reconcile (`TellSync`). No
  property of the run speaks of the record or of the service's state, so `TellSync`,
  `Check`, `Grant` and `sync` only show where these steps fall; `Answered` does the same
  in `SafariProjection`.
- The test named at `core/sync/__tests__/sandbox-checkout-recovery.test.ts:213` says that
  account B never sends account A's operation to completion or creation. It holds up to
  the last `current()`. The client then awaits the admission and reads the token
  (`core/sync/profile.ts:96-101`, `:116-120`), so a code verified in that window sends A's
  operation id under B's token; and a creation that names none opens an operation of B's
  on behalf of A's task. The server refuses the first, and the check after the call
  keeps the second out of the slot: `PurchasesStayHome` states what remains true.
- `verifyCode` means to keep the pending purchase of a person who was never synced and
  signs in again (`core/sync/extension-session.ts:556-559`). If the last-synced identity is
  still another account's, it does not: Alice signs in after Bob, opens an operation, loses
  her session before the first mirror and signs in again; `previous` is Bob a second time,
  and the purge takes her own open operation. The server still holds it and the next
  checkout resumes it. `OperationsAreKept` allows this purge by name (`Replaces`).
- A worker stopped between the replacement of the stored session and the purge
  (`Authenticate`, `Purge`) leaves the previous person's record until the next
  reconcile.
- Account deletion travels under whoever is stored when it is sent
  (`core/sync/service.ts:672`, `Erase`); its answer is compared with the captured
  session before anything local is dropped.
- The server scopes revocations by former holder (`0020:331-332`), the extension
  stores them by right alone (`core/entitlement/access-record.ts:62-95`).
- `transfer_access_right` (`0020:253-307`) has no caller in the repository and is not
  modelled.

## 4. What is proved

Eight modules of proofs, checked to the last leaf, for every set of fields, accounts,
identities, requests, events, workers, purchases, Sessions, lookups and tasks and for
every bound.

**The algebra of a field** (`SettingsRowProofs`). The merge is commutative,
associative and idempotent (`MergeCommutative`, `MergeAssociative`), absorption is a
partial order (`AbsorbedOrder`) and the merge its least upper bound (`MergeIsJoin`).
An edit outranks what it replaces (`EditWins`), and a journal entry survives an
acknowledgement exactly when the account has not absorbed it (`AckRetiresAbsorbed`).
The tie rule (Off wins) is needed for all of them: a tie that chooses what arrives
breaks commutativity.

**The row** (`SettingsRowProofs`, `SettingsStoreProofs`). `Invariance` proves

    IInv == TypeOK /\ BookkeepingAgrees /\ StampsWithinRevision
            /\ ReceiptsStayValid /\ RetriesChangeNothing

`RetriesChangeNothing` is not inductive alone. A repeated request is answered
"ready" without being merged, so it must be known that a retained identity belongs to
an accepted request (`BookkeepingAgrees`). A whole-document write replaces the
document, and keeps every accepted request absorbed only because a request accepted
by a row that is still schema 1 changed nothing, so it named only fields the document
supplies, which are stamped with the row's revision, and its bases are below that
revision and, the revision growing, below the next one; this needs that receipts, and so
the bases of requests, are within the revision (`ReceiptsStayValid`) and that stamps
are too (`StampsWithinRevision`). The action properties `RankMonotone` and
`RevisionsNameDocuments` and the refinement `Refinement` follow from the invariant
and one lemma on the shape of a step (`StepShape`): the row stands still, a schema-1
row is replaced with the next version, or a request is merged with the next revision.

**Devices and their accounts** (`SettingsSyncProofs`). Every safety property of the runs of
`SettingsSync` is proved, for any number of devices and accounts, any journal limit and
any numbers of choices, sign-ins, faults and 2.x writes. The invariant is

    IInv == Counts /\ RecordsOK /\ SessionsOK /\ RowsOK
            /\ JournalsOK /\ SentOK /\ RepliesOK /\ AnchorsOK

None of the properties is inductive, because each speaks of one place a choice passes
through and holds there only because of the others:

- `RecordsOK` is what is true of one record alone. Its `OneHome` is `AccountIsolation`;
  it needs `Provenance`, that a journal without receipts was made outside any account,
  as entering a scope carries exactly such a journal along. `JournalUnderDoc`
  says that the document shows at least what the journal holds, which compaction and
  edits need for `PristineChoicesSurvive` (`Kept`).
- `SessionsOK` relates the session a service was started for to the one stored: the same,
  an older one, or none stored. It is what the checks around each await rest on.
- `JournalsOK` and `SentOK` follow a choice from where it was made (`made`) through the
  journal, the hands of a service, a call nobody waits for and the row that accepts it.
  A request that was sent is the one the journal still holds, and a request bound
  to a receipt has its home there for good. `ChoicesStayHome` and
  `OneAccountPerChoice` are consequences.
- `RepliesOK` says that an answer in hand does not exceed the row, is the document of
  its revision, and has absorbed the write it answers (`ReplySettlesItsWrite`); an answer
  under another account's token is in the hands of a service whose session is no longer the
  stored one, so the check after the await drops it.
- `AnchorsOK` relates an anchored record to its account's row: the revision is not ahead;
  at the row's own revision the record is the account's document with the journal on top;
  and every field of the document is in the journal or known to the account. The last part
  must also hold against an answer in hand that the record would accept, which is
  what makes `LocalRankHolds` provable: the write that put a field there was retired by
  an answer at most as new.

TLC checked `IInv` as an invariant of all the instances before it was proved. The steps
are proved through two lemmas: `DeviceStepKeeps` for a step that changes one record, one
service and one stored session, and `RowStepKeeps` for a step of one row. That a finite
journal has a greatest version of each field, and a first request, is proved without
induction over data, by taking a minimal set without one in the well-founded order of
the subsets of a finite set (`GreatestVersion`, `FirstIsOne`).

`RecordsShowTheAccount` assumes `StartRowsNumbered`, that no row starts as schema 1 at
version 0. Such a row shares revision 1 with its successor (see the observation in
section 3), so without the assumption the property is false until the next read; the
runs start their schema-1 rows at version 1. The other theorems do not assume it.

**The webhook** (`RevenueCatWebhookProofs`). Every safety property of `webhook_claims`
is proved, and the refinement of `EventLedger`. The invariant is

    IInv == TypeOK /\ CauseWithinCanon /\ (\A w : WorkerAgrees(w))
            /\ AcknowledgedIsApplied /\ LiveClaimStands

`AcknowledgedIsApplied` is not inductive: a worker completes an event when no user is
left to look up, so what it has done so far must be known. `WorkerAgrees` says that
every user of its event who is not left and still exists has been written from a
version at least as new as the event's. That the version it looks up is new enough
needs `CauseWithinCanon`: no event announces a version the provider has not reached.
The step of one worker must not disturb what another has done, late workers included:
the newest version written only grows (`written`). `LiveClaimStands` is inductive
because a claim is taken over only when it is old, and its holder is late from then on.

**The ledger of rights** (`AccessRightsProofs`). Every property
of `access_rights` is proved. The invariant is

    IInv == TypeOK /\ RowsAgree /\ RevocationsWithinRevision
            /\ LooksAgree /\ OrphansStayInactive

`RowsAgree` relates the stage, the holder and the revision of a row;
`RevocationsWithinRevision` says that no revocation passes the revision of its right,
so that a right in force is never under one; `LooksAgree` says that a lookup of an
account commits purchases alone and signs nothing it will not confirm. From it follow
the action property `AppleRefundIsFinal` and, one transaction at a time, the
refinement: each commit, link, refund or deletion is a `Change`, `Leave` or `Send` of
`RightsLedger` or leaves it alone. `OutdatedProofsAreRevoked` is not proved on the
detailed ledger at all: it is `Covered`, which `PromiseKept` proves of the abstract
one, read through the refinement. `KnownRefundStands` needs a second
invariant, `RefundInv`: once an account's refund is known, no lookup that still has
the account's token holds an answer from before the refund (`FreshLook`).

**Managed checkout** (`ManagedCheckoutProofs`). Every property of `managed_checkout` is
proved. The invariant is

    IInv == Types /\ Ledger /\ ClaimsAreSingular /\ RequestsAgree
            /\ SettledLookups /\ AnsweredRefundIsFinal

`Types` also types the requests; `Ledger` joins the three safety properties of the
ledger with `SessionsAgree`, `BindingsAgree` and `OneOpenOperation`. That an operation
has one Session needs `ClaimsAreSingular`: the request about to create one is the only
one of its operation, and no Session exists yet. `OnePayableSession` then is no part of
the invariant but a consequence: of two operations of one account one is terminal, and
the only Session of a terminal operation has expired or was refunded. `RequestsAgree`
says that what a request was told of its Session holds until the request acts on it,
which is why a readback that is old when it is recorded does no harm: paid, refunded
and expired are never taken back. `AnsweredRefundIsFinal` needs `SettledLookups`: a
commit that settles a refund takes the token, so that every lookup that saw the
purchase owned has lost it, and a listing read later shows the refund. The claim and
the lookup's token are the two fences the proof rests on; every other step is covered
by one lemma on a request that goes on (`OneActs`) and one on a row that does (`RowStep`).

**The extension session** (`ExtensionSessionProofs`). Every property of
`extension_session` is proved, for any number of tasks at once. The invariant is

    IInv == Queue /\ SessionsAreNumbered /\ AnswerIsOwn
            /\ PurgedStaysEmpty /\ PurgeOfOthers
    Queue == Typed /\ TasksAreNamed /\ OneInLane /\ LaneOwnsOperation
             /\ LaneFollowsSlot /\ SlotOwnsOperation

Neither property is inductive, because a task holds an operation it took from the slot
some awaits ago. `OneInLane` is the queue of `serializeCheckout`; `LaneOwnsOperation`
says that the operation taken is that of the task's own session. The answer of a
creation need not be: the call may have travelled under a newer session. `AnswerIsOwn`
says that then the task's own session is not the stored one, and `SessionsAreNumbered`
that it never will be again, so the `current()` before the slot is written
fails. `LaneFollowsSlot` says
that a slot which still names the task's account holds the operation the task took:
inside the queue only a purge writes the slot, and it leaves the slot naming nobody. So
`Completed`, which clears the slot without comparing it, cannot lose another operation
of the same account, and a checkout stores nothing over one that is still open.
`PurgedStaysEmpty`, the second part of `PurchasesStayHome`, rests on the teardown count:
while a sign-in runs nobody passes `current()`. `PurgeOfOthers` is what
`OperationsAreKept` needs of a sign-in that purges. The proof does not use the
generation, which is for what a reconcile writes. `Typed` is `TypeOK` without the bounds of
the model. That the bounds hold as well (`TypeCorrect`) is a second induction on top of
`IInv`, with `RecordsFit`: a number a record or a task carries has been made for its
account, and a new one is made only while the set of all operations made so far has
fewer than `MaxPurchases` members, so that the account's own part of it has too.

**Safari's projection** (`SafariProjectionProofs`). Every safety property of
`safari_projection` is proved: `TypeOK`, with no bound on early choices, and
`RetainedChoiceStands`, whose own antecedent leaves out the installs in which a page
saved a choice early (section 3 says what happens in them). The invariant is

    IInv == Typed /\ (~early => Guarded)
    Guarded == AppLeads /\ OnlyFirst /\ ChoiceWaits

Within an install `early` only becomes true (`EarlyStays`), and a reinstall, which
resets it, leaves nobody holding anything (`ReinstallInvariant`).
The reconcile and every page read a record, wait, and write what they decided on, so
the choice is safe only because of what each of them may hold meanwhile. `ChoiceWaits`
says it: while the app's record is untouched and the copy holds an Off it can still
adopt, nobody is past the decision to write the copy, a reconcile that has read the copy
holds it as it is, and a page that may save shows On, so that it can only save Off. It
is inductive only with `OnlyFirst`: the app's first record must not meet a committed
record that somebody still carries from before; and with `AppLeads`, which puts the
app's first commit before any offer. `Typed` adds to `TypeOK` that what is offered is a
record. TLC checked the invariant on the instance of the run, without its constraint,
before it was proved. That the background's steps are safe is a matter of which step it is at
(`EarlyStep`, `DecisionStep`); the one that needs the data is the app's answer to an
offer (`AdoptionFacts`): a choice it can adopt makes its record one that was touched.

*Assumptions*: only the named ones about the constants, which TLC evaluates in every
run: `FieldsAssumption`, `BoundsAssumption`, `OpSetsAssumption`, `MaxStepAssumption`,
`AccountAssumption`, `StoreBoundsAssumption`, `AffectedAssumption`,
`TokensAssumption`, `NoneAssumption`, `FaultsAssumption`, `RightsAssumption`,
`SyncBoundsAssumption`, `StartRecordsAssumption`, `StartRowsAssumption`,
`RequestsAssumption`, `NoScopeAssumption`, `AccountsAssumption`, `RecordsAssumption`.
The records of `SettingsSync` start fresh or
upgraded from 2.x, and its rows missing or as schema 1, with room below `MaxRevision`
for the 2.x writes of the run, whose path the code does not bound; a request may carry
any one field at any rank, and `None` is no scope, session, account or pause. `Parent`
maps a site switch to the service it copies; `OpSets` holds at most one operation per
field, which is what the request parser admits.

*Model-checked only*: liveness (`Converges`, `EventuallyAcknowledged`, `CopyFollowsApp`),
which is out of the prover's reach. Every invariant and action property of a passing run
is the statement of a theorem.

## 5. What is not modelled

- `updatedAt`, `syncEpoch`, `syncMetadata`: they order 2.x records; `sequence` outside
  `SafariProjection`, and saturation of `generation`.
- `replace`, the branch of `commit` for records from before the atomic format, and
  records paused `ownership-hold` by an older build.
- The legacy whole-document reconcile of `SyncService`.
- Malformed, oversized or future documents, rate limits, byte bounds, cryptography,
  grants. A request refused for one of them leaves the row alone.
- Of purchases: signatures and key hashes, the QA environment, membership refusals,
  disputes and reports of operators, exports and the erasure of analytics.
- Of the extension session: the record of pending codes, the checkout tab, the
  throttle of nudges, the checkout of older builds.
- Of the Safari projection: failing browser storage and the one retry after it, the purge
  of the entitlement, what content scripts show.
- The rest of `SettingsCache` and the adapters, the Safari channel, the Apple session, the
  Apple host's files and the other browser hosts. Their hazards are listed in `PROJECT.json` with a note.
- User interface, rules of the blocked sites, analytics, the owner's admin pages and
  the scripts of builds, releases and deployment. They are most of the lines of the
  repository: presentation, data and sequential tooling around the system, with little
  state that more than one actor shares. This is why the modules stand for a small
  share of all lines.

## 6. Plan

Done: the settings row, its register and their proofs; the writer, the sync service and
their proofs; the webhook and the ledger of rights with their abstract promises and
proofs; managed checkout and its proofs; the extension session and its proofs;
Safari's projection and its proofs.
Next, in this order:

1. `SettingsCache`: the rest of the cache, with the answers of one writer arriving out of
   order at several surfaces; abstract specification: a surface shows a
   prefix of the writer's history that never goes back.
2. `LegacySync`: the whole-document reconcile (`decideReconcile`, the held write,
   write coalescing) and its last-writer rule.
3. `SafariChannel` and the Apple session: one outstanding message with lost replies;
   statuses published in order.
4. `BackingFile` and the install-time initialization: a crash between two steps of a
   replacement, and a rejected write that was stored.
