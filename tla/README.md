# subdux in TLA+

A verification project for [subdux](../src/README.md), a subscription manager: a Go server
(`src/cmd/server`, `src/internal`) over SQLite, with a React front end (`src/web`) built into it.

## 1. The system

One process serves the REST API, the MCP endpoint and the background loops. The database handle has
one connection (`internal/pkg/database.go:95`), so **every SQL statement is atomic and every
transaction runs alone**; concurrency is between statements: HTTP handlers, the loops and their
workers interleave there, and several processes may share one database file (the leases exist for
that). Clocks are read once per operation and carried along.

The web client is one React application. The router mounts one page at a time, and each page keeps its
state to itself; what outlives a page are the access token, the cache of details, local storage, and
**handlers that wait for an answer**: nothing cancels a request when its dialog, form or page goes, and
its continuation runs with the values it captured. Requests of one tab overlap, and neither their
handling at the server nor their answers have an order. Tabs share the refresh cookie and local storage.

| component | state | operations | what is hard | what makes it correct |
|---|---|---|---|---|
| Notification outbox (`service/notification_outbox.go`, `notification_scheduler.go`) | `notification_outboxes`, `notification_logs`, the batches in the workers' memory | scan and enqueue, expire, claim, check, send, record, retry | claim in several statements, leases that lapse, two loops with one owner id, crashes between send and record, late outcomes | one row and one sent log per reminder; exclusivity under a lease; settled rows stay settled; every row is settled |
| Task leases (`service/background_task_lease.go`) | `background_task_leases` | acquire, renew | a run longer than its lease, restarts | one instance runs a periodic task |
| Scheduled backup (`service/backup.go`, `admin_backup.go`) | settings, files | due check, dump, stamp, prune | failures between dump, stamp and prune | success is stamped only after a dump, the newest stay |
| Rollover arithmetic (`service/subscription_rollover.go`), client dates (`calendar-page.tsx`, `subscription-cycle-progress-bar.tsx`) | none | next and previous billing dates, catching up | month ends, leap days, anchors that were themselves clamped; two implementations | the next date is the first one due, the day of the month is kept, both agree |
| Subscription lifecycle (`service/subscription_lifecycle*.go`, `subscription_crud.go`, `subscription_actions.go`) | `subscriptions` | sweep, read-time advance, create, update, renew, delete | stale reads written back, transitions at a boundary while a user writes | status, mode and end date fit; sweeps change nothing a read shows; an ended subscription is not revived by a late write |
| Pages of subscriptions (`features/dashboard`, `actions`, `calendar`, `subscriptions`) | lists, form, drawer, detail cache, busy groups | load, add, edit, delete, renew, snooze, open, close | handlers that outlive their form, answers to old requests, lost answers | a write acts on what was shown; the page ends with the server's data; nothing old in the cache |
| Subscription form, icon picker, dashboard list (`use-subscription-form-state.ts`, `icon-picker.tsx`, `use-dashboard-filters.ts`) | fields, files being read, filters | type, choose, pick, submit, filter, sort | effects that fill fields, an upload after the save, lists that arrive under an open form | what was shown is saved, the last choice of an icon wins, nothing is hidden in silence |
| Icons (`service/subscription_icon.go`, `payment_method.go`) | files, rows that name them | upload, edit, delete | file and row change one after the other, full-row saves | a row's file exists, no file is left over |
| Sessions and refresh tokens (`service/auth_session.go`, `auth.go`, `web/src/lib/api.ts`) | `refresh_tokens`, cookie, access tokens in tabs | login, rotate, logout, revoke, retry after a refresh | rotation races, a login that overlaps a revocation, several tabs | a token is used once; a revocation ends the sessions; nobody is signed out for no reason |
| Login page (`login-page.tsx`) | step, flags, a provider's result | password, second step, passkey, provider | exchanges that overlap or outlive the page | the account shown is the one signed in |
| Two-factor (`service/totp.go`, `totp-section.tsx`) | users' secret, backup codes | set up, confirm, verify, disable | several statements that fail in between | codes belong to the secret in force |
| Account e-mail codes (`service/auth_email.go` and the pages that ask) | `email_verification_codes` | request, verify, consume | a count written back from a copy | a code is guessed a few times only and ends with the change |
| Re-authentication (`service/reauth.go`, `reauth-dialog.tsx`) and the backup tab | tickets in memory, dialog, popup | prove, mint, consume, download, restore | late popups and answers, a dialog that is gone | each run was proven for itself |
| Admin page, settings lists, account tab, import and export, channel form (`features/admin`, `features/settings`) | copies of what the server has | load, change, save, delete, order | overlapping requests, late loads, whole-form saves, masks | the page and the server agree when all is answered |
| Notification channels (`service/notification_channel_ops.go`, `_security.go`) | channels | create, update, delete, enable | count then write, read-modify-write | limit nearly kept, secrets kept |
| Appearance and client rates (`lib/theme.ts`, `display-preferences.ts`, `exchange-rate-cache.ts`) | local storage | choose, expire, look up | tabs that read, change and write it whole | tabs show what is stored; a rate is used for its own pair and while it is valid |
| MCP idempotency (`api/mcp_idempotency.go`, `service/idempotency.go`) | `mcp_idempotency_keys` | lookup, mutate, save in one transaction; replay | retries after a timeout, two requests with one key, a crash after commit | one effect per key, same answer again |
| Subscription events, server-side exchange rates, action centre, task monitor, transports, reports, settings rows, catalogues, translations | rows, tables in memory | | | not modelled, see section 7 |

## 2. Plan

Order of work: what runs unattended and loses or repeats something for a user came first, then what the
server writes from something it has read, then what a user of the client does while requests are under way.

Done:

1. **Reminder outbox**: `ReminderDelivery` (the promise), `NotificationOutbox` (the code), which
   implements it; `NotificationOutboxProofs`.
2. **Billing dates**: `BillingCalendar` (pure arithmetic), `RenewalSchedule` (a date over the days),
   `CalendarView` (the client's dates beside it); `RenewalScheduleProofs` about the three.
3. **Lifecycle writes**: `SubscriptionLifecycle`, abstract in the calendar, instantiated with
   `BillingCalendar` for TLC; `SubscriptionLifecycleProofs`.
4. **Periodic work**: `TaskLease` (the lease alone) and `TaskLeaseProofs`; `ScheduledBackup`, which
   composes the lease with what a run does and implements `TaskLease`; `ScheduledBackupProofs`.
5. **Sessions**: `BrowserSession` (tabs, cookie and refresh tokens together) and the login page, `SignInPage`;
   `BrowserSessionProofs` about both.
6. **Writes from what was read**: `EmailCodes`, `TwoFactor`, `ChannelStore`, `McpWrites`, `IconFiles`,
   composed with `BrowserSession` in `MCServerWrites`; `ServerWritesProofs`, which also has the proofs about
   the channel form and the icon picker of 8.
7. **Pages of subscriptions**: `DetailCache`, `SubscriptionPages`, composed with `SignInPage` in
   `MCSubscriptionPages`; the proofs about the three, and about the subscription form of 8, are in
   `BrowserSessionProofs`.
8. **Other pages**: `AdminBackup`, `AdminPage`, `SettingsLists`, `AccountPage`, `DataTransfer`,
   `ChannelForm`, `SubscriptionForm`, `IconPicker`, `DashboardList`, `RateCache`, `Appearance`,
   composed in `MCWebPages` over `Screens`, the router; `WebPagesProofs` about all but the three named above.

Left, in this order: subscription events as an extension of `SubscriptionLifecycle`, the server's exchange
rates, and the action centre on top of `RenewalSchedule`; each with a run of its own.

The set of runs is small on purpose: one for each question, the parts of a question in one module of
runs. Properties of one subject are conjunctions of named parts (`TokensHold` is `OneLivePerFamily` and
`RevocationEndsSessions`), so that a counterexample names the subject and the part says what broke.

## 3. The modules and the code they model

Common to all: one SQL statement or transaction is one action, because the handle has one connection
(`SetMaxOpenConns(1)`); what an operation keeps in Go variables between two statements is a
variable of the model (`batch`, `job`, `sweep`, `req`, `call`), and it may be out of date when it is
used. Ids, texts, amounts and messages are model values or left out. Definitions whose name starts
with `Bug_` are plausible mistakes at that place of the code; no specification uses them, they show
that the property beside them can fail.

### ReminderDelivery, NotificationOutbox

`ReminderDelivery` is the promise for a reminder (a dedupe key: subscription, channel type, trigger and
date): taken up at most once, then delivered with one receipt or dropped, gone with its subscription.

`NotificationOutbox` is `notification_outbox.go` and the scan of `notification_scheduler.go`.

| variables | code |
|---|---|
| `row`, `sentLog`, `failedLog` | `notification_outboxes` (status, channel, lock, attempts, next attempt, expiry), `notification_logs` counted by reminder |
| `wanted`, `enabled`, `deleted` | what scans read: reminders called for today, channels, subscriptions |
| `started`, `up` | process lives; each has one owner id, shared by its goroutines |
| `phase`, `due`, `scanned`, `claimNow`, `todo`, `claimed`, `job` | where each dispatching goroutine is and the copies it carries |
| `accepted`, `lapsed` | history: messages a channel accepted, reminders a claim of which ran out |

A scan is `ScanBegin` (its reads) and an `Enqueue` for each reminder: skip what is logged, then
`INSERT ... ON CONFLICT DO NOTHING`; a foreign key that fails ends the user's scan. A dispatch tick is
`Expire`, `SelectCandidates`, one `ClaimRow` for each candidate with the instant of the query,
`LoadJobs`, then per job `CheckDeliverable`, `LoadChannel`, `Send`, and `MarkSent` or `MarkFailed`, each
guarded by `locked_by` and status as the code's WHERE clauses are. Every statement may fail
(`ScanFails`, `TickFails`, `LookupFails`, `PersistFails`), a process may end anywhere (`Stop`), and
users edit, disable and delete meanwhile. Which reminders a day calls for is the environment's choice
(`ChangeSubscription`); the text of a message is left out.

`scanLoop` and `dispatchLoop` are the two goroutines of `cmd/server/main.go:441-494`. They have the same
owner id, so `locked_by` does not tell them apart; the model keeps that.

### BillingCalendar, RenewalSchedule

`BillingCalendar` is `subscription_rollover.go` and the date helpers it calls: leap years, clamping to the end of a
month, the next occurrence of each kind of schedule, the roll to a day. Loops are recursive functions, and adding days
goes month by month (`DaysAfter`, `DaysBefore`). `RenewalSchedule` runs one subscription over the days: `DaysPass`,
`Sweep` (the persisted roll) and `MarkRenewed` (the period a renewal by hand adds), with what a read shows beside it.
What the loops are held against is `ChargeDates`: the dates of a schedule written down without a loop, from one date
until past another.

### SubscriptionLifecycle

The lifecycle columns of `subscriptions` under `subscription_lifecycle.go`, `subscription_lifecycle_sweep.go`,
`subscription_crud.go` and `subscription_actions.go`. A sweep takes a day, loads the active rows and
writes them one by one (`BeginSweep`, `LoadSweep`, `SweepRow`, `EndSweep`, `SweepFails`). A request is
`BeginRequest` (reads clock and row), `ReconcileForWrite`, `Load` (`GetByID`, the checks), `Commit` (the
transaction of Update, MarkManualRenewed or Delete); `Create` is one transaction. The UPDATEs name the
id only, so a copy goes over whatever the row has become (`Persisted`, `Edited`): this is how the code
is written, and the properties say what survives it. The arithmetic is a pair of constants, `FirstDue`
and `DueAfter`; `MCSubscriptionLifecycle` gives them the functions of `BillingCalendar`. `entered` is a
history variable: the row the last commit of a user left.

### TaskLease, ScheduledBackup

`TaskLease` is `background_task_lease.go`: the clock read, the INSERT, the conditional UPDATE, the run, for
any number of process lives (`Begin`, `InsertLease`, `UpdateLease`, `End`, `Stop`). `ScheduledBackup` is
`backup.go` and the worker of `main.go:574-642`: inside the lease `CheckDue` (settings and stamp),
`Configure`, `CreateArchive` (dump and `os.Create`), `WriteMore`, `FinishArchive`, `ListFiles`,
`RemoveStale` one file at a time, then `RecordSuccess` or `RecordFailure`. `AskForBackup` is the
administrator's request, which takes no lease and uses the same directory. `files` is the directory by
modification time, unfinished archives included; a process that ends leaves its file. Each backup
module is checked through `MCScheduledBackup`, the lease through the refinement.

### CalendarView

The days that `calendar-page.tsx:94-199` marks in a month and the cycle that
`subscription-cycle-progress-bar.tsx` draws, on top of `RenewalSchedule`: JavaScript's `setMonth` runs over
at the end of a short month, where the server clamps; the model computes with it as the code does.

### BrowserSession

The tabs of one browser against the `refresh_tokens` table. `cookie` is shared; `access`, `ready`, `route`,
`refresh` (exchanges in flight), `joined` (`refreshRequest` is not null), `call`, `login` and `logout` belong to a
tab. A request, its handling and its answer are separate steps. `Join` is `refreshSession`: join the exchange in
flight or start one with the cookie of the moment; `RefreshArrives` is the end of `performRefresh` with all that
waits for it, including the navigation to `/login`, which starts the document anew (`Reload`, `Restart`).
`Rotate`, `InsertLogin`, `Logout`, `RevokeAll` are `auth_session.go`. `LoseAnswer` loses an answer after the server
has rotated. A login reads the user (`CheckLogin`) before it inserts its row (`InsertLogin`).

### EmailCodes, TwoFactor, ChannelStore, McpWrites, IconFiles

Parts of the server in which a request reads in one statement and writes in a later one, each with its client.

* `EmailCodes`: `auth_email.go` and the register, forgot-password and reset pages. A guess is compared with a code
  read before (`Guess`), and the count written back (`Compare`) is the one read; the UPDATE may fail unheard, and the
  guess then goes uncounted (`CompareFails`). A password is reset and its codes consumed in one transaction
  (`ResetPassword`); a registration creates the user (`CreateUser`) and consumes the codes in a later statement whose
  error is ignored (`ConsumeRest`). Cooldown at the server, countdown at the page.
* `TwoFactor`: `totp.go`, the section and its dialog. A confirmation enables, deletes the old backup codes and
  inserts new ones, statement by statement; a sign-in finds a backup code and deletes it. A statement that fails ends
  the operation (`StatementFails`), a delete that fails does not (`DeleteIgnored`). The user is fetched anew after a change, so that two fetches can be under way (`FetchingUser`) and the older answer come last.
* `ChannelStore`: `notification_channel_ops.go`: read, count the enabled ones, write or insert.
* `McpWrites`: `mcp_idempotency.go` in two processes on one file. The transaction looks the key up, mutates,
  records the audit event and the answer; a second writer that read before the first committed is refused by
  SQLite and rolled back. Removing the icon file of a deleted subscription follows the commit.
* `IconFiles`: `subscription_icon.go` and `payment_method.go`, the file and the row in the order of the code.

### DetailCache, SubscriptionPages, SignInPage

`DetailCache` is `subscription-detail-cache.ts` with the subscriptions at the server; what is known of a
subscription is the number of the write that it shows. `SubscriptionPages` uses it (EXTENDS) under the
dashboard, the action centre and the calendar: a handler is a *run*, from its request over the answer to the
lists that it fetches afterwards; `alone` says that nothing else was under way meanwhile. Forms and drawers
are modal; runs go on when their form, drawer or page is gone and then act on whatever is open, as the code's
closures do. `SignInPage` is `login-page.tsx` and the one-time result of a provider (`auth_oidc.go`).

### The pages of MCWebPages

| module | code | actions |
|---|---|---|
| `AdminBackup` | backup tab, `reauth-dialog.tsx`, `reauth.go` | choose a file, open and dismiss the dialog, prove by password, passkey or popup, mint and consume a ticket, run, answer |
| `AdminPage` | `use-admin-page-state.ts`, users, settings, panels | load, change, save the whole form and fetch it anew, create and change users, refresh |
| `SettingsLists` | nine lists of the settings and the calendar tokens | load, add, change, delete, drag, save an order, show a new key once; rows listed by the sort order that the server keeps; refusals, lost answers |
| `AccountPage` | `use-settings-account.ts`, `auth_email.go` | type, ask for a code, confirm, fetch the user |
| `DataTransfer` | `use-settings-account-transfer.ts`, `import_*.go` | choose a file, preview, confirm, dismiss, export |
| `ChannelForm` | `notification-channel-form*`, `notification_channel_security.go` | open, change type, type, take out headers, save; the server reads and merges, then writes; rotate elsewhere |
| `SubscriptionForm` | `use-subscription-form-state.ts` | open, type, effects, lists arriving, save |
| `IconPicker` | `icon-picker.tsx`, the form's submit, `dashboard-page.tsx` | open (each time a form of its own), pick a value or a file, read the file, submit, upload and PUT, or POST, refetch and late upload; failures, lost answers, the timer that closes |
| `DashboardList` | `use-dashboard-filters.ts` and toolbar | search, toggle, sort, reset, fetch, rates |
| `RateCache` | `exchange-rate-cache.ts`, the dashboard's effect | look up currency by currency, drop what has expired, ask, store; reading the store and writing it back are two steps, in two tabs |
| `Appearance` | `theme.ts`, `display-preferences.ts`, general tab | choose, reset, switch, the system's colours change, in two tabs |

What another administrator, another tab or another device does is an action of its own in these modules
(`TakeAddress`, `CreateElsewhere`, `Rotate`, ...). `Screens` has the router's one mounted page (`shown`) and `None`.

## 4. The runs

| run | question | bounds |
|---|---|---|
| `outbox_siblings` | do two loops with one owner id keep a row apart, log it once, send twice only after a lapse, leave settled rows alone? | one reminder, one channel, one process, lease 1, delays 1 and 2, two attempts, clock to 5 |
| `outbox_processes` | does the whole implement `ReminderDelivery` when processes crash with claims, and is every open row settled? | two process lives, one of which scans; two reminders, one of them logged before the outbox existed; batch of one; clock to 2 |
| `renewal_dates` | is the first due date shown, is the day of the month kept, does a renewal move one period, do the client's dates agree? | 11 schedules, first dates at the ends of December to February and in March, 500 days through the leap day of 2028, pauses of 1, 30 and 335 days |
| `renewal_month_end` | *violation*: does a read show the same whether or not sweeps ran? | the month and year schedules of the above |
| `lifecycle_apart` | do overlapping sweeps, or one client over midnights, change what a read shows, or revive what has ended? | two sweepers or one request at a time, three requests, eleven edits, monthly and fortnightly, four days over two month ends |
| `lifecycle_overlap` | do status, mode and end date fit after writes from stale copies, and do sweeps catch up? | two requests and a sweep, one failure |
| `lifecycle_revived` | *violation*: does a reconcile never undo a transition? | two requests |
| `backup_daily` | one worker at a time, one backup a day and one in the end, newest kept, directory bounded, and `TaskLease` implemented? | two workers, one administrator's request, one failure, one stop, three-unit days, lease 2, runs of at most 1, clock to 4 |
| `backup_pruned` | *violation*: does the most recent backup stay when another is being written? | one worker, one request, keep one |
| `web_subscriptions` | do the pages of subscriptions act on what they show and end with what the server has, is the login page's account the one signed in, and does nothing that waits wait for ever? | two subscriptions, two writes, two handlers at a time, three in all, one request for details at a time; three exchanges of the login page; one tab with two calls that meet an expired token |
| `web_pages` | do eleven pages and the server agree when answers come late, out of order or not at all? | two to four requests a page, two or three dialogs, two tabs where tabs share something, two lookups of rates |
| `server_writes` | what do overlapping requests, failing statements and stops leave of codes, second factors, channels, idempotent calls, icon files and sessions? | two or three requests of each kind at a time, one failure, one stop, two tabs, one call at a time with an expired token, three refresh tokens, one revocation |

The last three are of several modules, one of which acts in a behaviour (`shown`): they share no state, so
interleaving them would only multiply states. Each pair of modules that does share state is one module
or one that EXTENDS the other.

Why the bounds are enough. Outbox: the interesting orders need two holders of one row (two dispatchers),
a lapse (a clock beyond the lease), a retry after a lapse (the clock to 5: claim, lapse, second claim,
delay, third claim) and the last attempt being reached (two attempts). Rows do not interact except by
the batch limit and the scan, which the two-reminder run has. The code's five minutes, fifteen
minutes and hours become 1, 1 and 2: only their order matters, and it is an assumption
(`BackoffCoversLease`) rather than a number. Renewal: every month length, the leap day and its
following year, a pause longer than a period and one longer than all but one month; an interval of five
months never meets the same months twice in a row. Lifecycle: days before, on and after a boundary
and two boundaries apart, one row (the writes of one row never touch another; rows share only the
order of a sweep), two overlapping writers. Backup: a day and two thirds, so that a run crosses
midnight, fails in the first and is repeated, and the lease of a stopped worker lapses before the end;
with a shorter clock no run could take over from a stopped one and "a backup in the end" would say little.

Pages: what goes wrong on a page takes a first request, something its user does while it is under way, and one more
request that the answer meets, so two requests at a time and three or four in all; two dialogs, so that a late answer
finds another one open; a second subscription, for which the form or the drawer may be open by then. Tabs interfere by
pairs. Sessions: two tabs that refresh across each other, a token, its successor and one more login (three tokens),
one revocation that is overtaken. One call at a time meets an expired token in the two tabs (`MaxStale`; the other tab
refreshes by a reload or a refused login), two do in the single tab. Stored counts (`MaxEnabled`, the backup codes,
tickets) are 1, so that the limit is reached at once. E-mail codes: one wrong guess ends a code instead of five. MCP:
three calls, two of one key in two processes and one with other arguments.

Deadlock is checked where the system cannot come to rest within the bounds; the runs with
`CHECK_DEADLOCK FALSE` are those in which the bounded number of requests, the last day or the last
date ends the behaviour.

### What the runs show

Outbox. Under a running lease a row has one holder, although release, retry, lapse and the shared owner
id let it change hands; a message goes out twice only after a lease has lapsed; the log has one sent
entry at most; a settled row is never written again, also when an expiry overtakes the holder. Noted
while modelling, and neither documented nor tested otherwise: after a lapse a sibling's late outcome may
settle or free the row under the younger claim of the other loop, since both have one owner id; the end
notice asks whether *any* channel type was told (`scheduler.go:364-371`), so a second type may never
be; a cancelled row keeps its dedupe key, so a reminder wanted again the same day is not sent.

Billing dates. The date shown is the first one due from the persisted date. Days up to the 28th never
depend on sweeps. Later days do (`renewal_month_end`): each roll starts from the date the last one wrote,
which a short month has cut; `MonthKept` bounds what is lost, down to the 28th and never the month.

Lifecycle. Sweeps alone never change what a read shows, nor does one client. Overlapping writers do:
the columns still fit each other, but a reconcile from a stale copy can revive an ended subscription
(`lifecycle_revived`). Also noted: of two concurrent updates the later commit restores the fields the
earlier one changed; two renewals from one copy move the date once, and from copies of different age
can move it back.

Backup. With runs shorter than the lease, each day is backed up once, by the day the run found due.
Two limits: nothing extends the lease during a run (the lease is 30 minutes and the row has a heartbeat
column that only the acquisition writes), so that a run longer than it may overlap another; and retention
counts unfinished archives as files like any other (`backup_pruned`). Backups one after the other always
keep the newest (`SerialBackupsKeepIt`). An error of the retention after a complete archive is recorded as a failed
run, and each minute's retry makes one more archive.

Sessions (`server_writes`, part "session"). One token of a login is live at a time and a revocation holds,
whatever overlaps. A login that compared the old password before a revocation and inserts its row after it
outlives it (`overtaken`). Two tabs that refresh across each other, or a lost answer, may end the session.

Codes, second factor, channels, MCP, icons. Overlapping guesses write back a stale count, and the error of the
statement that counts one is discarded (`auth_email.go:372`), so a code stands as many more guesses as overlapped or
went uncounted; a right code is spent by a registration that then fails, because the name is
taken for instance. A set-up confirmed over a second factor in force that fails after its first statement
leaves the old backup codes valid, and a delete of them that fails is not noticed (`totp.go:85`); two overlapping sign-ins can use one backup code; closing the dialog at the
backup step leaves "disabled" on the page. The limit of channels is passed by at most the requests that
overlap; two overlapping updates can bring back a rotated secret. MCP calls are executed once a key. A
subscription's edit leaves the old uploaded icon (`subscription_crud.go:191`); its upload removes the old file
before the UPDATE, which if it fails leaves a row that names nothing (`subscription_icon.go:61-67`); the
full-row save of a payment method writes an icon back whose file is gone, and inserts a row again that was
deleted meanwhile; two overlapping uploads leave a file nobody names.

Pages of subscriptions. With handlers one after the other the lists and the drawer end with the server's data.
Exceptions the properties name, or that the model shows: the handler of a cancelled form closes whichever form
is open when it ends; a refresh that fails after a command succeeded is reported as "action failed", and the
retry renews a second period; `busyKey` is shared by the groups of the action centre; the button of a group is
not disabled while it is busy; edits on the calendar do not invalidate the cached detail, which may be two
minutes old then; the calendar's branch that creates is never reached.

Login page. The password's submit stays enabled while a passkey or a provider is under way; a change of language
repeats the request for a one-time result; a 401 of the login form loads the document anew; "back" from the
second step does not end its exchange.

Administration. Each run of a download or restore has its own proof. A dismissed dialog carries out its operation
when its ticket arrives; the late answer of the detection of a file marks whichever file is chosen then; the
end of one proof closes whichever dialog is open. The file can change during the asynchronous check, so a
ticket may be minted for a request that cannot be sent, which the comment at `use-admin-page-state.ts:667-671`
excludes. A first load of the settings that fails leaves a form of defaults, which a save writes over every
setting; edits typed during a save are lost; a whole-form save overwrites another administrator's.

Settings. A load answered late overwrites a row added before; a row is added with the length of the list as its sort
order, so behind deleted rows it stands elsewhere at the server than at the end of the page, which offers no save
(`misplaced`); a change that was served and whose answer was lost is not on the page (`unsure`), and a key added so is
never seen; a drag during the save of an order loses the save
button; the rollback of a channel's deletion restores the list it captured; connections fetched twice may
arrive out of order; a key created after its dialog was closed is shown at its next opening. The channel form
drops fields it does not know (`skip_tls_verify`, the `ntfy` user name), cannot switch a webhook with a secret to
GET nor clear a secret, keeps the value of a header that was typed blank and of all headers when their text is
erased (`{}` removes them), stores a blank port as 587 and a renamed masked header as blank. What another client stores between the server's
reading of the row and its writing is lost, a rotated secret as well. The subscription form
replaces a currency that is not among the user's by the first, erases the free-text category of old rows and
drops the days of a notification that is not "enabled". Imports are done once, though answers are lost.

Icons in the form. The last choice is saved, and an opening of the form adds one subscription, with one more for each
POST that was served and whose answer was lost: the form stays open then, and its next submission adds another. A
preview outlives an emoji picked over a file; a file that is still being read overrides what is chosen meanwhile; a PUT
that fails leaves its uploaded icon. The dashboard closes the form right after the POST, before the icon is uploaded:
the end of that upload, or the timer 1.5 s after its failure, closes whichever form is open by then.

Dashboard, rates, looks, calendar. A label that disappears stays selected until a reset, and the toolbar shows it.
Two tabs keep each other's rates unless they cross: what one writes over what the other wrote since it read the store
is lost, or comes back though expired, which costs a request and leaves no page without a rate it had found. A tab is not repainted by a theme stored elsewhere; a settings page opened
before another tab picked colours overwrites them; a dashboard misses a switch changed between its first render
and its effect. On days that every month has the calendar and the progress bar agree with the server; on the
others JavaScript's overflow marks 3 March for a 31st and skips February, against the comment at
`calendar-page.tsx:92-93` ("all dates ... that a subscription bills on"), and the bar starts up to three days early.

### Fairness

* Outbox: time passes, a running goroutine makes its next step (`main.go:441-494` tick for ever, every
  outbound request has a timeout of 15 to 30 seconds, statements return), and a stopped server is started
  again (`docker-compose.yml:16`, `restart: unless-stopped`). No fairness on a channel's acceptance, on
  a user, nor on which outcome a step has: `OpenRowsClose` rests on the expiry alone.
* Lifecycle: sweeps are repeated hourly (`main.go:498-560`); a sweep may fail as often as `MaxFailures`
  says, then one succeeds. Requests need none.
* Backup: time passes and the workers tick each minute and return (`main.go:574-642`). Failures and
  stops are bounded; at least one worker is never stopped. Administrators need none.
* Pages (`web_subscriptions`): a request that is under way is answered, or fails (`Answered`; `fetch` settles and
  every handler has a `finally`). No fairness on a user, on which answer comes, nor on the order of answers.
  `NothingWaitsForEver` says that skeletons, disabled groups, flags of the login page, the loading screen and
  calls that wait for a refresh do not stay. The other runs of pages check safety alone and need none.

## 5. What is proved

With TLAPS, for all values of the constants under the assumptions named in the modules. The assumptions are bounds
that are numbers, and that **the value which stands for "nothing" is none of the values it is told from** (`None` is
no row, no account, no date, no text: `RowsAssumption`, `NullAssumption`, `ChannelAssumption` and their like); TLC
evaluates each of them on the runs. Two more are the code's: `BackoffCoversLease`, and `DueAssumption`, which
`RollsAreDue` proves of the server's calendar; and a page has subscriptions to show (`PagesAssumption`), some of them
not created yet. Where a theorem needs more, its statement says so: `RunsFit` (a run is shorter than its lease),
`OneFault` (one failing statement at most).

* **Outbox** (`NotificationOutboxProofs`): `TypeCorrect`, `SentIsLoggedOnce`, `SettledStaysSettled`,
  `LeaseIsExclusive`, `DuplicatesNeedLapses`, `OutboxDelivers`. Exclusivity is not inductive: that nobody else claims
  the row follows from what its holder's lease protects. `LeaseInv` adds `HoldersGuarded`: as long as a holder's
  lease runs, its row is locked to the lease's end, or waits for a retry after it, or is settled, or is
  deleted. A guarded row is not claimable (`GuardedIsNotClaimable`), and no step unguards it
  (`GuardedStep`): the one that frees a row for a retry needs `BackoffCoversLease`, the one that
  deletes it needs `DeletedIsGone`, and `HeldInPhase` says that nobody holds rows outside a batch.
  `DuplicateInv` follows one reminder until its first lapse: it has one holder, whose claim is the one in the row,
  and what a channel accepted is not pending again. `OutboxDelivers` maps each step to one of `ReminderDelivery` or
  to a stutter; it needs `SentLoggedOnce` (a delivery is receipted for the first time) and the settled rows' stability.
* **Lifecycle** (`SubscriptionLifecycleProofs`): `LifecycleTypeCorrect` and `EndDatesFit`. The argument for
  `EndDatesFit` is that each write of the lifecycle columns is complete in itself: `PersistedIsRow`, `EditedIsRow` and
  `NewRowFits` show it for each writer whatever the copy's age, `CommitWritesRow` carries it through a commit.
  `RenewalReady` strengthens the type: a renewal that was accepted has a date to renew from. The calendar is arbitrary
  but for `DueAssumption`: a date due on or after the day. Of one client and of sweeps apart from its requests
  (`ApartSpec`, `OneRequest`): `EndedStayApart` and `SweepsShowNothing`. `ApartInv` says that rows and the copies of
  sweeps are the user's row or what the lifecycle makes of it (`Of`), so that a copy which would renew itself is of a
  row that does and has not ended, and that the copy of the one request is the row's own. `ShownInv` adds that each of
  them shows the same as the user's row on every day from today on (`Alike`): a reconcile keeps that because to
  advance to one day and then to a later one is to advance to the later (`AdvancedTwice`). That needs a calendar whose
  rolls compose on dates that rows do not leave (`RollsCompose`), as the server's do on days that every month has
  (`RollsComposeInNumbers`, below; TLC evaluates it for the runs' dates); month ends do not (`renewal_month_end`).
* **Lease** (`TaskLeaseProofs`): `LeaseExcludes` and `RunsAreCovered`, if calls are shorter than the lease
  (`RunsFit`). The invariant: a running instance owns the row, the row's end is the beginning of its
  call plus the lease, and no call is older than `MaxRun`.
* **Backup** (`ScheduledBackupProofs`): `BackupKeepsLease`, that the worker's stages folded into a run
  (`SeenCalls`) take only steps of `TaskLease`, by cases of a step (`CallSteps`, `BackupSteps`, `StopStep`)
  over well-formed jobs (`JobInv`); `OneBackupRuns`, which follows from it with `LeaseExcludes`, so that what the
  lease promises is proved once and used by instance; and `OneBackupADay`, the safety half of `EachDayOnce`:
  `DayInv` says that the day of a run which backs up lies after the stamped one, and `OneRuns` that no other run
  stamps meanwhile. `RetentionHolds`, for finitely many workers, requests and settings: the bound on the directory
  (`BoundInv`) is stated for every set of backups that are pruning, without the files these still list, since a backup
  may find a file gone that another has removed; and while no two were in progress at a time, the one that is writes
  another file than the newest, then has the newest, and lists others (`SerialInv`).
* **Sessions and the login page** (`BrowserSessionProofs`): `TokensHoldAlways`, for any number of tabs and any
  overlap. What a token is worth depends on a few variables (`worth`); of all steps only rotation, login, logout and
  revocation touch them (`RotateStep`, `LoginStep`, `FewerLive`). `FamiliesIssued`: the families are those
  of tokens issued, so a new token begins a family of its own or replaces the live token of its family.
  `SessionFollows`: `BrowserInv` relates the cookie to the exchanges under way: while nothing that the property
  excepts has happened, at most one tab has an exchange after a login, and the cookie it will end with is one that
  the server still honours (`Kept`). `AttemptsEndRight`: unless they crossed, the exchanges are alone or all ask for the
  one result of a provider, who read it left nothing for the others, and nothing that is under way when the
  dashboard is open signs another account in (`SignInv`).
* **Writes from what was read** (`ServerWritesProofs`): `RetryingIsSafe` and `ResultsAreFinal` (`McpInv`: a transaction
  that will commit has looked its key up in what is still the present state, since a commit in between dooms it);
  `ChannelsStayWhole` (`StoreInv`: whatever is enabled beyond the limit was let through by a request that overlapped);
  `RowsKeepTheirFiles` (`IconsInv`: a row with one call to itself has its file at each stage of that call);
  `CodesKeepTheirWorth` (`CodesInv`: guesses tried and reads under way are at most those counted, those that overlapped,
  those whose count could not be written, and one; the page's countdown outlasts every cooldown but that of the code it
  waits for); and `SecondFactorIsWhole`, for one failing statement at most, noticed or, of a delete, not (`TotpInv`: a
  change of the second factor is alone unless changes crossed, its statements leave codes of two secrets only while it
  is between them, and until the user has been fetched after a change the section need not show it).
  `LastChoiceIsSaved` (`PickerInv`: a save on its way leaves what was chosen last (`SavesOnTheirWay`), a settled row has
  no other write under way (`SettledRest`), and a form that is open has made a row only by a POST whose answer was lost,
  and is busy while another is under way (`OneRowEach`)).
* **Calendar** (`RenewalScheduleProofs`), for every valid schedule, any dates, and any sequence of days, sweeps and
  renewals: `CalendarTypeCorrect`, `FirstDueIsShown`, `RenewalsMoveOnePeriod`, `MonthEndsStayBounded`,
  `ClientDatesFollow`. First, that **the loops end**: a function by recursion exists if every turn lowers a number
  (`LoopExists`, by the least turn for which no function reaches so far), and the loop that gathers days is the union
  over the states that it visits (`GatherExists`). The measures are differences of `DayNumber`, which has the order of
  dates. Then, what the loops reach: the dates of an interval schedule ascend (`OccurrencesAscend`), each is one step
  from the last (`OccurrenceIs`), so the server's rolls lead to the **first date of the schedule on or after a day**
  (`NextIsFirst`, by the kind of schedule), and `ChargeDates` holds enough dates to tell (`ChargeDatesReach`).
  `MonthEndsBounded` is not inductive: where a date is now does not say how it came there. `DatesInv` adds `SweptInv`,
  that a date which renews itself is the one entered, rolled to a day that has been, where every month has the day
  (two rolls are then one, `RollsCompose`), and says in `KeptInv` which date of the schedule the kept one was cut
  from, so that the next turn can be compared with it (`KeptMoves`, `DayCut`). For the client: days back and on again
  lead home (`BackAndOn`), a step of `addInterval` is the server's on a day that every month has
  (`AddIntervalFollows`) and always goes on (`SetMonthOn`), so its loop gathers the dates of the schedule within the
  month (`DaysGathered`, `InMonth`) wherever the rewind left it; and the cycle of the bar is undone by one step on
  (`CycleInterval`, `CycleMonthly`, `CycleYearly`). `RollsAreDue` and `RollsComposeInNumbers` say of this calendar, for all
  schedules and dates, what the lifecycle's proofs assume of theirs: `DueAssumption`, and the part of `RollsCompose` that is
  about rolls and renewals. What users enter is the other part and stays a hypothesis.
* **Pages** (`WebPagesProofs`), for any number of requests, answered in any order or not at all: `AddressesAgree` (a
  change is alone unless it crossed something, and answers on their way have the account's address); `ImportsAgree`
  (what was imported is what an answer, or the page, will hold); `OperationsAreProven` (each factor is claimed once,
  by a flow, by the session of a popup or by a run); `DashboardIsHonest` (ids break the ties of an order);
  `AdminPagesAgree` (the table differs from the server's by answers under way only; a form that was not touched shows
  the last load); and of two tabs `RatesStayTrue` (each rate in the store, in a copy of it that a tab is
  about to write back, on a page or in a lookup is of its own pair and has the time of its receipt, and a lookup whose
  answer the page still takes will have a rate for each currency that the server gave) and `LooksStayStored` (a tab that is not behind paints what is stored unless the
  system's event is still to come, and a settings page that is not outdated holds the stored colours).
* **Pages of subscriptions** (`BrowserSessionProofs`): `CacheForgets`, for any number of requests in flight: an answer
  is kept only in the version it was asked in; `AnswersAreCurrent` says that such an answer is at least as new as the
  last invalidation, and needs `WritesGoOn`, that the server's writes only go on. `WritesActOnWhatIsShown` and
  `PagesStayTrue`, for any number of subscriptions and of handlers under way: `PagesInv` says that a handler which was
  alone when it started is the only one, one of a page that was left keeps the next page from being taken for whole
  (`RunsApart`), and a page that missed nothing has the server's rows unless a handler has written and is still on its
  way (`ListFollows`). A form or a drawer that was opened on such a page then has the row of its subscription, and no
  other handler writes under it (`FormFits`, `DrawerFits`): what is sent is what the server still has (`WritesFit`).
  What a drawer, the cache or an answer holds is not older than what was known when it was asked for (`DrawerFollows`,
  `CacheFollows`, `AnswersFollow`), which for a new subscription needs that nobody heard of it before it was created
  (`BirthsFit`).
* **Forms and lists** (each in the module of its page's proofs): `FormStaysTrue` (`BrowserSessionProofs`): `FormInv`
  says that a row has exactly the columns its status, mode and rule call for (`StoredIsWhole`), that the currency and
  the method of an open form are in the lists it was given, and that an untouched form is what its row opens as, which
  `UntouchedSavesTheSame` needs to send the row back. `ChannelsStayAsShown` (`ServerWritesProofs`), for each of the
  fifteen types and any edits: `ChannelInv` says that the request under way holds the texts that were shown, blanks
  for the masks or the default of a number (`SentAsShown`), that the row it has read is one of the channel
  (`ReadTrue`), that the mask is in fields of secrets only, and that request, list and row are of one channel; `SecretsMerge` and `HeadersMerge` say what the server's merge then leaves. `ListsStayTrue`
  (`WebPagesProofs`), for any number of changes under way at once: as long as nothing was overtaken a load or a save
  of the order is alone and the others are about different rows (`Apart`), each fits what the list and the server have
  of its row (`Fits`), and the rows that nothing is under way for are the same on both sides but for those of which an
  answer was lost (`RestAgrees`) and, unless one was dragged, stand on the page as the server lists them, but for those
  added behind deleted ones (`OrderAgrees`, by `Precedes`); `ListRowChanges` shows it once for every step about one
  row. An added row has the length of the page's list as its sort order, which is why it comes last there and not
  always at the server (`AddedOrder`), and a saved order gives each row its place (`SavedOrder`).

Every safety invariant and action property that a passing run checks is a theorem, so that the runs of those show on small
instances what holds for all. Only model-checked is liveness, which the prover does not reach: `OpenRowsClose`,
`CatchesUp`, `NothingWaitsForEver`, and the half of `EachDayOnce` that a day is backed up in the end. The three
violations of section 6 are what the code does and have no theorem.

## 6. Findings

* `renewal_month_end`: the comment on `advanceSubscriptionLifecycle` promises that a user sees the same
  lifecycle whether or not the row has caught up; for schedules on the 29th to 31st that is not so,
  and between the two dates the difference is a whole period.
* `lifecycle_revived`: the comment on `reconcileSubscriptionForWrite` says a mutation does not resurrect a
  transition; the UPDATE is not conditioned on what was read.
* `backup_pruned`: the newest complete backup may be pruned in favour of one that is being written, and
  nothing is left if that one fails.

The further disagreements listed under "What the runs show" are what a property had to except by name, or what
its statement leaves out.

## 7. Not modelled, and why

`PROJECT.json` lists each component with its status. Planned: those at the end of section 2. Left out for good:
rendering, message formatting and transports (their outcomes are modelled where they matter), the protocols of
OIDC and WebAuthn (libraries and remote providers), the encryption of downloads, reports, the catalogues of
brands and emoji, and translations. The password form sends one request, whose effect is the revocation in
`BrowserSession`. Within the modelled components: one-time subscriptions and rows without a next billing date
that older versions left; S3 targets and the contents of backups; which reminders a day calls for and which
actions a day has; of the rules of recurrence in the form an interval and a day of the month; of the system
settings one plain value and one secret; the clock is one for all processes.
