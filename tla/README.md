# PEKAN: a verification project

PEKAN is a multi-tenant finance application: a Go backend (`src/backend`), a React client, one PostgreSQL database with a schema per tenant, an optional Redis, an object store (local disk, S3 or Google Drive), and WhatsApp gateways. Three processes share the database:

| process | started by | work |
|---|---|---|
| `api` | `cmd/api` | HTTP requests of the web client, the WhatsApp webhook, the admin pages |
| `worker` | `cmd/worker` | one loop that scans uploaded files, one loop that processes due reminders |
| `ai` | `cmd/ai` | four goroutines that take chat messages from a queue table and answer them |

They never talk to each other directly: they meet in tables. What can go wrong is therefore mostly a matter of what is read and written in one database transaction and what is not.

## Inventory

`M` stands for `src/backend/internal/modules`, `P` for `src/backend/internal/platform`. "hard" names what a test would hardly reach, "right when" the properties that make the component correct.

**WhatsApp chatbot queue** (`M/finance/whatsapp`, `cmd/ai`, retry in `M/core/admin`). State: table `whatsapp_bot_queue` (status `pending`, `processing`, `success`, `failed`; unique `message_id`). Operations: the webhook inserts a message or, if that fails, processes it itself; four goroutines SELECT the oldest pending row, mark it, chat, send and write the outcome; an admin resets a row to `pending`. Hard: claim in two transactions, crash of either process, redelivery by the gateway, lost answers, failing sends. Right when: an acknowledged message is never lost, a message is recorded no more often than it was submitted, `success` means the sender was answered, every row ends.

**WhatsApp chat** (same service). State: `pendingScans` in memory per process, ledger rows, the settings of AI providers. Operations: scan a receipt and ask, yes/no, record several items of one message, delete or change a recorded transaction, answer a question from figures. Hard: check-then-act on the map, two transactions per command, partial failure in the item loop, five readers of one setting. Right when: one confirmation records one transaction, a command changes what it was asked to and keeps the rest.

**WhatsApp link and intake**. State: links (number as text, account), codes, the posts of five gateways. Operations: GenerateOTP, ProcessLogin, ConnectDirect, Disconnect; reading sender and words of a post, looking its account up. Hard: removal and insertion in transactions of their own whose errors are ignored; the account is looked up twice. Right when: an account has one number, a message is recorded for the account its sender had.

**Transactions and savings goals** (`M/finance/transactions`, `M/finance/savings`). State: `finance_transactions`, links (transaction, goal, amount), `finance_savings.current_amount`. Operations: create, update, delete, each of them several database transactions (row, links, adjust, reconcile); goals edited by hand; the chat changes transactions without the links. Hard: concurrent requests on one goal, errors between the transactions, stale reads. Right when: a goal's amount is the sum of its live links.

**File attachments and the scan queue** (`M/finance/attachments`, attachments of `M/finance/transactions`, `P/filescan`, `P/storage`). State: `files.scan_status`, `file_scan_jobs`, objects. Operations: upload (object, then rows), download (check, then open), delete (rows, then object), manual scan status, the worker's claim, scan and outcome. Hard: crash between claim and outcome, errors of the outcome's transaction, object and row out of step. Right when: what is served was scanned and clean, a live row has its object, a job runs at most `FileScanMaxAttempts` times and never twice at once, every file ends scanned or failed.

**Reminders and payments, reminder worker** (`M/finance/reminders`). State: reminders, payments, the ledger expense each payment creates. Operations: AddPayment, UpdatePayment, DeletePayment, edits of the reminder and of the ledger. The worker's context has no workspace: its queries go to the public schema, where no reminder of a workspace is. Hard: a payment finds its expense by amount, date and text with a running number that later deletions shift. Right when: an expense exists exactly for each payment.

**Master data and budgets** (`M/finance/transactions`, `M/finance/budgets`). State: categories (a tree), budgets with their ids as text. Operations: forms, find-or-create by name from four callers, seeding, deletion, what a budget counts and which budgets an expense concerns. The alert check runs in a goroutine without a workspace, and so finds no budget of one. Hard: look-up before insert without a unique index, ids that outlive their rows. Right when: names stay apart, both directions through the tree agree, and what a budget counts and what concerns it differ only by its status and period.

**Receipts, reports** (`M/finance/receipts`, `M/finance/reports`). State: rows with a status around a call that may die, objects. Right when: what can be downloaded has its object, and no object is forgotten.

**Dashboard, lists, notifications, audit**. State: a cached summary. Operations: lists page by page, the page's three requests, the chat's figures. Hard: every statement sees other rows. Right when: what is shown together was true together, unless something was written or a query is limited.

**Settings: users and roles** (`M/finance/settings`). State: memberships and roles per workspace; a user is a member of one workspace. Operations: create, delete, replace roles from two pages. Hard: delete-and-insert under READ COMMITTED. Right when: a member has the roles last asked for.

**Auth** (`M/core/auth`, `P/session`, `P/auth`). State: sessions, refresh tokens, codes, lockout counters, token denylist. Operations: Login, Refresh, Logout, LogoutAll, SwitchTenant, ResetPassword, Register. Hard: two refreshes with one token, revoke before issue, lock order of two revocations, counters that are asked before and written after. Right when: a session marked revoked has no live token, rotation leaves one generation usable.

**Rate limits and anomaly detection** (`P/middleware`). Counters per window in Redis or memory. Right when: no window admits more than its limit, and none is refused early.

**Entitlement and access** (`P/entitlement`, `P/access`, `M/core/subscription`). A look-up over plan and overrides.

**System administration** (`M/core/admin`). Workspaces, backup, restore, the program's own update. Hard: two transactions after a schema, objects and rows one after the other, binaries before migrations. Right when: a listed workspace is usable and has its schema to itself, a row has its object, code is never ahead of the schema.

**Connection pool and tenant transactions** (`P/db`). State: `DBMaxOpenConns` connections. Hard: `SoftDeleteAttachment` takes a second connection inside a transaction. Right when: somebody can always proceed.

**Web client, installers, configuration, health, HTTP middleware**: no protocol of their own.

`PROJECT.json` lists every component with its status and every hazard at its line, with the properties that cover it.

## The modules

| module | what it models | proofs |
|---|---|---|
| `JobQueue` | abstract: a run of a job uses up a submission of it | |
| `WaBotQueue` | webhook, queue table, workers of the AI process, retry page | `WaBotQueueProofs` |
| `FileScan` | uploads, downloads, deletions, scan jobs, worker processes | `FileScanProofs` |
| `SavingsLedger` | transactions, links, goals, the requests that change them | `SavingsLedgerProofs` |
| `AuthSessions` | login, refresh, switch, logouts, password change over sessions and tokens | `PeopleProofs` |
| `LoginLockout` | the counter of failed sign-ins | `PeopleProofs` |
| `RateLimits` | two limiters on one key | `PeopleProofs` |
| `Tenants` | workspaces made by administrators and by registration, deleted | `PeopleProofs` |
| `Members` | memberships and their roles, replaced from two pages | `PeopleProofs` |
| `ReminderPayments` | payments and their ledger expenses | `RecordsProofs` |
| `Categories` | categories by name, budgets over them | `RecordsProofs` |
| `Documents` | reports and receipt scans: row, object, status | `RecordsProofs` |
| `LedgerViews` | lists by pages, dashboard with its cache, the chat's figures | `RecordsProofs` |
| `WaIntake` | whose message a post is, from webhook to ledger | `WhatsappProofs` |
| `WaLink` | numbers linked to accounts | `WhatsappProofs` |
| `WaChat` | the dialogue after a scanned receipt | `WhatsappProofs` |
| `ChatCommands` | chat commands on recorded transactions | `WhatsappProofs` |
| `AiProviders` | which provider and key each reader chooses | `WhatsappProofs` |
| `Backups` | backup and restore beside requests | `SystemProofs` |
| `SystemUpdate` | the program's update of itself | `SystemProofs` |
| `ConnPool` | a process's database connections and those who want them | `SystemProofs` |
| `Backend` | the seventeen from `AuthSessions` on side by side | `BackendProofs` |

`MC...` modules hold the constants of the TLC instances. Definitions named `X_Something` beside a definition `X` are mutants: `X` with a plausible bug, used to see that a property notices it. One database transaction is one action unless its locks or its read and write halves matter to others; one call to a gateway, the object store or the scanner is one action. Failures are choices of the action where they happen, or listed in a constant (`Faults`, `AuthFaults`) where a run or a theorem says which ones it allows. State that only the properties use is marked as such in the variable list. Several properties have the form "this happens only for one of these causes": the causes are the ones found in the code, each recorded by the action that brings it about, so that any further one is a violation.

### WaBotQueue

| state | code |
|---|---|
| `deliveries`, `acked` | the gateway: posts it made, 200s it saw (external) |
| `hpc`, `hmsg` | the goroutines of `HandleIncomingMessage` |
| `status`, `arrival` | `whatsapp_bot_queue.status` and its order by `received_at` |
| `wpc`, `wmsg` | the goroutines of `StartQueueWorker`; `"selected"` is a worker inside the transaction of its SELECT, `"claimed"` after its commit |
| `listed` | failed rows shown by an open admin page |

`Enqueue` and `EnqueueFails` are `EnqueueMessage` with its three results (row, duplicate, error); the last sends the handler through `SyncChat` and `SyncReply` as the webhook does. `Select`, `CommitSelect`, `MarkProcessing`, `Chat`, `SendReply`, `Finish` are `processNextQueueItem` in order, `GiveUp` its early returns. `CrashAI` and `CrashAPI` stop a process: `main` waits for no goroutine. What a message means is left out: each asks for one transaction, and `ProcessAIChat` records it or not but never returns an error, as in the code. `MsgId` is the deduplication id: different for every message (WAHA, Meta) or the hash of sender and text (Fonnte).

### FileScan

`upc`, `checked`, `dropping` are the requests of the API process between their steps (object stored but no rows; status checked but object not opened; rows deleted but object still there). `row`, `scanStatus`, `job`, `attempts` are the tables, `object` the store, `wpc`, `wfile`, `wres` the worker processes. Claim, outcome and upload of rows are single transactions in the code and here; the claim is one `UPDATE ... FOR UPDATE SKIP LOCKED` statement, which is what the chatbot queue lacks. `TxnFile` and `ProofFile` follow their own INSERT statements: both start as `clean`, and the proof of a payment gets no job. `SetScanStatus` exists for transaction attachments only. The retry delay and the order of due jobs are nondeterministic choices; the scanner's verdict on a content is a constant.

### SavingsLedger

A request is a record `req[r]` and a step `pc[r]`; the steps are the database transactions of `Create`, `Update` and `Delete`, in the order of the code (a delete adjusts before it clears the links). `link[t]` maps the linked goals of a transaction to their shares. `ReadTotals` and `WriteTotals` are the two halves of `ReconcileSavingsCurrentAmounts`, which reads the links and writes totals in one transaction under READ COMMITTED, that is without protection from others. `Allocations` is `allocateSavingsAmounts`; who gets the remainder depends on the order of a list, so it is a set of outcomes. `Recovered` is the branch that takes all-zero links for old ones without shares. Goals are created, edited and deleted in one action each; the chat changes rows only. `suspect` and `altered` hold what a form, the chat or a failed request may have put off; they are for the properties. Two requests on the same transaction at the same time are left out.

### AuthSessions, LoginLockout, RateLimits

`sessionRow` and `tokenRow` are `auth_sessions` and `auth_refresh_tokens`, `cookie` the clients' jars, `areq` the requests. `LookupRefresh`, `CheckAccess`, `RevokeOne...`, `RevokeAll...`, `CreateSession` and `Answer...` are the statements and commits of `Refresh`, `Login`, `SwitchTenant`, both logouts and the password change, in the order of the code. The two UPDATEs of a revocation are two actions with PostgreSQL's row locks, since `RevokeSessionByRefreshHash` and `RevokeAllSessionsByUser` take them in opposite orders; `BreakDeadlock` is the database's answer to that. `excused` collects the sessions that a client may find revoked through no bug.

`LoginLockout` has the three calls of a sign-in (asked, verified, counted) with a Redis that may answer any of them or none; without `RATE_LIMIT_REDIS_URL` there is no lock at all. `RateLimits` has the limiter of the API and that of the sign-in routes: both are built on one store and use the address as their key, so a sign-in counts twice and any request uses up the sign-ins' budget. `SignInsAreLimited` says what this amounts to.

### Tenants, Members

A workspace is made in three steps: schema (`Provision`), rows of the public schema (`InsertTenant`), rows of its own (`SeedSchema`). The administrator's code is stored in lower case, the visitor's in upper case, `GetSchemaName` lowers both and maps two codes to one schema, while the unique index looks at the case; `SharedSchemaIsExplained` names exactly the cases in which two live workspaces share a schema. `CheckOtp` and `CountWrong` are the two halves of a verification: an attempt is counted after it was let through (`AttemptsBounded`, a part of `LimitsAreExplained`). `Members` has the statements of `ReplaceMembershipRoles` and `UpdateTenantUser`, with the rows a transaction has deleted locked until its end; `StartDelete` is the snapshot of the DELETE, `DeleteRows` its end after waiting for a rival, which is why it may miss rows its rival inserted. The statements by which `getPermissions` (`M/core/auth/infra/repository_pg.go:525-551`) would give a member without permissions a role are left out: the INSERT names a column `id` that this repository's migrations do not give `membership_roles`, so the database refuses it and the transaction ends without a write. `ListTenantUsers` joins the links of WhatsApp: a user with two shows every role twice, which the property states.

### ReminderPayments, Categories, Documents, LedgerViews

`BeginPayment`, `LogEntry`, `CommitPayment` are the statements of `AddPayment`; `BeginDeletion` and `CommitDeletion` those of `DeletePayment`, which counts the earlier payments again to build the description it searches for. `shifted` records what makes that number or text another one.

`FindCategory` and `InsertMissing` are look-up and insertion as forms, chat and budgets do them, `CountDefaults` the seeding of an empty list. The handler of a lost race waits for a unique violation, but the schema of a workspace has no such index: twins are possible, and `TwinsAreExplained` says when. `CountedBy` is the budget's sum: it follows the tree down and takes expenses of the budget's period (`InPeriod`), whatever the budget's status. `FindActiveByCategory` is the alert's query: it follows the tree up and takes budgets that are active and not over on the day of the query (`Ended`), whatever the expense's date. `FoundFor` is the call, which an expense without a category does not make. No step looks at status and period, so they are not part of the state but a parameter of the two queries (`Terms`), and the property speaks of all they may be. A paused or ended budget therefore counts what it is not asked about, a future one is asked about what it does not count, and a budget of all categories counts expenses nobody asks it about; `FoundAsCounted` says that these are the only differences. A budget's form gives a comma-separated list of names, each looked up and inserted in turn; the module resolves one.

`Documents` has row, work, object and last transaction of a report or a receipt scan, either of which may stop anywhere; a put that fails may leave a truncated object, as the local store does. `LedgerViews` has a row list with the six orders of the lists (`TransactionsBefore` and so on, ties broken as in the code), one SELECT COUNT and one page per request, the dashboard's requests around a cache of five minutes that no write clears, and the chat's three statements. `GetTopCategories` groups rows by category and type (`Group`, `KindOf`), orders the groups by their rows and cuts them off at `TopLimit` (the code: 10, at most 50); `RecentTx` is the latest `RecentLimit` rows (the code: 100). So the top categories may fall short of the summary and the latest rows of the month with nothing written: `TopFallsShort` and `RecentFallsShort` say which rows may be missing. A row that comes back into a filtered list by a change of its status is left out.

### WaLink, WaIntake, WaChat, ChatCommands, AiProviders

`WaLink`: `ReadCode`, `MatchProfile`, `DropByPhone`, `DropByAccount`, `InsertLink`, `DropCode` are the transactions of `ProcessLogin`; `ConnectDirect` does the last ones for a typed number, which is kept in its local form and therefore is another row than the same number as a gateway sends it.

`WaIntake`: `ReadSender`, `ReadWords` and `Addressed` are the five parsers of the webhook over posts that differ in what the parsers look at (gateway, group, alias, own message, order of the words, image). `LookUpSender`, `QueueMessage`, `StartChat`, `RecordMessage` follow one message to the ledger, while `LinkFromChat`, `LinkFromPage` and `Unlink` change the links. The row of a group's message has the group as its chat, so an unlinked member is not found later by it.

`WaChat`: the map `pendingScans` of two processes, since the webhook processes messages itself when the queue cannot be written; `LookUp` and `TakePending`/`PutScan` are the two uses of the lock. `ChatCommands`: the two transactions of a delete and of an update. `FindForUpdate` fills in what the message does not ask for from the row found, the category by the name it is shown under (`ShownAs`, "Tanpa Kategori" for none); `UpdateChatTransaction` writes all fields to the row it finds then, and looks the name up among the categories of the type or inserts it (`CategoryFor`), unless the type is a transfer or savings, which have none. So an update may change or make a category nobody asked for: when the row had none, when a form gave its category another type, when two are called alike, or when the type is asked for. `WriteCategory`, `DropCategory`, `WriteRow` and `DeleteRow` are the pages in between. The subtotal, which becomes the amount at each update, is no field of the module. `AiProviders`: the five readers as operators over the settings, which only pages change.

### Backups, SystemUpdate

`DumpSchemas`, `WriteBackup`, `RestoreBegins`, `UnpackBackup`, `DropSchemas`, `LoadDump` are backup and restore in the order of the code. A full backup of a workspace packs the whole storage directory, until the uploaded copy of the backup itself creates `storage/tenants/<code>`, which from then on is what is packed (`Packs`, `Archives`). `SystemUpdate` has one action per step of the goroutine of `ApplyUpdate` (`RestartOthers` may restart nothing, since the error of `pkill` is ignored); `UpdateAvailable` is `CheckUpdate`.

### ConnPool

`call` is where a goroutine is between `BeginTx` and the return of its connection, `free` the connections left of `DBMaxOpenConns`. `Ask` and `GiveBack` are the pool of database/sql (external): who asks gets a connection or waits, one that comes back goes to any who waits. `BeginInner` is the second connection that `SoftDeleteAttachment` always and the look-up of permissions (`getPermissions`, when a workspace has no roles) sometimes takes inside its transaction. `RequestTimesOut` ends a wait or a statement anywhere, with the deferred rollbacks.

### Backend

The seventeen modules from `AuthSessions` to `ConnPool` share no variable: each keeps tables (or a view of tables) of its own. `Backend` runs them side by side, and `BackendNext` moves only the one in `focus`. A property of one part depends on that part's steps alone, and a behaviour of the whole system is, seen from one part, a behaviour of that part with stutters: what holds for each focus holds of the whole. What two parts do share in the code (the links of `WaLink` read by `WaIntake` and `Members`, the rows of the ledger in several) each part models with the writes of the others as actions of its own: `LinkFromPage`, `WriteRow`, `EditEntry`, `Appear`.

## The runs

All pass runs of safety properties use `CHECK_DEADLOCK FALSE`: the bounds on posts, retries, files, ids and transactions make the systems stop.

| run | instance | shows |
|---|---|---|
| `WaOneWorker` | 2 messages, 1 handler, 1 worker, 1 retry, all failures of the worker side | with one worker: nothing acknowledged is lost, a success was answered, no message is recorded more often than submitted, a final status is left by a retry only, the table implements `JobQueue`, every pending row is taken |
| `WaTwoWorkers` | 1 message, 2 handlers, 2 workers, 2 posts, 1 retry, every failure | `DuplicatesBounded`: how often at most the split claim records a message |
| `WaDoubleClaim` | 2 workers, no failure | violated: two workers take one row and record it twice |
| `WaSameText` | 2 messages with one id | violated: the second message is acknowledged and dropped |
| `FsQueue` | goal attachment and infected transaction attachment, 2 worker processes, 2 attempts, every failure | no file is scanned twice at once, queue and file agree, an unscanned goal attachment is not served, verdicts are final, the table implements `JobQueue` |
| `FsEnds` | 3 files, 2 workers, store, insert and API failures | a visible row has its object; every queued file ends |
| `FsServedUnscanned`, `FsNotQueued` | one file, no failure | violated: transaction attachments are served before their scan; payment proofs are never scanned |
| `SlOneRequest` | 2 transactions, 2 goals, 1 request, amount 3, errors, forms and chat | a goal not in doubt shows the sum of its links; shares add up |
| `SlTwoRequests` | 2 requests, 1 goal, no failure | violated: the older total is written last |
| `SlSmallShare` | 1 request, amount 1 over 2 goals, no failure | violated: the empty share is taken for a lost one and the amount counted twice |
| `BkAll` | each of the seventeen parts in focus: 2 requests, jobs or handlers over 2 or 3 rows (4 goroutines over 2 connections), with every failure of the part | the properties below |

`BkAll`, by part:

| part | property | says |
|---|---|---|
| `AuthSessions` | `RevokedSessionHasNoToken` | a session marked revoked has no live token, in any interleaving of two revocations and a login |
| | `ReuseIsExplained` | a refresh is taken for the use of an old token only after a logout, a password change, a second use at once, or a lost answer |
| | `OldTokenIsDead` | a refresh that goes on to new tokens has killed its own |
| `LoginLockout`, `RateLimits`, `Tenants` | `LimitsAreExplained` | how many wrong passwords, sign-ins and wrong registration codes pass at most, and that nobody is refused earlier than the limits and the lost answers of Redis explain |
| `Tenants` | `SharedSchemaIsExplained`, `UnusableIsExplained` | which live workspaces share a schema, which listed ones cannot be used |
| `Members` | `RolesAsAsked` | stored and shown roles are the ones last asked for, unless two requests mixed |
| `ReminderPayments` | `EntriesAccounted` | an expense outlives its payment, and a deletion takes another's expense, only for the listed causes |
| `Categories` | `TwinsAreExplained`, `FoundAsCounted` | two categories with one name; the two walks through the tree agree, and status, period and expenses without category are all that makes found and counted differ |
| `Documents` | `DocumentsAccounted` | reports and their objects |
| `LedgerViews` | `ViewsAreExplained` | which rows a reader of all pages misses or sees twice; figures read together agree unless something was written, but for the rows beyond the limits of two queries |
| `WaLink` | `LinkedTwiceIsExplained` | when an account has two numbers |
| `WaIntake` | `IntakeIsRight` | posts are read as their writer's; a message is recorded for an account its sender had, and for the sender's if that never changed |
| `WaChat` | `ScanAccounted` | a scan recorded twice, a scan removed by another's answer |
| `ChatCommands` | `UnaskedChangeIsExplained` | of an untouched row with an id of its own, no field is changed that nobody asked for, except a category whose name does not lead back to it |
| `AiProviders` | `ProvidersAgree` | the status page says yes exactly when a provider is left to try or a key became unreadable; in which settings exactly the readers differ |
| `Backups` | `RowsKeepTheirObjects` | rows without objects after backup and restore |
| `SystemUpdate` | `UpdatesAreSound` | code ahead of the schema; an update that is not offered |
| `ConnPool` | `PoolIsSound` | no connection is lost wherever a request ends; nobody waits beside a free one; all are stuck only when every connection is held by one who waits for a second |

Why these bounds are enough to be of interest. Two workers and one row show every race of the claim; a third worker only repeats the second. Two messages make the order of the queue matter (a row that keeps failing at its head). Two attempts separate the last attempt from the others. Two transactions and two goals are the least for which a total is a sum and a transaction is divided; amount 3 over two goals has a remainder. `Shown` (0 to 3) stops adjustments that would lead a goal out of it, which errors in a row otherwise do without end. With amount 3 no share is empty, so `SlOneRequest` says nothing of that case; `SlSmallShare` does.

In `BkAll` two requests show every race of two; three of them only matter where something counts them, and there the bound is stated in their number (`AttemptsBounded`, `LockIsExplained`). Two sessions of one account let an old and a new one meet. Two payments of one reminder have an order and a number to shift, with one edit between them (`MaxEdits`); three categories make a tree with an inner node, a budget names one of them (`MaxBudgetIds`); a code may be tried once (`MaxOtpAttempts`), so that two requests exceed it; three rows on pages of one row make three pages, two writes (`MaxWrites`) move a row over a page's edge and back, and two rows with figures (`MaxCounted`) of an expense or a transfer (`Group`, `Kinds`; income goes the way of expenses) are one more than `TopLimit` and `RecentLimit` let through; groups of different sizes would need a third row and are left to the theorem. `SomeTerms` are a budget that is open, one that has ended and one that is paused, `Date` the day of the query (`Today`) and the one before. `OneFieldEach` are messages that ask for one field each; two categories, two names of which one is "Tanpa Kategori" and two types of row make every way in which a name does not lead back. `LoginLimit` 2 below `ApiLimit` 3 separates the limiters; counts are cut off where a larger one makes no difference (`MostFailures`, `MostCounted`). One workspace with one attachment and one file is enough for two jobs of `Backups` to cut across each other and across the removal: the rows of several workspaces only meet in a file, piece by piece. `MaxVersion` 2 allows a second update after the first, `WaIntake` follows one message of one person with two accounts, `MostLinks` 2 is a user with two numbers. `Alike` permutes the requests and the rows: no part distinguishes them, and where rows are ordered (`LedgerViews`) they are numbers and not permuted.

Two connections and four goroutines let two callers stall each other, and leave a third and a fourth to wait behind them or to go first; with no more goroutines than connections only the second one is ever waited for.

For every larger instance there are the proofs.

**Fairness.** `WaBotQueue`: the handlers and the steps of a worker that has a row run on (the Go scheduler, weak fairness); the three steps that may be preempted by `GiveUp` or a crash, `Select`, `CommitSelect`, `MarkProcessing`, have strong fairness: the ticker calls them again every two seconds, and a call that may fail is assumed not to fail every time. `FileScan`: weak fairness of `ProcessNext` of each worker, its ticker; none for uploads, downloads or deletions, which nobody is bound to start. `QueuedEnds` is checked without worker crashes and lost worker transactions: with them a job stays in `processing` for ever, since no code takes it back. The parts of `Backend` have none: requests come when people make them, and their properties are about safety: that callers who hold a connection each and wait for a second one stall until a timeout is what `PoolIsSound` says of states, and `API_REQUEST_TIMEOUT_SECONDS=0` switches that timeout off; a report or scan whose request died stays open for ever by design of the code.

**What the code does that its documents do not say** (`findings`): the chatbot claim is not exclusive; equal texts without a gateway id are dropped; transaction attachments start clean and payment proofs are not scanned, though every upload is said to be scanned; goals lose or double amounts. Others follow from reading the modules and have no run:

- a chatbot row or scan job that was `processing` in a crash stays so, and `failed` in the chatbot queue means only that the reply could not be sent, so that a retry records the transaction a second time (`RecordedWithinGrants` counts it as granted);
- the insert of a receipt scan leaves out `tenant_id`, and the upsert of a provider's settings names a unique key the table does not have: with this repository's migrations both fail; `Documents` and `AiProviders` follow the code;
- the reminder worker and the budget alert have no workspace in their context and read the public schema;
- after an update cut short between its reset and its build the check compares equal versions and offers nothing;
- a data-only backup restored after the schemas were dropped loads nothing and reports success; a full backup of a workspace contains only earlier backups once one of them was uploaded;
- of a post with several messages the Cloud API's handler reads the first, and images not at all; a group image whose caption names the bot before `!scan` loses its address;
- a number typed on the account page (local form) is never found by a webhook's sender (international form);
- a list asked for more than 100 rows returns 20 and names the asked number as its page size.

## The proofs

All theorems are for every value of the constants that satisfies the module's named assumption, hence any number of messages, workers, files, transactions, goals, accounts and requests. Each proof states an inductive invariant (a name that ends in `Inv`), proves it for `Init` and for each action, and derives the theorem. **Every safety property and every action property of a passing run is stated by a theorem.** What the theorems assume besides:

- `OneWorkerRecordsWithinGrants`, `OneWorkerImplementsJobQueue`, `FinalStatusesStay`: one worker. With two they are false, as `WaDoubleClaim` shows; what holds then is `DuplicatesAreBounded`.
- `AckedNeverLost`: messages have different ids (`WaSameText` is what happens otherwise). `LiveRowsHaveObjects`: no commit loses its answer. `OneRequestIsExact`: one request at a time (`SlTwoRequests`).
- Sets that are counted or summed are finite: workers, transactions and goals (of which a total is a sum), sign-ins, workspace requests, payments, categories, chat handlers, callers; the code has finitely many of each at any time. Sets from which a row takes a value have one: codes, addresses, names, reminders, titles. Values that stand for "none" are no members of the sets they are absent from. Limits are positive; for the connections that leaves out `DB_MAX_OPEN_CONNS=0`, which means no limit, and then nobody waits.

**WaBotQueue.** `TypeCorrect`. `AckedNeverLost`: a handler that is about to answer has left a row or processed the message. `SuccessWasAnswered`, for any number of workers: a worker in step `"success"` has answered, and only it writes that status. With one worker the invariant relates the recorded transactions and the started runs to the grants by what the worker holds: a row it selected is still pending and has a grant to spare; a row being processed has used it up but may be reset to pending by a retry, which adds one. From it follow the bound, the refinement of `JobQueue` and `FinalStatusesStay`. `DuplicatesAreBounded` is for any number of workers: `WorkersInv` adds to what is recorded what may still be recorded, that is the workers that marked the row and, while it is pending, all workers, afterwards those that have read it. A grant adds one place per worker; every read, mark, crash and record only uses places up.

**FileScan.** `TypeCorrect`; `ScansAreExclusive`: a busy worker's job is `processing` and nobody else's, since only the claim makes it so and only the outcome ends it; `OutcomesAgree`; `ServedIsScanned`: a checked goal attachment has a done job with a clean verdict, which no later step can change; `VerdictsAreFinal` (an action property, from the same invariant); `LiveRowsHaveObjects`: an object is removed only by an upload without rows or after its rows; `ScanQueueImplementsJobQueue`, for any number of workers.

**SavingsLedger.** `OneRequestIsExact` computes no sum: two totals are equal when every contribution is. The invariant speaks of the total without the request's own transaction: while a request is under way every goal it does not touch is exact but for that transaction; after its links are written they are all to goals it touches; what it read for those is their total unless the chat has cast doubt on them since. At the end the two halves meet. `TypeCorrect` and `SharesAreComplete`, for any number of requests, do compute sums. `SumIs` says that a function on the subsets of a domain that grows by `f[x]` with each `x` gives what `SumFunction` gives, whatever order that takes; `SumsExist` builds one; so a sum of numbers is a number, and the portions of `Allocations` with their remainder add up to the amount (`AllocationAddsUp`). `SharesInv`: one request on a transaction at a time, a request about to link has written the amount it divides unless the chat wrote since, a deletion has deleted.

**People** (`PeopleProofs`).
*Sessions*: `SessionsInv` says that the two rows of a session come into being together, that cookies and requests hold only what was issued, that a transaction locks rows that are there and sessions of its own account, and that a request between the two UPDATEs of `RevokeSessionByRefreshHash` holds the token locked if it is live: so whoever marks the session has the token in the same commit (`RevokedSessionsAreDead`, `OldTokensAreDead`). `ReusesAreExplained` needs `TokensInv` besides: a token is known only to the browser it was issued to (`HoldersOwn`), one request at a time uses it unless that excuses it (`OneUse`), and one that is dead with nothing to excuse it is being replaced by the refresh that killed it (`DeadIsReplaced`).
*Workspaces*: who makes one fixes the case of its code, among the live rows the index keeps code and case apart, hence two of one maker differ in their code (`SharedSchemasExplained`); `UnusableExplained` goes with the types. `AttemptsAreBounded` counts the verifications that have compared and not yet counted.
*Roles*: `RolesAreAsAsked`. The lock on the user's row lets one form at a time go on (`FormAlone`), and a request whose DELETE has begun leaves no row behind, unless another's insert in between has mixed the roles (`DeletesAll`).
*Limits*: `LocksAreExplained` and `SignInsAreLimitedByBoth` balance what was let through against what is counted and what is between the two.

**System** (`SystemProofs`). `UpdatesSound`: the status admits one update before its last step (`OneActive`), nothing is newer than the sources, a binary newer than the schema is recorded or lies between build and migrations, a program behind the tree is being built, restarted or was cut short. `RowsHaveTheirObjects`: a row read by the dump has its object until something is removed while the job runs, and a packed file holds the objects of its rows. `ConnectionsAreSound`: free connections and held ones are together `MaxOpen`; none is free while somebody waits, since a release hands it on.

**WhatsApp** (`WhatsappProofs`). `LinkedTwiceExplained`: who is about to insert finds no row of its account unless it is recorded that it may. `UnaskedChangesExplained`: what a command carries from its first transaction is what the row it found, and its category, still show, unless one of them was written since; the name then finds only that category, unless it does not lead back to it, and makes none. `ScansAccounted`: a scan that waits is in one place, two confirmations hold it only if both found it before either took it, and who removes another's scan came between. `IntakeDoesRight`: the account in the row or in the chat is one that the sender had since the post. `ProvidersDoAgree` is about operators over the settings: the types of the settings are invariant, and from them it follows by cases in which settings, and in which only, the status and the readers differ.

**Records** (`RecordsProofs`). `DocumentsAreAccounted`: one request makes a document, and an object without a row lies between the put and the last transaction. `EntriesAreAccounted`: `created_at` orders the payments (`PayOrderInv`), one that begins while another is open is shifted, and so the number counted at the deletion is the one written at the beginning (`TextsInv`). `CategoriesAreExplained`: two requests about to insert one label have found none together. `BudgetsAreFoundAsCounted`: the walk down from a budget's categories reaches a category exactly when the walk up from it meets the budget, for trees of any depth and parents that are gone, by induction over the length of the path; what is left of the two queries are the conditions on status, period and day. `ViewsAreAccounted`: a page is a segment of the rows in their order, and a row is missed or shown twice only if rows before it came or went between two pages; figures are sums over the same rows while nothing is written, of which the limited queries leave out a tail of their order.

**Backend** (`BackendProofs`). A behaviour of `Backend` is a behaviour of each part (one lemma for each of the seventeen): the step of another part leaves it alone. Hence all their theorems hold of the whole (`BackendIsSound` states them together, `BackendIsTyped` and `LimitsHoldTogether` the conjunctions that the run checks).

**Induction.** The library's induction theorems take an operator and no installed prover instantiates one, so inductions here go by a least counterexample: strict inclusion is well founded on the finite subsets of a set, which gives the least of some numbers (`LeastOfRange`, `RangeInduction`, and with it functions defined by steps, `StepsDefine`) and a smallest of some finite sets (`SmallestSet`).

**What the proofs found.** In `WaIntake` two branches of a `CASE` could both be true; TLC takes the first, but the value is then left open, and the proof of `IntakeDoesRight` failed there. The branches are now `IF ... ELSE` in the order of the code's tests. A type of `RateLimits` left open what a store's claims are.

**Only model-checked**: the liveness properties (`PendingIsTaken`, `QueuedEnds`), since fairness and `ENABLED` are out of the prover's reach; the violated properties.

## Not modelled

- Reminder worker and the budget alert's thresholds: no workspace reaches them (above).
- Entitlement, permissions: a look-up or a refusal that changes nothing. Anomaly detection: log lines.
- The denylist of access tokens: it holds entries for one hour at most, and its errors let every request through, so it adds no guarantee.
- The search path of a transaction: given. Lifetimes of idle connections.
- The migrator: SQL text in order. Object stores and outbound gateways: calls that succeed or fail.
- The item loop of one chat message, the model's answers, the reading of images: what they yield is data.
- Two requests on one transaction at the same time; sums and rates; accounts, plans and settings in single rows; `MarkRead` of one notification; uploaded backup files and restores under another target.
- Parsing, rendering, HTTP routing, the web client, the installers.

## Plan

Done: 1. `WaBotQueue` with `JobQueue`; 2. `FileScan`; 3. `SavingsLedger`; 4. the seventeen parts of `Backend`; 5. a theorem for every safety and action property of the passing runs, and the composition.

Left, in this order:

1. `SavingsLedger`: two requests on one transaction; an exactness theorem for concurrent requests on different goals.
2. The number of runs of a scan job and of a chatbot row as bounds in the refinement of `JobQueue` (for several workers, with the factor of `DuplicatesAreBounded`).
3. The item loop of a chat message composed with the queue's workers and their retries.
