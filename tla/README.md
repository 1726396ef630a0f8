# A verification of the WhatsApp message sender

This directory holds TLA+ models of the backend in `src/backend` and of the pages
of the console in `src/frontend`, the TLC configurations that check them on small
instances, and proofs checked by TLAPS. Paths below are relative to `src/backend/src`
unless they start with `src/`, or with `app/`, `lib/` or `components/`, which are in
`src/frontend/src`.

## The system

The backend is one Node process (NestJS) over one PostgreSQL database, and it
calls Meta's WhatsApp API. The frontend is a browser client of its HTTP API: each page
keeps what it heard of the backend, with calls in flight that may fail, be overtaken, or be
answered after the operator has moved on.

| Component | State | Operations | Hard behaviour |
|---|---|---|---|
| Campaign engine, `campaigns/campaigns.service.ts` | the `Campaign` and `Message` rows; in memory, the `engines` map from a campaign to its `EngineState` | create, start, pause, resume, stop, retryFailed; the background `runLoop` with `deliver`, `complete`, `failCampaign`; recovery at boot | requests and runners interleave at every `await`; the status is checked, then written later without a condition; a crash or a database error may hit between any two steps |
| WhatsApp gateway, `whatsapp/whatsapp.service.ts` | configuration only | sendText, sendTemplate | a request that times out may have been accepted |
| Webhooks, `webhooks/` | delivery status and timestamps on `Message` rows | verify, check the signature, process status events | events are duplicated, late, out of order, concurrent; read, then unconditional update |
| Direct send and history, `messages/` | `Message` rows without a campaign, `Customer.status` | send, list | accepted by Meta, then the insert fails; two sends overwrite one customer |
| Customer import, `customers/` | `Customer` rows | preview, import, list | stored numbers are read, then rows are inserted: at once, or one by one when that throws |
| Templates, `templates/` | `MessageTemplate` rows | create, update, archive, list, preview | the name is checked, then inserted; a lost answer of an insert that took effect |
| Settings, `settings/` | `AppSetting` rows, one per key | put, get | one upsert per key, beside another update, and a later key may fail; texts that are accepted and then not read |
| Authentication, `auth/` | none: the session is a signed token in a cookie | login, logout, session check, guard | tokens expire by the server's clock and cookies by the browser's; the cookie of a call is that of the moment it was sent, and the headers of an answer change it before the page hears of the answer |
| Audit, `audit/` | `AuditLog` rows | record | written last, and a write that fails is swallowed |
| Analytics, `analytics/` | none | dashboard | counts of a table that changes meanwhile |
| AI assistant, `ai/` | none | generate, improve, personalize | the model is free to drop and invent placeholders; a draft is improved again and again |
| Pages, `app/` and `lib/auth-context.tsx` | React state: rows shown, open dialogs, flags, results | loads, refreshes, polls, submissions | answers in any order; closures of an earlier render; a dialog closed or reopened under a call |
| Health, bootstrap, migrations | none | wiring | recovery runs before the server listens |

The engine calls the gateway for each message and reads templates and
customers; webhooks write the same `Message` rows the engine writes; every
component writes audit rows that nothing reads back.

What makes each component correct:

- **Engine.** Nobody receives a message twice; one runner works at a time; a
  halted runner stops sending; statuses follow `TRANSITIONS`; COMPLETED means
  drained; attempts are bounded; counters end up equal to the rows; a RUNNING
  campaign ends; a crash loses nothing but the record of the send in flight.
- **Gateway.** Only outcomes known not to be accepted are called retryable.
- **Webhooks.** A message never moves back, whatever order events take; FAILED
  is terminal; a lifecycle time is written once.
- **Import.** A number is stored no oftener than concurrency and lost answers explain;
  the answer counts what was added; no usable row is dropped.
- **Direct send.** What the client, the history, the customer and the audit trail are told
  agrees with what Meta took; only a message Meta did not take is called retryable.
- **Templates.** No text typed for one template lands in another; the list catches up
  with the table; a preview is of the template and the customer it names.
- **Settings.** An update that was answered is stored in full.
- **Authentication.** A tab that shows itself as signed in holds a session, and only a reload, a
  logout or a denial signs it out.
- **Dashboard and history.** No number is shown that was not heard; the two agree.
- **AI assistant.** No placeholder is lost by the model, over any chain of drafts.
- **Campaigns page.** One opening of the wizard broadcasts once; the drawer shows the
  numbers of its campaign; what a button offers is carried out.
- **Customers page.** The list answers the query that is set; what is imported is what was previewed.
- **Connection page.** The label tells what sends do.

## Modules

| Module | What it is |
|---|---|
| `CampaignEngine` | the campaign engine for one campaign, and its properties |
| `MCCampaignEngine` | instances for TLC |
| `CampaignButtons` | the buttons the console offers for a campaign, against the engine of the run `EngineOperator` |
| `CampaignEngineProofs` | type correctness and the shape of memory, proved |
| `CampaignEngineSafety` | a halted runner stays halted; a single runner, or a single active one; claims and RUNNING campaigns have a runner, proved |
| `CampaignEngineRows` | a single delivery, attempts, SENT, completion, counters, status, and what the buttons offer, proved |
| `MessageLifecycle` | what delivery tracking promises for one send: the status only moves forward |
| `DeliveryPolicy` | the status vocabulary and `resolveTransition` |
| `WebhookDelivery` | status events of several POSTs, applied to one message row beside its sender |
| `WebhookDeliveryProofs` | types, lifecycle times, order, convergence and the refinement of `MessageLifecycle`, proved |
| `CustomerImport` | concurrent confirmed imports over one customer table |
| `CustomerImportProofs` | its types, the bound on duplicates, what the answer counts, and that nobody is left out, proved |
| `WhatsAppGateway` | what a send makes of a number, a configuration and an answer of Meta |
| `DirectSend` | concurrent direct sends to one customer, await by await, with their rows and audit records |
| `AppSettings` | concurrent updates of the settings, key by key |
| `ServerProofs` | the direct send, the settings, the template list and the history page, proved |
| `TemplateDesk`, `TemplatePreview` | the templates page: list and editor over the service, and the preview modal |
| `BrowserSession` | one tab, its cookie, and the server that issues and checks tokens |
| `DashboardPage`, `MessageLedger` | the dashboard and its loads; the counts behind it, and the history page |
| `AiDesk` | the assistant's page and service |
| `CampaignsPage`, `CampaignMonitor` | the wizard, and the monitor drawer with its polls |
| `CustomersPage` | the list, the upload dialog, the quick send |
| `GatewayPage` | the connection page: status and test sends |
| `ConsoleProofs` | ten properties of eight of the pages, proved |
| `Application` | the areas beside the engine and the webhooks, for one run |
| `ApplicationProofs` | each area runs by its own specification; the types of them all, proved |

### How `CampaignEngine` corresponds to the code

Node runs a handler without interruption up to its next `await`. So an action is
either one awaited operation (a query, a call of Meta) taking effect, or one
synchronous stretch that touches shared memory. `pc` names the await or the
stretch. Steps that read only the handler's own locals belong to the action
before them; this loses nothing, since no other actor can see them happen.

| Variable | Code |
|---|---|
| `campaign` | the `Campaign` row: `status` and the stored `sent`, `failed`, `pending` (`total` is their sum); `None` before it is inserted |
| `message` | the `Message` rows: `status` and `attemptCount`; ABSENT before they are inserted. DELIVERED and READ count as SENT, as in `ACCEPTED_MESSAGE_STATUSES` |
| `registered`, `engine` | `engines.get(id)` and the `EngineState` objects by identity; `wake` holds the sleeping runner |
| `runner` | one record per `runLoop` activation: its state object and the locals that survive an await (`msg`, the `attemptCount` it was fetched with, the result of the send, the counters about to be stored) |
| `request` | one record per API call being served, with its locals |
| `up` | the process is running |
| `budget`, `accepted` | the bounds spent so far, and how often Meta accepted each message (history) |

- **Requests.** `Arrive` starts one. `Read` is `getCampaignOrThrow` with the check
  of the transition. `start` goes `Claim`, `WriteStatus`, `Launch`; `resume` checks
  PAUSED and then is `start`, which reads again; `pause` and `stop` go `Flag`,
  `WriteStatus`, `RequestSyncRead`, `RequestSyncWrite`; `retryFailed` goes
  `ReadFailed`, one `Requeue` per row, and the status write unless the campaign was
  RUNNING or QUEUED when it was read. A rejected call is `Reply`.
- **Runner.** `Load`, then the loop: `Top` (halt check), `Fetch`, `Picked` (retry
  ceiling and the second halt check), `Prepare` (customer, rendering), the send, `Record`,
  `SyncRead`, `SyncWrite`, `Synced`, `LookAhead`, `Park`, `Timer`. `Prepare` may
  also block the message (no customer, or a missing variable), and `SettleUnsent` settles a
  row without a send. The content of a message is not modelled, so storing it is
  part of `Prepare`.
- **Send.** `MetaAccepts` is the moment Meta takes the message, `MetaAnswers` the
  moment the caller learns of it, or times out; between them the process can crash.
  `MetaRefuses` is a refusal, retryable (429, 5xx) or not, or a request lost on its way.
- **Failure.** `RunnerFault` and `RequestFault` are database operations that throw,
  at any await: the runner goes to `failCampaign`, a handler answers with an error. A write
  that took effect and whose answer was lost is the write followed by a fault at the
  next await. `Crash` empties the memory, `Boot` is `recoverRunning`, which runs before the
  server listens, and `BootFault` is a recovery whose query throws.
- **Launch** takes whichever state is registered at that time, as `launch` does, which
  need not be the one the same request claimed.

Campaigns share no rows and no engine state, so one campaign is enough.

### How `WebhookDelivery` corresponds to the code

`process` (`webhooks/webhooks.service.ts`) walks the events of a POST; each event
costs a lookup by `whatsappId` and perhaps an update, and at both awaits other POSTs and
the sender run.

| Variable | Code |
|---|---|
| `row` | one `Message` row: status, `whatsappId`, and `sentAt`, `deliveredAt`, `readAt`, `failedAt` by the stage they belong to |
| `sender` | the send under way (`deliver`, or the direct send of `messages/`), the ids Meta has given out, and whether `retryFailed` has read the row as failed and not yet put it back |
| `post` | one record per POST being processed: the events left, the budget of the loop, its receipt time, the patch about to be written |
| `budget` | the bounds spent so far |
| `history` | the status the sender left, and the stages reported since (not code) |

`Find` is the lookup, the decision (`Applies`) and the patch, which all happen in one
synchronous stretch on the row as it was read; `Update` writes the patch later, by primary
key. `PassBy` is an event that is not modelled by the backend or has no id, `Fault` a database operation that
throws (an update is logged and counted, a lookup ends the request), `Reply` the
answer. `Receive` delivers any events about any send Meta accepted, also before the sender
has stored the id, so reports may be early, late, repeated, out of order, or never
come. `ReadFailed` and `Requeue` are the two awaits of `retryFailed` that concern a row: it is read as FAILED, and
later written PENDING, whatever happened meanwhile, with its `whatsappId` and its times kept; `RequeueFails` is the write that
throws. `Retried` says that a retry was begun, and `FirstLife` is the status until then: the abstract `MessageLifecycle` is
that of one delivery, so the refinement maps its `status` to `FirstLife`. A lifecycle time is the number of the POST that wrote it, 0 for the sender: enough to tell
who wrote it. The text and code of a failure are left out. Rows do not interact here, so one is enough.

### How `CustomerImport` corresponds to the code

| Variable | Code |
|---|---|
| `stored` | the `Customer` table: how many rows hold each number (`mobile` is not unique in `prisma/contract.prisma`) |
| `import` | one record per `importFromBuffer` under way: the rows of the file, the indices still to insert (`valid`), `inserted`; `added` and `failed` are history |
| `budget` | the bounds spent so far |

`Upload` is `parseFile`, of which only the rows remain: each has a number of a valid length or
none, and a name or none. `ReadExisting` is `existingMobiles` and `classifyRows`, one await and
one synchronous stretch. `CreateAll` is the insert of all rows; if it throws, `Create`
inserts one row at a time, and a row that throws is passed by (`Fault`). `LoseAnswer` is an insert that
took effect and threw at its caller. The fallback calls `create({ data: row })` where the
other services call `createAll([row])` or `create(row)`; what the client does with that shape is
not in the repository, so the model lets each such call insert or throw. The preview and the list only read.

### How `DirectSend` and `WhatsAppGateway` correspond to the code

`WhatsAppGateway` has the pure decisions of `whatsapp/whatsapp.service.ts`: `NormalDigits`
and `Deliverable` (how a number is normalised and when it is refused), `WithoutRequest` (dry run, missing
configuration), `FromResponse` and `WithoutResponse` (which answers count as accepted, failed, or
retryable). A number is its digits' count and kind, not its digits.

| Variable | Code |
|---|---|
| `gateway` | mode and credentials, fixed at boot |
| `send` | one record per `POST /messages/send`: await point, result of the gateway, reply |
| `taken` | the requests whose message Meta accepted (history) |
| `history`, `customer`, `trail` | `Message` rows, `Customer.status` with who wrote it, audit rows |
| `spent` | the bounds spent so far |

`Post`, `ReadCustomers`, `ReadTemplate` are the validation and the lookups; `MetaDecides` and `MetaAnswers`
the two ends of the exchange, `CutOff` its timeout; `InsertRow`, `UpdateCustomer`, `Audit` the writes in
their order, each with a form that throws (`InsertFails`, `UpdateFails`, `ReadFails`), and a write
that took effect and whose answer was lost. `SendCrash` ends every request under way.

### How the other areas correspond to the code

Each of these modules keeps the React state of a page under the names of its fields, the calls in
flight, and the rows of the server the calls work on. An action is a handler up to its first `await`,
one step of the server, or the rest of a handler when its answer is delivered, with the
`finally` that follows. Calls of a page are not ordered among each other: an answer may overtake
another, or be lost where the code has an error path for it.

| Module | State and code | Actions and handlers |
|---|---|---|
| `TemplateDesk` | `templates` is the table; `desk`, `editor` the state of `app/templates/page.tsx`; `deskCalls` the calls in flight | `DeskRefresh`, `OpenCreate`, `OpenEdit`, `CloseEditor`, `SaveTemplate`, `ArchiveTemplate`; on the server `ServeList`, `CheckName` then `InsertTemplate`, `UpdateTemplate`; `TemplatesListed`, `TemplateSaved`, `TemplateArchived` are the answers |
| `TemplatePreview` | `viewer` is the modal, `renders` and `rosters` the previews and customer loads under way | `HandleOpenPreview`, `HandlePreviewCustomerChange`, `ClosePreview`, `PreviewRendered`, `PreviewFails`; `RefreshRecipients` is `handleRefresh`, and the fetch at the end of a save or an archiving, with the customer its closure holds; `RecipientsLoaded`, `RecipientsFail` |
| `BrowserSession` | `tab` is `AuthProvider`'s status, the path and the buttons' flags; `cookie` and `issuer` the browser's and the server's side; `line` the calls, with whether their headers arrived | `Reload`, `Redirect`, `Navigate`, `Login`, `Logout`, `LoadPage`; `ServeSession` is the guard and the controller; `HeadersArrive` is `Set-Cookie`; `SessionChecked`, `LoggedIn`, `LoggedOut`, `PageLoaded` are the answers once their body was read; `Expire` on the server, `CookieExpires` in the browser |
| `DashboardPage` | `loads` is each `Promise.allSettled`, `board` what was heard of each source | `BoardRefresh`, `Settle`, `ApplyLoad`; `StatCardValue`, `StatCardMarked` and `PanelShows` say what is rendered |
| `MessageLedger` | `ledger` is the rows' statuses, `stats` the dashboard's answer, `logPage` the history page | `InsertMessage`, `MessageMoves` (engine and webhooks, by `DeliveryPolicy`), `Dashboard`, `RefreshMessages`, `ServeMessages`, `MessagesListed`; `StatStrip` is what the page counts |
| `AiDesk` | `assistant` is the form, the draft and its edit, `asked` the request in flight | `HandleGenerate`, `HandleRegenerate`, `HandleImproveDraft`, `EditDraft`, `ResetDraft`; `AcceptsGenerated` is what the service lets pass |
| `CampaignsPage` | `wizard` is its state, `flight` each `handleCreateAndStartCampaign` under way, `made` the campaigns | `HandleOpenWizard`, `CloseWizard`, `NextStep`, `HandleCreateAndStart`, then `Fetch`, `Insert`, `Created`, `Started`, `CallFails`, `Fetched`; `StartFromTable` |
| `CampaignMonitor` | `drawer`, the `intervals` that tick, `progressing` the polls and control actions under way | `OpenMonitor`, `CloseMonitor`, `PollProgress`, `HandleCampaignAction`, `ProgressHeard` |
| `CustomersPage` | `query`, `rows`, the `lists` in flight; `upload` the dialog, `work` its calls | `SetQuery`, `FetchEffect`, `RefreshCustomers`, `CountRows` then `ReadRows`, `CustomersFetched`; `HandleFileChange`, `HandlePreview`, `HandleConfirmImport`, `HandleSendSingleMessage` |
| `AppSettings` | `appSetting` is the table, `put` each update | `PutSettings`, `UpsertSetting` per key, `GetSettings`, and their failures; `Bodies` is what `UpdateSettingsDto` lets through, `ReadsAs` what `get` makes of a stored text |
| `GatewayPage` | `gatewayConfig` is the environment, `connection` the page, `test` the send in flight and its result | `RefreshStatus`, `StatusHeard`, `HandleSendTestMessage`, `MetaTakesTest`, `TestAnswered`; `EngineMode` is the label |

History variables (`deskMuddled`, `crossed`, `gone`, `mixed`, `swapped`, `origin`, `reached`, `pageFaults.lost`,
`put[p].overwritten`) are not code; a property uses them to say exactly which interleavings it excepts.

`Application` puts these areas, and `CustomerImport`, behind one variable `area`. They share no row the models keep
apart from what their own module already holds, so a behaviour stays in one area and the others rest: the run checks
the specification of each area, not their product.

## What is model-checked

All runs use `CHECK_DEADLOCK FALSE`: the number of API calls is bounded, and a
backend with nothing to do is idle, not stuck.

| Run | Instance | Properties |
|---|---|---|
| `EngineOperator` | 2 messages, 1 attempt, one request at a time, all operations, 5 requests | `TypeOK`, `OneActiveRunner`, `ClaimHasRunner`, `WindingDownIsFinal`, `OfferedActionIsTaken` |
| `EngineExclusive` | 2 messages, 2 attempts, 2 requests at once; create, start, stop; 4 requests, 1 crash, 1 database error | `OneLiveRunner`, `AcceptedAtMostOncePerLife` |
| `EngineRetry` | 2 messages, 2 attempts, one request at a time; create, start, stop, retry; 5 requests | `SentIsFinal`, `AttemptsOnlyForward` |
| `EngineUnattended` | 2 messages, 2 attempts, new or inherited database; create, start; 2 requests, 2 crashes, 2 database errors | `CompletedIsDrained`, `CountersAgree`, `StatusFollowsTable`, `RunningHasRunner` |
| `EngineLiveness` | 2 messages, 1 attempt, one request at a time, all operations, 4 requests, 1 crash, fairness | `RunningSettles` |
| `WebhookOrdered` | one POST at a time, of up to 3 events with a ceiling of 2; 2 POSTs, 2 sends, 1 retry, 1 crash, 1 database error; a new or a legacy row | `TypeOK`, `Converged`, `StagesHaveTimes`, `TimesWrittenOnce`, `ImplementsLifecycle` |
| `Application` | thirteen areas, one at a time (next table) | `AppTypeOK` and those below |

| Area of `Application` | Instance | Properties |
|---|---|---|
| import | 2 imports at once, 2 in all, every file of up to 2 rows over 2 numbers; 2 faults, 1 lost answer, 1 crash | `StoredOncePerImport`, `ReportsWhatItAdded`, `NobodyLeftOut` |
| send | 2 direct sends at once, every configuration; 1 fault, 1 crash | `RetryableWasRefused`, `AnswerAgreesWithHistory`, `CustomerShowsHistory` |
| desk | 2 templates, 2 texts, 2 calls in flight; 1 failure, lost answer, or change made elsewhere | `SavedWhereShown`, `ListCatchesUp` |
| session | 2 tokens, 2 calls in flight, 4 in all, 1 lost; with or without a session at the start | `OnlyDenialSignsOut`, `SignedInHoldsSession` |
| board | the initial load and a refresh that overtakes it | `UnheardIsMarked` |
| ledger | up to 3 messages, 3 changes, pages of 2 | `StripAgreesWithDashboard` |
| ai | 2 placeholders, 2 drafts in a chain | `PlaceholdersSurvive` |
| page | 2 people of whom 1 is listed, 2 campaigns, 2 submissions at once, 2 openings, 2 faults | `WizardSendsOnce` |
| monitor | 2 campaigns, 2 calls in flight, 2 openings, 5 calls | `NumbersAreItsOwnOrOld` |
| customers | 2 filters, up to 2 customers found, 2 files, 2 list calls in flight | `ListFollowsQuery`, `ImportedWasPreviewed` |
| settings | 2 keys of which one is the name, 2 values beside null and a name of blanks, 2 updates at once, 1 fault | `SavedSettingsAreStored` |
| preview | 2 templates, 2 customers, 2 previews and 2 loads of the customers at once, 5 of both, 2 failures | `PreviewIsOfItsTemplate` |
| gateway | every configuration, 2 tests, 2 refreshes, 2 lost answers | `LabelTellsWhatSendsDo` |

Five runs show where the code does not do what its comments and tests say
(`PROJECT.json`, "findings"); each expects TLC to find the property violated:

- `EngineResend`: pause and resume while a send is in flight send it twice.
- `EngineStranded`: a retry while the runner is completing leaves a PENDING
  message in a COMPLETED campaign.
- `EngineLeak`: a start whose status update fails blocks every later start.
- `WebhookRace`: of two POSTs at once, the earlier stage overwrites the later one.
- `WebhookRetry`: a retry puts a failed message back in the queue under the id of the send that
  failed. A repeated report of that send settles the row, and the fresh attempt is never made.

**The bounds.** Two messages let one be in flight while another waits, and two
attempts let a message be refused, fetched again and exhausted. The interesting
sequences (create, start, pause, resume, retry) fit in five requests. One engine
state per possible claim is enough, and `MCCampaignEngine` asserts it. Inherited
databases start with every attempt count, also a PENDING row that spent its
budget, as test 8b of `campaigns/campaigns.engine.spec.ts` seeds. `Engines` is not
reduced by symmetry, because `NewEngine` chooses one. For the webhooks, two POSTs of
three events cover every pair and triple of reports within and across requests, and three events exceed
the ceiling of two; two sends let an event name a send the row does not. For the import, two imports
overlap or follow each other, two rows cover a duplicate, a shadowed and a failing row, and
two faults reach a failing row of the fallback. For the pages, the hazard is always one
answer that overtakes another or comes after the operator moved on: two calls in
flight, two things they may be about (templates, campaigns, filters, files, tokens) and one more
opening, press or failure than the code expects are what it takes, and the history variables show
that the excepted cases are reached.

**Where each property stops holding.** The runs above use the widest clients for which
their properties hold. These limits are the code's, not the model's: to see
one, change the named constant of the run.

- With `"pause"` among the operations, `AcceptedAtMostOncePerLife` (run
  `EngineResend`), `OneLiveRunner` and `AttemptsOnlyForward` fail: the replaced
  runner sends, and writes the attempt count it fetched, beside the new one. `StatusFollowsTable`
  fails too: `complete` writes COMPLETED over PAUSED, and `pause` PAUSED over COMPLETED.
- With `"stop"`, `StatusFollowsTable` and `CountersAgree` fail even without a crash, an error or a second request: `complete`
  writes COMPLETED over STOPPED, and `stop` stores the counters it read before the runner recorded its last row.
- With two requests at once, `SentIsFinal` fails (two overlapping retries: the
  second resets a row that was sent in between), `OneActiveRunner` fails (pause and two
  resumes: `launch` reads the map after its await), and `RunningSettles` fails (start and
  stop overlap: RUNNING is written last and the runner has already halted).
- With `"retry"`, `CompletedIsDrained` (run `EngineStranded`) and `CountersAgree`
  fail. A retry of a message whose outcome was ambiguous may of course deliver it
  twice: the code says so, and `AcceptedAtMostOncePerLife` is therefore about clients
  that do not retry.
- With database errors, `ClaimHasRunner` (run `EngineLeak`) and `RunningSettles`
  fail: `failCampaign` or the recovery itself may fail.
- With two POSTs at once, `Converged` (run `WebhookRace`), `TimesWrittenOnce` and
  `ImplementsLifecycle` fail; `StagesHaveTimes` holds for any number (it is proved).
- `StoredOncePerImport` is no stronger because the code is not: two imports at once may both find
  a number missing and both insert it, and a lost answer makes the fallback insert it again. `src/README.md:26`
  says that only brand-new rows are inserted; with `Slots` a single import and `MaxLost` 0 the property says so.
- On the pages a property names its exceptions, because the code does not prevent them: a preview,
  a template refresh or a list call that crosses another shows the answer that came last; the drawer shows
  numbers asked for before it was opened; another file chosen under a preview is imported beside the first file's
  report; a start whose answer was lost may be repeated. A mutant of each guard shows that the property
  is not about the exceptions only.
- `PreviewIsOfItsTemplate` also excepts a customer that is taken back: a load of the customers tests the selection its
  closure holds (`templates/page.tsx:137`, `148`), so a refresh that was pressed while nobody was selected yet selects the first
  customer again, under the preview of the one chosen meanwhile.
- `SignedInHoldsSession` excepts two ways to lose the cookie. It runs out in the browser (`auth.service.ts:197`) and nothing
  tells the tab, which stays signed in until the guard denies a call. And the headers of a logout may arrive between those of a
  login and its body (a logout pressed before a 401 led to the login page): the logout takes the new cookie, and the login signs
  the tab in if its body is read last. Without either exception TLC finds the case in this run.
- `UnheardIsMarked` says that a card without a number is marked, not that it shows none: `stat-card.tsx:53` makes a dash of
  the value for the label only, and line 83 shows the value itself, so after a failed load a grey 0 stands over "Unable to load".
- `SavedSettingsAreStored` says what is answered by what the stored text reads as: `UpdateSettingsDto` lets null and a name of
  blanks through, both are stored, and `get` ignores them and answers the default.
- `LabelTellsWhatSendsDo` speaks of the time after a status was heard: until then the label is DRY-RUN
  SIMULATOR whatever the server does. `StripAgreesWithDashboard` holds for tables that fit the first page the
  history asks for; `ListedPeople` of the wizard is likewise the first page of customers.
- `RunningHasRunner` excepts campaigns after a failed query: when `failCampaign` or the recovery itself
  fails, a campaign stays RUNNING without a runner until it is paused or the process restarts.
- `Converged` and `ImplementsLifecycle` speak of the time until the first retry. After it the row answers to the
  reports of two sends: the id of the failed one stays until the next is recorded, so a report about it can settle
  the row (run `WebhookRetry`), or be overwritten by the fresh attempt. `TimesWrittenOnce` goes on, since a retry
  keeps the times and a patch fills empty columns only; but for `sentAt`, which the fresh attempt writes anew.
- `OfferedActionIsTaken` excepts two refusals: a start while the runner that was stopped still winds down, and the
  retry of a PAUSED campaign with failures. The page offers the latter (`src/frontend/src/lib/campaign-utils.test.ts:54`), and
  the engine resets the failed rows before it refuses the transition: the call throws, the rows stay
  reset, and the counters are stale until they are next synced.

**Fairness.** `FairSpec` assumes weak fairness of each runner's and each request's
steps and of `Boot`. The event loop starves no callback; every query returns; the
gateway aborts after `requestTimeoutMs`, so a send always ends; the throttle is a timer;
and the process is restarted by its supervisor. Nothing assumes that a client acts, that
Meta accepts, or that a fault occurs. The specification bounds requests, crashes and
faults; liveness therefore speaks of what follows the last of them.

## What is proved

Every property of a passing run is also a theorem, but for `RunningSettles`, which is a liveness property.
The theorems hold for all values of the constants that satisfy the named assumptions of the modules; TLC
evaluates those on the instances it checks.

### The campaign engine

`CampaignEngineProofs`, `CampaignEngineSafety` and `CampaignEngineRows` assume finitely many messages, at least
one attempt, and any engines, requests and bounds. What else a theorem assumes of the clients or the database
is in its second column.

| Theorem | Assumes | States | Rests on |
|---|---|---|---|
| `TypeCorrect` | | `[]TypeOK` | itself inductive: `AttemptBudget` keeps a runner that is sending below the ceiling |
| `HaltIsFinal` | | `WindingDownIsFinal` | `MemoryInv` |
| `WithoutPauseOneRunner` | no `"pause"` | `[]OneLiveRunner` | `ExclusiveInv` |
| `ClaimsAreServed` | `MaxFaults = 0` | `[]ClaimHasRunner` | `ClaimServed` |
| `SoloOneActive` | `OneRequest` | `[]OneActiveRunner` | `SoloInv` |
| `RunningIsAttended` | `OneRequest` | `[]RunningHasRunner` | `SoloInv`, `Attended` |
| `AttemptsAreKept` | no `"pause"` | `AttemptsOnlyForward` | `RowInv` |
| `DeliveredOncePerLife` | no `"pause"`, no `"retry"` | `[]AcceptedAtMostOncePerLife` | `RowInv`, `Accounted` |
| `SentStaysSent` | `OneRequest`, no `"pause"` | `SentIsFinal` | `RowInv`, `RetriesFailed` |
| `CompletedMeansDrained` | `OneRequest`, no `"pause"`, no `"retry"` | `[]CompletedIsDrained` | `RowInv`, `InsertAlone`, `DrainedInv` |
| `CountersAddUp` | `Unattended` | `[]CountersAgree` | `UnattendedInv` |
| `StatusMovesAlongTable` | `Unattended` | `StatusFollowsTable` | `UnattendedInv` |
| `OfferedMeansTaken` | `OneRequest`, `MaxFaults = 0` | `OfferedActionIsTaken` | `OrderInv`, `ClaimServed`, `DraftFresh` |

`OneRequest` is one request at a time; `Unattended` is that with create, start and resume as the only operations. The numbers of
messages, attempts, requests, crashes and, unless `MaxFaults = 0` is assumed, database errors are arbitrary. For each
assumption, the limits above give a behaviour that breaks a property without it.

The argument, from the bottom up:

1. **Memory** (`MemoryInv`). A live runner has a claimed state; the
   registered state is claimed; a down process has no memory; a sleeping runner is
   the one its wake callback names. `HaltIsFinal` needs this: flags of a state are only ever
   raised while its runner lives, because a new claim uses a new object.
2. **One owner** (`ExclusiveInv`). `OneLiveRunner` is not inductive: a request between
   its claim and its launch will create a runner too. The invariant says that at
   most one runner or claimed request exists in total, and that it holds
   the registered state, still `running` and never paused; so `CanClaim` is false while it exists.
3. **One active owner** (`SoloInv`, with pause). Many runners may be winding down. `SoloOwner` says that a live runner whose
   state is not the registered one is halted, that no two runners share a state, and that a request
   between its claim and its launch has just registered a state nobody works on. So one runner at most is free to take
   messages. Without `OneRequest` the launch may find another request's state registered.
4. **Claims and launches** (`ClaimServed`, `Attended`). A registered state that says `running` has a live runner, or a request that will
   launch one: both let go of it in the step in which they end, unless a query throws between claim and
   launch. `Attended` carries this over to the row: while no query has failed, a RUNNING campaign has a runner that is free to
   take messages, or a request about to write another status or to launch a runner.
5. **Rows** (`OrderInv`, `HeldInv`). The campaign row and then the message rows are inserted once, before anybody
   works on them (`CreateOrder`, `RowsInserted`). With one runner, the row in its hand is still PENDING and has at most the attempts it was
   fetched with (`HeldInv`), so what it writes is not older than what is stored: `AttemptsAreKept`. A retry cannot break
   that, since it takes rows that are FAILED only.
6. **One delivery** (`Accounted`). A message that Meta accepted and that is
   still PENDING is the one the single live runner is recording; otherwise it is paid for
   by a crash or a fault. This is counted message by message.
7. **SENT** (`RetriesFailed`). The rows a retry has read and not yet put back are FAILED still: nobody else moves a
   FAILED row while there is no other retry.
8. **Completion** (`DrainedInv`). From the empty fetch to the write of COMPLETED, and from then on, no row is PENDING. With no retry, the only step
   that makes a row PENDING is the insert of a new campaign, and `InsertAlone` says that nobody runs then.
9. **Status and counters** (`TableInv`, `CountInv`). Under `Unattended`, a live runner works for a RUNNING campaign until the step in which it
   ends it, and what a start has read of the status holds until it writes, so each unconditional write is the
   transition its check allowed. The counters are taken when the only runner is past its last row.
10. **Buttons** (`DraftFresh`). A draft has neither runners nor failed rows, so no retry puts rows of a draft back. A claim
    is refused only while the registered state is `running`, and then `ClaimServed` finds its runner. What is left are the two
    refusals that `OfferedActionIsTaken` names.

### Webhooks

`WebhookDeliveryProofs` proves, for any number of POSTs,
events, sends, retries, faults and crashes:

| Theorem | States | Rests on |
|---|---|---|
| `TypeCorrect` | `Spec => []TypeOK` | a post about to write has a patch and an event at hand; a send under way has its number |
| `StagesAlwaysTimed` | `Spec => []StagesHaveTimes` | `TimedInv` |
| `OrderedImplementsLifecycle` | one POST at a time, `Spec => ImplementsLifecycle` | `OrderInv` |
| `OrderedTimesWrittenOnce` | one POST at a time, `Spec => TimesWrittenOnce` | `OrderInv` |
| `OrderedConverges` | one POST at a time, `Spec => []Converged` | `OrderInv` and `Converged`, together inductive |

`StagesHaveTimes` is not inductive: a patch without a time may be waiting. `TimedInv` adds that the
column was filled when the patch was made, and `TimesKept` that no step empties a column, so it is
filled still. `OrderInv` says that a patch about to be written would advance the row *as it is
now*. That needs two facts: no other POST writes in between (`OneAtATime`, the assumption), and the sender does not
either, because it writes PENDING rows only, which have no id yet, while a patch was made for a
row with an id. Both are facts of the first life of the row, so these parts of `OrderInv` hold until it is `Retried`
(`RetryCounted` ties that to a retry under way); `FreshTime`, that a waiting patch sets a time exactly if
there is none, holds across retries for every column but `sentAt`. `AppliesIsLater` shows that `resolveTransition` is exactly the order of
`MessageLifecycle`, with FAILED last and an unknown stored status first.

`CustomerImportProofs` proves, for any finite set of import slots, any numbers, files of any length, and
any bounds:

| Theorem | States | Rests on |
|---|---|---|
| `TypeCorrect` | `Spec => []TypeOK` | `Sound`: the rows to insert are usable, each with a number of its own |
| `StoredOnce` | `Spec => []StoredOncePerImport` | `Bounded` |
| `NobodyIsLeftOut` | `Spec => []NobodyLeftOut` | `PlacedInv` |
| `AnswerCountsRows` | `Spec => []ReportsWhatItAdded` | `ReportedInv` |

`Bounded` counts, for each number, the rows stored and the imports about to insert it: an import joins
them only when its read found the number missing, at most one per slot, and leaves them with its insert,
unless the answer is lost. `PlacedInv` says that each usable row of a classified file is stored, failed
or still to come; that the table only grows (`StoredGrows`) keeps it while others insert. `Classified` is
about `classifyRows`: for each usable new number it picks exactly one row, the first, by the least
element of a set of numbers (`Least`). `ReportedInv` follows `inserted` from row to row: it lags behind what the import
added only by inserts whose answer was lost, also while the fallback is under way.

### The other services and the pages

`ServerProofs` and `ConsoleProofs` prove, for any constants that satisfy the modules'
assumptions (the bounds are any numbers; any sets of templates, campaigns, keys, customers; there is a filter and a slot to
choose first, and a null is none of the values it stands beside):

| Theorem | States | Rests on |
|---|---|---|
| `SendTypeCorrect` | `SendSpec => []SendTypeOK` | `SendInv` |
| `RetryableIsSafe` | `SendSpec => []RetryableWasRefused` | `SendInv` |
| `AnswersAgree` | `SendSpec => []AnswerAgreesWithHistory` | `SendInv` |
| `CustomerIsHistory` | `SendSpec => []CustomerShowsHistory` | `SendInv` |
| `UpdatesAreStored` | `SettingsSpec => []SavedSettingsAreStored` | `SettingsInv` |
| `ListIsTable` | `DeskSpec => []ListCatchesUp` | `DeskInv` |
| `TextGoesToItsTemplate` | `DeskSpec => SavedWhereShown` | `DeskInv` |
| `PageAgreesWithDashboard` | `LedgerSpec => []StripAgreesWithDashboard` | `LedgerInv` |
| `DraftsKeepPlaceholders` | `AiSpec => []PlaceholdersSurvive` | `AiInv` |
| `MonitorShowsItsCampaign` | `MonitorSpec => []NumbersAreItsOwnOrOld` | `MonitorInv` |
| `PreviewShowsItsTemplate` | `PreviewSpec => []PreviewIsOfItsTemplate` | `PreviewInv` |
| `DashboardMarksUnheard` | `BoardSpec => []UnheardIsMarked` | `BoardInv` |
| `SignedInTabHoldsSession` | `SessionSpec => []SignedInHoldsSession` | `SessionInv` |
| `SignedOutByDenial` | `SessionSpec => OnlyDenialSignsOut` | `SessionInv` |
| `LabelIsTrue` | `GatewayPageSpec => []LabelTellsWhatSendsDo` | `GatewayInv` |
| `OpeningSendsOnce` | `PageSpec => []WizardSendsOnce` | `WizardInv` |
| `ListAnswersQuery` | `CustomersSpec => []ListFollowsQuery` | `CustomersInv` |
| `ReportBeforeImport` | `CustomersSpec => ImportedWasPreviewed` | `CustomersInv` |

None of the properties is inductive. What their invariants add:

- `SendInv`, beside `CustomerShowsHistory` itself, follows a request through its awaits: what Meta took, what the result says and which rows
  exist belong together at each of them. It speaks of one request; `Untouched` shows that a step of
  another leaves it alone, since rows and audit records are only added, so only the crash needs all of them.
- `SettingsInv` adds that each key an update has passed is stored as it was written or was
  overwritten since, that an answer was read when all keys were passed, and that it shows what the texts of the update read as.
- `DeskInv` says (`Catching`) that, unless the desk is muddled, one list call at most is in flight, and that once no change is
  still to be told to the page, its answer is the table, and without one the list shows the table; and (`CallShape`) that a save carries the template its editor was opened for.
- `LedgerInv` says that there is one history of the table, turn by turn (`ReadFrom`), and that the dashboard, the page and each
  answer under way show what it was in the turn they were read in. If they were read in the same turn they are functions of the same table:
  `TallyAdds` counts its rows by status with the cardinality theorems, and `PageCounts` shows by a
  bijection that a page which holds the whole table, newest first, counts like it. `ShareGrows` compares the rates.
- `CustomersInv` says that the newest list call asks for the query that is set, that what a call has counted and read is what the
  table holds, and that the rows shown answer the query once no newest call is under way; and that a report is that of its file.
- `AiInv` says that the draft as the model wrote it holds the placeholders of the text its chain started from, since
  the operator may go back to it from an edit, and that a request that is repeated is an improvement.
- `MonitorInv` says that the interval, the calls asked under the present opening and the numbers
  heard from them are about the campaign of the drawer; `PreviewInv` the same of the preview under way, and
  that without customers nobody is selected.
- `BoardInv` says that each source is heard or marked as failed once a load was applied, and that the
  campaigns are counted once they were heard.
- `SessionInv` says that the session check is alone in flight, in a tab that is loading, and carries the cookie the
  browser still holds, unless it ran out; that a login that was granted was given a token; and, of a login whose headers
  arrived and whose body is still to be read (`HalfReadHasCookie`), that its cookie is there, ran out, or was taken by a
  logout that crossed it. The last is what makes the tab's step to signed in safe, although the cookie came earlier.
- `GatewayInv` ties what was reached and what a test result says to the configuration, which
  does not change after boot, and the status heard to that configuration.
- `WizardInv` says that one submission at most is in flight, of the present or an earlier opening, and that a campaign
  that the wizard started ends its opening.

### The application

`ApplicationProofs` proves that `Application` checks what it says: in every behaviour of `AppSpec` each area starts and runs by its own
specification (`AreasRunByTheirSpecs`), so the theorems above hold of the application too; and `AppTypeCorrect`, `AppSpec => []AppTypeOK`,
from the invariants above and three bounds they leave out (`BoardTyped`, `GatewayTyped`, `LedgerTyped`: the numbers of a table
that is within its bound are within it, and its shares are a hundred percent at most).

**Only model-checked.** `RunningSettles`: liveness, and the `ENABLED` in its fairness, are out of the prover's reach. The five
runs that expect a violation refute a statement about an instance and have nothing to prove.

## What is not modelled

- Message content, rendering, error texts, timestamps, logging and audit rows.
- The length of waits: a timer may fire at any time, so a throttle or a
  `Retry-After` of any length is covered, and none is measured.
- How spreadsheets are parsed, which column holds a number, and the variables of a row.
- Webhooks as writers of the rows of a running campaign: the engine counts DELIVERED and READ as SENT, and
  `WebhookDelivery` has one row beside its sender and its retry, without runners and counters. The signature check and the handshake keep no state.
- Deleting a template or a customer during a campaign, except as the fault
  or the blocked message it leads to.
- The settings page (it reads the health route and stores nothing), the message inspector (it shows one
  row), the layout around the pages, formatting and wording everywhere.
- The filters of the message listing, the daily trend and the per-campaign breakdown of the analytics: reads
  of the same kind as those modelled.
- The prompts, the choice of an AI provider and its timeouts: a request ends in a draft or a failure.
- Health, bootstrap wiring, migrations and generated code: no state of their own. The engine models the
  one fact that matters, that recovery runs before requests are served.
- Routes that only read one row by id.

Seen while modelling, and outside what the models tell apart: nothing in the backend reads the stored settings
back except the settings routes; and the timer of the OpenAI-compatible client is cleared before the body is read, so
that a body that stalls is not aborted.

## Plan

In this order, most important behaviour first:

1. The engine composed with webhooks: the counters and the completion of a campaign whose rows
   a status event may settle, FAILED above all, while its runner works.
2. `CampaignLifecycle`: an abstract campaign (status moves, each message pending, then
   settled) that `CampaignEngine` implements under the clients for which it does;
   checked as a PROPERTY, then its step lemma proved.
3. Proofs: the step lemma of `CampaignLifecycle`; and, for pauses, how far `AttemptsOnlyForward` and the single delivery hold
   when a pause is never followed by a resume.
