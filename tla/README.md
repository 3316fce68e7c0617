# TLA+ specifications of the CRM

The repository is a CRM: a Rust backend (axum, sqlx, PostgreSQL) of about
12,000 lines, a Next.js frontend of about 16,000, and 35 SQL migrations. The
backend keeps its state in PostgreSQL, with two exceptions: the permission cache
and the pending OAuth states live in the memory of the process (and so does the
rate limiter, unless Redis is configured). Every request is a handler that
awaits one SQL statement after the other; few of them use a transaction, fewer a
lock. What can go wrong there is what happens between two statements.

The frontend keeps its state in React components, one auth store and the module
variables of the API client. Every page is a loop of effects, handlers and
`await`s: what can go wrong there is an answer that arrives after the state it was
asked for has changed, a form that still holds what it held before, and a
request sent twice. The modules are about these two kinds of gaps.

## Inventory

State, operations and the properties that make each part correct. *Modelled*
parts name their module; the others are in the plan, or left out with a reason.

| Part | Source (backend/src) | State | Operations | What must hold | Module |
|---|---|---|---|---|---|
| Accounts and sessions | handlers/auth.rs | users, refresh_tokens, password_reset_tokens | register, login, refresh, logout, change_password, forgot/reset_password, create/delete_user | a token is exchanged once; revoked is final; one bootstrap administrator; a new password ends old sessions; a reset token works once; handlers end | SessionStore, AuthSessions |
| Permissions | middleware/auth.rs, routes.rs, handlers/admin.rs | profiles, profile_permissions, the cache | load_permissions, invalidate_*, update_user_profile, update_profile | decisions are recent; changes take effect; the cache is bounded | AccessControl |
| Outgoing webhooks | services/webhook_worker.rs, handlers/webhooks.rs | webhooks, webhook_deliveries | enqueue_event, the worker, create/delete_webhook (update fails) | claimed by one worker, sent by one at a time, counted, final, not forgotten | WebhookDelivery |
| Leads | handlers/leads.rs | leads, and the rows a conversion makes | create, update, delete, convert | every status is reached through the ones before; a conversion is whole and happens once | LeadConversion |
| Pipelines, stages, branding | handlers/admin.rs | pipelines, pipeline_stages, branding | create, update, delete | a deal never loses its pipeline | LeadConversion (partly) |
| Deals, contacts, companies, audit log | handlers/*, services/contact_service.rs, repositories/* | one table each, audit_log | create, update, delete, import | an entry or event tells of one committed change; what is answered has them | EntityWrites |
| Activities | handlers/activities.rs | activities | create, complete (update and deletion fail) | the same | EntityWrites |
| WhatsApp, lead assignment, AI | handlers/whatsapp.rs, ai.rs | messages, agent_lead_assignments, ai_config | webhook_receive, assign_lead_to_agent, update_ai_config | a message is stored once; no agent above the limit; one configuration | planned: LeadAssignment |
| OAuth and calendar | handlers/oauth.rs, calendar.rs | pending states (memory), integrations, calendar_events | connect, callback, disconnect, sync | a state is used once, by its provider | planned: OAuthFlow |
| Documents | handlers/documents.rs | files, documents | upload, delete | no row without a file, no file without a row | planned: Documents |
| Rate limiter | middleware/rate_limit.rs | hits per address | is_rate_limited | at most five requests a minute; memory and Redis agree | planned: RateLimiter |
| Migrations | migrator.rs, main.rs | schema_migrations | run_pending_migrations | each file once, in order, with several boots and crashes | planned: Migrator |
| Browser session | frontend/src/lib/api-client.ts, stores/auth-store.ts, components/auth, app/login, register, reset-password | tokens in memory, cookies, the store, the screen | request, refreshAccessToken, login, register, logout, loadUser, the route guard | a tab that did nothing wrong is not signed out; a sign-out revokes; the guard settles | ClientSession |
| List pages | app/contacts, companies, leads, deals, documents, audit | query, list, spinner, selection, dialogs | load, search, filter, sort, turn, create, edit, delete, convert, drag | a page at rest shows what its controls ask for and every write it was told of; spinners end; one row per opening of a form | Pages, ListPages |
| Work pages, administration | app/activities, calendar, email, dashboard, reports, components/admin | the same, without most controls | load, create, edit, complete, send, delete | the same | WorkPages |
| Record pages | app/contacts/[id], companies/[id], deals/[id], leads/[id] | one record, its dialogs, the router | load, update, delete, convert, status, activities | a page that cannot show its record leaves; nothing else moves the router | RecordPages |
| Panels and boxes | app/whatsapp, app/settings, deal history, components/ui (notifications, tags, global search, company select) | a list, a selection, a timer | select, send, extract, mark, assign, search while typing | the list is that of the selection or the text | PanelPages |
| Forms | components/forms, components/settings, the dialogs of app/settings | fields, the row edited, requests | open, type, clear, submit, close, quick creation, toggles | nothing is sent that belongs to another row or a cancelled opening; untouched fields survive | Forms |
| Tags, notifications, e-mail (server) | handlers/tags.rs, notifications.rs, email.rs | a table each | single statements | – | not planned: nothing interleaves |
| CSRF, CSV, crypto, config, metrics | – | none | pure functions | – | CSRF check and cookies: in ClientSession as far as the client meets them; the rest is covered by backend/tests |
| Dashboard, reports, search, related, health (server) | – | none | queries | – | not planned: read-only |
| Layout, themes, help, charts, exports, nginx, docker, monitoring | – | – | – | – | not planned: no core logic |

How they interact: auth_middleware runs load_permissions before every protected
handler; the administrators' handlers change what it reads and invalidate the
cache. The handlers of contacts and deals call enqueue_event after their commit;
the worker is a task of the same process and shares nothing with it but the
table. A conversion writes leads, companies, contacts and deals and reads
pipelines. Deleting a user cascades to the tokens, deleting a webhook to its
deliveries. In the browser every page calls request() of the API client, which
refreshes the session behind its back, and the store signs the user out when that
fails; ProtectedRoute reads the store around every page. A page loads its list by
an effect, passes a row to a form, sends what the form hands back, and loads
again.

The hazards of `PROJECT.json` list, line by line, what is hard to test in
these parts; each names the properties that cover it. What a property excepts, and what
none could deny because the code does it, is in the note of the hazard.

## Conventions

* **Steps.** A handler is one record of `req` (a loop of the worker: of
  `worker`) with a program counter. It is split at every await where others can
  see what it did, or change what it read. A statement and the COMMIT that
  follows it are one step. Inside a transaction only those statements are steps
  of their own that take a lock or read something that others change.
* **Database.** PostgreSQL at READ COMMITTED, the default: a statement sees what
  was committed when it began, waits for row locks and re-checks the rows it
  waited for. `snap` in AuthSessions is the set of rows an UPDATE has selected;
  rows inserted later are not in it. Foreign keys, cascades and UNIQUE columns
  are modelled where a handler depends on them.
* **Failures.** `Abandon` drops a request at any await: axum drops the future
  of a handler when the client hangs up, and a crash of the server does the
  same to all (in EntityWrites it is `CutShort`). The open transaction is rolled
  back and what was committed stays. Crashes, panics and failing statements of the
  webhook worker are actions of their own; only crashes are bounded (`MaxCrashes`).
* **History.** `parent`, `vouch`, `visited`, `origin`, `answered`, `hit`, the field `lag`
  are history variables: no guard reads them.
* **Choices of a behaviour.** `lease`, `accepts`, `table` and `host` are chosen at the
  start and do not change: a run explores all of them.
* **Configurations.** AuthSessions, AccessControl, ClientSession and Frontend are
  run as they are; MCWebhookDelivery defines the waits, and MCRecords extends
  LeadConversion and EntityWrites and puts them into one run with their symmetry.
* **The browser.** JavaScript runs one handler to its next `await` without
  interruption, so that is one action; the setters of React take effect together
  at its end. Requests, the server and the answers are actions of their own, in
  any order. An effect runs again when a dependency has changed, after the
  clean-up of its previous run, in the same step as the change. A handler that
  continues after an `await` sees the values of the render in which it was
  created, so a request remembers those it uses (`q`, `sees`, `before`).
* **Mutants.** Definitions called `Mutant...` are plausible bugs of the
  definition they precede. Nothing in the models uses them; `PROJECT.json` says
  which property rejects which.
* **Proofs.** No module uses RECURSIVE operators, and the parameters have named
  assumptions, so that every module can be proved about. The proofs of a module
  are in a module of their own (`...Proofs`), those of the pages in PagesProofs and
  those of the forms in FrontendProofs.

## The modules

### SessionStore and AuthSessions

`SessionStore` is the abstract promise about refresh tokens: a token is issued
once, exchanged at most once in one indivisible step, and never live again
after it was revoked. `AuthSessions` models the handlers of auth.rs and
implements it (`Store == INSTANCE SessionStore WITH NoToken <- None`, the
property `StoreSpec`).

A token is a user and a second: the JWT that is stored (as a hash, UNIQUE) holds
nothing else, so two tokens minted for one user in one second are the same
string and the second INSERT fails. The code takes the time when it mints and
inserts right after; the model takes it once, at the INSERT. `account` says
whether the row exists and, for the property about register, whether it was made
by the first registration. `RefreshLock` and `RefreshReuse` are the
SELECT ... FOR UPDATE, `RefreshRotate` and `ReuseApply` what follows to the
COMMIT. `RevokeStart` takes the snapshot of the UPDATE that logout and
change_password share, and `RevokeApply` its end. `WaitsFor` is the graph of
lock waits; a cycle of two is broken by `DeadlockAbort`.

An access token and cached permissions outlive their user, so logout,
create_user and delete_user may be called by a user who is gone. Left out: the
request bodies, and the e-mail of forgot_password, which is sent after the
statement that matters. The profile of an account that an
administrator changes is in AccessControl, where `account` is not.

### AccessControl

`profile` and `grants` are the tables, `cache` is the cache of load_permissions.
`Fetch` is the query, `Install` the insertion: between the two no lock is held.
`DeleteUser`, `AssignProfile` and `ReplaceGrants` are the administrators'
handlers; only a request that was let in on `admin.access` takes them, so a
cache that gives out old permissions has consequences in the model. In
update_profile each statement may fail unnoticed, as the code drops their
results; the permissions are inserted in any order. Ages and lags stop counting
where nothing depends on them, so the state space is finite without a bound on
time. A request is decided once; admin_only_middleware loads the permissions a
second time, with the same operation. create_profile is left out: the profile is
new and no user has it.

### WebhookDelivery

A delivery is a webhook and an event (each handler call raises an event of its
own). `ClaimSelect` is SELECT ... FOR UPDATE SKIP LOCKED, which locks the rows of
both tables of the join, `ClaimCommit` the UPDATE and the COMMIT; `Post`,
`Answer` and `Record` are one turn of the loop over the batch, `Block` the
refusal of a private address. `age` is NOW() - updated_at, `wait` is
next_attempt_at - NOW(). `took` are the attempts as the claim read them, for the
worker writes back this number plus one. `answered` is history: the requests of a
delivery whose answer was recorded. `Panic` is
`String::truncate(4000)` on a byte that is not the start of a character: the
task ends and nothing restarts it before the server is. The order in which the
due rows are taken is not modelled, and a batch takes any of them.

`accepts` is about types that decide the behaviour. webhooks.event and
webhook_deliveries.status are enums (006_webhooks.sql:17, 029:13); the code compares
the one and assigns the other as bound text without a cast (webhook_worker.rs:111,
289), which PostgreSQL refuses. On the repository's migrations `accepts` is {}: every
enqueue_event fails (`EnqueueRefused`) and no row is ever queued. The other values
are the same code on a schema that has the casts, for the one column or for both. With
{"event"} rows are queued and every `Record` fails: the row is claimed and sent again
after each lease, for ever. The properties are checked, and proved, for all four. A
statement may also fail at any time for another reason, as often as it likes
(`StatementFails`): a NUL byte in the body of an answer does so at each retry.

The queries of handlers/webhooks.rs call a column `"event: WebhookEvent"`, which
`query_as::<_, Webhook>` cannot decode (as in activities.rs, see EntityWrites):
create_webhook inserts and then answers an error, update_webhook fails at its
read (lines 88-93) and changes nothing. So a webhook is active until it is deleted.

### LeadConversion

`ConvertRead` to `ConvertCommit` are one transaction; what it makes is visible to
others after the commit only. It locks the lead at its UPDATE (`Locked`).
update_lead is `UpdateRead`, where the transition is checked, and `UpdateWrite`.
An update that gives no status leaves the column alone and changes nothing
here. `inside` and `InUse` are the foreign key that keeps a pipeline with deals.
The deletion of contacts, companies and deals after a conversion, the stages of a
pipeline and the activities of a lead are not modelled; neither is the creation
of a pipeline, which a conversion could only use like those it starts with.

### EntityWrites

A handler of a contact, company or deal reads the old row (`Read`), writes
(`Write`, `Create`), inserts the entry (`InsertAudit`) and, for contacts and deals,
enqueues the event (`Enqueue`): four statements, each committed by itself. `Read`
and `Write` with "updated" stand for update_deal_stage, too. What a row holds is
the number of the change that made it so; `past` is the history of the changes
committed, `hit` of those whose request failed afterwards, `answered` of those
answered with success. `LoseEntry` and `LoseEvent` are the two errors that do not
end the request. A bulk deletion and an import write neither entry nor event. A
reference that a deletion sets to NULL in another row is a field, and left out.
`enqueue_event` is one step here; its own statements are in WebhookDelivery. `accepts`
is the comparison of the enum explained there: without it, as on the repository's
migrations, each event is lost and the handler goes on (`EnqueueRefused`).

`Unreadable` is what the code does with two of the tables. map_deal_row asks for
`pipeline_id`, which the RETURNING lists of deal_repo.rs do not have, and
`Row::get` panics (deal_repo.rs:140): every creation, update and move of a deal
commits and is then neither logged, nor announced, nor answered, although
docs/openapi.yaml:365 says 201. Every query of activities.rs that gives back rows
calls a column `"activity_type: ActivityType"`, a notation of the query macros that
`query_as::<_, Activity>()` does not know: the row fails to decode. So create_activity
and complete_activity commit and answer 500, and update_activity and
delete_activity fail at their read (update_activity would fail at its write, with
twelve values and an id bound to nine parameters). These need no interleaving, so
they are stated here, with the model following the code, and not as a run.

### MCRecords

Runs LeadConversion and EntityWrites under one specification; `part` says whose
behaviour it is. They share no variable.

### ClientSession

A tab with what api-client.ts remembers (`mem`), the auth store (`store`) and the
page it shows (`screen`), the cookies of the browser (`jar`), and the server's
side for one account: the sessions are numbered, `gen` being the last, `live` the
refresh tokens that can be used, `fresh` the access tokens that have not expired.
A request carries what fetch() sent with it: bearer token, CSRF header, body and
cookies. `Unauthorized` is the first 401 (the request waits for the one refresh of
its tab), `Refreshed` and `RefreshFailed` its outcome, `Finish` the end of a
request with what the store and the router make of it. `ServeRefresh` needs a
body: a request without one has no Content-Type and the extractor of the handler
refuses it with 415. `ServeProtected` is auth_middleware, csrf_middleware and the
handler. `blocked` says that the browser keeps no cookies of another site.
`Reload` loses the memory and asks who the user is. `ended` and `crossed` are
history: the user did something that ends sessions; a sign-in met what an earlier
session had left (`Meets`: a CSRF token in the memory or in the cookie, or a
request still under way). A request ends (`Ends`) with its answer or with the
failure of the refresh it waits for. The refresh tokens of a server with several
accounts are in AuthSessions.

### Pages, ListPages, WorkPages, RecordPages, PanelPages, CrmPages

`Pages` is what the pages have in common: a query (`search`, `page`, and `pick` for
every other control), the load by the effect, the refetch by the handlers, the
dialogs and the writes. A list is described by the query it answers and the set of
writes it reflects: nothing else about its rows matters here. `Rerun` is the
effect with its clean-up, `Ask` a control that also sets the spinner, `Slip` one
that does not, `Refetch` the function fetchX() of the handlers, whose answer
nothing drops. `Acknowledge` is the success of a write: it closes the dialogs that
the handler closes, *whatever they show by then*.

The other four modules are the pages, one operator for each part of a page:
`...Mount` its state and first load, `...Search`, `...Rows` and the like its
controls, `...Handlers` what its handlers do with an answer. They differ in what
the source differs in: whether the spinner is set, whether errors are shown, which
dialog a handler closes, whether a button is disabled while a request runs,
whether the edited row is kept when a dialog closes. In RecordPages loads and
deletions can move the router after the user has left (`elsewhere`, `dragged`). In
PanelPages `picked` is the timer of a box that searches while one types, or an
answer that will open a dialog. `CrmPages` puts a page, its user, its requests and
the server under one specification and states the properties.

### Forms

What a form holds from one opening to the next. `draft` are its fields: `note` stands
for the texts, `link` for what is chosen, or is a secret, and may be absent. `unshown`
is a column that the form does not show and that an edit changes all the same: the
time of day of a deal's close date, of which `DealReset` takes the day and
`DealPayload` sends the midnight in UTC, and territory_enabled of the assignment of
leads. (The amount of a deal goes through String() and Number(); for a NUMERIC(15,2)
that gives it back.) A value is the row it belongs to and the opening in which it was typed
(0 for what the server had), so that a leftover can be recognised. `host` is the
page or the section that shows the form; it decides what `Open`, `Close` and the
end of a save do. `Payload` is the conversion of the fields to the request: an
empty field becomes `undefined`, which JSON drops, so the server keeps what it had
(a cleared optional field is never cleared in the row), save for the two handlers that
replace the whole record (`Kept`). The dialogs of the settings and the branding begin
with the defaults of their fields (`Begun`, `Default`) and can be filled in and saved
before their record arrives. `kept`, `touched`,
`crossed`, `late` and `missed` are history. `QuickCreate` is the creation of a
contact or company inside the deal form, which may end after the form was closed.

### Frontend

Runs the pages and the forms under one specification. They share no variable:
a behaviour is either that of a page or that of a form, the other part is parked.

## The runs

| Run | Configuration | Checks |
|---|---|---|
| auth_sessions | one user, two requests, seconds 0..2, one reset token | `SingleSuccessor`, refinement `StoreSpec`, `EveryRequestEnds` |
| auth_accounts | two users, two requests, seconds 0..1, no reset token | types, `OneBootstrapAdmin`, refinement `StoreSpec`, `EveryRequestEnds` |
| password_change | one user, two passwords, nobody hangs up | violates `NoSessionOutlivesPassword` |
| reset_replay | the same | violates `ResetTokenSingleUse` |
| access_control | two users, two profiles, two requests, TTL 2, room for one entry | types, `CacheBounded`, `DecisionsRecent`, `ChangesTakeEffect` |
| stale_grant | the same, nobody hangs up | violates `InvalidationIsFinal` |
| webhook_delivery | two webhooks, one event, two workers, a batch of two; lease 2 (it fits) or 1 (it may not fit); each value of `accepts`; one crash, any number of failing statements | types, `NoDoubleSendWithinLease`, `AnswersAreCounted`, `SettledIsFinal`, `ClaimsAreDue`, `GivesUpAfterMaxAttempts`, `NoDeliveryIsForgotten` |
| double_send | lease 1, no crash | violates `NoDoubleSend` |
| records | one lead, two pipelines, two requests, two conversions; or two entities of any tables, two requests, three changes, one failure, with the enum comparison accepted or not; symmetric | types, `StepsAreTaken`, `ConvertedIsBacked`, `ConversionIsWhole`; `LogTellsWhatHappened` |
| double_conversion | LeadConversion with the same lead, pipelines and requests | violates `OnlyQualifiedConverted` |
| client_session | one tab, three sessions, three actions of the user, two requests of a page at once, one failing request | types, `OneStoreCall`, `NoForgedCall`, `SignOutRevokes`, `StaysSignedIn`, `SessionSettles`, `AdminIsGuarded` |
| frontend | each of 32 pages and panels: three actions after the first load, one lost answer; each of 16 forms: two rows, two openings, one quick creation, one failure | types, `RowsAreCurrent`, `QueryShown`, `CreatesOncePerOpening`, `EditFormKnowsItsRow`, `RecordIsShown`, `SpinnerEnds`; `NoLeftovers`, `OpenFormIsCurrent`, `UntouchedFieldsKept` |

**What the two runs of the frontend show.** `StaysSignedIn`: requests that fail
together share one refresh, so the server never takes them for a theft.
`SignOutRevokes`: a sign-out that begins with an expired access token waits for a
refresh and still revokes. `RowsAreCurrent`: a page at rest shows what its controls
ask for, with every write it was told of, unless two of its requests crossed;
`QueryShown` holds even then for what the effect loaded. `CreatesOncePerOpening`:
double clicks and second tries make no second row, except after a lost answer.
`NoLeftovers` and `UntouchedFieldsKept`: each of the 16 forms of `Forms` sends nothing
of another row or of a cancelled opening, and brings nothing back that a later edit
replaced. The forms that are part of a page (that of the activities among them)
are modelled without their fields, and these two properties say nothing of them.

**Exceptions.** Where a page is known to fail, the property names the page or the
case, so that it is checked everywhere else. What they except is listed under
*What the exceptions leave out*.

**Bounds of the backend.** The races are between two handlers over one row, so two
requests (or workers) exhibit them; a third would add waits, not a new pair of
steps. Two users are needed for deletion (nobody deletes themselves), for
the race of the first registration and for an eviction from the cache; rows of
different users do not meet otherwise, so auth_sessions has one user and more
time. Its three seconds hold a token and two successors; with
RefreshTTL = Leeway = 1 a row expires within the run while its JWT is still
accepted, and two tokens can fall into the same second. The two seconds of
auth_accounts leave room for one rotation beside a deletion. What the two runs
check for few rows is proved for any number, except EveryRequestEnds. Two rows in
a batch are the least with one that waits while the other is sent. Three attempts
and the waits 1 and 2 are the code's MAX_ATTEMPTS and two different delays. One
crash (`MaxCrashes`) is enough to meet every other step, and is bounded because nothing
else bounds crashes; failing statements and panics are not bounded. `answered` counts
up to `MaxCount = 4`, one more than the attempts there can be.
`Conversion` bounds how many conversions can be committed. Three changes
(`MaxChanges`) are a creation, an update beside a deletion, or two deletions that
cross. With four (3.7 million states without symmetry) the invariant holds as well.

**Bounds of the frontend.** `MaxMoves = 4` counts from the mount, which is the
first: a write, the change of a control, and a second write or a reopened form are
three, the longest chain any of these hazards needs. The answers and the server
are not counted, so every order of them is met. Two pages of a list, two search
texts and a pick per move give every control two values. `MaxLost = 1`: one answer
lost after its commit is what makes a second try dangerous. `MaxOpenings = 2` and
two rows: a leftover needs an opening before, of the same row or of the other.
`MaxMade`, `MaxMissed`: one late quick creation, one failing read or save.
client_session has one tab: tabs share the cookies but not the refresh, and with
Tab = {"t1", "t2"} `StaysSignedIn` is violated, since two tabs refresh with one
token at once and the server takes the second for a theft. `MaxGen = 3` holds a
sign-in and two refreshes, `MaxCalls = 2` two requests that fail together,
`MaxFaults = 1` a request that is lost in either direction. With `MaxMoves = 4`
(3.9 million states) there is time for a second sign-in: that run showed the cases
that `crossed` excepts, and with them the same properties hold.

**Deadlock** is not checked in AuthSessions, MCRecords, ClientSession and
Frontend: with the clock or the moves at their bound, or every lead and pipeline
gone, the model has nothing left to do; a user need not do anything. It is checked
in AccessControl and WebhookDelivery, where time goes on.

**Fairness.** AuthSessions: strong fairness of each request's next step, for a
step is disabled while others hold the lock and PostgreSQL queues waiters in
order; weak fairness of deadlock detection. AccessControl: the clock and each
request's next step. WebhookDelivery: each worker's next step, which may be the failure
of its statement (weak fairness of `Step`: tokio runs a ready task), the restart of a
server (`restart: unless-stopped`), and strong fairness of the clock, which the model
stops during a claim and when a request has used up its time.
ClientSession and Frontend: fetch() settles, by an answer or an error, and its
continuation runs (weak fairness of `Serve` and `Answer`); React runs the effects
of what it has rendered (weak fairness of `Route`). Nothing is assumed of users,
clients, administrators, the arrival of an answer that was lost, or of faults not
happening; these are bounded where a property needs an end of them.

`NoDeliveryIsForgotten` excepts the case that every worker task has panicked, for good:
that is what the code does. While one is left, each delivery is again and again
settled or in a batch, whatever fails and however often; that it is settled is promised
only of a behaviour in which statements do not fail for ever. With the text bound to the
enum column they do, and a delivery would never be settled.

## What the violations show

1. `NoSessionOutlivesPassword`: login verifies the old password, change_password
   sets the new one and revokes the tokens, login stores its token. The session
   stays, although the endpoint is documented to revoke all refresh tokens. A
   rotation that commits after the UPDATE's snapshot gives the same.
2. `ResetTokenSingleUse`: two resets read the token unused, both commit.
3. `InvalidationIsFinal`: a query answered before a change of permissions fills
   the cache after the invalidation; the old permissions stay for PERM_TTL.
   `DecisionsRecent` is what remains true.
4. `NoDoubleSend`: 50 requests of up to 10 seconds take longer than the lease of
   5 minutes, which is not renewed between them. With a lease that holds a batch
   (`NoDoubleSendWithinLease`) it does not happen. The rows of the trace are queued on a
   schema that accepts the comparison of the event (`accepts`).
5. `OnlyQualifiedConverted`: two conversions read the lead as qualified; the
   second converts a converted lead and leaves a second contact and deal.

Three disagreements need no interleaving and have no run. They are in the models,
which follow the code: the enum binds of the webhooks (WebhookDelivery, `accepts`), the
rows of deals and activities that cannot be decoded after their commit, and those of
webhooks (EntityWrites, WebhookDelivery).

## What the exceptions leave out

These are behaviours that the properties name as exceptions, because the code has
them. Comments promise otherwise of two of them. api-client.ts:75-77 ("Cookie-first ...
The backend accepts both") and auth.rs:347 ("Try cookie first, then body") describe a
refresh with the cookie alone, which is refused after a reload. deal-form.tsx:141
("Reset fields when a different deal is edited or the dialog is reopened") describes
a form that keeps its contact and company. Each shows with one tab or one form and no
interleaving, so there is no run for them. Of the others
we know of no comment or document that promises otherwise.

* Two tabs that refresh at once sign each other out (see the bounds).
* A sign-in does not wait for what an earlier session left. It sends the CSRF token
  of before; a request of before can still replace its cookies or, when it fails,
  clear its tokens; a sign-in that a reload abandoned can be served later and leave
  a refresh token that nobody knows (`crossed` in `SignOutRevokes`,
  `NoForgedCall`, `StaysSignedIn`).
* After a reload the refresh request has no body and the server answers 415: the
  session ends although the refresh cookie is valid, and the comments say that it
  is enough (`StaysSignedIn`, the case of an empty memory).
* The guard of the administration page loads the user again and again for someone
  whose list of permissions is empty (`SessionSettles`, the profile `none`).
* Asking again for what is already shown (the current page, the same search, the
  active tab) sets the spinner and starts no load: it stays (`SpinnerEnds`, `Repeating`).
* A refetch uses the query of the click and is not dropped: its rows can replace
  those of a later query (`RowsAreCurrent`, `overtaken`; `QueryShown`, `by`).
  Tags and the status of a lead are set from the list or the lead of the click.
* Deleting an event leaves its form open without its row: saving creates it again;
  on the activities page an edit can lose its row in the same way
  (`EditFormKnowsItsRow`). Enter in the chat, and the e-mail form, can send twice
  (`CreatesOncePerOpening` does not name these pages).
* A load of a record that fails late, and the success of a deletion, move the
  router from wherever the user is by then (RecordPages, `dragged`).
* The deal form keeps the contact or company of the opening before when the deal has
  none, although its comment says that the fields are reset; the dialogs of WhatsApp and
  of the AI keep a secret that was typed and cancelled; the convert dialog keeps
  everything (`Leaves`, `NoLeftovers`).
* A contact created inside the deal form is chosen in whatever form is open when
  the answer arrives; a configuration that arrives late replaces what was typed, and one
  that is saved before it has arrived is overwritten with the defaults (`late`).
* The close date of a deal is cut to its day (deal-form.tsx:154) and sent as midnight UTC
  (321) to a TIMESTAMPTZ: an edit that does not touch it drops the time of day that the
  API had stored. Saving the assignment of leads sets territory_enabled, which its dialog
  does not send, to false (whatsapp.rs:684). Both are `unshown` in `UntouchedFieldsKept`
  and `NoLeftovers`.
* The form of a lead can be opened before the lead has been read again and then
  brings the old values back (`UntouchedFieldsKept`, the host `lead`).
* A cleared optional field is not sent, and so not cleared (`Payload`); where the whole
  record is replaced it is (`Kept`).
* The profile section begins with empty fields (`OpenFormIsCurrent`, the host `profile`).
* Two toggles of one preference in flight: a failure takes back more than its own
  (`crossed`).
* The form of an event mixes the UTC date with the local time; times are not
  modelled (`hazards`, calendar/page.tsx:177).

## What is proved

`AuthSessionsProofs` proves, for all users, passwords, requests and reset tokens
and every bound of the clock, from `ClockAssumption` and `NoneAssumption` alone:

* `TypeCorrect`: `Spec => []TypeOK`.
* `Inductive`: `Spec => []IInv`. TypeOK and OneBootstrapAdmin are not inductive.
  `IInv` adds what a handler remembers at each point (`HandlersOK`: a snapshot
  holds stored tokens of one user), what the locks guarantee (`LocksOK`: no two
  requests hold one token row, and the token of a rotation under way is still
  live, that of a reuse detection still revoked) and what the advisory lock
  guarantees (`BootstrapOK`: one request is past the check of register, and
  while it is there no administrator exists).
* `BootstrapOnce`: `Spec => []OneBootstrapAdmin`, from IInv.
* `ImplementsStore`: `Spec => StoreSpec`. Each action maps to Issue, Rotate,
  Revoke, Drop or a stutter; RefreshRotate needs LocksOK (the parent is live),
  the UPDATEs need HandlersOK (one owner).
* `RotatedOnce`: `Spec => []SingleSuccessor`, from the refinement and the
  invariant `StoreInv` of the abstract store.

The step that carries LocksOK over the snapshots is `ContinueReleases` and
`LockedRowStable`: every action that changes a token row waits for its lock.

`LeadConversionProofs` (`PipelineAssumption`, `NoneAssumption`) proves `Inductive`,
`StepsTaken`, `Backing` and `Whole`. The three properties speak of the tables only;
what keeps them is what a request read before it writes. `IInv` adds, for each
request, `ReadHolds` (the status it decided on has its steps behind it, and the
pipeline it chose exists), `LeadHolds` for each lead, and `ConversionHolds` for each
conversion (between two statements its records are the ones it has made so far).

`AccessControlProofs` (`AdminAssumption`, `BoundsAssumption`, `NoneAssumption`) proves
`TypeCorrect`, `CacheStaysBounded` and the action property `Recent`. `IInv` adds to
TypeOK that the cache is finite (`Bounded`) and that every age and lag is within the
clock (`InTime`): an entry, what a request took from it, and an answer still on its
way from the database.

`WebhookDeliveryProofs` (`SizeAssumption`, `FiniteAssumption`) has two invariants.
`Base` holds with no assumption on the lease: the loop of each worker (`LoopOK`),
what it took (`TookOK`) and claims (`ClaimOK`), each row (`RowOK`), and that two
claims take different rows (`ClaimsDisjoint`). It gives `TypeCorrect`,
`ClaimsTakeDueRows` and `GivesUp`. `Fit` needs `BatchFits`, that a batch is sent
before its lease ends, which the code does not guarantee (DoubleSend shows what happens
then): a row in a batch is owned by its worker (`Owned`), by no other (`Exclusive`),
and `attempts` counts the requests that were answered and recorded (`CountOK`). It
gives `SentByOne`, `Counted` and `SettledStays`; these properties are
false without `BatchFits`, which is part of their statements.

`EntityWritesProofs` (`EntityAssumption`) proves `LogIsTrue`. An entry is written
after the commit, by the handler, from the row it read before. `EntityInv` therefore
says of each handler that the change it will tell of is one nothing has told of yet
(`Knows`, `Untold`), that two handlers have different changes (`Distinct`), and that
the rows have the past their changes say (`RowOK`, `PastOK`). At its end the types of
both parts are carried to MCRecords (`RecordTypes`).

`ClientSessionProofs` (`ClientAssumption`) has two parts.

* For any set of tabs, `Base` (the server, the cookies, the tabs and their requests
  are in order, a request that waits has a refresh to wait for, and a tab runs one
  refresh and one call) gives `TypeCorrect` and `OneCallAtATime`.
* For a browser with one tab (`Tab = {t}`, the hypothesis of the theorem), as long as
  no sign-in met an earlier session (`crossed`), `Orderly(t)` says that memory,
  cookies and server agree. Its longest parts are about the requests a reload
  abandoned and the server still answers (`OrphansOK`, `OrphanSign`): their
  `Set-Cookie` takes effect though nobody reads the answer. It gives `NeverForged`,
  `SignOutIsComplete` and `SessionLasts`. With two tabs the three properties are
  false (*The runs*), so the hypothesis cannot be dropped.

`FrontendProofs` (`RowAssumption`) proves the three properties of the forms, for any
rows, openings, failures and hosts: `NothingLeftOver`, `FormsCurrent` and
`EditsKeepTheRest`. `FormInv` is `FormTypes`, the place of the form, of its requests
and of its host (`FormPlaced`, `RequestsPlaced`, `HostPlaced`), which fields they have and what becomes
of `unshown` (`FieldsPlaced`), whose values a draft and a request hold (`Owned`), and how far the form and its host are from the server
(`Fresh`: not at all, unless an answer was missed, came late or crossed another). The
lemma `Steps` reduces the actions of the sixteen hosts to a few kinds of change; the
invariant is proved once for each kind. While a page is explored the forms are
`Parked`, so the theorem is `[](Parked \/ FormInv)`.

`PagesProofs` (`PageAssumption`) proves the six invariants of the pages, for any of
them, any number of actions of the user and of lost answers: `PagesTypeOK`,
`RowsStayCurrent`, `EffectShowsQuery`, `OneRowPerOpening`, `EditKeepsRow` and
`RecordStaysShown`. `UserSteps` reduces the actions of the 32 pages to a few kinds of
step (`Controls`, `Dialogs`, `Sends`, `Answers`, `Finishes` and leaving), and
`PageInv` is proved once for each kind. None of the properties is inductive:

* RowsAreCurrent speaks of a page at rest; `LoneLoad` says what is on its way while
  nothing has crossed (one request at most, for the query of the controls, that has
  read every acknowledged write or has not read yet), and `Settled` what its answer
  leaves. Three pages patch the list of the click instead of reading it again: they
  need that the list was there (`SeesPlace`, `NoticePlace`, `TagsPlace`), and the
  e-mail page needs that a mail sent from the tab of the logs counts as crossed
  (`EmailPlace`).
* QueryShown: a load of the effect asks for the query of the controls
  (`EffectCurrent`), so the clean-up has dropped every other; a list of an earlier
  query stays only until the answer or its failure (`StaleEffect`).
* CreatesOncePerOpening: `OnceHere` counts the rows of each opening (`Made`). At most
  one save is on its way, its opening has made no row but those whose answers were
  lost, and a success closes the form; only the form of the activities page can
  have been opened for another kind of save by then.
* EditFormKnowsItsRow and RecordIsShown hold of each kind of step by themselves.

Each invariant was checked by TLC, on the run of its module or on a scratch
configuration of the same constants, before it was proved.

Only model-checked:

* the liveness properties (EveryRequestEnds, ChangesTakeEffect, NoDeliveryIsForgotten,
  SpinnerEnds, SessionSettles, AdminIsGuarded), which are out of the prover's reach.

Every other property of a passing run is the subject of a theorem.

## Not modelled

* **Of the frontend:** the return from an OAuth provider and the connection of an
  integration or a calendar (a redirect away from the application); several tabs
  in a run (ClientSession has them as `Tab`); the sidebar, toasts, themes, the help,
  the timeline, phone links and PDF or CSV exports, which change nothing another
  part depends on; the view of the calendar; the fields of the forms that are part
  of a page (activities, events, templates, pipelines, profiles, webhooks).
* **Of the backend:** the parts marked *planned* in the inventory, in the order
  below; queries and pure functions, which have no state.
* **Operations:** containers, proxy, monitoring and scripts.

## Plan

Order of the modules still to write, the most important behaviour first:

1. EntityWrites composed with the producers of WebhookDelivery, and with the audit
   entries of leads.
2. `LeadAssignment`: webhook_receive, assign_lead_to_agent and its limit,
   duplicate messages; update_ai_config.
3. `RateLimiter`: the abstract sliding window, memory and Redis against it.
4. `Migrator`: concurrent boots, the advisory lock of a session, crashes.
5. `OAuthFlow`: pending states shared by oauth.rs and calendar.rs, callback,
   upsert, disconnect, sync_google. `Documents`: file and row.
6. ClientSession with two tabs, composed with SessionStore.

Small modules over disjoint state share a run, as the pages and the forms do.
