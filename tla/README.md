# Verification of the AgentOS content backend

TLA+ models of the program under `src/`, TLC configurations that check them on
small instances, and TLAPS proofs of the main results for every instance.

Paths below are relative to the repository's `src/src/` unless they start with
`src/`.

## 1. The system

Two Node processes share one Postgres database, one object store and, where
both are given the same path, one audit file (`AUDIT_SINK_PATH`; `env.ts:65`
leaves it empty, and then nothing is audited; `src/README.md:98` gives one path):

* **App1**, `index.ts`, port 3001: the content API, five kinds of request
  (query, match, stream, lyrics, metadata).
* **App2**, `ops-app.ts`, port 3002: policy pushes over mTLS, and the admin
  review user interface.

Each process runs one event loop. Between two `await`s a handler is atomic; at
every `await` any other handler of the process, and any step of the other
process, may run.

### Inventory

| Component | State | Operations | Interacts with | What is hard | What makes it correct |
|---|---|---|---|---|---|
| Review state machine (`review/state-machine.ts`, `admin/ingest.ts`) | tables `ingest`, `review`, `tracks` | `transition` (approve, reject, revoke, resubmit), `ingestTransitionAndAudit`, `ingestCreate` | `withTransaction`, audit sink, seed script, content API (reads `tracks`) | two admins at once; statements failing in the middle; the answer to COMMIT lost; crash before the audit event; two ingests with one track_id or isrc | `tracks` shows exactly the approved ingests; each decision is one atomic step of a legal history; answers and audit agree with what was committed |
| Transactions (`db/transaction.ts`) | clients of the pg pool, open transactions | `withTransaction` | pg pool, Postgres locks | leaking a client, waiting in a circle | clients are conserved, every request is answered |
| Policy store (`policy/policy-store.ts`, push route of `ops-app.ts`) | table `content_policy` | `applyPolicy`, `latestPolicy` | producer (retries), audit sink, drm guard (reads) | five statements, no transaction; concurrent, repeated, late and failing pushes | newest version in force; commands applied once; truthful answers |
| Audit sink (`audit/audit-sink.ts`, `audit/audit-events.ts`) | the JSONL file | `emit`, `verifyChain` | every handler of both processes | two processes append; torn and failed writes; a failed read counts as an empty file | the chain verifies unless somebody tampered |
| Catalogue schema and seed (`db/schema.ts`, `db/seed/seed.ts`) | `tracks`, `lyrics`, objects in the bucket | `seedSelfHostedCatalog` | review | seeding while reviewing; a script that stops half way and is started again | unique keys; no dangling lyrics; a row only behind its audio; a finished plan stays |
| Set-up scripts (`src/scripts/seed-self-hosted.ts`, `e2e-init.ts`, `seed.ts`) | applied migrations, the bucket | one `main` each | catalogue, object storage | no transaction, no record of what was applied | completes from an empty database, or not at all |
| Admin routes (`ops-app.ts`, `admin/views.ts`) | none of their own | login, queue, tracks, detail, preview, create, three decisions | sessions, review | the page is read after, and beside, other decisions | who acts may; pages and answers fit the tables |
| Content routes (`index.ts`, `routes/*`, `envelope.ts`) | none of their own | five POST routes, `handle`, `wrapEnvelope` | policies, catalogue, adapters, audit | policies and catalogue change between the reads of one request | a blocked or unpublished track is not served; the envelope contract |
| Drm guard, capability filter (`policy/drm-*.ts`, `policy/capability-filter.ts`) | none | `drmGuard`, `checkDrm`, `capabilityFilter` | policy store, audit | failing store | fail closed |
| Path selection and adapters (`content/*`) | none | `selectPath`, `fetchThirdParty`, `selfHosted*` | providers over HTTP, secret store | timeouts, fallbacks | right back end, right error |
| Token verification, secret handles (`auth/*`) | JWKS cache, stub secrets | `tokenVerifyHook`, `receiveAndAuthorize`, `authorizeBackendType` | IAM, ops service | hanging look-up, fail closed | only authorised callers go on |
| Admin sessions (`auth/session.ts`) | map of sessions | `createSession`, `getSession`, `requireRole` | admin routes | a wall clock that may be set, removal on presentation only, restart | a session that was refused once stays refused |
| Object storage, environment (`storage/*`, `env.ts`, `db/client.ts`) | configuration | `presignUrl`, `loadEnv` | S3 | - | - |
| Development scripts, generated code (`src/scripts/mock-policy-producer.ts`, ..., `src/generated/*`) | none | stand-ins for other services, generators | - | - | - |

`PROJECT.json` lists under `hazards` what is hard to test in this code, each at
its line, with the properties that cover it.

## 2. Modules

| Module | Models | How |
|---|---|---|
| `ReviewRules` | `NEXT_STATE`, `ALLOWED`, ingests and their keys | constants and two tables |
| `ReviewSpec` | what review promises | abstract: a decision is one atomic step |
| `ReviewTx` | `transitionRoute`, `ingestTransitionAndAudit`, `transition`, `wrapPgPool` | one action per SQL statement, see below |
| `PolicyTable` | what `content_policy` promises its readers | abstract: a push is one step, retiring what it replaces another |
| `Catalogue` | what `tracks` and `lyrics` promise their readers | abstract: listing, takedown and a line of lyrics are one step each |
| `PolicyStore` | `POST /content_policy/push`, `applyPolicy` | one action per SQL statement |
| `Session` | `createSession`, `getSession`, `requireRole` | operators over the map and the clock |
| `AdminPages` | the admin routes of `ops-app.ts` over `ReviewSpec` and `Session` | one action per `await` |
| `Seeding` | `seedSelfHostedCatalog` and the set-up scripts, beside deciding admins | one action per statement |
| `AuditChain` | `emit`, `lastHash`, `verifyChain` | one action per system call |
| `Envelope` | `wrapEnvelope`, `httpStatus`, the content contract | operators |
| `ContentRoute` | the five POST routes of the content API and all they call | one action per `await` |
| `ReviewTables_proofs`, `ReviewSpec_proofs`, `ReviewTx_proofs`, `PolicyStore_proofs`, `AuditChain_proofs`, `ContentRoute_proofs`, `AdminPages_proofs`, `Seeding_proofs` | - | the theorems |
| `MCReviewTx`, `MCPolicyStore`, `MCAuditChain`, `MCContentRoute`, `MCAdminPages`, `MCSeeding` | - | finite instances |

How they fit together: `ReviewSpec` is the atomic view of review. `ReviewTx`
implements it with transactions, `Seeding` implements it with scripts (the
abstract `lyrics` are the tracks that have any line), and `AdminPages` works on
its tables, so that what is shown of pages holds of the transactions too.

Writers and readers meet in two small specifications. `PolicyStore` implements
`PolicyTable`, and `ReviewTx` implements `Catalogue`; `ContentRoute` is one
request beside these tables, and all that it lets happen to them is what the two
modules allow. It takes its own pushes from `PolicyTable` as they stand. So the
environment under which the route is studied is neither made up nor narrower
than what the pushes do; of the catalogue it keeps more than `Catalogue` says,
the row and the licence of each line.

An operator named `X_Something` in front of a definition `X` is a faulty variant
of `X`, a slip that could be made in that code. No specification uses them; each
shows that the property it is paired with in `PROJECT.json` notices the slip.

### ReviewTx

`pc[r]` names the `await` in which the handler of request `r` waits:

```
new -Accept-> connect -Connect-> begin -Begin-> readTrack -FetchIngestTrackId-> fetch
 -FetchIngest-> cas -CasHit-> review -InsertReview-> [project -Publish|Unpublish->] commit
 -Commit-> ack -Acknowledged-> detail -LoadDetail-> done
any of them -Throw-> rollback -Rollback-> release -Release-> [requery -Requery->] done
```

| Variable | Code |
|---|---|
| `ingest`, `review`, `tracks`, `lyrics` | the committed tables; `tracks[t]` is the ingest a row was published from, so that a takedown of somebody else's row would be seen |
| `req`, `tid`, `seen` | route parameters; result of `fetchIngestTrackId`; `i.state` in `transition` |
| `tx` | how far the transaction got on the server: which locks it holds, which writes it will commit |
| `idle` | idle clients of the pool |
| `result`, `told` | how the request ended; the state named on the 409 page |
| `audit` | the events emitted, in order |

Writes of an open transaction are not stored: `tx[r]` says which there are, and
`Commit` makes them visible. That a transaction reads nothing it has written
makes this exact. `seen` is enough to know what the CAS compared.

Postgres is external and enters by what the code relies on at READ COMMITTED: a
statement sees committed rows; an `UPDATE`, a conflicting `INSERT` and a
`DELETE` wait for the open transaction that holds the row or key; a waiting
`UPDATE` re-evaluates its `WHERE` on the newest committed row; a transaction's
writes appear together or not at all. `CasHit` waits (`RowLocked`), `CasMiss`
needs no wait guard: a row that already differs from `seen` when the lock is
free stays a miss, and the rows it misses are committed ones.

Faults: any statement may be rejected (`StatementFails`), the answer to COMMIT
may be lost after the server executed it (`AckLost`), connecting or a query
through the pool may fail (`ConnectFails`), a write of the audit file may be
lost (`Acknowledged`), the process may die (`Crash`). The seed script and
`POST /admin/ingest` run all the while.

`resubmit` is an action of the state machine which no route offers. `ReviewTx`
takes the set of actions as a constant, `RouteActions`, and one run includes it.

### PolicyStore

`new -Receive-> lookup -> max -> insert -> supersede -> ack -> done`, with
`relookup` for the catch clause of the INSERT. Every statement commits on its
own: `applyPolicy` uses no transaction. `InsertUnknown` is an INSERT whose
answer is lost, executed or not. (An INSERT that the server executes only after
the connection broke and the catch clause's query ran is not modelled.)
The checks before `applyPolicy` (mTLS, envelope shape, `auth_config`, audience,
expiry, actor) are one choice between `Receive` and `Refuse`: they read nothing
that another handler changes.

### Session and AdminPages

```
new -Arrive-> list   -ListPage-> done                     queue, tracks, preview
            | create -CreateIngest-> created -Created-> done    POST /admin/ingest
                     -BadInput-> done
            | state  -LoadDetail-> history -LoadDetail-> done
            | decide -Decided-> state ...                 approve, reject, revoke
                     -Undecided-> [requery -Requery->] done
            | done, with 401 or 403                       requireRole
any of them -Fails-> done, with 500
```

| Variable | Code |
|---|---|
| `sessions`, `clock` | the map `SESSIONS`; `Date.now()`, which may be set to anything |
| `ingest`, `review`, `tracks`, `lyrics` | the tables, as in `ReviewSpec` |
| `req`, `user` | route, ingest and cookie of a request; `req.user` |
| `shown`, `answer` | state and history rows on the page; the status of the answer |
| `issued`, `refused`, `author` | history: the role of the login behind a cookie, cookies that were refused, who created an ingest |

`requireRole` reads the session once, before the first `await` of the handler.
`LoadDetail` reads the ingest and its rows in two statements outside any
transaction; the decision routes end in it too. A decision is one step of
`ReviewSpec`: `ReviewTx` is where it is many. `CreateIngest` is the INSERT and
`Created` its answer: when that is lost, `Fails` ends in a 500 with the row there,
as it may after a COMMIT. `Restart` empties the map and kills
handlers; a decision it interrupts may have been committed (`Decided` first) or
not. The rows on a page are a set, since the page sorts them by a time stamp (see
section 4).

### Seeding

`run` says which script is running and which statement it executes next: `k` is
the track (or the migration file), `l` the line of its sheet.

```
init     -migrate*-> bucket -> [put -> track -> line*]*   (per track of seed.ts)
catalog  ->                    [put -> track -> line*]*
template -> [put*] -> [track -> line*]*                   (audio first, if there is S3)
```

Every statement commits on its own, `Stop` ends a script anywhere (a refused
statement, an outage, a kill), `Start` starts any script again. `TrackCatalog` is
`ON CONFLICT (track_id) DO NOTHING`, so that a row of an operator counts, while a
clash of isrcs is an error; `TrackTemplate` and `LineTemplate` are plain INSERTs.
`Migrate` refuses a file that was applied before; a file is one implicit
transaction. The admins decide all the while, once all columns are there. One
script runs at a time; `src/docker-compose.e2e.yml` starts one, once.

### AuditChain

The file is a sequence of lines; `open` says that the last one lacks its
newline. SHA-256 is an injective function, `Hash(e, p) == Append(p, e)`. A line
that cannot be parsed is `Unreadable`; a write onto an unterminated line makes
that line unreadable, which loses both events. `emit` has no `await`, so within
one process read and append are not interrupted; between processes they are.
Faults: a write fails (`Skip`) or is cut short (`Tear`), and a read of the file
fails (`ReadLast`), which the catch clause of `lastHash` answers like an empty
file; the history variable `misread` keeps the events this happened to. What one
writer's chain promises is limited by it: `ChainVerifies` speaks of files that no
such event got into, `RestartsAfterTear` says that it starts a chain of its own.

### ContentRoute and Envelope

```
new -Arrive-> verify -VerifyEnvelope-> [jwt -VerifyToken-> lookup -LookupBinding->] authorize
 -ReceiveAndAuthorize-> path -ResolvePath-> [row -ReadRow->] capability -CapabilityFilter->
 drm -DrmGuard-> serve -QueryBusiness|...|FetchThirdParty-> done
any of them -> done, with a refusal or a 500
```

The model has one handler. Handlers of the content API share nothing that they
write but the audit file (module `AuditChain`); what one observes of the world is
what happens to the tables between its awaits, and `Others` may do there what the
ops application and the seed script do: push and retire policies, publish and
take down tracks, seed lyrics line by line, so that a request may find part of a
sheet. `PushPolicy` and `RetirePolicy` are the steps of `PolicyTable`, the INSERT
and the UPDATE of `applyPolicy`; the UPDATE may come any time after its INSERT,
or never, and an older version may be stored after a newer one.

| Variable | Code |
|---|---|
| `stored`, `superseded` | `content_policy`; `latestPolicy` returns the difference, in no order |
| `tracks`, `lyrics` | the catalogue; `lyrics[t]` keeps only the licence of each line |
| `req` | kind, provider prefix, what it names or matches, `X-Caller-Identity`, `X-Secret-Handle`, `X-Region`, `X-Device-Capability`, the token of the envelope |
| `verified`, `path`, `row`, `degraded` | `req.endUser`, `resolveProviderPath`, the row for the filter, `capDec.degraded` |
| `called`, `served`, `emitted`, `answer` | what left the process: to a provider, from the catalogue, to the audit file, to the caller |
| `lapsed`, `failed` | history: there was a moment without restriction; a read of the policies failed |

Of business fields `Envelope` keeps whether they conform to the contract. They
are spread over the envelope last, so a provider's body may replace mode, state
or code (`Overlay`). IAM, the ops service and providers are external: they
answer anything the code tells apart, or fail. `ResolvePath`, `CapabilityFilter`
and `DrmGuard` read the policies separately and each may fail. Ties that the code
leaves to the database (the first allow rule, the first restricting row, which of
several tracks a match returns) are choices.

The kind that the body of a request states is taken to be that of its route, and
columns of `tracks` other than format, bitrate and album to conform.

## 3. Runs

| Run | Question | Instance |
|---|---|---|
| `review_shared` | do state, history, catalogue, answers, audit and pool agree when admins race, and can they wait in a circle? | 2 ingests of one track_id, 3 requests, pool of 2, all faults |
| `review_isrc` | do shared keys exclude each other, does it all implement `ReviewSpec`, and is every request answered? | 2 ingests of two tracks with one isrc, seed of one of them, 2 requests, all actions, all faults, fair handlers |
| `policy_pushes` | is the table sound under races, faults and retries, do rules and equal versions stay apart, and is it the table that readers rely on? | 3 pushes of 6 commands: versions 1, 2, 2, 3 of one rule, 0 and 1 of another |
| `policy_retry` | does a duplicate answer mean a complete push? **No** | 3 pushes, faults |
| `audit_one_writer` | does one process keep the chain, where does it start anew, and what does a torn write cost? | 5 events, failing reads, failed and torn writes; 5,261 states |
| `audit_two_processes` | does a broken chain mean tampering? **No** | 2 processes, 2 events, no faults |
| `route_catalogue` | does a restriction stop a request, are restricted lyrics withheld while lines are being seeded? | 40 requests of all kinds, 4 devices, 2 tracks, 3 kinds of rows, 3 policies |
| `route_providers` | is every check passed before content or a call, does a failing store stop the request, is the answer consistent, is the audit trail the one that is owed? | 384 requests to two providers: all callers, handles, tokens; 24 of devices to a provider and to the catalogue; 4 policies, 3 secrets, 7 provider bodies |
| `admin_pages` | who may decide, and do pages and answers fit the tables? | 1 ingest, 3 requests, 2 sessions, a clock of two readings around the expiry; 1,028,712 states, about a minute |
| `seeding` | what do scripts leave that are stopped and started again? | catalog of 2 tracks, template of 1, sheets of 2, 1 and 2 lines, 3 ingests for two of the tracks, one with the isrc of the template's, none or all of 4 migrations applied; 58,540 states |
| `route_selected` | is what `selectPath` decides what the caller sees? **No** | 5 requests to a provider that may not be used |
| `route_stale_row` | is what was filtered what is streamed? **No** | 1 request, 2 kinds of rows |

**Bounds.** Each request, push and event is used once, so all models are finite
without counters to cap. Two ingests are what it takes for keys to clash, two
requests for a CAS race, three for a decision between the read and the CAS of
another pair, and for one of three to wait for a pool of two. Three versions let
an UPDATE skip and overtake, and three pushes are what it takes to store them;
two commands of one version make the second index decide, a second rule must not
be disturbed, and version 0 is never newer than nothing. The theorems
below remove these bounds for the safety properties. Requests, pushes and events
are interchangeable, which the symmetry sets use; `review_isrc`, which checks liveness, has none.

`admin_pages` needs three requests for a page that is read between the decisions
of two others, and two sessions of different roles; with a TTL of 0 a session is
good in the moment of its login only, so that the two readings of the clock make
it expire, and come back when the clock is set back. In `seeding` one ingest for
a track of the catalog has the isrc of the template's track, so that a clash of
isrcs ends a script, and two ingests share a track_id of the catalog, so that an operator's
row is met; sheets of two lines let a takedown fall between lines. The number of
starts is not bounded: tables only grow by what is in the plans.

A content request is one of a set, chosen on arrival. Three policies are what it
takes to replace a restriction by another while a third row allows; `MixedRows`
has, for one provider, a version whose secret is another provider's. Two tracks
let a query find rows of which one does not conform, and the tables may change at
every await without a bound on how often: a policy is pushed once, tracks come
and go as often as they like. `route_catalogue` runs without IAM and
`route_providers` with it, so that both forms of the token hook are run.
The latter has devices too, which ask a provider and the catalogue:
`AnswerConsistent` meets degraded streams, bodies that overwrite the envelope,
and refusals side by side, `ServedIsAdmitted` the kinds a device may ask for.

`AuditTrail` compares the events of a request, in order, with those it owes:
one for its token, one for its handle, and one for content of this back end. The
owed ones are read off request and answer (`TokenTrail`, `HandleTrail`,
`ContentTrail`); before the handler is done the events are compared as soon as a
back end is chosen.

Deadlock checking is off: when all requests are done the system rests.

**Fairness.** Only `Answered` needs it: weak fairness of each handler's own
steps. A statement that is not waiting for a lock is executed by Postgres, an
arrived answer is handled by the event loop. Waiting for a row or key lock, and
for a client of the pool, is a disabled action, and nothing is assumed about the
order in which waiters are served. No fault, arrival, seed or crash is fair.
`RowLocked` waiters could in principle be overtaken for ever; each request here
decides at most once, so weak fairness is enough.

`Answered` has a safety side that needs no fairness. `Blocked` spells out, from
the guards, when the next statement of a handler has to wait, and `WaitsFor` for
whom; `NoCircle` says that a blocked request waits for one that still runs, and
that no set of requests waits in a circle, through rows, keys and clients of the
pool together. `TxNoCircle` proves it for every number of requests and every
pool.

## 4. What the runs found

| Where | What |
|---|---|
| `policy/policy-store.ts:64` | after a failure between INSERT and UPDATE, a retry is called a duplicate and the older version stays in force |
| `audit/audit-sink.ts:54` | two processes that append to one file break the chain without tampering |
| `index.ts:429` | the mode and error code of `selectPath` are dropped: lyrics and metadata of a provider that may not be used are answered 200 NO_RESULT instead of BLOCKED, and queries that fall back are reported as real |
| `routes/stream.ts:85` | the row is read again after the filter: a format the device lacks can be streamed |

Also met while modelling, and in the models as the code has it, but without a
run that asks for it:

* losing the race on (rule_id, version) to another command ends in a 500, not in
  an idempotent answer (`policy/policy-store.ts:102`; `Relookup`);
* an older push that read MAX before a newer one was inserted is stored after it,
  and stays active beside it (`policy/policy-store.ts:66`, `:72`; `ReadMax`,
  `Insert`), although `src/README.md:126` says that stale pushes are refused;
* the 409 page names a state read after the transaction (`ops-app.ts:474`). That
  state forbids what was refused, with one exception: a revoke of a pending
  ingest that was approved in between is told "approved" (`ConflictNamed`);
* rows of a history are sorted by the time at which their transactions began
  (`ops-app.ts:74`): of two that overlap, the one that waited may come first;
* the URL of a stream is signed for a key made from the track_id and version 1,
  not for the row's `audio_object_key` (`routes/stream.ts:104`);
* a single failed read of the audit file makes the next event start a new chain
  in the middle of it (`audit/audit-sink.ts:32`), so that one process can break
  its own chain without tampering; `ChainVerifies` says so, and `audit_two_processes`
  shows the same end by another way;
* no call of a provider has an audit event, nor has a refusal by the capability
  filter or by the caller matrix (`AuditTrail`);
* the form of a new ingest sends `audio_object_key`, the handler reads
  `audioObjectKey` (`ops-app.ts:395`, `admin/templates/ingest-form.eta:3`);
* the seed script gives lyrics to a track that an operator published
  (`db/seed/seed.ts:62`); the foreign key then refuses that operator's revoke for
  good (`FinishedStays`, `Unpublish` of `ReviewTx`);
* `init` and `template` cannot be completed by running them again
  (`CompletesFromScratch`);
* a stream of a permitted provider that is down is reported as a copyright
  restriction (`routes/stream.ts:75`; `StreamBusiness`);
* BACKEND_UNAVAILABLE of the capability filter is sent as a 403 (`index.ts:513`
  and the same line of the other routes; `CapabilityFilter`);
* a track without album makes every query that finds it a 500
  (`content/self-hosted.ts:110`; `Conforms`);
* outages of the key set that are not recognised by their message refuse good
  tokens with 401 (`auth/jwt-verify.ts:82`; `VerifyToken`).

What holds in spite of the first one: the *newest* version is never retired by
an older push (`NewestActive`), so a pushed block is in force whatever late
pushes arrive, only not alone.

## 5. Proofs

All for every value of the constants that satisfies the modules' assumptions:
any number of ingests, tracks, requests, pushes, commands, events, sessions, any
pool size, any plans and sheets, any policies and provider bodies. Every
invariant and every safety property of a passing run is a theorem, the three
implementations included (`Atomic` and the two named `Implements`); `Answered`,
which is liveness, is not. Three theorems have a hypothesis on the constants:
`PolicyDuplicates` has `~FaultsOn`, no faults; `ChainRestarts` and `ChainVerified`
have `OneWriter`, as `audit_two_processes` refutes `ChainVerifies` for two. No
theorem about the audit file excludes a fault: what a failed read does to the
chain is part of the properties. Two more fix a policy that is pushed before the
request (`RouteStanding`, `RouteNewest`), any one of `PolicyRows`.

| Module | Theorems |
|---|---|
| `ReviewTables_proofs` | `AbsSafety`, `AbsCatalogue` |
| `ReviewSpec_proofs` | `TablesSafety` |
| `ReviewTx_proofs` | `TxTypeCorrect`, `TxAtomic`, `TxCatalogue`, `TxProjection`, `TxHistory`, `TxOneApproved`, `TxLyrics`, `TxAnswers`, `TxAudit`, `TxPool`, `TxNoCircle`, `TxAdvances` |
| `PolicyStore_proofs` | `PolicyTypeCorrect`, `PolicyNewest`, `PolicyMarks`, `PolicyCommandOnce`, `PolicyRetires`, `PolicyAnswers`, `PolicyRowsKept`, `PolicyImplements`, `PolicyDuplicates` |
| `AuditChain_proofs` | `ChainTypeCorrect`, `ChainRestarts`, `ChainVerified`, `ChainLoss` |
| `ContentRoute_proofs` | `RouteTypeCorrect`, `RouteRestriction`, `RouteFailClosed`, `RouteAdmission`, `RouteAnswers`, `RouteTrail`, `RouteLyrics`, `RoutePolicies`, `RouteCatalogue`, `RouteStanding`, `RouteReplaced`, `RouteNewest` |
| `AdminPages_proofs` | `PagesTypeCorrect`, `PagesRoles`, `PagesCoherent`, `PagesOwnDecision`, `PagesConflict`, `PagesRefuse`, `PagesImplementTables` |
| `Seeding_proofs` | `SeedingTypeCorrect`, `SeedingPlayable`, `SeedingSheets`, `SeedingFinished`, `SeedingFromScratch`, `SeedingImplements` |

The arguments:

* **`ReviewTx_proofs`.** `IInv` is the strengthening. `Phase`: `pc` fixes `tx`.
  `RowStable`: from the CAS to the commit, the ingest is still in the state that
  was read, that state permits the action, and nobody else holds the row.
  `KeyStable`: an uncommitted catalogue row clashes with no committed and no
  other uncommitted one, and a row being deleted has no lyrics. `Once`: a
  request decides at most once, and only a handler past its COMMIT has. Without
  `RowStable` the commit step could not be shown to be an atomic decision taken
  from a state that allows it; without `KeyStable`, publishing would not be.
  `TxAtomic` maps `Commit` to the decision, the writers of the environment to
  themselves, and everything else to a stutter; what the atomic specification
  keeps (`AbsSafety`) then holds of the tables. `TxAnswers` reads `Once` off the
  invariant. `TxAudit` adds that each event was emitted by a handler past its
  acknowledgement, once, for a track_id that is the ingest's. `TxPool` adds that
  the handlers which hold a client are finitely many: each took one of
  `PoolSize`, so that the requests need not be finite.
  `AbsCatalogue` needs the invariant behind `AbsSafety`: that a revoke finds its
  row there, and an approval the track_id free, is not in their guards.
  `TxNoCircle` orders the waits. A handler that awaits a client holds no lock and
  no client; one that awaits a row has only begun; one that awaits a key has the
  row; and a handler with all its locks waits for nobody. A wait always leads to a
  handler further on (`WaitsDown`), so that no set of requests is closed under
  waiting; and the one it leads to is running, as locks and clients go with the
  handler that holds them, be it through ROLLBACK, release or crash
  (`BlockedWaits`, with `TxPool` for the pool). `TxAdvances` adds that a handler
  never goes back to an earlier await. Together they are `Answered` short of
  fairness.
* **`PolicyStore_proofs`.** `IInv`: rows carry their command's rule and version,
  commands are unique; a push that wrote has its row in the table; two pushes of
  one command do not both write; after the UPDATE everything older that was
  there is retired (`Retired`), which stays so as rows are only appended and
  marks never removed. `PolicyImplements` maps a row to its content: the INSERT,
  also one whose answer is lost, is a push, the UPDATE retires what it finds, or
  stutters when it finds nothing, and all else stutters. `PolicyDuplicates` adds
  `HasWriter`, every row has a push that wrote it and has not failed, and so one
  that goes on to the UPDATE: without faults the divergence of section 4 is gone,
  whatever the interleaving.
* **`AuditChain_proofs`.** For one process (`OneWriter`): a pending event is
  chained to what is still the last line, or to nothing if its read failed, so
  that the chain starts anew exactly where `RestartsAfterTear` says; without an
  event of a failed read, a line that does not continue the chain stands behind
  an unreadable one, where `verifyChain` has thrown before. `ChainTypeCorrect` and
  `ChainLoss` hold for any number of processes and all faults: an unterminated
  line is that of a torn event, and the loss that the next write causes is
  provided for by it.
* **`ContentRoute_proofs`.** A first invariant, `IInv`, says which checks lie
  behind the handler at each `pc` (`Admitted`); that a moment without restriction
  is recorded while the request is alive, and that the guard lets nothing through
  that saw none (`Noticed`, with `DrmComplete`: `checkDrm` allows exactly what no
  row restricts, in whatever order it meets them); and that a failed read leaves
  a finished, refused request (`Stopped`). `RouteRestriction` speaks of
  restrictions by *changing* rows: the handler never needs to see the same policy
  twice. On top of it `SInv` says what the handler remembers at each `pc`
  (`Remembered`), the events emitted so far, one by one (`Trails`), and what
  an answer says and shows (`Says`, `Shown`). `RouteLyrics` is about the step that
  delivers: only the lyrics route on a sheet without a restricted line takes it;
  SELECT and answer are one action, so it speaks of the sheet as it was read.
  `RouteStanding` is stated without a history variable: rows that are out of force never come back, so that one which
  is in force at the end was in force at every read. `RoutePolicies` and
  `RouteCatalogue` say that the tables around a request are those of
  `PolicyTable` and `Catalogue`; with what `PolicyTable` keeps (`RouteReplaced`)
  `RouteNewest` says of `RouteStanding`'s "in force" what an operator would: the
  newest version of its rule. Each way a handler ends is one lemma,
  and the body of a provider, which may overwrite any field, is covered by the
  contract check of `Reply`.
* **`ReviewSpec_proofs`, `AdminPages_proofs`.** `TablesInv` is `AbsSafety` for
  modules that share the variables of `ReviewSpec`. On top of it: a session in
  the map was issued for its role and was never refused (`SessionInv`), a handler
  that runs was let in by it (`UserInv`), a decider stands behind its decision
  (`DeciderInv`), and what a handler has read is a beginning of the history,
  which only grows (`PageInv`). `ConflictNamed` needs what the routes leave out:
  without resubmit an ingest never becomes pending again.
* **`Seeding_proofs`.** What a script left behind is complete (`BehindInv`), and a
  complete track has lines, so that no revoke removes it. An approved ingest owns
  its row (`ProjectionInv`), so that a revoke never removes a seeded one. A run
  that is not the first cannot end well (`FreshInv`): `init` is stuck at its first
  file, the template has a seeded row ahead of it that nobody removes.

Only model-checked: `Answered`. Refuted, so not to be proved: the properties of
the runs of section 4. Liveness is beyond the proof system, and recursive
definitions are kept out of proved modules.

## 6. Not modelled

* Object storage (`storage/*`): wrappers of the S3 library without state. What
  the scripts upload is in `Seeding`; whether the object behind a signed URL is
  there is not claimed by any module.
* Environment and database client (`env.ts`, `db/client.ts`): read once at the
  start; what depends on it are constants (`IamConfigured`, `ProvidersWithUrl`,
  `PoolSize`).
* `mock-policy-producer.ts`, `e2e-token-verify-seed.ts`, `gen-types.ts`,
  `sync-schemas.ts` and generated types: stand-ins for other services and
  generators run by hand.
* HTML templates, forms, logging, tracing and metrics.
* The time stamps by which a history is sorted, and the timeouts of HTTP clients
  that the runtime brings along (`auth/ops-lookup.ts`): the models let such a
  call be answered or fail.

Where the models could grow: `ContentRoute` over the tables of `PolicyStore` and
`ReviewSpec` by refinement, so that `Others` is their steps and not its own
actions; and fairness of IAM, the ops service, providers and database, under
which every content request is answered.
