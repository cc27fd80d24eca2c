# EnerVision: TLA+ models, checks and proofs

EnerVision collects the energy readings of industrial sites, detects alerts, forecasts consumption
and shows the result in a web application. This directory models the parts of it where several
requests, jobs or tabs work on the same state, model-checks them with TLC on small instances and
proves their main invariants with TLAPS for instances of any size.

## 1. The system

| Component | State it keeps | Operations | Meets the others through |
|---|---|---|---|
| Refresh sessions (`services/auth.py`, `repositories/refresh_token.py`) | table `refresh_token` | login, refresh (rotation), replay detection, logout, logout-all, password change | rows of `refresh_token` and `app_user`; cookies |
| Accounts (`services/user.py`, `repositories/user.py`, `endpoints/users.py`) | table `app_user` | create, PATCH of role and activation, reset of a password | revokes refresh sessions, moves `credentials_changed_at` |
| Access tokens (`core/security.py`, `api/deps.py`) | none: signed tokens held by clients | mint, accept | compared with the account at every request |
| Passwords (`services/auth.py`, `repositories/password_reset_*.py`, `services/user.py`) | the hash in `app_user`, table of links | login with its rehash, request of a link, mail, confirmation, change, reset | rows of the account and of the links; sessions |
| Limits (`services/auth.py`, `repositories/login_attempt.py`, `password_reset_attempt.py`) | two tables of attempts | count a sliding window, record | before and after the hash of a login |
| Ingestion (`etl/mock_api_import.py`, `etl/historical_import.py`) | tables `site`, `dataset`, `reading` | windowed import, upsert, refusal of overlaps | read by everything below |
| Retention (`etl/reading_retention.py`) | chunks of `reading`, objects of the archive | export, read back, drop | deletes what ingestion wrote |
| Alerts, recommendations (`services/alert.py`, `services/recommendation*.py`) | tables `alert`, `recommendation` | detection over a window, generation | readings, forecasts; scheduled by Airflow with retries |
| Forecasts (`ml/enervision_ml`) | model file, table `prediction` | train, score | readings; the file passes between two jobs |
| Health of the sensors (`services/sensor.py`) | none | computed from the last readings | readings |
| Drift (`services/drift.py`, `repositories/drift.py`) | table `drift_report` | pair, measure, judge | forecasts and readings |
| Browser session (`auth.service.ts`, `auth-interceptor.ts`) | access token and principal in memory, one rotation in flight | login, shared rotation, retry after 401, logout | HTTP answers; a cookie shared by tabs |
| Read-only services, HTTP layer, screens, infrastructure | none of their own | | |

The backend is an asyncio server in front of PostgreSQL. A request is one coroutine, one database
session and, but for the PATCH of an account, one transaction; coroutines of one or several workers
interleave at every statement. Nothing in `src/` raises the isolation level above READ COMMITTED,
and no query locks the rows it reads: what serialises two requests is only the lock a write takes on
its row. That is where the hard behaviour is.

What makes each component correct:

* sessions: a rotation happens once per secret; a family has at most one usable secret; a revoked
  secret never comes back; the deadline is absolute; a revocation reaches what it must; every
  request ends;
* accounts and access tokens: an active administrator remains; a change of rights makes the older
  tokens stale, for good; a token is good when it is handed out;
* forgotten password: a link serves once, and dies only of its use or of a later request;
* limits: how far concurrency lets the attempts pass the threshold;
* passwords: who replaces a hash has verified the one that is there; a closed account is served to
  nobody;
* retention and ingestion: no reading is dropped that is not in the archive; an import that is
  retried changes nothing; two sources do not overlap;
* alerts and recommendations: an alert rests on rows that are stored; a fact raises one alert, and a
  detection misses none; an alert has its advice exactly, and in the end;
* forecasts and drift: a forecast is signed with the model that made it; a verdict is drawn from one
  state of the data; a site gets its forecast although attempts fail;
* browser: one rotation in flight; a session falls as stolen only when a secret was really lost; a
  session that was left stays left; every call ends.

## 2. Modules

| Module | Role |
|---|---|
| `ReadCommitted` | one PostgreSQL table as the code uses it: committed rows, drafts, row locks |
| `RefreshSessions` | the two tables of the sessions and every request that writes them |
| `SessionLife` | what the refresh sessions promise, seen by the clients: sessions opened, rotated, closed |
| `RefreshSessionsProofs` | theorems about `RefreshSessions`, and that it implements `SessionLife` |
| `UserAdministration` | PATCH of an account, the guard of the last administrator, access tokens |
| `UserAdministrationProofs` | theorems about `UserAdministration` |
| `ReadingArchive` | what the retention promises, seen from outside: a reading is hot or cold |
| `ReadingStore` | the hypertable of the readings, the imports that fill it, the retention that empties it |
| `ReadingStoreProofs` | theorems about `ReadingStore`, and that it implements `ReadingArchive` |
| `Credentials` | logins and their limits, links of a forgotten password, every writer of a hash |
| `CredentialsProofs`, `LimitsProofs` | theorems about `Credentials`; the second about its sliding limits |
| `IngestRules` | what the imports make of a report of the API and of a file |
| `AlertRules` | the rules of the alerts, of the advice and of the health of the sensors (on top of `IngestRules`) |
| `AlertPipeline` | detections and recommendations as processes over the readings that `IngestRules` lets in |
| `AlertPipelineProofs` | theorems about `AlertPipeline` |
| `ForecastRules` | which sites can be scored, which pairs a drift run forms, how it judges them |
| `Forecasts` | the training, the scorings and the drift runs as processes |
| `ForecastsProofs` | theorems about `Forecasts` |
| `BrowserSession` | the tabs of a browser, their shared cookie, the exchanges with the server |
| `BrowserSessionProofs` | theorems about `BrowserSession` |
| `MCRefreshSessions`, `MCUserAdministration`, `MCReadingStore`, `MCCredentials`, `MCAlertPipeline`, `MCForecasts`, `MCBrowserSession` | the instances TLC checks: symmetry, the bodies of PATCH, windows, files, mixes |

A definition marked `Mutant` is what a plausible bug would make of the definition below it. No
specification uses one.

### ReadCommitted

The server is outside the repository; the module states what the code relies on, and is instantiated
once per table (`T` for `refresh_token`, `A` for `app_user`). `committed` is what other transactions
see, `draft` the version a transaction has written, `holder` who holds the lock. Reading never
waits. Writing waits for the row and then works on the version left behind. `Publish` is COMMIT,
`Discard` is ROLLBACK. Isolation anomalies are not excluded anywhere: they follow from these rules.

### RefreshSessions

One record per request in flight (`request[x]`), whose field `at` names the SQL statement it is
about to execute; an action is one statement. Correspondence:

* the first action of a request (`Authenticate`, `Refresh`, `Logout`, ...) is the call with the
  first read of the service; what it read is kept in the record, as the coroutine keeps it in a
  local variable, whatever is committed meanwhile;
* `ClaimForRotation` is the single `UPDATE ... RETURNING` of `claim_for_rotation()`; a refusal goes
  to `InspectRefused` (`_traite_rotation_refusee`), a success to `RereadAccount` and
  `IssueSuccessor` (insertion and link in one step: the new row is invisible to the others and the
  old one is locked already);
* `revoke_family()` and `revoke_all_for_user()` are one UPDATE over many rows, and are not one step:
  `BeginRevocation` takes the snapshot that selects the rows, `RevokeRow` locks them one by one and
  tests each again on the version found under the lock, `EndRevocation` ends the statement. Rows
  inserted after the snapshot are not seen;
* `Commit`, `Rollback` (an exception, a lost connection, a worker that dies) and `DeadlockVictim`
  (the server cancels one transaction of a cycle of waiting ones) end the transaction.

`status` abstracts `rotated_at`, `revoked_at` and `revoked_reason`, of which the code writes only
the combinations listed in `Reasons` and "live". `family` is the token opened at login, a name as
good as the random `family_id`. Refused logins and refused changes of password write no session and
are left out, as are the audit rows, and the counters of attempts (`Credentials` has them). The
creation of accounts inserts no session. The confirmation of a link closes every session and opens
one, as the change of a password does; the link itself is in `Credentials`.

### UserAdministration

The account with its role, its activation and its marker `credentials_changed_at`, the access tokens
handed out, and the requests that read and change them.

* A PATCH runs `change_role()` then `set_active()`, each with a transaction of its own, in one
  database session. The session is built with `expire_on_commit=False` and keeps the rows it has
  read: `seen` is that copy. The second service decides on it, not on the row. The session holds it
  by a weak reference: when the actor modifies their own account the copy is the one their access
  token was checked against, or is read again (`Cached`). The UPDATE follows the copy only on the
  column it sets.
* `Load` is `_exige()`, the early return and the half of the guard that looks at the copy;
  `CountActiveAdmins` is the count, one statement; `UpdateAccount` waits for the row and stamps it;
  `Commit` publishes it.
* `Accepted` is `get_current_principal()`: expiry, activity, `iat` against the marker truncated to
  the second, role of the token against the role of the account.
* `Mint` is `_session()`, after the commit, with the role read at the beginning.

The clock counts ticks, several to a second, as the marker is finer than `iat`; the application and
the database share it. `clock_timestamp()` is read under the lock of the row. (A PostgreSQL that
waits for a writer that rolls back may keep a value computed before the wait; no other marker of the
row falls after it in that case.) Revocations made by these requests are in RefreshSessions,
creations in Credentials. All accounts are human and none owes a change of password.

### ReadingStore

The table `reading` and the catalog of its chunks, the objects of the archive, one record per
process of either kind, whose field `at` names what it does next. Processes share nothing but the
database and the store.

* A retention run lists the eligible chunks once (`ArchiveReadingChunks`), then for each one reads
  the rows by the chunk's bounds (`ReadChunkRows`), compares the fingerprint of the file with the
  object that is there (`Compare`), writes it (`Put`), reads it back (`Reread`) and drops the chunk
  in a transaction of its own (`DropChunk`). Each is a call to the database or to the store, and
  anything may happen between two of them. `FailJob` ends the run anywhere; what it did remains.
* A chunk that is dropped and needed again is created anew under another name: `serial` is that
  name. The run drops by the bounds and compares the name it gets back with the one it listed; a
  difference rolls the drop back.
* The file is a function of the rows and of their `reading_id`; readings inserted again after a drop
  get other identifiers, so the file also depends on which creation of the chunk they belong to. The
  fingerprint stands for the file.
* The store may acknowledge a file it does not keep (`Put`); it does not change what it holds by
  itself.
* An import of the API tests the overlap (`RefuseIfOverlapsHistoricalDataset`), fetches
  (`FetchReadings`) and opens its transaction: the upsert of the sites locks their rows
  (`UpsertSites`), so two imports of the same site write one after the other, and `drop_chunks`,
  which takes `site` exclusively, waits for both (`DropChunk`). `InsertReadings` is the insertion
  that skips what is there, and COMMIT. The historical import has the transaction only.
* `ScheduledImport` is the DAG or one of its retries; `now` is the hour of its last trigger, whose
  attempts all end before the next (three of ten minutes two minutes apart: `PLAFOND_PAR_TENTATIVE`,
  `NOMBRE_REPRISES`), hence the guard of `Tick`. They may end after the hour strikes, so a retention
  run starts at hour `now` or `now + 1`.
* `imported` and `touched` are history: all that was ever committed, and the chunks in which rows
  came after a run had read or archived them.

### Credentials

Requests are transactions of several statements, as in RefreshSessions; here the rows are accounts
and links, and the logs of attempts.

* `Authenticate` and `RequestPasswordReset` are the calls with their first statement, the counters
  (`_refuse_si_limite`, `_refuse_si_limite_reset`); `Recent` is the window, in which a row not yet
  committed does not count. A refusal records its attempt and commits it alone (`RecordRefusal`,
  `_echoue`). A granted request for a link records its own with the link. Rows carry the start of
  their transaction, as `now()` does.
* `Verify` is the read of the account and the hash; what follows (`RehashPassword`,
  `TouchLastLogin`) trusts that read. `stale` notes that another request changed the account in
  between; no step reads it.
* `BeginInvalidation`, `InvalidateLink` and `IssueLink` are the bulk UPDATE of the former links, row
  by row, and the insertion. `Consume` is the single `UPDATE ... RETURNING` that claims a link;
  `RereadAccount` refuses a closed account, and the rollback gives the link back.
* `Commit` queues the mail, a background task; `SendMail` delivers it or loses it. Whoever has the
  mail may present its link again and again.
* A successful login feeds no counter and leaves no row here. The table of requests for a link has
  no outcome column: the field is history there.

### IngestRules, AlertRules and AlertPipeline

`IngestRules` cleans what comes: a measure out of its bounds becomes null and names its sensor, the
API's quality is kept only if it is one of four words, a file with an hour twice is refused, an hour
imported again replaces nothing. `AlertRules` are the five rules, over sets of rows; ratios are
compared by multiplication, hours and measures are whole numbers. `AlertPipeline` runs them.

* Two processes: `alertes`, the DAG (`Trigger`, detection then recommendations, each with retries),
  and one by hand (`StartByHand`: the scripts with `--now` and `--site-id`, or the page of the
  recommendations).
* A detection reads readings, forecasts and last readings in three statements (`ReadReadings`,
  `ReadPredictions`, `ReadLatest`); a generation reads alerts (`ReadAlerts`). `Ingest`,
  `ImportHistorical` and `Predict` commit rows between any two.
* `Insert` is one row of an INSERT ... ON CONFLICT DO NOTHING: it waits for the other process if it
  has inserted the same key and not committed, and skips a row that is there. `NextOf` is the order
  of the rows. The code inserts in batches of a thousand; a batch more or less changes no order.
* `Succeed`, `Fail` and `FailCommitted` end an attempt: the last one dies after its commit, before
  Airflow hears of it.
* `fresh` is history: nothing was written to the tables a run reads since it started.

### ForecastRules and Forecasts

* The model file is a version and whether all of it is there. `BeginSave` truncates it, `EndSave`
  completes it: `save_model` writes in place. `FailTraining` may leave it cut short; wherever it was
  cut, that is one value, which stays until the next training.
* A file cut short may be refused by LightGBM or loaded, as where it was cut decides: the library
  appends the categories of the sites in a second write, and a file cut before it is read without a
  word. `score.py` checks nothing. Both are possible here (`LoadModel`, `FailScoring`).
* A scoring reads the recent rows (`LoadRecent`), loads the file (`LoadModel`), fingerprints it in a
  second read (`ModelReference`) and inserts one row per site (`WritePredictions`). `maker` and
  `raced` are history: the file that computed the value, and whether a training was writing the file
  from the loading to the fingerprint. What cannot be loaded fails the attempt (`FailScoring`); the
  DAG tries again with the readings of that moment.
* A forecast is the last one inserted for its site and hour, the only one the code reads. Its value
  is free: what is kept of the features is the lag, positional as in the code, that decides whether
  a site can be scored.
* A drift run reads the pairs of a window, those of the window before and the counts, in three
  statements, then inserts its rows, of which the first for a window stays (`Record`).

### BrowserSession

One account in one browser: each tab keeps a token in memory, all share the cookie. The server's
operation is one step here (`Serve`), the statements being in RefreshSessions. An exchange goes out,
is served, comes back; all orders are possible.

* `RefreshShared` is the interceptor on a 401 that says expired: it joins the rotation in flight
  (`rotation$`) or starts one; `Resumed` sends the waiting calls again, once, or gives them up;
  `GiveUp` and `HearCall` clear the session of a retried call that fails.
* `Open` is a page that is opened or reloaded: it forgets its token and its calls, whose requests go
  on in the network, and restores the session by a rotation before anything is shown.
* `Stored` is the cookie after an answer; an answer whose page is gone is dropped (`Drop`), cookie
  included: whether a browser stores it then depends on the moment, and losing it is the worse case.
* `Lose` is a request or an answer lost. The server may have done its work.
* `overlapped`, `troubled` and `left` are history: sessions on which two exchanges worked at once,
  whose secret was lost, or that a page left with the server's answer.

## 3. Runs

| Run | Module | Expectation | Properties | Distinct states |
|---|---|---|---|---|
| `MCSessions` | MCRefreshSessions | pass | `TypeOK LiveFamilyHistory ChainsIntact RevocationReachesSeen SessionSpec` | 138 645 |
| `MCRequestsEnd` | MCRefreshSessions | pass | `RequestsEnd` | 93 364 |
| `MCChangePassword` | MCRefreshSessions | violation | `AllOtherSessionsFall` | |
| `MCUserAdministration` | MCUserAdministration | pass | `TypeOK OnlyRacesRemoveTheLastAdmin RefusedForGood OlderTokensDie MintedTokensWork` | 563 711 |
| `MCLastAdmin` | MCUserAdministration | violation | `AnAdminRemains` | |
| `MCReadingStore` | MCReadingStore | pass | `TypeOK NothingLost ScheduleIsSafe ExportedOnce` | 1 448 545 |
| `MCSchedule` | MCReadingStore | pass | `ArchiveSpec OldChunksLeave` | 66 304 |
| `MCDuplicates` | MCReadingStore | violation | `NoDuplicateOfHistorical` | |
| `MCCredentials` | MCCredentials | pass | `TypeOK GuessesBounded GrantsBounded LiveLinksBounded MailFollowsCommit LinkServesOnce LinkDiesForAReason OnlyRacesOverwrite OnlyRacesServeInactive` | 664 594 |
| `MCAlertPipeline` | MCAlertPipeline | pass | `TypeOK AlertsAreEvidenced NeverWaitOnEachOther AdviceExact FreshRunsMissNothing SilenceIsAdvised` | 220 003 |
| `MCForecasts` | MCForecasts | pass | `TypeOK OnlyTrainingsMissign FreshReportsAreExact ForecastsCome` | 136 959 |
| `MCBrowserSession` | MCBrowserSession | pass | `TypeOK FamiliesFallForACause LogoutSticks CallsSettle` | 166 485 |

What they show.

* `MCSessions`: two requests log in, rotate, replay, change a password, close an account and roll
  back over four secrets of one account, with a clock that reaches the deadline. Two tabs never win
  the same rotation; while a family has a living secret all its others were rotated; every secret
  descends from the login of its family and keeps its deadline; a revocation reaches every row its
  snapshot saw; and the table implements `SessionLife` (`SessionSpec`), in which a session has one
  account, one deadline and one usable secret at most, a closed one stays closed, and the fate of a
  secret is never rewritten. `SessionLife` does not say that a transaction closes every session of
  the account: `MCChangePassword` shows that it may miss one.
* `MCRequestsEnd`: two requests of any kind that wait on rows of each other end, deadlocks included.
* `MCChangePassword` refutes a comment of `services/auth.py` (line 210): the successor that a
  concurrent rotation inserts before the revocation's snapshot and commits after it is not revoked.
  The session of another device survives a change of password. The revocation of a replayed family
  (line 387) misses such a successor in the same way.
* `MCUserAdministration`: as long as the copy and the count a change was decided on are still true
  when it commits, an administrator remains; a token made stale is never accepted again; a committed
  change makes stale the tokens issued before the second in which its request began; a token is
  never stale when it is handed out.
* `MCLastAdmin` refutes the header of `services/user.py`: two administrators who take each other's
  rights away both count two.
* `MCReadingStore`: whatever fails and however runs overlap, a reading leaves the table only for the
  archive, and an object is written once, except in a chunk that got rows after a run had exposed
  it, which only an import by hand or of the historical file can do. Such rows can be lost: the run
  drops what it has not read. The exception is part of the property and the hourly import never
  meets it (`ScheduleIsSafe`).
* `MCSchedule`: with the DAGs alone the system implements `ReadingArchive`, in which a chunk leaves
  at once, once, and nothing archived comes back; and every old chunk leaves in the end, although
  runs fail at every step and leave the object without the drop.
* `MCDuplicates` refutes a comment of `etl/mock_api_import.py` (lines 227 to 231): the control by
  window is not enough, the historical file may be committed after it and before the write.
* `MCCredentials`: a window holds at most the threshold of attempts, plus one for each other request
  in flight: the counters are read before the hash and fed after it. An account has at most as many
  links alive as requests overlapped, a link serves once and before its deadline, a mail names a
  committed link. A login that recomputes an old hash may write the former password over a new one,
  and a login or a link may serve an account just closed: the properties say that only such a race
  does, not that the race is harmless (see below).
* `MCAlertPipeline`: every alert rests on stored rows and has the severity its rule gives;
  detections and generations that overlap never wait on each other; an alert has all its advice or
  none; a detection during which nothing arrives leaves an alert for every fact of its window, those
  another run inserts meanwhile included; advice on a silent site comes although attempts fail.
* `MCForecasts`: a forecast bears the fingerprint of the file it was computed with, unless a
  training was writing that file from the loading to the fingerprint. That file may be one a dead
  training left cut short: the fingerprint is then of the cut file, and says nothing of it. The rows
  of a drift run during which nothing is written count each hour once, weigh its error and judge as
  they say; the global row does so when the run was asked for all sites. Each site gets its forecast,
  or the reason it has none.
* `MCBrowserSession`: calls refused together in one tab never cost the session; it falls as stolen
  only if a new secret was lost or two exchanges worked on it at once. A page whose logout was
  answered stays out, but for such an overlap. Every call ends.

### What was met on the way

Behaviours of the code that the properties allow for, or that no property is about:

* A deactivation that commits after the second read of a link, during the hash, does not stop the
  link: it changes the password of the closed account, which `services/auth.py:297-299` says the
  second read prevents. Without its exemption TLC refutes `OnlyRacesServeInactive`.
* A login that recomputes an old hash undoes a change of password that commits during its own hash;
  `repositories/user.py:75` calls it "un simple recalcul". Without its exemption TLC refutes
  `OnlyRacesOverwrite`.
* A logout answered while a rotation of its page is under way is undone by the answer of the
  rotation. Without its exemption TLC refutes `LogoutSticks`.
* Two tabs that rotate at once, or a reload while a rotation is in flight, present a secret twice
  and lose the session. A refusal that comes late deletes the newer cookie of another tab.
* A logout that fails on the network leaves the cookie: the page says it is out, and a reload
  restores the session.
* The `catchError` of the interceptor follows its `switchMap` (`auth-interceptor.ts:80-87`): it also
  catches the failure of the call it has sent again, so that a 403 on a retried call clears the
  session, though `docs/architecture/31-contrat-authentification.md:82` says not to disconnect on
  one.
* A reading whose quality is null shows as critical on the page of the sensors and raises no sensor
  alert. A row without power (`kw` null) of a second source at the same hour hides a spike.
* A drift run by hand for one site writes its figures in the row without a site, of which
  `models/energy.py:228-229` says: "`NULL` porte la ligne globale, tous sites confondus". The first
  row of a window stays, so the DAG's later figures for all sites are not kept.
  `FreshReportsAreExact` asks the global row of all sites of a run that was asked for all; asked of
  every run, TLC refutes it.
* A training that dies while it writes leaves a cut file in the place of the model. Every scoring
  takes it until the next training, and if LightGBM loads it nothing in the rows tells.

### Bounds, and why they are enough

* Two requests at once. Every property relates a request to at most one other that overlaps it; a
  third adds queues for a row, not a new pair. The theorems hold for any number.
* Four secrets in `MCSessions`: a login, its rotation, a replay, and one more for the request that
  reopens a session. `Begin` accepts a request only if the pool could still serve it (`Issuing`), so
  no request is stuck for want of a secret.
* Two secrets in `MCRequestsEnd`, whose requests are of every kind: waiting needs rows, not
  generations.
* One account in the runs of RefreshSessions: sessions of two accounts meet only through the primary
  key. Two in UserAdministration, the least in which the last administrator is a question.
* `MaxTime`, `RefreshTtl`: enough ticks for a token to expire during a request; in
  UserAdministration two ticks a second, so that two stamps fall in the same second and in different
  ones.
* `MaxAccess` bounds the access tokens, `Payloads` the bodies of PATCH: a demotion, an activation, a
  deactivation, and one body that runs both services.
* `CHECK_DEADLOCK FALSE` only for UserAdministration: the last administrator can be lost, and the
  bounds on the clock and on the tokens then leave nothing to do.

* Readings: one site, chunks of two hours, so that the clock meets both hours of a chunk and the
  first of the next; two retention runs, for one that fails after the export and one that follows or
  overlaps; two importers, the least in which a control and a write interleave; three imports, to
  fill a chunk, to touch it late and to create it again. The windows by hand are one inside a chunk
  and one that straddles two; the historical file has a reading of the first chunk. The least age is
  one hour: the code's least is a day, and a larger one only delays the runs. `MCSchedule` has one
  importer, as the DAG has at most one run, and one hour more, so that two chunks grow old.
* `CHECK_DEADLOCK FALSE` for ReadingStore: the bounds on the clock and on the imports let everything
  be done.

The other four modules draw a *mix* in their initial state: what users ask for, what arrives and how
many failures come in this behaviour. A mix keeps a question small; nothing of the mix is read by a
step but to allow it.

* Credentials: two requests, three links, two identifiers and two addresses, thresholds of one and
  two, so that pair, address and identifier are reached apart; windows, deadline and clock of one
  tick, so that a row leaves the window; three attempts in each log (`MaxAttempts`). Four mixes: the
  limits on logins, those on links, the links with closures of their account, the writers of a hash.
  `CHECK_DEADLOCK FALSE`: users may stop, and the bounds let everything be done.
* AlertPipeline: one site of capacity 10 (the rules relate rows of one site only), an outage after
  one hour, one hour looked back, one retry, up to three readings. Three mixes: the DAG and a hand
  with a failure; four kinds of reports over three hours; files, forecasts and the API together.
* Forecasts: two sites, a window and a grace of one hour, one retry. Four mixes: a training, or its
  failure, over a model that is there, against two scorings; two windows with a file and the API at
  odds; two drift runs on one window, one of them for one site maybe; no model yet.
* BrowserSession: two tabs, two sessions of three secrets, two calls and three rotations under way,
  four mixes: one tab that is reloaded, two tabs, an answer lost, changes of password with an admin.
  The absolute age of a session is its last secret: `TooOld`. `CHECK_DEADLOCK FALSE`: users may
  stop.

### Fairness

`MCRequestsEnd`: strong fairness of each request's next statement (`FairSpec`). The event loop runs
every coroutine that is ready, and PostgreSQL queues the waiters of a row in order, so a waiter is
not passed over for ever although the row is taken again and again; weak fairness would allow that.
`DeadlockVictim` is part of the step: the server breaks cycles after `deadlock_timeout`. Clients are
not obliged to ask nor requests to fail.

`MCSchedule`: strong fairness of each step of the run the DAG launches (`Nightly`), and weak
fairness of the end of an import's transaction. Airflow launches the run every night; its failures
interrupt it again and again but are transient, so a step that is possible time after time succeeds
at last, the storing of an object among them. Runs launched by hand get no fairness: they may be
abandoned between any two steps, holding nothing.

`MCAlertPipeline`: weak fairness of the trigger and of each process's next statement. The schedule
comes round again; a statement that waits for a row is enabled once the other process has ended, and
the failures of a behaviour are bounded by its mix. Weak is enough because the processes never wait
on each other. `MCForecasts`: the same of the hourly scoring. `MCBrowserSession`: the server answers
and answers arrive; users and reloads get no fairness.

## 4. Theorems

`RefreshSessionsProofs`, for any sets of tokens, users, passwords and requests, and any set of
operations:

| Theorem | States |
|---|---|
| `TypeCorrect` | `Spec => []TypeOK` |
| `FamilyHistory` | `Spec => []LiveFamilyHistory` |
| `Chains` | `Spec => []ChainsIntact` |
| `Drafts` | `Spec => []DraftsOK` |
| `RevocationsReach` | `Spec => []RevocationReachesSeen` |
| `DeadForGood` | `Spec => DeadStaysDead` |
| `SessionsLive` | `Spec => SessionSpec`: it implements `SessionLife` |

They rest on `TtlAssumption` and `NoneAssumption` only. `LiveFamilyHistory` is not inductive: what a
commit publishes is what the request holds as drafts, so the invariant has to describe drafts
(`DraftsOK`: under a lock there is a living row being killed, or the one row the request issues,
linked from the row it rotated) and the fields the request works with at each statement (`StageOK`).
`IInv` is their conjunction with `TypeOK`, `ChainsIntact` and `LiveFamilyHistory`; it is shown of
`Init` and of every action, the statements first, then the commits. `DeadStaysDead`, which no run
checks apart from `SessionSpec`, follows from `IInv`: a row under lock was alive.

`SessionsLive` maps the committed rows to sessions: the rows of a family, the one that is alive as
the usable secret and the reasons of the others as their fates. Only a commit changes them
(`PublishedByCommit`), so every other step stutters. A commit is `Open`, `Renew` or `Close`, by
whether it publishes a new row and of which family; that takes one invariant more, `ScopeOK`: a
request writes rows of one account, and when it issues a successor the rotated row is the only one it
kills. `KeepsOrCloses`, `RenewedSession` and `OpenedSession` say what a commit makes of each session.

`UserAdministrationProofs`, for any finite set of accounts, any requests, any bodies of PATCH and
any number of ticks to a second:

| Theorem | States |
|---|---|
| `TypeCorrect` | `Spec => []TypeOK` |
| `GuardHolds` | `Spec => OnlyRacesRemoveTheLastAdmin` |
| `StaleForGood` | `Spec => RefusedForGood` |
| `ChangesKillOlderTokens` | `Spec => OlderTokensDie` |
| `FreshTokens` | `Spec => MintedTokensWork` |

They rest on the assumptions on the clock, on the finiteness of the accounts, on roles and on
bodies, all named in the module. `IInv` adds to `TypeOK` what a request knows at each statement
(`RequestOK`), what it is about to publish (`CommitOK`), that no marker is in the future
(`MarkerOK`) and that only a request about to commit holds an account (`HolderOK`). `GuardHolds`
needs the copy (`CommitOK`): a change counted two administrators or its target was none. Finiteness
is what makes a count of two mean two members.

`ReadingStoreProofs`, for any sites, length of chunk, processes, windows, historical file and ages
of at least an hour:

| Theorem | States |
|---|---|
| `TypeCorrect` | `Spec => []TypeOK` |
| `RetentionLosesNothing` | `Spec => []NothingLost` |
| `ScheduleSafe` | `Spec => ScheduleIsSafe` |
| `ObjectsStay` | `Spec => ExportedOnce` |
| `RetentionRefinesArchive` | `Windows = {}` and `Dataset = {}` imply `Spec => ArchiveSpec` |

They rest on `HoursAssumption`, `AgesAssumption`, `WindowsAssumption`, `DatasetAssumption` and
`NoneAssumption`. `NothingLost` is not inductive, because a drop is justified by what the run read
several steps before. `JobGood` says what that still means as long as no late row came: while the
chunk exists the file is its current content, once it is gone the archive holds the same file, and a
run about to drop has found it there. `ObjectGood` says the same of the object of a chunk that still
exists. `ImportGood` ties the window of the DAG's import to the clock, and every exposed chunk ends
before it: that is `ScheduleSafe`. The refinement maps `hot` to the rows of the table and `cold` to
what the archive alone holds; it needs the invariant and that no chunk is ever touched, an invariant
of its own (`Untouched`) once only the DAG imports. `AgesAssumption` is not enforced by the command
line of the retention, which takes `--older-than-days 0` or less; the setting the DAG uses is thirty
or more.

`CredentialsProofs`, for any identifiers, addresses, passwords, links and limits, and any finite set
of requests:

| Theorem | States |
|---|---|
| `TypeCorrect` | `Spec => []TypeOK` |
| `MailsAreOfCommittedLinks` | `Spec => []MailFollowsCommit` |
| `LinksServeOnce` | `Spec => LinkServesOnce` |
| `LinksDieForAReason` | `Spec => LinkDiesForAReason` |
| `OverwritesAreVerified` | `Spec => OnlyRacesOverwrite` |
| `ActiveAccountsAreServed` | `Spec => OnlyRacesServeInactive` |

They rest on `LimitsAssumption`, `BoundsAssumption` and `NoneAssumption`. `IInv` adds to `TypeOK`
the fields each stage carries (`Shape`), what a request that trusts its read knows unless it is
stale (`Verified`), and what it has under lock: its own account (`AccountLocks`), the living links
it kills and the one it issues (`LinkLocks`). `LinksServeOnce` needs that a claimed link stays under
lock, and alive for the others, until the commit.

`LimitsProofs`, under the same assumptions:

| Theorem | States |
|---|---|
| `GuessesStayBounded` | `Spec => []GuessesBounded` |
| `GrantsStayBounded` | `Spec => []GrantsBounded` |
| `LiveLinksStayBounded` | `Spec => []LiveLinksBounded` |

The bounds speak of what is recorded and the counters of the code see nothing else, so neither is
inductive. `Within` adds, for each counter and each window, the attempts that have passed it and are
not recorded yet: together they never exceed the threshold less one plus the number of requests.
Whoever passes has read a count below the threshold, and at most the other requests are missing from
that count; a row that lands leaves the sum as it is. The bound on living links is an injection
rather than a sum (`LivingInv`): each living link of an account has a request of its own, which is
not about to spare it (`Spares`). A request that has taken its snapshot spares the links committed
since; each of them, committed by another request, keeps that one as its slot, so the link it issues
finds its own slot free.

`AlertPipelineProofs`, for any sites, capacities, files, mixes and number of retries:

| Theorem | States |
|---|---|
| `TypeCorrect` | `Spec => []TypeOK` |
| `AlertsRestOnRows` | `Spec => []AlertsAreEvidenced` |
| `RunsNeverDeadlock` | `Spec => []NeverWaitOnEachOther` |
| `AdviceIsExact` | `Spec => []AdviceExact` |
| `DetectionsMissNothing` | `Spec => FreshRunsMissNothing` |

They rest on the assumptions of the three modules. The invariant says what a run holds at each step
(`Working`): its alerts are evidenced by rows that stay, none of its keys twice, what it has
inserted comes before what it has to insert; no key is held by two processes (`Exclusive`);
committed alerts are one per key (`Sound`), and advice is whole (`AdviceWhole`). Rows are numbered
in the order of insertion, a lemma on cardinalities, which is what makes them distinct.

`DetectionsMissNothing` adds `DInv`: a measure out of bounds has spoilt the quality of its row
(`RefusedShow`), and a detection that nothing has overtaken holds, in what it has to insert, what it
has inserted and what is committed, the key of every alert the rules draw from the tables as they
are (`Thorough`). An insertion that meets a committed row drops its own, which is why committed rows
count. What remains is that the rules draw an alert of every fact: the first row of a slot exists
although the one that shows the fact is not it (`SlotHasAFirst`), and so does the last row of a site
(`LastExists`), the one that the fewest rows come after.

`ForecastsProofs`, for any finite set of sites and any models, mixes and number of retries:

| Theorem | States |
|---|---|
| `Signatures` | `Spec => []OnlyTrainingsMissign` |
| `TypeCorrect` | `Spec => []TypeOK` |
| `ReportsAreExact` | `Spec => FreshReportsAreExact` |

They rest on the assumptions of `ForecastRules` and `Forecasts`. `Signatures` has an invariant of
its own (`SignaturesOK`), which carries what a scoring knows of the file between the two reads:
unless it is raced, the file is still the one it has loaded. The other two
share `ReportsOK`. Its first half (`TypesOK`) adds to `TypeOK` that readings are finite, numbered
and of hours that have begun, that a forecast that is available has a value, and that what a drift
run has read is finite. Its second (`FreshOK`) says what a drift run that nothing has overtaken
holds at each step: the pairs, the former pairs and the rows that the tables, as they are, give.
`PairsAreSeen` says that these pairs are the hours that have a forecast and a measure, each with the
last forecast and the last measure, so the sums of the rows are those of these hours; for the global
row that takes a run asked for all sites. The sums of errors are folds of the community modules. The
library's induction theorems cannot be used on them, but its well-founded relations can:
`LeastNatural` gives the least counterexample, and `SumsExist` and `ErrorsAreSums` show that the
fold over a finite set of pairs is the sum that takes one element after another. So the total error
is a number and bounds the bias (`ErrorsBoundBias`), whatever has been measured. `ReportIsExact`
then counts: an hour of a site has one pair at most, and the hours verified are those that have one.

`BrowserSessionProofs`, for any tabs, sessions, secrets and exchanges:

| Theorem | States |
|---|---|
| `TypeCorrect` | `Spec => []TypeOK` |
| `SessionsFallForACause` | `Spec => []FamiliesFallForACause` |
| `LogoutsStick` | `Spec => []LogoutSticks` |

`IInv` adds to `TypeOK` the fields of an exchange (`Shaped`), that a tab has one rotation at most
and knows it (`OneRotation`), that nobody has a secret of a session not opened (`Unknown`), and that
the secret of a session neither overlapped nor troubled (`Clean`) is in one exchange at most and is
its last one, as is the cookie's unless the new one is on its way (`Kept`). Every action keeps
`Kept` or leaves `Clean`.

`LogoutsStick` adds `Sticky`: the token an answer brings is of the session of its secret
(`Matched`); a session that is not opened, or whose first answer is under way, is known to no page,
no cookie and no other exchange (`UntoldYet`); a logout and another exchange that took a secret of
its session have met, and the session is marked (`Met`); and a session that a page has left, and
that is not marked, is in no page, cookie or exchange any more (`Gone`).

Three of these proofs corrected the model. A fact of `DetectionsMissNothing` asked for an alert of a
last reading among the hours of the clock, while a file may put a reading before it
(`NamesTheLast`). Nothing kept the name of a severity from being `None` in `AlertRules`. A scoring in
the last hour the clock may reach would look for an hour beyond it, in `Forecasts`, if a mix let the
clock get there, and a sum over infinitely many sites would be no number.

Only model-checked: liveness (`RequestsEnd`, `OldChunksLeave`, `SilenceIsAdvised`, `ForecastsCome`,
`CallsSettle`), outside the prover's reach. Every invariant and action property of a passing run has
its theorem.

## 5. Plan

1. Done: `ReadCommitted`, `RefreshSessions`, `UserAdministration`, `ReadingArchive`, `ReadingStore`
   and their proofs.
2. Done: `Credentials` with its limits, `AlertPipeline` with its rules, `Forecasts` with its rules,
   `BrowserSession`, and their proofs.
3. Done: a theorem for every invariant and action property the runs check.
4. Done: `SessionLife`, the abstract session, and that `RefreshSessions` implements it.
5. Left: the other kinds of account in `UserAdministration`.

## 6. Not modelled

Within the modelled parts: the values of readings in the retention, the attributes of sites, the row
of the dataset (two first imports of the same file may both insert it, and one then fails), the
encryption of objects, dry runs of the imports, which write nothing; in `UserAdministration` the
service accounts and the duty to change a password; the numbers of a model and of the MAPE, ratios
that are not of whole numbers, scoring of a csv file, which writes nothing; alerts that the
simulated API raises by itself; the pages a browser navigates to and the provisional password it
keeps for the next one.

Read-only services and screens change no state. The HTTP layer, configuration, logging, the
transport of mail and the append-only audit trail carry no decision the properties depend on. The
fit of a model is numeric code. Schema migrations, infrastructure and the monitoring stack are
declarative.
