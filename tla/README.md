# Hatchway in TLA+

A model of the Hatchway tunnel server and its client, checked with TLC and
proved with TLAPS. Paths below are relative to the repository.

Hatchway hands out tunnels: a client asks the API server for one, starts `frpc`
with the credential it is given, `frps` asks the server whether to accept it,
and Caddy asks the server whether to let a visitor through. PostgreSQL holds all
state that must survive; everything else is goroutines, retries and timeouts
around it.

## Inventory

| part | code | state | operations | what must hold |
|---|---|---|---|---|
| tunnel store | `internal/server/tunnels` (`handlers.go`, `lifecycle.go`) | rows of `tunnels`, `tunnel_runtime_tokens`, `tunnel_events`; row and advisory locks | create, delete, admin revoke, `Transition`, `Revoke`, `reapExpired` | quota, terminal statuses stay, deletes are final, the event log is the history, no lock is waited for in vain, every tunnel ends |
| idempotency | `internal/server/api/idempotency.go`, `sweepIdempotencyKeys` | rows of `idempotency_keys` | reserve, replay, complete (in the create transaction or after the handler), release, sweep | one tunnel per key, a committed create can be replayed, no key is in flight for ever |
| plugin and gate | `internal/server/plugin` | none of its own: the rows, frps's sessions and routes | Login, NewProxy, CloseProxy, NewUserConn, `forward_auth` | no traffic after the end, live registrations are let through, sessions are confined to their tunnel |
| rate limiter | `internal/server/api/ratelimit.go` | a map of token buckets | `Allow`, `cleanupStale` | the burst plus the rate, whatever the cleanup drops |
| authentication | `internal/server/api/auth.go`, `router.go`, `internal/server/plugin`, `internal/tokens` | `api_tokens`, `tunnel_runtime_tokens`, the channel of legacy slots | authenticate, revoke | Argon2 is bounded, slots come back, every answer is right for the token presented, but for a verdict of the plugin |
| client command | `internal/cli/client.go`, `internal/cli/commands/client.go` | the loop of `httpCmd`, an idempotency key, frpc | create with retries, supervise, signals, deferred delete | one tunnel, deleted at the end, and the command ends |
| subprocess | `internal/frp/process.go` | `running`, `run`, the process, its goroutine | `Start`, `Stop`, `Wait`, `RestartWithBackoff` | one process, a stop hits the run it saw and returns |
| server command | `internal/cli/commands/server.go`, `StartServer` | context, two listeners, pool, frps | run, drain, shut down | every exit drains, unless a signal follows the end of frps, and leaves no frps; success means a signal; it ends |
| administration | `commands/server.go` | `users`, `api_tokens` | init, users, tokens | one bootstrap |
| sweepers | `lifecycle.go:280-349` | old rows | delete by age | nothing still needed is deleted |
| listing | `handlers.go:272-390`, `client.go:145-203` | a cursor | pages, retries | each tunnel at most once, none missing that was there at the start |
| credential file | `internal/cli/credentials.go` | one file | read, replace, delete | the file is one whole credential, also after a kill or a power cut |
| configuration, migrations, metrics, health, logging | `internal/config`, `internal/db`, `api/metrics.go`, `api/health.go` | none a decision depends on | | |

How they meet: the API handlers run behind authentication, the idempotency
middleware and, for creates, the limiter; the create completes its idempotency
row inside its own transaction; callbacks of frps, deletes and the reaper write
the same tunnel rows; the gate and frps read them; the client retries against
the middleware and deletes through the API at its end.

The hard behaviours are the interleavings of READ COMMITTED transactions, a
COMMIT whose outcome the server never learns, crashes between a commit and its
answer, retries that overlap the request they repeat, callbacks that come late,
twice or never, work that cannot be cancelled, and signals at bad moments.
`PROJECT.json` lists them under "hazards" at their lines, with the properties
that would catch each, and the hazards that no property covers yet.

## Modules

    TunnelLifecycle   <-- implemented by --  TunnelStore
          ^ INSTANCE, proved
      DataPlane
    Reservations      <-- implemented by --  Idempotency
          ^------ the server of -----------  ClientRun
    TokenBucket       <-- implemented by --  RateLimiter
    FrpProcess        <-- composed into ---  ServerRun
                                             TokenAuth, Listing, CredentialFile

Each has a `...Proofs` module beside it; that of the client's three, `ClientRun`,
`Listing` and `CredentialFile`, is `ClientProofs`.

**TunnelLifecycle** is what the store promises: each operation one atomic step
on `status`, `owner`, `token` of a tunnel.

**TunnelStore** is what the server does. A request is a process whose `pc` is
the statement it executes next; a statement sees what is committed when it runs.
`rowLock` and `userLock` are the row lock of `FOR UPDATE`/`UPDATE`/`INSERT` and
the advisory lock of a user; they are held until `COMMIT` or `ROLLBACK`. Since
the writes of an open transaction are seen by nobody, they are made in the step
of its `COMMIT`. The correspondence:

| code | actions |
|---|---|
| `CreateTunnel` (`handlers.go:69-265`) | `CreateTunnel`, `TakeQuotaLock`, `CheckQuota`, `PickCandidate`, `InsertCandidate`, `CommitCreate` |
| `handleNewProxy`, `Transition` | `NewProxy`, `LookupRuntimeToken`, `LockRow`, `CheckClock`, `ApplyTransition` |
| `handleCloseProxy`, `Transition` | `CloseProxy`, `ReadStatus`, `LockRow`, `ApplyTransition` |
| `DeleteTunnel`, `AdminRevokeTunnel`, `Revoke` | `Delete`, `LockRow` or `NotFound`, `ApplyRevoke` |
| `reapExpired` | `ReapBegin`, `ReapScan`, `ReapRow`, `ReapCommit`, `ReapFail` |
| any SQL error, deadline, lost client | `Fail`; `Commit` may also answer "unknown" |
| the server dies | `Crash` |

`stamp` is the time a statement was sent or a lock was granted, `seen` the
status read under the lock, `trail` the rows of `tunnel_events` of a tunnel.

**Reservations** is what a key promises: a reservation, the create with its
stored response, a release and the end of the retention are one atomic step each
on `state`, `response`, `since` of a key and the set of `effects`.

**Idempotency** puts several attempts under one key through
`handleIdempotentRequest`. `row` is the row of a key, `rowLock` the create
transaction that has written it, `limbo` the commits PostgreSQL has not decided
although their server has given up, `began` the time of a reservation, `late`
the attempts that were still at work when their retention was over.
`CompleteInTransaction`, `CommitTunnel`, `CommitUnknown` and `ResolveLimbo` are
the create handler; `OtherHandler` stands for every mutation whose response is
completed by the middleware.

**DataPlane** composes the rows of `TunnelLifecycle` (by `INSTANCE`, so a
`Transition` is one step here, which `TunnelStore` justifies) with frps, frpc
and Caddy as external parts: sessions with any credential, name and subdomain,
a route table, `CloseProxy` callbacks that are late or lost, visitors that pass
the gate before they are forwarded.

**TokenBucket** is one bucket per caller, filled at every tick and never
forgotten. **RateLimiter** is the map of `ratelimit.go`: buckets made on
demand, filled lazily and dropped by a cleanup any caller's request starts.

**ClientRun** is one `hatchway http`: the two nested retry loops of the create
against a server that is slow or fails and a network that loses or truncates
answers, then the supervision of frpc, signals, and the deferred delete. The
server takes the steps of `Reservations` on the key: it reserves, commits the
tunnel with the stored response, or releases. It may also fail without a release,
which leaves the key reserved, and answer 500 for a COMMIT that is decided later.
The client does not retry a 500.

**TokenAuth** is `authenticateRequest` of the API and `lookupRuntimeToken` of the
plugin: the query for a prefix, the pass over current hashes, the pass over
legacy hashes, the slots of `withLegacyVerifySlot`, which both share, and the
workers that outlive their caller. Each has a table of its own (`Rows`), and its
own verdict on a lookup that came to nothing: `Abort` is "unavailable" from the
API and "invalid credentials" from the plugin, `TimesOut` is the `PluginTimeout`
of a callback, which the plugin calls unavailable. A row may be revoked between
any two steps.

**FrpProcess** is `Process` with its mutex sections as steps, concurrent
callers, the reaping goroutine of each run, and a process that may ignore
SIGINT.

**ServerRun** is `hatchway server run`. `main` is the statement of the main
goroutine, through every return and its deferred calls, in external mode (it is
in `StartServer` itself) and in subprocess mode (it selects over `StartServer`,
the end of frps and the context). `server`, `deadline` and `request` are
`StartServer`, its `shutdownCtx` and the requests it drains; `background` is a
pass of the reaper or a sweeper; `pool` waits for the connections they hold.
frps is the `FrpProcess` of this module's `INSTANCE`, with the starting call,
the waiting goroutine and the stopping call as its callers.

**Listing** is `hatchway list`: the pages of `ListTunnels`, keyed on creation
time and id, and `ListTunnelsCtx` with its retries, while transactions that took
their `now()` earlier commit behind the cursor.

**CredentialFile** is the file of `hatchway auth`: `WriteCredentials` as create,
write, fsync and rename, `DeleteCredentials`, and `ReadCredentials` with its two
looks at the path; any command may be killed, and a power cut keeps of a file
what was synced.

The `MC*` modules add symmetry sets for TLC. Definitions named `Mutant...`
stand next to the definition they would replace: each is a plausible bug under
which a property listed in `PROJECT.json` fails. No specification uses them.

## Runs

| run | states | what it shows |
|---|---|---|
| `store` | 1.6M | four requests of any kind and the reaper interleave statement by statement on two rows and the quota of one user: `QuotaRespected`, `CreatesAreDistinct`, `TerminalAbsorbing`, `DeleteIsFinal`, `AcceptedProxyWasLive`, `TrailIsTheHistory` |
| `store_liveness` | 104k | two requests of two users with a crash or a failed pass: the transactions implement `TunnelLifecycle` (`ImplementsLifecycle`), no wait for a lock is for ever (`EveryRequestIsAnswered`), every tunnel ends (`EveryTunnelEnds`) |
| `idempotency` | 952k | three overlapping attempts under one key, with a crash, unknown commits and handlers that outlive the retention: `NeverBothRun`, `ReplayMatchesRequest`, `CreatedIsCommitted`, `OneTunnelPerKey`, `CommittedIsReplayable`, `NoKeyIsStranded`, and the refinement of `Reservations` (`ImplementsReservations`) |
| `data_plane` | 997k | two sessions, two tunnels, one visitor, restarts of frps: `NoVisitAfterTheEnd`, `RegisteredIsAdmitted`, `SessionsAreConfined` |
| `rate_limiter` | 83k | two callers over two and a half minutes and two cleanups: `WindowBound`, and the refinement of `TokenBucket` |
| `client_run` | 171k | the retry and restart limits of the code, a server that fails at any statement, two signals: `AtMostOneTunnel`, `ExitCleansUp`, `TheRunEnds` |
| `client_signals` | | finding: see below |
| `token_auth` | 704k | a request to the API and a callback of frps for one slot, a current and one or two legacy tokens of each kind with one prefix, revocations, failures: `WorkersBounded`, `AnswersAreRight`, `CurrentNeedsNoSlot`, `SlotsComeBack` |
| `frp_process` | 30k | three calls, three processes: `OneProcess`, `StopHitsItsRun`, `StoppedIsDead`, `StopReturns` |
| `server_run` | 45k | both modes, two requests, two signals, any failure: `DrainIsRespected`, `NothingIsLeftBehind`, `TheCommandEnds` |
| `listing` | 394k | four tunnels of two users, pages of one: `NewestFirst`, `ListingIsComplete`, `ListingEnds` |
| `credential_file` | 21k | two writers, a logout, two readers, one power cut: `FileIsWhole`, `OnlyLogoutFailsARead` |

The type invariants (`TypeOK`) are no properties of a run: they are proved, each
as the first conjunct of an inductive invariant. Those of `Listing` and
`CredentialFile` (`ListTypeOK`, `FileTypeOK`) stand in `ClientProofs`.

### Bounds, and why they are enough

* `MaxClock` stops the clock. TTLs and retentions are one or two ticks, so a
  tunnel or key lives, reaches its last instant, and is past it; the models
  compare times only with one TTL or one retention. In `TunnelStore` a create
  starts only when its tunnel can still elapse before the end, so that
  `EveryTunnelEnds` is about every tunnel; `NoKeyIsStranded` is about the keys
  whose retention the clock reaches.
* A request, attempt, session, visitor or call is used once. Two of a kind are
  enough for every pairwise race; the store has four requests so that a create,
  a callback, a close and a delete overlap on one row, or a third create uses
  what a second frees.
* One crash or failed pass (`MaxFaults`, `MaxCrashes`) or power cut: after it
  the state is that of a fresh process over what is stored, from which more of
  them start again. The run `store` has none, since `store_liveness` has.
* `MaxConcurrent = 1` in the store: a quota of one is what two creates exceed.
  The theorem is for every quota. In `store` all creates happen at clock 0, for
  the sake of four requests; that an elapsed tunnel frees its place for a later
  create rests on `QuotaIsRespected`, which is for any clock.
* `tries = 3`, `MaxAttempts`, `MaxDecodes` and `MaxRestarts` are the constants
  of the code.
* `MaxRuns = 3` in `FrpProcess`: a run that is stopped, the one started
  meanwhile, and one after both. `ServerRun` starts frps once, as the command
  does.
* `Limit = 1` in `Listing`: every row is the end of a page. Two creations share
  a time because the clock has two values for four tunnels.
* Deadlock is checked in the store, where a wait for a lock must never close a
  cycle: `ReapBegin` is always possible there, so the liveness run with its
  fairness per request is the stronger check. The other models stop when every
  request is served and time is over, so their configurations allow it.

### Fairness

* `TunnelStore`: weak fairness of every handler's steps (goroutines run, and
  PostgreSQL answers), of the reaper's (`time.NewTicker` in `StartReaper`) and
  of the clock. Arrivals, failures and crashes are not fair. Weak fairness of a
  step that waits for a lock is enough because finitely many requests ask.
* `Idempotency`: of the server, of PostgreSQL deciding a commit in limbo, of
  the hourly sweeper and of the clock.
* `ClientRun`: of the command and of the server. frpc may run for ever.
* `TokenAuth`: of the requests and of the workers; Argon2 ends.
* `FrpProcess`: of goroutines and timeouts, and a process that was killed ends;
  one that was only interrupted need not.
* `ServerRun`: of the goroutines of the command, of the timeout of the drain,
  of a handler that holds a connection (its queries have deadlines) and of a
  pass of the reaper; a request that holds none may hang for ever, and frps
  ends only once it is killed.
* `Listing`: of the client and the answers it gets, or does not get, in time.

## Findings

* `client_signals`. `httpCmd` says that "any exit tears down the reservation"
  (`commands/client.go:184-186`, `DESIGN.md:252-254`), signals included. The
  signals are asked for at line 225, after the create has returned and the
  delete was deferred, and `signal.Stop` runs before the deferred delete. A
  signal in either stretch ends the process at once, and the tunnel keeps its
  quota slot until it expires.

Not findings, but worth knowing:

* `docs/cli.md:210-211` promises requests up to 30 seconds to drain after SIGINT
  or SIGTERM. When frps ends by itself, `cancel()` (`commands/server.go:301`) also
  ends the handling of signals, so a signal during the drain that follows ends the
  process, and the requests with it. `DrainIsRespected` exempts exactly this case,
  in the model `main = "killed"` with `frpsFailed`; without the exemption TLC finds
  it: `FrpsEnded`, then `Signal`.
* The plugin answers "invalid credentials" for a valid credential when its query
  fails, or when frps gives the callback up (`plugin/handler.go:426-432`). The API
  answers 503. `docs/security.md:58-62` promises "temporarily unavailable" for
  saturated slots only, and that holds of both; `AnswersAreRight` exempts a callback
  that was aborted, and nothing else.
* The "10 creates/minute" of `README.md:100` is a bucket of ten that refills
  while it is drained: nearly twice as many pass within the first minute.
  `WindowBound` states what holds, and it is proved for every rate.
* `sweepIdempotencyKeys` also deletes rows in flight. An attempt that outlives
  the retention of its key (an hour at least, against a write timeout of
  seconds, the argument at `idempotency.go:207-209`) may then run beside its
  successor, release or complete the successor's reservation, and commit a
  second tunnel. `NeverBothRun` and `OneTunnelPerKey` exempt exactly those
  attempts; `CommittedIsReplayable` needs no exemption.
* `server init` counts the users in one statement and inserts in a later
  transaction (`commands/server.go:149`): two that run at once with different
  emails both succeed. Nothing of the program relies on there being one.
* `ReadCredentials` promises nil for a missing file, and gives an error when a
  logout removes the file between its two looks at it. This is the only way a
  reader fails: `OnlyLogoutFailsARead`.
* A tunnel whose transaction began before a page was read and commits after it
  is listed by no later page. `ListingIsComplete` is about what was there when
  the listing began.

## Proofs

Eight modules hold theorems. Every invariant, action property and refinement that
a passing run checks on its small instance is proved for all values of the
constants. Each proof follows one plan: an inductive invariant `IInv` (`LockInv`
and what is built on it in the store), a lemma for the initial state, one for
each step, and theorems that draw the properties from it. Liveness cannot be
proved here; for each liveness property there is a theorem about what it needs
besides fairness (last section).

**TunnelStoreProofs** (any tunnels, finitely many; any users, requests, limits
and number of faults).

* `TypeCorrect`, `LockDiscipline`: `Spec => []LockInv`. `TypeOK` alone says
  nothing of a transaction between two statements. `LockInv` says that a request
  past the statement that takes a lock still holds it (`Locked`), that the
  status it has read under that lock is still stored, and that the rows in the
  reaper's `reapDone` are locked by it and not terminal (`ReaperLocked`). A step
  of one request leaves what another one has locked alone (`Undisturbed`), so
  each action needs an argument for its own request only.
* `TerminalIsAbsorbing`: `LockInv` makes the status a transition or revoke was
  decided on the one it overwrites, and that one was not terminal.
* `QuotaIsRespected`: with `Counted`, that a create which has passed the count
  and still holds the advisory lock finds fewer than `MaxConcurrent` consuming
  tunnels of its user, since all that others can do meanwhile is end some.
* `StoreImplementsLifecycle`: every step is a step of `TunnelLifecycle` or a
  stutter; only the commits are steps.
* `TrailIsComplete`: by `RowSteps`, a step leaves a row alone, inserts it, moves
  it along `validTransitions` with the event, or kills the credential of a row
  that is over.
* `ProxiesAreLive`, `DeletesAreFinal`, `IdsAreDistinct`, from `AnswersStayTrue`:
  what an accepted call was promised (`Promise`) holds when it commits, and
  rows only change in ways that keep it (`RowsLast`).
* `NoLockIsLeaked`: the converse of `LockInv`. Whoever holds a row or advisory
  lock is past the statement that takes it and has not ended, whichever error
  path, lost commit or crash it took.
* `NoCyclicWait`: every wait is for a request that is further on in the order
  advisory lock, row. The reaper, which takes many rows, waits only for requests
  that wait for nobody. `RequestsRunOutOfSteps`: a request has ten steps at most
  and no other lengthens what it has left.
* `LifetimesAreBounded`, `PassesAreThorough`: a tunnel is never more than
  `MaxTTL` from its end, and a pass of the reaper that commits has ended all
  that had elapsed at its scan, but for creates that commit too late for it.

**IdempotencyProofs** (any attempts, keys, bodies, crashes, retention):
`KeysAreHonoured`, `CommitsAreReplayable`, `HandlersAreExclusive`,
`ReplaysAreFaithful`, `SuccessIsCommitted`. The invariant ties an attempt to the
row of its key: `LockInv` (the create that has written the row holds it until
PostgreSQL has decided), `AgeInv` (a row is no older than any attempt under its
key that began), `WindowInv` (an attempt at work under a key with a commit
finds the completed row as long as its retention lasts, or began after the
commit's was over), `ExclusiveInv` (a reservation is that of the one attempt at
work under it) and `ResponseInv` (what a stored response stands for happened).
`MiddlewareKeepsReservations` is the refinement: a statement that writes a row,
and a COMMIT when PostgreSQL decides it, is a step of `Reservations`, and nothing
else changes one. `ReservationsCannotLast`: nobody renews a reservation in
flight, its row is locked only by a commit that is to be decided, and an attempt
takes five steps.

**DataPlaneProofs** (any sessions, visitors, tunnels, TTLs): `EndIsRespected`,
`RoutesAreOpen`, `Confinement`, and `RowsFollowLifecycle`: the rows of this
composition behave as `TunnelLifecycle`, which `StoreImplementsLifecycle` shows
of the transactions. The invariant says that what frps has accepted, routes or
reports for a session is the tunnel of its credential.

**RateLimiterProofs** (any callers, rate and minute; cleanup not shorter than a
minute): `NobodyBeatsTheRate` from `Credit`, that what was spent since an
instant and what is left has flowed in since then or was there; and
`ForgettingIsInvisible`, the refinement of `TokenBucket`, because a bucket that
is dropped would be full (`StaleIsFull`).

**ClientProofs** (any limits of the loops; any files, commands and power cuts;
any tunnels, finitely many, users and page size).

* `RetriesAreIdempotent`, `ExitIsClean`: the reservation of the key stands
  between two runs of the handler (`KeyInv`).
* `ServerIsReservations`: in every reachable state the server of this model can
  take each step by which `Reservations` lets a create reserve, complete or release
  its key (`Allowed`), and it changes the key by no other. So whatever
  `MiddlewareKeepsReservations` allows the real server to do to the key of a create,
  the client is checked against it; a server that only refused would not satisfy
  the theorem. Two steps of `Reservations` are not in `Allowed`. `Complete` is that
  of other mutations. `Expire` needs the retention to pass, which is an hour at
  least (`config.go:169`), while the six requests of a create, of 30 seconds each
  with waits of five seconds at most, are over in four minutes.
* `CommandRunsOutOfSteps`: with `b = MaxAttempts * MaxDecodes`, `hatchway http`
  takes at most `3b + 3 * MaxRestarts + 4` steps of its own.
* `TheFileIsWhole`, `OnlyLogoutFails`: `FileInv` says that what the path names,
  in memory or on the disk, is whole and synced and its writer has nothing left
  to do to it, and that a reader whose file is gone has met a logout.
* `ListedNewestFirst`, `ListedIsComplete`: `ListInv` says that what was listed is
  a prefix, in the order of the rows, of what the user had when it began, with
  what a page has read lying beyond it and all earlier rows accounted for.
* `ListingsRunOutOfRequests`: the requests a listing has still to send are
  bounded by the tunnels beyond its cursor, and the creates that go on meanwhile
  add nothing.

**TokenAuthProofs** (any tokens, finitely many of them legacy; finitely many
requests; any slots): `BoundedWorkers`, `CurrentPassesBy`, `Verdicts`.
`NotMissed` says that the live token a request has presented is among those it
has still to try; `WorkerInv` that the messages in the channel count the workers.
`Verdicts` is for both callers, any number of each: "invalid" is said of a token
that was revoked or never was one, or by the plugin of a lookup that was aborted.
`SlotsDrain`: a request takes three steps per legacy token and three more, and
full slots have a free one after `2 * Slots` steps of the workers.

**FrpProcessProofs** (any callers, any number of runs): `AtMostOneProcess`,
`StopIsAimed`, `StopIsFinal`. `RunInv` ties the flag to the goroutine that
waits for the process. `StopsEnd`: a `Stop` waits for six steps at most, its own
and those of its run, and until it has returned one of them is possible.

**ServerRunProofs** (any requests and signals): `CommandRunsFrpProcess`, that
the command is a legal client of `FrpProcess`, so that its invariant is
available here through an instance of `FrpProcessProofs`; from it and the
command's own invariant `RequestsAreDrained`, `CleanExit`, `FailuresAreReported`.
For `RequestsAreDrained` the invariant says that no signal can kill the command
while its servers drain unless frps has ended by itself (`HttpInv`).
`CommandRunsOutOfSteps`: 29 steps, and once the command is to end some goroutine
can always move, so that no shutdown waits in a circle.

The assumptions are those named in the modules: positive limits, finite sets
where something is counted, names for `None` and the like that are nothing
else, and in `RateLimiter` a cleanup of at least a minute, which the code has.

### Only model-checked

The liveness properties: fairness and `ENABLED` are out of the prover's reach.
What is proved is the part of the argument that the code could get wrong, as
safety; what TLC adds is that weak fairness makes the steps happen.

| liveness | what is proved of it |
|---|---|
| `EveryRequestIsAnswered` | `RequestsRunOutOfSteps`, `NoCyclicWait`, `NoLockIsLeaked` |
| `EveryTunnelEnds` | `LifetimesAreBounded`, `PassesAreThorough` |
| `NoKeyIsStranded` | `ReservationsCannotLast` |
| `TheRunEnds` | `ClientProofs!CommandRunsOutOfSteps` |
| `ListingEnds` | `ListingsRunOutOfRequests` |
| `SlotsComeBack` | `SlotsDrain` |
| `StopReturns` | `StopsEnd` |
| `TheCommandEnds` | `ServerRunProofs!CommandRunsOutOfSteps` |

## Not modelled

* Configuration, migrations, metrics, health and logging: they keep no state
  that a decision of the program reads.
* Hashing, minting and encryption: abstracted to whether a row is the one of
  the presented token, and a stored response to the attempt it answers.
* Text: hosts, ids, cursors, TTL strings and JSON bodies are members of small
  sets.
* frps, frpc, Caddy and PostgreSQL beyond what the code presumes of them; they
  are marked external in the map of `PROJECT.json`.
* `emitConnEvent`, and `sweepExpiredEvents` and `sweepRuntimeTokens`, which
  delete by age what no decision of the program reads any more.
* `server init`, user and token creation: single statements, or a count and an
  insert by hand at installation.

## Plan

Done: the lifecycle and store, idempotency, the data plane, the rate limiter,
authentication, the client, subprocesses, the server command, the listing and
the credential file, with every safety property of the runs proved and the
variants of the liveness properties. What could follow:

1. A bound on how often a row lock of the store may change hands before a given
   request gets it, as a number in the requests that are under way.
2. `server init` and token administration, if anything comes to rely on there
   being one administrator.
