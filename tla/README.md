# A TLA+ model of gopublic

gopublic exposes a service on a developer's machine under a public host name.
A client (`gopublic start`) keeps one yamux session to the server's control
plane; the server's ingress looks up the host of each public request, opens a
stream on that session and copies. Users own host names, have a daily
bandwidth quota, and sign in to a dashboard with Yandex, with Telegram's widget
or through a Telegram bot. This directory models the parts of that program
whose correctness depends on the order of things, checks them with TLC on small
instances, and proves the main safety results with TLAPS for every instance.

All paths below are relative to the repository root; `PROJECT.json` maps each
definition to the lines it models.

## 1. Inventory

| component | source | state | operations | hard because |
|---|---|---|---|---|
| control plane | `internal/server/server.go` | listener, semaphore, WaitGroup, context; per connection a handshake goroutine and a monitor goroutine | `Start`, `handleConnection`, `monitorSession`, `Shutdown` | every connection is two goroutines; takeovers change other connections' entries; cleanup is by key |
| registries | `internal/server/registry.go`, `user_sessions.go` | host -> session; user -> session | `Register`, `Unregister`, `GetEntry`, `GetSession` | each method is atomic, the sequences of them are not |
| bandwidth store | `internal/storage/db.go` | a row per user and day | `ConsumeUserBandwidthWithinLimit` | two SQL statements without a transaction, retried |
| ingress | `internal/ingress/ingress.go` | per request a goroutine (three when upgraded), `quotaNotifiedAt` | `proxyToTunnel`, `bandwidthChargingWriter.Write`, `maybeNotifyBandwidthExceeded` | one counter charged by all requests, two copies that must end together, fail-open |
| accounts | `internal/storage/db.go`, `internal/dashboard/handler.go`, `internal/auth/*.go` | users, tokens, domains; session cookies | sign in three ways, link, register, accept the terms, replace the token, log out | find-then-create, find-then-link and whole-row saves in separate statements, with downloads in between |
| bot login | `internal/telegram/*.go`, `internal/dashboard/handler.go` | pending logins, the position in Telegram's updates | `Create`, `Approve`, `Reject`, `Consume`, the poll, `StartPolling` | a browser, a person and the bot; a TTL; updates delivered again; a shared pointer |
| client, one port | `internal/client/tunnel/tunnel.go`, `reconnect.go` | `closed`, `session`, `activeConns`, `wg`; attempt and delay | `StartWithReconnect`, `handleSession`, `Shutdown` | cancellation at any step; the server's view lags behind |
| stream proxy | same, and `shared.go` | two connections and up to three goroutines per stream | `proxyStream`, `copyBidirectional...` | ends from either side, half-close, leaks |
| client, project file | `shared.go`, `manager.go` | session, attempt and delay | `StartAll`, `StartWithReconnect`, `handleSession` | its own way to stop and to retry |
| terminal UI and event bus | `internal/client/tui/tui.go`, `internal/client/events/events.go` | a bounded channel; status and tunnels on the screen | `Publish`, `Subscribe`, `waitForEvent`, `Update`, quit | events dropped when full; the UI subscribes late; two goroutines end each other |
| lock file and updater | `internal/client/config/lock.go`, `internal/client/updater/updater.go` | a file with a PID; the executable; the release's assets | acquire, force, release; check, download, verify, install | several processes, killed anywhere; assets that change between downloads |
| the rest | dashboard pages, inspector, rate limiters, configuration, health, metrics, logging, avatars, errors | | | input, output and rendering, or code without callers |

How they interact: the control plane writes the registries, the ingress reads
them and opens streams on the sessions it finds; the ingress charges the store;
a client's runner talks to the control plane and its stream goroutines to the
ingress's streams; the runner publishes events which the terminal UI shows; the
bot approves logins which polls turn into requests of the dashboard, which
writes the users and tokens the control plane authenticates.

What makes each correct:

- control plane: no entry outlives its session, no host leads to another
  user's session, one session per user, the gauge and the semaphore count what
  they say, shutdown ends;
- store: each call is decided as if in one step, the limit is never passed, a
  denial is deserved;
- ingress: nothing but the heads of plain answers is forwarded before it is
  charged, the two directions of a connection end together;
- accounts: a session belongs to whoever proved the identity (but for the one
  account of Yandex answers without an id), an identity to one account, an
  account is whole;
- bot login: an approval is used once, no button press is lost, entries expire;
- clients: one live session, streams are waited for, cancelling stops, losing
  the connection does not;
- terminal UI: while the client tries, the screen says what the tunnel is;
  quitting ends the program;
- lock and updater: the lock names the running client, and whatever is
  installed is whole and of one release.

## 2. Modules

| module | models | composed from |
|---|---|---|
| `RouteDirectory` | abstract: what the control plane promises to the ingress | |
| `ControlPlane` | server.go, registry.go, user_sessions.go | implements `RouteDirectory` |
| `DailyQuota` | abstract: a charge decided in one step | |
| `BandwidthStore` | the SQL loop | implements `DailyQuota` |
| `IngressProxy` | proxied requests | `INSTANCE BandwidthStore` |
| `ClientProxy` | the client's end of a stream | |
| `TunnelClient` | reconnecting client of one port | `INSTANCE ClientProxy` |
| `SharedTunnelClient` | reconnecting client of a project file | |
| `ClientUI` | that client under its terminal UI, with the event bus | extends `SharedTunnelClient` |
| `ClientHost` | the clients of one machine: lock file, executable | |
| `Accounts` | users, tokens, domains and the dashboard's requests about them | |
| `Login` | pending logins, polls and the bot | extends `Accounts` |
| `MC*` | constants, initial state and symmetry for TLC | |
| `*Proofs` | theorems about the module of that name (`LoginProofs`: about `Accounts` and `Login`) | extend it; `IngressProxyProofs` and `TunnelClientProofs` also instantiate the proofs of the component they contain |

`ClientUI` and `ClientHost` have no `MC` module: their constants are literals.
Operators under a comment "Mutation: ..." are faulty variants of the definition
that follows; nothing uses them. Each shows, put in the place of that
definition, that a property of the runs would notice the fault.

### ControlPlane

A step is a stretch of one goroutine that touches shared state once. `loop`,
`accepting`, `slots`, `wg` and `shutdown` are the accept loop and `Shutdown`;
`pc[s]` is where the handshake goroutine of connection `s` stands, one value
per step of `handleConnection`; `mon[s]` is its monitor goroutine. `old[s]` is
`existingSession`, `bound[s]` is `boundDomains`, and `todo[s]` the part of a
`for` loop over domains still to visit, so that the loop can be interrupted
between any two registry calls. `routes` and `userSessions` are the two maps,
`activeTunnels` the gauge.

| action | code |
|---|---|
| `LoopTop`, `Accept`, `AcceptClosed`, `AcceptError`, `Spawn`, `SlotCancelled` | `Server.Start` |
| `SetupYamuxSession`, `Authenticate` | the functions of these names; every way they fail ends the connection |
| `CheckUser` | `UserSessions.GetSession` and the three ways on |
| `EvictDomain`, `EvictSession`, `EvictUser` | the takeover |
| `ProcessTunnelRequest`, `BindDomain`, `BindDone` | `processTunnelRequest`, one `bindDomains` round per step |
| `RegisterUser`, `Respond`, `HandlerExit` | steps 5 to 7 and the deferred functions |
| `MonitorWakes`, `MonitorUnroute`, `MonitorUnregister` | `monitorSession` |
| `ShutdownCancel`, `ShutdownCloseListener`, `ShutdownReturns` | `Shutdown` |
| `Dial`, `PeerCloses` | clients and the network |

Loops over domains visit them in any order, which includes the code's. Sending
on a closed session is lost silently, as the code ignores or only logs the
error. A panic in a handshake is not a step: no statement of it is known to
panic.

### BandwidthStore and DailyQuota

`Consume` is the call (it reads the day), `Entry` the early returns, `Update`
and `Insert` the two statements, which may fail for the callers in `Failing`;
the read of the usage that accompanies an answer can fail too: with a denial
this makes the call a failure, while a grant with an error stays a grant, as
the bytes are charged and the caller lets them pass either way. The abstract
`DailyQuota` decides a call in one step. `usage` is the row or 0, and a call is
pending until it has an outcome.

### IngressProxy

`handler[r]` is the request's goroutine. `flow[f]` is one direction of one
request; an ordinary request only uses its "down" flow for copying, and its
"up" flow for the reservation that precedes the tunnel. A charge is a call of
`BandwidthStore` by the flow, so all interleavings of the statements of all
flows are there. `closed[r]` is `closeAll`. `forwarded` and `free` are history
variables: bytes written on behalf of a user, and bytes let through uncharged
(exempt users, and the fail-open path), both kept by the day they were charged
to. `Respond` writes the head of a plain response (status line and headers,
`HeaderSize` bytes) past the charging writer: it is forwarded and charged to
nobody. The answer to an upgrade is part of the copied bytes, as in the code.

### ClientProxy, TunnelClient, SharedTunnelClient

`ClientProxy` follows one goroutine per stream through `proxyStream`; `remote`
and `local` are the ends it sees. `TunnelClient` adds the runner
(`StartWithReconnect`, `Start`, `handleSession`) and `Shutdown`; a session that
closes takes its streams with it. The server is reduced to `held`: for whom it
has the user registered, the answer `ControlPlane` gives being `success` when
nobody is or with `Force`, and `already_connected` otherwise. `stale` is the
interesting value: the client has lost a session the server still believes in.
`SharedTunnelClient` is the same for `SharedTunnel`, where a goroutine per
session waits for the context and no flag is involved.

### ClientUI

| action | code |
|---|---|
| `TopPublishes`, `ReadReplyPublishes`, `PublishNext` | the runner's steps that publish, and `Publish`, one event per step |
| `TunnelStep` | every other step of the runner; it waits until its events are out |
| `Chatter` | logs, stages and requests, from any goroutine |
| `NewModel`, `waitForEvent`, `Update`, `Rearm` | the functions of these names; an event in `wait` is a message bubbletea has not delivered yet |
| `Quit`, `Exit` | a key or a signal, and the end of `runWithTUI` |

`queue` is the subscriber's channel, at most `BufferSize` long; `missed` is a
history variable: the events of the current attempt that found no room, or no
subscriber.

### ClientHost

`at[p]` is where process `p` stands in `runStart`. `lock` is the file: its
identity (a new one after every removal, so that a writer can hold one that is
unlinked) and its content, which is empty between the truncation and the write.
A dead process is one that is `off` or `gone`; each PID is given once.

| action | code |
|---|---|
| `ReadLock`, `RemoveStale`, `OpenLock`, `FillLock` | `AcquireLock`, `readLockFile`, `isProcessRunning`, `writeLockFile` |
| `ForceReleaseLock` | the function, and the second `AcquireLock` of `--force` |
| `ReleaseLock`, `UnlinkOwn` | `ReleaseLock`: the look and the removal |
| `Die` | a kill, or `os.Exit` |
| `CheckForUpdate`, `PressU` | the check at the start and the key |
| `DownloadChecksums`, `DownloadSignature`, `DownloadBinary`, `DownloadFails` | `PerformUpdate` and its downloads with retries |
| `CreateTemp`, `PrepareTemp`, `Rename`, `OpenExe`, `WriteExe` | the temporary file and `installUnix`, with `copyFile` as its fallback |
| `Upload` | the release changes, one asset at a time |

### Accounts and Login

A request is a goroutine of `Accounts`: `req[r]` has the place where it stands,
what it is, the cookie it came with (`own`, where the first step looks at it),
the identity it brings (`ident`), and the record in memory (`user`, `row`) that
a later save writes back as a whole. `Form` lists what browsers send: a kind of
request and an identity. `Blank` is the empty Yandex id, which both handlers
take from an answer that names nobody; it is an identity like any other, except
that nobody has proved to be it. `vouched` and `owned` are history variables.

| action | code |
|---|---|
| `Send` | the checks that need no database, then one of the handlers |
| `ReadSession`, `Find`, `Check` | `getUserFromSession`, `GetUserByTelegramID`, `GetUserByYandexID` |
| `CreateUser` | `CreateUserWithTokenAndDomains`, one transaction |
| `Link` | `LinkTelegramAccount`, `LinkYandexAccount` |
| `SavePortrait`, `SaveUser` | `UpdateUser` after an avatar was fetched |
| `SetTerms`, `ReplaceToken` | `AcceptTerms`, `RegenerateToken` of the store |
| `Fail` | a failing statement, or a rolled-back transaction |
| `Respond` | the response that sets or clears the cookie, which may be lost |
| `Crash` | the process dies with its requests |

`Login` adds `login` (the objects), `stored` (the keys of the map: an object a
poll has got lives on after its key is gone), the polls and the bot's loop.

| action | code |
|---|---|
| `InitTelegramAuth` (`Create`) | the handler; with a session it becomes a linking |
| `Poll`, `PollTelegramAuth` | the handler up to `Get`, for any browser and any hash, and its switch on the status read through the pointer |
| `Serve` | `handleTelegramLoginFromBot`, `handleTelegramLinkFromBot`, and the dashboard's own requests |
| `getUpdates`, `Handled` | the polling loop: what Telegram drops, what it returns, and the position |
| `handleAuthStart`, `FetchPhoto`, `handleAuthApprove`, `handleAuthReject` | `handleUpdate` |
| `Age`, `cleanup` | the TTL and the cleaner |
| `Press`, `Restart` | people, and a crash of the server |

The page's timer is not modelled: polls come at any time from any browser, as
the handler serves whoever presents the hash. Whatever proves an identity (the
widget's hash, Yandex's answer, the button in the bot) is a free choice recorded
in `vouched`. For the bot this is, at the hand-over: the browser that presented
the hash has the word of a person who pressed "approve" for it
(`Approvers`). That this person meant that browser is not a result, and nothing
in the code ensures it: the hash is in the link that is opened in Telegram.

## 3. Runs

Passing runs:

| run | instance | shows |
|---|---|---|
| `ControlPlane` | 2 connections, 2 users with a host each, forced and not, 2 slots | no dangling route or user, tenant isolation, the gauge, closed sessions forgotten for good, and the refinement of `RouteDirectory` |
| `ControlPlaneSerial` | 2 connections, 1 user with 2 hosts, no force, 1 slot | with handshakes one at a time an established session keeps its routes and its user has one session; accepted connections are served, shutdown ends |
| `BandwidthStore` | 3 callers, 1 user, sizes 0, 1, 2, 4, limit 3, one midnight, working database | the limit, justified denials, and the refinement of `DailyQuota` |
| `IngressProxy` | an upgraded and a plain request of one user, limit 2 a day, heads of 1, one midnight, failing statements while the plain answer is charged | nothing unpaid but heads, each day's traffic within its quota, directions end together |
| `ClientProxy` | 2 streams | no leaks; a leaving public client is noticed and its stream ends |
| `TunnelClient` | forced and not, 1 stream, a rival client, delays up to 3 | one session, streams waited for, cancelling stops the runner outside one window, a forced client recovers |
| `ClientUI` | 2 tunnels, a buffer of 3, 2 attempts, delays up to 3 | one session, a truthful screen while the client tries, an established tunnel is shown, quitting ends the program |
| `ClientHost` | 2 processes, 1 signed build and damaged assets, 2 tries of a download | what the lock protects, no mixture installed, atomic replacement, updates end |
| `Accounts` | 2 browsers, 2 requests at once of every kind, 2 users, a Telegram identity and answers of Yandex without an id, 2 tokens, an empty database or a registered user of Yandex | sessions are vouched for, one account per identity, accounts are whole |
| `Login` | 2 browsers (one signed in), 1 hash, 1 person, 3 updates, 2 requests, the terms among them, one crash | one-time use, no lost update, entries expire, updates are handled |

Violated runs: each checks one sentence of the repository against the code.

| run | what the code does |
|---|---|
| `ControlPlaneTakeover` | the monitor of a replaced session removes the new session's entries by key (`server.go:432`); "replacing any existing session" (`cli/root.go:84`) |
| `AccountsLostUpdate` | a sign-in reads the row, fetches an avatar and saves every column: terms accepted in between are taken back (`handler.go:334`); "nil if terms not yet accepted" (`models.go:18`) |

The models show more places where the code does something else than a line
beside it says, or than a reader would expect. They follow from one definition
each and have no run. On the server:

- `CheckUser`: two handshakes of a user both pass the check at `server.go:230`;
  "Only one active session per user is allowed" (`user_sessions.go:17`) holds
  with one handshake slot (`OneActiveSession`), not with two;
- `HandlerExit` gives the semaphore's place back when the handshake ends, so
  `MaxConnections` does not limit "concurrent connections" (`server.go:39`);
- the WaitGroup counts handshakes, so `ShutdownReturns` can report "all
  connections closed gracefully" (`server.go:189`) with sessions open, and with
  one handshake still to come: that of the connection the accept loop holds
  while it waits for a place (never more than one: `GracefulLeavesOneHolds`);
- `Respond` forwards the status line and headers of a plain response without
  charging them (`ingress.go:629` to `637`); "bandwidth is consumed during
  streaming; we don't need to count response bytes here" (`ingress.go:549`)
  holds of bodies. `NothingUnpaid` and `TrafficWithinQuota` make room for
  exactly these heads;
- `Insert` reports a failing statement as an exhausted quota ("the row exists
  but we couldn't UPDATE due to limit", `db.go:344`).

In the dashboard and the bot:

- `Send` with `Blank`: the Yandex callback reads the user info without looking
  at its status or at an empty id (`handler.go:743` to `755`). Everyone who gets
  an answer without an id signs in to one account, or is linked as it; the
  UNIQUE index keeps it to one. `YandexTokenAuth` looks at the status
  (`handler.go:892`), not at the id, so an answer 200 without an id does the
  same there;
- `Poll`: the login goes to the first browser that presents the hash once it is
  approved (`handler.go:1128`), also when another one asked for it;
- `handleUpdate` dereferences a sender (`bot.go:249`, `477`) that Telegram may
  leave out, and the position moves only afterwards: such an update would panic
  again after each restart. It calls Telegram and the photo's host without a
  timeout (`bot.go:598`, `721`, `740`, `753`, `775`), so one answer that never
  comes stops the loop;
- `ReadSession`: the Yandex callback takes a failed read of the session for no
  session, and signs in where it was to link; `Check` takes a failed query for
  "not linked", and leaves it to the unique index;
- `SaveUser` can also undo a Yandex link made since the row was read;
- `Reject` ignores the TTL, and the bot confirms a rejection whatever became of
  the login (`bot.go:686`);
- `PollTelegramAuth` consumes the login before the answer is sent: an answer
  that is lost loses the login, and the page finds it expired;
- the status is read through the pointer without the lock (a data race in
  Go's sense); no reading of it does more than a late or early poll;
- the token's row keeps the plain token and the index page shows it on every
  visit (`handler.go:239`); "Plain token shown to user only once"
  (`SPEC.md:26`).

In the client:

- `ShutdownCloses` between the check of `closed` and the registration of the
  session misses the session (`tunnel.go:216`, "shutdown tunnel when
  cancelled", `reconnect.go:35`); `ShutdownStopsRunner` excludes this window;
- `AfterStart`: after a network failure the server's entry of the client's own
  lost session makes an unforced client give up (`reconnect.go:83`,
  "automatically reconnect on connection failure", `SPEC.md:77`);
- `AfterStart` resets the delay only after a shutdown: a lost session is an
  error in `handleSession` and grows it (`reconnect.go:93`, against line 105);
- `CopyDown` never half-closes the remote end, which is not a `*net.TCPConn`
  (`tunnel.go:562`): a service that closes a copied connection goes unnoticed
  until the public client leaves;
- `SharedTunnelClient!SessionEnds` leads to `returned`: a lost session ends the
  loop of a project-file client with success (`shared.go:326`, `622`;
  "automatically reconnect on connection failure", `SPEC.md:77`), and nothing
  tells the screen, which stays "online"; after a conflict, or when the loop
  gives up, it stays "connecting". `EventReconnecting` and `EventDisconnected`
  are not published in this mode. `ScreenFollows` therefore speaks of the time
  in which the client tries (`Trying`), and says nothing of the screen after;
- the UI stays up after the tunnel has ended, and `Quit` cancels only when the
  UI ends;
- single-port mode, not part of `ClientUI`, lists a tunnel again after each
  reconnection (the append in `tui.go`);
- `OpenLock` truncates before `FillLock` writes, and every look at the lock is
  separate from what follows (`lock.go:36`): `raced` marks the behaviours in
  which this matters. `os.Exit(1)` skips `ReleaseLock`; a PID given again to
  another program makes a stale lock look held;
- `OpenExe`: when the temporary file could not be made beside the executable
  and the rename fails, the executable is truncated and copied over, although
  `installUnix` "performs atomic replacement"; a failed update cannot be tried
  again before the client is restarted.

### Bounds

Connections, requests of the ingress and streams occur once each. Two
connections suffice for every race between two handshakes or between a
handshake and a cleanup; three callers are used where a third matters (between
two retries of another). Two hosts of one user make loops of two rounds; two
hosts of two users make foreign requests. `LastDay` bounds midnights,
`MaxChunks` the chunks of a flow: with a limit of 2 units the request and one
direction exhaust it and the other direction meets it. Statements fail for one
flow of the run, the copying of the plain answer (`PlainResponse`); the theorems
allow it for any. Its user is not exempt: the exempt branch of `Charge`, one
assignment, is covered by the theorems only. `MaxAttempts` and
`MaxDelay` are the code's own parameters, small; `AttemptCap` stops a counter
that is only compared with smaller values. The default `MaxAttempts` of the
client is 0 (no bound), as in `TunnelClient`.

`BufferSize` is 3 (100 in the code): a session with two tunnels publishes
"connected" and two names, so the buffer holds exactly one session's events and
any chatter overflows it. `Attempts` is 2 (3 in the code): one failure that is
retried and one that is not. `Build` has one element: a mixture of two signed
builds is caught by the same comparison as a damaged asset, and an asset
uploaded again is one of the two contents at any moment. Requests of `Accounts`
are taken up again when they are done, so two suffice for any two handlers
racing, in any order and number. In `Accounts`, `Form` has every kind; Yandex
answers without an id, and the initial state may have a user who registered
with one (`MCInit`), so that such an account is there to be linked and
protected. That a request brings a second Yandex identity is left to the
theorems: it takes the steps of a Telegram sign-in and of an answer without an
id, and has more than ten times the states. `AccountsLostUpdate` has the two
kinds that matter, and in `Login` the terms join the requests of the bot.
`MaxUpdates` is 3: a `/start` and two buttons; `MaxRestarts` is 1. One person
suffices for the properties of `Login`, which do not compare persons; the
theorems are about any number. The signed-in browser is part of the initial
state (`Registered`): a user who came with Yandex, so that a login can also be
a linking. `LoginProofs` starts from it or from the empty database.

Deadlock is checked in `BandwidthStore`, `ClientHost`, `Accounts` and `Login`;
the other configurations switch it off because a behaviour in which every
connection, request or stream has been used, or the server or client has
stopped, is at its end. Symmetry is used in `BandwidthStore` and `Accounts`
only, where no liveness is checked and the permuted constants are
interchangeable.

### Fairness

Goroutines run: weak fairness on the steps of each. Blocking steps with a
deadline in the code (the handshake on both sides, `Shutdown`'s wait, every
step of an update) belong to these. Blocking steps without one are fair only
once their connection has ended: the copies, `ReadRequest`, the answer of the
local service. Public clients, the network, signals, people and rival clients
owe nothing. Time passes and the cleaner's ticker fires (`LoginFairness`); of
the bot's loop nothing is assumed, as its calls have no timeout. In `ClientUI`
the runner, the session's watcher and the UI's loop run; nobody has to press a
key. Where a property needs more, the assumption is its hypothesis:
`StreamsEnd` assumes a `Polite` local service, one that answers and closes when
told to, `Recovers` a `Reachable` server, that is, by strong fairness, a
network and a server that work again and again, and `UpdatesAreHandled` that
Telegram answers the loop's calls sooner or later (`TelegramAnswers`).
`TunnelClient!FairSpec` has polite services too, because `handleSession` waits
for its streams without a deadline.

## 4. Proofs

All theorems hold for every value of the constants that satisfies the named
assumptions; TLC evaluates these in the runs.

`ControlPlaneProofs`: `NoDanglingRoute`, `NoDanglingUser`,
`RoutesBelongToOwner`, `TenantIsolation`, the refinement of `RouteDirectory`,
`TypeOK`, `HandshakeLimit` and `GaugeSettles`. Neither property about the
registries is inductive alone, because a route is justified by where the
goroutine of its session stands. The invariant ties the three together: which
steps a connection with a user, bound names or a monitor can be at, that `todo`
of a step is part of what it may visit, and that every entry of either registry
belongs to a session that will remove it. `Counting` adds the counters: `slots`
and `wg` are cardinalities of sets of connections, and the gauge is the number
of sessions between registration and the end of their monitor; it rests on the
finiteness of `Session`. `TypeOK` follows from it, since non-negative counters
are not a typing fact.

`OrderlyIsRouted` is about what an established tunnel can rely on. The
invariant above says that entries have a session; here the converse is needed,
that a session has its entries. It fails in general, for two reasons only:
`CheckUser` reads the registry long before `RegisterUser` writes it, and a
takeover does not wait for the monitor of the session it evicts, which removes
entries by key. `Serial(u)` and `Patient(u)` exclude exactly these two, for one
user: no two handshakes of `u` are between check and registration at the same
time, and no takeover of `u` goes on to its request before the old session's
monitor is done. Nothing is assumed of the limit (the default is 1000), of
force, or of the other users, who may do what they like. Then `SerialInv(u)` is
inductive: whoever is between check and registration finds no entry of the
user, a takeover has read the one session that holds anything, and who holds
the entry has all its routes but those a takeover is just removing.
`EstablishedIsRouted` and `OneActiveSession` follow when all users are so
(`Orderly`); its `Replaced` is that moment of a takeover. Neither condition can
be dropped: the run `ControlPlaneTakeover` shows what an impatient takeover
does (with one slot, so that handshakes are serial), and two handshakes of a
user who both pass the check leave two established sessions. `OneSlotIsSerial`:
the first condition is ensured by a limit of one handshake, the case of the run
`ControlPlaneSerial`; no configuration of the code ensures the second, except
that clients do not force.

`RetiredIsForgotten` is the safety half of `ClosedIsForgotten`: once no
goroutine looks after a connection it is in neither registry for good.
`GracefulLeavesOneHolds` follows the accept loop through a shutdown: after the
listener is closed it can start one more goroutine, and only if it already
holds a connection.

`BandwidthStoreProofs`: `TypeOK`, `UsedWithinLimit`, and over a working
database (an explicit hypothesis) `DenialIsJustified` and the refinement of
`DailyQuota`. The invariant says what a call knows at each statement: at
`insert` after a missed update either there is no row or the bytes do not fit,
and since a row never disappears and never shrinks, a call that goes round
after a collision finds its row the second time, so the third attempt is never
what denies it. `NothingChargedAhead`: a call charges the day it has read,
which is never one to come.

`IngressProxyProofs`: `ChargesImplementStore`, that the ingress with all its
requests and directions is, through the counter's variables, a use of
`BandwidthStore` with flows as callers. The theorems of `BandwidthStoreProofs`
then hold at the ingress: `CounterWithinLimit`, and the types.

`NothingUnpaid` compares, day by day, a history of bytes with a counter. To add
up what several flows of a user are owed without a recursive sum, bytes are
counted as sets: `OwedBytes(u, d)` numbers those that flows have been granted on
account of day `d` and have not forwarded yet, `HeadBytes(u)` those of the heads
of plain responses, and a charge, a chunk or a head adds or removes one block of
a set. `Balance` is inductive: forwarded and owed bytes together are covered by
the charged ones, those let pass, and the heads. It needs `FlowInv`, which says
where a flow can stand while its request stands where it does, and that a call
of the counter in progress is for the flow's user and its amount; so one answer
"allowed" pays for one chunk, once. `TrafficWithinQuota` follows from `Balance`
and the limit on each day.

`ClientProxyProofs`: `TypeOK` and `NothingLeaks` for any finite set of streams.
`StreamInv` says what exists of a stream at each place of its goroutine; the
counters are cardinalities of the sets of streams in progress.

`TunnelClientProofs`: `TypeOK`, `OneSession`, `DrainsBeforeReturn`. Every step
of the client is a step of the streams or leaves them alone, so the streams'
invariant is that of `ClientProxyProofs`; in `drain` the runner leaves only at
`wg = 0`, and by that invariant no stream is then alive.

`ClientUIProofs`: `UITypeOK`, `OneSession`, `ScreenFollows`, and
`TunnelUndisturbed`, that the tunnel under the UI implements the safety part of
`SharedTunnelClient`: a full buffer, a late subscriber or a UI that is gone
never makes it do what it would not do alone (that it also goes on is
`QuitEnds`, which is model-checked). What makes `ScreenFollows` inductive is
`Heralded`: among what is still on its way (what is about to be published, the
channel, the event in hand, the screen, in this order), the last event about
the status is what was published of it last if nothing was missed, which is the
truth while the client tries; and a tunnel that was granted is in one of these
places too (`TunnelsInv`).

`ClientHostProofs`: `TypeOK`, `LockProtects`, `OnlyVerifiedInstalled`,
`ReplacedAtOnce`. `Knows` says what a process that looked at the lock still
knows when it acts, which holds as long as nobody has `raced`; `UpdateInv` says
that an update past the verification has a signed build's sums, and that only
one with its file elsewhere copies.

`LoginProofs`: for `Accounts`, `TypeOK`, `SessionsAreVouched`,
`OneAccountPerIdentity`, `AccountsComplete`. None of them is inductive: a
sign-in is right because of the record it holds. `TaskInv` says what a request
knows at each place: its identity is vouched for or empty, the row in its memory
holds only identities of its user, and a request about to sign in has an identity of
that user. For `Login` the same two properties (`BotLoginIsVouched`),
`LoginTypeOK`, `HandedOnce` and `NoUpdateLost`, all of `SoundLogin`: any
initial state that satisfies the accounts' invariant, the empty database
(`SoundFromEmpty`) and the run's own (`SoundFromRegistered`) among them, with
the dashboard's other requests in progress. `PendingSound` says an approved
login was approved by somebody who pressed the button, `Spent` that a login
handed out is approved and out of the store for good, `Progress` that what is
before the position, and before the next update of the batch, was handled;
`confirmed` follows the position.

Every invariant and every action property of the passing runs is a theorem,
`EstablishedIsRouted` and `OneActiveSession` under `Orderly`. Only
model-checked are the liveness properties, whose fairness and ENABLED the
prover does not treat: `ClosedIsForgotten` (its safety half is
`RetiredIsForgotten`), `AcceptedIsServed`, `ShutdownCompletes`,
`DirectionsEndTogether`, `StreamsEnd`, `ShutdownStopsRunner`, `Recovers`,
`EstablishedIsShown`, `QuitEnds`, `UpdateEnds`, `EntriesExpire` and
`UpdatesAreHandled`. What the quota adds up over flows is a cardinality, so
nothing is left to an induction over data.

## 5. Not modelled

- Message contents, TLS, JSON, the text of HTTP headers and bodies, logging:
  data the properties do not distinguish. Of the bytes, only their number
  matters; the framing that the HTTP library adds to a body is not counted.
  Bytes lost between a failed `ReadRequest` and the raw copy, and truncated
  request bodies, are properties of the bytes the stream model abstracts.
- Host routing, landing pages and install scripts of the ingress; the
  dashboard's pages, avatar files and abuse form; the administrator's commands
  of the bot and the statistics they read; the inspector; the layout of the
  terminal UI; flags and configuration; health, metrics other than the gauge.
  They keep no state that another part depends on.
- Cryptography: cookies, CSRF tokens, hashes and signatures either verify or
  do not.
- Code without callers: the rate limiters and `ConnectionLimiter`,
  `ValidateCSRF` as a middleware, `EventBus.Unsubscribe` and `Close`,
  `TunnelManager.StopAll`, `SharedTunnel.Shutdown`.
- The updater on Windows hands over to a script that runs after the program;
  PIDs given twice.

## 6. Plan

1. Compositions: the ingress with the registry of `ControlPlane` (a session
   replaced between lookup and open), and two whole clients with the control
   plane (takeovers by force, stale sessions after a drop), in place of the
   free choices `IngressProxy` and `TunnelClient` make today.
2. `ClientUI` for single-port mode, over `TunnelClient`.
3. Proofs: that the streams of `TunnelClient` are those of `ClientProxy` under
   the closing of sessions `TunnelClient` does; invariants of the compositions.
