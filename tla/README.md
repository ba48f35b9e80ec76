# DroidProxy: a TLA+ model of the daemon

DroidProxy is a Go daemon for one user's desktop.  It serves an HTTP proxy on
port 8317 (`internal/proxy`, the "thinking proxy") in front of a child process,
`cli-proxy-api`, on port 8318 (`internal/backend`), sends Grok and Meta requests
to their upstreams itself and rewrites what passes, keeps the accounts'
credential files, installs its own updates, and is driven over a control socket
and a local web UI that stream its state to any number of clients.

This directory holds specifications of the daemon's components, TLC runs that
check them on small instances, and TLAPS proofs that hold for every instance.
Every definition is translated from the Go source; `PROJECT.json` gives the file
and lines of each.

## The system

| Component | State | Operations | What makes it hard, what makes it right | Modelled in |
|---|---|---|---|---|
| Server lifecycle, `daemon/daemon.go`, `calls.go` | `starting`, `lastError` | `startServer`, `stopServer`, toggle, restart, account removal, quit, shutdown | Every call is a goroutine of its own; only starts exclude each other.  A failed start leaves the proxy down, an undisturbed stop leaves nothing, every call ends | `ServerLifecycle` |
| Backend manager, `backend/backend.go` | `cmd`, `done`, `running` | `Start`, `Stop`, `waitBackend`, orphan sweep, login processes | Each takes the lock several times; the daemon may die and leave its child.  Two server processes live only if a sweep could not kill an orphan | `ServerLifecycle`, `LoginFlows`, `Settings` |
| Thinking proxy, `proxy/proxy.go`, `upstream.go` | `listener`, `running`, `wg`; one request per connection | `Start`, `Stop`, accept loop, handlers, relays | The listener is closed outside the lock.  No listener is lost; an answer arrives once and in order | `ServerLifecycle`, `ProxyRequests` |
| Request path, `proxy/process.go`, `json.go`, `claude/`, `grok/*_rewriter.go`, `grok/*_repair.go`, `grok/*_sanitizer.go` | none | inspection, routing, and the rewriting of requests and answers | Edits of a text by position, many special cases, chunk boundaries.  What is forwarded is what the sender meant, in a form the provider accepts | `JsonText`, `ThinkingBlocks`, `GrokRewrite`, `ProxyRequests` |
| Event streams, `control/server.go`, `webui/webui.go` | `subs`, per stream `dirty`, `msgs`, timer | subscribe, notify, post, close, handler loop | Changes race with snapshots, timers and marks.  No client is left behind what was announced, messages keep their order, no send on a closed channel | `EventStream`, `StateObserver` |
| State snapshot, `daemon/state.go` | caches of slow facts | `State`, `factoryModelsInstalled` | Facts read under different locks; a cache whose invalidation races with its computation | `EventStream`, `Settings` |
| Grok tokens, `grok/grok_auth*.go` | the credential file; single-flight refresh | refresh, quarantine, login | Refresh against login, removal and toggle.  One refresh at a time, one answer for each caller, no refresh token lost | `GrokToken` |
| Sign-ins, `daemon/calls.go` | session, code, in-flight flags | start, cancel, replace, complete; bundled logins | Completions of replaced logins, callers that hang up.  What is shown belongs to the login under way, a cancelled login saves nothing | `LoginFlows` |
| Meta sign-in and keys, `meta/` | generation, state, `refreshing`; the account store | sign-in, cancel, mint, refresh, save, remove, toggle | Generations looked at between requests; compare-and-set on a snapshot.  No older login comes back | `MetaAuth` |
| Account files, `auth/`, `claude/seat_files.go` | the directory, the cached accounts, the watcher | rescan, toggle, delete, migrate | Scans, migrations and foreign writers of one directory.  No tokens are lost, the list catches up | `AccountFiles` |
| Usage tracker, `usage/tracker.go`, `meta/meta_muse_usage_store.go` | generation, cards, the last observations | refresh, live Meta cards | Late answers, crossing signatures.  The cards are those of the last refresh | `UsageTracker` |
| Updater and installer, `updater/`, `installer/` | state machine; version directories, `current`, plugin | check, download, extract, install, prune, restart, rollback | A death between any two steps, checks beside installs, two installers on the same names.  What runs is whole and stays | `Updater` |
| Preferences, backend configuration, Factory catalog, `prefs/`, `backend/config.go`, `catalog/` | the preference map, the merged file, `settings.json` | set, toggle, generate, apply, check | Read-modify-write without a common lock, a shared temporary file.  The backend sees the preferences, the user's work survives | `Settings` |
| In-process events, `events/` | handler lists | publish | Handlers run in the publisher's goroutine | a step of `EventStream` |
| Control client, desktop, notifications, CLI, plugin, frontend | none or I/O | | | not modelled |

The components meet as follows.  API calls and D-Bus actions run on HTTP or
anonymous goroutines and call the managers directly.  The managers report
through callbacks and the event bus, whose handlers run in the reporting
goroutine and end in `notifyStateChanged`, which marks every stream of both
servers dirty.  `State()` is called by each stream's handler and reads the
managers one after the other.  Scans of the account files start usage refreshes;
Meta account changes and toggles of providers regenerate the backend's
configuration file, which the child watches.  A request to Grok calls
`AccessToken` (`GrokToken`, which `ProxyRequests` has as one step that succeeds
or fails); a Grok login saves through the same `Persist` (`LoginFlows` has it as
one step, `GrokToken` in two).

`PROJECT.json` lists the hazards of each component at the line where it bites,
with the property that covers it.

## Modules

| Module | What it is |
|---|---|
| `ServerLifecycle` | lifecycle, backend manager, proxy listener and connections, processes |
| `StateObserver` | what a stream promises its clients, without channels or timers |
| `EventStream` | subscribers, notifications, messages, handlers of both servers |
| `GrokToken` | the Grok credential file and those who refresh, replace, disable and remove it |
| `LoginFlows` | the device logins and bundled logins of the daemon |
| `MetaAuth` | sign-ins, key refreshes and the account store of Meta |
| `AccountFiles` | the directory of Claude's account files and all who write it |
| `UsageTracker` | refresh generations, cards and Meta observations |
| `Updater` | updater, installer, version directories, plugin |
| `Settings` | preferences, the backend's configuration, Factory's settings and the cached check |
| `JsonText` | the scanner of a JSON text that finds fields and elements by position |
| `ThinkingBlocks` | the edits of a Claude conversation and of its beta header |
| `GrokRewrite` | the sanitizer of Grok requests, the markup parser, the repairs of tool calls |
| `ProxyRequests` | one request through the proxy, built on the three before it |
| `*_proofs` | the theorems about a module; `Accounts_proofs` those of `AccountFiles` and of `UsageTracker`, `Upstream_proofs` those of `GrokToken`, `ProxyRequests` and the operators below it |
| `MC*` | what TLC needs beside the specification |

A definition named `X_Something` directly before `X` is `X` as a plausible bug
would have it: it shows which mistake the property named in `PROJECT.json`
excludes, and is used nowhere else.

### ServerLifecycle

One step is what a goroutine does between two points where others can observe
or disturb it: a critical section, a system call, a wait.

- `Ops` are the goroutines of `server.stop`, `server.restart`, `accounts.remove`,
  `app.quit` and the SIGTERM handler; `kind` says which.  All run `stopServer`
  (`StopProxy`, `CloseListener`, `WaitProxy`, `StopBackend`, then `SeeExit` or
  `KillBackend` and `GiveUpKill`), then end, sleep and start (`StartAgain`), or
  end the daemon (`Vanish`).
- `Starter` is the goroutine `startServer` spawns.  `d.starting` makes it the only
  one, so it needs one control point: `BindProxy`, `PollProxy`, `CheckBackend`,
  `SweepOrphans`, `LaunchBackend`, `AwaitBackend`, and on failure the same
  `proxy.Stop` steps and `ReportFailure`; `EndStart` is its deferred function.
- `proxyRunning`, `listener`, `loops` and `conn` are `p.running`, `p.listener` and
  what `p.wg` counts; `open` is what the kernel has bound.  A goroutine that waits
  in `wg.Wait` is released by the step that brings the counter to zero, as
  `sync.WaitGroup` does, even when the counter rises again before it runs.
- `cmd` and `running` are the manager's fields; `proc` is the truth of the
  operating system: `alive`, `termed` (SIGTERM sent), `exited` (not yet reaped),
  `gone`, `orphan` when its daemon died, or `missed`, an orphan that a sweep left alive.
  `SweepOrphans` leaves any of them: `pgrep` or `pkill` may fail, which the code passes
  over in silence before it launches.
- `Crash` kills the daemon in any state.  What follows is the next `Boot`, with the
  orphan still there.
- `lastCall` and `overlapped` are history variables for `StopLeavesNothing`.

Abstractions: the two `IsRunning` calls of `startServer` are one read; the retry
on all interfaces after a failed custom bind is part of `BindProxy`; the 60 polls
of the proxy are one look; login processes are not in the module; notifications and the
wording of errors are left out; a process or socket identity is used again
once nothing refers to it; ports other than the proxy's own are not contended.
`removeAccount` is a restart whose deletion, between stop and sleep, touches no
state of this module.  A panic of `sync.WaitGroup` (its reuse while a waiter has
not woken up) ends the daemon and is therefore a `Crash`.

### EventStream and StateObserver

Both servers have the same machinery, so one module stands for either: a set of
subscribers under a lock, a one-slot channel `dirty`, a buffered channel `msgs`,
and a handler goroutine per stream.  `Heartbeat` exists in the web UI only.

- `version[p]` counts the changes of one fact of the snapshot.  `Change` is any
  goroutine that changes a fact, `NotifyStateChanged` its notification, a step of
  its own because the lock of the fact and the lock of the server are different.
  `ChangeSilently` is a change that nobody announces: a Grok completion that is taken for
  stale, and the storing of a session.  `announced[p]` is the last change of the fact
  that a notification covers, whichever change that notification was for.
- `Subscribe` is `subscribe` and the decision to send the first snapshot; a
  snapshot is read fact by fact in any order (`ReadPart`) and sent
  (`SendState`).  The handler then selects (`TakeMessage`, `TakeDirty`,
  `TimerFires`, `StreamEnds`, `Heartbeat`, `ClientGone`).
- `age` and `timer` are `time.Since(lastState)` and `timerC` in ticks; `age` stops
  at `Interval`, beyond which it makes no difference.
- `Close` closes every registered channel and forgets the subscribers.

`StateObserver` has only what a client can see: facts change, a client joins,
observes a snapshot in which every fact is between what it was last told and the
present, and leaves.  `EventStream` implements it with `watching <- subs` and
`seen <- Shown`, what registered clients have been told (`Observed`, proved as
`Refinement`).

### GrokToken

`grok-cli.json` holds a short-lived access token and a refresh token that xAI
rotates at every use, so who writes the file last, and who sends which refresh
token, decides whether the user stays logged in.

- A credential is a pair of numbers: the answers of xAI in which its two tokens
  were issued.  `valid`, `revoked` and `expired` are xAI's and the clock's truth
  about them; the program only learns it by asking.
- `Callers` are the request goroutines inside `AccessToken`.  A leader and the
  goroutine that refreshes for it are one process, since the leader waits for it.
  `Load` and `Reread` are the two looks at the file, `TakeSlot` the critical
  section of `refreshMu`, `Renew`, `Refuse` and `NoAnswer` the request and what
  becomes of it, `Deliver` the deferred answers.
- `Persist` and `QuarantineCredentials` hold `authIOMu` (`io`) between reading and
  writing (`read`): `SaveRead` and `SaveWrite` or `SaveFails`, `QuarantineRead` and
  `Disable`.  The account manager does not take that lock: `ToggleRead`,
  `ToggleWrite` and `DeleteAccount` fall in between.
- `Approve` is the success of a device login's poll, `LoginRead`, `LoginWrite` and
  `LoginFails` its `Persist`.  `Crash` leaves the file and nothing else.
- `excused`, `refused` and `dead` are history variables.  `Excuse` marks a spent
  refresh token that may yet be sent or stored for a reason the code cannot help:
  the answer, the write or the process was lost, a toggle wrote the old file back,
  or the account was gone at the second look.

Abstractions: one credential file, the only one the program creates itself; tokens
are compared, never read; an error answer of xAI that is not terminal counts as no
answer; what a caller is told is left out, only that it is told.

### LoginFlows

`session`, `code` and `waiting` are the daemon's `grokSession`, `grokUserCode` and
the in-flight flag; `logins[i]` is the goroutine of one device login with its
`LoginSession`.  `StartGrokLogin` cancels what it finds and starts the goroutine;
`StoreSession` comes later, after `StartDeviceLogin` has returned, and the login may
be over by then; until then its completion compares with nil (`OwnSession`).
`CancelProviderAuth` clears what is shown under the lock, `CancelSession` cancels the
session it took after the unlock; `dropping` holds the logins in between.  `Asked`, `Prompt`, `Polled`, `Expires`, `Persist`, `Complete` and
`Ends` are the goroutine's steps between two looks at the session or the daemon.
`RunBundledLogin`, `CommandSettles`, `CallerLeaves` and `FinishRun` are the in-flight
flag of the other providers and the caller that waits for the command.
`muddled` is history: the overlaps after which the code itself mixes two logins up
(a replacement's session cleared by the completion of the login it replaced,
although `calls.go:443` and `478` mean to prevent it; a start that crosses a cancel or another
start; a prompt after a cancel).  Left out: the Codex newline nudge, the migration of
credentials after a bundled login, the texts.

### MetaAuth

A step is a critical section with the answer it acts upon.  `flow[g]` is the goroutine
of the sign-in of generation `g`; every look at the generation is `IsCurrent`.
`job[a]` are the workers of `RefreshAPIKeyIfNeeded`: because the `refreshing` mark is
taken away when the mint has been answered and before the key is stored, there may
be two of them for an account.  The store compares the whole credentials with the
snapshot a worker took (`SameCredentials` in `UpdateKey`).  An identity token is the
number of its sign-in, a key the number of its minting, time is `due`.

### AccountFiles

`files` is what each name holds: the canonical name that `cli-proxy-api` writes, one
name for each seat, and one more suffixed name.  A thread is a goroutine that scans
(`ReadDir`, `ParseCanonical`, `Publish`), migrates (`ListNames`, `MigrateRead`,
`OpenTemp`, `FillTemp`, `RenameTemp`, `RemoveSource`), toggles (`ToggleRead`,
`ToggleCount`, `ToggleWrite`) or deletes; `tmp` is the single temporary name that all
migrations share.  The login process opens, writes and may die in between; a
rename replaces the file under it.  `StartWatch`, `due` and `TimerFires` are the
watcher and its timer; a change before the watcher is there is announced by nobody.
Every call on a file may fail: `ListFails`, `ReadFails`, `OpenFails`, `WriteFails` (a write,
close or rename), `ChmodFails` and `RemoveFails` in a migration, `ReadDirFails` in a scan,
`CallFails` in a toggle or deletion, each with the return the code makes.
`risky`, `missed` and `overtaken` are history: two changes of the directory at once; a
change between the first scan and the watcher, or a failure that leaves no trace in the
directory; a list older than its predecessor.  Each is a hazard the code has; the properties say that nothing else
loses tokens or leaves the list behind.  Abstractions: one e-mail address; listing
and parsing of the suffixed names are one step.

### UsageTracker

`Scan` publishes a list of accounts, `Sign` is the goroutine that compares its
signature with the last one, `RefreshUsage` and `CallRefresh` begin refreshes, `Begin`
takes the generation and shows the placeholders, `Fetch` is the answer of the network,
`Complete` publishes unless a newer generation began.  `Observe`, `UpdateRead` and
`UpdateReplace` are the live card of Meta beside it.  One account stands for those
asked over the network and one for the local ones.  The refresh of Claude's own tokens
inside a fetch is left out: it is not shared between fetches, writes the file in
place, and writes it again if it was removed meanwhile.

### Updater

`checks` counts the goroutines inside `Check`, `job` is the one inside `Install`,
`installer[i]` a process `droidproxy install --update` of a new version, which outlives the
daemon that started it unless systemd ends it with the unit.  `HandOver` starts one whether
or not another is at work.  `tree[v]` is a version directory, absent, partial or whole:
extraction writes into it directly, although the comment at `updater.go:433-435` says that it
goes through a temporary directory.  `link`, `staging` and `backup` are `.current.tmp`,
`.staging-plugin` and `.old-plugin`, which all installers share: `MakeLink`, `FlipCurrent`,
`StagePlugin`, `PluginStaged`, `ClearBackup`, `BackUpPlugin`, `SwapPlugin` and
`RestartService` are one installer's steps.  Every step may be the last one (`Crash`); then
systemd or the next session starts what `current` names.  `Rollback` is the command of the
user.  History: `crowded`, the last installer was started beside another one; `torn`, two
have been at the plugin together since an installer that worked alone put it in; `excused`,
`current` was made partial by unpacking that very version again, by a rollback to a partial
one, or by a prune beside a second installer; `restartFailed`.  Abstractions: a version is a
number; a signature or checksum holds or does not; the user runs no installer of his own;
a rollback is one step; what was written before a death is there after it (only the death
of processes is modelled, not the loss of writes that no `fsync` has secured).

### Settings

A call of the control API is a caller with the step it is at.  `values` and `disk` are
the store; `BeginToggle` reads the provider map, `Set` writes it back later.
`ReadExclusions`, `ReadRestAndOpen`, `WriteTmp` and `RenameTmp` are `GenerateConfig`, whose
temporary file `tmp` is the same for all callers; `content` tells for each file
which renderings its bytes come from.  `Load`, `BackUp` and `Replace` apply Factory's
models; `Edit` is somebody else's write of the same file; `Check`, `Keep` and `Invalidate`
are the cached answer.  History: `crossed` (generations overlapped), `behind` (a change
that regenerates nothing: the beta flag, a call that returned early after its failed
write), `unsure` (an invalidation during a computation), `unguarded` (a backup that
could not be made, or an edit after it).

### JsonText, ThinkingBlocks, GrokRewrite, ProxyRequests

A JSON text is a sequence of tokens: braces, brackets, commas, colons, strings and
literals.  `JsonText` has the scanners of `proxy/json.go` and of
`claude/thinking_sanitizer.go`, which are separate copies of one algorithm:
`FieldLocations` and `ArrayElements` return positions, `Splice` makes all edits at once.
`ThinkingBlocks` removes thinking blocks from a conversation by such edits and
rewrites the list of betas.  `GrokRewrite` has the request sanitizer, the parser of
tool calls in markup and in prose (fenced or not), the repair of each tool's arguments, and the
rewriting of an answer that was collected.  These three hold pure operators; where
the code loops or recurses, they have a recursive function over positions.
`ThinkingEdits` is the list of edits before it is applied: the code sorts them and passes over
one that overlaps the last, `Splice` makes all of them, and that this is the same
is a theorem.  The value of an argument is what the sanitizer tells apart: absent, an object, another
value, or a string that holds an object, an object with something behind it, or none.
`XaiAccepts` are the rules listed at the head of `grok_request_sanitizer.go`, arguments as
JSON objects included; `WellArgued` says where the sanitizer relies on the client for that: it
leaves the string in an `arguments` field alone, and a text that begins with an object.

`ProxyRequests` is a state machine over them: a request arrives in parts (`ReadHeader`,
`ReadBody`, `ClientHalfCloses`), is inspected and sent to one of four destinations
(`ProcessGrok`, `ProcessMeta`, `ProcessBackend`), with a token (`ResolveToken`) or a key
(`ResolveAccount`), and its answer comes event by event (`PassOn`, `Collect`, `UpstreamEnds`; from Meta
`ReadMetaChunk`, which scans and records what was read, and then `WriteMetaChunk` or
`WriteFails`), while the user switches providers and accounts end.  `MeantDoc`,
`MeantTurn` and `MeantBetas` are the reference: what the body should be, built from the
document and not from its text.  An answer carries what its upstream means by it
(`prefix`, `calls`), against which what the client got is compared: `AnswerAsMeant` is the conjunction of
`DeliveredUnchanged` (an answer that is not rewritten arrives whole), `DeliveredAsMeant`
(a rewritten one keeps the text before its calls and all calls, those in markup and in
prose too, unless it quotes JSON or code beside them), `CallsKept` (one with calls of its
own is changed in nothing but the arguments of calls that could not be used) and `CopiesAgree`
(a stream repeats a call with the same arguments).  `DisabledNotDialled` is the part of `DisabledStaysOut` about
the connections the proxy opens itself.
The calls for which `Doubtful` holds have no single right result: two aliases of one
argument, of which Go's map order takes either, or a call without a name whose tool is
guessed from its arguments.  Where a step uses one value several times, a text or what
was read in it, the value is the parameter of an operator or the one element of a set,
so that TLC computes it once.  A body that was cut off does not parse and
goes to Grok as it came (`GrokBody`).  Abstractions: tokens without white space and escapes; the head of a
request or answer is rebuilt correctly; request bodies in chunked encoding are left out;
fast mode is not switched during a request; a usage report's line is shorter than the
16 KiB that the scanner keeps and holds no framing of a chunked answer.

## What is checked

| Run | Instance | Shows |
|---|---|---|
| `lifecycle` | 2 op goroutines, 2 processes, 2 sockets, 1 connection | `OneBackendProcess`, `ListenerOwned`, `FailedStartStopsProxy`, `StopLeavesNothing`, `NoUnwarnedKill` |
| `lifecycle_live` | 1 op goroutine, otherwise the same | `CallsSettle` |
| `lifecycle_stop_both` | 1 op goroutine | counterexample to `StopStopsBoth` |
| `events` | 1 client, 2 facts that change once each, buffer 2, interval 2, 3 messages | `NeverSilentlyBehind`, `RegisteredAreOpen`, `MessagesInOrder`, `Observed`, `ChangesAreSeen` |
| `token` | 2 callers, 2 issues of tokens | `RefreshIsShared`, `FileNeverSpent`, `EveryCallReturns` |
| `logins` | 2 device logins, 2 cancels, 2 callers of a bundled login | `OneLoginShown`, `EndsAsAsked`, `SignInEnds` |
| `meta` | 2 accounts, 2 sign-ins, 2 minted keys | `NewestLoginKept`, `OneEnabledLeft`, `SignInAndRefreshEnd` |
| `accounts` | 1 seat and the file without one, 2 threads, 1 login, 2 calls, 1 failure | `SeatsKept`, `ListCatchesUp`, `EveryFileMoved`, `OneEnabledKept` |
| `usage` | 2 scans, 3 refreshes, 1 further observation | `CardsOfLatest`, `CatchesUp`, `RefreshSettles` |
| `update` | 3 versions, 2 checks, 2 installers, 3 installs, deaths and rollbacks | `CurrentWhole`, `PluginSafe`, `RunningSpared`, `InstallEnds` |
| `settings` | 2 callers, 3 events | `BackendSeesPreferences`, `CacheFresh`, `UserWorkKept`, `OthersKept` |
| `requests` | every request of `MCProxyRequests`, 26 events collected, 1 change of a setting | `ForwardedAsMeant`, `AcceptedByXai`, `DisabledStaysOut`, `AnswerAsMeant`, `UsageSeen` |

The properties are stated, with the code they are about, at the end of each module.
Type invariants are proved where a module has proofs and not repeated in the runs.

Bounds.  Two op goroutines and the starter give every pair of concurrent
operations and a third beside them; two processes are the one being stopped or
orphaned and the one being launched; two sockets are the one being closed and the
one being bound; one connection is enough to hold a WaitGroup.  Two facts let a
snapshot mix old and new; a buffer of two with three messages overflows; an
interval of two has a timer that is armed, runs and fires.  A stream never reads
another stream's state.  Two callers of `AccessToken` are a leader and a waiter, or two
leaders in turn; two issues are a token and its rotation or a login.  Two logins are one
and its replacement, two cancels one for each.  Two Meta accounts and sign-ins let
one be the last enabled and one be overtaken; two workers for an account are the
most there can be at once.  Two threads on the account files are a migration and a toggle,
two scans, or two toggles; a third would only repeat a pair; one failure leaves what a
later pass has to mend.  Three versions are
the installed one, the one before it to keep, and the update, or two updates; two
installers are a leftover and the next one's, which takes an install, a death and an
install, the three events.  (The prune that removes what a leftover is about to name
takes a fourth version; `CurrentStaysWhole` covers it for any number.)  Two callers
of the settings give every pair, three events a call, a second and somebody's edit or a
crash.  The requests are all conversations with a last assistant turn of up to
three blocks, every destination with every path, the tool lists of up to two tools,
the markup answers in every form of their end, and an answer longer than the limit.

Symmetry is used in `lifecycle`, `accounts` and `settings`, which have no liveness
property: the names occur in the specifications only through quantifiers.

Deadlock is checked in the lifecycle and token runs, where a request is always
possible.  The other specifications stop when their bounded events are used up (or, in
`events`, after `Close`), so those runs switch the check off.

Fairness.  `ServerLifecycle`: goroutines that can run do run, timers
fire, the kernel ends the `Accept` of a closed listener, a handler reading its
client has a ten minute deadline, and exited children are reaped.  Not assumed:
that a process heeds SIGTERM, that anybody calls, that a dead daemon boots, that
an upstream answers; `CallsSettle` takes that last assumption as its hypothesis,
because the code has no deadline there.  `EventStream`: pending notifications run,
time passes, handlers run, and a ready mark or timer is chosen in the end (strong
fairness) because Go's `select` picks at random among its ready cases; a client's
departure, messages and heartbeats are never assumed.  `GrokToken`: callers run, a
request ends because `HTTPClient` gives up after 60 s, a login that holds the lock lets
go of it, and nobody waits for `authIOMu` for ever, because Go's mutex hands itself to
the longest waiter after 1 ms (strong fairness).  `LoginFlows`: the goroutines of logins
run, which ends them because every poll has a timeout and every login a deadline, and a
bundled command settles, since `RunAuthCommandAsync` waits a limited time for it.
A call that has taken a login off to cancel it does cancel it (`CancelSession`).
`MetaAuth`, `UsageTracker`, `Updater`: the goroutines and installers at work make their next
step, with answers that come or time out, and systemd restarts the service it was told to; the user's calls and the deaths are never assumed.

### Disagreements met while modelling

Shown by a run: `docs/control-api.md:184` says `server.stop` stops both servers.  A
stop that overlaps a start, or falls into the delay of a restart, does not
(`StopStopsBoth`): in the shortest trace a start has bound the proxy, the stop
finds no backend, and the start goes on to launch one.  `StopLeavesNothing` is
what does hold: the same without an overlapping request.

The models have the following behaviours of the code too, and their properties
allow them explicitly or through a history variable:

- `daemon.go:366-367` says `stopServer` blocks for the graceful window.  It blocks
  until the last upstream ends its response.
- After one failed `Accept` the proxy accepts nothing, while `IsRunning`
  (`proxy.go:157`) still says that it does.
- `grok_auth.go:538-540`: a quarantined token is sent again by a caller that had
  loaded it before, and a reconnect keeps the file disabled; a refresh or toggle that
  had read a file writes it again after its removal.
- `calls.go:443` and `478`: a completion clears the session, the code and the flag before
  it looks whether they are its own.
- `docs/control-api.md:55-56` promises a `state` event again after any change.  A Grok
  completion taken for stale (`calls.go:470-480`) and the storing of a session (501-503)
  change the state and notify nobody; the next notification covers them.
- `backend.go:375-377`, `386-388`: a sweep that fails is passed over in silence, and the
  backend is launched beside the orphan.
- `updater.go:433-435`: extraction does not go through a temporary directory, so a death
  leaves a partial version, which a rollback may choose.
- `prune.go:40-52`: a partial leftover counts as the previous version; it is kept, and the
  whole one below it removed, which may be the one that runs.
- `updater.go:460-465`: without systemd an installer that its dead daemon left behind and the
  next daemon's share `.staging-plugin`, `.old-plugin` and `.current.tmp`.
- `updater.go:474-475` says that without a unit the daemon re-executes the freshly linked
  binary.  `os.Executable` names the file of the old version.
- `updater.go:476-494`: after a restart that failed the state stays `installing`, and every
  later check returns without a word (`updater.go:153`).
- `seat_files.go:105-108`, `135-149`, `416-419`: a list, read or open that failed leaves no
  trace in the directory, so the file keeps its name until something else happens there.
- `directory_monitor.go` and `daemon.go:142-143`: what changes between the first scan and
  the start of the watcher is not seen until the next change.
- `manager.go:153`: two concurrent toggles may disable the last two accounts.
- `state.go:226`: an invalidation that arrives during the computation is lost.
- A preference whose write fails is changed in memory, and the call returns before
  the configuration and the cache follow it; the beta flag regenerates nothing.
- `upstream.go:249-250`: an answer of Grok that broke off is rewritten as if it were
  complete.
- `grok_request_sanitizer.go:11-15` lists arguments as JSON objects.  The string in an
  `arguments` field is left as it is (171), and so is an input that begins with an object and
  goes on (368-370).
- `native_tool_call_rewriter.go:143`, `552-556`: what an answer says after its calls is
  dropped; and a JSON object quoted in it that has a `name` (a `package.json`) becomes a
  call (331-345), while a fenced part without JSON ends the search for calls (184-199).
- `proxy.go:242-247`: a request whose sender closes early, or that has no
  Content-Length, is forwarded with what was read.

## What is proved

All theorems hold for every value of the constants under the modules' named
assumptions: `LifecycleAssumption` (the names of goroutines, processes and
sockets are distinct from the reserved ones, sockets and connections are finite
sets), `StreamAssumption` (capacity and interval are positive, there is at
least one fact), `TokenAssumption` (the bound is positive, callers are distinct
from the names of other lock holders), and for the others that bounds are natural
numbers and sets of names finite and not empty (`MetaAssumption`, `LoginAssumption`,
`SettingsAssumption`, `UpdaterAssumption`, `UsageAssumption`); `AccountAssumption` asks
that the seats are distinct from the other names and from a file without a seat, and lets
there be any number of seats and goroutines, infinitely many included.  `RequestsAssumption`
says of the requests that an answer, a list of tools, a conversation and the blocks of each of its
turns are sequences, that the second half of a usage line comes right after the first, that
only function and custom tools come in the nested form, and that an answer has the events of one
API: calls and text, or a Responses stream whose copies of a call all belong to an item that
has the same arguments and the same name, if they have a name (`OfOneAPI`); `LimitAssumption` that the buffer's limit is a natural number.

Each `*_proofs` module proves the type invariant first and builds on it.  The safety
properties are seldom inductive alone; what is added, and why:

`ServerLifecycle_proofs` proves `OwnedBackend`, `OneBackendProcess`,
`ListenerOwned`, `FailedStartStopsProxy` and the action property `NoUnwarnedKill`.
The invariants are not inductive alone; `Inv` adds
- `StartFlag`: `d.starting` is set exactly while the start goroutine is active;
- `LaunchReady`: between its check and the launch there is no child, and after the
  sweep nothing lives but the orphans it missed, because only this goroutine launches;
- `TargetsKnown`: a process captured by a waiting goroutine is this daemon's and,
  for a stop, has been signalled; without it a kill might hit a later child;
- `SocketsKnown`: at most one goroutine holds a socket it has to close, and then
  no listener is set;
- `FailureKnown`: while a failing start ends, the proxy stays down, because the
  only goroutine that could start it is this one.

`Vanish` is treated once (`VanishType`, `VanishInv`) for its three uses, and the
steps after a stop through `AfterStopShape`.

`StopLeavesNothing` speaks of a moment when everything is over, so `StopInv` has to say
what each step towards it has achieved, as long as no two requests overlapped:
- `OneAtATime`: one goroutine starts or stops the servers;
- `StopProgress`: past `proxy.Stop` the proxy is down, in the graceful window only the
  process that was signalled may live, and after it none does;
- `StartsMeant`: whoever starts something answers a request to start, so that the last
  call was not a stop;
- `StoppedDown`: the property itself.

`EventStream_proofs` proves `NeverSilentlyBehind`, `RegisteredAreOpen`,
`SpacedStates` and `Observed`.  Its `Inv` adds
- `OffIsReset`: a client without a handler has no registration, no timer, nothing seen;
- `SnapshotsGrow`: what a snapshot has read lies between what the client was told
  and the truth, which is why facts never run backwards for the client;
- `TimerSpaced`: a pending timer and the age of the last snapshot add up to the
  interval.

`MessagesInOrder` follows from `MessagesInv`.  Its `RelayedInOrder` describes what the client
got, the message in the handler's hand and the buffer as one sequence with bounds at both
ends, and says element by element what a sequence without a gap is, because
the property's set of messages tells too little about their number; `HandsKnown` says that
the hand is empty where the handler holds nothing.

`Upstream_proofs` proves of `GrokToken` the discipline of `authIOMu`,
`RefreshIsShared`, `FileNeverSpent` and `RefusedIsExplained`.  The first two are
inductive together.  For the others `TokenInv` adds
- `LeaderHolds`: what the leader is about to send is accepted, withdrawn or excused,
  because its second look saw the file while no other leader could spend it; what it
  is about to save is accepted or withdrawn;
- `LoginApart`: the tokens of a login that is not saved yet are known to nobody else,
  so no refresh spends them;
- `TokensIssued`: no token in use is newer than the last answer, which makes the next
  one new.

Of `ProxyRequests` the same module proves `AcceptedByXai`, `UsageSeen`, `DisabledStaysOut` and,
of the four parts of `AnswerAsMeant`, `DeliveredUnchanged`, `CallsKept` and `CopiesAgree`, for any set of requests.  The invariants:
- `Ordering`: until the request is sent nothing of the answer has moved, and until it is
  processed nothing is sent; `ArrivesIs`, `ProcessedIs`, `ResolvedIs` and `RelaysIs` say for each
  phase what its steps leave alone, so that the other invariants look at one phase each;
- `Gate`: a provider enabled now is in `everOn`, which is what the check of `settings` at
  the time of routing gives;
- `Sanitized`: what goes to api.x.ai of a complete body is `SanitizeRequestBody` of it.
  `SanitizedIsAccepted` is the lemma on the sanitizer, for every body whose tools have a form
  that clients send and that is `WellArgued`;
- `Relayed`: what was read of Meta's answer (`Seen`: what the client has got and the chunk about to be
  written) and what is left are the answer, the scanner holds half
  of a line exactly when the last event read is one, and `Recorded` relates the reports
  read so far, by their rank among the events, with what is stored;
- `Flow`: what the client has got, what is collected and what is left are together the
  answer; while it is collected nothing is passed on, and it is streamed only if it is
  longer than the limit;
- `RewrittenWhole`, for `CallsKept` and `CopiesAgree`: an answer that is rewritten and ends whole
  was collected from its first event to its last;
- `BodyRead` and `BackendShut`, for `DisabledStaysOut`: the body is a text, and a text that goes to
  the backend and names a model of Meta was sent while Meta was enabled.

Of the operators it proves `EditsAreApart`: whatever the text, the edits of `ThinkingEdits` lie
inside it, none is empty and no two overlap.  It rests on what the scanners return:
`ElementsAreRow` (the elements of an array lie one behind the other, inside it),
`FieldIsInside` (the value of a field lies inside its object) and `CutsInPlace` (ranges that
take a comma with them, before or behind the run, do not reach each other; the run
at the front takes the comma behind it, and there is one, because not all elements go).

`BackendShut` needs most of the lemmas: the proxy looks at the model in the body, its alias replaced,
and what goes to the backend is that text after the thinking was taken out and the tier of fast mode
was set, in which the backend, scanning anew, might find another model.  That it does not (`BackendTextKeepsMeta`) is proved for every text,
JSON or not:
- `SpliceLays`: an edited text is its pieces one behind the other, so that a token no edit touches
  can be found again; `KeptPart` says that what lies between two edits keeps its order and distance;
- `SameFieldAround`: if two texts agree in front of a value and behind it, a scanner that passes over
  the value finds every other field alike; the induction goes along the pairs of both texts at once;
- `EditsAreInner` and `ValueEdited`: the edits of a conversation lie inside the value of `messages`
  and close as many brackets as they open, so a scanner in search of the end of that value comes
  out at the same token as before.  The runs of elements that are cut are balanced
  (`RunCloses`, `CutCloses`), and so is the text that stands for an emptied content;
- with them `SanitizerKeepsFields`, and for the tier of fast mode `EditBehindKeeps` and
  `FastModeKeepsModel`.

Of the repair it proves `RepairDelivers`: whatever the tool, its arguments and the text of the
message, and whichever value the code takes where it walks a map, arguments that could be used stay
as they are and a call with the argument it needs under another name can be used afterwards.
`RepairingsAre` carries it from one event to an answer.  In a Responses stream
each copy of a call is repaired on its own and some without a name; `CopyRepaired` shows that each
ends among the results for the item they belong to, of which a call that is not `Doubtful` has one,
and that deltas, which are not repaired, are sent on only when that result is what Grok wrote
(`DeltasDropped`, `AsSent`).

Facts about these recursive functions are proved by least counterexample (`LeastNat`), since the
library's induction theorems cannot be instantiated: first that the function exists
(`ToolsLoop`, `ElementsLoop`, `MembersLoop`), then what it returns, from the shortest rest of
the text for which it would not.

`MetaAuth_proofs` proves `NewestLoginKept`, `OneEnabledLeft`, that a login's key is only
replaced by a younger one (`KeysAdvance`), and that a goroutine lives behind every
sign-in shown (`AuthenticatingIsAlive`).  `StoreInv` adds
- `KeysKnown`: every key in use was minted before now for the token it is used with, and
  what a worker is about to store is younger than what it replaces;
- `LoginUnsaved`: a sign-in that has not saved has a token no account has, which is why
  a worker's snapshot tells the logins apart.

`LoginFlows_proofs` proves `OneLoginShown` and `EndsAsAsked`.  `LoginInv` adds
- `OneAtATime`: while calls have not crossed, one call stores a session at a time, and
  only the login stored or about to be stored is alive beside those being cancelled;
- `Faithful`: what a cancel leaves of a login at each of its steps, and what is told.

`Settings_proofs` proves `OthersKept`, `CacheFresh`, `UserWorkKept` and
`BackendSeesPreferences`.  It adds
- `TogglesInv`: a toggle that nobody has overtaken holds the switches in force;
- `CacheInv`: while the answer is not the present one, a call that will invalidate it is
  under way, or the cache is dirty or `unsure`;
- `BackupsInv`: a merge that has copied the user's last version has it in a backup;
- `FilesInv`: a generation that no other overlaps is the only one, the temporary file is
  its own, and what it has read so far is in force unless a call that changed it is
  going to render it anew (`Single`); every other generation is in `crossed`; the live
  file is whole, is never the temporary one, and shows the preferences in force unless
  somebody is about to write them or `behind` says that nobody is.

`Updater_proofs` proves `PluginSafe`, `CurrentWhole` and the action property
`RunningSpared`, for any number of versions, checks and installers at work at once.  It adds
- `JobInv`: the version of the goroutine is newer than the one that runs (`Newer`, which is why
  it never unpacks over the running one), is whole from its extraction to its prune
  (`JobTree`), and its installer is the only one at work unless it was started beside
  another (`OnlyOne`);
- `PluginInv`: unless `torn`, what an installer has staged is whole when it moves it in, and
  the old plugin has been set aside (`Ready`);
- `CurrentInv`, until `excused`: what `current`, or an installer about to rename its link, names
  is whole (`Whole`), and a prune spares it (`Spared`), because a rollback after the flip
  can only go to the newest of the older versions.

The newest of a set of versions exists by least counterexample (`NewestOf`).

`Accounts_proofs` proves all four properties of `AccountFiles` and both invariants of
`UsageTracker`.  For the files, lemmas first say what each step makes of the goroutines (a
step sets one, a step that takes a name away changes only which file the others hold
open), and the invariants build on them:
- `FilesTypeOK` says beside the types that a migrating goroutine has a pass to do and a
  seat to move its file to;
- `ListInv`, for `ListCatchesUp`: a scan is to come, or the scan that read the directory
  last is under way with a list that is still true and every other one counted as
  older, or the list is published and only late scans can replace it.  The property alone
  says nothing of the scans under way;
- `MoveInv`, for `EveryFileMoved`: with the watcher at work, a file left to move has the
  watcher's event, another pass, or its place in the pass of a migration (`MoveYes`); before
  it, `run()` is alone, its temporary file is its own work, and every movable file is on its
  list (`Boots`);
- `SeatInv`, for `SeatsKept`, holds until something `risky` happens.  `TokensOrdered` orders
  the tokens by the names that hold them (a seat's name holds its own seat, the
  canonical file the newest tokens of all, a suffixed file none older than its seat's),
  from which `KeptAt` reads off the last tokens of a seat; `Hand` says what a goroutine
  knows of its file from its read to its last change of it, and that the suffixed files
  go before the canonical one, without which an old file would overwrite the tokens
  of a new login; `Alone` that there is one such goroutine.  `OneEnabledKept` is a conjunct of
  `Hand` carried from the count to the write.

For the cards it proves `CardsOfLatest` with `Generations` (refreshes have different
generations, none from the future, and the one with the last has the last selection),
and `CatchesUp` with `CatchUpInv`: `Answers`, by which there is one answer to a change of the
list at a time and it carries the list as it is; `Readings`, the same of the observations;
and `MetaCard`, which holds when nobody is about to write the card.

Only model-checked are
- `ForwardedAsMeant`: it compares the edited text with the one built from the edited document,
  so it also asks that the scanner finds every message and every block of a well-formed
  document, an induction over documents.  What an edit leaves alone is proved (above), what it
  is meant to change is only enumerated;
- `DeliveredAsMeant`, the fourth part of `AnswerAsMeant`: it compares what the markup parser finds
  in a text, or the search for JSON in prose, with what was meant by it, an induction over texts of
  which only enumeration is left;
- everything temporal (`CallsSettle`, `ChangesAreSeen`, `EveryCallReturns`, `SignInEnds`,
  `SignInAndRefreshEnd`, `InstallEnds`, `RefreshSettles`), since the prover has neither
  liveness under fairness nor `ENABLED`.

## Not modelled

- I/O without state of its own: desktop, notifications, D-Bus, paths, logging; the
  command line, which dispatches to the components above; the Omarchy plugin and the web
  frontend, which are clients in other languages; the control client, whose reconnection
  `EventStream` has as its environment's.
- In modelled components: `Listen` and `Serve` of the control socket (two daemons that
  start at once), the log buffer and the prompts of login processes, the copy of a first
  installation and the uninstallation, the parsing of usage answers, the refresh of
  Claude's tokens inside a usage fetch, header filters, the plain-text status stubs of
  Grok answers, Unicode and number formats, request bodies in chunked encoding, usage
  reports longer than 16 KiB or broken by the framing of a chunked answer, and in
  `Settings` the expiry of a Meta key by its time, after which the cached check and the
  configuration still have the key.
- Of a Grok request, a tool choice that names a dropped tool while others are kept, and an
  output without its call: the sanitizer does not look at them, and `XaiAccepts` does not.
- Where a property holds but for a history variable (`risky`, `crossed`, `muddled`, `overtaken`,
  `mixed`), the overlaps it names are in the model, and what they may cost is not bounded:
  `OneEnabledKept` says nothing of two concurrent toggles, `CatchesUp` nothing of crossing
  answers.
- Character-level detail of JSON texts (white space, escapes): the scanners skip or copy
  it, and the properties do not depend on it.

What would come next: the control socket with two daemons; the Claude token refresh of
`usage/tracker.go` against `AccountFiles`; the composition of `Updater` with
`ServerLifecycle`, where a restart of the service is a death of the daemon; that the scanner
finds every element of a text built from a document, from which `ForwardedAsMeant` would follow.
