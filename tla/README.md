# A TLA+ model of init-vm and bonk

`init-vm` is a command line program that starts, extends and terminates the
virtual machine of a TryHackMe room by driving the site in a Chrome it launches.
It is built on `bonk`, a browser automation library that speaks the Chrome
DevTools Protocol (CDP) over one WebSocket. This directory holds TLA+
specifications of the parts of both that keep state and run concurrently, the
configurations that check them with TLC, and proofs checked by TLAPS.

Contents: 1 inventory, 2 modules, 3 runs, 4 bounds, 5 fairness, 6 proofs,
7 disagreements with the documentation, 8 not modelled, 9 plan.

## 1. Inventory

### The command (`src/main.go`, `src/pkg`, `src/vpn.sh`, `src/scan.sh`)

**Commands and the auto-extend daemon** (`pkg/vm/vm.go`). State: the pid file
`init-vm-loop-<room>.pid` in the temporary directory, the processes themselves, the machine on the
site, the room's hosts entry, the VPN. Operations: `Start`, `Extend`,
`LoopExtend`, `Terminate`, `startLoopDaemon`, `stopLoopDaemon`. `start` with a
loop and `loop` leave a daemon (the same binary in a new session) that runs
`Extend` every half hour and holds its pid in the pid file; `terminate` finds it
by that file, sends SIGTERM, polls, and finally kills. Hard: parent and daemon
both write the pid file; a daemon dies and leaves the file, and its pid may be
reused; SIGTERM is caught by two parties in the daemon; a failed evaluation
panics (`hasActiveVM.(bool)`); a daemon that survives `terminate` starts the
machine again; the `vpn.sh start` that a killed process was waiting for runs on.
Correct means: one daemon at most, always findable through the
file, gone when `stopLoopDaemon` returns, no entry and no VPN after `terminate`.

**Login prompt** (the block that Start, Extend and Terminate repeat). State: the
channel `done` of capacity one, four goroutines and the signal goroutine of the
browser registry, the session file. Hard: the poller receives from the channel
it also sends to; Ctrl+C is handled twice; the session file is truncated before
it is written, and errors are ignored; in the daemon there is no terminal, and
ENTER's goroutine ends the prompt at once. Correct means: a login is noticed, a
signal ends the process, a session is never replaced by a worse one unless the
user asked for it or a step failed.

**Hosts file** (`pkg/hosts/hosts.go`). `UpdateEntry` and `RemoveEntry` read,
compute, truncate and write without a lock, with `sudo tee` as the fallback.
Correct means: other hosts' lines survive, a room has one address, the latest,
and the file does not grow without end.

**Browser registry** (`pkg/browser/browser.go`). State: `activeBrowsers` under a
mutex. `Launch` restores the session and registers the browser; the goroutine of
the first registration turns a signal into `CloseAll` and `os.Exit(1)`; the
disconnect callback of each connection unregisters. Correct means: no Chrome
outlives the process, and a signal does end it.

**VPN and scan scripts.** `vpn.sh start|stop|restart|status` around one pid file
for the whole machine, which it tests, reads and removes in separate steps and
without a lock; the commands of different rooms and the user call it. A refused
`sudo kill` and a pid file that `rm` cannot remove go unnoticed. Correct
means: one openvpn, which the file names, and none after a stop. `scan.sh` is a
pipeline of scanners.

### The library (`src/bonk`)

**Life of Chrome** (`launch.go`, `browser.go`). `Launch` makes the directory,
starts Chrome, reads the DevTools URL, dials, starts `Listen`, wires the
disconnect callback. `Browser.Close` closes pages and contexts, asks Chrome to
quit, cancels, closes the connection, waits for the process, kills it, removes
the directory; a second caller returns at once. `Reconnect` dials again, also from
inside the disconnect callback, while `Close` may be under way; correct means
that no connection outlives `Close`. `Connect` attaches to a Chrome that runs.

**CDP connection** (`rpc/conn.go`, `rpc/pending.go`, `rpc/session.go`). State:
the pending map of the connection and of each session, the session map, the
closed flag, the error, the callback. `callOn` registers an entry, sends, and
waits for the answer, the context or the end of the connection; `Listen`
resolves entries; `closeWithError` rejects them all. Hard: answer, cancellation
and closing race for one entry, a call can register with a map that was already
emptied, and messages are sent to callers' channels while locks are held.

**Event subscriptions and waits** (`rpc/subscribe.go`, `events.go`, `wait.go`,
`page_wait.go`, `page_navigate.go`, `page_popup.go`). Each event starts one
goroutine per handler, so handlers run in any order and after the subscription
ended. State: the token of a wait, the counter and timer of network idle, the
table of downloads of a watcher. Hard: the events name no document and no
request; the end of a request can be counted before its beginning; a download can
be complete before its beginning was stored; a directory is removed when a watch
ends. Correct means: a wait that succeeds has had its event, none goes on waiting
after it, idle is quiet, a download that completes can be saved.

**Request interception** (`network.go`, `request.go`, `response.go`,
`route.go`). State: the two handlers, the list of routes, the subscription, the
enabled flag, and at Chrome the patterns and the paused requests. Registering
changes the table under a lock and then calls `sync` without it. Correct means:
Chrome pauses what the table needs, every paused request is answered, once.

**MCP server** (`mcp/`). State of its one session: the browser, the table of
pages under the names told to the client, the order of their last use, the
number of the last name, overlay handlers by page name and selector. Every tool
holds the session's mutex. Hard: table, order and overlay entries are changed in
different places, pages leave one and not the other, the browser is closed and
started again while names and the order stay. Correct means: the limit of pages
holds, the page not used for longest makes room, a name never comes to mean
another page, an overlay entry leads to its handler.

**Overlay handlers** (`page_overlay.go`, used by `page_input.go` and
`locator.go`). State: the handlers of a page, and the stack of the goroutine that
clicks, since handlers run inside a click and may click themselves. Correct
means: the overlays go, and the original action proceeds.

**Pages and contexts** (`page.go`, `context.go`, `pool.go`). State: the context's
list of pages and its closed flag, each Page value's own flag (copies made by
`Timeout` and `WithContext` have one too), the tabs at Chrome; the pool's channel.
Hard: pages and popups are being opened and closed while the context is being
closed; a lock is held for one look at a flag or a list. Correct means: a page in
hand that nobody closes is on the list, a context that is gone leaves no tab, a
page of the pool comes back.

**Elements, locators and input** (`element*.go`, `selector.go`, `locator*.go`,
`getby*.go`, `keyboard.go`, `mouse.go`). State: the node an element names. An
action is several calls into a page that goes on changing; a call that fails
because a navigation ended the node looks the element up again, once. Correct
means: what reports success has acted on the element it was asked for.

**URL and glob matching** (`match.go`): a loop that goes back to the last star
only. **WebSocket transport** (`transport/`), **stealth and device emulation**
(`stealth.go`, `device.go`), **protocol bindings** (`proto/`, generated by
`internal/gen`).

### How they interact

    init-vm command ──pid file, signals──> daemon (same program)
         │ prompt, session file              │
         ├──> hosts file, vpn.sh <───────────┤
         └──> browser registry ──> bonk Browser ──> Chrome process
                     ^                 │ calls, events
                     └─ disconnect ─ rpc.Conn ──WebSocket──> Chrome
                                       ^ subscriptions
                             fetchManager, waits, pages, MCP server

Commands and daemon share files and signals only. Inside a process goroutines
share the registry, the connection and the managers of a page; Chrome is a peer
that may answer late, never, or disappear.

`PROJECT.json` lists the components with their status, and under `hazards` what
in this code is hard to reach with a test, line by line, with the properties
that cover it.

## 2. Modules

| Module | Models | Composed with |
| --- | --- | --- |
| `InitVM` | commands, daemon, pid file, signals; machine, entry, VPN as booleans | abstracts LoginGate, HostsFile, Browsers to their outcomes |
| `LoginGate` | the prompt's channel and goroutines, the session file | the registry's signal goroutine in outline; `MCHost` |
| `HostsFile` | the file's lines and both operations on them | `MCHost` |
| `VpnScript` | `vpn.sh`: its pid file and the processes, calls that overlap | `MCHost` |
| `Browsers` | launching, registering, closing, signal, disconnect | the connection in outline |
| `CallContract` | what `Call`/`CallOn` promise | implemented by RpcConn |
| `RpcConn` | `Conn`, `pendingMap`, `sessionMap` | - |
| `Fetch` | `fetchManager`, subscription, paused requests at Chrome | - |
| `PageCache` | a bounded least-recently-used cache | implemented by McpSession |
| `McpSession` | the session of the MCP server and its tools | pages in outline |
| `Overlay` | the loop of overlay handlers and the calls nested in it | - |
| `Reconnection` | Reconnect, the disconnect callback and Close on all connections of a browser | `MCClient` |
| `Contexts` | pages, popups and copies of pages, opened and closed while their context is | `MCClient` |
| `PagePool` | `NewPool`, `Do`, `Close` | `MCClient` |
| `LoadWait` | Navigate, Reload, GoBack, WaitNavigation, WaitForLoadState | `MCClient` |
| `NetworkIdle` | the counter and the timer of network idle | `MCClient` |
| `Downloads` | watchers and waiters of downloads, SaveAs | `MCClient`, `MCDownloads` |
| `GlobMatch` | `globMatch` | `MCClient` |
| `Elements` | locators, second look-ups, Click, Fill and Check on a changing page | `MCClient`, `MCElements` |
| `RpcConnProofs`, `BrowsersProofs`, `McpSessionProofs`, `InitVMProofs`, `FetchProofs` | theorems and proofs | each extends the module it is named after |
| `HostProofs` | theorems and proofs | extends LoginGate, HostsFile, VpnScript |
| `PagesProofs` | theorems and proofs | extends Contexts, Elements |
| `WaitsProofs` | theorems and proofs | extends LoadWait, Downloads, NetworkIdle, GlobMatch |
| `MC...` | instances for TLC | |

In each module a process or goroutine has a place (`pc`, `at`, `tpc`, `upc`), and
each action is the code between two points at which others can interfere: a
system call on a shared file, a lock, a channel, a message. What a lock protects
as a whole is one action. Operators named "Variant with a defect" are not part
of a specification: each is a plausible mistake in the action it stands before,
kept to confirm that a property notices it (in `McpSession`, those with a
comment that begins "Variant").

**InitVM.** A process of `Cmds` runs one command; a member of `Daemons` is at
once a daemon and its pid. `Begin` is the command line, `Launched` the browser
up to the page, `Observe` the question whether the machine is active (the answer
"no" is always possible, "yes" only with a machine), `ClickStart`, `ClickAdd`,
`FindIP`, `StartVPN` and `VPNStarted` what follows; `vpn.sh start` is a process of
its own, which `OrphanStarts` lets run to its end when its parent has died. `SdRead` to `SdWrite` are
`startLoopDaemon`; `Boot`, `WriteOwn`, `Tick`, `StopLoop`, `ExitLoop` the
daemon's `LoopExtend`; `SignalExit` the registry's goroutine inside it; `SpRead`
to `SpRemove` are `stopLoopDaemon`. `pidfile = Empty` stands between the
truncation and the write, `openFd` says whose write still reaches the file.
`Crash` can strike at any step: that covers log.Fatal and the panic on a failed
evaluation. `Reuse` gives a dead daemon's pid to an unrelated process, and
`MachineStops` is the lease running out. With `Overlap = FALSE` the user gives one
command after another; `TRUE` lets them interleave without limit.

**LoginGate.** `SendDone`, `Await` and `PollSelect` are Go's semantics of a buffered
channel of one: a send to a parked receiver does not pass the buffer.
`SaveSession` and `WriteSession` are the two halves of `SaveState`, either of which
may fail unnoticed. `Relaunch` and `Work` lead to the save at the command's end.
`tty` tells the daemon, which has no terminal, from a command that has one. `CloseAll`,
`BrowsersClosed` and `ExitProcess` are the signal goroutine that runs beside the prompt.

**HostsFile.** The file is the sequence `strings.Split` yields; a blank last line
is the final newline. `Updated` and `Removed` are the two functions as text
transformations, `Written` the final newline they add; what RemoveEntry keeps is
given by the places it keeps (`LinesAt`), in their order. A line stands for
its first name, the only one the code looks at; further names on it, which go when
that name is updated or removed, are not modelled. `ReadFile`,
`Truncate`, `WriteFile` are the steps others can come between, `Denied` and `Die` the failures.

**VpnScript.** A call is one run of the script, its place the line it is at.
`LookForFile` is `[ -f ]`, `Cat` reads the file, `PsStart` and `PsStop` are
`ps -p`, `LaunchVpn` is `openvpn --daemon --writepid`, `Verify` the look after a
second and a half, `Kill`, `WaitForEnd`, `ForceKill` and `RemovePidFile` the rest of
`stop_vpn`, `KillAll` its fallback. `Sudo` may be refused and `Remove` may leave the
file, which is root's in a sticky directory; the script notices neither. `ProcessEnds` and `OtherProcess` are the
operating system. `restart` is a stop that goes on as a start. `MCHost` takes the
prompt, the hosts file and the script one at a time, since they share no state.

**Browsers.** Two goroutines, main and signal, run the same `Close`; each
connection has a Listen goroutine. `StartChrome` to `Hook` are the two Launch
functions and `registerBrowser`; `Claim` to `Clean` are `Browser.Close`; `Lock`
and `Closed` frame `CloseAll`; `ListenFails`, `Callback`, `Unregister` are the
path from a lost connection to `unregisterBrowser`. A hung Chrome keeps its
connection and answers nothing.

**RpcConn.** A call goes through `Issue`, `Attach`, `Add`, `Send` and one of the
three arms of its select. `Receive` and `Deliver` are Listen and `Resolve`.
`closeWithError` is `Enter`, `RejectRoot`, `RejectOne`, `Rejected`,
`SwapSessions`, `RejectSession`, `Notify`, run by a closer or by Listen, holding
`Conn.mu`. A session id can stand for two Session objects, one from before the
session map was replaced and one attached after; pending maps are told apart
accordingly.

**Fetch.** `Begin` with a change of the table is the part under `fm.mu`; `Flags`
to `Enable` (or `Drop`, `Disable`) are `sync`. The routes are modelled with their
backing array, length and capacity, since `handleEvent` keeps a pointer into it
after unlocking. `Start` and `Answered` are Chrome pausing a request and a
response, with one goroutine per subscription; `Look`, `Unreadable` and
`Handle` are `handleEvent` with the handler and `autoRespond`; Chrome may `Accept` the
answer or `Refuse` it, and then nothing answers again, since `responded` is set.

**McpSession.** A tool is one step, since it holds `s.mu` throughout. `pages` and
`order` are `s.pages` and `s.pageOrder`, names are numbers, and a Page value is
the number of its making, so that a name and the page it stands for can be told
apart. `GetPage`, `Missing` and `PageFromRequest` are `pageFromRequest` with
`getPage` and `ensurePage` (which takes any open page: Go's order over a map);
`NewPage` and `NewPageFails` include the eviction, which comes before Chrome is
asked and is not undone. `TabGone` closes a tab behind the session's back.
`told`, `got` and `strays` are history: the names the client knows, the page
last worked on, and tabs that a failed attach leaves open. The mapping to
`PageCache` takes the table's domain as `live` and derives `older` from the
places in the list; identifiers in the list that are not in the table vanish.

**Reconnection.** Connections are numbered as they are dialled. `Callers` are the
program (0) and the Listen goroutine of each connection, whose disconnect
callback may call Reconnect; `CheckClosed`, `DialAgain`, `GoListen`, `SetConn` are
its steps. `ClaimBrowser` to `ShutConn` are `Browser.Close`. Conn itself is
reduced to its closed flag and its Listen.

**Contexts.** `making` follows `newPage` and `attachToTarget`, also for a popup
whose waiter may have gone (`lost`: in nobody's hands). A handle is a Page value, the
original or a copy. `ClosePage`, `RemovePage`, `CloseTarget` are `Page.Close` in
whoever's hands, `TakePages`, `CloseEach`, `Dispose` `BrowserContext.Close`.
`TabCloses` is the user or a crash. History variables record why a tab went.

**PagePool.** `pages` is the channel, `work` the goroutines that call `Do`, which
may panic (`FnPanics`).

**LoadWait.** One call of one kind (`op`): it subscribes, gives its command, has
the answer, waits (`SelectDone`, `SelectTimeout`), or has no entry to go to (`NoEntry`). `SignalDone` is the goroutine
that an event starts. `Commit`, `Load`, `Refuse` are Chrome, which also moves to
documents nobody asked for.

**NetworkIdle.** `hpc` has a goroutine for each event of each request:
`CountStart`, `CancelTimer` for its beginning and its redirect, `CountEnd`,
`CheckIdle`, `StartTimer` for its end. The time of 500 ms appears as an order: it
outlasts the handlers that were under way when the timer was started. `TimerFires` is
its expiry, which begins a goroutine, `SendIdle` that goroutine's send; between them
`CancelTimer` comes too late.

**Downloads.** `SetDownloadPath`, `SubscribeDownload` are `onDownload`, `EndWatch` and
`RemoveDir` its end; `Store`, `LoadDownload`, `CloseDone` the goroutines of its
events, `SaveAs` the caller. Watchers use `On`, waiters `WaitForEvent`. `Behavior` is
what Chrome is asked for, and with it what a file is called (`FileThere`).

**GlobMatch.** `Inside` to `AtEnd` are the branches of the loop, over `px`, `sx` and
the place to go back to; `Means` is what routing.md says of the characters: that the
string can be cut into parts, in order, one for each character of the pattern.

**Elements.** The page is the sequence of nodes that match the selector, with what
hides them, what bars them (a cover, a parent that is not displayed, a disabled
field), what has the focus and which boxes are ticked. `Press` lands on what is at
the place: the node, if nothing bars it, or whatever else is there. `Resolve` is the
locator's poll; `NodeLost`, `ReResolve` and `Called` are `callForValue`, which
every step goes through; `SeeVisible` and `SeeExpires` are `WaitForVisible`.
`steady` records that nothing has changed since the element was last looked up.

**Overlay.** `calls` is the goroutine's stack of clicks, each with its copy of
the handlers, those left in the round, and the round. `Fire` calls a handler: one
that clicks through an Element (`Direct`) removes its overlay, one that clicks
through the Page adds a call. `Finish` waits for the element, clicks and returns.

## 3. Runs

| Run | Shows |
| --- | --- |
| `rooms_sequential` | Commands given one after the other: at most one daemon (`AtMostOneDaemon`), named by the pid file but for its parent's rewrite (`DaemonTracked`); once Terminate is past stopLoopDaemon no daemon is left (`QuietAfterStop`); a Terminate that reports success, or nothing to do, leaves neither entry nor VPN, unless that very step failed or a killed process has left its `vpn.sh start` running (`TerminateCleans`). |
| `rooms_overlapping` | What survives commands that interleave: stopLoopDaemon kills what it read about (`StoppedIsDead`) and returns, the daemon dead by then (`StopReturns`). |
| `host` | The prompt: a guest's session is saved only if the user forced the prompt, there is no terminal, or the login could not be saved (`GuestOnlyByForce`); an unreadable session file only comes of a write that was not finished (`BrokenOnlyByWriting`); a login is noticed although the poller can swallow a token, and a signal ends the process (`PromptEnds`). The hosts file: `OthersKept`, `EntryIsLatest` and `GrowthBounded`, for operations that do not overlap and are not killed between truncation and write. The VPN script: calls in turn keep one openvpn that the file names, a stop leaves none, a start leaves one, and two stops in a row repair what overlapping calls left, unless sudo refused a kill (`VpnFollows`). |
| `browsers` | `ClosedIsGone`, `UsableIsListed`, `NoChromeLeft` and `SignalExits` with a Chrome that may die, hang or lose its connection at any point and a signal at any point. |
| `rpc_conn` | No sender blocks, the callback runs once and only for a lost connection, calls return after closing (`CallsReturn`), an answer in Listen's hands ends the call it is for (`AnswersEndCalls`), and the connection implements `CallContract`. |
| `fetch` | `InSync`, `OneAnswer`, `RouteMatches` and `DispatchedGoesOn` while one goroutine registers and unregisters. |
| `fetch_gap` | Violated: see 7. |
| `mcp_session` | `TabsBounded`: the limit of pages holds and no tab is open that the client cannot name; `IdMeansOnePage`; `HandlerRegistered`; and `ImplementsCache`, the refinement of `PageCache`. |
| `overlay_nesting` | Violated: see 7. |
| `client` | Each part of a program's work with bonk. `ConnectionsEnd`: after Close every Listen ends and every socket goes down, whatever Reconnect was doing. `ContextPages`: what Close has to go through is in the list, a context disposed of has no tab left, the closed flag tells whether the tab is gone. `PoolServes`: every `Do` gets a page in the end. `NavigationSeen`, `IdleIsQuiet`, `IdleNotMissed`, `DownloadReported`: what the waits promise under any order of the handlers. `GlobFindsAll`: no string that a pattern means is missed. `ElementActs`: what reports success on a page that was still has acted on the element, if nothing bars it. |
| `download_wait` | Violated: see 7. |
| `element_visible` | Violated: see 7. |

Deadlock is checked in every run. Systems that may really be at their end have
an explicit disjunct for it (`Finished`, or the last one of `Browsers!Next`).

Some properties carry an exception, stated with them, because the code does not
promise more: `TerminateCleans` excepts a `vpn.sh start` that its dead parent has
left running; `GuestOnlyByForce` a prompt without a terminal and a session that could
not be saved, after which the headless browser is a guest's; `BrokenOnlyByWriting` a
write that failed or was cut off; `VpnFollows` kills that sudo refused and, where it
says so, calls that overlapped and a pid file that stayed; `DispatchedGoesOn` an event
that cannot be read and an answer that Chrome refuses; `NoChromeLeft` excepts a browser that was still being launched,
was being closed by the main goroutine, had lost its connection, or was
registered after CloseAll; `SignalExits` excepts a hung Chrome, for which Close
waits without limit on `b.ctx`; `RouteMatches` ends with the first removal of a
route, which moves other routes under a pointer that is in use; `NavigationSeen`
excepts documents that were not asked for and came after the subscription;
`IdleIsQuiet` and `IdleNotMissed` except events of before the subscriptions; the
first also a count that changed between its reading and the start of the timer
(`stale`), and a request that came between the timer's expiry and its report
(`tooLate`); the second redirects, ends counted before their beginnings (`overtaken`),
and a start that came late to cancelTimer and stopped the timer of a quiet network
(`cutShort`); `DownloadReported` excepts a completion
handled before the beginning was stored or sent before the progress was subscribed
to; `ContextPages` excepts, in what the flag tells, pages added late and tabs
closed by themselves or through a copy; `PoolServes` excepts a pool whose pages
were all taken out by panics; `ElementActs` excepts a page that has changed since
the last look-up, and an element that is covered, disabled or in a parent that is not
displayed, of which the code asks nothing. Each exception is a thing that the code does and the models have.

## 4. Bounds

* `InitVM`: three commands of any kind and two daemons (4.5 million states), so
  that a loop can find the pid file of a daemon that died, a second loop can
  meet a daemon that runs, and Terminate can meet either; a third daemon would
  need a third loop before Terminate. Commands and daemons are symmetric there
  (safety only). With overlap, two commands and one daemon (1.0 million).
* `LoginGate`: one prompt, no counters; session file absent or a user's.
* `HostsFile`: two processes, two rooms, two addresses, `MaxOps = 3` operations,
  five initial files: with and without a final newline, a room named twice, one
  line, empty. Three operations allow add, change, remove, and an operation of
  the other room between any two of one.
* `VpnScript`: four calls, two of them at once, two process ids: two overlapping
  calls and the two stops that repair what they left; a pid that is given to
  another process.
* `Browsers`: two browsers, the one used for the prompt and the next.
* `RpcConn`: two calls, one on the connection and one on a session, one closer
  beside Listen. The races are between one call, its answer, its cancellation
  and two closers; a second call shows that they do not take each other's
  answers.
* `Fetch`: one registering goroutine, two routes, two requests that they match
  differently, `MaxOps = 3` registrations or unregistrations: add, add (the
  array grows), remove.
* `McpSession`: two pages at most and five opened (`MaxId`), which allows three
  evictions, or a restart of the browser with names of before in the list and an
  eviction that passes over them; one tab left by a failed opening, one selector,
  two overlay handlers (62 thousand states).
* `Reconnection`: three connections: the first, the one that a callback dials and
  the one that the program dials meanwhile.
* `Contexts`: one page with its copy and one popup, whose opening and closing
  interleave with each other and with Close in every way (the proof is for any
  number).
* `PagePool`: one page, two goroutines that call `Do` for ever; a pool of no pages.
* `LoadWait`: three documents, so that the one asked for can be preceded by one
  that loads and followed by one that the page goes to.
* `NetworkIdle`: two requests, each of before the subscription or after, redirected
  or not: one can end while the other begins.
* `Downloads`: one watcher, one waiter and one download, which they compete for.
* `GlobMatch`: all patterns of at most four characters over `a`, `/`, `*` and of at
  most three over `a`, `*`, `?`, with all strings of at most three over `a`, `/`:
  enough for two stars with something between them, for `**/`, and for a walk that goes back
  twice.
* `Elements`: three nodes and two changes of the page, so that a navigation can be
  followed by a change before or after the second look-up.
* `MCClient` has all of these as parts of one run (525 thousand states), `MCHost`
  the prompt, the hosts file and the script (781 thousand).
* `Overlay`: two overlays, `MaxRounds = 10` as in the code, and a stack of six
  calls for the gigabyte that Go gives a goroutine; the violation needs one
  overlay and does not depend on the depth.

## 5. Fairness

Fairness is weak and limited to what the scheduler or the operating system
gives: goroutines that can run do run, system calls return, a signal handler
gets its turn. Nothing is assumed of users, the site, or Chrome. The exceptions
with strong fairness: `Lock` in `Browsers` (a Go mutex hands itself over to a
waiter that starves), `Enter` in `RpcConn` for the same reason (`Conn.mu`), and
`PollDetects` in `LoginGate` (the prompt polls for ever; of the polls of a page
that shows a login, one succeeds within its timeout), and `CheckOut` in `PagePool`
(a Go channel serves those who wait for it in turn). In `InitVM` only the loop of
`stopLoopDaemon` is fair: a daemon that was signalled may hang in CloseAll for ever
and is killed then. In `RpcConn` Listen goes on while there is
something to receive. `LoginGate` takes it that CloseAll
returns; `Browsers` looks into that and excepts the hung Chrome. In `Fetch`
handlers return; in `PagePool` functions given to `Do` return or panic. In
`Reconnection` dialling ends, one way or the other; `RecvFails` and the steps of
`Reconnect` are weakly fair together, which suffices since every Listen goroutine
has an end. In `Overlay` the goroutine that clicks goes on. `MCClient` and `MCHost` state
the fairness of each part; no fair action of a part is enabled in its first state
when it stands still, so that it constrains only the part that moves.

## 6. Proofs

`RpcConnProofs` proves, for any number of calls, sessions and closers and from
`RpcConnAssumption` (the names are distinct, every call has a session or none):
type correctness; `SendersNeverBlock`; `CallbackOnlyOnDrop`;
`FirstErrorStays` as an action property; and that RpcConn implements
`CallContract`. `SendersNeverBlock` is not inductive: that a channel of capacity
one is empty when somebody sends depends on there being no other copy of the
call's message. `RpcConnInv` therefore says where a call's one message can be (an
entry in a pending map, the hands of Listen, the list of the closer, the
channel), that a call which has not registered has none, that whoever is inside
`closeWithError` holds `Conn.mu` and has set the flag, and what caused each
answer. The refinement maps each variable to itself; every step is a step of the
contract or leaves its three variables alone.

`BrowsersProofs` proves, for any number of browsers and from
`BrowsersAssumption`: type correctness with the ownership of `activeBrowsersMu`;
`ClosedIsGone`; `UsableIsListed`; `NoChromeLeft`. `BrowsersInv` adds what those
rest on: `closed` is a claim that one goroutine at most holds
(`ClaimedByOne`), and a claimant's finished steps stay done (`ClosedSoFar`),
since only `Dial` opens a connection and only for a browser that nobody else has
(`DialledIsFresh`, `HeldIsLaunched`); CloseAll empties the list when it has gone
through all of it (`ListIsWorkedOff`); and a Chrome that runs is on the list, in
the main goroutine's hands or dropped (`NoneForgotten`, `ListenGoesWithConn`,
`Whereabouts`).

`McpSessionProofs` proves, for any limit and any bounds and from
`SessionAssumption` (they are natural numbers): type correctness; `TabsBounded`;
`IdMeansOnePage`; `HandlerRegistered`; that no page in the table is closed, so
that the code's tests of `IsClosed` never bite (`ListedNeverClosed`); and that
the session implements `PageCache`. `SessionInv` adds what they rest on: the list
repeats nothing and holds every page of the table (`ListInv`), two names are two
pages (`OnePageOneId`), two overlay entries two locators (`OneLocatorOneKey`). The
lemmas before it are about the list: `WithoutKeeps` (taking a name out),
`AppendKeeps` (putting one last) and `DropKeeps` (dropping the list up to the
first name of the table) say what each does to membership and precedence, and
`RoomFacts` and `RoomMaps` conclude that eviction takes exactly the least
recently used page. `OlderShrinks` and `OlderGrows` carry this to the mapping.

`InitVMProofs` proves, for any sets of commands and daemons and from
`InitVMAssumption`, `StoppedIsDead` of all behaviours, and of commands given one
after the other (the hypothesis `~Overlap`, which TLC's run takes as well)
`AtMostOneDaemon`, `DaemonTracked`, `QuietAfterStop` and `TerminateCleans`. The
hypothesis is needed: two commands at once can both find no daemon (`hazards`,
vm.go:805). It means that a command begins when the one before is over, that the
next look at the pid file comes after a spawned daemon has written it, and
that a command does not die inside one write of the pid file; daemons run, and
they, the commands and the machine stop, at any time. None of the four is
inductive. `TurnInv` adds where their knowledge comes from: `LiveAsSeen` has what
each command has read of the pid file agree with the daemon that lives, at each
place up to the spawning, and says that past stopLoopDaemon none lives;
`OwnFileOpen` that a daemon's write reaches the file it is found by;
`TerminatePlaces` and `OnlyLatestActs` that nobody else is at work on it;
`NothingPutBack` that what Terminate removed is only back with a failure, or a dead
process's script that still ran then, on record. `WorkMoves`, `TerminateMoves`, `OthersStay` and `LiveStays` say once what
the many steps of Start, Extend and Terminate leave alone.

`FetchProofs` proves, from `FetchAssumption` and for any requests, routes,
patterns and matching relation: `RouteMatches` of any number of goroutines, and
`InSync` and `OneAnswer` of one that registers (`OneUser`, as in a program that
sets its routes up by itself, and as in the run; with two, the calls of `sync`
interleave and the table is not followed). `RouteHeld` says that a goroutine
that holds a pointer into the array of routes sees the route it looked up: the
array grows by copying, and only a removal moves routes under the pointer.
`Following` says at each place of `sync` what it has done so far: one subscription
at most, the one that `unsub` ends, nothing paused without `Fetch.enable`, and
what it is about to ask of Chrome is what the table needs, since nobody changes the
table meanwhile. `AnswersCounted` counts: the goroutines at work on a request and
its answers are no more than its pauses. It needs the one subscription of
`Following`, as each would start a goroutine of its own.

`HostProofs` has three parts. Of the prompt it proves `GuestOnlyByForce` and
`BrokenOnlyByWriting`, for every set of contents the session file may have at
first. What makes the first inductive is `TokensHaveCause`: the channel's token is
anonymous, but whoever puts one in has seen a login, an ENTER or a signal, and so
has the main goroutine by the time it is past the prompt, unless there is no terminal
(`Forced`).

Of the hosts file it proves `OthersKept`, `EntryIsLatest` and `GrowthBounded`, for
any rooms, addresses, processes and number of operations and for every text the
file may hold at first (`HostsFileAssumption`: it is never without a line, rooms
and other hosts have different names). The lemmas are about the text
transformations: `RankOrder`, `LinesAtRank` and `LinesAtAlike` about taking the
lines at some places out of a text, and `WrittenKeeps`, `ReplacedKeeps`,
`AppendedKeeps` and `TakenKeeps` about what each operation does to the places of the rooms, of
the others and of the blank lines. The invariant is that, unless operations have
overlapped, the file is `Fine`, and so is what the one under way has in hand,
with its own room's address already counted.

Of the VPN script it proves `VpnFollows` for any number of calls and pids, from
`VpnAssumption` (the mark for a missing pid file is no pid). All of it is said of runs in which sudo
has refused no kill; that `rm` leaves the file is allowed, since a file that names a dead
process is treated as none. `FileFollowed` says
of calls in turn that openvpn, if it runs, is the pid in the file, that what a
call has read is what stands there, and that nothing runs where a call is about
to launch or to remove the file; `StopsEndAll` says of any calls what a first and a
second stop that nothing comes between have achieved at each place.

`PagesProofs` proves `ContextPages` for any sets of pages and popups. `ContextInv`
says that a flag is set on added pages only (`ClaimsAreFlagged`), that the lists
hold added pages (`ListsHoldPages`), that Close takes the list once and what is in
it later was added late (`TakenOnce`), and that a tab which is gone has a cause
(`GoneHasCause`). It proves `ElementActs` for any number of nodes and of changes:
`HeldIsMatch` says that on a still page the element is the match that was looked
up, `PageIsFresh` that no node on the page is one that a navigation ended, so that
a second look-up never happens on a page that was still, and `SeenIsHeld` that
what the wait saw is not taken for a node found later; `ReadyToAct` says what the last
step of Click, Fill and Check finds, unless the element is barred.

`WaitsProofs` has four parts. `NavigationSeen`, for any number of documents: a
token says nothing of its event, so `TokenHasCause` ties it to the document that
was asked for or to a disturbance on record, and `NothingMissed` says that while
there is no token the event has not been sent since the subscription.
`DownloadReported`, for any number of watchers, waiters and downloads: a download is
stored by a handler of its beginning (`StoredBegan`), `done` is closed after the
path is set (`ClosedWithPath`), and the completion during a watch was heard of
(`CompletionHeard`); SaveAs is called with what was stored (`SavedInTurn`).

`IdleNotMissed`, and `IdleIsQuiet` as an action property, for any finite set of
requests: `CountExact` says that the atomic counter is the number of beginnings
less the number of ends whose handlers have counted, which `OpenCounts` turns into
what a count of nought means; `TimerJustified` that a running timer was started on
such a count or that a handler which will cancel it is under way; `TimerStarted`
that the last handler to end has seen to the timer.

`GlobFindsAll`, for every pattern and every string (`GlobAssumption`: both have a
length): the walk keeps one place to go back to, the last star's, and the theorem
says that this loses nothing. `Fits` reads the rest of the string by the rest of the pattern with stars
that may also stand for slashes, which what a pattern means implies
(`MeansFits`). `Hope` says that a string which fits at all fits from here or from
where the walk can go back to, and `Ahead` that whatever fits from there fits from
here too, at the same place or further on, so that the next star may take its
place. `StarFits` and `CharFits` take one character off a reading.

The assumptions of all these are on constants only and named in the modules
(`LastDocAssumption`, `ElementsAssumption`, ...); what Chrome and the user do is
unrestricted but for the actions of the model. The type invariants in the proofs
leave out what only the bounds of the runs make true.

With this every invariant that a passing run checks is proved, and the action properties
and refinements: all but the liveness properties (`CallsReturn`, `AnswersEndCalls`, `SignalExits`,
`StopReturns`, `PromptEnds`, `ConnectionsEnd`, `PoolServes`, `DispatchedGoesOn`),
which are out of the prover's reach and only model-checked. So are `Reconnection`
and `PagePool`, whose one property each is a liveness property, and `Overlay`,
which has a property that the code violates.

## 7. Disagreements with the documentation

With a run that shows them:

* `RequestGoesOn` (`fetch_gap`). The comment at `bonk/network.go:212-213` says that
  a request the handler does not answer is continued. While `sync` replaces the
  subscription, Chrome pauses by the patterns of before; the event of such a
  request reaches nobody and it stays paused.
* `ActionProceeds` (`overlay_nesting`). `bonk/www/docs/automation/overlay-handlers.md:14`
  says of a handler that calls `page.Click(".cookie-banner .accept")` that it
  "clicks the accept button before proceeding with the original action".
  `Page.Click` runs the handlers before anything else (`page_input.go:8`), the
  banner is still there, and the handler calls itself without end; the ten rounds
  of `page_overlay.go:41` bound each call, not their nesting. The tool
  `add_locator_handler` registers such a handler.
* `WaitedDownloadSaved` (`download_wait`). `bonk/events.go:77-78` says that SaveAs
  copies the file and blocks until the download completes. `WaitForEvent` has
  ended its subscriptions and removed the directory when its caller gets the
  download (`page_wait.go:121`): SaveAs then blocks for ever or fails.
* `VisibleBeforeActing` (`element_visible`). `element_input.go:248` and
  `selectors.md:76` say that an interaction waits for the element to become
  visible. At the deadline `poll` returns neither a result nor an error, and the
  click is made (`element_input.go:257`).

Stated as a definition that the code violates, without a run of its own:

* `TerminateStopsMachine` (`InitVM`). `src/README.md:75` says that terminate
  "terminates the TryHackMe VM". `Terminate` looks at the page once, three seconds
  after navigating, and does not poll for the machine's widget as Start and
  Extend do; on a page not rendered yet it removes the hosts entry and reports
  that nothing runs.
* `CloseAllClosesAll` (`Browsers`). The comment at `pkg/browser/browser.go:132` says
  that CloseAll closes all active browsers. A browser that the main goroutine is
  closing is passed over; with a signal, `os.Exit` then comes before its Chrome
  has ended.
* `StarStopsAtSlash` (`GlobMatch`). `bonk/www/docs/network/routing.md:31` says that
  `*` matches any characters except `/`. `match.go` has no test for a slash: the
  pattern `*` matches `/`.

Met while modelling, and in the models as the code has it:

* Network idle (`core/page.md:43`, `advanced/wait-states.md:18`: "Wait until no
  network requests for 500ms") is never reported after a redirect, for requests
  begun before the wait, and on a page that is quiet already: the exceptions of
  `IdleNotMissed`.
* `page.go:207-210` says that a copy of a page shares the mutex of the original; it
  has a mutex and a closed flag of its own (`Contexts`).
* `selectors.md:76` names `Fill()` and `Type()` among the calls that wait for
  visibility; neither does. `selectors.md:92` says that elements without a selector
  fail with `ErrStaleElement`; they fail with Chrome's error. `locators.md:3` says
  that a locator re-queries on every action and never goes stale; within an
  action the n-th match becomes the first when it is looked up again, and `Check`
  may then untick a box (`Elements`).
* `onDownload` asks Chrome for the behaviour "allow" (`events.go:221`), and SaveAs
  opens a file named by the guid (`events.go:260`). The comment at
  `proto/browser_types.go:458-460` says that files are named so for "allowAndName"
  only; in the model, which follows it, SaveAs finds no file. So no property claims
  that a download is saved, only that SaveAs is told of it.
* `vm.go:133` says that the script detects the login by itself. Where there is no
  terminal, as in the daemon (`vm.go:845`), ReadString returns at once, and the
  prompt ends before anybody can log in, with a guest's session saved; or the poller
  takes that token and the prompt goes on (`GuestOnlyByForce`, `PromptEnds`).
* Terminate stops the VPN (`README.md:75`) but does not wait for the `vpn.sh start`
  of a daemon it has just killed, which can bring it up again (`TerminateCleans`).
* An answer to a paused request that Chrome refuses leaves the request paused:
  `responded` is set before the command (`request.go:43`), so that `autoRespond` does
  nothing, against `network.go:212-213` once more (`DispatchedGoesOn`).
* A click on a covered element, or on one in a parent that is not displayed, reports
  success and goes to what is there (`ElementActs`).

## 8. Not modelled

* The protocol bindings (`proto/`): some 44 thousand lines that the generator
  writes from the protocol description, three quarters of the code by size. Each
  function marshals its arguments, makes one call and unmarshals the answer; the
  call is in `RpcConn`, and there is no state or order left to model. The map
  covers a small share of all lines for this reason. Their generator runs at build
  time.
* Stealth and device emulation: tables of constants sent to Chrome once.
* Of pages and elements: the options of contexts, the resolution of timeouts, frames,
  screenshots, cookies, evaluation, the expressions that `getby` builds and that
  locators filter by. Each is a value computed and passed to one call.
* Of the waits: dialogs, console messages, WebSocket frames, and the waits for a
  URL, a function, a request or a response, which keep one token or poll once, as
  the waits that are modelled do.
* `Connect` to a Chrome that somebody else runs, and the search for the executable.
* The routes of the tool `block_urls`, the timeouts that tools set, and the texts
  they return; the arguments of the command line; `scan.sh`.
* The WebSocket library below the transport, Chrome, the site and the user, which
  are modelled from how the code uses them and marked external in the map.
* Further names on a line of the hosts file.

Texts, cookies, headers and bodies are reduced to what the properties tell apart.

## 9. Plan

What would be worth adding, in this order:

1. Proofs of parts that have none, since their properties are temporal: that in
   `Reconnection` every connection but the browser's own is closed or has a Listen
   that will close it, that in `PagePool` no page is lost but to a panic, and that
   in `Overlay` a stack of calls only grows by handlers that click through the page.
2. `McpSession`: the routes of `block_urls`, which are registered on a page, kept by
   the session and dropped by `Close` only.
3. `Browsers` with the connections of `Reconnection` in place of their outline, so
   that a reconnected browser is seen by the registry, which its lost connection
   has unregistered.
4. `Overlay` with every handler direct: that a click calls each handler at most
   `MaxRounds` times.
