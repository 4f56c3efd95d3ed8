# SentinelBR in TLA+

A formal model of the SentinelBR platform (host agents in Go, a server in
Python, a web client in TypeScript) with its model-checking runs and its
machine-checked proofs. The modules are translated from the code; section 2 says
which code each state and action stands for, and `PROJECT.json` maps every
definition to its lines.

## 1. The system

| # | Component | State it keeps | Operations | What is hard |
|---|-----------|----------------|------------|--------------|
| 1 | Action delivery (`agent_servicer.Heartbeat`, `heartbeat.go`, `api/actions.py`, `services/actions.py`, `services/policy.py`, YARA and tool schedules) | table `actions`; the agent's queue of results | create, policy reaction, heartbeat, execute, report, revert, delete | at-most-once delivery over a call that can time out and overlap its retry; concurrent check-then-insert; reverts racing heartbeats |
| 2 | Event ingestion (`agent_servicer.StreamEvents`, `services/loki.py`) | the batch of a stream; Loki | append, ack, flush at 50, flush every 2 s, last flush | two coroutines flush one list around an `await`; acknowledgement before storage; cancellation |
| 3 | Agent event bus (`main.go`, `eventstream/stream.go`, `cmddispatcher`, collectors) and file watcher (`filewatcher`) | a channel of 256 events, goroutines, an errgroup; debounce timers | collect, emit, write, fire, scan, send, close, cancel | who closes the channel and who still sends; full channel; death of the sender; a timer that has fired while it is replaced |
| 4 | Log tail (`collectors/file_source.go`) | file, offset, reader | read line, poll, replay | partial lines, rotation, restart |
| 5 | Detection (`services/rules/*`, `workers/detect.py`, `api/alerts.py`) | table `alerts`, window of events | cycle, upsert, acknowledge, resolve, delete | unique key without status; cycles and operators that overlap; rollback of a host |
| 6 | Browser sessions (`api/auth.py`, `lib/api.ts`, `stores/auth.ts`, `LoginPage`, `AppHeader`, `App`) | refresh token ids; a cookie, localStorage and one store per tab | login, call, refresh, logout, reload | calls refused together; rotation by read and later commit; two tabs, two people, lost answers |
| 7 | Data screens (20 loaders in pages, tabs, badges and popovers; `usePolling`, `useLabMode`) | what is shown, its loading flag and error; requests under way | open, poll, turn to another subject, answer, fail, write | answers out of order and for an earlier subject; what a screen claims while it knows nothing |
| 8 | Host page panels (`HostDetailPage`, the tool panels, dialogs, `useModalShell`) | forms, dialogs, requests, body overflow and focus | open, type, confirm, send, close, leave, poll | late answers to closed or reopened dialogs; a page older than the host; effects run again at each render |
| 9 | Host actions and firewall rules (`services/actions.py`, `api/firewall.py`, `api/fail2ban.py`, `firewall_rules.go`) | rows of actions; rules, bans; the snapshot of them | check, insert, deliver, run, snapshot | check-then-insert; deletion by rule number |
| 10 | Enrollment and PKI (`services/enrollment.py`, `services/ca.py`, `api/agents.py`, `enrollclient`, `agentstate`) | tokens, hosts, certificates; four files per machine | mint, consume, sign, save, load, delete a host | one-shot token under concurrency; a crash between two files |
| 11 | Inventory and vulnerabilities (`SubmitInventory`, `services/vuln_scan.py`, `workers/vuln.py`) | `host_packages`, `host_vulnerabilities`, the broker | report, schedule, scan, replace | a stale scan that ends after a newer one; replacement by delete and insert; a host deleted meanwhile |
| 12 | Quarantine (`internal/quarantine`) | files, vault, metadata | quarantine, restore | a crash between move and metadata |
| 13 | Blocking firewall (`internal/firewall`) | rules of the host | block, unblock | one external command each |
| 14 | The rest: audit log, retention, masking, tenants and roles, rate limit, rule evaluation, lab mode, reports, knowledge base, parsers, statistics, plain views, deployment | | | sequential, or pure input and output |

Agents call the server over gRPC with mutual TLS (`Heartbeat`, `StreamEvents`,
`SubmitInventory`); the server keeps hosts, alerts and actions in PostgreSQL and
events in Loki; Celery workers run detection, schedules and vulnerability scans
against the same tables the HTTP routers write. A machine becomes an agent by
enrolling; the detection worker creates alerts, the policy turns an alert into
an action, the heartbeat carries it to the agent, and the agent's scans and logs
come back as events. Operators see all this through the web client, which polls,
and act on it through the same tables. That is the circle the modules follow.

## 2. Modules, and how they correspond to the code

| Module | Component | Kind |
|--------|-----------|------|
| `ActionDelivery` | 1 | state machine |
| `ActionLifecycle` | 1 | abstract specification of one action's life |
| `ActionDeliveryProps`, `ActionDeliveryProofs` | 1 | properties and inductive invariant; theorems |
| `EventIngest`, `EventIngestProps`, `EventIngestProofs` | 2 | state machine; properties and invariant; theorems |
| `AgentBus`, `AgentBusProps` | 3 | state machine; properties and invariant |
| `LogTail` | 4 | state machine, properties and invariant |
| `AgentProofs` | 3, 4 | theorems about the agent's process |
| `Detection`, `DetectionProps`, `DetectionProofs` | 5 | state machine; properties and invariant; theorems |
| `WebSession` | 6 | state machine: tabs, browser and server together |
| `SharedRenewal` | 6 | abstract specification of the renewal calls share |
| `WebSessionProps`, `WebSessionProofs` | 6 | properties, refinement and invariants; theorems |
| `WebScreens`, `WebScreensProps`, `WebScreensProofs` | 7 | state machine of any screen; properties and invariant; theorems |
| `HostActions` | 9 | state machine of the actions and lists of one host |
| `HostPanels`, `HostPanelsProps`, `HostPanelsProofs` | 8, composed with 9 | state machine of the page; properties and invariant; theorems |
| `Enrollment`, `Inventory` | 10, 11 | state machines |
| `HostSetup` | 10 and 11 composed | what a machine reports follows from its files |
| `HostSetupProps`, `HostSetupProofs` | 10, 11 | properties and invariants; theorems |
| `MC...` | | the instances TLC checks |

Three compositions are checked as a product: `HostPanels` over `HostActions`
(page, table, agent and host), `HostSetup` over `Enrollment` and `Inventory`,
and `WebSession`, which has tabs, browser and server in one module. The others
meet at interfaces: an alert's action in `Detection` (`actions`) is a row of
`ActionDelivery`; a scan in `AgentBus` (`hb`) is a command of `ActionDelivery`; a
collector's log in `AgentBus` is what `LogTail` reads; the stream in `AgentBus`
is one call of `EventIngest`; the window of `Detection` is what `EventIngest` put
into Loki; a heartbeat of `HostActions` is one step of what `ActionDelivery`
takes apart. Each module over-approximates the other side (an action may end at
any time, a scan may come at any time, a pattern may appear or fade at any time,
a server may refuse or not answer).

A definition preceded by "Mutation:" is not part of the model. It is the same
definition with a plausible mistake; the list `mutants` of `PROJECT.json` says
which property fails when it replaces the real one.

### 2.1 ActionDelivery

| State | Code |
|-------|------|
| `row`, `status` | table `actions`; `none` before the INSERT, `deleted` after the DELETE |
| `call[h][s]` | one Heartbeat RPC: request, position of the handler's transaction, ORM objects it loaded (`seen`), reply; `live` while the agent awaits it |
| `agent[h]` | `heartbeat.Loop`: queued results, those taken for the call, commands still to run, results of the batch |
| `client[o]` | the transaction of another writer between its read and its write |
| `ran`, `outcome`, `forgotten` | history, no code |

The handler is cut where its transaction reads or writes what others change:
`HbStart` (autoflush of the UPDATE of the host row, whose lock makes a second
call of the host wait), `HbSelect` (results flushed, pending rows read),
`HbCommit` or `HbAbort`. Rows the transaction has written are locked
(`RowFree`). The agent: `AgentTick`, `AgentReceive`, `AgentExecute`,
`AgentFinish`, `AgentError` (results go back into the queue); `AgentTimeout`
leaves the handler running while the agent retries; `AgentCrash` loses memory.
Writers: `CreateCheck` and `PolicyCheck` then `InsertCommit`; `RevertRead` then
`RevertCommit`; `DeleteAction`. A result is the id of its command, since what a
command gave never changes after it ran. What a command does on the host is one
of two outcomes.

`ActionLifecycle` says of every action by itself: created, sent at most once and
never after it ran, run only when the server has recorded it as sent, reported
as what happened. It is honest about the code: a revert that races a heartbeat
does not stop the action (`Send` from `reverted`), and a late result follows a
revert (`Report` from `reverted`).

### 2.2 EventIngest

One `StreamEvents` call. `main` and `ticker` are the two coroutines and where
each awaits; a step runs from one `await` to the next, because asyncio switches
nowhere else. `batch` is the list, `held` what a push took when it began.
`MainPushed`, `TickerPushed` and `LastPushed` clear the list whatever it holds
by then, as `flush` does; the `...Fails` variants log and clear. `Cancel` is the
end of the connection, `Finally` the cancellation of the ticker and the wait for
it (`AfterCancel`: the ticker may have been cut in a push and the list is then
not cleared), `Stop` the end of the server. `wire` is the stream: gRPC keeps its
order. `acked`, `quiet`, `failed`, `cut` are history.

### 2.3 AgentBus

The goroutines of `runCmd`: collectors with their pumps into `eventBus`, the
watcher, the goroutine that closes the channel (`CloseBus`), the sender, the
heartbeat loop with its scans, and the errgroup (`gone`, `Exit`). Sending on a
closed channel ends the process with a panic (`proc`). A `select` with several
ready cases may take any. Which collectors and whether the watcher run is
decided by `Init`, as by the command line.

The watcher's debounce is that of one file: `pending` is its entry in the map,
`timer[n]` a timer that is armed, has fired and waits for the mutex, or sends the
event of its scan. A write stops the timer of the entry, which fails when it has
fired, and arms a new one; a timer that gets the mutex deletes the entry,
whichever timer it is, and scans. `dirty` and `missed` are history: whether the
file was written since its last scan began, and whether a `Stop` came too late
and one of its timers is left. Files share nothing but the mutex.

### 2.4 LogTail

A file is a sequence of parts, a line is a head and a tail; the logger writes a
line at once or in two writes, logrotate renames (`Rename`, then
`LoggerReopens`) or truncates in place. The reader is `FileSource.Run`:
`ReadLine` up to a newline, `ReadEnd` at the end of the file in follow mode,
where what was read without a newline is dropped, `ReadLast` in replay mode,
`Poll`. It has a descriptor and an offset and nothing of it is kept across
`AgentRestarts`. Its `TailInit`, `TailNext`, `TailSpec` are named so that
`AgentProofs` can extend it beside `AgentBus`.

### 2.5 Detection

`cycle[k]` is the transaction of one host in cycle `k`: rule by rule, candidate
by candidate, `SelectOpen` (the lookup that only sees open rows), a flush that
updates, inserts or fails, and `Policy`. A write of a row waits for the
transaction that has it (`Waits`), two that wait for one another are a
`Deadlocked`, and any exception is a `Rollback` of everything. `status` is the
committed row of a pattern, that is of a rule and a `dedup_key`: the unique key
allows one row whatever its status. Operators PATCH and DELETE; a deletion under
a running cycle changes what the cycle will find (`Losing`). Counts, times and
text of an alert are left out. `decided` and `ended` are history.

### 2.6 WebSession

One browser, its tabs, and the `/auth` routes of the server in one module.

| State | Code |
|-------|------|
| `sessions` | the table of refresh token ids: whose each pair is, and what revoked it |
| `expired` | access tokens whose `exp` is over |
| `cookie`, `stored` | the browser's refresh cookie; localStorage `sentinelbr-auth` |
| `token`, `user` | the Zustand store of each tab |
| `call[t][c]`, `inFlight[t]` | what `request<T>` awaits; whether `refreshInFlight` is set |
| `wire` | refresh exchanges under way; `heard` while a tab awaits the answer |
| `leaving` | the logout request of a tab |
| `unheard`, `crossed` | history |

A step of a tab goes from one `await` to the next. The store writes through to
localStorage (`Put`), which a tab reads only when it is loaded (`Reload`). A call
refused with 401 joins or starts the tab's refresh (`CallRefused`,
`GetOrRefreshToken`); when the refresh is answered, denied or lost, all that wait
go on at once (`Settle`). The server reads `revoked_at` (`ServerReads`) and
commits revocation and successor later (`ServerCommits`), so that two exchanges
with one cookie may both be granted. `Drop` keeps an exchange nobody listens to
going. Access and refresh tokens of one answer share a number.

`SharedRenewal` is what the client promises of all this, with three variables: one
renewal at a time in each tab, joined by every call that needs it, and all go on
when it ends, which it does. `WebSessionProps` gives the refinement mapping.

### 2.7 WebScreens

Each of the 20 loaders of the client is a set of traits (polls, pauses while the
page is hidden, changes its subject, drops answers to an earlier one, clears its
error, says nothing of a failure, ...) read off its component, and each screen
has a view: what it shows in a state, in the order in which its JSX asks. The
protocol is common: `Open`, `Tick`, `Show`, `Turn`, the server's read (`Read`) and
the arrival (`Answer`, `Fail`) as separate steps so that answers overtake one
another, and the screen's own writes (`Write`, `Written`, `WriteFails`) with the
reload each asks for. The answer to a location that was saved on a host's page
(`SaveLocation`, `OnSaved`) sets the host of the render that sent it (`saved`),
whichever host the page is about by then. `useLabMode` is one request for all screens whose failure
is cached, and `LabPage`'s timer keeps the mode of the first render
(`captured`). Data is a version; what arrives for a screen that was left changes
nothing.

### 2.8 HostActions and HostPanels

`HostActions` is one host: its lists of rules or bans as the tools keep them (ufw
by position, firewalld's permanent rules and those of its runtime, which may
differ), the agent that executes what a
heartbeat handed it, the rows of actions, and the snapshot in the row of the host
that a later heartbeat brings back. `Check` and `InsertRow` are the two halves of
`create_pending_action`. Somebody else may change the host in between
(`SomeoneEdits`, `EditsByHand`: either set of firewalld's rules, or one put over
the other) or stop and start a tool; firewalld starts with its permanent rules,
and each `--reload` of the agent puts them over the runtime (`Permanently`).

`HostPanels` is the page over it. A visit is about one sub-tab; each form is a
set of traits (a dialog, its state inside or outside of it, a button that is
disabled while it sends, a confirmation, an item offered by the snapshot). The
operator opens, types, sends, closes, presses Esc, changes tabs; the poll draws
the page anew; answers find whatever panel is there. `Draw` is React's commit:
clean-ups of `useModalShell`, then effects, with the element that had the focus
and the saved overflow. `disturbed` and `overlap` are history.

### 2.9 Enrollment, Inventory and HostSetup

`Enrollment`: a token on the host's row, requests that match it (`Validate`, the
SELECT), spend it (`Consume`, the first commit, by host id) and are answered with
a certificate (`Sign`, after the second), and machines whose `enroll` command
waits, gives up, and saves four files one after the other (`SaveFile`), each of
which a cut may leave torn (`SaveCut`). A certificate's number stands for its key
and for the reply that carries it. `raced` is history.

`Inventory`: a report passes the check of the certificate's name, deletes the
packages its statement sees and stores its own (`SubmitInventory`, `Store`),
then schedules a scan or fails to. A report without packages, which
`inventoryCmd` does not send but the servicer takes, stores nothing. A worker
takes a scan and reads the packages (`Take`; without packages it ends there and
what earlier scans found stays), has OSV's answer and deletes the results its
statement sees (`DeleteResults`), and commits (`Persist`). OSV is asked for the
details of each vulnerability by itself; what did not come is left out
(`Detailed`). Rows are told apart by the report they come from, and `vulns` says
of which reports all that OSV knows is listed. `upset` is history: hosts whose
last scan met another, failed, was incomplete or was never scheduled.

`HostSetup`: `sentinel-agent inventory` reads the state for the host it reports
for and the certificate for who it is, which after an interrupted second
enrollment may be two hosts; deleting a host takes its token and rows with it.

## 3. Runs

| Run | Question | States | Answer |
|-----|----------|-------:|--------|
| `action_safety` | Does any interleaving of overlapping calls, faults and writers run a command twice, falsify the table, lose a result or leave the lifecycle (`ImplementsLifecycle`)? | 1,094,903 | no |
| `action_liveness` | Is every action settled when answers are awaited? | 59,871 | yes |
| `ingest_faults` | What do two coroutines around one list keep, under every fault? | 18,612 | quiet events, the bound, an empty list at the end; and nothing waits for more to come |
| `bus_channel` | Who may send on the channel when it is closed; does a full channel lose or reorder; does the agent end when it must; does every write get a scan, and a burst only one? | 657,447 | as the properties say |
| `tail_follow` | Are lines emitted once, in order, untorn, and all of them? | 236,964 | yes, torn ones only where the reader met half a line or a truncation |
| `detection_safety` | Can cycles undo decisions, or show an alert without its response? | 491,272 | no |
| `detection_triage` | Does a lasting pattern get an alert while cycles fail one another and operators triage? | 130,808 | yes, unless an alert was triaged whose pattern goes on |
| `session_calls` | Does a tab whose calls are refused together renew once, and do all go on? (refinement of `SharedRenewal`, liveness included) | 66,451 | yes |
| `session_tabs` | Who can be refused for reuse; can a tab show one person beside another's token? | 2,663,475 | only where another tab, a logout or a lost answer explains it; only if somebody signed in while the browser was in use |
| `screens` | Does a screen claim that there is nothing, or that it is loading, without reason; turn back; stay behind? | 480,640 | only in the exceptions the properties name |
| `host_panels` | Is what goes from a host what was confirmed; are actions doubled; do buttons, scroll and focus come back? | 526,962 | unless a ufw number was stale or firewalld's reload dropped a rule of its runtime; only by overlapping requests; they do |
| `host_setup` | Which certificates, files, packages and vulnerabilities can come out of enrollments and scans that are cut, overlap and fail? | 922,558 | as the properties say |

Several properties carry an exception ("unless ..."). Each is what the code does,
and is stated as narrowly as it holds: TLC refutes the property without it.

### Where the code and its descriptions differ

These were met while modelling. They are behaviours of the model (and the
reason for the exceptions above), not properties of a run.

Server and agent:

- The heartbeat handler commits `sent` before its reply leaves
  (`agent_servicer.py:232`). When the reply is lost, the action stays `sent`:
  only `pending` rows are selected, and no second action of its host, type and
  target is created while it does.
- An event the handler acknowledges while the ticker awaits Loki is cleared with
  the list (`agent_servicer.py:278`), though nothing failed.
- Without collectors, or when they have ended, `eventBus` is closed
  (`main.go:334`) and the event of the next scan is a panic.
- A line read without its newline is dropped in follow mode
  (`file_source.go:74`); its rest comes out as a line. The path is opened once
  (`:43`): after a rename the old file is read for ever, against `:16-17`.
- `reverted` is called the last state (`models/action.py:15-16`), but a result, or
  a heartbeat that selected the row before, overwrites it
  (`agent_servicer.py:130`, `:232`). Only a block loaded as `executed` gets its
  `unblock_ip` (`api/actions.py:55`).
- `policy.py:7-8` and `create_pending_action` call themselves idempotent; check
  and insert are two steps without a constraint.
- `scan_completed` is said to be always emitted (`dispatcher.go:126`); it is
  dropped when the channel is full (`:155`).
- The unique key of an alert has no status, the lookup has one
  (`engine.py:7-10` against `:68` and `alert.py:55`). Once an alert is triaged
  while its pattern goes on, each cycle that meets it fails and takes the host's
  other new alerts with it.
- A target longer than `String(100)` (`models/action.py:37`) makes the flush of a
  policy's action fail, and the alert with it.
- A file written again within every debounce window is not scanned meanwhile.
- An interrupted copy into the quarantine leaves a truncated file in the vault,
  and the retry then deletes the original (`quarantine.go`).
- A token presented twice at once gives two certificates; a late commit wipes a
  token minted meanwhile; a lost answer of `/agents/enroll` has spent it.
- Of two scans of a host that overlap, the one that ends last decides, also when
  it read the older packages.
- An inventory without packages is accepted and deletes those of the host
  (`agent_servicer.py:347`); its scan then ends before it deletes anything
  (`vuln_scan.py:63`, against "deleta tudo e re-insere", `:88`), so that the
  vulnerabilities of what was installed stay listed.
- A vulnerability whose details OSV did not give is left out with a line in the
  log (`osv.py:202`); the scan counts as done and its host looks the better for it.
- "Adiciona permanente + recarrega + adiciona em runtime tambem"
  (`firewall_rules.go:81`): the third is what `--reload` does with the permanent
  rule. It also drops every rule that was in the runtime only, though neither
  adding nor removing another rule asked for that.

Web client:

- The mutex of the refresh is per tab (`api.ts:13`); two tabs refreshing with one
  cookie may both be granted, or one is signed out as a thief. A refresh under
  way when a tab logs out signs it in again.
- `useModalShell` depends on `onClose`, which panels write inline
  (`useModalShell.ts:5`, `:22`): its effect runs again at every keystroke and
  poll, and moves the focus. Of a `ConfirmDialog` the focus never returns to
  the trigger. Two modals leave the page unscrollable; Esc closes every modal.
- The late answer of an abandoned Add-rule or Ban dialog closes the one opened
  since. The answer `LocationEditor` gets puts the host of its own render back
  (`HostDetailPage.tsx:158`), also over another host the page has gone on to.
- A ufw rule is removed by a number that may be stale.
- `usePolling` aborts nothing, as its fetchers take no signal. Events, actions
  and the scan badge may show the answer for an earlier subject until the next.
- Hosts, host and vulnerabilities never clear their error. "Nenhum host ainda"
  is shown while the list is read again after a first failure, "Tudo tranquilo"
  beside a first error, "Audit log (0)" after one. The documents' index and text
  keep "Carregando..." after a failure.
- `LabPage`'s timer keeps the mode of the first render; `await loadVms()` waits
  for nothing; one failure of the mode's request is cached as off.
- `SessionTimer` promises an automatic renewal; a token is renewed only when a
  call is refused.

## 4. Bounds

- `ActionDelivery`: two ids are a block and the unblock of its revert, or two
  actions in one batch of which one is deleted; two slots are an abandoned call
  that overlaps its retry (a third call adds nothing new, as the host row's lock
  admits one handler after its start); one client interleaves with the agent's
  own handlers. One host suffices for the properties that are run: hosts share
  no row. That commands and results stay with their host (`OwnHost`) is proved.
- `EventIngest`: a batch of two and four events, one of them foreign: a full
  batch, and one event more that arrives during the push.
- `AgentBus`: channels of one event are full after one send; three events of a
  collector fill channel, pump and `Out` and leave one to be found, and are
  needed to see an order. Two timers are one that has fired and its successor;
  a third would need a write while both wait for the mutex, which ends the
  same way (the proof has any number).
- `LogTail`: four lines, two rotations (of either kind, in either order) and one
  restart.
- `Detection`: two cycles; for safety, two patterns of one rule that act on one
  target, one of which does not fit its column; for liveness, two rules, one
  with a policy. Deadlock needs two cycles and two patterns.
- `WebSession`: `session_calls` has one tab with two calls, two token pairs
  (`MaxSessions`) and one lost exchange (`MaxLost`): refused together, one
  refused while the other waits, a refresh after a lost one. `session_tabs` has
  two tabs with a call each and two people. A third pair would be a second
  rotation, which starts from the same states; the proofs have any number.
- `WebScreens`: two subjects; one change of each (`MaxVersion`), since only old
  and new are told apart; two requests at once (`MaxAsked`) are enough for one to
  overtake the other, and a screen that would need a third waits.
- `HostPanels`: two items, two actions (`Ids`), one change of the host by others
  (`MaxEdits`). Two requests at once only on the visits where one panel can
  send twice or two panels are side by side (`Busy`); the path to the host and
  back is followed only for forms that create actions of lists or whole-host
  scans (`Followed`), the others are granted or refused. The proofs have any
  number of items, actions and changes.
- `HostSetup`: two hosts and one machine, so that the machine enrolls for one
  and then for the other (`MaxTokens`, `MaxRequests` 2); two reports, one asked
  scan and two workers, so that scans overlap and follow one another. A second
  machine only adds certificates of its own; the proofs have any number.

Symmetry is used only in runs without liveness properties. `CHECK_DEADLOCK` is
off where the system may stop: a closed call, an agent that has ended, a log
that is no longer written, operators who have nothing left to do, bounds that
are spent. The `action_*`, `session_*`, `screens` and `host_panels` runs check
deadlock: there every state has a next step.

## 5. Fairness

- `ActionDelivery`: weak for the agent's loop, which runs from a ticker, and for
  the handlers; strong for the start, selection and commit of a handler, because
  handlers fail but a commit does not fail for ever. `ReliableSpec` has no
  timeout and no crash: with them, an action may stay sent (section 3).
- `EventIngest`: weak for each coroutine, a failed push included: `httpx` ends
  it after 10 s. Nothing is assumed of the agent or of Loki's success.
- `AgentBus`: weak for the sender, for its reaction to a cancelled context, for
  the end of scans (they have deadlines), for the loop's check of the context
  and for the exit. Nothing is assumed of collectors, timers or the server.
- `LogTail`: weak for the reader (a `time.After` loop) and for the logger's
  second write and reopening.
- `Detection`: weak for every cycle, started by Celery's schedule. `TriageSpec`
  keeps workers up. Strong fairness for the answers Loki gives to the rule of
  the pattern is an assumption of the property itself (`Answered`), not of the
  specification: for the other rules Loki may fail for ever.
- `WebSession`: weak for the server's answers, for the end of a refresh and of
  a call, answered or not: a browser ends every fetch. Nothing is assumed of
  users. `session_tabs` checks safety without fairness.
- `WebScreens`: weak for the timer, for the end of each fetch and write, for the
  answer to `useLabMode`. `LatestShown` assumes in its own statement that the
  server answers for good, that the user stays, and that nobody goes on saving
  locations of a host, whose answers put old data back; the versions are bounded, so
  the data stop changing.
- `HostPanels` and `HostSetup`: none; only safety is checked.

## 6. Proofs

All theorems are about the same modules the runs check, for every value of the
constants that satisfies the named assumptions, and with every fault. TLC has
checked each inductive invariant on instances like those of section 3.

**`ActionDeliveryProofs`** (assumptions: `NoRow` is no row, only reverts create
unblock_ip). `AtMostOnce` is not inductive: that a selected or answered command
has not run follows from where commands may be. `IInv` says that an id is in one
place only (`PickInv`, `TodoInv`, `ResultInv`), that one handler of a host is
past its start and one call awaited (`CallInv`, from the host row's lock), what a
handler's loaded rows say of the present ones (`SeenInv`), that the awaited call
carries the taken results (`TakenInv`) and what a reverting client may rely on
(`ClientInv`). One lemma per action shows it kept. From it: `TypeCorrect`,
`AtMostOnceHolds`, `OwnHostHolds`, `TableHolds` (`StatusTruth`),
`NoResultLostHolds`, `UnblockIsJustifiedHolds` and `Refinement`: each step is a
step of `ActionLifecycle`. The step that needs the invariant is the commit, which
sends and reports several actions at once.

**`EventIngestProofs`** (`Own` is part of `Events`, `BatchSize` is positive).
`QuietEventsKept` needs `PushInv`: a push under way carries every quiet event
that is in the list, so that clearing the list loses none of them; an event
received during a push is not quiet. `WireInv` says that an event is on the wire
once. From `IInv`: `QuietEventsKeptHolds`, `BatchBoundedHolds`,
`OwnEventsOnlyHolds`, `ClosedIsDrainedHolds`.

**`AgentProofs`** holds the theorems of both modules of the agent's process.

About `AgentBus` (capacities are positive): `NothingDropped` speaks of four
queues at once; `PlaceInv` makes it inductive by counting: how many events of a
collector have left the channel and entered it says where each number is.
`HeldInv` says who holds an event, `CloseInv` who is past his last send when the
channel is closed. The debounce properties are inductive with the types. From
`IInv`: `NothingDroppedHolds`, `PumpsNeverPanicHolds`,
`TimerPanicsOnlyStoppingHolds`, `WrittenIsDueHolds`, `DebouncedHolds`.

About `LogTail` (the bounds are natural numbers): `FileOK` says of a file
that its lines go up, that a tail ends its line, that the line being written has
none, and that a line written at once has its head and tail side by side; a lemma
shows it kept by each kind of write. `ReaderInv` says that the reader stands after
a line or after the head of a split one, `AheadInv` that all it has still to read
is later than all it emitted. `NextEnd`, a CHOOSE, is met through `LeastPosition`:
a set of positions has a least one, from the well-founded order of the intervals
up to each. From `TailInv`: `InOrderOnceHolds`, `TornOnlyIfSplitHolds`.

**`DetectionProofs`** (patterns belong to one rule; targets are typed). `IInv`
adds to the two properties that rows are written by one transaction at a time
and that an inserted row has no committed one (`LockInv`), that the response to
an inserted alert is there, is added by the same transaction, or is what the
transaction does next (`ResponseInv`), and where a transaction is (`ShapeInv`).
The actions fall in four kinds, with a lemma each: those that empty a
transaction, those that move on inside it, its writes, and what others do. From
`IInv`: `DecisionStandsHolds` and `AlertHasActionHolds`.

**`WebSessionProofs`** (names of tabs are no names of causes). Types and
`KnownInv` (every token in use has been issued) carry three arguments.
`OneRefresh` is inductive beside them, and with it each step is a step of
`SharedRenewal` or leaves it alone (`RenewalSafeHolds`). `IdentityKept` needs
that localStorage is what some tab wrote last and still has (`StoredInv`) and
that all the tokens in use are of one person (`PersonInv`). `ReuseHasCause` needs
that a granted refresh token is seen by nobody but its exchange (`UnseenInv`),
that unheard exchanges are recorded (`DeafInv`), and that a tab which spent a
token is being answered or has another cookie (`SpentInv`).

**`HostSetupProofs`** (`NoHost` is no host). `TokenInv`: a spent token is on no
row, each certificate is of one request, and two requests that hold one token
matched it side by side, which is `TokenSpentOnceHolds`. `FileInv`: what a command
saves is in the files it is past and not in the state, and what it waits for is
in no file yet; relative to it `LastStateIsWhole` is inductive
(`LastStateIsWholeHolds`). `ReportInv` gives `PackagesAreTheirsHolds`. `ScanInv`
gives `VulnsAreCurrentHolds`: a host that is not upset has one scan at most, which
has read what is there now or will be followed by another, or has nothing to
read about any more, and deletes what is there now.

**`WebScreensProofs`** (there is a subject, `Nowhere` is none, two requests
or more may be under way). `CalmIsTold` and
`LoadingMeansAsked` speak of what a view shows; neither is inductive, since a
view does not tell why its data is not there. `ToldInv` says that a screen which
has stopped loading without an error has data, or is a host list being read
again; `AskedInv` that an explanation which has told nothing is still being
asked for; `SlotInv` that only the screen that is open has requests, and that a
request whose `cancelled` flag is down is about the present subject, which is
also what `NeverTurnsBack` rests on: every answer but that to a saved location
comes of such a request. `SavedInv` says that a location was sent from a render
that had a host, so that its answer tells something, too. The twenty screens are told apart by their
traits only where a view or a loader differs. From `IInv`: `TypeCorrect`,
`CalmIsToldHolds`, `LoadingMeansAskedHolds`, `NeverTurnsBackHolds`.

**`HostPanelsProofs`** (there is an item, `NoItem` is none, and the forms whose
requests are followed to the host are those that create actions). Three of the
properties have an invariant of their own. `TwinInv`: without overlapping
requests nothing is past the check beside another request or an unfinished
action for the same, so an insert makes no twin. `SentInv`: a form that is busy
is awaited by one request that is still wired to it, one that is not by none;
the poll that draws a panel anew and a panel that is left cut that wire
(`Orphaned`) and reset the form together. `ShellInv`: the dialog that is open
found the page free and its own button focused; a lemma about `Committed` shows
that clean-up and effect of one render leave that so, and `FocusReturns` follows
for each step. `RemovalIsConfirmed` needs what a draft says all the way from the
snapshot to the command: the page names the host's own backend (`ToolInv`), a
draft names a row that was offered (`OfferOK`, `SlotInv`, `ActionInv`). A rule
of firewalld that goes by the reload of any other action was not permanent,
which the property exempts and nothing more. The lemmas
`RemovedAt` and `OutcomeFacts` say what a command may take from the lists. From
`IInv`: `TypeCorrect`, `TwinsHaveCauseHolds`, `BusyMeansSentHolds`,
`ScrollFreedHolds`, `FocusReturnsHolds`, `RemovalIsConfirmedHolds`, for lists of
any length.

Only model-checked: everything that needs fairness (`EverySettles`,
`EveryEventLeaves`, `EndsWhenItMust`, `WholeLinesArrive`, `EveryPatternAlerted`,
`LatestShown`, the liveness of `SharesRenewal`), which is beyond the prover.
Every invariant and every action property that a run checks is a theorem.

## 7. Not modelled

- Quarantine (12): move, sidecar and restore are file operations in a row; the
  hazard of a crash between the first two is listed with a note.
- Writes that the file system reorders for want of an fsync: `SaveCut` cuts
  `Save` between two of its files or inside of one, and what it wrote before is
  on the disk.
- The blocking firewall (13): who asks for a block and when is in
  `ActionDelivery`; what the command does is one external step.
- What commands do on the host beyond an outcome and an event; durations (a
  ClamAV scan keeps the loop from sending heartbeats); the order of two actions
  of one address (the SELECT has no ORDER BY).
- Counts, times and text of alerts; the 1000-event cut of the Loki query; the
  connection pool shared by the event loops of Celery tasks.
- The keys and signatures of certificates, password hashing, the format of
  tokens: libraries. Creation of hosts and of users: one row each.
- Filters and sorting of what a screen has loaded, popovers that open and
  close, cards that draw a status, texts of feedback: local to one component.
- Component 14: reads, formatting, settings, generated code, checks of one
  request against one row. Rule evaluation is a pure filter and count of one
  answer of Loki; `Detection` takes its result.

## 8. Where to go on

1. Quarantine with crashes and equal content, with the invariant that a file is
   in one place and can be put back.
2. Rule evaluation as operators (filter, grouping, threshold) against a
   reference definition.

A module gets one run for its safety and liveness together where the instance
allows it.
