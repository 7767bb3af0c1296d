# rcon-ui in TLA+

rcon-ui is a daemon in Go that keeps RCON connections to game servers and a React
application that talks to the daemon over HTTP and server-sent events. This directory
holds TLA+ modules that model it, TLC configurations that check them on small instances,
and proofs, for instances of any size: of the safety of the session manager, of a
connection and of the event stream, which implements the promise made to a console; that an
edited profile is the one its session uses; that a profile's row is never a mixture of
two edits; that the page, once at rest, shows what the daemon has; and that its panels show
what the game server took, lose neither edits nor the line being typed, and have every
option under its heading.

    tlc -config MCSession_safety.cfg MCSession.tla     # a run
    tlapm SessionProofs.tla                            # proofs, about a minute
    tlapm ProfilesProofs.tla
    tlapm ProfileFormProofs.tla
    tlapm SourceClientProofs.tla
    tlapm EventStreamProofs.tla
    tlapm FeedProofs.tla
    tlapm PanelsProofs.tla
    tlapm AppProofs.tla                                # some minutes

## The system

| component | state it keeps | operations | talks to |
|---|---|---|---|
| session manager (`internal/session`) | the map of sessions; per session its status, client, `broken` channel and guard, `changed` channel, context; cached discovery reports | Connect, Disconnect, Execute, Discover, Status, Close; one supervisor goroutine per session | API handlers call it; it dials with the client, reads the store, publishes to the hub |
| Source client (`internal/rcon/source`) | mutex, request number, `broken` error, socket deadline | Dial with its handshake, Execute, Close; a watcher goroutine per call | the game server; sessions own it |
| event hub (`internal/event`) | sequence number, history ring, subscribers and their buffers | Publish, Subscribe and its cancel, History | sessions publish; stream handlers subscribe |
| event stream (`handleEvents`, `useEvents.ts`) | handler locals; the browser's last event ID; the console | replay, live forwarding, reconnection, selection of a profile | hub, browser |
| HTTP API (`internal/api`) | none of its own | one handler per route | store, manager, hub |
| profile store (`internal/store`, `internal/secret`) | SQLite rows: profiles with a sealed password, history, macros; a key file | create, update, delete, SetGame, Password, history, macros, migrations | handlers, sessions (dial), discovery |
| discovery (`internal/discovery`) | none; the report is cached by the manager | Discover: fingerprint, options, commands, filters | a session's quietExecute |
| browser: root (`App.tsx`, `api.ts`, `Sidebar.tsx`) | server list, selection, discovery report, tab, view | refreshes, selection, rescan, connect, disconnect, delete; the effects that follow them | API, event stream, panels |
| browser: settings panel | staged edits, messages, an apply under way | stage, discard, apply | root, API |
| browser: prompt and commands | the line, the position in the history, the draft | type, submit, walk the history, complete, run | root, API |
| browser: palette | query, highlight | open, search, move, choose | root |
| browser: templates and catalogue (`catalog`, `enrich`, `TemplatesPanel.tsx`) | the curated tables; the game looked at | look up, group | settings panel |
| browser: server dialog | the fields of a form, a save under way | edit, save, cancel | root, API |
| browser: console | a filter and a scroll position | filter, scroll | event stream |
| daemon (`cmd/rcon-ui`) | configuration | start, signal, shutdown | all of the above |

What makes it hard: the manager's locks are held for a few lines at a time and the
supervisor, any number of API goroutines and `Close` interleave between them; statuses are
set under a lock and published outside it; a connection can die without anybody noticing;
the client cancels I/O from a second goroutine by moving a socket deadline; the stream
hands over from replay to live while events arrive, drops events for slow readers, and is
resumed by a browser that may remember a daemon that is gone. In the browser every function
that awaits an answer goes on with whatever has become of the page meanwhile: another server
selected, the panel unmounted, a list replaced under an index; effects run after a render,
in the order of the source, and see only the last of the events that came before it.

What would make each part correct:

- session manager: one session in force per profile; a failing command always reaches the
  supervisor; nobody sleeps through a transition; no connection is leaked; commands stay in
  their session; a refused password is not retried; stopping ends everything.
- client: a response is all of the reply to its command and nothing else; no read from a
  stream that has lost its place; acceptance only by the server; every call and every
  watcher ends.
- hub and stream: events in order, none twice, none lost but to a full buffer, bounded
  memory, tabs catch up.
- store and API: a connected session uses the profile as it is stored, and a corrected
  password takes effect; a row is what one form said, and discovery touches its game only.
- browser, root: at rest the screen shows what the daemon has, for the selected server; it
  comes to rest; a tab picked by hand stays, and otherwise the tab follows the report.
- browser, panels: staged edits are given up only when they are written, and no value is
  shown that the server did not take; the line begun at the prompt is not lost; what is
  highlighted exists; every option is on the screen once, under its heading.

## Modules

| module | models |
|---|---|
| `Session` | the session manager for one profile |
| `SessionProofs` | its theorems |
| `MCSession` | instances, symmetry and views for TLC |
| `Profiles` | a profile's row, the handlers that write it, and `dial`'s reads (extends `Session`) |
| `ProfilesProofs` | its theorems |
| `MCProfiles` | an instance with one editor and one user |
| `SourceClient`, `MCSourceClient` | one connection: handshake, exchanges, watchers, a server |
| `SourceClientProofs` | its theorems |
| `EventHub` | the hub |
| `EventStream` | hub, SSE handler, EventSource and the hook of a tab (extends `EventHub`) |
| `Feed` | what a console is promised, in four actions |
| `MCEventStream` | an instance with fairness |
| `EventStreamProofs` | its theorems |
| `FeedProofs` | `EventStream` implements `Feed` (extends `EventStreamProofs`) |
| `App`, `MCApp` | the root of the browser application, its requests, its events and its effects |
| `AppProofs` | its theorems |
| `Screen` | what of a server is on the screen |
| `Arrays` | `filter` |
| `Catalog` | the curated options, the lookup of a report's keys in them, both groupings (extends `Arrays`) |
| `Settings` | the settings panel and its applies (extends `Screen`, `Catalog`) |
| `Prompt` | the console's prompt and the history (extends `Screen`, `Arrays`) |
| `Palette` | the command palette (extends `Prompt`) |
| `Panels`, `MCPanels` | the panels together: going from one to another, run buttons, templates (extends `Settings`, `Palette`) |
| `PanelsProofs` | its theorems, with those of what it extends |
| `ProfileForm`, `MCProfileForm` | the edit dialogs of several windows, UpdateServer, and runDiscovery's write |
| `ProfileFormProofs` | its theorem |

### Session

One action is one critical section, channel operation or call of `session.go`; what the
code does between two of them with no lock held is where the others interleave. The
supervisor (`Supervise`) goes check, begin, dial, then backoff and check again, or install,
announce and watch. An API goroutine (`pc`) runs Execute: look-up, on-demand Connect,
second look-up, `waitReady` (check, waiting), the exchange, and on failure the two sections
of `markBroken` and the error line. `SetStatus` is `setStatus` up to the release of its
lock: it wakes those blocked on `changed` and leaves a line in `pend` which `Publish`
publishes later, as the code does. `Connect` is one step because it holds `Manager.mu`
throughout; `Disconnect` and `Close` are several.

Abstractions: one profile, because sessions of different profiles share nothing but the
map; a connection is live or not, which is all an exchange can find out (what happens on it
is `SourceClient`); a dial that fails for whatever reason but the password is `DialError`;
identities of sessions and connections that nothing refers to any more are reused, as by a
garbage collector, so that behaviours are infinite and states finite. `LinkDies` covers a
server that closes and a discovery probe that fails, neither of which the code reports.

### Profiles

The steps of `Session`, and beside them the statements on the row and the handlers that run
them. `handleUpdateServer` is four steps: it reads the row, writes the password if the
request has one, writes the rest, and looks at the status to decide on a restart
(`UpdateReads`, `UpdatePassword`, `UpdateRow`, `UpdateRestarts`), the restart itself being
`ConnectStarts`. It may end between its writes with its request's context (`Abandon`).
`handleConnect` is a check and a Connect, `handleDeleteServer` the steps of Disconnect and a
DELETE. `dial` is two queries and their use (`ReadServer`, `ReadPassword`, `DialAnswered`);
Execute asks the store nothing. `job` says where a handler is, `dialled` what each session
has read. `addr` stands for all the columns `dial` uses but the password.

`excused` is history. Two sessions may differ from the row, and the code knows nothing of
it: one that was read before an edit which then failed after its first write, and one on
which a late `markBroken` has set `disconnected` while it was being connected, so that the
edit sees nothing to restart. Without either excuse `SessionUsesStoredProfile` is false.

Reading the mapped session and reading its status are one step in `UpdateRestarts`: a
session that comes in between began after the write and reads the new row.

### SourceClient

A call of Execute goes new, deadline, send, sentinel, read; Dial does the same without a
sentinel. The watcher of a call is spawned, then parked in its select or, if it finds a
channel closed on arrival, past it; a parked one is committed by the first channel that
closes, and `Fire` is its `SetDeadline`. The socket deadline is represented by whether it
has passed and who set it. The server answers in order, may send noise before its verdict,
any number of packets up to `MaxParts` per command, and one or two echoes of a sentinel. It may stop
answering or go away at any time. A failing exchange may leave part of a packet unread
(`aligned`).

Left out: TCP and TLS establishment, the byte layout of packets, packets that do not parse.

### EventHub, EventStream, Feed

Publish, Subscribe and cancel each hold the hub's lock from start to end and are one action
each. The handler (`phase`) subscribes, takes its snapshot of the history, replays it, and
forwards its buffer. The write of the handler and the reception in the tab are one step:
the network keeps the order, and what is lost when a connection drops is as if it had not
been written. `Select` is the effect of `useEvents` with another profile; `Restart` is a
new daemon. `dropped` and `log` record what the code forgets, for the properties only.

`Feed` says what a console is: lines of its profile, each at most once, in the order of
publication, where lines may be missing and old ones scroll out.

### App

A setter of the source changes a variable at once; what React does about it later is
`Commit`, which renders, runs the effects whose dependencies have changed (`due`,
`Switched`) in the order of the source, and sends the requests they make: `Reopen` is the
effect of `useEvents`, `Cue` the one on events, `Choice` and `ResetChoice` the one on the
selection, `LandOn` the one on the report. A click is committed before anything else
happens, as React does for events of the user; for answers and events there may be several
before a commit, and the effect on events then sees the last event alone. Requests are in
`flight` in the order of sending; the daemon answers them as of some moment before their
reception (`Answered` fixes the answers of some of them when what they read changes), and
answers arrive in any order. `excused` is history: an answer that was overtaken, a request that failed or an event that
was not looked at leaves the list or the report out of date, until a request of the same
kind that was sent later has succeeded. Without these excuses `ScreenAtRest` is false.

The handlers of buttons and of the palette are closures of the last render. What they see as
the selection is the committed one, which is the one whose stream is open (`stream.of`), and
not a selection that an answer has moved since.

The daemon here is what its answers and events show: its profiles, their statuses, and the
report each has cached. Macros and command histories are fetched like the report and
have no further logic in the root; the protocols are read once.

### Panels: Screen, Settings, Prompt, Palette, Catalog

`Shown` says what is mounted. Going to another panel (`Go`) ends the local state of the one
that is left, while an apply goes on behind it: it still writes, and still replaces the
report, but its other setters do nothing (`mine`). An apply is one step per command, one for
the scan that reads everything again, and one for the setters after it; the game server
takes, clamps, ignores or refuses each value, and may change by other means. The prompt's
index and draft, and the palette's highlight, are as in the source; histories arrive, and
commands are put in front, at any time.

`Catalog` has the tables of the two curated games, as far as logic looks at them: key,
section, kind, bounds. Labels, help texts and examples are only displayed.

Left out: numbers with decimals, which the controls format; filters; pins; servers without a
command that writes options, which have no controls; deletion and creation of macros.

### ProfileForm

Every window has a list that may be out of date, and a dialog that begins as the list has
the profile. A save is a request that goes on when the dialog is closed, and whose answer
closes whatever dialog is open by then, as `onClose` does. `Update` is the statement of
UpdateServer; the edit form never sends the game, which the statement then empties. A run of
discovery is four steps: probe, cache, read the row, write the game, each of which may fail.
`saved` and `loose` are history: what the last edit wrote, and whether the game may differ
from the cached report.

The password and the restart of the session are in `Profiles`, creation in `App`.

## Runs

| run | checks | what it shows |
|---|---|---|
| `session_safety` | `TypeOK`, `NoDoubleClose`, `SupervisorReachable`, `NoLostWakeup`, `NoConnectionLeak`, `NoOrphanSession`, `ExchangeStaysInSession`, `RetryDiscipline`, `IInv` | safety of the manager at work |
| `session_live` | `StoppedSupervisorEnds`, `SupervisorReconnects`, `CallsReturn` | progress |
| `session_close` | `NoConnectionLeak`, `CloseReturns` | shutdown |
| `profile_edit` | `ProfilesTypeOK`, `SessionUsesStoredProfile`, `ProfilesInv` | an edit takes effect on the session |
| `stream_tab` | `TypeOK`, `OnlyFullBuffersLose`, `StreamAscends`, `FeedSpec`, `TabsCatchUp` | the stream keeps the promise, restarts included |
| `client_exchange` | `TypeOK`, `WholeResponse`, `AcceptedByServer`, `AlignedReads`, `CallsEnd`, `WatchersEnd` | one connection, safety and progress |
| `profile_form` | `RowIsWhole` | edits and discoveries do not mix |
| `browser_app` | `TypeOK`, `ScreenAtRest`, `TabFollowsReport`, `ChosenTabStays`, `Settles` | the page against a daemon that changes |
| `browser_panels` | `TypeOK`, `ListShowsServer`, `EditsSurvive`, `DraftKept`, `HighlightExists`, `SectionsAgree` | drafts and groupings |

Bounds and why they are enough:

- Two callers and two sessions: every property relates at most two goroutines of one
  session or two sessions; the third connection lets a caller hold a stale one while the
  supervisor goes from one to the next. What more of them could do is settled by the proofs,
  which have no bounds. Initial and maximal backoff of 2 and 3 let the delay grow and be cut.
- The progress runs have one caller, and take the lowest free identity instead of any:
  identities are interchangeable, and symmetry is not sound for liveness. `Settled` and
  `Reachable` view a state without what is never read again or makes no difference.
- `session_safety` and `session_live` stop short of `Close`, which `session_close` has.
- One editor and one user of a profile with two addresses and two passwords, so that a dial
  can mix an old one with a new one. `MCProfiles` lets a goroutine do at once what no other
  can notice (publish a line, end a call), leaves out the death of a link other than by a
  failing command, and views a state without the error, which only decides whether an
  unchanged status wakes callers that go back to sleep. Two editors at once are left to the
  proof, which has any number.
- One tab: tabs share the hub and nothing else, and the proofs have any number. Two profiles, so that the filter matters
  and switching is possible. Two retained events, two buffered, two on the console and four
  published per daemon make every limit bite; two daemons in a row.
- Two calls beside the handshake and three identifiers: the second call starts with
  identifiers already used, with the first one's leftovers still on the wire. `Current`
  views a state without what is never read again.
- `profile_form`: two windows and two runs of discovery, each of which may overlap with any
  other; three edits or saves and two requests of a window under way, so that a dialog can
  be closed on one request and send another. Windows, runs and fingerprints are
  interchangeable. More of them are left to the proof.
- `browser_app`: two servers, so that one can be selected in place of the other; a report of
  the first offers everything and one of the second nothing, so that the tab has somewhere
  to follow it to. The user does two things, and elsewhere one happens; two events are on
  their way at most, which is what it takes for one to hide another. `MCNext` lets the
  daemon's steps wait for a commit, which they do not interfere with, and `View` forgets the
  order between requests of different kinds and messages that are only displayed. Of what
  the user can ask the daemon to do, deleting, which also disconnects, and adding move the
  selection; `MCApp_inductive`, by hand, has disconnecting too.
- `browser_panels`: a behaviour is about settings, about commands, or about the options of
  the games discovery can tell (`focus`): what is local to a panel does not depend on the
  others, while leaving it does, and is in each. Four options of three kinds of which
  two are edited twice, in two applies at once, with one change made elsewhere; histories of
  none, one and two commands, so that an index can be past the end of a newer one; a query
  that finds everything, one that finds some, one that finds nothing.

Deadlock is checked except where the system comes to an end: a connection's calls do
(`client_exchange`), and so do a page at rest whose user and daemon are done
(`browser_app`) and a bounded user at the panels (`browser_panels`, in which moreover a page
that has crashed does nothing more, the last row of the next table).

Fairness. A runnable goroutine runs (weak fairness per goroutine); a dial and an exchange
end, because both have deadlines; timers fire. Nobody has to make a request, publish, or
keep a server up; a server need never answer; a context need never be done.
`SupervisorReconnects` adds its own premise, that dials which are possible again and again
succeed at some time. `CloseReturns` assumes that requests stop, which `serve.go` arranges
by shutting the HTTP server down before it closes the manager. `CallsReturn` does not cover `waitReady`,
which waits for as long as its caller's context lets it. In `App` something of what comes of itself
goes on: a request is served, an answer or an event arrives, a commit is made. Which of
them is first is left open; nobody has to click, and the daemon has to do nothing but answer. No request of the page has a timeout of its own: that it ends is the network's
and the daemon's doing, whose handlers' calls have deadlines.

### Where the code and its documentation part

| run | property | what happens |
|---|---|---|
| `session_reported` | `ConnectionIsReported` | `markBroken` sets `disconnected` after the supervisor has reconnected; the status stays wrong (session.go:396) |
| `browser_report` | `ReportOfSelected` | the report of a server selected before arrives after that of the selected one and stays (App.tsx:79) |
| `prompt_line` | `LineDefined` | a shorter history arrives while the prompt is deep in a longer one; the next step down shows `undefined`, on which rendering throws (CommandInput.tsx:84) |

These configurations show the others; each ends with a counterexample when run by hand:

| configuration | property | what happens |
|---|---|---|
| `MCSession_stream` | `StreamShowsStatus` | two status lines are published in the reverse of the order in which they were set (session.go:352) |
| `MCSession_nilsession` | `ExecuteHasSession` | Disconnect between on-demand Connect and the second look-up: nil session (session.go:148) |
| `MCSession_waiter` | `WaiterIsServed` | the session a caller waits on is replaced before it ever connected, and nobody wakes the caller (session.go:446) |
| `MCEventStream_restart` | `ResumesAfterRestart` | numbers restart at one, resume points do not (api.go:392, useEvents.ts:27) |
| `MCSourceClient_deadline` | `OwnDeadline` | a late watcher cuts the next call's deadline (client.go:316) |

More were met and have no configuration. The late `markBroken` of the first row can also replace
`auth_failed`, which session.go:30-33 calls terminal, and one that is later still closes a
working connection. In the client, a context that is done before `setDeadline` has its cut undone
(client.go:204-207). A call of Execute that fails in `waitReady` publishes no error line,
where App.tsx:162 says the failure is already on the stream. An edit does not restart a
session that says `disconnected` because of a late `markBroken`, where api.go:217-219 says
it is restarted, nor one whose password it changed before failing. Browsers do not look for gaps in the numbers, as event.go:114-115 says
clients can.

In the browser and the store: saving the edit form empties the profile's game, which
UpdateServer takes from a body that does not have it (store.go:232; the comment at
store.go:300-304 says that the form always submits every field). Two runs of discovery that overlap can leave a game that is not the cached
report's. A discovery event refreshes the report but not the list, so that the sidebar's chip
keeps the old game (App.tsx:99-107). The answer to a save whose dialog was closed
closes the dialog opened since, and its fields are lost (App.tsx:356-363). The options
panel fills its command with `replaceAll`, for which `$&` in a value is not literal
(SettingsPanel.tsx:12). A key staged again while it is being applied is dropped at the end
of the apply (SettingsPanel.tsx:113-117), and a panel that is left and entered
again can apply a second time beside the first. A completion made in the middle of the history is lost, a line that the
Commands tab asked for is there again at every later visit of the console, and a draft is
lost with the tab.

## Proofs

`SessionProofs` proves, for any sets of callers, sessions and connections and any backoff
bounds, `TypeOK`, `NoDoubleClose`, `SupervisorReachable`, `NoLostWakeup`,
`NoConnectionLeak`, `NoOrphanSession`, `ExchangeStaysInSession` and `RetryDiscipline`. The
only assumption is `SessionAssumption` on the constants.

None of these is inductive by itself. That a signal is never lost, for example, needs that
the guard `brokenClosed` agrees with the channel it guards (`ChannelInv`), that a client in
place is the connection that channel was made for and has not been signalled
(`ClientInv`), that a connection between dial and install is known to nobody
(`FreshInv`), and that the supervisor watches what the fields name (`WatchInv`). `IInv`
is the conjunction of these with ownership of connections (`OwnerInv`, `LiveInv`), the facts about
the status and about Close, and the safety properties that are inductive relative to them. The proof has a lemma per action,
and in it a step per conjunct which the action can disturb; `Used` restricts the invariants
on the fields to sessions somebody refers to, because a reused identity keeps stale ones.
`session_safety` checks `IInv` too.

`ProfilesProofs` proves that `Profiles` implements `Session`, so that all of the above holds
in it, and `SessionUsesStoredProfile` for any number of editors, callers, addresses and
passwords. The heart of its invariant is `OutdatedInv`: a mapped session that has read
something no longer stored is either about to be replaced, because some handler is between
its write and its restart, or is disconnected and will read again before it connects. That
a handler which sees `disconnected` may rely on the latter is `AttemptInv`, a session that is
attempting a connection says `connecting`; that needs `UnmappedInv`, the session whose status
a Disconnect sets is not mapped any more. `ReadInv` says that what was dialled was read
completely, `DraftInv` what an edit is about to write. `ProfilesAssumption` only tells the
values apart.

`ProfileFormProofs` proves `RowIsWhole` for any number of windows, of requests under way and
of runs of discovery. It is not inductive: that an `Update` keeps the row whole needs that
every request's body, however old, was made by one valid form (`DialogInv`, which also has
that lists show rows), and that a run which is late still writes the cached game needs that,
unless the game is `loose`, whoever is between caching and writing has the cached fingerprint
(`StoringInv`). `FormInv` is the conjunction. That requests taken out of the middle of a
sequence leave requests is a lemma on `RemoveAt`. `FormAssumption` says that blank, unset and
absent values are told apart.

`SourceClientProofs` proves `WholeResponse`, `AcceptedByServer`, `AlignedReads` and `TypeOK`
for any number of calls and of packets in a reply, and any three or more identifiers, which
are reused all the time (`ClientAssumption`). `WholeResponse` is about what a call has
returned; what makes it inductive is a description of the wire while the call is under way.
`OnWire` has it: first at most one packet that the exchange before has left, then the
packets of the reply that have not been read, numbered from the next, then the echoes of the
sentinel. That the first is skipped needs that its identifier is none of the call's two:
between exchanges (`IdleInv`) the most that is left is one echo with the last identifier
used, and of three identifiers the next two are others. An exchange that fails leaves any
amount of its reply on the wire, and nobody finds it there because the connection is broken by
then (`BrokenInv`); that no two exchanges are under way is `MutexInv`. The handshake is
described by `AuthInv`. `ClientInv` is the conjunction.

`EventStreamProofs` proves `TypeOK`, `OnlyFullBuffersLose` and `StreamAscends` for any number
of tabs, profiles and daemons in a row, and any limits (`HubAssumption`,
`StreamAssumption`). `StreamInv` says that the numbers in the history, in a buffer, in what is left of a
replay and on a console ascend, that a console ends at its resume point, and that what a
handler has still to write is newer than it (`HandlerInv`). `OnlyFullBuffersLose` speaks of
consoles that show this run of the daemon only, which is not inductive: a line of an earlier
run may scroll out and leave a gap behind. `AccountedInv` speaks of all: a retained event is
shown, coming, dropped, older than the console, or not above a line of an earlier run. That
the hand-over loses nothing rests on `ReplayInv`: an event that is both in the buffer and in
the history is in the rest of the replay, or is before or after it, so that the handler,
which skips from its buffer what is not above the last number replayed, skips no retained
event that it has yet to write.

`FeedProofs` proves that `EventStream` implements `Feed` with the same `log`, `profile` and
`console`: a write of the handler is a `Show`, a publication a `Publish`, and every other
step but `Select` a stutter. Besides `StreamInv` that needs that whatever is held anywhere
was published, that the log ascends by run and number, and that a buffer holds events of its
tab's profile only (`FeedInv`).

`PanelsProofs` proves `ListShowsServer`, `DraftKept`, `HighlightExists`, `EditsSurvive`,
`SectionsAgree` and `TypeOK` of the panels, for any options, values, texts, commands,
histories and bounds (`SettingsAssumption`, `PromptAssumption`, `PaletteAssumption`,
`PanelsAssumption`). `ListShowsServer` is about a report when the last apply has ended; while
applies are under way, `AnswersCurrent` says that the answer of a scan which nothing has
outdated is what the server has, so that the last to be stored brings it. `DraftKept` and
`HighlightExists` are inductive once the line, the history and the query are typed: a step
into the history puts the line aside and only the step out of it takes it up, and whatever
changes the matches either puts the highlight back to the first or is an arrival that
`moved` excuses. `PanelsInv` is the conjunction. `EditsSurvive` is an action property and
follows from `PanelsInv`: a step that removes a key from the staged edits is a user's, a
panel's end, or the end of an apply that has written that key.

`SectionsAgree` is about computation rather than steps: for any sequence of options that a
server reports, and for every template. A filter and a grouping are recursive functions over
the prefixes of an array (`Among`, `Grouped`), and two lemmas make them reasonable about:
`Induction`, over a set of numbers, which follows from finite sets being well-founded
(`Least`) and needs no operator as a parameter, and `Recursion`, that such a recursion has a
solution. After every row the sections have different names, and each holds what a filter
for its name has kept by then (`Sorted`); so a complete grouping has every row once, in its
order (`GroupedIs`), which the sort does not change (`SortGroups`). That a heading is one
of the catalogue's needs of its tables that a title is one section's (`TheSections`) and an
identifier one game's (`GameIsOne`).

`AppProofs` proves `ScreenAtRest`, `TabFollowsReport`, `ChosenTabStays` and `TypeOK` of the
root, for any number of servers, of requests under way and of events on the wire
(`AppAssumption`). `ScreenAtRest` speaks of the end of a race and says nothing of how it is
run; `ListInv` and `ReportInv` do. A change of the daemon that the screen does not show yet is
announced by an event, on the wire or not looked at, or else is brought by a request: the
last of those that will change what is shown reads, or has read, what is so now; or else
there is no such request, and the screen is right. That must hold only while it matters: while
the list or the report is not excused, or some request that is not `late` will end the
excuse. Three more facts make the report's half inductive. An accident spoils the older
requests before the newer (`ReportOrder`). What is under way for another server than the
one whose stream is open is not last, because the selection that followed sent its own
request (`OthersFirst`). And an answer may be kept for a list or a report that has been
replaced since, which is why a body says whose it is and whether it is still cached.
`TabInv` adds to `TabFollowsReport` where the tab is while a report is awaited. The
configuration `MCApp_inductive` checks these invariants on a small instance; it passes.

Only model-checked: liveness under fairness (`StoppedSupervisorEnds`,
`SupervisorReconnects`, `CallsReturn`, `CloseReturns`, `TabsCatchUp`, `CallsEnd`,
`WatchersEnd`, `Settles`), which this prover cannot do. Every invariant and every action
property that a passing run checks is a theorem.

## Not modelled

- The probes of discovery and the parsing of what servers print
  (`internal/discovery`): conversions of text, with tests of their own. What they find is an input.
- Establishing TCP and TLS, and the byte layout of packets.
- Command history and macros in the store: single statements on tables of their own. Migrations and
  the creation of the key run once, before anything else.
- Start and stop of the daemon (`serve.go`, `config.go`): one goroutine runs them once; the
  timeout of a shutdown with streams open is `net/http`'s, and the part that races with
  sessions, `Manager.Close`, is in `session_close`.
- `Console.tsx`, a filtered view of what `EventStream` delivers; pins, filters, decimal
  steps, theme and layout.
- The desktop shell, the embedded web assets, the test server.

## Plan

What would come next: the weaker promises that hold where the findings are, such as what a
status line may be out of date about when two are published in the wrong order; then macros
and the command history of the store, if they ever become more than single statements.
