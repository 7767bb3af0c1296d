-------------------------------- MODULE App --------------------------------
(***************************************************************************)
(* The root of the browser application (web/src/App.tsx): the server list, *)
(* the selection, the discovery report and the tab, the requests that      *)
(* fetch them and the effects React runs when they change.  The daemon is  *)
(* what its answers and its events show.                                   *)
(*                                                                         *)
(* A setter changes the state at once; the effects that depend on it run   *)
(* in Commit, later, and what arrives in between is rendered with it.      *)
(* Answers arrive in any order, or say that the request has failed.        *)
(***************************************************************************)
EXTENDS Naturals, Sequences, SequencesExt

CONSTANTS
  Servers,   \* identifiers of profiles, numbers in the order of the list
  None,      \* null
  Caps,      \* what scans of each server find: options to set, commands to run
  Posts,     \* the changes a user can request
  MaxActs,   \* what the user does in a behaviour
  MaxTurns,  \* what happens otherwise: connections, scans, failures
  MaxWire    \* events on their way to the browser

Statuses == {"connected", "disconnected"}
Lists == UNION {[S -> Statuses] : S \in SUBSET Servers}
Reports == [of : Servers, caps : SUBSET {"settings", "commands"}, cached : BOOLEAN]
Tabs == {"settings", "commands", "console"}
Kinds == {"list", "report", "rescan"} \cup Posts

ASSUME AppAssumption ==
  /\ Servers \subseteq Nat /\ None \notin Servers \cup Reports
  /\ Caps \in [Servers -> SUBSET SUBSET {"settings", "commands"}]
  /\ Posts \subseteq {"connect", "disconnect", "edit", "delete", "add"}
  /\ MaxActs \in Nat /\ MaxTurns \in Nat /\ MaxWire \in Nat \ {0}

VARIABLES
  profiles,    \* the daemon's profiles ...
  status,      \* ... whether each is connected ...
  scan,        \* ... and what its cached report has, if there is one
  list,        \* servers, with the status of each
  loadError,   \* the last refresh of the list has failed
  selected,    \* selectedId
  report,      \* the report, whose it is, and whether it is still cached
  reportError, \* a message stands beside or instead of the report
  rescanning,
  tab,
  touched,     \* tabTouched
  last,        \* the stream of the last event
  due,         \* what has changed since the last commit: events, report, a click
  kept,        \* the last event the daemon retains of each profile
  stream,      \* the profile whose events arrive, and those on their way
  flight,      \* requests, in the order in which they were sent
  acts, turns, \* how much has been done, for the bounds
  excused      \* history: what an accident has left out of date

daemonVars == <<profiles, status, scan, kept>>
viewVars == <<list, loadError, selected, report, reportError, rescanning, tab,
              touched, last>>
vars == <<daemonVars, viewVars, due, stream, flight, acts, turns, excused>>

Request(kind, s) ==
  [kind |-> kind, of |-> s, state |-> "sent", body |-> None, late |-> FALSE]

(* defaultTab: the highest rung a report puts a server on.                 *)
DefaultTab(r) ==
  CASE r = None -> "console"
    [] r # None /\ "settings" \in r.caps -> "settings"
    [] r # None /\ "settings" \notin r.caps /\ "commands" \in r.caps -> "commands"
    [] OTHER -> "console"

(* The tabs that are offered: without a report, all of them.               *)
Offered == IF report = None THEN Tabs ELSE report.caps \cup {"console"}

(* The page loads: the effects of the first commit have run.               *)
Init ==
  /\ profiles \in SUBSET Servers
  /\ status \in [Servers -> Statuses]
  /\ scan \in [Servers -> (SUBSET {"settings", "commands"}) \cup {None}]
  /\ \A s \in Servers \ profiles : status[s] = "disconnected" /\ scan[s] = None
  /\ list = <<>> /\ loadError = FALSE
  /\ selected \in Servers \cup {None}
  /\ report = None /\ reportError = FALSE /\ rescanning = FALSE
  /\ tab = "console" /\ touched = FALSE
  /\ last = "none" /\ due = {} /\ kept \in [Servers -> {"none", "other"}]
  /\ stream = [of |-> selected, wire |-> <<>>]
  /\ flight = <<Request("list", None)>> \o
              IF selected = None THEN <<>> ELSE <<Request("report", selected)>>
  /\ acts = 0 /\ turns = 0 /\ excused = {}

----------------------------------------------------------------------------
(* History.  An accident excuses what requests of a kind fetch, until one  *)
(* sent later has succeeded.                                               *)

Fetches(kind) ==
  IF kind \in {"report", "rescan"} THEN "report" ELSE "list"

Mark(requests, kinds) ==
  [i \in DOMAIN requests |->
     IF Fetches(requests[i].kind) \in kinds
     THEN [requests[i] EXCEPT !.late = TRUE] ELSE requests[i]]

Accident(kinds, requests) ==
  /\ excused' = excused \cup kinds
  /\ flight' = Mark(requests, kinds)

----------------------------------------------------------------------------
(* The daemon.                                                             *)

Act == acts < MaxActs /\ acts' = acts + 1 /\ UNCHANGED turns
Turn == turns < MaxTurns /\ turns' = turns + 1 /\ UNCHANGED acts

(* An event is published: the open stream has it if it is the profile's.   *)
Publish(s, kind) ==
  /\ kept' = [kept EXCEPT ![s] = kind]
  /\ IF stream.of # s THEN UNCHANGED stream
     ELSE /\ Len(stream.wire) < MaxWire
          /\ stream' = [stream EXCEPT !.wire = Append(@, kind)]

(* What the daemon answers now: handleListServers; handleGetDiscovery, the *)
(* cached report or 404.                                                   *)
Answer(r) ==
  CASE r.kind = "list" -> [s \in profiles |-> status[s]]
    [] r.kind = "report" /\ scan[r.of] # None -> [of |-> r.of, caps |-> scan[r.of], cached |-> TRUE]
    [] OTHER -> None

(* When the daemon changes, some requests have been answered, and some not. *)
Answered(held) ==
  [i \in DOMAIN flight |->
     IF i \in held /\ flight[i].state = "sent"
     THEN [flight[i] EXCEPT !.state = "ok", !.body = Answer(flight[i])] ELSE flight[i]]

Held(kind, s) ==
  SUBSET {i \in DOMAIN flight :
            flight[i].state = "sent" /\ flight[i].kind = kind /\ flight[i].of = s}

(* A report that is replaced in the cache: copies elsewhere are outdated.  *)
Outdate(r, s) ==
  IF r # None /\ r.of = s THEN [r EXCEPT !.cached = FALSE] ELSE r

OutdateAll(requests, s) ==
  [i \in DOMAIN requests |->
     IF Fetches(requests[i].kind) = "report"
     THEN [requests[i] EXCEPT !.body = Outdate(@, s)] ELSE requests[i]]

Scan(s, caps) ==
  /\ scan' = [scan EXCEPT ![s] = caps]
  /\ report' = Outdate(report, s)
  /\ Publish(s, "discovery")

(* A connection comes or goes, whoever caused it.                          *)
StatusChanges(s) ==
  /\ Turn /\ s \in profiles
  /\ \E x \in Statuses \ {status[s]} : status' = [status EXCEPT ![s] = x]
  /\ Publish(s, "status")
  /\ \E held \in Held("list", None) :
       Accident(IF stream.of = s THEN {} ELSE {"list"}, Answered(held))
  /\ UNCHANGED <<profiles, scan, viewVars, due>>

(* The run of discovery after each connection, or one of another window.   *)
Discovers(s) ==
  /\ Turn /\ s \in profiles /\ status[s] = "connected"
  /\ \E caps \in Caps[s] : Scan(s, caps)
  /\ \E held \in Held("report", s) : flight' = OutdateAll(Answered(held), s)
  /\ UNCHANGED <<profiles, status, list, loadError, selected, reportError,
                 rescanning, tab, touched, last, due, excused>>

(* A line of another stream: a command, its response, an error.            *)
Chatters(s) ==
  /\ Turn /\ s = stream.of /\ s \in profiles
  /\ Publish(s, "other")
  /\ UNCHANGED <<profiles, status, scan, viewVars, due, flight, excused>>

(* handleDiscover: a scan of a connected server, which also publishes.     *)
ServeRescan(i) ==
  LET s == flight[i].of IN
  /\ flight[i].kind = "rescan" /\ s \in profiles /\ status[s] = "connected"
  /\ \E caps \in Caps[s], held \in Held("report", s) :
       /\ Scan(s, caps)
       /\ flight' = [OutdateAll(Answered(held), s) EXCEPT
                       ![i].state = "ok",
                       ![i].body = [of |-> s, caps |-> caps, cached |-> TRUE]]
  /\ UNCHANGED <<profiles, status>>

(* The handlers that connect, disconnect, change, remove or create.        *)
ServePost(i) ==
  LET s == flight[i].of
      kind == flight[i].kind IN
  /\ kind \in Posts /\ (s \in profiles <=> kind # "add")
  /\ \E held \in Held("list", None) : flight' = [Answered(held) EXCEPT ![i].state = "ok"]
  /\ profiles' = CASE kind = "delete" -> profiles \ {s}
                   [] kind = "add" -> profiles \cup {s}
                   [] OTHER -> profiles
  /\ IF kind \in {"disconnect", "edit", "delete"} /\ status[s] = "connected"
     THEN status' = [status EXCEPT ![s] = "disconnected"] /\ Publish(s, "status")
     ELSE UNCHANGED <<status, kept, stream>>
  /\ UNCHANGED <<scan, report>>

(* Nothing to connect or to scan.                                          *)
Refuse(i) ==
  LET s == flight[i].of
      kind == flight[i].kind IN
  /\ \/ kind = "rescan" /\ (s \notin profiles \/ status[s] # "connected")
     \/ kind \in Posts \ {"add"} /\ s \notin profiles
  /\ flight' = [flight EXCEPT ![i].state = "failed"]
  /\ UNCHANGED <<daemonVars, report, stream>>

(* What the daemon does for a request, other than to read.                 *)
Serve(i) ==
  /\ flight[i].state = "sent"
  /\ ServeRescan(i) \/ ServePost(i) \/ Refuse(i)
  /\ UNCHANGED <<list, loadError, selected, reportError, rescanning, tab,
                 touched, last, due, acts, turns, excused>>

(* A request fails, before it has had an effect or after.                  *)
Fail(i) ==
  /\ Turn /\ flight[i].state # "failed"
  /\ Accident({Fetches(flight[i].kind)},
              [flight EXCEPT ![i].state = "failed", ![i].body = None])
  /\ UNCHANGED <<daemonVars, viewVars, due, stream>>

----------------------------------------------------------------------------
(* Answers.                                                                *)

(* One that comes before an older one has been overtaken by it.            *)
Overtaken(i) ==
  \E j \in 1 .. (i - 1) : /\ flight[j].kind \notin Posts
                          /\ Fetches(flight[j].kind) = Fetches(flight[i].kind)

(* What an answer says: if nothing holds it up, what is so now.            *)
Body(r) == IF r.state = "sent" THEN Answer(r) ELSE r.body

(* The request is over: it excuses, or it ends an excuse.                  *)
Over(i) ==
  LET kind == {Fetches(flight[i].kind)}
      rest == RemoveAt(flight, i) IN
  CASE flight[i].state = "failed" -> flight' = rest /\ UNCHANGED excused
    [] flight[i].state # "failed" /\ Overtaken(i) -> Accident(kind, rest)
    [] OTHER -> /\ flight' = rest
                /\ excused' = IF flight[i].late THEN excused ELSE excused \ kind

(* Mutant: the tab follows only a report there is.                         *)
SetReportIfAny(r, error) ==
  /\ report' = r /\ reportError' = error
  /\ due' = IF r = None THEN due ELSE due \cup {"report"}

(* setReport and setReportError.                                           *)
SetReport(r, error) ==
  /\ report' = r /\ reportError' = error
  /\ due' = IF r = None /\ report = None THEN due ELSE due \cup {"report"}

(* refreshServers: a selection whose server is gone moves to the first.    *)
Kept(current, servers) ==
  IF current \in servers THEN current
  ELSE IF servers = {} THEN None ELSE CHOOSE s \in servers : \A t \in servers : s <= t

ReceiveList(i) ==
  /\ flight[i].kind = "list"
  /\ Over(i)
  /\ IF flight[i].state # "failed"
     THEN /\ list' = Body(flight[i]) /\ loadError' = FALSE
          /\ selected' = Kept(selected, DOMAIN list')
     ELSE loadError' = TRUE /\ UNCHANGED <<list, selected>>
  /\ UNCHANGED <<daemonVars, report, reportError, rescanning, tab, touched,
                 last, due, stream, acts, turns>>

(* refreshDiscovery: whatever server is selected by now.                   *)
ReceiveReport(i) ==
  /\ flight[i].kind = "report"
  /\ Over(i)
  /\ IF flight[i].state # "failed" THEN SetReport(Body(flight[i]), FALSE)
                                   ELSE SetReport(None, TRUE)
  /\ UNCHANGED <<daemonVars, list, loadError, selected, rescanning, tab,
                 touched, last, stream, acts, turns>>

(* rescan: a failure leaves the report in place.                           *)
ReceiveRescan(i) ==
  /\ flight[i].kind = "rescan" /\ flight[i].state # "sent"
  /\ Over(i)
  /\ rescanning' = FALSE
  /\ IF flight[i].state = "ok" THEN SetReport(flight[i].body, FALSE)
     ELSE reportError' = TRUE /\ UNCHANGED <<report, due>>
  /\ UNCHANGED <<daemonVars, list, loadError, selected, tab, touched, last,
                 stream, acts, turns>>

(* A change that has been made is followed by a refresh.                   *)
ReceivePost(i) ==
  /\ flight[i].kind \in Posts /\ flight[i].state # "sent"
  /\ flight' = RemoveAt(flight, i) \o
               IF flight[i].state = "ok" THEN <<Request("list", None)>> ELSE <<>>
  /\ UNCHANGED <<daemonVars, viewVars, due, stream, acts, turns, excused>>

Receive(i) ==
  ReceiveList(i) \/ ReceiveReport(i) \/ ReceiveRescan(i) \/ ReceivePost(i)

(* The stream's listener.  An event that is followed by another before     *)
(* the commit is not looked at.                                            *)
Cued(kind) ==
  CASE kind = "status" -> {"list"} [] kind = "discovery" -> {"report"}
    [] OTHER -> {}

Deliver ==
  /\ stream.wire # <<>>
  /\ stream' = [stream EXCEPT !.wire = Tail(@)]
  /\ last' = Head(stream.wire) /\ due' = due \cup {"events"}
  /\ Accident(IF "events" \in due THEN Cued(last) \ Cued(last') ELSE {}, flight)
  /\ UNCHANGED <<daemonVars, list, loadError, selected, report, reportError,
                 rescanning, tab, touched, acts, turns>>

----------------------------------------------------------------------------
(* A commit: React renders, and runs the effects whose values have         *)
(* changed in the order of the source.                                     *)

Switched == selected # stream.of

(* useEvents: the list is emptied and a new stream replays what is kept.   *)
Reopen ==
  IF Switched
  THEN /\ last' = "none"
       /\ stream' = [of |-> selected,
                     wire |-> IF selected = None \/ kept[selected] = "none" THEN <<>>
                              ELSE <<kept[selected]>>]
  ELSE UNCHANGED <<last, stream>>

(* Mutant: a discovery event is a cue to scan again.                       *)
CueScan ==
  CASE "events" \notin due /\ ~Switched -> <<>>
    [] last = "status" -> <<Request("list", None)>>
    [] last = "discovery" /\ selected # None -> <<Request("rescan", selected)>>
    [] OTHER -> <<>>

(* Mutant: the effect looks at status events only.                         *)
CueStatus ==
  IF ("events" \in due \/ Switched) /\ last = "status"
  THEN <<Request("list", None)>> ELSE <<>>

(* The effect on events, with the list as it was rendered.                 *)
Cue ==
  IF "events" \notin due /\ ~Switched THEN <<>>
  ELSE CASE last = "status" -> <<Request("list", None)>>
         [] last = "discovery" /\ selected # None -> <<Request("report", selected)>>
         [] OTHER -> <<>>

(* Mutant: without the early return for no selection.                      *)
ChoiceAlways == IF Switched THEN <<Request("report", selected)>> ELSE <<>>

(* The effect on selectedId.                                               *)
Choice ==
  IF Switched /\ selected # None THEN <<Request("report", selected)>> ELSE <<>>

(* Mutant: the choice of a tab outlives the server it was about.           *)
KeepChoice ==
  /\ touched' = touched
  /\ report' = IF Switched /\ selected = None THEN None ELSE report
  /\ reportError' = (reportError /\ ~(Switched /\ selected = None))

ResetChoice ==
  /\ touched' = (touched /\ Choice = <<>>)
  /\ report' = IF Switched /\ selected = None THEN None ELSE report
  /\ reportError' = (reportError /\ ~(Switched /\ selected = None))

(* The effect on the report, after that.                                   *)
LandOn ==
  tab' = CASE "report" \in due /\ ~touched' -> DefaultTab(report)
           [] ~("report" \in due /\ ~touched') /\ Choice # <<>> -> "console"
           [] OTHER -> tab

Commit ==
  /\ due # {} \/ Switched
  /\ Reopen /\ ResetChoice /\ LandOn
  /\ due' = IF report' = report THEN {} ELSE {"report"}
  /\ LET lost == IF Switched /\ Contains(stream.wire, "status") THEN {"list"} ELSE {}
     IN /\ excused' = excused \cup lost
        /\ flight' = Mark(flight, lost) \o Cue \o Choice
  /\ UNCHANGED <<daemonVars, list, loadError, selected, rescanning, acts, turns>>

----------------------------------------------------------------------------
(* The user.                                                               *)

(* A click is rendered before anything else, without the events that were  *)
(* not, and these are gone with the old stream.                            *)
Select(s) ==
  /\ Act /\ s \in DOMAIN list \ {selected}
  /\ selected' = s
  /\ due' = (due \ {"events"}) \cup {"click"}
  /\ last' = IF "events" \in due THEN "none" ELSE last
  /\ Accident(IF "events" \in due THEN Cued(last) ELSE {}, flight)
  /\ UNCHANGED <<daemonVars, list, loadError, report, reportError, rescanning,
                 tab, touched, stream>>

(* The handlers of the other actions are closures of the last render: the  *)
(* selection they see is the committed one, whose stream is open.          *)

(* A tab of the panel, or one the palette has for this report.             *)
ChooseTab(t) ==
  /\ Act /\ stream.of \in DOMAIN list
  /\ \/ ~loadError /\ t \in Offered
     \/ report # None /\ t \in report.caps
  /\ tab' = t /\ touched' = TRUE
  /\ UNCHANGED <<daemonVars, list, loadError, selected, report, reportError,
                 rescanning, last, due, stream, flight, excused>>

(* The button is off while a scan is under way; the palette's command is not. *)
Rescan ==
  /\ Act /\ stream.of \in DOMAIN list
  /\ rescanning' = TRUE
  /\ flight' = Append(flight, Request("rescan", stream.of))
  /\ UNCHANGED <<daemonVars, list, loadError, selected, report, reportError,
                 tab, touched, last, due, stream, excused>>

(* A request or its answer is about a server.                              *)
Names(r, s) ==
  \/ r.of = s
  \/ r.body # None /\ IF r.kind = "list" THEN s \in DOMAIN r.body ELSE r.body.of = s

(* Connect, disconnect, edit and delete act on the selected server; one    *)
(* that is added gets an identifier nothing knows.                         *)
Post(kind) ==
  /\ Act
  /\ \E s \in Servers :
       /\ IF kind # "add" THEN s = stream.of /\ s \in DOMAIN list
          ELSE /\ s \notin profiles \cup DOMAIN list \cup {selected, stream.of}
               /\ report # None => report.of # s
               /\ \A i \in DOMAIN flight : ~Names(flight[i], s)
       /\ flight' = Append(flight, Request(kind, s))
  /\ UNCHANGED <<daemonVars, viewVars, due, stream, excused>>

Daemon ==
  \/ \E s \in Servers : StatusChanges(s) \/ Discovers(s) \/ Chatters(s)
  \/ \E i \in DOMAIN flight : Serve(i) \/ Fail(i)

Browser ==
  /\ "click" \notin due
  /\ \/ Deliver \/ Rescan
     \/ \E i \in DOMAIN flight : Receive(i)
     \/ \E s \in Servers : Select(s)
     \/ \E t \in Tabs : ChooseTab(t)
     \/ \E kind \in Posts : Post(kind)

Next == Daemon \/ Browser \/ Commit

(* What comes of itself goes on: the daemon serves requests, answers and   *)
(* events arrive, React commits.  In which order is left open.             *)
Fairness ==
  WF_vars(\/ \E i \in DOMAIN flight : Serve(i)
          \/ "click" \notin due /\ (Deliver \/ \E i \in DOMAIN flight : Receive(i))
          \/ Commit)

Spec == Init /\ [][Next]_vars /\ Fairness

----------------------------------------------------------------------------
Asked(kinds, servers, states, bodies) ==
  [kind : kinds, of : servers, state : states, body : bodies, late : BOOLEAN]

Requests ==
  Asked({"list"}, {None}, {"sent", "failed"}, {None})
    \cup Asked({"list"}, {None}, {"ok"}, Lists)
    \cup Asked({"report", "rescan"}, Servers, {"sent", "failed"}, {None})
    \cup Asked({"report", "rescan"}, Servers, {"ok"}, Reports \cup {None})
    \cup Asked(Posts, Servers, {"sent", "ok", "failed"}, {None})

TypeOK ==
  /\ profiles \subseteq Servers /\ status \in [Servers -> Statuses]
  /\ scan \in [Servers -> (SUBSET {"settings", "commands"}) \cup {None}]
  /\ kept \in [Servers -> {"none", "status", "discovery", "other"}]
  /\ list \in Lists /\ selected \in Servers \cup {None}
  /\ report \in Reports \cup {None}
  /\ {loadError, reportError, rescanning, touched} \subseteq BOOLEAN
  /\ tab \in Tabs /\ due \subseteq {"events", "report", "click"}
  /\ last \in {"none", "status", "discovery", "other"}
  /\ stream \in [of : Servers \cup {None}, wire : Seq({"status", "discovery", "other"})]
  /\ Len(stream.wire) <= MaxWire /\ flight \in Seq(Requests)
  /\ acts \in 0 .. MaxActs /\ turns \in 0 .. MaxTurns /\ excused \subseteq {"list", "report"}

(* Nothing is under way between the daemon and the screen.                 *)
AtRest ==
  flight = <<>> /\ due = {} /\ stream.wire = <<>> /\ ~Switched

(* At rest the screen shows what the daemon has: the report is the         *)
(* selected server's and the cached one, the sidebar lists the profiles    *)
(* with their statuses.  The fetches of a selection, a scan, a change and  *)
(* of events make up for each other, unless answers overtook one another,  *)
(* a request failed, or an event hid behind a later one.                   *)
ScreenAtRest ==
  AtRest =>
    /\ "list" \notin excused => list = [s \in profiles |-> status[s]]
    /\ "report" \notin excused /\ selected # None =>
         IF report = None THEN scan[selected] = None
         ELSE report.of = selected /\ report.cached

(* The report on the screen at rest is of the server it is shown for, in   *)
(* whatever order the answers came: this the code does not achieve.        *)
ReportOfSelected ==
  AtRest /\ selected \in DOMAIN list /\ report # None => report.of = selected

(* Why: each change is followed by an event, an event by a request, and    *)
(* the last of the requests that will change what is shown finds out what  *)
(* is so.  First the list.                                                 *)
Listed == [s \in profiles |-> status[s]]

BringsList(r) ==
  r.kind = "list" /\ (r.state = "sent" \/ (r.state = "ok" /\ r.body = Listed))

Announced(kind) ==
  \/ \E n \in DOMAIN stream.wire : stream.wire[n] = kind
  \/ "events" \in due /\ last = kind

ListComes ==
  \/ Announced("status")
  \/ \E i \in DOMAIN flight : flight[i].kind \in Posts /\ flight[i].state = "ok"
  \/ \E i \in DOMAIN flight :
       BringsList(flight[i]) /\ \A j \in DOMAIN flight : j > i => flight[j].kind # "list"
  \/ list = Listed /\ \A i \in DOMAIN flight : flight[i].kind # "list"

ListMatters ==
  \/ "list" \notin excused
  \/ \E i \in DOMAIN flight : flight[i].kind = "list" /\ ~flight[i].late

ListInv ==
  /\ ListMatters => ListComes
  /\ \A i \in DOMAIN flight :
       flight[i].kind = "list" /\ flight[i].state = "failed" => flight[i].late

(* The report of the server whose stream is open.  A scan that is refused  *)
(* shows nothing, and one that is not, is followed by its event.           *)
ShowsReport(r) ==
  r.kind = "report" \/ (r.kind = "rescan" /\ r.state = "ok")

Current(r) ==
  IF r = None THEN scan[stream.of] = None ELSE r.of = stream.of /\ r.cached

BringsReport(r) ==
  /\ r.of = stream.of
  /\ \/ r.kind = "report" /\ r.state = "sent"
     \/ r.kind \in {"report", "rescan"} /\ r.state = "ok" /\ Current(r.body)

ReportComes ==
  \/ Announced("discovery")
  \/ \E i \in DOMAIN flight :
       BringsReport(flight[i]) /\ \A j \in DOMAIN flight : j > i => ~ShowsReport(flight[j])
  \/ Current(report) /\ \A i \in DOMAIN flight : ~ShowsReport(flight[i])

ReportMatters ==
  \/ "report" \notin excused
  \/ \E i \in DOMAIN flight : ShowsReport(flight[i]) /\ ~flight[i].late

(* Accidents spoil the older requests, and a selection is followed by its  *)
(* own: what is under way for another server is not the last.              *)
Spoilt(i) == Fetches(flight[i].kind) = "report" /\ flight[i].late

ReportOrder ==
  /\ \A i, j \in DOMAIN flight :
       j < i /\ Fetches(flight[j].kind) = "report" /\ Spoilt(i) => Spoilt(j)
  /\ "report" \notin excused => \A i \in DOMAIN flight : ~Spoilt(i)
  /\ \A i \in DOMAIN flight :
       flight[i].kind = "report" /\ flight[i].state = "failed" => flight[i].late

OthersFirst ==
  stream.of # None =>
    \A i \in DOMAIN flight :
      Fetches(flight[i].kind) = "report" /\ ~flight[i].late /\ flight[i].of # stream.of =>
        \E j \in DOMAIN flight : j > i /\ flight[j].kind = "report" /\ flight[j].of = stream.of

ReportInv ==
  /\ stream.of # None /\ ReportMatters => ReportComes
  /\ ReportOrder /\ OthersFirst

(* A tab picked by hand stays until the user picks another, or another     *)
(* server: a report that comes later does not move it.                     *)
ChosenTabStays ==
  [][touched /\ touched' /\ tab' # tab => \E t \in Tabs : ChooseTab(t)]_vars

(* Whoever picks nothing is on the highest rung of the report on screen    *)
(* once no report is awaited, also after a switch in mid-answer.           *)
TabFollowsReport ==
  ~touched /\ due = {} /\ ~Switched
    /\ (\A i \in DOMAIN flight : Fetches(flight[i].kind) # "report")
    => tab = DefaultTab(report)

(* Nothing moves the tab but the report, when it has changed; a switch has *)
(* a report fetched.                                                       *)
TabInv ==
  ~touched /\ "report" \notin due =>
    \/ tab = DefaultTab(report)
    \/ tab = "console" /\ \E i \in DOMAIN flight : flight[i].kind = "report"

(* The refetch that a discovery event causes publishes no other: once      *)
(* users and servers are quiet, everything comes to rest.                  *)
Settles == <>[]AtRest

=============================================================================
