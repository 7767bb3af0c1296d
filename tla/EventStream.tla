---------------------------- MODULE EventStream ----------------------------
(***************************************************************************)
(* From the hub to the console of a browser tab: the SSE handler of        *)
(* internal/api/api.go (handleEvents) and the hook of web/src/useEvents.ts *)
(* with the browser's EventSource under it.  A tab has at most one stream  *)
(* open.  Between a write of the handler and the tab the network keeps the *)
(* order; what is on it when the connection drops is lost, which here is   *)
(* the connection dropping before the write.                               *)
(***************************************************************************)
EXTENDS EventHub, Functions

CONSTANTS
  MaxEvents,  \* MAX_EVENTS
  MaxEra      \* bound: runs of the daemon

ASSUME StreamAssumption == MaxEvents \in Nat \ {0} /\ MaxEra \in Nat

VARIABLES
  phase,     \* where the handler of each tab's stream is
  after,     \* its lastSeq: the number the replay starts after
  replayed,  \* its local of that name
  replay,    \* the part of the history it has still to go through
  profile,   \* the profile the tab shows
  lastId,    \* EventSource's last event ID
  console    \* the reducer's state

tabVars    == <<profile, lastId, console>>
streamVars == <<phase, after, replayed, replay>>
vars == <<hubVars, streamVars, tabVars>>

Tabs == Subscribers

Init ==
  /\ HubInit
  /\ phase = [t \in Tabs |-> "closed"]
  /\ after = [t \in Tabs |-> 0]
  /\ replayed = [t \in Tabs |-> 0]
  /\ replay = [t \in Tabs |-> <<>>]
  /\ profile \in [Tabs -> Profiles]
  /\ lastId = [t \in Tabs |-> 0]
  /\ console = [t \in Tabs |-> <<>>]

-----------------------------------------------------------------------------
(* The reducer's append: nothing at or below the newest number, and no     *)
(* more than MaxEvents of them.                                            *)
Appended(s, e) ==
  IF s # <<>> /\ e.seq <= s[Len(s)].seq THEN s
  ELSE IF Len(s) >= MaxEvents
       THEN Append(SubSeq(s, Len(s) - MaxEvents + 2, Len(s)), e)
       ELSE Append(s, e)

(* writeSSE, and the tab receiving what it writes.                         *)
Write(t, e) ==
  /\ lastId' = [lastId EXCEPT ![t] = e.seq]
  /\ console' = [console EXCEPT ![t] = Appended(@, e)]

(* The tab connects, or EventSource reconnects with the Last-Event-ID it   *)
(* holds; the handler subscribes before it reads the history.              *)
Open(t) ==
  /\ phase[t] = "closed"
  /\ Subscribe(t, profile[t])
  /\ phase' = [phase EXCEPT ![t] = "subscribed"]
  /\ after' = [after EXCEPT ![t] = lastId[t]]
  /\ replayed' = [replayed EXCEPT ![t] = lastId[t]]
  /\ UNCHANGED <<era, seq, history, dropped, log, replay, tabVars>>

(* Hub.History takes its snapshot; Replay applies its filter.              *)
Snapshot(t) ==
  /\ phase[t] = "subscribed"
  /\ phase' = [phase EXCEPT ![t] = "replay"]
  /\ replay' = [replay EXCEPT ![t] = history]
  /\ UNCHANGED <<hubVars, after, replayed, tabVars>>

Replay(t) ==
  LET e == Head(replay[t])
  IN  /\ phase[t] = "replay"
      /\ replay[t] # <<>>
      /\ replay' = [replay EXCEPT ![t] = Tail(@)]
      /\ \/ /\ e.seq > after[t] /\ Matches(filter[t], e)
            /\ Write(t, e)
            /\ replayed' = [replayed EXCEPT ![t] = e.seq]
         \/ /\ ~(e.seq > after[t] /\ Matches(filter[t], e))
            /\ UNCHANGED <<replayed, lastId, console>>
      /\ UNCHANGED <<hubVars, phase, after, profile>>

(* Mutant: the handler subscribes only once it has replayed.               *)
SubscribesLate(t) ==
  /\ phase[t] = "replay" /\ replay[t] = <<>>
  /\ phase' = [phase EXCEPT ![t] = "live"]
  /\ Subscribe(t, profile[t])
  /\ UNCHANGED <<era, seq, history, dropped, log, after, replayed, replay, tabVars>>

GoLive(t) ==
  /\ phase[t] = "replay" /\ replay[t] = <<>>
  /\ phase' = [phase EXCEPT ![t] = "live"]
  /\ UNCHANGED <<hubVars, after, replayed, replay, tabVars>>

(* Mutants of the handler's loop.                                          *)
ForwardsAll(t) ==
  /\ phase[t] = "live" /\ ch[t] # <<>>
  /\ ch' = [ch EXCEPT ![t] = Tail(@)]
  /\ Write(t, Head(ch[t]))
  /\ UNCHANGED <<era, seq, history, subs, filter, dropped, log, streamVars, profile>>

StopsAtReplayed(t) ==
  /\ phase[t] = "live" /\ ch[t] # <<>>
  /\ Head(ch[t]).seq > replayed[t]
  /\ ch' = [ch EXCEPT ![t] = Tail(@)]
  /\ Write(t, Head(ch[t]))
  /\ UNCHANGED <<era, seq, history, subs, filter, dropped, log, streamVars, profile>>

(* One turn of the handler's loop: an event the replay did not deliver is  *)
(* written, one it did deliver is skipped.                                 *)
Forward(t) ==
  LET e == Head(ch[t])
  IN  /\ phase[t] = "live" /\ ch[t] # <<>>
      /\ ch' = [ch EXCEPT ![t] = Tail(@)]
      /\ \/ e.seq > replayed[t] /\ Write(t, e)
         \/ e.seq <= replayed[t] /\ UNCHANGED <<lastId, console>>
      /\ UNCHANGED <<era, seq, history, subs, filter, dropped, log, streamVars,
                     profile>>

(* The handler returns: its subscriber is released, its locals are gone.   *)
HangUp(t) ==
  /\ Unsubscribe(t)
  /\ phase' = [phase EXCEPT ![t] = "closed"]
  /\ after' = [after EXCEPT ![t] = 0]
  /\ replayed' = [replayed EXCEPT ![t] = 0]
  /\ replay' = [replay EXCEPT ![t] = <<>>]

(* The connection drops.                                                   *)
Drop(t) ==
  /\ phase[t] # "closed"
  /\ HangUp(t)
  /\ UNCHANGED <<era, seq, history, filter, dropped, log, tabVars>>

(* The user selects another profile: the effect closes the stream, resets  *)
(* the console and connects anew from zero.                                *)
Select(t) ==
  \E p \in Profiles \ {profile[t]} :
    /\ HangUp(t)
    /\ profile' = [profile EXCEPT ![t] = p]
    /\ lastId' = [lastId EXCEPT ![t] = 0]
    /\ console' = [console EXCEPT ![t] = <<>>]
    /\ dropped' = [dropped EXCEPT ![t] = {}]
    /\ UNCHANGED <<era, seq, history, filter, log>>

(* The daemon is restarted; EventSource will reconnect to the new one.     *)
Restart ==
  /\ era < MaxEra
  /\ HubRestart
  /\ phase' = [t \in Tabs |-> "closed"]
  /\ after' = [t \in Tabs |-> 0]
  /\ replayed' = [t \in Tabs |-> 0]
  /\ replay' = [t \in Tabs |-> <<>>]
  /\ UNCHANGED tabVars

Serve(t) == Open(t) \/ Snapshot(t) \/ Replay(t) \/ GoLive(t) \/ Forward(t)

Next ==
  \/ \E p \in Profiles : Publish(p) /\ UNCHANGED <<streamVars, tabVars>>
  \/ \E t \in Tabs : Serve(t) \/ Drop(t) \/ Select(t)
  \/ Restart

Spec == Init /\ [][Next]_vars

(* A handler and EventSource's reconnection are not held up by anything;   *)
(* no one need publish, no connection need drop.                           *)
Fairness == \A t \in Tabs : WF_vars(Serve(t))

-----------------------------------------------------------------------------
TypeOK ==
  /\ HubTypeOK
  /\ phase \in [Tabs -> {"closed", "subscribed", "replay", "live"}]
  /\ after \in [Tabs -> Nat]
  /\ replayed \in [Tabs -> Nat]
  /\ replay \in [Tabs -> Seq(Event)]
  /\ profile \in [Tabs -> Profiles]
  /\ lastId \in [Tabs -> Nat]
  /\ console \in [Tabs -> Seq(Event)]
  /\ \A t \in Tabs : Len(console[t]) <= MaxEvents

Shown(t) == Range(console[t])
Retained == Range(history)

(* What the handler will still write on the stream it has open, or would   *)
(* on the one it is about to open.                                         *)
Coming(t, e) ==
  \/ phase[t] \in {"closed", "subscribed"} /\ e.seq > lastId[t]
  \/ phase[t] = "replay" /\ e.seq > after[t] /\ e \in Range(replay[t])
  \/ phase[t] # "closed" /\ e.seq > replayed[t] /\ e \in Range(ch[t])

(* The tab's console holds nothing of an earlier run of the daemon.        *)
OfThisRun(t) == \A e \in Shown(t) : e.era = era

(* A retained event that the tab ought to show is missing, and not because *)
(* it has scrolled out.                                                    *)
Missing(t, e) ==
  /\ e.profile = profile[t] /\ e \notin Shown(t)
  /\ ~(console[t] # <<>> /\ e.seq < Head(console[t]).seq)

(* The numbers on a stream only ever go up: the order of fan-out, replay   *)
(* and the hand-over between them never make the handler write an event    *)
(* twice or late, so EventSource's resume point never moves back.          *)
StreamAscends ==
  [][\A t \in Tabs : lastId'[t] < lastId[t] => profile'[t] # profile[t]]_vars

(* Subscribing before replaying leaves no hole: what a tab misses of the   *)
(* daemon it is connected to is still on its way, or was lost to a full    *)
(* buffer.                                                                 *)
OnlyFullBuffersLose ==
  \A t \in Tabs : OfThisRun(t) =>
    \A e \in Retained : Missing(t, e) => Coming(t, e) \/ e \in dropped[t]

(* A tab that stops reconnecting and switching ends up with everything     *)
(* that was not dropped.                                                   *)
CaughtUp(t) ==
  /\ phase[t] = "live" /\ ch[t] = <<>>
  /\ OfThisRun(t) => \A e \in Retained : Missing(t, e) => e \in dropped[t]

TabsCatchUp ==
  \A t \in Tabs : <>[][~Drop(t) /\ ~Select(t) /\ ~Restart]_vars => <>[]CaughtUp(t)

-----------------------------------------------------------------------------
(* "globally monotonic, which makes it usable directly as an SSE           *)
(* Last-Event-ID for resuming a dropped stream" (event.go:43-45): a tab    *)
(* that has been written all there was misses only what a full buffer lost,*)
(* whatever happened to its stream before.                                 *)
ResumesAfterRestart ==
  \A t \in Tabs :
    phase[t] = "live" /\ ch[t] = <<>> =>
      \A e \in Retained : Missing(t, e) => e \in dropped[t]

-----------------------------------------------------------------------------
(* The inductive invariant behind StreamAscends and OnlyFullBuffersLose.   *)

Ascends(s) == \A i, j \in DOMAIN s : i < j => s[i].seq < s[j].seq

(* Nothing is newer than the hub's count; only an earlier run of the       *)
(* daemon has counted further.                                             *)
Issued(S) == \A e \in S : e.era <= era /\ (e.era = era => e.seq <= seq)

HubInv ==
  /\ Ascends(history)
  /\ \A e \in Retained : e.era = era /\ e.seq \in 1..seq

BufferInv(t) ==
  /\ Ascends(ch[t])
  /\ \A e \in Range(ch[t]) : e.era = era /\ e.seq \in 1..seq
  /\ phase[t] # "closed" => t \in subs /\ filter[t] = profile[t]

(* The newest line on the console is EventSource's resume point.           *)
ConsoleInv(t) ==
  /\ Ascends(console[t]) /\ Issued(Shown(t))
  /\ IF console[t] = <<>> THEN lastId[t] = 0
     ELSE lastId[t] = console[t][Len(console[t])].seq

(* What the handler has still to write is newer than what it has written,  *)
(* in the replay as in the hand-over from it.                              *)
HandlerInv(t) ==
  /\ phase[t] = "subscribed" => after[t] = lastId[t] /\ replayed[t] = lastId[t]
  /\ phase[t] = "replay" =>
       /\ after[t] <= lastId[t] /\ replayed[t] = lastId[t]
       /\ Ascends(replay[t])
       /\ \A e \in Range(replay[t]) :
            /\ e.era = era /\ e.seq \in 1..seq
            /\ e.seq > after[t] => e.seq > lastId[t]
  /\ phase[t] = "live" =>
       /\ replayed[t] <= lastId[t]
       /\ lastId[t] # replayed[t] => lastId[t] <= seq
       /\ \A e \in Range(ch[t]) : e.seq > replayed[t] => e.seq > lastId[t]

(* A retained event of the profile that is not in the rest of the replay   *)
(* is before or after it.                                                  *)
ReplayInv(t) ==
  phase[t] = "replay" =>
    \A e \in Retained : e.profile = profile[t] =>
      \/ e.seq <= lastId[t]
      \/ e \in Range(replay[t])
      \/ \A r \in Range(replay[t]) : r.seq < e.seq

(* The console is past the event: by what has scrolled out since, or by a  *)
(* line of an earlier run with a higher number.                            *)
Passed(t, e) ==
  \/ console[t] # <<>> /\ e.seq < Head(console[t]).seq
  \/ \E c \in Shown(t) : c.era # era /\ e.seq <= c.seq

AccountedInv(t) ==
  \A e \in Retained : e.profile = profile[t] =>
    e \in Shown(t) \/ Coming(t, e) \/ e \in dropped[t] \/ Passed(t, e)

TabInv(t) ==
  /\ BufferInv(t) /\ ConsoleInv(t) /\ HandlerInv(t)
  /\ ReplayInv(t) /\ AccountedInv(t)

StreamInv ==
  /\ TypeOK
  /\ HubInv
  /\ \A t \in Tabs : TabInv(t)

-----------------------------------------------------------------------------
(* The stream keeps the promise of Feed: a tab is shown lines of its own   *)
(* profile, in the order the daemon published them, none of them twice,    *)
(* whatever drops, resumes, restarts or is switched in between.            *)
Promise == INSTANCE Feed WITH Tabs <- Tabs, Profiles <- Profiles,
                              log <- log, profile <- profile,
                              console <- console

FeedSpec == Promise!Spec

Earlier(e, f) == e.era < f.era \/ (e.era = f.era /\ e.seq < f.seq)

(* What that takes besides StreamInv: the hub, the handlers and the tabs   *)
(* hold published events only, a handler those of its tab's profile.       *)
FeedTab(t) ==
  /\ Range(ch[t]) \subseteq Range(log)
  /\ Range(replay[t]) \subseteq Range(log)
  /\ Shown(t) \subseteq Range(log)
  /\ t \in subs => filter[t] = profile[t]
  /\ \A e \in Range(ch[t]) : e.profile = profile[t]

LogInv ==
  /\ \A i, j \in DOMAIN log : i < j => Earlier(log[i], log[j])
  /\ Issued(Range(log))
  /\ Retained \subseteq Range(log)

FeedInv == LogInv /\ \A t \in Tabs : FeedTab(t)

=============================================================================
