----------------------------- MODULE FeedProofs -----------------------------
(* The event stream keeps the promise of Feed.                             *)
EXTENDS EventStreamProofs

-----------------------------------------------------------------------------
(* The log and what is taken from it.                                      *)

(* A step that leaves the log leaves what is said of it.                   *)
LEMMA SameLog ==
  ASSUME LogInv, UNCHANGED <<era, seq, history, log>>
  PROVE  LogInv'
BY DEF LogInv, Issued, Retained, Earlier

(* A step of another tab leaves a tab's events.                            *)
LEMMA SameFeed ==
  ASSUME NEW u \in Tabs, FeedTab(u), UNCHANGED log,
         replay'[u] = replay[u], profile'[u] = profile[u],
         console'[u] = console[u], ch'[u] = ch[u], filter'[u] = filter[u],
         u \in subs' => u \in subs
  PROVE  FeedTab(u)'
BY DEF FeedTab, Shown

(* A tab whose stream is closed holds what it shows.                       *)
LEMMA ClosedFeed ==
  ASSUME NEW u \in Tabs, FeedTab(u), UNCHANGED log, replay'[u] = <<>>, ch'[u] = <<>>,
         u \notin subs', console'[u] = console[u] \/ console'[u] = <<>>
  PROVE  FeedTab(u)'
BY EmptyRange DEF FeedTab, Shown

(* Nothing but what was shown and the new event is shown.                  *)
LEMMA WriteShows ==
  ASSUME StreamInv, NEW t \in Tabs, NEW e \in Event, e.era = era, e.seq \in 1..seq,
         e.seq > lastId[t], Write(t, e)
  PROVE  /\ Shown(t)' \subseteq Shown(t) \cup {e}
         /\ \A x \in Shown(t) : x.seq < e.seq
         /\ \E first \in 1..Len(console[t]) + 1 :
              console' = [console EXCEPT ![t] =
                            Append(SubSeq(@, first, Len(@)), e)]
<1> DEFINE s == console[t]
<1>1. /\ s \in Seq(Event) /\ Len(s) <= MaxEvents /\ Ascends(s)
      /\ IF s = <<>> THEN lastId[t] = 0 ELSE lastId[t] = s[Len(s)].seq
      /\ Len(s) \in Nat /\ MaxEvents \in Nat \ {0}
  BY TabTyped, RangeIs, StreamAssumption DEF StreamInv, TabInv, ConsoleInv
<1>2. /\ console' = [console EXCEPT ![t] = Appended(s, e)]
      /\ console'[t] = Appended(s, e)
  BY DEF Write, StreamInv, TypeOK
<1>3. \A x \in Range(s) : x.seq < e.seq
  BY NewerThanShown DEF Shown, StreamInv, TabInv
<1>4. Range(Appended(s, e)) \subseteq Range(s) \cup {e}
  BY <1>1, <1>3, AppendedIs
<1>5. ~(s # <<>> /\ e.seq <= s[Len(s)].seq)
  <2> SUFFICES ASSUME s # <<>>, e.seq <= s[Len(s)].seq PROVE FALSE
    OBVIOUS
  <2>1. s[Len(s)] \in Range(s) /\ s[Len(s)] \in Event
    BY <1>1, LastIs
  <2>2. s[Len(s)].seq \in Nat /\ e.seq \in Nat /\ s[Len(s)].seq < e.seq
    BY <1>3, <2>1 DEF Event
  <2> QED BY <2>2
<1>6. \E first \in 1..Len(s) + 1 :
        Appended(s, e) = Append(SubSeq(s, first, Len(s)), e)
  <2>1. CASE Len(s) >= MaxEvents
    <3>1. Len(s) - MaxEvents + 2 \in 1..Len(s) + 1
      BY <1>1, <2>1
    <3>2. Appended(s, e) = Append(SubSeq(s, Len(s) - MaxEvents + 2, Len(s)), e)
      BY <1>5, <2>1 DEF Appended
    <3> QED BY <3>1, <3>2
  <2>2. CASE ~(Len(s) >= MaxEvents)
    <3>1. SubSeq(s, 1, Len(s)) = s
      BY <1>1, SubSeqFull
    <3>2. Appended(s, e) = Append(SubSeq(s, 1, Len(s)), e)
      BY <1>5, <2>2, <3>1 DEF Appended
    <3>3. 1 \in 1..Len(s) + 1
      BY <1>1
    <3> QED BY <3>2, <3>3
  <2> QED BY <2>1, <2>2
<1> QED BY <1>2, <1>3, <1>4, <1>6 DEF Shown

(* What the replay writes.                                                 *)
LEMMA ReplayWrites ==
  ASSUME StreamInv, FeedInv, NEW t \in Tabs, Replay(t)
  PROVE  \/ UNCHANGED console
         \/ \E e \in Event : /\ Write(t, e) /\ e \in Range(log)
                             /\ e.era = era /\ e.seq \in 1..seq
                             /\ e.seq > lastId[t] /\ e.profile = profile[t]
<1> DEFINE e == Head(replay[t])
<1>1. /\ phase[t] = "replay" /\ replay[t] # <<>>
      /\ \/ e.seq > after[t] /\ Matches(filter[t], e) /\ Write(t, e)
         \/ UNCHANGED console
  BY DEF Replay
<1>2. e \in Event /\ e \in Range(replay[t])
  BY <1>1, TabTyped, TailIs DEF StreamInv
<1>3. /\ e.era = era /\ e.seq \in 1..seq /\ (e.seq > after[t] => e.seq > lastId[t])
      /\ filter[t] = profile[t] /\ e \in Range(log) /\ profile[t] # All
  BY <1>1, <1>2, TabTyped, HubAssumption
     DEF StreamInv, TabInv, HandlerInv, BufferInv, FeedInv, FeedTab
<1> HIDE DEF e
<1> QED BY <1>1, <1>2, <1>3 DEF Matches

(* What the handler's loop writes.                                         *)
LEMMA ForwardWrites ==
  ASSUME StreamInv, FeedInv, NEW t \in Tabs, Forward(t)
  PROVE  \/ UNCHANGED console
         \/ \E e \in Event : /\ Write(t, e) /\ e \in Range(log)
                             /\ e.era = era /\ e.seq \in 1..seq
                             /\ e.seq > lastId[t] /\ e.profile = profile[t]
<1> DEFINE e == Head(ch[t])
<1>1. /\ phase[t] = "live" /\ ch[t] # <<>>
      /\ (e.seq > replayed[t] /\ Write(t, e)) \/ UNCHANGED console
  BY DEF Forward
<1>2. e \in Event /\ e \in Range(ch[t])
  BY <1>1, TabTyped, TailIs DEF StreamInv
<1>3. /\ e.era = era /\ e.seq \in 1..seq
      /\ e.seq > replayed[t] => e.seq > lastId[t]
      /\ e.profile = profile[t] /\ e \in Range(log)
  BY <1>1, <1>2 DEF StreamInv, TabInv, HandlerInv, BufferInv, FeedInv, FeedTab
<1> HIDE DEF e
<1> QED BY <1>1, <1>2, <1>3

-----------------------------------------------------------------------------
(* Only published events are held, in every step.                          *)

(* A write by a tab that keeps its place keeps the tab's events.           *)
LEMMA WriteKeeps ==
  ASSUME StreamInv, FeedInv, NEW t \in Tabs, Replay(t) \/ Forward(t)
  PROVE  Shown(t)' \subseteq Range(log) /\ \A u \in Tabs : u # t => console'[u] = console[u]
<1>1. \/ UNCHANGED console
      \/ \E e \in Event : /\ Write(t, e) /\ e \in Range(log)
                          /\ e.era = era /\ e.seq \in 1..seq
                          /\ e.seq > lastId[t] /\ e.profile = profile[t]
  BY ReplayWrites, ForwardWrites
<1>2. CASE UNCHANGED console
  BY <1>2 DEF FeedInv, FeedTab, Shown
<1>3. ASSUME NEW e \in Event, Write(t, e), e \in Range(log), e.era = era,
             e.seq \in 1..seq, e.seq > lastId[t]
      PROVE  Shown(t)' \subseteq Range(log)
             /\ \A u \in Tabs : u # t => console'[u] = console[u]
  <2>1. Shown(t)' \subseteq Shown(t) \cup {e}
    BY <1>3, WriteShows
  <2> QED BY <1>3, <2>1 DEF FeedInv, FeedTab, Write, StreamInv, TypeOK
<1> QED BY <1>1, <1>2, <1>3

(* The event published goes on the log, behind all there is.               *)
LEMMA PublishFeed ==
  ASSUME StreamInv, FeedInv, NEW p \in Profiles, Publish(p),
         UNCHANGED <<streamVars, tabVars>>
  PROVE  FeedInv'
<1>1. TypeOK
  BY DEF StreamInv
<1>2. PICK e \in Event : /\ e = [seq |-> seq + 1, profile |-> p, era |-> era]
                        /\ e.seq = seq + 1 /\ e.era = era /\ e.profile = p
                        /\ seq \in Nat /\ era \in Nat
  <2>1. seq \in Nat /\ era \in Nat /\ seq + 1 \in Nat
    BY <1>1 DEF TypeOK, HubTypeOK
  <2>2. [seq |-> seq + 1, profile |-> p, era |-> era] \in Event
    BY <2>1 DEF Event
  <2> QED BY <2>1, <2>2
<1>3. /\ seq' = seq + 1 /\ log' = Append(log, e)
      /\ history' = Recent(Append(history, e))
      /\ ch' = [u \in Subscribers |-> IF u \in Taking(e) THEN Append(ch[u], e)
                                                       ELSE ch[u]]
      /\ UNCHANGED <<era, subs, filter, replay, profile, console>>
  BY <1>2 DEF Publish, streamVars, tabVars
<1>4. /\ log \in Seq(Event) /\ log' \in Seq(Event) /\ Len(log) \in Nat
      /\ DOMAIN log = 1..Len(log) /\ DOMAIN log' = 1..Len(log) + 1
      /\ Range(log') = Range(log) \cup {e}
      /\ log'[Len(log) + 1] = e /\ \A i \in 1..Len(log) : log'[i] = log[i]
  <2>1. log \in Seq(Event)
    BY <1>1 DEF TypeOK, HubTypeOK
  <2>2. log' \in Seq(Event) /\ Len(log') = Len(log) + 1
    BY <1>2, <1>3, <2>1, AppendIs
  <2>3. Len(log) \in Nat /\ DOMAIN log = 1..Len(log) /\ DOMAIN log' = 1..Len(log')
    BY <2>1, <2>2, RangeIs
  <2> QED BY <1>3, <2>1, <2>2, <2>3, AppendIs, AppendProperties
<1>5. \A x \in Range(log) : Earlier(x, e)
  <2>1. \A x \in Range(log) : x \in Event
    BY <1>4, RangeIs
  <2> QED BY <1>2, <2>1 DEF FeedInv, LogInv, Issued, Earlier, Event
<1>6. LogInv'
  <2>1. ASSUME NEW i \in 1..Len(log) + 1, NEW j \in 1..Len(log) + 1, i < j
        PROVE  Earlier(log'[i], log'[j])
    <3>1. i \in 1..Len(log) /\ log'[i] = log[i] /\ log[i] \in Range(log)
      BY <1>4, <2>1, RangeIs
    <3>2. CASE j = Len(log) + 1
      BY <1>4, <1>5, <3>1, <3>2
    <3>3. CASE j \in 1..Len(log)
      BY <1>4, <2>1, <3>1, <3>3 DEF FeedInv, LogInv
    <3> QED BY <1>4, <3>2, <3>3
  <2>2. \A x \in Range(log') : x.era <= era' /\ (x.era = era' => x.seq <= seq')
    <3>1. \A x \in Range(log) : x \in Event
      BY <1>4, RangeIs
    <3>2. \A x \in Event : x.seq \in Nat /\ x.era \in Nat
      BY DEF Event
    <3> QED BY <1>2, <1>3, <1>4, <3>1, <3>2 DEF FeedInv, LogInv, Issued
  <2>3. Range(history') \subseteq Range(log')
    <3>1. history \in Seq(Event)
      BY <1>1, TabTyped DEF TypeOK, HubTypeOK
    <3>2. /\ Append(history, e) \in Seq(Event)
          /\ Range(Append(history, e)) = Range(history) \cup {e}
      BY <1>2, <3>1, AppendIs
    <3>3. Range(history') \subseteq Range(history) \cup {e}
      BY <1>3, <3>2, RecentIs
    <3> QED BY <1>4, <3>3 DEF FeedInv, LogInv, Retained
  <2> QED BY <1>4, <2>1, <2>2, <2>3 DEF LogInv, Issued, Retained, Earlier
<1>7. ASSUME NEW u \in Tabs PROVE FeedTab(u)'
  <2>1. /\ FeedTab(u) /\ u \in Subscribers /\ ch[u] \in Seq(Event)
        /\ filter[u] \in Filters
    BY <1>1, TabTyped DEF FeedInv, TypeOK, HubTypeOK, Tabs
  <2>2. Range(ch'[u]) \subseteq Range(log') /\ \A x \in Range(ch'[u]) : x.profile = profile[u]
    <3>1. CASE u \in Taking(e)
      <4>1. Range(ch'[u]) = Range(ch[u]) \cup {e}
        BY <1>2, <1>3, <2>1, <3>1, AppendIs
      <4>2. u \in subs /\ Matches(filter[u], e)
        BY <3>1 DEF Taking, Offered
      <4>3. filter[u] = profile[u] /\ profile[u] # All
        BY <1>1, <2>1, <4>2, HubAssumption, TabTyped DEF FeedTab
      <4> QED BY <1>4, <2>1, <4>1, <4>2, <4>3 DEF FeedTab, Matches
    <3>2. CASE u \notin Taking(e)
      <4>1. ch'[u] = ch[u]
        BY <1>3, <2>1, <3>2
      <4> QED BY <1>4, <2>1, <4>1 DEF FeedTab
    <3> QED BY <3>1, <3>2
  <2> QED BY <1>3, <1>4, <2>1, <2>2 DEF FeedTab, Shown
<1> QED BY <1>6, <1>7 DEF FeedInv

(* The other steps take events from where they are.                        *)
LEMMA FeedStep ==
  ASSUME StreamInv, FeedInv, [Next]_vars
  PROVE  FeedInv'
<1> USE DEF Tabs
<1>1. TypeOK /\ LogInv /\ \A t \in Tabs : FeedTab(t)
  BY DEF StreamInv, FeedInv
<1>2. ASSUME NEW t \in Tabs, Open(t) PROVE FeedInv'
  <2>1. /\ subs' = subs \cup {t} /\ filter' = [filter EXCEPT ![t] = profile[t]]
        /\ ch' = [ch EXCEPT ![t] = <<>>]
        /\ UNCHANGED <<era, seq, history, log, replay, profile, console>>
    BY <1>2 DEF Open, Subscribe, tabVars
  <2>2. FeedTab(t)'
    <3>1. ch'[t] = <<>> /\ filter'[t] = profile[t]
      BY <1>1, <2>1 DEF TypeOK, HubTypeOK
    <3> QED BY <1>1, <2>1, <3>1, EmptyRange DEF FeedTab, Shown
  <2>3. ASSUME NEW u \in Tabs, u # t PROVE FeedTab(u)'
    BY <1>1, <2>1, <2>3, SameFeed DEF TypeOK, HubTypeOK
  <2> QED BY <1>1, <2>1, <2>2, <2>3, SameLog DEF FeedInv
<1>3. ASSUME NEW t \in Tabs, Snapshot(t) PROVE FeedInv'
  <2>1. /\ replay' = [replay EXCEPT ![t] = history]
        /\ UNCHANGED <<era, seq, history, subs, filter, ch, log, profile, console>>
    BY <1>3 DEF Snapshot, hubVars, tabVars
  <2>2. FeedTab(t)'
    <3>1. replay'[t] = history
      BY <1>1, <2>1 DEF TypeOK
    <3> QED BY <1>1, <2>1, <3>1 DEF FeedTab, Shown, LogInv, Retained
  <2>3. ASSUME NEW u \in Tabs, u # t PROVE FeedTab(u)'
    BY <1>1, <2>1, <2>3, SameFeed DEF TypeOK
  <2> QED BY <1>1, <2>1, <2>2, <2>3, SameLog DEF FeedInv
<1>4. ASSUME NEW t \in Tabs, Replay(t) PROVE FeedInv'
  <2>1. /\ replay[t] # <<>> /\ replay' = [replay EXCEPT ![t] = Tail(@)]
        /\ UNCHANGED <<era, seq, history, subs, filter, ch, log, profile>>
    BY <1>4 DEF Replay, hubVars
  <2>2. FeedTab(t)'
    <3>1. replay'[t] = Tail(replay[t]) /\ Range(replay'[t]) \subseteq Range(replay[t])
      BY <1>1, <2>1, TabTyped, TailIs DEF TypeOK
    <3>2. Shown(t)' \subseteq Range(log)
      BY <1>4, WriteKeeps
    <3> QED BY <1>1, <2>1, <3>1, <3>2 DEF FeedTab
  <2>3. ASSUME NEW u \in Tabs, u # t PROVE FeedTab(u)'
    <3>1. console'[u] = console[u]
      BY <1>4, <2>3, WriteKeeps
    <3> QED BY <1>1, <2>1, <2>3, <3>1, SameFeed DEF TypeOK
  <2> QED BY <1>1, <2>1, <2>2, <2>3, SameLog DEF FeedInv
<1>5. ASSUME NEW t \in Tabs, GoLive(t) PROVE FeedInv'
  <2>1. UNCHANGED <<era, seq, history, subs, filter, ch, log, replay, profile, console>>
    BY <1>5 DEF GoLive, hubVars, tabVars
  <2> QED BY <1>1, <2>1, SameFeed, SameLog DEF FeedInv
<1>6. ASSUME NEW t \in Tabs, Forward(t) PROVE FeedInv'
  <2>1. /\ ch[t] # <<>> /\ ch' = [ch EXCEPT ![t] = Tail(@)]
        /\ UNCHANGED <<era, seq, history, subs, filter, replay, log, profile>>
    BY <1>6 DEF Forward, streamVars
  <2>2. FeedTab(t)'
    <3>1. ch'[t] = Tail(ch[t]) /\ Range(ch'[t]) \subseteq Range(ch[t])
      BY <1>1, <2>1, TabTyped, TailIs DEF TypeOK, HubTypeOK
    <3>2. Shown(t)' \subseteq Range(log)
      BY <1>6, WriteKeeps
    <3> QED BY <1>1, <2>1, <3>1, <3>2 DEF FeedTab
  <2>3. ASSUME NEW u \in Tabs, u # t PROVE FeedTab(u)'
    <3>1. console'[u] = console[u]
      BY <1>6, <2>3, WriteKeeps
    <3> QED BY <1>1, <2>1, <2>3, <3>1, SameFeed DEF TypeOK, HubTypeOK
  <2> QED BY <1>1, <2>1, <2>2, <2>3, SameLog DEF FeedInv
<1>7. ASSUME NEW t \in Tabs, Drop(t) \/ Select(t) PROVE FeedInv'
  <2>1. /\ subs' = subs \ {t} /\ ch' = [ch EXCEPT ![t] = <<>>]
        /\ replay' = [replay EXCEPT ![t] = <<>>]
        /\ UNCHANGED <<era, seq, history, filter, log>>
    BY <1>7 DEF Drop, Select, HangUp, Unsubscribe
  <2>2. /\ console'[t] = console[t] \/ console'[t] = <<>>
        /\ \A u \in Tabs : u # t => profile'[u] = profile[u] /\ console'[u] = console[u]
    BY <1>1, <1>7 DEF Drop, Select, TypeOK, tabVars
  <2>3. FeedTab(t)'
    BY <1>1, <2>1, <2>2, ClosedFeed DEF TypeOK, HubTypeOK
  <2>4. ASSUME NEW u \in Tabs, u # t PROVE FeedTab(u)'
    BY <1>1, <2>1, <2>2, <2>4, SameFeed DEF TypeOK, HubTypeOK
  <2> QED BY <1>1, <2>1, <2>3, <2>4, SameLog DEF FeedInv
<1>8. CASE Restart
  <2>1. /\ era' = era + 1 /\ seq' = 0 /\ history' = <<>> /\ subs' = {}
        /\ ch' = [u \in Subscribers |-> <<>>]
        /\ replay' = [t \in Tabs |-> <<>>]
        /\ UNCHANGED <<log, console>>
    BY <1>8 DEF Restart, HubRestart, tabVars
  <2>2. LogInv'
    <3>1. Issued(Range(log))'
      <4>1. \A x \in Range(log) : x \in Event /\ era \in Nat
        BY <1>1, RangeIs DEF TypeOK, HubTypeOK
      <4> QED BY <1>1, <2>1, <4>1 DEF LogInv, Issued, Event
    <3> QED BY <1>1, <2>1, <3>1, EmptyRange DEF LogInv, Retained, Earlier
  <2>3. ASSUME NEW u \in Tabs PROVE FeedTab(u)'
    BY <1>1, <2>1, ClosedFeed
  <2> QED BY <2>2, <2>3 DEF FeedInv
<1>9. CASE UNCHANGED vars
  <2>1. UNCHANGED <<era, seq, history, subs, filter, ch, log, replay, profile, console>>
    BY <1>9 DEF vars, hubVars, streamVars, tabVars
  <2> QED BY <1>1, <2>1, SameFeed, SameLog DEF FeedInv
<1> QED BY <1>2, <1>3, <1>4, <1>5, <1>6, <1>7, <1>8, <1>9, PublishFeed
        DEF Next, Serve

(* At first nothing is held.                                               *)
LEMMA FeedInit ==
  ASSUME Init
  PROVE  FeedInv
<1>1. /\ log = <<>> /\ history = <<>> /\ subs = {}
      /\ \A t \in Tabs : ch[t] = <<>> /\ replay[t] = <<>> /\ console[t] = <<>>
  BY DEF Init, HubInit, Tabs
<1>2. DOMAIN log = {}
  BY <1>1
<1> QED BY <1>1, <1>2, EmptyRange
        DEF FeedInv, LogInv, FeedTab, Issued, Retained, Shown

-----------------------------------------------------------------------------
(* Steps of the stream are steps of Feed, or none.                         *)

(* What is written is a line of the tab's profile, published after all     *)
(* that the tab has shown.                                                 *)
LEMMA WriteIsShow ==
  ASSUME StreamInv, FeedInv, NEW t \in Tabs, NEW e \in Event, Write(t, e),
         e \in Range(log), e.era = era, e.seq \in 1..seq, e.seq > lastId[t],
         e.profile = profile[t], UNCHANGED <<log, profile>>
  PROVE  Promise!Show(t)
<1>1. log \in Seq(Event) /\ Len(log) \in Nat /\ DOMAIN log = 1..Len(log)
  BY RangeIs DEF StreamInv, TypeOK, HubTypeOK
<1>2. PICK i \in 1..Len(log) : log[i] = e
  BY <1>1, RangeIs
<1>3. /\ \A x \in Shown(t) : x.seq < e.seq
      /\ \E first \in 1..Len(console[t]) + 1 :
           console' = [console EXCEPT ![t] = Append(SubSeq(@, first, Len(@)), e)]
  BY WriteShows
<1>4. ASSUME NEW n \in DOMAIN console[t]
      PROVE  \E j \in 1..i - 1 : log[j] = console[t][n]
  <2> DEFINE x == console[t][n]
  <2>1. x \in Shown(t) /\ x \in Range(log)
    BY DEF Shown, Range, FeedInv, FeedTab
  <2>2. PICK j \in 1..Len(log) : log[j] = x
    BY <1>1, <2>1, RangeIs
  <2>3. /\ x \in Event /\ x.era <= era /\ x.seq < e.seq
        /\ x.era \in Nat /\ x.seq \in Nat /\ e.era \in Nat /\ e.seq \in Nat
    <3>1. x \in Event /\ x.era <= era
      BY <1>1, <2>1, RangeIs DEF FeedInv, LogInv, Issued
    <3> QED BY <1>3, <2>1, <3>1 DEF Event
  <2> HIDE DEF x
  <2>4. ~Earlier(e, x) /\ x # e
    BY <2>3 DEF Earlier
  <2>5. j < i
    <3>1. i < j => Earlier(log[i], log[j])
      BY <1>1 DEF FeedInv, LogInv
    <3>2. ~(i < j) /\ i # j
      BY <1>2, <2>2, <2>4, <3>1
    <3>3. i \in Int /\ j \in Int
      BY <1>1
    <3> QED BY <3>2, <3>3
  <2>6. j \in 1..i - 1
    BY <1>1, <2>5
  <2> QED BY <2>2, <2>6 DEF x
<1>5. Promise!Later(t, i)
  BY <1>4 DEF Promise!Later
<1>6. log[i].profile = profile[t]
  BY <1>2
<1> QED BY <1>1, <1>2, <1>3, <1>5, <1>6 DEF Promise!Show

(* Every step maps to one of Feed or to a stutter.                         *)
LEMMA StepMaps ==
  ASSUME StreamInv, FeedInv, [Next]_vars
  PROVE  [Promise!Next]_(Promise!vars)
<1>1. ASSUME NEW p \in Profiles, Publish(p), UNCHANGED <<streamVars, tabVars>>
      PROVE  Promise!Publish
  <2> DEFINE e == [seq |-> seq + 1, profile |-> p, era |-> era]
  <2>1. log \in Seq(Event) /\ e \in Event
    BY DEF StreamInv, TypeOK, HubTypeOK, Event
  <2>2. log' = Append(log, e) /\ UNCHANGED <<profile, console>>
    BY <1>1 DEF Publish, tabVars
  <2> HIDE DEF e
  <2>3. Len(log) \in Nat /\ Len(log') = Len(log) + 1 /\ log'[Len(log) + 1] = e
    BY <2>1, <2>2, AppendIs, RangeIs
  <2> QED BY <2>2, <2>3 DEF Promise!Publish
<1>2. ASSUME NEW t \in Tabs, Replay(t) \/ Forward(t)
      PROVE  Promise!Show(t) \/ UNCHANGED <<log, profile, console>>
  <2>1. UNCHANGED <<log, profile>>
    BY <1>2 DEF Replay, Forward, hubVars, streamVars
  <2> QED BY <1>2, <2>1, ReplayWrites, ForwardWrites, WriteIsShow
<1>3. ASSUME NEW t \in Tabs, Select(t) PROVE Promise!Select(t)
  BY <1>3 DEF Select, Promise!Select
<1>4. ASSUME NEW t \in Tabs, Open(t) \/ Snapshot(t) \/ GoLive(t) \/ Drop(t)
      PROVE  UNCHANGED <<log, profile, console>>
  BY <1>4 DEF Open, Snapshot, GoLive, Drop, hubVars, tabVars
<1>5. Restart => UNCHANGED <<log, profile, console>>
  BY DEF Restart, HubRestart, tabVars
<1>6. UNCHANGED vars => UNCHANGED <<log, profile, console>>
  BY DEF vars, hubVars, tabVars
<1> QED BY <1>1, <1>2, <1>3, <1>4, <1>5, <1>6
        DEF Next, Serve, Promise!Next, Promise!vars

-----------------------------------------------------------------------------
(* The stream implements Feed: a tab is shown lines of its own profile, in *)
(* the order they were published, none twice, for any number of tabs, any  *)
(* limits, and whatever drops, resumes, restarts or is switched.           *)
THEOREM StreamKeepsPromise == Spec => FeedSpec
<1>1. Init => Promise!Init
  BY DEF Init, HubInit, Promise!Init
<1>2. StreamInv /\ FeedInv /\ [Next]_vars => [Promise!Next]_(Promise!vars)
  BY StepMaps
<1>3. Init => FeedInv
  BY FeedInit
<1>4. StreamInv /\ FeedInv /\ [Next]_vars => FeedInv'
  BY FeedStep
<1> QED BY <1>1, <1>2, <1>3, <1>4, StreamInductive, PTL
        DEF Spec, FeedSpec, Promise!Spec

=============================================================================
