------------------------- MODULE EventStreamProofs -------------------------
(* The safety of the event stream, for any number of tabs, profiles and    *)
(* restarts, and any limits.                                               *)
EXTENDS EventStream, SequenceTheorems, TLAPS

-----------------------------------------------------------------------------
(* Sequences of events.                                                    *)

(* The elements of a sequence.                                             *)
LEMMA RangeIs ==
  ASSUME NEW S, NEW s \in Seq(S)
  PROVE  /\ Len(s) \in Nat /\ DOMAIN s = 1..Len(s)
         /\ \A i \in 1..Len(s) : s[i] \in S /\ s[i] \in Range(s)
         /\ \A x \in Range(s) : x \in S /\ \E i \in 1..Len(s) : s[i] = x
<1>1. Len(s) \in Nat /\ DOMAIN s = 1..Len(s) /\ s \in [1..Len(s) -> S]
  BY LenProperties
<1> QED BY <1>1 DEF Range

(* No element of none.                                                     *)
LEMMA EmptyRange ==
  Range(<<>>) = {} /\ Ascends(<<>>)
<1>1. DOMAIN <<>> = {}
  OBVIOUS
<1> QED BY <1>1 DEF Range, Ascends

(* A newer event is appended.                                              *)
LEMMA AppendIs ==
  ASSUME NEW s \in Seq(Event), NEW e \in Event
  PROVE  /\ Append(s, e) \in Seq(Event) /\ Len(Append(s, e)) = Len(s) + 1
         /\ Append(s, e) # <<>> /\ Append(s, e)[Len(s) + 1] = e
         /\ s # <<>> => Append(s, e)[1] = s[1]
         /\ Range(Append(s, e)) = Range(s) \cup {e}
         /\ Ascends(s) /\ (\A x \in Range(s) : x.seq < e.seq)
              => Ascends(Append(s, e))
<1> DEFINE a == Append(s, e)
<1>1. Len(s) \in Nat /\ DOMAIN s = 1..Len(s)
  BY RangeIs
<1>2. /\ a \in Seq(Event) /\ Len(a) = Len(s) + 1 /\ a[Len(s) + 1] = e
      /\ \A i \in 1..Len(s) : a[i] = s[i]
  BY AppendProperties
<1>3. DOMAIN a = 1..Len(s) + 1
  BY <1>2, LenProperties
<1>4. s # <<>> => a[1] = s[1]
  <2> SUFFICES ASSUME s # <<>> PROVE a[1] = s[1]
    OBVIOUS
  <2>1. Len(s) # 0
    BY EmptySeq
  <2> QED BY <1>1, <1>2, <2>1
<1>5. Range(a) = Range(s) \cup {e}
  BY <1>1, <1>2, <1>3 DEF Range
<1>6. ASSUME Ascends(s), \A x \in Range(s) : x.seq < e.seq
      PROVE  Ascends(a)
  <2> SUFFICES ASSUME NEW i \in 1..Len(s) + 1, NEW j \in 1..Len(s) + 1, i < j
               PROVE  a[i].seq < a[j].seq
    BY <1>3 DEF Ascends
  <2>1. i \in 1..Len(s) /\ a[i] = s[i] /\ s[i] \in Range(s)
    BY <1>1, <1>2, RangeIs
  <2>2. CASE j = Len(s) + 1
    BY <1>2, <1>6, <2>1, <2>2
  <2>3. CASE j \in 1..Len(s)
    BY <1>1, <1>2, <1>6, <2>1, <2>3 DEF Ascends
  <2> QED BY <1>1, <2>2, <2>3
<1> QED BY <1>2, <1>4, <1>5, <1>6, EmptySeq, <1>1

(* The oldest event is taken.                                              *)
LEMMA TailIs ==
  ASSUME NEW s \in Seq(Event), s # <<>>
  PROVE  /\ Head(s) \in Event /\ Head(s) = s[1] /\ Head(s) \in Range(s)
         /\ Tail(s) \in Seq(Event) /\ Len(Tail(s)) < Len(s)
         /\ Range(s) = {Head(s)} \cup Range(Tail(s))
         /\ Ascends(s) => /\ Ascends(Tail(s))
                          /\ \A x \in Range(Tail(s)) : Head(s).seq < x.seq
<1>1. Len(s) \in Nat \ {0} /\ DOMAIN s = 1..Len(s)
  BY EmptySeq, RangeIs
<1>2. Head(s) = s[1] /\ s[1] \in Event /\ s[1] \in Range(s)
  BY <1>1, RangeIs, HeadTailProperties
<1>3. /\ Tail(s) \in Seq(Event) /\ Len(Tail(s)) = Len(s) - 1
      /\ \A i \in 1..Len(Tail(s)) : Tail(s)[i] = s[i + 1]
  BY HeadTailProperties
<1>4. DOMAIN Tail(s) = 1..Len(s) - 1
  BY <1>3, LenProperties
<1>5. Range(s) = {Head(s)} \cup Range(Tail(s))
  <2>1. ASSUME NEW x \in Range(s), x # Head(s) PROVE x \in Range(Tail(s))
    <3>1. PICK i \in 1..Len(s) : s[i] = x
      BY <1>1 DEF Range
    <3>2. i - 1 \in 1..Len(s) - 1 /\ Tail(s)[i - 1] = s[i]
      BY <1>1, <1>2, <1>3, <2>1, <3>1
    <3> QED BY <1>4, <3>1, <3>2 DEF Range
  <2>2. ASSUME NEW x \in Range(Tail(s)) PROVE x \in Range(s)
    <3>1. PICK i \in 1..Len(s) - 1 : Tail(s)[i] = x
      BY <1>4 DEF Range
    <3>2. i + 1 \in 1..Len(s) /\ s[i + 1] = x
      BY <1>1, <1>3, <3>1
    <3> QED BY <1>1, <3>2 DEF Range
  <2> QED BY <1>2, <2>1, <2>2
<1>6. ASSUME Ascends(s)
      PROVE  Ascends(Tail(s)) /\ \A x \in Range(Tail(s)) : Head(s).seq < x.seq
  <2>1. ASSUME NEW i \in 1..Len(s) - 1, NEW j \in 1..Len(s) - 1, i < j
        PROVE  Tail(s)[i].seq < Tail(s)[j].seq
    <3>1. i + 1 \in 1..Len(s) /\ j + 1 \in 1..Len(s) /\ i + 1 < j + 1
      BY <1>1, <2>1
    <3> QED BY <1>1, <1>3, <1>6, <3>1 DEF Ascends
  <2>2. ASSUME NEW x \in Range(Tail(s)) PROVE Head(s).seq < x.seq
    <3>1. PICK i \in 1..Len(s) - 1 : Tail(s)[i] = x
      BY <1>4 DEF Range
    <3>2. i + 1 \in 1..Len(s) /\ 1 \in 1..Len(s) /\ 1 < i + 1 /\ s[i + 1] = x
      BY <1>1, <1>3, <3>1
    <3> QED BY <1>1, <1>2, <1>6, <3>2 DEF Ascends
  <2> QED BY <1>4, <2>1, <2>2 DEF Ascends
<1> QED BY <1>1, <1>2, <1>3, <1>5, <1>6

(* The last of ascending events has the highest number.                    *)
LEMMA LastIs ==
  ASSUME NEW s \in Seq(Event), s # <<>>, Ascends(s)
  PROVE  /\ s[Len(s)] \in Range(s) /\ s[Len(s)] \in Event
         /\ \A x \in Range(s) : x.seq <= s[Len(s)].seq
<1>1. Len(s) \in Nat \ {0} /\ DOMAIN s = 1..Len(s)
  BY EmptySeq, RangeIs
<1>2. Len(s) \in 1..Len(s)
  BY <1>1
<1>3. ASSUME NEW x \in Range(s) PROVE x.seq <= s[Len(s)].seq
  <2>1. PICK i \in 1..Len(s) : s[i] = x
    BY RangeIs
  <2>2. x.seq \in Nat /\ s[Len(s)].seq \in Nat
    <3>1. x \in Event /\ s[Len(s)] \in Event
      BY <1>2, RangeIs
    <3> QED BY <3>1 DEF Event
  <2>3. CASE i = Len(s)
    BY <2>1, <2>2, <2>3
  <2>4. CASE i < Len(s)
    BY <1>1, <1>2, <2>1, <2>2, <2>4 DEF Ascends
  <2>5. \A n \in Nat : \A k \in 1..n : k = n \/ k < n
    OBVIOUS
  <2>6. i = Len(s) \/ i < Len(s)
    BY <1>1, <2>1, <2>5, Zenon
  <2> QED BY <2>3, <2>4, <2>6
<1> QED BY <1>2, <1>3, RangeIs

(* Ascending events with the same number are the same.                     *)
LEMMA SameIs ==
  ASSUME NEW s \in Seq(Event), Ascends(s), NEW x \in Range(s), NEW y \in Range(s),
         x.seq = y.seq
  PROVE  x = y
<1>1. PICK i \in 1..Len(s) : s[i] = x
  BY RangeIs
<1>2. PICK j \in 1..Len(s) : s[j] = y
  BY RangeIs
<1>3. x.seq \in Nat /\ y.seq \in Nat /\ Len(s) \in Nat /\ DOMAIN s = 1..Len(s)
  <2>1. x \in Event /\ y \in Event /\ Len(s) \in Nat /\ DOMAIN s = 1..Len(s)
    BY RangeIs
  <2> QED BY <2>1 DEF Event
<1>4. CASE i < j
  BY <1>1, <1>2, <1>3, <1>4 DEF Ascends
<1>5. CASE j < i
  BY <1>1, <1>2, <1>3, <1>5 DEF Ascends
<1> QED BY <1>1, <1>2, <1>3, <1>4, <1>5

(* The newest events of a history are kept.                                *)
LEMMA RecentIs ==
  ASSUME NEW s \in Seq(Event)
  PROVE  /\ Recent(s) \in Seq(Event) /\ Len(Recent(s)) <= HistoryLimit
         /\ Range(Recent(s)) \subseteq Range(s)
         /\ Ascends(s) => Ascends(Recent(s))
<1>1. Len(s) \in Nat /\ DOMAIN s = 1..Len(s) /\ HistoryLimit \in Nat \ {0}
  BY RangeIs, HubAssumption
<1>2. CASE ~(Len(s) > HistoryLimit)
  BY <1>1, <1>2 DEF Recent
<1>3. CASE Len(s) > HistoryLimit
  <2> DEFINE n == Len(s) - HistoryLimit
             m == Len(s) - HistoryLimit + 1
             r == SubSeq(s, m, Len(s))
  <2>1. Recent(s) = r /\ n \in Nat /\ m = n + 1 /\ m \in Int /\ m <= Len(s)
    BY <1>1, <1>3 DEF Recent
  <2>2. /\ r \in Seq(Event) /\ Len(r) = HistoryLimit
        /\ \A i \in 1..HistoryLimit : r[i] = s[n + i]
    <3>1. \A i \in m..Len(s) : s[i] \in Event
      BY <1>1, <2>1, RangeIs
    <3>2. /\ r \in Seq(Event) /\ Len(r) = IF m <= Len(s) THEN Len(s) - m + 1 ELSE 0
          /\ \A i \in 1..Len(s) - m + 1 : r[i] = s[m + i - 1]
      <4> HIDE DEF m
      <4> QED BY <1>1, <2>1, <3>1, SubSeqProperties
    <3> QED BY <1>1, <2>1, <3>2
  <2>3. DOMAIN r = 1..HistoryLimit
    BY <2>2, LenProperties
  <2>4. Range(r) \subseteq Range(s)
    <3> SUFFICES ASSUME NEW i \in 1..HistoryLimit PROVE r[i] \in Range(s)
      BY <2>3 DEF Range
    <3>1. n + i \in 1..Len(s)
      BY <1>1, <2>1
    <3> QED BY <1>1, <2>2, <3>1 DEF Range
  <2>5. ASSUME Ascends(s) PROVE Ascends(r)
    <3> SUFFICES ASSUME NEW i \in 1..HistoryLimit, NEW j \in 1..HistoryLimit, i < j
                 PROVE  r[i].seq < r[j].seq
      BY <2>3 DEF Ascends
    <3>1. n + i \in 1..Len(s) /\ n + j \in 1..Len(s) /\ n + i < n + j
      BY <1>1, <2>1
    <3> QED BY <1>1, <2>2, <2>5, <3>1 DEF Ascends
  <2> QED BY <1>1, <2>1, <2>2, <2>4, <2>5
<1> QED BY <1>2, <1>3

(* A newer event comes to the console: what it was not already past and    *)
(* has shown, it shows or is past now.                                     *)
LEMMA AppendedIs ==
  ASSUME NEW s \in Seq(Event), NEW e \in Event, Ascends(s), Len(s) <= MaxEvents,
         \A x \in Range(s) : x.seq < e.seq
  PROVE  /\ Appended(s, e) \in Seq(Event) /\ Len(Appended(s, e)) <= MaxEvents
         /\ Appended(s, e) # <<>> /\ Appended(s, e)[Len(Appended(s, e))] = e
         /\ Ascends(Appended(s, e))
         /\ Range(Appended(s, e)) \subseteq Range(s) \cup {e}
         /\ e \in Range(Appended(s, e))
         /\ \A x \in Range(s) : \/ x \in Range(Appended(s, e))
                                \/ x.seq < Head(Appended(s, e)).seq
         /\ s # <<>> => Head(s).seq <= Head(Appended(s, e)).seq
<1> DEFINE a == Appended(s, e)
<1>1. Len(s) \in Nat /\ MaxEvents \in Nat \ {0}
  BY RangeIs, StreamAssumption
<1>2. ~(s # <<>> /\ e.seq <= s[Len(s)].seq)
  <2> SUFFICES ASSUME s # <<>>, e.seq <= s[Len(s)].seq PROVE FALSE
    OBVIOUS
  <2>1. s[Len(s)] \in Range(s) /\ s[Len(s)] \in Event
    BY LastIs
  <2>2. s[Len(s)].seq \in Nat /\ e.seq \in Nat /\ s[Len(s)].seq < e.seq
    BY <2>1 DEF Event
  <2> QED BY <2>2
<1>3. CASE Len(s) < MaxEvents
  <2>1. a = Append(s, e)
    BY <1>1, <1>2, <1>3 DEF Appended
  <2>2. a # <<>> /\ a \in Seq(Event) /\ Len(a) = Len(s) + 1
        /\ a[Len(s) + 1] = e /\ Range(a) = Range(s) \cup {e} /\ Ascends(a)
        /\ (s # <<>> => a[1] = s[1])
    BY <2>1, AppendIs
  <2>3. s # <<>> => Head(s) = s[1] /\ Head(a) = a[1] /\ Head(s).seq \in Nat
    BY <2>2, TailIs DEF Event
  <2>4. s # <<>> => Head(s).seq <= Head(a).seq
    BY <2>2, <2>3
  <2>5. Len(a) <= MaxEvents
    BY <1>1, <1>3, <2>2
  <2> QED BY <2>2, <2>4, <2>5
<1>4. CASE Len(s) = MaxEvents
  <2>1. s # <<>>
    BY <1>1, <1>4, EmptySeq
  <2> DEFINE r == Tail(s)
  <2>2. /\ Head(s) \in Event /\ Head(s) \in Range(s) /\ r \in Seq(Event)
        /\ Len(r) = Len(s) - 1 /\ Range(s) = {Head(s)} \cup Range(r)
        /\ Ascends(r) /\ \A x \in Range(r) : Head(s).seq < x.seq
    BY <2>1, TailIs, HeadTailProperties
  <2>3. SubSeq(s, Len(s) - MaxEvents + 2, Len(s)) = r
    <3>1. Len(s) - MaxEvents + 2 = 2
      BY <1>1, <1>4
    <3>2. r = SubSeq(s, 2, Len(s))
      BY <2>1, HeadTailProperties
    <3> QED BY <3>1, <3>2
  <2>4. a = Append(r, e)
    BY <1>1, <1>2, <1>4, <2>3 DEF Appended
  <2>5. \A x \in Range(r) : x.seq < e.seq
    BY <2>2
  <2>6. a # <<>> /\ a \in Seq(Event) /\ Len(a) = Len(s)
        /\ a[Len(a)] = e /\ Range(a) = Range(r) \cup {e} /\ Ascends(a)
    <3>1. r \in Seq(Event) /\ Ascends(r) /\ e \in Event
      BY <2>2
    <3> HIDE DEF r
    <3>2. a # <<>> /\ a \in Seq(Event) /\ Len(a) = Len(r) + 1
          /\ a[Len(r) + 1] = e /\ Range(a) = Range(r) \cup {e} /\ Ascends(a)
      BY <2>4, <2>5, <3>1, AppendIs
    <3> QED BY <1>1, <2>2, <3>2
  <2>7. Head(s).seq < Head(a).seq
    <3>1. Head(a) \in Range(a)
      BY <2>6, TailIs
    <3> QED BY <2>2, <2>6, <3>1
  <2>8. Head(s).seq \in Nat /\ Head(a).seq \in Nat
    BY <2>2, <2>6, TailIs DEF Event
  <2> QED BY <1>1, <1>4, <2>2, <2>6, <2>7, <2>8
<1> QED BY <1>1, <1>3, <1>4

-----------------------------------------------------------------------------
(* The invariant, step by step.                                            *)

(* What the types say of one tab.                                          *)
LEMMA TabTyped ==
  ASSUME TypeOK, NEW t \in Tabs
  PROVE  /\ history \in Seq(Event) /\ seq \in Nat /\ era \in Nat
         /\ ch[t] \in Seq(Event) /\ replay[t] \in Seq(Event)
         /\ console[t] \in Seq(Event) /\ Len(console[t]) <= MaxEvents
         /\ lastId[t] \in Nat /\ after[t] \in Nat /\ replayed[t] \in Nat
         /\ profile[t] \in Profiles /\ dropped[t] \subseteq Event
         /\ phase[t] \in {"closed", "subscribed", "replay", "live"}
BY DEF TypeOK, HubTypeOK, Tabs

(* What is in the sequences of a tab is an event, and has a number.        *)
LEMMA EventTyped ==
  ASSUME TypeOK, NEW t \in Tabs
  PROVE  /\ \A e \in Retained : e \in Event
         /\ \A e \in Range(ch[t]) : e \in Event
         /\ \A e \in Range(replay[t]) : e \in Event
         /\ \A e \in Shown(t) : e \in Event
         /\ \A e \in Event : e.seq \in Nat /\ e.era \in Nat /\ e.profile \in Profiles
<1>1. /\ history \in Seq(Event) /\ ch[t] \in Seq(Event)
      /\ replay[t] \in Seq(Event) /\ console[t] \in Seq(Event)
  BY TabTyped
<1>2. \A s \in Seq(Event) : \A e \in Range(s) : e \in Event
  BY RangeIs
<1>3. \A e \in Event : e.seq \in Nat /\ e.era \in Nat /\ e.profile \in Profiles
  BY DEF Event
<1> QED BY <1>1, <1>2, <1>3 DEF Retained, Shown

(* A step of another tab leaves a tab as it is.                            *)
LEMMA OtherTab ==
  ASSUME NEW u \in Tabs, TabInv(u),
         UNCHANGED <<era, seq, history>>,
         phase'[u] = phase[u], after'[u] = after[u],
         replayed'[u] = replayed[u], replay'[u] = replay[u],
         profile'[u] = profile[u], lastId'[u] = lastId[u],
         console'[u] = console[u], ch'[u] = ch[u], filter'[u] = filter[u],
         dropped'[u] = dropped[u], u \in subs => u \in subs'
  PROVE  TabInv(u)'
<1>1. BufferInv(u)'
  BY DEF TabInv, BufferInv, Ascends
<1>2. ConsoleInv(u)'
  BY DEF TabInv, ConsoleInv, Issued, Shown, Ascends
<1>3. HandlerInv(u)'
  BY DEF TabInv, HandlerInv, Ascends
<1>4. ReplayInv(u)'
  BY DEF TabInv, ReplayInv, Retained
<1>5. AccountedInv(u)'
  BY DEF TabInv, AccountedInv, Coming, Passed, Shown, Retained
<1> QED BY <1>1, <1>2, <1>3, <1>4, <1>5 DEF TabInv

(* The console is as it was.                                               *)
LEMMA SameConsole ==
  ASSUME NEW u \in Tabs, ConsoleInv(u), UNCHANGED <<era, seq>>,
         lastId'[u] = lastId[u], console'[u] = console[u]
  PROVE  ConsoleInv(u)'
BY DEF ConsoleInv, Issued, Shown, Ascends

(* The hub is as it was.                                                   *)
LEMMA SameHub ==
  ASSUME HubInv, UNCHANGED <<era, seq, history>>
  PROVE  HubInv'
BY DEF HubInv, Retained, Ascends

(* At first nothing has been published.                                    *)
LEMMA InitInv ==
  ASSUME Init
  PROVE  StreamInv
<1>1. TypeOK
  <2>1. <<>> \in Seq(Event) /\ Len(<<>>) = 0
    OBVIOUS
  <2>2. HubTypeOK
    BY <2>1, HubAssumption DEF Init, HubInit, HubTypeOK, Filters
  <2> QED BY <2>1, <2>2, StreamAssumption DEF Init, TypeOK, Tabs
<1>2. HubInv
  BY EmptyRange DEF Init, HubInit, HubInv, Retained
<1>3. ASSUME NEW t \in Tabs PROVE TabInv(t)
  <2>1. /\ ch[t] = <<>> /\ console[t] = <<>> /\ phase[t] = "closed"
        /\ lastId[t] = 0 /\ Retained = {}
    BY EmptyRange DEF Init, HubInit, Retained, Tabs
  <2>2. BufferInv(t)
    BY <2>1, EmptyRange DEF BufferInv
  <2>3. ConsoleInv(t)
    BY <2>1, EmptyRange DEF ConsoleInv, Issued, Shown
  <2> QED BY <2>1, <2>2, <2>3 DEF TabInv, HandlerInv, ReplayInv, AccountedInv
<1> QED BY <1>1, <1>2, <1>3 DEF StreamInv

(* The handler subscribes, with nothing in its buffer, at the tab's        *)
(* resume point.                                                           *)
LEMMA OpenStep ==
  ASSUME StreamInv, NEW t \in Tabs, Open(t)
  PROVE  StreamInv'
<1> USE DEF Tabs
<1>1. TypeOK
  BY DEF StreamInv
<1>2. /\ phase[t] = "closed" /\ phase' = [phase EXCEPT ![t] = "subscribed"]
      /\ subs' = subs \cup {t} /\ filter' = [filter EXCEPT ![t] = profile[t]]
      /\ ch' = [ch EXCEPT ![t] = <<>>]
      /\ after' = [after EXCEPT ![t] = lastId[t]]
      /\ replayed' = [replayed EXCEPT ![t] = lastId[t]]
      /\ UNCHANGED <<era, seq, history, dropped, log, replay, profile, lastId,
                     console>>
  BY DEF Open, Subscribe, tabVars
<1>3. TypeOK'
  <2>1. /\ <<>> \in Seq(Event) /\ Len(<<>>) = 0 /\ lastId[t] \in Nat
        /\ profile[t] \in Filters /\ SubscriberBuffer \in Nat
    BY <1>1, TabTyped, HubAssumption DEF Filters
  <2>2. HubTypeOK'
    BY <1>1, <1>2, <2>1 DEF TypeOK, HubTypeOK
  <2> QED BY <1>1, <1>2, <2>1, <2>2 DEF TypeOK
<1>4. HubInv'
  BY <1>2, SameHub DEF StreamInv
<1>5. ASSUME NEW u \in Tabs, u # t PROVE TabInv(u)'
  BY <1>1, <1>2, <1>5, OtherTab DEF StreamInv, TypeOK, HubTypeOK
<1>6. TabInv(t)'
  <2>1. /\ phase'[t] = "subscribed" /\ ch'[t] = <<>> /\ filter'[t] = profile[t]
        /\ after'[t] = lastId[t] /\ replayed'[t] = lastId[t]
    BY <1>1, <1>2 DEF TypeOK, HubTypeOK
  <2>2. BufferInv(t)'
    BY <1>2, <2>1, EmptyRange DEF BufferInv
  <2>3. ConsoleInv(t)'
    BY <1>2, SameConsole DEF StreamInv, TabInv
  <2>4. AccountedInv(t)'
    BY <1>2, <2>1
       DEF StreamInv, TabInv, AccountedInv, Coming, Passed, Shown, Retained
  <2> QED BY <1>2, <2>1, <2>2, <2>3, <2>4 DEF TabInv, HandlerInv, ReplayInv
<1> QED BY <1>3, <1>4, <1>5, <1>6 DEF StreamInv

(* The whole history is still to be gone through.                          *)
LEMMA SnapshotStep ==
  ASSUME StreamInv, NEW t \in Tabs, Snapshot(t)
  PROVE  StreamInv'
<1> USE DEF Tabs
<1>1. TypeOK
  BY DEF StreamInv
<1>2. /\ phase[t] = "subscribed" /\ phase' = [phase EXCEPT ![t] = "replay"]
      /\ replay' = [replay EXCEPT ![t] = history]
      /\ UNCHANGED <<era, seq, history, subs, filter, ch, dropped, log, after,
                     replayed, profile, lastId, console>>
  BY DEF Snapshot, hubVars, tabVars
<1>3. TypeOK'
  BY <1>1, <1>2 DEF TypeOK, HubTypeOK
<1>4. HubInv'
  BY <1>2, SameHub DEF StreamInv
<1>5. ASSUME NEW u \in Tabs, u # t PROVE TabInv(u)'
  BY <1>1, <1>2, <1>5, OtherTab DEF StreamInv, TypeOK
<1>6. TabInv(t)'
  <2>1. phase'[t] = "replay" /\ replay'[t] = history
    BY <1>1, <1>2 DEF TypeOK
  <2>2. after[t] = lastId[t] /\ replayed[t] = lastId[t] /\ lastId[t] \in Nat
    BY <1>1, <1>2, TabTyped DEF StreamInv, TabInv, HandlerInv
  <2>3. BufferInv(t)'
    BY <1>2, <2>1 DEF StreamInv, TabInv, BufferInv, Ascends
  <2>4. ConsoleInv(t)'
    BY <1>2, SameConsole DEF StreamInv, TabInv
  <2>5. HandlerInv(t)'
    BY <1>2, <2>1, <2>2 DEF StreamInv, HubInv, Retained, HandlerInv, Ascends
  <2>6. ReplayInv(t)'
    BY <1>2, <2>1 DEF ReplayInv, Retained
  <2>7. AccountedInv(t)'
    BY <1>2, <2>1, <2>2
       DEF StreamInv, TabInv, AccountedInv, Coming, Passed, Shown, Retained
  <2> QED BY <2>3, <2>4, <2>5, <2>6, <2>7 DEF TabInv
<1> QED BY <1>3, <1>4, <1>5, <1>6 DEF StreamInv

(* The replay is over; the buffer takes over from it.                      *)
LEMMA GoLiveStep ==
  ASSUME StreamInv, NEW t \in Tabs, GoLive(t)
  PROVE  StreamInv'
<1> USE DEF Tabs
<1>1. TypeOK
  BY DEF StreamInv
<1>2. /\ phase[t] = "replay" /\ replay[t] = <<>>
      /\ phase' = [phase EXCEPT ![t] = "live"]
      /\ UNCHANGED <<era, seq, history, subs, filter, ch, dropped, log, after,
                     replayed, replay, profile, lastId, console>>
  BY DEF GoLive, hubVars, tabVars
<1>3. TypeOK'
  BY <1>1, <1>2 DEF TypeOK, HubTypeOK
<1>4. HubInv'
  BY <1>2, SameHub DEF StreamInv
<1>5. ASSUME NEW u \in Tabs, u # t PROVE TabInv(u)'
  BY <1>1, <1>2, <1>5, OtherTab DEF StreamInv, TypeOK
<1>6. TabInv(t)'
  <2>1. phase'[t] = "live" /\ Range(replay[t]) = {}
    BY <1>1, <1>2, EmptyRange DEF TypeOK
  <2>2. replayed[t] = lastId[t] /\ lastId[t] \in Nat
    BY <1>1, <1>2, TabTyped DEF StreamInv, TabInv, HandlerInv
  <2>3. BufferInv(t)'
    BY <1>2, <2>1 DEF StreamInv, TabInv, BufferInv, Ascends
  <2>4. ConsoleInv(t)'
    BY <1>2, SameConsole DEF StreamInv, TabInv
  <2>5. HandlerInv(t)'
    BY <1>2, <2>1, <2>2 DEF HandlerInv
  <2>6. ReplayInv(t)'
    BY <1>2, <2>1 DEF ReplayInv
  <2>7. AccountedInv(t)'
    BY <1>2, <2>1, <2>2
       DEF StreamInv, TabInv, AccountedInv, Coming, Passed, Shown, Retained
  <2> QED BY <2>3, <2>4, <2>5, <2>6, <2>7 DEF TabInv
<1> QED BY <1>3, <1>4, <1>5, <1>6 DEF StreamInv

(* What is newer than the resume point is newer than what is shown.        *)
LEMMA NewerThanShown ==
  ASSUME TypeOK, NEW t \in Tabs, ConsoleInv(t), NEW e \in Event, e.seq > lastId[t]
  PROVE  \A x \in Shown(t) : x.seq < e.seq
<1> DEFINE s == console[t]
<1>1. /\ s \in Seq(Event) /\ Ascends(s) /\ lastId[t] \in Nat
      /\ IF s = <<>> THEN lastId[t] = 0 ELSE lastId[t] = s[Len(s)].seq
  BY TabTyped DEF ConsoleInv
<1> SUFFICES ASSUME NEW x \in Range(s) PROVE x.seq < e.seq
  BY DEF Shown
<1>2. s # <<>>
  BY EmptyRange
<1>3. x.seq <= s[Len(s)].seq /\ x \in Event /\ s[Len(s)] \in Event
  BY <1>1, <1>2, LastIs, RangeIs
<1>4. x.seq \in Nat /\ lastId[t] = s[Len(s)].seq /\ e.seq \in Nat
  BY <1>1, <1>2, <1>3 DEF Event
<1> QED BY <1>1, <1>3, <1>4

(* A newer event is written: the console takes it, and is past whatever    *)
(* scrolls out.                                                            *)
LEMMA WriteIs ==
  ASSUME StreamInv, NEW t \in Tabs, NEW e \in Event, e.era = era, e.seq \in 1..seq,
         e.seq > lastId[t], Write(t, e), UNCHANGED <<era, seq>>
  PROVE  /\ lastId'[t] = e.seq /\ ConsoleInv(t)'
         /\ console'[t] \in Seq(Event) /\ Len(console'[t]) <= MaxEvents
         /\ e \in Shown(t)'
         /\ \A x \in Shown(t) : x \in Shown(t)' \/ Passed(t, x)'
         /\ \A x \in Event : Passed(t, x) => Passed(t, x)'
<1> DEFINE s == console[t]
           a == Appended(console[t], e)
<1>1. /\ s \in Seq(Event) /\ Len(s) <= MaxEvents /\ Ascends(s) /\ Issued(Shown(t))
      /\ IF s = <<>> THEN lastId[t] = 0 ELSE lastId[t] = s[Len(s)].seq
  BY TabTyped DEF StreamInv, TabInv, ConsoleInv
<1>2. lastId'[t] = e.seq /\ console'[t] = a
  BY DEF Write, StreamInv, TypeOK
<1>3. \A x \in Range(s) : x.seq < e.seq
  BY <1>1, NewerThanShown DEF Shown, StreamInv, TabInv
<1>4. /\ a \in Seq(Event) /\ Len(a) <= MaxEvents /\ a # <<>> /\ a[Len(a)] = e
      /\ Ascends(a) /\ Range(a) \subseteq Range(s) \cup {e} /\ e \in Range(a)
      /\ \A x \in Range(s) : x \in Range(a) \/ x.seq < Head(a).seq
      /\ s # <<>> => Head(s).seq <= Head(a).seq
  BY <1>1, <1>3, AppendedIs
<1>5. Shown(t)' = Range(a) /\ Shown(t) = Range(s)
  BY <1>2 DEF Shown
<1> HIDE DEF a
<1>6. Issued(Shown(t))'
  <2>1. seq \in Nat /\ era \in Nat
    BY TabTyped DEF StreamInv
  <2> QED BY <1>1, <1>4, <1>5, <2>1 DEF Issued
<1>7. ConsoleInv(t)'
  BY <1>2, <1>4, <1>6 DEF ConsoleInv, Ascends
<1>8. \A x \in Shown(t) : x \in Shown(t)' \/ Passed(t, x)'
  BY <1>2, <1>4, <1>5 DEF Passed
<1>9. ASSUME NEW x \in Event, Passed(t, x) PROVE Passed(t, x)'
  <2>1. x.seq \in Nat /\ Head(a).seq \in Nat
    BY <1>4, TailIs DEF Event
  <2>2. CASE s # <<>> /\ x.seq < Head(s).seq
    <3>1. Head(s).seq \in Nat
      BY <1>1, <2>2, TailIs DEF Event
    <3> QED BY <1>2, <1>4, <2>1, <2>2, <3>1 DEF Passed
  <2>3. CASE \E c \in Shown(t) : c.era # era /\ x.seq <= c.seq
    <3>1. PICK c \in Range(s) : c.era # era /\ x.seq <= c.seq
      BY <1>5, <2>3
    <3>2. c \in Event /\ (c \in Event => c.seq \in Nat)
      BY <1>1, <3>1, RangeIs DEF Event
    <3>3. CASE c \in Range(a)
      BY <1>5, <3>1, <3>3 DEF Passed
    <3>4. CASE c.seq < Head(a).seq
      BY <1>2, <1>4, <2>1, <3>1, <3>2, <3>4 DEF Passed
    <3> QED BY <1>4, <3>3, <3>4
  <2> QED BY <1>9, <2>2, <2>3 DEF Passed
<1> QED BY <1>2, <1>4, <1>5, <1>7, <1>8, <1>9

(* One event of the replay is written or skipped.                          *)
LEMMA ReplayStep ==
  ASSUME StreamInv, NEW t \in Tabs, Replay(t)
  PROVE  StreamInv'
<1> DEFINE e == Head(replay[t])
           rest == Tail(replay[t])
           wanted == e.seq > after[t] /\ Matches(filter[t], e)
<1>1. TypeOK /\ HubInv /\ TabInv(t)
  BY DEF StreamInv
<1>2. /\ phase[t] = "replay" /\ replay[t] # <<>>
      /\ replay' = [replay EXCEPT ![t] = rest]
      /\ UNCHANGED <<era, seq, history, subs, filter, ch, dropped, log, phase,
                     after, profile>>
      /\ \/ wanted /\ Write(t, e) /\ replayed' = [replayed EXCEPT ![t] = e.seq]
         \/ ~wanted /\ UNCHANGED <<replayed, lastId, console>>
  BY DEF Replay, hubVars
<1>3. /\ e \in Event /\ e \in Range(replay[t]) /\ rest \in Seq(Event)
      /\ Range(replay[t]) = {e} \cup Range(rest)
      /\ Ascends(replay[t]) => /\ Ascends(rest)
                               /\ \A x \in Range(rest) : e.seq < x.seq
  BY <1>1, <1>2, TabTyped, TailIs
<1>4. /\ after[t] <= lastId[t] /\ replayed[t] = lastId[t] /\ Ascends(replay[t])
      /\ \A x \in Range(replay[t]) : /\ x.era = era /\ x.seq \in 1..seq
                                     /\ x.seq > after[t] => x.seq > lastId[t]
  BY <1>1, <1>2 DEF TabInv, HandlerInv
<1>5. /\ e.seq \in Nat /\ lastId[t] \in Nat /\ after[t] \in Nat
      /\ \A x \in Event : x.seq \in Nat
  BY <1>1, <1>3, TabTyped DEF Event
<1>6. phase'[t] = "replay" /\ replay'[t] = rest /\ filter[t] = profile[t]
      /\ t \in subs
  BY <1>1, <1>2 DEF TypeOK, TabInv, BufferInv
<1> HIDE DEF e, rest
<1>7. wanted => /\ e.seq > lastId[t]
                /\ lastId'[t] = e.seq /\ replayed'[t] = e.seq /\ ConsoleInv(t)'
                /\ console'[t] \in Seq(Event) /\ Len(console'[t]) <= MaxEvents
                /\ e \in Shown(t)'
                /\ \A x \in Shown(t) : x \in Shown(t)' \/ Passed(t, x)'
                /\ \A x \in Event : Passed(t, x) => Passed(t, x)'
  BY <1>1, <1>2, <1>3, <1>4, WriteIs DEF TypeOK
<1>8. ~wanted => lastId'[t] = lastId[t] /\ replayed'[t] = lastId[t]
                 /\ console'[t] = console[t] /\ ConsoleInv(t)'
  BY <1>1, <1>2, <1>4, SameConsole DEF TabInv
<1>9. /\ \A u \in Tabs : u # t => /\ lastId'[u] = lastId[u]
                                  /\ console'[u] = console[u]
                                  /\ replayed'[u] = replayed[u]
                                  /\ replay'[u] = replay[u]
      /\ DOMAIN lastId' = Tabs /\ DOMAIN console' = Tabs
      /\ lastId' = [lastId EXCEPT ![t] = lastId'[t]]
      /\ console' = [console EXCEPT ![t] = console'[t]]
      /\ replayed' = [replayed EXCEPT ![t] = replayed'[t]]
  BY <1>1, <1>2 DEF TypeOK, Write
<1>10. TypeOK'
  <2>1. /\ lastId'[t] \in Nat /\ replayed'[t] \in Nat
        /\ console'[t] \in Seq(Event) /\ Len(console'[t]) <= MaxEvents
    BY <1>1, <1>5, <1>7, <1>8, TabTyped
  <2>2. HubTypeOK'
    BY <1>1, <1>2 DEF TypeOK, HubTypeOK
  <2> QED BY <1>1, <1>2, <1>3, <1>9, <2>1, <2>2 DEF TypeOK
<1>11. HubInv'
  BY <1>1, <1>2, SameHub
<1>12. ASSUME NEW u \in Tabs, u # t PROVE TabInv(u)'
  BY <1>2, <1>9, <1>12, OtherTab DEF StreamInv
<1>13. TabInv(t)'
  <2>1. BufferInv(t)'
    BY <1>1, <1>2 DEF TabInv, BufferInv, Ascends
  <2>2. ConsoleInv(t)'
    BY <1>7, <1>8
  <2>3. HandlerInv(t)'
    <3>1. after[t] <= lastId'[t] /\ replayed'[t] = lastId'[t]
      BY <1>4, <1>5, <1>7, <1>8
    <3>2. \A x \in Range(rest) : x.seq > after[t] => x.seq > lastId'[t]
      BY <1>3, <1>4, <1>5, <1>7, <1>8
    <3>3. \A x \in Range(rest) : x.era = era /\ x.seq \in 1..seq
      BY <1>3, <1>4
    <3>4. Ascends(rest)
      BY <1>3, <1>4
    <3> QED BY <1>2, <1>6, <3>1, <3>2, <3>3, <3>4 DEF HandlerInv, Ascends
  <2>4. ASSUME NEW x \in Retained, x.profile = profile[t],
               x.seq > lastId'[t], x \notin Range(rest)
        PROVE  \A r \in Range(rest) : r.seq < x.seq
    <3>1. x \in Event /\ x.seq \in Nat
      BY <1>1, EventTyped
    <3>2. x.seq > lastId[t] /\ x # e
      <4>1. lastId'[t] >= lastId[t]
        BY <1>5, <1>7, <1>8
      <4>2. ~wanted => x # e
        <5>1. ~wanted /\ x = e => e.seq <= after[t]
          BY <1>5, <1>6, <2>4 DEF Matches
        <5> QED BY <1>4, <1>5, <1>8, <2>4, <5>1
      <4>3. wanted => x # e
        BY <1>5, <1>7, <2>4
      <4>4. lastId'[t] \in Nat
        BY <1>5, <1>7, <1>8
      <4>5. x.seq > lastId[t]
        BY <1>5, <2>4, <3>1, <4>1, <4>4
      <4> QED BY <4>2, <4>3, <4>5
    <3>3. x \notin Range(replay[t])
      BY <1>3, <2>4, <3>2
    <3>4. \A r \in Range(replay[t]) : r.seq < x.seq
      BY <1>1, <1>2, <1>5, <2>4, <3>1, <3>2, <3>3 DEF TabInv, ReplayInv
    <3> QED BY <1>3, <3>4
  <2>5. ReplayInv(t)'
    <3>1. \A x \in Retained : x.seq \in Nat
      BY <1>1, EventTyped
    <3>2. lastId'[t] \in Nat
      BY <1>5, <1>7, <1>8
    <3>3. Retained' = Retained
      BY <1>2 DEF Retained
    <3> QED BY <1>2, <1>6, <2>4, <3>1, <3>2, <3>3 DEF ReplayInv
  <2>6. ASSUME NEW x \in Retained, x.profile = profile[t]
        PROVE  x \in Shown(t)' \/ Coming(t, x)' \/ x \in dropped[t] \/ Passed(t, x)'
    <3>1. x \in Event /\ x.seq \in Nat
      BY <1>1, EventTyped
    <3>2. x \in Shown(t) \/ Coming(t, x) \/ x \in dropped[t] \/ Passed(t, x)
      BY <1>1, <2>6 DEF TabInv, AccountedInv
    <3>3. CASE x \in Shown(t) \/ Passed(t, x)
      <4>1. ~wanted => Shown(t)' = Shown(t) /\ (Passed(t, x) => Passed(t, x)')
        BY <1>2, <1>8 DEF Shown, Passed
      <4> QED BY <1>7, <3>1, <3>3, <4>1
    <3>4. CASE x.seq > after[t] /\ x \in Range(replay[t])
      <4>1. CASE x = e
        <5>1. wanted
          BY <1>6, <2>6, <3>4, <4>1 DEF Matches
        <5> QED BY <1>7, <4>1, <5>1
      <4>2. CASE x \in Range(rest)
        BY <1>2, <1>6, <3>4, <4>2 DEF Coming
      <4> QED BY <1>3, <3>4, <4>1, <4>2
    <3>5. CASE x.seq > replayed[t] /\ x \in Range(ch[t])
      <4>1. CASE x.seq > replayed'[t]
        BY <1>2, <1>6, <3>5, <4>1 DEF Coming
      <4>2. CASE x.seq <= replayed'[t]
        <5>1. wanted /\ x.seq <= e.seq
          BY <1>4, <1>5, <1>7, <1>8, <3>1, <3>5, <4>2
        <5>2. x \in Range(replay[t])
          BY <1>1, <1>2, <1>3, <1>4, <1>5, <2>6, <3>1, <3>5, <5>1
             DEF TabInv, ReplayInv
        <5>3. x = e
          BY <1>3, <1>4, <1>5, <3>1, <5>1, <5>2
        <5> QED BY <1>7, <5>1, <5>3
      <4>3. replayed'[t] \in Nat
        BY <1>5, <1>7, <1>8
      <4> QED BY <3>1, <4>1, <4>2, <4>3
    <3> QED BY <1>2, <3>2, <3>3, <3>4, <3>5 DEF Coming
  <2>7. AccountedInv(t)'
    <3>1. Retained' = Retained
      BY <1>2 DEF Retained
    <3> QED BY <1>2, <2>6, <3>1 DEF AccountedInv
  <2> QED BY <2>1, <2>2, <2>3, <2>5, <2>7 DEF TabInv
<1> QED BY <1>10, <1>11, <1>12, <1>13 DEF StreamInv

(* The handler takes one event from its buffer and writes or skips it.     *)
LEMMA ForwardStep ==
  ASSUME StreamInv, NEW t \in Tabs, Forward(t)
  PROVE  StreamInv'
<1> DEFINE e == Head(ch[t])
           rest == Tail(ch[t])
<1>1. TypeOK /\ HubInv /\ TabInv(t)
  BY DEF StreamInv
<1>2. /\ phase[t] = "live" /\ ch[t] # <<>>
      /\ ch' = [ch EXCEPT ![t] = rest]
      /\ UNCHANGED <<era, seq, history, subs, filter, dropped, log, phase, after,
                     replayed, replay, profile>>
      /\ \/ e.seq > replayed[t] /\ Write(t, e)
         \/ e.seq <= replayed[t] /\ UNCHANGED <<lastId, console>>
  BY DEF Forward, streamVars
<1>3. /\ e \in Event /\ rest \in Seq(Event) /\ Len(rest) < Len(ch[t])
      /\ Range(ch[t]) = {e} \cup Range(rest)
      /\ Ascends(rest) /\ \A x \in Range(rest) : e.seq < x.seq
  BY <1>1, <1>2, TabTyped, TailIs DEF TabInv, BufferInv
<1>4. /\ replayed[t] <= lastId[t] /\ (lastId[t] # replayed[t] => lastId[t] <= seq)
      /\ \A x \in Range(ch[t]) : /\ x.era = era /\ x.seq \in 1..seq
                                 /\ x.seq > replayed[t] => x.seq > lastId[t]
  BY <1>1, <1>2 DEF TabInv, HandlerInv, BufferInv
<1>5. /\ e.seq \in Nat /\ lastId[t] \in Nat /\ replayed[t] \in Nat /\ seq \in Nat
      /\ \A x \in Event : x.seq \in Nat
  BY <1>1, <1>3, TabTyped DEF Event
<1>6. /\ phase'[t] = "live" /\ ch'[t] = rest
      /\ ch[t] \in Seq(Event) /\ Len(ch[t]) <= SubscriberBuffer
  BY <1>1, <1>2 DEF TypeOK, HubTypeOK, Tabs
<1> HIDE DEF e, rest
<1> DEFINE new == e.seq > replayed[t]
<1>7. new => /\ e.seq > lastId[t]
             /\ lastId'[t] = e.seq /\ ConsoleInv(t)'
             /\ console'[t] \in Seq(Event) /\ Len(console'[t]) <= MaxEvents
             /\ e \in Shown(t)'
             /\ \A x \in Shown(t) : x \in Shown(t)' \/ Passed(t, x)'
             /\ \A x \in Event : Passed(t, x) => Passed(t, x)'
  BY <1>1, <1>2, <1>3, <1>4, <1>5, WriteIs
<1>8. ~new => lastId'[t] = lastId[t] /\ console'[t] = console[t] /\ ConsoleInv(t)'
  BY <1>1, <1>2, <1>4, <1>5, SameConsole DEF TabInv
<1>9. /\ \A u \in Tabs : u # t => /\ lastId'[u] = lastId[u]
                                  /\ console'[u] = console[u]
                                  /\ ch'[u] = ch[u]
      /\ lastId' = [lastId EXCEPT ![t] = lastId'[t]]
      /\ console' = [console EXCEPT ![t] = console'[t]]
  BY <1>1, <1>2 DEF TypeOK, HubTypeOK, Tabs, Write
<1>10. TypeOK'
  <2>1. /\ lastId'[t] \in Nat /\ console'[t] \in Seq(Event)
        /\ Len(console'[t]) <= MaxEvents
    BY <1>1, <1>5, <1>7, <1>8, TabTyped
  <2>2. Len(rest) <= SubscriberBuffer
    BY <1>3, <1>6, RangeIs, HubAssumption
  <2>3. HubTypeOK'
    BY <1>1, <1>2, <1>3, <2>2 DEF TypeOK, HubTypeOK, Tabs
  <2> QED BY <1>1, <1>2, <1>9, <2>1, <2>3 DEF TypeOK
<1>11. HubInv'
  BY <1>1, <1>2, SameHub
<1>12. ASSUME NEW u \in Tabs, u # t PROVE TabInv(u)'
  BY <1>2, <1>9, <1>12, OtherTab DEF StreamInv
<1>13. TabInv(t)'
  <2>1. BufferInv(t)'
    BY <1>1, <1>2, <1>3, <1>6 DEF TabInv, BufferInv, Ascends
  <2>2. HandlerInv(t)'
    <3>1. replayed[t] <= lastId'[t] /\ (lastId'[t] # replayed[t] => lastId'[t] <= seq)
      BY <1>3, <1>4, <1>5, <1>7, <1>8
    <3>2. \A x \in Range(rest) : x.seq > replayed[t] => x.seq > lastId'[t]
      BY <1>3, <1>4, <1>5, <1>7, <1>8
    <3> QED BY <1>2, <1>6, <3>1, <3>2 DEF HandlerInv
  <2>3. ASSUME NEW x \in Retained, x.profile = profile[t]
        PROVE  x \in Shown(t)' \/ Coming(t, x)' \/ x \in dropped[t] \/ Passed(t, x)'
    <3>1. x \in Event
      BY <1>1, EventTyped
    <3>2. x \in Shown(t) \/ Coming(t, x) \/ x \in dropped[t] \/ Passed(t, x)
      BY <1>1, <2>3 DEF TabInv, AccountedInv
    <3>3. CASE x \in Shown(t) \/ Passed(t, x)
      <4>1. ~new => Shown(t)' = Shown(t) /\ (Passed(t, x) => Passed(t, x)')
        BY <1>2, <1>8 DEF Shown, Passed
      <4> QED BY <1>7, <3>1, <3>3, <4>1
    <3>4. CASE x.seq > replayed[t] /\ x \in Range(ch[t])
      <4>1. CASE x = e
        BY <1>7, <3>4, <4>1
      <4>2. CASE x \in Range(rest)
        BY <1>2, <1>6, <3>4, <4>2 DEF Coming
      <4> QED BY <1>3, <3>4, <4>1, <4>2
    <3> QED BY <1>2, <3>2, <3>3, <3>4 DEF Coming
  <2>4. AccountedInv(t)'
    <3>1. Retained' = Retained
      BY <1>2 DEF Retained
    <3> QED BY <1>2, <2>3, <3>1 DEF AccountedInv
  <2> QED BY <1>6, <1>7, <1>8, <2>1, <2>2, <2>4 DEF TabInv, ReplayInv
<1> QED BY <1>10, <1>11, <1>12, <1>13 DEF StreamInv

(* What is coming is newer than what the tab has been written.             *)
LEMMA ComingIsNewer ==
  ASSUME TypeOK, NEW t \in Tabs, TabInv(t), NEW x \in Event, Coming(t, x)
  PROVE  x.seq > lastId[t]
<1>1. phase[t] \in {"closed", "subscribed", "replay", "live"}
  BY TabTyped
<1> QED BY <1>1 DEF TabInv, HandlerInv, Coming

(* The connection drops: what was coming is left to the next stream.       *)
LEMMA DropStep ==
  ASSUME StreamInv, NEW t \in Tabs, Drop(t)
  PROVE  StreamInv'
<1> USE DEF Tabs
<1>1. TypeOK /\ HubInv /\ TabInv(t)
  BY DEF StreamInv
<1>2. /\ subs' = subs \ {t} /\ ch' = [ch EXCEPT ![t] = <<>>]
      /\ phase' = [phase EXCEPT ![t] = "closed"]
      /\ after' = [after EXCEPT ![t] = 0]
      /\ replayed' = [replayed EXCEPT ![t] = 0]
      /\ replay' = [replay EXCEPT ![t] = <<>>]
      /\ UNCHANGED <<era, seq, history, filter, dropped, log, profile, lastId,
                     console>>
  BY DEF Drop, HangUp, Unsubscribe, tabVars
<1>3. TypeOK'
  <2>1. <<>> \in Seq(Event) /\ Len(<<>>) = 0 /\ SubscriberBuffer \in Nat
    BY HubAssumption
  <2>2. HubTypeOK'
    BY <1>1, <1>2, <2>1 DEF TypeOK, HubTypeOK
  <2> QED BY <1>1, <1>2, <2>1, <2>2 DEF TypeOK
<1>4. HubInv'
  BY <1>1, <1>2, SameHub
<1>5. ASSUME NEW u \in Tabs, u # t PROVE TabInv(u)'
  BY <1>1, <1>2, <1>5, OtherTab DEF StreamInv, TypeOK, HubTypeOK
<1>6. TabInv(t)'
  <2>1. phase'[t] = "closed" /\ ch'[t] = <<>>
    BY <1>1, <1>2 DEF TypeOK, HubTypeOK
  <2>2. BufferInv(t)'
    BY <1>2, <2>1, EmptyRange DEF BufferInv
  <2>3. ConsoleInv(t)'
    BY <1>1, <1>2, SameConsole DEF TabInv
  <2>4. \A x \in Retained : Coming(t, x) => Coming(t, x)'
    BY <1>1, <1>2, <2>1, ComingIsNewer, EventTyped DEF Coming
  <2>5. AccountedInv(t)'
    BY <1>1, <1>2, <2>4 DEF TabInv, AccountedInv, Passed, Shown, Retained
  <2> QED BY <2>1, <2>2, <2>3, <2>5 DEF TabInv, HandlerInv, ReplayInv
<1> QED BY <1>3, <1>4, <1>5, <1>6 DEF StreamInv

(* The tab turns to another profile, with nothing of it shown yet.         *)
LEMMA SelectStep ==
  ASSUME StreamInv, NEW t \in Tabs, Select(t)
  PROVE  StreamInv'
<1> USE DEF Tabs
<1>1. TypeOK /\ HubInv /\ TabInv(t)
  BY DEF StreamInv
<1>2. PICK p \in Profiles \ {profile[t]} :
        /\ subs' = subs \ {t} /\ ch' = [ch EXCEPT ![t] = <<>>]
        /\ phase' = [phase EXCEPT ![t] = "closed"]
        /\ after' = [after EXCEPT ![t] = 0]
        /\ replayed' = [replayed EXCEPT ![t] = 0]
        /\ replay' = [replay EXCEPT ![t] = <<>>]
        /\ profile' = [profile EXCEPT ![t] = p]
        /\ lastId' = [lastId EXCEPT ![t] = 0]
        /\ console' = [console EXCEPT ![t] = <<>>]
        /\ dropped' = [dropped EXCEPT ![t] = {}]
        /\ UNCHANGED <<era, seq, history, filter, log>>
  BY DEF Select, HangUp, Unsubscribe
<1>3. TypeOK'
  <2>1. /\ <<>> \in Seq(Event) /\ Len(<<>>) = 0 /\ SubscriberBuffer \in Nat
        /\ MaxEvents \in Nat
    BY HubAssumption, StreamAssumption
  <2>2. HubTypeOK'
    BY <1>1, <1>2, <2>1 DEF TypeOK, HubTypeOK
  <2> QED BY <1>1, <1>2, <2>1, <2>2 DEF TypeOK
<1>4. HubInv'
  BY <1>1, <1>2, SameHub
<1>5. ASSUME NEW u \in Tabs, u # t PROVE TabInv(u)'
  BY <1>1, <1>2, <1>5, OtherTab DEF StreamInv, TypeOK, HubTypeOK
<1>6. TabInv(t)'
  <2>1. /\ phase'[t] = "closed" /\ ch'[t] = <<>>
        /\ lastId'[t] = 0 /\ console'[t] = <<>>
    BY <1>1, <1>2 DEF TypeOK, HubTypeOK
  <2>2. BufferInv(t)'
    BY <1>2, <2>1, EmptyRange DEF BufferInv
  <2>3. ConsoleInv(t)'
    BY <1>2, <2>1, EmptyRange DEF ConsoleInv, Issued, Shown
  <2>4. \A x \in Retained : x.seq > 0
    BY <1>1 DEF HubInv
  <2>5. AccountedInv(t)'
    BY <1>2, <2>1, <2>4 DEF AccountedInv, Coming, Retained
  <2> QED BY <2>1, <2>2, <2>3, <2>5 DEF TabInv, HandlerInv, ReplayInv
<1> QED BY <1>3, <1>4, <1>5, <1>6 DEF StreamInv

(* A new daemon: its history is empty, and every line shown is of an       *)
(* earlier run.                                                            *)
LEMMA RestartStep ==
  ASSUME StreamInv, Restart
  PROVE  StreamInv'
<1> USE DEF Tabs
<1>1. TypeOK
  BY DEF StreamInv
<1>2. /\ era' = era + 1 /\ seq' = 0 /\ history' = <<>> /\ subs' = {}
      /\ ch' = [u \in Subscribers |-> <<>>]
      /\ phase' = [t \in Tabs |-> "closed"]
      /\ after' = [t \in Tabs |-> 0]
      /\ replayed' = [t \in Tabs |-> 0]
      /\ replay' = [t \in Tabs |-> <<>>]
      /\ UNCHANGED <<filter, dropped, log, profile, lastId, console>>
  BY DEF Restart, HubRestart, tabVars
<1>3. TypeOK'
  <2>1. /\ <<>> \in Seq(Event) /\ Len(<<>>) = 0 /\ SubscriberBuffer \in Nat
        /\ HistoryLimit \in Nat
    BY HubAssumption
  <2>2. HubTypeOK'
    BY <1>1, <1>2, <2>1 DEF TypeOK, HubTypeOK
  <2> QED BY <1>1, <1>2, <2>1, <2>2 DEF TypeOK
<1>4. Retained' = {}
  BY <1>2, EmptyRange DEF Retained
<1>5. HubInv'
  BY <1>2, <1>4, EmptyRange DEF HubInv
<1>6. ASSUME NEW t \in Tabs PROVE TabInv(t)'
  <2>1. phase'[t] = "closed" /\ ch'[t] = <<>>
    BY <1>2
  <2>2. BufferInv(t)'
    BY <2>1, EmptyRange DEF BufferInv
  <2>3. Issued(Shown(t))'
    <3>1. \A x \in Shown(t) : x.era <= era /\ x.era \in Nat /\ era \in Nat
      BY <1>1, EventTyped, TabTyped
         DEF StreamInv, TabInv, ConsoleInv, Issued
    <3> QED BY <1>2, <3>1 DEF Issued, Shown
  <2>4. ConsoleInv(t)'
    BY <1>2, <2>3 DEF StreamInv, TabInv, ConsoleInv, Ascends
  <2> QED BY <1>4, <2>1, <2>2, <2>4
          DEF TabInv, HandlerInv, ReplayInv, AccountedInv
<1> QED BY <1>3, <1>5, <1>6 DEF StreamInv

(* An event is published: it is newer than all there is, and every tab it  *)
(* is for has it coming, or has lost it to a full buffer, or is at a       *)
(* higher number of an earlier run.                                        *)
LEMMA PublishStep ==
  ASSUME StreamInv, NEW p \in Profiles, Publish(p), UNCHANGED <<streamVars, tabVars>>
  PROVE  StreamInv'
<1> USE DEF Tabs
<1>1. TypeOK /\ HubInv
  BY DEF StreamInv
<1>3. PICK e \in Event : /\ e = [seq |-> seq + 1, profile |-> p, era |-> era]
                        /\ e.seq = seq + 1 /\ e.era = era /\ e.profile = p
                        /\ seq \in Nat /\ era \in Nat
  <2>1. seq \in Nat /\ era \in Nat /\ seq + 1 \in Nat
    BY <1>1 DEF TypeOK, HubTypeOK
  <2>2. [seq |-> seq + 1, profile |-> p, era |-> era] \in Event
    BY <2>1 DEF Event
  <2> QED BY <2>1, <2>2
<1>2. /\ seq' = seq + 1
      /\ history' = Recent(Append(history, e))
      /\ ch' = [u \in Subscribers |-> IF u \in Taking(e) THEN Append(ch[u], e)
                                                       ELSE ch[u]]
      /\ dropped' = [u \in Subscribers |->
                       IF u \in Offered(e) \ Taking(e) THEN dropped[u] \cup {e}
                                                      ELSE dropped[u]]
      /\ log' = Append(log, e)
      /\ UNCHANGED <<era, subs, filter, phase, after, replayed, replay, profile,
                     lastId, console>>
  BY <1>3 DEF Publish, streamVars, tabVars
<1>4. /\ history' \in Seq(Event) /\ Len(history') <= HistoryLimit
      /\ Retained' \subseteq Retained \cup {e} /\ Ascends(history)'
  <2>1. history \in Seq(Event) /\ Ascends(history) /\ \A x \in Retained : x.seq < e.seq
    BY <1>1, <1>3 DEF TypeOK, HubTypeOK, HubInv
  <2>2. /\ Append(history, e) \in Seq(Event)
        /\ Range(Append(history, e)) = Range(history) \cup {e}
        /\ Ascends(Append(history, e))
    BY <1>3, <2>1, AppendIs DEF Retained
  <2>3. /\ history' \in Seq(Event) /\ Len(history') <= HistoryLimit
        /\ Range(history') \subseteq Range(history) \cup {e} /\ Ascends(history')
    BY <1>2, <2>2, RecentIs
  <2> QED BY <2>3 DEF Retained, Ascends
<1>5. ASSUME NEW u \in Tabs
      PROVE  /\ ch'[u] = ch[u] \/ ch'[u] = Append(ch[u], e)
             /\ ch'[u] \in Seq(Event) /\ Len(ch'[u]) <= SubscriberBuffer
             /\ Range(ch[u]) \subseteq Range(ch'[u])
             /\ Range(ch'[u]) \subseteq Range(ch[u]) \cup {e}
             /\ dropped'[u] \in SUBSET Event /\ dropped[u] \subseteq dropped'[u]
             /\ u \in subs /\ Matches(filter[u], e)
                  => e \in Range(ch'[u]) \/ e \in dropped'[u]
  <2>1. /\ ch[u] \in Seq(Event) /\ Len(ch[u]) <= SubscriberBuffer
        /\ dropped[u] \in SUBSET Event /\ Len(ch[u]) \in Nat /\ SubscriberBuffer \in Nat
    BY <1>1, RangeIs, HubAssumption DEF TypeOK, HubTypeOK
  <2>2. /\ Append(ch[u], e) \in Seq(Event)
        /\ Len(Append(ch[u], e)) = Len(ch[u]) + 1
        /\ Range(Append(ch[u], e)) = Range(ch[u]) \cup {e}
    BY <1>3, <2>1, AppendIs
  <2>3. CASE u \in Taking(e)
    <3>1. ch'[u] = Append(ch[u], e) /\ Len(ch[u]) < SubscriberBuffer
          /\ dropped'[u] = dropped[u]
      BY <1>2, <2>3 DEF Taking
    <3> QED BY <2>1, <2>2, <3>1
  <2>4. CASE u \notin Taking(e)
    <3>1. ch'[u] = ch[u]
          /\ dropped'[u] = IF u \in Offered(e) THEN dropped[u] \cup {e} ELSE dropped[u]
      BY <1>2, <2>4
    <3>2. Range(ch[u]) \subseteq Range(ch'[u]) /\ dropped[u] \subseteq dropped'[u]
          /\ Range(ch'[u]) \subseteq Range(ch[u]) \cup {e}
      BY <3>1
    <3>3. dropped'[u] \in SUBSET Event
      BY <2>1, <3>1
    <3>4. u \in subs /\ Matches(filter[u], e) => e \in dropped'[u]
      BY <3>1 DEF Offered
    <3>5. ch'[u] = ch[u] /\ ch'[u] \in Seq(Event) /\ Len(ch'[u]) <= SubscriberBuffer
      BY <2>1, <3>1
    <3> QED BY <3>2, <3>3, <3>4, <3>5
  <2> QED BY <2>3, <2>4
<1>6. TypeOK'
  <2>1. ch' \in [Subscribers -> Seq(Event)]
    BY <1>2, <1>5
  <2>2. dropped' \in [Subscribers -> SUBSET Event]
    BY <1>2, <1>5
  <2>3. log' \in Seq(Event)
    BY <1>1, <1>2, <1>3, AppendIs DEF TypeOK, HubTypeOK
  <2>4. \A u \in Subscribers : Len(ch'[u]) <= SubscriberBuffer
    BY <1>5
  <2>5. /\ UNCHANGED <<era, subs, filter>> /\ seq' \in Nat
        /\ history' \in Seq(Event) /\ Len(history') <= HistoryLimit
    BY <1>2, <1>3, <1>4
  <2>6. HubTypeOK'
    BY <1>1, <2>1, <2>2, <2>3, <2>4, <2>5 DEF TypeOK, HubTypeOK
  <2> QED BY <1>1, <1>2, <2>6 DEF TypeOK
<1>7. HubInv'
  <2>1. \A x \in Retained' : x.era = era' /\ x.seq \in 1..seq'
    BY <1>1, <1>2, <1>3, <1>4 DEF HubInv
  <2> QED BY <1>4, <2>1 DEF HubInv
<1>8. ASSUME NEW u \in Tabs PROVE TabInv(u)'
  <2>1. TabInv(u) /\ lastId[u] \in Nat /\ replayed[u] \in Nat
    BY <1>1, TabTyped DEF StreamInv
  <2>2. \A x \in Range(ch[u]) : x.era = era /\ x.seq \in 1..seq
    BY <2>1 DEF TabInv, BufferInv
  <2>3. BufferInv(u)'
    <3>1. Ascends(ch'[u])
      <4>1. Ascends(ch[u]) /\ \A x \in Range(ch[u]) : x.seq < e.seq
        BY <1>3, <2>1, <2>2 DEF TabInv, BufferInv
      <4>2. ch[u] \in Seq(Event)
        BY <1>1, TabTyped
      <4> QED BY <1>3, <1>5, <4>1, <4>2, AppendIs
    <3>2. \A x \in Range(ch'[u]) : x.era = era /\ x.seq \in 1..seq'
      <4>1. seq' = seq + 1 /\ Range(ch'[u]) \subseteq Range(ch[u]) \cup {e}
        BY <1>2, <1>5
      <4> QED BY <1>3, <2>2, <4>1
    <3> QED BY <1>2, <2>1, <3>1, <3>2 DEF TabInv, BufferInv, Ascends
  <2>4. ConsoleInv(u)'
    <3>1. Issued(Shown(u))'
      <4>1. \A x \in Shown(u) : x.seq \in Nat
        BY <1>1, EventTyped
      <4> QED BY <1>2, <1>3, <2>1, <4>1 DEF TabInv, ConsoleInv, Issued, Shown
    <3> QED BY <1>2, <2>1, <3>1 DEF TabInv, ConsoleInv, Ascends
  <2>5. HandlerInv(u)'
    <3>1. CASE phase[u] = "replay"
      BY <1>2, <1>3, <2>1, <3>1 DEF TabInv, HandlerInv, Ascends
    <3>2. CASE phase[u] = "live"
      <4>1. /\ replayed[u] <= lastId[u]
            /\ lastId[u] # replayed[u] => lastId[u] <= seq
            /\ \A x \in Range(ch[u]) : x.seq > replayed[u] => x.seq > lastId[u]
        BY <2>1, <3>2 DEF TabInv, HandlerInv
      <4>2. e.seq > replayed[u] => e.seq > lastId[u]
        BY <1>3, <2>1, <4>1
      <4>3. \A x \in Range(ch'[u]) : x.seq > replayed[u] => x.seq > lastId[u]
        BY <1>5, <4>1, <4>2
      <4>4. lastId[u] # replayed[u] => lastId[u] <= seq'
        BY <1>2, <1>3, <2>1, <4>1
      <4> QED BY <1>2, <3>2, <4>1, <4>3, <4>4 DEF HandlerInv
    <3>3. CASE phase[u] \in {"closed", "subscribed"}
      BY <1>2, <2>1, <3>3 DEF TabInv, HandlerInv
    <3> QED BY <1>1, <3>1, <3>2, <3>3, TabTyped
  <2>6. ReplayInv(u)'
    <3>1. phase[u] = "replay" => \A r \in Range(replay[u]) : r.seq < e.seq
      BY <1>3, <2>1 DEF TabInv, HandlerInv
    <3> QED BY <1>2, <1>4, <2>1, <3>1 DEF TabInv, ReplayInv
  <2>7. \A x : Passed(u, x) => Passed(u, x)'
    BY <1>2 DEF Passed, Shown
  <2>8. \A x : Coming(u, x) => Coming(u, x)'
    BY <1>2, <1>5 DEF Coming
  <2>9. ASSUME e.profile = profile[u]
        PROVE  Coming(u, e)' \/ e \in dropped'[u] \/ Passed(u, e)'
    <3>1. CASE lastId[u] > seq
      <4>1. /\ console[u] # <<>> /\ lastId[u] = console[u][Len(console[u])].seq
            /\ Ascends(console[u]) /\ Issued(Shown(u)) /\ console[u] \in Seq(Event)
        BY <1>1, <1>3, <2>1, <3>1, TabTyped DEF TabInv, ConsoleInv
      <4> DEFINE c == console[u][Len(console[u])]
      <4>2. c \in Shown(u)
        BY <4>1, LastIs DEF Shown
      <4>3. c.era # era /\ e.seq <= c.seq
        BY <1>3, <2>1, <3>1, <4>1, <4>2 DEF Issued
      <4> QED BY <1>2, <4>2, <4>3 DEF Passed, Shown
    <3>2. CASE lastId[u] <= seq
      <4>1. e.seq > lastId[u]
        BY <1>3, <2>1, <3>2
      <4>2. CASE phase[u] \in {"closed", "subscribed"}
        BY <1>2, <4>1, <4>2 DEF Coming
      <4>3. CASE phase[u] \in {"replay", "live"}
        <5>1. replayed[u] <= lastId[u] /\ e.seq > replayed[u]
          BY <1>3, <2>1, <3>2, <4>3 DEF TabInv, HandlerInv
        <5>2. u \in subs /\ filter[u] = profile[u]
          BY <2>1, <4>3 DEF TabInv, BufferInv
        <5>3. e \in Range(ch'[u]) \/ e \in dropped'[u]
          BY <1>5, <2>9, <5>2 DEF Matches
        <5> QED BY <1>2, <4>3, <5>1, <5>3 DEF Coming
      <4> QED BY <1>1, <4>2, <4>3, TabTyped
    <3> QED BY <1>3, <2>1, <3>1, <3>2
  <2>10. AccountedInv(u)'
    <3>1. ASSUME NEW x \in Retained', x.profile = profile'[u]
          PROVE  x \in Shown(u)' \/ Coming(u, x)' \/ x \in dropped'[u] \/ Passed(u, x)'
      <4>1. CASE x = e
        BY <1>2, <2>9, <3>1, <4>1
      <4>2. CASE x \in Retained
        BY <1>2, <1>5, <2>1, <2>7, <2>8, <3>1, <4>2
           DEF TabInv, AccountedInv, Shown
      <4> QED BY <1>4, <3>1, <4>1, <4>2
    <3> QED BY <3>1 DEF AccountedInv
  <2> QED BY <2>3, <2>4, <2>5, <2>6, <2>10 DEF TabInv
<1> QED BY <1>6, <1>7, <1>8 DEF StreamInv

(* Nothing changes.                                                        *)
LEMMA StutterStep ==
  ASSUME StreamInv, UNCHANGED vars
  PROVE  StreamInv'
<1>1. UNCHANGED <<era, seq, history, subs, filter, ch, dropped, log, phase, after,
                  replayed, replay, profile, lastId, console>>
  BY DEF vars, hubVars, streamVars, tabVars
<1>2. TypeOK'
  BY <1>1 DEF StreamInv, TypeOK, HubTypeOK
<1>3. HubInv'
  BY <1>1, SameHub DEF StreamInv
<1>4. ASSUME NEW u \in Tabs PROVE TabInv(u)'
  BY <1>1, OtherTab DEF StreamInv
<1> QED BY <1>2, <1>3, <1>4 DEF StreamInv

(* Every step of the hub, of a handler and of a tab keeps the invariant.   *)
LEMMA StepInv ==
  ASSUME StreamInv, [Next]_vars
  PROVE  StreamInv'
<1>1. ASSUME NEW t \in Tabs, Serve(t) PROVE StreamInv'
  BY <1>1, OpenStep, SnapshotStep, ReplayStep, GoLiveStep, ForwardStep DEF Serve
<1> QED BY <1>1, PublishStep, DropStep, SelectStep, RestartStep, StutterStep DEF Next

(* A resume point only goes back with the profile.                         *)
LEMMA StepAscends ==
  ASSUME StreamInv, [Next]_vars, NEW t \in Tabs, lastId'[t] < lastId[t]
  PROVE  profile'[t] # profile[t]
<1>1. TypeOK /\ lastId[t] \in Nat
  BY TabTyped DEF StreamInv
<1>2. lastId' # lastId
  BY <1>1
<1>3. ASSUME NEW u \in Tabs, NEW e \in Event, e.seq > lastId[u], Write(u, e)
      PROVE  FALSE
  <2>1. lastId' = [lastId EXCEPT ![u] = e.seq] /\ e.seq \in Nat /\ lastId[u] \in Nat
    BY <1>1, <1>3, TabTyped DEF Write, Event
  <2>2. lastId'[t] >= lastId[t]
    BY <1>1, <1>3, <2>1 DEF TypeOK
  <2>3. lastId'[t] \in Nat
    BY <1>1, <2>1 DEF TypeOK
  <2> QED BY <1>1, <2>2, <2>3
<1>4. ASSUME NEW u \in Tabs, Replay(u) PROVE FALSE
  <2>1. PICK e \in Event : /\ e \in Range(replay[u]) /\ e.seq > after[u]
                           /\ phase[u] = "replay" /\ Write(u, e)
    <3>1. phase[u] = "replay" /\ replay[u] # <<>>
          /\ \/ Head(replay[u]).seq > after[u] /\ Write(u, Head(replay[u]))
             \/ UNCHANGED lastId
      BY <1>4 DEF Replay
    <3> QED BY <1>1, <1>2, <3>1, TabTyped, TailIs
  <2>2. e.seq > lastId[u]
    BY <2>1 DEF StreamInv, TabInv, HandlerInv
  <2> QED BY <1>3, <2>1, <2>2
<1>5. ASSUME NEW u \in Tabs, Forward(u) PROVE FALSE
  <2>1. PICK e \in Event : /\ e \in Range(ch[u]) /\ e.seq > replayed[u]
                           /\ phase[u] = "live" /\ Write(u, e)
    <3>1. phase[u] = "live" /\ ch[u] # <<>>
          /\ \/ Head(ch[u]).seq > replayed[u] /\ Write(u, Head(ch[u]))
             \/ UNCHANGED lastId
      BY <1>5 DEF Forward
    <3> QED BY <1>1, <1>2, <3>1, TabTyped, TailIs
  <2>2. e.seq > lastId[u]
    BY <2>1 DEF StreamInv, TabInv, HandlerInv
  <2> QED BY <1>3, <2>1, <2>2
<1>6. CASE \E u \in Tabs : Select(u)
  <2>1. PICK u \in Tabs, p \in Profiles :
          /\ p # profile[u]
          /\ profile' = [profile EXCEPT ![u] = p]
          /\ lastId' = [lastId EXCEPT ![u] = 0]
    BY <1>6 DEF Select
  <2>2. u = t
    BY <1>1, <2>1
  <2> QED BY <1>1, <2>1, <2>2 DEF TypeOK
<1>7. CASE \E u \in Tabs : Open(u) \/ Snapshot(u) \/ GoLive(u) \/ Drop(u)
  BY <1>2, <1>7 DEF Open, Snapshot, GoLive, Drop, tabVars
<1>8. CASE Restart \/ (\E p \in Profiles : UNCHANGED <<streamVars, tabVars>>)
           \/ UNCHANGED vars
  BY <1>2, <1>8 DEF Restart, tabVars, vars
<1> QED BY <1>4, <1>5, <1>6, <1>7, <1>8 DEF Next, Serve

-----------------------------------------------------------------------------
(* The invariant from which the others follow: the numbers in the hub, on  *)
(* the stream and on the console ascend, and every retained event is       *)
(* accounted for.                                                          *)
THEOREM StreamInductive == Spec => []StreamInv
<1>1. Init => StreamInv
  BY InitInv
<1>2. StreamInv /\ [Next]_vars => StreamInv'
  BY StepInv
<1> QED BY <1>1, <1>2, PTL DEF Spec

(* The limits of the hub's history, of a subscriber's buffer and of the    *)
(* reducer's list are kept.                                                *)
THEOREM StreamTyping == Spec => []TypeOK
<1>1. StreamInv => TypeOK
  BY DEF StreamInv
<1> QED BY <1>1, StreamInductive, PTL

(* Subscribing before replaying leaves no hole: what a tab misses is on    *)
(* its way, or was lost to a full buffer.                                  *)
THEOREM OnlyBuffersLose == Spec => []OnlyFullBuffersLose
<1>1. StreamInv => OnlyFullBuffersLose
  BY DEF StreamInv, TabInv, AccountedInv, OnlyFullBuffersLose, OfThisRun, Missing,
         Passed
<1> QED BY <1>1, StreamInductive, PTL

(* EventSource's resume point never goes back on a profile: no event is    *)
(* written twice or late.                                                  *)
THEOREM NumbersAscend == Spec => StreamAscends
<1>1. StreamInv /\ [Next]_vars =>
        [\A t \in Tabs : lastId'[t] < lastId[t] => profile'[t] # profile[t]]_vars
  BY StepAscends
<1> QED BY <1>1, StreamInductive, PTL DEF Spec, StreamAscends

=============================================================================
