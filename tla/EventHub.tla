------------------------------ MODULE EventHub ------------------------------
(***************************************************************************)
(* The event hub of internal/event/event.go: it numbers every event, keeps *)
(* the most recent ones for replay and fans each out to the subscribers.   *)
(* Publish, Subscribe and cancel each run under Hub.mu from end to end, so *)
(* each is one step.                                                       *)
(***************************************************************************)
EXTENDS Naturals, Sequences

CONSTANTS
  Profiles,          \* server profiles
  All,               \* the empty filter, which lets every profile through
  Subscribers,       \* event streams, one per open browser tab
  HistoryLimit,      \* defaultHistory
  SubscriberBuffer,  \* subscriberBuffer
  MaxSeq             \* bound: events one daemon publishes

ASSUME HubAssumption ==
  /\ All \notin Profiles
  /\ HistoryLimit \in Nat \ {0}
  /\ SubscriberBuffer \in Nat \ {0}
  /\ MaxSeq \in Nat

VARIABLES
  era,      \* which run of the daemon this is
  seq,      \* Hub.seq
  history,  \* Hub.history, oldest first
  subs,     \* Hub.subs: who is subscribed
  filter,   \* subscriber.profileID
  ch,       \* subscriber.ch: what is buffered for a subscriber
  dropped,  \* what a full buffer has cost a subscriber
  log       \* every event published so far, by every run of the daemon

hubVars == <<era, seq, history, subs, filter, ch, dropped, log>>

Filters == Profiles \cup {All}

(* An event: its number, its profile, and (in place of its time stamp) the *)
(* run of the daemon that published it.                                    *)
Event == [seq : Nat, profile : Profiles, era : Nat]

KeepsOneMore(s) == IF Len(s) > HistoryLimit + 1 THEN Tail(s) ELSE s

Recent(s) == IF Len(s) > HistoryLimit
             THEN SubSeq(s, Len(s) - HistoryLimit + 1, Len(s)) ELSE s

LetsAllThrough(f, e) == TRUE

Matches(f, e) == f = All \/ f = e.profile

HubInit ==
  /\ era = 1
  /\ seq = 0
  /\ history = <<>>
  /\ subs = {}
  /\ filter = [u \in Subscribers |-> All]
  /\ ch = [u \in Subscribers |-> <<>>]
  /\ dropped = [u \in Subscribers |-> {}]
  /\ log = <<>>

(* A subscriber whose buffer is full misses the event.                     *)
Offered(e) == {u \in subs : Matches(filter[u], e)}
Taking(e)  == {u \in Offered(e) : Len(ch[u]) < SubscriberBuffer}

Publish(p) ==
  LET e == [seq |-> seq + 1, profile |-> p, era |-> era]
  IN  /\ seq < MaxSeq
      /\ seq' = seq + 1
      /\ history' = Recent(Append(history, e))
      /\ ch' = [u \in Subscribers |-> IF u \in Taking(e) THEN Append(ch[u], e)
                                                       ELSE ch[u]]
      /\ dropped' = [u \in Subscribers |->
                       IF u \in Offered(e) \ Taking(e) THEN dropped[u] \cup {e}
                                                      ELSE dropped[u]]
      /\ log' = Append(log, e)
      /\ UNCHANGED <<era, subs, filter>>

Subscribe(u, f) ==
  /\ subs' = subs \cup {u}
  /\ filter' = [filter EXCEPT ![u] = f]
  /\ ch' = [ch EXCEPT ![u] = <<>>]

(* What cancel does; harmless when the subscriber is gone already.         *)
Unsubscribe(u) ==
  /\ subs' = subs \ {u}
  /\ ch' = [ch EXCEPT ![u] = <<>>]

(* A new daemon starts with an empty hub and numbers from one again.       *)
HubRestart ==
  /\ era' = era + 1
  /\ seq' = 0
  /\ history' = <<>>
  /\ subs' = {}
  /\ ch' = [u \in Subscribers |-> <<>>]
  /\ UNCHANGED <<filter, dropped, log>>

(* Types, and the limits that keep a stalled tab from pinning memory.      *)
HubTypeOK ==
  /\ era \in Nat /\ seq \in Nat
  /\ history \in Seq(Event) /\ Len(history) <= HistoryLimit
  /\ subs \subseteq Subscribers
  /\ filter \in [Subscribers -> Filters]
  /\ ch \in [Subscribers -> Seq(Event)]
  /\ \A u \in Subscribers : Len(ch[u]) <= SubscriberBuffer
  /\ dropped \in [Subscribers -> SUBSET Event]
  /\ log \in Seq(Event)

=============================================================================
