-------------------------------- MODULE MCApp --------------------------------
(* App with two servers, one of which has neither options nor commands.    *)
EXTENDS App

MCCaps == [s \in Servers |-> IF s = 1 THEN {{"settings", "commands"}} ELSE {{}}]

(* One server is connected; the page remembers it, a server that is gone,  *)
(* or none.                                                                *)
MCInit ==
  /\ Init
  /\ 1 \in profiles /\ kept = [s \in Servers |-> "none"]
  /\ \A s \in Servers : (s = 1) <=> (status[s] = "connected")
  /\ IF 2 \in profiles THEN selected = 1 ELSE selected # 1
  /\ scan = [s \in Servers |-> None]

(* The daemon's steps do not see whether a commit is due: they wait for it. *)
Quiet == due = {} /\ ~Switched

MCNext ==
  \/ Quiet /\ (Daemon \/ Browser)
  \/ ~Quiet /\ "click" \notin due /\
       (Deliver \/ (\E i \in DOMAIN flight : Receive(i)) \/ \E s \in Servers : Select(s))
  \/ Commit

(* Requests of different kinds have no order among them; what is only shown *)
(* makes no difference.                                                    *)
Sent(kinds) == SelectSeq(flight, LAMBDA r : r.kind \in kinds)

View ==
  <<profiles, status, scan, kept, list, loadError, selected, report, tab, touched,
    IF Cued(last) = {} THEN "none" ELSE last, due, stream, acts, turns, excused,
    Sent({"list"}), Sent({"report", "rescan"}), Sent(Posts)>>

MCSpec == MCInit /\ [][MCNext]_vars /\ Fairness

=============================================================================
