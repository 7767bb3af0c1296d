----------------------------- MODULE AppProofs -----------------------------
(* What the root of the page promises, for any servers, scans and bounds.  *)
EXTENDS App, FiniteSetTheorems, WellFoundedInduction, SequenceTheorems, TLAPS

----------------------------------------------------------------------------
(* Numbers and sequences.                                                  *)

(* A set of numbers has a least one: intervals are well-founded.           *)
LEMMA Least ==
  ASSUME NEW T, T \subseteq Nat, T # {}
  PROVE  \E m \in T : \A n \in T : m <= n
<1> DEFINE Upto == {S \in SUBSET Nat : \E n \in T : S = 1 .. n}
<1>1. Upto \subseteq FiniteSubsetsOf(Nat)
  <2>1. \A n \in T : IsFiniteSet(1 .. n)
    BY FS_Interval
  <2> QED BY <2>1 DEF FiniteSubsetsOf
<1>2. Upto # {}
  <2>1. PICK n \in T : TRUE
    OBVIOUS
  <2>2. 1 .. n \in SUBSET Nat
    BY <2>1
  <2> QED BY <2>1, <2>2
<1>3. IsWellFoundedOn(StrictSubsetOrdering(Nat), FiniteSubsetsOf(Nat))
  BY FS_StrictSubsetOrderingWellFounded
<1> HIDE DEF Upto
<1>4. PICK S \in Upto : \A R \in Upto : ~(<<R, S>> \in StrictSubsetOrdering(Nat))
  BY <1>1, <1>2, <1>3, WFMin
<1> USE DEF Upto
<1>5. PICK m \in T : S = 1 .. m
  BY <1>4
<1>6. ASSUME NEW n \in T, ~(m <= n)
      PROVE  FALSE
  <2>1. n \in Nat /\ m \in Nat /\ n < m
    BY <1>6
  <2>2. 1 .. n \in Upto
    <3>1. 1 .. n \in SUBSET Nat
      BY <2>1
    <3> QED BY <3>1
  <2>3. 1 .. n \subseteq 1 .. m
    BY <2>1
  <2>4. m \in 1 .. m /\ m \notin 1 .. n
    BY <2>1
  <2>5. <<1 .. n, 1 .. m>> \in StrictSubsetOrdering(Nat)
    <3>1. 1 .. n # 1 .. m
      BY <2>4
    <3>2. 1 .. n \in SUBSET Nat /\ 1 .. m \in SUBSET Nat
      BY <2>1
    <3> QED BY <2>3, <3>1, <3>2 DEF StrictSubsetOrdering
  <2> QED BY <1>4, <1>5, <2>2, <2>5
<1> QED BY <1>6

(* A sequence without one of its elements.                                 *)
LEMMA RemoveAtIs ==
  ASSUME NEW S, NEW s \in Seq(S), NEW i \in DOMAIN s
  PROVE  /\ RemoveAt(s, i) \in Seq(S) /\ Len(RemoveAt(s, i)) = Len(s) - 1
         /\ Len(s) \in Nat /\ DOMAIN RemoveAt(s, i) = 1 .. Len(s) - 1
         /\ \A j \in 1 .. Len(s) - 1 :
              RemoveAt(s, i)[j] = s[IF j < i THEN j ELSE j + 1]
<1>1. i \in 1 .. Len(s) /\ Len(s) \in Nat /\ DOMAIN s = 1 .. Len(s)
  BY LenProperties
<1>2. \A j \in 1 .. Len(s) : s[j] \in S
  BY ElementOfSeq
<1> DEFINE front == SubSeq(s, 1, i - 1)
           back == SubSeq(s, i + 1, Len(s))
<1>3. /\ front \in Seq(S) /\ Len(front) = i - 1
      /\ \A j \in 1 .. i - 1 : front[j] = s[j]
  <2>1. \A j \in 1 .. (i - 1) : s[j] \in S
    BY <1>1, <1>2
  <2> QED BY <1>1, <2>1, SubSeqProperties
<1>4. /\ back \in Seq(S) /\ Len(back) = Len(s) - i
      /\ \A j \in 1 .. Len(s) - i : back[j] = s[i + j]
  <2>1. \A j \in (i + 1) .. Len(s) : s[j] \in S
    BY <1>1, <1>2
  <2> QED BY <1>1, <2>1, SubSeqProperties
<1> HIDE DEF front, back
<1>5. /\ front \o back \in Seq(S) /\ Len(front \o back) = Len(s) - 1
      /\ \A j \in 1 .. Len(s) - 1 :
           (front \o back)[j] = s[IF j < i THEN j ELSE j + 1]
  <2>1. /\ front \o back \in Seq(S) /\ Len(front \o back) = Len(front) + Len(back)
        /\ \A j \in 1 .. Len(front) + Len(back) :
             (front \o back)[j] = IF j <= Len(front) THEN front[j] ELSE back[j - Len(front)]
    BY <1>3, <1>4, ConcatProperties
  <2>2. Len(front) + Len(back) = Len(s) - 1
    BY <1>1, <1>3, <1>4
  <2>3. ASSUME NEW j \in 1 .. Len(s) - 1
        PROVE  (front \o back)[j] = s[IF j < i THEN j ELSE j + 1]
    <3>1. (front \o back)[j] = IF j <= i - 1 THEN front[j] ELSE back[j - (i - 1)]
      BY <1>3, <2>1, <2>2
    <3>2. CASE j < i
      BY <1>1, <1>3, <3>1, <3>2
    <3>3. CASE ~(j < i)
      <4>1. j - (i - 1) \in 1 .. Len(s) - i /\ i + (j - (i - 1)) = j + 1
        BY <1>1, <3>3
      <4>2. back[j - (i - 1)] = s[j + 1]
        BY <1>4, <4>1
      <4> QED BY <1>1, <3>1, <3>3, <4>2
    <3> QED BY <3>2, <3>3
  <2> QED BY <2>1, <2>2, <2>3
<1>6. RemoveAt(s, i) = front \o back
  BY DEF RemoveAt, front, back
<1>7. DOMAIN RemoveAt(s, i) = 1 .. Len(s) - 1
  BY <1>5, <1>6, LenProperties
<1> QED BY <1>1, <1>5, <1>6, <1>7

(* Elements that are changed one by one.                                   *)
LEMMA ChangedSeq ==
  ASSUME NEW S, NEW s \in Seq(S), NEW t,
         t = [i \in DOMAIN s |-> t[i]], \A i \in DOMAIN s : t[i] \in S
  PROVE  t \in Seq(S) /\ Len(t) = Len(s) /\ DOMAIN t = DOMAIN s
<1>1. DOMAIN s = 1 .. Len(s) /\ Len(s) \in Nat
  BY LenProperties
<1> QED BY <1>1

----------------------------------------------------------------------------
(* Requests.                                                               *)

(* The kinds of requests have different names.                             *)
LEMMA KindsDiffer ==
  /\ "list" \notin Posts /\ "report" \notin Posts /\ "rescan" \notin Posts
  /\ {"list", "report", "rescan"} \subseteq Kinds /\ Posts \subseteq Kinds
  /\ None \notin Servers /\ None \notin Reports
BY AppAssumption DEF Kinds

(* What a request has, by its kind.                                        *)
Fields(kind, of, state, body, late) ==
  /\ state \in {"sent", "ok", "failed"} /\ late \in BOOLEAN
  /\ \/ /\ kind = "list" /\ of = None
        /\ IF state = "ok" THEN body \in Lists ELSE body = None
     \/ /\ kind \in {"report", "rescan"} /\ of \in Servers
        /\ IF state = "ok" THEN body \in Reports \cup {None} ELSE body = None
     \/ kind \in Posts /\ of \in Servers /\ body = None

LEMMA RequestMade ==
  ASSUME NEW kind, NEW of, NEW state, NEW body, NEW late, Fields(kind, of, state, body, late)
  PROVE  [kind |-> kind, of |-> of, state |-> state, body |-> body, late |-> late] \in Requests
BY DEF Fields, Requests, Asked

LEMMA RequestIs ==
  ASSUME NEW r \in Requests
  PROVE  /\ Fields(r.kind, r.of, r.state, r.body, r.late)
         /\ r = [kind |-> r.kind, of |-> r.of, state |-> r.state, body |-> r.body, late |-> r.late]
BY DEF Fields, Requests, Asked

(* One that has been sent.                                                 *)
LEMMA Sending ==
  /\ Request("list", None) \in Requests
  /\ \A s \in Servers : /\ Request("report", s) \in Requests /\ Request("rescan", s) \in Requests
                        /\ \A kind \in Posts : Request(kind, s) \in Requests
<1>1. Fields("list", None, "sent", None, FALSE)
  BY DEF Fields
<1>2. ASSUME NEW s \in Servers, NEW kind \in Posts \cup {"report", "rescan"}
      PROVE  Request(kind, s) \in Requests
  <2>1. Fields(kind, s, "sent", None, FALSE)
    BY DEF Fields
  <2> QED BY <2>1, RequestMade DEF Request
<1> QED BY <1>1, <1>2, RequestMade DEF Request

(* The requests on their way.                                              *)
LEMMA FlightIs ==
  ASSUME NEW F \in Seq(Requests)
  PROVE  /\ Len(F) \in Nat /\ DOMAIN F = 1 .. Len(F)
         /\ \A i \in DOMAIN F :
              /\ F[i] \in Requests
              /\ Fields(F[i].kind, F[i].of, F[i].state, F[i].body, F[i].late)
<1>1. Len(F) \in Nat /\ DOMAIN F = 1 .. Len(F)
  BY LenProperties
<1>2. \A i \in 1 .. Len(F) : F[i] \in Requests
  BY ElementOfSeq
<1> QED BY <1>1, <1>2, RequestIs

(* Writing parts of one.                                                   *)
Put(r, state, body) == [r EXCEPT !.state = state, !.body = body]

LEMMA Rewritten ==
  ASSUME NEW r \in Requests
  PROVE  /\ \A late : [r EXCEPT !.late = late] =
              [kind |-> r.kind, of |-> r.of, state |-> r.state, body |-> r.body, late |-> late]
         /\ \A state : [r EXCEPT !.state = state] =
              [kind |-> r.kind, of |-> r.of, state |-> state, body |-> r.body, late |-> r.late]
         /\ \A body : [r EXCEPT !.body = body] =
              [kind |-> r.kind, of |-> r.of, state |-> r.state, body |-> body, late |-> r.late]
         /\ \A state, body : Put(r, state, body) =
              [kind |-> r.kind, of |-> r.of, state |-> state, body |-> body, late |-> r.late]
<1>1. r \in [kind : {r.kind}, of : {r.of}, state : {r.state}, body : {r.body}, late : {r.late}]
  BY RequestIs
<1>2. \A late : [r EXCEPT !.late = late] =
        [kind |-> r.kind, of |-> r.of, state |-> r.state, body |-> r.body, late |-> late]
  BY <1>1
<1>3. \A state : [r EXCEPT !.state = state] =
        [kind |-> r.kind, of |-> r.of, state |-> state, body |-> r.body, late |-> r.late]
  BY <1>1
<1>4. \A body : [r EXCEPT !.body = body] =
        [kind |-> r.kind, of |-> r.of, state |-> r.state, body |-> body, late |-> r.late]
  BY <1>1
<1>5. ASSUME NEW state, NEW body
      PROVE  Put(r, state, body) =
        [kind |-> r.kind, of |-> r.of, state |-> state, body |-> body, late |-> r.late]
  <2> DEFINE q == [r EXCEPT !.state = state]
  <2>1. q \in [kind : {r.kind}, of : {r.of}, state : {state}, body : {r.body}, late : {r.late}]
    BY <1>3
  <2>2. Put(r, state, body) = [q EXCEPT !.body = body]
    BY DEF Put
  <2> HIDE DEF q
  <2>3. [q EXCEPT !.body = body] =
          [kind |-> r.kind, of |-> r.of, state |-> state, body |-> body, late |-> r.late]
    BY <2>1
  <2> QED BY <2>2, <2>3
<1> QED BY <1>2, <1>3, <1>4, <1>5

(* Requests that are changed, but remain what they are about.              *)
Changed(F, G) ==
  /\ G \in Seq(Requests) /\ Len(G) = Len(F) /\ DOMAIN G = DOMAIN F
  /\ \A i \in DOMAIN F : G[i].kind = F[i].kind /\ G[i].of = F[i].of

(* Marking them late.                                                      *)
LEMMA MarkIs ==
  ASSUME NEW F \in Seq(Requests), NEW K
  PROVE  /\ Changed(F, Mark(F, K))
         /\ \A i \in DOMAIN F :
              /\ Mark(F, K)[i].state = F[i].state /\ Mark(F, K)[i].body = F[i].body
              /\ Mark(F, K)[i].late <=> (F[i].late \/ Fetches(F[i].kind) \in K)
<1> DEFINE G == Mark(F, K)
<1>1. G = [i \in DOMAIN F |-> G[i]]
  BY DEF Mark
<1>2. ASSUME NEW i \in DOMAIN F
      PROVE  /\ G[i] \in Requests /\ G[i].kind = F[i].kind /\ G[i].of = F[i].of
             /\ G[i].state = F[i].state /\ G[i].body = F[i].body
             /\ G[i].late <=> (F[i].late \/ Fetches(F[i].kind) \in K)
  <2> DEFINE r == F[i]
             q == [kind |-> r.kind, of |-> r.of, state |-> r.state, body |-> r.body, late |-> TRUE]
  <2>1. F[i] \in Requests
    BY FlightIs
  <2>2. Fields(r.kind, r.of, r.state, r.body, r.late) /\ Fields(r.kind, r.of, r.state, r.body, TRUE)
    BY FlightIs DEF Fields
  <2>3. q \in Requests
    BY <2>2, RequestMade
  <2>4. [r EXCEPT !.late = TRUE] = q
    BY <2>1, Rewritten
  <2>5. G[i] = IF Fetches(r.kind) \in K THEN q ELSE r
    BY <2>4 DEF Mark
  <2> HIDE DEF G
  <2> QED BY <2>1, <2>2, <2>3, <2>5 DEF Fields
<1> HIDE DEF G
<1>3. G \in Seq(Requests) /\ Len(G) = Len(F) /\ DOMAIN G = DOMAIN F
  BY <1>1, <1>2, ChangedSeq
<1> QED BY <1>2, <1>3 DEF Changed, G

(* Answering them, with what is so now.                                    *)
LEMMA AnswerIs ==
  ASSUME TypeOK, NEW r \in Requests
  PROVE  Fields(r.kind, r.of, "ok", Answer(r), r.late)
<1>1. Fields(r.kind, r.of, r.state, r.body, r.late)
  BY RequestIs
<1>2. CASE r.kind = "list"
  <2>1. [s \in profiles |-> status[s]] \in [profiles -> Statuses] /\ profiles \in SUBSET Servers
    BY DEF TypeOK
  <2>2. Answer(r) \in Lists
    BY <1>2, <2>1 DEF Answer, Lists
  <2> QED BY <1>1, <1>2, <2>2, KindsDiffer DEF Fields
<1>3. CASE r.kind = "report"
  <2>1. r.of \in Servers
    BY <1>1, <1>3, KindsDiffer DEF Fields
  <2>2. scan[r.of] # None => scan[r.of] \in SUBSET {"settings", "commands"}
    BY <2>1 DEF TypeOK
  <2>3. Answer(r) \in Reports \cup {None}
    BY <1>3, <2>1, <2>2 DEF Answer, Reports
  <2> QED BY <1>1, <1>3, <2>3, KindsDiffer DEF Fields
<1>4. CASE r.kind # "list" /\ r.kind # "report"
  <2>1. Answer(r) = None
    BY <1>4 DEF Answer
  <2> QED BY <1>1, <1>4, <2>1 DEF Fields
<1> QED BY <1>2, <1>3, <1>4

LEMMA AnsweredIs ==
  ASSUME TypeOK, NEW held
  PROVE  /\ Changed(flight, Answered(held))
         /\ \A i \in DOMAIN flight :
              /\ Answered(held)[i].late = flight[i].late
              /\ IF i \in held /\ flight[i].state = "sent"
                 THEN Answered(held)[i].state = "ok" /\ Answered(held)[i].body = Answer(flight[i])
                 ELSE Answered(held)[i] = flight[i]
<1> DEFINE G == Answered(held)
<1>1. G = [i \in DOMAIN flight |-> G[i]] /\ flight \in Seq(Requests)
  BY DEF Answered, TypeOK
<1>2. ASSUME NEW i \in DOMAIN flight
      PROVE  /\ G[i] \in Requests /\ G[i].kind = flight[i].kind /\ G[i].of = flight[i].of
             /\ G[i].late = flight[i].late
             /\ IF i \in held /\ flight[i].state = "sent"
                THEN G[i].state = "ok" /\ G[i].body = Answer(flight[i])
                ELSE G[i] = flight[i]
  <2> DEFINE r == flight[i]
             q == [kind |-> r.kind, of |-> r.of, state |-> "ok", body |-> Answer(r), late |-> r.late]
  <2>1. flight[i] \in Requests
    BY <1>1, FlightIs
  <2>2. q \in Requests
    BY <2>1, AnswerIs, RequestMade
  <2>3. Put(r, "ok", Answer(r)) = q
    BY <2>1, Rewritten
  <2>4. G[i] = IF i \in held /\ r.state = "sent" THEN q ELSE r
    <3>1. G[i] = IF i \in held /\ r.state = "sent" THEN Put(r, "ok", Answer(r)) ELSE r
      BY DEF Answered, Put
    <3> QED BY <2>3, <3>1
  <2> HIDE DEF G
  <2> QED BY <2>1, <2>2, <2>4
<1> HIDE DEF G
<1>3. G \in Seq(Requests) /\ Len(G) = Len(flight) /\ DOMAIN G = DOMAIN flight
  BY <1>1, <1>2, ChangedSeq
<1> QED BY <1>2, <1>3 DEF Changed, G

(* Outdating the reports they carry.                                       *)
LEMMA OutdateIs ==
  ASSUME NEW r \in Reports \cup {None}, NEW s
  PROVE  /\ Outdate(r, s) \in Reports \cup {None}
         /\ r = None <=> Outdate(r, s) = None
         /\ r # None => Outdate(r, s).of = r.of /\ Outdate(r, s).caps = r.caps
         /\ r # None /\ Outdate(r, s).cached => r.cached
         /\ r # None /\ r.of # s => Outdate(r, s) = r
<1>1. CASE r = None
  BY <1>1 DEF Outdate
<1>2. CASE r # None
  <2>1. r \in Reports
    BY <1>2
  <2>2. [r EXCEPT !.cached = FALSE] \in Reports
    BY <2>1 DEF Reports
  <2>3. Outdate(r, s) \in Reports
    BY <2>1, <2>2 DEF Outdate
  <2>4. Outdate(r, s).of = r.of /\ Outdate(r, s).caps = r.caps
    BY <2>1 DEF Outdate, Reports
  <2>5. Outdate(r, s).cached => r.cached
    BY <2>1 DEF Outdate, Reports
  <2>6. r.of # s => Outdate(r, s) = r
    BY DEF Outdate
  <2> QED BY <1>2, <2>3, <2>4, <2>5, <2>6, KindsDiffer
<1> QED BY <1>1, <1>2

LEMMA OutdateAllIs ==
  ASSUME NEW F \in Seq(Requests), NEW s
  PROVE  /\ Changed(F, OutdateAll(F, s))
         /\ \A i \in DOMAIN F :
              /\ OutdateAll(F, s)[i].state = F[i].state /\ OutdateAll(F, s)[i].late = F[i].late
              /\ IF F[i].kind \in {"report", "rescan"}
                 THEN OutdateAll(F, s)[i].body = Outdate(F[i].body, s)
                 ELSE OutdateAll(F, s)[i] = F[i]
<1> DEFINE G == OutdateAll(F, s)
<1>1. G = [i \in DOMAIN F |-> G[i]]
  BY DEF OutdateAll
<1>2. ASSUME NEW i \in DOMAIN F
      PROVE  /\ G[i] \in Requests /\ G[i].kind = F[i].kind /\ G[i].of = F[i].of
             /\ G[i].state = F[i].state /\ G[i].late = F[i].late
             /\ IF F[i].kind \in {"report", "rescan"}
                THEN G[i].body = Outdate(F[i].body, s) ELSE G[i] = F[i]
  <2> DEFINE r == F[i]
             b == Outdate(r.body, s)
             q == [kind |-> r.kind, of |-> r.of, state |-> r.state, body |-> b, late |-> r.late]
  <2>1. r \in Requests /\ Fields(r.kind, r.of, r.state, r.body, r.late)
    BY FlightIs
  <2>2. r.kind \in {"report", "rescan"} => q \in Requests
    <3> SUFFICES ASSUME r.kind \in {"report", "rescan"} PROVE q \in Requests
      OBVIOUS
    <3>1. r.body \in Reports \cup {None}
      BY <2>1, KindsDiffer DEF Fields
    <3>2. b \in Reports \cup {None} /\ (r.body = None => b = None)
      BY <3>1, OutdateIs
    <3> HIDE DEF b
    <3>3. Fields(r.kind, r.of, r.state, b, r.late)
      BY <2>1, <3>2, KindsDiffer DEF Fields
    <3> QED BY <3>3, RequestMade
  <2>3. [r EXCEPT !.body = b] = q
    BY <2>1, Rewritten
  <2>4. G[i] = IF r.kind \in {"report", "rescan"} THEN q ELSE r
    <3>1. Fetches(r.kind) = "report" <=> r.kind \in {"report", "rescan"}
      BY DEF Fetches
    <3>2. G[i] = IF Fetches(r.kind) = "report" THEN [r EXCEPT !.body = b] ELSE r
      BY DEF OutdateAll
    <3> QED BY <2>3, <3>1, <3>2
  <2> HIDE DEF G, b
  <2>5. CASE r.kind \in {"report", "rescan"}
    BY <2>1, <2>2, <2>4, <2>5 DEF b
  <2>6. CASE r.kind \notin {"report", "rescan"}
    BY <2>1, <2>4, <2>6
  <2> QED BY <2>5, <2>6
<1> HIDE DEF G
<1>3. G \in Seq(Requests) /\ Len(G) = Len(F) /\ DOMAIN G = DOMAIN F
  BY <1>1, <1>2, ChangedSeq
<1> QED BY <1>2, <1>3 DEF Changed, G

(* Writing parts of one of them.                                           *)
Written(F, G, i, state, body) ==
  /\ Changed(F, G) /\ \A j \in DOMAIN F \ {i} : G[j] = F[j]
  /\ G[i].state = state /\ G[i].body = body /\ G[i].late = F[i].late

LEMMA WrittenIs ==
  ASSUME NEW F \in Seq(Requests), NEW i \in DOMAIN F, NEW state, NEW body,
         Fields(F[i].kind, F[i].of, state, body, F[i].late)
  PROVE  /\ Written(F, [F EXCEPT ![i].state = state, ![i].body = body], i, state, body)
         /\ body = F[i].body => Written(F, [F EXCEPT ![i].state = state], i, state, body)
<1> DEFINE r == F[i]
           q == [kind |-> r.kind, of |-> r.of, state |-> state, body |-> body, late |-> r.late]
<1>1. i \in 1 .. Len(F) /\ DOMAIN F = 1 .. Len(F) /\ r \in Requests
  BY FlightIs
<1>2. q \in Requests
  BY RequestMade
<1>3. Put(r, state, body) = q
  BY <1>1, Rewritten
<1>4. body = r.body => [r EXCEPT !.state = state] = q
  BY <1>1, Rewritten
<1>5. [F EXCEPT ![i].state = state, ![i].body = body] = [F EXCEPT ![i] = q]
  BY <1>3 DEF Put
<1>6. body = r.body => [F EXCEPT ![i].state = state] = [F EXCEPT ![i] = q]
  BY <1>4
<1> DEFINE G == [F EXCEPT ![i] = q]
<1>7. G \in Seq(Requests) /\ Len(G) = Len(F) /\ G[i] = q /\ \A j \in DOMAIN F \ {i} : G[j] = F[j]
  BY <1>1, <1>2, ExceptSeq
<1>8. DOMAIN G = DOMAIN F
  OBVIOUS
<1>9. q.kind = r.kind /\ q.of = r.of /\ q.state = state /\ q.body = body /\ q.late = r.late
  OBVIOUS
<1> HIDE DEF G, q
<1>10. Written(F, G, i, state, body)
  BY <1>7, <1>8, <1>9 DEF Written, Changed
<1> QED BY <1>5, <1>6, <1>10 DEF G

(* Removing one: where the others are before and after.                    *)
Up(i, j) == IF j < i THEN j ELSE j + 1
Down(i, k) == IF k < i THEN k ELSE k - 1

LEMMA RemovedIs ==
  ASSUME NEW F \in Seq(Requests), NEW i \in DOMAIN F
  PROVE  /\ RemoveAt(F, i) \in Seq(Requests)
         /\ \A j \in DOMAIN RemoveAt(F, i) :
              Up(i, j) \in DOMAIN F \ {i} /\ RemoveAt(F, i)[j] = F[Up(i, j)]
         /\ \A k \in DOMAIN F \ {i} :
              /\ Down(i, k) \in DOMAIN RemoveAt(F, i) /\ Up(i, Down(i, k)) = k
              /\ RemoveAt(F, i)[Down(i, k)] = F[k]
         /\ \A j, k \in DOMAIN RemoveAt(F, i) : j < k <=> Up(i, j) < Up(i, k)
<1> DEFINE R == RemoveAt(F, i)
<1>1. /\ R \in Seq(Requests) /\ Len(F) \in Nat /\ DOMAIN R = 1 .. Len(F) - 1
      /\ \A j \in 1 .. Len(F) - 1 : R[j] = F[IF j < i THEN j ELSE j + 1]
  BY RemoveAtIs
<1> HIDE DEF R
<1>2. DOMAIN F = 1 .. Len(F) /\ i \in 1 .. Len(F)
  BY FlightIs
<1>3. \A j \in DOMAIN R : Up(i, j) \in DOMAIN F \ {i} /\ R[j] = F[Up(i, j)]
  BY <1>1, <1>2 DEF Up
<1>4. \A k \in DOMAIN F \ {i} : Down(i, k) \in DOMAIN R /\ Up(i, Down(i, k)) = k
  BY <1>1, <1>2 DEF Up, Down
<1>5. \A k \in DOMAIN F \ {i} : R[Down(i, k)] = F[k]
  BY <1>3, <1>4
<1>6. \A j, k \in DOMAIN R : j < k <=> Up(i, j) < Up(i, k)
  BY <1>1, <1>2 DEF Up
<1> QED BY <1>1, <1>3, <1>4, <1>5, <1>6 DEF R

(* Sending more.                                                           *)
LEMMA JoinedIs ==
  ASSUME NEW F \in Seq(Requests), NEW E \in Seq(Requests)
  PROVE  /\ F \o E \in Seq(Requests) /\ Len(F) \in Nat /\ Len(E) \in Nat
         /\ DOMAIN F = 1 .. Len(F) /\ DOMAIN E = 1 .. Len(E)
         /\ DOMAIN (F \o E) = 1 .. Len(F) + Len(E)
         /\ \A i \in DOMAIN F : i \in DOMAIN (F \o E) /\ (F \o E)[i] = F[i]
         /\ \A i \in DOMAIN E : Len(F) + i \in DOMAIN (F \o E) /\ (F \o E)[Len(F) + i] = E[i]
         /\ \A k \in DOMAIN (F \o E) :
              k \in DOMAIN F \/ (k - Len(F) \in DOMAIN E /\ (F \o E)[k] = E[k - Len(F)])
<1>1. /\ F \o E \in Seq(Requests) /\ Len(F \o E) = Len(F) + Len(E)
      /\ \A i \in 1 .. Len(F) + Len(E) :
           (F \o E)[i] = IF i <= Len(F) THEN F[i] ELSE E[i - Len(F)]
  BY ConcatProperties
<1>2. /\ Len(F) \in Nat /\ Len(E) \in Nat /\ DOMAIN F = 1 .. Len(F) /\ DOMAIN E = 1 .. Len(E)
      /\ DOMAIN (F \o E) = 1 .. Len(F) + Len(E)
  BY <1>1, LenProperties
<1> DEFINE G == F \o E
<1> HIDE DEF G
<1>3. \A i \in 1 .. Len(F) + Len(E) : G[i] = IF i <= Len(F) THEN F[i] ELSE E[i - Len(F)]
  BY <1>1 DEF G
<1>4. \A i \in DOMAIN F : G[i] = F[i]
  BY <1>2, <1>3
<1>5. \A i \in DOMAIN E : G[Len(F) + i] = E[i]
  <2> SUFFICES ASSUME NEW i \in DOMAIN E PROVE G[Len(F) + i] = E[i]
    OBVIOUS
  <2>1. Len(F) + i \in 1 .. Len(F) + Len(E) /\ ~(Len(F) + i <= Len(F)) /\ Len(F) + i - Len(F) = i
    BY <1>2
  <2> QED BY <1>3, <2>1
<1>6. \A k \in 1 .. Len(F) + Len(E) :
        k \in DOMAIN F \/ (k - Len(F) \in DOMAIN E /\ G[k] = E[k - Len(F)])
  BY <1>2, <1>3
<1>7. /\ \A i \in DOMAIN F : i \in 1 .. Len(F) + Len(E)
      /\ \A i \in DOMAIN E : Len(F) + i \in 1 .. Len(F) + Len(E)
  BY <1>2
<1> QED BY <1>1, <1>2, <1>4, <1>5, <1>6, <1>7 DEF G

(* One request.                                                            *)
LEMMA OneSent ==
  ASSUME NEW r \in Requests
  PROVE  <<r>> \in Seq(Requests) /\ DOMAIN <<r>> = {1} /\ <<r>>[1] = r
<1>1. DOMAIN <<r>> = 1 .. 1 /\ <<r>>[1] = r
  OBVIOUS
<1> QED BY <1>1

(* What becomes of the requests when the answer to one has come.           *)
Ended(i, rest) ==
  /\ Changed(rest, flight')
  /\ \A j \in DOMAIN rest : flight'[j].state = rest[j].state /\ flight'[j].body = rest[j].body
  /\ \/ /\ flight[i].state = "failed" \/ ~Overtaken(i)
        /\ \A j \in DOMAIN rest : flight'[j] = rest[j]
        /\ excused' = IF flight[i].state = "failed" \/ flight[i].late THEN excused
                      ELSE excused \ {Fetches(flight[i].kind)}
     \/ /\ flight[i].state # "failed" /\ Overtaken(i)
        /\ \A j \in DOMAIN rest :
             flight'[j].late <=> (rest[j].late \/ Fetches(rest[j].kind) = Fetches(flight[i].kind))
        /\ excused' = excused \cup {Fetches(flight[i].kind)}

LEMMA OverIs ==
  ASSUME TypeOK, NEW i \in DOMAIN flight, Over(i)
  PROVE  Ended(i, RemoveAt(flight, i))
<1> DEFINE rest == RemoveAt(flight, i)
           kind == {Fetches(flight[i].kind)}
<1>1. rest \in Seq(Requests)
  BY RemovedIs DEF TypeOK
<1>2. CASE flight[i].state # "failed" /\ Overtaken(i)
  <2>1. excused' = excused \cup kind /\ flight' = Mark(rest, kind)
    BY <1>2 DEF Over, Accident
  <2> HIDE DEF rest
  <2>2. /\ Changed(rest, flight')
        /\ \A j \in DOMAIN rest :
             /\ flight'[j].state = rest[j].state /\ flight'[j].body = rest[j].body
             /\ flight'[j].late <=> (rest[j].late \/ Fetches(rest[j].kind) \in kind)
    BY <1>1, <2>1, MarkIs
  <2> QED BY <1>2, <2>1, <2>2 DEF Ended, rest
<1>3. CASE flight[i].state = "failed" \/ ~Overtaken(i)
  <2>1. /\ flight' = rest
        /\ excused' = IF flight[i].state = "failed" \/ flight[i].late THEN excused
                      ELSE excused \ kind
    BY <1>3 DEF Over
  <2> HIDE DEF rest
  <2>2. Changed(rest, flight')
    BY <1>1, <2>1 DEF Changed
  <2> QED BY <1>3, <2>1, <2>2 DEF Ended, rest
<1> QED BY <1>2, <1>3

(* What a commit sends.                                                    *)
Sends(E) ==
  /\ E \in Seq(Requests)
  /\ \A i \in DOMAIN E :
       /\ E[i].state = "sent" /\ ~E[i].late
       /\ E[i].kind = "list" \/ (E[i].kind = "report" /\ E[i].of = selected)
  /\ "events" \in due /\ last = "status" => \E i \in DOMAIN E : E[i].kind = "list"
  /\ "events" \in due /\ last = "discovery" /\ selected # None =>
       \E i \in DOMAIN E : E[i].kind = "report"
  /\ Switched /\ selected # None => \E i \in DOMAIN E : E[i].kind = "report"

LEMMA CommitSends ==
  ASSUME TypeOK
  PROVE  Cue \in Seq(Requests) /\ Choice \in Seq(Requests) /\ Sends(Cue \o Choice)
<1> DEFINE L == Request("list", None)
           R == Request("report", selected)
<1>1. /\ L \in Requests /\ L.kind = "list" /\ L.state = "sent" /\ ~L.late
      /\ selected # None => R \in Requests
      /\ R.kind = "report" /\ R.state = "sent" /\ ~R.late /\ R.of = selected
  <2>1. selected # None => selected \in Servers
    BY DEF TypeOK
  <2>2. selected # None => R \in Requests
    BY <2>1, Sending
  <2>3. L.kind = "list" /\ L.state = "sent" /\ L.late = FALSE
    BY DEF Request
  <2>4. R.kind = "report" /\ R.state = "sent" /\ R.late = FALSE /\ R.of = selected
    BY DEF Request
  <2> QED BY <2>2, <2>3, <2>4, Sending
<1>2. \/ Cue = <<>> /\ ("events" \in due \/ Switched =>
                          last # "status" /\ ~(last = "discovery" /\ selected # None))
      \/ Cue = <<L>>
      \/ Cue = <<R>> /\ selected # None /\ last = "discovery"
  BY DEF Cue
<1>3. IF Switched /\ selected # None THEN Choice = <<R>> ELSE Choice = <<>>
  BY DEF Choice
<1> HIDE DEF L, R
<1>4. <<L>> \in Seq(Requests) /\ DOMAIN <<L>> = {1} /\ <<L>>[1] = L
  BY <1>1, OneSent
<1>5. selected # None => <<R>> \in Seq(Requests) /\ DOMAIN <<R>> = {1} /\ <<R>>[1] = R
  BY <1>1, OneSent
<1>6. <<>> \in Seq(Requests) /\ DOMAIN <<>> = {}
  <2>1. DOMAIN <<>> = 1 .. 0
    OBVIOUS
  <2> QED BY <2>1, EmptySeq
<1>7. Cue \in Seq(Requests) /\ Choice \in Seq(Requests)
  BY <1>2, <1>3, <1>4, <1>5, <1>6
<1> DEFINE E == Cue \o Choice
<1>8. /\ E \in Seq(Requests)
      /\ \A i \in DOMAIN E : \/ \E j \in DOMAIN Cue : E[i] = Cue[j]
                             \/ \E j \in DOMAIN Choice : E[i] = Choice[j]
      /\ \A j \in DOMAIN Cue : \E i \in DOMAIN E : E[i] = Cue[j]
      /\ \A j \in DOMAIN Choice : \E i \in DOMAIN E : E[i] = Choice[j]
  <2> DEFINE n == Len(Cue)
  <2>1. /\ E \in Seq(Requests)
        /\ \A i \in DOMAIN Cue : i \in DOMAIN E /\ E[i] = Cue[i]
        /\ \A i \in DOMAIN Choice : n + i \in DOMAIN E /\ E[n + i] = Choice[i]
        /\ \A k \in DOMAIN E : k \in DOMAIN Cue \/ (k - n \in DOMAIN Choice /\ E[k] = Choice[k - n])
    BY <1>7, JoinedIs
  <2> HIDE DEF E, n
  <2>2. \A j \in DOMAIN Cue : \E i \in DOMAIN E : E[i] = Cue[j]
    BY <2>1
  <2>3. \A j \in DOMAIN Choice : \E i \in DOMAIN E : E[i] = Choice[j]
    BY <2>1
  <2>4. \A i \in DOMAIN E : \/ \E j \in DOMAIN Cue : E[i] = Cue[j]
                            \/ \E j \in DOMAIN Choice : E[i] = Choice[j]
    BY <2>1
  <2> QED BY <2>1, <2>2, <2>3, <2>4
<1> HIDE DEF E
<1>9. ASSUME NEW i \in DOMAIN E
      PROVE  E[i] = L \/ (selected # None /\ E[i] = R)
  BY <1>2, <1>3, <1>4, <1>5, <1>6, <1>8
<1>10. \A i \in DOMAIN E : /\ E[i].state = "sent" /\ ~E[i].late
                           /\ E[i].kind = "list" \/ (E[i].kind = "report" /\ E[i].of = selected)
  BY <1>1, <1>9
<1>11. "events" \in due /\ last = "status" => \E i \in DOMAIN E : E[i].kind = "list"
  <2> SUFFICES ASSUME "events" \in due, last = "status" PROVE \E i \in DOMAIN E : E[i].kind = "list"
    OBVIOUS
  <2>1. Cue = <<L>>
    BY <1>2
  <2>2. 1 \in DOMAIN Cue /\ Cue[1] = L
    BY <1>4, <2>1
  <2> QED BY <1>1, <1>8, <2>2
<1>12. "events" \in due /\ last = "discovery" /\ selected # None =>
         \E i \in DOMAIN E : E[i].kind = "report"
  <2> SUFFICES ASSUME "events" \in due, last = "discovery", selected # None
               PROVE  \E i \in DOMAIN E : E[i].kind = "report"
    OBVIOUS
  <2>1. Cue = <<R>>
    BY DEF Cue, R
  <2>2. 1 \in DOMAIN Cue /\ Cue[1] = R
    BY <1>5, <2>1
  <2> QED BY <1>1, <1>8, <2>2
<1>13. Switched /\ selected # None => \E i \in DOMAIN E : E[i].kind = "report"
  <2> SUFFICES ASSUME Switched, selected # None PROVE \E i \in DOMAIN E : E[i].kind = "report"
    OBVIOUS
  <2>1. 1 \in DOMAIN Choice /\ Choice[1] = R
    BY <1>3, <1>5
  <2> QED BY <1>1, <1>8, <2>1
<1> QED BY <1>7, <1>8, <1>10, <1>11, <1>12, <1>13 DEF Sends, E

----------------------------------------------------------------------------
(* Types.                                                                  *)

Events == {"status", "discovery", "other"}

StreamOK ==
  /\ kept \in [Servers -> {"none"} \cup Events]
  /\ stream \in [of : Servers \cup {None}, wire : Seq(Events)] /\ Len(stream.wire) <= MaxWire

LEMMA StreamTyped ==
  ASSUME TypeOK
  PROVE  StreamOK
BY DEF TypeOK, StreamOK, Events

(* An event that is published is on the open stream after the others.      *)
LEMMA PublishIs ==
  ASSUME TypeOK, NEW s \in Servers, NEW kind \in Events, Publish(s, kind)
  PROVE  /\ StreamOK' /\ stream'.of = stream.of
         /\ \A n \in DOMAIN stream.wire :
              n \in DOMAIN stream'.wire /\ stream'.wire[n] = stream.wire[n]
         /\ s = stream.of => \E n \in DOMAIN stream'.wire : stream'.wire[n] = kind
<1>1. StreamOK
  BY StreamTyped
<1>2. kept' \in [Servers -> {"none"} \cup Events]
  BY <1>1 DEF StreamOK, Publish
<1>3. CASE stream.of # s
  <2>1. stream' = stream
    BY <1>3 DEF Publish
  <2> QED BY <1>1, <1>2, <1>3, <2>1 DEF StreamOK
<1>4. CASE stream.of = s
  <2> DEFINE w == stream.wire
             v == Append(w, kind)
  <2>1. stream' = [stream EXCEPT !.wire = v] /\ Len(w) < MaxWire
    BY <1>4 DEF Publish
  <2>2. w \in Seq(Events) /\ Len(w) \in Nat /\ DOMAIN w = 1 .. Len(w)
    BY <1>1, LenProperties DEF StreamOK
  <2>3. /\ v \in Seq(Events) /\ Len(v) = Len(w) + 1 /\ v[Len(w) + 1] = kind
        /\ \A n \in 1 .. Len(w) : v[n] = w[n]
    BY <2>2, AppendProperties
  <2>4. DOMAIN v = 1 .. Len(w) + 1
    BY <2>3, LenProperties
  <2> HIDE DEF v
  <2>5. stream' \in [of : Servers \cup {None}, wire : Seq(Events)]
        /\ stream'.of = stream.of /\ stream'.wire = v
    BY <1>1, <2>1, <2>3 DEF StreamOK
  <2>6. Len(v) <= MaxWire
    BY <2>1, <2>2, <2>3, AppAssumption
  <2>7. \A n \in DOMAIN w : n \in DOMAIN v /\ v[n] = w[n]
    BY <2>2, <2>3, <2>4
  <2>8. \E n \in DOMAIN v : v[n] = kind
    BY <2>2, <2>3, <2>4
  <2> QED BY <1>2, <2>5, <2>6, <2>7, <2>8 DEF StreamOK
<1> QED BY <1>3, <1>4

(* A mapping from no server.                                               *)
LEMMA NoList ==
  <<>> \in Lists
<1>1. \A X : <<>> \in [{} -> X]
  OBVIOUS
<1>2. {} \in SUBSET Servers
  OBVIOUS
<1> QED BY <1>1, <1>2 DEF Lists

(* The page when it is loaded.                                             *)
LEMMA InitTyped ==
  ASSUME Init
  PROVE  /\ TypeOK
         /\ flight = IF selected = None THEN <<Request("list", None)>>
                     ELSE <<Request("list", None), Request("report", selected)>>
<1>1. selected # None => selected \in Servers
  BY DEF Init
<1> DEFINE L == Request("list", None)
           R == Request("report", selected)
<1>2. L \in Requests /\ (selected # None => R \in Requests)
  BY <1>1, Sending
<1> HIDE DEF L, R
<1>3. <<L>> \o <<>> = <<L>> /\ <<L>> \o <<R>> = <<L, R>>
  <2>1. <<L>> \in Seq({L, R}) /\ <<R>> \in Seq({L, R})
    OBVIOUS
  <2>2. <<L>> \o <<>> = <<L>>
    BY <2>1, ConcatEmptySeq
  <2>3. <<L>> \o <<R>> = <<L, R>>
    <3>1. <<L, R>> \in Seq({L, R}) /\ Len(<<L, R>>) = 2 /\ Len(<<L>>) = 1 /\ Len(<<R>>) = 1
      OBVIOUS
    <3>2. /\ <<L>> \o <<R>> \in Seq({L, R}) /\ Len(<<L>> \o <<R>>) = 2
          /\ \A i \in 1 .. 2 :
               (<<L>> \o <<R>>)[i] = IF i <= 1 THEN <<L>>[i] ELSE <<R>>[i - 1]
      BY <2>1, <3>1, ConcatProperties
    <3>3. (<<L>> \o <<R>>)[1] = L /\ (<<L>> \o <<R>>)[2] = R
      BY <3>2
    <3>4. \A i \in 1 .. 2 : (<<L>> \o <<R>>)[i] = <<L, R>>[i]
      BY <3>3
    <3> QED BY <3>1, <3>2, <3>4, SeqEqual
  <2> QED BY <2>2, <2>3
<1>4. flight = IF selected = None THEN <<L>> ELSE <<L, R>>
  BY <1>3 DEF Init, L, R
<1>5. flight \in Seq(Requests)
  BY <1>2, <1>4
<1>6. list \in Lists
  BY NoList DEF Init
<1>7. stream \in [of : Servers \cup {None}, wire : Seq(Events)] /\ stream.wire = <<>>
  <2>1. <<>> \in Seq(Events)
    BY EmptySeq
  <2> QED BY <2>1 DEF Init
<1>8. Len(stream.wire) <= MaxWire
  BY <1>7, AppAssumption
<1>9. 0 \in 0 .. MaxActs /\ 0 \in 0 .. MaxTurns
  BY AppAssumption
<1>10. kept \in [Servers -> {"none", "status", "discovery", "other"}]
  BY DEF Init
<1>11. TypeOK
  BY <1>5, <1>6, <1>7, <1>8, <1>9, <1>10 DEF Init, TypeOK, Events, Tabs
<1> QED BY <1>4, <1>11 DEF L, R

----------------------------------------------------------------------------
(* What the steps do to requests and events.                               *)

ReportKinds == {"report", "rescan"}

(* As it was, but for where it stands.                                     *)
Alike(r, q) ==
  /\ r.kind = q.kind /\ r.of = q.of /\ r.state = q.state /\ r.body = q.body
  /\ r.late <=> q.late

(* Events that were on their way or not looked at still are.               *)
Awaited ==
  /\ stream'.of = stream.of
  /\ Announced("status") => Announced("status")'
  /\ Announced("discovery") => Announced("discovery")'

LEMMA PublishAwaited ==
  ASSUME TypeOK, NEW s \in Servers, NEW kind \in Events, Publish(s, kind), UNCHANGED <<due, last>>
  PROVE  Awaited /\ (s = stream.of => Announced(kind)')
BY PublishIs DEF Awaited, Announced

LEMMA StreamAwaited ==
  ASSUME UNCHANGED <<stream, last>>, "events" \in due => "events" \in due'
  PROVE  Awaited
BY DEF Awaited, Announced

(* Daemon.  A connection comes or goes.                                    *)
LEMMA StatusChangesDoes ==
  ASSUME TypeOK, NEW s \in Servers, StatusChanges(s)
  PROVE  /\ TypeOK' /\ Changed(flight, flight') /\ Awaited
         /\ \A i \in DOMAIN flight :
              /\ flight[i].kind \in ReportKinds => Alike(flight'[i], flight[i])
              /\ flight[i].late => flight'[i].late
              /\ flight'[i].state = "failed" => flight[i].state = "failed"
         /\ "report" \in excused' => "report" \in excused
         /\ "report" \in excused => "report" \in excused'
         /\ \/ Announced("status")'
            \/ "list" \in excused' /\ \A i \in DOMAIN flight : flight[i].kind = "list" => flight'[i].late
<1> DEFINE K == IF stream.of = s THEN {} ELSE {"list"}
<1>1. PICK held \in Held("list", None) : Accident(K, Answered(held))
  BY DEF StatusChanges
<1>2. \A i \in held : i \in DOMAIN flight /\ flight[i].kind = "list"
  BY DEF Held
<1> DEFINE A == Answered(held)
<1>3. /\ Changed(flight, A)
      /\ \A i \in DOMAIN flight :
           /\ A[i].late = flight[i].late
           /\ IF i \in held /\ flight[i].state = "sent"
              THEN A[i].state = "ok" /\ A[i].body = Answer(flight[i]) ELSE A[i] = flight[i]
  BY AnsweredIs
<1> HIDE DEF A
<1>4. /\ Changed(A, Mark(A, K))
      /\ \A i \in DOMAIN A :
           /\ Mark(A, K)[i].state = A[i].state /\ Mark(A, K)[i].body = A[i].body
           /\ Mark(A, K)[i].late <=> (A[i].late \/ Fetches(A[i].kind) \in K)
  BY <1>3, MarkIs DEF Changed
<1>5. flight' = Mark(A, K) /\ excused' = excused \cup K
  BY <1>1 DEF Accident, A
<1>6. /\ Changed(flight, flight')
      /\ \A i \in DOMAIN flight :
           /\ flight'[i].state = A[i].state /\ flight'[i].body = A[i].body
           /\ flight'[i].late <=> (flight[i].late \/ Fetches(flight[i].kind) \in K)
  BY <1>3, <1>4, <1>5 DEF Changed
<1>7. \A k \in ReportKinds : Fetches(k) = "report" /\ Fetches("list") = "list"
  BY DEF Fetches, ReportKinds
<1>8. ASSUME NEW i \in DOMAIN flight
      PROVE  /\ flight[i].kind \in ReportKinds => Alike(flight'[i], flight[i])
             /\ flight[i].late => flight'[i].late
             /\ flight'[i].state = "failed" => flight[i].state = "failed"
  <2>1. flight'[i].kind = flight[i].kind /\ flight'[i].of = flight[i].of
    BY <1>6 DEF Changed
  <2>2. flight[i].kind \in ReportKinds => i \notin held /\ Fetches(flight[i].kind) \notin K
    BY <1>2, <1>7 DEF ReportKinds
  <2>3. flight'[i].state = "failed" => flight[i].state = "failed"
    BY <1>3, <1>6
  <2> QED BY <1>3, <1>6, <2>1, <2>2, <2>3 DEF Alike
<1>9. Publish(s, "status") /\ UNCHANGED <<due, last>> /\ "status" \in Events
  BY DEF StatusChanges, viewVars, Events
<1>10. Awaited /\ (s = stream.of => Announced("status")')
  BY <1>9, PublishAwaited
<1>11. s # stream.of => /\ "list" \in excused'
                        /\ \A i \in DOMAIN flight : flight[i].kind = "list" => flight'[i].late
  BY <1>5, <1>6, <1>7 DEF ReportKinds
<1>12. TypeOK'
  <2>1. status' \in [Servers -> Statuses]
    BY DEF StatusChanges, TypeOK
  <2>2. StreamOK'
    BY <1>9, PublishIs
  <2>3. excused' \subseteq {"list", "report"}
    BY <1>5 DEF TypeOK
  <2>4. acts' \in 0 .. MaxActs /\ turns' \in 0 .. MaxTurns
    BY AppAssumption DEF StatusChanges, Turn, TypeOK
  <2> QED BY <1>6, <2>1, <2>2, <2>3, <2>4
          DEF TypeOK, StatusChanges, viewVars, Changed, StreamOK, Events
<1> QED BY <1>5, <1>6, <1>8, <1>10, <1>11, <1>12

(* A scan: copies of the report before it are outdated.                    *)
LEMMA ScanIs ==
  ASSUME TypeOK, NEW s \in Servers, NEW caps \in Caps[s], Scan(s, caps), UNCHANGED <<due, last>>
  PROVE  /\ scan' \in [Servers -> (SUBSET {"settings", "commands"}) \cup {None}]
         /\ caps \in SUBSET {"settings", "commands"}
         /\ \A x \in Servers \ {s} : scan'[x] = scan[x]
         /\ report' = Outdate(report, s) /\ report' \in Reports \cup {None}
         /\ StreamOK' /\ Awaited /\ (s = stream.of => Announced("discovery")')
<1>1. caps \in SUBSET {"settings", "commands"}
  BY AppAssumption
<1>2. Publish(s, "discovery") /\ "discovery" \in Events
  BY DEF Scan, Events
<1>3. StreamOK' /\ Awaited /\ (s = stream.of => Announced("discovery")')
  BY <1>2, PublishIs, PublishAwaited
<1>4. report' = Outdate(report, s) /\ report' \in Reports \cup {None}
  BY OutdateIs DEF Scan, TypeOK
<1>5. /\ scan' \in [Servers -> (SUBSET {"settings", "commands"}) \cup {None}]
      /\ \A x \in Servers \ {s} : scan'[x] = scan[x]
  BY <1>1 DEF Scan, TypeOK
<1> QED BY <1>1, <1>3, <1>4, <1>5

(* What a scan and the answers before it leave of the requests.            *)
Scanned(s, G) ==
  /\ Changed(flight, G)
  /\ \A i \in DOMAIN flight :
       /\ G[i].late = flight[i].late
       /\ G[i].state = "failed" => flight[i].state = "failed"
       /\ flight[i].kind \notin ReportKinds => Alike(G[i], flight[i])
       /\ flight[i].kind = "rescan" => G[i].state = flight[i].state
       /\ flight[i].kind \in ReportKinds /\ flight[i].of # s =>
            G[i].state = flight[i].state /\ G[i].body = Outdate(flight[i].body, s)

LEMMA ScannedIs ==
  ASSUME TypeOK, NEW s \in Servers, NEW held \in Held("report", s)
  PROVE  Scanned(s, OutdateAll(Answered(held), s))
<1> DEFINE A == Answered(held)
           G == OutdateAll(A, s)
<1>1. \A i \in held : i \in DOMAIN flight /\ flight[i].kind = "report" /\ flight[i].of = s
  BY DEF Held
<1>2. /\ Changed(flight, A)
      /\ \A i \in DOMAIN flight :
           /\ A[i].late = flight[i].late
           /\ IF i \in held /\ flight[i].state = "sent"
              THEN A[i].state = "ok" /\ A[i].body = Answer(flight[i]) ELSE A[i] = flight[i]
  BY AnsweredIs
<1> HIDE DEF A
<1>3. /\ Changed(A, G)
      /\ \A i \in DOMAIN A :
           /\ G[i].state = A[i].state /\ G[i].late = A[i].late
           /\ IF A[i].kind \in {"report", "rescan"} THEN G[i].body = Outdate(A[i].body, s) ELSE G[i] = A[i]
  BY <1>2, OutdateAllIs DEF Changed
<1> HIDE DEF G
<1>4. Changed(flight, G)
  BY <1>2, <1>3 DEF Changed
<1>5. ASSUME NEW i \in DOMAIN flight
      PROVE  /\ G[i].late = flight[i].late
             /\ G[i].state = "failed" => flight[i].state = "failed"
             /\ flight[i].kind \notin ReportKinds => Alike(G[i], flight[i])
             /\ flight[i].kind = "rescan" => G[i].state = flight[i].state
             /\ flight[i].kind \in ReportKinds /\ flight[i].of # s =>
                  G[i].state = flight[i].state /\ G[i].body = Outdate(flight[i].body, s)
  <2>1. i \in DOMAIN A /\ A[i].kind = flight[i].kind /\ A[i].of = flight[i].of
    BY <1>2 DEF Changed
  <2>2. G[i].kind = flight[i].kind /\ G[i].of = flight[i].of
    BY <1>4 DEF Changed
  <2>3. G[i].late = flight[i].late /\ G[i].state = A[i].state
    BY <1>2, <1>3, <2>1
  <2>4. G[i].state = "failed" => flight[i].state = "failed"
    BY <1>2, <2>3
  <2>5. i \notin held => A[i] = flight[i]
    BY <1>2
  <2>6. flight[i].kind \notin ReportKinds => Alike(G[i], flight[i])
    <3>1. flight[i].kind \notin ReportKinds => i \notin held /\ G[i] = A[i]
      BY <1>1, <1>3, <2>1 DEF ReportKinds
    <3> QED BY <2>5, <3>1 DEF Alike
  <2>7. flight[i].kind = "rescan" => G[i].state = flight[i].state
    BY <1>1, <2>3, <2>5
  <2>8. ASSUME flight[i].kind \in ReportKinds, flight[i].of # s
        PROVE  G[i].state = flight[i].state /\ G[i].body = Outdate(flight[i].body, s)
    <3>1. A[i] = flight[i]
      BY <1>1, <2>5, <2>8
    <3>2. G[i].body = Outdate(flight[i].body, s)
      BY <1>3, <2>1, <2>8, <3>1 DEF ReportKinds
    <3> QED BY <2>3, <3>1, <3>2
  <2> QED BY <2>3, <2>4, <2>6, <2>7, <2>8
<1> QED BY <1>4, <1>5 DEF Scanned, G, A

LEMMA DiscoversDoes ==
  ASSUME TypeOK, NEW s \in Servers, Discovers(s)
  PROVE  /\ TypeOK' /\ Scanned(s, flight') /\ Awaited /\ UNCHANGED <<profiles, status, list, excused>>
         /\ report' = Outdate(report, s) /\ \A x \in Servers \ {s} : scan'[x] = scan[x]
         /\ s = stream.of => Announced("discovery")'
<1>1. PICK caps \in Caps[s] : Scan(s, caps)
  BY DEF Discovers
<1>2. PICK held \in Held("report", s) : flight' = OutdateAll(Answered(held), s)
  BY DEF Discovers
<1>3. Scanned(s, flight')
  BY <1>2, ScannedIs
<1>4. UNCHANGED <<due, last>>
  BY DEF Discovers
<1>5. /\ scan' \in [Servers -> (SUBSET {"settings", "commands"}) \cup {None}]
      /\ \A x \in Servers \ {s} : scan'[x] = scan[x]
      /\ report' = Outdate(report, s) /\ report' \in Reports \cup {None}
      /\ StreamOK' /\ Awaited /\ (s = stream.of => Announced("discovery")')
  BY <1>1, <1>4, ScanIs
<1>6. TypeOK'
  <2>1. acts' \in 0 .. MaxActs /\ turns' \in 0 .. MaxTurns
    BY AppAssumption DEF Discovers, Turn, TypeOK
  <2>2. flight' \in Seq(Requests)
    BY <1>3 DEF Scanned, Changed
  <2> QED BY <1>5, <2>1, <2>2 DEF TypeOK, Discovers, StreamOK, Events
<1>7. UNCHANGED <<profiles, status, list, excused>>
  BY DEF Discovers
<1> QED BY <1>3, <1>5, <1>6, <1>7

LEMMA ChattersDoes ==
  ASSUME TypeOK, NEW s \in Servers, Chatters(s)
  PROVE  TypeOK' /\ Awaited /\ UNCHANGED <<profiles, status, scan, list, report, flight, excused>>
<1>1. Publish(s, "other") /\ "other" \in Events /\ UNCHANGED <<due, last>>
  BY DEF Chatters, viewVars, Events
<1>2. StreamOK' /\ Awaited
  BY <1>1, PublishIs, PublishAwaited
<1>3. acts' \in 0 .. MaxActs /\ turns' \in 0 .. MaxTurns
  BY AppAssumption DEF Chatters, Turn, TypeOK
<1>4. TypeOK'
  BY <1>2, <1>3 DEF TypeOK, Chatters, viewVars, StreamOK, Events
<1> QED BY <1>2, <1>4 DEF Chatters, viewVars

(* A scan that was asked for.                                              *)
Rescanned(i, s) ==
  /\ Changed(flight, flight') /\ flight[i].kind = "rescan" /\ flight[i].state = "sent"
  /\ \A j \in DOMAIN flight :
       /\ flight'[j].late = flight[j].late
       /\ flight'[j].state = "failed" => flight[j].state = "failed"
       /\ flight[j].kind \notin ReportKinds => Alike(flight'[j], flight[j])
       /\ j # i /\ flight[j].kind = "rescan" => flight'[j].state = flight[j].state
       /\ j # i /\ flight[j].kind \in ReportKinds /\ flight[j].of # s =>
            flight'[j].state = flight[j].state /\ flight'[j].body = Outdate(flight[j].body, s)

LEMMA ServeRescanDoes ==
  ASSUME TypeOK, NEW i \in DOMAIN flight, Serve(i), ServeRescan(i)
  PROVE  /\ TypeOK' /\ flight[i].of \in Servers /\ Rescanned(i, flight[i].of) /\ Awaited
         /\ UNCHANGED <<profiles, status, list, excused>>
         /\ report' = Outdate(report, flight[i].of)
         /\ \A x \in Servers \ {flight[i].of} : scan'[x] = scan[x]
         /\ flight[i].of = stream.of => Announced("discovery")'
<1> DEFINE s == flight[i].of
<1>1. flight[i].kind = "rescan" /\ flight[i].state = "sent" /\ flight[i].late \in BOOLEAN /\ s \in Servers
  <2>1. Fields(flight[i].kind, flight[i].of, flight[i].state, flight[i].body, flight[i].late)
    BY FlightIs DEF TypeOK
  <2>2. flight[i].kind = "rescan" /\ flight[i].state = "sent"
    BY DEF Serve, ServeRescan
  <2> QED BY <2>1, <2>2, KindsDiffer DEF Fields
<1>2. PICK caps \in Caps[s], held \in Held("report", s) :
        /\ Scan(s, caps)
        /\ flight' = [OutdateAll(Answered(held), s) EXCEPT
                        ![i].state = "ok", ![i].body = [of |-> s, caps |-> caps, cached |-> TRUE]]
  BY DEF ServeRescan
<1> DEFINE G == OutdateAll(Answered(held), s)
           b == [of |-> s, caps |-> caps, cached |-> TRUE]
<1> HIDE DEF s
<1>3. UNCHANGED <<due, last>>
  BY DEF Serve
<1>4. /\ scan' \in [Servers -> (SUBSET {"settings", "commands"}) \cup {None}]
      /\ caps \in SUBSET {"settings", "commands"}
      /\ \A x \in Servers \ {s} : scan'[x] = scan[x]
      /\ report' = Outdate(report, s) /\ report' \in Reports \cup {None}
      /\ StreamOK' /\ Awaited /\ (s = stream.of => Announced("discovery")')
  BY <1>1, <1>2, <1>3, ScanIs
<1>5. Scanned(s, G)
  BY <1>1, ScannedIs
<1>6. b \in Reports
  BY <1>1, <1>4 DEF Reports
<1>7. flight' = [G EXCEPT ![i].state = "ok", ![i].body = b]
  BY <1>2
<1> HIDE DEF G, b
<1>8. /\ G \in Seq(Requests) /\ i \in DOMAIN G /\ DOMAIN G = DOMAIN flight
      /\ G[i].kind = "rescan" /\ G[i].of = s /\ G[i].late = flight[i].late
  BY <1>1, <1>5 DEF Scanned, Changed, s
<1>9. Written(G, flight', i, "ok", b)
  <2>1. Fields(G[i].kind, G[i].of, "ok", b, G[i].late)
    BY <1>1, <1>6, <1>8 DEF Fields
  <2> QED BY <1>7, <1>8, <2>1, WrittenIs
<1>10. Changed(flight, flight')
  BY <1>5, <1>9 DEF Scanned, Written, Changed
<1>11. ASSUME NEW j \in DOMAIN flight
       PROVE  /\ flight'[j].late = flight[j].late
              /\ flight'[j].state = "failed" => flight[j].state = "failed"
              /\ flight[j].kind \notin ReportKinds => Alike(flight'[j], flight[j])
              /\ j # i /\ flight[j].kind = "rescan" => flight'[j].state = flight[j].state
              /\ j # i /\ flight[j].kind \in ReportKinds /\ flight[j].of # s =>
                   flight'[j].state = flight[j].state /\ flight'[j].body = Outdate(flight[j].body, s)
  <2>1. CASE j = i
    BY <1>1, <1>8, <1>9, <2>1 DEF Written, ReportKinds
  <2>2. CASE j # i
    <3>1. flight'[j] = G[j]
      BY <1>8, <1>9, <2>2 DEF Written
    <3> QED BY <1>5, <3>1 DEF Scanned
  <2> QED BY <2>1, <2>2
<1>12. Rescanned(i, s)
  BY <1>1, <1>10, <1>11 DEF Rescanned
<1>13. UNCHANGED <<profiles, status, list, excused>>
  BY DEF Serve, ServeRescan
<1>14. TypeOK'
  <2>1. flight' \in Seq(Requests)
    BY <1>10 DEF Changed
  <2> QED BY <1>4, <2>1 DEF TypeOK, Serve, ServeRescan, StreamOK, Events
<1> QED BY <1>1, <1>4, <1>12, <1>13, <1>14 DEF s

(* A change that was asked for, or that nothing comes of.                  *)
LEMMA ServePostDoes ==
  ASSUME TypeOK, NEW i \in DOMAIN flight, Serve(i), ServePost(i)
  PROVE  /\ TypeOK' /\ Changed(flight, flight') /\ Awaited
         /\ UNCHANGED <<scan, report, excused>>
         /\ flight'[i].kind \in Posts /\ flight'[i].state = "ok"
         /\ \A j \in DOMAIN flight :
              /\ flight[j].kind \in ReportKinds => Alike(flight'[j], flight[j])
              /\ flight'[j].state = "failed" => flight[j].state = "failed"
              /\ flight'[j].late = flight[j].late
<1> DEFINE s == flight[i].of
<1>1. /\ flight[i].kind \in Posts /\ flight[i].kind # "list" /\ flight[i].kind \notin ReportKinds
      /\ s \in Servers /\ flight[i].body = None /\ flight[i].late \in BOOLEAN
  <2>1. Fields(flight[i].kind, flight[i].of, flight[i].state, flight[i].body, flight[i].late)
    BY FlightIs DEF TypeOK
  <2>2. flight[i].kind \in Posts
    BY DEF ServePost
  <2> QED BY <2>1, <2>2, KindsDiffer DEF Fields, ReportKinds
<1>2. PICK held \in Held("list", None) : flight' = [Answered(held) EXCEPT ![i].state = "ok"]
  BY DEF ServePost
<1>3. \A j \in held : j \in DOMAIN flight /\ flight[j].kind = "list"
  BY DEF Held
<1> DEFINE A == Answered(held)
<1>4. /\ Changed(flight, A)
      /\ \A j \in DOMAIN flight :
           /\ A[j].late = flight[j].late
           /\ IF j \in held /\ flight[j].state = "sent"
              THEN A[j].state = "ok" /\ A[j].body = Answer(flight[j]) ELSE A[j] = flight[j]
  BY AnsweredIs
<1> HIDE DEF A
<1>5. A \in Seq(Requests) /\ i \in DOMAIN A /\ DOMAIN A = DOMAIN flight /\ A[i] = flight[i]
  BY <1>1, <1>3, <1>4 DEF Changed
<1>6. Written(A, flight', i, "ok", None)
  <2>1. Fields(A[i].kind, A[i].of, "ok", None, A[i].late)
    BY <1>1, <1>5 DEF Fields
  <2>2. A[i].body = None
    BY <1>1, <1>5
  <2>3. Written(A, [A EXCEPT ![i].state = "ok"], i, "ok", None)
    BY <1>5, <2>1, <2>2, WrittenIs
  <2> QED BY <1>2, <2>3 DEF A
<1>7. Changed(flight, flight') /\ flight'[i].kind \in Posts /\ flight'[i].state = "ok"
  BY <1>1, <1>4, <1>6 DEF Written, Changed
<1>8. ASSUME NEW j \in DOMAIN flight
      PROVE  /\ flight[j].kind \in ReportKinds => Alike(flight'[j], flight[j])
             /\ flight'[j].state = "failed" => flight[j].state = "failed"
             /\ flight'[j].late = flight[j].late
  <2>1. CASE j = i
    BY <1>1, <1>5, <1>6, <2>1 DEF Written
  <2>2. CASE j # i
    <3>1. flight'[j] = A[j]
      BY <1>5, <1>6, <2>2 DEF Written
    <3>2. flight[j].kind \in ReportKinds => A[j] = flight[j]
      BY <1>3, <1>4 DEF ReportKinds
    <3> QED BY <1>4, <3>1, <3>2 DEF Alike
  <2> QED BY <2>1, <2>2
<1>9. UNCHANGED <<due, last>>
  BY DEF Serve
<1>10. StreamOK' /\ Awaited
  <2>1. CASE Publish(s, "status")
    <3>1. "status" \in Events
      BY DEF Events
    <3> QED BY <1>1, <1>9, <2>1, <3>1, PublishIs, PublishAwaited
  <2>2. CASE UNCHANGED <<status, kept, stream>>
    <3>1. StreamOK'
      BY <2>2, StreamTyped DEF StreamOK
    <3>2. Awaited
      BY <1>9, <2>2, StreamAwaited
    <3> QED BY <3>1, <3>2
  <2> QED BY <2>1, <2>2 DEF ServePost
<1>11. TypeOK'
  <2>1. profiles' \subseteq Servers
    BY <1>1 DEF ServePost, TypeOK
  <2>2. status' \in [Servers -> Statuses]
    BY DEF ServePost, TypeOK, Statuses
  <2>3. flight' \in Seq(Requests)
    BY <1>7 DEF Changed
  <2> QED BY <1>10, <2>1, <2>2, <2>3 DEF TypeOK, Serve, ServePost, StreamOK, Events
<1>12. UNCHANGED <<scan, report, excused>>
  BY DEF Serve, ServePost
<1> QED BY <1>7, <1>8, <1>10, <1>11, <1>12

LEMMA RefuseDoes ==
  ASSUME TypeOK, NEW i \in DOMAIN flight, Serve(i), Refuse(i)
  PROVE  /\ TypeOK' /\ Awaited /\ UNCHANGED <<profiles, status, scan, list, report, excused>>
         /\ flight[i].kind \in Posts \cup {"rescan"} /\ flight[i].state = "sent"
         /\ Written(flight, flight', i, "failed", flight[i].body)
<1>1. flight[i].kind \in Posts \cup {"rescan"} /\ flight[i].state = "sent"
  BY DEF Serve, Refuse
<1>2. Written(flight, flight', i, "failed", flight[i].body)
  <2>1. Fields(flight[i].kind, flight[i].of, flight[i].state, flight[i].body, flight[i].late)
    BY FlightIs DEF TypeOK
  <2>2. Fields(flight[i].kind, flight[i].of, "failed", flight[i].body, flight[i].late)
    BY <1>1, <2>1, KindsDiffer DEF Fields
  <2>3. flight \in Seq(Requests)
    BY DEF TypeOK
  <2>4. Written(flight, [flight EXCEPT ![i].state = "failed"], i, "failed", flight[i].body)
    BY <2>2, <2>3, WrittenIs
  <2> QED BY <2>4 DEF Refuse
<1>3. Awaited
  BY StreamAwaited DEF Serve, Refuse
<1>4. TypeOK'
  <2>1. flight' \in Seq(Requests)
    BY <1>2 DEF Written, Changed
  <2> QED BY <2>1 DEF TypeOK, Serve, Refuse, daemonVars
<1> QED BY <1>1, <1>2, <1>3, <1>4 DEF Serve, Refuse, daemonVars

(* A request that fails spoils those of its kind.                          *)
LEMMA FailDoes ==
  ASSUME TypeOK, NEW i \in DOMAIN flight, Fail(i)
  PROVE  /\ TypeOK' /\ Changed(flight, flight') /\ Awaited
         /\ UNCHANGED <<profiles, status, scan, list, report>>
         /\ excused' = excused \cup {Fetches(flight[i].kind)}
         /\ \A j \in DOMAIN flight :
              /\ flight'[j].late <=> (flight[j].late \/ Fetches(flight[j].kind) = Fetches(flight[i].kind))
              /\ j # i => flight'[j].state = flight[j].state /\ flight'[j].body = flight[j].body
<1> DEFINE W == [flight EXCEPT ![i].state = "failed", ![i].body = None]
           K == {Fetches(flight[i].kind)}
<1>1. Written(flight, W, i, "failed", None)
  <2>1. Fields(flight[i].kind, flight[i].of, flight[i].state, flight[i].body, flight[i].late)
    BY FlightIs DEF TypeOK
  <2>2. Fields(flight[i].kind, flight[i].of, "failed", None, flight[i].late)
    BY <2>1, KindsDiffer DEF Fields
  <2>3. flight \in Seq(Requests)
    BY DEF TypeOK
  <2> QED BY <2>2, <2>3, WrittenIs
<1>2. flight' = Mark(W, K) /\ excused' = excused \cup K
  BY DEF Fail, Accident
<1> HIDE DEF W
<1>3. /\ Changed(W, flight')
      /\ \A j \in DOMAIN W :
           /\ flight'[j].state = W[j].state /\ flight'[j].body = W[j].body
           /\ flight'[j].late <=> (W[j].late \/ Fetches(W[j].kind) \in K)
  BY <1>1, <1>2, MarkIs DEF Written, Changed
<1>4. Changed(flight, flight')
  BY <1>1, <1>3 DEF Written, Changed
<1>5. ASSUME NEW j \in DOMAIN flight
      PROVE  /\ flight'[j].late <=> (flight[j].late \/ Fetches(flight[j].kind) = Fetches(flight[i].kind))
             /\ j # i => flight'[j].state = flight[j].state /\ flight'[j].body = flight[j].body
  <2>1. j \in DOMAIN W /\ W[j].kind = flight[j].kind /\ W[j].late = flight[j].late
    BY <1>1 DEF Written, Changed
  <2>2. j # i => W[j] = flight[j]
    BY <1>1 DEF Written
  <2> QED BY <1>3, <2>1, <2>2
<1>6. Awaited
  BY StreamAwaited DEF Fail, viewVars
<1>7. TypeOK'
  <2>1. flight' \in Seq(Requests)
    BY <1>4 DEF Changed
  <2>2. excused' \subseteq {"list", "report"}
    BY <1>2 DEF TypeOK, Fetches
  <2>3. acts' \in 0 .. MaxActs /\ turns' \in 0 .. MaxTurns
    BY AppAssumption DEF Fail, Turn, TypeOK
  <2> QED BY <2>1, <2>2, <2>3 DEF TypeOK, Fail, daemonVars, viewVars
<1> QED BY <1>2, <1>4, <1>5, <1>6, <1>7 DEF Fail, daemonVars, viewVars

(* The browser.  The selection stays, or moves to a server of the list.    *)
LEMMA KeptIs ==
  ASSUME NEW current \in Servers \cup {None}, NEW servers \in SUBSET Servers
  PROVE  Kept(current, servers) \in Servers \cup {None}
<1>1. CASE current \in servers
  BY <1>1 DEF Kept
<1>2. CASE current \notin servers /\ servers = {}
  BY <1>2 DEF Kept
<1>3. CASE current \notin servers /\ servers # {}
  <2>1. servers \subseteq Nat
    BY AppAssumption
  <2>2. \E s \in servers : \A t \in servers : s <= t
    BY <1>3, <2>1, Least
  <2>3. Kept(current, servers) = CHOOSE s \in servers : \A t \in servers : s <= t
    BY <1>3 DEF Kept
  <2> QED BY <2>2, <2>3
<1> QED BY <1>1, <1>2, <1>3

(* What an answer can say.                                                 *)
LEMMA BodyIs ==
  ASSUME TypeOK, NEW i \in DOMAIN flight, flight[i].state # "failed"
  PROVE  /\ flight[i].kind = "list" => Body(flight[i]) \in Lists
         /\ flight[i].kind \in ReportKinds => Body(flight[i]) \in Reports \cup {None}
<1> DEFINE r == flight[i]
<1>1. r \in Requests /\ Fields(r.kind, r.of, r.state, r.body, r.late)
  BY FlightIs DEF TypeOK
<1>2. Fields(r.kind, r.of, "ok", Answer(r), r.late)
  BY <1>1, AnswerIs
<1> HIDE DEF r
<1>3. r.state = "sent" \/ r.state = "ok"
  BY <1>1 DEF Fields, r
<1>4. Body(r) = IF r.state = "sent" THEN Answer(r) ELSE r.body
  BY DEF Body
<1>5. Fields(r.kind, r.of, "ok", Body(r), r.late)
  BY <1>1, <1>2, <1>3, <1>4
<1>6. r.kind = "list" => Body(r) \in Lists
  BY <1>5, KindsDiffer DEF Fields
<1>7. r.kind \in ReportKinds => Body(r) \in Reports \cup {None}
  BY <1>5, KindsDiffer DEF Fields, ReportKinds
<1> QED BY <1>6, <1>7 DEF r

LEMMA EndedTyped ==
  ASSUME TypeOK, NEW i \in DOMAIN flight, Over(i)
  PROVE  /\ Ended(i, RemoveAt(flight, i)) /\ flight' \in Seq(Requests)
         /\ excused' \subseteq {"list", "report"}
<1>1. Ended(i, RemoveAt(flight, i))
  BY OverIs
<1>2. flight' \in Seq(Requests)
  BY <1>1 DEF Ended, Changed
<1>3. Fetches(flight[i].kind) \in {"list", "report"}
  BY DEF Fetches
<1>4. excused' \subseteq {"list", "report"}
  BY <1>1, <1>3 DEF Ended, TypeOK
<1> QED BY <1>1, <1>2, <1>4

LEMMA ReceiveListDoes ==
  ASSUME TypeOK, NEW i \in DOMAIN flight, ReceiveList(i)
  PROVE  /\ TypeOK' /\ Ended(i, RemoveAt(flight, i)) /\ Awaited
         /\ UNCHANGED <<profiles, status, scan, report>>
<1>1. /\ Ended(i, RemoveAt(flight, i)) /\ flight' \in Seq(Requests)
      /\ excused' \subseteq {"list", "report"}
  BY EndedTyped DEF ReceiveList
<1>2. list' \in Lists /\ selected' \in Servers \cup {None} /\ loadError' \in BOOLEAN
  <2>1. CASE flight[i].state # "failed"
    <3>1. list' = Body(flight[i]) /\ selected' = Kept(selected, DOMAIN list') /\ loadError' = FALSE
      BY <2>1 DEF ReceiveList
    <3>2. list' \in Lists
      BY <2>1, <3>1, BodyIs DEF ReceiveList
    <3>3. DOMAIN list' \in SUBSET Servers
      BY <3>2 DEF Lists
    <3>4. selected \in Servers \cup {None}
      BY DEF TypeOK
    <3> QED BY <3>1, <3>2, <3>3, <3>4, KeptIs
  <2>2. CASE flight[i].state = "failed"
    BY <2>2 DEF ReceiveList, TypeOK
  <2> QED BY <2>1, <2>2
<1>3. Awaited
  BY StreamAwaited DEF ReceiveList
<1>4. TypeOK'
  <2>1. {loadError', reportError', rescanning', touched'} \subseteq BOOLEAN
    BY <1>2 DEF ReceiveList, TypeOK
  <2> QED BY <1>1, <1>2, <2>1 DEF TypeOK, ReceiveList, daemonVars
<1> QED BY <1>1, <1>3, <1>4 DEF ReceiveList, daemonVars

(* What setReport leaves.                                                  *)
LEMMA SetReportIs ==
  ASSUME TypeOK, NEW r \in Reports \cup {None}, NEW error \in BOOLEAN, SetReport(r, error)
  PROVE  /\ report' \in Reports \cup {None} /\ reportError' \in BOOLEAN
         /\ due' \subseteq {"events", "report", "click"}
         /\ "events" \in due => "events" \in due'
BY DEF SetReport, TypeOK

LEMMA ReceiveReportDoes ==
  ASSUME TypeOK, NEW i \in DOMAIN flight, ReceiveReport(i)
  PROVE  /\ TypeOK' /\ Ended(i, RemoveAt(flight, i)) /\ Awaited
         /\ UNCHANGED <<profiles, status, scan, list>>
<1>1. /\ Ended(i, RemoveAt(flight, i)) /\ flight' \in Seq(Requests)
      /\ excused' \subseteq {"list", "report"}
  BY EndedTyped DEF ReceiveReport
<1>2. /\ report' \in Reports \cup {None} /\ reportError' \in BOOLEAN
      /\ due' \subseteq {"events", "report", "click"}
      /\ "events" \in due => "events" \in due'
  <2>1. CASE flight[i].state # "failed"
    <3>1. Body(flight[i]) \in Reports \cup {None}
      BY <2>1, BodyIs DEF ReceiveReport, ReportKinds
    <3> QED BY <2>1, <3>1, SetReportIs DEF ReceiveReport
  <2>2. CASE flight[i].state = "failed"
    BY <2>2, SetReportIs DEF ReceiveReport
  <2> QED BY <2>1, <2>2
<1>3. Awaited
  BY <1>2, StreamAwaited DEF ReceiveReport
<1>4. TypeOK'
  <2>1. {loadError', reportError', rescanning', touched'} \subseteq BOOLEAN
    BY <1>2 DEF ReceiveReport, TypeOK
  <2> QED BY <1>1, <1>2, <2>1 DEF TypeOK, ReceiveReport, daemonVars
<1> QED BY <1>1, <1>3, <1>4 DEF ReceiveReport, daemonVars

LEMMA ReceiveRescanDoes ==
  ASSUME TypeOK, NEW i \in DOMAIN flight, ReceiveRescan(i)
  PROVE  /\ TypeOK' /\ Ended(i, RemoveAt(flight, i)) /\ Awaited
         /\ UNCHANGED <<profiles, status, scan, list>>
<1>1. /\ Ended(i, RemoveAt(flight, i)) /\ flight' \in Seq(Requests)
      /\ excused' \subseteq {"list", "report"}
  BY EndedTyped DEF ReceiveRescan
<1>2. /\ report' \in Reports \cup {None} /\ reportError' \in BOOLEAN
      /\ due' \subseteq {"events", "report", "click"}
      /\ "events" \in due => "events" \in due'
  <2>1. CASE flight[i].state = "ok"
    <3>1. Body(flight[i]) \in Reports \cup {None} /\ Body(flight[i]) = flight[i].body
      BY <2>1, BodyIs DEF ReceiveRescan, ReportKinds, Body
    <3> QED BY <2>1, <3>1, SetReportIs DEF ReceiveRescan
  <2>2. CASE flight[i].state # "ok"
    BY <2>2 DEF ReceiveRescan, TypeOK
  <2> QED BY <2>1, <2>2
<1>3. Awaited
  BY <1>2, StreamAwaited DEF ReceiveRescan
<1>4. TypeOK'
  <2>1. {loadError', reportError', rescanning', touched'} \subseteq BOOLEAN
    BY <1>2 DEF ReceiveRescan, TypeOK
  <2> QED BY <1>1, <1>2, <2>1 DEF TypeOK, ReceiveRescan, daemonVars
<1> QED BY <1>1, <1>3, <1>4 DEF ReceiveRescan, daemonVars

(* The requests after a change has been made, or has not.                  *)
LEMMA ReceivePostDoes ==
  ASSUME TypeOK, NEW i \in DOMAIN flight, ReceivePost(i)
  PROVE  /\ TypeOK' /\ Awaited /\ UNCHANGED <<profiles, status, scan, list, report, excused>>
         /\ \E E \in Seq(Requests) :
              /\ flight' = RemoveAt(flight, i) \o E
              /\ \A j \in DOMAIN E : E[j].kind = "list" /\ E[j].state = "sent" /\ ~E[j].late
              /\ flight[i].state = "ok" => 1 \in DOMAIN E
<1> DEFINE L == Request("list", None)
           E == IF flight[i].state = "ok" THEN <<L>> ELSE <<>>
<1>1. L \in Requests /\ L.kind = "list" /\ L.state = "sent" /\ L.late = FALSE
  BY Sending DEF Request
<1> HIDE DEF L
<1>2. <<L>> \in Seq(Requests) /\ DOMAIN <<L>> = {1} /\ <<L>>[1] = L
  BY <1>1, OneSent
<1>3. <<>> \in Seq(Requests) /\ DOMAIN <<>> = {}
  <2>1. DOMAIN <<>> = 1 .. 0
    OBVIOUS
  <2> QED BY <2>1, EmptySeq
<1>4. /\ E \in Seq(Requests)
      /\ \A j \in DOMAIN E : E[j].kind = "list" /\ E[j].state = "sent" /\ ~E[j].late
      /\ flight[i].state = "ok" => 1 \in DOMAIN E
  BY <1>1, <1>2, <1>3
<1>5. flight' = RemoveAt(flight, i) \o E
  BY DEF ReceivePost, L
<1> HIDE DEF E
<1>6. flight' \in Seq(Requests)
  <2>1. RemoveAt(flight, i) \in Seq(Requests)
    BY RemovedIs DEF TypeOK
  <2> QED BY <1>4, <1>5, <2>1, JoinedIs
<1>7. Awaited
  BY StreamAwaited DEF ReceivePost, viewVars
<1>8. TypeOK'
  BY <1>6 DEF TypeOK, ReceivePost, daemonVars, viewVars
<1> QED BY <1>4, <1>5, <1>7, <1>8 DEF ReceivePost, daemonVars, viewVars

(* Steps that send and answer nothing, but spoil requests of some kinds.   *)
Spoils(K) ==
  /\ Changed(flight, flight') /\ excused' = excused \cup K
  /\ \A i \in DOMAIN flight :
       /\ flight'[i].state = flight[i].state /\ flight'[i].body = flight[i].body
       /\ flight'[i].late <=> (flight[i].late \/ Fetches(flight[i].kind) \in K)

LEMMA AccidentSpoils ==
  ASSUME TypeOK, NEW K \in SUBSET {"list", "report"}, Accident(K, flight)
  PROVE  Spoils(K) /\ flight' \in Seq(Requests) /\ excused' \subseteq {"list", "report"}
<1>1. flight \in Seq(Requests) /\ flight' = Mark(flight, K) /\ excused' = excused \cup K
  BY DEF TypeOK, Accident
<1>2. /\ Changed(flight, Mark(flight, K))
      /\ \A i \in DOMAIN flight :
           /\ Mark(flight, K)[i].state = flight[i].state /\ Mark(flight, K)[i].body = flight[i].body
           /\ Mark(flight, K)[i].late <=> (flight[i].late \/ Fetches(flight[i].kind) \in K)
  BY <1>1, MarkIs
<1> QED BY <1>1, <1>2 DEF Spoils, Changed, TypeOK

LEMMA DeliverDoes ==
  ASSUME TypeOK, Deliver
  PROVE  /\ TypeOK' /\ UNCHANGED <<profiles, status, scan, list, report>> /\ stream'.of = stream.of
         /\ \E K \in SUBSET {"list", "report"} :
              /\ Spoils(K)
              /\ Announced("status") => Announced("status")' \/ "list" \in K
              /\ Announced("discovery") => Announced("discovery")' \/ "report" \in K
<1> DEFINE w == stream.wire
           K == IF "events" \in due THEN Cued(last) \ Cued(last') ELSE {}
<1>1. StreamOK /\ w # <<>> /\ w \in Seq(Events)
  BY StreamTyped DEF StreamOK, Deliver
<1>2. /\ Head(w) \in Events /\ Tail(w) \in Seq(Events) /\ Len(Tail(w)) = Len(w) - 1
      /\ \A n \in 1 .. Len(Tail(w)) : Tail(w)[n] = w[n + 1]
      /\ Len(w) \in Nat /\ DOMAIN w = 1 .. Len(w) /\ DOMAIN Tail(w) = 1 .. Len(w) - 1
      /\ Head(w) = w[1]
  BY <1>1, HeadTailProperties, LenProperties
<1>3. last' = Head(w) /\ "events" \in due' /\ due' = due \cup {"events"}
  BY DEF Deliver
<1>4. stream' = [stream EXCEPT !.wire = Tail(w)]
  BY DEF Deliver
<1>5. /\ stream' \in [of : Servers \cup {None}, wire : Seq(Events)]
      /\ stream'.of = stream.of /\ stream'.wire = Tail(w)
  BY <1>1, <1>2, <1>4 DEF StreamOK
<1>6. K \in SUBSET {"list", "report"}
  BY DEF Cued
<1>7. Accident(K, flight)
  BY DEF Deliver
<1> HIDE DEF K
<1>8. Spoils(K) /\ flight' \in Seq(Requests) /\ excused' \subseteq {"list", "report"}
  BY <1>6, <1>7, AccidentSpoils
<1>9. ASSUME NEW kind \in {"status", "discovery"}, Announced(kind)
      PROVE  Announced(kind)' \/ Cued(kind) \subseteq K
  <2>1. CASE last' = kind
    BY <1>3, <2>1 DEF Announced
  <2>2. CASE last' # kind /\ \E n \in DOMAIN w : w[n] = kind
    <3>1. PICK n \in DOMAIN w : w[n] = kind
      BY <2>2
    <3>2. n # 1 /\ n - 1 \in DOMAIN Tail(w) /\ n - 1 \in 1 .. Len(Tail(w)) /\ n - 1 + 1 = n
      BY <1>2, <1>3, <2>2, <3>1
    <3>3. Tail(w)[n - 1] = kind
      BY <1>2, <3>1, <3>2
    <3> QED BY <1>5, <3>2, <3>3 DEF Announced
  <2>3. CASE last' # kind /\ "events" \in due /\ last = kind
    BY <2>3 DEF K, Cued
  <2> QED BY <1>9, <2>1, <2>2, <2>3 DEF Announced
<1>10. Cued("status") = {"list"} /\ Cued("discovery") = {"report"}
  BY DEF Cued
<1>11. TypeOK'
  <2>1. Len(stream'.wire) <= MaxWire
    BY <1>1, <1>2, <1>5, AppAssumption DEF StreamOK
  <2>2. due' \subseteq {"events", "report", "click"}
    BY <1>3 DEF TypeOK
  <2>3. last' \in {"none", "status", "discovery", "other"}
    BY <1>2, <1>3 DEF Events
  <2> QED BY <1>5, <1>8, <2>1, <2>2, <2>3 DEF TypeOK, Deliver, daemonVars, Events
<1>12. \E X \in SUBSET {"list", "report"} :
         /\ Spoils(X)
         /\ Announced("status") => Announced("status")' \/ "list" \in X
         /\ Announced("discovery") => Announced("discovery")' \/ "report" \in X
  BY <1>6, <1>8, <1>9, <1>10
<1> QED BY <1>5, <1>11, <1>12 DEF Deliver, daemonVars

LEMMA SelectDoes ==
  ASSUME TypeOK, NEW s \in Servers, Select(s)
  PROVE  /\ TypeOK' /\ UNCHANGED <<profiles, status, scan, list, report>> /\ stream'.of = stream.of
         /\ \E K \in SUBSET {"list", "report"} :
              /\ Spoils(K)
              /\ Announced("status") => Announced("status")' \/ "list" \in K
              /\ Announced("discovery") => Announced("discovery")' \/ "report" \in K
<1> DEFINE K == IF "events" \in due THEN Cued(last) ELSE {}
<1>1. K \in SUBSET {"list", "report"}
  BY DEF Cued
<1>2. Accident(K, flight)
  BY DEF Select
<1> HIDE DEF K
<1>3. Spoils(K) /\ flight' \in Seq(Requests) /\ excused' \subseteq {"list", "report"}
  BY <1>1, <1>2, AccidentSpoils
<1>4. UNCHANGED stream
  BY DEF Select
<1>5. ASSUME NEW kind \in {"status", "discovery"}, Announced(kind)
      PROVE  Announced(kind)' \/ Cued(kind) \subseteq K
  <2>1. CASE \E n \in DOMAIN stream.wire : stream.wire[n] = kind
    BY <1>4, <2>1 DEF Announced
  <2>2. CASE "events" \in due /\ last = kind
    BY <2>2 DEF K
  <2> QED BY <1>5, <2>1, <2>2 DEF Announced
<1>6. Cued("status") = {"list"} /\ Cued("discovery") = {"report"}
  BY DEF Cued
<1>7. TypeOK'
  <2>1. acts' \in 0 .. MaxActs /\ turns' \in 0 .. MaxTurns
    BY AppAssumption DEF Select, Act, TypeOK
  <2>2. due' \subseteq {"events", "report", "click"} /\ last' \in {"none", "status", "discovery", "other"}
    BY DEF Select, TypeOK
  <2> QED BY <1>3, <2>1, <2>2 DEF TypeOK, Select, daemonVars
<1>8. \E X \in SUBSET {"list", "report"} :
         /\ Spoils(X)
         /\ Announced("status") => Announced("status")' \/ "list" \in X
         /\ Announced("discovery") => Announced("discovery")' \/ "report" \in X
  BY <1>1, <1>3, <1>5, <1>6
<1> QED BY <1>4, <1>7, <1>8 DEF Select, daemonVars

LEMMA ChooseTabDoes ==
  ASSUME TypeOK, NEW t \in Tabs, ChooseTab(t)
  PROVE  /\ TypeOK' /\ Awaited
         /\ UNCHANGED <<profiles, status, scan, list, report, flight, excused>>
<1>1. acts' \in 0 .. MaxActs /\ turns' \in 0 .. MaxTurns
  BY AppAssumption DEF ChooseTab, Act, TypeOK
<1>2. {loadError', reportError', rescanning', touched'} \subseteq BOOLEAN
  BY DEF ChooseTab, TypeOK
<1>3. TypeOK'
  BY <1>1, <1>2 DEF TypeOK, ChooseTab, daemonVars
<1>4. Awaited
  BY StreamAwaited DEF ChooseTab
<1> QED BY <1>3, <1>4 DEF ChooseTab, daemonVars

(* A request of the user is the last.                                      *)
LEMMA AskDoes ==
  ASSUME TypeOK, Rescan \/ \E kind \in Posts : Post(kind)
  PROVE  /\ TypeOK' /\ Awaited /\ UNCHANGED <<profiles, status, scan, list, report, excused>>
         /\ \E r \in Requests :
              /\ flight' = flight \o <<r>> /\ r.state = "sent" /\ ~r.late
              /\ r.kind \in Posts \/ (r.kind = "rescan" /\ r.of = stream.of)
<1>1. \E r \in Requests :
        /\ flight' = Append(flight, r) /\ r.state = "sent" /\ r.late = FALSE
        /\ r.kind \in Posts \/ (r.kind = "rescan" /\ r.of = stream.of)
  <2>1. CASE Rescan
    <3>1. stream.of \in Servers
      <4>1. DOMAIN list \subseteq Servers
        BY DEF TypeOK, Lists
      <4> QED BY <2>1, <4>1 DEF Rescan
    <3> DEFINE r == Request("rescan", stream.of)
    <3>2. r \in Requests
      BY <3>1, Sending
    <3>3. r.state = "sent" /\ r.late = FALSE /\ r.kind = "rescan" /\ r.of = stream.of
      BY DEF Request
    <3>4. flight' = Append(flight, r)
      BY <2>1 DEF Rescan
    <3> HIDE DEF r
    <3> QED BY <3>2, <3>3, <3>4
  <2>2. CASE \E kind \in Posts : Post(kind)
    <3>1. PICK kind \in Posts : Post(kind)
      BY <2>2
    <3>2. PICK s \in Servers : flight' = Append(flight, Request(kind, s))
      BY <3>1 DEF Post
    <3> DEFINE r == Request(kind, s)
    <3>3. r \in Requests
      BY Sending
    <3>4. r.state = "sent" /\ r.late = FALSE /\ r.kind \in Posts
      BY DEF Request
    <3> HIDE DEF r
    <3> QED BY <3>2, <3>3, <3>4 DEF r
  <2> QED BY <2>1, <2>2
<1>2. PICK r \in Requests :
        /\ flight' = Append(flight, r) /\ r.state = "sent" /\ r.late = FALSE
        /\ r.kind \in Posts \/ (r.kind = "rescan" /\ r.of = stream.of)
  BY <1>1
<1>3. flight \in Seq(Requests)
  BY DEF TypeOK
<1>4. flight' = flight \o <<r>> /\ flight' \in Seq(Requests)
  BY <1>2, <1>3, AppendIsConcat, AppendProperties
<1>5. Awaited
  BY StreamAwaited DEF Rescan, Post, viewVars
<1>6. TypeOK'
  <2>1. acts' \in 0 .. MaxActs /\ turns' \in 0 .. MaxTurns
    BY AppAssumption DEF Rescan, Post, Act, TypeOK
  <2>2. {loadError', reportError', rescanning', touched'} \subseteq BOOLEAN
    BY DEF Rescan, Post, viewVars, TypeOK
  <2> QED BY <1>4, <2>1, <2>2 DEF TypeOK, Rescan, Post, daemonVars, viewVars
<1> QED BY <1>2, <1>4, <1>5, <1>6 DEF Rescan, Post, daemonVars, viewVars

(* A commit sends the requests of its effects; what the old stream would   *)
(* have said of the list is lost with it.                                  *)
LEMMA CommitDoes ==
  ASSUME TypeOK, Commit
  PROVE  /\ TypeOK' /\ UNCHANGED <<profiles, status, scan, list>> /\ stream'.of = selected
         /\ ~Switched => stream' = stream /\ report' = report
         /\ selected # None => report' = report
         /\ \E K \in SUBSET {"list"} : \E M \in Seq(Requests) : \E E \in Seq(Requests) :
              /\ M = Mark(flight, K) /\ Sends(E) /\ flight' = M \o E
              /\ excused' = excused \cup K
              /\ Switched /\ (\E n \in DOMAIN stream.wire : stream.wire[n] = "status") => "list" \in K
<1> DEFINE K == IF Switched /\ Contains(stream.wire, "status") THEN {"list"} ELSE {}
           M == Mark(flight, K)
           E == Cue \o Choice
<1>1. Cue \in Seq(Requests) /\ Choice \in Seq(Requests) /\ Sends(E)
  BY CommitSends
<1>2. M \in Seq(Requests)
  BY MarkIs DEF TypeOK, Changed
<1>3. flight' = M \o Cue \o Choice /\ excused' = excused \cup K
  BY DEF Commit
<1>4. StreamOK
  BY StreamTyped
<1>5. Switched /\ (\E n \in DOMAIN stream.wire : stream.wire[n] = "status") => "list" \in K
  <2>1. DOMAIN stream.wire = 1 .. Len(stream.wire)
    BY <1>4, LenProperties DEF StreamOK
  <2> QED BY <2>1 DEF Contains
<1> HIDE DEF K, M
<1>6. flight' = M \o E /\ flight' \in Seq(Requests) /\ E \in Seq(Requests)
  <2>1. M \o Cue \o Choice = M \o (Cue \o Choice)
    BY <1>1, <1>2, ConcatAssociative
  <2>2. E \in Seq(Requests)
    BY <1>1, ConcatProperties
  <2> QED BY <1>2, <1>3, <2>1, <2>2, ConcatProperties
<1> HIDE DEF E
<1>7. K \in SUBSET {"list"}
  BY DEF K
<1>8. /\ selected # None => report' = report
      /\ report' \in Reports \cup {None} /\ reportError' \in BOOLEAN /\ touched' \in BOOLEAN
  BY DEF Commit, ResetChoice, TypeOK
<1>9. ~Switched => stream' = stream /\ report' = report
  BY DEF Commit, ResetChoice, Reopen
<1>10. StreamOK' /\ stream'.of = selected /\ last' \in {"none"} \cup Events
  <2>1. CASE ~Switched
    BY <1>4, <2>1 DEF Commit, Reopen, daemonVars, Switched, StreamOK, TypeOK, Events
  <2>2. CASE Switched
    <3> DEFINE w == IF selected = None \/ kept[selected] = "none" THEN <<>> ELSE <<kept[selected]>>
    <3>1. stream' = [of |-> selected, wire |-> w] /\ last' = "none" /\ kept' = kept
      BY <2>2 DEF Commit, Reopen, daemonVars
    <3>2. w \in Seq(Events) /\ Len(w) <= 1
      <4>1. CASE selected = None \/ kept[selected] = "none"
        BY <4>1, EmptySeq
      <4>2. CASE ~(selected = None \/ kept[selected] = "none")
        <5>1. kept[selected] \in Events
          BY <1>4, <4>2 DEF StreamOK, TypeOK
        <5> QED BY <4>2, <5>1
      <4> QED BY <4>1, <4>2
    <3> HIDE DEF w
    <3>3. Len(w) <= MaxWire
      <4>1. Len(w) \in Nat
        BY <3>2, LenProperties
      <4> QED BY <3>2, <4>1, AppAssumption
    <3> QED BY <1>4, <3>1, <3>2, <3>3 DEF StreamOK, TypeOK
  <2> QED BY <2>1, <2>2
<1>11. tab' \in Tabs
  BY DEF Commit, LandOn, DefaultTab, Tabs, TypeOK
<1>12. due' \subseteq {"events", "report", "click"}
  BY DEF Commit
<1>13. excused' \subseteq {"list", "report"}
  BY <1>3, <1>7 DEF TypeOK
<1>14. TypeOK'
  <2>1. {loadError', reportError', rescanning', touched'} \subseteq BOOLEAN
    BY <1>8 DEF Commit, TypeOK
  <2> QED BY <1>6, <1>8, <1>10, <1>11, <1>12, <1>13, <2>1
          DEF TypeOK, Commit, daemonVars, StreamOK, Events
<1>15. UNCHANGED <<profiles, status, scan, list>>
  BY DEF Commit, daemonVars
<1> QED BY <1>1, <1>2, <1>3, <1>5, <1>6, <1>7, <1>8, <1>9, <1>10, <1>14, <1>15 DEF M

----------------------------------------------------------------------------
(* The steps, one by one.                                                  *)

LEMMA NextTyped ==
  ASSUME TypeOK, [Next]_vars
  PROVE  TypeOK'
<1>1. ASSUME NEW s \in Servers, StatusChanges(s) \/ Discovers(s) \/ Chatters(s)
      PROVE  TypeOK'
  BY <1>1, StatusChangesDoes, DiscoversDoes, ChattersDoes
<1>2. ASSUME NEW i \in DOMAIN flight, Serve(i)
      PROVE  TypeOK'
  <2>1. ServeRescan(i) \/ ServePost(i) \/ Refuse(i)
    BY <1>2 DEF Serve
  <2> QED BY <1>2, <2>1, ServeRescanDoes, ServePostDoes, RefuseDoes
<1>3. ASSUME NEW i \in DOMAIN flight, Fail(i)
      PROVE  TypeOK'
  BY <1>3, FailDoes
<1>4. ASSUME NEW i \in DOMAIN flight, Receive(i)
      PROVE  TypeOK'
  BY <1>4, ReceiveListDoes, ReceiveReportDoes, ReceiveRescanDoes, ReceivePostDoes DEF Receive
<1>5. ASSUME Deliver \/ Rescan \/ (\E kind \in Posts : Post(kind))
      PROVE  TypeOK'
  BY <1>5, DeliverDoes, AskDoes
<1>6. ASSUME NEW s \in Servers, Select(s)
      PROVE  TypeOK'
  BY <1>6, SelectDoes
<1>7. ASSUME NEW t \in Tabs, ChooseTab(t)
      PROVE  TypeOK'
  BY <1>7, ChooseTabDoes
<1>8. CASE Commit
  BY <1>8, CommitDoes
<1>9. CASE UNCHANGED vars
  BY <1>9 DEF TypeOK, vars, daemonVars, viewVars
<1> QED BY <1>1, <1>2, <1>3, <1>4, <1>5, <1>6, <1>7, <1>8, <1>9 DEF Next, Daemon, Browser

(* The types are kept, whatever the daemon, the network and the user do.   *)
THEOREM AppTypeCorrect == Spec => []TypeOK
<1>1. Init => TypeOK
  BY InitTyped
<1>2. TypeOK /\ [Next]_vars => TypeOK'
  BY NextTyped
<1> QED BY <1>1, <1>2, PTL DEF Spec

----------------------------------------------------------------------------
(* The tab.                                                                *)

(* A tab that was chosen: only a commit and the user write the tab, and a  *)
(* commit that leaves the choice in place leaves the tab too.              *)
LEMMA TabWriters ==
  ASSUME [Next]_vars
  PROVE  Commit \/ (\E t \in Tabs : ChooseTab(t)) \/ UNCHANGED <<tab, touched>>
<1>1. ASSUME NEW s \in Servers, StatusChanges(s) \/ Discovers(s) \/ Chatters(s) \/ Select(s)
      PROVE  UNCHANGED <<tab, touched>>
  BY <1>1 DEF StatusChanges, Discovers, Chatters, Select, viewVars
<1>2. ASSUME NEW i \in DOMAIN flight, Serve(i) \/ Fail(i) \/ Receive(i)
      PROVE  UNCHANGED <<tab, touched>>
  BY <1>2 DEF Serve, Fail, Receive, ReceiveList, ReceiveReport, ReceiveRescan, ReceivePost, viewVars
<1>3. ASSUME Deliver \/ Rescan \/ (\E kind \in Posts : Post(kind)) \/ UNCHANGED vars
      PROVE  UNCHANGED <<tab, touched>>
  BY <1>3 DEF Deliver, Rescan, Post, viewVars, vars
<1> QED BY <1>1, <1>2, <1>3 DEF Next, Daemon, Browser

(* A tab picked by hand stays until the user picks another, or another     *)
(* server.                                                                 *)
THEOREM ChoiceIsKept == Spec => ChosenTabStays
<1>1. ASSUME [Next]_vars
      PROVE  [touched /\ touched' /\ tab' # tab => \E t \in Tabs : ChooseTab(t)]_vars
  <2>1. CASE Commit
    <3>1. touched' => Choice = <<>>
      BY <2>1 DEF Commit, ResetChoice
    <3>2. touched' => tab' = tab
      BY <2>1, <3>1 DEF Commit, LandOn
    <3> QED BY <3>2
  <2> QED BY <1>1, <2>1, TabWriters
<1> QED BY <1>1, PTL DEF Spec, ChosenTabStays

(* A report is awaited.                                                    *)
Pending == \E i \in DOMAIN flight : flight[i].kind = "report"

LEMMA TabKept ==
  ASSUME TabInv, UNCHANGED <<tab, touched>>, "report" \in due => "report" \in due',
         Pending => Pending', DefaultTab(report') = DefaultTab(report)
  PROVE  TabInv'
BY DEF TabInv, Pending

LEMMA ChangedPending ==
  ASSUME Changed(flight, flight')
  PROVE  Pending => Pending'
BY DEF Changed, Pending

(* A report that is outdated leads to the same tab.                        *)
LEMMA OutdateTab ==
  ASSUME NEW r \in Reports \cup {None}, NEW s
  PROVE  DefaultTab(Outdate(r, s)) = DefaultTab(r)
BY OutdateIs DEF DefaultTab

(* Others are awaited still when one has come.                             *)
LEMMA EndedPending ==
  ASSUME TypeOK, NEW i \in DOMAIN flight, Ended(i, RemoveAt(flight, i)), flight[i].kind # "report"
  PROVE  Pending => Pending'
<1>1. /\ \A k \in DOMAIN flight \ {i} :
           /\ Down(i, k) \in DOMAIN RemoveAt(flight, i)
           /\ RemoveAt(flight, i)[Down(i, k)] = flight[k]
  BY RemovedIs DEF TypeOK
<1>2. Changed(RemoveAt(flight, i), flight')
  BY DEF Ended
<1> QED BY <1>1, <1>2 DEF Changed, Pending

LEMMA SetReportTab ==
  ASSUME TabInv, UNCHANGED <<tab, touched>>, NEW r, NEW error, SetReport(r, error)
  PROVE  TabInv'
<1>1. CASE "report" \in due'
  BY <1>1 DEF TabInv
<1>2. CASE "report" \notin due'
  <2>1. "report" \notin due /\ report = None /\ report' = None
    BY <1>2 DEF SetReport
  <2>2. DefaultTab(None) = "console"
    BY DEF DefaultTab
  <2> QED BY <2>1, <2>2 DEF TabInv
<1> QED BY <1>1, <1>2

(* Every step keeps the tab where the report puts it.                      *)
LEMMA NextTab ==
  ASSUME TypeOK, TabInv, [Next]_vars
  PROVE  TabInv'
<1>1. ASSUME NEW s \in Servers, StatusChanges(s) \/ Discovers(s) \/ Chatters(s)
      PROVE  TabInv'
  <2>1. UNCHANGED <<tab, touched, due>>
    BY <1>1 DEF StatusChanges, Discovers, Chatters, viewVars
  <2>2. Pending => Pending'
    <3>1. CASE Chatters(s)
      BY <3>1 DEF Chatters, Pending
    <3>2. CASE StatusChanges(s) \/ Discovers(s)
      BY <3>2, StatusChangesDoes, DiscoversDoes, ChangedPending DEF Scanned
    <3> QED BY <1>1, <3>1, <3>2
  <2>3. report' = report \/ report' = Outdate(report, s)
    BY <1>1, DiscoversDoes DEF StatusChanges, Chatters, viewVars
  <2>4. DefaultTab(report') = DefaultTab(report)
    BY <2>3, OutdateTab DEF TypeOK
  <2> QED BY <2>1, <2>2, <2>4, TabKept
<1>2. ASSUME NEW i \in DOMAIN flight, Serve(i)
      PROVE  TabInv'
  <2>1. UNCHANGED <<tab, touched, due>>
    BY <1>2 DEF Serve
  <2>2. ServeRescan(i) \/ ServePost(i) \/ Refuse(i)
    BY <1>2 DEF Serve
  <2>3. Changed(flight, flight') /\ (report' = report \/ report' = Outdate(report, flight[i].of))
    BY <1>2, <2>2, ServeRescanDoes, ServePostDoes, RefuseDoes DEF Rescanned, Written
  <2>4. DefaultTab(report') = DefaultTab(report)
    BY <2>3, OutdateTab DEF TypeOK
  <2> QED BY <2>1, <2>3, <2>4, TabKept, ChangedPending
<1>3. ASSUME NEW i \in DOMAIN flight, Fail(i)
      PROVE  TabInv'
  <2>1. UNCHANGED <<tab, touched, due, report>>
    BY <1>3 DEF Fail, viewVars
  <2> QED BY <1>3, <2>1, FailDoes, TabKept, ChangedPending
<1>4. ASSUME NEW i \in DOMAIN flight, Receive(i)
      PROVE  TabInv'
  <2>1. UNCHANGED <<tab, touched>>
    BY <1>4 DEF Receive, ReceiveList, ReceiveReport, ReceiveRescan, ReceivePost, viewVars
  <2>2. CASE ReceiveList(i)
    <3>1. UNCHANGED <<due, report>> /\ flight[i].kind # "report"
      BY <2>2 DEF ReceiveList
    <3>2. Pending => Pending'
      BY <2>2, <3>1, ReceiveListDoes, EndedPending
    <3> QED BY <2>1, <3>1, <3>2, TabKept
  <2>3. CASE ReceiveReport(i)
    BY <2>1, <2>3, SetReportTab DEF ReceiveReport
  <2>4. CASE ReceiveRescan(i)
    <3>1. CASE flight[i].state = "ok"
      BY <2>1, <2>4, <3>1, SetReportTab DEF ReceiveRescan
    <3>2. CASE flight[i].state # "ok"
      <4>1. UNCHANGED <<due, report>> /\ flight[i].kind # "report"
        BY <2>4, <3>2 DEF ReceiveRescan
      <4>2. Pending => Pending'
        BY <2>4, <4>1, ReceiveRescanDoes, EndedPending
      <4> QED BY <2>1, <4>1, <4>2, TabKept
    <3> QED BY <3>1, <3>2
  <2>5. CASE ReceivePost(i)
    <3>1. UNCHANGED <<due, report>> /\ flight[i].kind # "report"
      BY <2>5, KindsDiffer DEF ReceivePost, viewVars
    <3>2. PICK E \in Seq(Requests) : flight' = RemoveAt(flight, i) \o E
      BY <2>5, ReceivePostDoes
    <3>3. Pending => Pending'
      <4> DEFINE R == RemoveAt(flight, i)
      <4>1. /\ R \in Seq(Requests)
            /\ \A k \in DOMAIN flight \ {i} : Down(i, k) \in DOMAIN R /\ R[Down(i, k)] = flight[k]
        BY RemovedIs DEF TypeOK
      <4> HIDE DEF R
      <4>2. \A j \in DOMAIN R : j \in DOMAIN (R \o E) /\ (R \o E)[j] = R[j]
        BY <4>1, JoinedIs
      <4> QED BY <3>1, <3>2, <4>1, <4>2 DEF Pending, R
    <3> QED BY <2>1, <3>1, <3>3, TabKept
  <2> QED BY <1>4, <2>2, <2>3, <2>4, <2>5 DEF Receive
<1>5. CASE Deliver
  <2>1. UNCHANGED <<tab, touched, report>> /\ ("report" \in due => "report" \in due')
    BY <1>5 DEF Deliver
  <2>2. Pending => Pending'
    BY <1>5, DeliverDoes, ChangedPending DEF Spoils
  <2> QED BY <2>1, <2>2, TabKept
<1>6. ASSUME NEW s \in Servers, Select(s)
      PROVE  TabInv'
  <2>1. UNCHANGED <<tab, touched, report>> /\ ("report" \in due => "report" \in due')
    BY <1>6 DEF Select
  <2>2. Pending => Pending'
    BY <1>6, SelectDoes, ChangedPending DEF Spoils
  <2> QED BY <2>1, <2>2, TabKept
<1>7. ASSUME NEW t \in Tabs, ChooseTab(t)
      PROVE  TabInv'
  BY <1>7 DEF ChooseTab, TabInv
<1>8. CASE Rescan \/ \E kind \in Posts : Post(kind)
  <2>1. UNCHANGED <<tab, touched, due, report>>
    BY <1>8 DEF Rescan, Post, viewVars
  <2>2. PICK r \in Requests : flight' = flight \o <<r>>
    BY <1>8, AskDoes
  <2>3. \A j \in DOMAIN flight : j \in DOMAIN (flight \o <<r>>) /\ (flight \o <<r>>)[j] = flight[j]
    BY OneSent, JoinedIs DEF TypeOK
  <2> QED BY <2>1, <2>2, <2>3, TabKept DEF Pending
<1>9. CASE Commit
  <2>1. PICK K \in SUBSET {"list"} : \E M \in Seq(Requests) : \E E \in Seq(Requests) :
          M = Mark(flight, K) /\ Sends(E) /\ flight' = M \o E
    BY <1>9, CommitDoes
  <2>2. PICK M \in Seq(Requests) : \E E \in Seq(Requests) :
          M = Mark(flight, K) /\ Sends(E) /\ flight' = M \o E
    BY <2>1
  <2>3. PICK E \in Seq(Requests) : M = Mark(flight, K) /\ Sends(E) /\ flight' = M \o E
    BY <2>2
  <2>4. Changed(flight, M)
    BY <2>3, MarkIs DEF TypeOK
  <2>5. /\ \A j \in DOMAIN M : j \in DOMAIN flight' /\ flight'[j] = M[j]
        /\ \A j \in DOMAIN E : Len(M) + j \in DOMAIN flight' /\ flight'[Len(M) + j] = E[j]
    BY <2>3, JoinedIs
  <2>6. Pending => Pending'
    BY <2>4, <2>5 DEF Pending, Changed
  <2>7. Choice # <<>> => Pending'
    <3>1. Choice # <<>> => Switched /\ selected # None
      BY DEF Choice
    <3>2. Choice # <<>> => \E j \in DOMAIN E : E[j].kind = "report"
      BY <2>3, <3>1 DEF Sends
    <3>3. \A j \in DOMAIN E : E[j].kind = "report" => Pending'
      BY <2>5 DEF Pending
    <3> QED BY <3>2, <3>3
  <2> SUFFICES ASSUME ~touched', "report" \notin due'
               PROVE  tab' = DefaultTab(report') \/ (tab' = "console" /\ Pending')
    BY DEF TabInv, Pending
  <2>8. report' = report
    BY <1>9 DEF Commit
  <2>9. touched' = (touched /\ Choice = <<>>)
    BY <1>9 DEF Commit, ResetChoice
  <2>10. tab' = CASE "report" \in due /\ ~touched' -> DefaultTab(report)
                  [] ~("report" \in due /\ ~touched') /\ Choice # <<>> -> "console"
                  [] OTHER -> tab
    BY <1>9 DEF Commit, LandOn
  <2>11. CASE "report" \in due
    BY <2>8, <2>10, <2>11
  <2>12. CASE "report" \notin due /\ Choice # <<>>
    BY <2>7, <2>10, <2>12
  <2>13. CASE "report" \notin due /\ Choice = <<>>
    <3>1. tab' = tab /\ ~touched
      BY <2>9, <2>10, <2>13
    <3> QED BY <2>6, <2>8, <2>13, <3>1 DEF TabInv, Pending
  <2> QED BY <2>11, <2>12, <2>13
<1>10. CASE UNCHANGED vars
  BY <1>10 DEF TabInv, vars, viewVars
<1> QED BY <1>1, <1>2, <1>3, <1>4, <1>5, <1>6, <1>7, <1>8, <1>9, <1>10 DEF Next, Daemon, Browser

(* Whoever picks nothing is on the highest rung of the report on screen    *)
(* once no report is awaited.                                              *)
THEOREM TabIsReports == Spec => []TabFollowsReport
<1>1. Init => TypeOK /\ TabInv
  <2>1. ASSUME Init PROVE TabInv
    BY <2>1 DEF Init, TabInv, DefaultTab
  <2> QED BY <2>1, InitTyped
<1>2. TypeOK /\ TabInv /\ [Next]_vars => (TypeOK /\ TabInv)'
  BY NextTyped, NextTab
<1>3. TabInv => TabFollowsReport
  BY DEF TabInv, TabFollowsReport, Fetches
<1> QED BY <1>1, <1>2, <1>3, PTL DEF Spec

----------------------------------------------------------------------------
(* Requests of some kinds that stay as they are, maybe at other places.    *)

SameFor(kinds, up, down) ==
  /\ \A j \in DOMAIN flight' : flight'[j].kind \in kinds =>
       up[j] \in DOMAIN flight /\ Alike(flight'[j], flight[up[j]])
  /\ \A k \in DOMAIN flight : flight[k].kind \in kinds =>
       /\ down[k] \in DOMAIN flight' /\ up[down[k]] = k /\ flight'[down[k]].kind \in kinds
  /\ \A j, k \in DOMAIN flight' :
       flight'[j].kind \in kinds /\ flight'[k].kind \in kinds => (j < k <=> up[j] < up[k])

LEMMA SameInPlace ==
  ASSUME NEW kinds, Changed(flight, flight'),
         \A i \in DOMAIN flight : flight[i].kind \in kinds => Alike(flight'[i], flight[i])
  PROVE  \E up, down : SameFor(kinds, up, down)
<1> DEFINE id == [j \in DOMAIN flight |-> j]
<1>1. \A j \in DOMAIN flight : id[j] = j
  OBVIOUS
<1> HIDE DEF id
<1>2. SameFor(kinds, id, id)
  BY <1>1 DEF SameFor, Changed
<1> QED BY <1>2

(* One of other kinds has been removed.                                    *)
LEMMA SameRemoved ==
  ASSUME NEW kinds, TypeOK, NEW i \in DOMAIN flight, flight[i].kind \notin kinds,
         Changed(RemoveAt(flight, i), flight'),
         \A j \in DOMAIN flight' : flight'[j].kind \in kinds => Alike(flight'[j], RemoveAt(flight, i)[j])
  PROVE  \E up, down : SameFor(kinds, up, down)
<1> DEFINE R == RemoveAt(flight, i)
           up == [j \in DOMAIN R |-> Up(i, j)]
           down == [k \in DOMAIN flight |-> Down(i, k)]
<1>1. /\ \A j \in DOMAIN R : Up(i, j) \in DOMAIN flight \ {i} /\ R[j] = flight[Up(i, j)]
      /\ \A k \in DOMAIN flight \ {i} :
           Down(i, k) \in DOMAIN R /\ Up(i, Down(i, k)) = k /\ R[Down(i, k)] = flight[k]
      /\ \A j, k \in DOMAIN R : j < k <=> Up(i, j) < Up(i, k)
  BY RemovedIs DEF TypeOK
<1>2. DOMAIN flight' = DOMAIN R /\ \A j \in DOMAIN R : flight'[j].kind = R[j].kind
  BY DEF Changed
<1>3. (\A j \in DOMAIN R : up[j] = Up(i, j)) /\ (\A k \in DOMAIN flight : down[k] = Down(i, k))
  OBVIOUS
<1>4. \A j \in DOMAIN flight' : flight'[j].kind \in kinds => Alike(flight'[j], R[j])
  OBVIOUS
<1> HIDE DEF up, down, R
<1>5. \A j \in DOMAIN flight' : flight'[j].kind \in kinds =>
        up[j] \in DOMAIN flight /\ Alike(flight'[j], flight[up[j]])
  BY <1>1, <1>2, <1>3, <1>4
<1>6. ASSUME NEW k \in DOMAIN flight, flight[k].kind \in kinds
      PROVE  down[k] \in DOMAIN flight' /\ up[down[k]] = k /\ flight'[down[k]].kind \in kinds
  <2>1. k \in DOMAIN flight \ {i}
    BY <1>6
  <2> QED BY <1>1, <1>2, <1>3, <1>6, <2>1
<1>7. \A j, k \in DOMAIN flight' : j < k <=> up[j] < up[k]
  BY <1>1, <1>2, <1>3
<1>8. SameFor(kinds, up, down)
  BY <1>5, <1>6, <1>7 DEF SameFor
<1> QED BY <1>8

LEMMA SameEnded ==
  ASSUME NEW kinds, TypeOK, NEW i \in DOMAIN flight, flight[i].kind \notin kinds,
         Ended(i, RemoveAt(flight, i)),
         \A kind \in kinds : Fetches(kind) # Fetches(flight[i].kind)
  PROVE  \E up, down : SameFor(kinds, up, down)
<1> DEFINE R == RemoveAt(flight, i)
<1>1. Changed(R, flight')
  BY DEF Ended
<1>2. ASSUME NEW j \in DOMAIN flight', flight'[j].kind \in kinds
      PROVE  Alike(flight'[j], R[j])
  <2> HIDE DEF R
  <2>1. Ended(i, R)
    BY DEF R
  <2>2. j \in DOMAIN R /\ flight'[j].kind = R[j].kind /\ flight'[j].of = R[j].of
    BY <1>1 DEF Changed
  <2>3. flight'[j].state = R[j].state /\ flight'[j].body = R[j].body
    BY <2>1, <2>2 DEF Ended
  <2>4. flight'[j].late <=> R[j].late
    BY <1>2, <2>1, <2>2 DEF Ended
  <2> QED BY <2>2, <2>3, <2>4 DEF Alike
<1> QED BY <1>1, <1>2, SameRemoved

(* Others have been sent after them.                                       *)
LEMMA SameJoined ==
  ASSUME NEW kinds, TypeOK, NEW M \in Seq(Requests), NEW E \in Seq(Requests),
         Changed(flight, M), flight' = M \o E,
         \A i \in DOMAIN flight : flight[i].kind \in kinds => Alike(M[i], flight[i]),
         \A i \in DOMAIN E : E[i].kind \notin kinds
  PROVE  \E up, down : SameFor(kinds, up, down)
<1> DEFINE id == [j \in DOMAIN flight |-> j]
<1>1. \A j \in DOMAIN flight : id[j] = j
  OBVIOUS
<1>2. /\ \A i \in DOMAIN M : i \in DOMAIN flight' /\ flight'[i] = M[i]
      /\ \A k \in DOMAIN flight' :
           k \in DOMAIN M \/ (k - Len(M) \in DOMAIN E /\ flight'[k] = E[k - Len(M)])
  BY JoinedIs
<1>3. DOMAIN M = DOMAIN flight /\ \A i \in DOMAIN flight : M[i].kind = flight[i].kind
  BY DEF Changed
<1> HIDE DEF id
<1>4. \A j \in DOMAIN flight' : flight'[j].kind \in kinds => j \in DOMAIN flight
  BY <1>2, <1>3
<1>5. SameFor(kinds, id, id)
  BY <1>1, <1>2, <1>3, <1>4 DEF SameFor
<1> QED BY <1>5

(* One has been removed, and others have been sent.                        *)
LEMMA SameReplaced ==
  ASSUME NEW kinds, TypeOK, NEW i \in DOMAIN flight, flight[i].kind \notin kinds,
         NEW E \in Seq(Requests), flight' = RemoveAt(flight, i) \o E,
         \A j \in DOMAIN E : E[j].kind \notin kinds
  PROVE  \E up, down : SameFor(kinds, up, down)
<1> DEFINE R == RemoveAt(flight, i)
           up == [j \in DOMAIN R |-> Up(i, j)]
           down == [k \in DOMAIN flight |-> Down(i, k)]
<1>1. /\ R \in Seq(Requests)
      /\ \A j \in DOMAIN R : Up(i, j) \in DOMAIN flight \ {i} /\ R[j] = flight[Up(i, j)]
      /\ \A k \in DOMAIN flight \ {i} :
           Down(i, k) \in DOMAIN R /\ Up(i, Down(i, k)) = k /\ R[Down(i, k)] = flight[k]
      /\ \A j, k \in DOMAIN R : j < k <=> Up(i, j) < Up(i, k)
  BY RemovedIs DEF TypeOK
<1>2. (\A j \in DOMAIN R : up[j] = Up(i, j)) /\ (\A k \in DOMAIN flight : down[k] = Down(i, k))
  OBVIOUS
<1> HIDE DEF R, up, down
<1>3. /\ \A j \in DOMAIN R : j \in DOMAIN flight' /\ flight'[j] = R[j]
      /\ \A k \in DOMAIN flight' :
           k \in DOMAIN R \/ (k - Len(R) \in DOMAIN E /\ flight'[k] = E[k - Len(R)])
  BY <1>1, JoinedIs DEF R
<1>4. \A j \in DOMAIN flight' : flight'[j].kind \in kinds => j \in DOMAIN R /\ flight'[j] = R[j]
  BY <1>3
<1>5. \A j \in DOMAIN flight' : flight'[j].kind \in kinds =>
        up[j] \in DOMAIN flight /\ Alike(flight'[j], flight[up[j]])
  BY <1>1, <1>2, <1>4 DEF Alike
<1>6. ASSUME NEW k \in DOMAIN flight, flight[k].kind \in kinds
      PROVE  down[k] \in DOMAIN flight' /\ up[down[k]] = k /\ flight'[down[k]].kind \in kinds
  <2>1. k \in DOMAIN flight \ {i}
    BY <1>6
  <2> QED BY <1>1, <1>2, <1>3, <1>6, <2>1
<1>7. \A j, k \in DOMAIN flight' :
        flight'[j].kind \in kinds /\ flight'[k].kind \in kinds => (j < k <=> up[j] < up[k])
  BY <1>1, <1>2, <1>4
<1>8. SameFor(kinds, up, down)
  BY <1>5, <1>6, <1>7 DEF SameFor
<1> QED BY <1>8

(* The last of those of a kind.                                            *)
LEMMA LastOf ==
  ASSUME NEW E \in Seq(Requests), NEW kind, \E i \in DOMAIN E : E[i].kind = kind
  PROVE  \E i \in DOMAIN E : E[i].kind = kind /\ \A j \in DOMAIN E : j > i => E[j].kind # kind
<1> DEFINE T == {n \in Nat : \E i \in DOMAIN E : E[i].kind = kind /\ n = Len(E) - i}
<1>1. Len(E) \in Nat /\ DOMAIN E = 1 .. Len(E)
  BY FlightIs
<1>2. T # {} /\ T \subseteq Nat
  <2>1. PICK i \in DOMAIN E : E[i].kind = kind
    OBVIOUS
  <2>2. Len(E) - i \in T
    BY <1>1, <2>1
  <2> QED BY <2>2
<1>3. PICK m \in T : \A n \in T : m <= n
  BY <1>2, Least
<1>4. PICK i \in DOMAIN E : E[i].kind = kind /\ m = Len(E) - i
  BY <1>3
<1>5. ASSUME NEW j \in DOMAIN E, j > i, E[j].kind = kind
      PROVE  FALSE
  <2>1. Len(E) - j \in T
    BY <1>1, <1>5
  <2>2. m <= Len(E) - j
    BY <1>3, <2>1
  <2> QED BY <1>1, <1>4, <1>5, <2>2
<1> QED BY <1>4, <1>5

----------------------------------------------------------------------------
(* The list.                                                               *)

PostDone == \E i \in DOMAIN flight : flight[i].kind \in Posts /\ flight[i].state = "ok"

LEMMA ListSpoilt ==
  ASSUME "list" \in excused',
         \A i \in DOMAIN flight' : flight'[i].kind = "list" => flight'[i].late
  PROVE  ListInv'
BY DEF ListInv, ListMatters

(* Nothing that matters to the list has happened.                          *)
LEMMA ListKept ==
  ASSUME ListInv, NEW up, NEW down, SameFor({"list"}, up, down),
         UNCHANGED <<profiles, status, list>>, Announced("status") => Announced("status")',
         PostDone => PostDone', "list" \in excused => "list" \in excused'
  PROVE  ListInv'
<1>1. \A i \in DOMAIN flight' : flight'[i].kind = "list" => 
        /\ up[i] \in DOMAIN flight /\ flight[up[i]].kind = "list"
        /\ flight'[i].state = flight[up[i]].state /\ flight'[i].body = flight[up[i]].body
        /\ flight'[i].late <=> flight[up[i]].late
  BY DEF SameFor, Alike
<1>2. \A i \in DOMAIN flight' :
        flight'[i].kind = "list" /\ flight'[i].state = "failed" => flight'[i].late
  BY <1>1 DEF ListInv
<1>3. ListMatters' => ListMatters
  BY <1>1 DEF ListMatters
<1>4. ListComes => ListComes'
  <2>1. CASE Announced("status")
    BY <2>1 DEF ListComes
  <2>2. CASE PostDone
    BY <2>2 DEF ListComes, PostDone
  <2>3. ASSUME NEW i \in DOMAIN flight, BringsList(flight[i]),
               \A j \in DOMAIN flight : j > i => flight[j].kind # "list"
        PROVE  ListComes'
    <3>1. flight[i].kind = "list"
      BY <2>3 DEF BringsList
    <3>2. down[i] \in DOMAIN flight' /\ up[down[i]] = i /\ flight'[down[i]].kind = "list"
      BY <3>1 DEF SameFor
    <3>3. Listed' = Listed
      BY DEF Listed
    <3>4. BringsList(flight[down[i]])'
      <4> DEFINE r == flight'[down[i]]
      <4>1. r.kind = "list" /\ r.state = flight[i].state /\ r.body = flight[i].body
        BY <1>1, <3>2
      <4>2. r.state = "sent" \/ (r.state = "ok" /\ r.body = Listed')
        BY <2>3, <3>3, <4>1 DEF BringsList
      <4> QED BY <4>1, <4>2 DEF BringsList
    <3>5. \A j \in DOMAIN flight' : j > down[i] => flight'[j].kind # "list"
      <4> SUFFICES ASSUME NEW j \in DOMAIN flight', j > down[i], flight'[j].kind = "list" PROVE FALSE
        OBVIOUS
      <4>1. up[j] > i
        BY <3>2 DEF SameFor
      <4> QED BY <1>1, <2>3, <4>1
    <3> QED BY <3>2, <3>4, <3>5 DEF ListComes
  <2>4. CASE list = Listed /\ \A i \in DOMAIN flight : flight[i].kind # "list"
    <3>1. list' = Listed'
      BY <2>4 DEF Listed
    <3>2. \A i \in DOMAIN flight' : flight'[i].kind # "list"
      BY <1>1, <2>4
    <3> QED BY <3>1, <3>2 DEF ListComes
  <2> QED BY <2>1, <2>2, <2>3, <2>4 DEF ListComes, PostDone
<1> QED BY <1>2, <1>3, <1>4 DEF ListInv

(* A list is asked for after everything else.                              *)
LEMMA ListSent ==
  ASSUME NEW M \in Seq(Requests), NEW E \in Seq(Requests), flight' = M \o E,
         \A i \in DOMAIN M : M[i].kind = "list" /\ M[i].state = "failed" => M[i].late,
         \A i \in DOMAIN E : E[i].state = "sent",
         \E i \in DOMAIN E : E[i].kind = "list"
  PROVE  ListInv'
<1> DEFINE n == Len(M)
<1>1. /\ n \in Nat /\ DOMAIN M = 1 .. n /\ DOMAIN E = 1 .. Len(E) /\ Len(E) \in Nat
      /\ \A i \in DOMAIN M : i \in DOMAIN flight' /\ flight'[i] = M[i]
      /\ \A i \in DOMAIN E : n + i \in DOMAIN flight' /\ flight'[n + i] = E[i]
      /\ \A k \in DOMAIN flight' :
           k \in DOMAIN M \/ (k - n \in DOMAIN E /\ flight'[k] = E[k - n])
      /\ DOMAIN flight' = 1 .. n + Len(E)
  BY JoinedIs
<1> HIDE DEF n
<1>2. PICK i \in DOMAIN E : E[i].kind = "list" /\ \A j \in DOMAIN E : j > i => E[j].kind # "list"
  BY LastOf
<1>3. n + i \in DOMAIN flight' /\ flight'[n + i].kind = "list" /\ flight'[n + i].state = "sent"
  BY <1>1, <1>2
<1>4. BringsList(flight[n + i])'
  <2> DEFINE r == flight'[n + i]
  <2> HIDE DEF r
  <2>1. n' = n
    BY DEF n
  <2>2. r.kind = "list" /\ r.state = "sent" /\ r = flight'[n + i]
    BY <1>3 DEF r
  <2> QED BY <2>1, <2>2 DEF BringsList
<1>5. ASSUME NEW k \in DOMAIN flight', k > n + i, flight'[k].kind = "list"
      PROVE  FALSE
  <2>1. k - n \in DOMAIN E /\ flight'[k] = E[k - n]
    BY <1>1, <1>2, <1>5
  <2>2. k - n > i
    BY <1>1, <1>2, <1>5
  <2> QED BY <1>2, <1>5, <2>1, <2>2
<1>6. ListComes'
  BY <1>3, <1>4, <1>5 DEF ListComes
<1>7. \A k \in DOMAIN flight' :
        flight'[k].kind = "list" /\ flight'[k].state = "failed" => flight'[k].late
  BY <1>1
<1> QED BY <1>6, <1>7 DEF ListInv

(* The answer to the first of the requests for the list is what is listed. *)
LEMMA FirstList ==
  ASSUME TypeOK, ListInv, NEW i \in DOMAIN flight, ReceiveList(i)
  PROVE  ListInv'
<1> DEFINE R == RemoveAt(flight, i)
<1>1. Ended(i, R) /\ Awaited /\ UNCHANGED <<profiles, status, scan, report>>
  BY ReceiveListDoes
<1>2. /\ R \in Seq(Requests)
      /\ \A j \in DOMAIN R : Up(i, j) \in DOMAIN flight \ {i} /\ R[j] = flight[Up(i, j)]
      /\ \A k \in DOMAIN flight \ {i} :
           Down(i, k) \in DOMAIN R /\ Up(i, Down(i, k)) = k /\ R[Down(i, k)] = flight[k]
      /\ \A j, k \in DOMAIN R : j < k <=> Up(i, j) < Up(i, k)
  BY RemovedIs DEF TypeOK
<1> HIDE DEF R
<1>3. flight[i].kind = "list" /\ Fetches(flight[i].kind) = "list"
  BY DEF ReceiveList, Fetches
<1>4. DOMAIN flight' = DOMAIN R /\ \A j \in DOMAIN R : flight'[j].kind = R[j].kind
  BY <1>1 DEF Ended, Changed
<1>5. CASE flight[i].state # "failed" /\ Overtaken(i)
  <2>1. "list" \in excused'
    BY <1>1, <1>3, <1>5 DEF Ended
  <2>2. \A j \in DOMAIN flight' : flight'[j].kind = "list" => flight'[j].late
    <3>1. \A j \in DOMAIN R : flight'[j].late <=> (R[j].late \/ Fetches(R[j].kind) = "list")
      BY <1>1, <1>3, <1>5 DEF Ended
    <3> QED BY <1>3, <1>4, <3>1
  <2> QED BY <2>1, <2>2, ListSpoilt
<1>6. CASE flight[i].state = "failed" \/ ~Overtaken(i)
  <2>1. \A j \in DOMAIN R : flight'[j] = R[j]
    BY <1>1, <1>6 DEF Ended
  <2>2. excused' = IF flight[i].state = "failed" \/ flight[i].late THEN excused ELSE excused \ {"list"}
    BY <1>1, <1>3, <1>6 DEF Ended
  <2>3. \A j \in DOMAIN flight' : Up(i, j) \in DOMAIN flight \ {i} /\ flight'[j] = flight[Up(i, j)]
    BY <1>2, <1>4, <2>1
  <2>4. \A j \in DOMAIN flight' :
          flight'[j].kind = "list" /\ flight'[j].state = "failed" => flight'[j].late
    BY <2>3 DEF ListInv
  <2>5. ListMatters' => ListMatters
    BY <1>3, <2>2, <2>3 DEF ListMatters
  <2>6. Listed' = Listed
    BY <1>1 DEF Listed
  <2>7. ASSUME Announced("status") \/ PostDone
        PROVE  ListComes'
    <3>1. PostDone => PostDone'
      <4>1. \A k \in DOMAIN flight : flight[k].kind \in Posts =>
              Down(i, k) \in DOMAIN flight' /\ flight'[Down(i, k)] = flight[k]
        BY <1>2, <1>3, <1>4, <2>1, KindsDiffer
      <4> QED BY <4>1 DEF PostDone
    <3> QED BY <1>1, <2>7, <3>1 DEF Awaited, ListComes, PostDone
  <2>8. ASSUME NEW k \in DOMAIN flight, k # i, BringsList(flight[k]),
               \A j \in DOMAIN flight : j > k => flight[j].kind # "list"
        PROVE  ListComes'
    <3> DEFINE d == Down(i, k)
    <3>1. d \in DOMAIN flight' /\ flight'[d] = flight[k] /\ Up(i, d) = k
      BY <1>2, <1>4, <2>1, <2>8
    <3>2. d' = d
      BY DEF Down
    <3> HIDE DEF d
    <3>3. BringsList(flight[d])'
      BY <2>6, <2>8, <3>1, <3>2 DEF BringsList
    <3>4. ASSUME NEW j \in DOMAIN flight', j > d PROVE flight'[j].kind # "list"
      <4>1. Up(i, j) > k
        BY <1>2, <1>4, <3>1, <3>4
      <4> QED BY <2>3, <2>8, <4>1
    <3> QED BY <3>1, <3>3, <3>4 DEF ListComes
  <2>9. ASSUME BringsList(flight[i]), \A j \in DOMAIN flight : j > i => flight[j].kind # "list"
        PROVE  ListComes'
    <3>1. flight[i].state # "failed" /\ ~Overtaken(i)
      BY <1>6, <2>9 DEF BringsList
    <3>2. list' = Body(flight[i])
      BY <3>1 DEF ReceiveList
    <3>3. Body(flight[i]) = Listed
      BY <1>3, <2>9 DEF Body, Answer, BringsList, Listed
    <3>4. ASSUME NEW j \in DOMAIN flight', flight'[j].kind = "list" PROVE FALSE
      <4> DEFINE k == Up(i, j)
      <4>1. k \in DOMAIN flight /\ k # i /\ flight[k].kind = "list"
        BY <2>3, <3>4
      <4> HIDE DEF k
      <4>2. DOMAIN flight = 1 .. Len(flight) /\ Len(flight) \in Nat
        BY FlightIs DEF TypeOK
      <4>3. ~(k > i)
        BY <2>9, <4>1
      <4>4. k \in 1 .. (i - 1)
        BY <4>1, <4>2, <4>3
      <4>5. flight[k].kind \notin Posts /\ Fetches(flight[k].kind) = Fetches(flight[i].kind)
        BY <1>3, <4>1, KindsDiffer
      <4> QED BY <3>1, <4>4, <4>5 DEF Overtaken
    <3> QED BY <2>6, <3>2, <3>3, <3>4 DEF ListComes
  <2>10. ListMatters' => ListComes'
    <3> SUFFICES ASSUME ListMatters' PROVE ListComes'
      OBVIOUS
    <3>1. ListComes
      BY <2>5 DEF ListInv
    <3>2. CASE list = Listed /\ \A k \in DOMAIN flight : flight[k].kind # "list"
      BY <1>3, <3>2
    <3> QED BY <2>7, <2>8, <2>9, <3>1, <3>2 DEF ListComes, PostDone
  <2> QED BY <2>4, <2>10 DEF ListInv
<1> QED BY <1>5, <1>6

(* Steps after which an event or a change is still to be looked at.        *)
LEMMA ListAnnounced ==
  ASSUME ListInv, Changed(flight, flight'), Announced("status")' \/ PostDone',
         \A i \in DOMAIN flight : /\ flight[i].late => flight'[i].late
                                  /\ flight'[i].state = "failed" => flight[i].state = "failed"
  PROVE  ListInv'
<1>1. ListComes'
  BY DEF ListComes, PostDone
<1>2. \A i \in DOMAIN flight' :
        flight'[i].kind = "list" /\ flight'[i].state = "failed" => flight'[i].late
  BY DEF ListInv, Changed
<1> QED BY <1>1, <1>2 DEF ListInv

(* Steps that leave the list and what is asked about it.                   *)
LEMMA ListInPlace ==
  ASSUME ListInv, Changed(flight, flight'), Awaited, UNCHANGED <<profiles, status, list, excused>>,
         \A i \in DOMAIN flight : flight[i].kind \notin ReportKinds => Alike(flight'[i], flight[i])
  PROVE  ListInv'
<1>1. "list" \notin ReportKinds /\ \A kind \in Posts : kind \notin ReportKinds
  BY KindsDiffer DEF ReportKinds
<1>2. PICK up, down : SameFor({"list"}, up, down)
  BY <1>1, SameInPlace
<1>3. PostDone => PostDone'
  BY <1>1 DEF PostDone, Changed, Alike
<1> QED BY <1>2, <1>3, ListKept DEF Awaited

LEMMA SpoilsList ==
  ASSUME TypeOK, ListInv, UNCHANGED <<profiles, status, list>>, NEW K, Spoils(K),
         Announced("status") => Announced("status")' \/ "list" \in K
  PROVE  ListInv'
<1>1. Fetches("list") = "list"
  BY DEF Fetches
<1>2. CASE "list" \in K
  BY <1>1, <1>2, ListSpoilt DEF Spoils, Changed
<1>3. CASE "list" \notin K
  <2>1. \A i \in DOMAIN flight : flight[i].kind \in {"list"} => Alike(flight'[i], flight[i])
    BY <1>1, <1>3 DEF Spoils, Changed, Alike
  <2>2. PICK up, down : SameFor({"list"}, up, down)
    BY <2>1, SameInPlace DEF Spoils
  <2>3. PostDone => PostDone'
    BY DEF PostDone, Spoils, Changed
  <2> QED BY <1>3, <2>2, <2>3, ListKept DEF Spoils
<1> QED BY <1>2, <1>3

LEMMA CommitList ==
  ASSUME TypeOK, ListInv, Commit
  PROVE  ListInv'
<1>1. /\ UNCHANGED <<profiles, status, scan, list>> /\ (~Switched => stream' = stream)
      /\ \E K \in SUBSET {"list"} : \E M \in Seq(Requests) : \E E \in Seq(Requests) :
           /\ M = Mark(flight, K) /\ Sends(E) /\ flight' = M \o E
           /\ excused' = excused \cup K
           /\ Switched /\ (\E n \in DOMAIN stream.wire : stream.wire[n] = "status") => "list" \in K
  BY CommitDoes
<1>2. PICK K \in SUBSET {"list"} : \E M \in Seq(Requests) : \E E \in Seq(Requests) :
        /\ M = Mark(flight, K) /\ Sends(E) /\ flight' = M \o E
        /\ excused' = excused \cup K
        /\ Switched /\ (\E n \in DOMAIN stream.wire : stream.wire[n] = "status") => "list" \in K
  BY <1>1
<1>3. PICK M \in Seq(Requests) : \E E \in Seq(Requests) :
        /\ M = Mark(flight, K) /\ Sends(E) /\ flight' = M \o E
        /\ excused' = excused \cup K
        /\ Switched /\ (\E n \in DOMAIN stream.wire : stream.wire[n] = "status") => "list" \in K
  BY <1>2
<1>4. PICK E \in Seq(Requests) :
        /\ M = Mark(flight, K) /\ Sends(E) /\ flight' = M \o E
        /\ excused' = excused \cup K
        /\ Switched /\ (\E n \in DOMAIN stream.wire : stream.wire[n] = "status") => "list" \in K
  BY <1>3
<1>5. /\ Changed(flight, M)
      /\ \A i \in DOMAIN flight :
           /\ M[i].state = flight[i].state /\ M[i].body = flight[i].body
           /\ M[i].late <=> (flight[i].late \/ Fetches(flight[i].kind) \in K)
  BY <1>4, MarkIs DEF TypeOK
<1>6. Fetches("list") = "list"
  BY DEF Fetches
<1>7. \A i \in DOMAIN M : M[i].kind = "list" /\ M[i].state = "failed" => M[i].late
  BY <1>5 DEF Changed, ListInv
<1>8. CASE \E i \in DOMAIN E : E[i].kind = "list"
  BY <1>4, <1>7, <1>8, ListSent DEF Sends
<1>9. CASE (\A i \in DOMAIN E : E[i].kind # "list") /\ "list" \in K
  <2>1. \A k \in DOMAIN flight' :
          (k \in DOMAIN M /\ flight'[k] = M[k]) \/ (k - Len(M) \in DOMAIN E /\ flight'[k] = E[k - Len(M)])
    BY <1>4, JoinedIs
  <2>2. \A i \in DOMAIN M : M[i].kind = "list" => M[i].late
    BY <1>5, <1>6, <1>9 DEF Changed
  <2>3. \A k \in DOMAIN flight' : flight'[k].kind = "list" => flight'[k].late
    BY <1>9, <2>1, <2>2
  <2> QED BY <1>4, <1>9, <2>3, ListSpoilt
<1>10. CASE (\A i \in DOMAIN E : E[i].kind # "list") /\ "list" \notin K
  <2>1. \A i \in DOMAIN flight : flight[i].kind \in {"list"} => Alike(M[i], flight[i])
    BY <1>5, <1>6, <1>10 DEF Changed, Alike
  <2>2. \A i \in DOMAIN E : E[i].kind \notin {"list"}
    BY <1>10
  <2>3. PICK up, down : SameFor({"list"}, up, down)
    BY <1>4, <1>5, <2>1, <2>2, SameJoined
  <2>4. PostDone => PostDone'
    <3>1. \A i \in DOMAIN M : i \in DOMAIN flight' /\ flight'[i] = M[i]
      BY <1>4, JoinedIs
    <3> QED BY <1>5, <3>1 DEF PostDone, Changed
  <2>5. Announced("status") => Announced("status")'
    <3>1. ~("events" \in due /\ last = "status")
      BY <1>4, <1>10 DEF Sends
    <3>2. CASE Switched
      BY <1>4, <1>10, <3>1, <3>2 DEF Announced
    <3>3. CASE ~Switched
      BY <1>1, <3>1, <3>3 DEF Announced
    <3> QED BY <3>2, <3>3
  <2> QED BY <1>1, <1>4, <2>3, <2>4, <2>5, ListKept
<1> QED BY <1>8, <1>9, <1>10

(* A request of the user, and the refresh after a change.                  *)
LEMMA AskList ==
  ASSUME TypeOK, ListInv, Rescan \/ \E kind \in Posts : Post(kind)
  PROVE  ListInv'
<1>1. PICK r \in Requests :
        /\ flight' = flight \o <<r>> /\ r.state = "sent" /\ ~r.late
        /\ r.kind \in Posts \/ (r.kind = "rescan" /\ r.of = stream.of)
  BY AskDoes
<1>2. <<r>> \in Seq(Requests) /\ DOMAIN <<r>> = {1} /\ <<r>>[1] = r
  BY OneSent
<1>3. flight \in Seq(Requests) /\ Changed(flight, flight)
  BY DEF TypeOK, Changed
<1>4. \A i \in DOMAIN flight : i \in DOMAIN flight' /\ flight'[i] = flight[i]
  BY <1>1, <1>2, <1>3, JoinedIs
<1>5. \A i \in DOMAIN <<r>> : <<r>>[i].kind \notin {"list"}
  BY <1>1, <1>2, KindsDiffer
<1>6. \A i \in DOMAIN flight : flight[i].kind \in {"list"} => Alike(flight[i], flight[i])
  BY DEF Alike
<1>7. PICK up, down : SameFor({"list"}, up, down)
  BY <1>1, <1>2, <1>3, <1>5, <1>6, SameJoined
<1>8. PostDone => PostDone'
  BY <1>4 DEF PostDone
<1> QED BY <1>7, <1>8, AskDoes, ListKept DEF Awaited

LEMMA ReceivePostList ==
  ASSUME TypeOK, ListInv, NEW i \in DOMAIN flight, ReceivePost(i)
  PROVE  ListInv'
<1>1. /\ Awaited /\ UNCHANGED <<profiles, status, scan, list, report, excused>>
      /\ \E E \in Seq(Requests) :
           /\ flight' = RemoveAt(flight, i) \o E
           /\ \A j \in DOMAIN E : E[j].kind = "list" /\ E[j].state = "sent" /\ ~E[j].late
           /\ flight[i].state = "ok" => 1 \in DOMAIN E
  BY ReceivePostDoes
<1>2. PICK E \in Seq(Requests) :
        /\ flight' = RemoveAt(flight, i) \o E
        /\ \A j \in DOMAIN E : E[j].kind = "list" /\ E[j].state = "sent" /\ ~E[j].late
        /\ flight[i].state = "ok" => 1 \in DOMAIN E
  BY <1>1
<1> DEFINE R == RemoveAt(flight, i)
<1>3. /\ R \in Seq(Requests)
      /\ \A j \in DOMAIN R : Up(i, j) \in DOMAIN flight \ {i} /\ R[j] = flight[Up(i, j)]
      /\ \A k \in DOMAIN flight \ {i} :
           Down(i, k) \in DOMAIN R /\ Up(i, Down(i, k)) = k /\ R[Down(i, k)] = flight[k]
  BY RemovedIs DEF TypeOK
<1>4. CASE DOMAIN E # {}
  <2>1. \A j \in DOMAIN R : R[j].kind = "list" /\ R[j].state = "failed" => R[j].late
    BY <1>3 DEF ListInv
  <2> QED BY <1>2, <1>3, <1>4, <2>1, ListSent
<1>5. CASE DOMAIN E = {}
  <2> HIDE DEF R
  <2>1. flight' = R
    <3>1. /\ R \o E \in Seq(Requests) /\ Len(R \o E) = Len(R)
      BY <1>2, <1>3, <1>5, FlightIs, ConcatProperties
    <3>2. \A j \in DOMAIN R : (R \o E)[j] = R[j]
      BY <1>2, <1>3, JoinedIs
    <3>3. DOMAIN R = 1 .. Len(R)
      BY <1>3, FlightIs
    <3> QED BY <1>2, <1>3, <3>1, <3>2, <3>3, SeqEqual DEF R
  <2>2. flight[i].kind \notin {"list"}
    BY KindsDiffer DEF ReceivePost
  <2>3. Changed(R, flight') /\ \A j \in DOMAIN flight' : Alike(flight'[j], R[j])
    BY <1>3, <2>1 DEF Changed, Alike
  <2>4. PICK up, down : SameFor({"list"}, up, down)
    BY <2>2, <2>3, SameRemoved DEF R
  <2>5. PostDone => PostDone'
    <3>1. flight[i].state # "ok"
      BY <1>2, <1>5
    <3>2. \A k \in DOMAIN flight \ {i} : Down(i, k) \in DOMAIN flight' /\ flight'[Down(i, k)] = flight[k]
      BY <1>3, <2>1
    <3> QED BY <3>1, <3>2 DEF PostDone
  <2> QED BY <1>1, <2>4, <2>5, ListKept DEF Awaited
<1> QED BY <1>4, <1>5

(* Every step keeps what makes the list right in the end.                  *)
LEMMA NextList ==
  ASSUME TypeOK, ListInv, [Next]_vars
  PROVE  ListInv'
<1>1. ASSUME NEW s \in Servers, StatusChanges(s)
      PROVE  ListInv'
  <2>1. \/ Announced("status")'
        \/ "list" \in excused' /\ \A i \in DOMAIN flight : flight[i].kind = "list" => flight'[i].late
    BY <1>1, StatusChangesDoes
  <2>2. CASE Announced("status")'
    BY <1>1, <2>2, StatusChangesDoes, ListAnnounced
  <2>3. CASE "list" \in excused' /\ \A i \in DOMAIN flight : flight[i].kind = "list" => flight'[i].late
    BY <1>1, <2>3, StatusChangesDoes, ListSpoilt DEF Changed
  <2> QED BY <2>1, <2>2, <2>3
<1>2. ASSUME NEW s \in Servers, Discovers(s)
      PROVE  ListInv'
  BY <1>2, DiscoversDoes, ListInPlace DEF Scanned
<1>3. ASSUME NEW s \in Servers, Chatters(s)
      PROVE  ListInv'
  <2>1. Changed(flight, flight') /\ \A i \in DOMAIN flight : Alike(flight'[i], flight[i])
    BY <1>3, ChattersDoes DEF Changed, Alike, TypeOK
  <2> QED BY <1>3, <2>1, ChattersDoes, ListInPlace
<1>4. ASSUME NEW i \in DOMAIN flight, Serve(i)
      PROVE  ListInv'
  <2>1. CASE ServeRescan(i)
    BY <1>4, <2>1, ServeRescanDoes, ListInPlace DEF Rescanned
  <2>2. CASE ServePost(i)
    <3>1. /\ Changed(flight, flight') /\ flight'[i].kind \in Posts /\ flight'[i].state = "ok"
          /\ \A j \in DOMAIN flight :
               /\ flight'[j].state = "failed" => flight[j].state = "failed"
               /\ flight'[j].late = flight[j].late
      BY <1>4, <2>2, ServePostDoes
    <3>2. PostDone'
      BY <3>1 DEF PostDone, Changed
    <3> QED BY <3>1, <3>2, ListAnnounced
  <2>3. CASE Refuse(i)
    <3>1. /\ Awaited /\ UNCHANGED <<profiles, status, list, excused>>
          /\ flight[i].kind \in Posts \cup {"rescan"} /\ flight[i].state = "sent"
          /\ Written(flight, flight', i, "failed", flight[i].body)
      BY <1>4, <2>3, RefuseDoes
    <3>2. \A j \in DOMAIN flight : flight[j].kind \in {"list"} => Alike(flight'[j], flight[j])
      BY <3>1, KindsDiffer DEF Written, Alike
    <3>3. PICK up, down : SameFor({"list"}, up, down)
      BY <3>1, <3>2, SameInPlace DEF Written
    <3>4. PostDone => PostDone'
      <4>1. \A j \in DOMAIN flight : flight[j].state = "ok" => flight'[j] = flight[j] /\ j \in DOMAIN flight'
        BY <3>1 DEF Written, Changed
      <4> QED BY <4>1 DEF PostDone
    <3> QED BY <3>1, <3>3, <3>4, ListKept DEF Awaited
  <2> QED BY <1>4, <2>1, <2>2, <2>3 DEF Serve
<1>5. ASSUME NEW i \in DOMAIN flight, Fail(i)
      PROVE  ListInv'
  <2>1. /\ Changed(flight, flight') /\ Awaited /\ UNCHANGED <<profiles, status, list>>
        /\ excused' = excused \cup {Fetches(flight[i].kind)}
        /\ \A j \in DOMAIN flight :
             /\ flight'[j].late <=> (flight[j].late \/ Fetches(flight[j].kind) = Fetches(flight[i].kind))
             /\ j # i => flight'[j].state = flight[j].state /\ flight'[j].body = flight[j].body
    BY <1>5, FailDoes
  <2>2. Fetches("list") = "list"
    BY DEF Fetches
  <2>3. CASE Fetches(flight[i].kind) = "list"
    BY <2>1, <2>2, <2>3, ListSpoilt DEF Changed
  <2>4. CASE Fetches(flight[i].kind) # "list"
    <3>1. flight[i].kind \in ReportKinds
      BY <2>4 DEF Fetches, ReportKinds
    <3>2. flight[i].kind # "list" /\ flight[i].kind \notin Posts
      BY <3>1, KindsDiffer DEF ReportKinds
    <3>3. \A j \in DOMAIN flight : flight[j].kind \in {"list"} => Alike(flight'[j], flight[j])
      BY <2>1, <2>2, <2>4, <3>2 DEF Changed, Alike
    <3>4. PICK up, down : SameFor({"list"}, up, down)
      BY <2>1, <3>3, SameInPlace
    <3>5. PostDone => PostDone'
      BY <2>1, <3>2 DEF PostDone, Changed
    <3> QED BY <2>1, <3>4, <3>5, ListKept DEF Awaited
  <2> QED BY <2>3, <2>4
<1>6. ASSUME NEW i \in DOMAIN flight, ReceiveReport(i) \/ ReceiveRescan(i)
      PROVE  ListInv'
  <2>1. Ended(i, RemoveAt(flight, i)) /\ Awaited /\ UNCHANGED <<profiles, status, list>>
    BY <1>6, ReceiveReportDoes, ReceiveRescanDoes
  <2>2. /\ flight[i].kind \in ReportKinds /\ Fetches(flight[i].kind) = "report"
        /\ Fetches("list") = "list" /\ flight[i].kind \notin Posts /\ flight[i].kind # "list"
    BY <1>6, KindsDiffer DEF ReceiveReport, ReceiveRescan, Fetches, ReportKinds
  <2>3. PICK up, down : SameFor({"list"}, up, down)
    BY <2>1, <2>2, SameEnded
  <2>4. PostDone => PostDone'
    <3> DEFINE R == RemoveAt(flight, i)
    <3>1. \A k \in DOMAIN flight \ {i} : Down(i, k) \in DOMAIN R /\ R[Down(i, k)] = flight[k]
      BY RemovedIs DEF TypeOK
    <3> HIDE DEF R
    <3>2. /\ DOMAIN flight' = DOMAIN R
          /\ \A j \in DOMAIN R : flight'[j].kind = R[j].kind /\ flight'[j].state = R[j].state
      BY <2>1 DEF Ended, Changed, R
    <3>3. \A k \in DOMAIN flight : flight[k].kind \in Posts => k # i
      BY <2>2
    <3> QED BY <3>1, <3>2, <3>3 DEF PostDone
  <2>5. "list" \in excused => "list" \in excused'
    BY <2>1, <2>2 DEF Ended
  <2> QED BY <2>1, <2>3, <2>4, <2>5, ListKept DEF Awaited
<1>7. ASSUME NEW i \in DOMAIN flight, Receive(i)
      PROVE  ListInv'
  BY <1>6, <1>7, FirstList, ReceivePostList DEF Receive
<1>8. ASSUME Deliver \/ \E s \in Servers : Select(s)
      PROVE  ListInv'
  <2>1. /\ UNCHANGED <<profiles, status, list>>
        /\ \E K \in SUBSET {"list", "report"} :
             Spoils(K) /\ (Announced("status") => Announced("status")' \/ "list" \in K)
    BY <1>8, DeliverDoes, SelectDoes
  <2> QED BY <2>1, SpoilsList
<1>9. ASSUME NEW t \in Tabs, ChooseTab(t)
      PROVE  ListInv'
  <2>1. Changed(flight, flight') /\ \A i \in DOMAIN flight : Alike(flight'[i], flight[i])
    BY <1>9, ChooseTabDoes DEF Changed, Alike, TypeOK
  <2> QED BY <1>9, <2>1, ChooseTabDoes, ListInPlace
<1>10. CASE UNCHANGED vars
  BY <1>10 DEF vars, daemonVars, viewVars, ListInv, ListMatters, ListComes, Announced, BringsList, Listed
<1> QED BY <1>1, <1>2, <1>3, <1>4, <1>5, <1>7, <1>8, <1>9, <1>10, CommitList, AskList
        DEF Next, Daemon, Browser

----------------------------------------------------------------------------
(* The report, told of the requests F, the report rep, the server o and    *)
(* its scan sc.                                                            *)

IsCurrent(r, o, sc) == IF r = None THEN sc[o] = None ELSE r.of = o /\ r.cached

Brings(r, o, sc) ==
  /\ r.of = o
  /\ \/ r.kind = "report" /\ r.state = "sent"
     \/ r.kind \in ReportKinds /\ r.state = "ok" /\ IsCurrent(r.body, o, sc)

Comes(F, rep, o, sc) ==
  \/ \E i \in DOMAIN F :
       Brings(F[i], o, sc) /\ \A j \in DOMAIN F : j > i => ~ShowsReport(F[j])
  \/ IsCurrent(rep, o, sc) /\ \A i \in DOMAIN F : ~ShowsReport(F[i])

Matters(F, ex) ==
  "report" \notin ex \/ \E i \in DOMAIN F : ShowsReport(F[i]) /\ ~F[i].late

Orderly(F, ex) ==
  /\ \A i, j \in DOMAIN F :
       j < i /\ F[j].kind \in ReportKinds /\ F[i].kind \in ReportKinds /\ F[i].late => F[j].late
  /\ "report" \notin ex => \A i \in DOMAIN F : F[i].kind \in ReportKinds => ~F[i].late
  /\ \A i \in DOMAIN F : F[i].kind = "report" /\ F[i].state = "failed" => F[i].late

OthersBefore(F, o) ==
  o # None =>
    \A i \in DOMAIN F :
      F[i].kind \in ReportKinds /\ ~F[i].late /\ F[i].of # o =>
        \E j \in DOMAIN F : j > i /\ F[j].kind = "report" /\ F[j].of = o

LEMMA ReportFetched ==
  \A kind : Fetches(kind) = "report" <=> kind \in ReportKinds
BY DEF Fetches, ReportKinds

(* The invariant in these terms, before a step and after it.               *)
LEMMA ReportInvIs ==
  /\ ReportInv <=>
       /\ stream.of # None /\ Matters(flight, excused) =>
            Announced("discovery") \/ Comes(flight, report, stream.of, scan)
       /\ Orderly(flight, excused) /\ OthersBefore(flight, stream.of)
  /\ ReportInv' <=>
       /\ stream'.of # None /\ Matters(flight', excused') =>
            Announced("discovery")' \/ Comes(flight', report', stream'.of, scan')
       /\ Orderly(flight', excused') /\ OthersBefore(flight', stream'.of)
<1>1. /\ ReportMatters <=> Matters(flight, excused)
      /\ ReportMatters' <=> Matters(flight', excused')
  BY DEF ReportMatters, Matters
<1>2. ReportComes <=> Announced("discovery") \/ Comes(flight, report, stream.of, scan)
  BY DEF ReportComes, Comes, BringsReport, Brings, Current, IsCurrent, ReportKinds
<1>3. ReportComes' <=> Announced("discovery")' \/ Comes(flight', report', stream'.of, scan')
  BY DEF ReportComes, Comes, BringsReport, Brings, Current, IsCurrent, ReportKinds
<1>4. /\ ReportOrder <=> Orderly(flight, excused)
      /\ ReportOrder' <=> Orderly(flight', excused')
  BY ReportFetched DEF ReportOrder, Spoilt, Orderly
<1>5. /\ OthersFirst <=> OthersBefore(flight, stream.of)
      /\ OthersFirst' <=> OthersBefore(flight', stream'.of)
  BY ReportFetched DEF OthersFirst, OthersBefore
<1> QED BY <1>1, <1>2, <1>3, <1>4, <1>5 DEF ReportInv

LEMMA Shows ==
  \A r : /\ ShowsReport(r) => r.kind \in ReportKinds
         /\ r.kind = "report" => ShowsReport(r)
BY DEF ShowsReport, ReportKinds

LEMMA ReportSpoilt ==
  ASSUME "report" \in excused',
         \A i \in DOMAIN flight' : flight'[i].kind \in ReportKinds => flight'[i].late
  PROVE  ReportInv'
<1>1. ~Matters(flight', excused')
  BY Shows DEF Matters
<1>2. Orderly(flight', excused') /\ OthersBefore(flight', stream'.of)
  BY DEF Orderly, OthersBefore, ReportKinds
<1> QED BY <1>1, <1>2, ReportInvIs

(* The order, where requests stay as they are.                             *)
LEMMA OrderKept ==
  ASSUME Orderly(flight, excused), NEW up, NEW down, SameFor(ReportKinds, up, down),
         "report" \in excused => "report" \in excused'
  PROVE  Orderly(flight', excused')
<1>1. \A i \in DOMAIN flight' : flight'[i].kind \in ReportKinds =>
        /\ up[i] \in DOMAIN flight /\ flight[up[i]].kind = flight'[i].kind
        /\ flight'[i].state = flight[up[i]].state
        /\ flight'[i].late <=> flight[up[i]].late
  BY DEF SameFor, Alike
<1>2. \A i, j \in DOMAIN flight' :
        j < i /\ flight'[j].kind \in ReportKinds /\ flight'[i].kind \in ReportKinds => up[j] < up[i]
  BY DEF SameFor
<1>3. "report" \in ReportKinds
  BY DEF ReportKinds
<1> QED BY <1>1, <1>2, <1>3 DEF Orderly

(* Nothing that matters to the report has happened.                        *)
LEMMA ReportKept ==
  ASSUME ReportInv, NEW up, NEW down, SameFor(ReportKinds, up, down),
         stream'.of = stream.of, UNCHANGED <<scan, report>>,
         Announced("discovery") => Announced("discovery")',
         "report" \in excused' <=> "report" \in excused
  PROVE  ReportInv'
<1> DEFINE F == flight
           G == flight'
           o == stream.of
<1>1. \A i \in DOMAIN G : G[i].kind \in ReportKinds =>
        /\ up[i] \in DOMAIN F /\ F[up[i]].kind = G[i].kind /\ G[i].of = F[up[i]].of
        /\ G[i].state = F[up[i]].state /\ G[i].body = F[up[i]].body
        /\ G[i].late <=> F[up[i]].late
  BY DEF SameFor, Alike
<1>2. \A k \in DOMAIN F : F[k].kind \in ReportKinds =>
        /\ down[k] \in DOMAIN G /\ up[down[k]] = k /\ G[down[k]].kind \in ReportKinds
  BY DEF SameFor
<1>3. \A i, j \in DOMAIN G :
        G[j].kind \in ReportKinds /\ G[i].kind \in ReportKinds => (j < i <=> up[j] < up[i])
  BY DEF SameFor
<1>4. /\ o # None /\ Matters(F, excused) => Announced("discovery") \/ Comes(F, report, o, scan)
      /\ Orderly(F, excused) /\ OthersBefore(F, o)
  BY ReportInvIs
<1>5. "report" \in ReportKinds
  BY DEF ReportKinds
<1>6. Orderly(G, excused')
  BY <1>4, OrderKept
<1> HIDE DEF F, G, o
<1>7. OthersBefore(G, o)
  <2> SUFFICES ASSUME o # None, NEW i \in DOMAIN G,
                      G[i].kind \in ReportKinds, ~G[i].late, G[i].of # o
               PROVE  \E j \in DOMAIN G : j > i /\ G[j].kind = "report" /\ G[j].of = o
    BY DEF OthersBefore
  <2>1. PICK k \in DOMAIN F : k > up[i] /\ F[k].kind = "report" /\ F[k].of = o
    BY <1>1, <1>4 DEF OthersBefore
  <2>2. down[k] \in DOMAIN G /\ up[down[k]] = k /\ G[down[k]].kind \in ReportKinds
    BY <1>2, <1>5, <2>1
  <2>3. i < down[k] /\ G[down[k]].kind = "report" /\ G[down[k]].of = o
    BY <1>1, <1>3, <2>1, <2>2
  <2> QED BY <2>2, <2>3
<1>8. \A i \in DOMAIN G : ShowsReport(G[i]) => up[i] \in DOMAIN F /\ ShowsReport(F[up[i]])
  BY <1>1, Shows DEF ShowsReport
<1>9. Matters(G, excused') => Matters(F, excused)
  BY <1>1, <1>8, Shows DEF Matters
<1>10. Comes(F, report, o, scan) => Comes(G, report, o, scan)
  <2>1. ASSUME NEW k \in DOMAIN F, Brings(F[k], o, scan),
               \A j \in DOMAIN F : j > k => ~ShowsReport(F[j])
        PROVE  Comes(G, report, o, scan)
    <3>1. F[k].kind \in ReportKinds
      BY <1>5, <2>1 DEF Brings
    <3>2. down[k] \in DOMAIN G /\ up[down[k]] = k /\ G[down[k]].kind \in ReportKinds
      BY <1>2, <3>1
    <3>3. Brings(G[down[k]], o, scan)
      BY <1>1, <2>1, <3>2 DEF Brings
    <3>4. \A j \in DOMAIN G : j > down[k] => ~ShowsReport(G[j])
      BY <1>3, <1>8, <2>1, <3>2, Shows
    <3> QED BY <3>2, <3>3, <3>4 DEF Comes
  <2>2. CASE IsCurrent(report, o, scan) /\ \A i \in DOMAIN F : ~ShowsReport(F[i])
    BY <1>8, <2>2 DEF Comes
  <2> QED BY <2>1, <2>2 DEF Comes
<1>11. o # None /\ Matters(G, excused') => Announced("discovery")' \/ Comes(G, report, o, scan)
  BY <1>4, <1>9, <1>10
<1> QED BY <1>6, <1>7, <1>11, ReportInvIs DEF G, o

(* Steps that change requests where they stand.                            *)
LEMMA OrderInPlace ==
  ASSUME ReportInv, Changed(flight, flight'), stream'.of = stream.of, UNCHANGED excused,
         \A i \in DOMAIN flight : flight[i].kind \in ReportKinds =>
           /\ flight'[i].late <=> flight[i].late
           /\ flight[i].kind = "report" /\ flight'[i].state = "failed" => flight[i].state = "failed"
  PROVE  Orderly(flight', excused') /\ OthersBefore(flight', stream'.of)
<1>1. Orderly(flight, excused) /\ OthersBefore(flight, stream.of)
  BY ReportInvIs
<1>2. "report" \in ReportKinds
  BY DEF ReportKinds
<1>3. Orderly(flight', excused')
  BY <1>1, <1>2 DEF Orderly, Changed
<1>4. OthersBefore(flight', stream'.of)
  BY <1>1, <1>2 DEF OthersBefore, Changed
<1> QED BY <1>3, <1>4

LEMMA ReportAnnounced ==
  ASSUME ReportInv, Changed(flight, flight'), stream'.of = stream.of, UNCHANGED excused,
         Announced("discovery")',
         \A i \in DOMAIN flight : flight[i].kind \in ReportKinds =>
           /\ flight'[i].late <=> flight[i].late
           /\ flight[i].kind = "report" /\ flight'[i].state = "failed" => flight[i].state = "failed"
  PROVE  ReportInv'
<1>1. Orderly(flight', excused') /\ OthersBefore(flight', stream'.of)
  BY OrderInPlace
<1> QED BY <1>1, ReportInvIs

LEMMA ReportInPlace ==
  ASSUME ReportInv, Changed(flight, flight'), stream'.of = stream.of, UNCHANGED excused,
         Announced("discovery") => Announced("discovery")',
         \A i \in DOMAIN flight : flight[i].kind \in ReportKinds =>
           /\ flight'[i].late <=> flight[i].late
           /\ flight[i].kind = "report" /\ flight'[i].state = "failed" => flight[i].state = "failed"
           /\ ShowsReport(flight'[i]) <=> ShowsReport(flight[i])
           /\ stream.of # None /\ Brings(flight[i], stream.of, scan) =>
                Brings(flight'[i], stream.of, scan'),
         stream.of # None /\ IsCurrent(report, stream.of, scan) =>
           IsCurrent(report', stream.of, scan')
  PROVE  ReportInv'
<1> DEFINE o == stream.of
           G == flight'
<1>1. Orderly(G, excused') /\ OthersBefore(G, o)
  BY OrderInPlace
<1>2. o # None /\ Matters(flight, excused) => Announced("discovery") \/ Comes(flight, report, o, scan)
  BY ReportInvIs
<1>3. DOMAIN G = DOMAIN flight /\ \A i \in DOMAIN flight : G[i].kind = flight[i].kind
  BY DEF Changed
<1>4. \A i \in DOMAIN flight : ShowsReport(G[i]) <=> ShowsReport(flight[i])
  BY <1>3, Shows
<1>5. Matters(G, excused') => Matters(flight, excused)
  BY <1>3, <1>4, Shows DEF Matters
<1>6. \A i \in DOMAIN flight :
        o # None /\ Brings(flight[i], o, scan) => Brings(G[i], o, scan')
  BY DEF Brings, ReportKinds
<1>7. o # None /\ Comes(flight, report, o, scan) => Comes(G, report', o, scan')
  BY <1>3, <1>4, <1>6 DEF Comes
<1> QED BY <1>1, <1>2, <1>5, <1>7, ReportInvIs

(* A report that is not of the server scanned is as current as it was.     *)
LEMMA StillCurrent ==
  ASSUME NEW r, NEW s, NEW o, s # o, scan'[o] = scan[o], IsCurrent(r, o, scan)
  PROVE  IsCurrent(Outdate(r, s), o, scan')
BY DEF Outdate, IsCurrent

(* A scan, whoever asked for it: of the server on screen, or of another.   *)
LEMMA DiscoversReport ==
  ASSUME TypeOK, ReportInv, NEW s \in Servers, Discovers(s)
  PROVE  ReportInv'
<1> DEFINE o == stream.of
<1>1. /\ Scanned(s, flight') /\ Awaited /\ UNCHANGED excused
      /\ report' = Outdate(report, s) /\ \A x \in Servers \ {s} : scan'[x] = scan[x]
      /\ s = o => Announced("discovery")'
  BY DiscoversDoes
<1>2. /\ Changed(flight, flight')
      /\ \A i \in DOMAIN flight :
           /\ flight'[i].late = flight[i].late
           /\ flight'[i].state = "failed" => flight[i].state = "failed"
           /\ flight[i].kind = "rescan" => flight'[i].state = flight[i].state
           /\ flight[i].kind \in ReportKinds /\ flight[i].of # s =>
                flight'[i].state = flight[i].state /\ flight'[i].body = Outdate(flight[i].body, s)
  BY <1>1 DEF Scanned
<1>3. CASE s = o
  BY <1>1, <1>2, <1>3, ReportAnnounced DEF Awaited
<1>4. CASE s # o
  <2>1. o # None => o \in Servers \ {s}
    BY <1>4 DEF TypeOK
  <2>2. o # None => scan'[o] = scan[o]
    BY <1>1, <2>1
  <2>3. o # None /\ IsCurrent(report, o, scan) => IsCurrent(report', o, scan')
    BY <1>1, <1>4, <2>2, StillCurrent
  <2>4. ASSUME NEW i \in DOMAIN flight, flight[i].kind \in ReportKinds
        PROVE  /\ ShowsReport(flight'[i]) <=> ShowsReport(flight[i])
               /\ o # None /\ Brings(flight[i], o, scan) => Brings(flight'[i], o, scan')
    <3>1. flight'[i].kind = flight[i].kind /\ flight'[i].of = flight[i].of
      BY <1>2 DEF Changed
    <3>2. ShowsReport(flight'[i]) <=> ShowsReport(flight[i])
      BY <1>2, <3>1 DEF ShowsReport
    <3>3. ASSUME o # None, Brings(flight[i], o, scan)
          PROVE  Brings(flight'[i], o, scan')
      <4>1. flight[i].of = o /\ flight'[i].state = flight[i].state
            /\ flight'[i].body = Outdate(flight[i].body, s)
        BY <1>2, <1>4, <2>4, <3>3 DEF Brings
      <4>2. flight[i].state = "ok" => IsCurrent(flight'[i].body, o, scan')
        BY <1>4, <2>2, <3>3, <4>1, StillCurrent DEF Brings
      <4> QED BY <3>1, <3>3, <4>1, <4>2 DEF Brings
    <3> QED BY <3>2, <3>3
  <2> QED BY <1>1, <1>2, <2>3, <2>4, ReportInPlace DEF Awaited
<1> QED BY <1>3, <1>4

(* A scan the browser asked for shows its answer: if it is of another      *)
(* server, it does not matter or is followed by one that does.             *)
LEMMA RescanReport ==
  ASSUME TypeOK, ReportInv, NEW i \in DOMAIN flight, Serve(i), ServeRescan(i)
  PROVE  ReportInv'
<1> DEFINE o == stream.of
           s == flight[i].of
           F == flight
           G == flight'
<1>1. /\ Rescanned(i, s) /\ Awaited /\ UNCHANGED excused
      /\ report' = Outdate(report, s) /\ \A x \in Servers \ {s} : scan'[x] = scan[x]
      /\ s = o => Announced("discovery")'
  BY ServeRescanDoes
<1>2. /\ Changed(F, G) /\ F[i].kind = "rescan"
      /\ \A j \in DOMAIN F :
           /\ G[j].late = F[j].late
           /\ G[j].state = "failed" => F[j].state = "failed"
           /\ j # i /\ F[j].kind = "rescan" => G[j].state = F[j].state
           /\ j # i /\ F[j].kind \in ReportKinds /\ F[j].of # s =>
                G[j].state = F[j].state /\ G[j].body = Outdate(F[j].body, s)
  BY <1>1 DEF Rescanned
<1>3. CASE s = o
  BY <1>1, <1>2, <1>3, ReportAnnounced DEF Awaited
<1>4. CASE s # o
  <2>1. Orderly(G, excused') /\ OthersBefore(G, o)
    BY <1>1, <1>2, OrderInPlace DEF Awaited
  <2>2. Orderly(F, excused) /\ OthersBefore(F, o)
    BY ReportInvIs
  <2>3. /\ DOMAIN G = DOMAIN F /\ Len(F) \in Nat /\ DOMAIN F = 1 .. Len(F)
        /\ i \in DOMAIN F /\ F[i].of = s
        /\ \A j \in DOMAIN F : G[j].kind = F[j].kind /\ G[j].of = F[j].of
    BY <1>2, FlightIs DEF Changed, TypeOK
  <2>4. "report" \in ReportKinds /\ F[i].kind \in ReportKinds
    BY <1>2 DEF ReportKinds
  <2> HIDE DEF F, G, s, o
  <2>5. \A j \in DOMAIN F : j # i => (ShowsReport(G[j]) <=> ShowsReport(F[j]))
    BY <1>2, <2>3 DEF ShowsReport
  <2>6. ASSUME o # None, Matters(G, excused)
        PROVE  \E e \in DOMAIN F : e > i /\ ShowsReport(F[e]) /\ ~F[e].late
    <3>1. CASE F[i].late
      <4>1. "report" \in excused
        BY <2>2, <2>3, <2>4, <3>1 DEF Orderly
      <4>2. PICK e \in DOMAIN G : ShowsReport(G[e]) /\ ~G[e].late
        BY <2>6, <4>1 DEF Matters
      <4>3. e # i /\ ~F[e].late /\ F[e].kind \in ReportKinds
        BY <1>2, <2>3, <3>1, <4>2, Shows
      <4>4. ShowsReport(F[e])
        BY <2>3, <2>5, <4>2, <4>3
      <4>5. ~(e < i)
        BY <2>2, <2>3, <2>4, <3>1, <4>3 DEF Orderly
      <4> QED BY <2>3, <4>3, <4>4, <4>5
    <3>2. CASE ~F[i].late
      <4>1. PICK j \in DOMAIN F : j > i /\ F[j].kind = "report" /\ F[j].of = o
        BY <1>4, <2>2, <2>3, <2>4, <2>6, <3>2 DEF OthersBefore
      <4>2. i < j
        BY <2>3, <4>1
      <4>3. ~F[j].late
        BY <2>2, <2>3, <2>4, <3>2, <4>1, <4>2 DEF Orderly
      <4> QED BY <4>1, <4>3, Shows
    <3> QED BY <3>1, <3>2
  <2>7. ASSUME o # None, Matters(G, excused)
        PROVE  Announced("discovery")' \/ Comes(G, report', o, scan')
    <3>1. PICK e \in DOMAIN F : e > i /\ ShowsReport(F[e]) /\ ~F[e].late
      BY <2>6, <2>7
    <3>2. Matters(F, excused)
      BY <3>1 DEF Matters
    <3>3. Announced("discovery") \/ Comes(F, report, o, scan)
      BY <2>7, <3>2, ReportInvIs DEF F, o
    <3>4. ~(\A j \in DOMAIN F : ~ShowsReport(F[j]))
      BY <3>1
    <3>5. ASSUME NEW w \in DOMAIN F, Brings(F[w], o, scan),
                 \A j \in DOMAIN F : j > w => ~ShowsReport(F[j])
          PROVE  Comes(G, report', o, scan')
      <4>1. w > i /\ w # i
        <5>1. ~(e > w)
          BY <3>1, <3>5
        <5> QED BY <2>3, <3>1, <5>1
      <4>2. F[w].of = o /\ F[w].of # s /\ F[w].kind \in ReportKinds
        BY <1>4, <2>4, <3>5 DEF Brings
      <4>3. G[w].state = F[w].state /\ G[w].body = Outdate(F[w].body, s)
            /\ G[w].kind = F[w].kind /\ G[w].of = o
        BY <1>2, <2>3, <4>1, <4>2
      <4>4. scan'[o] = scan[o]
        <5>1. o \in Servers \ {s}
          BY <1>4, <2>7 DEF TypeOK, o
        <5> QED BY <1>1, <5>1
      <4>5. F[w].state = "ok" => IsCurrent(G[w].body, o, scan')
        BY <1>4, <3>5, <4>3, <4>4, StillCurrent DEF Brings
      <4>6. Brings(G[w], o, scan')
        BY <3>5, <4>3, <4>5 DEF Brings
      <4>7. ASSUME NEW j \in DOMAIN G, j > w PROVE ~ShowsReport(G[j])
        <5>1. j \in DOMAIN F /\ j # i
          BY <2>3, <4>1, <4>7
        <5> QED BY <2>5, <3>5, <4>7, <5>1
      <4> QED BY <2>3, <4>6, <4>7 DEF Comes
    <3>6. Comes(F, report, o, scan) => Comes(G, report', o, scan')
      BY <3>4, <3>5 DEF Comes
    <3> QED BY <1>1, <3>3, <3>6 DEF Awaited
  <2>8. stream'.of = o /\ excused' = excused
    BY <1>1 DEF Awaited, o
  <2> QED BY <2>1, <2>7, <2>8, ReportInvIs DEF G
<1> QED BY <1>3, <1>4

(* A scan that is refused, or a change, shows nothing.                     *)
LEMMA RefuseReport ==
  ASSUME TypeOK, ReportInv, NEW i \in DOMAIN flight, Serve(i), Refuse(i)
  PROVE  ReportInv'
<1>1. /\ Awaited /\ UNCHANGED <<profiles, status, scan, list, report, excused>>
      /\ flight[i].kind \in Posts \cup {"rescan"} /\ flight[i].state = "sent"
      /\ Written(flight, flight', i, "failed", flight[i].body)
  BY RefuseDoes
<1>2. /\ Changed(flight, flight') /\ \A j \in DOMAIN flight \ {i} : flight'[j] = flight[j]
      /\ flight'[i].state = "failed" /\ flight'[i].late = flight[i].late
      /\ flight'[i].kind = flight[i].kind /\ flight[i].kind # "report"
  BY <1>1, KindsDiffer DEF Written, Changed
<1>3. ~ShowsReport(flight[i]) /\ ~ShowsReport(flight'[i]) /\ ~Brings(flight[i], stream.of, scan)
  BY <1>1, <1>2 DEF ShowsReport, Brings
<1>4. \A j \in DOMAIN flight \ {i} :
        Brings(flight[j], stream.of, scan) => Brings(flight'[j], stream.of, scan')
  BY <1>1, <1>2
<1>5. \A j \in DOMAIN flight : flight[j].kind \in ReportKinds =>
        /\ flight'[j].late <=> flight[j].late
        /\ flight[j].kind = "report" /\ flight'[j].state = "failed" => flight[j].state = "failed"
        /\ ShowsReport(flight'[j]) <=> ShowsReport(flight[j])
        /\ Brings(flight[j], stream.of, scan) => Brings(flight'[j], stream.of, scan')
  BY <1>2, <1>3, <1>4
<1>6. IsCurrent(report, stream.of, scan) => IsCurrent(report', stream.of, scan')
  BY <1>1
<1> QED BY <1>1, <1>2, <1>5, <1>6, ReportInPlace DEF Awaited

(* The answer to the first of the requests for a report is what is shown;  *)
(* one that comes before, or has failed, does not matter.                  *)
LEMMA FirstReport ==
  ASSUME TypeOK, ReportInv, NEW i \in DOMAIN flight, ReceiveReport(i) \/ ReceiveRescan(i)
  PROVE  ReportInv'
<1> DEFINE R == RemoveAt(flight, i)
           F == flight
           G == flight'
           o == stream.of
<1>1. Ended(i, R) /\ Awaited /\ UNCHANGED <<profiles, status, scan, list>>
  BY ReceiveReportDoes, ReceiveRescanDoes
<1>2. /\ R \in Seq(Requests)
      /\ \A j \in DOMAIN R : Up(i, j) \in DOMAIN F \ {i} /\ R[j] = F[Up(i, j)]
      /\ \A k \in DOMAIN F \ {i} :
           Down(i, k) \in DOMAIN R /\ Up(i, Down(i, k)) = k /\ R[Down(i, k)] = F[k]
      /\ \A j, k \in DOMAIN R : j < k <=> Up(i, j) < Up(i, k)
  BY RemovedIs DEF TypeOK
<1> HIDE DEF R
<1>3. F[i].kind \in ReportKinds /\ Fetches(F[i].kind) = "report" /\ "report" \in ReportKinds
  BY DEF ReceiveReport, ReceiveRescan, Fetches, ReportKinds
<1>4. DOMAIN G = DOMAIN R /\ \A j \in DOMAIN R : G[j].kind = R[j].kind
  BY <1>1 DEF Ended, Changed
<1>5. CASE F[i].state # "failed" /\ Overtaken(i)
  <2>1. "report" \in excused'
    BY <1>1, <1>3, <1>5 DEF Ended
  <2>2. \A j \in DOMAIN G : G[j].kind \in ReportKinds => G[j].late
    <3>1. \A j \in DOMAIN R : G[j].late <=> (R[j].late \/ Fetches(R[j].kind) = "report")
      BY <1>1, <1>3, <1>5 DEF Ended
    <3> QED BY <1>4, <3>1, ReportFetched
  <2> QED BY <2>1, <2>2, ReportSpoilt
<1>6. CASE F[i].state = "failed" \/ ~Overtaken(i)
  <2>1. \A j \in DOMAIN R : G[j] = R[j]
    BY <1>1, <1>6 DEF Ended
  <2>2. excused' = IF F[i].state = "failed" \/ F[i].late THEN excused ELSE excused \ {"report"}
    BY <1>1, <1>3, <1>6 DEF Ended
  <2>3. \A j \in DOMAIN G : Up(i, j) \in DOMAIN F \ {i} /\ G[j] = F[Up(i, j)]
    BY <1>2, <1>4, <2>1
  <2>4. \A k \in DOMAIN F \ {i} : Down(i, k) \in DOMAIN G /\ Up(i, Down(i, k)) = k /\ G[Down(i, k)] = F[k]
    BY <1>2, <1>4, <2>1
  <2>5. \A j, k \in DOMAIN G : j < k <=> Up(i, j) < Up(i, k)
    BY <1>2, <1>4
  <2>6. i \in DOMAIN F /\ Len(F) \in Nat /\ DOMAIN F = 1 .. Len(F)
    BY FlightIs DEF TypeOK
  <2>7. ASSUME F[i].state # "failed", NEW k \in DOMAIN F, k # i, F[k].kind \in ReportKinds
        PROVE  i < k
    <3>1. F[k].kind \notin Posts /\ Fetches(F[k].kind) = "report"
      BY <2>7, KindsDiffer, ReportFetched DEF ReportKinds
    <3>2. k \notin 1 .. (i - 1)
      BY <1>3, <1>6, <2>7, <3>1 DEF Overtaken
    <3> QED BY <2>6, <2>7, <3>2
  <2>8. /\ o # None /\ Matters(F, excused) => Announced("discovery") \/ Comes(F, report, o, scan)
        /\ Orderly(F, excused) /\ OthersBefore(F, o)
    BY ReportInvIs
  <2>9. /\ F[i].state # "failed" => ShowsReport(F[i])
        /\ ShowsReport(F[i]) /\ F[i].kind # "report" => F[i].state # "failed"
    <3>1. F[i].state \in {"sent", "ok", "failed"}
      BY FlightIs DEF TypeOK, Fields
    <3> QED BY <3>1 DEF ReceiveReport, ReceiveRescan, ShowsReport
  <2>10. stream'.of = o /\ (Announced("discovery") => Announced("discovery")') /\ scan' = scan
    BY <1>1 DEF Awaited
  <2>11. ASSUME Brings(F[i], o, scan) PROVE F[i].state # "failed" /\ IsCurrent(report', o, scan)
    <3>1. F[i].of = o /\ F[i].state \in {"sent", "ok"}
      BY <2>11 DEF Brings
    <3>2. CASE ReceiveReport(i)
      <4>1. report' = Body(F[i]) /\ F[i].kind = "report"
        BY <3>1, <3>2 DEF ReceiveReport, SetReport
      <4>2. F[i].state = "ok" => IsCurrent(report', o, scan)
        BY <2>11, <4>1 DEF Brings, Body
      <4>3. ASSUME F[i].state = "sent" PROVE IsCurrent(report', o, scan)
        <5>1. report' = IF scan[o] # None THEN [of |-> o, caps |-> scan[o], cached |-> TRUE] ELSE None
          BY <3>1, <4>1, <4>3 DEF Body, Answer
        <5>2. CASE scan[o] = None
          BY <5>1, <5>2 DEF IsCurrent
        <5>3. CASE scan[o] # None
          <6>1. o \in Servers
            BY <1>3, <3>1, FlightIs, KindsDiffer DEF TypeOK, Fields, ReportKinds
          <6>2. report' \in Reports
            BY <5>1, <5>3, <6>1 DEF TypeOK, Reports
          <6> QED BY <5>1, <5>3, <6>2, KindsDiffer DEF IsCurrent
        <5> QED BY <5>2, <5>3
      <4> QED BY <3>1, <4>2, <4>3
    <3>3. CASE ReceiveRescan(i)
      <4>1. F[i].kind = "rescan" /\ F[i].state = "ok" /\ report' = F[i].body
        BY <3>1, <3>3 DEF ReceiveRescan, SetReport
      <4> QED BY <2>11, <4>1 DEF Brings
    <3> QED BY <3>1, <3>2, <3>3
  <2>12. ~ShowsReport(F[i]) => report' = report
    BY <2>9 DEF ReceiveReport, ReceiveRescan, ShowsReport
  <2> HIDE DEF F, G, o
  <2>13. Orderly(G, excused')
    <3>1. \A k, j \in DOMAIN G :
            j < k /\ G[j].kind \in ReportKinds /\ G[k].kind \in ReportKinds /\ G[k].late => G[j].late
      BY <2>3, <2>5, <2>8 DEF Orderly
    <3>2. \A k \in DOMAIN G : G[k].kind = "report" /\ G[k].state = "failed" => G[k].late
      BY <2>3, <2>8 DEF Orderly
    <3>3. ASSUME "report" \notin excused', NEW k \in DOMAIN F, k # i, F[k].kind \in ReportKinds
          PROVE  ~F[k].late
      <4>1. CASE "report" \notin excused
        BY <2>8, <3>3, <4>1 DEF Orderly
      <4>2. CASE F[i].state # "failed" /\ ~F[i].late
        <5>1. i < k
          BY <2>7, <3>3, <4>2
        <5> QED BY <1>3, <2>6, <2>8, <3>3, <4>2, <5>1 DEF Orderly
      <4> QED BY <2>2, <3>3, <4>1, <4>2
    <3>4. "report" \notin excused' => \A k \in DOMAIN G : G[k].kind \in ReportKinds => ~G[k].late
      BY <2>3, <3>3
    <3> QED BY <3>1, <3>2, <3>4 DEF Orderly
  <2>14. OthersBefore(G, o)
    <3> SUFFICES ASSUME o # None, NEW k \in DOMAIN G,
                        G[k].kind \in ReportKinds, ~G[k].late, G[k].of # o
                 PROVE  \E j \in DOMAIN G : j > k /\ G[j].kind = "report" /\ G[j].of = o
      BY DEF OthersBefore
    <3> DEFINE u == Up(i, k)
    <3>1. u \in DOMAIN F /\ u # i /\ G[k] = F[u]
      BY <2>3
    <3> HIDE DEF u
    <3>2. PICK j \in DOMAIN F : j > u /\ F[j].kind = "report" /\ F[j].of = o
      BY <2>8, <3>1 DEF OthersBefore
    <3>3. j # i
      <4> SUFFICES ASSUME j = i PROVE FALSE
        OBVIOUS
      <4>1. CASE F[i].state # "failed"
        <5>1. i < u
          BY <2>7, <3>1, <4>1
        <5> QED BY <2>6, <3>1, <3>2, <5>1
      <4>2. CASE F[i].state = "failed"
        <5>1. F[i].late
          BY <2>6, <2>8, <3>2, <4>2 DEF Orderly
        <5>2. u < i
          BY <2>6, <3>1, <3>2
        <5> QED BY <1>3, <2>6, <2>8, <3>1, <5>1, <5>2 DEF Orderly
      <4> QED BY <4>1, <4>2
    <3>4. Down(i, j) \in DOMAIN G /\ Up(i, Down(i, j)) = j /\ G[Down(i, j)] = F[j]
      BY <2>4, <3>3
    <3>5. u < j
      BY <2>6, <3>1, <3>2
    <3>6. k < Down(i, j)
      BY <2>5, <3>4, <3>5 DEF u
    <3> QED BY <3>2, <3>4, <3>6
  <2>15. Matters(G, excused') => Matters(F, excused)
    <3>1. ASSUME "report" \notin excused', "report" \in excused
          PROVE  ShowsReport(F[i]) /\ ~F[i].late
      BY <2>2, <2>9, <3>1
    <3> QED BY <2>3, <2>6, <3>1 DEF Matters
  <2>16. Comes(F, report, o, scan) => Comes(G, report', o, scan)
    <3>1. ASSUME NEW w \in DOMAIN F, w # i, Brings(F[w], o, scan),
                 \A j \in DOMAIN F : j > w => ~ShowsReport(F[j])
          PROVE  Comes(G, report', o, scan)
      <4> DEFINE d == Down(i, w)
      <4>1. d \in DOMAIN G /\ Up(i, d) = w /\ G[d] = F[w]
        BY <2>4, <3>1
      <4> HIDE DEF d
      <4>2. ASSUME NEW j \in DOMAIN G, j > d PROVE ~ShowsReport(G[j])
        <5>1. d < j
          <6>1. DOMAIN G = 1 .. Len(R) /\ Len(R) \in Nat
            BY <1>2, <1>4, FlightIs
          <6> QED BY <4>1, <4>2, <6>1
        <5>2. w < Up(i, j)
          BY <2>5, <4>1, <5>1
        <5>3. Up(i, j) \in DOMAIN F /\ G[j] = F[Up(i, j)] /\ Up(i, j) > w
          BY <2>3, <2>6, <5>2
        <5> QED BY <3>1, <5>3
      <4> QED BY <3>1, <4>1, <4>2 DEF Comes
    <3>2. ASSUME Brings(F[i], o, scan), \A j \in DOMAIN F : j > i => ~ShowsReport(F[j])
          PROVE  Comes(G, report', o, scan)
      <4>1. IsCurrent(report', o, scan) /\ F[i].state # "failed"
        BY <2>11, <3>2 DEF F, o
      <4>2. ASSUME NEW k \in DOMAIN F, k # i, ShowsReport(F[k]) PROVE FALSE
        <5>1. i < k
          BY <2>7, <4>1, <4>2, Shows
        <5> QED BY <2>6, <3>2, <4>2, <5>1
      <4> QED BY <2>3, <4>1, <4>2 DEF Comes
    <3>3. CASE IsCurrent(report, o, scan) /\ \A j \in DOMAIN F : ~ShowsReport(F[j])
      BY <2>3, <2>6, <2>12, <3>3 DEF Comes
    <3> QED BY <3>1, <3>2, <3>3 DEF Comes
  <2> QED BY <2>8, <2>10, <2>13, <2>14, <2>15, <2>16, ReportInvIs DEF G
<1> QED BY <1>5, <1>6

(* A commit that fetches a report, fetches it last, of the server it opens *)
(* the stream of; one that does not leaves server and report as they were. *)
LEMMA ReportSent ==
  ASSUME ReportInv, NEW M \in Seq(Requests), NEW E \in Seq(Requests), Changed(flight, M),
         flight' = M \o E, Sends(E), stream'.of = selected, selected # None,
         "report" \in excused => "report" \in excused',
         \A i \in DOMAIN flight : flight[i].kind \in ReportKinds => Alike(M[i], flight[i]),
         \E i \in DOMAIN E : E[i].kind = "report"
  PROVE  ReportInv'
<1> DEFINE n == Len(M)
           G == flight'
           o == selected
<1>1. /\ n \in Nat /\ DOMAIN M = 1 .. n /\ DOMAIN E = 1 .. Len(E) /\ Len(E) \in Nat
      /\ \A i \in DOMAIN M : i \in DOMAIN G /\ G[i] = M[i]
      /\ \A i \in DOMAIN E : n + i \in DOMAIN G /\ G[n + i] = E[i]
      /\ \A k \in DOMAIN G : k \in DOMAIN M \/ (k - n \in DOMAIN E /\ G[k] = E[k - n])
      /\ DOMAIN G = 1 .. n + Len(E)
  BY JoinedIs
<1>2. \A i \in DOMAIN E :
        /\ E[i].state = "sent" /\ ~E[i].late
        /\ E[i].kind = "list" \/ (E[i].kind = "report" /\ E[i].of = o)
  BY DEF Sends
<1>3. Orderly(flight, excused)
  BY ReportInvIs
<1>4. \A i \in DOMAIN M : M[i].kind \in ReportKinds =>
        /\ i \in DOMAIN flight /\ flight[i].kind = M[i].kind
        /\ flight[i].state = M[i].state /\ (flight[i].late <=> M[i].late)
  BY DEF Changed, Alike
<1>5. "list" \notin ReportKinds /\ "report" \in ReportKinds
  BY DEF ReportKinds
<1> HIDE DEF n, G, o
<1>6. PICK l \in DOMAIN E : E[l].kind = "report" /\ \A j \in DOMAIN E : j > l => E[j].kind # "report"
  BY LastOf
<1>7. /\ n + l \in DOMAIN G /\ G[n + l].kind = "report" /\ G[n + l].of = o /\ G[n + l].state = "sent"
  BY <1>1, <1>2, <1>5, <1>6
<1>8. ASSUME NEW k \in DOMAIN G, k > n + l PROVE ~ShowsReport(G[k])
  <2>1. k - n \in DOMAIN E /\ G[k] = E[k - n]
    BY <1>1, <1>6, <1>8
  <2>2. k - n > l
    BY <1>1, <1>6, <1>8
  <2>3. E[k - n].kind = "list"
    BY <1>2, <1>6, <2>1, <2>2
  <2> QED BY <1>5, <2>1, <2>3, Shows
<1>9. Comes(G, report', o, scan')
  BY <1>7, <1>8 DEF Comes, Brings
<1>10. Orderly(G, excused')
  <2>1. ASSUME NEW k \in DOMAIN G, G[k].kind \in ReportKinds, G[k].late
        PROVE  k \in DOMAIN M /\ G[k] = M[k]
    BY <1>1, <1>2, <2>1
  <2>2. ASSUME NEW k \in DOMAIN G, NEW j \in DOMAIN G, j < k,
               G[j].kind \in ReportKinds, G[k].kind \in ReportKinds, G[k].late
        PROVE  G[j].late
    <3>1. k \in DOMAIN M /\ G[k] = M[k]
      BY <2>1, <2>2
    <3>2. j \in DOMAIN M /\ G[j] = M[j]
      BY <1>1, <2>2, <3>1
    <3> QED BY <1>3, <1>4, <2>2, <3>1, <3>2 DEF Orderly
  <2>3. "report" \notin excused' => \A k \in DOMAIN G : G[k].kind \in ReportKinds => ~G[k].late
    BY <1>3, <1>4, <2>1 DEF Orderly
  <2>4. ASSUME NEW k \in DOMAIN G, G[k].kind = "report", G[k].state = "failed"
        PROVE  G[k].late
    <3>1. ~(k - n \in DOMAIN E /\ G[k] = E[k - n])
      BY <1>2, <2>4
    <3>2. k \in DOMAIN M /\ G[k] = M[k]
      BY <1>1, <3>1
    <3> QED BY <1>3, <1>4, <1>5, <2>4, <3>2 DEF Orderly
  <2> QED BY <2>2, <2>3, <2>4 DEF Orderly
<1>11. OthersBefore(G, o)
  <2> SUFFICES ASSUME NEW k \in DOMAIN G, G[k].kind \in ReportKinds, G[k].of # o
               PROVE  n + l > k
    BY <1>7 DEF OthersBefore
  <2>1. ~(k - n \in DOMAIN E /\ G[k] = E[k - n])
    BY <1>2, <1>5
  <2>2. k \in DOMAIN M
    BY <1>1, <2>1
  <2> QED BY <1>1, <1>6, <2>2
<1>12. stream'.of = o
  BY DEF o
<1> QED BY <1>9, <1>10, <1>11, <1>12, ReportInvIs DEF G

LEMMA CommitReport ==
  ASSUME TypeOK, ReportInv, Commit
  PROVE  ReportInv'
<1>1. /\ UNCHANGED scan /\ stream'.of = selected /\ (~Switched => stream' = stream)
      /\ selected # None => report' = report
      /\ \E K \in SUBSET {"list"} : \E M \in Seq(Requests) : \E E \in Seq(Requests) :
           /\ M = Mark(flight, K) /\ Sends(E) /\ flight' = M \o E
           /\ excused' = excused \cup K
  BY CommitDoes
<1>2. PICK K \in SUBSET {"list"} : \E M \in Seq(Requests) : \E E \in Seq(Requests) :
        M = Mark(flight, K) /\ Sends(E) /\ flight' = M \o E /\ excused' = excused \cup K
  BY <1>1
<1>3. PICK M \in Seq(Requests) : \E E \in Seq(Requests) :
        M = Mark(flight, K) /\ Sends(E) /\ flight' = M \o E /\ excused' = excused \cup K
  BY <1>2
<1>4. PICK E \in Seq(Requests) :
        M = Mark(flight, K) /\ Sends(E) /\ flight' = M \o E /\ excused' = excused \cup K
  BY <1>3
<1>5. /\ Changed(flight, M)
      /\ \A i \in DOMAIN flight :
           /\ M[i].state = flight[i].state /\ M[i].body = flight[i].body
           /\ M[i].late <=> (flight[i].late \/ Fetches(flight[i].kind) \in K)
  BY <1>4, MarkIs DEF TypeOK
<1>6. "report" \notin K /\ ("report" \in excused' <=> "report" \in excused)
  BY <1>4
<1>7. \A i \in DOMAIN flight : flight[i].kind \in ReportKinds => Alike(M[i], flight[i])
  BY <1>5, <1>6, ReportFetched DEF Changed, Alike
<1>8. CASE selected # None /\ \E i \in DOMAIN E : E[i].kind = "report"
  BY <1>1, <1>4, <1>5, <1>6, <1>7, <1>8, ReportSent
<1>9. CASE selected = None
  <2>1. Orderly(flight, excused)
    BY ReportInvIs
  <2>2. \A i \in DOMAIN E : E[i].kind \notin ReportKinds \/ selected \in Servers
    <3>1. \A i \in DOMAIN E : E[i].kind \in ReportKinds => E[i].of \in Servers
      BY <1>4, FlightIs, KindsDiffer DEF Fields, ReportKinds
    <3>2. \A i \in DOMAIN E : E[i].kind = "list" \/ E[i].of = selected
      BY <1>4 DEF Sends
    <3> QED BY <3>1, <3>2 DEF ReportKinds
  <2>3. \A i \in DOMAIN E : E[i].kind \notin ReportKinds
    BY <1>9, <2>2, KindsDiffer
  <2>4. PICK up, down : SameFor(ReportKinds, up, down)
    BY <1>4, <1>5, <1>7, <2>3, SameJoined
  <2>5. Orderly(flight', excused')
    BY <1>6, <2>1, <2>4, OrderKept
  <2> QED BY <1>1, <1>9, <2>5, ReportInvIs DEF OthersBefore
<1>10. CASE selected # None /\ ~ \E i \in DOMAIN E : E[i].kind = "report"
  <2>1. \A i \in DOMAIN E : E[i].kind \notin ReportKinds
    BY <1>4, <1>10 DEF Sends, ReportKinds
  <2>2. PICK up, down : SameFor(ReportKinds, up, down)
    BY <1>4, <1>5, <1>7, <2>1, SameJoined
  <2>3. ~Switched /\ ~("events" \in due /\ last = "discovery")
    BY <1>4, <1>10 DEF Sends
  <2>4. stream' = stream /\ report' = report
    BY <1>1, <1>10, <2>3
  <2>5. Announced("discovery") => Announced("discovery")'
    BY <2>3, <2>4 DEF Announced
  <2> QED BY <1>1, <1>6, <2>2, <2>4, <2>5, ReportKept
<1> QED BY <1>8, <1>9, <1>10

(* A request of the user: a scan is of the server on screen.               *)
LEMMA AskReport ==
  ASSUME TypeOK, ReportInv, Rescan \/ \E kind \in Posts : Post(kind)
  PROVE  ReportInv'
<1>1. /\ Awaited /\ UNCHANGED <<profiles, status, scan, list, report, excused>>
      /\ \E r \in Requests :
           /\ flight' = flight \o <<r>> /\ r.state = "sent" /\ ~r.late
           /\ r.kind \in Posts \/ (r.kind = "rescan" /\ r.of = stream.of)
  BY AskDoes
<1>2. PICK r \in Requests :
        /\ flight' = flight \o <<r>> /\ r.state = "sent" /\ ~r.late
        /\ r.kind \in Posts \/ (r.kind = "rescan" /\ r.of = stream.of)
  BY <1>1
<1> DEFINE F == flight
           G == flight'
           o == stream.of
           n == Len(F)
<1>3. <<r>> \in Seq(Requests) /\ DOMAIN <<r>> = {1} /\ <<r>>[1] = r
  BY OneSent
<1>4. F \in Seq(Requests)
  BY DEF TypeOK
<1>5. /\ n \in Nat /\ DOMAIN F = 1 .. n
      /\ \A i \in DOMAIN F : i \in DOMAIN G /\ G[i] = F[i]
      /\ \A k \in DOMAIN G : k \in DOMAIN F \/ k - n = 1
      /\ \A k \in DOMAIN G : k \notin DOMAIN F => G[k] = r
      /\ DOMAIN G \subseteq 1 .. n + Len(<<r>>) /\ Len(<<r>>) \in Nat
  BY <1>2, <1>3, <1>4, JoinedIs
<1>6. /\ o # None /\ Matters(F, excused) => Announced("discovery") \/ Comes(F, report, o, scan)
      /\ Orderly(F, excused) /\ OthersBefore(F, o)
  BY ReportInvIs
<1>7. ~ShowsReport(r) /\ r.kind # "report"
  BY <1>2, KindsDiffer DEF ShowsReport
<1>8. stream'.of = o /\ (Announced("discovery") => Announced("discovery")')
      /\ scan' = scan /\ report' = report /\ excused' = excused
  BY <1>1 DEF Awaited
<1>9. r.kind \in ReportKinds => r.of = o
  BY <1>2, KindsDiffer DEF ReportKinds
<1> HIDE DEF F, G, o, n
<1>10. Orderly(G, excused)
  <2>1. \A k \in DOMAIN G : G[k].late => k \in DOMAIN F /\ G[k] = F[k]
    BY <1>2, <1>5
  <2>2. \A k \in DOMAIN G, j \in DOMAIN G : k \in DOMAIN F /\ j < k => j \in DOMAIN F /\ G[j] = F[j]
    BY <1>5
  <2>3. \A k, j \in DOMAIN G :
          j < k /\ G[j].kind \in ReportKinds /\ G[k].kind \in ReportKinds /\ G[k].late => G[j].late
    BY <1>6, <2>1, <2>2 DEF Orderly
  <2>4. "report" \notin excused => \A k \in DOMAIN G : G[k].kind \in ReportKinds => ~G[k].late
    BY <1>6, <2>1 DEF Orderly
  <2>5. \A k \in DOMAIN G : G[k].kind = "report" /\ G[k].state = "failed" => G[k].late
    BY <1>5, <1>6, <1>7 DEF Orderly
  <2> QED BY <2>3, <2>4, <2>5 DEF Orderly
<1>11. OthersBefore(G, o)
  BY <1>5, <1>6, <1>9 DEF OthersBefore
<1>12. Matters(G, excused) => Matters(F, excused)
  BY <1>5, <1>7 DEF Matters
<1>13. Comes(F, report, o, scan) => Comes(G, report, o, scan)
  BY <1>5, <1>7 DEF Comes
<1> QED BY <1>6, <1>8, <1>10, <1>11, <1>12, <1>13, ReportInvIs DEF G

(* The refresh after a change is of the list.                              *)
LEMMA ReceivePostReport ==
  ASSUME TypeOK, ReportInv, NEW i \in DOMAIN flight, ReceivePost(i)
  PROVE  ReportInv'
<1>1. /\ Awaited /\ UNCHANGED <<profiles, status, scan, list, report, excused>>
      /\ \E E \in Seq(Requests) :
           /\ flight' = RemoveAt(flight, i) \o E
           /\ \A j \in DOMAIN E : E[j].kind = "list"
  BY ReceivePostDoes
<1>2. PICK E \in Seq(Requests) :
        flight' = RemoveAt(flight, i) \o E /\ \A j \in DOMAIN E : E[j].kind = "list"
  BY <1>1
<1>3. flight[i].kind \notin ReportKinds /\ \A j \in DOMAIN E : E[j].kind \notin ReportKinds
  BY <1>2, KindsDiffer DEF ReceivePost, ReportKinds
<1>4. PICK up, down : SameFor(ReportKinds, up, down)
  BY <1>2, <1>3, SameReplaced
<1> QED BY <1>1, <1>4, ReportKept DEF Awaited

LEMMA SpoilsReport ==
  ASSUME TypeOK, ReportInv, UNCHANGED <<scan, report>>, stream'.of = stream.of, NEW K, Spoils(K),
         Announced("discovery") => Announced("discovery")' \/ "report" \in K
  PROVE  ReportInv'
<1>1. CASE "report" \in K
  BY <1>1, ReportFetched, ReportSpoilt DEF Spoils, Changed
<1>2. CASE "report" \notin K
  <2>1. \A i \in DOMAIN flight : flight[i].kind \in ReportKinds => Alike(flight'[i], flight[i])
    BY <1>2, ReportFetched DEF Spoils, Changed, Alike
  <2>2. PICK up, down : SameFor(ReportKinds, up, down)
    BY <2>1, SameInPlace DEF Spoils
  <2> QED BY <1>2, <2>2, ReportKept DEF Spoils
<1> QED BY <1>1, <1>2

(* Every step keeps what makes the report right in the end.                *)
LEMMA NextReport ==
  ASSUME TypeOK, ReportInv, [Next]_vars
  PROVE  ReportInv'
<1>1. ASSUME NEW s \in Servers, StatusChanges(s)
      PROVE  ReportInv'
  <2>1. /\ Changed(flight, flight') /\ Awaited
        /\ \A i \in DOMAIN flight : flight[i].kind \in ReportKinds => Alike(flight'[i], flight[i])
        /\ "report" \in excused' <=> "report" \in excused
    BY <1>1, StatusChangesDoes
  <2>2. UNCHANGED <<scan, report>>
    BY <1>1 DEF StatusChanges, viewVars
  <2>3. PICK up, down : SameFor(ReportKinds, up, down)
    BY <2>1, SameInPlace
  <2> QED BY <2>1, <2>2, <2>3, ReportKept DEF Awaited
<1>2. ASSUME NEW s \in Servers, Chatters(s)
      PROVE  ReportInv'
  <2>1. Changed(flight, flight') /\ \A i \in DOMAIN flight : Alike(flight'[i], flight[i])
    BY <1>2, ChattersDoes DEF Changed, Alike, TypeOK
  <2>2. PICK up, down : SameFor(ReportKinds, up, down)
    BY <2>1, SameInPlace
  <2> QED BY <1>2, <2>2, ChattersDoes, ReportKept DEF Awaited
<1>3. ASSUME NEW i \in DOMAIN flight, Serve(i)
      PROVE  ReportInv'
  <2>1. CASE ServePost(i)
    <3>1. /\ Changed(flight, flight') /\ Awaited /\ UNCHANGED <<scan, report, excused>>
          /\ \A j \in DOMAIN flight : flight[j].kind \in ReportKinds => Alike(flight'[j], flight[j])
      BY <1>3, <2>1, ServePostDoes
    <3>2. PICK up, down : SameFor(ReportKinds, up, down)
      BY <3>1, SameInPlace
    <3> QED BY <3>1, <3>2, ReportKept DEF Awaited
  <2> QED BY <1>3, <2>1, RescanReport, RefuseReport DEF Serve
<1>4. ASSUME NEW i \in DOMAIN flight, Fail(i)
      PROVE  ReportInv'
  <2>1. /\ Changed(flight, flight') /\ Awaited /\ UNCHANGED <<scan, report>>
        /\ excused' = excused \cup {Fetches(flight[i].kind)}
        /\ \A j \in DOMAIN flight :
             /\ flight'[j].late <=> (flight[j].late \/ Fetches(flight[j].kind) = Fetches(flight[i].kind))
             /\ j # i => flight'[j].state = flight[j].state /\ flight'[j].body = flight[j].body
    BY <1>4, FailDoes
  <2>2. CASE Fetches(flight[i].kind) = "report"
    BY <2>1, <2>2, ReportFetched, ReportSpoilt DEF Changed
  <2>3. CASE Fetches(flight[i].kind) # "report"
    <3>1. \A j \in DOMAIN flight : flight[j].kind \in ReportKinds =>
            j # i /\ Fetches(flight[j].kind) # Fetches(flight[i].kind)
      BY <2>3, ReportFetched
    <3>2. \A j \in DOMAIN flight : flight[j].kind \in ReportKinds => Alike(flight'[j], flight[j])
      BY <2>1, <3>1 DEF Changed, Alike
    <3>3. PICK up, down : SameFor(ReportKinds, up, down)
      BY <2>1, <3>2, SameInPlace
    <3> QED BY <2>1, <2>3, <3>3, ReportKept DEF Awaited
  <2> QED BY <2>2, <2>3
<1>5. ASSUME NEW i \in DOMAIN flight, ReceiveList(i)
      PROVE  ReportInv'
  <2>1. Ended(i, RemoveAt(flight, i)) /\ Awaited /\ UNCHANGED <<scan, report>>
    BY <1>5, ReceiveListDoes
  <2>2. /\ flight[i].kind \notin ReportKinds /\ Fetches(flight[i].kind) # "report"
        /\ \A kind \in ReportKinds : Fetches(kind) # Fetches(flight[i].kind)
    BY <1>5, ReportFetched DEF ReceiveList, ReportKinds
  <2>3. PICK up, down : SameFor(ReportKinds, up, down)
    BY <2>1, <2>2, SameEnded
  <2>4. "report" \in excused' <=> "report" \in excused
    BY <2>1, <2>2 DEF Ended
  <2> QED BY <2>1, <2>3, <2>4, ReportKept DEF Awaited
<1>6. ASSUME NEW i \in DOMAIN flight, Receive(i)
      PROVE  ReportInv'
  BY <1>5, <1>6, FirstReport, ReceivePostReport DEF Receive
<1>7. ASSUME Deliver \/ \E s \in Servers : Select(s)
      PROVE  ReportInv'
  <2>1. /\ UNCHANGED <<scan, report>> /\ stream'.of = stream.of
        /\ \E K \in SUBSET {"list", "report"} :
             Spoils(K) /\ (Announced("discovery") => Announced("discovery")' \/ "report" \in K)
    BY <1>7, DeliverDoes, SelectDoes
  <2> QED BY <2>1, SpoilsReport
<1>8. ASSUME NEW t \in Tabs, ChooseTab(t)
      PROVE  ReportInv'
  <2>1. Changed(flight, flight') /\ \A i \in DOMAIN flight : Alike(flight'[i], flight[i])
    BY <1>8, ChooseTabDoes DEF Changed, Alike, TypeOK
  <2>2. PICK up, down : SameFor(ReportKinds, up, down)
    BY <2>1, SameInPlace
  <2> QED BY <1>8, <2>2, ChooseTabDoes, ReportKept DEF Awaited
<1>9. CASE UNCHANGED vars
  <2>1. /\ flight' = flight /\ excused' = excused /\ scan' = scan /\ report' = report
        /\ stream' = stream /\ (Announced("discovery") <=> Announced("discovery")')
    BY <1>9 DEF vars, daemonVars, viewVars, Announced
  <2> QED BY <2>1, ReportInvIs
<1> QED BY <1>1, <1>2, <1>3, <1>4, <1>6, <1>7, <1>8, <1>9, DiscoversReport, CommitReport, AskReport
        DEF Next, Daemon, Browser

(* The page asks for the list and the report of the selection.             *)
LEMMA InitScreen ==
  ASSUME Init
  PROVE  ListInv /\ ReportInv
<1> DEFINE L == Request("list", None)
           R == Request("report", selected)
<1>1. /\ flight = IF selected = None THEN <<L>> ELSE <<L, R>>
      /\ stream.of = selected /\ excused = {}
  BY InitTyped DEF Init
<1>2. /\ L.kind = "list" /\ L.state = "sent" /\ L.late = FALSE
      /\ R.kind = "report" /\ R.state = "sent" /\ R.late = FALSE /\ R.of = selected
  BY DEF Request
<1> HIDE DEF L, R
<1>3. /\ 1 \in DOMAIN flight /\ flight[1] = L
      /\ \A i \in DOMAIN flight : i = 1 \/ (selected # None /\ i = 2 /\ flight[i] = R)
      /\ selected # None => 2 \in DOMAIN flight /\ flight[2] = R
  <2>1. CASE selected = None
    <3>1. flight = <<L>>
      BY <1>1, <2>1
    <3> QED BY <2>1, <3>1
  <2>2. CASE selected # None
    <3>1. flight = <<L, R>>
      BY <1>1, <2>2
    <3> QED BY <2>2, <3>1
  <2> QED BY <2>1, <2>2
<1>4. \A i \in DOMAIN flight : i \in {1, 2}
  BY <1>3
<1>5. ListInv
  <2>1. BringsList(flight[1]) /\ \A j \in DOMAIN flight : j > 1 => flight[j].kind # "list"
    BY <1>2, <1>3 DEF BringsList
  <2>2. ListComes
    BY <1>3, <2>1 DEF ListComes
  <2> QED BY <1>2, <1>3, <2>2 DEF ListInv
<1>6. ReportInv
  <2>1. \A i \in DOMAIN flight : ~flight[i].late /\ flight[i].state # "failed"
    BY <1>2, <1>3
  <2>2. Orderly(flight, excused)
    BY <2>1 DEF Orderly
  <2>3. \A i \in DOMAIN flight : flight[i].kind \in ReportKinds => flight[i].of = selected
    BY <1>2, <1>3 DEF ReportKinds
  <2>4. OthersBefore(flight, stream.of)
    BY <1>1, <2>3 DEF OthersBefore
  <2>5. selected # None => Comes(flight, report, stream.of, scan)
    <3> SUFFICES ASSUME selected # None PROVE Comes(flight, report, stream.of, scan)
      OBVIOUS
    <3>1. Brings(flight[2], stream.of, scan)
      BY <1>1, <1>2, <1>3 DEF Brings
    <3>2. \A j \in DOMAIN flight : j > 2 => ~ShowsReport(flight[j])
      BY <1>4
    <3> QED BY <1>3, <3>1, <3>2 DEF Comes
  <2> QED BY <1>1, <2>2, <2>4, <2>5, ReportInvIs
<1> QED BY <1>5, <1>6

(* When nothing is under way, what has been announced has been fetched.    *)
LEMMA RestIsCurrent ==
  ASSUME TypeOK, ListInv, ReportInv
  PROVE  ScreenAtRest
<1> SUFFICES ASSUME AtRest
             PROVE  /\ "list" \notin excused => list = Listed
                    /\ "report" \notin excused /\ selected # None =>
                         IF report = None THEN scan[selected] = None
                         ELSE report.of = selected /\ report.cached
  BY DEF ScreenAtRest, Listed
<1>1. DOMAIN flight = {} /\ DOMAIN stream.wire = {}
  <2>1. DOMAIN <<>> = 1 .. 0
    OBVIOUS
  <2> QED BY <2>1 DEF AtRest
<1>2. ~Announced("status") /\ ~Announced("discovery") /\ stream.of = selected
  BY <1>1 DEF AtRest, Announced, Switched
<1>3. "list" \notin excused => list = Listed
  BY <1>1, <1>2 DEF ListInv, ListMatters, ListComes
<1>4. "report" \notin excused /\ selected # None => IsCurrent(report, selected, scan)
  BY <1>1, <1>2, ReportInvIs DEF Matters, Comes
<1> QED BY <1>3, <1>4 DEF IsCurrent

(* At rest the screen shows what the daemon has: the list is the profiles  *)
(* with their statuses, the report the cached one of the selected server,  *)
(* unless an accident has been: whatever the events, answers, commits and  *)
(* clicks before, and in whatever order they came.                         *)
THEOREM ScreenIsDaemons == Spec => []ScreenAtRest
<1>1. Init => TypeOK /\ ListInv /\ ReportInv
  BY InitTyped, InitScreen
<1>2. TypeOK /\ ListInv /\ ReportInv /\ [Next]_vars => (TypeOK /\ ListInv /\ ReportInv)'
  BY NextTyped, NextList, NextReport
<1>3. TypeOK /\ ListInv /\ ReportInv => ScreenAtRest
  BY RestIsCurrent
<1> QED BY <1>1, <1>2, <1>3, PTL DEF Spec

=============================================================================
