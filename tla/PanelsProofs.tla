---------------------------- MODULE PanelsProofs ----------------------------
(* What the panels promise, for any options, texts, commands and bounds.   *)
EXTENDS Panels, FiniteSetTheorems, WellFoundedInduction, SequenceTheorems, TLAPS

----------------------------------------------------------------------------
(* Sequences.                                                              *)

(* A set of numbers has a least one: intervals are well-founded.           *)
LEMMA Least ==
  ASSUME NEW T, T \subseteq Nat, T # {}
  PROVE  \E m \in T : \A n \in T : m <= n
<1> DEFINE Upto == {S \in SUBSET Nat : \E n \in T : S = 1 .. n}
<1>1. Upto \subseteq FiniteSubsetsOf(Nat)
  <2>1. \A n \in T : IsFiniteSet(1 .. n)
    BY FS_Interval
  <2> QED BY <2>1 DEF FiniteSubsetsOf
<1>2. Upto # {}
  <2>1. PICK n \in T : TRUE
    OBVIOUS
  <2>2. 1 .. n \in SUBSET Nat
    BY <2>1
  <2> QED BY <2>1, <2>2
<1>3. IsWellFoundedOn(StrictSubsetOrdering(Nat), FiniteSubsetsOf(Nat))
  BY FS_StrictSubsetOrderingWellFounded
<1> HIDE DEF Upto
<1>4. PICK S \in Upto : \A R \in Upto : ~(<<R, S>> \in StrictSubsetOrdering(Nat))
  BY <1>1, <1>2, <1>3, WFMin
<1> USE DEF Upto
<1>5. PICK m \in T : S = 1 .. m
  BY <1>4
<1>6. ASSUME NEW n \in T, ~(m <= n)
      PROVE  FALSE
  <2>1. n \in Nat /\ m \in Nat /\ n < m
    BY <1>6
  <2>2. 1 .. n \in Upto
    <3>1. 1 .. n \in SUBSET Nat
      BY <2>1
    <3> QED BY <3>1
  <2>3. 1 .. n \subseteq 1 .. m
    BY <2>1
  <2>4. m \in 1 .. m /\ m \notin 1 .. n
    BY <2>1
  <2>5. <<1 .. n, 1 .. m>> \in StrictSubsetOrdering(Nat)
    <3>1. 1 .. n # 1 .. m
      BY <2>4
    <3>2. 1 .. n \in SUBSET Nat /\ 1 .. m \in SUBSET Nat
      BY <2>1
    <3> QED BY <2>3, <3>1, <3>2 DEF StrictSubsetOrdering
  <2> QED BY <1>4, <1>5, <2>2, <2>5
<1> QED BY <1>6

(* Induction over a set of numbers.                                        *)
LEMMA Induction ==
  ASSUME NEW P, 0 \in P, \A n \in Nat : n \in P => n + 1 \in P
  PROVE  Nat \subseteq P
<1> SUFFICES ASSUME Nat \ P # {} PROVE FALSE
  OBVIOUS
<1>1. PICK m \in Nat \ P : \A n \in Nat \ P : m <= n
  BY Least
<1>2. m # 0 /\ m - 1 \in Nat
  BY <1>1
<1>3. m - 1 \in P
  BY <1>1, <1>2
<1> QED BY <1>1, <1>2, <1>3

(* A recursion over a prefix of the numbers has a solution.                *)
Solves(g, L, base, step) ==
  g[0] = base /\ \A n \in 1 .. L : g[n] = step[n][g[n - 1]]

LEMMA Recursion ==
  ASSUME NEW S, NEW L \in Nat, NEW base \in S, NEW step \in [1 .. L -> [S -> S]]
  PROVE  \E g \in [0 .. L -> S] : Solves(g, L, base, step)
<1> DEFINE Upto(g, n) == g[0] = base /\ \A k \in 1 .. n : g[k] = step[k][g[k - 1]]
           Have == {n \in Nat : n > L \/ \E g \in [0 .. n -> S] : Upto(g, n)}
<1>1. 0 \in Have
  <2> DEFINE g == [k \in 0 .. 0 |-> base]
  <2>1. g \in [0 .. 0 -> S] /\ Upto(g, 0)
    OBVIOUS
  <2> QED BY <2>1
<1>2. ASSUME NEW n \in Nat, n \in Have
      PROVE  n + 1 \in Have
  <2>1. CASE n + 1 > L
    BY <2>1
  <2>2. CASE n + 1 <= L
    <3>1. PICK g \in [0 .. n -> S] : Upto(g, n)
      BY <1>2, <2>2
    <3> DEFINE new == step[n + 1][g[n]]
               h == [k \in 0 .. n + 1 |-> IF k = n + 1 THEN new ELSE g[k]]
    <3>2. g[n] \in S /\ n + 1 \in 1 .. L
      BY <2>2
    <3>3. new \in S
      BY <3>2
    <3>4. \A k \in 0 .. n : h[k] = g[k]
      OBVIOUS
    <3>5. h \in [0 .. n + 1 -> S] /\ h[n + 1] = step[n + 1][h[n]]
      BY <3>3, <3>4
    <3> HIDE DEF h, new
    <3>6. ASSUME NEW k \in 1 .. n + 1
          PROVE  h[k] = step[k][h[k - 1]]
      <4>1. CASE k = n + 1
        BY <3>5, <4>1
      <4>2. CASE k # n + 1
        <5>1. k \in 1 .. n /\ k - 1 \in 0 .. n /\ k \in 0 .. n
          BY <4>2
        <5> QED BY <3>1, <3>4, <5>1
      <4> QED BY <4>1, <4>2
    <3>7. Upto(h, n + 1)
      BY <3>1, <3>4, <3>6
    <3> QED BY <3>5, <3>7
  <2> QED BY <1>2, <2>1, <2>2
<1> HIDE DEF Have
<1>3. L \in Have
  BY <1>1, <1>2, Induction
<1> QED BY <1>3 DEF Have, Solves

(* A filter, element by element.                                           *)
Filters(u, seq, those) ==
  /\ u[0] = <<>>
  /\ \A n \in 1 .. Len(seq) :
       u[n] = IF seq[n] \in those THEN Append(u[n - 1], seq[n]) ELSE u[n - 1]

LEMMA AmongUpTo ==
  ASSUME NEW S, NEW seq \in Seq(S), NEW those
  PROVE  \E u \in [0 .. Len(seq) -> Seq(S)] :
           Filters(u, seq, those) /\ Among(seq, those) = u[Len(seq)]
<1> DEFINE L == Len(seq)
           step == [n \in 1 .. L |-> [f \in Seq(S) |->
                      IF seq[n] \in those THEN Append(f, seq[n]) ELSE f]]
<1>1. L \in Nat /\ \A k \in 1 .. L : seq[k] \in S
  BY ElementOfSeq
<1>2. step \in [1 .. L -> [Seq(S) -> Seq(S)]]
  <2> SUFFICES ASSUME NEW n \in 1 .. L, NEW f \in Seq(S)
               PROVE  (IF seq[n] \in those THEN Append(f, seq[n]) ELSE f) \in Seq(S)
    OBVIOUS
  <2>1. seq[n] \in S
    BY <1>1
  <2> QED BY <2>1, AppendProperties
<1>3. <<>> \in Seq(S)
  BY EmptySeq
<1> HIDE DEF step
<1>4. PICK g \in [0 .. L -> Seq(S)] : Solves(g, L, <<>>, step)
  <2> DEFINE T == Seq(S)
             zero == <<>>
  <2>1. L \in Nat /\ zero \in T /\ step \in [1 .. L -> [T -> T]]
    BY <1>1, <1>2, <1>3
  <2> HIDE DEF T, zero, L
  <2>2. \E g \in [0 .. L -> T] : Solves(g, L, zero, step)
    BY <2>1, Recursion
  <2> QED BY <2>2 DEF T, zero, L
<1>5. ASSUME NEW n \in 1 .. L
      PROVE  g[n] = IF seq[n] \in those THEN Append(g[n - 1], seq[n]) ELSE g[n - 1]
  <2>1. n - 1 \in 0 .. L
    BY <1>1
  <2>2. g[n - 1] \in Seq(S)
    BY <2>1
  <2>3. g[n] = step[n][g[n - 1]]
    BY <1>4 DEF Solves
  <2> QED BY <2>2, <2>3 DEF step
<1> DEFINE G(f, n) == IF n = 0 THEN <<>>
                      ELSE IF seq[n] \in those THEN Append(f[n - 1], seq[n]) ELSE f[n - 1]
           F(f) == [n \in 0 .. Len(seq) |->
                       IF n = 0 THEN <<>>
                       ELSE IF seq[n] \in those THEN Append(f[n - 1], seq[n]) ELSE f[n - 1]]
           u == CHOOSE f : f = F(f)
<1>6. g = F(g)
  <2>1. \A k \in 0 .. L : g[k] = G(g, k)
    <3> HIDE DEF L
    <3>1. \A k \in 0 .. L : k = 0 \/ k \in 1 .. L
      BY <1>1
    <3>2. \A k \in 1 .. L : k # 0
      BY <1>1
    <3>3. g[0] = <<>>
      BY <1>4 DEF Solves
    <3> QED BY <1>5, <3>1, <3>2, <3>3
  <2> QED BY <2>1
<1>7. u = F(u)
  <2> HIDE DEF F
  <2> QED BY <1>6
<1>8. Among(seq, those) = u[L]
  BY DEF Among
<1> HIDE DEF u
<1>9. /\ u[0] = <<>>
      /\ \A k \in 1 .. L : u[k] = IF seq[k] \in those THEN Append(u[k - 1], seq[k]) ELSE u[k - 1]
  <2>1. \A k \in 0 .. L : u[k] = G(u, k)
    BY <1>7
  <2> HIDE DEF L
  <2>2. 0 \in 0 .. L /\ \A k \in 1 .. L : k # 0 /\ k \in 0 .. L
    BY <1>1
  <2> QED BY <2>1, <2>2
<1> DEFINE Good == {n \in Nat : n <= L => u[n] = g[n]}
<1>10. 0 \in Good
  BY <1>4, <1>9 DEF Solves
<1>11. ASSUME NEW n \in Nat, n \in Good
       PROVE  n + 1 \in Good
  <2> SUFFICES ASSUME n + 1 <= L PROVE u[n + 1] = g[n + 1]
    OBVIOUS
  <2>1. n + 1 \in 1 .. L /\ (n + 1) - 1 = n /\ u[n] = g[n]
    BY <1>1, <1>11
  <2> QED BY <1>5, <1>9, <2>1
<1> HIDE DEF Good
<1>12. Nat \subseteq Good
  BY <1>10, <1>11, Induction
<1>13. \A n \in 0 .. L : u[n] = g[n]
  BY <1>1, <1>12 DEF Good
<1>14. Among(seq, those) = g[L]
  BY <1>1, <1>8, <1>13
<1>15. Filters(g, seq, those)
  BY <1>4, <1>5 DEF Filters, Solves
<1> QED BY <1>14, <1>15

(* What a filter leaves of a sequence is one of the same elements.         *)
LEMMA AmongSeq ==
  ASSUME NEW S, NEW seq \in Seq(S), NEW those
  PROVE  Among(seq, those) \in Seq(S)
<1>1. Len(seq) \in Nat
  BY LenProperties
<1> QED BY <1>1, AmongUpTo

(* A sequence without one of its elements.                                 *)
LEMMA RemoveAtIs ==
  ASSUME NEW S, NEW s \in Seq(S), NEW i \in DOMAIN s
  PROVE  /\ RemoveAt(s, i) \in Seq(S) /\ Len(RemoveAt(s, i)) = Len(s) - 1
         /\ Len(s) \in Nat /\ DOMAIN RemoveAt(s, i) = 1 .. Len(s) - 1
         /\ \A j \in 1 .. Len(s) - 1 :
              RemoveAt(s, i)[j] = s[IF j < i THEN j ELSE j + 1]
<1>1. i \in 1 .. Len(s) /\ Len(s) \in Nat /\ DOMAIN s = 1 .. Len(s)
  BY LenProperties
<1>2. \A j \in 1 .. Len(s) : s[j] \in S
  BY ElementOfSeq
<1> DEFINE front == SubSeq(s, 1, i - 1)
           back == SubSeq(s, i + 1, Len(s))
<1>3. /\ front \in Seq(S) /\ Len(front) = i - 1
      /\ \A j \in 1 .. i - 1 : front[j] = s[j]
  <2>1. \A j \in 1 .. (i - 1) : s[j] \in S
    BY <1>1, <1>2
  <2> QED BY <1>1, <2>1, SubSeqProperties
<1>4. /\ back \in Seq(S) /\ Len(back) = Len(s) - i
      /\ \A j \in 1 .. Len(s) - i : back[j] = s[i + j]
  <2>1. \A j \in (i + 1) .. Len(s) : s[j] \in S
    BY <1>1, <1>2
  <2> QED BY <1>1, <2>1, SubSeqProperties
<1> HIDE DEF front, back
<1>5. /\ front \o back \in Seq(S) /\ Len(front \o back) = Len(s) - 1
      /\ \A j \in 1 .. Len(s) - 1 :
           (front \o back)[j] = s[IF j < i THEN j ELSE j + 1]
  <2>1. /\ front \o back \in Seq(S) /\ Len(front \o back) = Len(front) + Len(back)
        /\ \A j \in 1 .. Len(front) + Len(back) :
             (front \o back)[j] = IF j <= Len(front) THEN front[j] ELSE back[j - Len(front)]
    BY <1>3, <1>4, ConcatProperties
  <2>2. Len(front) + Len(back) = Len(s) - 1
    BY <1>1, <1>3, <1>4
  <2>3. ASSUME NEW j \in 1 .. Len(s) - 1
        PROVE  (front \o back)[j] = s[IF j < i THEN j ELSE j + 1]
    <3>1. (front \o back)[j] = IF j <= i - 1 THEN front[j] ELSE back[j - (i - 1)]
      BY <1>3, <2>1, <2>2
    <3>2. CASE j < i
      BY <1>1, <1>3, <3>1, <3>2
    <3>3. CASE ~(j < i)
      <4>1. j - (i - 1) \in 1 .. Len(s) - i /\ i + (j - (i - 1)) = j + 1
        BY <1>1, <3>3
      <4>2. back[j - (i - 1)] = s[j + 1]
        BY <1>4, <4>1
      <4> QED BY <1>1, <3>1, <3>3, <4>2
    <3> QED BY <3>2, <3>3
  <2> QED BY <2>1, <2>2, <2>3
<1>6. RemoveAt(s, i) = front \o back
  BY DEF RemoveAt, front, back
<1>7. DOMAIN RemoveAt(s, i) = 1 .. Len(s) - 1
  BY <1>5, <1>6, LenProperties
<1> QED BY <1>1, <1>5, <1>6, <1>7

(* Elements that are changed one by one.                                   *)
LEMMA ChangedSeq ==
  ASSUME NEW S, NEW s \in Seq(S), NEW t,
         t = [i \in DOMAIN s |-> t[i]], \A i \in DOMAIN s : t[i] \in S
  PROVE  t \in Seq(S) /\ Len(t) = Len(s) /\ DOMAIN t = DOMAIN s
<1>1. DOMAIN s = 1 .. Len(s) /\ Len(s) \in Nat
  BY LenProperties
<1> QED BY <1>1

----------------------------------------------------------------------------
(* The Settings tab.                                                       *)

(* A job under way is one of those there can be.                           *)
LEMMA JobTyped ==
  ASSUME jobs \in Seq(Jobs)
  PROVE  /\ Len(jobs) \in Nat /\ DOMAIN jobs = 1 .. Len(jobs)
         /\ \A i \in DOMAIN jobs : jobs[i] \in Jobs
BY ElementOfSeq, LenProperties

(* Jobs that go on as they are keep the button as it is.                   *)
LEMMA ButtonKept ==
  ASSUME SettingsInv, jobs' \in Seq(Jobs), Len(jobs') = Len(jobs), UNCHANGED applying,
         \A i \in DOMAIN jobs : jobs'[i].mine = jobs[i].mine
  PROVE  /\ Len(jobs') <= MaxJobs
         /\ applying' <=> \E i \in DOMAIN jobs' : jobs'[i].mine
         /\ \A i, j \in DOMAIN jobs' : jobs'[i].mine /\ jobs'[j].mine => i = j
<1>1. DOMAIN jobs' = DOMAIN jobs
  BY LenProperties DEF SettingsInv
<1> QED BY <1>1 DEF SettingsInv, SettingsTypeOK

(* Nothing is staged.                                                      *)
LEMMA NoEdits ==
  <<>> \in Staged /\ DOMAIN <<>> = {}
<1>1. \A X : <<>> \in [{} -> X]
  OBVIOUS
<1>2. {} \in SUBSET Keys
  OBVIOUS
<1> QED BY <1>1, <1>2 DEF Staged

(* The tab when the page is loaded.                                        *)
LEMMA SettingsInitInv ==
  ASSUME SettingsInit
  PROVE  SettingsInv
<1>1. edits \in Staged /\ DOMAIN edits = {}
  BY NoEdits DEF SettingsInit
<1>2. jobs \in Seq(Jobs) /\ Len(jobs) = 0 /\ DOMAIN jobs = {}
  BY EmptySeq DEF SettingsInit
<1>3. SettingsTypeOK
  <2>1. 0 <= MaxJobs
    BY SettingsAssumption
  <2> QED BY <1>1, <1>2, <2>1 DEF SettingsInit, SettingsTypeOK
<1> QED BY <1>1, <1>2, <1>3
        DEF SettingsInit, SettingsInv, ListShowsServer, AnswersCurrent

(* The user's steps.                                                       *)
LEMMA StageInv ==
  ASSUME SettingsInv, NEW k \in Keys,
         NEW v \in Values[k] \cup Typed[k] \cup {"true", "false"}, Stage(k, v)
  PROVE  SettingsInv'
<1> DEFINE Inputs == (UNION {Values[x] \cup Typed[x] : x \in Keys}) \cup {"true", "false"}
<1>1. v \in Inputs
  <2>1. CASE v \in {"true", "false"}
    BY <2>1
  <2>2. CASE v \in Values[k] \cup Typed[k]
    <3>1. v \in UNION {Values[x] \cup Typed[x] : x \in Keys}
      BY <2>2
    <3> QED BY <3>1
  <2> QED BY <2>1, <2>2
<1>2. PICK ks \in SUBSET Keys : edits \in [ks -> Inputs]
  BY DEF SettingsInv, Staged
<1> HIDE DEF Inputs
<1>3. edits' \in [ks \cup {k} -> Inputs] /\ ks \cup {k} \in SUBSET Keys
  BY <1>1, <1>2 DEF Stage
<1>4. edits' \in Staged
  BY <1>3 DEF Staged, Inputs
<1>5. DOMAIN edits' \subseteq Keys
  BY <1>3
<1> QED BY <1>4, <1>5
        DEF SettingsInv, SettingsTypeOK, ListShowsServer, AnswersCurrent, Stage

LEMMA DiscardInv ==
  ASSUME SettingsInv, Discard
  PROVE  SettingsInv'
BY NoEdits DEF SettingsInv, SettingsTypeOK, ListShowsServer, AnswersCurrent, Discard

LEMMA ApplyInv ==
  ASSUME SettingsInv, Apply
  PROVE  SettingsInv'
<1> DEFINE job == [todo |-> Dirty, want |-> Restrict(edits, Dirty),
                   applied |-> {}, failed |-> {}, scan |-> None,
                   over |-> FALSE, mine |-> TRUE, old |-> FALSE]
<1>1. Dirty \subseteq DOMAIN edits /\ Dirty \in SUBSET Keys
  BY DEF Dirty, SettingsInv, SettingsTypeOK
<1>2. Restrict(edits, Dirty) \in Staged
  <2> DEFINE Inputs == (UNION {Values[x] \cup Typed[x] : x \in Keys}) \cup {"true", "false"}
  <2>1. PICK ks \in SUBSET Keys : edits \in [ks -> Inputs]
    BY DEF SettingsInv, Staged
  <2> HIDE DEF Inputs
  <2>2. Restrict(edits, Dirty) \in [Dirty -> Inputs]
    BY <1>1, <2>1 DEF Restrict
  <2> QED BY <1>1, <2>2 DEF Staged, Inputs
<1>3. job \in Jobs
  BY <1>1, <1>2 DEF Jobs
<1>4. job.mine = TRUE /\ job.scan = None
  OBVIOUS
<1>5. jobs' = Append(jobs, job)
  BY DEF Apply
<1> HIDE DEF job
<1>6. jobs \in Seq(Jobs) /\ Len(jobs) \in Nat /\ DOMAIN jobs = 1 .. Len(jobs)
  BY JobTyped DEF SettingsInv
<1>7. /\ jobs' \in Seq(Jobs) /\ Len(jobs') = Len(jobs) + 1 /\ jobs' # <<>>
      /\ \A i \in 1 .. Len(jobs) : jobs'[i] = jobs[i]
      /\ jobs'[Len(jobs) + 1] = job
  BY <1>3, <1>5, <1>6, AppendProperties
<1>8. DOMAIN jobs' = 1 .. Len(jobs) + 1
  BY <1>7, LenProperties
<1>9. \A i \in DOMAIN jobs : ~jobs[i].mine
  BY DEF Apply, SettingsInv, SettingsTypeOK
<1>10. \A i \in DOMAIN jobs' : i \in DOMAIN jobs \/ i = Len(jobs) + 1
  BY <1>6, <1>8
<1>11. SettingsTypeOK'
  <2>1. Len(jobs') <= MaxJobs
    BY <1>6, <1>7, SettingsAssumption DEF Apply
  <2>2. applying' /\ \E i \in DOMAIN jobs' : jobs'[i].mine
    BY <1>4, <1>6, <1>7, <1>8 DEF Apply
  <2>3. \A i, j \in DOMAIN jobs' : jobs'[i].mine /\ jobs'[j].mine => i = j
    BY <1>6, <1>7, <1>9, <1>10
  <2> QED BY <2>1, <2>2, <2>3 DEF SettingsInv, SettingsTypeOK, Apply
<1>12. AnswersCurrent'
  BY <1>4, <1>6, <1>7, <1>10 DEF SettingsInv, AnswersCurrent, Apply
<1> QED BY <1>7, <1>11, <1>12 DEF SettingsInv, ListShowsServer, Apply

(* A value the server can hold, in the place of another.                   *)
LEMMA ContentsChange ==
  ASSUME NEW f \in Contents, NEW k \in Keys, NEW v \in Values[k]
  PROVE  [f EXCEPT ![k] = v] \in Contents
<1>1. v \in UNION {Values[x] : x \in Keys}
  OBVIOUS
<1> QED BY <1>1 DEF Contents

(* The steps of a job.                                                     *)
LEMMA OutdatedIs ==
  ASSUME jobs \in Seq(Jobs)
  PROVE  /\ Outdated(jobs) \in Seq(Jobs) /\ Len(Outdated(jobs)) = Len(jobs)
         /\ DOMAIN Outdated(jobs) = DOMAIN jobs
         /\ \A i \in DOMAIN jobs :
              /\ Outdated(jobs)[i] = [jobs[i] EXCEPT !.old = @ \/ jobs[i].scan # None]
              /\ Outdated(jobs)[i].mine = jobs[i].mine
              /\ Outdated(jobs)[i].scan = jobs[i].scan
              /\ jobs[i].scan # None => Outdated(jobs)[i].old
<1>1. Outdated(jobs) = [i \in DOMAIN jobs |-> Outdated(jobs)[i]]
  BY DEF Outdated
<1>2. ASSUME NEW i \in DOMAIN jobs
      PROVE  /\ Outdated(jobs)[i] = [jobs[i] EXCEPT !.old = @ \/ jobs[i].scan # None]
             /\ Outdated(jobs)[i] \in Jobs
             /\ Outdated(jobs)[i].mine = jobs[i].mine
             /\ Outdated(jobs)[i].scan = jobs[i].scan
             /\ jobs[i].scan # None => Outdated(jobs)[i].old
  <2>1. jobs[i] \in Jobs
    BY JobTyped
  <2>2. Outdated(jobs)[i] = [jobs[i] EXCEPT !.old = @ \/ jobs[i].scan # None]
    BY DEF Outdated
  <2> QED BY <2>1, <2>2 DEF Jobs
<1> QED BY <1>1, <1>2, ChangedSeq

(* A job of which some parts change.                                       *)
PartsChanged(js, i, todo, applied, failed) ==
  [js EXCEPT ![i].todo = todo, ![i].applied = applied, ![i].failed = failed]

PartsKept(js, new) ==
  /\ new \in Seq(Jobs) /\ Len(new) = Len(js) /\ DOMAIN new = DOMAIN js
  /\ \A j \in DOMAIN js : /\ new[j].mine = js[j].mine /\ new[j].old = js[j].old
                          /\ new[j].scan = js[j].scan

LEMMA PartsChange ==
  ASSUME NEW js \in Seq(Jobs), NEW i \in DOMAIN js,
         NEW todo \in SUBSET Keys, NEW applied \in SUBSET Keys, NEW failed \in SUBSET Keys
  PROVE  PartsKept(js, PartsChanged(js, i, todo, applied, failed))
<1> DEFINE new == PartsChanged(js, i, todo, applied, failed)
<1>1. \A j \in DOMAIN js : js[j] \in Jobs
  BY ElementOfSeq, LenProperties
<1>2. new[i] = [js[i] EXCEPT !.todo = todo, !.applied = applied, !.failed = failed]
  BY DEF PartsChanged
<1>3. \A j \in DOMAIN js \ {i} : new[j] = js[j]
  BY DEF PartsChanged
<1>4. new = [j \in DOMAIN js |-> new[j]]
  BY DEF PartsChanged
<1> HIDE DEF new
<1>5. /\ new[i] \in Jobs /\ new[i].mine = js[i].mine
      /\ new[i].old = js[i].old /\ new[i].scan = js[i].scan
  <2>1. js[i] \in Jobs
    BY <1>1
  <2> QED BY <1>2, <2>1 DEF Jobs
<1>6. \A j \in DOMAIN js : new[j] \in Jobs /\ new[j].mine = js[j].mine
                           /\ new[j].old = js[j].old /\ new[j].scan = js[j].scan
  BY <1>1, <1>3, <1>5
<1>7. new \in Seq(Jobs) /\ Len(new) = Len(js) /\ DOMAIN new = DOMAIN js
  BY <1>4, <1>6, ChangedSeq
<1> QED BY <1>6, <1>7 DEF new, PartsKept

LEMMA ExecuteInv ==
  ASSUME SettingsInv, NEW i \in DOMAIN jobs, Execute(i)
  PROVE  SettingsInv'
<1>1. PICK k \in jobs[i].todo, ok \in BOOLEAN :
        /\ \E v \in Values[k] : server' = [server EXCEPT ![k] = v]
        /\ jobs' = LET js == IF server' = server THEN jobs ELSE Outdated(jobs) IN
                   [js EXCEPT ![i].todo = @ \ {k},
                              ![i].applied = IF ok THEN @ \cup {k} ELSE @,
                              ![i].failed = IF ok THEN @ ELSE @ \cup {k}]
  BY DEF Execute
<1>2. jobs \in Seq(Jobs) /\ jobs[i] \in Jobs
  BY JobTyped DEF SettingsInv
<1>3. k \in Keys
  BY <1>2 DEF Jobs
<1>4. server' \in Contents
  <2>1. PICK v \in Values[k] : server' = [server EXCEPT ![k] = v]
    BY <1>1
  <2>2. server \in Contents
    BY DEF SettingsInv, SettingsTypeOK
  <2> QED BY <1>3, <2>1, <2>2, ContentsChange
<1>5. PICK js : js = IF server' = server THEN jobs ELSE Outdated(jobs)
  OBVIOUS
<1>6. /\ js \in Seq(Jobs) /\ Len(js) = Len(jobs) /\ DOMAIN js = DOMAIN jobs
      /\ js[i] \in Jobs
      /\ \A j \in DOMAIN jobs :
           /\ js[j].mine = jobs[j].mine /\ js[j].scan = jobs[j].scan
           /\ js[j].scan # None /\ ~js[j].old => js[j].scan = server'
  <2>1. CASE server' = server
    BY <1>2, <1>5, <2>1 DEF SettingsInv, AnswersCurrent
  <2>2. CASE server' # server
    <3>1. js = Outdated(jobs)
      BY <1>5, <2>2
    <3>2. js \in Seq(Jobs) /\ js[i] \in Jobs
      BY <1>2, <3>1, OutdatedIs, JobTyped, ElementOfSeq, LenProperties
    <3> QED BY <1>2, <3>1, <3>2, OutdatedIs
  <2> QED BY <2>1, <2>2
<1>7. PICK todo \in SUBSET Keys, applied \in SUBSET Keys, failed \in SUBSET Keys :
        jobs' = PartsChanged(js, i, todo, applied, failed)
  <2>1. /\ js[i].todo \ {k} \in SUBSET Keys
        /\ (IF ok THEN js[i].applied \cup {k} ELSE js[i].applied) \in SUBSET Keys
        /\ (IF ok THEN js[i].failed ELSE js[i].failed \cup {k}) \in SUBSET Keys
    BY <1>3, <1>6 DEF Jobs
  <2>2. jobs' = [js EXCEPT ![i].todo = js[i].todo \ {k},
                           ![i].applied = IF ok THEN js[i].applied \cup {k} ELSE js[i].applied,
                           ![i].failed = IF ok THEN js[i].failed ELSE js[i].failed \cup {k}]
    BY <1>1, <1>5, <1>6 DEF Jobs
  <2> QED BY <2>1, <2>2 DEF PartsChanged
<1>8. /\ jobs' \in Seq(Jobs) /\ Len(jobs') = Len(jobs) /\ DOMAIN jobs' = DOMAIN jobs
      /\ \A j \in DOMAIN jobs :
           /\ jobs'[j].mine = jobs[j].mine
           /\ jobs'[j].scan # None /\ ~jobs'[j].old => jobs'[j].scan = server'
  <2>1. i \in DOMAIN js
    BY <1>6
  <2>2. /\ jobs' \in Seq(Jobs) /\ Len(jobs') = Len(js) /\ DOMAIN jobs' = DOMAIN js
        /\ \A j \in DOMAIN js : /\ jobs'[j].mine = js[j].mine /\ jobs'[j].old = js[j].old
                                /\ jobs'[j].scan = js[j].scan
    <3>1. js \in Seq(Jobs)
      BY <1>6
    <3>2. PartsKept(js, PartsChanged(js, i, todo, applied, failed))
      BY <2>1, <3>1, PartsChange
    <3> QED BY <1>7, <3>2 DEF PartsKept
  <2> QED BY <1>6, <2>2
<1>9. UNCHANGED <<print, report, edits, errors, applying, stages, outside, stale>>
  BY DEF Execute
<1>10. SettingsTypeOK'
  BY <1>4, <1>8, <1>9, ButtonKept DEF SettingsInv, SettingsTypeOK
<1>11. AnswersCurrent'
  BY <1>8 DEF AnswersCurrent
<1>12. jobs' # <<>>
  BY <1>8
<1> QED BY <1>8, <1>9, <1>10, <1>11, <1>12 DEF SettingsInv, ListShowsServer

LEMMA RereadInv ==
  ASSUME SettingsInv, NEW i \in DOMAIN jobs, Reread(i)
  PROVE  SettingsInv'
<1>1. PICK answer \in Contents \cup {None} :
        /\ answer # None => answer = server
        /\ jobs' = [jobs EXCEPT ![i].over = TRUE, ![i].scan = answer]
  BY DEF Reread, SettingsInv, SettingsTypeOK
<1>2. jobs \in Seq(Jobs) /\ \A j \in DOMAIN jobs : jobs[j] \in Jobs
  BY JobTyped DEF SettingsInv
<1>3. jobs'[i] = [jobs[i] EXCEPT !.over = TRUE, !.scan = answer]
  BY <1>1
<1>4. \A j \in DOMAIN jobs \ {i} : jobs'[j] = jobs[j]
  BY <1>1
<1>5. jobs'[i] \in Jobs /\ jobs'[i].mine = jobs[i].mine /\ jobs'[i].scan = answer
  <2>1. jobs[i] \in Jobs
    BY <1>2
  <2> QED BY <1>3, <2>1 DEF Jobs
<1>6. jobs' \in Seq(Jobs) /\ Len(jobs') = Len(jobs) /\ DOMAIN jobs' = DOMAIN jobs
  <2>1. jobs' = [j \in DOMAIN jobs |-> jobs'[j]]
    BY <1>1
  <2>2. \A j \in DOMAIN jobs : jobs'[j] \in Jobs
    BY <1>2, <1>4, <1>5
  <2> QED BY <1>2, <2>1, <2>2, ChangedSeq
<1>7. UNCHANGED <<server, print, report, edits, errors, applying, stages, outside, stale>>
  BY DEF Reread
<1>8. SettingsTypeOK'
  <2>1. \A j \in DOMAIN jobs : jobs'[j].mine = jobs[j].mine
    BY <1>4, <1>5
  <2> QED BY <1>6, <1>7, <2>1, ButtonKept DEF SettingsInv, SettingsTypeOK
<1>9. AnswersCurrent'
  BY <1>1, <1>4, <1>5, <1>6, <1>7 DEF SettingsInv, AnswersCurrent
<1>10. jobs' # <<>>
  BY <1>6
<1> QED BY <1>6, <1>7, <1>8, <1>9, <1>10 DEF SettingsInv, ListShowsServer

(* An apply ends: the answer that was current is the server, and the edits *)
(* and the button follow only in the panel that began it.                  *)
LEMMA FinishInv ==
  ASSUME SettingsInv, NEW i \in DOMAIN jobs, Finish(i)
  PROVE  SettingsInv'
<1>1. jobs \in Seq(Jobs) /\ jobs[i] \in Jobs
  BY JobTyped DEF SettingsInv
<1>2. DOMAIN jobs = 1 .. Len(jobs)
  BY <1>1, JobTyped
<1>3. /\ jobs' \in Seq(Jobs) /\ Len(jobs') = Len(jobs) - 1 /\ Len(jobs) \in Nat
      /\ DOMAIN jobs' = 1 .. Len(jobs) - 1
      /\ \A j \in 1 .. Len(jobs) - 1 : jobs'[j] = jobs[IF j < i THEN j ELSE j + 1]
  BY <1>1, RemoveAtIs DEF Finish
<1>4. \A j \in DOMAIN jobs' :
        \E k \in DOMAIN jobs \ {i} : jobs'[j] = jobs[k] /\ k = IF j < i THEN j ELSE j + 1
  BY <1>2, <1>3
<1>5. \A k \in DOMAIN jobs \ {i} : \E j \in DOMAIN jobs' : jobs'[j] = jobs[k]
  <2> SUFFICES ASSUME NEW k \in DOMAIN jobs \ {i}
               PROVE  \E j \in DOMAIN jobs' : jobs'[j] = jobs[k]
    OBVIOUS
  <2>1. CASE k < i
    <3>1. k \in 1 .. Len(jobs) - 1
      BY <1>2, <1>3, <2>1
    <3> QED BY <1>3, <2>1, <3>1
  <2>2. CASE k > i
    <3>1. k - 1 \in 1 .. Len(jobs) - 1 /\ ~(k - 1 < i) /\ (k - 1) + 1 = k
      BY <1>2, <1>3, <2>2
    <3>2. jobs'[k - 1] = jobs[k]
      BY <1>3, <3>1
    <3> QED BY <1>3, <3>1, <3>2
  <2> QED BY <1>2, <2>1, <2>2
<1>6. report' \in Contents
  BY <1>1 DEF Finish, TakeReport, SettingsInv, SettingsTypeOK, Jobs
<1>7. /\ edits' \in Staged /\ DOMAIN edits' \subseteq Keys
      /\ errors' \subseteq Keys
  <2>1. CASE ~jobs[i].mine
    BY <2>1 DEF Finish, KeepEdits, SettingsInv, SettingsTypeOK
  <2>2. CASE jobs[i].mine
    <3>1. errors' \subseteq Keys
      BY <1>1, <2>2 DEF Finish, KeepEdits, Jobs
    <3>2. edits' = Restrict(edits, DOMAIN edits \ jobs[i].applied)
      BY <2>2 DEF Finish, KeepEdits
    <3> DEFINE Inputs == (UNION {Values[x] \cup Typed[x] : x \in Keys}) \cup {"true", "false"}
    <3>3. PICK ks \in SUBSET Keys : edits \in [ks -> Inputs]
      BY DEF SettingsInv, Staged
    <3> HIDE DEF Inputs
    <3>4. edits' \in [ks \ jobs[i].applied -> Inputs] /\ ks \ jobs[i].applied \in SUBSET Keys
      BY <3>2, <3>3 DEF Restrict
    <3>5. edits' \in Staged
      BY <3>4 DEF Staged, Inputs
    <3> QED BY <3>1, <3>4, <3>5
  <2> QED BY <2>1, <2>2
<1>8. applying' \in BOOLEAN /\ stale' \in BOOLEAN
  <2>1. applying \in BOOLEAN
    BY DEF SettingsInv, SettingsTypeOK
  <2> QED BY <2>1 DEF Finish, KeepEdits
<1>9. applying' <=> \E j \in DOMAIN jobs' : jobs'[j].mine
  <2>1. applying <=> \E k \in DOMAIN jobs : jobs[k].mine
    BY DEF SettingsInv, SettingsTypeOK
  <2>2. CASE ~jobs[i].mine
    <3>1. applying' = applying
      BY <2>2 DEF Finish, KeepEdits
    <3> QED BY <1>4, <1>5, <2>1, <2>2, <3>1
  <2>3. CASE jobs[i].mine
    <3>1. ~applying'
      BY <2>3 DEF Finish, KeepEdits
    <3>2. \A k \in DOMAIN jobs \ {i} : ~jobs[k].mine
      BY <2>3 DEF SettingsInv, SettingsTypeOK
    <3> QED BY <1>4, <3>1, <3>2
  <2> QED BY <2>2, <2>3
<1>10. \A j, k \in DOMAIN jobs' : jobs'[j].mine /\ jobs'[k].mine => j = k
  <2> SUFFICES ASSUME NEW j \in DOMAIN jobs', NEW k \in DOMAIN jobs',
                      jobs'[j].mine, jobs'[k].mine
               PROVE  j = k
    OBVIOUS
  <2>1. PICK j0 \in DOMAIN jobs \ {i} : jobs'[j] = jobs[j0] /\ j0 = IF j < i THEN j ELSE j + 1
    BY <1>4
  <2>2. PICK k0 \in DOMAIN jobs \ {i} : jobs'[k] = jobs[k0] /\ k0 = IF k < i THEN k ELSE k + 1
    BY <1>4
  <2>3. j0 = k0
    BY <2>1, <2>2 DEF SettingsInv, SettingsTypeOK
  <2>4. j \in Nat /\ k \in Nat /\ i \in Nat
    BY <1>2, <1>3
  <2> QED BY <2>1, <2>2, <2>3, <2>4
<1>11. SettingsTypeOK'
  <2>1. Len(jobs') <= MaxJobs
    <3>1. Len(jobs) <= MaxJobs /\ MaxJobs \in Nat
      BY SettingsAssumption DEF SettingsInv, SettingsTypeOK
    <3> QED BY <1>3, <3>1
  <2>2. server' \in Contents
    BY DEF Finish, SettingsInv, SettingsTypeOK
  <2>3. print' \in Fingerprints
    BY DEF Finish, SettingsInv, SettingsTypeOK
  <2> QED BY <1>6, <1>7, <1>8, <1>9, <1>10, <2>1, <2>2, <2>3 DEF SettingsTypeOK
<1>12. AnswersCurrent'
  <2>1. server' = server
    BY DEF Finish
  <2> QED BY <1>4, <2>1 DEF SettingsInv, AnswersCurrent
<1>13. ListShowsServer'
  BY DEF Finish, TakeReport, ListShowsServer, SettingsInv, AnswersCurrent
<1> QED BY <1>3, <1>7, <1>11, <1>12, <1>13 DEF SettingsInv, Finish

(* The panel is left, the server changes, a report arrives.                *)
LEMMA LeaveSettingsInv ==
  ASSUME SettingsInv, LeaveSettings
  PROVE  SettingsInv'
<1>1. jobs \in Seq(Jobs) /\ \A j \in DOMAIN jobs : jobs[j] \in Jobs
  BY JobTyped DEF SettingsInv
<1>2. \A j \in DOMAIN jobs : jobs'[j] = [jobs[j] EXCEPT !.mine = FALSE]
  BY DEF LeaveSettings
<1>3. \A j \in DOMAIN jobs : /\ jobs'[j] \in Jobs /\ ~jobs'[j].mine
                             /\ jobs'[j].scan = jobs[j].scan /\ jobs'[j].old = jobs[j].old
  <2> SUFFICES ASSUME NEW j \in DOMAIN jobs
               PROVE  /\ jobs'[j] \in Jobs /\ ~jobs'[j].mine
                      /\ jobs'[j].scan = jobs[j].scan /\ jobs'[j].old = jobs[j].old
    OBVIOUS
  <2>1. jobs[j] \in Jobs /\ jobs'[j] = [jobs[j] EXCEPT !.mine = FALSE]
    BY <1>1, <1>2
  <2> QED BY <2>1 DEF Jobs
<1>4. jobs' \in Seq(Jobs) /\ Len(jobs') = Len(jobs) /\ DOMAIN jobs' = DOMAIN jobs
  <2>1. jobs' = [j \in DOMAIN jobs |-> jobs'[j]]
    BY DEF LeaveSettings
  <2> QED BY <1>1, <1>3, <2>1, ChangedSeq
<1>5. SettingsTypeOK'
  BY <1>3, <1>4, NoEdits DEF SettingsInv, SettingsTypeOK, LeaveSettings
<1>6. AnswersCurrent'
  BY <1>3, <1>4 DEF SettingsInv, AnswersCurrent, LeaveSettings
<1>7. ListShowsServer'
  <2>1. jobs' = <<>> => jobs = <<>>
    BY <1>1, <1>4, EmptySeq, LenProperties
  <2> QED BY <2>1 DEF SettingsInv, ListShowsServer, LeaveSettings
<1> QED BY <1>4, <1>5, <1>6, <1>7, NoEdits DEF SettingsInv, LeaveSettings

LEMMA ChangeElsewhereInv ==
  ASSUME SettingsInv, ChangeElsewhere
  PROVE  SettingsInv'
<1>1. server' \in Contents
  <2>1. PICK k \in Keys : \E v \in Values[k] : server' = [server EXCEPT ![k] = v]
    BY DEF ChangeElsewhere
  <2>2. PICK v \in Values[k] : server' = [server EXCEPT ![k] = v]
    BY <2>1
  <2>3. server \in Contents
    BY DEF SettingsInv, SettingsTypeOK
  <2> QED BY <2>2, <2>3, ContentsChange
<1>2. jobs \in Seq(Jobs) /\ jobs' = Outdated(jobs)
  BY DEF SettingsInv, ChangeElsewhere
<1>3. /\ jobs' \in Seq(Jobs) /\ Len(jobs') = Len(jobs) /\ DOMAIN jobs' = DOMAIN jobs
      /\ \A j \in DOMAIN jobs : /\ jobs'[j].mine = jobs[j].mine
                                /\ jobs'[j].scan # None => jobs'[j].old
  BY <1>2, OutdatedIs
<1>4. UNCHANGED <<print, report, edits, errors, applying, stages>> /\ stale' = TRUE
      /\ outside' = outside + 1
  BY DEF ChangeElsewhere
<1>5. SettingsTypeOK'
  BY <1>1, <1>3, <1>4, ButtonKept DEF SettingsInv, SettingsTypeOK
<1>6. AnswersCurrent' /\ ListShowsServer'
  BY <1>3, <1>4 DEF AnswersCurrent, ListShowsServer
<1> QED BY <1>3, <1>4, <1>5, <1>6 DEF SettingsInv

LEMMA RescannedInv ==
  ASSUME SettingsInv, Rescanned
  PROVE  SettingsInv'
BY DEF SettingsInv, SettingsTypeOK, ListShowsServer, AnswersCurrent, Rescanned

LEMMA SettingsSame ==
  ASSUME SettingsInv, UNCHANGED settingsVars
  PROVE  SettingsInv'
BY DEF SettingsInv, SettingsTypeOK, ListShowsServer, AnswersCurrent, settingsVars

LEMMA SettingsUserInv ==
  ASSUME SettingsInv, SettingsUser
  PROVE  SettingsInv'
<1>1. CASE \E k \in Keys : \E v \in Values[k] \cup Typed[k] \cup {"true", "false"} : Stage(k, v)
  BY <1>1, StageInv
<1>2. CASE Discard
  BY <1>2, DiscardInv
<1>3. CASE Apply
  BY <1>3, ApplyInv
<1> QED BY <1>1, <1>2, <1>3 DEF SettingsUser

LEMMA SettingsRestInv ==
  ASSUME SettingsInv, SettingsRest
  PROVE  SettingsInv'
<1>1. CASE ChangeElsewhere
  BY <1>1, ChangeElsewhereInv
<1>2. CASE Rescanned
  BY <1>2, RescannedInv
<1>3. ASSUME NEW i \in DOMAIN jobs, Execute(i) \/ Reread(i) \/ Finish(i)
      PROVE  SettingsInv'
  BY <1>3, ExecuteInv, RereadInv, FinishInv
<1> QED BY <1>1, <1>2, <1>3 DEF SettingsRest

----------------------------------------------------------------------------
(* The prompt.                                                             *)

(* A command that is run leaves a history of texts.                        *)
LEMMA RanSeq ==
  ASSUME history \in Seq(Texts), NEW cmd \in Texts
  PROVE  Ran(cmd) \in Seq(Texts)
<1>1. Among(history, Texts \ {cmd}) \in Seq(Texts)
  BY AmongSeq
<1>2. <<cmd>> \in Seq(Texts)
  OBVIOUS
<1> QED BY <1>1, <1>2, ConcatProperties DEF Ran

(* The prompt's own state, and the history.                                *)
PromptInv == PromptTypeOK /\ DraftKept

LEMMA PromptInitInv ==
  ASSUME PromptInit
  PROVE  PromptInv
BY PromptAssumption, EmptySeq DEF PromptInit, PromptInv, PromptTypeOK, DraftKept

LEMMA EntryIs ==
  ASSUME history \in Seq(Texts), NEW i
  PROVE  Entry(i) \in Texts \cup {Undefined}
BY ElementOfSeq, LenProperties DEF Entry

LEMMA RunCommandInv ==
  ASSUME PromptInv, NEW cmd \in Texts, RunCommand(cmd), awaited' \in Nat
  PROVE  PromptInv'
BY RanSeq DEF PromptInv, PromptTypeOK, DraftKept, RunCommand

LEMMA PromptUserInv ==
  ASSUME PromptInv, PromptUser, UNCHANGED awaited
  PROVE  PromptInv'
<1> USE DEF PromptInv, PromptTypeOK
<1>1. CASE \E line \in Texts : Type(line)
  BY <1>1 DEF Type, Fresh, DraftKept
<1>2. CASE \E line \in Texts : RunMacro(line)
  BY <1>2, RunCommandInv DEF RunMacro
<1>3. CASE Submit
  <2>1. Trimmed[value] \in Texts
    BY <1>3, PromptAssumption DEF Submit, AtPrompt, Crashed
  <2>2. Ran(Trimmed[value]) \in Seq(Texts)
    BY <2>1, RanSeq
  <2> QED BY <1>3, <2>2, PromptAssumption DEF Submit, Fresh, DraftKept
<1>4. CASE Up
  <2>1. Len(history) \in Nat /\ Len(history) > 0
    BY <1>4, EmptySeq DEF Up
  <2>2. index' \in Int /\ index' >= 0
    BY <1>4, <2>1 DEF Up
  <2>3. value' \in Texts \cup {Undefined}
    BY <1>4, EntryIs DEF Up
  <2>4. draft' \in Texts /\ draft' = typed
    BY <1>4 DEF Up, AtPrompt, Crashed, DraftKept
  <2> QED BY <1>4, <2>2, <2>3, <2>4 DEF Up, DraftKept
<1>5. CASE Down
  <2>1. index' \in Int /\ index' >= -1
    BY <1>5 DEF Down
  <2>2. value' \in Texts \cup {Undefined}
    BY <1>5, EntryIs DEF Down
  <2> QED BY <1>5, <2>1, <2>2 DEF Down, DraftKept
<1>6. CASE Complete
  <2>1. Completed[value] \in Texts
    BY <1>6, PromptAssumption DEF Complete, AtPrompt, Crashed
  <2> QED BY <1>6, <2>1 DEF Complete, DraftKept
<1> QED BY <1>1, <1>2, <1>3, <1>4, <1>5, <1>6 DEF PromptUser

LEMMA HistoryArrivesInv ==
  ASSUME PromptInv, HistoryArrives
  PROVE  PromptInv'
<1>1. history' \in Seq(Texts)
  BY PromptAssumption, EmptySeq DEF HistoryArrives
<1>2. awaited' \in Nat
  BY DEF HistoryArrives, PromptInv, PromptTypeOK
<1> QED BY <1>1, <1>2 DEF HistoryArrives, PromptInv, PromptTypeOK, DraftKept

LEMMA PromptSame ==
  ASSUME PromptInv, UNCHANGED promptVars, awaited' \in Nat
  PROVE  PromptInv'
BY DEF PromptInv, PromptTypeOK, DraftKept, promptVars

----------------------------------------------------------------------------
(* The palette.                                                            *)

(* What there is to find.                                                  *)
Entries == {"templates", "settings", "commands"} \cup Texts

LEMMA MatchesSeq ==
  ASSUME history \in Seq(Texts)
  PROVE  /\ Matches \in Seq(Entries) /\ Len(Matches) \in Nat
         /\ Matches # <<>> => Len(Matches) > 0
         /\ \A i \in DOMAIN Matches : Matches[i] \in Entries
<1>1. history \in Seq(Entries)
  BY SeqMonotonic DEF Entries
<1>2. <<"templates">> \in Seq(Entries) /\ <<"settings", "commands">> \in Seq(Entries)
  BY DEF Entries
<1>3. Commands \in Seq(Entries)
  <2>1. <<"settings", "commands">> \o history \in Seq(Entries)
    BY <1>1, <1>2, ConcatProperties
  <2>2. <<>> \in Seq(Entries)
    BY EmptySeq
  <2> QED BY <1>2, <2>1, <2>2, ConcatProperties DEF Commands
<1>4. Matches \in Seq(Entries)
  BY <1>3, AmongSeq DEF Matches
<1> HIDE DEF Matches
<1>5. Len(Matches) \in Nat /\ DOMAIN Matches = 1 .. Len(Matches)
  BY <1>4, LenProperties
<1>6. Matches # <<>> => Len(Matches) > 0
  BY <1>4, EmptySeq
<1>7. \A i \in DOMAIN Matches : Matches[i] \in Entries
  BY <1>4, <1>5, ElementOfSeq
<1> QED BY <1>4, <1>5, <1>6, <1>7

(* The palette's state.                                                    *)
PaletteInv ==
  /\ open \in BOOLEAN /\ query \in Queries /\ active \in Int /\ active >= -1
  /\ (moved => open) /\ HighlightExists

LEMMA PaletteInitInv ==
  ASSUME PaletteInit
  PROVE  PaletteInv
<1>1. query \in Queries /\ active \in Int /\ active >= -1
  <2>1. query \in Queries
    BY PaletteAssumption, Zenon DEF PaletteInit
  <2>2. active = 0
    BY Zenon DEF PaletteInit
  <2> QED BY <2>1, <2>2
<1>2. open = FALSE /\ moved = FALSE
  BY DEF PaletteInit
<1>3. open \in BOOLEAN /\ (moved => open) /\ HighlightExists
  BY <1>2 DEF HighlightExists
<1> QED BY <1>1, <1>3 DEF PaletteInv

(* Behind a closed palette anything may change.                            *)
LEMMA PaletteClosed ==
  ASSUME ClosePalette
  PROVE  PaletteInv'
<1>1. query' \in Queries /\ active' \in Int /\ active' >= -1
  <2>1. query' \in Queries
    BY PaletteAssumption, Zenon DEF ClosePalette
  <2>2. active' = 0
    BY Zenon DEF ClosePalette
  <2> QED BY <2>1, <2>2
<1>2. open' = FALSE /\ moved' = FALSE
  BY DEF ClosePalette
<1>3. open' \in BOOLEAN /\ (moved' => open') /\ HighlightExists'
  BY <1>2 DEF HighlightExists
<1> QED BY <1>1, <1>3 DEF PaletteInv

LEMMA PaletteStaysClosed ==
  ASSUME PaletteInv, ~open, UNCHANGED paletteVars
  PROVE  PaletteInv'
<1>1. open' = open /\ query' = query /\ active' = active /\ moved' = moved
  BY DEF paletteVars
<1>2. HighlightExists'
  BY <1>1 DEF HighlightExists
<1> QED BY <1>1, <1>2 DEF PaletteInv

(* The palette's keys and pointer change nothing it shows but the query.   *)
LEMMA PaletteKeysInv ==
  ASSUME PaletteInv, history \in Seq(Texts), UNCHANGED <<history, view>>,
         \/ OpenPalette \/ (open /\ ClosePalette) \/ \E q \in Queries : Search(q)
         \/ HighlightNext \/ HighlightPrevious
         \/ \E i \in 0 .. Len(Commands) : Hover(i)
  PROVE  PaletteInv'
<1>1. Len(Matches) \in Nat
  BY MatchesSeq
<1>2. Len(Matches') \in Nat /\ (Matches' # <<>> => Len(Matches') > 0)
  <2>1. PICK h \in Seq(Texts) : h = history
    OBVIOUS
  <2> QED BY MatchesSeq, <2>1
<1>3. CASE OpenPalette
  <2>1. query' \in Queries /\ active' = 0 /\ active' >= -1
    <3>1. query' \in Queries
      BY <1>3, PaletteAssumption, Zenon DEF OpenPalette
    <3>2. active' = 0
      BY <1>3, Zenon DEF OpenPalette
    <3> QED BY <3>1, <3>2
  <2>2. open' = TRUE /\ moved' = FALSE
    BY <1>3 DEF OpenPalette
  <2>3. open' \in BOOLEAN /\ (moved' => open')
    BY <2>2
  <2>4. HighlightExists'
    BY <1>2, <2>1 DEF HighlightExists
  <2> QED BY <2>1, <2>3, <2>4 DEF PaletteInv
<1>4. CASE open /\ ClosePalette
  BY <1>4, PaletteClosed
<1>5. CASE \E q \in Queries : Search(q)
  BY <1>2, <1>5 DEF Search, PaletteInv, HighlightExists
<1>6. ASSUME UNCHANGED query PROVE Matches' = Matches
  BY <1>6 DEF Matches, Commands
<1>7. CASE HighlightNext
  BY <1>1, <1>6, <1>7 DEF HighlightNext, PaletteInv, HighlightExists
<1>8. CASE HighlightPrevious
  BY <1>1, <1>6, <1>8 DEF HighlightPrevious, PaletteInv, HighlightExists
<1>9. CASE \E i \in 0 .. Len(Commands) : Hover(i)
  BY <1>1, <1>6, <1>9 DEF Hover, PaletteInv, HighlightExists
<1> QED BY <1>3, <1>4, <1>5, <1>7, <1>8, <1>9

(* Commands that come and go are noticed.                                  *)
LEMMA CommandsMoveInv ==
  ASSUME PaletteInv, CommandsMove
  PROVE  PaletteInv'
<1>1. open' /\ ~moved' => Matches' = Matches
  BY DEF CommandsMove, Matches
<1> QED BY <1>1 DEF CommandsMove, PaletteInv, HighlightExists

----------------------------------------------------------------------------
(* The panels together.                                                    *)

(* The first of the catalogue's games is there.                            *)
LEMMA FirstGame ==
  1 \in DOMAIN Games
BY DEF Games

(* PanelsInv, sorted by the component whose steps can disturb it.          *)
LEMMA PanelsInvParts ==
  PanelsInv <=> /\ ScreenTypeOK /\ SettingsInv /\ PromptInv /\ PaletteInv
                /\ game \in DOMAIN Games
BY DEF PanelsInv, TypeOK, SettingsInv, PromptInv, PaletteInv

LEMMA PanelsInvNext ==
  ASSUME ScreenTypeOK', SettingsInv', PromptInv', PaletteInv', (game \in DOMAIN Games)'
  PROVE  PanelsInv'
BY DEF PanelsInv, TypeOK, SettingsInv, PromptInv, PaletteInv

LEMMA PanelsInitInv ==
  ASSUME PanelsInit
  PROVE  PanelsInv
<1>1. ScreenTypeOK /\ game \in DOMAIN Games
  BY FirstGame DEF PanelsInit, ScreenTypeOK, Tabs
<1> QED BY <1>1, PanelsInvParts, SettingsInitInv, PromptInitInv, PaletteInitInv DEF PanelsInit

(* Going to another panel.                                                 *)
LEMMA GoInv ==
  ASSUME PanelsInv, NEW v \in {"server", "templates", "nothing"}, NEW t \in Tabs,
         NEW line \in Texts \cup {Undefined}, Go(v, t, line), awaited' \in Nat
  PROVE  ScreenTypeOK' /\ SettingsInv' /\ PromptInv' /\ game' \in DOMAIN Games
<1> USE PanelsInvParts
<1>1. ScreenTypeOK'
  BY DEF Go, ScreenTypeOK
<1>2. SettingsInv'
  BY LeaveSettingsInv, SettingsSame DEF Go
<1>3. PromptInv'
  <2>1. CASE MountPrompt(line)
    BY <2>1, PromptAssumption DEF MountPrompt, Fresh, PromptInv, PromptTypeOK, DraftKept
  <2>2. CASE UnmountPrompt
    BY <2>2, PromptAssumption DEF UnmountPrompt, Fresh, PromptInv, PromptTypeOK, DraftKept
  <2>3. CASE UNCHANGED promptVars
    BY <2>3, PromptSame
  <2> QED BY <2>1, <2>2, <2>3 DEF Go
<1>4. game' \in DOMAIN Games
  BY FirstGame DEF Go
<1> QED BY <1>1, <1>2, <1>3, <1>4

(* A command that is run from somewhere else than the prompt.              *)
LEMMA RunElsewhereInv ==
  ASSUME PanelsInv, NEW cmd \in Texts, RunCommand(cmd), awaited' \in Nat,
         UNCHANGED <<screenVars, settingsVars, game>>
  PROVE  ScreenTypeOK' /\ SettingsInv' /\ PromptInv' /\ game' \in DOMAIN Games
<1>1. ScreenTypeOK'
  BY PanelsInvParts DEF ScreenTypeOK, screenVars
<1>2. SettingsInv' /\ PromptInv'
  BY PanelsInvParts, SettingsSame, RunCommandInv
<1> QED BY <1>1, <1>2, PanelsInvParts

LEMMA AtPanelsInv ==
  ASSUME PanelsInv, AtPanels
  PROVE  PanelsInv'
<1> USE PanelsInvParts
<1>1. PaletteInv'
  BY PaletteStaysClosed DEF AtPanels
<1>2. /\ awaited \in Nat /\ prefill \in Texts \cup {Undefined}
      /\ view \in {"server", "templates", "nothing"} /\ tab \in Tabs
  BY DEF PromptInv, PromptTypeOK, ScreenTypeOK
<1> DEFINE Rest == ScreenTypeOK' /\ SettingsInv' /\ PromptInv' /\ game' \in DOMAIN Games
<1> SUFFICES Rest
  BY <1>1, PanelsInvNext
<1>3. "server" \in {"server", "templates", "nothing"} /\ "console" \in Tabs
      /\ "templates" \in {"server", "templates", "nothing"}
  BY DEF Tabs
<1>4. CASE SelectOther
  <2>1. awaited' \in Nat
    BY <1>2, <1>4 DEF SelectOther
  <2> QED BY <1>2, <1>3, <1>4, <2>1, GoInv DEF SelectOther
<1>5. CASE UNCHANGED awaited /\ SettingsUser /\ UNCHANGED <<screenVars, promptVars, game>>
  <2>1. ScreenTypeOK'
    BY <1>5 DEF ScreenTypeOK, screenVars
  <2> QED BY <1>2, <1>5, <2>1, SettingsUserInv, PromptSame
<1>6. CASE UNCHANGED awaited /\ PromptUser /\ UNCHANGED <<screenVars, settingsVars, game>>
  <2>1. ScreenTypeOK'
    BY <1>6 DEF ScreenTypeOK, screenVars
  <2> QED BY <1>6, <2>1, PromptUserInv, SettingsSame
<1>7. CASE UNCHANGED awaited /\ \E t \in Tabs \ {tab} : view = "server" /\ ChooseTab(t)
  BY <1>2, <1>7, GoInv DEF ChooseTab
<1>8. CASE UNCHANGED awaited /\ view # "templates" /\ OpenTemplates
  BY <1>2, <1>3, <1>8, GoInv DEF OpenTemplates
<1>9. CASE UNCHANGED awaited /\ BackToServer
  BY <1>2, <1>3, <1>9, GoInv DEF BackToServer
<1>10. ASSUME UNCHANGED awaited, NEW cmd \in Catalogue, RunListed(cmd)
       PROVE  Rest
  <2>1. CASE cmd \in DOMAIN Prefilled
    <3>1. Prefilled[cmd] \in Texts
      BY <2>1, PanelsAssumption DEF Range
    <3> QED BY <1>2, <1>3, <1>10, <2>1, <3>1, GoInv DEF RunListed
  <2>2. CASE cmd \notin DOMAIN Prefilled
    <3>1. cmd \in Texts
      BY <2>2, PanelsAssumption
    <3> QED BY <1>2, <1>10, <2>2, <3>1, RunElsewhereInv DEF RunListed
  <2> QED BY <2>1, <2>2
<1>11. ASSUME UNCHANGED awaited, NEW i \in DOMAIN Games \ {game}, ChooseGame(i)
       PROVE  Rest
  <2>1. ScreenTypeOK' /\ game' \in DOMAIN Games
    BY <1>11 DEF ChooseGame, ScreenTypeOK, screenVars
  <2>2. UNCHANGED settingsVars /\ UNCHANGED promptVars
    BY <1>11 DEF ChooseGame, panelVars
  <2> QED BY <1>2, <1>11, <2>1, <2>2, SettingsSame, PromptSame
<1> QED BY <1>4, <1>5, <1>6, <1>7, <1>8, <1>9, <1>10, <1>11 DEF AtPanels

(* What the palette runs is a command or a text of the history.            *)
LEMMA ChosenIs ==
  ASSUME PanelsInv, CanChoose
  PROVE  Chosen = "templates" \/ Chosen \in Tabs \/ Chosen \in Texts
<1>1. Chosen \in Entries
  BY PanelsInvParts, MatchesSeq DEF CanChoose, Chosen, PromptInv, PromptTypeOK
<1> QED BY <1>1 DEF Entries, Tabs

LEMMA AtPaletteInv ==
  ASSUME PanelsInv, AtPalette
  PROVE  PanelsInv'
<1> USE PanelsInvParts
<1>1. /\ awaited' \in Nat /\ prefill \in Texts \cup {Undefined} /\ history \in Seq(Texts)
      /\ view \in {"server", "templates", "nothing"} /\ tab \in Tabs
  BY DEF PromptInv, PromptTypeOK, ScreenTypeOK, AtPalette
<1>2. CASE /\ UNCHANGED <<screenVars, panelVars, game>>
           /\ \/ OpenPalette
              \/ open /\ ClosePalette
              \/ \E q \in Queries : Search(q)
              \/ HighlightNext \/ HighlightPrevious
              \/ \E i \in 0 .. Len(Commands) : Hover(i)
  <2>1. UNCHANGED settingsVars /\ UNCHANGED promptVars /\ UNCHANGED game
        /\ UNCHANGED <<view, tab, connected>>
    BY <1>2 DEF panelVars, screenVars
  <2>2. UNCHANGED <<history, view>>
    BY <2>1 DEF promptVars
  <2>3. PaletteInv'
    BY <1>1, <1>2, <2>2, PaletteKeysInv
  <2>4. ScreenTypeOK'
    BY <2>1 DEF ScreenTypeOK
  <2> QED BY <1>1, <2>1, <2>3, <2>4, SettingsSame, PromptSame, PanelsInvNext
<1>3. CASE Choose
  <2>1. PaletteInv'
    BY <1>3, PaletteClosed DEF Choose
  <2> DEFINE Rest == ScreenTypeOK' /\ SettingsInv' /\ PromptInv' /\ game' \in DOMAIN Games
  <2>2. CASE Chosen = "templates"
    <3>1. OpenTemplates
      BY <1>3, <2>2 DEF Choose, Tabs
    <3>2. Rest
      BY <1>1, <3>1, GoInv DEF OpenTemplates
    <3> QED BY <2>1, <3>2, PanelsInvNext
  <2>3. CASE Chosen # "templates" /\ Chosen \in Tabs
    <3>1. ChooseTab(Chosen)
      BY <1>3, <2>3 DEF Choose, Tabs
    <3>2. Rest
      BY <1>1, <2>3, <3>1, GoInv DEF ChooseTab
    <3> QED BY <2>1, <3>2, PanelsInvNext
  <2>4. CASE Chosen # "templates" /\ Chosen \notin Tabs
    <3>1. RunCommand(Chosen) /\ UNCHANGED <<screenVars, settingsVars, game>>
      BY <1>3, <2>4 DEF Choose
    <3>2. Chosen \in Texts
      BY <1>3, <2>4, ChosenIs DEF Choose
    <3>3. Rest
      BY <1>1, <3>1, <3>2, RunElsewhereInv
    <3> QED BY <2>1, <3>3, PanelsInvNext
  <2> QED BY <2>2, <2>3, <2>4
<1> QED BY <1>2, <1>3 DEF AtPalette

LEMMA BehindInv ==
  ASSUME PanelsInv, Behind
  PROVE  PanelsInv'
<1> USE PanelsInvParts
<1>1. PaletteInv'
  BY CommandsMoveInv DEF Behind
<1>2. /\ awaited \in Nat /\ prefill \in Texts \cup {Undefined} /\ tab \in Tabs
      /\ connected \in BOOLEAN
  BY DEF PromptInv, PromptTypeOK, ScreenTypeOK
<1>3. CASE HistoryArrives /\ UNCHANGED <<screenVars, settingsVars, game>>
  <2>1. ScreenTypeOK'
    BY <1>3 DEF ScreenTypeOK, screenVars
  <2> QED BY <1>1, <1>3, <2>1, HistoryArrivesInv, SettingsSame, PanelsInvNext
<1>4. CASE UNCHANGED awaited /\ SettingsRest /\ UNCHANGED <<screenVars, promptVars, game>>
  <2>1. ScreenTypeOK'
    BY <1>4 DEF ScreenTypeOK, screenVars
  <2> QED BY <1>1, <1>2, <1>4, <2>1, SettingsRestInv, PromptSame, PanelsInvNext
<1>5. CASE /\ UNCHANGED awaited
           /\ connected' = ~connected /\ UNCHANGED <<view, tab, panelVars, game>>
  <2>1. ScreenTypeOK'
    BY <1>2, <1>5 DEF ScreenTypeOK
  <2>2. UNCHANGED settingsVars /\ UNCHANGED promptVars
    BY <1>5 DEF panelVars
  <2> QED BY <1>1, <1>2, <1>5, <2>1, <2>2, SettingsSame, PromptSame, PanelsInvNext
<1>6. CASE UNCHANGED awaited /\ ListFails
  BY <1>1, <1>2, <1>6, GoInv, PanelsInvNext DEF ListFails
<1>7. CASE UNCHANGED awaited /\ ListLoads
  BY <1>1, <1>2, <1>7, GoInv, PanelsInvNext DEF ListLoads
<1> QED BY <1>3, <1>4, <1>5, <1>6, <1>7 DEF Behind

(* Every step of the panels keeps what they promise.                       *)
THEOREM PanelsPromises == PanelsSpec => []PanelsInv
<1>1. PanelsInit => PanelsInv
  BY PanelsInitInv
<1>2. PanelsInv /\ [PanelsNext]_vars => PanelsInv'
  <2> SUFFICES ASSUME PanelsInv, [PanelsNext]_vars
               PROVE  PanelsInv'
    OBVIOUS
  <2>1. CASE PanelsNext
    BY <2>1, AtPanelsInv, AtPaletteInv, BehindInv DEF PanelsNext
  <2>2. CASE UNCHANGED vars
    <3>1. /\ UNCHANGED settingsVars /\ UNCHANGED promptVars /\ UNCHANGED paletteVars
          /\ UNCHANGED <<view, tab, connected, game, awaited>>
      BY <2>2 DEF vars, panelVars, screenVars
    <3>2. SettingsInv' /\ PromptInv'
      BY <3>1, PanelsInvParts, SettingsSame, PromptSame DEF PromptInv, PromptTypeOK
    <3>3. PaletteInv'
      <4>1. open' = open /\ query' = query /\ active' = active /\ moved' = moved
            /\ history' = history /\ view' = view
        BY <3>1 DEF paletteVars, promptVars
      <4>2. HighlightExists'
        BY <4>1, PanelsInvParts DEF PaletteInv, HighlightExists, Matches, Commands
      <4> QED BY <4>1, <4>2, PanelsInvParts DEF PaletteInv
    <3>4. ScreenTypeOK' /\ game' \in DOMAIN Games
      BY <3>1, PanelsInvParts DEF ScreenTypeOK
    <3> QED BY <3>2, <3>3, <3>4, PanelsInvNext
  <2> QED BY <2>1, <2>2
<1> QED BY <1>1, <1>2, PTL DEF PanelsSpec

(* What a panel shows is typed.                                            *)
THEOREM PanelsTypeCorrect == PanelsSpec => []TypeOK
<1>1. PanelsInv => TypeOK
  BY DEF PanelsInv
<1> QED BY <1>1, PanelsPromises, PTL

(* Once the applies of the Settings tab have ended, whatever the server    *)
(* made of the commands, whichever panel was left, and however many        *)
(* applies went on at once, the options on the screen are the server's.    *)
THEOREM ReportIsServers == PanelsSpec => []ListShowsServer
<1>1. PanelsInv => ListShowsServer
  BY DEF PanelsInv, SettingsInv
<1> QED BY <1>1, PanelsPromises, PTL

(* The line that was begun at the prompt is never lost in the history.     *)
THEOREM LineIsKept == PanelsSpec => []DraftKept
<1>1. PanelsInv => DraftKept
  BY DEF PanelsInv
<1> QED BY <1>1, PanelsPromises, PTL

(* The palette highlights one of its matches, unless the list has moved.   *)
THEOREM HighlightIsThere == PanelsSpec => []HighlightExists
<1>1. PanelsInv => HighlightExists
  BY DEF PanelsInv
<1> QED BY <1>1, PanelsPromises, PTL

----------------------------------------------------------------------------
(* What a step may do to an edit.                                          *)
EditKept(k) ==
  \/ k \in DOMAIN edits' /\ (edits'[k] = edits[k] \/ stages' # stages)
  \/ Discard \/ Shown' # "settings"
  \/ \E i \in DOMAIN jobs : k \in jobs[i].applied /\ jobs[i].mine /\ Len(jobs') < Len(jobs)

(* The steps of the tab.                                                   *)
LEMMA TabKeepsEdits ==
  ASSUME SettingsInv, SettingsUser \/ SettingsRest, NEW k \in DOMAIN edits
  PROVE  EditKept(k)
<1>1. CASE \E x \in Keys : \E v \in Values[x] \cup Typed[x] \cup {"true", "false"} : Stage(x, v)
  <2>1. stages' # stages
    BY <1>1 DEF Stage, SettingsInv
  <2>2. k \in DOMAIN edits'
    BY <1>1 DEF Stage
  <2> QED BY <2>1, <2>2 DEF EditKept
<1>2. CASE Discard
  BY <1>2 DEF EditKept
<1>3. CASE UNCHANGED edits
  BY <1>3 DEF EditKept
<1>4. ASSUME NEW i \in DOMAIN jobs, Finish(i)
      PROVE  EditKept(k)
  <2>1. CASE ~jobs[i].mine
    BY <1>4, <2>1 DEF Finish, KeepEdits, EditKept
  <2>2. CASE jobs[i].mine /\ k \notin jobs[i].applied
    <3>1. edits' = Restrict(edits, DOMAIN edits \ jobs[i].applied)
      BY <1>4, <2>2 DEF Finish, KeepEdits
    <3>2. k \in DOMAIN edits' /\ edits'[k] = edits[k]
      BY <2>2, <3>1 DEF Restrict
    <3> QED BY <3>2 DEF EditKept
  <2>3. CASE jobs[i].mine /\ k \in jobs[i].applied
    <3>1. jobs \in Seq(Jobs) /\ jobs' = RemoveAt(jobs, i)
      BY <1>4 DEF Finish, SettingsInv
    <3>2. Len(jobs') = Len(jobs) - 1 /\ Len(jobs) \in Nat
      BY <3>1, RemoveAtIs
    <3>3. Len(jobs') < Len(jobs)
      BY <3>2
    <3> QED BY <2>3, <3>3 DEF EditKept
  <2> QED BY <2>1, <2>2, <2>3
<1>5. Apply => UNCHANGED edits
  BY DEF Apply
<1>6. ChangeElsewhere \/ Rescanned => UNCHANGED edits
  BY DEF ChangeElsewhere, Rescanned
<1>7. \A i \in DOMAIN jobs : Execute(i) \/ Reread(i) => UNCHANGED edits
  BY DEF Execute, Reread
<1> QED BY <1>1, <1>2, <1>3, <1>4, <1>5, <1>6, <1>7 DEF SettingsUser, SettingsRest

LEMMA GoKeepsEdits ==
  ASSUME NEW v, NEW t, NEW line, Go(v, t, line), NEW k \in DOMAIN edits
  PROVE  EditKept(k)
<1>1. CASE Shown = "settings" /\ Shown' # "settings"
  BY <1>1 DEF EditKept
<1>2. CASE ~(Shown = "settings" /\ Shown' # "settings")
  BY <1>2 DEF Go, EditKept, settingsVars
<1> QED BY <1>1, <1>2

LEMMA StepKeepsEdits ==
  ASSUME PanelsInv, [PanelsNext]_vars, NEW k \in DOMAIN edits
  PROVE  EditKept(k)
<1>1. SettingsInv
  BY DEF PanelsInv
<1>2. CASE SettingsUser \/ SettingsRest
  BY <1>1, <1>2, TabKeepsEdits
<1>3. CASE UNCHANGED settingsVars
  BY <1>3 DEF settingsVars, EditKept
<1>4. CASE \E v, t, line : Go(v, t, line)
  BY <1>4, GoKeepsEdits
<1>5. ASSUME AtPanels
      PROVE  SettingsUser \/ UNCHANGED settingsVars \/ \E v, t, line : Go(v, t, line)
  <2>1. ASSUME NEW cmd, RunListed(cmd)
        PROVE  UNCHANGED settingsVars \/ \E v, t, line : Go(v, t, line)
    BY <2>1 DEF RunListed
  <2>2. ASSUME NEW i, ChooseGame(i)
        PROVE  UNCHANGED settingsVars
    BY <2>2 DEF ChooseGame, panelVars
  <2> QED BY <1>5, <2>1, <2>2
          DEF AtPanels, SelectOther, ChooseTab, OpenTemplates, BackToServer
<1>6. ASSUME AtPalette
      PROVE  UNCHANGED settingsVars \/ \E v, t, line : Go(v, t, line)
  <2>1. CASE Choose
    BY <2>1 DEF Choose, OpenTemplates, ChooseTab
  <2>2. CASE UNCHANGED panelVars
    BY <2>2 DEF panelVars
  <2> QED BY <1>6, <2>1, <2>2 DEF AtPalette
<1>7. ASSUME Behind
      PROVE  SettingsRest \/ UNCHANGED settingsVars \/ \E v, t, line : Go(v, t, line)
  BY <1>7 DEF Behind, panelVars, ListFails, ListLoads
<1>8. CASE UNCHANGED vars
  <2>1. UNCHANGED settingsVars
    BY <1>8 DEF vars, panelVars
  <2> QED BY <1>3, <2>1
<1> QED BY <1>2, <1>3, <1>4, <1>5, <1>6, <1>7, <1>8 DEF PanelsNext

(* No step gives up an edit behind the user's back.                        *)
THEOREM EditsAreKept == PanelsSpec => EditsSurvive
<1>1. PanelsInv /\ [PanelsNext]_vars =>
        [\A k \in DOMAIN edits : EditKept(k)]_<<settingsVars, screenVars>>
  BY StepKeepsEdits
<1>2. [\A k \in DOMAIN edits : EditKept(k)]_<<settingsVars, screenVars>> =>
      [\A k \in DOMAIN edits :
         \/ k \in DOMAIN edits' /\ (edits'[k] = edits[k] \/ stages' # stages)
         \/ Discard \/ Shown' # "settings"
         \/ \E i \in DOMAIN jobs : k \in jobs[i].applied /\ jobs[i].mine
                                   /\ Len(jobs') < Len(jobs)]_<<settingsVars, screenVars>>
  BY DEF EditKept
<1> QED BY <1>1, <1>2, PanelsPromises, PTL DEF PanelsSpec, EditsSurvive

----------------------------------------------------------------------------
(* The groupings.                                                          *)

(* Appending, position by position.                                        *)
LEMMA Appended ==
  ASSUME NEW S, NEW s \in Seq(S), NEW e \in S
  PROVE  /\ Append(s, e) \in Seq(S) /\ Len(s) \in Nat
         /\ DOMAIN s = 1 .. Len(s) /\ DOMAIN Append(s, e) = 1 .. Len(s) + 1
         /\ \A i \in DOMAIN s : Append(s, e)[i] = s[i] /\ i \in DOMAIN Append(s, e)
         /\ Append(s, e)[Len(s) + 1] = e
         /\ \A i \in DOMAIN Append(s, e) : i \in DOMAIN s \/ i = Len(s) + 1
<1>1. Len(s) \in Nat /\ DOMAIN s = 1 .. Len(s)
  BY LenProperties
<1>2. /\ Append(s, e) \in Seq(S) /\ Len(Append(s, e)) = Len(s) + 1
      /\ \A i \in 1 .. Len(s) : Append(s, e)[i] = s[i]
      /\ Append(s, e)[Len(s) + 1] = e
  BY AppendProperties
<1>3. DOMAIN Append(s, e) = 1 .. Len(s) + 1
  BY <1>2, LenProperties
<1> QED BY <1>1, <1>2, <1>3

(* A filter keeps what it should, in order.                                *)
Keeps(r, seq, n, those) ==
  /\ \A i \in DOMAIN r : \E k \in 1 .. n : r[i] = seq[k] /\ seq[k] \in those
  /\ \A k \in 1 .. n : seq[k] \in those => \E i \in DOMAIN r : r[i] = seq[k]
  /\ \A i, j \in DOMAIN r : i < j => \E k, l \in 1 .. n : k < l /\ r[i] = seq[k] /\ r[j] = seq[l]

LEMMA AmongKeeps ==
  ASSUME NEW S, NEW seq \in Seq(S), NEW those
  PROVE  /\ Among(seq, those) \in Seq(S)
         /\ Keeps(Among(seq, those), seq, Len(seq), those)
<1> DEFINE L == Len(seq)
<1>1. L \in Nat /\ \A k \in 1 .. L : seq[k] \in S
  BY ElementOfSeq, LenProperties
<1>2. PICK u \in [0 .. L -> Seq(S)] : Filters(u, seq, those) /\ Among(seq, those) = u[L]
  BY AmongUpTo
<1> HIDE DEF L
<1> DEFINE Good == {n \in Nat : n <= L => Keeps(u[n], seq, n, those)}
<1>3. 0 \in Good
  <2>1. u[0] = <<>>
    BY <1>2 DEF Filters
  <2>2. DOMAIN u[0] = {}
    BY <2>1
  <2> QED BY <2>2 DEF Keeps
<1>4. ASSUME NEW n \in Nat, n \in Good
      PROVE  n + 1 \in Good
  <2> SUFFICES ASSUME n + 1 <= L PROVE Keeps(u[n + 1], seq, n + 1, those)
    OBVIOUS
  <2>1. /\ n \in 0 .. L /\ n + 1 \in 1 .. L /\ (n + 1) - 1 = n
        /\ \A k \in 1 .. n : k \in 1 .. n + 1 /\ k < n + 1
        /\ \A k \in 1 .. n + 1 : k \in 1 .. n \/ k = n + 1
    BY <1>1
  <2>2. Keeps(u[n], seq, n, those) /\ u[n] \in Seq(S)
    BY <1>4, <2>1
  <2>3. u[n + 1] = IF seq[n + 1] \in those THEN Append(u[n], seq[n + 1]) ELSE u[n]
    BY <1>2, <2>1 DEF Filters, L
  <2>4. CASE seq[n + 1] \notin those
    BY <2>1, <2>2, <2>3, <2>4 DEF Keeps
  <2>5. CASE seq[n + 1] \in those
    <3> DEFINE s == u[n]
               e == seq[n + 1]
               r == Append(s, e)
    <3>1. s \in Seq(S) /\ e \in S /\ u[n + 1] = r
      BY <1>1, <2>1, <2>2, <2>3, <2>5
    <3>2. Keeps(s, seq, n, those)
      BY <2>2
    <3> HIDE DEF s
    <3>3. /\ Len(s) \in Nat /\ DOMAIN s = 1 .. Len(s) /\ DOMAIN r = 1 .. Len(s) + 1
          /\ \A i \in DOMAIN s : r[i] = s[i] /\ i \in DOMAIN r
          /\ r[Len(s) + 1] = e
          /\ \A i \in DOMAIN r : i \in DOMAIN s \/ i = Len(s) + 1
      BY <3>1, Appended
    <3> HIDE DEF r
    <3>4. Len(s) + 1 \in DOMAIN r
      BY <3>3
    <3>5. \A i \in DOMAIN r : \E k \in 1 .. n + 1 : r[i] = seq[k] /\ seq[k] \in those
      BY <2>1, <2>5, <3>2, <3>3 DEF Keeps
    <3>6. \A k \in 1 .. n + 1 : seq[k] \in those => \E i \in DOMAIN r : r[i] = seq[k]
      BY <2>1, <3>2, <3>3, <3>4 DEF Keeps
    <3>7. ASSUME NEW i \in DOMAIN r, NEW j \in DOMAIN r, i < j
          PROVE  \E k, l \in 1 .. n + 1 : k < l /\ r[i] = seq[k] /\ r[j] = seq[l]
      <4>1. i \in DOMAIN s
        BY <3>3, <3>7
      <4>2. CASE j \in DOMAIN s
        <5>1. PICK k \in 1 .. n, l \in 1 .. n : k < l /\ s[i] = seq[k] /\ s[j] = seq[l]
          BY <3>2, <3>7, <4>1, <4>2 DEF Keeps
        <5> QED BY <2>1, <3>3, <4>1, <4>2, <5>1
      <4>3. CASE j = Len(s) + 1
        <5>1. PICK k \in 1 .. n : s[i] = seq[k]
          BY <3>2, <4>1 DEF Keeps
        <5>2. r[j] = seq[n + 1] /\ r[i] = seq[k]
          BY <3>3, <4>1, <4>3, <5>1
        <5>3. n + 1 \in 1 .. n + 1 /\ k \in 1 .. n + 1 /\ k < n + 1
          BY <2>1
        <5> QED BY <5>2, <5>3
      <4> QED BY <3>3, <4>2, <4>3
    <3> QED BY <3>1, <3>5, <3>6, <3>7 DEF Keeps
  <2> QED BY <2>4, <2>5
<1> HIDE DEF Good
<1>5. Nat \subseteq Good
  BY <1>3, <1>4, Induction
<1>6. Keeps(u[L], seq, L, those)
  BY <1>1, <1>5 DEF Good
<1> QED BY <1>1, <1>2, <1>6 DEF L

(* The first of the indices there are.                                     *)
LEMMA MinIs ==
  ASSUME NEW I, I \subseteq Nat, I # {}
  PROVE  Min(I) \in I /\ \A i \in I : Min(I) <= i
BY Least DEF Min

(* A row is put in the section of its name, or in a new one at the end.    *)
Sections(R, N) == [name : N, rows : Seq(R)]

InSection(new, es, row, nm) ==
  \E i \in DOMAIN es :
    /\ es[i].name = nm
    /\ DOMAIN new = DOMAIN es /\ new[i] = [name |-> nm, rows |-> Append(es[i].rows, row)]
    /\ \A j \in DOMAIN es \ {i} : new[j] = es[j]

InNewSection(new, es, row, nm) ==
  /\ \A i \in DOMAIN es : es[i].name # nm
  /\ new = Append(es, [name |-> nm, rows |-> <<row>>])

LEMMA InsertIs ==
  ASSUME NEW R, NEW N, NEW es \in Seq(Sections(R, N)), NEW row \in R, NEW nm \in N
  PROVE  /\ Insert(es, row, nm) \in Seq(Sections(R, N))
         /\ \/ InSection(Insert(es, row, nm), es, row, nm)
            \/ InNewSection(Insert(es, row, nm), es, row, nm)
<1> DEFINE I == {i \in 1 .. Len(es) : es[i].name = nm}
           at == IF I # {} THEN Min(I) ELSE 0
           new == Insert(es, row, nm)
<1>1. Len(es) \in Nat /\ DOMAIN es = 1 .. Len(es) /\ \A i \in DOMAIN es : es[i] \in Sections(R, N)
  BY ElementOfSeq, LenProperties
<1>2. new = IF at # 0 THEN [es EXCEPT ![at].rows = Append(@, row)]
            ELSE Append(es, [name |-> nm, rows |-> <<row>>])
  BY DEF Insert, SelectInSeq
<1> HIDE DEF new, at
<1>3. CASE I # {}
  <2>1. at \in I /\ at # 0
    <3>1. I \subseteq Nat
      BY <1>1
    <3>2. Min(I) \in I
      BY <1>3, <3>1, MinIs
    <3> QED BY <1>3, <3>2 DEF at
  <2>2. at \in DOMAIN es /\ es[at].name = nm /\ es[at] \in Sections(R, N)
    BY <1>1, <2>1
  <2>3. new = [es EXCEPT ![at].rows = Append(@, row)]
    BY <1>2, <2>1
  <2> DEFINE e == [name |-> nm, rows |-> Append(es[at].rows, row)]
  <2>4. DOMAIN new = DOMAIN es /\ \A j \in DOMAIN es \ {at} : new[j] = es[j]
    BY <2>2, <2>3
  <2>5. new[at] = [es[at] EXCEPT !.rows = Append(@, row)]
    BY <2>2, <2>3
  <2>6. new[at] = e
    BY <2>2, <2>5 DEF Sections
  <2>7. e \in Sections(R, N)
    <3>1. es[at].rows \in Seq(R)
      BY <2>2 DEF Sections
    <3>2. Append(es[at].rows, row) \in Seq(R)
      BY <3>1, AppendProperties
    <3> QED BY <3>2 DEF Sections
  <2>8. new = [j \in DOMAIN es |-> new[j]]
    BY <2>3
  <2>9. \A j \in DOMAIN es : new[j] \in Sections(R, N)
    BY <1>1, <2>4, <2>6, <2>7
  <2>10. new \in Seq(Sections(R, N))
    BY <2>8, <2>9, ChangedSeq
  <2>11. InSection(new, es, row, nm)
    BY <2>2, <2>4, <2>6 DEF InSection
  <2> QED BY <2>10, <2>11 DEF new
<1>4. CASE I = {}
  <2>1. new = Append(es, [name |-> nm, rows |-> <<row>>])
    BY <1>2, <1>4 DEF at
  <2>2. \A i \in DOMAIN es : es[i].name # nm
    BY <1>1, <1>4
  <2>3. [name |-> nm, rows |-> <<row>>] \in Sections(R, N)
    BY DEF Sections
  <2>4. new \in Seq(Sections(R, N))
    BY <2>1, <2>3, AppendProperties
  <2> QED BY <2>1, <2>2, <2>4 DEF new, InNewSection
<1> QED BY <1>3, <1>4

(* Grouping, row by row.                                                   *)
GroupedBy(g, rows, name) ==
  /\ g[0] = <<>> /\ Grouped(rows, name) = g[Len(rows)]
  /\ \A n \in 1 .. Len(rows) : g[n] = Insert(g[n - 1], rows[n], name[rows[n]])

LEMMA GroupedUpTo ==
  ASSUME NEW R, NEW N, NEW rows \in Seq(R), NEW name, \A k \in R : name[k] \in N
  PROVE  \E g \in [0 .. Len(rows) -> Seq(Sections(R, N))] : GroupedBy(g, rows, name)
<1> DEFINE L == Len(rows)
           S == Seq(Sections(R, N))
           step == [n \in 1 .. L |-> [f \in S |-> Insert(f, rows[n], name[rows[n]])]]
           zero == <<>>
<1>1. L \in Nat /\ \A k \in 1 .. L : rows[k] \in R
  BY ElementOfSeq, LenProperties
<1>2. zero \in S
  BY EmptySeq
<1>3. \A f \in S, n \in 1 .. L : Insert(f, rows[n], name[rows[n]]) \in S
  BY <1>1, InsertIs
<1> HIDE DEF S, L, zero
<1>4. step \in [1 .. L -> [S -> S]]
  BY <1>3
<1> HIDE DEF step
<1>5. PICK g \in [0 .. L -> S] : Solves(g, L, zero, step)
  BY <1>1, <1>2, <1>4, Recursion
<1>6. g[0] = <<>>
  BY <1>5 DEF Solves, zero
<1>7. ASSUME NEW n \in 1 .. L
      PROVE  g[n] = Insert(g[n - 1], rows[n], name[rows[n]])
  <2>1. n - 1 \in 0 .. L
    BY <1>1
  <2>2. g[n - 1] \in S
    BY <2>1
  <2>3. g[n] = step[n][g[n - 1]]
    BY <1>5 DEF Solves
  <2> QED BY <2>2, <2>3 DEF step
<1> DEFINE G(f, n) == IF n = 0 THEN <<>> ELSE Insert(f[n - 1], rows[n], name[rows[n]])
           F(f) == [n \in 0 .. Len(rows) |->
                      IF n = 0 THEN <<>> ELSE Insert(f[n - 1], rows[n], name[rows[n]])]
           u == CHOOSE f : f = F(f)
<1>8. g = F(g)
  <2>1. \A k \in 0 .. L : k = 0 \/ k \in 1 .. L
    BY <1>1
  <2>2. \A k \in 1 .. L : k # 0
    BY <1>1
  <2>3. \A k \in 0 .. L : g[k] = G(g, k)
    BY <1>6, <1>7, <2>1, <2>2
  <2> QED BY <2>3 DEF L
<1>9. u = F(u)
  <2> HIDE DEF F
  <2> QED BY <1>8
<1>10. Grouped(rows, name) = u[L]
  BY DEF Grouped, L
<1> HIDE DEF u
<1>11. \A k \in 0 .. L : u[k] = G(u, k)
  BY <1>9 DEF L
<1> DEFINE Good == {n \in Nat : n <= L => u[n] = g[n]}
<1>12. 0 \in Good
  <2>1. 0 \in 0 .. L
    BY <1>1
  <2> QED BY <1>6, <1>11, <2>1
<1>13. ASSUME NEW n \in Nat, n \in Good
       PROVE  n + 1 \in Good
  <2> SUFFICES ASSUME n + 1 <= L PROVE u[n + 1] = g[n + 1]
    OBVIOUS
  <2>1. n + 1 \in 1 .. L /\ n + 1 \in 0 .. L /\ n + 1 # 0 /\ (n + 1) - 1 = n /\ u[n] = g[n]
    BY <1>1, <1>13
  <2>2. u[n + 1] = Insert(u[(n + 1) - 1], rows[n + 1], name[rows[n + 1]])
    BY <1>11, <2>1
  <2>3. g[n + 1] = Insert(g[(n + 1) - 1], rows[n + 1], name[rows[n + 1]])
    BY <1>7, <2>1
  <2> QED BY <2>1, <2>2, <2>3
<1> HIDE DEF Good
<1>14. Nat \subseteq Good
  BY <1>12, <1>13, Induction
<1>15. u[L] = g[L]
  BY <1>1, <1>14 DEF Good
<1> QED BY <1>6, <1>7, <1>10, <1>15 DEF L, S, GroupedBy

(* The sections after some of the rows; U says what a filter has by then.  *)
Part(rows, name, w) == {k \in Range(rows) : name[k] = w}

Sorted(es, n, rows, name, N, U) ==
  /\ \A i, j \in DOMAIN es : es[i].name = es[j].name => i = j
  /\ \A k \in 1 .. n : \E i \in DOMAIN es : es[i].name = name[rows[k]]
  /\ \A i \in DOMAIN es : \E k \in 1 .. n : es[i].name = name[rows[k]]
  /\ \A i \in DOMAIN es : es[i].rows = U[es[i].name][n]
  /\ \A w \in N : (\A i \in DOMAIN es : es[i].name # w) => U[w][n] = <<>>

Adds(U, N, n, row, nm) ==
  \A w \in N : U[w][n + 1] = IF w = nm THEN Append(U[w][n], row) ELSE U[w][n]

LEMMA SortedStep ==
  ASSUME NEW R, NEW N, NEW rows, NEW name, NEW U, NEW n \in Nat,
         NEW es \in Seq(Sections(R, N)), NEW new \in Seq(Sections(R, N)), NEW row \in R, NEW nm \in N,
         row = rows[n + 1], nm = name[row],
         Adds(U, N, n, row, nm),
         InSection(new, es, row, nm) \/ InNewSection(new, es, row, nm),
         Sorted(es, n, rows, name, N, U)
  PROVE  Sorted(new, n + 1, rows, name, N, U)
<1> USE DEF Adds
<1>1. /\ \A k \in 1 .. n : k \in 1 .. n + 1
      /\ \A k \in 1 .. n + 1 : k \in 1 .. n \/ k = n + 1
      /\ n + 1 \in 1 .. n + 1
  OBVIOUS
<1>2. \A i \in DOMAIN es : es[i] \in Sections(R, N)
  BY ElementOfSeq, LenProperties
<1>3. \A i \in DOMAIN es : es[i].name \in N
  BY <1>2 DEF Sections
<1>4. CASE InSection(new, es, row, nm)
  <2>1. PICK i \in DOMAIN es :
          /\ es[i].name = nm
          /\ DOMAIN new = DOMAIN es /\ new[i] = [name |-> nm, rows |-> Append(es[i].rows, row)]
          /\ \A j \in DOMAIN es \ {i} : new[j] = es[j]
    BY <1>4 DEF InSection
  <2>2. new[i].name = nm /\ new[i].rows = Append(es[i].rows, row)
    BY <2>1
  <2>3. \A j \in DOMAIN es : new[j].name = es[j].name
    BY <2>1, <2>2
  <2>4. \A j, k \in DOMAIN new : new[j].name = new[k].name => j = k
    BY <2>1, <2>3 DEF Sorted
  <2>5. ASSUME NEW k \in 1 .. n + 1
        PROVE  \E j \in DOMAIN new : new[j].name = name[rows[k]]
    <3>1. CASE k = n + 1
      BY <2>1, <2>2, <3>1
    <3>2. CASE k \in 1 .. n
      BY <2>1, <2>3, <3>2 DEF Sorted
    <3> QED BY <1>1, <3>1, <3>2
  <2>6. ASSUME NEW j \in DOMAIN new
        PROVE  \E k \in 1 .. n + 1 : new[j].name = name[rows[k]]
    <3>1. PICK k \in 1 .. n : es[j].name = name[rows[k]]
      BY <2>1 DEF Sorted
    <3>2. new[j].name = name[rows[k]] /\ k \in 1 .. n + 1
      BY <1>1, <2>1, <2>3, <3>1
    <3> QED BY <3>2
  <2>7. ASSUME NEW j \in DOMAIN new
        PROVE  new[j].rows = U[new[j].name][n + 1]
    <3>1. es[j].rows = U[es[j].name][n] /\ new[j].name = es[j].name /\ es[j].name \in N
      BY <1>3, <2>1, <2>3 DEF Sorted
    <3>2. CASE j = i
      BY <2>1, <2>2, <3>1, <3>2
    <3>3. CASE j # i
      <4>1. es[j].name # nm
        BY <2>1, <3>3 DEF Sorted
      <4> QED BY <2>1, <3>1, <3>3, <4>1
    <3> QED BY <3>2, <3>3
  <2>8. ASSUME NEW w \in N, \A j \in DOMAIN new : new[j].name # w
        PROVE  U[w][n + 1] = <<>>
    <3>1. \A j \in DOMAIN es : es[j].name # w
      BY <2>1, <2>3, <2>8
    <3>2. w # nm /\ U[w][n] = <<>>
      BY <2>1, <3>1 DEF Sorted
    <3> QED BY <3>2
  <2> QED BY <2>4, <2>5, <2>6, <2>7, <2>8 DEF Sorted
<1>5. CASE InNewSection(new, es, row, nm)
  <2> DEFINE e == [name |-> nm, rows |-> <<row>>]
  <2>1. (\A i \in DOMAIN es : es[i].name # nm) /\ new = Append(es, e)
    BY <1>5 DEF InNewSection
  <2>2. e \in Sections(R, N) /\ e.name = nm /\ e.rows = <<row>>
    BY DEF Sections
  <2> HIDE DEF e
  <2>3. /\ \A i \in DOMAIN es : new[i] = es[i] /\ i \in DOMAIN new
        /\ new[Len(es) + 1] = e /\ Len(es) + 1 \in DOMAIN new
        /\ \A i \in DOMAIN new : i \in DOMAIN es \/ i = Len(es) + 1
    BY <2>1, <2>2, Appended
  <2>4. \A j, k \in DOMAIN new : new[j].name = new[k].name => j = k
    BY <2>1, <2>2, <2>3 DEF Sorted
  <2>5. \A k \in 1 .. n + 1 : \E j \in DOMAIN new : new[j].name = name[rows[k]]
    BY <1>1, <2>2, <2>3 DEF Sorted
  <2>6. \A j \in DOMAIN new : \E k \in 1 .. n + 1 : new[j].name = name[rows[k]]
    BY <1>1, <2>2, <2>3 DEF Sorted
  <2>7. ASSUME NEW j \in DOMAIN new
        PROVE  new[j].rows = U[new[j].name][n + 1]
    <3>1. CASE j \in DOMAIN es
      <4>1. es[j].rows = U[es[j].name][n] /\ es[j].name \in N /\ es[j].name # nm
        BY <1>3, <2>1, <3>1 DEF Sorted
      <4> QED BY <2>3, <3>1, <4>1
    <3>2. CASE j = Len(es) + 1
      <4>1. U[nm][n] = <<>>
        BY <2>1 DEF Sorted
      <4>2. U[nm][n + 1] = Append(<<>>, row)
        BY <4>1
      <4>3. Append(<<>>, row) = <<row>>
        OBVIOUS
      <4> QED BY <2>2, <2>3, <3>2, <4>2, <4>3
    <3> QED BY <2>3, <3>1, <3>2
  <2>8. ASSUME NEW w \in N, \A j \in DOMAIN new : new[j].name # w
        PROVE  U[w][n + 1] = <<>>
    <3>1. (\A j \in DOMAIN es : es[j].name # w) /\ w # nm
      BY <2>2, <2>3, <2>8
    <3>2. U[w][n] = <<>>
      BY <3>1 DEF Sorted
    <3> QED BY <3>1, <3>2
  <2> QED BY <2>4, <2>5, <2>6, <2>7, <2>8 DEF Sorted
<1> QED BY <1>4, <1>5

(* A grouping before the sort: sections of different names, which have all *)
(* rows of their names.                                                    *)
Grouping(es, rows, name) ==
  /\ \A i, j \in DOMAIN es : es[i].name = es[j].name => i = j
  /\ \A k \in Range(rows) : \E i \in DOMAIN es : es[i].name = name[k]
  /\ \A i \in DOMAIN es : \E k \in Range(rows) : es[i].name = name[k]
  /\ \A i \in DOMAIN es : es[i].rows = Among(rows, Part(rows, name, es[i].name))

LEMMA GroupedIs ==
  ASSUME NEW R, NEW N, NEW rows \in Seq(R), NEW name, \A k \in R : name[k] \in N
  PROVE  /\ Grouped(rows, name) \in Seq(Sections(R, N))
         /\ Grouping(Grouped(rows, name), rows, name)
<1> DEFINE L == Len(rows)
           Fits(u, w) == /\ Filters(u, rows, Part(rows, name, w))
                         /\ Among(rows, Part(rows, name, w)) = u[L]
           U == [w \in N |-> CHOOSE u \in [0 .. L -> Seq(R)] : Fits(u, w)]
<1>1. L \in Nat /\ DOMAIN rows = 1 .. L /\ \A k \in 1 .. L : rows[k] \in R /\ rows[k] \in Range(rows)
  BY ElementOfSeq, LenProperties DEF Range
<1>2. \A w \in N : \E u \in [0 .. L -> Seq(R)] : Fits(u, w)
  BY AmongUpTo
<1> HIDE DEF Fits, L
<1>3. \A w \in N : Fits(U[w], w)
  BY <1>2
<1> HIDE DEF U
<1>4. PICK g \in [0 .. L -> Seq(Sections(R, N))] :
        /\ g[0] = <<>> /\ Grouped(rows, name) = g[L]
        /\ \A n \in 1 .. L : g[n] = Insert(g[n - 1], rows[n], name[rows[n]])
  <2>1. \E g \in [0 .. L -> Seq(Sections(R, N))] : GroupedBy(g, rows, name)
    BY GroupedUpTo DEF L
  <2> QED BY <2>1 DEF GroupedBy, L
<1> DEFINE Good == {n \in Nat : n <= L => Sorted(g[n], n, rows, name, N, U)}
<1>5. 0 \in Good
  <2>1. g[0] = <<>> /\ DOMAIN g[0] = {}
    BY <1>4
  <2>2. \A w \in N : U[w][0] = <<>>
    BY <1>3 DEF Fits, Filters
  <2> QED BY <2>1, <2>2 DEF Sorted
<1>6. ASSUME NEW n \in Nat, n \in Good
      PROVE  n + 1 \in Good
  <2> SUFFICES ASSUME n + 1 <= L PROVE Sorted(g[n + 1], n + 1, rows, name, N, U)
    OBVIOUS
  <2>1. n \in 0 .. L /\ n + 1 \in 0 .. L /\ n + 1 \in 1 .. L /\ (n + 1) - 1 = n
    BY <1>1
  <2> DEFINE row == rows[n + 1]
             nm == name[row]
  <2>2. row \in R /\ row \in Range(rows) /\ nm \in N
    BY <1>1, <2>1
  <2>3. g[n] \in Seq(Sections(R, N)) /\ g[n + 1] = Insert(g[n], row, nm)
    BY <1>4, <2>1
  <2>4. g[n + 1] \in Seq(Sections(R, N))
    BY <2>1
  <2>5. InSection(g[n + 1], g[n], row, nm) \/ InNewSection(g[n + 1], g[n], row, nm)
    BY <2>2, <2>3, InsertIs
  <2>6. ASSUME NEW w \in N
        PROVE  U[w][n + 1] = IF w = nm THEN Append(U[w][n], row) ELSE U[w][n]
    <3>1. U[w][n + 1] = IF rows[n + 1] \in Part(rows, name, w)
                        THEN Append(U[w][(n + 1) - 1], rows[n + 1]) ELSE U[w][(n + 1) - 1]
      BY <1>3, <2>1 DEF Fits, Filters, L
    <3>2. rows[n + 1] \in Part(rows, name, w) <=> w = nm
      BY <2>2 DEF Part
    <3> QED BY <2>1, <3>1, <3>2
  <2>7. Sorted(g[n], n, rows, name, N, U)
    BY <1>6, <2>1
  <2> DEFINE es == g[n]
             new == g[n + 1]
  <2>8. row = rows[n + 1] /\ nm = name[row]
    OBVIOUS
  <2>9. /\ es \in Seq(Sections(R, N)) /\ new \in Seq(Sections(R, N))
        /\ InSection(new, es, row, nm) \/ InNewSection(new, es, row, nm)
        /\ Sorted(es, n, rows, name, N, U)
    BY <2>3, <2>4, <2>5, <2>7
  <2>10. Adds(U, N, n, row, nm)
    BY <2>6 DEF Adds
  <2> HIDE DEF row, nm, es, new
  <2>11. Sorted(new, n + 1, rows, name, N, U)
    BY <2>2, <2>8, <2>9, <2>10, SortedStep
  <2> QED BY <2>11 DEF new
<1> HIDE DEF Good
<1>7. Nat \subseteq Good
  BY <1>5, <1>6, Induction
<1>8. Sorted(g[L], L, rows, name, N, U)
  BY <1>1, <1>7 DEF Good
<1>9. g[L] \in Seq(Sections(R, N))
  BY <1>1, <1>4
<1> DEFINE es == g[L]
<1> HIDE DEF es
<1>10. \A i \in DOMAIN es : es[i].name \in N
  <2>1. \A i \in DOMAIN es : es[i] \in Sections(R, N)
    BY <1>9, ElementOfSeq, LenProperties DEF es
  <2> QED BY <2>1 DEF Sections
<1>11. \A i \in DOMAIN es : es[i].rows = Among(rows, Part(rows, name, es[i].name))
  BY <1>3, <1>8, <1>10 DEF Sorted, Fits, es
<1>12. ASSUME NEW k \in Range(rows)
       PROVE  \E i \in DOMAIN es : es[i].name = name[k]
  <2>1. PICK n \in 1 .. L : rows[n] = k
    BY <1>1 DEF Range
  <2> QED BY <1>8, <2>1 DEF Sorted, es
<1>13. \A i \in DOMAIN es : \E k \in Range(rows) : es[i].name = name[k]
  BY <1>1, <1>8 DEF Sorted, es
<1>14. \A i, j \in DOMAIN es : es[i].name = es[j].name => i = j
  BY <1>8 DEF Sorted, es
<1>15. Grouping(es, rows, name)
  BY <1>11, <1>12, <1>13, <1>14 DEF Grouping
<1> QED BY <1>4, <1>9, <1>15 DEF es

(* The sort: the fallback comes last, and nothing is lost.                 *)
LEMMA SortGroups ==
  ASSUME NEW R, NEW N, NEW es \in Seq(Sections(R, N)), NEW rows, NEW name,
         Grouping(es, rows, name)
  PROVE  /\ Groups(OtherLast(es, "Other"), rows, name)
         /\ \A i \in DOMAIN OtherLast(es, "Other") :
              \E k \in Range(rows) : OtherLast(es, "Other")[i].name = name[k]
<1> DEFINE E == Sections(R, N)
           A == {e \in Range(es) : e.name # "Other"}
           B == {e \in Range(es) : e.name = "Other"}
           a == Among(es, A)
           b == Among(es, B)
           all == OtherLast(es, "Other")
<1>1. Len(es) \in Nat /\ DOMAIN es = 1 .. Len(es) /\ \A i \in DOMAIN es : es[i] \in Range(es)
  BY LenProperties DEF Range
<1>2. /\ a \in Seq(E) /\ Keeps(a, es, Len(es), A)
      /\ b \in Seq(E) /\ Keeps(b, es, Len(es), B)
  BY AmongKeeps
<1>3. all = a \o b
  BY DEF OtherLast
<1> HIDE DEF a, b, all, E
<1>4. Len(a) \in Nat /\ Len(b) \in Nat /\ DOMAIN a = 1 .. Len(a) /\ DOMAIN b = 1 .. Len(b)
  BY <1>2, LenProperties
<1>5. /\ all \in Seq(E) /\ Len(all) = Len(a) + Len(b)
      /\ \A i \in 1 .. Len(a) + Len(b) : all[i] = IF i <= Len(a) THEN a[i] ELSE b[i - Len(a)]
  BY <1>2, <1>3, ConcatProperties
<1>6. DOMAIN all = 1 .. Len(all)
  BY <1>5, LenProperties
<1>7. \A i \in DOMAIN a : i \in DOMAIN all /\ all[i] = a[i]
  BY <1>4, <1>5, <1>6
<1>8. \A i \in DOMAIN b : Len(a) + i \in DOMAIN all /\ all[Len(a) + i] = b[i]
  BY <1>4, <1>5, <1>6
<1>9. \A i \in DOMAIN all : i \in DOMAIN a \/ i - Len(a) \in DOMAIN b
  BY <1>4, <1>5, <1>6
<1>10. /\ \A i \in DOMAIN a : \E k \in DOMAIN es : a[i] = es[k] /\ es[k].name # "Other"
       /\ \A i \in DOMAIN b : \E k \in DOMAIN es : b[i] = es[k] /\ es[k].name = "Other"
  BY <1>1, <1>2 DEF Keeps
<1>11. ASSUME NEW k \in DOMAIN es
       PROVE  \E i \in DOMAIN all : all[i] = es[k]
  <2>1. CASE es[k].name = "Other"
    <3>1. PICK i \in DOMAIN b : b[i] = es[k]
      BY <1>1, <1>2, <2>1 DEF Keeps
    <3> QED BY <1>8, <3>1
  <2>2. CASE es[k].name # "Other"
    <3>1. PICK i \in DOMAIN a : a[i] = es[k]
      BY <1>1, <1>2, <2>2 DEF Keeps
    <3> QED BY <1>7, <3>1
  <2> QED BY <2>1, <2>2
<1>12. ASSUME NEW i \in DOMAIN all
       PROVE  \E k \in DOMAIN es : all[i] = es[k]
  <2>1. CASE i \in DOMAIN a
    BY <1>7, <1>10, <2>1
  <2>2. CASE i - Len(a) \in DOMAIN b
    <3>1. all[i] = b[i - Len(a)]
      <4>1. Len(a) + (i - Len(a)) = i
        BY <1>4, <1>5, <1>6
      <4> QED BY <1>8, <2>2, <4>1
    <3> QED BY <1>10, <2>2, <3>1
  <2> QED BY <1>9, <2>1, <2>2
<1>13. \A i, j \in DOMAIN es : es[i].name = es[j].name => i = j
  BY DEF Grouping
<1>14. ASSUME NEW i \in DOMAIN a, NEW j \in DOMAIN a, a[i].name = a[j].name
       PROVE  i = j
  <2>1. i < j \/ j < i \/ i = j
    BY <1>4
  <2>2. ASSUME NEW x \in DOMAIN a, NEW y \in DOMAIN a, x < y, a[x].name = a[y].name
        PROVE  FALSE
    <3>1. PICK k, l \in 1 .. Len(es) : k < l /\ a[x] = es[k] /\ a[y] = es[l]
      BY <1>2, <2>2 DEF Keeps
    <3>2. k = l
      BY <1>1, <1>13, <2>2, <3>1
    <3> QED BY <3>1, <3>2
  <2> QED BY <1>14, <2>1, <2>2
<1>15. ASSUME NEW i \in DOMAIN b, NEW j \in DOMAIN b
       PROVE  i = j
  <2>1. i < j \/ j < i \/ i = j
    BY <1>4
  <2>2. ASSUME NEW x \in DOMAIN b, NEW y \in DOMAIN b, x < y
        PROVE  FALSE
    <3>1. PICK k, l \in 1 .. Len(es) : k < l /\ b[x] = es[k] /\ b[y] = es[l]
      BY <1>2, <2>2 DEF Keeps
    <3>2. b[x].name = "Other" /\ b[y].name = "Other"
      BY <1>10
    <3>3. k = l
      BY <1>1, <1>13, <3>1, <3>2
    <3> QED BY <3>1, <3>3
  <2> QED BY <2>1, <2>2
<1>16. ASSUME NEW i \in DOMAIN all
       PROVE  IF i \in DOMAIN a THEN all[i] = a[i] /\ all[i].name # "Other"
              ELSE i - Len(a) \in DOMAIN b /\ all[i] = b[i - Len(a)] /\ all[i].name = "Other"
  <2>1. CASE i \in DOMAIN a
    BY <1>7, <1>10, <2>1
  <2>2. CASE i \notin DOMAIN a
    <3>1. i - Len(a) \in DOMAIN b /\ Len(a) + (i - Len(a)) = i
      BY <1>4, <1>5, <1>6, <1>9, <2>2
    <3>2. all[i] = b[i - Len(a)]
      BY <1>8, <3>1
    <3> QED BY <1>10, <2>2, <3>1, <3>2
  <2> QED BY <2>1, <2>2
<1>17. ASSUME NEW i \in DOMAIN all, NEW j \in DOMAIN all, all[i].name = all[j].name
       PROVE  i = j
  <2>1. CASE i \in DOMAIN a /\ j \in DOMAIN a
    BY <1>14, <1>16, <1>17, <2>1
  <2>2. CASE i \notin DOMAIN a /\ j \notin DOMAIN a
    <3>1. i - Len(a) = j - Len(a)
      BY <1>15, <1>16, <2>2
    <3> QED BY <1>4, <1>5, <1>6, <3>1
  <2> QED BY <1>16, <1>17, <2>1, <2>2
<1>18. ASSUME NEW i \in DOMAIN all, all[i].name = "Other"
       PROVE  i = Len(all)
  <2>1. i - Len(a) \in DOMAIN b
    BY <1>16, <1>18
  <2>2. Len(b) \in DOMAIN b
    BY <1>4, <2>1
  <2>3. i - Len(a) = Len(b)
    BY <1>15, <2>1, <2>2
  <2> QED BY <1>4, <1>5, <1>6, <2>3
<1>19. \A i \in DOMAIN all :
         all[i].rows = Among(rows, {k \in Range(rows) : name[k] = all[i].name})
  BY <1>12 DEF Grouping, Part
<1>20. \A k \in Range(rows) : \E i \in DOMAIN all : all[i].name = name[k]
  BY <1>11 DEF Grouping
<1>21. \A i \in DOMAIN all : \E k \in Range(rows) : all[i].name = name[k]
  BY <1>12 DEF Grouping
<1>22. Groups(all, rows, name)
  BY <1>17, <1>18, <1>19, <1>20 DEF Groups
<1> QED BY <1>21, <1>22 DEF all

(* The catalogue's tables: an identifier is one game's, a title is one     *)
(* section's of its game.                                                  *)
LEMMA TheGames ==
  /\ DOMAIN Games = 1 .. 11
  /\ Games[1].sections = ZomboidTemplate /\ Games[2].sections = MinecraftTemplate
  /\ \A g \in 3 .. 11 : Games[g].sections = <<>>
  /\ Games[1].id = "zomboid" /\ Games[2].id = "minecraft"
  /\ \A g \in 3 .. 11 : Games[g].id \notin Fingerprints
<1>1. DOMAIN Games = 1 .. 11
  BY DEF Games
<1>2. /\ Games[1] = [id |-> "zomboid", sections |-> ZomboidTemplate]
      /\ Games[2] = [id |-> "minecraft", sections |-> MinecraftTemplate]
      /\ Games[3] = CommandsOnly("cs2") /\ Games[4] = CommandsOnly("rust")
      /\ Games[5] = CommandsOnly("valheim") /\ Games[6] = CommandsOnly("palworld")
      /\ Games[7] = CommandsOnly("ark") /\ Games[8] = CommandsOnly("sevendaystodie")
      /\ Games[9] = CommandsOnly("squad") /\ Games[10] = CommandsOnly("conanexiles")
      /\ Games[11] = CommandsOnly("factorio")
  BY DEF Games
<1>3. \A g \in 3 .. 11 : g = 3 \/ g = 4 \/ g = 5 \/ g = 6 \/ g = 7 \/ g = 8 \/ g = 9 \/ g = 10 \/ g = 11
  OBVIOUS
<1>4. \A g \in 3 .. 11 : Games[g].sections = <<>> /\ Games[g].id \notin Fingerprints
  BY <1>2, <1>3 DEF CommandsOnly, Fingerprints
<1> QED BY <1>1, <1>2, <1>4

LEMMA GameIsOne ==
  ASSUME NEW g \in DOMAIN Games, NEW h \in DOMAIN Games,
         Games[g].id = Games[h].id, Games[g].id \in Fingerprints
  PROVE  g = h
<1>1. \A x \in 1 .. 11 : x = 1 \/ x = 2 \/ x \in 3 .. 11
  OBVIOUS
<1> QED BY <1>1, TheGames

(* Each section of each game: its keys are a sequence.                     *)
IsList(s) == Len(s) \in Nat /\ DOMAIN s = 1 .. Len(s)

LEMMA TheSections ==
  ASSUME NEW g \in DOMAIN Games
  PROVE  /\ Len(Games[g].sections) \in Nat
         /\ DOMAIN Games[g].sections = 1 .. Len(Games[g].sections)
         /\ \A i \in DOMAIN Games[g].sections : IsList(Games[g].sections[i].keys)
         /\ \A i, j \in DOMAIN Games[g].sections :
              Games[g].sections[i].title = Games[g].sections[j].title => i = j
<1>1. g = 1 \/ g = 2 \/ g \in 3 .. 11
  <2>1. g \in 1 .. 11
    BY TheGames
  <2> QED BY <2>1
<1>2. /\ IsList(ZomboidServer.keys)
      /\ IsList(ZomboidGameplay.keys)
      /\ IsList(ZomboidSafehouses.keys)
      /\ IsList(ZomboidSaving.keys)
      /\ IsList(ZomboidChat.keys)
  <2>1. IsList(ZomboidServer.keys)
    BY DEF IsList, ZomboidServer
  <2>2. IsList(ZomboidGameplay.keys)
    BY DEF IsList, ZomboidGameplay
  <2>3. IsList(ZomboidSafehouses.keys)
    BY DEF IsList, ZomboidSafehouses
  <2>4. IsList(ZomboidSaving.keys)
    BY DEF IsList, ZomboidSaving
  <2>5. IsList(ZomboidChat.keys)
    BY DEF IsList, ZomboidChat
  <2> QED BY <2>1, <2>2, <2>3, <2>4, <2>5
<1>3. /\ IsList(MinecraftWorld.keys)
      /\ IsList(MinecraftMobs.keys)
      /\ IsList(MinecraftPlayer.keys)
      /\ IsList(MinecraftAdmin.keys)
  <2>1. IsList(MinecraftWorld.keys)
    BY DEF IsList, MinecraftWorld
  <2>2. IsList(MinecraftMobs.keys)
    BY DEF IsList, MinecraftMobs
  <2>3. IsList(MinecraftPlayer.keys)
    BY DEF IsList, MinecraftPlayer
  <2>4. IsList(MinecraftAdmin.keys)
    BY DEF IsList, MinecraftAdmin
  <2> QED BY <2>1, <2>2, <2>3, <2>4
<1>4. /\ ZomboidServer.title = "Server" /\ ZomboidGameplay.title = "Gameplay"
      /\ ZomboidSafehouses.title = "Safehouses" /\ ZomboidSaving.title = "Saving"
      /\ ZomboidChat.title = "Chat & Voice"
  BY DEF ZomboidServer, ZomboidGameplay, ZomboidSafehouses, ZomboidSaving, ZomboidChat
<1>5. /\ MinecraftWorld.title = "World" /\ MinecraftMobs.title = "Mobs"
      /\ MinecraftPlayer.title = "Player" /\ MinecraftAdmin.title = "Admin & Feedback"
  BY DEF MinecraftWorld, MinecraftMobs, MinecraftPlayer, MinecraftAdmin
<1>6. CASE g = 1
  <2>1. Games[g].sections = ZomboidTemplate
    BY <1>6, TheGames
  <2>2. /\ Len(ZomboidTemplate) = 5 /\ DOMAIN ZomboidTemplate = 1 .. 5
        /\ ZomboidTemplate[1] = ZomboidServer /\ ZomboidTemplate[2] = ZomboidGameplay
        /\ ZomboidTemplate[3] = ZomboidSafehouses /\ ZomboidTemplate[4] = ZomboidSaving
        /\ ZomboidTemplate[5] = ZomboidChat
    BY DEF ZomboidTemplate
  <2>3. \A i \in 1 .. 5 : i = 1 \/ i = 2 \/ i = 3 \/ i = 4 \/ i = 5
    OBVIOUS
  <2>4. \A i \in 1 .. 5 : IsList(ZomboidTemplate[i].keys)
    BY <1>2, <2>2, <2>3
  <2>5. \A i, j \in 1 .. 5 : ZomboidTemplate[i].title = ZomboidTemplate[j].title => i = j
    BY <1>4, <2>2, <2>3
  <2> QED BY <2>1, <2>2, <2>4, <2>5
<1>7. CASE g = 2
  <2>1. Games[g].sections = MinecraftTemplate
    BY <1>7, TheGames
  <2>2. /\ Len(MinecraftTemplate) = 4 /\ DOMAIN MinecraftTemplate = 1 .. 4
        /\ MinecraftTemplate[1] = MinecraftWorld /\ MinecraftTemplate[2] = MinecraftMobs
        /\ MinecraftTemplate[3] = MinecraftPlayer /\ MinecraftTemplate[4] = MinecraftAdmin
    BY DEF MinecraftTemplate
  <2>3. \A i \in 1 .. 4 : i = 1 \/ i = 2 \/ i = 3 \/ i = 4
    OBVIOUS
  <2>4. \A i \in 1 .. 4 : IsList(MinecraftTemplate[i].keys)
    BY <1>3, <2>2, <2>3
  <2>5. \A i, j \in 1 .. 4 : MinecraftTemplate[i].title = MinecraftTemplate[j].title => i = j
    BY <1>5, <2>2, <2>3
  <2> QED BY <2>1, <2>2, <2>4, <2>5
<1>8. CASE g \in 3 .. 11
  <2>1. Games[g].sections = <<>>
    BY <1>8, TheGames
  <2>2. Len(<<>>) = 0 /\ DOMAIN <<>> = {} /\ 1 .. 0 = {}
    OBVIOUS
  <2> QED BY <2>1, <2>2
<1> QED BY <1>1, <1>6, <1>7, <1>8

(* A template's options are those of its sections.                         *)
OptionsIn(template) ==
  {o \in [key : UNION {Range(template.sections[j].keys) : j \in DOMAIN template.sections},
          section : {template.sections[j].title : j \in DOMAIN template.sections},
          least : {template.sections[j].least : j \in DOMAIN template.sections},
          most : {template.sections[j].most : j \in DOMAIN template.sections}] :
     \E j \in DOMAIN template.sections :
       o.section = template.sections[j].title /\ o.key \in Range(template.sections[j].keys)}

LEMMA OptionsTyped ==
  ASSUME NEW template, Len(template.sections) \in Nat,
         DOMAIN template.sections = 1 .. Len(template.sections),
         \A i \in DOMAIN template.sections : IsList(template.sections[i].keys)
  PROVE  OptionsOf(template) \in Seq(OptionsIn(template))
<1> DEFINE L == Len(template.sections)
           S == Seq(OptionsIn(template))
           New(n) == [j \in DOMAIN template.sections[n].keys |->
                        Option(template.sections[n], template.sections[n].keys[j])]
           step == [n \in 1 .. L |-> [f \in S |-> f \o New(n)]]
           zero == <<>>
<1>1. ASSUME NEW n \in 1 .. L
      PROVE  New(n) \in S
  <2> DEFINE section == template.sections[n]
             keys == section.keys
  <2>1. IsList(keys) /\ n \in DOMAIN template.sections
    OBVIOUS
  <2>2. Len(keys) \in Nat /\ DOMAIN keys = 1 .. Len(keys)
    BY <2>1 DEF IsList
  <2>3. ASSUME NEW j \in DOMAIN keys
        PROVE  Option(section, keys[j]) \in OptionsIn(template)
    <3>1. keys[j] \in Range(keys)
      BY DEF Range
    <3> DEFINE o == Option(section, keys[j])
    <3>2. /\ o.key = keys[j] /\ o.section = section.title
          /\ o = [key |-> keys[j], section |-> section.title,
                  least |-> section.least, most |-> section.most]
      BY DEF Option
    <3> HIDE DEF o
    <3> QED BY <2>1, <3>1, <3>2 DEF OptionsIn, o
  <2> HIDE DEF keys, section
  <2>4. [j \in 1 .. Len(keys) |-> Option(section, keys[j])] \in Seq(OptionsIn(template))
    BY <2>2, <2>3
  <2> QED BY <2>2, <2>4 DEF keys, section
<1>2. zero \in S /\ L \in Nat
  BY EmptySeq
<1>3. \A f \in S, n \in 1 .. L : f \o New(n) \in S
  BY <1>1, ConcatProperties
<1> HIDE DEF S, L, zero, New
<1>4. step \in [1 .. L -> [S -> S]]
  BY <1>3
<1> HIDE DEF step
<1>5. PICK g \in [0 .. L -> S] : Solves(g, L, zero, step)
  BY <1>2, <1>4, Recursion
<1>6. g[0] = <<>>
  BY <1>5 DEF Solves, zero
<1>7. ASSUME NEW n \in 1 .. L
      PROVE  g[n] = g[n - 1] \o New(n)
  <2>1. n - 1 \in 0 .. L
    BY <1>2
  <2>2. g[n - 1] \in S
    BY <2>1
  <2>3. g[n] = step[n][g[n - 1]]
    BY <1>5 DEF Solves
  <2> QED BY <2>2, <2>3 DEF step
<1> DEFINE G(f, n) == IF n = 0 THEN <<>> ELSE f[n - 1] \o New(n)
           F(f) == [n \in 0 .. L |-> IF n = 0 THEN <<>> ELSE f[n - 1] \o New(n)]
           u == CHOOSE f : f = F(f)
<1>8. g = F(g)
  <2>1. \A k \in 0 .. L : k = 0 \/ k \in 1 .. L
    BY <1>2
  <2>2. \A k \in 1 .. L : k # 0
    BY <1>2
  <2>3. \A k \in 0 .. L : g[k] = G(g, k)
    BY <1>6, <1>7, <2>1, <2>2
  <2> QED BY <2>3
<1>9. u = F(u)
  <2> HIDE DEF F
  <2> QED BY <1>8
<1>10. OptionsOf(template) = u[L]
  BY DEF OptionsOf, L, New
<1> HIDE DEF u
<1>11. \A k \in 0 .. L : u[k] = G(u, k)
  BY <1>9
<1> DEFINE Good == {n \in Nat : n <= L => u[n] \in S}
<1>12. 0 \in Good
  <2>1. 0 \in 0 .. L
    BY <1>2
  <2>2. u[0] = zero
    BY <1>11, <2>1 DEF zero
  <2> QED BY <1>2, <2>2
<1>13. ASSUME NEW n \in Nat, n \in Good
       PROVE  n + 1 \in Good
  <2> SUFFICES ASSUME n + 1 <= L PROVE u[n + 1] \in S
    OBVIOUS
  <2>1. n + 1 \in 1 .. L /\ n + 1 \in 0 .. L /\ n + 1 # 0 /\ (n + 1) - 1 = n /\ u[n] \in S
    BY <1>2, <1>13
  <2>2. u[n + 1] = u[(n + 1) - 1] \o New(n + 1)
    BY <1>11, <2>1
  <2>3. u[n] \o New(n + 1) \in S
    BY <1>3, <2>1
  <2> QED BY <2>1, <2>2, <2>3
<1> HIDE DEF Good
<1>14. Nat \subseteq Good
  BY <1>12, <1>13, Induction
<1>15. u[L] \in S
  BY <1>2, <1>14 DEF Good
<1> QED BY <1>10, <1>15 DEF S

LEMMA TheOptions ==
  /\ DOMAIN Curated = DOMAIN Games
  /\ \A g \in DOMAIN Games : /\ Curated[g] = OptionsOf(Games[g])
                             /\ Curated[g] \in Seq(OptionsIn(Games[g]))
<1>1. DOMAIN Curated = DOMAIN Games /\ \A g \in DOMAIN Games : Curated[g] = OptionsOf(Games[g])
  BY DEF Curated
<1>2. ASSUME NEW g \in DOMAIN Games
      PROVE  OptionsOf(Games[g]) \in Seq(OptionsIn(Games[g]))
  BY TheSections, OptionsTyped
<1> QED BY <1>1, <1>2

(* A sequence is one of its own elements.                                  *)
LEMMA OwnElements ==
  ASSUME NEW S, NEW s \in Seq(S)
  PROVE  s \in Seq(Range(s))
<1>1. Len(s) \in Nat /\ DOMAIN s = 1 .. Len(s) /\ s = [i \in 1 .. Len(s) |-> s[i]]
  BY LenProperties
<1>2. \A i \in 1 .. Len(s) : s[i] \in Range(s)
  BY <1>1 DEF Range
<1> QED BY <1>1, <1>2

(* What is looked up is an option of the game, by its key.                 *)
LEMMA MetaIs ==
  ASSUME NEW p, NEW k, MetaFor(p, k) # <<>>
  PROVE  \E g \in DOMAIN Games : \E o \in DOMAIN Curated[g] :
           /\ Games[g].id = p /\ Curated[g][o].key = k
           /\ MetaFor(p, k)[1] = Curated[g][o]
<1> DEFINE GI == {i \in 1 .. Len(Games) : Games[i].id = p}
           g == IF GI # {} THEN Min(GI) ELSE 0
           OI == {i \in 1 .. Len(Curated[g]) : Curated[g][i].key = k}
           first == IF OI # {} THEN Min(OI) ELSE 0
           o == IF g = 0 THEN 0 ELSE first
<1>1. MetaFor(p, k) = IF o = 0 THEN <<>> ELSE <<Curated[g][o]>>
  BY DEF MetaFor, SelectInSeq
<1>2. Len(Games) = 11
  BY DEF Games
<1>3. g # 0 /\ o # 0 /\ o = first
  BY <1>1
<1>4. g \in DOMAIN Games /\ Games[g].id = p
  <2>1. GI # {}
    BY <1>3
  <2>2. GI \subseteq Nat
    BY <1>2
  <2> HIDE DEF GI
  <2>3. g \in GI
    BY <2>1, <2>2, MinIs
  <2> QED BY <1>2, <2>3, TheGames DEF GI
<1> HIDE DEF g
<1>5. Len(Curated[g]) \in Nat /\ DOMAIN Curated[g] = 1 .. Len(Curated[g])
  BY <1>4, TheOptions, LenProperties
<1>6. first \in DOMAIN Curated[g] /\ Curated[g][first].key = k
  <2>1. OI # {}
    BY <1>3
  <2>2. OI \subseteq Nat
    BY <1>5
  <2> HIDE DEF OI
  <2>3. first \in OI
    BY <2>1, <2>2, MinIs
  <2> QED BY <1>5, <2>3 DEF OI
<1> HIDE DEF o, first
<1>7. MetaFor(p, k)[1] = Curated[g][o]
  BY <1>1, <1>3
<1> QED BY <1>3, <1>4, <1>6, <1>7

(* A heading that is not the fallback is the title of a section that has   *)
(* the key.                                                                *)
LEMMA HeadingIs ==
  ASSUME NEW p, NEW k, SectionOf(p, k, "Other") # "Other"
  PROVE  \E g \in DOMAIN Games : \E j \in DOMAIN Games[g].sections :
           /\ Games[g].id = p /\ SectionOf(p, k, "Other") = Games[g].sections[j].title
           /\ k \in Range(Games[g].sections[j].keys)
<1>1. MetaFor(p, k) # <<>> /\ SectionOf(p, k, "Other") = MetaFor(p, k)[1].section
  BY DEF SectionOf
<1>2. PICK g \in DOMAIN Games : \E o \in DOMAIN Curated[g] :
        /\ Games[g].id = p /\ Curated[g][o].key = k
        /\ MetaFor(p, k)[1] = Curated[g][o]
  BY <1>1, MetaIs
<1>3. PICK o \in DOMAIN Curated[g] :
        /\ Games[g].id = p /\ Curated[g][o].key = k
        /\ MetaFor(p, k)[1] = Curated[g][o]
  BY <1>2
<1>4. Curated[g][o] \in OptionsIn(Games[g])
  BY TheOptions, ElementOfSeq, LenProperties
<1>5. PICK j \in DOMAIN Games[g].sections :
        /\ Curated[g][o].section = Games[g].sections[j].title
        /\ Curated[g][o].key \in Range(Games[g].sections[j].keys)
  BY <1>4 DEF OptionsIn
<1> QED BY <1>1, <1>3, <1>5

(* Both groupings, whatever the report has.                                *)
LEMMA BothGroup ==
  ASSUME NEW R, NEW rows \in Seq(R), NEW name
  PROVE  /\ Groups(OtherLast(Grouped(rows, name), "Other"), rows, name)
         /\ \A i \in DOMAIN OtherLast(Grouped(rows, name), "Other") :
              \E k \in Range(rows) : OtherLast(Grouped(rows, name), "Other")[i].name = name[k]
<1> DEFINE own == Range(rows)
           N == {name[k] : k \in own}
           es == Grouped(rows, name)
<1>1. rows \in Seq(own) /\ \A k \in own : name[k] \in N
  BY OwnElements
<1> HIDE DEF own, N
<1>2. es \in Seq(Sections(own, N)) /\ Grouping(es, rows, name)
  BY <1>1, GroupedIs
<1> HIDE DEF es
<1>3. /\ Groups(OtherLast(es, "Other"), rows, name)
      /\ \A i \in DOMAIN OtherLast(es, "Other") :
           \E k \in Range(rows) : OtherLast(es, "Other")[i].name = name[k]
  BY <1>2, SortGroups
<1> QED BY <1>3 DEF es

LEMMA TemplatesGroup ==
  ASSUME NEW i \in DOMAIN Games
  PROVE  WellGroupedTemplate(i)
<1>1. Curated[i] \in Seq(OptionsIn(Games[i]))
  BY TheOptions
<1> QED BY <1>1, BothGroup DEF TemplateSections, WellGroupedTemplate

LEMMA ReportsGroup ==
  ASSUME NEW p \in Fingerprints
  PROVE  WellGrouped(p)
<1> DEFINE sections == ReportSections(p, Options)
           name == Headings(p, Options)
<1>1. Options \in Seq(STRING)
  BY SettingsAssumption
<1>2. /\ Groups(sections, Options, name)
      /\ \A i \in DOMAIN sections : \E k \in Range(Options) : sections[i].name = name[k]
  BY <1>1, BothGroup DEF ReportSections
<1>3. \A k \in Range(Options) : name[k] = SectionOf(p, k, "Other")
  BY DEF Headings
<1> HIDE DEF sections, name
<1>4. ASSUME NEW i \in DOMAIN sections, NEW g \in DOMAIN Games,
             Games[g].id = p, sections[i].name # "Other"
      PROVE  \E j \in DOMAIN Games[g].sections :
               /\ Games[g].sections[j].title = sections[i].name
               /\ Range(sections[i].rows) \subseteq Range(Games[g].sections[j].keys)
  <2>1. ASSUME NEW k \in Range(Options), name[k] = sections[i].name
        PROVE  \E j \in DOMAIN Games[g].sections :
                 Games[g].sections[j].title = sections[i].name /\ k \in Range(Games[g].sections[j].keys)
    <3>1. SectionOf(p, k, "Other") = sections[i].name
      BY <1>3, <2>1
    <3>2. PICK h \in DOMAIN Games : \E j \in DOMAIN Games[h].sections :
            /\ Games[h].id = p /\ SectionOf(p, k, "Other") = Games[h].sections[j].title
            /\ k \in Range(Games[h].sections[j].keys)
      BY <1>4, <3>1, HeadingIs
    <3>3. h = g
      BY <1>4, <3>2, GameIsOne
    <3> QED BY <3>1, <3>2, <3>3
  <2>2. PICK first \in Range(Options) : sections[i].name = name[first]
    BY <1>2
  <2>3. PICK j \in DOMAIN Games[g].sections : Games[g].sections[j].title = sections[i].name
    BY <2>1, <2>2
  <2> DEFINE those == {k \in Range(Options) : name[k] = sections[i].name}
  <2>4. sections[i].rows = Among(Options, those)
    BY <1>2 DEF Groups
  <2>5. ASSUME NEW k \in Range(sections[i].rows)
        PROVE  k \in Range(Games[g].sections[j].keys)
    <3> DEFINE r == Among(Options, those)
    <3>1. PICK n \in DOMAIN r : k = r[n]
      BY <2>4 DEF Range
    <3>2. Keeps(r, Options, Len(Options), those)
      BY <1>1, AmongKeeps
    <3> HIDE DEF r
    <3>3. k \in those
      BY <3>1, <3>2 DEF Keeps
    <3>4. PICK x \in DOMAIN Games[g].sections :
            Games[g].sections[x].title = sections[i].name /\ k \in Range(Games[g].sections[x].keys)
      BY <2>1, <3>3
    <3>5. x = j
      BY <2>3, <3>4, TheSections
    <3> QED BY <3>4, <3>5
  <2> QED BY <2>3, <2>5
<1> QED BY <1>2, <1>4 DEF WellGrouped, sections, name

(* Every option of a report or of a template is on the screen once, in     *)
(* order, under the heading the catalogue has for it, or else under the    *)
(* last one: whatever options the server reports, in any order.            *)
THEOREM OptionsAreGrouped == PanelsSpec => []SectionsAgree
<1>1. PanelsInv => SectionsAgree
  BY TemplatesGroup, ReportsGroup
     DEF PanelsInv, TypeOK, SettingsTypeOK, SectionsAgree
<1> QED BY <1>1, PanelsPromises, PTL

=============================================================================
