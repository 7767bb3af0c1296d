------------------------- MODULE ProfileFormProofs -------------------------
(* RowIsWhole for any number of windows, of requests and of discoveries.   *)
EXTENDS ProfileForm, SequenceTheorems, TLAPS

(* Taking a request from a window's requests leaves requests.              *)
LEMMA RemoveAtSeq ==
  ASSUME NEW S, NEW s \in Seq(S), NEW i \in DOMAIN s
  PROVE  RemoveAt(s, i) \in Seq(S)
<1>1. i \in 1 .. Len(s) /\ Len(s) \in Nat
  BY LenProperties
<1>2. \A j \in 1 .. Len(s) : s[j] \in S
  BY ElementOfSeq
<1>3. SubSeq(s, 1, i - 1) \in Seq(S)
  <2>1. \A j \in 1 .. (i - 1) : s[j] \in S
    BY <1>1, <1>2
  <2> QED BY <1>1, <2>1, SubSeqProperties
<1>4. SubSeq(s, i + 1, Len(s)) \in Seq(S)
  <2>1. \A j \in (i + 1) .. Len(s) : s[j] \in S
    BY <1>1, <1>2
  <2> QED BY <1>1, <2>1, SubSeqProperties
<1> QED BY <1>3, <1>4, ConcatProperties DEF RemoveAt

(* Neither does their dialog's end make them anything else.                *)
LEMMA OrphanedSeq ==
  ASSUME NEW s \in Seq(Requests)
  PROVE  Orphaned(s) \in Seq(Requests)
<1>1. DOMAIN s = 1 .. Len(s) /\ Len(s) \in Nat
  BY LenProperties
<1>2. ASSUME NEW i \in 1 .. Len(s)
      PROVE  [s[i] EXCEPT !.mine = FALSE] \in Requests
  <2>1. s[i] \in Requests
    BY ElementOfSeq
  <2> QED BY <2>1 DEF Requests
<1> QED BY <1>1, <1>2, IsASeq DEF Orphaned

(* A request whose state changes is a request.                             *)
LEMMA StateChanges ==
  ASSUME DialogInv, NEW w \in Windows, NEW i \in DOMAIN saves[w],
         NEW x \in {"sent", "ok", "failed"}
  PROVE  [saves EXCEPT ![w][i].state = x] \in [Windows -> Seq(Requests)]
<1>1. saves[w] \in Seq(Requests)
  BY DEF DialogInv
<1>2. i \in 1 .. Len(saves[w]) /\ saves[w][i] \in Requests
  BY <1>1, ElementOfSeq, LenProperties
<1>3. [saves[w][i] EXCEPT !.state = x] \in Requests
  BY <1>2 DEF Requests
<1>4. [saves[w] EXCEPT ![i] = [saves[w][i] EXCEPT !.state = x]] \in Seq(Requests)
  BY <1>1, <1>2, <1>3, ExceptSeq
<1> QED BY <1>4 DEF DialogInv

(* What a dialog sends can be stored.                                      *)
LEMMA BodyIsOne ==
  ASSUME FormAssumption, NEW fields \in Fields, Valid(fields)
  PROVE  Body(fields) \in Bodies
BY FormAssumption DEF Fields, Valid, Body, Bodies

(* A step that leaves the row, the cache, the runs and the history alone.  *)
LEMMA FormsOnly ==
  ASSUME FormInv, UNCHANGED <<row, runVars, saved, loose>>, DialogInv'
  PROVE  FormInv'
BY DEF FormInv, RowIsWhole, StoringInv, Storing, runVars, FieldsOf

(* The steps of a window.                                                  *)
LEMMA DialogStep ==
  ASSUME FormAssumption, FormInv, NEW w \in Windows, Dialog(w)
  PROVE  FormInv'
<1> USE DEF FormInv
<1>1. CASE Refresh(w)
  <2>1. DialogInv'
    BY <1>1 DEF Refresh, DialogInv, RowIsWhole
  <2> QED BY <1>1, <2>1, FormsOnly DEF Refresh
<1>2. CASE Open(w)
  <2>1. FieldsOf(shown[w]) \in Fields
    BY DEF DialogInv, FieldsOf, Fields, Rows
  <2>2. DialogInv'
    BY <1>2, <2>1 DEF Open, DialogInv
  <2> QED BY <1>2, <2>2, FormsOnly DEF Open
<1>3. CASE Edit(w)
  <2>1. form[w] \in Fields
    BY <1>3 DEF Edit, DialogInv
  <2>2. PICK f \in Fields : form' = [form EXCEPT ![w] = f]
    <3>1. CASE \E a \in Addrs : form' = [form EXCEPT ![w].addr = a]
      <4>1. PICK a \in Addrs : form' = [form EXCEPT ![w].addr = a]
        BY <3>1
      <4>2. [form[w] EXCEPT !.addr = a] \in Fields
        BY <2>1 DEF Fields
      <4> QED BY <4>1, <4>2
    <3>2. CASE form' = [form EXCEPT ![w].tls = ~@]
      <4>1. [form[w] EXCEPT !.tls = ~@] \in Fields
        BY <2>1 DEF Fields
      <4> QED BY <3>2, <4>1
    <3>3. CASE \E n \in Names : form' = [form EXCEPT ![w].name = n]
      <4>1. PICK n \in Names : form' = [form EXCEPT ![w].name = n]
        BY <3>3
      <4>2. [form[w] EXCEPT !.name = n] \in Fields
        BY <2>1 DEF Fields
      <4> QED BY <4>1, <4>2
    <3> QED BY <1>3, <3>1, <3>2, <3>3 DEF Edit
  <2>3. DialogInv'
    BY <1>3, <2>2 DEF Edit, DialogInv
  <2> QED BY <1>3, <2>3, FormsOnly DEF Edit
<1>4. CASE Save(w)
  <2> DEFINE request == [body |-> Body(form[w]), state |-> "sent", mine |-> TRUE]
  <2>1. form[w] \in Fields /\ Valid(form[w])
    BY <1>4 DEF Save, DialogInv
  <2>2. request \in Requests
    BY <2>1, BodyIsOne DEF Requests
  <2>3. Append(saves[w], request) \in Seq(Requests)
    <3>1. saves[w] \in Seq(Requests)
      BY DEF DialogInv
    <3> HIDE DEF request
    <3> QED BY <2>2, <3>1, AppendProperties
  <2>4. DialogInv'
    BY <1>4, <2>3 DEF Save, DialogInv
  <2> QED BY <1>4, <2>4, FormsOnly DEF Save
<1>5. CASE Cancel(w)
  <2>1. Orphaned(saves[w]) \in Seq(Requests)
    BY OrphanedSeq DEF DialogInv
  <2>2. DialogInv'
    BY <1>5, <2>1 DEF Cancel, Closed, DialogInv
  <2> QED BY <1>5, <2>2, FormsOnly DEF Cancel
<1>6. ASSUME NEW i \in DOMAIN saves[w], Update(w, i)
      PROVE  FormInv'
  <2>1. saves[w][i] \in Requests
    BY ElementOfSeq, LenProperties DEF DialogInv
  <2>2. DialogInv'
    BY <1>6, StateChanges DEF Update, DialogInv
  <2>3. RowIsWhole'
    BY <1>6, <2>1, FormAssumption
    DEF Update, RowIsWhole, Overwrite, Requests, Bodies, Fields, Rows, FieldsOf
  <2>4. StoringInv'
    BY <1>6 DEF Update, StoringInv, Storing, runVars
  <2> QED BY <2>2, <2>3, <2>4
<1>7. ASSUME NEW i \in DOMAIN saves[w], Fail(w, i)
      PROVE  FormInv'
  <2>1. DialogInv'
    BY <1>7, StateChanges DEF Fail, DialogInv
  <2> QED BY <1>7, <2>1, FormsOnly DEF Fail
<1>8. ASSUME NEW i \in DOMAIN saves[w], Answer(w, i)
      PROVE  FormInv'
  <2>1. RemoveAt(saves[w], i) \in Seq(Requests)
    BY RemoveAtSeq DEF DialogInv
  <2>2. Orphaned(RemoveAt(saves[w], i)) \in Seq(Requests)
    BY <2>1, OrphanedSeq
  <2>3. DialogInv'
    BY <1>8, <2>1, <2>2 DEF Answer, Closed, DialogInv
  <2> QED BY <1>8, <2>3, FormsOnly DEF Answer
<1> QED BY <1>1, <1>2, <1>3, <1>4, <1>5, <1>6, <1>7, <1>8 DEF Dialog

(* The steps of a run of discovery.                                        *)
LEMMA DiscoveryStep ==
  ASSUME FormAssumption, FormInv, NEW r \in Runs, Discovery(r)
  PROVE  FormInv'
<1> USE DEF FormInv
<1>1. DialogInv'
  BY DEF Discovery, Probe, Cache, ReadGame, SetGame, StoreFails, formVars, DialogInv
<1>2. CASE Probe(r)
  <2>1. Storing' = Storing
    BY <1>2 DEF Probe, Storing, StoringInv
  <2>2. StoringInv'
    BY <1>2, <2>1, FormAssumption DEF Probe, StoringInv, Storing
  <2>3. RowIsWhole'
    BY <1>2, <2>1 DEF Probe, RowIsWhole, FieldsOf
  <2> QED BY <1>1, <2>2, <2>3
<1>3. CASE Cache(r)
  <2>1. Storing' = Storing \cup {r}
    BY <1>3 DEF Cache, Storing, StoringInv
  <2>2. StoringInv'
    BY <1>3, <2>1 DEF Cache, StoringInv, Storing
  <2>3. RowIsWhole'
    BY <1>3, <2>1 DEF Cache, RowIsWhole, FieldsOf
  <2> QED BY <1>1, <2>2, <2>3
<1>4. CASE ReadGame(r)
  <2>1. CASE row.game = found[r]
    <3>1. Storing' = Storing \ {r} /\ r \in Storing
      BY <1>4, <2>1 DEF ReadGame, Done, Storing, StoringInv
    <3>2. StoringInv'
      BY <1>4, <2>1, <3>1 DEF ReadGame, Done, StoringInv, Storing
    <3>3. RowIsWhole'
      BY <1>4, <2>1, <3>1 DEF ReadGame, Done, RowIsWhole, FieldsOf, StoringInv
    <3> QED BY <1>1, <3>2, <3>3
  <2>2. CASE row.game # found[r]
    <3>1. Storing' = Storing
      BY <1>4, <2>2 DEF ReadGame, Storing, StoringInv
    <3>2. StoringInv'
      BY <1>4, <2>2, <3>1 DEF ReadGame, StoringInv, Storing
    <3>3. RowIsWhole'
      BY <1>4, <2>2, <3>1 DEF ReadGame, RowIsWhole, FieldsOf
    <3> QED BY <1>1, <3>2, <3>3
  <2> QED BY <2>1, <2>2
<1>5. CASE SetGame(r)
  <2>1. Storing' = Storing \ {r} /\ r \in Storing
    BY <1>5 DEF SetGame, Done, Storing, StoringInv
  <2>2. StoringInv'
    BY <1>5, <2>1 DEF SetGame, Done, StoringInv, Storing
  <2>3. found[r] \in Prints
    BY <1>5 DEF SetGame, StoringInv
  <2>4. RowIsWhole'
    BY <1>5, <2>1, <2>3 DEF SetGame, Done, RowIsWhole, FieldsOf, StoringInv, Rows
  <2> QED BY <1>1, <2>2, <2>4
<1>6. CASE StoreFails(r)
  <2>1. StoringInv'
    BY <1>6 DEF StoreFails, Done, StoringInv, Storing
  <2>2. RowIsWhole'
    BY <1>6 DEF StoreFails, Done, RowIsWhole, FieldsOf
  <2> QED BY <1>1, <2>1, <2>2
<1> QED BY <1>2, <1>3, <1>4, <1>5, <1>6 DEF Discovery

(* Where the page and the daemon begin.                                    *)
LEMMA FormInit ==
  ASSUME FormAssumption, Init
  PROVE  FormInv
<1>1. RowIsWhole
  BY DEF Init, RowIsWhole
<1>2. DialogInv
  <2>1. << >> \in Seq(Requests)
    BY EmptySeq
  <2> QED BY <2>1 DEF Init, DialogInv
<1>3. StoringInv
  BY DEF Init, StoringInv, Storing
<1> QED BY <1>1, <1>2, <1>3 DEF FormInv

(* The fields of the row are always those of one saved form, no TLS name   *)
(* is stored without TLS, and a game that nothing has disturbed is that of *)
(* the cached report: for any windows, requests and runs of discovery.     *)
THEOREM RowStaysWhole == Spec => []RowIsWhole
<1>1. Init => FormInv
  BY FormAssumption, FormInit
<1>2. FormInv /\ [Next]_vars => FormInv'
  <2> SUFFICES ASSUME FormInv, [Next]_vars PROVE FormInv'
    OBVIOUS
  <2>1. CASE Next
    BY <2>1, FormAssumption, DialogStep, DiscoveryStep DEF Next
  <2>2. CASE UNCHANGED vars
    <3>1. DialogInv'
      BY <2>2 DEF vars, formVars, FormInv, DialogInv
    <3> QED BY <2>2, <3>1, FormsOnly DEF vars
  <2> QED BY <2>1, <2>2
<1>3. FormInv => RowIsWhole
  BY DEF FormInv
<1> QED BY <1>1, <1>2, <1>3, PTL DEF Spec

=============================================================================
