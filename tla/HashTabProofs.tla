---------------------------- MODULE HashTabProofs ----------------------------
(***************************************************************************)
(* A search of the hash table finds the newest layer, for every table,     *)
(* pathname and number of layers.                                          *)
(*                                                                         *)
(* What the carrot is (CarrotIsLayers) is not inductive as it stands: that *)
(* the layers left out of it need not be looked at follows from its last   *)
(* entry alone, which CarrotOK says.  That carrot_insert never meets the   *)
(* same element twice is ScanInv.                                          *)
(***************************************************************************)
EXTENDS HashTab, SequenceTheorems, TLAPS

(* c is the carrot of the elements M: newest first, all but the last with  *)
(* exceptions; an element that is not in it is older than its last one,    *)
(* which has no exceptions.                                                *)
CarrotOK(c, M) ==
    /\ \A i, j \in 1 .. Len(c) : i < j => c[i].epoch > c[j].epoch
    /\ \A i \in 1 .. Len(c) : c[i] \in M /\ (i < Len(c) => c[i].exc)
    /\ \A f \in M : \/ \E i \in 1 .. Len(c) : c[i] = f
                    \/ Len(c) > 0 /\ ~c[Len(c)].exc /\ c[Len(c)].epoch > f.epoch

(* Where an element the scan has met was.                                  *)
Behind(e, k) ==
    \/ Len(e.path) < scan.len
    \/ Len(e.path) = scan.len /\ (k < scan.i \/ (k = scan.i /\ scan.phase # "insert"))

ScanInv ==
    /\ scan = Idle => met = {} /\ carrot = <<>>
    /\ scan # Idle => \A e \in met : \E k \in 1 .. Len(tab) : e = tab[k]
    /\ scan.phase \in {"scan", "insert"} =>
          /\ \A e \in met : \E k \in 1 .. Len(tab) : e = tab[k] /\ Behind(e, k)
          /\ refused = {} /\ rv = {}
    /\ scan.phase = "scan" => cur = 1
    /\ scan.phase = "insert" =>
          /\ scan.i \in 1 .. Len(tab) /\ Len(tab[scan.i].path) = scan.len
          /\ \A j \in 1 .. cur - 1 : carrot[j].exc /\ Newer(carrot[j], tab[scan.i])

ConfirmInv ==
    /\ scan.phase \in {"confirm", "done"} =>
          /\ refused = {carrot[i] : i \in 1 .. cur - 1}
          /\ \A i \in 1 .. cur - 1 : carrot[i].exc
    /\ scan.phase = "confirm" => rv = {}
    /\ scan.phase = "done" =>
          \/ cur <= Len(carrot) /\ rv = {carrot[cur]}
          \/ cur = Len(carrot) + 1 /\ rv = {}

IInv == TypeOK /\ TimesDiffer /\ CarrotOK(carrot, met) /\ ScanInv /\ ConfirmInv

-----------------------------------------------------------------------------
(* The entries of a carrot after an insertion.                             *)
LEMMA PutFacts ==
  ASSUME NEW c \in Seq(Elem), NEW e \in Elem, NEW k \in 1 .. Len(c) + 1
  PROVE  /\ put(c, e, k) \in Seq(Elem)
         /\ Len(put(c, e, k)) = IF e.exc THEN Len(c) + 1 ELSE k
         /\ \A n \in 1 .. Len(put(c, e, k)) :
               put(c, e, k)[n] = IF n < k THEN c[n] ELSE IF n = k THEN e ELSE c[n - 1]
<1> DEFINE a == SubSeq(c, 1, k - 1)
           z == IF e.exc THEN SubSeq(c, k, Len(c)) ELSE <<>>
           ae == a \o <<e>>
<1>1. /\ a \in Seq(Elem) /\ Len(a) = k - 1
      /\ \A n \in 1 .. k - 1 : a[n] = c[n]
  BY SubSeqProperties
<1>2. /\ z \in Seq(Elem) /\ Len(z) = IF e.exc THEN Len(c) + 1 - k ELSE 0
      /\ \A n \in 1 .. Len(z) : z[n] = c[n + k - 1]
  <2>1. CASE e.exc
    <3>1. SubSeq(c, k, Len(c)) \in Seq(Elem) /\ Len(SubSeq(c, k, Len(c))) = Len(c) + 1 - k
      BY SubSeqProperties
    <3>2. \A n \in 1 .. Len(c) + 1 - k : SubSeq(c, k, Len(c))[n] = c[n + k - 1]
      BY SubSeqProperties
    <3> QED
      BY Zenon, <2>1, <3>1, <3>2
  <2>2. CASE ~e.exc
    BY <2>2
  <2> QED
    BY Zenon, <2>1, <2>2
<1>3. /\ ae \in Seq(Elem) /\ Len(ae) = k
      /\ \A n \in 1 .. k : ae[n] = IF n < k THEN c[n] ELSE e
  <2> HIDE DEF a
  <2> QED
    BY <1>1
<1>4. put(c, e, k) = ae \o z
  BY Zenon DEF put
<1> HIDE DEF a, z, ae
<1>5. /\ ae \o z \in Seq(Elem) /\ Len(ae \o z) = Len(ae) + Len(z)
      /\ \A n \in 1 .. Len(ae) + Len(z) : (ae \o z)[n] = IF n <= Len(ae) THEN ae[n] ELSE z[n - Len(ae)]
  BY Zenon, <1>2, <1>3, ConcatProperties
<1>6. Len(ae \o z) = IF e.exc THEN Len(c) + 1 ELSE k
  BY <1>2, <1>3, <1>5
<1>7. ASSUME NEW n \in 1 .. Len(ae \o z)
      PROVE  (ae \o z)[n] = IF n < k THEN c[n] ELSE IF n = k THEN e ELSE c[n - 1]
  <2>1. CASE n <= k
    BY <1>3, <1>5, <2>1
  <2>2. CASE n > k
    <3>1. n - k \in 1 .. Len(z) /\ (ae \o z)[n] = z[n - k]
      BY <1>2, <1>3, <1>5, <2>2
    <3>2. z[n - k] = c[n - k + k - 1]
      BY Zenon, <1>2, <3>1
    <3>3. n - k + k - 1 = n - 1
      OBVIOUS
    <3> QED
      BY <2>2, <3>1, <3>2, <3>3
  <2> QED
    BY <2>1, <2>2
<1> QED
  BY Zenon, <1>4, <1>5, <1>6, <1>7

(* carrot_insert keeps the carrot, wherever it stops.                      *)
LEMMA InsertKeeps ==
  ASSUME NEW M \in SUBSET Elem, NEW c \in Seq(Elem), CarrotOK(c, M),
         NEW e \in Elem, \A f \in M : f.epoch # e.epoch,
         NEW k \in 1 .. Len(c) + 1,
         \A j \in 1 .. k - 1 : c[j].exc /\ Newer(c[j], e),
         ~(k <= Len(c) /\ Newer(c[k], e) /\ c[k].exc)
  PROVE  CarrotOK(IF k <= Len(c) /\ Newer(c[k], e) THEN c ELSE put(c, e, k), M \cup {e})
<1>0. /\ Len(c) \in Nat /\ e.epoch \in Int /\ \A f \in M : f.epoch \in Int
      /\ \A i \in 1 .. Len(c) : c[i] \in M /\ c[i].epoch \in Int /\ c[i].epoch # e.epoch
      /\ \A i \in 1 .. Len(c) : i < Len(c) => c[i].exc
  BY DEF Elem, CarrotOK
<1>1. CASE k <= Len(c) /\ Newer(c[k], e)
  <2>1. k = Len(c) /\ ~c[k].exc
    BY <1>0, <1>1
  <2>2. c[k].epoch > e.epoch
    BY <1>0, <1>1 DEF Newer
  <2> QED
    BY <1>1, <2>1, <2>2 DEF CarrotOK
<1>2. CASE ~(k <= Len(c) /\ Newer(c[k], e))
  <2> DEFINE d == put(c, e, k)
  <2>1. /\ d \in Seq(Elem) /\ Len(d) = IF e.exc THEN Len(c) + 1 ELSE k
        /\ \A n \in 1 .. Len(d) :
              d[n] = IF n < k THEN c[n] ELSE IF n = k THEN e ELSE c[n - 1]
    BY PutFacts
  <2> HIDE DEF d
  <2>2. \A i \in 1 .. k - 1 : c[i].epoch > e.epoch
    BY <1>0 DEF Newer
  <2>3. \A i \in k .. Len(c) : e.epoch > c[i].epoch
    <3> SUFFICES ASSUME NEW i \in k .. Len(c) PROVE e.epoch > c[i].epoch
      BY Zenon
    <3>1. e.epoch > c[k].epoch /\ c[k].epoch \in Int /\ c[i].epoch \in Int
      BY <1>0, <1>2 DEF Newer
    <3>2. i = k \/ c[k].epoch > c[i].epoch
      BY <1>0 DEF CarrotOK
    <3> QED
      BY <1>0, <3>1, <3>2
  <2>4. ASSUME NEW i \in 1 .. Len(d), NEW j \in 1 .. Len(d), i < j
        PROVE  d[i].epoch > d[j].epoch
    <3>0. \A n \in 1 .. Len(d) : /\ n < k => n \in 1 .. Len(c) /\ d[n] = c[n]
                                 /\ n = k => d[n] = e
                                 /\ n > k => n - 1 \in k .. Len(c) /\ d[n] = c[n - 1]
      BY <1>0, <2>1
    <3>1. CASE j < k
      <4>1. /\ i \in 1 .. Len(c) /\ d[i] = c[i]
            /\ j \in 1 .. Len(c) /\ d[j] = c[j]
        BY <2>4, <3>0, <3>1
      <4> QED
        BY Zenon, <2>4, <4>1 DEF CarrotOK
    <3>2. CASE j = k
      <4>1. i \in 1 .. k - 1 /\ d[i] = c[i] /\ d[j] = e
        BY <2>4, <3>0, <3>2
      <4> QED
        BY Zenon, <2>2, <4>1
    <3>3. CASE j > k /\ i = k
      <4>1. j - 1 \in k .. Len(c) /\ d[j] = c[j - 1] /\ d[i] = e
        BY Zenon, <3>0, <3>3
      <4> QED
        BY Zenon, <2>3, <4>1
    <3>4. CASE j > k /\ i > k
      <4>1. /\ i - 1 \in 1 .. Len(c) /\ j - 1 \in 1 .. Len(c) /\ i - 1 < j - 1
            /\ d[i] = c[i - 1] /\ d[j] = c[j - 1]
        BY <2>4, <3>0, <3>4
      <4> QED
        BY Zenon, <4>1 DEF CarrotOK
    <3>5. CASE j > k /\ i < k
      <4>1. /\ i \in 1 .. Len(c) /\ j - 1 \in 1 .. Len(c) /\ i < j - 1
            /\ d[i] = c[i] /\ d[j] = c[j - 1]
        BY <2>4, <3>0, <3>5
      <4> QED
        BY Zenon, <4>1 DEF CarrotOK
    <3> QED
      BY <3>1, <3>2, <3>3, <3>4, <3>5
  <2>5. ASSUME NEW i \in 1 .. Len(d)
        PROVE  d[i] \in M \cup {e} /\ (i < Len(d) => d[i].exc)
    <3>1. CASE i < k
      <4>1. i \in 1 .. Len(c) /\ i \in 1 .. k - 1 /\ d[i] = c[i]
        BY <1>0, <2>1, <3>1
      <4> QED
        BY Zenon, <1>0, <4>1
    <3>2. CASE i = k
      BY <1>0, <2>1, <3>2
    <3>3. CASE i > k
      <4>1. i - 1 \in 1 .. Len(c) /\ (i < Len(d) => i - 1 < Len(c)) /\ d[i] = c[i - 1]
        BY <1>0, <2>1, <3>3
      <4> QED
        BY Zenon, <1>0, <4>1
    <3> QED
      BY <3>1, <3>2, <3>3
  <2>6. ASSUME NEW f \in M \cup {e}
        PROVE  \/ \E i \in 1 .. Len(d) : d[i] = f
               \/ Len(d) > 0 /\ ~d[Len(d)].exc /\ d[Len(d)].epoch > f.epoch
    <3>0. k \in 1 .. Len(d) /\ d[k] = e
      BY <1>0, <2>1
    <3>1. CASE f = e
      BY Zenon, <3>0, <3>1
    <3>2. ASSUME NEW i \in 1 .. Len(c), c[i] = f PROVE <2>6!2
      <4>1. CASE i < k
        BY <1>0, <2>1, <3>2, <4>1
      <4>2. CASE i >= k /\ e.exc
        <5>1. i + 1 \in 1 .. Len(d) /\ d[i + 1] = c[i]
          BY <1>0, <2>1, <4>2
        <5> QED
          BY Zenon, <3>2, <5>1
      <4>3. CASE i >= k /\ ~e.exc
        BY <1>0, <2>1, <2>3, <3>0, <3>2, <4>3
      <4> QED
        BY <1>0, <4>1, <4>2, <4>3
    <3>3. ASSUME f \in M, Len(c) > 0, ~c[Len(c)].exc, c[Len(c)].epoch > f.epoch PROVE <2>6!2
      <4>1. k <= Len(c)
        BY <1>0, <3>3
      <4>2. CASE e.exc
        BY <1>0, <2>1, <3>3, <4>1, <4>2
      <4>3. CASE ~e.exc
        <5>1. e.epoch > c[Len(c)].epoch /\ c[Len(c)].epoch \in Int /\ f.epoch \in Int
          BY <1>0, <2>3, <3>3, <4>1
        <5> QED
          BY <1>0, <2>1, <3>0, <3>3, <4>3, <5>1
      <4> QED
        BY Zenon, <4>2, <4>3
    <3> QED
      BY Zenon, <3>1, <3>2, <3>3 DEF CarrotOK
  <2>7. CarrotOK(d, M \cup {e})
    BY Zenon, <2>4, <2>5, <2>6 DEF CarrotOK
  <2> QED
    BY Zenon, <1>2, <2>7 DEF d
<1> QED
  BY Zenon, <1>1, <1>2

-----------------------------------------------------------------------------
(* The elements of the table and their fields.                             *)
LEMMA ElemFacts ==
  ASSUME IInv, NEW n \in 1 .. Len(tab)
  PROVE  /\ tab[n] \in Elem /\ tab[n].epoch \in Int /\ tab[n].path \in Seq(STRING)
         /\ Len(tab) \in Nat
<1>1. tab[n] \in Elem
  BY DEF IInv, TypeOK
<1>2. tab[n].path \in {m.path : m \in Mounts} /\ tab[n].epoch \in 2 .. MaxEpoch
  BY Zenon, <1>1 DEF Elem
<1>3. tab[n].path \in Seq(STRING)
  BY Zenon, <1>2, ConstAssumption
<1> QED
  BY <1>1, <1>2, <1>3 DEF IInv, TypeOK

(* The table is empty and no search is in progress.                        *)
LEMMA InitInv == Init => IInv
<1> SUFFICES ASSUME Init PROVE IInv
  BY Zenon
<1> USE DEF Init, Idle
<1>1. TypeOK
  BY ConstAssumption DEF TypeOK
<1>2. TimesDiffer /\ CarrotOK(carrot, met)
  BY DEF TimesDiffer, CarrotOK
<1>3. ScanInv /\ ConfirmInv
  BY Zenon DEF ScanInv, ConfirmInv
<1> QED
  BY Zenon, <1>1, <1>2, <1>3 DEF IInv

(* The steps that change the table are taken when no search is in          *)
(* progress, so only the table matters.                                    *)
LEMMA TableStep ==
  ASSUME IInv, scan = Idle, UNCHANGED <<scan, found>>, tab' \in Seq(Elem),
         epoch_now' \in 2 .. MaxEpoch, TimesDiffer'
  PROVE  IInv'
<1> USE DEF found
<1>1. TypeOK'
  BY Zenon DEF IInv, TypeOK
<1>2. CarrotOK(carrot, met)'
  BY Zenon DEF IInv, CarrotOK
<1>3. ScanInv'
  BY Zenon DEF IInv, ScanInv, Idle
<1>4. ConfirmInv'
  BY Zenon DEF IInv, ConfirmInv, Idle
<1> QED
  BY Zenon, <1>1, <1>2, <1>3, <1>4 DEF IInv

(* An element is added, with an epoch no other has.                        *)
LEMMA AddInv ==
  ASSUME IInv, NEW m \in Mounts, internal_ht_tab_add(m)
  PROVE  IInv'
<1> DEFINE e == [path |-> m.path, epoch |-> epoch_now, trail |-> m.trail, exc |-> m.exc,
                 match |-> m.match, invalid |-> FALSE]
<1>1. e \in Elem /\ epoch_now \in Int /\ epoch_now + 1 \in 2 .. MaxEpoch /\ e.epoch = epoch_now
  BY ConstAssumption DEF internal_ht_tab_add, IInv, TypeOK, Elem
<1>2. tab \in Seq(Elem) /\ tab' = <<e>> \o tab /\ epoch_now' = epoch_now + 1
  BY Zenon DEF internal_ht_tab_add, IInv, TypeOK
<1> HIDE DEF e
<1>3. /\ tab' \in Seq(Elem) /\ Len(tab') = Len(tab) + 1
      /\ \A n \in 1 .. Len(tab') : tab'[n] = IF n = 1 THEN e ELSE tab[n - 1]
  BY <1>1, <1>2
<1>4. TimesDiffer'
  <2>1. \A n \in 1 .. Len(tab') : n > 1 => n - 1 \in 1 .. Len(tab) /\ tab'[n] = tab[n - 1]
    BY <1>2, <1>3
  <2>2. \A n \in 1 .. Len(tab) : tab[n].epoch < epoch_now /\ tab[n].epoch \in Int
    BY Zenon, ElemFacts DEF IInv, TimesDiffer
  <2>3. ASSUME NEW i \in 1 .. Len(tab'), NEW j \in 1 .. Len(tab'), i # j
        PROVE  tab'[i].epoch # tab'[j].epoch
    <3>1. CASE i = 1
      BY <1>1, <1>3, <2>1, <2>2, <2>3, <3>1
    <3>2. CASE j = 1
      BY <1>1, <1>3, <2>1, <2>2, <2>3, <3>2
    <3>3. CASE i > 1 /\ j > 1
      <4>1. i - 1 # j - 1 /\ tab'[i] = tab[i - 1] /\ tab'[j] = tab[j - 1]
        BY <2>1, <2>3, <3>3
      <4> QED
        BY <2>1, <3>3, <4>1 DEF IInv, TimesDiffer
    <3> QED
      BY <3>1, <3>2, <3>3
  <2>4. ASSUME NEW i \in 1 .. Len(tab') PROVE tab'[i].epoch < epoch_now'
    <3>1. CASE i = 1
      BY <1>1, <1>2, <1>3, <3>1
    <3>2. CASE i > 1
      BY <1>1, <1>2, <2>1, <2>2, <3>2
    <3> QED
      BY <3>1, <3>2
  <2> QED
    BY Zenon, <2>3, <2>4 DEF TimesDiffer
<1> QED
  BY Zenon, <1>1, <1>2, <1>3, <1>4, TableStep DEF internal_ht_tab_add

(* ht_renew: an element gets a new epoch.                                  *)
LEMMA RenewInv ==
  ASSUME IInv, NEW i \in 1 .. Len(tab), ht_renew(i)
  PROVE  IInv'
<1> DEFINE e == [tab[i] EXCEPT !.epoch = epoch_now, !.match = TRUE]
<1>0. tab[i] \in Elem /\ epoch_now \in 2 .. MaxEpoch /\ epoch_now + 1 \in 2 .. MaxEpoch
  BY ElemFacts, ConstAssumption DEF ht_renew, IInv, TypeOK
<1>1. e \in Elem /\ epoch_now \in Int /\ epoch_now + 1 \in 2 .. MaxEpoch /\ e.epoch = epoch_now
  <2>1. [tab[i] EXCEPT !.epoch = epoch_now] \in Elem
    BY Zenon, <1>0 DEF Elem
  <2>2. e = [[tab[i] EXCEPT !.epoch = epoch_now] EXCEPT !.match = TRUE]
    BY Zenon, <1>0 DEF Elem
  <2>3. e \in Elem
    BY Zenon, <2>1, <2>2 DEF Elem
  <2>4. e.epoch = epoch_now
    BY Zenon, <1>0 DEF Elem
  <2> QED
    BY <1>0, <2>3, <2>4
<1>2. tab \in Seq(Elem) /\ tab' = [tab EXCEPT ![i] = e] /\ epoch_now' = epoch_now + 1
  BY Zenon DEF ht_renew, IInv, TypeOK
<1> HIDE DEF e
<1>3. /\ tab' \in Seq(Elem) /\ Len(tab') = Len(tab)
      /\ \A n \in 1 .. Len(tab) : tab'[n] = IF n = i THEN e ELSE tab[n]
  BY <1>1, <1>2
<1>4. TimesDiffer'
  <2>1. \A n \in 1 .. Len(tab) : tab[n].epoch < epoch_now /\ tab[n].epoch \in Int
    BY Zenon, ElemFacts DEF IInv, TimesDiffer
  <2>2. \A n, j \in 1 .. Len(tab) : n # j => tab[n].epoch # tab[j].epoch
    BY Zenon DEF IInv, TimesDiffer
  <2>3. \A n, j \in 1 .. Len(tab) : n # j => tab'[n].epoch # tab'[j].epoch
    BY <1>1, <1>3, <2>1, <2>2
  <2>4. \A n \in 1 .. Len(tab) : tab'[n].epoch < epoch_now'
    BY <1>1, <1>2, <1>3, <2>1
  <2> QED
    BY Zenon, <1>3, <2>3, <2>4 DEF TimesDiffer
<1> QED
  BY Zenon, <1>1, <1>2, <1>3, <1>4, TableStep DEF ht_renew

(* ht_tab_invalidate changes no epoch.                                     *)
LEMMA InvalidateInv ==
  ASSUME IInv, NEW i \in 1 .. Len(tab), ht_tab_invalidate(i)
  PROVE  IInv'
<1> DEFINE e == [tab[i] EXCEPT !.invalid = TRUE]
<1>1. e \in Elem /\ e.epoch = tab[i].epoch
  BY Zenon, ElemFacts DEF Elem
<1>2. tab \in Seq(Elem) /\ tab' = [tab EXCEPT ![i] = e]
  BY Zenon DEF ht_tab_invalidate, IInv, TypeOK
<1> HIDE DEF e
<1>3. /\ tab' \in Seq(Elem) /\ Len(tab') = Len(tab)
      /\ \A n \in 1 .. Len(tab) : tab'[n].epoch = tab[n].epoch
  BY <1>1, <1>2
<1>4. TimesDiffer' /\ epoch_now' \in 2 .. MaxEpoch
  BY <1>3 DEF ht_tab_invalidate, IInv, TypeOK, TimesDiffer
<1> QED
  BY Zenon, <1>3, <1>4, TableStep DEF ht_tab_invalidate

(* An element is taken out; those behind it move up.                       *)
LEMMA DelInv ==
  ASSUME IInv, NEW i \in 1 .. Len(tab), ht_tab_del(i)
  PROVE  IInv'
<1> DEFINE a == SubSeq(tab, 1, i - 1)
           z == SubSeq(tab, i + 1, Len(tab))
<1>0. tab \in Seq(Elem) /\ Len(tab) \in Nat /\ tab' = a \o z
  BY DEF ht_tab_del, IInv, TypeOK
<1>1. a \in Seq(Elem) /\ Len(a) = i - 1 /\ \A n \in 1 .. i - 1 : a[n] = tab[n]
  BY <1>0, SubSeqProperties
<1>2. /\ z \in Seq(Elem) /\ Len(z) = Len(tab) - i
      /\ \A n \in 1 .. Len(tab) - i : z[n] = tab[n + i]
  <2>1. z \in Seq(Elem) /\ Len(z) = Len(tab) - i
    BY <1>0, SubSeqProperties
  <2>2. ASSUME NEW n \in 1 .. Len(tab) - i PROVE z[n] = tab[n + i]
    <3>1. z[n] = tab[i + 1 + n - 1]
      BY <1>0, SubSeqProperties
    <3> QED
      BY <1>0, <3>1
  <2> QED
    BY Zenon, <2>1, <2>2
<1> HIDE DEF a, z
<1>3. /\ tab' \in Seq(Elem) /\ Len(tab') = Len(tab) - 1
      /\ \A n \in 1 .. Len(tab') : tab'[n] = IF n < i THEN tab[n] ELSE tab[n + 1]
  <2>1. /\ a \o z \in Seq(Elem) /\ Len(a \o z) = Len(a) + Len(z)
        /\ \A n \in 1 .. Len(a) + Len(z) : (a \o z)[n] = IF n <= Len(a) THEN a[n] ELSE z[n - Len(a)]
    BY Zenon, <1>1, <1>2, ConcatProperties
  <2>2. Len(a \o z) = Len(tab) - 1
    BY <1>0, <1>1, <1>2, <2>1
  <2>3. ASSUME NEW n \in 1 .. Len(tab) - 1
        PROVE  (a \o z)[n] = IF n < i THEN tab[n] ELSE tab[n + 1]
    <3>1. CASE n < i
      BY <1>0, <1>1, <1>2, <2>1, <3>1
    <3>2. CASE ~(n < i)
      <4>1. n - (i - 1) \in 1 .. Len(tab) - i /\ (a \o z)[n] = z[n - (i - 1)]
        BY SMTT(20), <1>0, <1>1, <1>2, <2>1, <3>2
      <4>2. n - (i - 1) + i = n + 1
        BY <1>0
      <4> QED
        BY Zenon, <1>2, <3>2, <4>1, <4>2
    <3> QED
      BY Zenon, <3>1, <3>2
  <2> QED
    BY Zenon, <1>0, <2>1, <2>2, <2>3
<1>4. TimesDiffer' /\ epoch_now' \in 2 .. MaxEpoch
  <2>1. \A n \in 1 .. Len(tab') :
           \E k \in 1 .. Len(tab) : tab'[n] = tab[k] /\ k = IF n < i THEN n ELSE n + 1
    <3> SUFFICES ASSUME NEW n \in 1 .. Len(tab')
                 PROVE  \E k \in 1 .. Len(tab) :
                           tab'[n] = tab[k] /\ k = IF n < i THEN n ELSE n + 1
      BY Zenon
    <3>1. n \in 1 .. Len(tab) /\ n + 1 \in 1 .. Len(tab)
      BY <1>0, <1>3
    <3> QED
      BY Zenon, <1>3, <3>1
  <2>2. ASSUME NEW n \in 1 .. Len(tab'), NEW j \in 1 .. Len(tab'), n # j
        PROVE  tab'[n].epoch # tab'[j].epoch
    <3>1. PICK k \in 1 .. Len(tab) : tab'[n] = tab[k] /\ k = IF n < i THEN n ELSE n + 1
      BY Zenon, <2>1
    <3>2. PICK l \in 1 .. Len(tab) : tab'[j] = tab[l] /\ l = IF j < i THEN j ELSE j + 1
      BY Zenon, <2>1
    <3>3. k # l
      BY <2>2, <3>1, <3>2
    <3> QED
      BY Zenon, <3>1, <3>2, <3>3 DEF IInv, TimesDiffer
  <2>3. \A n \in 1 .. Len(tab') : tab'[n].epoch < epoch_now'
    BY Zenon, <2>1 DEF ht_tab_del, IInv, TimesDiffer
  <2> QED
    BY Zenon, <2>2, <2>3 DEF ht_tab_del, IInv, TypeOK, TimesDiffer
<1> QED
  BY Zenon, <1>3, <1>4, TableStep DEF ht_tab_del

-----------------------------------------------------------------------------
(* The steps of a search leave the table alone.                            *)
LEMMA ScanFacts ==
  ASSUME IInv, scan.phase # "idle"
  PROVE  /\ scan \in Scan /\ scan # Idle /\ scan.path \in Seq(STRING)
         /\ scan.len \in Nat /\ scan.i \in Nat /\ scan.len <= Len(scan.path)
         /\ scan.i <= Len(tab) /\ Len(tab) \in Nat
<1>1. scan # Idle
  BY DEF Idle
<1>2. scan \in Scan /\ scan.len <= Len(scan.path) /\ scan.i <= Len(tab)
  BY Zenon, <1>1 DEF IInv, TypeOK
<1>3. scan.path \in SearchPaths /\ scan.len \in Nat /\ scan.i \in Nat
  BY Zenon, <1>2 DEF Scan
<1>4. scan.path \in Seq(STRING)
  BY Zenon, <1>3, ConstAssumption
<1> QED
  BY <1>1, <1>2, <1>3, <1>4 DEF IInv, TypeOK

(* A step that leaves the table alone.                                     *)
LEMMA SameTable ==
  ASSUME IInv, UNCHANGED <<tab, epoch_now>>
  PROVE  TimesDiffer' /\ tab' \in Seq(Elem) /\ epoch_now' \in 2 .. MaxEpoch
  BY DEF IInv, TimesDiffer, TypeOK

(* A search begins: the carrot is empty.                                   *)
LEMMA CheckInv ==
  ASSUME IInv, NEW p \in SearchPaths, NEW x \in BOOLEAN, NEW lim \in 2 .. epoch_now,
         ht_check(p, x, lim)
  PROVE  IInv'
<1> USE DEF ht_check
<1>1. p \in Seq(STRING) /\ lim \in 2 .. MaxEpoch
  BY ConstAssumption DEF IInv, TypeOK
<1>2. /\ scan' \in Scan /\ scan'.phase = "scan" /\ scan'.len = 0 /\ scan'.i = 0 /\ scan'.path = p
      /\ scan' # Idle
  BY Zenon, <1>1 DEF Scan, Idle
<1>3. TypeOK'
  BY <1>1, <1>2, SameTable DEF TypeOK
<1>4. CarrotOK(carrot, met)'
  BY DEF CarrotOK
<1>5. ScanInv' /\ ConfirmInv'
  BY Zenon, <1>2 DEF ScanInv, ConfirmInv
<1> QED
  BY Zenon, <1>3, <1>4, <1>5, SameTable DEF IInv

(* The scan meets an element that applies, one it has not met before.      *)
LEMMA HitInv ==
  ASSUME IInv, scan_hit
  PROVE  IInv'
<1>0. /\ scan.phase = "scan" /\ cur = 1 /\ cur' = 1
      /\ UNCHANGED <<tab, epoch_now, carrot, rv, met, refused>>
  BY Zenon DEF scan_hit, IInv, ScanInv
<1>1. PICK j \in Hits : scan' = [scan EXCEPT !.phase = "insert", !.i = j]
  BY Zenon DEF scan_hit
<1>2. j \in scan.i + 1 .. Len(tab) /\ Hit(tab[j], scan.path, scan.len, scan.lim)
  BY Zenon, <1>1 DEF Hits
<1>3. /\ scan \in Scan /\ scan.path \in Seq(STRING) /\ scan.len \in Nat /\ scan.i \in Nat
      /\ scan.len <= Len(scan.path) /\ Len(tab) \in Nat /\ scan # Idle
  BY Zenon, <1>0, ScanFacts
<1>4. /\ scan' \in Scan /\ scan'.phase = "insert" /\ scan'.i = j /\ scan'.len = scan.len
      /\ scan'.path = scan.path /\ scan' # Idle
  <2>1. j \in Nat
    BY <1>2, <1>3
  <2>2. scan' = [phase |-> "insert", path |-> scan.path, exact |-> scan.exact,
                 lim |-> scan.lim, len |-> scan.len, i |-> j]
    BY Zenon, <1>1, <1>3 DEF Scan
  <2> QED
    BY Zenon, <1>3, <2>1, <2>2 DEF Scan, Idle
<1>5. Len(tab[j].path) = scan.len
  BY <1>2, <1>3, SubSeqProperties DEF Hit
<1>6. TypeOK'
  BY <1>0, <1>2, <1>3, <1>4, SameTable DEF IInv, TypeOK
<1>7. CarrotOK(carrot, met)'
  BY Zenon, <1>0 DEF IInv, CarrotOK
<1>8. \A e \in met : \E k \in 1 .. Len(tab) : e = tab[k] /\ Behind(e, k)'
  <2> SUFFICES ASSUME NEW e \in met
               PROVE  \E k \in 1 .. Len(tab) : e = tab[k] /\ Behind(e, k)'
    BY Zenon
  <2>1. PICK k \in 1 .. Len(tab) : e = tab[k] /\ Behind(e, k)
    BY Zenon, <1>0 DEF IInv, ScanInv
  <2>2. scan.i < j /\ j \in Nat /\ k \in Nat
    BY <1>2, <1>3
  <2>3. k < scan.i \/ k = scan.i => k < j
    BY <1>3, <2>2
  <2>4. Len(e.path) < scan'.len \/ (Len(e.path) = scan'.len /\ k < scan'.i)
    BY Zenon, <1>4, <2>1, <2>3 DEF Behind
  <2>5. Behind(e, k)'
    BY Zenon, <2>4 DEF Behind
  <2> QED
    BY Zenon, <2>1, <2>5
<1>9. ScanInv'
  BY <1>0, <1>2, <1>3, <1>4, <1>5, <1>8 DEF IInv, ScanInv
<1>10. ConfirmInv'
  BY Zenon, <1>4 DEF ConfirmInv
<1> QED
  BY Zenon, <1>0, <1>6, <1>7, <1>9, <1>10, SameTable DEF IInv

(* carrot_insert goes past an entry that is newer and has exceptions.      *)
LEMMA PassInv ==
  ASSUME IInv, scan.phase = "insert", insert_pass(tab[scan.i]),
         UNCHANGED <<tab, epoch_now, rv, refused>>
  PROVE  IInv'
<1> USE DEF insert_pass
<1>1. TypeOK'
  BY SameTable DEF IInv, TypeOK
<1>2. CarrotOK(carrot, met)'
  BY Zenon DEF IInv, CarrotOK
<1>3. \A j \in 1 .. cur' - 1 : carrot[j].exc /\ Newer(carrot[j], tab[scan.i])
  BY DEF IInv, TypeOK, ScanInv
<1>4. ScanInv'
  BY <1>3 DEF IInv, ScanInv, Behind, Idle
<1>5. ConfirmInv'
  BY Zenon DEF ConfirmInv
<1> QED
  BY Zenon, <1>1, <1>2, <1>4, <1>5, SameTable DEF IInv

(* carrot_insert stops: the element is put in, or left out for good.       *)
LEMMA HereInv ==
  ASSUME IInv, scan.phase = "insert", insert_here(tab[scan.i]),
         UNCHANGED <<tab, epoch_now, rv, refused>>
  PROVE  IInv'
<1>0. /\ scan \in Scan /\ scan.len \in Nat /\ scan.i \in Nat /\ scan.len <= Len(scan.path)
      /\ scan.i \in 1 .. Len(tab) /\ Len(tab[scan.i].path) = scan.len /\ scan # Idle
      /\ scan.i <= Len(tab) /\ Len(tab) \in Nat
  BY Zenon, ScanFacts DEF IInv, ScanInv
<1>1. PICK e \in Elem : e = tab[scan.i]
  BY Zenon, <1>0, ElemFacts
<1>2. /\ scan' \in Scan /\ scan'.phase = "scan" /\ scan'.i = scan.i /\ scan'.len = scan.len
      /\ scan'.path = scan.path /\ scan' # Idle /\ cur' = 1 /\ met' = met \cup {e}
  BY Zenon, <1>0, <1>1 DEF insert_here, Scan, Idle
<1>3. \A f \in met : f.epoch # e.epoch
  <2> SUFFICES ASSUME NEW f \in met PROVE f.epoch # e.epoch
    BY Zenon
  <2>1. PICK k \in 1 .. Len(tab) : f = tab[k] /\ Behind(f, k)
    BY Zenon DEF IInv, ScanInv
  <2>2. k # scan.i
    BY <1>0, <2>1 DEF Behind
  <2> QED
    BY Zenon, <1>0, <1>1, <2>1, <2>2 DEF IInv, TimesDiffer
<1>4. /\ met \in SUBSET Elem /\ carrot \in Seq(Elem) /\ CarrotOK(carrot, met)
      /\ cur \in 1 .. Len(carrot) + 1
      /\ \A j \in 1 .. cur - 1 : carrot[j].exc /\ Newer(carrot[j], e)
      /\ ~(cur <= Len(carrot) /\ Newer(carrot[cur], e) /\ carrot[cur].exc)
      /\ carrot' = IF cur <= Len(carrot) /\ Newer(carrot[cur], e)
                   THEN carrot ELSE put(carrot, e, cur)
  BY Zenon, <1>1 DEF insert_here, IInv, TypeOK, ScanInv
<1>5. CarrotOK(carrot', met')
  BY Zenon, <1>2, <1>3, <1>4, InsertKeeps
<1>6. carrot' \in Seq(Elem)
  BY Zenon, <1>4, PutFacts
<1>7. TypeOK'
  BY <1>0, <1>2, <1>6, SameTable DEF IInv, TypeOK
<1>8. \A f \in met' : \E k \in 1 .. Len(tab) : f = tab[k] /\ Behind(f, k)'
  <2> SUFFICES ASSUME NEW f \in met'
               PROVE  \E k \in 1 .. Len(tab) : f = tab[k] /\ Behind(f, k)'
    BY Zenon
  <2>1. CASE f = e
    <3>1. PICK k \in 1 .. Len(tab) : k = scan.i
      BY Zenon, <1>0
    <3>2. Behind(f, k)'
      BY Zenon, <1>0, <1>1, <1>2, <2>1, <3>1 DEF Behind
    <3> QED
      BY Zenon, <1>1, <2>1, <3>1, <3>2
  <2>2. CASE f \in met
    <3>1. PICK k \in 1 .. Len(tab) : f = tab[k] /\ Behind(f, k)
      BY Zenon, <2>2 DEF IInv, ScanInv
    <3>2. Behind(f, k)'
      BY Zenon, <1>2, <3>1 DEF Behind
    <3> QED
      BY Zenon, <3>1, <3>2
  <2> QED
    BY Zenon, <1>2, <2>1, <2>2
<1>9. ScanInv'
  BY Zenon, <1>2, <1>8 DEF IInv, ScanInv
<1>10. ConfirmInv'
  BY Zenon, <1>2 DEF ConfirmInv
<1>11. CarrotOK(carrot, met)'
  BY Zenon, <1>5 DEF CarrotOK
<1> QED
  BY Zenon, <1>7, <1>9, <1>10, <1>11, SameTable DEF IInv

(* The scan goes on to the next element, the next prefix, or ends.         *)
LEMMA NextInv ==
  ASSUME IInv, scan_next
  PROVE  IInv'
<1>0. /\ scan \in Scan /\ scan.len \in Nat /\ scan.i \in Nat /\ scan.len <= Len(scan.path)
      /\ scan.path \in Seq(STRING) /\ scan # Idle /\ Len(tab) \in Nat
      /\ scan.i <= Len(tab) /\ scan.phase = "scan" /\ cur = 1
      /\ UNCHANGED <<tab, epoch_now, carrot, cur, rv, met, refused>>
  BY Zenon, ScanFacts DEF scan_next, found, IInv, ScanInv
<1>1. CarrotOK(carrot, met)'
  BY Zenon, <1>0 DEF IInv, CarrotOK
<1>2. CASE scan.len < Len(scan.path)
  <2>1. scan' = [phase |-> "scan", path |-> scan.path, exact |-> scan.exact,
                 lim |-> scan.lim, len |-> scan.len + 1, i |-> 0]
    BY Zenon, <1>0, <1>2 DEF scan_next, Scan
  <2>2. /\ scan' \in Scan /\ scan'.phase = "scan" /\ scan'.len = scan.len + 1 /\ scan'.i = 0
        /\ scan'.path = scan.path /\ scan' # Idle /\ scan.len + 1 <= Len(scan.path)
    BY <1>0, <1>2, <2>1 DEF Scan, Idle
  <2>3. TypeOK'
    BY <1>0, <2>2, SameTable DEF IInv, TypeOK
  <2>4. \A e \in met : \E k \in 1 .. Len(tab) : e = tab[k] /\ Behind(e, k)'
    <3> SUFFICES ASSUME NEW e \in met
                 PROVE  \E k \in 1 .. Len(tab) : e = tab[k] /\ Behind(e, k)'
      BY Zenon
    <3>1. PICK k \in 1 .. Len(tab) : e = tab[k] /\ Behind(e, k)
      BY Zenon, <1>0 DEF IInv, ScanInv
    <3>2. Len(e.path) \in Nat
      BY <3>1, ElemFacts
    <3>3. Len(e.path) < scan'.len
      BY <1>0, <2>2, <3>1, <3>2 DEF Behind
    <3> QED
      BY Zenon, <3>1, <3>3 DEF Behind
  <2>5. ScanInv'
    BY <1>0, <2>2, <2>4 DEF IInv, ScanInv
  <2>6. ConfirmInv'
    BY Zenon, <2>2 DEF ConfirmInv
  <2> QED
    BY Zenon, <1>0, <1>1, <2>3, <2>5, <2>6, SameTable DEF IInv
<1>3. CASE ~(scan.len < Len(scan.path))
  <2>1. scan' = [scan EXCEPT !.phase = "confirm"]
    BY Zenon, <1>3 DEF scan_next
  <2>2. /\ scan' \in Scan /\ scan'.phase = "confirm" /\ scan'.len = scan.len /\ scan'.i = scan.i
        /\ scan'.path = scan.path /\ scan' # Idle
    BY Zenon, <1>0, <2>1 DEF Scan, Idle
  <2>3. TypeOK'
    BY Zenon, <1>0, <2>2, SameTable DEF IInv, TypeOK
  <2>4. ScanInv'
    BY Zenon, <1>0, <2>2 DEF IInv, ScanInv
  <2>5. ConfirmInv'
    BY <1>0, <2>2 DEF IInv, ScanInv, ConfirmInv
  <2> QED
    BY Zenon, <1>0, <1>1, <2>3, <2>4, <2>5, SameTable DEF IInv
<1> QED
  BY Zenon, <1>2, <1>3

(* A layer is asked whether it takes the pathname.                         *)
LEMMA ConfirmStepInv ==
  ASSUME IInv, confirm
  PROVE  IInv'
<1>0. /\ scan \in Scan /\ scan # Idle /\ Len(tab) \in Nat /\ scan.phase = "confirm"
      /\ cur \in 1 .. Len(carrot) /\ carrot \in Seq(Elem) /\ Len(carrot) \in Nat
      /\ UNCHANGED <<tab, epoch_now, carrot, met>>
  BY ScanFacts DEF confirm, IInv, TypeOK
<1>1. CarrotOK(carrot, met)'
  BY Zenon, <1>0 DEF IInv, CarrotOK
<1>2. CASE rv' = {carrot[cur]} /\ scan' = [scan EXCEPT !.phase = "done"] /\ UNCHANGED <<cur, refused>>
  <2>1. /\ scan' \in Scan /\ scan'.phase = "done" /\ scan'.len = scan.len /\ scan'.i = scan.i
        /\ scan'.path = scan.path /\ scan' # Idle
    BY Zenon, <1>0, <1>2 DEF Scan, Idle
  <2>2. carrot[cur] \in Elem
    BY <1>0
  <2>3. TypeOK'
    BY Zenon, <1>0, <1>2, <2>1, <2>2, SameTable DEF IInv, TypeOK
  <2>4. ScanInv'
    BY Zenon, <1>0, <1>2, <2>1 DEF IInv, ScanInv
  <2>5. ConfirmInv'
    BY <1>0, <1>2, <2>1 DEF IInv, ConfirmInv
  <2> QED
    BY Zenon, <1>0, <1>1, <2>3, <2>4, <2>5, SameTable DEF IInv
<1>3. CASE /\ carrot[cur].exc /\ refused' = refused \cup {carrot[cur]} /\ cur' = cur + 1
           /\ UNCHANGED <<rv, scan>>
  <2>1. carrot[cur] \in Elem
    BY <1>0
  <2>2. TypeOK'
    BY <1>0, <1>3, <2>1, SameTable DEF IInv, TypeOK
  <2>3. ScanInv'
    BY Zenon, <1>0, <1>3 DEF IInv, ScanInv
  <2>4. /\ refused = {carrot[i] : i \in 1 .. cur - 1} /\ rv = {}
        /\ \A i \in 1 .. cur - 1 : carrot[i].exc
    BY Zenon, <1>0 DEF IInv, ConfirmInv
  <2>5. 1 .. cur' - 1 = (1 .. cur - 1) \cup {cur}
    BY <1>0, <1>3
  <2>6. refused' = {carrot[i] : i \in 1 .. cur' - 1} /\ \A i \in 1 .. cur' - 1 : carrot[i].exc
    BY Zenon, <1>3, <2>4, <2>5
  <2>7. ConfirmInv'
    BY Zenon, <1>0, <1>3, <2>4, <2>6 DEF ConfirmInv
  <2> QED
    BY Zenon, <1>0, <1>1, <2>2, <2>3, <2>7, SameTable DEF IInv
<1> QED
  BY Zenon, <1>2, <1>3 DEF confirm

(* No layer takes it.                                                      *)
LEMMA NoneInv ==
  ASSUME IInv, confirm_none
  PROVE  IInv'
<1>0. /\ scan \in Scan /\ scan # Idle /\ Len(tab) \in Nat /\ scan.phase = "confirm"
      /\ cur = Len(carrot) + 1
      /\ UNCHANGED <<tab, epoch_now, carrot, cur, rv, met, refused>>
  BY ScanFacts DEF confirm_none, found, IInv, TypeOK
<1>1. CarrotOK(carrot, met)'
  BY Zenon, <1>0 DEF IInv, CarrotOK
<1>2. /\ scan' \in Scan /\ scan'.phase = "done" /\ scan'.len = scan.len /\ scan'.i = scan.i
      /\ scan'.path = scan.path /\ scan' # Idle
  BY Zenon, <1>0 DEF confirm_none, Scan, Idle
<1>3. TypeOK'
  BY Zenon, <1>0, <1>2, SameTable DEF IInv, TypeOK
<1>4. ScanInv'
  BY Zenon, <1>0, <1>2 DEF IInv, ScanInv
<1>5. ConfirmInv'
  BY Zenon, <1>0, <1>2 DEF IInv, ConfirmInv
<1> QED
  BY Zenon, <1>0, <1>1, <1>3, <1>4, <1>5, SameTable DEF IInv

(* The search returns and frees the carrot.                                *)
LEMMA ReturnInv ==
  ASSUME IInv, search_return
  PROVE  IInv'
<1> USE DEF search_return, Idle
<1>1. TypeOK'
  BY SameTable DEF TypeOK
<1>2. CarrotOK(carrot, met)'
  BY DEF CarrotOK
<1>3. ScanInv' /\ ConfirmInv'
  BY Zenon DEF ScanInv, ConfirmInv
<1> QED
  BY Zenon, <1>1, <1>2, <1>3, SameTable DEF IInv

(* A step that changes nothing.                                            *)
LEMMA StutterInv ==
  ASSUME IInv, UNCHANGED vars
  PROVE  IInv'
<1> USE DEF vars
<1>1. TypeOK' /\ TimesDiffer'
  BY Zenon DEF IInv, TypeOK, TimesDiffer
<1>2. CarrotOK(carrot, met)'
  BY Zenon DEF IInv, CarrotOK
<1>3. ScanInv' /\ ConfirmInv'
  BY DEF IInv, ScanInv, ConfirmInv, Behind
<1> QED
  BY Zenon, <1>1, <1>2, <1>3 DEF IInv

(* The invariant holds of every reachable state.                           *)
LEMMA Invariance == Spec => []IInv
<1>1. IInv /\ [Next]_vars => IInv'
  BY Zenon, AddInv, RenewInv, InvalidateInv, DelInv, CheckInv, HitInv, PassInv, HereInv, NextInv,
     ConfirmStepInv, NoneInv, ReturnInv, StutterInv DEF Next, carrot_insert
<1> QED
  BY <1>1, InitInv, PTL DEF Spec

-----------------------------------------------------------------------------
(* Types, for every table and every sequence of searches.                  *)
THEOREM TypeCorrect == Spec => []TypeOK
<1>1. IInv => TypeOK
  BY Zenon DEF IInv
<1> QED
  BY <1>1, Invariance, PTL

(* get_epoch gives every element of the table a time of its own.           *)
THEOREM TimesAlwaysDiffer == Spec => []TimesDiffer
<1>1. IInv => TimesDiffer
  BY Zenon DEF IInv
<1> QED
  BY <1>1, Invariance, PTL

(* carrot_insert builds what the comment of hashtab.c:115 says, whatever   *)
(* the order in which the scan meets the layers.                           *)
THEOREM CarrotAlwaysLayers == Spec => []CarrotIsLayers
<1>1. IInv => CarrotIsLayers
  <2> SUFFICES ASSUME IInv PROVE CarrotIsLayers
    BY Zenon
  <2> DEFINE R == {carrot[i] : i \in 1 .. Len(carrot)}
             L == {e \in met : \A f \in met : f.exc \/ f.epoch <= e.epoch}
  <2>0. /\ CarrotOK(carrot, met) /\ carrot \in Seq(Elem) /\ Len(carrot) \in Nat
        /\ \A e \in met : e.epoch \in Int
    BY DEF IInv, TypeOK, Elem
  <2>1. ASSUME NEW e \in R PROVE e \in L
    <3>1. PICK i \in 1 .. Len(carrot) : e = carrot[i]
      BY Zenon
    <3>2. \A j \in 1 .. Len(carrot) : ~carrot[j].exc => j = Len(carrot)
      BY <2>0 DEF CarrotOK
    <3>3. e \in met /\ carrot[Len(carrot)].epoch <= e.epoch /\ carrot[Len(carrot)] \in met
      BY <2>0, <3>1 DEF CarrotOK
    <3>4. ASSUME NEW f \in met, ~f.exc PROVE f.epoch <= e.epoch
      <4>1. CASE \E j \in 1 .. Len(carrot) : carrot[j] = f
        BY Zenon, <3>2, <3>3, <3>4, <4>1
      <4>2. CASE carrot[Len(carrot)].epoch > f.epoch
        BY <2>0, <3>3, <4>2
      <4> QED
        BY Zenon, <2>0, <4>1, <4>2 DEF CarrotOK
    <3> QED
      BY Zenon, <3>3, <3>4
  <2>2. ASSUME NEW e \in L PROVE e \in R
    <3>1. CASE \E j \in 1 .. Len(carrot) : carrot[j] = e
      BY Zenon, <3>1
    <3>2. CASE Len(carrot) > 0 /\ ~carrot[Len(carrot)].exc /\ carrot[Len(carrot)].epoch > e.epoch
      <4>1. carrot[Len(carrot)] \in met
        BY <2>0, <3>2 DEF CarrotOK
      <4> QED
        BY <2>0, <3>2, <4>1
    <3> QED
      BY Zenon, <2>0, <3>1, <3>2 DEF CarrotOK
  <2>3. R = L
    BY Zenon, <2>1, <2>2
  <2> QED
    BY Zenon, <2>0, <2>3 DEF CarrotIsLayers, CarrotOK
<1> QED
  BY <1>1, Invariance, PTL

(* ht_tab_internal_search returns the newest of the layers it met that did *)
(* not refuse.                                                             *)
THEOREM SearchFindsNewest == Spec => []NewestLayerWins
<1>1. IInv => NewestLayerWins
  <2> SUFFICES ASSUME IInv, scan.phase = "done"
               PROVE  /\ \A e \in rv : /\ e \in met \ refused
                                        /\ \A f \in met \ refused : f.epoch <= e.epoch
                      /\ rv = {} => met \subseteq refused
    BY Zenon DEF NewestLayerWins
  <2>0. /\ CarrotOK(carrot, met) /\ carrot \in Seq(Elem) /\ Len(carrot) \in Nat
        /\ \A e \in met : e.epoch \in Int
        /\ cur \in 1 .. Len(carrot) + 1
    BY DEF IInv, TypeOK, Elem
  <2>1. /\ refused = {carrot[i] : i \in 1 .. cur - 1}
        /\ \A i \in 1 .. cur - 1 : carrot[i].exc
        /\ \/ cur <= Len(carrot) /\ rv = {carrot[cur]}
           \/ cur = Len(carrot) + 1 /\ rv = {}
    BY Zenon DEF IInv, ConfirmInv
  <2>2. CASE cur <= Len(carrot) /\ rv = {carrot[cur]}
    <3>1. cur \in 1 .. Len(carrot) /\ carrot[cur] \in met
      BY <2>0, <2>2 DEF CarrotOK
    <3>2. ASSUME NEW i \in 1 .. cur - 1 PROVE carrot[i] # carrot[cur]
      <4>1. carrot[i].epoch > carrot[cur].epoch /\ carrot[cur].epoch \in Int
        BY <2>0, <3>1 DEF CarrotOK
      <4> QED
        BY <4>1
    <3>3. \A i \in cur .. Len(carrot) : carrot[i].epoch <= carrot[cur].epoch /\ carrot[i] \in met
      BY <2>0, <3>1 DEF CarrotOK
    <3>4. ASSUME NEW f \in met \ refused PROVE f.epoch <= carrot[cur].epoch
      <4>1. CASE \E i \in 1 .. Len(carrot) : carrot[i] = f
        <5>1. PICK i \in 1 .. Len(carrot) : carrot[i] = f
          BY Zenon, <4>1
        <5>2. i \in cur .. Len(carrot)
          BY <2>0, <2>1, <5>1
        <5> QED
          BY Zenon, <3>3, <5>1, <5>2
      <4>2. CASE carrot[Len(carrot)].epoch > f.epoch
        <5>1. carrot[Len(carrot)].epoch <= carrot[cur].epoch /\ carrot[Len(carrot)] \in met
          BY <2>0, <3>1, <3>3
        <5> QED
          BY <2>0, <3>1, <4>2, <5>1
      <4> QED
        BY Zenon, <2>0, <4>1, <4>2 DEF CarrotOK
    <3> QED
      BY Zenon, <2>1, <2>2, <3>1, <3>2, <3>4
  <2>3. CASE cur = Len(carrot) + 1 /\ rv = {}
    <3>1. \A i \in 1 .. Len(carrot) : carrot[i] \in refused /\ carrot[i].exc
      BY <2>0, <2>1, <2>3
    <3>2. ASSUME NEW f \in met PROVE f \in refused
      BY <2>0, <3>1 DEF CarrotOK
    <3> QED
      BY Zenon, <2>3, <3>2
  <2> QED
    BY Zenon, <2>1, <2>2, <2>3
<1> QED
  BY <1>1, Invariance, PTL
=============================================================================
