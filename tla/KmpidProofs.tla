----------------------------- MODULE KmpidProofs -----------------------------
(***************************************************************************)
(* The table of kmview_alloc.c implements KmpidSpec, for any number of     *)
(* threads and any size of a page.                                         *)
(*                                                                         *)
(* That a thread never gets the number of another one rests on the list of *)
(* free elements: it has every free element, once.  ListInv says this by   *)
(* the places of the elements in the list (pos), of which the head has the *)
(* highest.                                                                *)
(***************************************************************************)
EXTENDS Kmpid, TLAPS

Free(k) == k < km_nthread /\ km_thread[k] = NULL

LinkedDown(k) ==
    /\ next_kmpid[k] # -1 /\ Free(next_kmpid[k])
    /\ pos[next_kmpid[k]] = pos[k] - 1

OwnerInv ==
    /\ \A t \in Thread : kmpid[t] # -1 => kmpid[t] < km_nthread /\ km_thread[kmpid[t]] = t
    /\ \A k \in Slot : k < km_nthread /\ km_thread[k] # NULL =>
          km_thread[k] \in Thread /\ kmpid[km_thread[k]] = k

ListInv ==
    /\ km_freehead # -1 => Free(km_freehead)
    /\ \A k \in Slot : Free(k) => km_freehead # -1 /\ pos[k] <= pos[km_freehead]
    /\ \A k \in Slot : Free(k) /\ pos[k] = 0 => next_kmpid[k] = -1
    /\ \A k \in Slot : Free(k) /\ pos[k] # 0 => LinkedDown(k)
    /\ \A j, k \in Slot : Free(j) /\ Free(k) /\ pos[j] = pos[k] => j = k

IInv == TypeOK /\ OwnerInv /\ ListInv /\ InPages

-----------------------------------------------------------------------------
LEMMA InitInv == Init => IInv
<1> SUFFICES ASSUME Init PROVE IInv
  OBVIOUS
<1>1. TypeOK
  BY KmpidAssumption DEF Init, TypeOK, Slot
<1>2. OwnerInv /\ ListInv
  BY <1>1 DEF Init, OwnerInv, ListInv, Free, Slot
<1>3. InPages
  BY KmpidAssumption DEF Init, InPages
<1> QED
  BY <1>1, <1>2, <1>3 DEF IInv

(* The head of the list is taken out: the element after it is the highest  *)
(* of the others.                                                          *)
LEMMA StepAllocFree ==
  ASSUME IInv, NEW t \in Thread, AllocFree(t)
  PROVE  IInv'
<1>1. PICK h \in Slot : h = km_freehead
  BY DEF IInv, TypeOK, AllocFree, Slot
<1>2. /\ kmpid[t] = -1 /\ Free(h) /\ h < km_nthread
      /\ kmpid' = [kmpid EXCEPT ![t] = h] /\ km_thread' = [km_thread EXCEPT ![h] = t]
      /\ km_freehead' = next_kmpid[h]
      /\ UNCHANGED <<next_kmpid, km_nthread, km_nhead, km_maxhead, pos>>
  BY <1>1 DEF IInv, ListInv, AllocFree, Free, Slot
<1>3. TypeOK /\ TypeOK'
  BY <1>2 DEF IInv, TypeOK
<1>4. OwnerInv'
  <2>1. \A u \in Thread : kmpid[u] # h
    BY <1>2, KmpidAssumption DEF IInv, OwnerInv, Free, Slot
  <2>2. /\ kmpid'[t] = h /\ km_thread'[h] = t
        /\ \A u \in Thread \ {t} : kmpid'[u] = kmpid[u]
        /\ \A k \in Slot \ {h} : km_thread'[k] = km_thread[k]
    BY <1>2, <1>3 DEF TypeOK
  <2>3. ASSUME NEW u \in Thread, kmpid'[u] # -1
        PROVE  kmpid'[u] < km_nthread' /\ km_thread'[kmpid'[u]] = u
    <3>1. CASE u = t
      BY <1>2, <2>2, <3>1
    <3>2. CASE u # t
      BY <1>2, <1>3, <2>1, <2>2, <2>3, <3>2 DEF IInv, OwnerInv, TypeOK
    <3> QED
      BY <3>1, <3>2
  <2>4. ASSUME NEW k \in Slot, k < km_nthread', km_thread'[k] # NULL
        PROVE  km_thread'[k] \in Thread /\ kmpid'[km_thread'[k]] = k
    <3>1. CASE k = h
      BY <2>2, <3>1
    <3>2. CASE k # h
      BY <1>2, <2>2, <2>4, <3>2, KmpidAssumption DEF IInv, OwnerInv, Slot
    <3> QED
      BY <3>1, <3>2
  <2> QED
    BY <2>3, <2>4 DEF OwnerInv
<1>5. ListInv'
  <2>1. \A k \in Slot : Free(k)' <=> Free(k) /\ k # h
    BY <1>2, <1>3, KmpidAssumption DEF Free, TypeOK
  <2>2. \A k \in Slot : pos[k] \in Nat /\ pos'[k] = pos[k] /\ next_kmpid'[k] = next_kmpid[k]
                        /\ next_kmpid[k] \in Slot \cup {-1}
    BY <1>2, <1>3 DEF TypeOK
  <2>3. \A k \in Slot : Free(k) /\ k # h => pos[k] < pos[h]
    BY <1>1, <1>2, <2>2 DEF IInv, ListInv
  <2>4. CASE pos[h] = 0
    <3>1. \A k \in Slot : ~Free(k)'
      BY <2>1, <2>2, <2>3, <2>4
    <3>2. km_freehead' = -1
      BY <1>2, <2>4 DEF IInv, ListInv
    <3> QED
      BY <3>1, <3>2 DEF ListInv
  <2>5. CASE pos[h] # 0
    <3>1. PICK g \in Slot : /\ g = next_kmpid[h] /\ km_freehead' = g /\ Free(g)
                            /\ pos[g] = pos[h] - 1 /\ g # -1
      BY <1>2, <2>2, <2>5 DEF IInv, ListInv, LinkedDown
    <3>2. Free(g)'
      BY <2>1, <2>2, <3>1
    <3>3. ASSUME NEW k \in Slot, Free(k)'
          PROVE  /\ km_freehead' # -1 /\ pos'[k] <= pos'[km_freehead']
                 /\ pos'[k] = 0 => next_kmpid'[k] = -1
                 /\ pos'[k] # 0 => LinkedDown(k)'
      <4>1. Free(k) /\ k # h /\ pos[k] < pos[h]
        BY <2>1, <2>3, <3>3
      <4>2. pos'[k] <= pos'[km_freehead'] /\ km_freehead' # -1
        BY <2>2, <3>1, <4>1
      <4>3. pos[k] = 0 => next_kmpid'[k] = -1
        BY <2>2, <4>1 DEF IInv, ListInv
      <4>4. ASSUME pos[k] # 0
            PROVE  LinkedDown(k)'
        <5>1. PICK m \in Slot : /\ m = next_kmpid[k] /\ Free(m) /\ m # -1
                                /\ pos[m] = pos[k] - 1
          BY <2>2, <4>1, <4>4 DEF IInv, ListInv, LinkedDown
        <5>2. m # h
          BY <2>2, <4>1, <5>1
        <5>3. Free(m)' /\ next_kmpid'[k] = m /\ pos'[m] = pos[m] /\ pos'[k] = pos[k]
          BY <2>1, <2>2, <5>1, <5>2
        <5> QED
          BY Zenon, <5>1, <5>3 DEF LinkedDown, Free
      <4> QED
        BY Zenon, <2>2, <4>2, <4>3, <4>4
    <3>4. \A j, k \in Slot : Free(j)' /\ Free(k)' /\ pos'[j] = pos'[k] => j = k
      BY <2>1, <2>2 DEF IInv, ListInv
    <3>5. km_freehead' # -1 => Free(km_freehead)'
      BY Zenon, <3>1, <3>2 DEF Free
    <3> QED
      BY Zenon, <3>3, <3>4, <3>5 DEF ListInv, Free
  <2> QED
    BY <2>4, <2>5
<1>6. InPages'
  BY <1>2 DEF IInv, InPages
<1> QED
  BY <1>3, <1>4, <1>5, <1>6 DEF IInv

(* No element is free: the next number is new.                             *)
LEMMA StepAllocNew ==
  ASSUME IInv, NEW t \in Thread, AllocNew(t)
  PROVE  IInv' /\ \A k \in 0 .. km_nthread - 1 : km_thread[k] \in Thread
<1>1. PICK n \in Slot : n = km_nthread
  BY KmpidAssumption DEF IInv, TypeOK, AllocNew, Slot
<1>2. /\ kmpid[t] = -1 /\ km_nthread' = n + 1 /\ km_freehead = -1
      /\ kmpid' = [kmpid EXCEPT ![t] = n] /\ km_thread' = [km_thread EXCEPT ![n] = t]
      /\ UNCHANGED <<next_kmpid, km_freehead, pos>>
  BY <1>1 DEF IInv, TypeOK, AllocNew, Slot
<1>3. /\ km_nhead' \in Nat /\ km_maxhead' \in Nat /\ InPages'
  <2>1. /\ km_nhead \in Nat /\ km_maxhead \in Nat /\ ALLOCUNIT \in Nat \ {0} /\ n \in Nat
        /\ n <= km_nhead * ALLOCUNIT /\ km_nhead <= km_maxhead
    BY <1>1, KmpidAssumption DEF IInv, TypeOK, InPages, Slot
  <2>2. /\ km_nhead * ALLOCUNIT \in Nat
        /\ (km_nhead + 1) * ALLOCUNIT = km_nhead * ALLOCUNIT + ALLOCUNIT
    BY <2>1
  <2>3. CASE km_nhead * ALLOCUNIT < n + 1
    <3>1. km_nhead' = km_nhead + 1 /\ km_maxhead' \in {km_maxhead, km_maxhead + ALLOCUNIT}
          /\ (km_nhead >= km_maxhead => km_maxhead' = km_maxhead + ALLOCUNIT)
      BY <1>1, <2>3 DEF AllocNew
    <3>2. km_nhead' \in Nat /\ km_maxhead' \in Nat /\ km_nhead' <= km_maxhead'
      BY <2>1, <3>1
    <3>3. n + 1 <= km_nhead' * ALLOCUNIT
      BY <2>1, <2>2, <3>1
    <3> QED
      BY <1>2, <3>2, <3>3 DEF InPages
  <2>4. CASE ~(km_nhead * ALLOCUNIT < n + 1)
    <3>1. km_nhead' = km_nhead /\ km_maxhead' = km_maxhead
      BY <1>1, <2>4 DEF AllocNew
    <3> QED
      BY <1>2, <2>1, <2>2, <2>4, <3>1 DEF InPages
  <2> QED
    BY <2>3, <2>4
<1>4. \A k \in Slot : k < n => km_thread[k] \in Thread /\ kmpid[km_thread[k]] = k
  BY <1>1, <1>2 DEF IInv, OwnerInv, ListInv, Free
<1>5. TypeOK'
  BY <1>1, <1>2, <1>3, KmpidAssumption DEF IInv, TypeOK, Slot
<1>6. OwnerInv'
  <2>1. \A u \in Thread : kmpid[u] # n
    BY <1>1 DEF IInv, OwnerInv, Slot
  <2>2. /\ kmpid'[t] = n /\ km_thread'[n] = t
        /\ \A u \in Thread \ {t} : kmpid'[u] = kmpid[u]
        /\ \A k \in Slot \ {n} : km_thread'[k] = km_thread[k]
    BY <1>2 DEF IInv, TypeOK
  <2>3. ASSUME NEW u \in Thread, kmpid'[u] # -1
        PROVE  kmpid'[u] < km_nthread' /\ km_thread'[kmpid'[u]] = u
    <3>1. CASE u = t
      BY <1>2, <2>2, <3>1 DEF Slot
    <3>2. CASE u # t
      <4>1. kmpid'[u] = kmpid[u] /\ kmpid[u] \in Slot \ {n}
        BY <2>1, <2>2, <2>3, <3>2 DEF IInv, TypeOK
      <4> QED
        BY <1>1, <1>2, <2>2, <2>3, <4>1 DEF IInv, OwnerInv, Slot
    <3> QED
      BY <3>1, <3>2
  <2>4. ASSUME NEW k \in Slot, k < km_nthread'
        PROVE  km_thread'[k] \in Thread /\ kmpid'[km_thread'[k]] = k
    <3>1. CASE k = n
      BY <2>2, <3>1
    <3>2. CASE k # n
      <4>1. k < n /\ km_thread'[k] = km_thread[k]
        BY <1>2, <2>2, <2>4, <3>2 DEF Slot
      <4>2. km_thread[k] \in Thread /\ kmpid[km_thread[k]] = k /\ k # -1
        BY <1>4, <4>1 DEF Slot
      <4> QED
        BY <1>2, <2>2, <4>1, <4>2
    <3> QED
      BY <3>1, <3>2
  <2> QED
    BY <2>3, <2>4 DEF OwnerInv
<1>7. ListInv'
  <2>1. \A k \in Slot : ~Free(k)'
    <3>1. \A k \in Slot : k < n + 1 => k = n \/ k < n
      BY DEF Slot
    <3>2. \A k \in Slot : k < n + 1 => km_thread'[k] \in Thread
      <4>1. km_thread'[n] = t /\ \A k \in Slot \ {n} : km_thread'[k] = km_thread[k]
        BY <1>2 DEF IInv, TypeOK
      <4> QED
        BY Zenon, <1>4, <3>1, <4>1
    <3> QED
      BY Zenon, <1>2, <3>2, KmpidAssumption DEF Free
  <2>2. km_freehead' = -1
    BY <1>2
  <2> QED
    BY <2>1, <2>2 DEF ListInv
<1>8. \A k \in 0 .. km_nthread - 1 : km_thread[k] \in Thread
  <2>1. \A k \in 0 .. km_nthread - 1 : k \in Slot /\ k < n
    BY <1>1, KmpidAssumption DEF Slot
  <2> QED
    BY Zenon, <1>4, <2>1
<1> QED
  BY <1>3, <1>5, <1>6, <1>7, <1>8 DEF IInv

(* The element becomes the head, one place above the old one.              *)
LEMMA StepFree ==
  ASSUME IInv, NEW t \in Thread, kmpid_free(t)
  PROVE  IInv'
<1>1. PICK h \in Slot : h = kmpid[t] /\ h # -1
  BY DEF IInv, TypeOK, kmpid_free, Slot
<1>2. PICK d \in Nat : d = IF km_freehead = -1 THEN 0 ELSE pos[km_freehead] + 1
  BY DEF IInv, TypeOK
<1>3. /\ km_thread' = [km_thread EXCEPT ![h] = NULL]
      /\ next_kmpid' = [next_kmpid EXCEPT ![h] = km_freehead]
      /\ km_freehead' = h /\ pos' = [pos EXCEPT ![h] = d]
      /\ kmpid' = [kmpid EXCEPT ![t] = -1]
      /\ UNCHANGED <<km_nthread, km_nhead, km_maxhead>>
  BY <1>1, <1>2 DEF kmpid_free
<1>4. h < km_nthread /\ km_thread[h] = t /\ ~Free(h)
  BY <1>1, KmpidAssumption DEF IInv, OwnerInv, Free
<1>5. TypeOK'
  BY <1>3 DEF IInv, TypeOK
<1>6. /\ km_thread'[h] = NULL /\ next_kmpid'[h] = km_freehead /\ pos'[h] = d /\ kmpid'[t] = -1
      /\ \A u \in Thread \ {t} : kmpid'[u] = kmpid[u]
      /\ \A k \in Slot \ {h} : /\ km_thread'[k] = km_thread[k] /\ pos'[k] = pos[k]
                               /\ next_kmpid'[k] = next_kmpid[k]
  BY <1>3 DEF IInv, TypeOK
<1>7. OwnerInv'
  <2>1. ASSUME NEW u \in Thread, kmpid'[u] # -1
        PROVE  kmpid'[u] < km_nthread' /\ km_thread'[kmpid'[u]] = u
    <3>1. u # t /\ kmpid'[u] = kmpid[u] /\ kmpid[u] \in Slot
      BY <1>6, <2>1 DEF IInv, TypeOK
    <3>2. kmpid[u] < km_nthread /\ km_thread[kmpid[u]] = u
      BY <2>1, <3>1 DEF IInv, OwnerInv
    <3> QED
      BY <1>3, <1>4, <1>6, <3>1, <3>2
  <2>2. ASSUME NEW k \in Slot, k < km_nthread', km_thread'[k] # NULL
        PROVE  km_thread'[k] \in Thread /\ kmpid'[km_thread'[k]] = k
    <3>1. k # h /\ km_thread'[k] = km_thread[k]
      BY <1>6, <2>2
    <3>2. km_thread[k] \in Thread /\ kmpid[km_thread[k]] = k
      BY <1>3, <2>2, <3>1 DEF IInv, OwnerInv
    <3> QED
      BY <1>1, <1>6, <3>1, <3>2
  <2> QED
    BY <2>1, <2>2 DEF OwnerInv
<1>8. ListInv'
  <2>1. \A k \in Slot : Free(k)' <=> Free(k) \/ k = h
    BY <1>3, <1>4, <1>6 DEF Free
  <2>2. \A k \in Slot : pos[k] \in Nat /\ next_kmpid[k] \in Slot \cup {-1}
    BY DEF IInv, TypeOK
  <2>3. \A k \in Slot : Free(k) => k # h /\ pos[k] < d
    BY <1>2, <1>4, <2>2 DEF IInv, ListInv, TypeOK
  <2>4. km_freehead' = h /\ h # -1 /\ Free(h)'
    BY <1>1, <1>3, <2>1
  <2>5. ASSUME NEW k \in Slot, Free(k)'
        PROVE  /\ pos'[k] <= d /\ (pos'[k] = 0 => next_kmpid'[k] = -1)
               /\ pos'[k] # 0 => LinkedDown(k)'
    <3>1. CASE k = h
      <4>1. d = 0 => km_freehead = -1
        BY <1>2 DEF IInv, TypeOK
      <4>2. ASSUME d # 0 PROVE LinkedDown(h)'
        <5>1. PICK g \in Slot : g = km_freehead /\ g # -1 /\ Free(g) /\ pos[g] = d - 1
          BY <1>2, <2>2, <4>2 DEF IInv, TypeOK, ListInv
        <5>2. Free(g)' /\ pos'[g] = pos[g]
          BY <1>6, <2>1, <2>3, <5>1
        <5>3. next_kmpid'[h] = g /\ pos'[h] = d
          BY <1>6, <5>1
        <5> QED
          BY Zenon, <5>1, <5>2, <5>3 DEF LinkedDown, Free
      <4>3. d <= d
        OBVIOUS
      <4> QED
        BY Zenon, <1>6, <3>1, <4>1, <4>2, <4>3
    <3>2. CASE k # h
      <4>1. Free(k) /\ pos'[k] = pos[k] /\ next_kmpid'[k] = next_kmpid[k] /\ pos[k] <= d
        BY <1>6, <2>1, <2>2, <2>3, <2>5, <3>2
      <4>2. pos[k] = 0 => next_kmpid[k] = -1
        BY <4>1 DEF IInv, ListInv
      <4>3. ASSUME pos[k] # 0 PROVE LinkedDown(k)'
        <5>1. PICK m \in Slot : /\ m = next_kmpid[k] /\ m # -1 /\ Free(m)
                                /\ pos[m] = pos[k] - 1
          BY <2>2, <4>1, <4>3 DEF IInv, ListInv, LinkedDown
        <5>2. Free(m)' /\ pos'[m] = pos[m]
          BY <1>6, <2>1, <2>3, <5>1
        <5> QED
          BY Zenon, <4>1, <5>1, <5>2 DEF LinkedDown, Free
      <4> QED
        BY Zenon, <4>1, <4>2, <4>3
    <3> QED
      BY <3>1, <3>2
  <2>6. \A j, k \in Slot : Free(j)' /\ Free(k)' /\ pos'[j] = pos'[k] => j = k
    <3>1. \A k \in Slot : Free(k) => pos'[k] = pos[k] /\ pos[k] # d
      BY <1>6, <2>2, <2>3
    <3> QED
      BY <1>6, <2>1, <3>1 DEF IInv, ListInv
  <2>7. (km_freehead # -1 => Free(km_freehead))'
    BY Zenon, <2>4 DEF Free
  <2>8. \A k \in Slot : Free(k)' => km_freehead' # -1 /\ pos'[k] <= pos'[km_freehead']
    BY Zenon, <1>6, <2>4, <2>5
  <2> QED
    BY Zenon, <2>5, <2>6, <2>7, <2>8 DEF ListInv
<1>9. InPages'
  BY <1>3 DEF IInv, InPages
<1> QED
  BY <1>5, <1>7, <1>8, <1>9 DEF IInv

LEMMA NextInv == IInv /\ [Next]_vars => IInv'
<1> SUFFICES ASSUME IInv, [Next]_vars PROVE IInv'
  OBVIOUS
<1>1. ASSUME NEW t \in Thread, AllocFree(t) PROVE IInv'
  BY Zenon, <1>1, StepAllocFree
<1>2. ASSUME NEW t \in Thread, AllocNew(t) PROVE IInv'
  BY Zenon, <1>2, StepAllocNew
<1>3. ASSUME NEW t \in Thread, kmpid_free(t) PROVE IInv'
  BY Zenon, <1>3, StepFree
<1>4. ASSUME UNCHANGED vars PROVE IInv'
  BY <1>4 DEF vars, IInv, TypeOK, OwnerInv, ListInv, LinkedDown, Free, InPages
<1> QED
  BY Zenon, <1>1, <1>2, <1>3, <1>4 DEF Next

LEMMA AlwaysIInv == Spec => []IInv
<1> QED
  BY InitInv, NextInv, PTL DEF Spec

-----------------------------------------------------------------------------
(* kmpid_search returns the thread that has the number and no other.       *)
THEOREM SearchAlwaysRight == Spec => []SearchRight
<1>1. IInv => SearchRight
  BY KmpidAssumption DEF IInv, TypeOK, OwnerInv, SearchRight, kmpid_search, Slot
<1> QED
  BY <1>1, AlwaysIInv, PTL

(* No index of kmpid2struct is out of the pages or of km_head.             *)
THEOREM AlwaysInPages == Spec => []InPages
<1>1. IInv => InPages
  BY DEF IInv
<1> QED
  BY <1>1, AlwaysIInv, PTL

(* kmpid_alloc makes the table longer only when every number is in use:    *)
(* what kmpid_free gives back is never lost.                               *)
THEOREM GrowsOnlyWhenFull == Spec => GrowsWhenFull
<1>1. ASSUME IInv, [Next]_vars
      PROVE  [km_nthread' # km_nthread =>
                 \A k \in 0 .. km_nthread - 1 : km_thread[k] \in Thread]_vars
  <2>1. ASSUME NEW t \in Thread, AllocFree(t) PROVE km_nthread' = km_nthread
    BY <2>1 DEF AllocFree
  <2>2. ASSUME NEW t \in Thread, AllocNew(t)
        PROVE  \A k \in 0 .. km_nthread - 1 : km_thread[k] \in Thread
    BY Zenon, <1>1, <2>2, StepAllocNew
  <2>3. ASSUME NEW t \in Thread, kmpid_free(t) PROVE km_nthread' = km_nthread
    BY <2>3 DEF kmpid_free
  <2> QED
    BY Zenon, <1>1, <2>1, <2>2, <2>3 DEF Next
<1> QED
  BY <1>1, AlwaysIInv, PTL DEF Spec, GrowsWhenFull

(* kmpid_alloc gives a thread a number that no other thread has, and it    *)
(* keeps it until kmpid_free: the table implements KmpidSpec.              *)
THEOREM TableImplementsSpec == Spec => Implements
<1>1. Init => Abstract!Init
  BY DEF Init, Abstract!Init
<1>2. ASSUME IInv, [Next]_vars PROVE [Abstract!Next]_kmpid
  <2>1. ASSUME NEW t \in Thread, NEW k \in Slot, kmpid[t] = -1, \A u \in Thread : kmpid[u] # k,
               kmpid' = [kmpid EXCEPT ![t] = k]
        PROVE  Abstract!Next
    BY ZenonT(40), <2>1 DEF Abstract!Next, Abstract!Give, Slot
  <2>2. ASSUME NEW t \in Thread, AllocFree(t) PROVE Abstract!Next
    <3>1. PICK h \in Slot : h = km_freehead
      BY <1>2, <2>2 DEF IInv, TypeOK, AllocFree, Slot
    <3>2. \A u \in Thread : kmpid[u] # h
      BY <1>2, <2>2, <3>1, KmpidAssumption DEF IInv, ListInv, OwnerInv, Free, AllocFree, Slot
    <3> QED
      BY ZenonT(40), <2>1, <2>2, <3>1, <3>2 DEF AllocFree
  <2>3. ASSUME NEW t \in Thread, AllocNew(t) PROVE Abstract!Next
    <3>1. PICK n \in Slot : n = km_nthread
      BY <1>2, <2>3, KmpidAssumption DEF IInv, TypeOK, AllocNew, Slot
    <3>2. \A u \in Thread : kmpid[u] # n
      BY <1>2, <3>1 DEF IInv, OwnerInv, Slot
    <3> QED
      BY ZenonT(40), <2>1, <2>3, <3>1, <3>2 DEF AllocNew
  <2>4. ASSUME NEW t \in Thread, kmpid_free(t) PROVE Abstract!Next
    BY ZenonT(40), <2>4 DEF kmpid_free, Abstract!Next, Abstract!TakeBack
  <2> QED
    BY <1>2, <2>2, <2>3, <2>4 DEF Next, vars
<1> QED
  BY <1>1, <1>2, AlwaysIInv, PTL DEF Spec, Implements, Abstract!Spec
=============================================================================
