------------------------- MODULE SysTimeoutsProofs --------------------------
(***************************************************************************)
(* The timeouts of a thread run in order and on time, for any number of    *)
(* elements, callers, times and nested waits.                              *)
(*                                                                         *)
(* That the first element is the earliest (EarliestFirst) is not kept by a *)
(* step on its own: taking out the first one needs the second one to be    *)
(* the earliest of the rest.  The inductive invariant says it of every     *)
(* link: no other element belongs between an element and the next one, and *)
(* the next one holds the difference of their times.                       *)
(***************************************************************************)
EXTENDS SysTimeouts, TLAPS

Pc == {"wait", "run", "insert", "cancel", "took"}

TypeOK ==
    /\ linked \subseteq Node /\ head \in Node \cup {NULL}
    /\ next \in [Node -> Node \cup {NULL}] /\ time \in [Node -> Nat]
    /\ due \in [Node -> Nat] /\ arm \in [Node -> Nat]
    /\ now \in Nat /\ narm \in Nat /\ pc \in Pc

(* Element n and the one after it. *)
LinkOK(n) ==
    IF next[n] = NULL
    THEN \A m \in linked : m = n \/ Before(m, n)
    ELSE /\ next[n] \in linked /\ Before(n, next[n])
         /\ time[next[n]] = due[next[n]] - due[n]
         /\ \A m \in linked : m = n \/ Before(m, n) \/ m = next[n] \/ Before(next[n], m)

HeadOK ==
    IF head = NULL THEN linked = {}
    ELSE /\ head \in linked /\ time[head] = due[head] - now
         /\ \A m \in linked : m = head \/ Before(head, m)

(* Two armed elements differ in the call that armed them. *)
ArmOK == \A n \in linked : arm[n] < narm /\ \A m \in linked : arm[m] = arm[n] => m = n

(* The loop of sys_timeout: the new element belongs behind cur, and the    *)
(* time it holds counts from where the time of cur counts.                 *)
InsertOK ==
    pc = "insert" =>
      /\ new \in Node \ linked /\ cur \in linked
      /\ arm[new] < narm /\ \A m \in linked : arm[m] < arm[new]
      /\ due[cur] <= due[new] /\ time[new] - time[cur] = due[new] - due[cur]

(* The loop of sys_untimeout: prev is the element before cur. *)
CancelOK ==
    pc = "cancel" =>
      /\ cur \in linked \cup {NULL}
      /\ cur # NULL => \/ prev = NULL /\ cur = head
                       \/ prev \in linked /\ next[prev] = cur

IInv ==
    /\ TypeOK /\ (\A n \in linked : LinkOK(n)) /\ HeadOK /\ ArmOK
    /\ InsertOK /\ CancelOK

-----------------------------------------------------------------------------
(* Before is a strict order, total on elements that differ in their call.  *)
LEMMA Order ==
  ASSUME TypeOK, NEW a \in Node, NEW b \in Node, NEW c \in Node
  PROVE  /\ ~Before(a, a) /\ ~(Before(a, b) /\ Before(b, a))
         /\ Before(a, b) /\ Before(b, c) => Before(a, c)
         /\ arm[a] # arm[b] => Before(a, b) \/ Before(b, a)
  BY DEF TypeOK, Before

LEMMA InitInv == Init => IInv
  BY TimeoutsAssumption DEF Init, IInv, TypeOK, HeadOK, ArmOK, InsertOK, CancelOK, Pc

(* Steps that leave the list and the loops alone.                          *)
LEMMA ListSame ==
  ASSUME IInv, UNCHANGED lvars, pc' \in {"wait", "run", "took"}
  PROVE  IInv'
<1>1. \A n, m : Before(n, m)' = Before(n, m)
  BY Zenon DEF lvars, Before
<1>2. \A n : LinkOK(n)' = LinkOK(n)
  BY Zenon, <1>1 DEF lvars, LinkOK
<1> QED
  BY Zenon, <1>1, <1>2 DEF IInv, lvars, TypeOK, HeadOK, ArmOK, InsertOK, CancelOK, Pc

(* Time passes in a wait: only the first element counts from now.          *)
LEMMA ChargeInv ==
  ASSUME IInv, NEW d \in Nat, Charge(d), pc' \in {"wait", "run", "took"}
  PROVE  IInv'
<1>1. \A n, m : Before(n, m)' = Before(n, m)
  BY Zenon DEF Charge, Before
<1>2. TypeOK'
  BY DEF IInv, TypeOK, Charge, Pc, HeadOK
<1>3. \A n \in linked : LinkOK(n)'
  <2> SUFFICES ASSUME NEW n \in linked PROVE LinkOK(n)'
    BY Zenon
  <2>1. LinkOK(n) /\ n \in Node /\ next'[n] = next[n] /\ linked' = linked /\ due' = due
    BY Zenon DEF IInv, TypeOK, Charge
  <2>2. next[n] # NULL => next[n] # head
    <3> SUFFICES ASSUME next[n] # NULL, next[n] = head PROVE FALSE
      BY Zenon
    <3>1. head \in Node /\ Before(n, head) /\ (n = head \/ Before(head, n))
      BY Zenon, <2>1 DEF LinkOK, IInv, HeadOK, TypeOK
    <3> QED
      BY <2>1, <3>1, Order DEF IInv
  <2>3. next[n] # NULL => time'[next[n]] = time[next[n]]
    BY Zenon, <2>1, <2>2 DEF Charge, LinkOK, IInv, TypeOK
  <2> QED
    BY Zenon, <1>1, <2>1, <2>3 DEF LinkOK
<1>4. HeadOK'
  <2>1. CASE head = NULL
    BY Zenon, <2>1 DEF IInv, HeadOK, Charge
  <2>2. CASE head # NULL
    <3>1. head \in linked /\ time[head] = due[head] - now /\ \A m \in linked : m = head \/ Before(head, m)
      BY Zenon, <2>2 DEF IInv, HeadOK
    <3>2. time'[head] = time[head] - d /\ now' = now + d /\ head' = head /\ linked' = linked /\ due' = due
      BY Zenon, <2>2, <3>1 DEF Charge, IInv, TypeOK
    <3>3. due[head] \in Nat /\ now \in Nat
      BY Zenon, <3>1 DEF IInv, TypeOK
    <3> QED
      BY <1>1, <2>2, <3>1, <3>2, <3>3 DEF HeadOK
  <2> QED
    BY Zenon, <2>1, <2>2
<1> QED
  BY Zenon, <1>2, <1>3, <1>4 DEF IInv, ArmOK, InsertOK, CancelOK, Charge

(* The first element leaves: the second one is the earliest of the rest.   *)
LEMMA TimeoutInv ==
  ASSUME IInv, timeout
  PROVE  IInv'
<1> DEFINE f == head
<1>1. /\ f \in linked /\ f \in Node /\ time[f] = due[f] - now
      /\ \A m \in linked : m = f \/ Before(f, m)
  BY Zenon DEF timeout, IInv, HeadOK, TypeOK
<1>2. /\ now' = now + time[f] /\ head' = next[f] /\ linked' = linked \ {f}
      /\ next' = next /\ time' = time /\ due' = due /\ arm' = arm /\ narm' = narm
      /\ pc' \in {"wait", "run"}
  BY Zenon DEF timeout
<1>3. \A n, m : Before(n, m)' = Before(n, m)
  BY Zenon, <1>2 DEF Before
<1>4. TypeOK'
  BY <1>1, <1>2 DEF IInv, TypeOK, Pc
<1>5. LinkOK(f)
  BY Zenon, <1>1 DEF IInv
<1>6. ASSUME NEW n \in linked' PROVE LinkOK(n)'
  <2>1. LinkOK(n) /\ n \in Node /\ n \in linked /\ Before(f, n)
    BY Zenon, <1>1, <1>2 DEF IInv, TypeOK
  <2>2. next[n] # f
    <3> SUFFICES ASSUME next[n] = f PROVE FALSE
      BY Zenon
    <3>1. Before(n, f)
      BY Zenon, <1>1, <2>1, TimeoutsAssumption DEF LinkOK
    <3> QED
      BY Zenon, <1>1, <2>1, <3>1, Order DEF IInv
  <2> QED
    BY Zenon, <1>2, <1>3, <2>1, <2>2 DEF LinkOK
<1>7. HeadOK'
  <2>1. CASE next[f] = NULL
    <3>1. \A m \in linked : m = f
      <4> SUFFICES ASSUME NEW m \in linked, m # f PROVE FALSE
        BY Zenon
      <4>1. Before(m, f) /\ Before(f, m) /\ m \in Node
        BY Zenon, <1>1, <1>5, <2>1 DEF LinkOK, IInv, TypeOK
      <4> QED
        BY Zenon, <1>1, <4>1, Order DEF IInv
    <3> QED
      BY Zenon, <1>2, <2>1, <3>1 DEF HeadOK
  <2>2. CASE next[f] # NULL
    <3>1. /\ next[f] \in linked /\ Before(f, next[f]) /\ time[next[f]] = due[next[f]] - due[f]
          /\ \A m \in linked : m = f \/ Before(m, f) \/ m = next[f] \/ Before(next[f], m)
      BY Zenon, <1>5, <2>2 DEF LinkOK
    <3>2. next[f] # f
      BY <1>1, <3>1, Order DEF IInv
    <3>3. \A m \in linked \ {f} : m = next[f] \/ Before(next[f], m)
      <4> SUFFICES ASSUME NEW m \in linked \ {f} PROVE m = next[f] \/ Before(next[f], m)
        BY Zenon
      <4>1. Before(f, m) /\ m \in Node
        BY Zenon, <1>1 DEF IInv, TypeOK
      <4> QED
        BY Zenon, <1>1, <3>1, <4>1, Order DEF IInv
    <3>4. due[f] \in Nat /\ now \in Nat /\ now' = due[f]
      BY <1>1, <1>2 DEF IInv, TypeOK
    <3> QED
      BY Zenon, <1>2, <1>3, <2>2, <3>1, <3>2, <3>3, <3>4 DEF HeadOK
  <2> QED
    BY Zenon, <2>1, <2>2
<1>8. ArmOK' /\ InsertOK' /\ CancelOK'
  BY Zenon, <1>2 DEF IInv, ArmOK, InsertOK, CancelOK
<1> QED
  BY Zenon, <1>4, <1>6, <1>7, <1>8 DEF IInv

(* What is said of a link does not depend on elements outside the list.    *)
LEMMA LinkFrame ==
  ASSUME IInv, NEW n \in linked, NEW e \in Node \ linked,
         \A m \in Node \ {e} : due'[m] = due[m] /\ arm'[m] = arm[m]
  PROVE  \A m \in linked : Before(n, m)' = Before(n, m) /\ Before(m, n)' = Before(m, n)
  BY Zenon DEF IInv, TypeOK, Before

(* sys_timeout, up to its loop.                                            *)
LEMMA SysTimeoutInv ==
  ASSUME IInv, NEW x, NEW msecs \in Nat, NEW back \in {"wait", "run"},
         sys_timeout(x, msecs, back)
  PROVE  IInv'
<1>1. PICK e \in Node \ linked :
        /\ due' = [due EXCEPT ![e] = now + msecs]
        /\ arm' = [arm EXCEPT ![e] = narm]
        /\ narm' = narm + 1 /\ now' = now
        /\ \/ /\ Later(head, msecs)
              /\ time' = [m \in Node |-> IF m = e THEN msecs
                                         ELSE IF m = head THEN time[m] - msecs ELSE time[m]]
              /\ next' = [next EXCEPT ![e] = head]
              /\ head' = e /\ linked' = linked \cup {e} /\ pc' = back
           \/ /\ ~Later(head, msecs)
              /\ time' = [time EXCEPT ![e] = msecs]
              /\ next' = [next EXCEPT ![e] = NULL]
              /\ new' = e /\ cur' = head /\ pc' = "insert"
              /\ head' = head /\ linked' = linked
  BY Zenon DEF sys_timeout
<1>2. /\ due'[e] = now + msecs /\ arm'[e] = narm /\ due' \in [Node -> Nat] /\ arm' \in [Node -> Nat]
      /\ \A m \in Node \ {e} : due'[m] = due[m] /\ arm'[m] = arm[m]
      /\ now \in Nat /\ narm \in Nat /\ narm' \in Nat
  BY <1>1 DEF IInv, TypeOK
<1>3. \A n, m \in linked : Before(n, m)' = Before(n, m)
  BY Zenon, <1>2, LinkFrame
<1>4. ArmOK' /\ \A m \in linked : arm'[m] < arm'[e]
  BY <1>1, <1>2 DEF IInv, ArmOK, TypeOK
<1>5. \A m \in linked : m \in Node \ {e} /\ next[m] # e
  <2>1. \A m \in linked : m \in Node /\ (next[m] = NULL \/ next[m] \in linked)
    BY Zenon DEF IInv, TypeOK, LinkOK
  <2> QED
    BY Zenon, <1>1, <2>1, TimeoutsAssumption
<1>6. CASE Later(head, msecs)
  <2>1. /\ time' = [m \in Node |-> IF m = e THEN msecs
                                   ELSE IF m = head THEN time[m] - msecs ELSE time[m]]
        /\ next' = [next EXCEPT ![e] = head]
        /\ head' = e /\ linked' = linked \cup {e} /\ pc' = back
    BY Zenon, <1>1, <1>6
  <2>2. head \in linked => due[head] > now + msecs /\ time[head] = due[head] - now
    BY <1>2, <1>6 DEF Later, IInv, HeadOK, TypeOK
  <2>3. TypeOK'
    <3>1. \A m \in Node : time'[m] \in Nat
      BY <2>1, <1>6, TimeoutsAssumption DEF Later, IInv, TypeOK
    <3> QED
      BY Zenon, <1>2, <2>1, <3>1, <1>1 DEF IInv, TypeOK, Pc
  <2>4. \A m \in linked : Before(e, m)'
    <3> SUFFICES ASSUME NEW m \in linked PROVE Before(e, m)'
      BY Zenon
    <3>1. head \in linked /\ (m = head \/ Before(head, m))
      BY Zenon DEF IInv, HeadOK
    <3>2. due[head] <= due[m]
      BY <3>1 DEF Before, IInv, TypeOK
    <3>3. due'[m] = due[m] /\ due[m] \in Nat /\ due[head] \in Nat
      BY Zenon, <1>2, <1>5, <3>1 DEF IInv, TypeOK
    <3> QED
      BY <1>2, <2>2, <3>1, <3>2, <3>3 DEF Before
  <2>5. HeadOK'
    BY <1>1, <1>2, <2>1, <2>4, TimeoutsAssumption DEF HeadOK
  <2>6. LinkOK(e)'
    <3>1. next'[e] = head /\ e \in linked'
      BY Zenon, <2>1 DEF IInv, TypeOK
    <3>2. CASE head = NULL
      BY Zenon, <2>1, <3>1, <3>2 DEF LinkOK, IInv, HeadOK
    <3>3. CASE head # NULL
      <4>1. head \in linked /\ head # e /\ \A m \in linked : m = head \/ Before(head, m)
        BY Zenon, <3>3, <1>1 DEF IInv, HeadOK
      <4>2. time'[head] = due'[head] - due'[e]
        BY <1>2, <1>5, <2>1, <2>2, <4>1 DEF IInv, TypeOK
      <4> QED
        BY <1>3, <2>1, <2>4, <3>1, <3>3, <4>1, <4>2 DEF LinkOK
    <3> QED
      BY Zenon, <3>2, <3>3
  <2>7. ASSUME NEW n \in linked PROVE LinkOK(n)'
    <3>1. LinkOK(n) /\ next'[n] = next[n] /\ n \in Node \ {e}
      BY Zenon, <1>5, <2>1 DEF IInv, TypeOK
    <3>2. CASE next[n] = NULL
      <4>1. \A m \in linked : m = n \/ Before(m, n)'
        BY Zenon, <1>3, <3>1, <3>2 DEF LinkOK
      <4> QED
        BY Zenon, <2>1, <2>4, <3>1, <3>2, <4>1 DEF LinkOK
    <3>3. CASE next[n] # NULL
      <4>1. /\ next[n] \in linked /\ Before(n, next[n]) /\ time[next[n]] = due[next[n]] - due[n]
            /\ \A m \in linked : m = n \/ Before(m, n) \/ m = next[n] \/ Before(next[n], m)
        BY Zenon, <3>1, <3>3 DEF LinkOK
      <4>2. next[n] # head
        BY <4>1, Order DEF IInv, HeadOK, TypeOK
      <4>3. time'[next[n]] = due'[next[n]] - due'[n]
        BY Zenon, <1>2, <1>5, <2>1, <4>1, <4>2 DEF IInv, TypeOK
      <4> QED
        BY <1>3, <2>1, <2>4, <3>1, <3>3, <4>1, <4>3 DEF LinkOK
    <3> QED
      BY Zenon, <3>2, <3>3
  <2> QED
    BY Zenon, <1>4, <2>1, <2>3, <2>5, <2>6, <2>7 DEF IInv, InsertOK, CancelOK
<1>7. CASE ~Later(head, msecs)
  <2>1. /\ time' = [time EXCEPT ![e] = msecs] /\ next' = [next EXCEPT ![e] = NULL]
        /\ new' = e /\ cur' = head /\ pc' = "insert" /\ head' = head /\ linked' = linked
    BY Zenon, <1>1, <1>7
  <2>2. head \in linked /\ time[head] <= msecs /\ time[head] = due[head] - now
    BY <1>7 DEF Later, IInv, HeadOK, TypeOK
  <2>3. TypeOK'
    BY Zenon, <1>1, <1>2, <2>1 DEF IInv, TypeOK, Pc
  <2>4. \A n \in linked : time'[n] = time[n] /\ next'[n] = next[n] /\ due'[n] = due[n] /\ n \in Node
    BY Zenon, <1>2, <1>5, <2>1 DEF IInv, TypeOK
  <2>5. ASSUME NEW n \in linked PROVE LinkOK(n)'
    BY <1>3, <2>1, <2>4 DEF IInv, LinkOK
  <2>6. HeadOK'
    BY Zenon, <1>1, <1>3, <2>1, <2>2, <2>4 DEF IInv, HeadOK
  <2>7. InsertOK'
    <3>1. time'[e] = msecs
      BY Zenon, <1>1, <2>1 DEF IInv, TypeOK
    <3>2. due[head] \in Nat
      BY Zenon, <2>2 DEF IInv, TypeOK
    <3> QED
      BY <1>1, <1>2, <1>4, <2>1, <2>2, <2>4, <3>1, <3>2 DEF InsertOK
  <2> QED
    BY Zenon, <1>4, <2>1, <2>3, <2>5, <2>6, <2>7 DEF IInv, CancelOK
<1> QED
  BY Zenon, <1>6, <1>7

(* One iteration of the loop of sys_timeout.                               *)
LEMMA InsertInv ==
  ASSUME IInv, insert
  PROVE  IInv'
<1>1. PICK e, c, a : e = new /\ c = cur /\ a = next[cur]
  BY Zenon
<1>2. /\ e \in Node \ linked /\ c \in linked /\ c \in Node /\ c # e
      /\ arm[e] < narm /\ \A m \in linked : arm[m] < arm[e]
      /\ due[c] <= due[e] /\ time[e] - time[c] = due[e] - due[c]
  BY Zenon, <1>1 DEF insert, IInv, InsertOK, TypeOK
<1>3. /\ head' = head /\ due' = due /\ arm' = arm /\ now' = now /\ narm' = narm
      /\ \A n, m : Before(n, m)' = Before(n, m)
  BY Zenon DEF insert, Before
<1>4. PICK r : r = time[e] - time[c]
  BY Zenon
<1>5. r \in Nat /\ r = due[e] - due[c] /\ due[e] \in Nat /\ due[c] \in Nat /\ time \in [Node -> Nat]
  BY <1>2, <1>4 DEF IInv, TypeOK
<1>6. LinkOK(c) /\ (a = NULL \/ a \in linked) /\ a # e /\ a # c
  <2>1. LinkOK(c)
    BY Zenon, <1>2 DEF IInv
  <2>2. a = NULL \/ (a \in linked /\ Before(c, a))
    BY Zenon, <1>1, <2>1 DEF LinkOK
  <2>3. ~Before(c, c)
    BY Zenon, <1>2, Order DEF IInv
  <2> QED
    BY Zenon, <1>2, <2>1, <2>2, <2>3, TimeoutsAssumption
<1>7. \A m \in linked : m \in Node /\ m # e /\ next[m] # e
  <2>1. \A m \in linked : m \in Node /\ (next[m] = NULL \/ next[m] \in linked)
    BY Zenon DEF IInv, TypeOK, LinkOK
  <2> QED
    BY Zenon, <1>2, <2>1, TimeoutsAssumption
<1>8. CASE Later(a, r)
  <2>1. /\ time' = [m \in Node |-> IF m = e THEN r ELSE IF m = a THEN time[m] - r ELSE time[m]]
        /\ next' = [next EXCEPT ![e] = a, ![c] = e]
        /\ linked' = linked \cup {e} /\ pc' \in {"wait", "run"}
    BY Zenon, <1>1, <1>4, <1>8 DEF insert
  <2>2. /\ next'[e] = a /\ next'[c] = e /\ next' \in [Node -> Node \cup {NULL}]
        /\ \A m \in linked \ {c} : next'[m] = next[m]
    BY Zenon, <1>1, <1>2, <1>7, <2>1 DEF IInv, TypeOK
  <2>3. TypeOK'
    <3>1. \A m \in Node : time'[m] \in Nat
      BY <1>5, <1>8, <2>1, TimeoutsAssumption DEF Later
    <3> QED
      BY Zenon, <1>2, <1>3, <2>1, <2>2, <3>1 DEF IInv, TypeOK, Pc
  <2>4. Before(c, e)
    BY <1>2, <1>5 DEF Before, IInv, TypeOK
  <2>5. a # NULL => /\ time[a] = due[a] - due[c] /\ Before(e, a) /\ a \in Node
                    /\ time'[a] = due[a] - due[e] /\ due[a] \in Nat
    <3> SUFFICES ASSUME a # NULL
                 PROVE  /\ time[a] = due[a] - due[c] /\ Before(e, a) /\ a \in Node
                        /\ time'[a] = due[a] - due[e] /\ due[a] \in Nat
      BY Zenon
    <3>1. a \in Node /\ time[a] > r /\ time[a] = due[a] - due[c] /\ due[a] \in Nat
      BY Zenon, <1>1, <1>6, <1>7, <1>8 DEF LinkOK, Later, IInv, TypeOK
    <3>2. due[a] > due[e] /\ time[a] - r = due[a] - due[e]
      BY <1>5, <3>1
    <3>3. time'[a] = time[a] - r
      BY Zenon, <1>6, <2>1, <3>1
    <3> QED
      BY Zenon, <3>1, <3>2, <3>3 DEF Before
  <2>6. \A m \in linked : \/ (m = c \/ Before(m, c)) /\ Before(m, e)
                          \/ a # NULL /\ (m = a \/ Before(a, m)) /\ Before(e, m)
    <3> SUFFICES ASSUME NEW m \in linked
                 PROVE  \/ (m = c \/ Before(m, c)) /\ Before(m, e)
                        \/ a # NULL /\ (m = a \/ Before(a, m)) /\ Before(e, m)
      BY Zenon
    <3>1. m = c \/ Before(m, c) \/ (a # NULL /\ (m = a \/ Before(a, m)))
      BY Zenon, <1>1, <1>6 DEF LinkOK
    <3>2. m \in Node
      BY Zenon, <1>7
    <3>3. (m = c \/ Before(m, c)) => Before(m, e)
      BY Zenon, <1>2, <2>4, <3>2, Order DEF IInv
    <3>4. a # NULL /\ (m = a \/ Before(a, m)) => Before(e, m)
      BY Zenon, <1>2, <2>5, <3>2, Order DEF IInv
    <3> QED
      BY Zenon, <3>1, <3>3, <3>4
  <2>7. LinkOK(e)'
    <3>1. CASE a = NULL
      BY Zenon, <1>3, <2>1, <2>2, <2>6, <3>1 DEF LinkOK
    <3>2. CASE a # NULL
      <4>1. \A m \in linked' : m = e \/ Before(m, e)' \/ m = a \/ Before(a, m)'
        BY Zenon, <1>3, <2>1, <2>6
      <4>2. a \in linked' /\ Before(e, a)' /\ time'[a] = due'[a] - due'[e]
        BY Zenon, <1>3, <1>6, <2>1, <2>5, <3>2
      <4> QED
        BY Zenon, <2>2, <3>2, <4>1, <4>2 DEF LinkOK
    <3> QED
      BY Zenon, <3>1, <3>2
  <2>8. LinkOK(c)'
    <3>1. time'[e] = due[e] - due[c] /\ e # NULL
      BY Zenon, <1>2, <1>5, <2>1, TimeoutsAssumption
    <3> QED
      BY <1>3, <2>1, <2>2, <2>4, <2>6, <3>1 DEF LinkOK
  <2>9. ASSUME NEW n \in linked \ {c} PROVE LinkOK(n)'
    <3>1. LinkOK(n) /\ next'[n] = next[n] /\ n \in Node
      BY Zenon, <1>7, <2>2 DEF IInv
    <3>2. n = a \/ n # a
      BY Zenon
    <3>3. CASE next[n] = NULL
      <4>1. \A m \in linked : m = n \/ Before(m, n)
        BY Zenon, <3>1, <3>3 DEF LinkOK
      <4>2. Before(c, n) /\ ~Before(n, c)
        BY Zenon, <1>2, <3>1, <4>1, Order DEF IInv
      <4>3. Before(e, n)
        BY Zenon, <2>6, <4>2
      <4> QED
        BY Zenon, <1>3, <2>1, <3>1, <3>3, <4>1, <4>3 DEF LinkOK
    <3>4. CASE next[n] # NULL
      <4>1. /\ next[n] \in linked /\ Before(n, next[n]) /\ time[next[n]] = due[next[n]] - due[n]
            /\ \A m \in linked : m = n \/ Before(m, n) \/ m = next[n] \/ Before(next[n], m)
        BY Zenon, <3>1, <3>4 DEF LinkOK
      <4>2. next[n] # a
        <5> SUFFICES ASSUME next[n] = a PROVE FALSE
          BY Zenon
        <5>1. a # NULL /\ a \in Node
          BY Zenon, <3>4, <2>5
        <5>2. Before(c, a) /\ (c = n \/ Before(c, n) \/ c = a \/ Before(a, c))
          BY Zenon, <1>1, <1>2, <1>6, <4>1, <5>1 DEF LinkOK
        <5>3. n = c \/ Before(n, c) \/ n = a \/ Before(a, n)
          BY Zenon, <1>1, <1>6, <5>1 DEF LinkOK
        <5> QED
          BY <1>2, <3>1, <4>1, <5>1, <5>2, <5>3, Order DEF IInv
      <4>3. time'[next[n]] = time[next[n]]
        BY Zenon, <1>7, <2>1, <4>1, <4>2
      <4>4. Before(e, n) \/ Before(next[n], e)
        <5>1. (n = c \/ Before(n, c)) \/ Before(e, n)
          BY Zenon, <2>6
        <5>2. (next[n] = c \/ Before(next[n], c)) => Before(next[n], e)
          BY <1>2, <1>7, <2>4, <4>1, Order DEF IInv
        <5>3. c = n \/ Before(c, n) \/ c = next[n] \/ Before(next[n], c)
          BY Zenon, <1>2, <4>1
        <5>4. ~(Before(n, c) /\ Before(c, n))
          BY Zenon, <1>2, <3>1, Order DEF IInv
        <5> QED
          BY Zenon, <5>1, <5>2, <5>3, <5>4
      <4>5. \A m \in linked' : m = n \/ Before(m, n)' \/ m = next'[n] \/ Before(next[n], m)'
        BY Zenon, <1>3, <2>1, <3>1, <4>1, <4>4
      <4>6. next[n] \in linked' /\ Before(n, next[n])' /\ time'[next[n]] = due'[next[n]] - due'[n]
        BY Zenon, <1>3, <2>1, <3>1, <4>1, <4>3
      <4> QED
        BY Zenon, <3>1, <3>4, <4>5, <4>6 DEF LinkOK
    <3> QED
      BY Zenon, <3>3, <3>4
  <2>10. HeadOK'
    <3>1. /\ head \in linked /\ head # NULL /\ time[head] = due[head] - now
          /\ \A m \in linked : m = head \/ Before(head, m)
      BY Zenon, <1>2 DEF IInv, HeadOK
    <3>2. head \in Node /\ Before(head, e)
      BY Zenon, <1>2, <1>7, <2>4, <3>1, Order DEF IInv
    <3>3. head # a
      <4> SUFFICES ASSUME head = a PROVE FALSE
        BY Zenon
      <4>1. Before(c, a) /\ (c = a \/ Before(a, c))
        BY Zenon, <1>1, <1>2, <1>6, <3>1 DEF LinkOK
      <4> QED
        BY Zenon, <1>2, <3>2, <4>1, Order DEF IInv
    <3>4. time'[head] = time[head]
      BY Zenon, <1>2, <2>1, <3>1, <3>2, <3>3
    <3> QED
      BY Zenon, <1>3, <2>1, <3>1, <3>2, <3>4 DEF HeadOK
  <2>11. ArmOK'
    BY <1>2, <1>3, <2>1 DEF IInv, ArmOK, TypeOK
  <2> QED
    BY Zenon, <2>1, <2>3, <2>7, <2>8, <2>9, <2>10, <2>11 DEF IInv, InsertOK, CancelOK
<1>9. CASE ~Later(a, r)
  <2>1. /\ time' = [time EXCEPT ![e] = r] /\ cur' = a /\ new' = e
        /\ next' = next /\ linked' = linked /\ pc' = "insert"
    BY Zenon, <1>1, <1>4, <1>9 DEF insert
  <2>2. time'[e] = r /\ \A m \in linked : time'[m] = time[m]
    BY Zenon, <1>5, <1>7, <1>2, <2>1
  <2>3. TypeOK'
    BY Zenon, <1>3, <1>5, <2>1 DEF IInv, TypeOK, Pc
  <2>4. ASSUME NEW n \in linked PROVE LinkOK(n)'
    BY Zenon, <1>3, <2>1, <2>2 DEF IInv, LinkOK
  <2>5. HeadOK'
    BY Zenon, <1>3, <2>1, <2>2 DEF IInv, HeadOK
  <2>6. InsertOK'
    <3>1. a # NULL /\ time[a] <= r
      BY <1>5, <1>6, <1>7, <1>9, TimeoutsAssumption DEF Later
    <3>2. a \in linked /\ time[a] = due[a] - due[c] /\ due[a] \in Nat
      BY Zenon, <1>1, <1>6, <1>7, <3>1 DEF LinkOK, IInv, TypeOK
    <3>3. due[a] <= due[e] /\ r - time[a] = due[e] - due[a]
      BY <1>5, <3>1, <3>2
    <3> QED
      BY Zenon, <1>2, <1>3, <2>1, <2>2, <3>2, <3>3 DEF InsertOK
  <2> QED
    BY Zenon, <1>3, <2>1, <2>3, <2>4, <2>5, <2>6 DEF IInv, ArmOK, CancelOK
<1> QED
  BY Zenon, <1>8, <1>9

(* No two elements have the same next one, and none has the first one.     *)
LEMMA OnePred ==
  ASSUME IInv, NEW n \in linked, next[n] # NULL
  PROVE  /\ next[n] \in linked /\ next[n] # head /\ next[n] # n
         /\ \A m \in linked : next[m] = next[n] => m = n
<1>1. /\ next[n] \in linked /\ Before(n, next[n]) /\ n \in Node /\ next[n] \in Node
      /\ \A m \in linked : m = n \/ Before(m, n) \/ m = next[n] \/ Before(next[n], m)
  BY Zenon DEF IInv, LinkOK, TypeOK
<1>2. next[n] # n
  BY Zenon, <1>1, Order DEF IInv
<1>3. next[n] # head
  <2> SUFFICES ASSUME next[n] = head PROVE FALSE
    BY Zenon
  <2>1. n = head \/ Before(head, n)
    BY Zenon DEF IInv, HeadOK
  <2> QED
    BY Zenon, <1>1, <1>2, <2>1, Order DEF IInv
<1>4. ASSUME NEW m \in linked, next[m] = next[n] PROVE m = n
  <2>1. /\ Before(m, next[n]) /\ m \in Node
        /\ n = m \/ Before(n, m) \/ n = next[n] \/ Before(next[n], n)
    BY Zenon, <1>4 DEF IInv, LinkOK, TypeOK
  <2>2. m = n \/ Before(m, n) \/ m = next[n] \/ Before(next[n], m)
    BY Zenon, <1>1
  <2> QED
    BY <1>1, <1>2, <2>1, <2>2, Order DEF IInv
<1> QED
  BY Zenon, <1>1, <1>2, <1>3, <1>4

(* The loop of sys_untimeout takes out the element c, whose predecessor is *)
(* p, or which is the first one.                                           *)
LEMMA UnlinkInv ==
  ASSUME IInv, NEW c \in linked, NEW p,
         (p = NULL /\ c = head) \/ (p \in linked /\ next[p] = c),
         head' = IF p = NULL THEN next[c] ELSE head,
         next' = IF p = NULL THEN next ELSE [next EXCEPT ![p] = next[c]],
         time' = unlinked(c), linked' = linked \ {c}, pc' = "run",
         due' = due, arm' = arm, now' = now, narm' = narm
  PROVE  IInv'
<1>1. PICK a : a = next[c]
  BY Zenon
<1>2. \A n, m : Before(n, m)' = Before(n, m)
  BY Zenon DEF Before
<1>3. /\ c \in Node /\ LinkOK(c) /\ a \in Node \cup {NULL}
      /\ p # NULL => p \in linked /\ p \in Node /\ next[p] = c /\ p # c
      /\ p = NULL => c = head
  BY Zenon, <1>1, OnePred, TimeoutsAssumption DEF IInv, TypeOK
<1>4. a # NULL => /\ a \in linked /\ a # c /\ a # head /\ a \in Node
                  /\ time'[a] = time[a] + time[c] /\ time[a] = due[a] - due[c]
  BY Zenon, <1>1, <1>3, OnePred DEF unlinked, LinkOK, IInv, TypeOK
<1>5. \A m \in Node : m # a => time'[m] = time[m]
  BY Zenon, <1>1 DEF unlinked
<1>6. \A m \in linked : m # p => next'[m] = next[m]
  BY Zenon, <1>3 DEF IInv, TypeOK
<1>7. /\ due[c] \in Nat /\ time[c] \in Nat /\ now \in Nat
      /\ a # NULL => due[a] \in Nat /\ time[a] \in Nat
  BY Zenon, <1>3, <1>4 DEF IInv, TypeOK
<1>8. TypeOK'
  <2>1. \A m \in Node : time'[m] \in Nat
    BY <1>3 DEF unlinked, IInv, TypeOK
  <2> QED
    BY Zenon, <1>1, <1>3, <2>1 DEF IInv, TypeOK, Pc, unlinked
<1>9. ASSUME NEW n \in linked', n # p PROVE LinkOK(n)'
  <2>1. n \in linked /\ n # c /\ n \in Node /\ LinkOK(n) /\ next'[n] = next[n]
    BY Zenon, <1>6, <1>9 DEF IInv, TypeOK
  <2>2. CASE next[n] = NULL
    BY Zenon, <1>2, <2>1, <2>2 DEF LinkOK
  <2>3. CASE next[n] # NULL
    <3>1. next[n] # c
      <4>1. p = NULL => next[n] # c
        BY Zenon, <1>3, <2>1, <2>3, OnePred
      <4>2. p # NULL => next[n] # c
        BY Zenon, <1>3, <1>9, <2>1, <2>3, OnePred
      <4> QED
        BY Zenon, <4>1, <4>2
    <3>2. next[n] # a
      BY Zenon, <1>1, <2>1, <2>3, OnePred
    <3>3. /\ next[n] \in linked /\ next[n] \in Node /\ Before(n, next[n])
          /\ time[next[n]] = due[next[n]] - due[n]
          /\ \A m \in linked : m = n \/ Before(m, n) \/ m = next[n] \/ Before(next[n], m)
      BY Zenon, <2>1, <2>3 DEF LinkOK, IInv, TypeOK
    <3>4. time'[next[n]] = time[next[n]]
      BY Zenon, <1>5, <3>2, <3>3
    <3> QED
      BY <1>2, <2>1, <2>3, <3>1, <3>3, <3>4 DEF LinkOK
  <2> QED
    BY Zenon, <2>2, <2>3
<1>10. p # NULL => LinkOK(p)'
  <2> SUFFICES ASSUME p # NULL PROVE LinkOK(p)'
    BY Zenon
  <2>1. /\ p \in linked' /\ next'[p] = a /\ time[c] = due[c] - due[p] /\ Before(p, c)
        /\ \A m \in linked : m = p \/ Before(m, p) \/ m = c \/ Before(c, m)
        /\ due[p] \in Nat
    BY <1>1, <1>3, TimeoutsAssumption DEF IInv, LinkOK, TypeOK
  <2>2. CASE a = NULL
    <3>1. \A m \in linked' : m = p \/ Before(m, p)
      <4> SUFFICES ASSUME NEW m \in linked' PROVE m = p \/ Before(m, p)
        BY Zenon
      <4>1. m \in linked /\ m \in Node /\ m # c /\ Before(m, c)
        BY Zenon, <1>1, <1>3, <2>2 DEF LinkOK, IInv, TypeOK
      <4> QED
        BY Zenon, <1>3, <2>1, <4>1, Order DEF IInv
    <3> QED
      BY Zenon, <1>2, <2>1, <2>2, <3>1 DEF LinkOK
  <2>3. CASE a # NULL
    <3>1. /\ Before(c, a)
          /\ \A m \in linked : m = c \/ Before(m, c) \/ m = a \/ Before(a, m)
      BY Zenon, <1>1, <1>3, <2>3 DEF LinkOK
    <3>2. Before(p, a)
      BY Zenon, <1>3, <1>4, <2>1, <2>3, <3>1, Order DEF IInv
    <3>3. time'[a] = due[a] - due[p]
      BY <1>4, <1>7, <2>1, <2>3
    <3>4. \A m \in linked' : m = p \/ Before(m, p) \/ m = a \/ Before(a, m)
      <4> SUFFICES ASSUME NEW m \in linked' PROVE m = p \/ Before(m, p) \/ m = a \/ Before(a, m)
        BY Zenon
      <4>1. m \in linked /\ m \in Node /\ m # c
        BY Zenon DEF IInv, TypeOK
      <4>2. m = p \/ Before(m, p) \/ Before(c, m)
        BY Zenon, <2>1, <4>1
      <4>3. Before(m, c) \/ m = a \/ Before(a, m)
        BY Zenon, <3>1, <4>1
      <4> QED
        BY Zenon, <1>3, <4>1, <4>2, <4>3, Order DEF IInv
    <3>5. a \in linked'
      BY Zenon, <1>4, <2>3
    <3> QED
      BY Zenon, <1>2, <2>1, <2>3, <3>2, <3>3, <3>4, <3>5 DEF LinkOK
  <2> QED
    BY Zenon, <2>2, <2>3
<1>11. HeadOK'
  <2>1. /\ head # NULL /\ head \in linked /\ head \in Node /\ time[head] = due[head] - now
        /\ \A m \in linked : m = head \/ Before(head, m)
    BY Zenon DEF IInv, HeadOK, TypeOK
  <2>2. CASE p # NULL
    <3>1. head # c /\ head' = head /\ head # a
      BY Zenon, <1>3, <1>4, <2>1, <2>2, OnePred, TimeoutsAssumption
    <3>2. time'[head] = time[head] /\ head \in linked'
      BY Zenon, <1>5, <2>1, <3>1
    <3> QED
      BY Zenon, <1>2, <2>1, <3>1, <3>2 DEF HeadOK
  <2>3. CASE p = NULL /\ a = NULL
    <3>1. \A m \in linked : m = c
      <4> SUFFICES ASSUME NEW m \in linked, m # c PROVE FALSE
        BY Zenon
      <4>1. c = head /\ m \in Node /\ Before(c, m) /\ Before(m, c)
        BY <1>1, <1>3, <2>1, <2>3, TimeoutsAssumption DEF LinkOK, IInv, TypeOK
      <4> QED
        BY Zenon, <1>3, <4>1, Order DEF IInv
    <3> QED
      BY Zenon, <1>1, <2>3, <3>1 DEF HeadOK
  <2>4. CASE p = NULL /\ a # NULL
    <3>1. c = head /\ head' = a /\ a \in linked'
      BY Zenon, <1>1, <1>4, <2>4, TimeoutsAssumption DEF IInv, TypeOK
    <3>2. time'[a] = due[a] - now
      BY <1>4, <1>7, <2>1, <2>4, <3>1
    <3>3. \A m \in linked' : m = a \/ Before(a, m)
      <4> SUFFICES ASSUME NEW m \in linked' PROVE m = a \/ Before(a, m)
        BY Zenon
      <4>1. m \in linked /\ m \in Node /\ m # c /\ Before(c, m)
        BY Zenon, <2>1, <3>1 DEF IInv, TypeOK
      <4>2. Before(m, c) \/ m = a \/ Before(a, m)
        BY Zenon, <1>1, <1>3, <2>4, <4>1 DEF LinkOK
      <4> QED
        BY Zenon, <1>3, <4>1, <4>2, Order DEF IInv
    <3> QED
      BY Zenon, <1>2, <2>4, <3>1, <3>2, <3>3 DEF HeadOK
  <2> QED
    BY Zenon, <2>2, <2>3, <2>4
<1>12. ArmOK' /\ InsertOK' /\ CancelOK'
  BY Zenon DEF IInv, ArmOK, InsertOK, CancelOK
<1> QED
  BY <1>8, <1>9, <1>10, <1>11, <1>12, TimeoutsAssumption DEF IInv, TypeOK

(* One iteration of the loop of sys_untimeout.                             *)
LEMMA CancelInv ==
  ASSUME IInv, cancel
  PROVE  IInv'
<1>1. CASE cur # NULL /\ hnd[cur] # key
  <2>1. UNCHANGED lvars /\ pc = "cancel" /\ pc' = "cancel" /\ prev' = cur /\ cur' = next[cur]
    BY Zenon, <1>1 DEF cancel
  <2>2. \A n, m : Before(n, m)' = Before(n, m)
    BY Zenon, <2>1 DEF lvars, Before
  <2>3. \A n : LinkOK(n)' = LinkOK(n)
    BY Zenon, <2>1, <2>2 DEF lvars, LinkOK
  <2>4. cur \in linked /\ LinkOK(cur)
    BY Zenon, <1>1, <2>1 DEF IInv, CancelOK
  <2>5. CancelOK'
    <3>1. next' = next /\ linked' = linked /\ (next[cur] = NULL \/ next[cur] \in linked)
      BY Zenon, <2>1, <2>4 DEF LinkOK, lvars
    <3> QED
      BY Zenon, <2>1, <2>4, <3>1 DEF CancelOK
  <2> QED
    BY Zenon, <2>1, <2>2, <2>3, <2>5 DEF IInv, lvars, TypeOK, HeadOK, ArmOK, InsertOK, Pc
<1>2. CASE cur = NULL
  BY Zenon, <1>2, ListSame DEF cancel, lvars
<1>3. CASE cur # NULL /\ hnd[cur] = key
  <2>1. /\ head' = IF prev = NULL THEN next[cur] ELSE head
        /\ next' = IF prev = NULL THEN next ELSE [next EXCEPT ![prev] = next[cur]]
        /\ time' = unlinked(cur) /\ linked' = linked \ {cur} /\ pc' = "run" /\ pc = "cancel"
        /\ due' = due /\ arm' = arm /\ now' = now /\ narm' = narm
    BY Zenon, <1>3 DEF cancel
  <2>2. cur \in linked /\ ((prev = NULL /\ cur = head) \/ (prev \in linked /\ next[prev] = cur))
    BY Zenon, <1>3, <2>1 DEF IInv, CancelOK
  <2> QED
    BY Zenon, <2>1, <2>2, UnlinkInv
<1> QED
  BY Zenon, <1>1, <1>2, <1>3 DEF cancel

(* sys_untimeout starts at the first element.                              *)
LEMMA SysUntimeoutInv ==
  ASSUME IInv, NEW x, sys_untimeout(x)
  PROVE  IInv'
<1>1. UNCHANGED lvars /\ pc' = "cancel" /\ prev' = NULL /\ cur' = head
  BY Zenon DEF sys_untimeout
<1>2. \A n, m : Before(n, m)' = Before(n, m)
  BY Zenon, <1>1 DEF lvars, Before
<1>3. \A n : LinkOK(n)' = LinkOK(n)
  BY Zenon, <1>1, <1>2 DEF lvars, LinkOK
<1>4. CancelOK'
  BY Zenon, <1>1 DEF CancelOK, IInv, HeadOK, lvars
<1> QED
  BY Zenon, <1>1, <1>2, <1>3, <1>4 DEF IInv, lvars, TypeOK, HeadOK, ArmOK, InsertOK, Pc

(* Steps that change neither the list nor the place of the thread.         *)
LEMMA Stays ==
  ASSUME IInv, UNCHANGED <<lvars, pc, pvars>>
  PROVE  IInv'
<1>1. \A n, m : Before(n, m)' = Before(n, m)
  BY Zenon DEF lvars, Before
<1>2. \A n : LinkOK(n)' = LinkOK(n)
  BY Zenon, <1>1 DEF lvars, LinkOK
<1> QED
  BY Zenon, <1>1, <1>2 DEF IInv, lvars, pvars, TypeOK, HeadOK, ArmOK, InsertOK, CancelOK, Pc

(* Every step of the thread and of the ones that signal it.                *)
LEMMA NextInv ==
  ASSUME IInv, [Next]_vars
  PROVE  IInv'
<1>1. CASE insert
  BY Zenon, <1>1, InsertInv
<1>2. CASE cancel
  BY Zenon, <1>2, CancelInv
<1>3. CASE sys_mbox_fetch \/ sys_sem_wait
  <2>1. PICK d \in 0 .. MaxNow : Charge(d)
    BY Zenon, <1>3 DEF sys_mbox_fetch, sys_sem_wait
  <2>2. d \in Nat /\ pc' \in {"run", "took"}
    BY <1>3, TimeoutsAssumption DEF sys_mbox_fetch, sys_sem_wait
  <2> QED
    BY Zenon, <2>1, <2>2, ChargeInv
<1>4. CASE timeout
  BY Zenon, <1>4, TimeoutInv
<1>5. CASE Arm
  <2>1. PICK x \in Handler, msecs \in Msecs : sys_timeout(x, msecs, "run")
    BY Zenon, <1>5 DEF Arm
  <2> QED
    BY Zenon, <2>1, SysTimeoutInv, TimeoutsAssumption
<1>6. CASE Cancel
  BY Zenon, <1>6, SysUntimeoutInv DEF Cancel
<1>7. CASE Return
  BY Zenon, <1>7, ListSame DEF Return
<1>8. CASE sys_sem_wait_timeout
  <2>1. CASE pc' = "wait" /\ UNCHANGED <<lvars, pvars>>
    BY Zenon, <2>1, ListSame
  <2>2. CASE \E msecs \in Msecs \ {0} : sys_timeout(Top + 1, msecs, "wait")
    <3>1. PICK msecs \in Msecs : sys_timeout(Top + 1, msecs, "wait")
      BY Zenon, <2>2
    <3> QED
      BY Zenon, <3>1, SysTimeoutInv, TimeoutsAssumption
  <2> QED
    BY Zenon, <1>8, <2>1, <2>2 DEF sys_sem_wait_timeout
<1>9. CASE sswt_return
  BY Zenon, <1>9, ListSame, SysUntimeoutInv DEF sswt_return
<1>10. CASE sys_sem_signal
  BY Zenon, <1>10, Stays DEF sys_sem_signal
<1>11. CASE UNCHANGED vars
  BY Zenon, <1>11, Stays DEF vars
<1> QED
  BY Zenon, <1>1, <1>2, <1>3, <1>4, <1>5, <1>6, <1>7, <1>8, <1>9, <1>10, <1>11 DEF Next

-----------------------------------------------------------------------------
(* EarliestFirst, for every number of elements, callers and nested waits:  *)
(* the list of sys_timeout and sys_untimeout keeps the timeout that must   *)
(* run first in front, with exactly the time that is left for it.          *)
THEOREM SpecEarliestFirst == Spec => []EarliestFirst
<1>1. IInv => EarliestFirst
  BY Zenon DEF IInv, HeadOK, EarliestFirst
<1> QED
  BY <1>1, InitInv, NextInv, PTL DEF Spec

(* OnTime: a wait of sys_mbox_fetch or sys_sem_wait takes a timeout out of *)
(* the list at its time and before all that must run later.                *)
THEOREM SpecOnTime == Spec => OnTime
<1>1. ASSUME IInv, Next, pc = "wait", NEW n \in linked \ linked'
      PROVE  now' = due[n] /\ \A m \in linked \ {n} : Before(n, m)
  <2>1. CASE timeout
    <3>1. n = head /\ now' = now + time[head] /\ head # NULL
      BY Zenon, <1>1, <2>1 DEF timeout
    <3>2. due[n] \in Nat /\ now \in Nat
      BY Zenon, <1>1 DEF IInv, TypeOK
    <3> QED
      BY <1>1, <3>1, <3>2 DEF IInv, HeadOK
  <2>2. CASE ~timeout
    BY Zenon, <1>1, <2>2 DEF Next, insert, cancel, sys_mbox_fetch, sys_sem_wait, Charge, Arm, Cancel,
      Return, sys_sem_wait_timeout, sswt_return, sys_sem_signal, lvars
  <2> QED
    BY Zenon, <2>1, <2>2
<1>2. IInv /\ [Next]_vars =>
        [pc = "wait" => \A n \in linked \ linked' :
           now' = due[n] /\ \A m \in linked \ {n} : Before(n, m)]_vars
  BY Zenon, <1>1
<1> QED
  BY <1>2, InitInv, NextInv, PTL DEF Spec, OnTime

-----------------------------------------------------------------------------
(* The waits.  A timeout of sys_sem_wait_timeout is taken out before that  *)
(* call returns: the search of sys_untimeout has not passed it, since it   *)
(* goes from each element to the next one and the list is in order.        *)

Frame == [c : Nat, timeflag : BOOLEAN]

StackOK ==
    /\ stack \in Seq(Frame) /\ Top >= 1 /\ hnd \in [Node -> Handler \cup Nat]
    /\ pc = "took" => Top >= 2

(* The element that sys_timeout is going to link belongs to the last wait. *)
NewWaits ==
    pc = "insert" /\ hnd[new] \notin Handler =>
      /\ hnd[new] = Top /\ Top >= 2 /\ ~stack[Top].timeflag
      /\ \A m \in linked : hnd[m] # Top

(* sys_untimeout has not passed the element it looks for.                  *)
NotPassed(m) == cur # NULL /\ (m = cur \/ Before(cur, m))
EndsWait ==
    pc = "cancel" /\ key \notin Handler =>
      key = Top /\ Top >= 2 /\ \A m \in linked : hnd[m] = key => NotPassed(m)

WInv == StackOK /\ NoDangling /\ NewWaits /\ EndsWait

(* The stack after a change of a frame, a call and a return.               *)
LEMMA SetAt ==
  ASSUME NEW S, NEW s \in Seq(S), NEW d \in 1 .. Len(s), NEW f \in S
  PROVE  /\ [s EXCEPT ![d] = f] \in Seq(S) /\ Len([s EXCEPT ![d] = f]) = Len(s)
         /\ \A e \in 1 .. Len(s) : [s EXCEPT ![d] = f][e] = IF e = d THEN f ELSE s[e]
  OBVIOUS

LEMMA PushAt ==
  ASSUME NEW S, NEW s \in Seq(S), NEW f \in S
  PROVE  /\ Append(s, f) \in Seq(S) /\ Len(Append(s, f)) = Len(s) + 1
         /\ \A e \in 1 .. Len(s) : Append(s, f)[e] = s[e]
         /\ Append(s, f)[Len(s) + 1] = f
  OBVIOUS

LEMMA PopAt ==
  ASSUME NEW S, NEW s \in Seq(S), Len(s) >= 1
  PROVE  /\ SubSeq(s, 1, Len(s) - 1) \in Seq(S)
         /\ Len(SubSeq(s, 1, Len(s) - 1)) = Len(s) - 1
         /\ \A e \in 1 .. Len(s) - 1 : SubSeq(s, 1, Len(s) - 1)[e] = s[e]
<1>1. \A e \in 1 .. Len(s) - 1 : s[e] \in S
  OBVIOUS
<1>2. PICK n \in Nat : n = Len(s) - 1
  OBVIOUS
<1>3. SubSeq(s, 1, n) \in Seq(S)
  BY <1>1, <1>2
<1>4. Len(SubSeq(s, 1, n)) = n
  BY <1>1, <1>2
<1>5. \A e \in 1 .. n : SubSeq(s, 1, n)[e] = s[e]
  BY <1>1, <1>2
<1> QED
  BY Zenon, <1>2, <1>3, <1>4, <1>5

(* Steps that change neither which timeouts are armed nor which waits are  *)
(* over.                                                                   *)
LEMMA SameWaits ==
  ASSUME WInv, hnd' = hnd, linked' = linked, due' = due, arm' = arm,
         stack' \in Seq(Frame), Top' = Top,
         \A d \in 1 .. Top : stack'[d].timeflag = stack[d].timeflag,
         \/ pc' \in {"wait", "run"} \/ (pc' = "took" /\ Top >= 2)
         \/ UNCHANGED <<pc, pvars>>
  PROVE  WInv'
<1>0. Top \in Nat /\ Top >= 1
  BY DEF WInv, StackOK, Top
<1>1. StackOK'
  BY <1>0 DEF WInv, StackOK, pvars
<1>2. NoDangling'
  <2> SUFFICES ASSUME NEW n \in linked', hnd'[n] \notin Handler
               PROVE  /\ hnd'[n] \in 2 .. Top' /\ ~stack'[hnd'[n]].timeflag
                      /\ \A m \in linked' : hnd'[m] = hnd'[n] => m = n
    BY Zenon DEF NoDangling
  <2>1. /\ hnd[n] \in 2 .. Top /\ ~stack[hnd[n]].timeflag
        /\ \A m \in linked : hnd[m] = hnd[n] => m = n
    BY Zenon DEF WInv, NoDangling
  <2>2. hnd[n] \in 1 .. Top
    BY <1>0, <2>1
  <2> QED
    BY Zenon, <2>1, <2>2
<1>3. NewWaits'
  <2> SUFFICES ASSUME pc' = "insert", hnd'[new'] \notin Handler PROVE NewWaits'
    BY Zenon DEF NewWaits
  <2>1. UNCHANGED <<pc, pvars>>
    BY Zenon
  <2>2. /\ hnd[new] = Top /\ Top >= 2 /\ ~stack[Top].timeflag
        /\ \A m \in linked : hnd[m] # Top
    BY Zenon, <2>1 DEF WInv, NewWaits, pvars
  <2>3. Top \in 1 .. Top
    BY <1>0
  <2> QED
    BY Zenon, <2>1, <2>2, <2>3 DEF NewWaits, pvars
<1>4. EndsWait'
  <2> SUFFICES ASSUME pc' = "cancel", key' \notin Handler PROVE EndsWait'
    BY Zenon DEF EndsWait
  <2>1. UNCHANGED <<pc, pvars>>
    BY Zenon
  <2> QED
    BY Zenon, <2>1 DEF WInv, EndsWait, NotPassed, Before, pvars
<1> QED
  BY Zenon, <1>1, <1>2, <1>3, <1>4 DEF WInv

(* sys_timeout arms an element for a caller, or for the wait that begins.  *)
LEMMA ArmWaits ==
  ASSUME IInv, WInv, NEW x, NEW msecs, NEW back \in {"wait", "run"}, sys_timeout(x, msecs, back),
         \/ x \in Handler /\ stack' = stack
         \/ x = Top + 1 /\ stack' = Append(stack, [c |-> 0, timeflag |-> FALSE])
  PROVE  WInv'
<1> DEFINE new0 == [c |-> 0, timeflag |-> FALSE]
<1>1. PICK n \in Node \ linked :
        /\ hnd' = [hnd EXCEPT ![n] = x]
        /\ \/ linked' = linked \cup {n} /\ pc' = back
           \/ linked' = linked /\ new' = n /\ pc' = "insert"
  BY Zenon DEF sys_timeout
<1>2. Top \in Nat /\ Top >= 1 /\ stack \in Seq(Frame) /\ hnd \in [Node -> Handler \cup Nat]
  BY DEF WInv, StackOK, Top
<1>3. /\ stack' \in Seq(Frame) /\ Top' >= Top /\ Top' \in Nat
      /\ \A d \in 1 .. Top : stack'[d] = stack[d]
      /\ x \in Handler \/ (x = Top' /\ x = Top + 1 /\ ~stack'[x].timeflag)
  <2>1. CASE x \in Handler /\ stack' = stack
    BY <1>2, <2>1 DEF Top
  <2>2. CASE x = Top + 1 /\ stack' = Append(stack, new0)
    <3>1. new0 \in Frame /\ ~new0.timeflag
      BY DEF Frame
    <3>2. /\ stack' \in Seq(Frame) /\ Len(stack') = Len(stack) + 1
          /\ \A d \in 1 .. Len(stack) : stack'[d] = stack[d]
          /\ stack'[Len(stack) + 1] = new0
      BY <1>2, <2>2, <3>1, PushAt
    <3> QED
      BY <1>2, <2>2, <3>1, <3>2 DEF Top
  <2> QED
    BY Zenon, <2>1, <2>2
<1>4. x \notin Handler => x \in Nat /\ x >= 2 /\ x = Top' /\ x > Top
  BY <1>2, <1>3
<1>5. linked \subseteq Node /\ hnd'[n] = x /\ \A m \in linked : m # n /\ hnd'[m] = hnd[m]
  BY Zenon, <1>1, <1>2 DEF IInv, TypeOK
<1>6. \A m \in linked : hnd[m] = x => x \in Handler
  <2> SUFFICES ASSUME NEW m \in linked, hnd[m] = x, x \notin Handler PROVE FALSE
    BY Zenon
  <2>1. hnd[m] \in 2 .. Top
    BY Zenon DEF WInv, NoDangling
  <2> QED
    BY <1>2, <1>4, <2>1
<1>7. StackOK'
  <2>1. x \in Handler \cup Nat
    BY Zenon, <1>4
  <2>2. hnd' \in [Node -> Handler \cup Nat]
    BY Zenon, <1>1, <1>2, <2>1
  <2>3. pc' # "took"
    BY Zenon, <1>1
  <2>4. Top' >= 1
    BY <1>2, <1>3
  <2> QED
    BY Zenon, <1>3, <2>2, <2>3, <2>4 DEF StackOK
<1>8. NoDangling'
  <2> SUFFICES ASSUME NEW k \in linked', hnd'[k] \notin Handler
               PROVE  /\ hnd'[k] \in 2 .. Top' /\ ~stack'[hnd'[k]].timeflag
                      /\ \A m \in linked' : hnd'[m] = hnd'[k] => m = k
    BY Zenon DEF NoDangling
  <2>1. CASE k = n
    <3>1. x \in 2 .. Top' /\ ~stack'[x].timeflag
      BY <1>3, <1>4, <1>5, <2>1
    <3> QED
      BY Zenon, <1>1, <1>5, <1>6, <2>1, <3>1
  <2>2. CASE k \in linked
    <3>1. /\ hnd[k] \in 2 .. Top /\ ~stack[hnd[k]].timeflag
          /\ \A m \in linked : hnd[m] = hnd[k] => m = k
      BY Zenon, <1>5, <2>2 DEF WInv, NoDangling
    <3>2. hnd[k] \in 1 .. Top /\ hnd[k] \in 2 .. Top'
      BY <1>2, <1>3, <3>1
    <3>3. hnd[k] # x
      BY Zenon, <1>5, <1>6, <2>2
    <3> QED
      BY Zenon, <1>1, <1>3, <1>5, <2>2, <3>1, <3>2, <3>3
  <2> QED
    BY Zenon, <1>1, <2>1, <2>2
<1>9. NewWaits'
  <2> SUFFICES ASSUME pc' = "insert", hnd'[new'] \notin Handler PROVE NewWaits'
    BY Zenon DEF NewWaits
  <2>1. linked' = linked /\ new' = n
    BY Zenon, <1>1
  <2> QED
    BY Zenon, <1>3, <1>4, <1>5, <1>6, <2>1 DEF NewWaits
<1>10. EndsWait'
  BY Zenon, <1>1 DEF EndsWait
<1> QED
  BY Zenon, <1>7, <1>8, <1>9, <1>10 DEF WInv

(* The loop of sys_timeout goes on, or links the element.                  *)
LEMMA InsertWaits ==
  ASSUME IInv, WInv, insert
  PROVE  WInv'
<1>1. /\ hnd' = hnd /\ stack' = stack /\ Top' = Top /\ new \notin linked
      /\ \/ linked' = linked \cup {new} /\ pc' \in {"wait", "run"}
         \/ linked' = linked /\ pc' = "insert" /\ new' = new
      /\ pc = "insert"
  <2>1. pc = "insert" /\ new \notin linked
    BY Zenon DEF insert, IInv, InsertOK
  <2> QED
    BY Zenon, <2>1 DEF insert, Top
<1>2. StackOK' /\ EndsWait'
  BY Zenon, <1>1 DEF WInv, StackOK, EndsWait
<1>3. NewWaits'
  BY Zenon, <1>1 DEF WInv, NewWaits
<1>4. NoDangling'
  <2>1. CASE linked' = linked
    BY Zenon, <1>1, <2>1 DEF WInv, NoDangling
  <2>2. CASE linked' = linked \cup {new}
    <3>1. \A n \in linked : hnd[n] \notin Handler =>
            /\ hnd[n] \in 2 .. Top /\ ~stack[hnd[n]].timeflag
            /\ \A m \in linked : hnd[m] = hnd[n] => m = n
      BY Zenon DEF WInv, NoDangling
    <3>2. hnd[new] \notin Handler => /\ hnd[new] = Top /\ Top >= 2 /\ ~stack[Top].timeflag
                                     /\ \A m \in linked : hnd[m] # Top
      BY Zenon, <1>1 DEF WInv, NewWaits
    <3>3. Top >= 2 => Top \in 2 .. Top
      BY DEF WInv, StackOK, Top
    <3> QED
      BY Zenon, <1>1, <2>2, <3>1, <3>2, <3>3 DEF NoDangling
  <2> QED
    BY Zenon, <1>1, <2>1, <2>2
<1> QED
  BY Zenon, <1>2, <1>3, <1>4 DEF WInv

(* A wait ends: its timeout is not armed any more.                         *)
LEMMA PopWaits ==
  ASSUME WInv, Top >= 2, stack' = SubSeq(stack, 1, Top - 1), hnd' = hnd, linked' \subseteq linked,
         \A m \in linked' : hnd[m] # Top, pc' \in {"wait", "run"}
  PROVE  WInv'
<1>1. Top \in Nat /\ stack \in Seq(Frame)
  BY DEF WInv, StackOK, Top
<1>3. /\ stack' \in Seq(Frame) /\ Top' = Top - 1
      /\ \A d \in 1 .. Top - 1 : stack'[d] = stack[d]
  <2>1. Len(stack) >= 1 /\ Len(stack) = Top
    BY <1>1 DEF Top
  <2> QED
    BY Zenon, <1>1, <2>1, PopAt DEF Top
<1>4. StackOK'
  <2>1. Top' >= 1
    BY <1>1, <1>3
  <2> QED
    BY Zenon, <1>3, <2>1 DEF WInv, StackOK
<1>5. NoDangling'
  <2> SUFFICES ASSUME NEW n \in linked', hnd'[n] \notin Handler
               PROVE  /\ hnd'[n] \in 2 .. Top' /\ ~stack'[hnd'[n]].timeflag
                      /\ \A m \in linked' : hnd'[m] = hnd'[n] => m = n
    BY Zenon DEF NoDangling
  <2>1. /\ hnd[n] \in 2 .. Top /\ ~stack[hnd[n]].timeflag /\ hnd[n] # Top
        /\ \A m \in linked : hnd[m] = hnd[n] => m = n
    BY Zenon DEF WInv, NoDangling
  <2>2. hnd[n] \in 1 .. Top - 1 /\ hnd[n] \in 2 .. Top'
    BY <1>1, <1>3, <2>1
  <2> QED
    BY Zenon, <1>3, <2>1, <2>2
<1> QED
  BY Zenon, <1>4, <1>5 DEF WInv, NewWaits, EndsWait

(* One iteration of the loop of sys_untimeout: an element it passes is not *)
(* the one it looks for, and the others come after the next one.           *)
LEMMA CancelWaits ==
  ASSUME IInv, WInv, cancel
  PROVE  WInv'
<1>1. CASE cur # NULL /\ hnd[cur] # key
  <2>1. /\ UNCHANGED lvars /\ pc = "cancel" /\ pc' = "cancel" /\ cur' = next[cur]
        /\ key' = key /\ stack' = stack /\ new' = new
    BY Zenon, <1>1 DEF cancel
  <2>2. hnd' = hnd /\ linked' = linked /\ due' = due /\ arm' = arm /\ Top' = Top
    BY Zenon, <2>1 DEF lvars, Top
  <2>3. StackOK' /\ NewWaits' /\ NoDangling'
    BY Zenon, <2>1, <2>2 DEF WInv, StackOK, NewWaits, NoDangling
  <2>4. EndsWait'
    <3> SUFFICES ASSUME key \notin Handler, NEW m \in linked, hnd[m] = key
                 PROVE  next[cur] # NULL /\ (m = next[cur] \/ Before(next[cur], m))
      <4>1. key \in Handler \/ (key = Top /\ Top >= 2)
        BY Zenon, <2>1 DEF WInv, EndsWait
      <4> QED
        BY Zenon, <2>1, <2>2, <4>1 DEF EndsWait, NotPassed, Before
    <3>1. cur \in linked /\ LinkOK(cur) /\ linked \subseteq Node
      BY Zenon, <1>1, <2>1 DEF IInv, CancelOK, TypeOK
    <3>2. Before(cur, m) /\ m # cur
      BY Zenon, <1>1, <2>1 DEF WInv, EndsWait, NotPassed
    <3>3. ~Before(m, cur)
      BY Zenon, <3>1, <3>2, Order DEF IInv
    <3> QED
      BY Zenon, <3>1, <3>2, <3>3 DEF LinkOK
  <2> QED
    BY Zenon, <2>3, <2>4 DEF WInv
<1>2. CASE ~(cur # NULL /\ hnd[cur] # key)
  <2>1. /\ pc = "cancel" /\ pc' = "run" /\ hnd' = hnd
        /\ stack' = IF key \notin Handler THEN SubSeq(stack, 1, Top - 1) ELSE stack
        /\ \/ cur = NULL /\ linked' = linked
           \/ cur # NULL /\ hnd[cur] = key /\ linked' = linked \ {cur}
    BY Zenon, <1>2 DEF cancel
  <2>2. CASE key \in Handler
    <3>1. StackOK' /\ NewWaits' /\ EndsWait'
      BY Zenon, <2>1, <2>2 DEF WInv, StackOK, NewWaits, EndsWait, Top
    <3>2. NoDangling'
      BY Zenon, <2>1, <2>2 DEF WInv, NoDangling, Top
    <3> QED
      BY Zenon, <3>1, <3>2 DEF WInv
  <2>3. CASE key \notin Handler
    <3>1. key = Top /\ Top >= 2 /\ \A m \in linked : hnd[m] = key => NotPassed(m)
      BY Zenon, <2>1, <2>3 DEF WInv, EndsWait
    <3>2. \A m \in linked' : hnd[m] # Top
      <4>1. CASE cur = NULL
        BY Zenon, <2>1, <3>1, <4>1 DEF NotPassed
      <4>2. CASE cur # NULL
        <5>1. cur \in linked /\ hnd[cur] = key
          BY Zenon, <2>1, <4>2 DEF IInv, CancelOK
        <5>2. \A m \in linked : hnd[m] = hnd[cur] => m = cur
          BY Zenon, <2>3, <5>1 DEF WInv, NoDangling
        <5> QED
          BY Zenon, <2>1, <3>1, <4>2, <5>1, <5>2
      <4> QED
        BY Zenon, <4>1, <4>2
    <3>3. linked' \subseteq linked
      BY Zenon, <2>1
    <3> QED
      BY Zenon, <2>1, <2>3, <3>1, <3>2, <3>3, PopWaits
  <2> QED
    BY Zenon, <2>2, <2>3
<1> QED
  BY Zenon, <1>1, <1>2

(* sys_untimeout starts at the first element, which all others follow.     *)
LEMMA UntimeoutWaits ==
  ASSUME IInv, WInv, NEW x, sys_untimeout(x), stack' = stack, x \in Handler \/ (x = Top /\ Top >= 2)
  PROVE  WInv'
<1>1. UNCHANGED lvars /\ key' = x /\ cur' = head /\ pc' = "cancel"
  BY Zenon DEF sys_untimeout
<1>2. hnd' = hnd /\ linked' = linked /\ due' = due /\ arm' = arm /\ Top' = Top /\ head' = head
  BY Zenon, <1>1 DEF lvars, Top
<1>3. StackOK' /\ NewWaits' /\ NoDangling'
  BY Zenon, <1>1, <1>2 DEF WInv, StackOK, NewWaits, NoDangling
<1>4. \A m \in linked : head # NULL /\ (m = head \/ Before(head, m))
  BY Zenon DEF IInv, HeadOK
<1>5. EndsWait'
  BY Zenon, <1>1, <1>2, <1>4 DEF EndsWait, NotPassed, Before
<1> QED
  BY Zenon, <1>3, <1>5 DEF WInv

(* The first element leaves at its time; sswt_handler ends its wait.       *)
LEMMA TimeoutWaits ==
  ASSUME IInv, WInv, timeout
  PROVE  WInv'
<1>1. /\ head \in linked /\ hnd' = hnd /\ linked' = linked \ {head} /\ pc = "wait"
      /\ \/ /\ hnd[head] \notin Handler /\ pc' = "wait"
            /\ stack' = [stack EXCEPT ![hnd[head]] = [c |-> 1, timeflag |-> TRUE]]
         \/ hnd[head] \in Handler /\ pc' = "run" /\ stack' = stack
  BY Zenon DEF timeout, IInv, HeadOK
<1>2. \A n \in linked : hnd[n] \notin Handler =>
        /\ hnd[n] \in 2 .. Top /\ ~stack[hnd[n]].timeflag
        /\ \A m \in linked : hnd[m] = hnd[n] => m = n
  BY Zenon DEF WInv, NoDangling
<1>3. NewWaits' /\ EndsWait'
  BY Zenon, <1>1 DEF NewWaits, EndsWait
<1>4. CASE hnd[head] \in Handler
  BY Zenon, <1>1, <1>2, <1>3, <1>4 DEF WInv, StackOK, NoDangling, Top
<1>5. CASE hnd[head] \notin Handler
  <2>1. /\ stack \in Seq(Frame) /\ hnd[head] \in 2 .. Top
        /\ \A m \in linked : hnd[m] = hnd[head] => m = head
    BY Zenon, <1>1, <1>2, <1>5 DEF WInv, StackOK
  <2>2. [c |-> 1, timeflag |-> TRUE] \in Frame
    BY DEF Frame
  <2>3. Top \in Nat /\ hnd[head] \in 1 .. Len(stack) /\ Len(stack) = Top
    BY <2>1 DEF Top
  <2>4. /\ stack' \in Seq(Frame) /\ Len(stack') = Len(stack)
        /\ \A e \in 1 .. Len(stack) : e # hnd[head] => stack'[e] = stack[e]
    <3>1. PICK d, f : d = hnd[head] /\ f = [c |-> 1, timeflag |-> TRUE]
      BY Zenon
    <3>2. stack' = [stack EXCEPT ![d] = f]
      BY Zenon, <1>1, <1>5, <3>1
    <3>3. f \in Frame /\ d \in 1 .. Len(stack)
      BY Zenon, <2>2, <2>3, <3>1
    <3>4. /\ stack' \in Seq(Frame) /\ Len(stack') = Len(stack)
          /\ \A e \in 1 .. Len(stack) : e # d => stack'[e] = stack[e]
      BY <2>1, <3>2, <3>3, SetAt
    <3> QED
      BY Zenon, <3>1, <3>4
  <2>5. Top' = Top
    BY Zenon, <2>4 DEF Top
  <2>6. StackOK'
    BY Zenon, <1>1, <2>4, <2>5 DEF WInv, StackOK
  <2>7. \A n \in linked' : hnd[n] \notin Handler => hnd[n] # hnd[head] /\ hnd[n] \in 1 .. Len(stack)
    <3> SUFFICES ASSUME NEW n \in linked', hnd[n] \notin Handler
                 PROVE  hnd[n] # hnd[head] /\ hnd[n] \in 1 .. Len(stack)
      BY Zenon
    <3>1. hnd[n] # hnd[head] /\ hnd[n] \in 2 .. Top
      BY Zenon, <1>1, <1>2, <2>1
    <3> QED
      BY <2>3, <3>1
  <2>8. NoDangling'
    BY Zenon, <1>1, <1>2, <2>4, <2>5, <2>7 DEF NoDangling
  <2> QED
    BY Zenon, <1>3, <2>6, <2>8 DEF WInv
<1> QED
  BY Zenon, <1>4, <1>5

(* Every step of the thread and of the ones that signal it.                *)
LEMMA NextWaits ==
  ASSUME IInv, WInv, [Next]_vars
  PROVE  WInv'
<1>0. stack \in Seq(Frame) /\ Top \in Nat /\ Top >= 1 /\ Len(stack) = Top
  BY DEF WInv, StackOK, Top
<1>1. CASE insert
  BY Zenon, <1>1, InsertWaits
<1>2. CASE cancel
  BY Zenon, <1>2, CancelWaits
<1>3. CASE sys_mbox_fetch \/ Return \/ UNCHANGED vars
  <2>1. /\ hnd' = hnd /\ linked' = linked /\ due' = due /\ arm' = arm /\ stack' = stack
        /\ pc' \in {"wait", "run"} \/ UNCHANGED <<pc, pvars>>
    BY Zenon, <1>3 DEF sys_mbox_fetch, Charge, Return, vars, lvars
  <2> QED
    BY Zenon, <1>0, <2>1, SameWaits DEF Top
<1>4. CASE sys_sem_wait
  <2>1. /\ hnd' = hnd /\ linked' = linked /\ due' = due /\ arm' = arm /\ pc' = "took" /\ Top > 1
        /\ stack' = [stack EXCEPT ![Top].c = @ - 1] /\ stack[Top].c > 0
    BY Zenon, <1>4 DEF sys_sem_wait, Charge
  <2>2. PICK f : f = [stack[Top] EXCEPT !.c = @ - 1]
    BY Zenon
  <2>3. Top \in 1 .. Len(stack) /\ Top >= 2
    BY <1>0, <2>1
  <2>4. f \in Frame /\ f.timeflag = stack[Top].timeflag
    <3>1. stack[Top] \in Frame
      BY <1>0, <2>3
    <3> QED
      BY <2>1, <2>2, <3>1 DEF Frame
  <2>5. stack' = [stack EXCEPT ![Top] = f]
    BY Zenon, <2>1, <2>2
  <2>6. /\ stack' \in Seq(Frame) /\ Len(stack') = Len(stack)
        /\ \A e \in 1 .. Len(stack) : stack'[e] = IF e = Top THEN f ELSE stack[e]
    BY <1>0, <2>3, <2>4, <2>5, SetAt
  <2>7. Top' = Top /\ \A d \in 1 .. Top : stack'[d].timeflag = stack[d].timeflag
    BY Zenon, <1>0, <2>4, <2>6 DEF Top
  <2> QED
    BY Zenon, <2>1, <2>3, <2>6, <2>7, SameWaits
<1>5. CASE timeout
  BY Zenon, <1>5, TimeoutWaits
<1>6. CASE Arm
  <2>1. PICK x \in Handler, msecs \in Msecs : sys_timeout(x, msecs, "run")
    BY Zenon, <1>6 DEF Arm
  <2>2. stack' = stack
    BY Zenon, <1>6 DEF Arm
  <2> QED
    BY Zenon, <2>1, <2>2, ArmWaits
<1>7. CASE Cancel
  BY Zenon, <1>7, UntimeoutWaits DEF Cancel
<1>8. CASE sys_sem_wait_timeout
  <2>0. [c |-> 0, timeflag |-> FALSE] \in Frame /\ ~[c |-> 0, timeflag |-> FALSE].timeflag
    BY DEF Frame
  <2>1. stack' = Append(stack, [c |-> 0, timeflag |-> FALSE])
    BY Zenon, <1>8 DEF sys_sem_wait_timeout
  <2>2. CASE pc' = "wait" /\ UNCHANGED <<lvars, pvars>>
    <3>1. hnd' = hnd /\ linked' = linked
      BY Zenon, <2>2 DEF lvars
    <3>2. /\ stack' \in Seq(Frame) /\ Len(stack') = Len(stack) + 1
          /\ \A e \in 1 .. Len(stack) : stack'[e] = stack[e]
      BY <1>0, <2>0, <2>1, PushAt
    <3>3. Top' = Top + 1 /\ Top' >= 1
      BY <1>0, <3>2 DEF Top
    <3>4. StackOK'
      BY Zenon, <2>2, <3>1, <3>2, <3>3 DEF WInv, StackOK
    <3>5. ASSUME NEW n \in linked, hnd[n] \notin Handler
          PROVE  hnd[n] \in 2 .. Top' /\ ~stack'[hnd[n]].timeflag
      <4>1. hnd[n] \in 2 .. Top /\ ~stack[hnd[n]].timeflag
        BY Zenon, <3>5 DEF WInv, NoDangling
      <4> QED
        BY <1>0, <3>2, <3>3, <4>1
    <3>6. NoDangling'
      BY Zenon, <3>1, <3>5 DEF WInv, NoDangling
    <3> QED
      BY Zenon, <2>2, <3>4, <3>6 DEF WInv, NewWaits, EndsWait
  <2>3. CASE \E msecs \in Msecs \ {0} : sys_timeout(Top + 1, msecs, "wait")
    BY Zenon, <2>1, <2>3, ArmWaits
  <2> QED
    BY Zenon, <1>8, <2>2, <2>3 DEF sys_sem_wait_timeout
<1>9. CASE sswt_return
  <2>0. Top >= 2
    BY Zenon, <1>9 DEF sswt_return, WInv, StackOK
  <2>1. CASE stack[Top].timeflag
    <3>1. /\ pc' = "run" /\ stack' = SubSeq(stack, 1, Top - 1) /\ hnd' = hnd /\ linked' = linked
      BY Zenon, <1>9, <2>1 DEF sswt_return, lvars
    <3>2. Top \notin Handler
      BY Zenon, <1>0, TimeoutsAssumption
    <3>3. \A m \in linked : hnd[m] # Top
      BY Zenon, <2>1, <3>2 DEF WInv, NoDangling
    <3> QED
      BY Zenon, <2>0, <3>1, <3>3, PopWaits
  <2>2. CASE ~stack[Top].timeflag
    BY Zenon, <1>9, <2>0, <2>2, UntimeoutWaits DEF sswt_return
  <2> QED
    BY Zenon, <2>1, <2>2
<1>10. CASE sys_sem_signal
  <2>1. PICK d \in 2 .. Top : stack' = [stack EXCEPT ![d].c = 1]
    BY Zenon, <1>10 DEF sys_sem_signal
  <2>2. PICK f : f = [stack[d] EXCEPT !.c = 1]
    BY Zenon
  <2>3. d \in 1 .. Len(stack)
    BY <1>0
  <2>4. f \in Frame /\ f.timeflag = stack[d].timeflag
    <3>1. stack[d] \in Frame
      BY <1>0, <2>3
    <3> QED
      BY <2>2, <3>1 DEF Frame
  <2>5. stack' = [stack EXCEPT ![d] = f]
    BY Zenon, <2>1, <2>2
  <2>6. /\ stack' \in Seq(Frame) /\ Len(stack') = Len(stack)
        /\ \A e \in 1 .. Len(stack) : stack'[e] = IF e = d THEN f ELSE stack[e]
    BY <1>0, <2>3, <2>4, <2>5, SetAt
  <2>7. Top' = Top /\ \A e \in 1 .. Top : stack'[e].timeflag = stack[e].timeflag
    BY Zenon, <1>0, <2>4, <2>6 DEF Top
  <2>8. /\ hnd' = hnd /\ linked' = linked /\ due' = due /\ arm' = arm /\ UNCHANGED <<pc, pvars>>
    BY Zenon, <1>10 DEF sys_sem_signal, lvars
  <2> QED
    BY Zenon, <2>6, <2>7, <2>8, SameWaits
<1> QED
  BY Zenon, <1>1, <1>2, <1>3, <1>4, <1>5, <1>6, <1>7, <1>8, <1>9, <1>10 DEF Next

(* At the start nothing is armed and only the main loop waits.              *)
LEMMA InitWaits == Init => WInv
  BY TimeoutsAssumption DEF Init, WInv, StackOK, NoDangling, NewWaits, EndsWait, Frame, Top

(* NoDangling, for every number of elements, callers and nested waits: a   *)
(* timeout of sys_sem_wait_timeout is in the list only while that call     *)
(* waits and its time has not come.                                        *)
THEOREM SpecNoDangling == Spec => []NoDangling
<1>1. IInv /\ WInv /\ [Next]_vars => (IInv /\ WInv)'
  BY Zenon, NextInv, NextWaits
<1>2. Init => IInv /\ WInv
  BY Zenon, InitInv, InitWaits
<1>3. IInv /\ WInv => NoDangling
  BY Zenon DEF WInv
<1> QED
  BY <1>1, <1>2, <1>3, PTL DEF Spec
=============================================================================
