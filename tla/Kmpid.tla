------------------------------- MODULE Kmpid --------------------------------
(***************************************************************************)
(* kmview-kernel-module/kmview_alloc.c, the table that numbers the traced  *)
(* threads: pages of ALLOCUNIT elements reached through km_head, of which  *)
(* the first km_nthread are initialized, and a list of the free ones that  *)
(* runs through the elements (next_kmpid).  Every operation holds          *)
(* kmpid_mutex and is one step.  Its callers free a number once, when they *)
(* free the structure that has it (module KmModule).  Nothing ever sets    *)
(* kmpid_deny_new_threads.                                                 *)
(***************************************************************************)
EXTENDS Integers

CONSTANTS Thread, NULL,
          GARBAGE,      \* what an element that was never written contains
          ALLOCUNIT,    \* elements of a page, and growth of km_head
          MaxKmpid      \* bound on km_nthread

ASSUME KmpidAssumption ==
    /\ ALLOCUNIT \in Nat \ {0} /\ MaxKmpid \in Nat
    /\ NULL \notin Thread /\ GARBAGE \notin Thread /\ NULL # GARBAGE

VARIABLES km_thread, next_kmpid,   \* fields of the elements
          km_freehead, km_nthread, km_nhead, km_maxhead,
          kmpid,   \* kmt->kmpid of every thread structure, -1 for none
          pos      \* history: the place of a free element in the list, from its end

vars == <<km_thread, next_kmpid, km_freehead, km_nthread, km_nhead, km_maxhead, kmpid, pos>>

Slot == 0 .. MaxKmpid - 1

(* kmpid_init, with the contents kmalloc will return *)
Init ==
    /\ km_thread = [k \in Slot |-> GARBAGE]
    /\ next_kmpid = [k \in Slot |-> -1]
    /\ km_freehead = -1
    /\ km_nthread = 0 /\ km_nhead = 0 /\ km_maxhead = 0
    /\ kmpid = [t \in Thread |-> -1]
    /\ pos = [k \in Slot |-> 0]

(* kmpid_alloc with a free element: the head of the list *)
AllocFree(t) ==
    /\ kmpid[t] = -1
    /\ km_freehead >= 0
    /\ kmpid' = [kmpid EXCEPT ![t] = km_freehead]
    /\ km_thread' = [km_thread EXCEPT ![km_freehead] = t]
    /\ km_freehead' = next_kmpid[km_freehead]
    /\ UNCHANGED <<next_kmpid, km_nthread, km_nhead, km_maxhead, pos>>

AllocNew_slip(t) ==
    /\ kmpid[t] = -1
    /\ km_freehead < 0
    /\ km_nthread < MaxKmpid
    /\ kmpid' = [kmpid EXCEPT ![t] = km_nthread]
    /\ km_nthread' = km_nthread + 1
    /\ IF km_nhead * ALLOCUNIT < km_nthread
       THEN /\ km_nhead' = km_nhead + 1
            /\ km_maxhead' = IF km_nhead >= km_maxhead THEN km_maxhead + ALLOCUNIT ELSE km_maxhead
       ELSE UNCHANGED <<km_nhead, km_maxhead>>
    /\ km_thread' = [km_thread EXCEPT ![km_nthread] = t]
    /\ UNCHANGED <<next_kmpid, km_freehead, pos>>

(* kmpid_alloc without one: the next element, in a new page if needed,     *)
(* after km_realloc_head if km_head has no place for the page.             *)
AllocNew(t) ==
    /\ kmpid[t] = -1
    /\ km_freehead < 0
    /\ km_nthread < MaxKmpid
    /\ kmpid' = [kmpid EXCEPT ![t] = km_nthread]
    /\ km_nthread' = km_nthread + 1
    /\ IF km_nhead * ALLOCUNIT < km_nthread + 1
       THEN /\ km_nhead' = km_nhead + 1
            /\ km_maxhead' = IF km_nhead >= km_maxhead THEN km_maxhead + ALLOCUNIT ELSE km_maxhead
       ELSE UNCHANGED <<km_nhead, km_maxhead>>
    /\ km_thread' = [km_thread EXCEPT ![km_nthread] = t]
    /\ UNCHANGED <<next_kmpid, km_freehead, pos>>

kmpid_free_slip(t) ==
    LET k == kmpid[t]
    IN  /\ k # -1
        /\ km_thread' = [km_thread EXCEPT ![k] = NULL]
        /\ km_freehead' = k
        /\ next_kmpid' = [next_kmpid EXCEPT ![k] = km_freehead']
        /\ pos' = [pos EXCEPT ![k] = IF km_freehead = -1 THEN 0 ELSE pos[km_freehead] + 1]
        /\ kmpid' = [kmpid EXCEPT ![t] = -1]
        /\ UNCHANGED <<km_nthread, km_nhead, km_maxhead>>

kmpid_free_lost(t) ==
    LET k == kmpid[t]
    IN  /\ k # -1
        /\ km_thread' = [km_thread EXCEPT ![k] = NULL]
        /\ kmpid' = [kmpid EXCEPT ![t] = -1]
        /\ UNCHANGED <<next_kmpid, km_freehead, km_nthread, km_nhead, km_maxhead, pos>>

(* kmpid_free, by kmview_thread_free, which then frees the structure *)
kmpid_free(t) ==
    LET k == kmpid[t]
    IN  /\ k # -1
        /\ km_thread' = [km_thread EXCEPT ![k] = NULL]
        /\ next_kmpid' = [next_kmpid EXCEPT ![k] = km_freehead]
        /\ km_freehead' = k
        /\ pos' = [pos EXCEPT ![k] = IF km_freehead = -1 THEN 0 ELSE pos[km_freehead] + 1]
        /\ kmpid' = [kmpid EXCEPT ![t] = -1]
        /\ UNCHANGED <<km_nthread, km_nhead, km_maxhead>>

(* kmpid_search: the thread of a number, NULL if it has none *)
kmpid_search(k) == IF k < km_nthread THEN km_thread[k] ELSE NULL

Next == \E t \in Thread : AllocFree(t) \/ AllocNew(t) \/ kmpid_free(t)

Spec == Init /\ [][Next]_vars
-----------------------------------------------------------------------------
(* The variables are in the ranges of their C types.                       *)
TypeOK ==
    /\ km_thread \in [Slot -> Thread \cup {NULL, GARBAGE}]
    /\ next_kmpid \in [Slot -> Slot \cup {-1}]
    /\ km_freehead \in Slot \cup {-1}
    /\ km_nthread \in 0 .. MaxKmpid /\ km_nhead \in Nat /\ km_maxhead \in Nat
    /\ kmpid \in [Thread -> Slot \cup {-1}]
    /\ pos \in [Slot -> Nat]

(* kmpid_search returns the thread that has the number and no other, never *)
(* what an uninitialized element contains: an ioctl acts on the process    *)
(* whose kmpid the tracer was given.                                       *)
SearchRight ==
    /\ \A t \in Thread : kmpid[t] # -1 => kmpid_search(kmpid[t]) = t
    /\ \A k \in Slot : kmpid_search(k) # NULL =>
         kmpid_search(k) \in Thread /\ kmpid[kmpid_search(k)] = k

(* The element of every number that kmpid_alloc returned is in a page, and *)
(* the page in km_head: no index of kmpid2struct is out of bounds.         *)
InPages == km_nthread <= km_nhead * ALLOCUNIT /\ km_nhead <= km_maxhead

(* The table grows only when every number is in use, so its size is the    *)
(* largest number of threads that ever lived together.                     *)
GrowsWhenFull ==
    [][km_nthread' # km_nthread => \A k \in 0 .. km_nthread - 1 : km_thread[k] \in Thread]_vars

(* The table gives out numbers as KmpidSpec says.                          *)
Abstract == INSTANCE KmpidSpec
Implements == Abstract!Spec
=============================================================================
