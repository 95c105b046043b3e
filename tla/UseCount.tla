------------------------------ MODULE UseCount ------------------------------
(***************************************************************************)
(* The use counts of the elements of the hash table: what keeps a mount    *)
(* with open files from being unmounted and a module with mounts from      *)
(* being unloaded.                                                         *)
(*                                                                         *)
(* A module element counts two for each of its mounts (ht_count_plus1 on a *)
(* module element finds the element itself as the element of its service)  *)
(* and one for each file open through an element of its service.  Such an  *)
(* element counts its open files.  It is the pathname of a mount           *)
(* (CHECKPATH), a second element of the same mount (the CHECKSOCKET of     *)
(* umnet, the CHECKCHRDEVICE or CHECKBLKDEVICE of umdev), or one the       *)
(* module adds when it is loaded.  All are elements of one view.           *)
(*                                                                         *)
(* An umount deletes both elements of the mount and looks at the count of  *)
(* the pathname only.  umdev has a count of its own for both; umnet has    *)
(* none, and the sockets that are open through the second element then     *)
(* point to freed memory, which may be that of a new element.  stale       *)
(* records that this has happened: from then on the counts say nothing,    *)
(* and nothing is claimed of them.                                         *)
(*                                                                         *)
(* A refused call changes nothing here and is the absence of a step.       *)
(***************************************************************************)
EXTENDS Integers, FiniteSets

CONSTANTS
    Module,        \* the service modules
    Elem,          \* memory of the ht_elem that files are opened through
    File,          \* the elements of lfd_tab
    Hook,          \* the modules whose viewos_init adds elements
    Net,           \* the modules whose mounts have an element for sockets
    Dev,           \* the modules whose mounts may have an element for a device
    Renewing,      \* the modules with a mount option like renew (viewfs)
    MaxCount       \* bound: the use count of a module

NULL == "NULL"

ASSUME ConstAssumption ==
    /\ IsFiniteSet(Elem) /\ IsFiniteSet(File) /\ NULL \notin Module \cup Elem
    /\ Net \cap Dev = {} /\ MaxCount \in Nat

VARIABLES
    loaded,        \* the modules with an element of type CHECKMODULE
    count,         \* count of the module elements
    own,           \* the module elements whose service_hte is set (to themselves)
    perm,          \* modules added with the flag permanent
    live,          \* the elements that are in the hash table
    serv,          \* service of an element
    mh,            \* the mount it belongs to (private_data), named by the element
                   \* of its pathname; NULL: added by viewos_init
    ecount,        \* count of an element
    linked,        \* the elements whose service_hte is set
    eperm,         \* mounts with the option permanent
    inuse,         \* inuse of a struct umdev
    hte,           \* element of each open file, NULL: the entry is free
    stale          \* history: an umount deleted the element of an open socket

mvars == <<loaded, count, own, perm>>
evars == <<live, serv, mh, ecount, linked, eperm, inuse>>
vars == <<mvars, evars, hte, stale>>

TypeOK ==
    /\ loaded \subseteq Module /\ own \subseteq Module /\ perm \subseteq Module
    /\ count \in [Module -> Int]
    /\ live \subseteq Elem /\ linked \subseteq Elem /\ eperm \subseteq Elem
    /\ serv \in [Elem -> Module \cup {NULL}] /\ mh \in [Elem -> Elem \cup {NULL}]
    /\ ecount \in [Elem -> Int] /\ inuse \in [Elem -> Int]
    /\ hte \in [File -> Elem \cup {NULL}] /\ stale \in BOOLEAN

Init ==
    /\ loaded = {} /\ own = {} /\ perm = {} /\ live = {} /\ linked = {} /\ eperm = {}
    /\ count = [m \in Module |-> 0]
    /\ serv = [e \in Elem |-> NULL] /\ mh = [e \in Elem |-> NULL]
    /\ ecount = [e \in Elem |-> 0] /\ inuse = [e \in Elem |-> 0]
    /\ hte = [f \in File |-> NULL] /\ stale = FALSE

-----------------------------------------------------------------------------
(* New elements E of the module m, for the mount h or for none; the mount  *)
(* may be permanent.                                                       *)
internal_ht_tab_add(E, m, h, permanent) ==
    /\ live' = live \cup E
    /\ serv' = [e \in Elem |-> IF e \in E THEN m ELSE serv[e]]
    /\ mh' = [e \in Elem |-> IF e \in E THEN h ELSE mh[e]]
    /\ ecount' = [e \in Elem |-> IF e \in E THEN IF e = h /\ permanent THEN 1 ELSE 0
                                 ELSE ecount[e]]
    /\ linked' = linked \ E
    /\ eperm' = IF permanent THEN (eperm \ E) \cup {h} ELSE eperm \ E
    /\ inuse' = [e \in Elem |-> IF e \in E THEN 0 ELSE inuse[e]]

(* viewos_init, if there is one, adds the elements E.  A permanent module  *)
(* counts one: its time is that of the call, so the search of              *)
(* ht_count_plus1 does not find the new element yet.                       *)
add_service(m, E, permanent) ==
    /\ m \notin loaded
    /\ E \cap live = {} /\ (E = {} <=> m \notin Hook)
    /\ loaded' = loaded \cup {m} /\ own' = own \ {m}
    /\ count' = [count EXCEPT ![m] = IF permanent THEN 1 ELSE 0]
    /\ perm' = IF permanent THEN perm \cup {m} ELSE perm \ {m}
    /\ internal_ht_tab_add(E, m, NULL, FALSE)
    /\ UNCHANGED <<hte, stale>>

(* viewos_fini deletes them.                                               *)
del_service_slip(m) ==
    /\ m \in loaded
    /\ loaded' = loaded \ {m}
    /\ live' = {e \in live : ~(serv[e] = m /\ mh[e] = NULL)}
    /\ UNCHANGED <<count, own, perm, serv, mh, ecount, linked, eperm, inuse, hte, stale>>
del_service(m) ==
    /\ m \in loaded /\ count[m] = 0
    /\ loaded' = loaded \ {m}
    /\ live' = {e \in live : ~(serv[e] = m /\ mh[e] = NULL)}
    /\ UNCHANGED <<count, own, perm, serv, mh, ecount, linked, eperm, inuse, hte, stale>>

(* ht_count_plus1 and ht_count_minus1 on a module element                  *)
count_module_plus1(m) ==
    /\ own' = own \cup {m}
    /\ count' = [count EXCEPT ![m] = @ + 2]
count_module_minus1(m) ==
    /\ own' = own
    /\ count' = [count EXCEPT ![m] = IF m \in own THEN @ - 2 ELSE @ - 1]

(* the same on an element of a service                                     *)
count_elem_plus1(e) ==
    /\ linked' = linked \cup (IF serv[e] \in loaded THEN {e} ELSE {})
    /\ count' = IF e \in linked' THEN [count EXCEPT ![serv[e]] = @ + 1] ELSE count
    /\ ecount' = [ecount EXCEPT ![e] = @ + 1]
count_elem_minus1_slip(e) ==
    /\ linked' = linked
    /\ count' = count
    /\ ecount' = [ecount EXCEPT ![e] = @ - 1]
count_elem_minus1(e) ==
    /\ linked' = linked
    /\ count' = IF e \in linked THEN [count EXCEPT ![serv[e]] = @ - 1] ELSE count
    /\ ecount' = [ecount EXCEPT ![e] = @ - 1]

(* The second element of a mount of m, if it has one: always in umnet, for *)
(* a device number in umdev.                                               *)
Second(m, S) ==
    \/ S = {} /\ m \notin Net
    \/ m \in Net \cup Dev /\ \E s \in Elem \ live : S = {s}

(* wrap_in_mount with the mount function of the module                     *)
wrap_in_mount(m, h, S, permanent) ==
    /\ m \in loaded /\ count[m] < MaxCount
    /\ h \notin live \cup S /\ Second(m, S)
    /\ internal_ht_tab_add({h} \cup S, m, h, permanent)
    /\ count_module_plus1(m)
    /\ UNCHANGED <<loaded, perm, hte, stale>>

(* A mount with the option renew gives a new time to the element mounted   *)
(* there and returns 0 like every other mount.                             *)
mount_renew(m, h) ==
    /\ m \in Renewing /\ m \in loaded /\ count[m] < MaxCount
    /\ h \in live /\ serv[h] = m /\ mh[h] = h
    /\ count_module_plus1(m)
    /\ UNCHANGED <<loaded, perm, evars, hte, stale>>

OpenSocket(h) ==
    serv[h] \in Net /\ \E f \in File : hte[f] \in live \ {h} /\ mh[hte[f]] = h

(* The umount function of the module: umdev refuses while it is in use.    *)
umount2_slip(h) ==
    /\ live' = {e \in live : mh[e] /= h}
    /\ stale' = (stale \/ OpenSocket(h))
umount2(h) ==
    /\ serv[h] \in Dev => inuse[h] = 0
    /\ live' = {e \in live : mh[e] /= h}
    /\ stale' = (stale \/ OpenSocket(h))

(* wrap_in_umount_generic: busy when counted, then the umount function of  *)
(* the module deletes the elements; the module element is looked for by    *)
(* the name the service of the deleted element had.                        *)
wrap_in_umount(h) ==
    /\ h \in live /\ mh[h] = h /\ ~(ecount[h] > 0)
    /\ umount2(h)
    /\ IF serv[h] \in loaded THEN count_module_minus1(serv[h]) ELSE UNCHANGED <<own, count>>
    /\ UNCHANGED <<loaded, perm, serv, mh, ecount, linked, eperm, inuse, hte>>

(* lfd_open after the open function of the module, which counts in umdev   *)
lfd_open(f, e) ==
    /\ hte[f] = NULL /\ count[serv[e]] < MaxCount
    /\ hte' = [hte EXCEPT ![f] = e]
    /\ inuse' = IF serv[e] \in Dev /\ mh[e] /= NULL THEN [inuse EXCEPT ![mh[e]] = @ + 1] ELSE inuse
    /\ count_elem_plus1(e)
    /\ UNCHANGED <<loaded, own, perm, live, serv, mh, eperm, stale>>

(* open, msocket and socket use the element the search returned, accept    *)
(* the one of the socket that listens.                                     *)
open(f) == \E e \in live : lfd_open(f, e)
wrap_in_accept(f) ==
    \E g \in File : hte[g] /= NULL /\ serv[hte[g]] \in Net /\ lfd_open(f, hte[g])

(* lfd_close of the last reference, with the close function of the module  *)
lfd_close(f) ==
    LET e == hte[f]
    IN  /\ e /= NULL
        /\ hte' = [hte EXCEPT ![f] = NULL]
        /\ inuse' = IF serv[e] \in Dev /\ mh[e] /= NULL THEN [inuse EXCEPT ![mh[e]] = @ - 1] ELSE inuse
        /\ count_elem_minus1(e)
        /\ UNCHANGED <<loaded, own, perm, live, serv, mh, eperm, stale>>

Next ==
    \/ \E m \in Module :
         \/ del_service(m)
         \/ \E E \in SUBSET Elem, p \in BOOLEAN : add_service(m, E, p)
         \/ \E h \in Elem : \/ mount_renew(m, h)
                            \/ \E S \in SUBSET Elem, p \in BOOLEAN : wrap_in_mount(m, h, S, p)
    \/ \E h \in Elem : wrap_in_umount(h)
    \/ \E f \in File : open(f) \/ wrap_in_accept(f) \/ lfd_close(f)

Spec == Init /\ [][Next]_vars
-----------------------------------------------------------------------------
MountsOf(m) == {h \in live : mh[h] = h /\ serv[h] = m}
FilesOn(e) == {f \in File : hte[f] = e}
FilesUnder(h) == {f \in File : hte[f] /= NULL /\ mh[hte[f]] = h}
FilesOf(m) == {f \in File : hte[f] /= NULL /\ serv[hte[f]] = m}
One(b) == IF b THEN 1 ELSE 0

(* No open file is left behind by an umount or a del_service, also when it *)
(* was opened through the device element of umdev: the element it points   *)
(* to (lfd_tab[lfd]->hte) stays in the table until it is closed.  The one  *)
(* exception is a socket open through the second element of umnet: before  *)
(* an umount has met one, nothing is left behind.                          *)
FilesKeepMounts == ~stale => \A f \in File : hte[f] /= NULL => hte[f] \in live

(* No element is left behind by del_service, which dlcloses the code that  *)
(* serves it: the module of every element is loaded.                       *)
MountsKeepModules == ~stale => \A e \in live : serv[e] \in loaded

Uses(m) == 2 * Cardinality(MountsOf(m)) + Cardinality(FilesOf(m)) + One(m \in perm)

(* umount and del_service never see a count that is too low, and only      *)
(* renewed mounts make it too high: an element counts its files, plus one  *)
(* if it is a permanent mount; umdev counts the files of both elements; a  *)
(* module counts two for every mount and one for every file, plus one if   *)
(* it is permanent.                                                        *)
CountsCover ==
    ~stale =>
      /\ \A e \in live : ecount[e] = Cardinality(FilesOn(e)) + One(e \in eperm)
      /\ \A h \in live : mh[h] = h /\ serv[h] \in Dev => inuse[h] = Cardinality(FilesUnder(h))
      /\ \A m \in loaded : count[m] >= Uses(m) /\ (m \notin Renewing => count[m] = Uses(m))

(* um_add_service(1): "the module becomes permanent when set"; any other   *)
(* module can be removed by um_del_service(1) once nothing of it is        *)
(* mounted or open.                                                        *)
UnusedCanGo ==
    ~stale => \A m \in loaded \ perm : MountsOf(m) = {} /\ FilesOf(m) = {} => count[m] = 0
=============================================================================
