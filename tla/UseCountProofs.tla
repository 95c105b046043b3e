--------------------------- MODULE UseCountProofs ---------------------------
(***************************************************************************)
(* The use counts are right for every number of modules, elements and      *)
(* files, until an umount meets an open socket.                            *)
(*                                                                         *)
(* The counts protect elements and modules, and that they are protected is *)
(* why the counts stay right: FilesKeepMounts, MountsKeepModules and       *)
(* CountsCover are only inductive together, with two more facts.  LinksInv *)
(* says that an element that is in use knows the element of its module,    *)
(* MountInv that the elements of a mount come and go together.             *)
(***************************************************************************)
EXTENDS UseCount, FiniteSetTheorems, TLAPS

LinksInv ==
    /\ \A m \in Module : MountsOf(m) # {} => m \in own
    /\ \A e \in Elem : FilesOn(e) # {} => e \in linked

MountInv ==
    \A e \in live : mh[e] # NULL =>
        /\ mh[e] \in live /\ mh[mh[e]] = mh[e] /\ serv[mh[e]] = serv[e]
        /\ mh[e] # e => serv[e] \in Net \cup Dev

(* What FilesKeepMounts, MountsKeepModules and CountsCover say before      *)
(* stale, the last one of each element, mount and module.                  *)
FilesOK == \A f \in File : hte[f] # NULL => hte[f] \in live
ServOK == \A e \in live : serv[e] \in loaded
ElemOK(e) == e \in live => ecount[e] = Cardinality(FilesOn(e)) + One(e \in eperm)
DevOK(h) == h \in live /\ mh[h] = h /\ serv[h] \in Dev => inuse[h] = Cardinality(FilesUnder(h))
ModuleOK(m) == count[m] >= Uses(m) /\ (m \notin Renewing => count[m] = Uses(m))
ElemsOK == \A e \in Elem : ElemOK(e) /\ DevOK(e)
ModulesOK == \A m \in loaded : ModuleOK(m)

Good == FilesOK /\ ServOK /\ ElemsOK /\ ModulesOK /\ LinksInv /\ MountInv
IInv == TypeOK /\ (~stale => Good)

(* The sets that are counted are finite.                                   *)
LEMMA Finite ==
  /\ \A e : IsFiniteSet(FilesOn(e)) /\ Cardinality(FilesOn(e)) \in Nat
  /\ \A h : IsFiniteSet(FilesUnder(h)) /\ Cardinality(FilesUnder(h)) \in Nat
  /\ \A m : IsFiniteSet(FilesOf(m)) /\ Cardinality(FilesOf(m)) \in Nat
  /\ TypeOK => \A m : IsFiniteSet(MountsOf(m)) /\ Cardinality(MountsOf(m)) \in Nat
<1>1. \A e : FilesOn(e) \subseteq File
  BY Zenon DEF FilesOn
<1>2. \A m : FilesOf(m) \subseteq File
  BY Zenon DEF FilesOf
<1>3. \A h : FilesUnder(h) \subseteq File
  BY Zenon DEF FilesUnder
<1>4. TypeOK => \A m : MountsOf(m) \subseteq Elem
  BY Zenon DEF MountsOf, TypeOK
<1> QED
  BY Zenon, <1>1, <1>2, <1>3, <1>4, ConstAssumption, FS_Subset, FS_CardinalityType

(* A module nothing of which changes keeps its count right.                *)
LEMMA SameModule ==
  ASSUME NEW m, ModuleOK(m), count'[m] = count[m], MountsOf(m)' = MountsOf(m),
         FilesOf(m)' = FilesOf(m), (m \in perm') = (m \in perm)
  PROVE  ModuleOK(m)'
<1>1. Uses(m)' = Uses(m)
  BY Zenon DEF Uses, One
<1> QED
  BY Zenon, <1>1 DEF ModuleOK

(* An element nothing of which changes keeps its count right.              *)
LEMMA SameElem ==
  ASSUME NEW e, ElemOK(e), e \in live' => e \in live, ecount'[e] = ecount[e],
         FilesOn(e)' = FilesOn(e), (e \in eperm') = (e \in eperm)
  PROVE  ElemOK(e)'
  BY Zenon DEF ElemOK, One

(* A mount of umdev nothing of which changes keeps its count right.        *)
LEMMA SameDev ==
  ASSUME NEW h, DevOK(h), h \in live' => h \in live, mh'[h] = mh[h], serv'[h] = serv[h],
         inuse'[h] = inuse[h], FilesUnder(h)' = FilesUnder(h)
  PROVE  DevOK(h)'
  BY Zenon DEF DevOK

(* Nothing is loaded, mounted or open at the start.                        *)
LEMMA InitInv == Init => IInv
<1> SUFFICES ASSUME Init PROVE IInv
  BY Zenon
<1>1. TypeOK
  <2>1. /\ count \in [Module -> Int] /\ ecount \in [Elem -> Int] /\ inuse \in [Elem -> Int]
        /\ serv \in [Elem -> Module \cup {NULL}] /\ mh \in [Elem -> Elem \cup {NULL}]
        /\ hte \in [File -> Elem \cup {NULL}]
    BY DEF Init
  <2> QED
    BY Zenon, <2>1 DEF Init, TypeOK
<1>2. FilesOK /\ ServOK /\ MountInv
  BY Zenon DEF Init, FilesOK, ServOK, MountInv
<1>3. ElemsOK /\ ModulesOK
  BY Zenon DEF Init, ElemsOK, ModulesOK, ElemOK, DevOK
<1>4. LinksInv
  BY Zenon, ConstAssumption DEF Init, LinksInv, MountsOf, FilesOn
<1> QED
  BY Zenon, <1>1, <1>2, <1>3, <1>4 DEF IInv, Good

(* Every step keeps the types.                                             *)
LEMMA TypeInv == TypeOK /\ [Next]_vars => TypeOK'
<1> SUFFICES ASSUME TypeOK, [Next]_vars PROVE TypeOK'
  BY Zenon
<1> USE DEF TypeOK
<1>0. \A m : \A k \in Int : [count EXCEPT ![m] = k] \in [Module -> Int]
  BY Zenon
<1>1. \A e \in Elem : serv[e] \in Module => count[serv[e]] \in Int
  OBVIOUS
<1>2. \A e : serv[e] \notin Module => \A k : [count EXCEPT ![serv[e]] = k] = count
  OBVIOUS
<1>a. ASSUME NEW E \in SUBSET Elem, NEW m \in Module, NEW h \in Elem \cup {NULL}, NEW p \in BOOLEAN,
             p => h \in E, internal_ht_tab_add(E, m, h, p)
      PROVE  /\ live' \subseteq Elem /\ linked' \subseteq Elem /\ eperm' \subseteq Elem
             /\ serv' \in [Elem -> Module \cup {NULL}] /\ mh' \in [Elem -> Elem \cup {NULL}]
             /\ ecount' \in [Elem -> Int] /\ inuse' \in [Elem -> Int]
  BY <1>a DEF internal_ht_tab_add
<1>b. ASSUME NEW e \in Elem, count_elem_plus1(e)
      PROVE  count' \in [Module -> Int] /\ ecount' \in [Elem -> Int] /\ linked' \subseteq Elem
  BY <1>b, <1>0, <1>1, <1>2 DEF count_elem_plus1
<1>c. ASSUME NEW e \in Elem, count_elem_minus1(e)
      PROVE  count' \in [Module -> Int] /\ ecount' \in [Elem -> Int] /\ linked' \subseteq Elem
  BY <1>c, <1>0, <1>1, <1>2 DEF count_elem_minus1
<1>d. ASSUME NEW f \in File, NEW e \in Elem, lfd_open(f, e) PROVE TypeOK'
  <2>1. inuse' \in [Elem -> Int] /\ hte' \in [File -> Elem \cup {NULL}]
    BY <1>d DEF lfd_open
  <2> QED
    BY Zenon, <1>b, <1>d, <2>1 DEF lfd_open
<1>3. ASSUME NEW m \in Module, NEW E \in SUBSET Elem, NEW p \in BOOLEAN, add_service(m, E, p)
      PROVE  TypeOK'
  <2>1. /\ loaded' \subseteq Module /\ own' \subseteq Module /\ perm' \subseteq Module
        /\ count' \in [Module -> Int] /\ hte' = hte /\ stale' = stale
    BY <1>3 DEF add_service
  <2> QED
    BY Zenon, <1>3, <1>a, <2>1 DEF add_service
<1>4. ASSUME NEW m \in Module, del_service(m) PROVE TypeOK'
  BY Zenon, <1>4 DEF del_service
<1>5. ASSUME NEW m \in Module, NEW h \in Elem, NEW S \in SUBSET Elem, NEW p \in BOOLEAN,
             wrap_in_mount(m, h, S, p)
      PROVE  TypeOK'
  <2>1. own' \subseteq Module /\ count' \in [Module -> Int]
    BY <1>5 DEF wrap_in_mount, count_module_plus1
  <2>2. /\ {h} \cup S \in SUBSET Elem /\ h \in {h} \cup S /\ h \in Elem \cup {NULL}
        /\ internal_ht_tab_add({h} \cup S, m, h, p)
    BY Zenon, <1>5 DEF wrap_in_mount
  <2>3. /\ live' \subseteq Elem /\ linked' \subseteq Elem /\ eperm' \subseteq Elem
        /\ serv' \in [Elem -> Module \cup {NULL}] /\ mh' \in [Elem -> Elem \cup {NULL}]
        /\ ecount' \in [Elem -> Int] /\ inuse' \in [Elem -> Int]
    BY Zenon, <1>a, <2>2
  <2> QED
    BY Zenon, <1>5, <2>1, <2>3 DEF wrap_in_mount
<1>6. ASSUME NEW m \in Module, NEW h \in Elem, mount_renew(m, h) PROVE TypeOK'
  BY <1>6 DEF mount_renew, count_module_plus1, evars
<1>7. ASSUME NEW h \in Elem, wrap_in_umount(h) PROVE TypeOK'
  <2>1. own' = own /\ count' \in [Module -> Int]
    BY <1>7 DEF wrap_in_umount, count_module_minus1
  <2>2. live' \subseteq Elem /\ stale' \in BOOLEAN
    BY Zenon, <1>7 DEF wrap_in_umount, umount2, OpenSocket
  <2> QED
    BY Zenon, <1>7, <2>1, <2>2 DEF wrap_in_umount
<1>8. ASSUME NEW f \in File, open(f) PROVE TypeOK'
  BY Zenon, <1>8, <1>d DEF open
<1>9. ASSUME NEW f \in File, wrap_in_accept(f) PROVE TypeOK'
  BY Zenon, <1>9, <1>d DEF wrap_in_accept
<1>10. ASSUME NEW f \in File, lfd_close(f) PROVE TypeOK'
  <2>1. inuse' \in [Elem -> Int] /\ hte' \in [File -> Elem \cup {NULL}] /\ hte[f] \in Elem
    BY <1>10 DEF lfd_close
  <2> QED
    BY Zenon, <1>c, <1>10, <2>1 DEF lfd_close
<1>11. ASSUME UNCHANGED vars PROVE TypeOK'
  BY Zenon, <1>11 DEF vars, mvars, evars
<1> QED
  BY Zenon, <1>3, <1>4, <1>5, <1>6, <1>7, <1>8, <1>9, <1>10, <1>11 DEF Next

-----------------------------------------------------------------------------
(* Elements that are added, for the mount h or for none, count no file,    *)
(* and no file sees them.                                                  *)
LEMMA AddElems ==
  ASSUME TypeOK, Good, NEW E \in SUBSET Elem, NEW m \in Module, NEW h \in E \cup {NULL}, NEW p \in BOOLEAN,
         p => h \in E, E \cap live = {}, hte' = hte, internal_ht_tab_add(E, m, h, p),
         E \subseteq {h} \/ h = NULL \/ m \in Net \cup Dev
  PROVE  /\ FilesOK' /\ ElemsOK' /\ MountInv'
         /\ \A x : FilesOn(x)' = FilesOn(x)
         /\ \A x : FilesOf(x)' = FilesOf(x)
         /\ \A e \in Elem : FilesOn(e)' # {} => e \in linked'
         /\ \A x : x # m \/ h = NULL => MountsOf(x)' = MountsOf(x)
         /\ h # NULL => MountsOf(m)' = MountsOf(m) \cup {h} /\ h \notin MountsOf(m)
<1> USE DEF internal_ht_tab_add
<1>0. NULL \notin Elem /\ NULL \notin E /\ live \subseteq Elem
  BY Zenon, ConstAssumption DEF TypeOK
<1>1. /\ live' = live \cup E
      /\ \A e \in E : serv'[e] = m /\ mh'[e] = h
      /\ \A e \in Elem : e \notin E => serv'[e] = serv[e] /\ mh'[e] = mh[e]
  BY Zenon
<1>2. \A f \in File : hte[f] # NULL => hte[f] \in live /\ hte[f] \in Elem /\ hte[f] \notin E
  BY Zenon, <1>0 DEF Good, FilesOK
<1>3. FilesOK'
  BY Zenon, <1>1, <1>2 DEF FilesOK
<1>4. \A x : FilesOn(x)' = FilesOn(x)
  BY Zenon DEF FilesOn
<1>5. \A x : FilesOf(x)' = FilesOf(x)
  BY Zenon, <1>1, <1>2 DEF FilesOf
<1>6. \A x : FilesUnder(x)' = FilesUnder(x)
  BY Zenon, <1>1, <1>2 DEF FilesUnder
<1>7. \A e \in E : FilesOn(e) = {}
  BY Zenon, <1>0, <1>2 DEF FilesOn
<1>8. \A e \in E : FilesUnder(e) = {}
  BY Zenon, <1>0, <1>2 DEF FilesUnder, Good, MountInv
<1>9. ASSUME NEW e \in Elem PROVE ElemOK(e)' /\ DevOK(e)'
  <2>1. CASE e \in E
    <3>1. ecount'[e] = One(e \in eperm') /\ inuse'[e] = 0
      <4>1. inuse'[e] = 0
        BY Zenon, <2>1
      <4>2. CASE p /\ e = h
        BY Zenon, <2>1, <4>1, <4>2 DEF One
      <4>3. CASE ~p \/ e # h
        <5>1. ecount'[e] = 0 /\ e \notin eperm'
          BY Zenon, <2>1, <4>3
        <5> QED
          BY Zenon, <4>1, <5>1 DEF One
      <4> QED
        BY Zenon, <4>2, <4>3
    <3>2. Cardinality(FilesOn(e)') = 0 /\ Cardinality(FilesUnder(e)') = 0
      BY Zenon, <1>4, <1>6, <1>7, <1>8, <2>1, FS_EmptySet
    <3> QED
      BY <3>1, <3>2 DEF ElemOK, DevOK, One
  <2>2. CASE e \notin E
    <3>1. /\ e \in live' => e \in live
          /\ ecount'[e] = ecount[e] /\ inuse'[e] = inuse[e]
          /\ mh'[e] = mh[e] /\ serv'[e] = serv[e]
      BY Zenon, <1>1, <2>2
    <3>2. (e \in eperm') = (e \in eperm)
      BY <2>2
    <3>3. ElemOK(e) /\ DevOK(e)
      BY Zenon DEF Good, ElemsOK
    <3>4. ElemOK(e)'
      BY Zenon, <1>4, <3>1, <3>2, <3>3, SameElem
    <3>5. DevOK(e)'
      BY Zenon, <1>6, <3>1, <3>3, SameDev
    <3> QED
      BY Zenon, <3>4, <3>5
  <2> QED
    BY Zenon, <2>1, <2>2
<1>10. MountInv'
  <2> SUFFICES ASSUME NEW e \in live', mh'[e] # NULL
               PROVE  /\ mh'[e] \in live' /\ mh'[mh'[e]] = mh'[e] /\ serv'[mh'[e]] = serv'[e]
                      /\ mh'[e] # e => serv'[e] \in Net \cup Dev
    BY Zenon DEF MountInv
  <2>1. CASE e \in E
    <3>1. h \in E /\ mh'[e] = h /\ mh'[h] = h /\ serv'[h] = m /\ serv'[e] = m
      BY Zenon, <1>1, <2>1
    <3> QED
      BY Zenon, <1>1, <2>1, <3>1
  <2>2. CASE e \notin E
    <3>1. e \in live /\ e \in Elem /\ mh'[e] = mh[e] /\ serv'[e] = serv[e]
      BY Zenon, <1>0, <1>1, <2>2
    <3>2. /\ mh[e] \in live /\ mh[mh[e]] = mh[e] /\ serv[mh[e]] = serv[e]
          /\ mh[e] # e => serv[e] \in Net \cup Dev
      BY Zenon, <3>1 DEF Good, MountInv
    <3>3. mh[e] \in Elem /\ mh[e] \notin E
      BY Zenon, <1>0, <3>2
    <3> QED
      BY Zenon, <1>1, <3>1, <3>2, <3>3
  <2> QED
    BY Zenon, <2>1, <2>2
<1>11. \A e \in Elem : FilesOn(e)' # {} => e \in linked'
  BY Zenon, <1>4, <1>7 DEF Good, LinksInv
<1>12. \A x : x # m \/ h = NULL => MountsOf(x)' = MountsOf(x)
  BY Zenon, <1>0, <1>1 DEF MountsOf
<1>13. h # NULL => MountsOf(m)' = MountsOf(m) \cup {h} /\ h \notin MountsOf(m)
  <2> SUFFICES ASSUME h # NULL
               PROVE  MountsOf(m)' = MountsOf(m) \cup {h} /\ h \notin MountsOf(m)
    BY Zenon
  <2>1. h \in E /\ h \notin live /\ mh'[h] = h /\ serv'[h] = m
    BY Zenon, <1>1
  <2>2. \A x : x \in MountsOf(m)' <=> x \in MountsOf(m) \/ x = h
    BY Zenon, <1>0, <1>1, <2>1 DEF MountsOf
  <2> QED
    BY Zenon, <2>1, <2>2 DEF MountsOf
<1> QED
  BY Zenon, <1>3, <1>4, <1>5, <1>9, <1>10, <1>11, <1>12, <1>13 DEF ElemsOK

(* A module is loaded: nothing of it is mounted or open yet.               *)
LEMMA AddInv ==
  ASSUME TypeOK, Good, NEW m \in Module, NEW E \in SUBSET Elem, NEW p \in BOOLEAN, add_service(m, E, p)
  PROVE  Good'
<1> USE DEF add_service
<1>1. /\ FilesOK' /\ ElemsOK' /\ MountInv'
      /\ \A x : FilesOf(x)' = FilesOf(x)
      /\ \A e \in Elem : FilesOn(e)' # {} => e \in linked'
      /\ \A x : MountsOf(x)' = MountsOf(x)
  <2>1. E \cap live = {} /\ hte' = hte /\ internal_ht_tab_add(E, m, NULL, FALSE)
    BY Zenon
  <2> QED
    BY Zenon, <2>1, AddElems
<1>2. MountsOf(m) = {} /\ FilesOf(m) = {}
  BY Zenon DEF Good, ServOK, FilesOK, MountsOf, FilesOf
<1>3. ServOK'
  <2> SUFFICES ASSUME NEW e \in live' PROVE serv'[e] \in loaded'
    BY Zenon DEF ServOK
  <2>1. CASE e \in E
    BY Zenon, <2>1 DEF internal_ht_tab_add
  <2>2. CASE e \notin E
    BY Zenon, <2>2 DEF internal_ht_tab_add, Good, ServOK, TypeOK
  <2> QED
    BY Zenon, <2>1, <2>2
<1>4. ASSUME NEW x \in loaded' PROVE ModuleOK(x)'
  <2>1. CASE x = m
    <3>1. count'[m] = One(p) /\ (m \in perm') = p
      BY DEF TypeOK, One
    <3>2. Uses(m)' = One(p)
      BY <1>1, <1>2, <3>1, FS_EmptySet DEF Uses, One
    <3> QED
      BY <2>1, <3>1, <3>2 DEF ModuleOK, One
  <2>2. CASE x # m
    <3>1. x \in loaded /\ (x \in perm') = (x \in perm)
      BY <2>2
    <3>2. count'[x] = count[x] /\ ModuleOK(x)
      BY Zenon, <2>2, <3>1 DEF TypeOK, Good, ModulesOK
    <3> QED
      BY Zenon, <1>1, <3>1, <3>2, SameModule
  <2> QED
    BY Zenon, <2>1, <2>2
<1>5. LinksInv'
  BY Zenon, <1>1, <1>2 DEF Good, LinksInv
<1> QED
  BY Zenon, <1>1, <1>3, <1>4, <1>5 DEF Good, ModulesOK

(* A module that is unloaded counts zero: nothing is mounted or open, so   *)
(* all it still has are the elements of viewos_init, and they go with it.  *)
LEMMA DelInv ==
  ASSUME TypeOK, Good, NEW m \in Module, del_service(m)
  PROVE  Good'
<1> USE DEF del_service
<1>0. NULL \notin Elem /\ live \subseteq Elem
  BY Zenon, ConstAssumption DEF TypeOK
<1>1. /\ \A x : FilesOn(x)' = FilesOn(x)
      /\ \A x : FilesUnder(x)' = FilesUnder(x)
      /\ \A x : FilesOf(x)' = FilesOf(x)
  BY Zenon DEF FilesOn, FilesUnder, FilesOf
<1>2. \A x : MountsOf(x)' = MountsOf(x)
  BY Zenon, <1>0 DEF MountsOf
<1>3. MountsOf(m) = {} /\ FilesOf(m) = {}
  <2>1. count[m] = 0 /\ count[m] >= Uses(m)
    BY Zenon DEF Good, ModulesOK, ModuleOK
  <2>2. Cardinality(MountsOf(m)) = 0 /\ Cardinality(FilesOf(m)) = 0
    BY <2>1, Finite DEF Uses, One
  <2> QED
    BY Zenon, <2>2, Finite, FS_EmptySet
<1>4. FilesOK'
  BY Zenon, <1>3 DEF Good, FilesOK, FilesOf
<1>5. ServOK'
  <2> SUFFICES ASSUME NEW e \in live' PROVE serv[e] \in loaded /\ serv[e] # m
    BY Zenon DEF ServOK
  <2>1. e \in live /\ serv[e] \in loaded
    BY Zenon DEF Good, ServOK
  <2>2. ASSUME serv[e] = m PROVE FALSE
    <3>1. mh[e] # NULL
      BY Zenon, <2>2
    <3>2. mh[e] \in MountsOf(m)
      BY Zenon, <2>1, <2>2, <3>1 DEF Good, MountInv, MountsOf
    <3> QED
      BY Zenon, <1>3, <3>2
  <2> QED
    BY Zenon, <2>1, <2>2
<1>6. MountInv'
  <2> SUFFICES ASSUME NEW e \in live', mh[e] # NULL
               PROVE  /\ mh[e] \in live' /\ mh[mh[e]] = mh[e] /\ serv[mh[e]] = serv[e]
                      /\ mh[e] # e => serv[e] \in Net \cup Dev
    BY Zenon DEF MountInv
  <2>1. /\ mh[e] \in live /\ mh[mh[e]] = mh[e] /\ serv[mh[e]] = serv[e]
        /\ mh[e] # e => serv[e] \in Net \cup Dev
    BY Zenon DEF Good, MountInv
  <2> QED
    BY Zenon, <2>1
<1>7. \A e \in Elem : ElemOK(e)' /\ DevOK(e)'
  BY Zenon, <1>1, SameElem, SameDev DEF Good, ElemsOK
<1>8. \A x \in loaded' : ModuleOK(x)'
  BY Zenon, <1>1, <1>2, SameModule DEF Good, ModulesOK
<1>9. LinksInv'
  BY Zenon, <1>1, <1>2 DEF Good, LinksInv
<1> QED
  BY Zenon, <1>4, <1>5, <1>6, <1>7, <1>8, <1>9 DEF Good, ElemsOK, ModulesOK

(* A mount makes the module count two more.                                *)
LEMMA MountStep ==
  ASSUME TypeOK, Good, NEW m \in Module, NEW h \in Elem, NEW S \in SUBSET Elem, NEW p \in BOOLEAN,
         wrap_in_mount(m, h, S, p)
  PROVE  Good'
<1> USE DEF wrap_in_mount, count_module_plus1
<1>a. PICK E \in SUBSET Elem : E = {h} \cup S
  BY Zenon
<1>0. /\ E \in SUBSET Elem /\ E \subseteq Elem /\ h \in E \cup {NULL} /\ h \in E /\ E \cap live = {} /\ hte' = hte
      /\ internal_ht_tab_add(E, m, h, p) /\ h # NULL
      /\ E \subseteq {h} \/ h = NULL \/ m \in Net \cup Dev
  <2>1. S = {} \/ m \in Net \cup Dev
    BY Zenon DEF Second
  <2>2. S \cap live = {}
    BY Zenon DEF Second
  <2>3. h # NULL
    BY Zenon, ConstAssumption
  <2> QED
    BY Zenon, <1>a, <2>1, <2>2, <2>3
<1>1. /\ FilesOK' /\ ElemsOK' /\ MountInv'
      /\ \A x : FilesOf(x)' = FilesOf(x)
      /\ \A e \in Elem : FilesOn(e)' # {} => e \in linked'
      /\ \A x : x # m => MountsOf(x)' = MountsOf(x)
      /\ MountsOf(m)' = MountsOf(m) \cup {h} /\ h \notin MountsOf(m)
  <2>1. p => h \in E
    BY Zenon, <1>0
  <2> HIDE DEF wrap_in_mount, count_module_plus1
  <2> QED
    BY SMT, <1>0, <2>1, AddElems
<1>2. ServOK'
  <2> SUFFICES ASSUME NEW e \in live' PROVE serv'[e] \in loaded'
    BY Zenon DEF ServOK
  <2>1. CASE e \in E
    <3>1. serv'[e] = m
      BY Zenon, <1>0, <2>1 DEF internal_ht_tab_add
    <3> QED
      BY Zenon, <3>1
  <2>2. CASE e \notin E
    BY Zenon, <1>0, <2>2 DEF internal_ht_tab_add, Good, ServOK, TypeOK
  <2> QED
    BY Zenon, <2>1, <2>2
<1>3. ASSUME NEW x \in loaded' PROVE ModuleOK(x)'
  <2>0. x \in Module /\ ModuleOK(x) /\ count[x] \in Int
    BY Zenon DEF TypeOK, Good, ModulesOK
  <2>1. CASE x = m
    <3>1. Cardinality(MountsOf(m)') = Cardinality(MountsOf(m)) + 1
      BY ZenonT(40), <1>1, Finite, FS_AddElement
    <3>a. FilesOf(m)' = FilesOf(m) /\ (m \in perm') = (m \in perm)
      BY Zenon, <1>1
    <3> HIDE DEF wrap_in_mount, count_module_plus1
    <3>2. Uses(m)' = Uses(m) + 2 /\ Uses(m) \in Int
      BY <3>a, <3>1, Finite DEF Uses, One
    <3> USE DEF wrap_in_mount, count_module_plus1
    <3>3. count'[m] = count[m] + 2
      BY Zenon DEF TypeOK
    <3> QED
      BY <2>0, <2>1, <3>2, <3>3 DEF ModuleOK
  <2>2. CASE x # m
    <3>1. count'[x] = count[x]
      BY Zenon, <2>0, <2>2 DEF TypeOK
    <3> QED
      BY Zenon, <1>1, <2>0, <2>2, <3>1, SameModule
  <2> QED
    BY Zenon, <2>1, <2>2
<1>4. LinksInv'
  BY Zenon, <1>1 DEF Good, LinksInv
<1> QED
  BY Zenon, <1>1, <1>2, <1>3, <1>4 DEF Good, ModulesOK

(* So does a renewal, which mounts nothing: the count is too high from     *)
(* then on.                                                                *)
LEMMA RenewInv ==
  ASSUME TypeOK, Good, NEW m \in Module, NEW h \in Elem, mount_renew(m, h)
  PROVE  Good'
<1> USE DEF mount_renew, count_module_plus1, evars
<1>1. /\ \A x : FilesOn(x)' = FilesOn(x)
      /\ \A x : FilesUnder(x)' = FilesUnder(x)
      /\ \A x : MountsOf(x)' = MountsOf(x)
      /\ \A x : FilesOf(x)' = FilesOf(x)
  BY Zenon DEF FilesOn, FilesUnder, MountsOf, FilesOf
<1>2. FilesOK' /\ ServOK' /\ MountInv'
  BY Zenon DEF Good, FilesOK, ServOK, MountInv
<1>3. \A e \in Elem : ElemOK(e)' /\ DevOK(e)'
  BY Zenon, <1>1, SameElem, SameDev DEF Good, ElemsOK
<1>4. ASSUME NEW x \in loaded' PROVE ModuleOK(x)'
  <2>0. x \in Module /\ ModuleOK(x) /\ count[x] \in Int
    BY Zenon DEF TypeOK, Good, ModulesOK
  <2>1. CASE x = m
    <3>1. Uses(m)' = Uses(m) /\ Uses(m) \in Int
      BY <1>1, Finite DEF Uses, One
    <3>2. count'[m] = count[m] + 2 /\ m \in Renewing
      BY Zenon DEF TypeOK
    <3> QED
      BY <2>0, <2>1, <3>1, <3>2 DEF ModuleOK
  <2>2. CASE x # m
    <3>1. count'[x] = count[x]
      BY Zenon, <2>0, <2>2 DEF TypeOK
    <3> QED
      BY Zenon, <1>1, <2>0, <3>1, SameModule
  <2> QED
    BY Zenon, <2>1, <2>2
<1>5. LinksInv'
  BY Zenon, <1>1 DEF Good, LinksInv
<1> QED
  BY Zenon, <1>2, <1>3, <1>4, <1>5 DEF Good, ElemsOK, ModulesOK

(* An umount is done when no file counts on the pathname; none is open     *)
(* through the second element either, for inuse counts it or else the      *)
(* umount makes the state stale.                                           *)
LEMMA UmountInv ==
  ASSUME TypeOK, Good, NEW h \in Elem, wrap_in_umount(h), ~stale'
  PROVE  Good'
<1> USE DEF wrap_in_umount, count_module_minus1
<1>a. PICK m \in Module : m = serv[h]
  BY Zenon DEF Good, ServOK, TypeOK
<1>0. serv[h] = m /\ m \in loaded /\ m \in own /\ h \in live /\ mh[h] = h
  BY Zenon, <1>a DEF Good, ServOK, LinksInv, MountsOf
<1>1. own' = own /\ count' = [count EXCEPT ![m] = @ - 2]
  BY Zenon, <1>0
<1>2. live' = {e \in live : mh[e] # h} /\ ~OpenSocket(h) /\ (m \in Dev => inuse[h] = 0)
  BY Zenon, <1>0 DEF umount2
<1>3. FilesOn(h) = {}
  <2>1. ecount[h] = Cardinality(FilesOn(h)) + One(h \in eperm) /\ ~(ecount[h] > 0)
    BY Zenon, <1>0 DEF Good, ElemsOK, ElemOK
  <2>2. Cardinality(FilesOn(h)) = 0
    BY <2>1, Finite DEF One
  <2> QED
    BY Zenon, <2>2, Finite, FS_EmptySet
<1>4. \A f \in File : hte[f] # NULL => mh[hte[f]] # h
  <2> SUFFICES ASSUME NEW f \in File, hte[f] # NULL, mh[hte[f]] = h PROVE FALSE
    BY Zenon
  <2>0. h # NULL
    BY Zenon, ConstAssumption
  <2>1. hte[f] \in live /\ hte[f] # h
    BY Zenon, <1>3 DEF FilesOn, Good, FilesOK
  <2>2. serv[hte[f]] = m /\ m \in Net \cup Dev
    BY Zenon, <1>0, <2>0, <2>1 DEF Good, MountInv
  <2>3. m \notin Net
    BY Zenon, <1>0, <1>2, <2>1 DEF OpenSocket
  <2>4. Cardinality(FilesUnder(h)) = 0
    BY Zenon, <1>0, <1>2, <2>2, <2>3 DEF Good, ElemsOK, DevOK
  <2>5. FilesUnder(h) = {}
    BY Zenon, <2>4, Finite, FS_EmptySet
  <2> QED
    BY Zenon, <2>5 DEF FilesUnder
<1>5. /\ \A x : FilesOn(x)' = FilesOn(x)
      /\ \A x : FilesUnder(x)' = FilesUnder(x)
      /\ \A x : FilesOf(x)' = FilesOf(x)
  BY Zenon DEF FilesOn, FilesUnder, FilesOf
<1>6. /\ MountsOf(m)' = MountsOf(m) \ {h} /\ h \in MountsOf(m)
      /\ \A x : x # m => MountsOf(x)' = MountsOf(x)
  <2>1. \A x, e : e \in MountsOf(x)' <=> e \in MountsOf(x) /\ e # h
    BY Zenon, <1>2 DEF MountsOf
  <2>2. \A x : h \in MountsOf(x) <=> x = m
    BY Zenon, <1>0 DEF MountsOf
  <2> HIDE DEF wrap_in_umount
  <2>3. \A x : MountsOf(x)' = MountsOf(x) \ {h}
    BY Zenon, <2>1
  <2> QED
    BY Zenon, <2>2, <2>3
<1>7. FilesOK'
  BY Zenon, <1>2, <1>4 DEF Good, FilesOK
<1>8. ServOK'
  BY Zenon, <1>2 DEF Good, ServOK
<1>9. MountInv'
  <2> SUFFICES ASSUME NEW e \in live', mh[e] # NULL
               PROVE  /\ mh[e] \in live' /\ mh[mh[e]] = mh[e] /\ serv[mh[e]] = serv[e]
                      /\ mh[e] # e => serv[e] \in Net \cup Dev
    BY Zenon DEF MountInv
  <2>1. e \in live /\ mh[e] # h
    BY Zenon, <1>2
  <2>2. /\ mh[e] \in live /\ mh[mh[e]] = mh[e] /\ serv[mh[e]] = serv[e]
        /\ mh[e] # e => serv[e] \in Net \cup Dev
    BY Zenon, <2>1 DEF Good, MountInv
  <2> QED
    BY Zenon, <1>2, <2>1, <2>2
<1>10. ASSUME NEW e \in Elem PROVE ElemOK(e)' /\ DevOK(e)'
  <2>1. e \in live' => e \in live
    BY Zenon, <1>2
  <2> QED
    BY Zenon, <1>5, <2>1, SameElem, SameDev DEF Good, ElemsOK
<1>11. ASSUME NEW x \in loaded' PROVE ModuleOK(x)'
  <2>0. x \in Module /\ ModuleOK(x) /\ count[x] \in Int /\ perm' = perm
    BY Zenon DEF TypeOK, Good, ModulesOK
  <2> HIDE DEF wrap_in_umount
  <2>1. CASE x = m
    <3>1. Cardinality(MountsOf(m)') = Cardinality(MountsOf(m)) - 1
      BY ZenonT(40), <1>6, Finite, FS_RemoveElement
    <3>2. Uses(m)' = Uses(m) - 2 /\ Uses(m) \in Int
      BY <1>5, <2>0, <3>1, Finite DEF Uses, One
    <3>3. count'[m] = count[m] - 2
      BY Zenon, <1>1 DEF TypeOK
    <3> QED
      BY <2>0, <2>1, <3>2, <3>3 DEF ModuleOK
  <2>2. CASE x # m
    <3>1. count'[x] = count[x]
      BY Zenon, <1>1, <2>0, <2>2 DEF TypeOK
    <3> QED
      BY Zenon, <1>5, <1>6, <2>0, <2>2, <3>1, SameModule
  <2> QED
    BY Zenon, <2>1, <2>2
<1>12. LinksInv'
  BY Zenon, <1>1, <1>5, <1>6 DEF Good, LinksInv
<1> QED
  BY Zenon, <1>7, <1>8, <1>9, <1>10, <1>11, <1>12 DEF Good, ElemsOK, ModulesOK

(* An open counts once on the element, on the device and on the module.    *)
LEMMA OpenInv ==
  ASSUME TypeOK, Good, NEW f \in File, NEW e \in live, lfd_open(f, e)
  PROVE  Good'
<1> USE DEF lfd_open, count_elem_plus1
<1>a. PICK m \in Module : m = serv[e]
  BY Zenon DEF Good, ServOK, TypeOK
<1>0. serv[e] = m /\ m \in loaded /\ e # NULL /\ hte[f] = NULL /\ e \in Elem
  BY Zenon, <1>a, ConstAssumption DEF Good, ServOK, TypeOK
<1>1. /\ linked' = linked \cup {e} /\ serv' = serv /\ mh' = mh /\ live' = live
      /\ count' = [count EXCEPT ![m] = @ + 1] /\ ecount' = [ecount EXCEPT ![e] = @ + 1]
      /\ inuse' = IF m \in Dev /\ mh[e] # NULL THEN [inuse EXCEPT ![mh[e]] = @ + 1] ELSE inuse
      /\ loaded' = loaded /\ own' = own /\ perm' = perm /\ eperm' = eperm
  BY Zenon, <1>0
<1>2. \A y \in File : hte'[y] = IF y = f THEN e ELSE hte[y]
  BY Zenon DEF TypeOK
<1> HIDE DEF lfd_open, count_elem_plus1
<1>3. /\ FilesOn(e)' = FilesOn(e) \cup {f} /\ f \notin FilesOn(e)
      /\ \A x : x # e /\ x # NULL => FilesOn(x)' = FilesOn(x)
  BY Zenon, <1>0, <1>2 DEF FilesOn
<1>4. \A x : MountsOf(x)' = MountsOf(x)
  BY Zenon, <1>1 DEF MountsOf
<1>5. /\ FilesOf(m)' = FilesOf(m) \cup {f} /\ f \notin FilesOf(m)
      /\ \A x : x # m => FilesOf(x)' = FilesOf(x)
  BY <1>0, <1>1, <1>2 DEF FilesOf
<1>6. /\ FilesUnder(mh[e])' = FilesUnder(mh[e]) \cup {f} /\ f \notin FilesUnder(mh[e])
      /\ \A x : x # mh[e] => FilesUnder(x)' = FilesUnder(x)
  BY <1>0, <1>1, <1>2 DEF FilesUnder
<1>7. FilesOK' /\ ServOK' /\ MountInv'
  BY Zenon, <1>0, <1>1, <1>2 DEF Good, FilesOK, ServOK, MountInv
<1>8. ASSUME NEW x \in Elem PROVE ElemOK(x)'
  <2>0. ElemOK(x) /\ x # NULL
    BY Zenon, ConstAssumption DEF Good, ElemsOK
  <2>1. CASE x = e
    <3>1. Cardinality(FilesOn(e)') = Cardinality(FilesOn(e)) + 1
      BY ZenonT(40), <1>3, Finite, FS_AddElement
    <3>2. ecount'[e] = ecount[e] + 1
      BY Zenon, <1>0, <1>1 DEF TypeOK
    <3>3. ecount[e] = Cardinality(FilesOn(e)) + One(e \in eperm)
      BY Zenon, <2>0, <2>1 DEF ElemOK
    <3> QED
      BY <1>1, <2>1, <3>1, <3>2, <3>3, Finite DEF ElemOK, One
  <2>2. CASE x # e
    <3>1. ecount'[x] = ecount[x] /\ (x \in live' => x \in live) /\ (x \in eperm') = (x \in eperm)
      BY Zenon, <1>1, <2>2 DEF TypeOK
    <3> QED
      BY Zenon, <1>3, <2>0, <2>2, <3>1, SameElem
  <2> QED
    BY Zenon, <2>1, <2>2
<1>9. ASSUME NEW x \in Elem PROVE DevOK(x)'
  <2>0. DevOK(x) /\ x # NULL
    BY Zenon, ConstAssumption DEF Good, ElemsOK
  <2>1. CASE x = mh[e]
    <3> SUFFICES ASSUME x \in live, mh[x] = x, serv[x] \in Dev
                 PROVE  inuse'[x] = Cardinality(FilesUnder(x)')
      BY Zenon, <1>1 DEF DevOK
    <3>a. FilesUnder(x)' = FilesUnder(x) \cup {f} /\ f \notin FilesUnder(x)
      BY Zenon, <1>1, <1>6, <2>1
    <3>1. Cardinality(FilesUnder(x)') = Cardinality(FilesUnder(x)) + 1
      BY ZenonT(40), <3>a, Finite, FS_AddElement
    <3>2. serv[x] = m /\ inuse[x] = Cardinality(FilesUnder(x))
      BY Zenon, <1>0, <2>0, <2>1 DEF Good, MountInv, DevOK
    <3>3. inuse'[x] = inuse[x] + 1
      BY Zenon, <1>1, <2>0, <2>1, <3>2 DEF TypeOK
    <3> QED
      BY <3>1, <3>2, <3>3
  <2>2. CASE x # mh[e]
    <3>1. inuse'[x] = inuse[x]
      BY <1>1, <2>2 DEF TypeOK
    <3> QED
      BY Zenon, <1>1, <1>6, <2>0, <2>2, <3>1, SameDev
  <2> QED
    BY Zenon, <2>1, <2>2
<1>10. ASSUME NEW x \in loaded' PROVE ModuleOK(x)'
  <2>0. x \in Module /\ ModuleOK(x) /\ count[x] \in Int
    BY Zenon, <1>1 DEF TypeOK, Good, ModulesOK
  <2>1. CASE x = m
    <3>1. Cardinality(FilesOf(m)') = Cardinality(FilesOf(m)) + 1
      BY ZenonT(40), <1>5, Finite, FS_AddElement
    <3>2. Uses(m)' = Uses(m) + 1 /\ Uses(m) \in Int
      BY <1>1, <1>4, <3>1, Finite DEF Uses, One
    <3>3. count'[m] = count[m] + 1
      BY Zenon, <1>1 DEF TypeOK
    <3> QED
      BY <2>0, <2>1, <3>2, <3>3 DEF ModuleOK
  <2>2. CASE x # m
    <3>1. count'[x] = count[x]
      BY Zenon, <1>1, <2>0, <2>2 DEF TypeOK
    <3> QED
      BY Zenon, <1>1, <1>4, <1>5, <2>0, <2>2, <3>1, SameModule
  <2> QED
    BY Zenon, <2>1, <2>2
<1>11. LinksInv'
  BY Zenon, <1>1, <1>3, <1>4, ConstAssumption DEF Good, LinksInv
<1> QED
  BY Zenon, <1>7, <1>8, <1>9, <1>10, <1>11 DEF Good, ElemsOK, ModulesOK

(* A close takes back what the open counted: LinksInv is why it counts on  *)
(* the module again.                                                       *)
LEMMA CloseInv ==
  ASSUME TypeOK, Good, NEW f \in File, lfd_close(f)
  PROVE  Good'
<1> USE DEF lfd_close, count_elem_minus1
<1>a. PICK e \in live : e = hte[f]
  BY Zenon DEF Good, FilesOK
<1>b. PICK m \in Module : m = serv[e]
  BY Zenon DEF Good, ServOK, TypeOK
<1>0. /\ serv[e] = m /\ m \in loaded /\ e # NULL /\ hte[f] = e /\ e \in Elem
      /\ e \in linked
  <2>1. serv[e] = m /\ m \in loaded /\ e # NULL /\ hte[f] = e /\ e \in Elem
    BY Zenon, <1>a, <1>b, ConstAssumption DEF Good, ServOK, TypeOK
  <2> QED
    BY Zenon, <2>1 DEF Good, LinksInv, FilesOn
<1>1. /\ linked' = linked /\ serv' = serv /\ mh' = mh /\ live' = live
      /\ count' = [count EXCEPT ![m] = @ - 1] /\ ecount' = [ecount EXCEPT ![e] = @ - 1]
      /\ inuse' = IF m \in Dev /\ mh[e] # NULL THEN [inuse EXCEPT ![mh[e]] = @ - 1] ELSE inuse
      /\ loaded' = loaded /\ own' = own /\ perm' = perm /\ eperm' = eperm
  BY Zenon, <1>0
<1>2. \A y \in File : hte'[y] = IF y = f THEN NULL ELSE hte[y]
  BY Zenon DEF TypeOK
<1> HIDE DEF lfd_close, count_elem_minus1
<1>3. /\ FilesOn(e)' = FilesOn(e) \ {f} /\ f \in FilesOn(e)
      /\ \A x : x # e /\ x # NULL => FilesOn(x)' = FilesOn(x)
  BY Zenon, <1>0, <1>2 DEF FilesOn
<1>4. \A x : MountsOf(x)' = MountsOf(x)
  BY Zenon, <1>1 DEF MountsOf
<1>5. /\ FilesOf(m)' = FilesOf(m) \ {f} /\ f \in FilesOf(m)
      /\ \A x : x # m => FilesOf(x)' = FilesOf(x)
  BY <1>0, <1>1, <1>2 DEF FilesOf
<1>6. /\ FilesUnder(mh[e])' = FilesUnder(mh[e]) \ {f} /\ f \in FilesUnder(mh[e])
      /\ \A x : x # mh[e] => FilesUnder(x)' = FilesUnder(x)
  BY <1>0, <1>1, <1>2 DEF FilesUnder
<1>7. FilesOK' /\ ServOK' /\ MountInv'
  BY Zenon, <1>0, <1>1, <1>2 DEF Good, FilesOK, ServOK, MountInv
<1>8. ASSUME NEW x \in Elem PROVE ElemOK(x)'
  <2>0. ElemOK(x) /\ x # NULL
    BY Zenon, ConstAssumption DEF Good, ElemsOK
  <2>1. CASE x = e
    <3>1. Cardinality(FilesOn(e)') = Cardinality(FilesOn(e)) - 1
      BY ZenonT(40), <1>3, Finite, FS_RemoveElement
    <3>2. ecount'[e] = ecount[e] - 1
      BY Zenon, <1>0, <1>1 DEF TypeOK
    <3>3. ecount[e] = Cardinality(FilesOn(e)) + One(e \in eperm)
      BY Zenon, <2>0, <2>1 DEF ElemOK
    <3> QED
      BY <1>1, <2>1, <3>1, <3>2, <3>3, Finite DEF ElemOK, One
  <2>2. CASE x # e
    <3>1. ecount'[x] = ecount[x] /\ (x \in live' => x \in live) /\ (x \in eperm') = (x \in eperm)
      BY Zenon, <1>1, <2>2 DEF TypeOK
    <3> QED
      BY Zenon, <1>3, <2>0, <2>2, <3>1, SameElem
  <2> QED
    BY Zenon, <2>1, <2>2
<1>9. ASSUME NEW x \in Elem PROVE DevOK(x)'
  <2>0. DevOK(x) /\ x # NULL
    BY Zenon, ConstAssumption DEF Good, ElemsOK
  <2>1. CASE x = mh[e]
    <3> SUFFICES ASSUME x \in live, mh[x] = x, serv[x] \in Dev
                 PROVE  inuse'[x] = Cardinality(FilesUnder(x)')
      BY Zenon, <1>1 DEF DevOK
    <3>a. FilesUnder(x)' = FilesUnder(x) \ {f} /\ f \in FilesUnder(x)
      BY Zenon, <1>1, <1>6, <2>1
    <3>1. Cardinality(FilesUnder(x)') = Cardinality(FilesUnder(x)) - 1
      BY ZenonT(40), <3>a, Finite, FS_RemoveElement
    <3>2. serv[x] = m /\ inuse[x] = Cardinality(FilesUnder(x))
      BY Zenon, <1>0, <2>0, <2>1 DEF Good, MountInv, DevOK
    <3>3. inuse'[x] = inuse[x] - 1
      BY Zenon, <1>1, <2>0, <2>1, <3>2 DEF TypeOK
    <3> QED
      BY <3>1, <3>2, <3>3
  <2>2. CASE x # mh[e]
    <3>1. inuse'[x] = inuse[x]
      BY <1>1, <2>2 DEF TypeOK
    <3> QED
      BY Zenon, <1>1, <1>6, <2>0, <2>2, <3>1, SameDev
  <2> QED
    BY Zenon, <2>1, <2>2
<1>10. ASSUME NEW x \in loaded' PROVE ModuleOK(x)'
  <2>0. x \in Module /\ ModuleOK(x) /\ count[x] \in Int
    BY Zenon, <1>1 DEF TypeOK, Good, ModulesOK
  <2>1. CASE x = m
    <3>1. Cardinality(FilesOf(m)') = Cardinality(FilesOf(m)) - 1
      BY ZenonT(40), <1>5, Finite, FS_RemoveElement
    <3>2. Uses(m)' = Uses(m) - 1 /\ Uses(m) \in Int
      BY <1>1, <1>4, <3>1, Finite DEF Uses, One
    <3>3. count'[m] = count[m] - 1
      BY Zenon, <1>1 DEF TypeOK
    <3> QED
      BY <2>0, <2>1, <3>2, <3>3 DEF ModuleOK
  <2>2. CASE x # m
    <3>1. count'[x] = count[x]
      BY Zenon, <1>1, <2>0, <2>2 DEF TypeOK
    <3> QED
      BY Zenon, <1>1, <1>4, <1>5, <2>0, <2>2, <3>1, SameModule
  <2> QED
    BY Zenon, <2>1, <2>2
<1>11. LinksInv'
  BY Zenon, <1>1, <1>3, <1>4, ConstAssumption DEF Good, LinksInv
<1> QED
  BY Zenon, <1>7, <1>8, <1>9, <1>10, <1>11 DEF Good, ElemsOK, ModulesOK

(* The invariant holds of every reachable state; a stale state stays so.   *)
LEMMA Invariance == Spec => []IInv
<1>1. IInv /\ [Next]_vars => IInv'
  <2> SUFFICES ASSUME IInv, [Next]_vars, ~stale' PROVE Good'
    BY Zenon, TypeInv DEF IInv
  <2>a. TypeOK
    BY Zenon DEF IInv
  <2>b. ASSUME NEW m \in Module, NEW E \in SUBSET Elem, NEW p \in BOOLEAN, add_service(m, E, p)
        PROVE  Good'
    <3>1. Good
      BY Zenon, <2>b DEF IInv, add_service
    <3> QED
      BY Zenon, <2>a, <2>b, <3>1, AddInv
  <2>c. ASSUME NEW m \in Module, del_service(m) PROVE Good'
    <3>1. Good
      BY Zenon, <2>c DEF IInv, del_service
    <3> QED
      BY Zenon, <2>a, <2>c, <3>1, DelInv
  <2>d. ASSUME NEW m \in Module, NEW h \in Elem, NEW S \in SUBSET Elem, NEW p \in BOOLEAN,
               wrap_in_mount(m, h, S, p)
        PROVE  Good'
    <3>1. Good
      BY Zenon, <2>d DEF IInv, wrap_in_mount
    <3> QED
      BY Zenon, <2>a, <2>d, <3>1, MountStep
  <2>e. ASSUME NEW m \in Module, NEW h \in Elem, mount_renew(m, h) PROVE Good'
    <3>1. Good
      BY Zenon, <2>e DEF IInv, mount_renew
    <3> QED
      BY Zenon, <2>a, <2>e, <3>1, RenewInv
  <2>f. ASSUME NEW h \in Elem, wrap_in_umount(h) PROVE Good'
    <3>1. Good
      BY Zenon, <2>f DEF IInv, wrap_in_umount, umount2
    <3> QED
      BY Zenon, <2>a, <2>f, <3>1, UmountInv
  <2>g. ASSUME NEW f \in File, open(f) PROVE Good'
    <3>1. PICK e \in live : lfd_open(f, e)
      BY Zenon, <2>g DEF open
    <3>2. Good
      BY Zenon, <3>1 DEF IInv, lfd_open
    <3> QED
      BY Zenon, <2>a, <3>1, <3>2, OpenInv
  <2>h. ASSUME NEW f \in File, wrap_in_accept(f) PROVE Good'
    <3>1. PICK g \in File : hte[g] # NULL /\ lfd_open(f, hte[g])
      BY Zenon, <2>h DEF wrap_in_accept
    <3>2. Good
      BY Zenon, <3>1 DEF IInv, lfd_open
    <3>3. hte[g] \in live
      BY Zenon, <3>1, <3>2 DEF Good, FilesOK
    <3> QED
      BY Zenon, <2>a, <3>1, <3>2, <3>3, OpenInv
  <2>i. ASSUME NEW f \in File, lfd_close(f) PROVE Good'
    <3>1. Good
      BY Zenon, <2>i DEF IInv, lfd_close
    <3> QED
      BY Zenon, <2>a, <2>i, <3>1, CloseInv
  <2>j. ASSUME UNCHANGED vars PROVE Good'
    <3>1. Good
      BY Zenon, <2>j DEF IInv, vars
    <3> USE <2>j DEF vars, mvars, evars
    <3>2. FilesOK' /\ ServOK' /\ MountInv'
      BY Zenon, <3>1 DEF Good, FilesOK, ServOK, MountInv
    <3>3. ElemsOK' /\ LinksInv'
      BY Zenon, <3>1 DEF Good, ElemsOK, ElemOK, DevOK, LinksInv, FilesOn, FilesUnder, MountsOf, One
    <3>4. ModulesOK'
      BY Zenon, <3>1 DEF Good, ModulesOK, ModuleOK, Uses, FilesOf, MountsOf, One
    <3> QED
      BY Zenon, <3>2, <3>3, <3>4 DEF Good
  <2> QED
    BY Zenon, <2>b, <2>c, <2>d, <2>e, <2>f, <2>g, <2>h, <2>i, <2>j DEF Next
<1> QED
  BY <1>1, InitInv, PTL DEF Spec

-----------------------------------------------------------------------------
(* The element an open file points to is in the table until lfd_close, as  *)
(* long as no umount (umnet_umount2) has deleted the element of an open    *)
(* socket, however modules, mounts, devices and files come and go.         *)
THEOREM FilesAlwaysKeepMounts == Spec => []FilesKeepMounts
<1>1. IInv => FilesKeepMounts
  BY Zenon DEF IInv, Good, FilesOK, FilesKeepMounts
<1> QED
  BY <1>1, Invariance, PTL

(* Under the same condition the code of a service that has an element is   *)
(* not dlclosed by del_service.                                            *)
THEOREM MountsAlwaysKeepModules == Spec => []MountsKeepModules
<1>1. IInv => MountsKeepModules
  BY Zenon DEF IInv, Good, ServOK, MountsKeepModules
<1> QED
  BY <1>1, Invariance, PTL

(* ht_count_plus1 and ht_count_minus1, and inuse of umdev, keep the counts *)
(* of elements exact, and those of modules exact unless their mounts are   *)
(* renewed, again until an umount meets an open socket.                    *)
THEOREM CountsAlwaysCover == Spec => []CountsCover
<1>1. IInv => CountsCover
  <2>1. IInv => (~stale => ElemsOK /\ ModulesOK) /\ live \subseteq Elem
    BY Zenon DEF IInv, Good, TypeOK
  <2> QED
    BY Zenon, <2>1 DEF CountsCover, ElemsOK, ModulesOK, ElemOK, DevOK, ModuleOK
<1> QED
  BY <1>1, Invariance, PTL

(* Without renewed mounts, a module that is not permanent and has nothing  *)
(* mounted or open is removed by del_service when asked.                   *)
THEOREM RemovableWithoutRenewal ==
  ASSUME Renewing = {}
  PROVE  Spec => []UnusedCanGo
<1>1. IInv => UnusedCanGo
  <2> SUFFICES ASSUME IInv, ~stale, NEW m \in loaded \ perm, MountsOf(m) = {}, FilesOf(m) = {}
               PROVE  count[m] = 0
    BY Zenon DEF UnusedCanGo
  <2>1. count[m] = Uses(m)
    BY Zenon DEF IInv, Good, ModulesOK, ModuleOK
  <2> QED
    BY <2>1, FS_EmptySet DEF Uses, One
<1> QED
  BY <1>1, Invariance, PTL
=============================================================================
