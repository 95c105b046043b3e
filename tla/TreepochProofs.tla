--------------------------- MODULE TreepochProofs ---------------------------
(***************************************************************************)
(* The first view, the fork of a view, and the theorems on Treepoch: every *)
(* step keeps IInv, so IInv and what follows from it hold throughout.      *)
(***************************************************************************)
EXTENDS TreepochCollapse

(* The first process makes the root.                                       *)
LEMMA RootStartInv ==
  ASSUME IInv, NEW p \in Proc, root_start(p)
  PROVE  IInv'
<1> USE NodeFacts
<1>1. /\ nte = 0 /\ nte' = 1 /\ te_root' = 1 /\ te_root = NULL
      /\ rise' = [rise EXCEPT ![1] = epoch_now] /\ epoch_now' = epoch_now + 1
      /\ ptree' = [ptree EXCEPT ![p] = 1] /\ inc' = 1
      /\ UNCHANGED <<parent, sub, nproc, subheight, len, bitstr, svc, sepoch, sees,
                     upd, hgt, dec, look>>
      /\ upd = {} /\ hgt = NULL /\ dec = NULL /\ inc = NULL /\ look = NoLook
  BY DEF IInv, FreshInv, root_start, Idle, mounts
<1>2. 1 \in Node /\ 1 # NULL /\ Alloc = {} /\ Alloc' = {1} /\ Live = {}
  BY <1>1, MaxNodeAssumption DEF Node, NULL, Alloc, Live
<1>3. Leaf(1) /\ parent[1] = NULL /\ nproc[1] = 0 /\ len[1] = 0
  BY Zenon, <1>2 DEF IInv, FreshInv
<1>4. Live' = {1} /\ \A n : Leaf(n)' <=> Leaf(n)
  BY Zenon, <1>1, <1>2 DEF Live, Linked, Leaf
<1>5. \A q \in Proc : ptree[q] = NULL
  BY Zenon, <1>2 DEF IInv, ProcInv, Views
<1>6. TypeOK'
  BY <1>1, <1>2 DEF IInv, TypeOK
<1>7. TreeShape' /\ LenInv' /\ DepthBound'
  BY SMTT(20), <1>1, <1>3, <1>4, MaxDepthAssumption DEF TreeShape, LenInv, DepthBound
<1>8. FreshInv'
  BY SMTT(20), <1>1, <1>2, <1>4 DEF IInv, FreshInv, TypeOK
<1>9. ProcInv'
  <2> SUFFICES ASSUME NEW q \in Proc, ptree'[q] # NULL PROVE ptree'[q] \in Views'
    BY Zenon DEF ProcInv
  <2>1. ptree'[q] = 1
    BY Zenon, <1>1, <1>5 DEF IInv, TypeOK
  <2> QED
    BY Zenon, <2>1, <1>3, <1>4 DEF Views, Leaf
<1>10. LoopInv' /\ LookInv'
  BY Zenon, <1>1, <1>2, <1>4 DEF IInv, LoopInv, LookInv
<1>11. RiseInv'
  BY <1>1, <1>2 DEF IInv, RiseInv, TypeOK
<1>12. CountInv'
  <2>1. ProcsAt(1)' = {p}
    BY <1>1, <1>2, <1>5 DEF ProcsAt, IInv, TypeOK
  <2>2. Cardinality({p}) = 1
    BY Zenon, FS_Singleton
  <2>3. Credit(1)' = 1 /\ nproc'[1] = 0 /\ dec' # 1 /\ Leaf(1)'
    BY Zenon, <1>1, <1>2, <1>3, <1>4 DEF Credit
  <2>4. nproc'[1] + Credit(1)' = Cardinality(ProcsAt(1)') + (IF dec' = 1 THEN 1 ELSE 0)
    BY <2>1, <2>2, <2>3
  <2> QED
    BY Zenon, <2>3, <2>4, <1>1, <1>4 DEF CountInv
<1> QED
  BY Zenon, <1>6, <1>7, <1>8, <1>9, <1>10, <1>11, <1>12 DEF IInv

(* tst_newfork: a new inner node takes the place of the leaf of the        *)
(* process; the leaf and a new one, for the process, are its children.     *)
LEMMA NewforkInv ==
  ASSUME IInv, NEW p \in Proc, tst_newfork(p)
  PROVE  IInv'
<1> USE NodeFacts
<1>0. PICK old, new, par, gp, slot :
        /\ old = ptree[p] /\ new = nte + 1 /\ par = nte + 2
        /\ gp = parent[old] /\ slot = SonSlot(old)
  BY Zenon
<1>1. /\ upd = {} /\ hgt = NULL /\ dec = NULL /\ inc = NULL /\ look = NoLook
      /\ UNCHANGED <<svc, sepoch, dec, inc, look>>
      /\ old # NULL /\ nproc[old] # 1 /\ subheight[old] + len[old] < MAXDEPTH
      /\ nte + 2 <= MaxNode /\ nte' = nte + 2 /\ epoch_now' = epoch_now + 1
  BY Zenon, <1>0 DEF tst_newfork, CanFork, Idle
<1>2. /\ old \in Live /\ Leaf(old) /\ old \in Node /\ old \in Alloc
      /\ nte \in Nat /\ old <= nte
  BY SMTT(20), <1>0, <1>1, LiveFacts DEF IInv, ProcInv, Views, TypeOK, Ptr, Alloc
<1>3. /\ new \in Node \ Alloc /\ par \in Node \ Alloc /\ new # par
      /\ new # old /\ par # old /\ Alloc' = Alloc \cup {new, par}
  <2>1. Alloc' = Alloc \cup {new, par}
    BY <1>0, <1>1, <1>2 DEF Alloc
  <2> QED
    BY <2>1, <1>0, <1>1, <1>2, MaxNodeAssumption DEF Alloc, Node
<1>4. /\ Leaf(new) /\ Leaf(par) /\ new \notin Live /\ par \notin Live
      /\ \A n \in Node : parent[n] # new /\ parent[n] # par
  <2>1. \A n \in Node : parent[n] \in Nat /\ parent[n] <= nte
    BY DEF IInv, FreshInv, TypeOK, Ptr
  <2> QED
    BY SMTT(20), <2>1, <1>0, <1>2, <1>3 DEF IInv, FreshInv, Live
<1>5. ASSUME gp # NULL
      PROVE  /\ old # te_root /\ gp \in Live /\ gp \in Node /\ ~Leaf(gp)
             /\ slot \in Bit /\ sub[gp][slot] = old
             /\ gp # old /\ gp # new /\ gp # par
             /\ len[gp] \in Nat /\ len[old] >= len[gp] + 1
  <2>1. old # te_root
    BY Zenon, <1>0, <1>2, <1>5, LiveFacts
  <2>2. gp \in Live /\ gp \in Node /\ ~Leaf(gp) /\ slot \in Bit /\ sub[gp][slot] = old
    BY Zenon, <1>0, <1>2, <2>1, LiveFacts
  <2>3. len[gp] \in Nat /\ len[old] >= len[gp] + 1
    BY Zenon, <1>0, <1>2, <2>1, LenFacts
  <2> QED
    BY Zenon, <2>1, <2>2, <2>3, <1>2, <1>4
<1>6. /\ gp = parent[old] /\ (gp = NULL <=> old = te_root) /\ gp \in Ptr
      /\ gp # new /\ gp # par
  BY SMTT(20), <1>0, <1>2, <1>4, LiveFacts DEF IInv, TypeOK
<1>7. /\ te_root' = (IF gp = NULL THEN par ELSE te_root) /\ hgt' = gp /\ upd' = {}
      /\ ptree' = [ptree EXCEPT ![p] = new]
  BY Zenon, <1>0, <1>2 DEF tst_newfork, Kids, Leaf
<1>8. /\ parent'[par] = gp /\ parent'[old] = par /\ parent'[new] = par
      /\ \A n \in Node \ {par, old, new} : parent'[n] = parent[n]
      /\ parent' \in [Node -> Ptr]
  <2>1. parent' = [parent EXCEPT ![par] = gp, ![old] = par, ![new] = par]
    BY Zenon, <1>0 DEF tst_newfork
  <2> QED
    BY Zenon, <2>1, <1>2, <1>3, <1>6 DEF IInv, TypeOK
<1>9. /\ sub'[par][0] = old /\ sub'[par][1] = new
      /\ \A n \in Node \ {par, gp} : sub'[n] = sub[n]
      /\ gp # NULL => /\ sub'[gp][slot] = par
                      /\ \A b \in Bit : b # slot => sub'[gp][b] = sub[gp][b]
      /\ sub' \in [Node -> [Bit -> Ptr]]
  <2>1. sub' = [n \in Node |->
                  IF n = par THEN [b \in Bit |-> IF b = 0 THEN old ELSE new]
                  ELSE IF n = gp THEN [sub[gp] EXCEPT ![slot] = par] ELSE sub[n]]
    BY Zenon, <1>0 DEF tst_newfork
  <2>2. sub \in [Node -> [Bit -> Ptr]]
    BY Zenon DEF IInv, TypeOK
  <2>3. gp # NULL => /\ sub'[gp] = [sub[gp] EXCEPT ![slot] = par]
                     /\ sub[gp] \in [Bit -> Ptr] /\ slot \in Bit
    BY Zenon, <2>1, <2>2, <1>5
  <2>4. sub'[par] = [b \in Bit |-> IF b = 0 THEN old ELSE new]
    BY Zenon, <2>1, <1>3
  <2>5. \A n \in Node \ {par, gp} : sub'[n] = sub[n]
    BY Zenon, <2>1
  <2>6. \A n \in Node : sub'[n] \in [Bit -> Ptr]
    <3> SUFFICES ASSUME NEW n \in Node PROVE sub'[n] \in [Bit -> Ptr]
      BY Zenon
    <3>1. CASE n = par
      BY Zenon, <3>1, <2>4, <1>2, <1>3
    <3>2. CASE n = gp /\ n # par
      BY Zenon, <3>2, <2>3, <1>3
    <3>3. CASE n # gp /\ n # par
      BY Zenon, <3>3, <2>2, <2>5
    <3> QED
      BY Zenon, <3>1, <3>2, <3>3
  <2>7. sub' \in [Node -> [Bit -> Ptr]]
    BY Zenon, <2>1, <2>6
  <2> QED
    BY <2>3, <2>4, <2>5, <2>7
<1>10. /\ len'[par] = len[old] /\ len'[old] = len[old] + 1 /\ len'[new] = len[old] + 1
       /\ \A n \in Node \ {par, old, new} : len'[n] = len[n]
       /\ len' \in [Node -> Nat] /\ len[old] \in Nat
  <2>1. len' = [len EXCEPT ![par] = len[old], ![old] = len[old] + 1, ![new] = len[old] + 1]
    BY Zenon, <1>0 DEF tst_newfork
  <2> QED
    BY SMTT(20), <2>1, <1>2, <1>3 DEF IInv, TypeOK
<1>11. /\ nproc'[par] = nproc[old] /\ nproc'[old] = nproc[old] - 1 /\ nproc'[new] = 1
       /\ \A n \in Node \ {par, old, new} : nproc'[n] = nproc[n]
  <2>1. nproc' = [nproc EXCEPT ![par] = nproc[old], ![old] = @ - 1, ![new] = 1]
    BY Zenon, <1>0 DEF tst_newfork
  <2> QED
    BY Zenon, <2>1, <1>2, <1>3 DEF IInv, TypeOK
<1>12. len[old] < MAXDEPTH /\ len[old] \in Index
  BY SMTT(20), <1>1, <1>2, <1>10, MaxDepthAssumption DEF IInv, TypeOK, Index
<1>13. /\ bitstr'[par] = bitstr[old]
       /\ bitstr'[old][len[old]] = 0 /\ bitstr'[new][len[old]] = 1
       /\ \A n \in Node \ {par, old, new} : bitstr'[n] = bitstr[n]
       /\ bitstr' \in [Node -> [Index -> Bit]]
  <2>1. bitstr' = [bitstr EXCEPT ![par] = bitstr[old],
                                 ![old] = [bitstr[old] EXCEPT ![len[old]] = 0],
                                 ![new] = [bitstr[old] EXCEPT ![len[old]] = 1]]
    BY Zenon, <1>0 DEF tst_newfork, setbit
  <2>2. bitstr \in [Node -> [Index -> Bit]] /\ bitstr[old] \in [Index -> Bit]
    BY Zenon, <1>2 DEF IInv, TypeOK
  <2> QED
    BY Zenon, <2>1, <2>2, <1>2, <1>3, <1>12
<1>14. /\ rise'[par] = rise[old] /\ rise' \in [Node -> Nat]
       /\ \A n \in Node \ {par, old, new} : rise'[n] = rise[n]
  <2>1. rise' = [rise EXCEPT ![par] = rise[old], ![old] = epoch_now, ![new] = epoch_now]
    BY Zenon, <1>0 DEF tst_newfork, OldRise
  <2> QED
    BY Zenon, <2>1, <1>2, <1>3 DEF IInv, TypeOK
<1>15. nproc[old] = Cardinality(ProcsAt(old)) /\ IsFiniteSet(ProcsAt(old)) /\ nproc[old] \in Nat
  <2>1. IsFiniteSet(ProcsAt(old)) /\ Cardinality(ProcsAt(old)) \in Nat
    BY Zenon, ProcAssumption, FS_Subset, FS_CardinalityType DEF ProcsAt
  <2>2. nproc[old] + Credit(old) = Cardinality(ProcsAt(old)) /\ Credit(old) = 0 /\ nproc[old] \in Nat
    BY SMTT(20), <2>1, <1>1, <1>2 DEF IInv, CountInv, Credit, TypeOK
  <2> QED
    BY <2>1, <2>2
<1>16. nproc[old] >= 2
  <2>1. p \in ProcsAt(old)
    BY Zenon, <1>0 DEF ProcsAt
  <2>2. Cardinality(ProcsAt(old)) # 0
    BY Zenon, <2>1, <1>15, FS_EmptySet
  <2> QED
    BY <2>2, <1>1, <1>15
<1>17. \A n \in Node : Leaf(n)' <=> Leaf(n) /\ n # par
  <2> SUFFICES ASSUME NEW n \in Node PROVE Leaf(n)' <=> Leaf(n) /\ n # par
    BY Zenon
  <2>1. CASE n = par
    BY Zenon, <2>1, <1>1, <1>9 DEF Leaf
  <2>2. CASE n # par /\ n # gp
    BY Zenon, <2>2, <1>9 DEF Leaf
  <2>3. CASE n # par /\ n = gp
    <3>1. sub'[n][slot] = par /\ par # NULL /\ slot \in Bit /\ ~Leaf(n)
      BY Zenon, <2>3, <1>3, <1>5, <1>9
    <3> QED
      BY Zenon, <3>1, <2>3 DEF Leaf, Bit
  <2> QED
    BY Zenon, <2>1, <2>2, <2>3
<1>18. Live' = Live \cup {new, par}
  <2>1. new \in Live' /\ old \in Live'
    BY <1>2, <1>3, <1>8, <1>9 DEF Live, Linked
  <2>2. par \in Live'
    <3>1. CASE gp = NULL
      BY Zenon, <3>1, <1>3, <1>7 DEF Live, Linked
    <3>2. CASE gp # NULL
      BY Zenon, <3>2, <1>3, <1>5, <1>8, <1>9 DEF Live, Linked
    <3> QED
      BY Zenon, <3>1, <3>2
  <2>3. ASSUME NEW n \in Alloc, n # old
        PROVE  n \in Live' <=> n \in Live
    <3>1. n \in Node /\ n \in Alloc' /\ n # new /\ n # par
      <4>1. nte \in 0 .. MaxNode
        BY Zenon DEF IInv, TypeOK, Ptr
      <4> QED
        BY SMTT(20), <4>1, <2>3, <1>3, MaxNodeAssumption DEF Alloc, Node
    <3>2. parent'[n] = parent[n]
      BY Zenon, <2>3, <3>1, <1>8
    <3>3. n = te_root' <=> n = te_root
      BY Zenon, <2>3, <3>1, <1>6, <1>7
    <3>4. ASSUME parent[n] # NULL
          PROVE  (\E b \in Bit : sub'[parent[n]][b] = n) <=> (\E b \in Bit : sub[parent[n]][b] = n)
      <4>1. parent[n] \in Node /\ parent[n] # par
        BY SMTT(20), <3>1, <3>4, <1>4 DEF IInv, TypeOK
      <4>2. CASE parent[n] # gp
        BY Zenon, <4>1, <4>2, <1>9
      <4>3. CASE parent[n] = gp
        BY Zenon, <4>3, <3>4, <3>1, <2>3, <1>5, <1>9
      <4> QED
        BY Zenon, <4>2, <4>3
    <3> QED
      BY Zenon, <3>1, <3>2, <3>3, <3>4, <2>3 DEF Live, Linked
  <2> QED
    BY Zenon, <2>1, <2>2, <2>3, <1>2, <1>3 DEF Live
<1>19. TypeOK'
  <2>1. nproc' \in [Node -> Nat]
    <3>1. nproc' = [nproc EXCEPT ![par] = nproc[old], ![old] = @ - 1, ![new] = 1]
      BY Zenon, <1>0 DEF tst_newfork
    <3>2. nproc \in [Node -> Nat] /\ nproc[old] \in Nat /\ nproc[old] - 1 \in Nat
      BY <1>15, <1>16 DEF IInv, TypeOK
    <3>3. par # old
      BY Zenon, <1>3
    <3> QED
      BY Zenon, <3>1, <3>2, <3>3
  <2>2. subheight' \in [Node -> Nat]
    <3>1. subheight' = [subheight EXCEPT ![new] = 0, ![par] = subheight[old] + 1]
      BY Zenon, <1>0 DEF tst_newfork
    <3>2. subheight \in [Node -> Nat] /\ subheight[old] + 1 \in Nat
      BY SMTT(20), <1>2 DEF IInv, TypeOK
    <3> QED
      BY Zenon, <3>1, <3>2
  <2>3. sees' \in [Svc -> SUBSET Node]
    <3>1. sees' = [s \in Svc |-> IF old \in sees[s] THEN sees[s] \cup {new} ELSE sees[s]]
      BY Zenon, <1>0 DEF tst_newfork
    <3> QED
      BY <3>1, <1>3 DEF IInv, TypeOK
  <2>4. nte' \in Ptr /\ te_root' \in Ptr /\ hgt' \in Ptr /\ ptree' \in [Proc -> Ptr]
    BY SMTT(20), <1>1, <1>2, <1>3, <1>6, <1>7 DEF IInv, TypeOK, Ptr
  <2> QED
    BY SMTT(20), <2>1, <2>2, <2>3, <2>4, <1>1, <1>7, <1>8, <1>9, <1>10, <1>13, <1>14 DEF IInv, TypeOK
<1>20. \A n \in Live \ {old} :
          /\ n \in Node \ {par, old, new}
          /\ n # te_root' => n # te_root
  BY SMTT(20), <1>2, <1>4, <1>6, <1>7, LiveFacts
<1>21. ASSUME NEW n \in Live \ {old}, n # te_root'
       PROVE  /\ parent'[n] = parent[n] /\ parent[n] \in Live \ {old} /\ parent[n] \in Node
              /\ ~Leaf(parent[n]) /\ SonSlot(n) \in Bit /\ sub[parent[n]][SonSlot(n)] = n
  BY <1>2, <1>8, <1>20, <1>21, LiveFacts
<1>22. TreeShape'
  <2>1. te_root' \in Live' /\ parent'[te_root'] = NULL
    <3>1. CASE gp = NULL
      BY Zenon, <3>1, <1>7, <1>8, <1>18
    <3>2. CASE gp # NULL
      <4>1. te_root \in Live \ {old} /\ parent[te_root] = NULL
        BY SMTT(20), <3>2, <1>0, <1>1, <1>2, <1>5 DEF IInv, TreeShape, Alloc
      <4> QED
        BY Zenon, <4>1, <3>2, <1>7, <1>8, <1>18, <1>20
    <3> QED
      BY Zenon, <3>1, <3>2
  <2>2. ASSUME NEW n \in Live', n # te_root'
        PROVE  parent'[n] \in Live' /\ len'[n] > 0 /\ sub'[parent'[n]][SonSlot(n)'] = n
    <3>1. CASE n = par
      <4>1. gp # NULL
        BY Zenon, <2>2, <3>1, <1>7
      <4>2. SonSlot(n)' = slot
        BY Zenon, <3>1, <1>0, <1>10, <1>13 DEF SonSlot, getbit
      <4> QED
        <5>1. len'[n] > 0
          BY <4>1, <3>1, <1>5, <1>10
        <5>2. parent'[n] = gp /\ gp \in Live'
          BY Zenon, <4>1, <3>1, <1>5, <1>8, <1>18
        <5>3. sub'[gp][slot] = n
          BY Zenon, <4>1, <3>1, <1>9
        <5>4. sub'[parent'[n]][SonSlot(n)'] = n
          BY <5>2, <5>3, <4>2, Zenon
        <5> QED
          BY <5>1, <5>2, <5>4, Zenon
    <3>2. CASE n = old
      <4>1. SonSlot(n)' = 0
        <5>1. len'[n] - 1 = len[old]
          BY <3>2, <1>10
        <5> QED
          BY Zenon, <5>1, <3>2, <1>13 DEF SonSlot, getbit
      <4> QED
        BY SMTT(20), <4>1, <3>2, <1>8, <1>9, <1>10, <1>18
    <3>3. CASE n = new
      <4>1. SonSlot(n)' = 1
        <5>1. len'[n] - 1 = len[old]
          BY <3>3, <1>10
        <5> QED
          BY Zenon, <5>1, <3>3, <1>13 DEF SonSlot, getbit
      <4> QED
        BY SMTT(20), <4>1, <3>3, <1>8, <1>9, <1>10, <1>18
    <3>4. CASE n \in Live \ {old}
      <4>1. SonSlot(n)' = SonSlot(n)
        BY Zenon, <3>4, <1>10, <1>13, <1>20 DEF SonSlot, getbit
      <4>2. len'[n] > 0
        BY SMTT(20), <2>2, <3>4, <1>10, <1>20 DEF IInv, TreeShape
      <4>3. sub'[parent[n]][SonSlot(n)] = n
        <5>1. CASE parent[n] # gp
          BY SMTT(20), <5>1, <3>4, <2>2, <1>9, <1>20, <1>21
        <5>2. CASE parent[n] = gp
          <6>1. gp # NULL /\ SonSlot(n) # slot
            BY Zenon, <5>2, <3>4, <2>2, <1>5, <1>21
          <6> QED
            BY Zenon, <6>1, <5>2, <3>4, <2>2, <1>9, <1>21
        <5> QED
          BY Zenon, <5>1, <5>2
      <4> QED
        BY Zenon, <4>1, <4>2, <4>3, <3>4, <2>2, <1>18, <1>21
    <3> QED
      BY Zenon, <2>2, <3>1, <3>2, <3>3, <3>4, <1>18
  <2>3. ASSUME NEW n \in Live', ~Leaf(n)'
        PROVE  /\ sub'[n][0] # sub'[n][1]
               /\ \A b \in Bit : sub'[n][b] \in Live' /\ parent'[sub'[n][b]] = n
    <3>1. CASE n = par
      BY Zenon, <3>1, <1>2, <1>3, <1>8, <1>9, <1>18 DEF Bit
    <3>2. CASE n # par
      <4>1. n \in Live \ {old} /\ n \in Node /\ ~Leaf(n)
        BY SMTT(20), <2>3, <3>2, <1>2, <1>3, <1>4, <1>17, <1>18, LiveFacts
      <4>2. /\ sub[n][0] # sub[n][1]
            /\ \A b \in Bit : sub[n][b] \in Live /\ parent[sub[n][b]] = n /\ sub[n][b] \in Node
        BY Zenon, <4>1, LiveFacts DEF Bit
      <4>3. \A b \in Bit : sub[n][b] # new /\ sub[n][b] # par
        BY Zenon, <4>2, <1>4
      <4>4. CASE n # gp
        <5>1. \A b \in Bit : sub[n][b] # old
          BY Zenon, <4>2, <4>4, <1>6
        <5>2. sub'[n] = sub[n]
          BY Zenon, <4>1, <4>4, <3>2, <1>9
        <5>3. \A b \in Bit : parent'[sub[n][b]] = n
          BY Zenon, <5>1, <4>2, <4>3, <1>8
        <5> QED
          BY Zenon, <5>2, <5>3, <4>2, <1>18
      <4>5. CASE n = gp
        <5>1. gp # NULL /\ slot \in Bit /\ sub[n][slot] = old
          BY Zenon, <4>1, <4>5, <1>5
        <5>2. \A b \in Bit : b # slot => sub[n][b] # old
          BY SMTT(20), <5>1, <4>2 DEF Bit
        <5>3. \A b \in Bit : b # slot => sub'[n][b] = sub[n][b] /\ parent'[sub[n][b]] = n
          BY SMTT(20), <5>1, <5>2, <4>2, <4>3, <4>5, <1>8, <1>9
        <5>4. sub'[n][slot] = par /\ parent'[par] = n /\ par \in Live'
          BY Zenon, <5>1, <4>5, <1>8, <1>9, <1>18
        <5> QED
          BY Zenon, <5>1, <5>3, <5>4, <4>2, <4>3, <1>18 DEF Bit
      <4> QED
        BY Zenon, <4>4, <4>5
    <3> QED
      BY Zenon, <3>1, <3>2
  <2> QED
    BY Zenon, <2>1, <2>2, <2>3 DEF TreeShape
<1>23. LenInv'
  <2> SUFFICES ASSUME NEW n \in Live', n # te_root'
               PROVE  len'[n] >= len'[parent'[n]] + 1
    BY Zenon DEF LenInv
  <2>1. CASE n = par
    <3>1. gp # NULL
      BY Zenon, <2>1, <1>7
    <3> QED
      BY Zenon, <3>1, <2>1, <1>5, <1>8, <1>10
  <2>2. CASE n \in {old, new}
    BY <2>2, <1>8, <1>10
  <2>3. CASE n \in Live \ {old}
    <3>1. len[n] >= len[parent[n]] + 1
      BY Zenon, <2>3, <1>20, LenFacts
    <3>2. parent[n] \notin {par, old, new}
      BY Zenon, <2>3, <1>20, <1>21
    <3> QED
      BY Zenon, <3>1, <3>2, <2>3, <1>10, <1>20, <1>21
  <2> QED
    BY Zenon, <2>1, <2>2, <2>3, <1>18
<1>24. DepthBound'
  <2> SUFFICES ASSUME NEW n \in Live'
               PROVE  len'[n] <= MAXDEPTH /\ (Leaf(n)' \/ len'[n] < MAXDEPTH)
    BY Zenon DEF DepthBound
  <2>1. CASE n = par
    BY <2>1, <1>10, <1>12, MaxDepthAssumption
  <2>2. CASE n \in {old, new}
    <3>1. Leaf(n)'
      BY Zenon, <2>2, <1>2, <1>3, <1>4, <1>17
    <3> QED
      BY <3>1, <2>2, <1>10, <1>12, MaxDepthAssumption
  <2>3. CASE n \in Live \ {old}
    BY Zenon, <2>3, <1>10, <1>17, <1>20 DEF IInv, DepthBound
  <2> QED
    BY Zenon, <2>1, <2>2, <2>3, <1>18
<1>25. te_root' # NULL /\ nte' # 0
  <2>1. te_root # NULL
    BY <1>2 DEF IInv, FreshInv, Alloc
  <2> QED
    BY SMTT(20), <2>1, <1>1, <1>2, <1>3, <1>7
<1>26. FreshInv'
  <2>1. ASSUME NEW n \in Node PROVE parent'[n] <= nte'
    <3>1. parent[n] <= nte /\ gp <= nte /\ parent[n] \in Nat /\ gp \in Nat
      BY SMTT(20), <1>2, <1>6 DEF IInv, FreshInv, TypeOK, Ptr
    <3>2. par <= nte'
      BY <1>0, <1>1, <1>2
    <3>3. parent'[n] \in {par, gp, parent[n]}
      BY Zenon, <1>8
    <3> QED
      BY SMTT(20), <3>1, <3>2, <3>3, <1>1, <1>2
  <2>2. ASSUME NEW n \in Node \ Alloc'
        PROVE  Leaf(n)' /\ parent'[n] = NULL /\ nproc'[n] = 0 /\ len'[n] = 0
    <3>1. n \in Node \ Alloc /\ n \in Node \ {par, old, new}
      BY Zenon, <1>2, <1>3
    <3> QED
      BY Zenon, <3>1, <1>8, <1>10, <1>11, <1>17 DEF IInv, FreshInv
  <2> QED
    BY Zenon, <2>1, <2>2, <1>25 DEF FreshInv
<1>27. ProcInv'
  <2> SUFFICES ASSUME NEW q \in Proc, NEW v, v = ptree'[q], v # NULL
               PROVE  v \in Live' /\ Leaf(v)'
    BY Zenon DEF ProcInv, Views, Leaf
  <2>1. CASE q = p
    BY Zenon, <2>1, <1>3, <1>4, <1>7, <1>17, <1>18 DEF IInv, TypeOK
  <2>2. CASE q # p
    <3>1. v \in Live /\ Leaf(v) /\ v \in Node
      BY SMTT(20), <2>2, <1>7, LiveFacts DEF IInv, ProcInv, Views, TypeOK
    <3> QED
      BY Zenon, <3>1, <1>4, <1>17, <1>18
  <2> QED
    BY Zenon, <2>1, <2>2
<1>28. LoopInv' /\ LookInv'
  <2>1. gp # NULL => gp \in Live' /\ ~Leaf(gp)'
    BY Zenon, <1>5, <1>17, <1>18
  <2>2. hgt' # NULL => hgt' \in Live' /\ ~Leaf(hgt)'
    BY Zenon, <2>1, <1>7 DEF Leaf
  <2> QED
    BY Zenon, <2>2, <1>1, <1>7 DEF LoopInv, LookInv
<1>29. RiseInv'
  <2>1. ASSUME NEW n \in Node, parent'[n] = NULL PROVE rise'[n] <= 2
    <3>1. n # old /\ n # new
      BY Zenon, <2>1, <1>3, <1>8
    <3>2. CASE n = par
      BY Zenon, <3>2, <2>1, <1>2, <1>6, <1>8, <1>14 DEF IInv, RiseInv
    <3>3. CASE n # par
      BY Zenon, <3>1, <3>3, <2>1, <1>8, <1>14 DEF IInv, RiseInv
    <3> QED
      BY Zenon, <3>2, <3>3
  <2> QED
    BY SMTT(20), <2>1, <1>1, <1>25 DEF IInv, RiseInv, TypeOK
<1>30. /\ ProcsAt(new)' = {p} /\ ProcsAt(old)' = ProcsAt(old) \ {p}
       /\ \A n \in Node \ {new, old} : ProcsAt(n)' = ProcsAt(n)
  <2>1. \A q \in Proc : ptree[q] # new
    BY Zenon, <1>3, <1>4 DEF IInv, ProcInv, Views
  <2> QED
    BY SMTT(20), <2>1, <1>0, <1>3, <1>7 DEF ProcsAt, IInv, TypeOK
<1>31. CountInv'
  <2> SUFFICES ASSUME NEW n \in Live'
      PROVE /\ Leaf(n)' => nproc'[n] = Cardinality(ProcsAt(n)')
            /\ ~Leaf(n)' => nproc'[n] = nproc'[sub'[n][0]] + nproc'[sub'[n][1]]
            /\ n # te_root' => nproc'[n] >= 1
            /\ nproc'[n] \in Nat /\ Cardinality(ProcsAt(n)') \in Nat
            /\ ~Leaf(n)' => nproc'[sub'[n][0]] \in Nat /\ nproc'[sub'[n][1]] \in Nat
    <3>1. \A n \in Live' : n # NULL /\ Credit(n)' = 0 /\ Debt(n)' = 0 /\ dec' # n
      BY <1>1, <1>3, <1>18, LiveFacts DEF Credit, Debt
    <3>2. ASSUME NEW m \in Live'
          PROVE  /\ Leaf(m)' => nproc'[m] + Credit(m)'
                                  = Cardinality(ProcsAt(m)') + (IF dec' = m THEN 1 ELSE 0)
                 /\ ~Leaf(m)' => nproc'[m] + Credit(m)'
                                  = nproc'[sub'[m][0]] + nproc'[sub'[m][1]] + Debt(m)'
                 /\ m # te_root' => nproc'[m] >= 1
      <4>1. Credit(m)' = 0 /\ Debt(m)' = 0 /\ dec' # m
        BY Zenon, <3>1
      <4> QED
        BY Zenon, <4>1
    <3> QED
      BY Zenon, <3>2 DEF CountInv
  <2>0. Cardinality(ProcsAt(n)') \in Nat
    <3>1. ProcsAt(n)' \subseteq Proc
      BY Zenon DEF ProcsAt
    <3> QED
      BY Zenon, <3>1, ProcAssumption, FS_Subset, FS_CardinalityType
  <2>1. CASE n = par
    <3>1. ~Leaf(n)'
      BY Zenon, <2>1, <1>3, <1>17
    <3>2. /\ nproc'[n] = nproc[old] /\ nproc'[sub'[n][0]] = nproc[old] - 1
          /\ nproc'[sub'[n][1]] = 1
      BY Zenon, <2>1, <1>9, <1>11
    <3> QED
      BY SMTT(20), <3>1, <3>2, <2>0, <1>15, <1>16
  <2>2. CASE n = new
    <3>1. Cardinality({p}) = 1
      BY Zenon, FS_Singleton
    <3>2. Leaf(n)'
      BY Zenon, <2>2, <1>3, <1>4, <1>17
    <3> QED
      <4>1. nproc'[n] = 1 /\ ProcsAt(n)' = {p}
        BY Zenon, <2>2, <1>11, <1>30
      <4>2. 1 >= 1 /\ 1 \in Nat
        OBVIOUS
      <4> QED
        BY Zenon, <3>1, <3>2, <4>1, <4>2, <2>0
  <2>3. CASE n = old
    <3>1. Cardinality(ProcsAt(old) \ {p}) = nproc[old] - 1
      BY Zenon, <1>0, <1>15, FS_RemoveElement DEF ProcsAt
    <3>2. Leaf(n)'
      BY Zenon, <2>3, <1>2, <1>3, <1>17
    <3> QED
      <4>1. nproc'[n] = nproc[old] - 1 /\ ProcsAt(n)' = ProcsAt(old) \ {p}
        BY Zenon, <2>3, <1>11, <1>30
      <4> QED
        BY SMTT(20), <4>1, <3>1, <3>2, <2>0, <1>15, <1>16
  <2>4. CASE n \in Live \ {old}
    <3>1. /\ n \in Node \ {par, old, new} /\ (Leaf(n)' <=> Leaf(n)) /\ nproc'[n] = nproc[n]
          /\ nproc[n] \in Nat /\ ProcsAt(n)' = ProcsAt(n) /\ (n # te_root' => n # te_root)
      BY Zenon, <2>4, <1>11, <1>17, <1>20, <1>30 DEF IInv, TypeOK
    <3>2. Credit(n) = 0 /\ Debt(n) = 0 /\ dec # n
      BY Zenon, <3>1, <1>1 DEF Credit, Debt
    <3>3. n # te_root => nproc[n] >= 1
      BY Zenon, <2>4 DEF IInv, CountInv
    <3>4. Leaf(n) => nproc[n] = Cardinality(ProcsAt(n))
      BY SMTT(20), <2>4, <3>1, <3>2, <2>0 DEF IInv, CountInv
    <3>5. ASSUME ~Leaf(n)
          PROVE  /\ nproc[n] = nproc'[sub'[n][0]] + nproc'[sub'[n][1]]
                 /\ nproc'[sub'[n][0]] \in Nat /\ nproc'[sub'[n][1]] \in Nat
      <4>1. /\ nproc[n] = nproc[sub[n][0]] + nproc[sub[n][1]]
            /\ nproc[sub[n][0]] \in Nat /\ nproc[sub[n][1]] \in Nat
        <5>1. nproc[n] + Credit(n) = nproc[sub[n][0]] + nproc[sub[n][1]] + Debt(n)
          BY Zenon, <2>4, <3>5, CountFacts
        <5>2. nproc[sub[n][0]] \in Nat /\ nproc[sub[n][1]] \in Nat
          BY Zenon, <2>4, <3>5, KidFacts
        <5> QED
          BY SMTT(20), <5>1, <5>2, <3>1, <3>2
      <4>2. /\ sub[n][0] \in Node \ {par, new} /\ sub[n][1] \in Node \ {par, new}
            /\ sub[n][0] # sub[n][1] /\ parent[sub[n][0]] = n /\ parent[sub[n][1]] = n
        BY SMTT(20), <2>4, <3>5, <1>4, LiveFacts
      <4>3. CASE n # gp
        <5>1. sub[n][0] # old /\ sub[n][1] # old /\ sub'[n] = sub[n]
          BY Zenon, <4>2, <4>3, <3>1, <1>6, <1>9
        <5> QED
          BY Zenon, <5>1, <4>1, <4>2, <1>11
      <4>4. CASE n = gp
        <5>1. gp # NULL /\ slot \in Bit /\ sub[n][slot] = old
          BY Zenon, <4>4, <3>1, <1>5
        <5>2. CASE slot = 0
          <6>1. sub'[n][0] = par /\ sub'[n][1] = sub[n][1] /\ sub[n][0] = old
            BY SMTT(20), <5>1, <5>2, <4>4, <1>9
          <6> QED
            BY Zenon, <6>1, <4>1, <4>2, <1>11
        <5>3. CASE slot = 1
          <6>1. sub'[n][1] = par /\ sub'[n][0] = sub[n][0] /\ sub[n][1] = old
            BY SMTT(20), <5>1, <5>3, <4>4, <1>9
          <6> QED
            BY Zenon, <6>1, <4>1, <4>2, <1>11
        <5> QED
          BY Zenon, <5>1, <5>2, <5>3 DEF Bit
      <4> QED
        BY Zenon, <4>3, <4>4
    <3> QED
      BY Zenon, <3>1, <3>3, <3>4, <3>5, <2>0
  <2> QED
    BY Zenon, <2>1, <2>2, <2>3, <2>4, <1>18
<1> QED
  BY Zenon, <1>19, <1>22, <1>23, <1>24, <1>26, <1>27, <1>28, <1>29, <1>31 DEF IInv
-----------------------------------------------------------------------------
(* No step of the program takes the tree of epochs out of the inductive    *)
(* invariant.                                                              *)
LEMMA NextInv == IInv /\ [Next]_vars => IInv'
<1> SUFFICES ASSUME IInv, [Next]_vars PROVE IInv'
  BY Zenon
<1>1. CASE te_newproc
  BY Zenon, <1>1, CountUpInv
<1>2. CASE te_delproc
  BY Zenon, <1>2, DecStepInv, CollapseInv
<1>3. CASE de_update_substr
  BY Zenon, <1>3, UpdateSubstrInv
<1>4. CASE de_update_height
  BY Zenon, <1>4, UpdateHeightInv
<1>5. CASE match_dead \/ match_rise \/ match_return
  BY Zenon, <1>5, MatchInv
<1>6. ASSUME NEW p \in Proc, root_start(p) \/ tst_delproc(p) \/ tst_newfork(p)
      PROVE  IInv'
  BY Zenon, <1>6, RootStartInv, DelprocInv, NewforkInv
<1>7. ASSUME NEW p \in Proc, NEW q \in Proc, tst_newproc(p, q)
      PROVE  IInv'
  BY Zenon, <1>7, NewprocInv
<1>8. ASSUME NEW s \in Svc, ht_del(s)
      PROVE  IInv'
  BY Zenon, <1>8, DelInv
<1>9. ASSUME NEW s \in Svc, NEW p \in Proc, tst_timestamp(s, p)
      PROVE  IInv'
  BY Zenon, <1>9, TimestampInv
<1>11. ASSUME NEW s \in Svc, NEW p \in Proc \cup {NULL}, match_start(s, p)
      PROVE  IInv'
  BY Zenon, <1>11, MatchInv
<1>10. CASE UNCHANGED vars
  <2>1. /\ UNCHANGED <<te_root, nte, parent, sub>>
        /\ UNCHANGED <<rise, nproc, subheight, len, bitstr, epoch_now, ptree>>
        /\ UNCHANGED <<svc, sepoch, sees, upd, hgt, dec, inc, look>>
    BY Zenon, <1>10 DEF vars, fields, mounts, loops
  <2>2. Alloc' = Alloc /\ Live' = Live /\ Views' = Views /\ \A n : Leaf(n)' <=> Leaf(n)
    BY Zenon, <2>1, SameTree
  <2>3. TypeOK' /\ RiseInv' /\ LookInv'
    BY Zenon, <2>1 DEF IInv, TypeOK, RiseInv, LookInv
  <2>4. TreeShape' /\ LenInv' /\ DepthBound' /\ FreshInv' /\ ProcInv' /\ LoopInv'
    BY Zenon, <2>1, <2>2
    DEF IInv, TreeShape, LenInv, DepthBound, FreshInv, ProcInv, LoopInv, SonSlot, getbit
  <2>5. CountInv'
    BY <2>1, <2>2 DEF IInv, CountInv, Credit, Debt, ProcsAt
  <2> QED
    BY Zenon, <2>3, <2>4, <2>5 DEF IInv
<1> QED
  BY Zenon, <1>1, <1>2, <1>3, <1>4, <1>5, <1>6, <1>7, <1>8, <1>9, <1>10, <1>11 DEF Next, LoopStep

(* The inductive invariant holds throughout, for every number of           *)
(* processes, services and nodes and every word size.                      *)
THEOREM Invariance == Spec => []IInv
  BY InitInv, NextInv, PTL DEF Spec

(* Types are respected by every operation of treepoch.c and, in            *)
(* particular, no node index leaves the allocated ones and no nproc goes   *)
(* below zero.                                                             *)
THEOREM TypeCorrect == Spec => []TypeOK
<1>1. IInv => TypeOK
  BY Zenon DEF IInv
<1> QED
  BY <1>1, Invariance, PTL

(* At every moment, in the middle of te_delproc and of the updates as      *)
(* well, the nodes in use form a full binary tree.                         *)
THEOREM TreeAlwaysFull == Spec => []TreeShape
<1>1. IInv => TreeShape
  BY Zenon DEF IInv
<1> QED
  BY <1>1, Invariance, PTL

(* te_delproc only ever takes out a leaf that is still in the tree, even   *)
(* though it goes on climbing from a parent it has just taken out.         *)
THEOREM OnlyLeavesCollapse == Spec => []CollapseOnlyLeaf
<1>1. IInv => CollapseOnlyLeaf
  BY Zenon, DecFacts DEF CollapseOnlyLeaf, Views
<1> QED
  BY <1>1, Invariance, PTL

(* Between two interface calls nproc counts the processes of a leaf and    *)
(* those below an inner node.                                              *)
THEOREM CountsRight == Spec => []NprocCounts
<1>1. IInv => NprocCounts
  <2> SUFFICES ASSUME IInv, Idle, NEW n \in Live
               PROVE  nproc[n] = IF Leaf(n) THEN Cardinality(ProcsAt(n))
                                 ELSE nproc[sub[n][0]] + nproc[sub[n][1]]
    BY Zenon DEF NprocCounts
  <2>1. /\ n # NULL /\ nproc[n] \in Nat /\ Credit(n) = 0 /\ Debt(n) = 0 /\ dec # n
    BY SMTT(20), LiveFacts DEF Idle, Credit, Debt, IInv, TypeOK
  <2>2. CASE Leaf(n)
    <3>1. /\ Cardinality(ProcsAt(n)) \in Nat
          /\ nproc[n] + Credit(n) = Cardinality(ProcsAt(n)) + (IF dec = n THEN 1 ELSE 0)
      BY Zenon, <2>2, CountFacts
    <3> QED
      BY <2>1, <2>2, <3>1
  <2>3. CASE ~Leaf(n)
    <3>1. nproc[sub[n][0]] \in Nat /\ nproc[sub[n][1]] \in Nat
      BY Zenon, <2>3, KidFacts
    <3>2. nproc[n] + Credit(n) = nproc[sub[n][0]] + nproc[sub[n][1]] + Debt(n)
      BY Zenon, <2>3, CountFacts
    <3> QED
      BY <2>1, <2>3, <3>1, <3>2
  <2> QED
    BY Zenon, <2>2, <2>3
<1> QED
  BY <1>1, Invariance, PTL

(* Every process sits at a leaf and every view but the first has one.      *)
THEOREM ProcessesAtLeaves == Spec => []ProcsAtLeaves
<1>1. IInv => ProcsAtLeaves
  <2> SUFFICES ASSUME IInv, Idle PROVE ProcsAtLeaves
    BY Zenon DEF ProcsAtLeaves
  <2>1. \A p \in Proc : ptree[p] # NULL => ptree[p] \in Views
    BY Zenon DEF IInv, ProcInv
  <2>2. ASSUME NEW n \in Views \ {te_root} PROVE ProcsAt(n) # {}
    <3>1. n \in Live /\ Leaf(n) /\ n # NULL /\ nproc[n] \in Nat
      BY LiveFacts DEF Views, IInv, TypeOK
    <3>2. nproc[n] >= 1 /\ Credit(n) = 0 /\ dec # n
      BY Zenon, <3>1, <2>2 DEF IInv, CountInv, Idle, Credit
    <3>3. Cardinality(ProcsAt(n)) # 0
      BY <3>1, <3>2 DEF IInv, CountInv
    <3> QED
      BY Zenon, <3>3, FS_EmptySet
  <2> QED
    BY Zenon, <2>1, <2>2 DEF ProcsAtLeaves
<1> QED
  BY <1>1, Invariance, PTL

(* No node is deeper than the bit string is long.                          *)
THEOREM DepthBounded == Spec => []DepthBound
<1>1. IInv => DepthBound
  BY Zenon DEF IInv
<1> QED
  BY <1>1, Invariance, PTL

(* The second loop of tst_matchingepoch, which has no test for NULL, never *)
(* follows the parent pointer of a root.                                   *)
THEOREM MatchNeverFallsOff == Spec => []MatchStaysInTree
<1>1. IInv => MatchStaysInTree
  <2>1. look = NoLook => look.phase = "none"
    BY DEF NoLook
  <2>2. "none" \notin {"dead", "rise", "done"}
    OBVIOUS
  <2> QED
    BY Zenon, <2>1, <2>2 DEF IInv, LookInv, MatchStaysInTree
<1> QED
  BY <1>1, Invariance, PTL
=============================================================================
