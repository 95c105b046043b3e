-------------------------- MODULE TreepochCollapse --------------------------
(***************************************************************************)
(* te_delproc at a leaf left by its last process: the leaf and its parent  *)
(* are taken out of the tree and the sibling moves up.                     *)
(***************************************************************************)
EXTENDS TreepochLemmas

(* te_delproc takes the last process out of a leaf: the leaf and its       *)
(* parent leave the tree and the sibling takes the place of the parent.    *)
LEMMA CollapseInv ==
  ASSUME IInv, te_delproc, nproc[dec] = 1, parent[dec] # NULL
  PROVE  IInv'
<1> USE NodeFacts
<1>0. PICK x, par, o, gp, slot :
      /\ x = dec /\ par = parent[x]
      /\ o = IF x = sub[par][0] THEN sub[par][1] ELSE sub[par][0]
      /\ gp = parent[par] /\ slot = SonSlot(par)
  BY Zenon
<1>1. /\ parent' = [parent EXCEPT ![o] = gp, ![x] = o]
      /\ rise' = [rise EXCEPT ![o] = rise[par]]
      /\ te_root' = IF gp = NULL THEN o ELSE te_root
      /\ sub' = IF gp = NULL THEN sub ELSE [sub EXCEPT ![gp][slot] = o]
      /\ len' = [len EXCEPT ![o] = len[par]]
      /\ bitstr' = [bitstr EXCEPT ![o] = bitstr[par]]
      /\ upd' = Kids(o) /\ hgt' = gp
  BY Zenon, <1>0 DEF te_delproc, Collapse, SurvivorRise
<1>2. /\ nproc' = [nproc EXCEPT ![x] = @ - 1] /\ dec' = par /\ x # NULL
      /\ UNCHANGED <<nte, subheight, epoch_now, ptree, svc, sepoch, sees, inc, look>>
  BY Zenon, <1>0 DEF te_delproc, del_next, mounts
<1>3. /\ x \in Live \ {te_root} /\ Leaf(x) /\ x \in Node
      /\ x = dec /\ nproc[x] = 1 /\ inc = NULL /\ look = NoLook
  BY Zenon, <1>0, <1>2, DecFacts
<1>4. /\ par = parent[x] /\ gp = parent[par]
      /\ par \in Live /\ ~Leaf(par) /\ par \in Node /\ par # x
  BY SMTT(20), <1>0, <1>3, LiveFacts
<1>5. /\ o \in Live \ {te_root} /\ o \in Node /\ o # x /\ parent[o] = par
      /\ sub[par][0] \in {x, o} /\ sub[par][1] \in {x, o}
  BY <1>0, <1>3, <1>4, LiveFacts DEF Bit
<1>6. /\ len[par] \in Nat /\ len[o] \in Nat /\ len[o] >= len[par] + 1 /\ o # par
  BY Zenon, <1>4, <1>5, LenFacts
<1>7. ASSUME gp # NULL
      PROVE  /\ par # te_root /\ gp \in Live /\ gp \in Node /\ ~Leaf(gp)
             /\ slot \in Bit /\ sub[gp][slot] = par /\ gp # x /\ gp # par /\ gp # o
             /\ len[gp] \in Nat /\ len[par] >= len[gp] + 1
  <2>1. par # te_root
    BY Zenon, <1>0, <1>4, <1>7, LiveFacts
  <2>2. gp \in Live /\ ~Leaf(gp) /\ slot \in Bit /\ sub[gp][slot] = par
    BY <1>0, <2>1, <1>4, LiveFacts
  <2>3. len[gp] \in Nat /\ len[par] >= len[gp] + 1
    BY Zenon, <1>0, <2>1, <1>4, LenFacts
  <2> QED
    BY <2>1, <2>2, <2>3, <1>3, <1>6, LiveFacts
<1>8. gp = NULL <=> par = te_root
  BY ZenonT(40), <1>4, LiveFacts
<1>9. /\ gp \in Ptr /\ \A n \in Node \ {gp} : sub'[n] = sub[n]
      /\ \A n \in Node \ {o, x} : parent'[n] = parent[n]
      /\ parent'[o] = gp /\ parent'[x] = o /\ parent'[par] = gp
      /\ \A n \in Node \ {o} : len'[n] = len[n] /\ bitstr'[n] = bitstr[n] /\ rise'[n] = rise[n]
      /\ len'[o] = len[par] /\ bitstr'[o] = bitstr[par] /\ rise'[o] = rise[par]
  BY ZenonT(40), <1>0, <1>1, <1>3, <1>4, <1>5, <1>6 DEF IInv, TypeOK
<1>10. gp # NULL => /\ sub'[gp][slot] = o
                    /\ \A b \in Bit : b # slot => sub'[gp][b] = sub[gp][b]
  BY <1>1, <1>7 DEF IInv, TypeOK
<1>11. TypeOK'
  <2>1. upd' \in SUBSET Node
    BY <1>1, <1>5 DEF Kids, IInv, TypeOK
  <2>2. sub' \in [Node -> [Bit -> Ptr]]
    BY Zenon, <1>1, <1>5, <1>7 DEF IInv, TypeOK
  <2>3. nproc' \in [Node -> Nat]
    BY <1>2, <1>3 DEF IInv, TypeOK
  <2> QED
    BY ZenonT(40), <2>1, <2>2, <2>3, <1>1, <1>2, <1>4, <1>5, <1>9 DEF IInv, TypeOK
<1>12. \A n \in Node : Leaf(n)' <=> Leaf(n)
  <2> SUFFICES ASSUME NEW n \in Node PROVE Leaf(n)' <=> Leaf(n)
    BY Zenon
  <2>1. CASE n # gp
    BY <2>1, <1>9 DEF Leaf
  <2>2. CASE n = gp
    BY Zenon, <2>2, <1>7, <1>10, <1>5 DEF Leaf, Bit
  <2> QED
    BY Zenon, <2>1, <2>2
<1>13. Alloc' = Alloc
  BY Zenon, <1>2 DEF Alloc
<1>14. Live' = Live \ {x, par}
  <2>1. x \notin Live'
    <3>1. \A b \in Bit : sub[o][b] # x
      BY <1>3, <1>4, <1>5, <1>6, LiveFacts DEF Leaf, Bit
    <3>2. o # gp
      BY Zenon, <1>5, <1>7
    <3>3. x # te_root'
      BY Zenon, <1>1, <1>3, <1>5
    <3> QED
      BY SMTT(20), <3>1, <3>2, <3>3, <1>5, <1>9 DEF Live, Linked
  <2>2. par \notin Live'
    <3>1. par # te_root'
      BY Zenon, <1>1, <1>6, <1>8
    <3>2. parent'[par] = gp
      BY Zenon, <1>4, <1>6, <1>9
    <3>3. gp # NULL => \A b \in Bit : sub'[gp][b] # par
      BY <1>6, <1>7, <1>10, LiveFacts DEF Bit
    <3> QED
      BY Zenon, <3>1, <3>2, <3>3 DEF Live, Linked
  <2>3. o \in Live'
    <3>1. o \in Alloc'
      BY Zenon, <1>5, <1>13, LiveFacts
    <3>2. CASE gp = NULL
      BY Zenon, <3>1, <3>2, <1>1 DEF Live, Linked
    <3>3. CASE gp # NULL
      BY SMTT(20), <3>1, <3>3, <1>7, <1>9, <1>10 DEF Live, Linked
    <3> QED
      BY Zenon, <3>2, <3>3
  <2>4. ASSUME NEW n \in Alloc, n \notin {x, par, o}
        PROVE  n \in Live' <=> n \in Live
    <3>1. n \in Node
      <4>1. nte \in 0 .. MaxNode
        BY Zenon DEF IInv, TypeOK, Ptr
      <4> QED
        BY <4>1, <2>4, MaxNodeAssumption DEF Alloc, Node
    <3>2. parent'[n] = parent[n]
      BY Zenon, <2>4, <3>1, <1>9
    <3>3. n = te_root' <=> n = te_root
      BY Zenon, <2>4, <1>1, <1>8
    <3>4. ASSUME parent[n] # NULL
          PROVE  (\E b \in Bit : sub'[parent[n]][b] = n) <=> (\E b \in Bit : sub[parent[n]][b] = n)
      <4>1. parent[n] \in Node
        BY Zenon, <3>1, <3>4 DEF IInv, TypeOK
      <4>2. CASE parent[n] # gp
        BY <4>1, <4>2, <1>9
      <4>3. CASE parent[n] = gp
        BY Zenon, <4>3, <3>4, <2>4, <1>7, <1>10
      <4> QED
        BY Zenon, <4>2, <4>3
    <3> QED
      BY Zenon, <3>2, <3>3, <3>4, <2>4, <1>13 DEF Live, Linked
  <2> QED
    BY Zenon, <2>1, <2>2, <2>3, <2>4, <1>5, <1>6, <1>13 DEF Live
<1>15. \A n \in Live' \ {te_root'} : n # te_root /\ n \in Live /\ n # x /\ n # par /\ n \in Node
  BY Zenon, <1>1, <1>8, <1>14, LiveFacts
<1>16. TreeShape'
  <2>1. nte' > 0 => te_root' \in Live' /\ parent'[te_root'] = NULL
    <3>1. CASE gp = NULL
      BY Zenon, <3>1, <1>1, <1>5, <1>6, <1>9, <1>14
    <3>2. CASE gp # NULL
      <4>1. nte > 0 => te_root \in Live /\ te_root \in Node /\ parent[te_root] = NULL
        BY Zenon, LiveFacts DEF IInv, TreeShape
      <4>2. te_root' = te_root
        BY Zenon, <3>2, <1>1
      <4>3. te_root # x /\ te_root # par /\ te_root # o
        BY Zenon, <3>2, <1>3, <1>5, <1>7
      <4> QED
        BY Zenon, <4>1, <4>2, <4>3, <1>2, <1>9, <1>14
    <3> QED
      BY Zenon, <3>1, <3>2
  <2>2. ASSUME NEW n \in Live' \ {te_root'}
        PROVE  parent'[n] \in Live' /\ len'[n] > 0 /\ sub'[parent'[n]][SonSlot(n)'] = n
    <3>1. CASE n = o
      <4>1. gp # NULL
        BY Zenon, <2>2, <3>1, <1>1
      <4>2. SonSlot(n)' = slot
        BY Zenon, <3>1, <1>0, <1>9 DEF SonSlot, getbit
      <4>3. len'[n] > 0
        BY <4>1, <3>1, <1>6, <1>7, <1>9
      <4> QED
        BY Zenon, <4>1, <4>2, <4>3, <3>1, <1>7, <1>9, <1>10, <1>14
    <3>2. CASE n # o
      <4>1. /\ parent'[n] = parent[n] /\ parent[n] \in Live /\ parent[n] \in Node
            /\ SonSlot(n)' = SonSlot(n) /\ SonSlot(n) \in Bit
            /\ sub[parent[n]][SonSlot(n)] = n /\ ~Leaf(parent[n])
        BY Zenon, <2>2, <3>2, <1>9, <1>15, LiveFacts DEF SonSlot, getbit
      <4>2. parent[n] # x /\ parent[n] # par
        BY Zenon, <4>1, <2>2, <3>2, <1>3, <1>5, <1>15 DEF Bit
      <4>3. len'[n] > 0
        BY Zenon, <2>2, <3>2, <1>9, <1>15 DEF IInv, TreeShape
      <4>4. sub'[parent[n]][SonSlot(n)] = n
        <5>1. CASE parent[n] # gp
          BY Zenon, <5>1, <4>1, <1>9
        <5>2. CASE parent[n] = gp
          <6>1. gp # NULL /\ SonSlot(n) # slot
            BY SMTT(20), <5>2, <4>1, <2>2, <1>7, <1>15, LiveFacts
          <6> QED
            BY Zenon, <6>1, <5>2, <4>1, <1>10
        <5> QED
          BY Zenon, <5>1, <5>2
      <4> QED
        BY Zenon, <4>1, <4>2, <4>3, <4>4, <1>14
    <3> QED
      BY Zenon, <3>1, <3>2
  <2>3. ASSUME NEW n \in Live', ~Leaf(n)'
        PROVE  /\ sub'[n][0] # sub'[n][1]
               /\ \A b \in Bit : sub'[n][b] \in Live' /\ parent'[sub'[n][b]] = n
    <3>1. n \in Live /\ n # x /\ n # par /\ n \in Node /\ ~Leaf(n)
      BY Zenon, <2>3, <1>12, <1>14, LiveFacts
    <3>2. /\ sub[n][0] # sub[n][1]
          /\ \A b \in Bit : sub[n][b] \in Live /\ parent[sub[n][b]] = n /\ sub[n][b] \in Node
      BY Zenon, <3>1, LiveFacts DEF Bit
    <3>3. \A b \in Bit : sub[n][b] # x /\ sub[n][b] # o
      BY Zenon, <3>1, <3>2, <1>4, <1>5
    <3>4. CASE n # gp
      <4>1. \A b \in Bit : sub[n][b] # par
        BY Zenon, <3>2, <3>4, <1>4
      <4> QED
        BY SMTT(20), <4>1, <3>1, <3>2, <3>3, <3>4, <1>9, <1>14
    <3>5. CASE n = gp
      <4>1. gp # NULL /\ slot \in Bit
        BY Zenon, <3>1, <3>5, <1>7, LiveFacts
      <4>2. \A b \in Bit : b # slot => sub[n][b] # par
        BY <4>1, <3>2, <3>5, <1>7 DEF Bit
      <4> QED
        BY SMTT(20), <4>1, <4>2, <3>2, <3>3, <3>5, <1>5, <1>6, <1>9, <1>10, <1>14 DEF Bit
    <3> QED
      BY Zenon, <3>4, <3>5
  <2> QED
    BY Zenon, <2>1, <2>2, <2>3 DEF TreeShape
<1>17. LenInv'
  <2> SUFFICES ASSUME NEW n \in Live' \ {te_root'}
               PROVE  len'[n] >= len'[parent'[n]] + 1
    BY Zenon DEF LenInv
  <2>1. CASE n = o
    BY SMTT(20), <2>1, <1>1, <1>6, <1>7, <1>9
  <2>2. CASE n # o
    <3>1. /\ parent'[n] = parent[n] /\ parent[n] \in Node /\ len'[n] = len[n]
          /\ len[n] \in Nat /\ len[parent[n]] \in Nat /\ len[n] >= len[parent[n]] + 1
      BY Zenon, <2>2, <1>9, <1>15, LiveFacts, LenFacts
    <3>2. len'[parent[n]] = len[parent[n]] \/ (parent[n] = o /\ len'[parent[n]] = len[par])
      BY Zenon, <3>1, <1>9
    <3> QED
      BY <3>1, <3>2, <1>6
  <2> QED
    BY Zenon, <2>1, <2>2
<1>18. DepthBound'
  <2> SUFFICES ASSUME NEW n \in Live'
               PROVE  len'[n] <= MAXDEPTH /\ (Leaf(n)' \/ len'[n] < MAXDEPTH)
    BY Zenon DEF DepthBound
  <2>1. n \in Live /\ n \in Node /\ (Leaf(n)' <=> Leaf(n))
    BY Zenon, <1>12, <1>14, LiveFacts
  <2>2. len[par] < MAXDEPTH /\ (len'[n] = len[n] \/ len'[n] = len[par])
    BY Zenon, <2>1, <1>4, <1>9 DEF IInv, DepthBound
  <2>3. len[n] <= MAXDEPTH /\ (Leaf(n) \/ len[n] < MAXDEPTH)
    BY Zenon, <2>1 DEF IInv, DepthBound
  <2> QED
    BY <2>1, <2>2, <2>3, <1>6, MaxDepthAssumption
<1>19. FreshInv'
  <2>1. o \in Alloc /\ x \in Alloc /\ par \in Alloc /\ nte \in Nat /\ te_root # NULL
    BY SMTT(20), <1>3, <1>4, <1>5, LiveFacts DEF IInv, TypeOK, FreshInv, Ptr, Alloc
  <2>2. te_root' # NULL /\ nte' # 0
    BY <2>1, <1>1, <1>2, <1>5 DEF Alloc
  <2>3. \A n \in Node : parent'[n] <= nte
    <3> SUFFICES ASSUME NEW n \in Node PROVE parent'[n] <= nte
      BY Zenon
    <3>1. parent[n] <= nte /\ gp <= nte /\ o <= nte
      BY SMTT(20), <2>1, <1>4 DEF IInv, FreshInv, Alloc
    <3> QED
      BY Zenon, <3>1, <1>9
  <2>4. \A n \in Node \ Alloc : Leaf(n)' /\ parent'[n] = NULL /\ nproc'[n] = 0 /\ len'[n] = 0
    BY SMTT(20), <2>1, <1>2, <1>9, <1>12 DEF IInv, FreshInv, TypeOK
  <2> QED
    BY Zenon, <2>2, <2>3, <2>4, <1>2, <1>13 DEF FreshInv
<1>20. ProcsAt(x) = {}
  <2>1. nproc[x] + Credit(x) = Cardinality(ProcsAt(x)) + 1 /\ Credit(x) = 0
    BY Zenon, <1>2, <1>3 DEF IInv, CountInv, Credit
  <2>2. IsFiniteSet(ProcsAt(x)) /\ Cardinality(ProcsAt(x)) \in Nat
    BY Zenon, ProcAssumption, FS_Subset, FS_CardinalityType DEF ProcsAt
  <2>3. Cardinality(ProcsAt(x)) = 0
    BY <2>1, <2>2, <1>3
  <2> QED
    BY Zenon, <2>2, <2>3, FS_EmptySet
<1>21. ProcInv'
  <2> SUFFICES ASSUME NEW p \in Proc, NEW v, v = ptree[p], v # NULL
               PROVE  v \in Live' /\ Leaf(v)'
    BY Zenon, <1>2 DEF ProcInv, Views, Leaf
  <2>1. v \in Live /\ Leaf(v) /\ v \in Node
    BY Zenon, LiveFacts DEF IInv, ProcInv, Views
  <2>2. v # x
    BY Zenon, <1>20 DEF ProcsAt
  <2> QED
    BY Zenon, <2>1, <2>2, <1>4, <1>12, <1>14
<1>22. /\ nproc[par] = 1 + nproc[o] /\ nproc[o] \in Nat /\ nproc[o] >= 1 /\ nproc[par] \in Nat
       /\ \A n \in Node \ {x} : nproc'[n] = nproc[n]
  <2>1. nproc[par] + Credit(par) = nproc[sub[par][0]] + nproc[sub[par][1]] + Debt(par)
    BY Zenon, <1>4 DEF IInv, CountInv
  <2>2. Credit(par) = 0 /\ Debt(par) = 0
    BY Zenon, <1>3, <1>4 DEF Credit, Debt
  <2>3. nproc[sub[par][0]] \in Nat /\ nproc[sub[par][1]] \in Nat /\ sub[par][0] # sub[par][1]
    BY Zenon, <1>4, LiveFacts, KidFacts
  <2>4. nproc[o] >= 1
    BY Zenon, <1>5 DEF IInv, CountInv
  <2>5. nproc[par] \in Nat /\ nproc[x] = 1
    BY Zenon, <1>3, <1>4 DEF IInv, TypeOK
  <2> QED
    BY SMTT(20), <2>1, <2>2, <2>3, <2>4, <2>5, <1>2, <1>5 DEF IInv, TypeOK
<1>23. LoopInv'
  <2>1. hgt' # NULL => hgt' \in Live' /\ ~Leaf(hgt)'
    <3>1. gp # NULL => gp \in Live' /\ ~Leaf(gp)'
      BY Zenon, <1>7, <1>12, <1>14
    <3> QED
      BY Zenon, <3>1, <1>1 DEF Leaf
  <2>2. upd' \subseteq Live' \ {te_root'}
    <3> SUFFICES ASSUME NEW c \in Kids(o) PROVE c \in Live' \ {te_root'}
      BY Zenon, <1>1
    <3>1. ~Leaf(o) /\ c \in {sub[o][0], sub[o][1]}
      BY Zenon DEF Kids, Leaf
    <3>2. c \in Live \ {te_root} /\ parent[c] = o
      BY <3>1, <1>5, LiveFacts
    <3>3. c # x /\ c # par /\ c # o
      BY Zenon, <3>2, <1>4, <1>5, <1>6, <1>7, LenFacts
    <3> QED
      BY Zenon, <3>2, <3>3, <1>1, <1>14
  <2>3. /\ par \in Alloc /\ nproc'[par] >= 2
        /\ gp # NULL => gp \in Live' /\ ~Leaf(gp)'
    BY SMTT(20), <1>4, <1>6, <1>7, <1>9, <1>12, <1>14, <1>22, LiveFacts
  <2> QED
    BY Zenon, <2>1, <2>2, <2>3, <1>2, <1>3, <1>9, <1>13 DEF LoopInv, Leaf
<1>24. RiseInv'
  <2>1. \A n \in Node : parent'[n] = NULL => rise'[n] <= 2
    <3> SUFFICES ASSUME NEW n \in Node, parent'[n] = NULL PROVE rise'[n] <= 2
      BY Zenon
    <3>1. n # x
      BY Zenon, <1>5, <1>9
    <3> QED
      BY <3>1, <1>4, <1>9 DEF IInv, RiseInv
  <2>2. te_root' # NULL
    <3>1. x \in 1 .. nte /\ nte \in Nat
      BY <1>3, LiveFacts DEF Alloc, IInv, TypeOK, Ptr
    <3> QED
      BY SMTT(20), <3>1, <1>2, <1>19 DEF FreshInv
  <2> QED
    BY Zenon, <2>1, <2>2, <1>2 DEF IInv, RiseInv
<1>25. LookInv'
  BY Zenon, <1>2, <1>3 DEF LookInv
<1>26. CountInv'
  <2> SUFFICES ASSUME NEW n \in Live'
      PROVE /\ Leaf(n)' => nproc'[n] + Credit(n)'
                         = Cardinality(ProcsAt(n)') + (IF dec' = n THEN 1 ELSE 0)
            /\ ~Leaf(n)' => nproc'[n] + Credit(n)'
                         = nproc'[sub'[n][0]] + nproc'[sub'[n][1]] + Debt(n)'
            /\ n # te_root' => nproc'[n] >= 1
    BY Zenon DEF CountInv
  <2>0. /\ n \in Live /\ n \in Node /\ n # NULL /\ n # x /\ n # par /\ (Leaf(n)' <=> Leaf(n))
        /\ nproc'[n] = nproc[n] /\ nproc[n] \in Nat /\ Credit(n) = 0 /\ Credit(n)' = 0
    BY SMTT(20), LiveFacts, <1>2, <1>3, <1>12, <1>14, <1>22 DEF IInv, TypeOK, Credit
  <2>1. n # te_root' => nproc'[n] >= 1
    BY Zenon, <2>0, <1>15 DEF IInv, CountInv
  <2>2. Debt(n) = 0
    BY Zenon, <2>0, <1>3 DEF Debt
  <2>3. Debt(n)' = IF n = gp THEN 1 ELSE 0
    <3>1. par \notin Live' /\ parent'[par] = gp /\ par # NULL
      BY Zenon, <1>4, <1>6, <1>9, <1>14, LiveFacts
    <3> QED
      BY Zenon, <3>1, <2>0, <1>2 DEF Debt
  <2>4. ASSUME Leaf(n)
        PROVE  nproc'[n] + Credit(n)' = Cardinality(ProcsAt(n)') + (IF dec' = n THEN 1 ELSE 0)
    <3>1. ProcsAt(n)' = ProcsAt(n)
      BY Zenon, <1>2 DEF ProcsAt
    <3> QED
      BY SMTT(20), <3>1, <2>0, <2>4, <1>2, <1>3, CountFacts
  <2>5. ASSUME ~Leaf(n)
        PROVE  nproc'[n] = nproc'[sub'[n][0]] + nproc'[sub'[n][1]] + Debt(n)'
    <3>1. /\ nproc[n] = nproc[sub[n][0]] + nproc[sub[n][1]]
          /\ nproc[sub[n][0]] \in Nat /\ nproc[sub[n][1]] \in Nat
      <4>1. nproc[n] + Credit(n) = nproc[sub[n][0]] + nproc[sub[n][1]] + Debt(n)
        BY Zenon, <2>0, <2>5, CountFacts
      <4>2. nproc[sub[n][0]] \in Nat /\ nproc[sub[n][1]] \in Nat
        BY Zenon, <2>0, <2>5, KidFacts
      <4> QED
        BY <4>1, <4>2, <2>0, <2>2
    <3>2. /\ sub[n][0] \in Node \ {x} /\ sub[n][1] \in Node \ {x}
          /\ sub[n][0] # sub[n][1]
      BY <2>0, <2>5, <1>4, LiveFacts
    <3>3. CASE n # gp
      <4>1. sub'[n][0] = sub[n][0] /\ sub'[n][1] = sub[n][1] /\ Debt(n)' = 0
        BY Zenon, <3>3, <2>0, <2>3, <1>9
      <4>2. nproc'[sub[n][0]] = nproc[sub[n][0]] /\ nproc'[sub[n][1]] = nproc[sub[n][1]]
        BY Zenon, <3>2, <1>22
      <4>3. nproc[n] = nproc[sub[n][0]] + nproc[sub[n][1]] + 0
        BY <3>1
      <4> QED
        BY Zenon, <4>1, <4>2, <4>3, <2>0
    <3>4. CASE n = gp
      <4>1. gp # NULL /\ slot \in Bit /\ sub[n][slot] = par
        BY Zenon, <3>4, <2>0, <1>7
      <4>2. CASE slot = 0
        <5>1. sub'[n][0] = o /\ sub'[n][1] = sub[n][1] /\ sub[n][0] = par
          BY SMTT(20), <4>1, <4>2, <3>4, <1>10 DEF Bit
        <5> QED
          BY SMTT(20), <5>1, <3>1, <3>2, <3>4, <2>0, <2>3, <1>5, <1>22
      <4>3. CASE slot = 1
        <5>1. sub'[n][1] = o /\ sub'[n][0] = sub[n][0] /\ sub[n][1] = par
          BY <4>1, <4>3, <3>4, <1>10 DEF Bit
        <5> QED
          BY SMTT(20), <5>1, <3>1, <3>2, <3>4, <2>0, <2>3, <1>5, <1>22
      <4> QED
        BY Zenon, <4>1, <4>2, <4>3 DEF Bit
    <3> QED
      BY Zenon, <3>3, <3>4
  <2> QED
    BY <2>0, <2>1, <2>4, <2>5
<1> QED
  BY Zenon, <1>11, <1>16, <1>17, <1>18, <1>19, <1>21, <1>23, <1>24, <1>25, <1>26 DEF IInv
=============================================================================
