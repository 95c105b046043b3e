--------------------------- MODULE TreepochLemmas ---------------------------
(***************************************************************************)
(* The steps of Treepoch that keep the shape of the tree preserve its      *)
(* invariant IInv.  The two that change the shape have proofs of their own *)
(* (TreepochCollapse for te_delproc, TreepochProofs for tst_newfork).      *)
(***************************************************************************)
EXTENDS Treepoch, TLAPS, FiniteSetTheorems

(* Node, Ptr and Bit.                                                      *)
LEMMA NodeFacts ==
    /\ Node \subseteq Ptr /\ NULL \in Ptr /\ NULL \notin Node
    /\ \A x \in Ptr : x # NULL => x \in Node
    /\ 0 \in Bit /\ 1 \in Bit
  BY MaxNodeAssumption DEF Node, Ptr, NULL, Bit

(* The invariant holds before the first process starts.                    *)
LEMMA InitInv == Init => IInv
<1> SUFFICES ASSUME Init PROVE IInv
  BY Zenon
<1>1. Alloc = {} /\ Live = {}
  BY DEF Init, Alloc, Live
<1>2. TypeOK
  BY MaxNodeAssumption, MaxDepthAssumption
     DEF Init, TypeOK, Node, Ptr, NULL, Bit, Index, NoLook
<1>3. TreeShape /\ CountInv /\ LenInv /\ DepthBound
  BY <1>1 DEF Init, TreeShape, CountInv, LenInv, DepthBound
<1>4. FreshInv /\ ProcInv /\ LoopInv
  BY <1>1, NodeFacts, MaxNodeAssumption
     DEF Init, FreshInv, ProcInv, LoopInv, Leaf, Node, NULL, Bit
<1>5. RiseInv /\ LookInv
  BY DEF Init, RiseInv, LookInv, Node
<1> QED
  BY Zenon, <1>2, <1>3, <1>4, <1>5 DEF IInv

(* The tree is what te_root, nte, parent and sub say.                      *)
LEMMA SameTree ==
  ASSUME UNCHANGED <<te_root, nte, parent, sub>>
  PROVE  /\ Alloc' = Alloc /\ Live' = Live /\ Views' = Views
         /\ \A n : Leaf(n)' <=> Leaf(n)
  BY Zenon DEF Alloc, Live, Linked, Views, Leaf

(* What TreeShape says of a live node, its parent and its two children.    *)
LEMMA LiveFacts ==
  ASSUME IInv
  PROVE  /\ \A n \in Live : n \in Node /\ n \in Alloc /\ n # NULL
         /\ \A n \in Live : parent[n] = NULL <=> n = te_root
         /\ \A n \in Live \ {te_root} :
               /\ SonSlot(n) \in Bit /\ parent[n] \in Live /\ ~Leaf(parent[n])
               /\ sub[parent[n]][SonSlot(n)] = n
         /\ \A n \in Live : ~Leaf(n) =>
               /\ sub[n][0] \in Live \ {te_root} /\ sub[n][1] \in Live \ {te_root}
               /\ sub[n][0] # sub[n][1] /\ parent[sub[n][0]] = n /\ parent[sub[n][1]] = n
<1>1. \A n \in Live : n \in Node /\ n \in Alloc /\ n # NULL
  <2>1. nte \in 0 .. MaxNode
    BY Zenon DEF IInv, TypeOK, Ptr
  <2> QED
    BY <2>1, MaxNodeAssumption DEF Live, Alloc, Node, NULL
<1>2. ASSUME NEW n \in Live \ {te_root}
      PROVE  /\ SonSlot(n) \in Bit /\ parent[n] \in Live /\ ~Leaf(parent[n])
             /\ sub[parent[n]][SonSlot(n)] = n
  <2>1. parent[n] \in Live /\ len[n] > 0 /\ sub[parent[n]][SonSlot(n)] = n /\ len[n] <= MAXDEPTH
    BY Zenon, <1>2 DEF IInv, TreeShape, DepthBound
  <2>2. len[n] - 1 \in Index
    BY SMTT(20), <2>1, <1>1, <1>2, MaxDepthAssumption DEF IInv, TypeOK, Index
  <2>3. SonSlot(n) \in Bit
    BY <2>2, <1>1, <1>2 DEF IInv, TypeOK, SonSlot, getbit
  <2> QED
    BY Zenon, <2>1, <2>3, <1>1, <1>2 DEF Leaf, Bit
<1>3. ASSUME NEW n \in Live, ~Leaf(n)
      PROVE  /\ sub[n][0] \in Live \ {te_root} /\ sub[n][1] \in Live \ {te_root}
             /\ sub[n][0] # sub[n][1] /\ parent[sub[n][0]] = n /\ parent[sub[n][1]] = n
  <2>1. /\ sub[n][0] \in Live /\ sub[n][1] \in Live /\ sub[n][0] # sub[n][1]
        /\ parent[sub[n][0]] = n /\ parent[sub[n][1]] = n
    BY Zenon, <1>3, NodeFacts DEF IInv, TreeShape
  <2>2. parent[te_root] = NULL
    BY <1>1 DEF IInv, TreeShape, TypeOK, Alloc, Ptr
  <2> QED
    BY Zenon, <2>1, <2>2, <1>1
<1>4. \A n \in Live : parent[n] = NULL <=> n = te_root
  <2>1. \A n \in Live : n = te_root => parent[n] = NULL
    BY <1>1 DEF IInv, TreeShape, TypeOK, Alloc, Ptr
  <2> QED
    BY Zenon, <2>1, <1>1, <1>2
<1> QED
  BY Zenon, <1>1, <1>2, <1>3, <1>4

(* tst_newproc: a process joins the view of its parent; te_newproc goes    *)
(* on.                                                                     *)
LEMMA NewprocInv ==
  ASSUME IInv, NEW p \in Proc, NEW q \in Proc, tst_newproc(p, q)
  PROVE  IInv'
<1> USE NodeFacts
<1>1. /\ ptree[p] \in Views /\ ptree[p] \in Live /\ Leaf(ptree[p]) /\ ptree[p] \in Node
  BY Zenon DEF IInv, TypeOK, ProcInv, tst_newproc, Views
<1>2. UNCHANGED <<te_root, nte, parent, sub>> /\ UNCHANGED <<nproc, len, bitstr, rise>>
  BY Zenon DEF tst_newproc, fields
<1>3. Alloc' = Alloc /\ Live' = Live /\ Views' = Views /\ \A n : Leaf(n)' <=> Leaf(n)
  BY Zenon, <1>2, SameTree
<1>4. TypeOK'
  BY Zenon, <1>1 DEF IInv, TypeOK, tst_newproc, fields, mounts
<1>5. TreeShape' /\ LenInv' /\ DepthBound' /\ FreshInv'
  BY Zenon, <1>2, <1>3 DEF IInv, TreeShape, LenInv, DepthBound, FreshInv, SonSlot, getbit
<1>6. ProcInv'
  BY Zenon, <1>1, <1>3 DEF IInv, ProcInv, tst_newproc, TypeOK
<1>7. LoopInv' /\ RiseInv' /\ LookInv'
  BY Zenon, <1>1, <1>2, <1>3 DEF IInv, LoopInv, RiseInv, LookInv, tst_newproc, Idle, fields, mounts
<1>8. CountInv'
  <2> SUFFICES ASSUME NEW n \in Live
      PROVE /\ Leaf(n) => nproc[n] + Credit(n)'
                         = Cardinality(ProcsAt(n)') + (IF dec' = n THEN 1 ELSE 0)
            /\ ~Leaf(n) => nproc[n] + Credit(n)'
                         = nproc[sub[n][0]] + nproc[sub[n][1]] + Debt(n)'
            /\ n # te_root => nproc[n] >= 1
    BY Zenon, <1>2, <1>3 DEF CountInv
  <2>1. dec' = NULL /\ dec = NULL /\ inc = NULL /\ inc' = ptree[p] /\ n # NULL
    BY DEF tst_newproc, Idle, Live, Alloc, NULL
  <2>2. ~Leaf(n) => Credit(n)' = 0 /\ Debt(n)' = 0 /\ Credit(n) = 0 /\ Debt(n) = 0
    BY Zenon, <2>1, <1>1 DEF Credit, Debt
  <2>3. CASE n = ptree[p]
    <3>1. ProcsAt(n)' = ProcsAt(n) \cup {q} /\ q \notin ProcsAt(n)
      BY <2>3, <1>1 DEF tst_newproc, ProcsAt, IInv, TypeOK
    <3>2. IsFiniteSet(ProcsAt(n))
      BY Zenon, ProcAssumption, FS_Subset DEF ProcsAt
    <3>3. Cardinality(ProcsAt(n)') = Cardinality(ProcsAt(n)) + 1
      BY Zenon, <3>1, <3>2, FS_AddElement
    <3> QED
      BY SMTT(20), <3>3, <3>2, FS_CardinalityType, <2>1, <2>2, <2>3, <1>1 DEF IInv, CountInv, Credit, TypeOK
  <2>4. CASE n # ptree[p]
    <3>1. ProcsAt(n)' = ProcsAt(n)
      BY Zenon, <2>4, <2>1 DEF tst_newproc, ProcsAt, IInv, TypeOK
    <3> QED
      BY <3>1, <2>1, <2>2, <2>4 DEF IInv, CountInv, Credit, TypeOK
  <2> QED
    BY Zenon, <2>3, <2>4
<1> QED
  BY Zenon, <1>4, <1>5, <1>6, <1>7, <1>8 DEF IInv

(* Actions that leave the tree, the counters and the loops over the tree   *)
(* alone keep the part of the invariant that is about them.                *)
LEMMA QuietTree ==
  ASSUME IInv, UNCHANGED <<te_root, nte, fields, ptree, upd, hgt, dec, inc>>
  PROVE  TreeShape' /\ CountInv' /\ LenInv' /\ DepthBound' /\ FreshInv'
         /\ ProcInv' /\ LoopInv'
<1>1. /\ UNCHANGED <<te_root, nte, parent, sub>>
      /\ UNCHANGED <<nproc, len, bitstr, ptree, upd, hgt, dec, inc>>
  BY Zenon DEF fields
<1>2. Alloc' = Alloc /\ Live' = Live /\ Views' = Views /\ \A n : Leaf(n)' <=> Leaf(n)
  BY Zenon, <1>1, SameTree
<1>3. TreeShape' /\ LenInv' /\ DepthBound' /\ FreshInv'
  BY <1>1, <1>2 DEF IInv, TreeShape, LenInv, DepthBound, FreshInv, SonSlot, getbit
<1>4. CountInv'
  BY <1>1, <1>2 DEF IInv, CountInv, Credit, Debt, ProcsAt
<1>5. ProcInv' /\ LoopInv'
  BY Zenon, <1>1, <1>2 DEF IInv, ProcInv, LoopInv
<1> QED
  BY Zenon, <1>3, <1>4, <1>5

(* tst_timestamp marks a service with the view of its process.             *)
LEMMA TimestampInv ==
  ASSUME IInv, NEW s \in Svc, NEW p \in Proc, tst_timestamp(s, p)
  PROVE  IInv'
<1> USE NodeFacts
<1>1. UNCHANGED <<te_root, nte, fields, ptree, upd, hgt, dec, inc>>
  BY Zenon DEF tst_timestamp, loops
<1>2. TypeOK'
  BY DEF IInv, TypeOK, tst_timestamp, fields, loops
<1>3. te_root # NULL
  <2>1. ptree[p] \in Alloc
    BY Zenon, LiveFacts DEF tst_timestamp, IInv, ProcInv, Views
  <2> QED
    BY <2>1 DEF IInv, FreshInv, Alloc
<1>4. RiseInv' /\ LookInv'
  BY <1>3 DEF IInv, RiseInv, LookInv, TypeOK, tst_timestamp, fields, loops, Idle
<1> QED
  BY Zenon, <1>1, <1>2, <1>4, QuietTree DEF IInv

(* A service is removed.                                                   *)
LEMMA DelInv ==
  ASSUME IInv, NEW s \in Svc, ht_del(s)
  PROVE  IInv'
<1> USE NodeFacts
<1>1. UNCHANGED <<te_root, nte, fields, ptree, upd, hgt, dec, inc>>
  BY Zenon DEF ht_del, loops
<1>2. TypeOK'
  BY Zenon DEF IInv, TypeOK, ht_del, fields, loops
<1>3. RiseInv' /\ LookInv'
  BY Zenon DEF IInv, RiseInv, LookInv, TypeOK, ht_del, fields, loops, Idle
<1> QED
  BY Zenon, <1>1, <1>2, <1>3, QuietTree DEF IInv

(* tst_matchingepoch only reads the tree.                                  *)
LEMMA MatchInv ==
  ASSUME IInv,
         \/ \E s \in Svc, p \in Proc \cup {NULL} : match_start(s, p)
         \/ match_dead \/ match_rise \/ match_return
  PROVE  IInv'
<1> USE NodeFacts
<1>1. UNCHANGED <<te_root, nte, fields, ptree, upd, hgt, dec, inc>>
  BY Zenon DEF match_start, match_dead, match_rise, match_return
<1>2. UNCHANGED <<parent, rise, nproc, epoch_now, sepoch, sees>>
  BY Zenon DEF match_start, match_dead, match_rise, match_return, fields, mounts
<1> SUFFICES TypeOK' /\ RiseInv' /\ LookInv'
  BY Zenon, <1>1, QuietTree DEF IInv
<1>3. ASSUME NEW s \in Svc, NEW p \in Proc \cup {NULL}, match_start(s, p)
      PROVE  TypeOK' /\ RiseInv' /\ LookInv'
  BY <1>3, <1>1, <1>2 DEF IInv, TypeOK, RiseInv, LookInv, match_start, fields, mounts, Idle
<1>4. CASE match_dead
  <2>1. /\ look.svc \in Svc /\ svc[look.svc] \in Node
        /\ upd = {} /\ hgt = NULL /\ dec = NULL /\ inc = NULL
    BY <1>4 DEF match_dead, dead_next, IInv, LookInv, NoLook, TypeOK
  <2>2. /\ svc' = svc \/ (svc' = [svc EXCEPT ![look.svc] = parent[svc[look.svc]]]
                            /\ parent[svc[look.svc]] # NULL)
        /\ look' = look \/ look' = [look EXCEPT !.phase = "rise"]
    BY Zenon, <1>4 DEF match_dead, dead_next
  <2>3. TypeOK'
    BY ZenonT(40), <2>1, <2>2, <1>1, <1>2 DEF IInv, TypeOK, fields
  <2>4. RiseInv'
    BY <2>1, <2>2, <1>1, <1>2 DEF IInv, TypeOK, RiseInv
  <2>5. LookInv'
    <3>1. svc'[look.svc] # NULL
      BY <2>1, <2>2 DEF IInv, TypeOK
    <3>2. /\ look'.svc = look.svc
          /\ look'.phase \in {"dead", "rise", "done"}
      BY SMTT(20), <2>2, <1>4 DEF match_dead, dead_next, IInv, LookInv, NoLook, TypeOK
    <3> QED
      BY <3>1, <3>2, <2>1, <1>1 DEF LookInv
  <2> QED
    BY Zenon, <2>3, <2>4, <2>5
<1>5. CASE match_rise
  <2>1. /\ look.svc \in Svc /\ svc[look.svc] \in Node
        /\ upd = {} /\ hgt = NULL /\ dec = NULL /\ inc = NULL
    BY <1>5 DEF match_rise, IInv, LookInv, NoLook, TypeOK
  <2>2. sepoch[look.svc] < rise[svc[look.svc]] => parent[svc[look.svc]] # NULL
    <3>1. sepoch[look.svc] >= 2 /\ sepoch[look.svc] \in Nat /\ rise[svc[look.svc]] \in Nat
      BY Zenon, <2>1 DEF IInv, RiseInv, TypeOK
    <3>2. parent[svc[look.svc]] = NULL => rise[svc[look.svc]] <= 2
      BY Zenon, <2>1 DEF IInv, RiseInv
    <3> QED
      BY <3>1, <3>2
  <2>3. /\ svc' = svc \/ (svc' = [svc EXCEPT ![look.svc] = parent[svc[look.svc]]]
                            /\ parent[svc[look.svc]] # NULL)
        /\ look' = look \/ look' = [look EXCEPT !.phase = "done"]
    BY Zenon, <1>5, <2>2 DEF match_rise
  <2>4. TypeOK'
    BY ZenonT(40), <2>1, <2>3, <1>1, <1>2 DEF IInv, TypeOK, fields
  <2>5. RiseInv'
    BY Zenon, <2>1, <2>3, <1>1, <1>2 DEF IInv, TypeOK, RiseInv
  <2>6. LookInv'
    <3>1. svc'[look.svc] # NULL
      BY <2>1, <2>3 DEF IInv, TypeOK
    <3>2. /\ look'.svc = look.svc
          /\ look'.phase \in {"dead", "rise", "done"}
      BY <2>3, <1>5 DEF match_rise, IInv, LookInv, NoLook, TypeOK
    <3> QED
      BY <3>1, <3>2, <2>1, <1>1 DEF LookInv
  <2> QED
    BY Zenon, <2>4, <2>5, <2>6
<1>6. CASE match_return
  BY <1>6, <1>1, <1>2 DEF IInv, TypeOK, RiseInv, LookInv, match_return, fields, mounts, NoLook
<1> QED
  BY Zenon, <1>3, <1>4, <1>5, <1>6

(* One turn of the loop of de_update_height.                               *)
LEMMA UpdateHeightInv ==
  ASSUME IInv, de_update_height
  PROVE  IInv'
<1> USE NodeFacts
<1>1. UNCHANGED <<te_root, nte, parent, sub>>
      /\ UNCHANGED <<nproc, len, bitstr, ptree, upd, dec, inc, rise, epoch_now, mounts, look>>
  BY Zenon DEF de_update_height
<1>2. Alloc' = Alloc /\ Live' = Live /\ Views' = Views /\ \A n : Leaf(n)' <=> Leaf(n)
  BY Zenon, <1>1, SameTree
<1>3. /\ hgt \in Live /\ hgt \in Node /\ ~Leaf(hgt) /\ inc = NULL
      /\ sub[hgt][0] \in Node /\ sub[hgt][1] \in Node
  BY SMTT(20) DEF IInv, LoopInv, TreeShape, de_update_height, TypeOK, Live, Alloc, NULL, Node, Ptr, Bit
<1>4. TypeOK'
  BY <1>1, <1>3 DEF IInv, TypeOK, de_update_height, mounts, Max2, height_next
<1>5. TreeShape' /\ LenInv' /\ DepthBound' /\ FreshInv'
  BY Zenon, <1>1, <1>2 DEF IInv, TreeShape, LenInv, DepthBound, FreshInv, SonSlot, getbit
<1>6. CountInv'
  BY <1>1, <1>2 DEF IInv, CountInv, Credit, Debt, ProcsAt
<1>7. ProcInv' /\ RiseInv' /\ LookInv'
  BY Zenon, <1>1, <1>2 DEF IInv, ProcInv, RiseInv, LookInv, mounts, de_update_height
<1>8. hgt' # NULL => hgt' \in Live /\ ~Leaf(hgt')
  <2> SUFFICES ASSUME hgt' # NULL PROVE hgt' \in Live /\ ~Leaf(hgt')
    BY Zenon
  <2>1. hgt' = parent[hgt] /\ hgt # te_root
    BY <1>3 DEF de_update_height, height_next, IInv, TreeShape, Live, Alloc, TypeOK, Ptr
  <2> QED
    BY Zenon, <2>1, <1>3, LiveFacts
<1>9. LoopInv'
  BY Zenon, <1>1, <1>2, <1>3, <1>8 DEF IInv, LoopInv
<1> QED
  BY Zenon, <1>4, <1>5, <1>6, <1>7, <1>9 DEF IInv

(* One turn of the loop of te_newproc.                                     *)
LEMMA CountUpInv ==
  ASSUME IInv, te_newproc
  PROVE  IInv'
<1> USE NodeFacts
<1>1. /\ UNCHANGED <<te_root, nte, parent, sub>>
      /\ UNCHANGED <<len, bitstr, ptree, upd, hgt, dec, rise, subheight, epoch_now, mounts, look>>
      /\ nproc' = [nproc EXCEPT ![inc] = @ + 1] /\ inc' = parent[inc]
  BY Zenon DEF te_newproc, te_up
<1>2. Alloc' = Alloc /\ Live' = Live /\ Views' = Views /\ \A n : Leaf(n)' <=> Leaf(n)
  BY Zenon, <1>1, SameTree
<1>3. inc \in Live /\ inc \in Node /\ upd = {} /\ hgt = NULL /\ dec = NULL
  BY Zenon, LiveFacts DEF te_newproc, IInv, LoopInv
<1>4. TypeOK'
  BY <1>1, <1>3 DEF IInv, TypeOK, mounts
<1>5. TreeShape' /\ LenInv' /\ DepthBound'
  BY Zenon, <1>1, <1>2 DEF IInv, TreeShape, LenInv, DepthBound, SonSlot, getbit
<1>6. FreshInv'
  BY SMTT(20), <1>1, <1>2, <1>3, LiveFacts DEF IInv, FreshInv, TypeOK
<1>7. ProcInv' /\ RiseInv'
  BY Zenon, <1>1, <1>2 DEF IInv, ProcInv, RiseInv, mounts
<1>8. LookInv'
  BY Zenon, <1>1, <1>3 DEF IInv, LookInv, mounts, te_newproc
<1>9. LoopInv'
  <2>1. inc # te_root => inc' \in Live
    BY Zenon, <1>1, <1>3, LiveFacts
  <2>2. inc = te_root => inc' = NULL
    BY Zenon, <1>1, <1>3, LiveFacts DEF IInv, TreeShape, Alloc, TypeOK, Ptr
  <2> QED
    BY Zenon, <2>1, <2>2, <1>1, <1>2, <1>3 DEF IInv, LoopInv
<1>10. CountInv'
  <2> SUFFICES ASSUME NEW n \in Live
      PROVE /\ Leaf(n) => nproc'[n] + Credit(n)'
                         = Cardinality(ProcsAt(n)) + (IF dec = n THEN 1 ELSE 0)
            /\ ~Leaf(n) => nproc'[n] + Credit(n)'
                         = nproc'[sub[n][0]] + nproc'[sub[n][1]] + Debt(n)
            /\ n # te_root => nproc'[n] >= 1
    BY SMTT(20), <1>1, <1>2 DEF CountInv, Debt, ProcsAt
  <2>0. n \in Node /\ nproc[n] \in Nat
    BY LiveFacts DEF IInv, TypeOK
  <2>1. n # te_root => nproc'[n] >= 1
    BY SMTT(20), <2>0, <1>1 DEF IInv, CountInv, TypeOK
  <2>2. ASSUME Leaf(n)
        PROVE  nproc'[n] + Credit(n)' = nproc[n] + Credit(n)
    <3>1. inc' # n
      BY SMTT(20), <2>2, <1>1, <1>3, LiveFacts DEF IInv, TreeShape, Alloc, TypeOK, Ptr
    <3> QED
      BY SMTT(20), <3>1, <1>1, <2>0 DEF Credit, IInv, TypeOK
  <2>3. ASSUME ~Leaf(n)
        PROVE  nproc'[n] + Credit(n)' = nproc'[sub[n][0]] + nproc'[sub[n][1]] + Debt(n)
    <3> DEFINE a == sub[n][0]
               b == sub[n][1]
    <3>1. /\ a \in Node /\ b \in Node /\ a # b /\ parent[a] = n /\ parent[b] = n
          /\ a # n /\ b # n /\ nproc[a] \in Nat /\ nproc[b] \in Nat
          /\ a \in Live \ {te_root} /\ b \in Live \ {te_root}
      <4>1. /\ a \in Live \ {te_root} /\ b \in Live \ {te_root}
            /\ a # b /\ parent[a] = n /\ parent[b] = n
        BY Zenon, <2>3, LiveFacts
      <4>2. a \in Node /\ b \in Node
        BY Zenon, <4>1, LiveFacts
      <4>3. len[a] >= len[n] + 1 /\ len[b] >= len[n] + 1
        BY Zenon, <4>1 DEF IInv, LenInv
      <4> QED
        BY <4>1, <4>2, <4>3, <2>0 DEF IInv, TypeOK
    <3>2. nproc[n] + Credit(n) = nproc[a] + nproc[b] + Debt(n) /\ Debt(n) = 0
      BY Zenon, <2>3, <1>3 DEF IInv, CountInv, Debt
    <3>3. inc' = n <=> inc \in {a, b}
      <4>1. inc' = n => inc # te_root
        <5>1. parent[inc] = NULL <=> inc = te_root
          BY Zenon, <1>3, LiveFacts
        <5>2. n # NULL /\ inc' = parent[inc]
          BY Zenon, <1>1, LiveFacts
        <5> QED
          BY Zenon, <5>1, <5>2
      <4>2. ASSUME inc' = n PROVE inc \in {a, b}
        <5>1. inc \in Live \ {te_root} /\ parent[inc] = n
          BY Zenon, <4>1, <4>2, <1>1, <1>3
        <5>2. SonSlot(inc) \in Bit /\ sub[n][SonSlot(inc)] = inc
          BY Zenon, <5>1, LiveFacts
        <5> QED
          BY Zenon, <5>2 DEF Bit
      <4> QED
        BY Zenon, <4>2, <3>1, <1>1
    <3> QED
      BY SMTT(20), <3>1, <3>2, <3>3, <1>1, <1>3, <2>0 DEF Credit, IInv, TypeOK
  <2> QED
    BY Zenon, <2>1, <2>2, <2>3 DEF IInv, CountInv
<1> QED
  BY Zenon, <1>4, <1>5, <1>6, <1>7, <1>8, <1>9, <1>10 DEF IInv

(* tst_delproc: a process leaves its view; te_delproc goes on.             *)
LEMMA DelprocInv ==
  ASSUME IInv, NEW p \in Proc, tst_delproc(p)
  PROVE  IInv'
<1> USE NodeFacts
<1>1. /\ ptree[p] \in Views /\ ptree[p] \in Live /\ Leaf(ptree[p]) /\ ptree[p] \in Node
  BY Zenon DEF IInv, TypeOK, ProcInv, tst_delproc, Views
<1>2. UNCHANGED <<te_root, nte, parent, sub>> /\ UNCHANGED <<nproc, len, bitstr, rise>>
  BY Zenon DEF tst_delproc, fields
<1>3. Alloc' = Alloc /\ Live' = Live /\ Views' = Views /\ \A n : Leaf(n)' <=> Leaf(n)
  BY Zenon, <1>2, SameTree
<1>4. TypeOK'
  BY Zenon, <1>1 DEF IInv, TypeOK, tst_delproc, fields, mounts
<1>5. TreeShape' /\ LenInv' /\ DepthBound' /\ FreshInv'
  BY Zenon, <1>2, <1>3 DEF IInv, TreeShape, LenInv, DepthBound, FreshInv, SonSlot, getbit
<1>6. ProcInv'
  BY Zenon, <1>1, <1>3 DEF IInv, ProcInv, tst_delproc, TypeOK
<1>7. LoopInv' /\ RiseInv' /\ LookInv'
  BY Zenon, <1>1, <1>2, <1>3 DEF IInv, LoopInv, RiseInv, LookInv, tst_delproc, Idle, fields, mounts
<1>8. CountInv'
  <2> SUFFICES ASSUME NEW n \in Live
      PROVE /\ Leaf(n) => nproc[n] + Credit(n)'
                         = Cardinality(ProcsAt(n)') + (IF dec' = n THEN 1 ELSE 0)
            /\ ~Leaf(n) => nproc[n] + Credit(n)'
                         = nproc[sub[n][0]] + nproc[sub[n][1]] + Debt(n)'
            /\ n # te_root => nproc[n] >= 1
    BY Zenon, <1>2, <1>3 DEF CountInv
  <2>1. dec' = ptree[p] /\ dec = NULL /\ inc = NULL /\ inc' = NULL /\ n # NULL
    BY DEF tst_delproc, Idle, Live, Alloc, NULL
  <2>2. Credit(n)' = 0 /\ Credit(n) = 0 /\ Debt(n) = 0 /\ (~Leaf(n) => Debt(n)' = 0)
    BY Zenon, <2>1, <1>1, <1>3 DEF Credit, Debt
  <2>3. CASE n = ptree[p]
    <3>1. ProcsAt(n)' = ProcsAt(n) \ {p} /\ p \in ProcsAt(n)
      BY Zenon, <2>3, <1>1 DEF tst_delproc, ProcsAt, IInv, TypeOK
    <3>2. IsFiniteSet(ProcsAt(n))
      BY Zenon, ProcAssumption, FS_Subset DEF ProcsAt
    <3>3. Cardinality(ProcsAt(n)') = Cardinality(ProcsAt(n)) - 1
      BY ZenonT(40), <3>1, <3>2, FS_RemoveElement
    <3> QED
      BY SMTT(20), <3>3, <3>2, FS_CardinalityType, <2>1, <2>2, <2>3, <1>1 DEF IInv, CountInv, TypeOK
  <2>4. CASE n # ptree[p]
    <3>1. ProcsAt(n)' = ProcsAt(n)
      BY Zenon, <2>4, <2>1 DEF tst_delproc, ProcsAt, IInv, TypeOK
    <3> QED
      BY SMTT(20), <3>1, <2>1, <2>2, <2>4 DEF IInv, CountInv, TypeOK
  <2> QED
    BY Zenon, <2>3, <2>4
<1> QED
  BY Zenon, <1>4, <1>5, <1>6, <1>7, <1>8 DEF IInv

(* One call of de_update_substr: a node gets its length again.             *)
LEMMA UpdateSubstrInv ==
  ASSUME IInv, de_update_substr
  PROVE  IInv'
<1> USE NodeFacts
<1>1. /\ UNCHANGED <<te_root, nte, parent, sub>>
      /\ UNCHANGED <<nproc, ptree, hgt, dec, inc, rise, subheight, epoch_now, mounts, look>>
  BY Zenon DEF de_update_substr
<1>2. Alloc' = Alloc /\ Live' = Live /\ Views' = Views /\ \A n : Leaf(n)' <=> Leaf(n)
  BY Zenon, <1>1, SameTree
<1>3. \A n \in upd : /\ n \in Live \ {te_root} /\ n \in Node
                     /\ parent[n] \in Live /\ parent[n] \in Node
                     /\ len[parent[n]] \in Index /\ len[parent[n]] \in Nat
                     /\ ChildBit(n) \in Bit /\ sub[parent[n]][ChildBit(n)] = n
                     /\ len[n] \in Nat /\ len[n] >= len[parent[n]] + 1
  <2> SUFFICES ASSUME NEW n \in upd
               PROVE  /\ n \in Live \ {te_root} /\ n \in Node
                      /\ parent[n] \in Live /\ parent[n] \in Node
                      /\ len[parent[n]] \in Index /\ len[parent[n]] \in Nat
                      /\ ChildBit(n) \in Bit /\ sub[parent[n]][ChildBit(n)] = n
                      /\ len[n] \in Nat /\ len[n] >= len[parent[n]] + 1
    BY Zenon
  <2>1. n \in Live \ {te_root}
    BY Zenon DEF IInv, LoopInv
  <2>2. n \in Node /\ parent[n] \in Live /\ parent[n] \in Node /\ ~Leaf(parent[n])
    BY Zenon, <2>1, LiveFacts
  <2>3. len[parent[n]] \in Nat /\ len[parent[n]] < MAXDEPTH /\ len[n] \in Nat
    BY Zenon, <2>2 DEF IInv, DepthBound, TypeOK
  <2>4. ChildBit(n) \in Bit /\ sub[parent[n]][ChildBit(n)] = n
    BY Zenon, <2>1, LiveFacts DEF ChildBit, Bit
  <2>5. len[n] >= len[parent[n]] + 1
    BY Zenon, <2>1 DEF IInv, LenInv
  <2> QED
    BY <2>1, <2>2, <2>3, <2>4, <2>5, MaxDepthAssumption DEF Index
<1>4. /\ len' \in [Node -> Nat] /\ bitstr' \in [Node -> [Index -> Bit]]
      /\ \A n \in Node : len'[n] <= len[n]
  BY <1>3 DEF de_update_substr, setbit, IInv, TypeOK
<1>5. \A n \in Live \ {te_root} : SonSlot(n)' \in Bit /\ sub[parent[n]][SonSlot(n)'] = n
  <2> SUFFICES ASSUME NEW n \in Live \ {te_root}
               PROVE  SonSlot(n)' \in Bit /\ sub[parent[n]][SonSlot(n)'] = n
    BY Zenon
  <2>0. n \in Node
    BY Zenon, LiveFacts
  <2>1. CASE n \in upd
    <3>1. len'[n] = len[parent[n]] + 1 /\ bitstr'[n] = [bitstr[n] EXCEPT ![len[parent[n]]] = ChildBit(n)]
      BY Zenon, <2>0, <2>1 DEF de_update_substr, setbit
    <3>2. len'[n] - 1 = len[parent[n]]
      BY SMTT(20), <3>1, <2>1, <1>3
    <3>3. SonSlot(n)' = ChildBit(n)
      BY SMTT(20), <3>1, <3>2, <2>0, <2>1, <1>3 DEF SonSlot, getbit, IInv, TypeOK
    <3> QED
      BY Zenon, <3>3, <2>1, <1>3
  <2>2. CASE n \notin upd
    <3>1. len'[n] = len[n] /\ bitstr'[n] = bitstr[n]
      BY Zenon, <2>0, <2>2 DEF de_update_substr
    <3> QED
      BY Zenon, <3>1, LiveFacts DEF SonSlot, getbit
  <2> QED
    BY Zenon, <2>1, <2>2
<1>6. LenInv'
  <2> SUFFICES ASSUME NEW n \in Live \ {te_root}
               PROVE  len'[n] >= len'[parent[n]] + 1
    BY Zenon, <1>1, <1>2 DEF LenInv
  <2>1. n \in Node /\ parent[n] \in Node /\ len[n] >= len[parent[n]] + 1
    BY Zenon, LiveFacts DEF IInv, LenInv
  <2>2. len'[n] = len[n] \/ len'[n] = len[parent[n]] + 1
    BY Zenon, <2>1 DEF de_update_substr
  <2>3. len'[parent[n]] <= len[parent[n]] /\ len'[parent[n]] \in Nat /\ len[parent[n]] \in Nat
        /\ len[n] \in Nat
    BY Zenon, <2>1, <1>4 DEF IInv, TypeOK
  <2> QED
    BY <2>1, <2>2, <2>3
<1>7. TypeOK'
  <2>1. upd' \in SUBSET Node
    BY <1>3 DEF de_update_substr, Kids, IInv, TypeOK
  <2> QED
    BY Zenon, <2>1, <1>1, <1>4 DEF IInv, TypeOK, mounts
<1>8. TreeShape'
  <2>1. \A n \in Live \ {te_root} : len'[n] > 0
    <3> SUFFICES ASSUME NEW n \in Live \ {te_root} PROVE len'[n] > 0
      BY Zenon
    <3>1. n \in Node /\ parent[n] \in Node
      BY Zenon, LiveFacts
    <3>2. len'[n] >= len'[parent[n]] + 1
      BY Zenon, <1>6, <1>1, <1>2 DEF LenInv
    <3> QED
      BY <3>1, <3>2, <1>4
  <2> QED
    BY Zenon, <2>1, <1>1, <1>2, <1>5 DEF IInv, TreeShape
<1>9. DepthBound'
  <2> SUFFICES ASSUME NEW n \in Live
               PROVE  len'[n] <= MAXDEPTH /\ (Leaf(n) \/ len'[n] < MAXDEPTH)
    BY Zenon, <1>2 DEF DepthBound
  <2>1. n \in Node /\ len[n] \in Nat /\ len'[n] \in Nat /\ len'[n] <= len[n]
    BY LiveFacts, <1>4 DEF IInv, TypeOK
  <2>2. len[n] <= MAXDEPTH /\ (Leaf(n) \/ len[n] < MAXDEPTH)
    BY Zenon DEF IInv, DepthBound
  <2> QED
    BY <2>1, <2>2, MaxDepthAssumption
<1>10. FreshInv'
  <2>1. \A n \in Node \ Alloc : len'[n] = len[n]
    BY Zenon, <1>3, LiveFacts DEF de_update_substr
  <2> QED
    BY Zenon, <2>1, <1>1, <1>2 DEF IInv, FreshInv
<1>11. CountInv'
  BY <1>1, <1>2 DEF IInv, CountInv, Credit, Debt, ProcsAt
<1>12. ProcInv' /\ RiseInv'
  BY Zenon, <1>1, <1>2 DEF IInv, ProcInv, RiseInv, mounts
<1>13. LookInv'
  BY Zenon, <1>1 DEF IInv, LookInv, mounts, de_update_substr
<1>14. LoopInv'
  <2>1. upd' \subseteq Live \ {te_root}
    <3>1. \A n \in upd : Kids(n) \subseteq Live \ {te_root}
      <4>1. ASSUME NEW n \in upd, ~Leaf(n) PROVE Kids(n) \subseteq Live \ {te_root}
        <5>1. sub[n][0] \in Live \ {te_root} /\ sub[n][1] \in Live \ {te_root}
          BY Zenon, <4>1, <1>3, LiveFacts
        <5> QED
          BY Zenon, <5>1 DEF Kids
      <4>2. ASSUME NEW n \in upd, Leaf(n) PROVE Kids(n) = {}
        BY Zenon, <4>2 DEF Kids, Leaf
      <4> QED
        BY Zenon, <4>1, <4>2
    <3>2. upd' = UNION {Kids(n) : n \in upd}
      BY Zenon DEF de_update_substr
    <3> QED
      BY Zenon, <3>1, <3>2
  <2>2. inc = NULL
    BY Zenon DEF de_update_substr, IInv, LoopInv
  <2> QED
    BY Zenon, <2>1, <2>2, <1>1, <1>2 DEF IInv, LoopInv
<1> QED
  BY Zenon, <1>6, <1>7, <1>8, <1>9, <1>10, <1>11, <1>12, <1>13, <1>14 DEF IInv

(* The children of an inner node: longer, and not empty.                   *)
LEMMA KidFacts ==
  ASSUME IInv, NEW n \in Live, ~Leaf(n)
  PROVE  /\ len[sub[n][0]] >= len[n] + 1 /\ len[sub[n][1]] >= len[n] + 1
         /\ len[n] \in Nat /\ len[sub[n][0]] \in Nat /\ len[sub[n][1]] \in Nat
         /\ nproc[sub[n][0]] \in Nat /\ nproc[sub[n][1]] \in Nat /\ nproc[n] \in Nat
         /\ nproc[sub[n][0]] >= 1 /\ nproc[sub[n][1]] >= 1
<1>1. /\ sub[n][0] \in Live \ {te_root} /\ sub[n][1] \in Live \ {te_root}
      /\ parent[sub[n][0]] = n /\ parent[sub[n][1]] = n
  BY Zenon, LiveFacts
<1>2. sub[n][0] \in Node /\ sub[n][1] \in Node /\ n \in Node
  BY Zenon, <1>1, LiveFacts
<1>3. /\ len[sub[n][0]] >= len[n] + 1 /\ len[sub[n][1]] >= len[n] + 1
      /\ nproc[sub[n][0]] >= 1 /\ nproc[sub[n][1]] >= 1
  BY Zenon, <1>1 DEF IInv, LenInv, CountInv
<1> QED
  BY Zenon, <1>2, <1>3 DEF IInv, TypeOK

(* CountInv, with the types of what it counts.                             *)
LEMMA CountFacts ==
  ASSUME IInv, NEW n \in Live
  PROVE  /\ nproc[n] \in Nat /\ Cardinality(ProcsAt(n)) \in Nat /\ IsFiniteSet(ProcsAt(n))
         /\ n # te_root => nproc[n] >= 1
         /\ Leaf(n) => nproc[n] + Credit(n)
                         = Cardinality(ProcsAt(n)) + (IF dec = n THEN 1 ELSE 0)
         /\ ~Leaf(n) => nproc[n] + Credit(n)
                         = nproc[sub[n][0]] + nproc[sub[n][1]] + Debt(n)
<1>1. nproc[n] \in Nat
  BY LiveFacts DEF IInv, TypeOK
<1>2. Cardinality(ProcsAt(n)) \in Nat /\ IsFiniteSet(ProcsAt(n))
  BY Zenon, ProcAssumption, FS_Subset, FS_CardinalityType DEF ProcsAt
<1> QED
  BY Zenon, <1>1, <1>2 DEF IInv, CountInv

(* A node is longer than its parent.                                       *)
LEMMA LenFacts ==
  ASSUME IInv
  PROVE  \A n \in Live : /\ len[n] \in Nat /\ parent[n] # n
                         /\ n # te_root => len[n] >= len[parent[n]] + 1 /\ len[parent[n]] \in Nat
<1> SUFFICES ASSUME NEW n \in Live
             PROVE  /\ len[n] \in Nat /\ parent[n] # n
                    /\ n # te_root => len[n] >= len[parent[n]] + 1 /\ len[parent[n]] \in Nat
  BY Zenon
<1>1. n \in Node /\ n # NULL /\ len[n] \in Nat
  BY Zenon, LiveFacts DEF IInv, TypeOK
<1>2. ASSUME n # te_root PROVE len[n] >= len[parent[n]] + 1 /\ len[parent[n]] \in Nat
  <2>1. parent[n] \in Live /\ parent[n] \in Node
    BY Zenon, <1>2, LiveFacts
  <2>2. len[parent[n]] \in Nat
    BY Zenon, <2>1 DEF IInv, TypeOK
  <2>3. len[n] >= len[parent[n]] + 1
    BY Zenon, <1>2 DEF IInv, LenInv
  <2> QED
    BY Zenon, <2>2, <2>3
<1>3. n = te_root => parent[n] # n
  BY Zenon, <1>1, LiveFacts
<1>4. ASSUME n # te_root PROVE parent[n] # n
  BY <1>1, <1>2, <1>4
<1> QED
  BY Zenon, <1>1, <1>2, <1>3, <1>4

(* Where te_delproc stands: on a node of the tree, or on the node it has   *)
(* just taken out, which then counts at least two processes.               *)
LEMMA DecFacts ==
  ASSUME IInv, dec # NULL
  PROVE  /\ dec \in Node /\ nproc[dec] \in Nat /\ nproc[dec] >= 1
         /\ inc = NULL /\ look = NoLook
         /\ nproc[dec] = 1 /\ parent[dec] # NULL => dec \in Live /\ Leaf(dec) /\ dec # te_root
         /\ dec \in Live /\ ~Leaf(dec) => nproc[dec] >= 3
<1> USE NodeFacts
<1>1. dec \in Node /\ nproc[dec] \in Nat /\ inc = NULL /\ look = NoLook
  BY Zenon DEF IInv, TypeOK, LoopInv, LookInv
<1>2. dec \in Live => Credit(dec) = 0 /\ Debt(dec) = 1
  BY Zenon, <1>1 DEF Credit, Debt
<1>3. ASSUME dec \in Live, ~Leaf(dec) PROVE nproc[dec] >= 3
  <2>1. nproc[dec] + Credit(dec) = nproc[sub[dec][0]] + nproc[sub[dec][1]] + Debt(dec)
    BY Zenon, <1>3 DEF IInv, CountInv
  <2> QED
    BY <2>1, <1>2, <1>3, KidFacts
<1>4. ASSUME dec \in Live, Leaf(dec) PROVE nproc[dec] >= 1
  <2>1. nproc[dec] + Credit(dec) = Cardinality(ProcsAt(dec)) + 1
    BY Zenon, <1>4 DEF IInv, CountInv
  <2>2. Cardinality(ProcsAt(dec)) \in Nat
    BY Zenon, ProcAssumption, FS_Subset, FS_CardinalityType DEF ProcsAt
  <2> QED
    BY <2>1, <2>2, <1>1, <1>2, <1>4
<1>5. dec \notin Live => nproc[dec] >= 2
  BY Zenon DEF IInv, LoopInv
<1>6. dec \in Live /\ parent[dec] # NULL => dec # te_root
  BY Zenon, LiveFacts
<1> QED
  BY SMTT(20), <1>1, <1>3, <1>4, <1>5, <1>6

(* One turn of te_delproc that takes no node out.                          *)
LEMMA DecStepInv ==
  ASSUME IInv, te_delproc, ~(nproc[dec] = 1 /\ parent[dec] # NULL)
  PROVE  IInv'
<1> USE NodeFacts
<1>1. /\ UNCHANGED <<te_root, nte, parent, sub>>
      /\ UNCHANGED <<len, bitstr, ptree, upd, hgt, inc, rise, subheight, epoch_now, mounts, look>>
      /\ nproc' = [nproc EXCEPT ![dec] = @ - 1] /\ dec' = parent[dec] /\ dec # NULL
  BY Zenon DEF te_delproc, del_next
<1>2. Alloc' = Alloc /\ Live' = Live /\ Views' = Views /\ \A n : Leaf(n)' <=> Leaf(n)
  BY Zenon, <1>1, SameTree
<1>3. /\ dec \in Node /\ nproc[dec] \in Nat /\ nproc[dec] >= 1 /\ inc = NULL /\ look = NoLook
      /\ (dec \in Live /\ ~Leaf(dec) => nproc[dec] >= 3)
  BY Zenon, <1>1, DecFacts
<1>4. dec \in Live => dec' \in Live \cup {NULL}
  BY Zenon, <1>1, LiveFacts
<1>5. dec \notin Live => dec' \in Live \cup {NULL}
  BY Zenon, <1>1 DEF IInv, LoopInv
<1>6. TypeOK'
  BY <1>1, <1>3 DEF IInv, TypeOK, mounts
<1>7. TreeShape' /\ LenInv' /\ DepthBound'
  BY Zenon, <1>1, <1>2 DEF IInv, TreeShape, LenInv, DepthBound, SonSlot, getbit
<1>8. FreshInv'
  <2>1. dec \in Alloc
    BY Zenon, <1>1, LiveFacts DEF IInv, LoopInv
  <2> QED
    BY Zenon, <2>1, <1>1, <1>2, <1>3 DEF IInv, FreshInv, TypeOK
<1>9. ProcInv' /\ RiseInv' /\ LookInv'
  BY Zenon, <1>1, <1>2, <1>3 DEF IInv, ProcInv, RiseInv, LookInv, mounts
<1>10. LoopInv'
  BY Zenon, <1>1, <1>2, <1>3, <1>4, <1>5 DEF IInv, LoopInv
<1>11. CountInv'
  <2> SUFFICES ASSUME NEW n \in Live
      PROVE /\ Leaf(n) => nproc'[n] + Credit(n)'
                         = Cardinality(ProcsAt(n)) + (IF dec' = n THEN 1 ELSE 0)
            /\ ~Leaf(n) => nproc'[n] + Credit(n)'
                         = nproc'[sub[n][0]] + nproc'[sub[n][1]] + Debt(n)'
            /\ n # te_root => nproc'[n] >= 1
    BY Zenon, <1>1, <1>2 DEF CountInv, ProcsAt
  <2>0. /\ n \in Node /\ n # NULL /\ nproc[n] \in Nat /\ Credit(n) = 0 /\ Credit(n)' = 0
        /\ Debt(n)' = (IF dec' = n THEN 1 ELSE 0)
    <3>1. n \in Node /\ n # NULL /\ nproc[n] \in Nat
      BY Zenon, LiveFacts, CountFacts
    <3>2. Credit(n) = 0 /\ Credit(n)' = 0
      BY Zenon, <3>1, <1>1, <1>3 DEF Credit
    <3>3. dec' \in Live' \cup {NULL}
      BY Zenon, <1>2, <1>4, <1>5
    <3> QED
      BY Zenon, <3>1, <3>2, <3>3 DEF Debt
  <2>1. n # te_root => nproc'[n] >= 1
    <3>1. n # te_root => nproc[n] >= 1 /\ parent[n] # NULL
      BY Zenon, LiveFacts DEF IInv, CountInv
    <3> QED
      BY SMTT(20), <3>1, <2>0, <1>1, <1>3 DEF IInv, TypeOK
  <2>2. ASSUME Leaf(n)
        PROVE  nproc'[n] = Cardinality(ProcsAt(n)) + (IF dec' = n THEN 1 ELSE 0)
    <3>1. dec' # n
      <4>1. dec \in Live => dec' # n
        BY <2>2, <2>0, <1>1, LiveFacts
      <4>2. dec \notin Live => dec' # n
        BY Zenon, <2>2, <2>0, <1>1 DEF IInv, LoopInv
      <4> QED
        BY Zenon, <4>1, <4>2
    <3>2. nproc[n] = Cardinality(ProcsAt(n)) + (IF dec = n THEN 1 ELSE 0)
      <4>1. nproc[n] + Credit(n) = Cardinality(ProcsAt(n)) + (IF dec = n THEN 1 ELSE 0)
        BY Zenon, <2>2, CountFacts
      <4> QED
        BY <4>1, <2>0
    <3>3. Cardinality(ProcsAt(n)) \in Nat
      BY Zenon, ProcAssumption, FS_Subset, FS_CardinalityType DEF ProcsAt
    <3> QED
      BY SMTT(20), <3>1, <3>2, <3>3, <2>0, <1>1, <1>3 DEF IInv, TypeOK
  <2>3. ASSUME ~Leaf(n)
        PROVE  nproc'[n] = nproc'[sub[n][0]] + nproc'[sub[n][1]] + (IF dec' = n THEN 1 ELSE 0)
    <3> DEFINE a == sub[n][0]
               b == sub[n][1]
    <3>1. /\ a \in Live \ {te_root} /\ b \in Live \ {te_root}
          /\ a # b /\ parent[a] = n /\ parent[b] = n /\ a \in Node /\ b \in Node
      BY Zenon, <2>3, LiveFacts
    <3>2. nproc[a] \in Nat /\ nproc[b] \in Nat /\ a # n /\ b # n
      BY <2>3, KidFacts
    <3>3. nproc[n] = nproc[a] + nproc[b] + Debt(n)
      <4>1. nproc[n] + Credit(n) = nproc[a] + nproc[b] + Debt(n)
        BY Zenon, <2>3, CountFacts
      <4> QED
        BY <4>1, <2>0
    <3>4. CASE dec = n
      <4>1. Debt(n) = 1 /\ dec' # n
        BY Zenon, <3>4, <1>1, <2>0, LenFacts DEF Debt
      <4> QED
        BY SMTT(20), <4>1, <3>1, <3>2, <3>3, <3>4, <1>1, <2>0 DEF IInv, TypeOK
    <3>5. CASE dec \in {a, b}
      <4>1. Debt(n) = 0 /\ dec' = n
        BY Zenon, <3>5, <3>1, <3>2, <1>1 DEF Debt
      <4> QED
        <5>1. nproc \in [Node -> Nat]
          BY Zenon DEF IInv, TypeOK
        <5>2. nproc'[n] = nproc[n] /\ nproc'[a] + nproc'[b] = nproc[a] + nproc[b] - 1
          <6>1. \A m \in Node \ {dec} : nproc'[m] = nproc[m]
            BY Zenon, <5>1, <1>1
          <6>2. nproc'[n] = nproc[n]
            BY Zenon, <6>1, <3>2, <3>5, <2>0
          <6>3. nproc'[dec] = nproc[dec] - 1
            BY Zenon, <5>1, <1>1, <3>1, <3>5
          <6>4. CASE dec = a
            <7>1. nproc'[b] = nproc[b] /\ nproc'[a] = nproc[a] - 1
              BY Zenon, <6>1, <6>3, <6>4, <3>1
            <7> QED
              BY <7>1, <6>2, <3>2
          <6>5. CASE dec = b
            <7>1. nproc'[a] = nproc[a] /\ nproc'[b] = nproc[b] - 1
              BY Zenon, <6>1, <6>3, <6>5, <3>1
            <7> QED
              BY Zenon, <7>1, <6>2, <3>2
          <6> QED
            BY Zenon, <6>4, <6>5, <3>5
        <5> QED
          <6>1. nproc[n] = nproc[a] + nproc[b]
            BY SMTT(20), <3>2, <3>3, <4>1
          <6>2. nproc[n] = nproc'[a] + nproc'[b] + 1
            BY <5>2, <6>1, <3>2
          <6> QED
            BY Zenon, <5>2, <6>2, <4>1
    <3>6. CASE dec \notin {n, a, b}
      <4>1. dec \in Live => dec' # n /\ Debt(n) = 0
        BY Zenon, <3>6, <2>0, <1>1, LiveFacts DEF Debt, Bit
      <4>2. dec \notin Live => Debt(n) = (IF dec' = n THEN 1 ELSE 0)
        BY Zenon, <3>6, <1>1 DEF Debt
      <4> QED
        BY Zenon, <4>1, <4>2, <3>1, <3>2, <3>3, <3>6, <1>1, <1>3, <2>0 DEF IInv, TypeOK
    <3> QED
      BY Zenon, <3>4, <3>5, <3>6
  <2> QED
    BY SMTT(20), <2>0, <2>1, <2>2, <2>3, <1>1 DEF IInv, TypeOK
<1> QED
  BY Zenon, <1>6, <1>7, <1>8, <1>9, <1>10, <1>11 DEF IInv
=============================================================================
