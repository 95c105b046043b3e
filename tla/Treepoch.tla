------------------------------ MODULE Treepoch ------------------------------
(***************************************************************************)
(* The tree of epochs of xmview (xmview/treepoch.c).                       *)
(*                                                                         *)
(* Every process runs in a view; a view is a leaf of a binary tree.  When  *)
(* a process asks for a view of its own (VIEWOS_RECURSIVE) its leaf is     *)
(* replaced by an internal node, par_te, whose 0-child is the old view and *)
(* whose 1-child is the new one.  When the last process of a view ends,    *)
(* the leaf and its parent are taken out and the sibling takes the place   *)
(* of the parent.  Nodes are never freed ("lazy garbage collection").      *)
(*                                                                         *)
(* A mounted service carries a timestamp <treepoch, epoch>; each search    *)
(* (tst_matchingepoch) first moves the timestamp to a node that is still   *)
(* meaningful and then compares the bit string of that node with the bit   *)
(* string of the searching process.                                        *)
(*                                                                         *)
(* Nodes are numbered in order of allocation and NULL is 0.  The loops and *)
(* the tail recursions of the C code (te_newproc, te_delproc,              *)
(* de_update_height, the two while loops of tst_matchingepoch) take one    *)
(* step per iteration: inc, dec, hgt and look hold the node or the search  *)
(* the loop is at.  de_update_substr visits its subtree level by level:    *)
(* upd is the frontier.  An interface function starts only when Idle,      *)
(* because xmview runs it to the end before it serves another event.       *)
(***************************************************************************)
EXTENDS Integers, FiniteSets

CONSTANTS
    Proc,       \* the processes
    Svc,        \* the mounted services (hash table elements)
    MAXDEPTH,   \* sizeof(long) * 8 in the code
    MaxNode,    \* bound: treepoch nodes ever allocated
    MaxEpoch    \* bound: value of epoch_now

ASSUME MaxDepthAssumption == MAXDEPTH \in Nat \ {0}
ASSUME MaxNodeAssumption == MaxNode \in Nat \ {0}
ASSUME MaxEpochAssumption == MaxEpoch \in Nat
ASSUME ProcAssumption == IsFiniteSet(Proc)

VARIABLES
    te_root, nte,                              \* the root, nodes allocated
    parent, sub, rise, nproc, subheight, len, bitstr,  \* struct treepoch
    epoch_now,
    ptree,                                     \* tst.treepoch of each pcb
    svc, sepoch,                               \* tst of each mounted service
    upd, hgt, dec, inc, look,                  \* loops in progress
    sees                                       \* history: views entitled to a service

fields == <<parent, sub, rise, nproc, subheight, len, bitstr>>
loops == <<upd, hgt, dec, inc, look>>
mounts == <<svc, sepoch, sees>>
vars == <<te_root, nte, fields, epoch_now, ptree, mounts, loops>>

NULL == 0
Node == 1 .. MaxNode
Ptr == 0 .. MaxNode
Bit == {0, 1}
Index == 0 .. MAXDEPTH - 1
Alloc == 1 .. nte

NoLook == [svc |-> NULL, proc |-> NULL, phase |-> "none"]

Idle == upd = {} /\ hgt = NULL /\ dec = NULL /\ inc = NULL /\ look = NoLook

(***************************************************************************)
(* Bit strings.  The operations on machine words are the subject of module *)
(* BitStr; here a bit string is what the interface of getbit, setbit and   *)
(* diffbitstr says it is.                                                  *)
(***************************************************************************)
getbit(v, b) == v[b]

setbit(v, b, val) == [v EXCEPT ![b] = val]

diffbitstr(a, b, n) == \E i \in 0 .. n - 1 : a[i] # b[i]

Max2(a, b) == IF a > b THEN a ELSE b

Kids(n) == {sub[n][0], sub[n][1]} \ {NULL}

(* The pieces of the operations that are most easily got wrong, each after *)
(* the slip (suffix _slip) that the mutation runs put in its place.        *)

te_up_slip(n) == NULL
(* te_newproc(node->parent)                                                *)
te_up(n) == parent[n]

del_next_slip(n) == IF nproc[n] = 1 /\ parent[n] # NULL
                    THEN CHOOSE k \in Kids(parent[n]) : k # n ELSE parent[n]
(* te_delproc goes on with the parent that node had on entry               *)
del_next(n) == parent[n]

SonSlot_slip(n) == 0
(* the son pointer of the grandparent that leads to n                      *)
SonSlot(n) == getbit(bitstr[n], len[n] - 1)

SurvivorRise_slip(other, par) == rise[other]
(* the new parent has the timestamp of the old parent                      *)
SurvivorRise(other, par) == rise[par]

height_next_slip(n, h) == NULL
height_next_stuck(n, h) == IF subheight[n] # h THEN parent[n] ELSE n
(* de_update_height goes on towards the root only if the height changed    *)
height_next(n, h) == IF subheight[n] # h THEN parent[n] ELSE NULL

(* from the node of a view that ended, towards the view that replaced it   *)
dead_next(t) == parent[t]

CanFork_slip(t) == nproc[t] # 1
(* no fork for a process alone in its view or at the maximal depth         *)
CanFork(t) == nproc[t] # 1 /\ subheight[t] + len[t] < MAXDEPTH

OldRise_slip(t) == rise[t]
(* the forked view starts a new interval of history                        *)
OldRise(t) == epoch_now

Init ==
    /\ te_root = NULL /\ nte = 0 /\ epoch_now = 2
    /\ parent = [n \in Node |-> NULL]
    /\ sub = [n \in Node |-> [b \in Bit |-> NULL]]
    /\ rise = [n \in Node |-> 0]
    /\ nproc = [n \in Node |-> 0]
    /\ subheight = [n \in Node |-> 0]
    /\ len = [n \in Node |-> 0]
    /\ bitstr = [n \in Node |-> [i \in Index |-> 0]]
    /\ ptree = [p \in Proc |-> NULL]
    /\ svc = [s \in Svc |-> NULL]
    /\ sepoch = [s \in Svc |-> 0]
    /\ sees = [s \in Svc |-> {}]
    /\ upd = {} /\ hgt = NULL /\ dec = NULL /\ inc = NULL /\ look = NoLook

-----------------------------------------------------------------------------
(* pcb_plus of the root process: tst_newfork(NULL) makes the first node,   *)
(* tst_newproc then counts the process in it.                              *)
root_start(p) ==
    /\ Idle /\ te_root = NULL /\ nte < MaxNode /\ epoch_now < MaxEpoch
    /\ nte' = nte + 1
    /\ te_root' = nte + 1
    /\ rise' = [rise EXCEPT ![nte + 1] = epoch_now]
    /\ epoch_now' = epoch_now + 1
    /\ ptree' = [ptree EXCEPT ![p] = nte + 1]
    /\ inc' = nte + 1
    /\ UNCHANGED <<parent, sub, nproc, subheight, len, bitstr, mounts,
                   upd, hgt, dec, look>>

(* pcb_plus of any other process: the child q inherits the view of p.      *)
tst_newproc(p, q) ==
    /\ Idle /\ ptree[p] # NULL /\ ptree[q] = NULL
    /\ ptree' = [ptree EXCEPT ![q] = ptree[p]]
    /\ inc' = ptree[p]
    /\ UNCHANGED <<te_root, nte, fields, epoch_now, mounts, upd, hgt, dec, look>>

te_newproc ==
    /\ inc # NULL
    /\ nproc' = [nproc EXCEPT ![inc] = @ + 1]
    /\ inc' = te_up(inc)
    /\ UNCHANGED <<te_root, nte, parent, sub, rise, subheight, len, bitstr,
                   epoch_now, ptree, mounts, upd, hgt, dec, look>>

(* pcb_minus                                                               *)
tst_delproc(p) ==
    /\ Idle /\ ptree[p] # NULL
    /\ ptree' = [ptree EXCEPT ![p] = NULL]
    /\ dec' = ptree[p]
    /\ UNCHANGED <<te_root, nte, fields, epoch_now, mounts, upd, hgt, inc, look>>

(* The other child of node's parent takes the parent's place in the tree.  *)
(* node and the parent keep their memory; node->parent leads to the        *)
(* survivor and the parent keeps its own parent.                           *)
Collapse(node) ==
    LET par   == parent[node]
        other == IF node = sub[par][0] THEN sub[par][1] ELSE sub[par][0]
        gp    == parent[par]
    IN  /\ parent' = [parent EXCEPT ![other] = gp, ![node] = other]
        /\ rise' = [rise EXCEPT ![other] = SurvivorRise(other, par)]
        /\ te_root' = IF gp = NULL THEN other ELSE te_root
        /\ sub' = IF gp = NULL THEN sub
                  ELSE [sub EXCEPT ![gp][SonSlot(par)] = other]
        /\ len' = [len EXCEPT ![other] = len[par]]
        /\ bitstr' = [bitstr EXCEPT ![other] = bitstr[par]]
        /\ upd' = Kids(other)
        /\ hgt' = gp

(* One level of te_delproc, which then goes on with the parent node had on *)
(* entry, even if that parent has just been taken out of the tree.         *)
te_delproc ==
    /\ dec # NULL /\ upd = {} /\ hgt = NULL
    /\ nproc' = [nproc EXCEPT ![dec] = @ - 1]
    /\ IF nproc[dec] = 1 /\ parent[dec] # NULL
       THEN Collapse(dec)
       ELSE UNCHANGED <<te_root, parent, sub, rise, len, bitstr, upd, hgt>>
    /\ dec' = del_next(dec)
    /\ UNCHANGED <<nte, subheight, epoch_now, ptree, mounts, inc, look>>

(* The bit of a node is its place under its parent.  Only that bit and the *)
(* length are written: the bits of the levels above are left as they are.  *)
ChildBit(n) == IF sub[parent[n]][0] = n THEN 0 ELSE 1

de_update_substr ==
    /\ upd # {}
    /\ len' = [n \in Node |-> IF n \in upd THEN len[parent[n]] + 1 ELSE len[n]]
    /\ bitstr' = [n \in Node |->
                    IF n \in upd
                    THEN setbit(bitstr[n], len[parent[n]], ChildBit(n))
                    ELSE bitstr[n]]
    /\ upd' = UNION {Kids(n) : n \in upd}
    /\ UNCHANGED <<te_root, nte, parent, sub, rise, nproc, subheight,
                   epoch_now, ptree, mounts, hgt, dec, inc, look>>

de_update_height ==
    /\ hgt # NULL /\ upd = {}
    /\ LET h == 1 + Max2(subheight[sub[hgt][0]], subheight[sub[hgt][1]])
       IN  /\ subheight' = [subheight EXCEPT ![hgt] = h]
           /\ hgt' = height_next(hgt, h)
    /\ UNCHANGED <<te_root, nte, parent, sub, rise, nproc, len, bitstr,
                   epoch_now, ptree, mounts, upd, dec, inc, look>>

(* pcb_newfork: a view of its own for p.  A process alone in its view, or  *)
(* a view at the maximal depth, keeps its timestamp (no step).  The first  *)
(* level of the two de_update_substr calls, on old_te and new_te, is part  *)
(* of this step.                                                           *)
tst_newfork(p) ==
    LET old_te == ptree[p]
        new_te == nte + 1
        par_te == nte + 2
        gp     == parent[old_te]
        depth  == len[old_te]
    IN  /\ Idle /\ old_te # NULL
        /\ CanFork(old_te)
        /\ nte + 2 <= MaxNode /\ epoch_now < MaxEpoch
        /\ nte' = nte + 2
        /\ epoch_now' = epoch_now + 1
        /\ rise' = [rise EXCEPT ![par_te] = rise[old_te],
                                ![old_te] = OldRise(old_te),
                                ![new_te] = epoch_now]
        /\ nproc' = [nproc EXCEPT ![par_te] = nproc[old_te],
                                  ![old_te] = @ - 1, ![new_te] = 1]
        /\ parent' = [parent EXCEPT ![par_te] = gp,
                                    ![old_te] = par_te, ![new_te] = par_te]
        /\ sub' = [n \in Node |->
                     IF n = par_te THEN [b \in Bit |-> IF b = 0 THEN old_te ELSE new_te]
                     ELSE IF n = gp
                     THEN [sub[gp] EXCEPT ![SonSlot(old_te)] = par_te]
                     ELSE sub[n]]
        /\ te_root' = IF gp = NULL THEN par_te ELSE te_root
        /\ len' = [len EXCEPT ![par_te] = depth,
                              ![old_te] = depth + 1, ![new_te] = depth + 1]
        /\ bitstr' = [bitstr EXCEPT ![par_te] = bitstr[old_te],
                                    ![old_te] = setbit(bitstr[old_te], depth, 0),
                                    ![new_te] = setbit(bitstr[old_te], depth, 1)]
        /\ subheight' = [subheight EXCEPT ![new_te] = 0,
                                          ![par_te] = subheight[old_te] + 1]
        /\ upd' = Kids(old_te)
        /\ hgt' = gp
        /\ ptree' = [ptree EXCEPT ![p] = new_te]
        /\ sees' = [s \in Svc |-> IF old_te \in sees[s] THEN sees[s] \cup {new_te}
                                  ELSE sees[s]]
        /\ UNCHANGED <<svc, sepoch, dec, inc, look>>

-----------------------------------------------------------------------------
(* internal_ht_tab_add: p mounts service s; tst_timestamp stamps it.       *)
tst_timestamp(s, p) ==
    /\ Idle /\ ptree[p] # NULL /\ svc[s] = NULL /\ epoch_now < MaxEpoch
    /\ svc' = [svc EXCEPT ![s] = ptree[p]]
    /\ sepoch' = [sepoch EXCEPT ![s] = epoch_now]
    /\ sees' = [sees EXCEPT ![s] = {ptree[p]}]
    /\ epoch_now' = epoch_now + 1
    /\ UNCHANGED <<te_root, nte, fields, ptree, loops>>

(* ht_tab_del: the element goes away with its timestamp.                   *)
ht_del(s) ==
    /\ Idle /\ svc[s] # NULL
    /\ svc' = [svc EXCEPT ![s] = NULL]
    /\ sepoch' = [sepoch EXCEPT ![s] = 0]
    /\ sees' = [sees EXCEPT ![s] = {}]
    /\ UNCHANGED <<te_root, nte, fields, epoch_now, ptree, loops>>

(* tst_matchingepoch(&s->tst) in a system call of p, or where um_x_gettst  *)
(* has no process to give: p is NULL.                                      *)
match_start(s, p) ==
    /\ Idle /\ svc[s] # NULL /\ (p # NULL => ptree[p] # NULL)
    /\ look' = [svc |-> s, proc |-> p, phase |-> "dead"]
    /\ UNCHANGED <<te_root, nte, fields, epoch_now, ptree, mounts, upd, hgt, dec, inc>>

(* first loop: leave the nodes of the views that ended                     *)
match_dead ==
    /\ look.phase = "dead"
    /\ LET s == look.svc
           t == svc[s]
       IN  IF parent[t] # NULL /\ nproc[t] = 0
           THEN svc' = [svc EXCEPT ![s] = dead_next(t)] /\ look' = look
           ELSE svc' = svc /\ look' = [look EXCEPT !.phase = "rise"]
    /\ UNCHANGED <<te_root, nte, fields, epoch_now, ptree, sepoch, sees, upd, hgt, dec, inc>>

(* second loop: go up to the node that was alive when s was mounted        *)
match_rise ==
    /\ look.phase = "rise"
    /\ LET s == look.svc
           t == svc[s]
       IN  IF sepoch[s] < rise[t]
           THEN svc' = [svc EXCEPT ![s] = parent[t]] /\ look' = look
           ELSE svc' = svc /\ look' = [look EXCEPT !.phase = "done"]
    /\ UNCHANGED <<te_root, nte, fields, epoch_now, ptree, sepoch, sees, upd, hgt, dec, inc>>

(* The verdict, once both loops are over.  tst.epoch of the process is     *)
(* get_epoch(), set when the system call was entered.  Without a process   *)
(* everything matches, with one that is in no view (an error) nothing.     *)
matchingepoch(s, p) ==
    LET t  == svc[s]
        pt == ptree[p]
    IN  p # NULL => /\ pt # NULL
                    /\ len[t] <= len[pt]
                    /\ ~ diffbitstr(bitstr[t], bitstr[pt], len[t])
                    /\ sepoch[s] < epoch_now

match_return ==
    /\ look.phase = "done"
    /\ look' = NoLook
    /\ UNCHANGED <<te_root, nte, fields, epoch_now, ptree, mounts, upd, hgt, dec, inc>>

-----------------------------------------------------------------------------
te_sameview(t1, t2) ==
    len[t1] = len[t2] /\ ~ diffbitstr(bitstr[t1], bitstr[t2], len[t1])

te_sameview_or_next(t1, t2) == ~ diffbitstr(bitstr[t1], bitstr[t2], len[t1])

LoopStep == \/ te_newproc \/ te_delproc \/ de_update_substr \/ de_update_height
            \/ match_dead \/ match_rise \/ match_return

Next == \/ LoopStep
        \/ \E p \in Proc : root_start(p) \/ tst_delproc(p) \/ tst_newfork(p)
        \/ \E p, q \in Proc : tst_newproc(p, q)
        \/ \E s \in Svc : ht_del(s)
        \/ \E s \in Svc, p \in Proc : tst_timestamp(s, p)
        \/ \E s \in Svc, p \in Proc \cup {NULL} : match_start(s, p)

Spec == Init /\ [][Next]_vars

(* A loop of the C code that can go on goes on.                            *)
FairSpec == Spec /\ WF_vars(LoopStep)
-----------------------------------------------------------------------------
(* Properties *)

TypeOK ==
    /\ te_root \in Ptr /\ nte \in Ptr /\ epoch_now \in Nat
    /\ parent \in [Node -> Ptr]
    /\ sub \in [Node -> [Bit -> Ptr]]
    /\ rise \in [Node -> Nat]
    /\ nproc \in [Node -> Nat]
    /\ subheight \in [Node -> Nat]
    /\ len \in [Node -> Nat]
    /\ bitstr \in [Node -> [Index -> Bit]]
    /\ ptree \in [Proc -> Ptr]
    /\ svc \in [Svc -> Ptr]
    /\ sepoch \in [Svc -> Nat]
    /\ sees \in [Svc -> SUBSET Node]
    /\ upd \in SUBSET Node
    /\ hgt \in Ptr /\ dec \in Ptr /\ inc \in Ptr
    /\ look \in [svc : Svc \cup {NULL}, proc : Proc \cup {NULL},
                 phase : {"none", "dead", "rise", "done"}]

(* A node is in the tree when it is the root or when its parent points     *)
(* back at it.                                                             *)
Linked(n) == n = te_root \/ (parent[n] # NULL /\ \E b \in Bit : sub[parent[n]][b] = n)
Live == {n \in Alloc : Linked(n)}
Leaf(n) == sub[n][0] = NULL /\ sub[n][1] = NULL
Views == {n \in Live : Leaf(n)}
ProcsAt(n) == {p \in Proc : ptree[p] = n}

(* treepoch.c:237 "internal nodes have always two branches": at every      *)
(* moment the nodes in use form a full binary tree, parent and son         *)
(* pointers agree and the last bit of a node tells which son it is.        *)
TreeShape ==
    /\ nte > 0 => te_root \in Live /\ parent[te_root] = NULL
    /\ \A n \in Live \ {te_root} :
          parent[n] \in Live /\ len[n] > 0 /\ sub[parent[n]][SonSlot(n)] = n
    /\ \A n \in Live : Leaf(n) \/ (/\ sub[n][0] # sub[n][1]
                                  /\ \A b \in Bit : /\ sub[n][b] \in Live
                                                    /\ parent[sub[n][b]] = n)

(* treepoch.c:50 "Processes are always assigned to the leaves", and every  *)
(* leaf but a lone root has a process: a view ends with its last process.  *)
ProcsAtLeaves ==
    Idle => /\ \A p \in Proc : ptree[p] # NULL => ptree[p] \in Views
            /\ \A n \in Views \ {te_root} : ProcsAt(n) # {}

(* nproc is "number of processes in this node": once te_newproc or         *)
(* te_delproc has reached the root, a leaf counts its processes and an     *)
(* inner node those of its two branches.                                   *)
NprocCounts ==
    Idle => \A n \in Live :
        nproc[n] = IF Leaf(n) THEN Cardinality(ProcsAt(n))
                   ELSE nproc[sub[n][0]] + nproc[sub[n][1]]

(* te_delproc takes out a leaf of the tree, never an inner node or a node  *)
(* that it has already taken out.                                          *)
CollapseOnlyLeaf ==
    dec # NULL /\ nproc[dec] = 1 /\ parent[dec] # NULL => dec \in Views

(* len is the "distance to the root" and subheight the "height of the      *)
(* subtree rooted here" although both are kept up to date incrementally,   *)
(* len downwards and subheight upwards with an early stop.                 *)
DepthAndHeight ==
    Idle => \A n \in Live :
        /\ len[n] = IF n = te_root THEN 0 ELSE len[parent[n]] + 1
        /\ subheight[n] = IF Leaf(n) THEN 0
                          ELSE 1 + Max2(subheight[sub[n][0]], subheight[sub[n][1]])

(* No node lies deeper than the bit string has bits, so that setbit and    *)
(* getbit stay within it.                                                  *)
DepthBound == \A n \in Live : len[n] <= MAXDEPTH /\ (Leaf(n) \/ len[n] < MAXDEPTH)

(* tst_matchingepoch never runs past a node without parent: the second     *)
(* loop does not test for NULL.                                            *)
MatchStaysInTree ==
    look.phase \in {"dead", "rise", "done"} => svc[look.svc] # NULL

(* While no view has ended, a search finds exactly the services mounted in *)
(* the view of the process or in a view it was forked from, before the     *)
(* fork.                                                                   *)
VisibleWhileViewsLast ==
    look.phase = "done" /\ look.proc # NULL /\ Live = Alloc =>
        (matchingepoch(look.svc, look.proc) <=> ptree[look.proc] \in sees[look.svc])

(***************************************************************************)
(* The inductive invariant: what also holds in the middle of the loops.    *)
(***************************************************************************)

(* a decrement (increment) of the branches of n that has not reached n yet *)
Debt(n) == IF dec # NULL /\ (dec = n \/ (dec \notin Live /\ parent[dec] = n))
           THEN 1 ELSE 0
Credit(n) == IF inc = n THEN 1 ELSE 0

CountInv ==
    \A n \in Live :
        /\ Leaf(n) => nproc[n] + Credit(n)
                         = Cardinality(ProcsAt(n)) + (IF dec = n THEN 1 ELSE 0)
        /\ ~Leaf(n) => nproc[n] + Credit(n)
                         = nproc[sub[n][0]] + nproc[sub[n][1]] + Debt(n)
        /\ n # te_root => nproc[n] >= 1

LenInv == \A n \in Live \ {te_root} : len[n] >= len[parent[n]] + 1

FreshInv ==
    /\ te_root = NULL <=> nte = 0
    /\ \A n \in Node : parent[n] <= nte
    /\ \A n \in Node \ Alloc : Leaf(n) /\ parent[n] = NULL /\ nproc[n] = 0 /\ len[n] = 0

ProcInv == \A p \in Proc : ptree[p] # NULL => ptree[p] \in Views

LoopInv ==
    /\ inc # NULL => inc \in Live /\ upd = {} /\ hgt = NULL /\ dec = NULL
    /\ hgt # NULL => hgt \in Live /\ ~Leaf(hgt)
    /\ upd \subseteq Live \ {te_root}
    /\ dec # NULL => \/ dec \in Live
                     \/ /\ dec \in Alloc /\ nproc[dec] >= 2
                        /\ parent[dec] # NULL => parent[dec] \in Live /\ ~Leaf(parent[dec])

(* a node without parent is as old as the first view, so that the second   *)
(* loop of tst_matchingepoch stops there                                   *)
RiseInv ==
    /\ epoch_now >= 2 /\ (te_root = NULL => epoch_now = 2)
    /\ \A n \in Node : parent[n] = NULL => rise[n] <= 2
    /\ \A s \in Svc : svc[s] # NULL => sepoch[s] >= 2

LookInv ==
    \/ look = NoLook
    \/ /\ look.svc \in Svc /\ svc[look.svc] # NULL
       /\ look.phase \in {"dead", "rise", "done"}
       /\ upd = {} /\ hgt = NULL /\ dec = NULL /\ inc = NULL

IInv == /\ TypeOK /\ TreeShape /\ CountInv /\ LenInv /\ DepthBound /\ FreshInv
        /\ ProcInv /\ LoopInv /\ RiseInv /\ LookInv

(* Every walk over the tree ends: te_newproc, te_delproc, the updates and  *)
(* the loops of tst_matchingepoch return control to xmview; the links of   *)
(* the nodes that were taken out of the tree never lead round in a circle. *)
WalksEnd == ~Idle ~> Idle

(* treepoch.c:142 "it is > 0 if the operation time is consistent with the  *)
(* service time", for views that end as well: what a view mounted is not   *)
(* found from a view that was never entitled to it ...                     *)
ViewIsolation ==
    look.phase = "done" /\ look.proc # NULL =>
        (matchingepoch(look.svc, look.proc) => ptree[look.proc] \in sees[look.svc])

(* ... and stays visible to the views entitled to it.                      *)
ViewKeepsMounts ==
    look.phase = "done" /\ look.proc # NULL =>
        (ptree[look.proc] \in sees[look.svc] => matchingepoch(look.svc, look.proc))

(* treepoch.c:399 te_sameview_or_next "return true if both te refer to the *)
(* same view or te2 refer to a subview of te1"; on two leaves it can only  *)
(* hold when they are the same view, as no leaf is below another one.      *)
SameViewIsSameLeaf ==
    Idle => \A p, q \in Proc :
        ptree[p] # NULL /\ ptree[q] # NULL
          => (te_sameview_or_next(ptree[p], ptree[q]) => ptree[p] = ptree[q])
=============================================================================
