--------------------------- MODULE FdTableProofs ---------------------------
(***************************************************************************)
(* An lfd is never freed while a descriptor or a call in progress refers   *)
(* to it, for any number of threads, tables, descriptors and files, with   *)
(* shared tables, kills and execve.                                        *)
(*                                                                         *)
(* CountCovers is inductive together with FreeInv (lfd_alloc takes an      *)
(* element nobody refers to only if the free list links free elements, and *)
(* no two of them to the same one) and with CallInv, what the calls in     *)
(* progress say about the threads.                                         *)
(***************************************************************************)
EXTENDS FdTable, FiniteSetTheorems, TLAPS

Free(l) == l < lfd_tabmax /\ count[l] = 0

FreeInv ==
    /\ lfd_tabfree # -1 => lfd_tabfree \in Lfd /\ Free(lfd_tabfree)
    /\ \A l \in Lfd : l >= lfd_tabmax => count[l] = 0
    /\ \A l \in Lfd : Free(l) /\ link[l] # -1 => Free(link[l]) /\ link[l] # lfd_tabfree
    /\ \A l, m \in Lfd : Free(l) /\ Free(m) /\ link[l] = link[m] /\ link[l] # -1 => l = m

CallInv ==
    /\ \A t \in Thread : call[t].op # "none" => fds[t] # NULL
    /\ closing # NULL => call[closing].op = "exit"
    /\ \A t \in Thread : call[t].op = "open" => call[t].lfd # -1
    /\ \A t \in Thread : call[t].op \in {"dup", "close"} => call[t].fd \in Fd
    /\ \A t \in Thread : call[t].op = "fork" =>
          call[t].child # NULL /\ call[call[t].child].op = "born"
    /\ \A t, u \in Thread : call[t].op = "fork" /\ call[u].op = "fork"
          /\ call[t].child = call[u].child => t = u

IInv == TypeOK /\ CountCovers /\ FreeInv /\ CallInv

-----------------------------------------------------------------------------
(* Counting                                                                *)

(* One element more or less in a finite set.                               *)
LEMMA CardFacts ==
  ASSUME NEW S, IsFiniteSet(S)
  PROVE  /\ Cardinality(S) \in Nat
         /\ \A R : R \subseteq S => Cardinality(R) \in Nat /\ Cardinality(R) <= Cardinality(S)
         /\ \A x \in S : \A R : R \subseteq S \ {x} =>
               Cardinality(R) \in Nat /\ Cardinality(R) <= Cardinality(S) - 1
         /\ \A x, R : R \subseteq S \cup {x} =>
               Cardinality(R) \in Nat /\ Cardinality(R) <= Cardinality(S) + 1
<1>1. Cardinality(S) \in Nat
  BY Zenon, FS_CardinalityType
<1>2. ASSUME NEW Q, IsFiniteSet(Q), NEW R, R \subseteq Q
      PROVE  Cardinality(R) \in Nat /\ Cardinality(R) <= Cardinality(Q)
  BY Zenon, <1>2, FS_Subset, FS_CardinalityType
<1>3. ASSUME NEW x \in S
      PROVE  IsFiniteSet(S \ {x}) /\ Cardinality(S \ {x}) = Cardinality(S) - 1
  BY Zenon, FS_RemoveElement
<1>4. ASSUME NEW x
      PROVE  /\ IsFiniteSet(S \cup {x}) /\ Cardinality(S \cup {x}) \in Nat
             /\ Cardinality(S \cup {x}) <= Cardinality(S) + 1
  <2>1. /\ IsFiniteSet(S \cup {x})
        /\ Cardinality(S \cup {x}) = IF x \in S THEN Cardinality(S) ELSE Cardinality(S) + 1
    BY Zenon, FS_AddElement
  <2>2. Cardinality(S \cup {x}) \in {Cardinality(S), Cardinality(S) + 1}
    BY <2>1, Zenon
  <2> QED
    BY <2>1, <2>2, <1>1
<1>5. \A R : R \subseteq S => Cardinality(R) \in Nat /\ Cardinality(R) <= Cardinality(S)
  BY Zenon, <1>2
<1>6. ASSUME NEW x \in S, NEW R, R \subseteq S \ {x}
      PROVE  Cardinality(R) \in Nat /\ Cardinality(R) <= Cardinality(S) - 1
  BY Zenon, <1>2, <1>3, <1>6
<1>7. ASSUME NEW x, NEW R, R \subseteq S \cup {x}
      PROVE  Cardinality(R) \in Nat /\ Cardinality(R) <= Cardinality(S) + 1
  <2>1. IsFiniteSet(S \cup {x}) /\ Cardinality(S \cup {x}) \in Nat
        /\ Cardinality(S \cup {x}) <= Cardinality(S) + 1
    BY Zenon, <1>4
  <2>2. Cardinality(R) \in Nat /\ Cardinality(R) <= Cardinality(S \cup {x})
    BY Zenon, <1>2, <2>1, <1>7
  <2> HIDE <1>7
  <2> QED
    BY <2>1, <2>2, <1>1
<1> QED
  BY Zenon, <1>1, <1>5, <1>6, <1>7

(* The sets of references are finite.                                      *)
LEMMA FiniteReferences ==
  \A l : IsFiniteSet(Named(l)) /\ IsFiniteSet(Held(l))
<1>1. IsFiniteSet(Fd)
  BY ConstAssumption, FS_Interval DEF Fd
<1>2. IsFiniteSet(Table \X Fd)
  BY Zenon, <1>1, ConstAssumption, FS_Product
<1>3. \A l : Named(l) \subseteq Table \X Fd /\ Held(l) \subseteq Thread
  BY Zenon DEF Named, Held
<1> QED
  BY Zenon, <1>2, <1>3, ConstAssumption, FS_Subset

Covered(l) == References(l) <= count[l]

(* What a step may do to the references and to the count of an lfd.        *)
LEMMA CoverLess ==
  ASSUME NEW l, count[l] \in Nat, count'[l] \in Int, Covered(l),
         Named(l)' \subseteq Named(l), Held(l)' \subseteq Held(l), count'[l] >= count[l]
  PROVE  Covered(l)'
<1>1. /\ Cardinality(Named(l)) \in Nat /\ Cardinality(Held(l)) \in Nat
      /\ Cardinality(Named(l)') \in Nat /\ Cardinality(Held(l)') \in Nat
      /\ Cardinality(Named(l)') <= Cardinality(Named(l))
      /\ Cardinality(Held(l)') <= Cardinality(Held(l))
  BY Zenon, FiniteReferences, CardFacts
<1> QED
  BY <1>1 DEF Covered, References

LEMMA CoverSame ==
  ASSUME NEW l, count[l] \in Nat, Covered(l), count'[l] = count[l],
         Named(l)' \subseteq Named(l), Held(l)' \subseteq Held(l)
  PROVE  Covered(l)'
<1>1. count'[l] \in Int /\ count'[l] >= count[l]
  OBVIOUS
<1> QED
  BY Zenon, <1>1, CoverLess

(* A copied table brings the entries X, and the count grows by n.          *)
LEMMA CoverCopied ==
  ASSUME NEW l, count[l] \in Nat, Covered(l), Named(l) # {} => count[l] >= 1,
         NEW n \in Nat, n # 0 => Named(l) # {}, NEW X, IsFiniteSet(X), Cardinality(X) <= n,
         Named(l)' \subseteq Named(l) \cup X, Held(l)' \subseteq Held(l),
         count'[l] = count[l] + n
  PROVE  Covered(l)' /\ count'[l] \in Nat /\ (count'[l] = 0) = (count[l] = 0)
<1>1. IsFiniteSet(Named(l)) /\ IsFiniteSet(Held(l)) /\ Cardinality(X) \in Nat
  BY Zenon, FiniteReferences, FS_CardinalityType
<1>2. /\ IsFiniteSet(Named(l) \cup X)
      /\ Cardinality(Named(l) \cup X) <= Cardinality(Named(l)) + Cardinality(X)
  <2>1. IsFiniteSet(Named(l) \cap X)
    BY Zenon, <1>1, FS_Subset
  <2>2. Cardinality(Named(l) \cap X) \in Nat /\ Cardinality(Named(l)) \in Nat
    BY Zenon, <1>1, <2>1, FS_CardinalityType
  <2>3. /\ IsFiniteSet(Named(l) \cup X)
        /\ Cardinality(Named(l) \cup X)
              = Cardinality(Named(l)) + Cardinality(X) - Cardinality(Named(l) \cap X)
    BY Zenon, <1>1, FS_Union
  <2> QED
    BY <1>1, <2>2, <2>3
<1>3. /\ Cardinality(Named(l)) \in Nat /\ Cardinality(Held(l)) \in Nat
      /\ Cardinality(Named(l)') \in Nat /\ Cardinality(Held(l)') \in Nat
      /\ Cardinality(Named(l)') <= Cardinality(Named(l) \cup X)
      /\ Cardinality(Named(l) \cup X) \in Nat
      /\ Cardinality(Held(l)') <= Cardinality(Held(l))
  BY Zenon, <1>1, <1>2, CardFacts
<1>4. Covered(l)'
  BY <1>1, <1>2, <1>3 DEF Covered, References
<1>5. count'[l] \in Nat /\ (count'[l] = 0) = (count[l] = 0)
  OBVIOUS
<1> QED
  BY Zenon, <1>4, <1>5

(* A descriptor and the count go together ...                              *)
LEMMA CoverNamedLess ==
  ASSUME NEW l, count[l] \in Nat, Covered(l), NEW x \in Named(l),
         Named(l)' \subseteq Named(l) \ {x}, Held(l)' \subseteq Held(l),
         count'[l] = count[l] - 1
  PROVE  Covered(l)'
<1>1. /\ Cardinality(Named(l)) \in Nat /\ Cardinality(Held(l)) \in Nat
      /\ Cardinality(Named(l)') \in Nat /\ Cardinality(Held(l)') \in Nat
      /\ Cardinality(Named(l)') <= Cardinality(Named(l)) - 1
      /\ Cardinality(Held(l)') <= Cardinality(Held(l))
  BY Zenon, FiniteReferences, CardFacts
<1> QED
  BY <1>1 DEF Covered, References

(* ... and so do a call in progress and the count.                         *)
LEMMA CoverHeldLess ==
  ASSUME NEW l, count[l] \in Nat, Covered(l), NEW t \in Held(l),
         Named(l)' \subseteq Named(l), Held(l)' \subseteq Held(l) \ {t},
         count'[l] = count[l] - 1
  PROVE  Covered(l)'
<1>1. /\ Cardinality(Named(l)) \in Nat /\ Cardinality(Held(l)) \in Nat
      /\ Cardinality(Named(l)') \in Nat /\ Cardinality(Held(l)') \in Nat
      /\ Cardinality(Named(l)') <= Cardinality(Named(l))
      /\ Cardinality(Held(l)') <= Cardinality(Held(l)) - 1
  BY Zenon, FiniteReferences, CardFacts
<1> QED
  BY <1>1 DEF Covered, References

(* A call registers the lfd it held.                                       *)
LEMMA CoverMoves ==
  ASSUME NEW l, count[l] \in Nat, Covered(l), NEW t \in Held(l), NEW x,
         Named(l)' \subseteq Named(l) \cup {x}, Held(l)' \subseteq Held(l) \ {t},
         count'[l] = count[l]
  PROVE  Covered(l)'
<1>1. /\ Cardinality(Named(l)) \in Nat /\ Cardinality(Held(l)) \in Nat
      /\ Cardinality(Named(l)') \in Nat /\ Cardinality(Held(l)') \in Nat
      /\ Cardinality(Named(l)') <= Cardinality(Named(l)) + 1
      /\ Cardinality(Held(l)') <= Cardinality(Held(l)) - 1
  BY FiniteReferences, CardFacts
<1> QED
  BY <1>1 DEF Covered, References

(* dup2 of a file onto another of its own descriptors.                     *)
LEMMA CoverReplaces ==
  ASSUME NEW l, count[l] \in Nat, Covered(l), NEW t \in Held(l), NEW x \in Named(l), NEW y,
         Named(l)' \subseteq (Named(l) \ {x}) \cup {y}, Held(l)' \subseteq Held(l) \ {t},
         count'[l] = count[l] - 1
  PROVE  Covered(l)'
<1>1. /\ IsFiniteSet(Named(l) \ {x}) /\ Cardinality(Named(l) \ {x}) \in Nat
      /\ Cardinality(Named(l) \ {x}) <= Cardinality(Named(l)) - 1
  BY Zenon, FiniteReferences, CardFacts, FS_RemoveElement
<1>2. /\ Cardinality(Named(l)') \in Nat
      /\ Cardinality(Named(l)') <= Cardinality(Named(l) \ {x}) + 1
  BY Zenon, <1>1, CardFacts
<1>3. /\ Cardinality(Named(l)) \in Nat /\ Cardinality(Held(l)) \in Nat
      /\ Cardinality(Held(l)') \in Nat
      /\ Cardinality(Held(l)') <= Cardinality(Held(l)) - 1
  BY Zenon, FiniteReferences, CardFacts
<1> QED
  BY <1>1, <1>2, <1>3 DEF Covered, References

(* A call takes a new reference.                                           *)
LEMMA CoverMore ==
  ASSUME NEW l, count[l] \in Nat, Covered(l), NEW t,
         Named(l)' \subseteq Named(l), Held(l)' \subseteq Held(l) \cup {t},
         count'[l] = count[l] + 1
  PROVE  Covered(l)'
<1>1. /\ Cardinality(Named(l)) \in Nat /\ Cardinality(Held(l)) \in Nat
      /\ Cardinality(Named(l)') \in Nat /\ Cardinality(Held(l)') \in Nat
      /\ Cardinality(Named(l)') <= Cardinality(Named(l))
      /\ Cardinality(Held(l)') <= Cardinality(Held(l)) + 1
  BY Zenon, FiniteReferences, CardFacts
<1> QED
  BY <1>1 DEF Covered, References

(* An lfd somebody refers to has a positive count.                         *)
LEMMA ReferredCounts ==
  ASSUME TypeOK, CountCovers, NEW l \in Lfd
  PROVE  /\ count[l] \in Nat /\ Covered(l)
         /\ Named(l) # {} \/ Held(l) # {} => count[l] >= 1
<1>1. count[l] \in Nat /\ Covered(l)
  BY Zenon DEF TypeOK, CountCovers, Covered
<1>2. /\ Cardinality(Named(l)) \in Nat /\ Cardinality(Held(l)) \in Nat
      /\ Named(l) # {} => Cardinality(Named(l)) # 0
      /\ Held(l) # {} => Cardinality(Held(l)) # 0
  BY Zenon, FiniteReferences, FS_CardinalityType, FS_EmptySet
<1> QED
  BY <1>1, <1>2 DEF Covered, References

-----------------------------------------------------------------------------
(* What the steps do to the references                                     *)

(* The calls that hold an lfd, after one thread goes to state r of a call. *)
LEMMA HeldAfter ==
  ASSUME TypeOK, NEW t \in Thread, NEW r, call' = [call EXCEPT ![t] = r], NEW l
  PROVE  /\ r.op \in {"open", "dup"} /\ r.lfd = l => Held(l)' = Held(l) \cup {t}
         /\ ~(r.op \in {"open", "dup"} /\ r.lfd = l) => Held(l)' = Held(l) \ {t}
<1>1. call'[t] = r /\ \A u \in Thread \ {t} : call'[u] = call[u]
  BY Zenon DEF TypeOK
<1> QED
  BY Zenon, <1>1 DEF Held

SetEntry(p, f, m) == lfdlist' = [lfdlist EXCEPT ![p][f] = m]

(* A descriptor is registered for m, or for nothing with m = -1.           *)
LEMMA NamedAfter ==
  ASSUME TypeOK, NEW p \in Table, NEW f \in Fd, NEW m, SetEntry(p, f, m), NEW l
  PROVE  /\ m = l => Named(l)' = Named(l) \cup {<<p, f>>}
         /\ m # l => Named(l)' = Named(l) \ {<<p, f>>}
<1> USE DEF SetEntry
<1>1. lfdlist'[p][f] = m
  BY Zenon DEF TypeOK
<1>2. \A x \in Table \X Fd : x # <<p, f>> => lfdlist'[x[1]][x[2]] = lfdlist[x[1]][x[2]]
  <2> SUFFICES ASSUME NEW q \in Table, NEW g \in Fd, ~(q = p /\ g = f)
               PROVE  lfdlist'[q][g] = lfdlist[q][g]
    OBVIOUS
  <2>1. CASE q = p
    <3>1. lfdlist'[p] = [lfdlist[p] EXCEPT ![f] = m]
      BY Zenon DEF TypeOK
    <3> QED
      BY Zenon, <2>1, <3>1 DEF TypeOK
  <2>2. CASE q # p
    BY Zenon, <2>2 DEF TypeOK
  <2> QED
    BY Zenon, <2>1, <2>2
<1>3. \A x \in Table \X Fd : x = <<p, f>> => lfdlist'[x[1]][x[2]] = m
  BY <1>1
<1> QED
  BY <1>2, <1>3 DEF Named

(* The descriptors stay.                                                   *)
LEMMA NamedSame ==
  ASSUME lfdlist' = lfdlist, NEW l
  PROVE  Named(l)' = Named(l)
  BY Zenon DEF Named

-----------------------------------------------------------------------------
(* The free list                                                           *)

(* No element becomes free or stops being free.                            *)
LEMMA FreeSame ==
  ASSUME TypeOK, FreeInv, \A l \in Lfd : (count'[l] = 0) = (count[l] = 0),
         UNCHANGED <<link, lfd_tabfree, lfd_tabmax>>
  PROVE  FreeInv'
<1>1. \A l \in Lfd : Free(l)' <=> Free(l)
  BY Zenon DEF Free
<1>2. \A l \in Lfd : link[l] # -1 => link[l] \in Lfd
  BY Zenon DEF TypeOK
<1>3. \A l \in Lfd : Free(l)' /\ link'[l] # -1 => Free(link[l])' /\ link'[l] # lfd_tabfree'
  BY Zenon, <1>1, <1>2 DEF FreeInv, Free
<1>4. \A l, m \in Lfd : Free(l)' /\ Free(m)' /\ link'[l] = link'[m] /\ link'[l] # -1 => l = m
  BY Zenon, <1>1 DEF FreeInv
<1>5. \A l \in Lfd : l >= lfd_tabmax' => count'[l] = 0
  BY Zenon DEF FreeInv
<1>6. lfd_tabfree' # -1 => lfd_tabfree' \in Lfd /\ Free(lfd_tabfree)'
  BY Zenon, <1>1 DEF FreeInv, Free
<1> QED
  BY Zenon, <1>3, <1>4, <1>5, <1>6 DEF FreeInv, Free

(* lfd_alloc takes a free element off the list, or a new one.              *)
LEMMA FreeOpen ==
  ASSUME TypeOK, FreeInv, NEW virtual \in BOOLEAN, lfd_open(virtual)
  PROVE  /\ FreeInv' /\ lfd_alloc \in Lfd /\ count[lfd_alloc] = 0
         /\ lfd_tabfree' \in Lfd \cup {-1} /\ lfd_tabmax' \in 0..NLfd
<1>1. PICK a \in Lfd : a = lfd_alloc
  BY Zenon DEF lfd_open
<1>2. /\ count' = [count EXCEPT ![a] = 1] /\ link' = [link EXCEPT ![a] = -1]
      /\ IF lfd_tabfree >= 0
         THEN lfd_tabfree' = link[a] /\ lfd_tabmax' = lfd_tabmax
         ELSE lfd_tabmax' = lfd_tabmax + 1 /\ lfd_tabfree' = lfd_tabfree
  BY Zenon, <1>1 DEF lfd_open
<1>3. NLfd \in Nat /\ lfd_tabmax \in Nat /\ lfd_tabfree \in Lfd \cup {-1}
  BY ConstAssumption DEF TypeOK
<1>4. CASE lfd_tabfree >= 0
  <2>1. a = lfd_tabfree /\ a # -1 /\ count[a] = 0 /\ a < lfd_tabmax
    BY <1>1, <1>3, <1>4 DEF lfd_alloc, FreeInv, Free, Lfd
  <2>2. lfd_tabmax' = lfd_tabmax /\ lfd_tabfree' = link[a]
    BY Zenon, <1>2, <1>4
  <2>3. \A l \in Lfd : Free(l)' => Free(l) /\ l # a /\ link'[l] = link[l]
    BY <1>2, <2>2, <2>1 DEF Free, TypeOK
  <2>4. \A l \in Lfd : Free(l) /\ l # a => Free(l)'
    BY Zenon, <1>2, <2>2 DEF Free, TypeOK
  <2>5. lfd_tabfree' # -1 => lfd_tabfree' \in Lfd /\ Free(lfd_tabfree)'
    <3> SUFFICES ASSUME link[a] # -1 PROVE link[a] \in Lfd /\ Free(link[a]) /\ link[a] # a
      BY Zenon, <2>2, <2>4 DEF Free
    <3>1. Free(a)
      BY Zenon, <2>1 DEF Free
    <3> QED
      BY Zenon, <3>1, <2>1 DEF TypeOK, FreeInv
  <2>6. \A l \in Lfd : l >= lfd_tabmax' => count'[l] = 0
    BY <1>2, <2>1, <2>2 DEF FreeInv, TypeOK, Lfd
  <2>7. \A l \in Lfd : Free(l)' /\ link'[l] # -1 => Free(link[l])' /\ link'[l] # lfd_tabfree'
    <3> SUFFICES ASSUME NEW l \in Lfd, Free(l)', link[l] # -1
                 PROVE  Free(link[l]) /\ link[l] # a /\ link[l] # link[a] /\ link[l] \in Lfd
      BY Zenon, <2>2, <2>3, <2>4 DEF Free
    <3>1. Free(l) /\ Free(a) /\ l # a
      BY Zenon, <2>1, <2>3 DEF Free
    <3> QED
      BY <3>1, <2>1 DEF TypeOK, FreeInv
  <2>8. \A l, m \in Lfd : Free(l)' /\ Free(m)' /\ link'[l] = link'[m] /\ link'[l] # -1 => l = m
    BY Zenon, <2>3 DEF FreeInv
  <2>9. FreeInv'
    BY Zenon, <2>5, <2>6, <2>7, <2>8 DEF FreeInv, Free
  <2> QED
    BY Zenon, <1>1, <1>3, <2>1, <2>2, <2>9 DEF TypeOK
<1>5. CASE ~(lfd_tabfree >= 0)
  <2>1. a = lfd_tabmax /\ lfd_tabfree = -1 /\ lfd_tabfree' = -1 /\ lfd_tabmax' = lfd_tabmax + 1
    BY <1>1, <1>2, <1>3, <1>5 DEF lfd_alloc, Lfd
  <2>2. count[a] = 0
    BY <2>1 DEF FreeInv, Lfd
  <2>3. \A l \in Lfd : Free(l)' => Free(l) /\ l # a /\ link'[l] = link[l]
    BY <1>2, <1>3, <2>1 DEF Free, TypeOK, Lfd
  <2>4. \A l \in Lfd : Free(l) => Free(l)'
    BY SMTT(20), <1>2, <1>3, <2>1 DEF Free, TypeOK, Lfd
  <2>5. \A l \in Lfd : l >= lfd_tabmax' => count'[l] = 0
    BY <1>2, <1>3, <2>1 DEF FreeInv, TypeOK, Lfd
  <2>6. \A l \in Lfd : Free(l)' /\ link'[l] # -1 => Free(link[l])' /\ link'[l] # lfd_tabfree'
    <3> SUFFICES ASSUME NEW l \in Lfd, Free(l)', link[l] # -1
                 PROVE  Free(link[l]) /\ link[l] \in Lfd
      BY Zenon, <2>1, <2>3, <2>4 DEF Free
    <3> QED
      BY <2>3 DEF TypeOK, FreeInv
  <2>7. \A l, m \in Lfd : Free(l)' /\ Free(m)' /\ link'[l] = link'[m] /\ link'[l] # -1 => l = m
    BY Zenon, <2>3 DEF FreeInv
  <2>8. FreeInv'
    BY Zenon, <2>1, <2>5, <2>6, <2>7 DEF FreeInv, Free
  <2> QED
    BY <1>1, <1>3, <2>1, <2>2, <2>8 DEF Lfd
<1> QED
  BY Zenon, <1>4, <1>5

(* lfd_close puts an element whose count ends on the list.                 *)
LEMMA FreeClose ==
  ASSUME TypeOK, FreeInv, NEW l \in Lfd, count[l] >= 1, lfd_close(l)
  PROVE  FreeInv'
<1>1. l # -1 /\ l < lfd_tabmax /\ count[l] \in Nat /\ lfd_tabmax \in Nat
  BY ConstAssumption DEF TypeOK, FreeInv, Lfd
<1>2. count' = [count EXCEPT ![l] = @ - 1] /\ lfd_tabmax' = lfd_tabmax
  BY Zenon, <1>1 DEF lfd_close
<1>3. CASE count[l] # 1
  <2>1. UNCHANGED <<link, lfd_tabfree, lfd_tabmax>>
    BY Zenon, <1>1, <1>3 DEF lfd_close
  <2>2. \A m \in Lfd : (count'[m] = 0) = (count[m] = 0)
    BY <1>1, <1>2, <1>3 DEF TypeOK
  <2> QED
    BY Zenon, <2>1, <2>2, FreeSame
<1>4. CASE count[l] = 1
  <2>1. link' = [link EXCEPT ![l] = lfd_tabfree] /\ lfd_tabfree' = l
    BY Zenon, <1>1, <1>4 DEF lfd_close
  <2>2. \A m \in Lfd : Free(m)' <=> Free(m) \/ m = l
    BY <1>1, <1>2, <1>4 DEF Free, TypeOK
  <2>3. ~Free(l)
    BY <1>1, <1>4 DEF Free
  <2>4. \A m \in Lfd : m # l => link'[m] = link[m]
    BY Zenon, <2>1 DEF TypeOK
  <2>5. link'[l] = lfd_tabfree
    BY Zenon, <2>1 DEF TypeOK
  <2>6. \A m \in Lfd : m >= lfd_tabmax' => count'[m] = 0
    BY <1>1, <1>2 DEF FreeInv, TypeOK
  <2>7. \A m \in Lfd : Free(m)' /\ link'[m] # -1 => Free(link[m])' /\ link'[m] # lfd_tabfree'
    <3> SUFFICES ASSUME NEW m \in Lfd, Free(m)', link'[m] # -1
                 PROVE  link'[m] \in Lfd /\ Free(link'[m]) /\ link'[m] # l
      BY Zenon, <2>1, <2>2 DEF Free
    <3>1. CASE m = l
      BY Zenon, <3>1, <2>3, <2>5 DEF FreeInv
    <3>2. CASE m # l
      BY <3>2, <2>2, <2>3, <2>4 DEF FreeInv, TypeOK
    <3> QED
      BY Zenon, <3>1, <3>2
  <2>8. \A m, n \in Lfd : Free(m)' /\ Free(n)' /\ link'[m] = link'[n] /\ link'[m] # -1 => m = n
    <3> SUFFICES ASSUME NEW m \in Lfd, NEW n \in Lfd, Free(m)', Free(n)',
                        link'[m] = link'[n], link'[m] # -1
                 PROVE  m = n
      BY Zenon
    <3>1. \A k \in Lfd : Free(k)' /\ k # l => Free(k) /\ link'[k] = link[k]
      BY Zenon, <2>2, <2>4
    <3> QED
      BY <3>1, <2>5 DEF FreeInv
  <2>9. lfd_tabfree' \in Lfd /\ Free(lfd_tabfree)'
    BY Zenon, <2>1, <2>2 DEF Free
  <2> QED
    BY Zenon, <2>6, <2>7, <2>8, <2>9 DEF FreeInv, Free
<1> QED
  BY Zenon, <1>3, <1>4

-----------------------------------------------------------------------------
(* The calls in progress                                                   *)

(* There is a descriptor.                                                  *)
LEMMA NFdType == NFd \in Nat /\ NFd >= 1
  BY ConstAssumption

(* A thread that is in no call.                                            *)
LEMMA NoCallType == NoCall \in Call
  BY ConstAssumption DEF NoCall, Call

(* A thread goes on with its call, enters one or leaves it.                *)
LEMMA CallAfter ==
  ASSUME IInv, NEW t \in Thread, NEW r \in Call, call' = [call EXCEPT ![t] = r],
         fds' = fds, closing' = closing, r.op # "none" => fds[t] # NULL,
         call[t].op # "born", r.op # "fork", closing = t => r.op = "exit",
         r.op = "open" => r.lfd # -1, r.op \in {"dup", "close"} => r.fd \in Fd
  PROVE  CallInv' /\ call' \in [Thread -> Call]
<1>1. call \in [Thread -> Call] /\ closing \in Thread \cup {NULL}
  BY Zenon DEF IInv, TypeOK
<1>2. call'[t] = r /\ \A u \in Thread \ {t} : call'[u] = call[u]
  BY Zenon, <1>1
<1>3. call' \in [Thread -> Call]
  BY Zenon, <1>1
<1>4. \A u \in Thread : call'[u].op # "none" => fds'[u] # NULL
  BY Zenon, <1>2 DEF IInv, CallInv
<1>5. closing' # NULL => call'[closing'].op = "exit"
  BY Zenon, <1>1, <1>2 DEF IInv, CallInv
<1>6. \A u \in Thread : call'[u].op = "open" => call'[u].lfd # -1
  BY Zenon, <1>2 DEF IInv, CallInv
<1>7. \A u \in Thread : call'[u].op \in {"dup", "close"} => call'[u].fd \in Fd
  BY Zenon, <1>2 DEF IInv, CallInv
<1>8. \A u \in Thread : call'[u].op = "fork" =>
         call'[u].child # NULL /\ call'[call'[u].child].op = "born"
  <2> SUFFICES ASSUME NEW u \in Thread, call'[u].op = "fork"
               PROVE  call'[u].child # NULL /\ call'[call'[u].child].op = "born"
    BY Zenon
  <2>1. u # t /\ call'[u] = call[u]
    BY Zenon, <1>2
  <2>2. call[u].child # NULL /\ call[call[u].child].op = "born"
    BY Zenon, <2>1 DEF IInv, CallInv
  <2>3. call[u].child \in Thread
    BY Zenon, <1>1, <2>2 DEF Call
  <2> QED
    BY Zenon, <1>2, <2>1, <2>2, <2>3
<1>9. \A u, v \in Thread : call'[u].op = "fork" /\ call'[v].op = "fork"
         /\ call'[u].child = call'[v].child => u = v
  BY <1>2 DEF IInv, CallInv
<1> QED
  BY Zenon, <1>3, <1>4, <1>5, <1>6, <1>7, <1>8, <1>9 DEF CallInv

(* Steps that leave lfd_tab and the file tables alone.                     *)
LEMMA TablesSame ==
  ASSUME IInv, NEW t \in Thread, NEW r, call' = [call EXCEPT ![t] = r],
         r.op \in {"open", "dup"} => call[t].op = r.op /\ r.lfd = call[t].lfd,
         UNCHANGED <<count, link, lfd_tabfree, lfd_tabmax, lfdlist>>
  PROVE  CountCovers' /\ FreeInv'
<1>1. \A l : Held(l)' \subseteq Held(l)
  BY HeldAfter DEF IInv, Held
<1>2. \A l : Named(l)' = Named(l)
  BY Zenon, NamedSame
<1>3. ASSUME NEW l \in Lfd PROVE Covered(l)'
  <2>1. count[l] \in Nat /\ Covered(l)
    BY Zenon, ReferredCounts DEF IInv
  <2> QED
    BY <1>1, <1>2, <2>1, CoverLess
<1>4. FreeInv'
  BY Zenon, FreeSame DEF IInv
<1> QED
  BY Zenon, <1>3, <1>4 DEF CountCovers, Covered

(* The kernel's part of a call.                                            *)
LEMMA KernelPart ==
  ASSUME IInv, NEW t \in Thread, NEW rv \in -1..NFd - 1,
         Kernel(t, "open") \/ Kernel(t, "close") \/ Kernel(t, "dup"),
         KernelReturn(t, rv), UNCHANGED <<lfdvars, lfdlist, fds, closing>>
  PROVE  CountCovers' /\ FreeInv' /\ CallInv' /\ call' \in [Thread -> Call]
<1>1. PICK c \in Call : c = call[t]
  BY Zenon DEF IInv, TypeOK
<1>2. PICK r : r = IF c.at = "kernel" THEN [c EXCEPT !.at = "out", !.rv = rv] ELSE NoCall
  BY Zenon
<1>3. call' = [call EXCEPT ![t] = r]
  BY Zenon, <1>1, <1>2 DEF KernelReturn, IInv, TypeOK
<1>4. r \in Call /\ (r.op = c.op \/ r.op = "none") /\ (r.op # "none" => r.lfd = c.lfd /\ r.fd = c.fd)
  <2>1. CASE c.at = "kernel"
    BY Zenon, <1>2, <2>1 DEF Call
  <2>2. CASE c.at # "kernel"
    BY Zenon, <1>2, <2>2, NoCallType DEF NoCall
  <2> QED
    BY Zenon, <2>1, <2>2
<1>5. c.op \in {"open", "close", "dup"}
  BY Zenon, <1>1 DEF Kernel
<1>6. fds[t] # NULL /\ closing # t /\ (c.op = "open" => c.lfd # -1)
      /\ (c.op \in {"dup", "close"} => c.fd \in Fd)
  BY Zenon, <1>1, <1>5, ConstAssumption DEF IInv, CallInv
<1>7. CallInv' /\ call' \in [Thread -> Call]
  BY Zenon, <1>1, <1>3, <1>4, <1>5, <1>6, CallAfter
<1>8. CountCovers' /\ FreeInv'
  BY Zenon, <1>1, <1>3, <1>4, <1>5, TablesSame DEF lfdvars
<1> QED
  BY Zenon, <1>7, <1>8

-----------------------------------------------------------------------------
(* lfd_close keeps the types and takes one off the count of its lfd.       *)
LEMMA CloseFacts ==
  ASSUME TypeOK, NEW l \in Lfd \cup {-1}, l # -1 => count[l] >= 1, lfd_close(l)
  PROVE  /\ count' \in [Lfd -> Nat] /\ file' \in [Lfd -> File \cup {0}]
         /\ sfd' \in [Lfd -> File \cup {-1}] /\ hte' \in [Lfd -> BOOLEAN]
         /\ link' \in [Lfd -> Lfd \cup {-1}] /\ lfd_tabfree' \in Lfd \cup {-1}
         /\ lfd_tabmax' \in 0..NLfd /\ svc' \in [File -> Int]
         /\ \A m \in Lfd : m # l => count'[m] = count[m]
         /\ l # -1 => count'[l] = count[l] - 1
<1>1. CASE l = -1
  BY Zenon, <1>1 DEF lfd_close, TypeOK, lfdvars
<1>2. CASE l # -1
  <2>1. l \in Lfd /\ count' = [count EXCEPT ![l] = @ - 1] /\ lfd_tabmax' = lfd_tabmax
    BY Zenon, <1>2 DEF lfd_close
  <2>2. count' \in [Lfd -> Nat] /\ count'[l] = count[l] - 1
        /\ \A m \in Lfd : m # l => count'[m] = count[m]
    BY <1>2, <2>1 DEF TypeOK
  <2>3. CASE count[l] = 1
    <3>1. sfd[l] >= 0 => sfd[l] \in File
      BY <2>1, ConstAssumption DEF TypeOK, File
    <3>2. svc' \in [File -> Int]
      BY <1>2, <2>3, <3>1 DEF lfd_close, TypeOK
    <3>3. link' \in [Lfd -> Lfd \cup {-1}] /\ lfd_tabfree' \in Lfd \cup {-1}
      BY Zenon, <1>2, <2>1, <2>3 DEF lfd_close, TypeOK
    <3>4. file' \in [Lfd -> File \cup {0}]
      BY Zenon, <1>2, <2>1, <2>3 DEF lfd_close, TypeOK
    <3>5. sfd' \in [Lfd -> File \cup {-1}] /\ hte' \in [Lfd -> BOOLEAN]
      BY Zenon, <1>2, <2>1, <2>3 DEF lfd_close, TypeOK
    <3> QED
      BY Zenon, <1>2, <2>1, <2>2, <3>2, <3>3, <3>4, <3>5 DEF TypeOK
  <2>4. CASE count[l] # 1
    BY Zenon, <1>2, <2>1, <2>2, <2>4 DEF lfd_close, TypeOK
  <2> QED
    BY Zenon, <2>3, <2>4
<1> QED
  BY Zenon, <1>1, <1>2

-----------------------------------------------------------------------------
(* Each action keeps the invariant                                         *)

(* The element lfd_open takes is referred to by nothing but the new call.  *)
LEMMA StepOpenIn ==
  ASSUME IInv, NEW t \in Thread, NEW virtual \in BOOLEAN, wrap_in_open(t, virtual)
  PROVE  IInv'
<1>1. PICK a : a = lfd_alloc
  BY Zenon
<1>2. /\ FreeInv' /\ a \in Lfd /\ count[a] = 0
      /\ lfd_tabfree' \in Lfd \cup {-1} /\ lfd_tabmax' \in 0..NLfd
  BY Zenon, <1>1, FreeOpen DEF IInv, wrap_in_open
<1>3. PICK r : r = [op |-> "open", at |-> "kernel", lfd |-> a, fd |-> -1, old |-> -1,
                    rv |-> -1, child |-> NULL]
  BY Zenon
<1>4. call' = [call EXCEPT ![t] = r] /\ r \in Call /\ r.op = "open" /\ r.lfd = a
  BY <1>1, <1>2, <1>3, ConstAssumption DEF wrap_in_open, Enter, Call
<1>5. CallInv' /\ call' \in [Thread -> Call]
  <2>1. fds[t] # NULL /\ call[t].op = "none" /\ closing = NULL /\ t # NULL
    BY Zenon, ConstAssumption DEF wrap_in_open, CanCall
  <2>2. a # -1
    BY <1>2 DEF Lfd
  <2> QED
    BY Zenon, <1>4, <2>1, <2>2, CallAfter DEF wrap_in_open
<1>6. count' = [count EXCEPT ![a] = 1] /\ lfdlist' = lfdlist
  BY Zenon, <1>1 DEF wrap_in_open, lfd_open
<1>7. CountCovers'
  <2>1. ASSUME NEW l \in Lfd PROVE Covered(l)'
    <3>1. count[l] \in Nat /\ Covered(l)
      BY Zenon, ReferredCounts DEF IInv
    <3>2. Named(l)' = Named(l)
      BY Zenon, <1>6, NamedSame
    <3>3. CASE l = a
      <4>1. Held(l)' = Held(l) \cup {t}
        BY Zenon, <1>4, <3>3, HeldAfter DEF IInv
      <4>2. count'[l] = count[l] + 1
        BY <1>2, <1>6, <3>3 DEF IInv, TypeOK
      <4> QED
        BY Zenon, <3>1, <3>2, <4>1, <4>2, CoverMore
    <3>4. CASE l # a
      <4>1. Held(l)' = Held(l) \ {t}
        BY Zenon, <1>4, <3>4, HeldAfter DEF IInv
      <4>2. count'[l] = count[l]
        BY Zenon, <1>6, <3>4 DEF IInv, TypeOK
      <4> QED
        BY <3>1, <3>2, <4>1, <4>2, CoverLess
    <3> QED
      BY Zenon, <3>3, <3>4
  <2> QED
    BY Zenon, <2>1 DEF CountCovers, Covered
<1>8. TypeOK'
  <2>1. /\ count' \in [Lfd -> Nat] /\ file' \in [Lfd -> File \cup {0}]
        /\ hte' \in [Lfd -> BOOLEAN] /\ link' \in [Lfd -> Lfd \cup {-1}]
        /\ opened' \in 0..NOpen
    BY SMTT(20), <1>1, <1>2, ConstAssumption DEF wrap_in_open, lfd_open, IInv, TypeOK, File
  <2>2. sfd' \in [Lfd -> File \cup {-1}] /\ svc' \in [File -> Int]
    BY <1>1, <1>2, ConstAssumption DEF wrap_in_open, lfd_open, IInv, TypeOK, File
  <2> QED
    BY Zenon, <1>2, <1>5, <2>1, <2>2 DEF wrap_in_open, IInv, TypeOK
<1> QED
  BY Zenon, <1>2, <1>5, <1>7, <1>8 DEF IInv

(* The kernel opens a file, or closes some at execve, unseen by xmview.    *)
LEMMA StepOpenReal ==
  ASSUME IInv, NEW t \in Thread, open_real(t) \/ kernel_execve(t)
  PROVE  IInv'
<1>1. UNCHANGED <<lfdvars, lfdlist, fds, call, closing, fdset, opened>> /\ fds[t] \in Table
  BY Zenon DEF open_real, kernel_execve, CanCall, IInv, TypeOK
<1>2. kern' \in [Table -> [Fd -> File \cup {-1, 0}]] /\ cloexec' \in [Table -> SUBSET Fd]
  <2>1. CASE open_real(t)
    BY <1>1, <2>1 DEF open_real, IInv, TypeOK
  <2>2. CASE kernel_execve(t)
    BY <1>1, <2>2 DEF kernel_execve, IInv, TypeOK
  <2> QED
    BY Zenon, <2>1, <2>2
<1>3. TypeOK'
  BY Zenon, <1>1, <1>2 DEF IInv, TypeOK, lfdvars
<1>4. CountCovers'
  BY Zenon, <1>1 DEF IInv, CountCovers, References, Named, Held, lfdvars
<1>5. FreeInv'
  BY Zenon, <1>1 DEF IInv, FreeInv, Free, lfdvars
<1>6. CallInv'
  BY Zenon, <1>1 DEF IInv, CallInv
<1> QED
  BY Zenon, <1>3, <1>4, <1>5, <1>6 DEF IInv

(* The kernel executes a call between its two phases.                      *)
LEMMA StepKernel ==
  ASSUME IInv, NEW t \in Thread, kernel_open(t) \/ kernel_close(t) \/ kernel_dup(t)
  PROVE  IInv'
<1>1. UNCHANGED <<lfdvars, lfdlist, fds, closing, fdset, opened>>
  BY Zenon DEF kernel_open, kernel_close, kernel_dup
<1>2. Kernel(t, "open") \/ Kernel(t, "close") \/ Kernel(t, "dup")
  BY Zenon DEF kernel_open, kernel_close, kernel_dup
<1>3. fds[t] \in Table
  BY Zenon, <1>2 DEF IInv, TypeOK, CallInv, Kernel
<1>4. /\ \E rv \in -1..NFd - 1 : KernelReturn(t, rv)
      /\ kern' \in [Table -> [Fd -> File \cup {-1, 0}]] /\ cloexec' \in [Table -> SUBSET Fd]
  <2>0. NFd \in Nat \ {0} /\ Fd \subseteq -1..NFd - 1 /\ -1 \in -1..NFd - 1 /\ 0 \in -1..NFd - 1
    BY ConstAssumption DEF Fd
  <2>1. CASE kernel_open(t)
    <3>1. call[t].lfd \in Lfd
      BY Zenon, <2>1 DEF kernel_open, Kernel, IInv, TypeOK, CallInv, Call
    <3>2. file[call[t].lfd] \in File \cup {0}
      BY Zenon, <3>1 DEF IInv, TypeOK
    <3>3. CASE KernelReturn(t, -1) /\ UNCHANGED <<kern, cloexec>>
      BY Zenon, <2>0, <3>3 DEF IInv, TypeOK
    <3>4. ASSUME NEW fd \in Fd, KernelReturn(t, fd),
                 kern' = [kern EXCEPT ![fds[t]][fd] =
                             IF hte[call[t].lfd] THEN file[call[t].lfd] ELSE -1],
                 cloexec' = [cloexec EXCEPT ![fds[t]] = @ \ {fd}]
          PROVE  /\ \E rv \in -1..NFd - 1 : KernelReturn(t, rv)
                 /\ kern' \in [Table -> [Fd -> File \cup {-1, 0}]]
                 /\ cloexec' \in [Table -> SUBSET Fd]
      <4>1. kern' \in [Table -> [Fd -> File \cup {-1, 0}]]
        BY Zenon, <1>3, <3>2, <3>4 DEF IInv, TypeOK
      <4>2. cloexec' \in [Table -> SUBSET Fd]
        BY Zenon, <1>3, <3>4 DEF IInv, TypeOK
      <4> QED
        BY Zenon, <2>0, <3>4, <4>1, <4>2
    <3> QED
      BY Zenon, <2>1, <3>3, <3>4 DEF kernel_open
  <2>2. CASE kernel_close(t)
    <3>1. kern' \in [Table -> [Fd -> File \cup {-1, 0}]]
      BY Zenon, <1>3, <2>2 DEF kernel_close, IInv, TypeOK
    <3>2. cloexec' \in [Table -> SUBSET Fd]
      BY Zenon, <1>3, <2>2 DEF kernel_close, IInv, TypeOK
    <3> QED
      BY Zenon, <2>0, <2>2, <3>1, <3>2 DEF kernel_close
  <2>3. CASE kernel_dup(t)
    <3>1. call[t].fd \in Fd
      BY Zenon, <2>3 DEF kernel_dup, Kernel, IInv, CallInv
    <3>2. kern[fds[t]][call[t].fd] \in File \cup {-1, 0}
      BY <1>3, <3>1 DEF IInv, TypeOK
    <3>3. \E rv \in -1..NFd - 1 : KernelReturn(t, rv)
      BY Zenon, <2>0, <2>3 DEF kernel_dup
    <3>4. ASSUME NEW fd \in Fd, kern' = [kern EXCEPT ![fds[t]][fd] = kern[fds[t]][call[t].fd]],
                 NEW S \in SUBSET Fd, cloexec' = [cloexec EXCEPT ![fds[t]] = S]
          PROVE  /\ kern' \in [Table -> [Fd -> File \cup {-1, 0}]]
                 /\ cloexec' \in [Table -> SUBSET Fd]
      <4>1. kern' \in [Table -> [Fd -> File \cup {-1, 0}]]
        BY Zenon, <1>3, <3>2, <3>4 DEF IInv, TypeOK
      <4>2. cloexec' \in [Table -> SUBSET Fd]
        BY Zenon, <1>3, <3>4 DEF IInv, TypeOK
      <4> QED
        BY Zenon, <4>1, <4>2
    <3>5. /\ kern' \in [Table -> [Fd -> File \cup {-1, 0}]]
          /\ cloexec' \in [Table -> SUBSET Fd]
      <4>1. CASE UNCHANGED <<kern, cloexec>>
        BY Zenon, <4>1 DEF IInv, TypeOK
      <4>2. CASE ~UNCHANGED <<kern, cloexec>>
        <5>1. PICK fd \in Fd :
                /\ kern' = [kern EXCEPT ![fds[t]][fd] = kern[fds[t]][call[t].fd]]
                /\ \/ cloexec' = [cloexec EXCEPT ![fds[t]] = IF call[t].fd = fd THEN @ ELSE @ \ {fd}]
                   \/ cloexec' = [cloexec EXCEPT ![fds[t]] = @ \cup {fd}]
          BY Zenon, <2>3, <4>2 DEF kernel_dup
        <5>2. cloexec[fds[t]] \in SUBSET Fd /\ cloexec \in [Table -> SUBSET Fd]
          BY Zenon, <1>3 DEF IInv, TypeOK
        <5>3. \E S \in SUBSET Fd : cloexec' = [cloexec EXCEPT ![fds[t]] = S]
          <6>1. CASE cloexec' = [cloexec EXCEPT ![fds[t]] = @ \cup {fd}]
            <7>1. cloexec' = [cloexec EXCEPT ![fds[t]] = cloexec[fds[t]] \cup {fd}]
              BY Zenon, <6>1, <5>2
            <7> QED
              BY Zenon, <5>2, <7>1
          <6>2. CASE cloexec' = [cloexec EXCEPT ![fds[t]] = IF call[t].fd = fd THEN @ ELSE @ \ {fd}]
            <7>1. PICK S : S = IF call[t].fd = fd THEN cloexec[fds[t]] ELSE cloexec[fds[t]] \ {fd}
              BY Zenon
            <7>2. cloexec' = [cloexec EXCEPT ![fds[t]] = S] /\ S \in SUBSET Fd
              BY Zenon, <5>2, <6>2, <7>1
            <7> QED
              BY Zenon, <7>2
          <6> QED
            BY Zenon, <5>1, <6>1, <6>2
        <5> QED
          BY Zenon, <3>4, <5>1, <5>3
      <4> QED
        BY Zenon, <4>1, <4>2
    <3> QED
      BY Zenon, <3>3, <3>5
  <2> QED
    BY Zenon, <2>1, <2>2, <2>3
<1>5. CountCovers' /\ FreeInv' /\ CallInv' /\ call' \in [Thread -> Call]
  BY Zenon, <1>1, <1>2, <1>4, KernelPart
<1>6. TypeOK'
  BY Zenon, <1>1, <1>4, <1>5 DEF IInv, TypeOK, lfdvars
<1> QED
  BY Zenon, <1>5, <1>6 DEF IInv

LfdTypes ==
    /\ count \in [Lfd -> Nat] /\ file \in [Lfd -> File \cup {0}]
    /\ sfd \in [Lfd -> File \cup {-1}] /\ hte \in [Lfd -> BOOLEAN]
    /\ link \in [Lfd -> Lfd \cup {-1}] /\ lfd_tabfree \in Lfd \cup {-1}
    /\ lfd_tabmax \in 0..NLfd /\ svc \in [File -> Int]

(* A call gives up the lfd it holds.                                       *)
LEMMA GiveUp ==
  ASSUME IInv, NEW t \in Thread, call[t].op \in {"open", "dup"}, lfd_close(call[t].lfd),
         lfdlist' = lfdlist, call' = [call EXCEPT ![t] = NoCall]
  PROVE  CountCovers' /\ FreeInv' /\ LfdTypes'
<1>1. PICK l \in Lfd \cup {-1} : l = call[t].lfd
  BY Zenon DEF IInv, TypeOK, Call
<1>2. t \in Held(l)
  BY Zenon, <1>1 DEF Held
<1>3. l # -1 => l \in Lfd /\ count[l] >= 1
  BY Zenon, <1>2, ReferredCounts DEF IInv
<1>4. /\ LfdTypes' /\ \A m \in Lfd : m # l => count'[m] = count[m]
      /\ l # -1 => count'[l] = count[l] - 1
  BY Zenon, <1>1, <1>3, CloseFacts DEF IInv, LfdTypes
<1>5. \A m : Held(m)' = Held(m) \ {t} /\ Named(m)' = Named(m)
  <2>1. NoCall.op = "none" /\ TypeOK
    BY Zenon DEF NoCall, IInv
  <2>2. \A m : Held(m)' = Held(m) \ {t}
    BY Zenon, <2>1, HeldAfter
  <2> QED
    BY Zenon, <2>2, NamedSame
<1>6. ASSUME NEW m \in Lfd PROVE Covered(m)'
  <2>1. count[m] \in Nat /\ Covered(m)
    BY Zenon, ReferredCounts DEF IInv
  <2>2. CASE m = l
    <3>1. l # -1
      BY <2>2 DEF Lfd
    <3> QED
      BY Zenon, <1>2, <1>4, <1>5, <2>1, <2>2, <3>1, CoverHeldLess
  <2>3. CASE m # l
    BY <1>4, <1>5, <2>1, <2>3, CoverLess
  <2> QED
    BY Zenon, <2>2, <2>3
<1>7. FreeInv'
  <2>1. CASE l = -1
    <3>1. UNCHANGED <<count, link, lfd_tabfree, lfd_tabmax>>
      BY Zenon, <1>1, <2>1 DEF lfd_close, lfdvars
    <3> QED
      BY Zenon, <3>1, FreeSame DEF IInv
  <2>2. CASE l # -1
    BY Zenon, <1>1, <1>3, <2>2, FreeClose DEF IInv
  <2> QED
    BY Zenon, <2>1, <2>2
<1> QED
  BY Zenon, <1>4, <1>6, <1>7 DEF CountCovers, Covered

(* A descriptor gives up the lfd it refers to.                             *)
LEMMA Deregister ==
  ASSUME IInv, NEW p \in Table, NEW f \in Fd, lfd_close(lfdlist[p][f]),
         lfdlist' = [lfdlist EXCEPT ![p][f] = -1], \A l : Held(l)' \subseteq Held(l)
  PROVE  CountCovers' /\ FreeInv' /\ LfdTypes'
<1>1. PICK l \in Lfd \cup {-1} : l = lfdlist[p][f]
  BY DEF IInv, TypeOK
<1>2. <<p, f>> \in Named(l)
  BY Zenon, <1>1 DEF Named
<1>3. l # -1 => l \in Lfd /\ count[l] >= 1
  BY Zenon, <1>2, ReferredCounts DEF IInv
<1>4. /\ LfdTypes' /\ \A m \in Lfd : m # l => count'[m] = count[m]
      /\ l # -1 => count'[l] = count[l] - 1
  BY Zenon, <1>1, <1>3, CloseFacts DEF IInv, LfdTypes
<1>5. ASSUME NEW m \in Lfd PROVE Covered(m)'
  <2>1. count[m] \in Nat /\ Covered(m)
    BY Zenon, ReferredCounts DEF IInv
  <2>2. Named(m)' = Named(m) \ {<<p, f>>}
    <3>1. m # -1 /\ TypeOK /\ SetEntry(p, f, -1)
      BY DEF Lfd, IInv, SetEntry
    <3> QED
      BY <3>1, NamedAfter
  <2>3. CASE m = l
    <3>1. l # -1
      BY <2>3 DEF Lfd
    <3> QED
      BY Zenon, <1>2, <1>4, <2>1, <2>2, <2>3, <3>1, CoverNamedLess
  <2>4. CASE m # l
    BY SMTT(20), <1>4, <2>1, <2>2, <2>4, CoverLess
  <2> QED
    BY Zenon, <2>3, <2>4
<1>6. FreeInv'
  <2>1. CASE l = -1
    <3>1. UNCHANGED <<count, link, lfd_tabfree, lfd_tabmax>>
      BY Zenon, <1>1, <2>1 DEF lfd_close, lfdvars
    <3> QED
      BY Zenon, <3>1, FreeSame DEF IInv
  <2>2. CASE l # -1
    BY Zenon, <1>1, <1>3, <2>2, FreeClose DEF IInv
  <2> QED
    BY Zenon, <2>1, <2>2
<1> QED
  BY Zenon, <1>4, <1>5, <1>6 DEF CountCovers, Covered

(* A call returns.                                                         *)
LEMMA Returns ==
  ASSUME IInv, NEW t \in Thread, NEW op \in {"open", "close", "dup"}, Out(t, op), Return(t),
         fds' = fds, closing' = closing
  PROVE  /\ CallInv' /\ call' \in [Thread -> Call] /\ call' = [call EXCEPT ![t] = NoCall]
         /\ fds[t] \in Table /\ \A l : Held(l)' = Held(l) \ {t}
<1>1. call[t].op = op /\ call' = [call EXCEPT ![t] = NoCall]
  BY Zenon DEF Out, Return
<1>2. NoCall.op = "none" /\ closing # t
  BY Zenon, ConstAssumption DEF NoCall, Out
<1>3. CallInv' /\ call' \in [Thread -> Call]
  BY Zenon, <1>1, <1>2, NoCallType, CallAfter
<1>4. fds[t] \in Table
  BY Zenon, <1>1 DEF IInv, TypeOK, CallInv
<1>5. \A l : Held(l)' = Held(l) \ {t}
  BY Zenon, <1>1, <1>2, HeldAfter DEF IInv
<1> QED
  BY Zenon, <1>1, <1>3, <1>4, <1>5

(* The reference of the call becomes the one of the descriptor.            *)
LEMMA StepOpenOut ==
  ASSUME IInv, NEW t \in Thread, wrap_out_open(t)
  PROVE  IInv'
<1>1. /\ CallInv' /\ call' \in [Thread -> Call] /\ call' = [call EXCEPT ![t] = NoCall]
      /\ fds[t] \in Table /\ \A l : Held(l)' = Held(l) \ {t}
  BY Zenon, Returns DEF wrap_out_open
<1>2. PICK c \in Call : c = call[t]
  BY Zenon DEF IInv, TypeOK
<1>3. CASE c.rv >= 0
  <2>1. PICK f \in Fd : f = c.rv
    <3>1. c.rv \in -1..NFd - 1
      BY Zenon DEF Call
    <3>2. c.rv \in Fd
      BY <1>3, <3>1, ConstAssumption DEF Fd
    <3> QED
      BY Zenon, <3>2
  <2> PICK m : m = c.lfd
    BY Zenon
  <2>2. lfdlist' = [lfdlist EXCEPT ![fds[t]][f] = m] /\ UNCHANGED lfdvars
    BY Zenon, <1>2, <1>3, <2>1 DEF wrap_out_open, lfd_register
  <2>0. TypeOK /\ SetEntry(fds[t], f, m)
    BY Zenon, <2>2 DEF SetEntry, IInv
  <2>3. ASSUME NEW l \in Lfd PROVE Covered(l)'
    <3>1. count[l] \in Nat /\ Covered(l) /\ count'[l] = count[l]
      BY Zenon, <2>2, ReferredCounts DEF IInv, lfdvars
    <3>2. CASE l = m
      <4>1. t \in Held(l)
        BY Zenon, <1>2, <3>2 DEF Held, wrap_out_open, Out
      <4>2. Named(l)' = Named(l) \cup {<<fds[t], f>>}
        BY SMTT(20), <1>1, <2>0, <3>2, NamedAfter
      <4> QED
        BY Zenon, <1>1, <3>1, <4>1, <4>2, CoverMoves
    <3>3. CASE l # m
      <4>1. Named(l)' = Named(l) \ {<<fds[t], f>>}
        BY <1>1, <2>0, <3>3, NamedAfter
      <4> QED
        BY <1>1, <3>1, <4>1, CoverLess
    <3> QED
      BY Zenon, <3>2, <3>3
  <2>4. CountCovers'
    BY Zenon, <2>3 DEF CountCovers, Covered
  <2>5. FreeInv'
    BY Zenon, <2>2, FreeSame DEF IInv, lfdvars
  <2>6. lfdlist' \in [Table -> [Fd -> Lfd \cup {-1}]] /\ fdset' \in [Table -> SUBSET Fd]
    <3>1. m \in Lfd \cup {-1}
      BY Zenon DEF Call
    <3>2. lfdlist' \in [Table -> [Fd -> Lfd \cup {-1}]]
      BY Zenon, <1>1, <2>2, <3>1 DEF IInv, TypeOK
    <3>3. fdset' = fdset \/ fdset' = [fdset EXCEPT ![fds[t]] = @ \cup {f}]
      BY Zenon, <1>2, <1>3, <2>1 DEF wrap_out_open, lfd_register
    <3>4. fdset' \in [Table -> SUBSET Fd]
      <4>1. fdset \in [Table -> SUBSET Fd] /\ fdset[fds[t]] \cup {f} \in SUBSET Fd
        BY Zenon, <1>1 DEF IInv, TypeOK
      <4> QED
        BY Zenon, <1>1, <3>3, <4>1
    <3> QED
      BY Zenon, <3>2, <3>4
  <2>7. TypeOK'
    BY Zenon, <1>1, <2>2, <2>6 DEF IInv, TypeOK, wrap_out_open, lfdvars
  <2> QED
    BY Zenon, <1>1, <2>4, <2>5, <2>7 DEF IInv
<1>4. CASE ~(c.rv >= 0)
  <2>1. lfd_close(call[t].lfd) /\ UNCHANGED <<lfdlist, fdset>> /\ call[t].op = "open"
    BY Zenon, <1>2, <1>4 DEF wrap_out_open, Out
  <2>2. CountCovers' /\ FreeInv' /\ LfdTypes'
    BY Zenon, <1>1, <2>1, GiveUp
  <2>3. TypeOK'
    BY Zenon, <1>1, <2>1, <2>2 DEF IInv, TypeOK, wrap_out_open, LfdTypes
  <2> QED
    BY Zenon, <1>1, <2>2, <2>3 DEF IInv
<1> QED
  BY Zenon, <1>3, <1>4

(* wrap_in_close changes what the service has open, not the counts.        *)
LEMMA StepCloseIn ==
  ASSUME IInv, NEW t \in Thread, NEW fd \in Fd, NEW ok \in BOOLEAN, wrap_in_close(t, fd, ok)
  PROVE  IInv'
<1>1. PICK at \in {"kernel", "kernel_only"} : Enter(t, "close", at, -1, fd, -1)
  BY Zenon DEF wrap_in_close
<1>2. PICK r : r = [op |-> "close", at |-> at, lfd |-> -1, fd |-> fd, old |-> -1,
                    rv |-> -1, child |-> NULL]
  BY Zenon
<1>3. r \in Call /\ r.op = "close" /\ r.fd = fd
  <2>0. NFd \in Nat /\ NFd >= 1
    BY Zenon, NFdType
  <2>1. fd \in -1..NFd /\ -1 \in -1..NFd - 1
    BY <2>0 DEF Fd
  <2> QED
    BY Zenon, <1>2, <2>1 DEF Call
<1>4. call' = [call EXCEPT ![t] = r]
  BY Zenon, <1>1, <1>2 DEF Enter
<1>5. /\ fds[t] # NULL /\ call[t].op = "none" /\ closing = NULL
      /\ UNCHANGED <<count, file, hte, link, lfd_tabfree, lfd_tabmax, lfdlist, fds,
                     closing, kern, cloexec, fdset, opened>>
  BY Zenon DEF wrap_in_close, CanCall
<1>6. CountCovers' /\ FreeInv'
  BY Zenon, <1>3, <1>4, <1>5, TablesSame
<1>7. CallInv' /\ call' \in [Thread -> Call]
  BY Zenon, <1>3, <1>4, <1>5, CallAfter, ConstAssumption
<1>8. sfd' \in [Lfd -> File \cup {-1}] /\ svc' \in [File -> Int]
  <2>1. sfd \in [Lfd -> File \cup {-1}] /\ svc \in [File -> Int]
    BY Zenon DEF IInv, TypeOK
  <2>2. \/ UNCHANGED <<sfd, svc>>
        \/ \E l, v : sfd' = [sfd EXCEPT ![l] = -1] /\ svc' = [svc EXCEPT ![v] = @ - 1]
    BY Zenon DEF wrap_in_close
  <2>3. ASSUME NEW l PROVE [sfd EXCEPT ![l] = -1] \in [Lfd -> File \cup {-1}]
    BY Zenon, <2>1
  <2>4. ASSUME NEW v PROVE [svc EXCEPT ![v] = @ - 1] \in [File -> Int]
    <3>1. CASE v \in File
      <4>1. PICK w : w = svc[v] - 1
        BY Zenon
      <4>2. [svc EXCEPT ![v] = w] \in [File -> Int]
        BY <2>1, <3>1, <4>1
      <4> QED
        BY Zenon, <4>1, <4>2
    <3>2. CASE v \notin File
      BY Zenon, <2>1, <3>2
    <3> QED
      BY Zenon, <3>1, <3>2
  <2>5. CASE UNCHANGED <<sfd, svc>>
    BY Zenon, <2>1, <2>5
  <2>6. CASE ~UNCHANGED <<sfd, svc>>
    <3>1. PICK l, v : sfd' = [sfd EXCEPT ![l] = -1] /\ svc' = [svc EXCEPT ![v] = @ - 1]
      BY Zenon, <2>2, <2>6
    <3> QED
      BY Zenon, <2>3, <2>4, <3>1
  <2> QED
    BY Zenon, <2>5, <2>6
<1>9. TypeOK'
  BY Zenon, <1>5, <1>7, <1>8 DEF IInv, TypeOK
<1> QED
  BY Zenon, <1>6, <1>7, <1>9 DEF IInv

(* wrap_out_close: the descriptor gives up its lfd.                        *)
LEMMA StepCloseOut ==
  ASSUME IInv, NEW t \in Thread, wrap_out_close(t)
  PROVE  IInv'
<1>1. /\ CallInv' /\ call' \in [Thread -> Call] /\ call' = [call EXCEPT ![t] = NoCall]
      /\ fds[t] \in Table /\ \A l : Held(l)' = Held(l) \ {t}
  BY Zenon, Returns DEF wrap_out_close
<1>2. PICK f \in Fd : f = call[t].fd
  BY Zenon DEF IInv, CallInv, wrap_out_close, Out
<1>3. /\ lfd_close(lfdlist[fds[t]][f]) /\ lfdlist' = [lfdlist EXCEPT ![fds[t]][f] = -1]
      /\ fdset' = fdset \/ fdset' = [fdset EXCEPT ![fds[t]] = @ \ {f}]
  BY Zenon, <1>2 DEF wrap_out_close, lfd_deregister_n_close, fd2lfd
<1>4. CountCovers' /\ FreeInv' /\ LfdTypes'
  BY Zenon, <1>1, <1>3, Deregister
<1>5. lfdlist' \in [Table -> [Fd -> Lfd \cup {-1}]]
  BY Zenon, <1>1, <1>3 DEF IInv, TypeOK
<1>6. fdset' \in [Table -> SUBSET Fd]
  BY SMTT(20), <1>1, <1>3 DEF IInv, TypeOK
<1>7. TypeOK'
  BY Zenon, <1>1, <1>4, <1>5, <1>6 DEF IInv, TypeOK, LfdTypes, wrap_out_close
<1> QED
  BY Zenon, <1>1, <1>4, <1>7 DEF IInv

(* A call that is going to register one descriptor more for m begins.      *)
LEMMA DupBegins ==
  ASSUME IInv, NEW t \in Thread, CanCall(t), NEW r \in Call, NEW m \in Lfd \cup {-1},
         call' = [call EXCEPT ![t] = r], r.op = "dup", r.lfd = m, r.fd \in Fd,
         m # -1 => Named(m) # {} /\ lfd_dup(m), m = -1 => UNCHANGED lfdvars,
         UNCHANGED <<lfdlist, fds, closing, kern, cloexec, fdset, opened>>
  PROVE  IInv'
<1>1. fds[t] # NULL /\ call[t].op = "none" /\ closing = NULL /\ TypeOK /\ t # NULL
  BY Zenon, ConstAssumption DEF CanCall, IInv
<1>2. CallInv' /\ call' \in [Thread -> Call]
  BY Zenon, <1>1, CallAfter
<1>3. ASSUME NEW l, l # m PROVE Held(l)' = Held(l) \ {t}
  <2>1. call'[t] = r /\ \A u \in Thread \ {t} : call'[u] = call[u]
    BY Zenon, <1>1 DEF TypeOK
  <2> QED
    BY Zenon, <1>3, <2>1 DEF Held
<1>4. Held(m)' = Held(m) \cup {t}
  BY Zenon, <1>1, HeldAfter
<1>5. \A l : Named(l)' = Named(l)
  BY Zenon, NamedSame
<1>6. m # -1 => m \in Lfd /\ count[m] >= 1 /\ count' = [count EXCEPT ![m] = @ + 1]
  BY Zenon, ReferredCounts DEF IInv, lfd_dup
<1>7. /\ \A l \in Lfd : l # m => count'[l] = count[l]
      /\ m # -1 => count'[m] = count[m] + 1
      /\ count' \in [Lfd -> Nat]
  <2>1. count \in [Lfd -> Nat]
    BY Zenon DEF IInv, TypeOK
  <2>2. CASE m = -1
    BY Zenon, <2>1, <2>2 DEF lfdvars
  <2>3. CASE m # -1
    BY <1>6, <2>1, <2>3
  <2> QED
    BY Zenon, <2>2, <2>3
<1>8. ASSUME NEW l \in Lfd PROVE Covered(l)'
  <2>1. count[l] \in Nat /\ Covered(l)
    BY Zenon, ReferredCounts DEF IInv
  <2>2. CASE l = m
    <3>1. m # -1
      BY <2>2 DEF Lfd
    <3> QED
      BY Zenon, <1>4, <1>5, <1>7, <2>1, <2>2, <3>1, CoverMore
  <2>3. CASE l # m
    BY <1>3, <1>5, <1>7, <2>1, <2>3, CoverLess
  <2> QED
    BY Zenon, <2>2, <2>3
<1>9. UNCHANGED <<file, sfd, hte, link, lfd_tabfree, lfd_tabmax, svc>>
  BY Zenon DEF lfd_dup, lfdvars
<1>10. FreeInv'
  <2>1. \A l \in Lfd : (count'[l] = 0) = (count[l] = 0)
    <3>1. ASSUME NEW l \in Lfd PROVE (count'[l] = 0) = (count[l] = 0)
      <4>1. CASE l = m
        <5>1. count[m] \in Nat /\ count[m] >= 1 /\ count'[m] = count[m] + 1
          BY <1>6, <1>7, <4>1 DEF Lfd, IInv, TypeOK
        <5> QED
          BY SMTT(20), <4>1, <5>1
      <4>2. CASE l # m
        BY Zenon, <1>7, <4>2
      <4> QED
        BY Zenon, <4>1, <4>2
    <3> QED
      BY Zenon, <3>1
  <2> QED
    BY Zenon, <1>9, <2>1, FreeSame DEF IInv
<1>11. CountCovers'
  BY Zenon, <1>8 DEF CountCovers, Covered
<1>12. TypeOK'
  BY Zenon, <1>2, <1>7, <1>9 DEF IInv, TypeOK
<1> QED
  BY Zenon, <1>2, <1>10, <1>11, <1>12 DEF IInv

(* dup and fcntl count the descriptor they are going to register.          *)
LEMMA StepDupIn ==
  ASSUME IInv, NEW t \in Thread, NEW fd \in Fd, NEW old \in Fd \cup {-1},
         wrap_in_dup(t, fd, old) \/ wrap_in_fcntl(t, fd)
  PROVE  IInv'
<1>1. /\ CanCall(t) /\ fds[t] \in Table
      /\ UNCHANGED <<lfdlist, fds, closing, kern, cloexec, fdset, opened>>
  BY Zenon DEF wrap_in_dup, wrap_in_fcntl, CanCall, IInv, TypeOK
<1>2. PICK l \in Lfd \cup {-1} : l = fd2lfd(t, fd) /\ l = lfdlist[fds[t]][fd]
  BY <1>1 DEF fd2lfd, IInv, TypeOK
<1>3. PICK m \in {l, -1}, at \in {"kernel", "kernel_only"}, o \in {old, -1} :
         /\ Enter(t, "dup", at, m, fd, o)
         /\ m # -1 => lfd_dup(m)
         /\ m = -1 => UNCHANGED lfdvars
  <2>1. CASE wrap_in_dup(t, fd, old)
    <3>1. l >= 0 <=> l # -1
      BY DEF Lfd
    <3>2. PICK at \in {"kernel", "kernel_only"} : Enter(t, "dup", at, l, fd, old)
      BY Zenon, <1>2, <2>1 DEF wrap_in_dup
    <3>3. IF l >= 0 THEN lfd_dup(l) ELSE UNCHANGED lfdvars
      BY Zenon, <1>2, <2>1 DEF wrap_in_dup
    <3> QED
      BY Zenon, <3>1, <3>2, <3>3
  <2>2. CASE wrap_in_fcntl(t, fd)
    <3>1. ht_fd(t, fd) => l # -1
      BY <1>2 DEF ht_fd
    <3> QED
      BY Zenon, <1>2, <2>2, <3>1 DEF wrap_in_fcntl
  <2> QED
    BY Zenon, <2>1, <2>2
<1>4. PICK r : r = [op |-> "dup", at |-> at, lfd |-> m, fd |-> fd, old |-> o,
                    rv |-> -1, child |-> NULL]
  BY Zenon
<1>5. r \in Call /\ r.op = "dup" /\ r.lfd = m /\ r.fd = fd
  <2>0. NFd \in Nat /\ NFd >= 1
    BY Zenon, NFdType
  <2>1. fd \in -1..NFd /\ -1 \in -1..NFd - 1 /\ o \in -1..NFd - 1
    BY <2>0 DEF Fd
  <2> QED
    BY Zenon, <1>4, <2>1 DEF Call
<1>6. call' = [call EXCEPT ![t] = r]
  BY Zenon, <1>3, <1>4 DEF Enter
<1>7. m # -1 => <<fds[t], fd>> \in Named(m)
  BY Zenon, <1>1, <1>2 DEF Named
<1> QED
  BY Zenon, <1>1, <1>3, <1>5, <1>6, <1>7, DupBegins

(* F_DUPFD after EBADF: a descriptor is forgotten, its lfd is still        *)
(* counted.                                                                *)
LEMMA StepFcntlOut ==
  ASSUME IInv, NEW t \in Thread, NEW fd \in Fd, NEW old \in Fd, wrap_out_fcntl(t, fd, old)
  PROVE  IInv'
<1>1. /\ TypeOK /\ fds[t] \in Table /\ SetEntry(fds[t], old, -1)
      /\ UNCHANGED <<lfdvars, fds, call, closing, kern, cloexec, fdset, opened>>
  BY Zenon DEF wrap_out_fcntl, CanCall, IInv, TypeOK, SetEntry
<1>2. UNCHANGED <<count, file, sfd, hte, link, lfd_tabfree, lfd_tabmax, svc>>
  BY Zenon, <1>1 DEF lfdvars
<1>3. ASSUME NEW l \in Lfd PROVE Covered(l)'
  <2>1. l # -1
    BY DEF Lfd
  <2>2. Named(l)' = Named(l) \ {<<fds[t], old>>}
    BY <1>1, <2>1, NamedAfter
  <2>3. Held(l)' = Held(l)
    BY Zenon, <1>1 DEF Held
  <2>4. count[l] \in Nat /\ Covered(l)
    BY Zenon, ReferredCounts DEF IInv
  <2> QED
    BY Zenon, <1>2, <2>2, <2>3, <2>4, CoverSame
<1>4. CountCovers'
  BY Zenon, <1>3 DEF CountCovers, Covered
<1>5. FreeInv' /\ CallInv'
  BY Zenon, <1>1, <1>2 DEF IInv, FreeInv, Free, CallInv
<1>6. lfdlist' \in [Table -> [Fd -> Lfd \cup {-1}]]
  BY Zenon, <1>1 DEF SetEntry, TypeOK
<1>7. TypeOK'
  BY Zenon, <1>1, <1>2, <1>6 DEF TypeOK
<1> QED
  BY Zenon, <1>4, <1>5, <1>7 DEF IInv

(* wrap_out_dup: the descriptor replaced gives up its lfd, the call hands  *)
(* over its own.                                                           *)
LEMMA StepDupOut ==
  ASSUME IInv, NEW t \in Thread, wrap_out_dup(t)
  PROVE  IInv'
<1>1. /\ CallInv' /\ call' \in [Thread -> Call] /\ call' = [call EXCEPT ![t] = NoCall]
      /\ fds[t] \in Table /\ \A l : Held(l)' = Held(l) \ {t}
  BY Zenon, Returns DEF wrap_out_dup
<1>2. PICK c \in Call : c = call[t] /\ c.op = "dup"
  BY Zenon DEF IInv, TypeOK, wrap_out_dup, Out
<1>3. CASE c.rv >= 0
  <2>1. PICK f \in Fd : f = c.rv
    <3>1. c.rv \in -1..NFd - 1
      BY Zenon DEF Call
    <3>2. c.rv \in Fd
      BY <1>3, <3>1, NFdType DEF Fd
    <3> QED
      BY Zenon, <3>2
  <2>2. PICK p \in Table, m \in Lfd \cup {-1}, old \in -1..NFd - 1 :
           p = fds[t] /\ m = c.lfd /\ old = c.old
    BY Zenon, <1>1 DEF Call
  <2>3. PICK o \in Lfd \cup {-1} : o = fd2lfd(t, old)
    BY <2>2 DEF fd2lfd, IInv, TypeOK
  <2>4. o # -1 => old \in Fd /\ lfdlist[p][old] = o /\ <<p, old>> \in Named(o)
    BY Zenon, <2>2, <2>3 DEF fd2lfd, Named
  <2>5. /\ lfd_close(o)
        /\ lfdlist' = [lfdlist EXCEPT ![p] = [fd \in Fd |->
                          IF fd = f /\ m >= 0 THEN m ELSE IF fd = old THEN -1 ELSE @[fd]]]
        /\ \E X \in SUBSET (fdset[p] \cup {f}) : fdset' = [fdset EXCEPT ![p] = X]
    BY Zenon, <1>2, <1>3, <2>1, <2>2, <2>3 DEF wrap_out_dup
  <2>6. o # -1 => o \in Lfd /\ count[o] >= 1
    BY Zenon, <2>4, ReferredCounts DEF IInv
  <2>7. /\ LfdTypes' /\ \A l \in Lfd : l # o => count'[l] = count[l]
        /\ o # -1 => count'[o] = count[o] - 1
    BY Zenon, <2>5, <2>6, CloseFacts DEF IInv, LfdTypes
  <2>8. ASSUME NEW l \in Lfd
        PROVE  /\ l # m => Named(l)' \subseteq Named(l) \ {<<p, old>>}
               /\ Named(l)' \subseteq (Named(l) \ {<<p, old>>}) \cup {<<p, f>>}
    <3>1. ASSUME NEW q \in Table, NEW g \in Fd
          PROVE  lfdlist'[q][g] = IF q # p THEN lfdlist[q][g]
                                  ELSE IF g = f /\ m >= 0 THEN m
                                  ELSE IF g = old THEN -1 ELSE lfdlist[q][g]
      <4>1. lfdlist \in [Table -> [Fd -> Lfd \cup {-1}]]
        BY Zenon DEF IInv, TypeOK
      <4> QED
        BY Zenon, <2>5, <4>1
    <3>2. l # -1
      BY DEF Lfd
    <3>3. ASSUME NEW x \in Named(l)'
          PROVE  \/ l = m /\ x = <<p, f>>
                 \/ x \in Named(l) /\ x # <<p, old>>
      <4>1. PICK q \in Table, g \in Fd : x = <<q, g>> /\ lfdlist'[q][g] = l
        BY DEF Named
      <4>2. \/ q = p /\ g = f /\ m = l
            \/ lfdlist[q][g] = l /\ ~(q = p /\ g = old)
        BY Zenon, <3>1, <3>2, <4>1
      <4> QED
        BY Zenon, <4>1, <4>2 DEF Named
    <3> QED
      BY Zenon, <3>3
  <2>9. ASSUME NEW l \in Lfd PROVE Covered(l)'
    <3>1. count[l] \in Nat /\ Covered(l) /\ l # -1
      BY ReferredCounts DEF IInv, Lfd
    <3>2. l = m => t \in Held(l)
      BY Zenon, <1>2, <2>2 DEF Held
    <3>3. CASE l = m /\ l = o
      BY Zenon, <1>1, <2>4, <2>7, <2>8, <3>1, <3>2, <3>3, CoverReplaces
    <3>4. CASE l = m /\ l # o
      BY Zenon, <1>1, <2>7, <2>8, <3>1, <3>2, <3>4, CoverMoves
    <3>5. CASE l # m /\ l = o
      BY Zenon, <1>1, <2>4, <2>7, <2>8, <3>1, <3>5, CoverNamedLess
    <3>6. CASE l # m /\ l # o
      BY SMTT(20), <1>1, <2>7, <2>8, <3>1, <3>6, CoverLess
    <3> QED
      BY Zenon, <3>3, <3>4, <3>5, <3>6
  <2>10. CountCovers'
    BY Zenon, <2>9 DEF CountCovers, Covered
  <2>11. FreeInv'
    <3>1. CASE o = -1
      <4>1. UNCHANGED <<count, link, lfd_tabfree, lfd_tabmax>>
        BY Zenon, <2>5, <3>1 DEF lfd_close, lfdvars
      <4> QED
        BY Zenon, <4>1, FreeSame DEF IInv
    <3>2. CASE o # -1
      BY Zenon, <2>5, <2>6, <3>2, FreeClose DEF IInv
    <3> QED
      BY Zenon, <3>1, <3>2
  <2>12. lfdlist' \in [Table -> [Fd -> Lfd \cup {-1}]]
    BY <2>5 DEF IInv, TypeOK
  <2>13. fdset' \in [Table -> SUBSET Fd]
    <3>1. PICK X \in SUBSET (fdset[p] \cup {f}) : fdset' = [fdset EXCEPT ![p] = X]
      BY Zenon, <2>5
    <3>2. fdset \in [Table -> SUBSET Fd] /\ X \in SUBSET Fd
      BY Zenon DEF IInv, TypeOK
    <3> QED
      BY Zenon, <3>1, <3>2
  <2>14. TypeOK'
    BY Zenon, <1>1, <2>7, <2>12, <2>13 DEF IInv, TypeOK, LfdTypes, wrap_out_dup
  <2> QED
    BY Zenon, <1>1, <2>10, <2>11, <2>14 DEF IInv
<1>4. CASE ~(c.rv >= 0)
  <2>1. lfd_close(call[t].lfd) /\ UNCHANGED <<lfdlist, fdset>> /\ call[t].op = "dup"
    BY Zenon, <1>2, <1>4 DEF wrap_out_dup, Out
  <2>2. CountCovers' /\ FreeInv' /\ LfdTypes'
    BY Zenon, <1>1, <2>1, GiveUp
  <2>3. TypeOK'
    BY Zenon, <1>1, <2>1, <2>2 DEF IInv, TypeOK, wrap_out_dup, LfdTypes
  <2> QED
    BY Zenon, <1>1, <2>2, <2>3 DEF IInv
<1> QED
  BY Zenon, <1>3, <1>4

(* The kernel ends a thread: a call in progress forgets the lfd it holds,  *)
(* which keeps its count.                                                  *)
LEMMA StepExit ==
  ASSUME IInv, NEW t \in Thread, kernel_exit(t)
  PROVE  IInv'
<1>1. PICK r : r = [op |-> "exit", at |-> "out", lfd |-> -1, fd |-> 0, old |-> -1,
                    rv |-> -1, child |-> NULL]
  BY Zenon
<1>2. r \in Call /\ r.op = "exit"
  BY <1>1, NFdType DEF Call
<1>3. call' = [call EXCEPT ![t] = r]
  BY Zenon, <1>1 DEF kernel_exit, Enter
<1>4. /\ fds[t] # NULL /\ call[t].op # "born" /\ fds[t] \in Table
      /\ UNCHANGED <<lfdvars, lfdlist, fds, closing, opened>>
  BY Zenon DEF kernel_exit, IInv, TypeOK
<1>5. CallInv' /\ call' \in [Thread -> Call]
  BY Zenon, <1>2, <1>3, <1>4, CallAfter
<1>6. CountCovers' /\ FreeInv'
  BY Zenon, <1>2, <1>3, <1>4, TablesSame DEF lfdvars
<1>7. /\ kern' \in [Table -> [Fd -> File \cup {-1, 0}]]
      /\ cloexec' \in [Table -> SUBSET Fd] /\ fdset' \in [Table -> SUBSET Fd]
  <2>1. PICK p \in Table : p = fds[t]
    BY Zenon, <1>4
  <2>2. /\ kern \in [Table -> [Fd -> File \cup {-1, 0}]]
        /\ cloexec \in [Table -> SUBSET Fd] /\ fdset \in [Table -> SUBSET Fd]
    BY Zenon DEF IInv, TypeOK
  <2>3. \/ UNCHANGED <<kern, cloexec, fdset>>
        \/ /\ kern' = [kern EXCEPT ![p] = [f \in Fd |-> 0]]
           /\ cloexec' = [cloexec EXCEPT ![p] = {}] /\ fdset' = [fdset EXCEPT ![p] = {}]
    BY Zenon, <2>1 DEF kernel_exit
  <2>4. kern' \in [Table -> [Fd -> File \cup {-1, 0}]]
    BY <2>2, <2>3
  <2>5. cloexec' \in [Table -> SUBSET Fd]
    BY Zenon, <2>2, <2>3
  <2>6. fdset' \in [Table -> SUBSET Fd]
    BY Zenon, <2>2, <2>3
  <2> QED
    BY Zenon, <2>4, <2>5, <2>6
<1>8. TypeOK'
  BY Zenon, <1>4, <1>5, <1>7 DEF IInv, TypeOK, lfdvars
<1> QED
  BY Zenon, <1>5, <1>6, <1>8 DEF IInv

(* Forks in progress that a step leaves alone have different children.      *)
LEMMA ForksDiffer ==
  ASSUME IInv, \A u \in Thread : call'[u].op = "fork" => call'[u] = call[u]
  PROVE  \A u, v \in Thread : call'[u].op = "fork" /\ call'[v].op = "fork"
            /\ call'[u].child = call'[v].child => u = v
<1>1. SUFFICES ASSUME NEW u \in Thread, NEW v \in Thread, call'[u].op = "fork",
                      call'[v].op = "fork", call'[u].child = call'[v].child
               PROVE  u = v
  BY Zenon
<1>2. call'[u] = call[u] /\ call'[v] = call[v]
  BY Zenon, <1>1
<1>3. call[u].op = "fork" /\ call[v].op = "fork" /\ call[u].child = call[v].child
  BY Zenon, <1>1, <1>2
<1> QED
  BY Zenon, <1>3 DEF IInv, CallInv

(* The thread is gone: nothing refers to it any more.                      *)
LEMMA Dropped ==
  ASSUME IInv, NEW t \in Thread, call[t].op = "exit", Drop(t), closing' = NULL
  PROVE  IInv'
<1>1. /\ call' = [call EXCEPT ![t] = NoCall] /\ fds' = [fds EXCEPT ![t] = NULL]
      /\ UNCHANGED <<lfdvars, lfdlist, kern, cloexec, fdset, opened>>
  BY Zenon DEF Drop, Return
<1>2. NoCall.op = "none" /\ NoCall \in Call
  BY Zenon, NoCallType DEF NoCall
<1>3. CountCovers' /\ FreeInv'
  BY Zenon, <1>1, <1>2, TablesSame DEF lfdvars
<1>4. call \in [Thread -> Call] /\ fds \in [Thread -> Table \cup {NULL}]
  BY Zenon DEF IInv, TypeOK
<1>5. /\ call'[t].op = "none"
      /\ \A u \in Thread \ {t} : call'[u] = call[u] /\ fds'[u] = fds[u]
  BY Zenon, <1>1, <1>2, <1>4
<1>6. CallInv'
  <2>1. \A u \in Thread : call[u].child \in Thread \cup {NULL}
    BY Zenon, <1>4 DEF Call
  <2>2. \A u \in Thread : call'[u].op # "none" =>
           u # t /\ call'[u] = call[u] /\ fds'[u] = fds[u]
    BY Zenon, <1>5
  <2>3. \A u \in Thread : call[u].op = "fork" =>
           call[u].child \in Thread \ {t} /\ call[call[u].child].op = "born"
    BY Zenon, <2>1 DEF IInv, CallInv
  <2>4. \A u \in Thread : call'[u].op = "fork" =>
           call'[u].child # NULL /\ call'[call'[u].child].op = "born"
    <3>1. ASSUME NEW u \in Thread, call'[u].op = "fork"
          PROVE  call'[u].child # NULL /\ call'[call'[u].child].op = "born"
      <4>1. call'[u] = call[u] /\ call[u].op = "fork"
        BY Zenon, <2>2, <3>1
      <4>2. call[u].child # NULL /\ call[u].child \in Thread \ {t}
            /\ call[call[u].child].op = "born"
        BY Zenon, <2>3, <4>1 DEF IInv, CallInv
      <4> QED
        BY Zenon, <1>5, <4>1, <4>2
    <3> QED
      BY Zenon, <3>1
  <2>5. \A u, v \in Thread : call'[u].op = "fork" /\ call'[v].op = "fork"
           /\ call'[u].child = call'[v].child => u = v
    <3>1. \A u \in Thread : call'[u].op = "fork" => call'[u] = call[u]
      BY Zenon, <2>2
    <3> QED
      BY Zenon, <3>1, ForksDiffer
  <2>6. /\ \A u \in Thread : call'[u].op # "none" => fds'[u] # NULL
        /\ \A u \in Thread : call'[u].op = "open" => call'[u].lfd # -1
        /\ \A u \in Thread : call'[u].op \in {"dup", "close"} => call'[u].fd \in Fd
    BY Zenon, <2>2 DEF IInv, CallInv
  <2> QED
    BY Zenon, <2>4, <2>5, <2>6 DEF CallInv
<1>7. call' \in [Thread -> Call] /\ fds' \in [Thread -> Table \cup {NULL}]
  BY Zenon, <1>1, <1>2, <1>4
<1>8. TypeOK'
  BY Zenon, <1>1, <1>7 DEF IInv, TypeOK, lfdvars
<1> QED
  BY Zenon, <1>3, <1>6, <1>8 DEF IInv

(* umproc_delproc: the descriptors of the table give up their lfds one by  *)
(* one.                                                                    *)
LEMMA StepDel ==
  ASSUME IInv, NEW t \in Thread, umproc_delproc(t)
  PROVE  IInv'
<1>1. call[t].op = "exit" /\ t # NULL
  BY Zenon, ConstAssumption DEF umproc_delproc, Out, IInv, CallInv
<1>2. CASE Drop(t) /\ closing' = NULL
  BY Zenon, <1>1, <1>2, Dropped
<1>3. CASE /\ closing = NULL /\ closing' = t
           /\ UNCHANGED <<lfdvars, lfdlist, fds, call, kern, cloexec, fdset, opened>>
  <2>1. CallInv'
    BY Zenon, <1>1, <1>3 DEF IInv, CallInv
  <2>2. CountCovers'
    BY Zenon, <1>3 DEF IInv, CountCovers, References, Named, Held, lfdvars
  <2>3. FreeInv'
    BY Zenon, <1>3 DEF IInv, FreeInv, Free, lfdvars
  <2>4. TypeOK'
    BY Zenon, <1>3 DEF IInv, TypeOK, lfdvars
  <2> QED
    BY Zenon, <2>1, <2>2, <2>3, <2>4 DEF IInv
<1>4. CASE /\ closing = t /\ call[t].fd \in Fd
           /\ lfd_close(lfdlist[fds[t]][call[t].fd])
           /\ lfdlist' = [lfdlist EXCEPT ![fds[t]][call[t].fd] = -1]
           /\ call' = [call EXCEPT ![t].fd = @ + 1]
           /\ UNCHANGED <<fds, closing, kern, cloexec, fdset, opened>>
  <2>1. PICK c \in Call, f \in Fd : c = call[t] /\ f = call[t].fd
    BY Zenon, <1>4 DEF IInv, TypeOK
  <2>2. PICK r : r = [c EXCEPT !.fd = f + 1]
    BY Zenon
  <2>3. r \in Call /\ r.op = "exit"
    <3>1. f + 1 \in -1..NFd
      BY NFdType DEF Fd
    <3> QED
      BY Zenon, <1>1, <2>1, <2>2, <3>1 DEF Call
  <2>4. call' = [call EXCEPT ![t] = r]
    BY Zenon, <1>4, <2>1, <2>2
  <2>5. fds[t] \in Table /\ TypeOK /\ fds[t] # NULL
    BY Zenon, <1>1 DEF IInv, TypeOK, CallInv
  <2>6. CallInv' /\ call' \in [Thread -> Call]
    BY Zenon, <1>1, <1>4, <2>3, <2>4, <2>5, CallAfter
  <2>7. \A l : Held(l)' \subseteq Held(l)
    <3>1. call'[t].op = "exit" /\ \A u \in Thread \ {t} : call'[u] = call[u]
      BY Zenon, <2>3, <2>4, <2>5 DEF TypeOK
    <3> QED
      BY Zenon, <3>1 DEF Held
  <2>8. CountCovers' /\ FreeInv' /\ LfdTypes'
    BY Zenon, <1>4, <2>1, <2>5, <2>7, Deregister
  <2>9. lfdlist' \in [Table -> [Fd -> Lfd \cup {-1}]]
    BY Zenon, <1>4, <2>1, <2>5 DEF TypeOK
  <2>10. TypeOK'
    BY Zenon, <1>4, <2>5, <2>6, <2>8, <2>9 DEF TypeOK, LfdTypes
  <2> QED
    BY Zenon, <2>6, <2>8, <2>10 DEF IInv
<1> QED
  BY Zenon, <1>2, <1>3, <1>4 DEF umproc_delproc, Out

(* The kernel makes a thread: the two wait for umproc_addproc.             *)
LEMMA StepFork ==
  ASSUME IInv, NEW t \in Thread, NEW c \in Thread, NEW q \in Table, kernel_fork(t, c, q)
  PROVE  IInv'
<1>1. PICK r, s : /\ r = [NoCall EXCEPT !.op = "fork", !.at = "out", !.child = c]
                  /\ s = [NoCall EXCEPT !.op = "born", !.at = "out"]
  BY Zenon
<1>2. r \in Call /\ s \in Call /\ r.op = "fork" /\ r.child = c /\ s.op = "born"
  BY Zenon, <1>1, NoCallType DEF Call, NoCall
<1>3. /\ fds[t] # NULL /\ fds[c] = NULL /\ call[t].op = "none" /\ closing = NULL
      /\ fds' = [fds EXCEPT ![c] = q] /\ fds[t] \in Table /\ c # NULL /\ q # NULL
      /\ call' = [call EXCEPT ![t] = r, ![c] = s]
      /\ UNCHANGED <<lfdvars, lfdlist, closing, opened>>
  BY Zenon, <1>1, ConstAssumption DEF kernel_fork, CanCall, IInv, TypeOK
<1>4. /\ call \in [Thread -> Call] /\ fds \in [Thread -> Table \cup {NULL}]
      /\ call[c].op = "none" /\ t # c
  BY Zenon, <1>3 DEF IInv, TypeOK, CallInv
<1>5. /\ call'[t] = r /\ call'[c] = s /\ fds'[c] = q
      /\ \A u \in Thread \ {t, c} : call'[u] = call[u]
      /\ \A u \in Thread \ {c} : fds'[u] = fds[u]
  BY Zenon, <1>3, <1>4
<1>6. \A l : Held(l)' \subseteq Held(l) /\ Named(l)' = Named(l)
  BY Zenon, <1>2, <1>3, <1>5, NamedSame DEF Held
<1>7. CountCovers'
  <2>1. ASSUME NEW l \in Lfd PROVE Covered(l)'
    <3>1. count[l] \in Nat /\ Covered(l) /\ count'[l] = count[l]
      BY Zenon, <1>3, ReferredCounts DEF IInv, lfdvars
    <3> QED
      BY Zenon, <1>6, <3>1, CoverSame
  <2> QED
    BY Zenon, <2>1 DEF CountCovers, Covered
<1>8. FreeInv'
  BY Zenon, <1>3, FreeSame DEF IInv, lfdvars
<1>9. CallInv'
  <2>1. \A u \in Thread : call[u].child \in Thread \cup {NULL}
    BY Zenon, <1>4 DEF Call
  <2>2. \A u \in Thread \ {t, c} : call[u].op = "fork" =>
           call[u].child \notin {t, c, NULL} /\ call'[call[u].child].op = "born"
    BY Zenon, <1>3, <1>4, <1>5, <2>1 DEF IInv, CallInv
  <2>3. \A u \in Thread : call'[u].op = "fork" =>
           call'[u].child # NULL /\ call'[call'[u].child].op = "born"
    <3>1. call'[t].child = c /\ call'[c].op = "born" /\ c # NULL
      BY Zenon, <1>2, <1>3, <1>5
    <3>2. ASSUME NEW u \in Thread \ {t, c}, call'[u].op = "fork"
          PROVE  call'[u].child # NULL /\ call'[call'[u].child].op = "born"
      <4>1. call'[u] = call[u]
        BY Zenon, <1>5
      <4> QED
        BY Zenon, <2>2, <3>2, <4>1
    <3> QED
      BY Zenon, <3>1, <3>2
  <2>4. \A u, v \in Thread : call'[u].op = "fork" /\ call'[v].op = "fork"
           /\ call'[u].child = call'[v].child => u = v
    <3>1. /\ call'[t].child = c /\ call'[c].op # "fork"
          /\ \A u \in Thread \ {t, c} : call'[u] = call[u]
      BY Zenon, <1>2, <1>5
    <3>2. \A u \in Thread \ {t, c} : call'[u].op = "fork" => call'[u].child # c
      BY Zenon, <2>2, <3>1
    <3>3. \A u, v \in Thread \ {t, c} : call[u].op = "fork" /\ call[v].op = "fork"
             /\ call[u].child = call[v].child => u = v
      BY Zenon DEF IInv, CallInv
    <3>4. \A u, v \in Thread \ {t, c} : call'[u].op = "fork" /\ call'[v].op = "fork"
             /\ call'[u].child = call'[v].child => u = v
      BY Zenon, <3>1, <3>3
    <3> QED
      BY Zenon, <3>1, <3>2, <3>4
  <2>5. \A u \in Thread : call'[u].op # "none" => fds'[u] # NULL
    BY Zenon, <1>3, <1>4, <1>5 DEF IInv, CallInv
  <2>6. \A u \in Thread : /\ call'[u].op = "open" => call'[u].lfd # -1
                          /\ call'[u].op \in {"dup", "close"} => call'[u].fd \in Fd
    BY Zenon, <1>2, <1>5 DEF IInv, CallInv
  <2> QED
    BY Zenon, <1>3, <2>3, <2>4, <2>5, <2>6 DEF CallInv
<1>10. call' \in [Thread -> Call] /\ fds' \in [Thread -> Table \cup {NULL}]
  BY Zenon, <1>2, <1>3, <1>4
<1>11. /\ kern' \in [Table -> [Fd -> File \cup {-1, 0}]]
       /\ cloexec' \in [Table -> SUBSET Fd] /\ fdset' \in [Table -> SUBSET Fd]
  <2>1. /\ kern \in [Table -> [Fd -> File \cup {-1, 0}]]
        /\ cloexec \in [Table -> SUBSET Fd] /\ fdset \in [Table -> SUBSET Fd]
    BY Zenon DEF IInv, TypeOK
  <2>2. PICK p \in Table : p = fds[t]
    BY Zenon, <1>3
  <2>3. \/ UNCHANGED <<kern, cloexec, fdset>>
        \/ /\ kern' = [kern EXCEPT ![q] = kern[p]]
           /\ cloexec' = [cloexec EXCEPT ![q] = cloexec[p]]
           /\ fdset' = [fdset EXCEPT ![q] = fdset[p]]
    BY Zenon, <2>2 DEF kernel_fork
  <2>4. kern[p] \in [Fd -> File \cup {-1, 0}] /\ cloexec[p] \subseteq Fd /\ fdset[p] \subseteq Fd
    BY Zenon, <2>1
  <2>5. kern' \in [Table -> [Fd -> File \cup {-1, 0}]]
    BY Zenon, <2>1, <2>3, <2>4
  <2>6. cloexec' \in [Table -> SUBSET Fd]
    BY Zenon, <2>1, <2>3, <2>4
  <2>7. fdset' \in [Table -> SUBSET Fd]
    BY Zenon, <2>1, <2>3, <2>4
  <2> QED
    BY Zenon, <2>5, <2>6, <2>7
<1>12. TypeOK'
  BY Zenon, <1>3, <1>10, <1>11 DEF IInv, TypeOK, lfdvars
<1> QED
  BY Zenon, <1>7, <1>8, <1>9, <1>12 DEF IInv

(* The entries a copy of table p brings to table q.                        *)
LEMMA CopiedEntries ==
  ASSUME NEW p, NEW q, NEW l
  PROVE  /\ IsFiniteSet(Entries(p, l)) /\ IsFiniteSet({<<q, f>> : f \in Entries(p, l)})
         /\ Cardinality({<<q, f>> : f \in Entries(p, l)}) <= Cardinality(Entries(p, l))
<1>1. PICK E, X : E = Entries(p, l) /\ X = {<<q, f>> : f \in E}
  BY Zenon
<1>2. IsFiniteSet(E)
  <2>1. IsFiniteSet(Fd)
    BY NFdType, FS_Interval DEF Fd
  <2>2. E \subseteq Fd
    BY Zenon, <1>1 DEF Entries
  <2> QED
    BY Zenon, <2>1, <2>2, FS_Subset
<1>3. PICK g : g = [f \in E |-> <<q, f>>]
  BY Zenon
<1>4. g \in [E -> X] /\ \A x \in X : \E f \in E : g[f] = x
  BY Zenon, <1>1, <1>3
<1>5. g \in Surjection(E, X)
  BY Zenon, <1>4 DEF Surjection
<1> QED
  BY Zenon, <1>1, <1>2, <1>5, FS_Surjection

(* umproc_addproc: every entry of the copied table counts once more.       *)
LEMMA StepAdd ==
  ASSUME IInv, NEW t \in Thread, umproc_addproc(t)
  PROVE  IInv'
<1>1. call \in [Thread -> Call] /\ fds \in [Thread -> Table \cup {NULL}]
  BY Zenon DEF IInv, TypeOK
<1>2. PICK c \in Thread : c = call[t].child
  <2>1. call[t].child \in Thread \cup {NULL} /\ call[t].child # NULL
    BY Zenon, <1>1 DEF umproc_addproc, Out, IInv, CallInv, Call
  <2> QED
    BY Zenon, <2>1
<1>3. call[t].op = "fork" /\ call[c].op = "born" /\ closing = NULL /\ t # c
  BY Zenon, <1>2 DEF umproc_addproc, Out, IInv, CallInv
<1>4. PICK p \in Table, q \in Table : p = fds[t] /\ q = fds[c]
  BY Zenon, <1>1, <1>3 DEF IInv, CallInv
<1>5. /\ call' = [call EXCEPT ![t] = NoCall, ![c] = NoCall]
      /\ UNCHANGED <<file, sfd, hte, link, lfd_tabfree, lfd_tabmax, svc, fds, closing,
                     kern, cloexec, fdset, opened>>
      /\ q = p => UNCHANGED <<lfdlist, count>>
      /\ q # p => /\ lfdlist' = [lfdlist EXCEPT ![q] = lfdlist[p]]
                  /\ count' = [l \in Lfd |-> count[l] + Cardinality(Entries(p, l))]
  BY Zenon, <1>2, <1>4 DEF umproc_addproc
<1>6. NoCall.op = "none" /\ NoCall \in Call
  BY Zenon, NoCallType DEF NoCall
<1>7. /\ call'[t].op = "none" /\ call'[c].op = "none" /\ call' \in [Thread -> Call]
      /\ \A u \in Thread \ {t, c} : call'[u] = call[u]
  BY Zenon, <1>1, <1>5, <1>6
<1>8. CallInv'
  <2>1. \A u \in Thread : call[u].child \in Thread \cup {NULL}
    BY Zenon, <1>1 DEF Call
  <2>2. \A u \in Thread \ {t, c} : call[u].op = "fork" =>
           /\ call[u].child \notin {t, c, NULL}
           /\ call[call[u].child].op = "born" /\ call'[call[u].child] = call[call[u].child]
    BY Zenon, <1>2, <1>3, <1>7, <2>1 DEF IInv, CallInv
  <2>3. \A u \in Thread : call'[u].op = "fork" =>
           call'[u].child # NULL /\ call'[call'[u].child].op = "born"
    <3>1. ASSUME NEW u \in Thread, call'[u].op = "fork"
          PROVE  call'[u].child # NULL /\ call'[call'[u].child].op = "born"
      <4>1. u \in Thread \ {t, c} /\ call'[u] = call[u]
        BY Zenon, <1>7, <3>1
      <4> QED
        BY Zenon, <2>2, <3>1, <4>1
    <3> QED
      BY Zenon, <3>1
  <2>4. \A u \in Thread : call'[u].op # "none" => call'[u] = call[u]
    BY Zenon, <1>7
  <2>5. \A u, v \in Thread : call'[u].op = "fork" /\ call'[v].op = "fork"
           /\ call'[u].child = call'[v].child => u = v
    <3>1. \A u \in Thread : call'[u].op = "fork" => call'[u] = call[u]
      BY Zenon, <2>4
    <3> QED
      BY Zenon, <3>1, ForksDiffer
  <2>6. /\ \A u \in Thread : call'[u].op # "none" => fds'[u] # NULL
        /\ \A u \in Thread : call'[u].op = "open" => call'[u].lfd # -1
        /\ \A u \in Thread : call'[u].op \in {"dup", "close"} => call'[u].fd \in Fd
    BY Zenon, <1>5, <2>4 DEF IInv, CallInv
  <2> QED
    BY Zenon, <1>3, <1>5, <2>3, <2>5, <2>6 DEF CallInv
<1>9. \A l : Held(l)' \subseteq Held(l)
  BY Zenon, <1>7 DEF Held
<1>10. CASE q = p
  <2>1. \A l : Named(l)' = Named(l)
    BY Zenon, <1>5, <1>10, NamedSame
  <2>2. ASSUME NEW l \in Lfd PROVE Covered(l)'
    <3>1. count[l] \in Nat /\ Covered(l) /\ count'[l] = count[l]
      BY Zenon, <1>5, <1>10, ReferredCounts DEF IInv
    <3> QED
      BY Zenon, <1>9, <2>1, <3>1, CoverSame
  <2>3. CountCovers'
    BY Zenon, <2>2 DEF CountCovers, Covered
  <2>4. FreeInv'
    BY Zenon, <1>5, <1>10, FreeSame DEF IInv
  <2>5. TypeOK'
    BY Zenon, <1>5, <1>7, <1>10 DEF IInv, TypeOK
  <2> QED
    BY Zenon, <1>8, <2>3, <2>4, <2>5 DEF IInv
<1>11. CASE q # p
  <2>1. lfdlist \in [Table -> [Fd -> Lfd \cup {-1}]] /\ count \in [Lfd -> Nat]
    BY Zenon DEF IInv, TypeOK
  <2>2. /\ lfdlist' \in [Table -> [Fd -> Lfd \cup {-1}]]
        /\ lfdlist'[q] = lfdlist[p] /\ \A x \in Table \ {q} : lfdlist'[x] = lfdlist[x]
    BY Zenon, <1>5, <1>11, <2>1
  <2>3. ASSUME NEW l \in Lfd
        PROVE  /\ Covered(l)' /\ count'[l] \in Nat /\ (count'[l] = 0) = (count[l] = 0)
    <3>1. PICK E, X : E = Entries(p, l) /\ X = {<<q, f>> : f \in E}
      BY Zenon
    <3>2. IsFiniteSet(E) /\ IsFiniteSet(X) /\ Cardinality(X) <= Cardinality(E)
      BY Zenon, <3>1, CopiedEntries
    <3>3. Named(l)' \subseteq Named(l) \cup X
      BY <2>2, <3>1 DEF Named, Entries
    <3>4. count[l] \in Nat /\ Covered(l) /\ (Named(l) # {} => count[l] >= 1)
      BY Zenon, ReferredCounts DEF IInv
    <3>5. count'[l] = count[l] + Cardinality(E)
      BY Zenon, <1>5, <1>11, <3>1
    <3>6. Cardinality(E) \in Nat
      BY Zenon, <3>2, FS_CardinalityType
    <3>7. Cardinality(E) # 0 => Named(l) # {}
      <4>1. SUFFICES ASSUME Named(l) = {}  PROVE E = {}
        BY Zenon, FS_EmptySet
      <4>2. \A f \in E : <<p, f>> \in Named(l)
        BY Zenon, <3>1 DEF Entries, Named
      <4> QED
        BY Zenon, <4>1, <4>2
    <3> QED
      BY Zenon, <1>9, <3>2, <3>3, <3>4, <3>5, <3>6, <3>7, CoverCopied
  <2>4. CountCovers'
    BY Zenon, <2>3 DEF CountCovers, Covered
  <2>5. FreeInv'
    BY Zenon, <1>5, <2>3, FreeSame DEF IInv
  <2>6. count' \in [Lfd -> Nat]
    BY Zenon, <1>5, <1>11, <2>3
  <2>7. TypeOK'
    BY Zenon, <1>5, <1>7, <2>2, <2>6 DEF IInv, TypeOK
  <2> QED
    BY Zenon, <1>8, <2>4, <2>5, <2>7 DEF IInv
<1> QED
  BY Zenon, <1>10, <1>11

-----------------------------------------------------------------------------
(* Nothing is referred to at the start.                                    *)
LEMMA InitInv == Init => IInv
<1> SUFFICES ASSUME Init PROVE IInv
  BY Zenon
<1>1. \A l \in Lfd : l # -1
  BY DEF Lfd
<1>2. \A t \in Thread : call[t] = NoCall
  BY Zenon DEF Init
<1>3. NoCall.op = "none" /\ NoCall \in Call
  BY Zenon, NoCallType DEF NoCall
<1>4. TypeOK
  <2>1. call \in [Thread -> Call]
    BY Zenon, <1>3 DEF Init
  <2>2. 0 \in 0..NOpen /\ 0 \in 0..NLfd
    BY ConstAssumption
  <2>3. fds \in [Thread -> Table \cup {NULL}]
    BY Zenon DEF Init
  <2> QED
    BY <2>1, <2>2, <2>3 DEF Init, TypeOK
<1>5. CountCovers
  <2>1. ASSUME NEW l \in Lfd PROVE References(l) <= count[l]
    <3>1. Named(l) = {}
      BY Zenon, <1>1 DEF Named, Init
    <3>2. Held(l) = {}
      BY Zenon, <1>2, <1>3 DEF Held
    <3>3. Cardinality({}) = 0 /\ count[l] = 0
      BY Zenon, FS_EmptySet DEF Init
    <3> QED
      BY <3>1, <3>2, <3>3 DEF References
  <2> QED
    BY Zenon, <2>1 DEF CountCovers
<1>6. FreeInv
  BY Zenon, ConstAssumption DEF Init, FreeInv, Free, Lfd
<1>7. CallInv
  BY Zenon, <1>2, <1>3 DEF Init, CallInv
<1> QED
  BY Zenon, <1>4, <1>5, <1>6, <1>7 DEF IInv

(* Every step of a thread preserves the invariant.                         *)
LEMMA NextInv == IInv /\ [Next]_vars => IInv'
<1> SUFFICES ASSUME IInv, [Next]_vars PROVE IInv'
  BY Zenon
<1>1. CASE UNCHANGED vars
  <2>1. CountCovers'
    BY Zenon, <1>1 DEF IInv, CountCovers, References, Named, Held, vars
  <2>2. FreeInv' /\ CallInv'
    BY Zenon, <1>1 DEF IInv, FreeInv, Free, CallInv, vars
  <2>3. TypeOK'
    BY Zenon, <1>1 DEF IInv, TypeOK, vars
  <2> QED
    BY Zenon, <2>1, <2>2, <2>3 DEF IInv
<1>2. ASSUME NEW t \in Thread, Step(t) PROVE IInv'
  <2>1. ASSUME NEW kind \in Kinds \ {"real"}, wrap_in_open(t, kind = "virtual") PROVE IInv'
    <3>1. PICK virtual \in BOOLEAN : virtual = (kind = "virtual")
      BY Zenon
    <3> QED
      BY Zenon, <2>1, <3>1, StepOpenIn
  <2>2. CASE open_real(t) \/ kernel_execve(t)
    BY Zenon, <2>2, StepOpenReal
  <2>3. CASE kernel_open(t) \/ kernel_close(t) \/ kernel_dup(t)
    BY Zenon, <2>3, StepKernel
  <2>4. CASE wrap_out_open(t) \/ wrap_out_close(t) \/ wrap_out_dup(t)
    BY Zenon, <2>4, StepOpenOut, StepCloseOut, StepDupOut
  <2>5. ASSUME NEW fd \in Fd, NEW ok \in BOOLEAN, wrap_in_close(t, fd, ok) PROVE IInv'
    BY Zenon, <2>5, StepCloseIn
  <2>6. ASSUME NEW fd \in Fd, NEW old \in Fd \cup {-1}, wrap_in_dup(t, fd, old) PROVE IInv'
    BY Zenon, <2>6, StepDupIn
  <2>7. ASSUME NEW fd \in Fd, wrap_in_fcntl(t, fd) PROVE IInv'
    BY Zenon, <2>7, StepDupIn
  <2>8. ASSUME NEW c \in Thread, NEW q \in Table, kernel_fork(t, c, q) PROVE IInv'
    BY Zenon, <2>8, StepFork
  <2>10. ASSUME NEW fd \in Fd, NEW old \in Fd, wrap_out_fcntl(t, fd, old) PROVE IInv'
    BY Zenon, <2>10, StepFcntlOut
  <2>9. CASE umproc_addproc(t) \/ kernel_exit(t) \/ umproc_delproc(t)
    BY Zenon, <2>9, StepAdd, StepExit, StepDel
  <2> QED
    BY Zenon, <1>2, <2>1, <2>2, <2>3, <2>4, <2>5, <2>6, <2>7, <2>8, <2>9, <2>10 DEF Step
<1> QED
  BY Zenon, <1>1, <1>2 DEF Next

(* The types hold of every reachable state: no count becomes negative, so  *)
(* lfd_close never runs on an lfd that is free already.                    *)
THEOREM TypeCorrect == Spec => []TypeOK
<1>1. IInv => TypeOK
  BY Zenon DEF IInv
<1> QED
  BY InitInv, NextInv, <1>1, PTL DEF Spec

(* An lfd is freed only when no descriptor of any table and no call in     *)
(* progress refers to it: the count lfd_open, lfd_dup, umproc_addproc and  *)
(* lfd_close keep covers the references, with any number of threads that   *)
(* share tables, fork, exec, are killed inside a call, or close and        *)
(* replace descriptors while others do.                                    *)
THEOREM CountAlwaysCovers == Spec => []CountCovers
<1>1. IInv => CountCovers
  BY Zenon DEF IInv
<1> QED
  BY InitInv, NextInv, <1>1, PTL DEF Spec
====
