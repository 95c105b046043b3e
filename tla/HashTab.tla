------------------------------ MODULE HashTab ------------------------------
(***************************************************************************)
(* The hash table of services of xmview (xmview/hashtab.c): mounts as      *)
(* layers and the search for the layer that serves a pathname.             *)
(*                                                                         *)
(* tab is the chain of elements, the last one added first, as the hash     *)
(* chains hold them.  An element of the chain that has another hash sum or *)
(* another name is skipped by the code; here it is skipped because its     *)
(* path is not the prefix the scan is at.  Whether an element belongs to   *)
(* the view of the searching process (tst_matchingepoch, see Treepoch) is  *)
(* its field match.                                                        *)
(*                                                                         *)
(* A pathname is a sequence of characters: "/", digits and letters.  Only  *)
(* the type CHECKPATH is modelled; the other types of elements use the     *)
(* same scan with fewer places to stop.  NEGATIVE_MOUNT has no user in the *)
(* source and is left out.                                                 *)
(***************************************************************************)
EXTENDS Integers, Sequences, FiniteSets

CONSTANTS
    Mounts,        \* the elements that may be added: path, trail, exc, match
    SearchPaths,   \* what is searched
    MaxElem,       \* bound: elements in the table
    MaxEpoch       \* bound: value of epoch_now

ASSUME ConstAssumption ==
    /\ MaxElem \in Nat /\ MaxEpoch \in Nat /\ MaxEpoch >= 2
    /\ \A m \in Mounts : m.path \in Seq(STRING) /\ {m.trail, m.exc, m.match} \subseteq BOOLEAN
    /\ \A p \in SearchPaths : p \in Seq(STRING)

VARIABLES
    tab,           \* ht_hash, ht_hash0
    epoch_now,
    scan,          \* the search in progress
    carrot,        \* carh of ht_tab_internal_search
    cur,           \* the place in the carrot of carrot_insert and of the search
    rv,            \* the result of the last search, a set of at most one element
    met, refused   \* history: the elements the scan met, those not confirmed

vars == <<tab, epoch_now, scan, carrot, cur, rv, met, refused>>
found == <<carrot, cur, rv, met, refused>>

Digit == {"0", "1"}
Idle == [phase |-> "idle"]

Elem == [path : {m.path : m \in Mounts}, epoch : 2 .. MaxEpoch, trail : BOOLEAN, exc : BOOLEAN,
         match : BOOLEAN, invalid : BOOLEAN]

Scan == [phase : {"scan", "insert", "confirm", "done"}, path : SearchPaths,
         exact : BOOLEAN, lim : 2 .. MaxEpoch, len : Nat, i : Nat]

Elems == {tab[i] : i \in 1 .. Len(tab)}

Rest(p, n) == SubSeq(p, n + 1, Len(p))

(* only digits, at least one, and not all of them "0"                      *)
trailnum(s) == /\ s # <<>>
               /\ \A i \in 1 .. Len(s) : s[i] \in Digit
               /\ \E i \in 1 .. Len(s) : s[i] # "0"

ht_scan_stop_slip(p, n, exact) == n = Len(p) \/ (~exact /\ trailnum(Rest(p, n)))
ht_scan_stop(p, n, exact) ==
    \/ n = Len(p)
    \/ ~exact /\ (p[n + 1] = "/" \/ trailnum(Rest(p, n)))

(* the condition under which the scan takes an element into the carrot     *)
Hit(e, p, n, lim) ==
    /\ e.path = SubSeq(p, 1, n)
    /\ e.trail \/ ~trailnum(Rest(p, n))
    /\ lim > e.epoch /\ e.match /\ ~e.invalid

Newer(f, e) == f.epoch >= e.epoch

(* what carrot_insert leaves of the carrot c when it puts e at place k     *)
put_slip(c, e, k) == SubSeq(c, 1, k - 1) \o <<e>> \o SubSeq(c, k, Len(c))
put(c, e, k) ==
    SubSeq(c, 1, k - 1) \o <<e>> \o (IF e.exc THEN SubSeq(c, k, Len(c)) ELSE <<>>)

-----------------------------------------------------------------------------
Init == /\ tab = <<>> /\ epoch_now = 2 /\ scan = Idle /\ carrot = <<>> /\ cur = 1
        /\ rv = {} /\ met = {} /\ refused = {}

(* ht_tab_pathadd and internal_ht_tab_add: the element gets a new time and *)
(* goes to the head of its chain.                                          *)
internal_ht_tab_add(m) ==
    /\ scan = Idle /\ Len(tab) < MaxElem /\ epoch_now < MaxEpoch
    /\ tab' = <<[path |-> m.path, epoch |-> epoch_now, trail |-> m.trail, exc |-> m.exc,
                 match |-> m.match, invalid |-> FALSE]>> \o tab
    /\ epoch_now' = epoch_now + 1
    /\ UNCHANGED <<scan, found>>

(* a new time for an element that keeps its place in the chain.  Neither   *)
(* this nor ht_tab_invalidate takes the lock: their callers (the mount and *)
(* umount functions of the modules, del_service) run in the thread that    *)
(* searches, so that no search of it is in progress                        *)
ht_renew(i) ==
    /\ scan = Idle /\ epoch_now < MaxEpoch
    /\ tab' = [tab EXCEPT ![i] = [@ EXCEPT !.epoch = epoch_now, !.match = TRUE]]
    /\ epoch_now' = epoch_now + 1
    /\ UNCHANGED <<scan, found>>

ht_tab_invalidate(i) ==
    /\ scan = Idle /\ ~tab[i].invalid
    /\ tab' = [tab EXCEPT ![i] = [@ EXCEPT !.invalid = TRUE]]
    /\ UNCHANGED <<epoch_now, scan, found>>

ht_tab_del(i) ==
    /\ scan = Idle
    /\ tab' = SubSeq(tab, 1, i - 1) \o SubSeq(tab, i + 1, Len(tab))
    /\ UNCHANGED <<epoch_now, scan, found>>

(* ht_check: a search at the time lim, the time of the system call or, for *)
(* a call made by the module of a layer, the time of that layer.           *)
ht_check(p, exact, lim) ==
    /\ scan = Idle
    /\ scan' = [phase |-> "scan", path |-> p, exact |-> exact, lim |-> lim, len |-> 0, i |-> 0]
    /\ carrot' = <<>> /\ cur' = 1 /\ rv' = {} /\ met' = {} /\ refused' = {}
    /\ UNCHANGED <<tab, epoch_now>>

(* the places of the chain, after the one the scan is at, that are hits    *)
Hits == IF ht_scan_stop(scan.path, scan.len, scan.exact)
        THEN {j \in scan.i + 1 .. Len(tab) : Hit(tab[j], scan.path, scan.len, scan.lim)}
        ELSE {}

scan_hit ==
    /\ scan.phase = "scan"
    /\ \E j \in Hits :
          /\ \A k \in Hits : j <= k
          /\ scan' = [scan EXCEPT !.phase = "insert", !.i = j]
    /\ cur' = 1
    /\ UNCHANGED <<tab, epoch_now, carrot, rv, met, refused>>

(* carrot_insert goes on to the next entry of the carrot                   *)
insert_pass_slip(e) ==
    /\ cur <= Len(carrot) /\ carrot[cur].exc
    /\ cur' = cur + 1
    /\ UNCHANGED <<scan, carrot, met>>
insert_pass(e) ==
    /\ cur <= Len(carrot) /\ Newer(carrot[cur], e) /\ carrot[cur].exc
    /\ cur' = cur + 1
    /\ UNCHANGED <<scan, carrot, met>>

(* carrot_insert stops: at a newer layer without exceptions e is not       *)
(* needed, elsewhere it is put there, and without exceptions it ends the   *)
(* carrot                                                                  *)
insert_here(e) ==
    /\ ~(cur <= Len(carrot) /\ Newer(carrot[cur], e) /\ carrot[cur].exc)
    /\ carrot' = IF cur <= Len(carrot) /\ Newer(carrot[cur], e)
                 THEN carrot ELSE put(carrot, e, cur)
    /\ scan' = [scan EXCEPT !.phase = "scan"]
    /\ cur' = 1
    /\ met' = met \cup {e}

carrot_insert ==
    /\ scan.phase = "insert"
    /\ insert_pass(tab[scan.i]) \/ insert_here(tab[scan.i])
    /\ UNCHANGED <<tab, epoch_now, rv, refused>>

(* the chain is over: one more character, or the end of the pathname       *)
scan_next ==
    /\ scan.phase = "scan" /\ Hits = {}
    /\ scan' = IF scan.len < Len(scan.path)
               THEN [scan EXCEPT !.len = @ + 1, !.i = 0]
               ELSE [scan EXCEPT !.phase = "confirm"]
    /\ UNCHANGED <<tab, epoch_now, found>>

(* the first element of the carrot without exceptions, or confirmed by its *)
(* confirmation function, is the result                                    *)
confirm ==
    /\ scan.phase = "confirm" /\ cur <= Len(carrot)
    /\ \/ /\ rv' = {carrot[cur]} /\ scan' = [scan EXCEPT !.phase = "done"]
          /\ UNCHANGED <<cur, refused>>
       \/ /\ carrot[cur].exc
          /\ refused' = refused \cup {carrot[cur]} /\ cur' = cur + 1
          /\ UNCHANGED <<rv, scan>>
    /\ UNCHANGED <<tab, epoch_now, carrot, met>>

confirm_none ==
    /\ scan.phase = "confirm" /\ cur > Len(carrot)
    /\ scan' = [scan EXCEPT !.phase = "done"]
    /\ UNCHANGED <<tab, epoch_now, found>>

search_return ==
    /\ scan.phase = "done"
    /\ scan' = Idle /\ carrot' = <<>> /\ cur' = 1 /\ rv' = {} /\ met' = {} /\ refused' = {}
    /\ UNCHANGED <<tab, epoch_now>>

Next ==
    \/ \E m \in Mounts : internal_ht_tab_add(m)
    \/ \E i \in 1 .. Len(tab) : ht_renew(i) \/ ht_tab_invalidate(i) \/ ht_tab_del(i)
    \/ \E p \in SearchPaths, x \in BOOLEAN, lim \in 2 .. epoch_now : ht_check(p, x, lim)
    \/ scan_hit \/ carrot_insert \/ scan_next \/ confirm \/ confirm_none \/ search_return

Spec == Init /\ [][Next]_vars
-----------------------------------------------------------------------------
TypeOK ==
    /\ tab \in Seq(Elem) /\ epoch_now \in 2 .. MaxEpoch
    /\ carrot \in Seq(Elem) /\ cur \in 1 .. Len(carrot) + 1
    /\ rv \subseteq Elem /\ met \subseteq Elem /\ refused \subseteq Elem
    /\ scan \in {Idle} \cup Scan
    /\ scan # Idle => scan.len <= Len(scan.path) /\ scan.i <= Len(tab)

(* What lies under a mount point: the mount point itself and the files     *)
(* below it, and with trailing numbers (hashtab.c:193 "/dev/hda[0-9]*")    *)
(* the mount point followed by digits.                                     *)
Below(q, p) == Len(q) < Len(p) /\ SubSeq(p, 1, Len(q)) = q /\ p[Len(q) + 1] = "/"
Numbered(q, p) == /\ Len(q) < Len(p) /\ SubSeq(p, 1, Len(q)) = q
                  /\ \A i \in Len(q) + 1 .. Len(p) : p[i] \in Digit
Serves(e, p, exact, lim) ==
    /\ e.epoch < lim /\ e.match /\ ~e.invalid
    /\ \/ e.path = p
       \/ ~exact /\ (Below(e.path, p) \/ (e.trail /\ Numbered(e.path, p)))

(* ht_tab_internal_search, which looks only at some of the prefixes of the *)
(* pathname, meets exactly the layers that lie over it.                    *)
ScanMeetsAll ==
    scan.phase \in {"confirm", "done"} =>
        met = {e \in Elems : Serves(e, scan.path, scan.exact, scan.lim)}

(* hashtab.c:117 "the list is sorted from the newest to the oldest; a      *)
(* carrot contains all the layers up to the newest which do not have       *)
(* exceptions", in whatever order the scan met them.                       *)
CarrotIsLayers ==
    /\ \A i, j \in 1 .. Len(carrot) : i < j => carrot[i].epoch > carrot[j].epoch
    /\ {carrot[i] : i \in 1 .. Len(carrot)}
         = {e \in met : \A f \in met : f.exc \/ f.epoch <= e.epoch}

(* A search returns the newest layer over the pathname that has no         *)
(* exceptions or confirms, and nothing only if every layer refused.        *)
NewestLayerWins ==
    scan.phase = "done" =>
        /\ \A e \in rv : e \in met \ refused /\ \A f \in met \ refused : f.epoch <= e.epoch
        /\ rv = {} => met \subseteq refused

(* Times identify the elements: no two share one, and the next one given   *)
(* by get_epoch is later than all.                                         *)
TimesDiffer ==
    /\ \A i, j \in 1 .. Len(tab) : i # j => tab[i].epoch # tab[j].epoch
    /\ \A i \in 1 .. Len(tab) : tab[i].epoch < epoch_now
=============================================================================
