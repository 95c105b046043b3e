---------------------------- MODULE SysTimeouts -----------------------------
(***************************************************************************)
(* The timeouts of a thread of the lwipv6 stack (core/sys.c): a list in    *)
(* which every element holds the time that is left after the one before    *)
(* it.  The thread runs the handlers itself, whenever it waits for a       *)
(* message (sys_mbox_fetch) or for a semaphore (sys_sem_wait), and         *)
(* handlers and messages arm and cancel timeouts and may wait in turn.     *)
(*                                                                         *)
(* Time is counted as the code counts it, in the milliseconds that         *)
(* sys_arch_mbox_fetch and sys_arch_sem_wait report.  The list is private  *)
(* to the thread; other threads only post messages and signal semaphores.  *)
(* The raw timeouts (sys_timeout_raw), which nothing calls, are left out,  *)
(* and so is a memp_malloc that fails.                                     *)
(***************************************************************************)
EXTENDS Integers, Sequences

CONSTANTS Node,      \* struct sys_timeout: bound on the timeouts of the thread
          Handler,   \* the pairs (h, arg) of its callers
          Msecs,     \* the times they ask for
          NULL,
          MaxNow, MaxArm, MaxDepth  \* bounds: time, calls of sys_timeout, nested waits

ASSUME TimeoutsAssumption ==
    /\ NULL \notin Node /\ Msecs \subseteq Nat /\ Handler \cap Nat = {}
    /\ MaxNow \in Nat /\ MaxArm \in Nat /\ MaxDepth \in Nat \ {0}

VARIABLES head, next, time, hnd,  \* timeouts->next and the fields of the elements;
                                  \* a number d in hnd is sswt_handler for frame d
          linked,                 \* history: the elements that are in the list
          due, arm,               \* history: when it must run, and which call armed it
          now, narm,              \* history: time waited so far, calls of sys_timeout
          pc, new, cur, prev, key,  \* the loops of sys_timeout and sys_untimeout
          stack                   \* the waits of the thread, the outermost one first:
                                  \* the semaphore's count c and timeflag

lvars == <<head, next, time, hnd, linked, due, arm, now, narm>>
pvars == <<new, cur, prev, key>>
vars == <<lvars, pc, pvars, stack>>

Init ==
    /\ head = NULL /\ linked = {}
    /\ next = [n \in Node |-> NULL] /\ time = [n \in Node |-> 0]
    /\ hnd = [n \in Node |-> 0]
    /\ due = [n \in Node |-> 0] /\ arm = [n \in Node |-> 0]
    /\ now = 0 /\ narm = 0
    /\ pc = "wait" /\ new = NULL /\ cur = NULL /\ prev = NULL /\ key = 0
    /\ stack = <<[c |-> 0, timeflag |-> FALSE]>>

Top == Len(stack)

Later_slip(m, r) == m /= NULL => time[m] >= r

(* A new element with r milliseconds left goes before m. *)
Later(m, r) == m /= NULL => time[m] > r

(* sys_timeout up to its loop: the list is empty, or the new element comes *)
(* first, or a place is to be found.                                       *)
sys_timeout(x, msecs, back) ==
    /\ narm < MaxArm
    /\ \E n \in Node \ linked :
         /\ hnd' = [hnd EXCEPT ![n] = x]
         /\ due' = [due EXCEPT ![n] = now + msecs]
         /\ arm' = [arm EXCEPT ![n] = narm]
         /\ narm' = narm + 1
         /\ \/ /\ Later(head, msecs)
               /\ time' = [m \in Node |-> IF m = n THEN msecs
                                          ELSE IF m = head THEN time[m] - msecs ELSE time[m]]
               /\ next' = [next EXCEPT ![n] = head]
               /\ head' = n
               /\ linked' = linked \cup {n}
               /\ pc' = back
               /\ UNCHANGED <<new, cur>>
            \/ /\ ~Later(head, msecs)
               /\ time' = [time EXCEPT ![n] = msecs]
               /\ next' = [next EXCEPT ![n] = NULL]
               /\ new' = n /\ cur' = head
               /\ pc' = "insert"
               /\ UNCHANGED <<head, linked>>
    /\ UNCHANGED <<now, prev, key>>

(* One iteration of the loop of sys_timeout at the element cur. *)
insert ==
    LET r == time[new] - time[cur]
        after == next[cur]
    IN  /\ pc = "insert"
        /\ \/ /\ Later(after, r)
              /\ time' = [m \in Node |-> IF m = new THEN r
                                         ELSE IF m = after THEN time[m] - r ELSE time[m]]
              /\ next' = [next EXCEPT ![new] = after, ![cur] = new]
              /\ linked' = linked \cup {new}
              /\ pc' = IF hnd[new] \notin Handler THEN "wait" ELSE "run"
              /\ new' = NULL /\ cur' = NULL
           \/ /\ ~Later(after, r)
              /\ time' = [time EXCEPT ![new] = r]
              /\ cur' = after
              /\ UNCHANGED <<next, linked, pc, new>>
        /\ UNCHANGED <<head, hnd, due, arm, now, narm, prev, key, stack>>

(* sys_untimeout starts its search. *)
sys_untimeout(x) ==
    /\ key' = x /\ cur' = head /\ prev' = NULL
    /\ pc' = "cancel"
    /\ UNCHANGED <<lvars, new>>

unlinked_slip(n) == time

(* The next element takes over the time of the one that is taken out. *)
unlinked(n) ==
    [m \in Node |-> IF m = next[n] THEN time[m] + time[n] ELSE time[m]]

(* One iteration of its loop; the first match is taken out.  The wait that *)
(* cancelled its own timeout returns.                                      *)
cancel ==
    /\ pc = "cancel"
    /\ \/ /\ cur /= NULL /\ hnd[cur] /= key
          /\ prev' = cur /\ cur' = next[cur]
          /\ UNCHANGED <<lvars, pc, key, stack>>
       \/ /\ \/ cur = NULL /\ UNCHANGED <<head, next, time, linked>>
             \/ /\ cur /= NULL /\ hnd[cur] = key
                /\ head' = IF prev = NULL THEN next[cur] ELSE head
                /\ next' = IF prev = NULL THEN next ELSE [next EXCEPT ![prev] = next[cur]]
                /\ time' = unlinked(cur)
                /\ linked' = linked \ {cur}
          /\ pc' = "run"
          /\ stack' = IF key \notin Handler THEN SubSeq(stack, 1, Top - 1) ELSE stack
          /\ prev' = NULL /\ cur' = NULL /\ key' = 0
          /\ UNCHANGED <<hnd, due, arm, now, narm>>
    /\ UNCHANGED new

(* What the thread waits for comes after d milliseconds, not later than    *)
(* the first timeout, which is charged with them.                          *)
Charge(d) ==
    /\ IF head = NULL THEN d = 0 ELSE time[head] > 0 /\ d <= time[head]
    /\ now + d <= MaxNow
    /\ time' = [m \in Node |-> IF m = head THEN time[m] - d ELSE time[m]]
    /\ now' = now + d
    /\ UNCHANGED <<head, next, hnd, linked, due, arm, narm, pvars>>

(* sys_mbox_fetch returns a message; the caller handles it. *)
sys_mbox_fetch ==
    /\ pc = "wait" /\ Top = 1
    /\ \E d \in 0 .. MaxNow : Charge(d)
    /\ pc' = "run"
    /\ UNCHANGED stack

(* sys_sem_wait takes the semaphore. *)
sys_sem_wait ==
    /\ pc = "wait" /\ Top > 1 /\ stack[Top].c > 0
    /\ \E d \in 0 .. MaxNow : Charge(d)
    /\ pc' = "took"
    /\ stack' = [stack EXCEPT ![Top].c = @ - 1]

(* The time of the first element is over, in either wait: it is taken out  *)
(* and its handler runs.  sswt_handler only sets the flag and signals.     *)
timeout ==
    /\ pc = "wait" /\ head /= NULL
    /\ time[head] > 0 => Top = 1 \/ stack[Top].c = 0
    /\ now + time[head] <= MaxNow
    /\ now' = now + time[head]
    /\ head' = next[head]
    /\ linked' = linked \ {head}
    /\ \/ /\ hnd[head] \notin Handler
          /\ stack' = [stack EXCEPT ![hnd[head]] = [c |-> 1, timeflag |-> TRUE]]
          /\ pc' = pc
       \/ hnd[head] \in Handler /\ pc' = "run" /\ UNCHANGED stack
    /\ UNCHANGED <<next, time, hnd, due, arm, narm, pvars>>

(* The handler of a message or of a timeout runs: it arms and cancels, and *)
(* returns to the wait that called it.                                     *)
Arm ==
    /\ pc = "run"
    /\ \E x \in Handler, msecs \in Msecs : sys_timeout(x, msecs, "run")
    /\ UNCHANGED stack

Cancel == pc = "run" /\ (\E x \in Handler : sys_untimeout(x)) /\ UNCHANGED stack

Return == pc = "run" /\ pc' = "wait" /\ UNCHANGED <<lvars, pvars, stack>>

(* It waits for a semaphore, for ever or with a timeout (sys_msleep has a  *)
(* semaphore nobody signals).                                              *)
sys_sem_wait_timeout ==
    /\ pc = "run" /\ Top < MaxDepth
    /\ stack' = Append(stack, [c |-> 0, timeflag |-> FALSE])
    /\ \/ pc' = "wait" /\ UNCHANGED <<lvars, pvars>>
       \/ \E msecs \in Msecs \ {0} : sys_timeout(Top + 1, msecs, "wait")

sswt_return_slip ==
    /\ pc = "took"
    /\ pc' = "run" /\ stack' = SubSeq(stack, 1, Top - 1) /\ UNCHANGED <<lvars, pvars>>

(* The semaphore is taken: after a timeout the wait is over, otherwise its *)
(* timeout is cancelled first.                                             *)
sswt_return ==
    /\ pc = "took"
    /\ \/ /\ stack[Top].timeflag
          /\ pc' = "run" /\ stack' = SubSeq(stack, 1, Top - 1) /\ UNCHANGED <<lvars, pvars>>
       \/ ~stack[Top].timeflag /\ sys_untimeout(Top) /\ UNCHANGED stack

(* Another thread signals a semaphore the thread waits for. *)
sys_sem_signal ==
    /\ \E d \in 2 .. Top : stack' = [stack EXCEPT ![d].c = 1]
    /\ UNCHANGED <<lvars, pc, pvars>>

Next ==
    \/ insert \/ cancel \/ sys_mbox_fetch \/ sys_sem_wait \/ timeout
    \/ Arm \/ Cancel \/ Return \/ sys_sem_wait_timeout \/ sswt_return \/ sys_sem_signal

Spec == Init /\ [][Next]_vars
-----------------------------------------------------------------------------
(* n must run before m: its time comes first or, at the same time, it was  *)
(* armed first.                                                            *)
Before(n, m) == due[n] < due[m] \/ (due[n] = due[m] /\ arm[n] < arm[m])

(* The element the thread waits for is the one that must run first of all  *)
(* that are armed, and the time it holds is exactly what is left for it,   *)
(* whatever was inserted, taken out or charged before (sys_timeout,        *)
(* sys_untimeout, sys_mbox_fetch).                                         *)
EarliestFirst ==
    head /= NULL =>
      /\ head \in linked /\ time[head] = due[head] - now
      /\ \A n \in linked \ {head} : Before(head, n)

(* A timeout leaves the list in a wait only at its time, to the            *)
(* millisecond, and before all that must run later (sys_mbox_fetch and     *)
(* sys_sem_wait run the handlers).                                         *)
OnTime ==
    [][pc = "wait" =>
         \A n \in linked \ linked' :
           now' = due[n] /\ \A m \in linked \ {n} : Before(n, m)]_vars

(* The argument of sswt_handler is a variable of sys_sem_wait_timeout: its *)
(* timeout is in the list only while that call waits and its time has not  *)
(* come, also when other handlers run and wait inside it.                  *)
NoDangling ==
    \A n \in linked : hnd[n] \notin Handler =>
      /\ hnd[n] \in 2 .. Top /\ ~stack[hnd[n]].timeflag
      /\ \A m \in linked : hnd[m] = hnd[n] => m = n
=============================================================================
