------------------------------ MODULE KmModule ------------------------------
(***************************************************************************)
(* The kmview kernel module (kmview-kernel-module/): traced threads that   *)
(* run in parallel with their tracers, the callbacks utrace makes in the   *)
(* context of a thread (clone, reap, system call entry and exit), the      *)
(* event queue of every tracer, the semaphore on which a thread waits for  *)
(* the answer of its tracer, and the ioctls that give the answer.          *)
(*                                                                         *)
(* The thread table is abstracted to the function owner (kmpid to thread): *)
(* module Kmpid has the free list and shows that it hands out unowned      *)
(* numbers only.  Every lock protected section is one step; what runs      *)
(* between two sections of a callback may interleave.  The tests that      *)
(* select the calls to report (bit map, paths, traced descriptors) are a   *)
(* free choice; module FdTable has the set of traced descriptors.          *)
(*                                                                         *)
(* Allocations succeed: kmview_event_enqueue drops the event when its own  *)
(* fails, and the thread would wait for an answer to a call nobody heard   *)
(* of.  A clone that finds no memory for the thread kills the child before *)
(* it runs, which is no step here.  The poll of a tracer is not            *)
(* interrupted while it waits for tracer->sem.                             *)
(***************************************************************************)
EXTENDS Naturals, Sequences, FiniteSets

CONSTANTS Thread,    \* tasks, and the kmview_thread structures attached to them
          Kmpid,     \* the numbers of the thread table, as many as Thread
          Tracer,    \* open files of /dev/kmview
          NULL,
          Victims,   \* the tasks somebody may send SIGKILL to
          OldKernel, \* LINUX_VERSION_CODE < KERNEL_VERSION(2,6,32)
          MagicCnt   \* magicpoll_cnt, the length of the array of events

VARIABLES st,       \* where the task is, see State
          owner,    \* kmpid table: the thread of every kmpid
          kmpid, umpid, tracer, skip, kmstop,   \* fields of kmview_thread
          regs,     \* system call number in the registers: the process's own or -1
          arg,      \* argument of the event a callback is about to queue
          killed,   \* tasks with a pending SIGKILL
          ntraced, queue,  \* fields of kmview_tracer
          event     \* the magicpoll array of the tracer

kvars == <<st, owner, kmpid, umpid, tracer, skip, kmstop, regs, arg, killed,
           ntraced, queue, event>>

Umpid == 1 .. Cardinality(Thread)
SKIP_EXIT == "SKIP_EXIT"
SKIP_CALL == "SKIP_CALL"
SKIP_BOTH == {SKIP_EXIT, SKIP_CALL}

(* born: attached, NEWTHREAD not queued yet; entry and exit: the event is  *)
(* queued and the thread is at (or on its way to) down(kmstop); dead: not  *)
(* reaped yet; reaping: counted out, TERMTHREAD not queued yet; reaped:    *)
(* TERMTHREAD queued; loose: the task goes on after its tracer detached.   *)
State == {"none", "born", "user", "entry", "kernel", "exit", "dead",
          "reaping", "reaped", "loose"}
Tag == {"NEWTHREAD", "TERMTHREAD", "SYSCALL_ENTRY", "SYSCALL_EXIT"}

Traced(tr) == {t \in Thread : tracer[t] = tr}
Stopped == {t \in Thread : st[t] \in {"entry", "exit"}}

KInit ==
    /\ st = [t \in Thread |-> "none"]
    /\ owner = [k \in Kmpid |-> NULL]
    /\ kmpid = [t \in Thread |-> NULL]
    /\ umpid = [t \in Thread |-> NULL]
    /\ tracer = [t \in Thread |-> NULL]
    /\ skip = [t \in Thread |-> {}]
    /\ kmstop = [t \in Thread |-> 0]
    /\ regs = [t \in Thread |-> "own"]
    /\ arg = [t \in Thread |-> NULL]
    /\ killed = {}
    /\ ntraced = [tr \in Tracer |-> 0]
    /\ queue = [tr \in Tracer |-> <<>>]
    /\ event = [tr \in Tracer |-> <<>>]

kmview_event_enqueue_slip(tag, t) ==
    /\ queue' = [queue EXCEPT ![tracer[t]] =
                   <<[tag |-> tag, thread |-> t, arg |-> arg[t]]>> \o @]
    /\ arg' = [arg EXCEPT ![t] = NULL]

kmview_event_enqueue(tag, t) ==
    /\ queue' = [queue EXCEPT ![tracer[t]] =
                   Append(@, [tag |-> tag, thread |-> t, arg |-> arg[t]])]
    /\ arg' = [arg EXCEPT ![t] = NULL]

kmview_new_thread_slip(t, tr) ==
    \E k \in Kmpid :
      /\ owner[k] = NULL
      /\ owner' = [owner EXCEPT ![k] = t]
      /\ kmpid' = [kmpid EXCEPT ![t] = k]
      /\ umpid' = [umpid EXCEPT ![t] = NULL]
      /\ tracer' = [tracer EXCEPT ![t] = tr]
      /\ skip' = [skip EXCEPT ![t] = {}]
      /\ kmstop' = [kmstop EXCEPT ![t] = 0]
      /\ ntraced' = [ntraced EXCEPT ![tr] = @ + 1]

kmview_new_thread_uncounted(t, tr) ==
    \E k \in Kmpid :
      /\ owner[k] = NULL
      /\ owner' = [owner EXCEPT ![k] = t]
      /\ kmpid' = [kmpid EXCEPT ![t] = k]
      /\ umpid' = [umpid EXCEPT ![t] = NULL]
      /\ tracer' = [tracer EXCEPT ![t] = tr]
      /\ skip' = [skip EXCEPT ![t] = {SKIP_EXIT}]
      /\ kmstop' = [kmstop EXCEPT ![t] = 0]
      /\ ntraced' = [ntraced EXCEPT ![tr] = 1]

(* kmview_new_thread: a kmpid, no umpid yet, SKIP_EXIT because the task is *)
(* inside a system call that it did not enter as a traced one.             *)
kmview_new_thread(t, tr) ==
    \E k \in Kmpid :
      /\ owner[k] = NULL
      /\ owner' = [owner EXCEPT ![k] = t]
      /\ kmpid' = [kmpid EXCEPT ![t] = k]
      /\ umpid' = [umpid EXCEPT ![t] = NULL]
      /\ tracer' = [tracer EXCEPT ![t] = tr]
      /\ skip' = [skip EXCEPT ![t] = {SKIP_EXIT}]
      /\ kmstop' = [kmstop EXCEPT ![t] = 0]
      /\ ntraced' = [ntraced EXCEPT ![tr] = @ + 1]

(* The thread is inside kmview_clone: its child has no NEWTHREAD event yet. *)
Cloning(t) == \E c \in Thread : st[c] = "born" /\ arg[c] = kmpid[t]

(* KMVIEW_ATTACH of a child of the tracer: a NEWTHREAD event without a     *)
(* parent will follow.                                                     *)
kmview_root_thread(t, tr) ==
    /\ st[t] = "none"
    /\ kmview_new_thread(t, tr)
    /\ st' = [st EXCEPT ![t] = "born"]
    /\ regs' = [regs EXCEPT ![t] = "own"]
    /\ UNCHANGED <<arg, killed, queue>>

(* The clone callback, in the context of the parent p. *)
kmview_clone(p, c) ==
    /\ st[p] = "kernel" /\ regs[p] = "own" /\ ~Cloning(p)
    /\ st[c] = "none"
    /\ kmview_new_thread(c, tracer[p])
    /\ st' = [st EXCEPT ![c] = "born"]
    /\ regs' = [regs EXCEPT ![c] = "own"]
    /\ arg' = [arg EXCEPT ![c] = kmpid[p]]
    /\ UNCHANGED <<killed, queue>>

(* The tail of both: NEWTHREAD is queued and the new task starts. *)
EnqueueNewthread(t) ==
    /\ st[t] = "born"
    /\ kmview_event_enqueue("NEWTHREAD", t)
    /\ st' = [st EXCEPT ![t] = "kernel"]
    /\ UNCHANGED <<owner, kmpid, umpid, tracer, skip, kmstop, regs, killed, ntraced>>

(* A reported system call: the event is queued, then the thread stops. *)
kmview_syscall_entry(t) ==
    /\ st[t] = "user"
    /\ kmview_event_enqueue("SYSCALL_ENTRY", t)
    /\ st' = [st EXCEPT ![t] = "entry"]
    /\ UNCHANGED <<owner, kmpid, umpid, tracer, skip, kmstop, regs, killed, ntraced>>

(* kmview_syscall_resume: a call the tracer does not want to see. *)
kmview_syscall_entry_skipped(t) ==
    /\ st[t] = "user"
    /\ skip' = [skip EXCEPT ![t] = (@ \cup {SKIP_EXIT}) \ {SKIP_CALL}]
    /\ st' = [st EXCEPT ![t] = "kernel"]
    /\ UNCHANGED <<owner, kmpid, umpid, tracer, kmstop, regs, arg, killed, ntraced, queue>>

(* The exit callback: a faked call gets its number back; SKIP_EXIT decides *)
(* whether the tracer hears of the result.                                 *)
kmview_syscall_exit(t) ==
    /\ st[t] = "kernel" /\ ~Cloning(t)
    /\ regs' = [regs EXCEPT ![t] = IF SKIP_CALL \in skip[t] THEN "own" ELSE @]
    /\ \/ /\ SKIP_EXIT \in skip[t]
          /\ st' = [st EXCEPT ![t] = "user"]
          /\ UNCHANGED <<queue, arg>>
       \/ /\ SKIP_EXIT \notin skip[t]
          /\ kmview_event_enqueue("SYSCALL_EXIT", t)
          /\ st' = [st EXCEPT ![t] = "exit"]
    /\ UNCHANGED <<owner, kmpid, umpid, tracer, skip, kmstop, killed, ntraced>>

(* down(kmstop) succeeds: a wait that signals do not interrupt. *)
kmview_stop_task(t) ==
    /\ t \in Stopped /\ kmstop[t] > 0
    /\ kmstop' = [kmstop EXCEPT ![t] = @ - 1]
    /\ st' = [st EXCEPT ![t] = IF @ = "entry" THEN "kernel" ELSE "user"]
    /\ UNCHANGED <<owner, kmpid, umpid, tracer, skip, regs, arg, killed, ntraced, queue>>

(* Any process may send SIGKILL; the task exits when it does not wait in   *)
(* down(); a task also ends by itself.                                     *)
Kill(t) ==
    /\ t \in Victims
    /\ st[t] \in {"user", "entry", "kernel", "exit"} /\ t \notin killed
    /\ killed' = killed \cup {t}
    /\ UNCHANGED <<st, owner, kmpid, umpid, tracer, skip, kmstop, regs, arg, ntraced, queue>>

Die(t) ==
    /\ st[t] \in {"user", "kernel"} /\ ~Cloning(t)
    /\ st' = [st EXCEPT ![t] = "dead"]
    /\ UNCHANGED <<owner, kmpid, umpid, tracer, skip, kmstop, regs, arg, killed, ntraced, queue>>

DieLoose(t) ==
    /\ st[t] = "loose"
    /\ st' = [st EXCEPT ![t] = "none"]
    /\ killed' = killed \ {t}
    /\ UNCHANGED <<owner, kmpid, umpid, tracer, skip, kmstop, regs, arg, ntraced, queue>>

(* kmview_reap: two sections of tracer->sem, first the count ... *)
kmview_reap(t) ==
    /\ st[t] = "dead"
    /\ ntraced' = [ntraced EXCEPT ![tracer[t]] = @ - 1]
    /\ arg' = [arg EXCEPT ![t] = ntraced[tracer[t]] - 1]
    /\ st' = [st EXCEPT ![t] = "reaping"]
    /\ killed' = killed \ {t}
    /\ UNCHANGED <<owner, kmpid, umpid, tracer, skip, kmstop, regs, queue>>

(* ... then the event. *)
EnqueueTermthread(t) ==
    /\ st[t] = "reaping"
    /\ kmview_event_enqueue("TERMTHREAD", t)
    /\ st' = [st EXCEPT ![t] = "reaped"]
    /\ UNCHANGED <<owner, kmpid, umpid, tracer, skip, kmstop, regs, killed, ntraced>>

(* kmview_thread_free for every thread of T: the kmpid is free again and   *)
(* the structure is gone.                                                  *)
kmview_thread_free(T) ==
    /\ owner' = [k \in Kmpid |-> IF owner[k] \in T THEN NULL ELSE owner[k]]
    /\ kmpid' = [t \in Thread |-> IF t \in T THEN NULL ELSE kmpid[t]]
    /\ umpid' = [t \in Thread |-> IF t \in T THEN NULL ELSE umpid[t]]
    /\ tracer' = [t \in Thread |-> IF t \in T THEN NULL ELSE tracer[t]]
    /\ skip' = [t \in Thread |-> IF t \in T THEN {} ELSE skip[t]]
    /\ regs' = [t \in Thread |-> IF t \in T THEN "own" ELSE regs[t]]
    /\ kmstop' = [t \in Thread |-> IF t \in T THEN 0 ELSE kmstop[t]]

(* kmview_release: every thread of the tracer is detached and woken.  Only *)
(* on older kernels is it sent SIGKILL ("XXX terminate process" on newer). *)
(* Nothing in the module keeps the tracer while a callback is between its  *)
(* two sections: a release at that moment is left out.                     *)
kmview_release(tr) ==
    LET T == Traced(tr)
        live == {t \in T : st[t] \in {"user", "entry", "kernel", "exit"}}
    IN  /\ \A t \in T : st[t] \notin {"born", "reaping"}
        /\ kmview_thread_free(T)
        /\ st' = [t \in Thread |-> IF t \in live THEN "loose"
                                   ELSE IF t \in T THEN "none" ELSE st[t]]
        /\ killed' = (killed \ (T \ live)) \cup (IF OldKernel THEN live ELSE {})
        /\ ntraced' = [ntraced EXCEPT ![tr] = 0]
        /\ queue' = [queue EXCEPT ![tr] = <<>>]
        /\ event' = [event EXCEPT ![tr] = <<>>]
        /\ UNCHANGED arg

(* kmview_fill_event: what the tracer reads of a queued event.  Identities *)
(* are looked up now, not when the event was queued.  The field pid of an  *)
(* event other than NEWTHREAD is not in the structure: properties use it.  *)
kmview_fill_event(e) ==
    [tag |-> e.tag, pid |-> e.thread,
     kmpid |-> IF e.tag = "NEWTHREAD" THEN kmpid[e.thread] ELSE NULL,
     umpid |-> IF e.tag /= "NEWTHREAD" THEN umpid[e.thread]
               ELSE IF e.arg = NULL \/ owner[e.arg] = NULL THEN NULL
               ELSE umpid[owner[e.arg]],
     remaining |-> IF e.tag = "TERMTHREAD" THEN e.arg ELSE NULL]

(* The events one poll takes: the array is filled up to the first          *)
(* NEWTHREAD.                                                              *)
Batch(q) ==
    CHOOSE n \in 1 .. Len(q) :
      /\ n <= MagicCnt
      /\ \A i \in 1 .. n - 1 : q[i].tag /= "NEWTHREAD"
      /\ n = MagicCnt \/ n = Len(q) \/ q[n].tag = "NEWTHREAD"

(* kmview_poll with a magicpoll buffer.  The KMVIEW_EVENT_NONE that ends a *)
(* short array is written at addr, which the break after a NEWTHREAD does  *)
(* not advance: it replaces the tag of the NEWTHREAD.                      *)
kmview_poll(tr) ==
    LET q == queue[tr]
        n == Batch(q)
        T == {q[i].thread : i \in {j \in 1 .. n : q[j].tag = "TERMTHREAD"}}
        kept == IF q[n].tag = "NEWTHREAD" /\ n < MagicCnt THEN n - 1 ELSE n
    IN  /\ q /= <<>>
        /\ event' = [event EXCEPT ![tr] = [i \in 1 .. kept |-> kmview_fill_event(q[i])]]
        /\ queue' = [queue EXCEPT ![tr] = SubSeq(q, n + 1, Len(q))]
        /\ kmview_thread_free(T)
        /\ st' = [t \in Thread |-> IF t \in T THEN "none" ELSE st[t]]
        /\ UNCHANGED <<arg, killed, ntraced>>

(* The test every ioctl about a process makes (EPERM otherwise). *)
Mine(tr, k) == owner[k] /= NULL /\ tracer[owner[k]] = tr

(* KMVIEW_UMPID *)
ioctl_umpid(tr, k, u) ==
    /\ umpid' = IF Mine(tr, k) THEN [umpid EXCEPT ![owner[k]] = u] ELSE umpid
    /\ UNCHANGED <<st, owner, kmpid, tracer, skip, kmstop, regs, arg, killed, ntraced, queue>>

(* The flags each answer leaves: KMVIEW_SYSRESUME, KMVIEW_SYSVIRTUALIZED,  *)
(* KMVIEW_SYSRETURN, KMVIEW_SYSMODIFIED and KMVIEW_SYSARGMOD.              *)
SkipAfter(cmd, flags) ==
    CASE cmd = "SYSRESUME" -> (flags \cup {SKIP_EXIT}) \ {SKIP_CALL}
      [] cmd = "SYSVIRTUALIZED" -> flags \cup SKIP_BOTH
      [] cmd \in {"SYSRETURN", "SYSMODIFIED"} -> flags \ SKIP_BOTH
      [] cmd = "SYSARGMOD" -> (flags \ SKIP_BOTH) \cup {SKIP_EXIT}

ioctl_answer_slip(tr, k, cmd) ==
    /\ IF Mine(tr, k)
       THEN /\ skip' = [skip EXCEPT ![owner[k]] = SkipAfter(cmd, @)]
            /\ regs' = [regs EXCEPT ![owner[k]] =
                          IF cmd = "SYSVIRTUALIZED" THEN "minus1" ELSE @]
            /\ kmstop' = [kmstop EXCEPT ![owner[k]] = IF cmd = "SYSARGMOD" THEN @ ELSE @ + 1]
       ELSE UNCHANGED <<skip, regs, kmstop>>
    /\ UNCHANGED <<st, owner, kmpid, umpid, tracer, arg, killed, ntraced, queue>>

(* An answer: flags, the call number -1 for a virtualized call, up(kmstop). *)
ioctl_answer(tr, k, cmd) ==
    /\ IF Mine(tr, k)
       THEN /\ skip' = [skip EXCEPT ![owner[k]] = SkipAfter(cmd, @)]
            /\ regs' = [regs EXCEPT ![owner[k]] =
                          IF cmd = "SYSVIRTUALIZED" THEN "minus1" ELSE @]
            /\ kmstop' = [kmstop EXCEPT ![owner[k]] = @ + 1]
       ELSE UNCHANGED <<skip, regs, kmstop>>
    /\ UNCHANGED <<st, owner, kmpid, umpid, tracer, arg, killed, ntraced, queue>>
=============================================================================
