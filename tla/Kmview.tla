------------------------------- MODULE Kmview -------------------------------
(***************************************************************************)
(* kmview: the kernel module of module KmModule driven by the tracer of    *)
(* xmview/capture_km.c, one single threaded process per open /dev/kmview   *)
(* that polls for events (kmview.c, mp_ppoll), keeps a table of process    *)
(* control blocks indexed by umpid, answers the events (tracehand) and     *)
(* resumes the calls it suspended (sc_resume).                             *)
(*                                                                         *)
(* What the wrap functions decide about a call is a free choice among      *)
(* Behaviours.  A tracer may die at any moment and be started again.       *)
(***************************************************************************)
EXTENDS KmModule

CONSTANTS Behaviours,  \* subset of the values a divfun may return
          Mortal       \* the tracers that may be killed

VARIABLES phase,    \* of the tracer: closed, open (no root process yet), attached
                    \* (no event handled yet), running
          pcb,      \* pcbtab: the process control blocks, by umpid
          verdict   \* history: the answer the tracer gave to the current call

vars == <<st, owner, kmpid, umpid, tracer, skip, kmstop, regs, arg, killed,
          ntraced, queue, event, phase, pcb, verdict>>
tvars == <<phase, pcb, verdict>>

(* SC_SUSPENDED+IN, SC_SUSPENDED+OUT, or not suspended *)
Suspension == {"no", "IN", "OUT"}
FreePcb == [pid |-> NULL, kmpid |-> NULL, pp |-> NULL, susp |-> "no"]
InUse(tr) == {u \in Umpid : pcb[tr][u].pid /= NULL}
nprocs(tr) == Cardinality(InUse(tr))

Init ==
    /\ KInit
    /\ phase = [tr \in Tracer |-> "closed"]
    /\ pcb = [tr \in Tracer |-> [u \in Umpid |-> FreePcb]]
    /\ verdict = [t \in Thread |-> "none"]

(* kmview_open by the tracer, with the setup of capture_main *)
Open(tr) ==
    /\ phase[tr] = "closed"
    /\ phase' = [phase EXCEPT ![tr] = "open"]
    /\ UNCHANGED <<st, owner, kmpid, umpid, tracer, skip, kmstop, regs, arg, killed,
                   ntraced, queue, event, pcb, verdict>>

(* capture_main forks one root process, which attaches itself *)
Attach(t, tr) ==
    /\ phase[tr] = "open"
    /\ kmview_root_thread(t, tr)
    /\ phase' = [phase EXCEPT ![tr] = "attached"]
    /\ UNCHANGED <<event, pcb, verdict>>

ThreadStep(t) ==
    /\ \/ EnqueueNewthread(t)
       \/ kmview_syscall_entry(t)
       \/ kmview_syscall_entry_skipped(t)
       \/ kmview_syscall_exit(t)
       \/ kmview_stop_task(t)
       \/ Kill(t)
       \/ Die(t)
       \/ DieLoose(t)
       \/ kmview_reap(t)
       \/ EnqueueTermthread(t)
    /\ verdict' = IF st'[t] \in {"entry", "kernel"} THEN verdict
                  ELSE [verdict EXCEPT ![t] = "none"]
    /\ UNCHANGED <<event, phase, pcb>>

Clone(p, c) == kmview_clone(p, c) /\ UNCHANGED <<event, tvars>>

(* mp_ppoll finds the descriptor readable: the events are in the array     *)
Poll(tr) ==
    /\ phase[tr] \in {"attached", "running"} /\ event[tr] = <<>>
    /\ kmview_poll(tr)
    /\ UNCHANGED tvars

(* The event tracehand is at *)
Handling(tr, tag) == event[tr] /= <<>> /\ Head(event[tr]).tag = tag
NextEvent(tr) == event' = [event EXCEPT ![tr] = Tail(@)]

(* newpcb: the first unused element; the parent is the element umppid, the *)
(* process itself when there is none.                                      *)
newpcb(tr, e, u) ==
    pcb' = [pcb EXCEPT ![tr][u] =
              [pid |-> e.pid, kmpid |-> e.kmpid,
               pp |-> IF e.umpid = NULL THEN u ELSE e.umpid, susp |-> "no"]]

tracehand_newthread(tr) ==
    /\ Handling(tr, "NEWTHREAD")
    /\ \E u \in Umpid :
         /\ u \notin InUse(tr) /\ \A v \in 1 .. u - 1 : v \in InUse(tr)
         /\ newpcb(tr, Head(event[tr]), u)
         /\ ioctl_umpid(tr, Head(event[tr]).kmpid, u)
    /\ NextEvent(tr)
    /\ phase' = [phase EXCEPT ![tr] = "running"]
    /\ UNCHANGED verdict

tracehand_termthread_slip(tr) ==
    /\ Handling(tr, "TERMTHREAD")
    /\ LET d == Head(event[tr]).umpid
       IN  pcb' = [pcb EXCEPT ![tr] = [u \in Umpid |->
                     IF u = d \/ @[u].pp = d THEN FreePcb ELSE @[u]]]
    /\ NextEvent(tr)
    /\ UNCHANGED <<st, owner, kmpid, umpid, tracer, skip, kmstop, regs, arg, killed,
                   ntraced, queue, phase, verdict>>

(* droppcb: the children lose their parent, the element is free *)
tracehand_termthread(tr) ==
    /\ Handling(tr, "TERMTHREAD")
    /\ LET d == Head(event[tr]).umpid
       IN  pcb' = [pcb EXCEPT ![tr] = [u \in Umpid |->
                     IF u = d THEN FreePcb
                     ELSE IF @[u].pp = d THEN [@[u] EXCEPT !.pp = NULL] ELSE @[u]]]
    /\ NextEvent(tr)
    /\ UNCHANGED <<st, owner, kmpid, umpid, tracer, skip, kmstop, regs, arg, killed,
                   ntraced, queue, phase, verdict>>

(* The ioctl of each behaviour the wrap function may return in the IN      *)
(* phase: STD_BEHAVIOR, SC_FAKE, SC_CALLONXIT or SC_TRACEONLY, SC_MODICALL *)
AnswerIn(b) ==
    CASE b = "STD_BEHAVIOR" -> "SYSRESUME"
      [] b = "SC_FAKE" -> "SYSVIRTUALIZED"
      [] b = "SC_CALLONXIT" -> "SYSMODIFIED"
      [] b = "SC_MODICALL" -> "SYSARGMOD"

Suspend(tr, u, inout) == pcb' = [pcb EXCEPT ![tr][u].susp = inout]

Behave_slip(tr, u, inout, b) ==
    \/ /\ b = "SC_SUSPENDED"
       /\ Suspend(tr, u, inout)
       /\ UNCHANGED <<st, owner, kmpid, umpid, tracer, skip, kmstop, regs, arg, killed,
                      ntraced, queue, verdict>>
    \/ /\ b /= "SC_SUSPENDED"
       /\ ioctl_answer(tr, pcb[tr][u].kmpid, IF inout = "IN" THEN AnswerIn(b) ELSE "SYSRETURN")
       /\ verdict' = IF inout = "IN" THEN [verdict EXCEPT ![pcb[tr][u].pid] = AnswerIn(b)]
                     ELSE verdict
       /\ UNCHANGED pcb

(* The behaviour b of process u in a phase: suspend it, or answer *)
Behave(tr, u, inout, b) ==
    \/ /\ b = "SC_SUSPENDED"
       /\ Suspend(tr, u, inout)
       /\ UNCHANGED <<st, owner, kmpid, umpid, tracer, skip, kmstop, regs, arg, killed,
                      ntraced, queue, verdict>>
    \/ /\ b /= "SC_SUSPENDED"
       /\ Suspend(tr, u, "no")
       /\ ioctl_answer(tr, pcb[tr][u].kmpid, IF inout = "IN" THEN AnswerIn(b) ELSE "SYSRETURN")
       /\ verdict' = IF inout = "IN" THEN [verdict EXCEPT ![pcb[tr][u].pid] = AnswerIn(b)]
                     ELSE verdict

(* The pcb is umpid2pcb of the event; an umpid that is not in the table    *)
(* (-1) is an access outside pcbtab: such an event is never handled.       *)
tracehand_syscall_entry(tr) ==
    /\ Handling(tr, "SYSCALL_ENTRY") /\ Head(event[tr]).umpid \in InUse(tr)
    /\ \E b \in Behaviours : Behave(tr, Head(event[tr]).umpid, "IN", b)
    /\ NextEvent(tr)
    /\ UNCHANGED phase

tracehand_syscall_exit(tr) ==
    /\ Handling(tr, "SYSCALL_EXIT") /\ Head(event[tr]).umpid \in InUse(tr)
    /\ \E b \in Behaviours : Behave(tr, Head(event[tr]).umpid, "OUT", b)
    /\ NextEvent(tr)
    /\ UNCHANGED phase

(* sc_resume: the wrap function is called again in the phase it suspended, *)
(* and may suspend the process again.  It may run while the array still    *)
(* has events: poll fills it before any handler is called.                 *)
sc_resume(tr, u) ==
    /\ pcb[tr][u].susp /= "no"
    /\ \E b \in Behaviours : Behave(tr, u, pcb[tr][u].susp, b)
    /\ UNCHANGED <<event, phase>>

(* The main loop ends when nprocs is 0; a tracer may also be killed.       *)
(* Closing the device is kmview_release.                                   *)
Release(tr) ==
    /\ kmview_release(tr)
    /\ phase' = [phase EXCEPT ![tr] = "closed"]
    /\ pcb' = [pcb EXCEPT ![tr] = [u \in Umpid |-> FreePcb]]
    /\ verdict' = [t \in Thread |-> IF tracer[t] = tr THEN "none" ELSE verdict[t]]

(* The first mp_ppoll may also end by a signal, before any event: that is  *)
(* a Crash in phase attached.                                              *)
Over(tr) == phase[tr] = "running" /\ event[tr] = <<>> /\ nprocs(tr) = 0
Finish(tr) == Over(tr) /\ Release(tr)

Crash(tr) == tr \in Mortal /\ phase[tr] \in {"attached", "running"} /\ Release(tr)

tracehand(tr) ==
    \/ tracehand_newthread(tr)
    \/ tracehand_termthread(tr)
    \/ tracehand_syscall_entry(tr)
    \/ tracehand_syscall_exit(tr)

Next ==
    \/ \E t \in Thread : ThreadStep(t)
    \/ \E p, c \in Thread : Clone(p, c)
    \/ \E tr \in Tracer :
         \/ Open(tr) \/ Poll(tr) \/ tracehand(tr) \/ Finish(tr) \/ Crash(tr)
         \/ \E t \in Thread : Attach(t, tr)
         \/ \E u \in Umpid : sc_resume(tr, u)

Spec == Init /\ [][Next]_vars

(* The scheduler runs every thread that can run, and the tracer its loop   *)
(* of poll and tracehand.  Nothing promises that a suspended call is       *)
(* resumed, that a process makes calls, or that it ends.                   *)
Fairness ==
    /\ \A t \in Thread :
         /\ WF_vars(ThreadStep(t) /\ EnqueueNewthread(t))
         /\ WF_vars(ThreadStep(t) /\ kmview_stop_task(t))
         /\ WF_vars(ThreadStep(t) /\ kmview_syscall_exit(t))
         /\ WF_vars(t \in killed /\ ThreadStep(t) /\ (Die(t) \/ DieLoose(t)))
    /\ \A tr \in Tracer : WF_vars(Poll(tr)) /\ WF_vars(tracehand(tr))

FairSpec == Spec /\ Fairness
-----------------------------------------------------------------------------
(* "All the events reported by the module to the tracer carry the umpid"   *)
(* (INTERFACE): an event that tracehand reads leads, by its umpid, to the  *)
(* pcb of the very process it is about, although umpids and kmpids are     *)
(* used again as processes come and go; and only the first process is told *)
(* to have no parent, every other one has the pcb of a live parent, which  *)
(* newpcb takes as its pp.                                                 *)
UmpidKnown ==
    \A tr \in Tracer : \A i \in DOMAIN event[tr] :
      LET e == event[tr][i]
      IN  \/ e.umpid \in InUse(tr) /\ (e.tag /= "NEWTHREAD" => pcb[tr][e.umpid].pid = e.pid)
          \/ e.tag = "NEWTHREAD" /\ e.umpid = NULL /\ phase[tr] = "attached"

(* The events of a stopped thread that its tracer has not answered yet.    *)
Owed(t) ==
    LET tr == tracer[t]
    IN  Cardinality({i \in DOMAIN queue[tr] : queue[tr][i].thread = t
                       /\ queue[tr][i].tag \in {"SYSCALL_ENTRY", "SYSCALL_EXIT"}})
        + Cardinality({i \in DOMAIN event[tr] : event[tr][i].pid = t
                       /\ event[tr][i].tag \in {"SYSCALL_ENTRY", "SYSCALL_EXIT"}})
        + Cardinality({u \in Umpid : pcb[tr][u].pid = t /\ pcb[tr][u].susp /= "no"})

(* The semaphore kmstop and the answers balance: a thread that waits in    *)
(* kmview_stop_task is owed exactly one answer or has exactly one up, and  *)
(* a thread that runs has no up left over, with which it would run through *)
(* its next stop before the tracer has seen the call.                      *)
OneAnswer ==
    \A t \in Thread : tracer[t] /= NULL =>
      Owed(t) + kmstop[t] = IF t \in Stopped THEN 1 ELSE 0

(* What the tracer decided for a call is what happens to it: the kernel    *)
(* runs the call unless it was virtualized, reports its exit only after    *)
(* KMVIEW_SYSMODIFIED, and no process is back in user mode with the number *)
(* of a virtualized call still replaced by -1.                             *)
VerdictKept ==
    \A t \in Thread :
      /\ st[t] = "kernel" =>
           /\ (regs[t] = "minus1") <=> (verdict[t] = "SYSVIRTUALIZED")
           /\ (SKIP_EXIT \notin skip[t]) <=> (verdict[t] = "SYSMODIFIED")
      /\ st[t] = "user" => regs[t] = "own"

(* kmview leaves its main loop when nprocs is 0 (kmview.c): then no        *)
(* process is traced any more, not even one whose NEWTHREAD event is still *)
(* on its way.                                                             *)
NobodyLeft == \A tr \in Tracer : Over(tr) => Traced(tr) = {}

(* "Many tracers shut down when remaining==0" (INTERFACE): when an event   *)
(* says that no process remains, every process of the tracer has ended.    *)
ZeroMeansEnded ==
    \A tr \in Tracer : \A i \in DOMAIN event[tr] :
      event[tr][i].remaining = 0 =>
        \A t \in Traced(tr) : st[t] \in {"reaping", "reaped"}

(* Every call that is reported gets its answer: no thread waits in         *)
(* kmview_stop_task for ever, unless its tracer suspended the call.        *)
Answered ==
    \A t \in Thread : t \in Stopped ~>
      \/ t \notin Stopped
      \/ \E u \in Umpid : pcb[tracer[t]][u].pid = t /\ pcb[tracer[t]][u].susp /= "no"
-----------------------------------------------------------------------------
(* What INTERFACE says and the module does not do (see README).            *)

(* "If there are several pending events (at most one per traced process)". *)
OnePending ==
    \A tr \in Tracer : \A i, j \in DOMAIN queue[tr] :
      queue[tr][i].thread = queue[tr][j].thread => i = j

(* "If a tracer dies (or it closes the fd) all the traced processes will   *)
(* be killed (SIGKILL)": not on kernels without the send_sig.              *)
OrphansKilled == \A t \in Thread : st[t] = "loose" => t \in killed

(* "While a kmview traced process is quiescent the process can be          *)
(* restarted by its tracer or killed": not while its call is suspended.    *)
KilledEnds == \A t \in Thread : t \in killed ~> st[t] \in {"none", "dead", "reaping", "reaped"}
=============================================================================
