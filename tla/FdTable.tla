------------------------------ MODULE FdTable ------------------------------
(***************************************************************************)
(* The files of the virtual processes: lfd_tab (one element per open file, *)
(* with the number of descriptors that refer to it), the lfdlist of each   *)
(* file table (descriptor to lfd) and the two phases of the calls that     *)
(* change them.                                                            *)
(*                                                                         *)
(* A captured call runs its wrap_in function, then the kernel executes it  *)
(* for the process, then its wrap_out function runs.  The wrap functions   *)
(* run one at a time (umview and kmview have one tracing thread), but the  *)
(* calls of different processes interleave between the phases, and threads *)
(* created with CLONE_FILES share their file table.  The kernel's own file *)
(* tables (kern) and kmview's set of traced descriptors (fdset) are part   *)
(* of the state, since the lfdlist has to agree with them.                 *)
(*                                                                         *)
(* Files are numbered in the order in which they are opened.  A virtual    *)
(* file has an open file of its service behind it; a file that is not      *)
(* virtual is registered only because its pathname was rewritten (chroot). *)
(***************************************************************************)
EXTENDS Integers, FiniteSets

CONSTANTS
    Thread,        \* processes and threads
    First,         \* the first process
    Table,         \* struct pcb_file, and the kernel's files_struct
    NFd,           \* bound: descriptors of a table
    NLfd,          \* bound: elements of lfd_tab
    NOpen,         \* bound: files opened
    NCount,        \* bound: the count of an lfd
    Kinds,         \* files that are opened: "virtual", "rewritten", "real"
    Sharing,       \* TRUE: threads may be created with CLONE_FILES
    Km,            \* TRUE: kmview, FALSE: umview
    Killing,       \* TRUE: a process may be killed inside a call
    CloseOnExec    \* TRUE: descriptors may be closed by execve

NULL == "NULL"
Fd == 0..NFd - 1
Lfd == 0..NLfd - 1
File == 1..NOpen

ASSUME ConstAssumption ==
    /\ First \in Thread /\ Table # {} /\ NULL \notin Table \cup Thread
    /\ IsFiniteSet(Table) /\ IsFiniteSet(Thread)
    /\ NFd \in Nat \ {0} /\ NLfd \in Nat /\ NCount \in Nat /\ NOpen \in Nat
    /\ Sharing \in BOOLEAN /\ Km \in BOOLEAN /\ Killing \in BOOLEAN /\ CloseOnExec \in BOOLEAN

VARIABLES
    count, file, sfd, hte,   \* the fields of the elements of lfd_tab
    link,                    \* a free element as the index of the next one
    lfd_tabfree, lfd_tabmax,
    lfdlist,                 \* descriptor to lfd, for each file table
    fds,                     \* file table of each thread, NULL: no such thread
    call,                    \* the call each thread is in
    closing,                 \* thread whose table umproc_delproc is closing
    kern,                    \* kernel: the file behind each descriptor
    cloexec,                 \* kernel: descriptors to close at execve
    fdset,                   \* kmview module: the traced descriptors
    opened,                  \* number of files opened so far
    svc                      \* service: opens of each file minus its closes

lfdvars == <<count, file, sfd, hte, link, lfd_tabfree, lfd_tabmax, svc>>
vars == <<count, file, sfd, hte, link, lfd_tabfree, lfd_tabmax, lfdlist, fds,
          call, closing, kern, cloexec, fdset, opened, svc>>

(* op: what is called; at: who moves next; lfd: pc->retval of the wrap_in  *)
(* function; fd, old: the arguments (fd: also where umproc_delproc is);    *)
(* rv: what the kernel returned; child: the thread a fork created          *)
Call == [op : {"none", "open", "close", "dup", "fork", "born", "exit"},
         at : {"in", "kernel", "kernel_only", "out"}, lfd : Lfd \cup {-1},
         fd : -1..NFd, old : -1..NFd - 1, rv : -1..NFd - 1, child : Thread \cup {NULL}]
NoCall == [op |-> "none", at |-> "in", lfd |-> -1, fd |-> -1, old |-> -1, rv |-> -1,
           child |-> NULL]

TypeOK ==
    /\ count \in [Lfd -> Nat] /\ file \in [Lfd -> File \cup {0}]
    /\ sfd \in [Lfd -> File \cup {-1}] /\ hte \in [Lfd -> BOOLEAN]
    /\ link \in [Lfd -> Lfd \cup {-1}] /\ lfd_tabfree \in Lfd \cup {-1}
    /\ lfd_tabmax \in 0..NLfd
    /\ lfdlist \in [Table -> [Fd -> Lfd \cup {-1}]]
    /\ fds \in [Thread -> Table \cup {NULL}] /\ call \in [Thread -> Call]
    /\ closing \in Thread \cup {NULL}
    /\ kern \in [Table -> [Fd -> File \cup {-1, 0}]]
    /\ cloexec \in [Table -> SUBSET Fd] /\ fdset \in [Table -> SUBSET Fd]
    /\ opened \in 0..NOpen /\ svc \in [File -> Int]

Init ==
    /\ count = [l \in Lfd |-> 0] /\ file = [l \in Lfd |-> 0]
    /\ sfd = [l \in Lfd |-> -1] /\ hte = [l \in Lfd |-> FALSE]
    /\ link = [l \in Lfd |-> -1] /\ lfd_tabfree = -1 /\ lfd_tabmax = 0
    /\ lfdlist = [p \in Table |-> [f \in Fd |-> -1]]
    /\ \E p \in Table : fds = [t \in Thread |-> IF t = First THEN p ELSE NULL]
    /\ call = [t \in Thread |-> NoCall] /\ closing = NULL
    /\ kern = [p \in Table |-> [f \in Fd |-> 0]]
    /\ cloexec = [p \in Table |-> {}] /\ fdset = [p \in Table |-> {}]
    /\ opened = 0 /\ svc = [v \in File |-> 0]

-----------------------------------------------------------------------------
(* lfd_tab                                                                 *)

lfd_alloc == IF lfd_tabfree >= 0 THEN lfd_tabfree ELSE lfd_tabmax

lfd_open_slip(virtual) ==
    LET l == lfd_alloc IN
    /\ opened < NOpen /\ l \in Lfd
    /\ opened' = opened + 1
    /\ lfd_tabmax' = IF lfd_tabfree >= 0 THEN lfd_tabmax ELSE lfd_tabmax + 1
    /\ count' = [count EXCEPT ![l] = 1] /\ file' = [file EXCEPT ![l] = opened + 1]
    /\ hte' = [hte EXCEPT ![l] = virtual]
    /\ sfd' = [sfd EXCEPT ![l] = IF virtual THEN opened + 1 ELSE -1]
    /\ svc' = [svc EXCEPT ![opened + 1] = IF virtual THEN 1 ELSE 0]
    /\ UNCHANGED <<link, lfd_tabfree>>
lfd_open(virtual) ==
    LET l == lfd_alloc IN
    /\ opened < NOpen /\ l \in Lfd
    /\ opened' = opened + 1
    /\ IF lfd_tabfree >= 0
       THEN lfd_tabfree' = link[l] /\ lfd_tabmax' = lfd_tabmax
       ELSE lfd_tabmax' = lfd_tabmax + 1 /\ lfd_tabfree' = lfd_tabfree
    /\ count' = [count EXCEPT ![l] = 1] /\ file' = [file EXCEPT ![l] = opened + 1]
    /\ hte' = [hte EXCEPT ![l] = virtual]
    /\ sfd' = [sfd EXCEPT ![l] = IF virtual THEN opened + 1 ELSE -1]
    /\ svc' = [svc EXCEPT ![opened + 1] = IF virtual THEN 1 ELSE 0]
    /\ link' = [link EXCEPT ![l] = -1]

(* The service is asked to close the file unless wrap_in_close did so      *)
lfd_close(l) ==
    IF l = -1 THEN UNCHANGED lfdvars
    ELSE
    /\ count' = [count EXCEPT ![l] = @ - 1]
    /\ IF count[l] = 1
       THEN /\ svc' = IF hte[l] /\ sfd[l] >= 0
                      THEN [svc EXCEPT ![sfd[l]] = @ - 1] ELSE svc
            /\ file' = [file EXCEPT ![l] = 0] /\ sfd' = [sfd EXCEPT ![l] = -1]
            /\ hte' = [hte EXCEPT ![l] = FALSE]
            /\ link' = [link EXCEPT ![l] = lfd_tabfree] /\ lfd_tabfree' = l
       ELSE UNCHANGED <<file, sfd, hte, svc, link, lfd_tabfree>>
    /\ UNCHANGED lfd_tabmax

lfd_dup_slip(l) ==
    /\ count[l] < NCount
    /\ UNCHANGED lfdvars
lfd_dup(l) ==
    /\ count[l] < NCount
    /\ count' = [count EXCEPT ![l] = @ + 1]
    /\ UNCHANGED <<file, sfd, hte, link, lfd_tabfree, lfd_tabmax, svc>>

fd2lfd(t, fd) == IF fd \in Fd THEN lfdlist[fds[t]][fd] ELSE -1
ht_fd(t, fd) == IF fd2lfd(t, fd) >= 0 THEN hte[fd2lfd(t, fd)] ELSE FALSE

-----------------------------------------------------------------------------
(* The phases of a call                                                    *)

CanCall(t) == fds[t] # NULL /\ call[t].op = "none" /\ closing = NULL
Enter(t, op, at, l, fd, old) ==
    call' = [call EXCEPT ![t] = [op |-> op, at |-> at, lfd |-> l,
                                 fd |-> fd, old |-> old, rv |-> -1, child |-> NULL]]
Out(t, op) == call[t].op = op /\ call[t].at = "out" /\ closing = NULL
Return(t) == call' = [call EXCEPT ![t] = NoCall]
Kernel(t, op) == call[t].op = op /\ call[t].at \in {"kernel", "kernel_only"}
KernelReturn(t, rv) ==
    call' = [call EXCEPT ![t] = IF @.at = "kernel" THEN [@ EXCEPT !.at = "out", !.rv = rv]
                                ELSE NoCall]

(* The descriptor the kernel gives: the lowest that is free                *)
LowestFree(p, fd) == kern[p][fd] = 0 /\ \A g \in 0..fd - 1 : kern[p][g] # 0

(* OPEN: also creat, socket, accept and epoll_create, whose functions do   *)
(* the same here.  The process opens the FIFO of the lfd instead.          *)
wrap_in_open(t, virtual) ==
    /\ CanCall(t)
    /\ lfd_open(virtual)
    /\ Enter(t, "open", "kernel", lfd_alloc, -1, -1)
    /\ UNCHANGED <<lfdlist, fds, closing, kern, cloexec, fdset>>

(* A file nobody virtualizes: the call is not changed                      *)
open_real(t) ==
    /\ CanCall(t)
    /\ \E fd \in Fd :
          /\ LowestFree(fds[t], fd)
          /\ kern' = [kern EXCEPT ![fds[t]][fd] = -1]
          /\ cloexec' = [cloexec EXCEPT ![fds[t]] = @ \ {fd}]
    /\ UNCHANGED <<lfdvars, lfdlist, fds, call, closing, fdset, opened>>

kernel_open(t) ==
    /\ Kernel(t, "open")
    /\ \/ KernelReturn(t, -1) /\ UNCHANGED <<kern, cloexec>>
       \/ \E fd \in Fd :
             /\ LowestFree(fds[t], fd)
             /\ kern' = [kern EXCEPT ![fds[t]][fd] =
                            IF hte[call[t].lfd] THEN file[call[t].lfd] ELSE -1]
             /\ cloexec' = [cloexec EXCEPT ![fds[t]] = @ \ {fd}]
             /\ KernelReturn(t, fd)
    /\ UNCHANGED <<lfdvars, lfdlist, fds, closing, fdset, opened>>

(* lfd_register, and addfd for the virtual files                           *)
lfd_register(t, fd, l) ==
    /\ lfdlist' = [lfdlist EXCEPT ![fds[t]][fd] = l]
    /\ fdset' = IF hte[l] THEN [fdset EXCEPT ![fds[t]] = @ \cup {fd}] ELSE fdset

wrap_out_open_slip(t) ==
    /\ Out(t, "open")
    /\ IF call[t].rv >= 0 THEN lfd_register(t, call[t].rv, call[t].lfd)
                          ELSE UNCHANGED <<lfdlist, fdset>>
    /\ UNCHANGED lfdvars
    /\ Return(t)
    /\ UNCHANGED <<fds, closing, kern, cloexec, opened>>
wrap_out_open(t) ==
    /\ Out(t, "open")
    /\ IF call[t].rv >= 0
       THEN lfd_register(t, call[t].rv, call[t].lfd) /\ UNCHANGED lfdvars
       ELSE lfd_close(call[t].lfd) /\ UNCHANGED <<lfdlist, fdset>>
    /\ Return(t)
    /\ UNCHANGED <<fds, closing, kern, cloexec, opened>>

(* Calls whose first argument is a descriptor, dup and dup2 excepted, are  *)
(* captured by umview always, by the kmview module only if it is traced.   *)
Captured(t, fd) == Km => fd \in fdset[fds[t]]

(* CLOSE.  The last reference to a virtual file closes it in the service   *)
(* here; ok: the service agreed.                                           *)
wrap_in_close_twice(t, fd, ok) ==
    LET l == fd2lfd(t, fd) IN
    /\ CanCall(t)
    /\ Enter(t, "close", IF Captured(t, fd) /\ l >= 0 THEN "kernel" ELSE "kernel_only",
             -1, fd, -1)
    /\ IF Captured(t, fd) /\ ht_fd(t, fd) /\ ok
       THEN /\ sfd[l] >= 0 /\ count[l] <= 1
            /\ svc' = [svc EXCEPT ![sfd[l]] = @ - 1]
       ELSE UNCHANGED svc
    /\ UNCHANGED <<count, file, sfd, hte, link, lfd_tabfree, lfd_tabmax, lfdlist, fds,
                   closing, kern, cloexec, fdset, opened>>
wrap_in_close_early(t, fd, ok) ==
    LET l == fd2lfd(t, fd) IN
    /\ CanCall(t)
    /\ Enter(t, "close", IF Captured(t, fd) /\ l >= 0 THEN "kernel" ELSE "kernel_only",
             -1, fd, -1)
    /\ IF Captured(t, fd) /\ ht_fd(t, fd) /\ ok
       THEN /\ sfd[l] >= 0
            /\ svc' = [svc EXCEPT ![sfd[l]] = @ - 1]
            /\ sfd' = [sfd EXCEPT ![l] = -1]
       ELSE UNCHANGED <<svc, sfd>>
    /\ UNCHANGED <<count, file, hte, link, lfd_tabfree, lfd_tabmax, lfdlist, fds,
                   closing, kern, cloexec, fdset, opened>>
wrap_in_close(t, fd, ok) ==
    LET l == fd2lfd(t, fd) IN
    /\ CanCall(t)
    /\ Enter(t, "close", IF Captured(t, fd) /\ l >= 0 THEN "kernel" ELSE "kernel_only",
             -1, fd, -1)
    /\ IF Captured(t, fd) /\ ht_fd(t, fd) /\ ok
       THEN /\ sfd[l] >= 0 /\ count[l] <= 1
            /\ svc' = [svc EXCEPT ![sfd[l]] = @ - 1]
            /\ sfd' = [sfd EXCEPT ![l] = -1]
       ELSE UNCHANGED <<svc, sfd>>
    /\ UNCHANGED <<count, file, hte, link, lfd_tabfree, lfd_tabmax, lfdlist, fds,
                   closing, kern, cloexec, fdset, opened>>

kernel_close(t) ==
    /\ Kernel(t, "close")
    /\ kern' = [kern EXCEPT ![fds[t]][call[t].fd] = 0]
    /\ cloexec' = [cloexec EXCEPT ![fds[t]] = @ \ {call[t].fd}]
    /\ KernelReturn(t, 0)
    /\ UNCHANGED <<lfdvars, lfdlist, fds, closing, fdset, opened>>

(* lfd_deregister_n_close, and delfd for the virtual files                 *)
lfd_deregister_n_close(t, fd) ==
    /\ lfd_close(fd2lfd(t, fd))
    /\ lfdlist' = [lfdlist EXCEPT ![fds[t]][fd] = -1]
    /\ fdset' = IF ht_fd(t, fd) THEN [fdset EXCEPT ![fds[t]] = @ \ {fd}] ELSE fdset

wrap_out_close(t) ==
    /\ Out(t, "close")
    /\ lfd_deregister_n_close(t, call[t].fd)
    /\ Return(t)
    /\ UNCHANGED <<fds, closing, kern, cloexec, opened>>

-----------------------------------------------------------------------------
(* DUP, DUP2 and DUP3: old is the descriptor to replace, -1 for dup.  A    *)
(* virtual file the service has closed already gives EBADF: no step.       *)
wrap_in_dup(t, fd, old) ==
    LET l == fd2lfd(t, fd) IN
    /\ CanCall(t)
    /\ ~(ht_fd(t, fd) /\ sfd[l] < 0)
    /\ Enter(t, "dup", IF l >= 0 \/ fd2lfd(t, old) >= 0 THEN "kernel" ELSE "kernel_only",
             l, fd, old)
    /\ IF l >= 0 THEN lfd_dup(l) ELSE UNCHANGED lfdvars
    /\ UNCHANGED <<lfdlist, fds, closing, kern, cloexec, fdset, opened>>

(* FCNTL with F_DUPFD, for the virtual files only                          *)
wrap_in_fcntl(t, fd) ==
    LET l == fd2lfd(t, fd) IN
    /\ CanCall(t)
    /\ IF Captured(t, fd) /\ ht_fd(t, fd)
       THEN sfd[l] >= 0 /\ lfd_dup(l) /\ Enter(t, "dup", "kernel", l, fd, -1)
       ELSE UNCHANGED lfdvars /\ Enter(t, "dup", "kernel_only", -1, fd, -1)
    /\ UNCHANGED <<lfdlist, fds, closing, kern, cloexec, fdset, opened>>

(* F_DUPFD of a virtual file the service has closed already: EBADF, but    *)
(* wrap_out_fcntl runs all the same.  It takes for the new descriptor what *)
(* an earlier call of the thread left in outevent, old, and registers it   *)
(* for no file (a negative value there changes nothing).                   *)
wrap_out_fcntl(t, fd, old) ==
    /\ CanCall(t)
    /\ Captured(t, fd) /\ ht_fd(t, fd) /\ sfd[fd2lfd(t, fd)] < 0
    /\ lfdlist' = [lfdlist EXCEPT ![fds[t]][old] = -1]
    /\ UNCHANGED <<lfdvars, fds, call, closing, kern, cloexec, fdset, opened>>

(* dup3 with O_CLOEXEC may set the flag of the new descriptor              *)
kernel_dup(t) ==
    LET c == call[t]  p == fds[t] IN
    /\ Kernel(t, "dup")
    /\ \/ KernelReturn(t, -1) /\ UNCHANGED <<kern, cloexec>>
       \/ \E fd \in Fd :
             /\ kern[p][c.fd] # 0
             /\ IF c.old = -1 THEN LowestFree(p, fd) ELSE fd = c.old
             /\ kern' = [kern EXCEPT ![p][fd] = kern[p][c.fd]]
             /\ \/ cloexec' = [cloexec EXCEPT ![p] = IF c.fd = fd THEN @ ELSE @ \ {fd}]
                \/ /\ CloseOnExec /\ c.old # -1 /\ c.fd # fd
                   /\ cloexec' = [cloexec EXCEPT ![p] = @ \cup {fd}]
             /\ KernelReturn(t, fd)
    /\ UNCHANGED <<lfdvars, lfdlist, fds, closing, fdset, opened>>

(* The descriptor is added to the traced ones before the old one is        *)
(* deleted from them, and the two are the same.                            *)
wrap_out_dup_slip(t) ==
    LET c == call[t] IN
    /\ Out(t, "dup")
    /\ IF c.rv >= 0 /\ c.lfd >= 0
       THEN lfd_register(t, c.rv, c.lfd) /\ UNCHANGED lfdvars
       ELSE lfd_close(c.lfd) /\ UNCHANGED <<lfdlist, fdset>>
    /\ Return(t)
    /\ UNCHANGED <<fds, closing, kern, cloexec, opened>>
wrap_out_dup(t) ==
    LET c == call[t]  p == fds[t]
        oldlfd == fd2lfd(t, c.old) IN
    /\ Out(t, "dup")
    /\ IF c.rv >= 0
       THEN /\ lfd_close(oldlfd)
            /\ lfdlist' = [lfdlist EXCEPT ![p] = [fd \in Fd |->
                  IF fd = c.rv /\ c.lfd >= 0 THEN c.lfd
                  ELSE IF fd = c.old THEN -1 ELSE @[fd]]]
            /\ fdset' = [fdset EXCEPT ![p] =
                  (@ \cup {fd \in {c.rv} : c.lfd >= 0 /\ hte[c.lfd]})
                     \ {fd \in {c.old} : ht_fd(t, c.old)}]
       ELSE lfd_close(c.lfd) /\ UNCHANGED <<lfdlist, fdset>>
    /\ Return(t)
    /\ UNCHANGED <<fds, closing, kern, cloexec, opened>>

-----------------------------------------------------------------------------
(* A new thread c.  It and its parent wait until umproc_addproc has run:   *)
(* the event of the new thread comes before any other of the two.          *)
kernel_fork(t, c, q) ==
    LET p == fds[t] IN
    /\ CanCall(t) /\ fds[c] = NULL /\ \A l \in Lfd : count[l] < NCount
    /\ \/ Sharing /\ q = p /\ UNCHANGED <<kern, cloexec, fdset>>
       \/ /\ \A x \in Thread : fds[x] # q
          /\ kern' = [kern EXCEPT ![q] = kern[p]]
          /\ cloexec' = [cloexec EXCEPT ![q] = cloexec[p]]
          /\ fdset' = [fdset EXCEPT ![q] = fdset[p]]
    /\ fds' = [fds EXCEPT ![c] = q]
    /\ call' = [call EXCEPT ![t] = [NoCall EXCEPT !.op = "fork", !.at = "out", !.child = c],
                            ![c] = [NoCall EXCEPT !.op = "born", !.at = "out"]]
    /\ UNCHANGED <<lfdvars, lfdlist, closing, opened>>

Entries(p, l) == {f \in Fd : lfdlist[p][f] = l}

umproc_addproc(t) ==
    LET c == call[t].child IN
    /\ Out(t, "fork")
    /\ IF fds[c] = fds[t] THEN UNCHANGED <<lfdlist, count>>
       ELSE /\ lfdlist' = [lfdlist EXCEPT ![fds[c]] = lfdlist[fds[t]]]
            /\ count' = [l \in Lfd |-> count[l] + Cardinality(Entries(fds[t], l))]
    /\ call' = [call EXCEPT ![t] = NoCall, ![c] = NoCall]
    /\ UNCHANGED <<file, sfd, hte, link, lfd_tabfree, lfd_tabmax, svc, fds, closing,
                   kern, cloexec, fdset, opened>>

(* The kernel closes the descriptors marked; umview's tables do not change *)
kernel_execve(t) ==
    LET p == fds[t] IN
    /\ CanCall(t) /\ CloseOnExec
    /\ \A x \in Thread \ {t} : fds[x] # p
    /\ kern' = [kern EXCEPT ![p] = [f \in Fd |-> IF f \in cloexec[p] THEN 0 ELSE @[f]]]
    /\ cloexec' = [cloexec EXCEPT ![p] = {}]
    /\ UNCHANGED <<lfdvars, lfdlist, fds, call, closing, fdset, opened>>

(* The thread ends, or is killed inside a call: there is no wrap_out then  *)
kernel_exit(t) ==
    LET p == fds[t] IN
    /\ fds[t] # NULL
    /\ call[t].op \in IF Killing THEN {"none", "open", "close", "dup"} ELSE {"none"}
    /\ IF \E x \in Thread \ {t} : fds[x] = p /\ call[x].op # "exit"
       THEN UNCHANGED <<kern, cloexec, fdset>>
       ELSE /\ kern' = [kern EXCEPT ![p] = [f \in Fd |-> 0]]
            /\ cloexec' = [cloexec EXCEPT ![p] = {}]
            /\ fdset' = [fdset EXCEPT ![p] = {}]
    /\ Enter(t, "exit", "out", -1, 0, -1)
    /\ UNCHANGED <<lfdvars, lfdlist, fds, closing, opened>>

Drop(t) ==
    /\ fds' = [fds EXCEPT ![t] = NULL]
    /\ Return(t)
    /\ UNCHANGED <<lfdvars, lfdlist, kern, cloexec, fdset, opened>>

(* The last thread of a table closes all its lfds, one after the other     *)
umproc_delproc(t) ==
    \/ /\ Out(t, "exit")
       /\ IF \E x \in Thread \ {t} : fds[x] = fds[t]
          THEN Drop(t) /\ UNCHANGED closing
          ELSE /\ closing' = t
               /\ UNCHANGED <<lfdvars, lfdlist, fds, call, kern, cloexec, fdset, opened>>
    \/ /\ closing = t /\ call[t].fd \in Fd
       /\ lfd_close(lfdlist[fds[t]][call[t].fd])
       /\ lfdlist' = [lfdlist EXCEPT ![fds[t]][call[t].fd] = -1]
       /\ call' = [call EXCEPT ![t].fd = @ + 1]
       /\ UNCHANGED <<fds, closing, kern, cloexec, fdset, opened>>
    \/ /\ closing = t /\ call[t].fd = NFd
       /\ Drop(t) /\ closing' = NULL

Step(t) ==
    \/ \E kind \in Kinds \ {"real"} : wrap_in_open(t, kind = "virtual")
    \/ "real" \in Kinds /\ open_real(t)
    \/ kernel_open(t) \/ wrap_out_open(t)
    \/ \E fd \in Fd, ok \in BOOLEAN : wrap_in_close(t, fd, ok)
    \/ kernel_close(t) \/ wrap_out_close(t)
    \/ \E fd \in Fd, old \in Fd \cup {-1} : wrap_in_dup(t, fd, old)
    \/ \E fd \in Fd : wrap_in_fcntl(t, fd)
    \/ \E fd, old \in Fd : wrap_out_fcntl(t, fd, old)
    \/ kernel_dup(t) \/ wrap_out_dup(t)
    \/ \E c \in Thread, q \in Table : kernel_fork(t, c, q)
    \/ umproc_addproc(t) \/ kernel_execve(t) \/ kernel_exit(t) \/ umproc_delproc(t)

Next == \E t \in Thread : Step(t)

Spec == Init /\ [][Next]_vars

-----------------------------------------------------------------------------
(* The descriptors and the calls in progress that refer to an lfd          *)
Named(l) == {x \in Table \X Fd : lfdlist[x[1]][x[2]] = l}
Held(l) == {t \in Thread : call[t].op \in {"open", "dup"} /\ call[t].lfd = l}
References(l) == Cardinality(Named(l)) + Cardinality(Held(l))

(* The count of an lfd is never below the number of the descriptors that   *)
(* refer to it, with the calls that are going to: lfd_close does not free  *)
(* an element some table or call still uses (the asserts lfd_tab[lfd] !=   *)
(* NULL of umproc.c), whoever shares, kills or forks in between.           *)
CountCovers == \A l \in Lfd : References(l) <= count[l]

(* As long as no table is shared and nobody is killed inside a call, the   *)
(* count is exact and every lfd is freed in the end.                       *)
CountExact == \A l \in Lfd : count[l] = References(l)

(* The free elements of lfd_tab, linked through their pointers: following  *)
(* lfd_tabfree as lfd_alloc does meets each element that is not in use     *)
(* once, and no element that is.                                           *)
FreeListRight ==
    LET free == {l \in Lfd : l < lfd_tabmax /\ count[l] = 0}
        at[n \in Nat] == IF n = 0 THEN lfd_tabfree
                         ELSE IF at[n - 1] = -1 THEN -1 ELSE link[at[n - 1]]
    IN  /\ {at[n] : n \in 0..Cardinality(free) - 1} = free
        /\ at[Cardinality(free)] = -1

(* The service has a file open exactly as long as some lfd refers to it:   *)
(* wrap_in_close and lfd_close never both close it, and an lfd that is     *)
(* freed leaves no file open in the service.                               *)
ServiceClosesOnce ==
    \A v \in File :
       svc[v] = IF \E l \in Lfd : count[l] > 0 /\ sfd[l] = v THEN 1 ELSE 0

(* wrap_in_close closes the file in the service before the kernel closes   *)
(* the descriptor.  Nobody but the caller can still reach the file then.   *)
ClosedIsUnused ==
    \A l \in Lfd : count[l] > 0 /\ hte[l] /\ sfd[l] = -1 =>
       \E t \in Thread : /\ fds[t] # NULL /\ call[t].op = "close"
                         /\ Named(l) = {<<fds[t], call[t].fd>>} /\ Held(l) = {}

(* A table nobody is using at the moment                                   *)
Quiet(p) == /\ \E t \in Thread : fds[t] = p
            /\ \A t \in Thread : fds[t] = p => call[t].op = "none"

(* lfdlist tells the files of a process as the kernel does: a descriptor   *)
(* is registered for a virtual file if and only if the kernel has the FIFO *)
(* of that file behind it.                                                 *)
RegisteredMatchesKernel ==
    \A p \in Table, f \in Fd : Quiet(p) =>
       LET l == lfdlist[p][f] IN
       IF l >= 0 THEN kern[p][f] = (IF hte[l] THEN file[l] ELSE -1)
                 ELSE kern[p][f] <= 0

(* kmview's module sends the calls on a descriptor only if it was added to *)
(* the set of the traced ones.  No descriptor is in the set that is not    *)
(* registered for a virtual file: the calls on real files are not sent.    *)
TracedAreVirtual ==
    \A p \in Table, f \in Fd : Quiet(p) /\ f \in fdset[p] =>
       lfdlist[p][f] >= 0 /\ hte[lfdlist[p][f]]

(* Every descriptor registered for a virtual file is traced                *)
VirtualAreTraced ==
    \A p \in Table, f \in Fd : Quiet(p) /\ lfdlist[p][f] >= 0 /\ hte[lfdlist[p][f]] =>
       f \in fdset[p]
====
