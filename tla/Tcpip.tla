------------------------------- MODULE Tcpip --------------------------------
(***************************************************************************)
(* The threads of an lwipv6 stack (api/tcpip.c, core/netif.c).  Programs   *)
(* call the stack by messages in its queue, on which the tcpip thread      *)
(* works, and wait on semaphores for the answers; the netif thread polls   *)
(* the interfaces and posts what comes in.  tcpip_shutdown ends both and   *)
(* frees the stack.                                                        *)
(*                                                                         *)
(* Queue and requests of the netif thread are pipes: a write blocks while  *)
(* the pipe is full (QLen; the requests, one per interface, always fit).   *)
(* What the layers do with a packet is left out but for what it posts: a   *)
(* packet for the loopback interface goes to the queue of the stack.  So   *)
(* are timeouts (SysTimeouts), and calls that begin after the stack is     *)
(* freed.                                                                  *)
(***************************************************************************)
EXTENDS Naturals, Sequences

CONSTANTS Client, Main,   \* threads of the program; Main starts and ends the stack
          Netif,          \* interfaces with a descriptor
          Slirp,          \* those whose driver calls the tcpip thread back (lwslirp.c)
          QLen,           \* messages a pipe holds
          MaxCall, MaxPkt \* bounds: calls of the programs, packets

ASSUME TcpipAssumption ==
    /\ Main \in Client /\ Slirp \subseteq Netif /\ QLen \in Nat \ {0}
    /\ MaxCall \in Nat /\ MaxPkt \in Nat

VARIABLES queue,          \* stack->stack_queue
          tpc, ifs,       \* tcpip_thread: its place; the interfaces netif_cleanup has to do
          after,          \* the semaphore it signals when a callback returns
          npc, out, todo, \* netif_thread: its place, what it posts, the events of the last poll
          pfd, pipe, wopen, \* what it polls; netif_pipe and whether its write end is open
          list, up, open, \* netif_list, the interfaces with IFF_UP, the open descriptors
          late,           \* history: those set up after tcpip_set_down_interfaces
          cpc, msg,       \* the clients: their place and their message
          sem,            \* the semaphores with count 1
          calls, pkts     \* how many there were

tvars == <<tpc, ifs, after>>
nvars == <<npc, out, todo, pfd>>
ivars == <<pipe, wopen, list, up, open, late>>
cvars == <<cpc, msg, calls>>
vars == <<queue, tvars, nvars, ivars, cvars, sem, pkts>>

Msg(type, from, i) == [type |-> type, from |-> from, nif |-> i]
None == Msg("none", "none", "none")

Init ==
    /\ queue = <<>> /\ sem = {} /\ calls = 0 /\ pkts = 0
    /\ tpc = "off" /\ ifs = {} /\ after = "none"
    /\ npc = "off" /\ out = None /\ todo = {} /\ pfd = {}
    /\ pipe = <<>> /\ wopen = FALSE /\ list = {} /\ up = {} /\ open = {} /\ late = {}
    /\ cpc = [c \in Client |-> IF c = Main THEN "off" ELSE "idle"]
    /\ msg = [c \in Client |-> None]

(* write(2) on the pipe of the queue: it waits for room. *)
sys_mbox_post(m) == Len(queue) < QLen /\ queue' = Append(queue, m)

(* The types whose sender waits for an answer. *)
Sync == {"SYNC_CALLBACK", "NETIFADD", "NOTIFY_UP", "NOTIFY_DOWN", "SHUTDOWN"}

sys_sem_signal(s) == sem' = sem \cup {s}
sys_sem_wait(s) == s \in sem /\ sem' = sem \ {s}
-----------------------------------------------------------------------------
(* The programs. *)
tcpip_start ==
    /\ cpc[Main] = "off"
    /\ cpc' = [cpc EXCEPT ![Main] = "init"] /\ tpc' = "layers"
    /\ UNCHANGED <<queue, ifs, after, nvars, ivars, msg, calls, sem, pkts>>

tcpip_started ==
    /\ cpc[Main] = "init" /\ sys_sem_wait("init")
    /\ cpc' = [cpc EXCEPT ![Main] = "idle"]
    /\ UNCHANGED <<queue, tvars, nvars, ivars, msg, calls, pkts>>

Call(c, m) ==
    /\ cpc[c] = "idle" /\ cpc[Main] \notin {"off", "init", "freed"} /\ calls < MaxCall
    /\ cpc' = [cpc EXCEPT ![c] = "post"] /\ msg' = [msg EXCEPT ![c] = m]
    /\ calls' = calls + 1
    /\ UNCHANGED <<queue, tvars, nvars, pipe, wopen, list, open, sem, pkts>>

(* netlink_send, and the calls of sockets, which tcpip_apimsg passes on.   *)
(* The caller of an API message waits in its connection's mailbox; here it *)
(* may go on at once, which only adds behaviours.                          *)
tcpip_callback(c) ==
    /\ \E type \in {"SYNC_CALLBACK", "API"} : Call(c, Msg(type, c, "none"))
    /\ UNCHANGED <<up, late>>

(* Every interface is added once, by lwip_vdeif_add and the like. *)
tcpip_netif_add(c) ==
    /\ \E i \in Netif \ list :
         /\ \A d \in Client : msg[d].nif # i
         /\ Call(c, Msg("NETIFADD", c, i))
    /\ UNCHANGED <<up, late>>

(* netif_set_up sets the flag and notifies; netif_set_down notifies first. *)
netif_set_up(c) ==
    \E i \in list :
      /\ Call(c, Msg("NOTIFY_UP", c, i)) /\ up' = up \cup {i}
      /\ late' = IF tpc = "cleanup" THEN late \cup {i} ELSE late
netif_set_down(c) ==
    \E i \in list : Call(c, Msg("NOTIFY_DOWN", c, i)) /\ UNCHANGED <<up, late>>

tcpip_shutdown == Call(Main, Msg("SHUTDOWN", Main, "none")) /\ UNCHANGED <<up, late>>

Post(c) ==
    /\ cpc[c] = "post" /\ cpc[Main] # "freed"
    /\ sys_mbox_post(msg[c])
    /\ cpc' = [cpc EXCEPT ![c] = IF msg[c].type \in Sync THEN "wait" ELSE "idle"]
    /\ UNCHANGED <<tvars, nvars, ivars, msg, calls, sem, pkts>>

(* memp_malloc has no message left: the call returns and nothing is sent.  *)
(* netif_set_down clears the flag all the same.                            *)
NoMessage(c) ==
    /\ cpc[c] = "post"
    /\ cpc' = [cpc EXCEPT ![c] = "idle"] /\ msg' = [msg EXCEPT ![c] = None]
    /\ up' = IF msg[c].type = "NOTIFY_DOWN" THEN up \ {msg[c].nif} ELSE up
    /\ UNCHANGED <<queue, tvars, nvars, pipe, wopen, list, open, late, calls, sem, pkts>>

(* The answer is there; tcpip_shutdown frees the stack. *)
Return(c) ==
    /\ cpc[c] = "wait" /\ sys_sem_wait(c)
    /\ cpc' = [cpc EXCEPT ![c] = IF msg[c].type = "SHUTDOWN" THEN "freed" ELSE "idle"]
    /\ up' = IF msg[c].type = "NOTIFY_DOWN" THEN up \ {msg[c].nif} ELSE up
    /\ msg' = [msg EXCEPT ![c] = None]
    /\ UNCHANGED <<queue, tvars, nvars, pipe, wopen, list, open, late, calls, pkts>>
-----------------------------------------------------------------------------
(* tcpip_thread.  netif_init makes the pipe and starts the netif thread. *)
init_layers ==
    /\ tpc = "layers"
    /\ wopen' = TRUE /\ npc' = "poll" /\ tpc' = "queue"
    /\ UNCHANGED <<queue, ifs, after, out, todo, pfd, pipe, list, up, open, late, cvars, sem, pkts>>

tcpip_init_done ==
    /\ tpc = "queue" /\ sys_sem_signal("init") /\ tpc' = "fetch"
    /\ UNCHANGED <<queue, ifs, after, nvars, ivars, cvars, pkts>>

Fetch(types) ==
    /\ tpc = "fetch" /\ queue # <<>> /\ Head(queue).type \in types
    /\ queue' = Tail(queue)

(* ip_input, api_msg_input and callbacks without answer: each may send a   *)
(* packet through the loopback interface.                                  *)
ip_input ==
    /\ Fetch({"INPUT", "API", "CALLBACK"})
    /\ \/ tpc' = "fetch" /\ UNCHANGED pkts
       \/ pkts < MaxPkt /\ tpc' = "loop" /\ pkts' = pkts + 1
    /\ UNCHANGED <<ifs, after, nvars, ivars, cvars, sem>>

loopif_output ==
    /\ tpc = "loop" /\ sys_mbox_post(Msg("INPUT", "tcpip", "none")) /\ tpc' = "fetch"
    /\ sem' = IF after = "none" THEN sem ELSE sem \cup {after}
    /\ after' = "none"
    /\ UNCHANGED <<ifs, nvars, ivars, cvars, pkts>>

(* The function of a callback may send a packet as well (tcp_connect of a  *)
(* forwarded connection), and the answer comes when it returns.            *)
sync_callback ==
    /\ Fetch({"SYNC_CALLBACK", "NOTIFY_UP", "NOTIFY_DOWN"})
    /\ \/ sys_sem_signal(Head(queue).from) /\ UNCHANGED <<tpc, after, pkts>>
       \/ /\ Head(queue).type = "SYNC_CALLBACK" /\ pkts < MaxPkt
          /\ tpc' = "loop" /\ after' = Head(queue).from /\ pkts' = pkts + 1
          /\ UNCHANGED sem
    /\ UNCHANGED <<ifs, nvars, ivars, cvars>>

netif_add_slip ==
    /\ Fetch({"NETIFADD"})
    /\ LET i == Head(queue).nif IN
         \/ /\ list' = list \cup {i} /\ open' = open \cup {i} /\ pipe' = Append(pipe, i)
            /\ sys_sem_signal(Head(queue).from)
         \/ UNCHANGED <<list, open, pipe, sem>>
    /\ UNCHANGED <<tvars, nvars, wopen, up, late, cvars, pkts>>

(* The driver's init opens its descriptor and netif_addfd asks the netif   *)
(* thread to poll it; or it fails and the interface is not added.          *)
netif_add ==
    /\ Fetch({"NETIFADD"})
    /\ LET i == Head(queue).nif IN
         \/ list' = list \cup {i} /\ open' = open \cup {i} /\ pipe' = Append(pipe, i)
         \/ UNCHANGED <<list, open, pipe>>
    /\ sys_sem_signal(Head(queue).from)
    /\ UNCHANGED <<tvars, nvars, wopen, up, late, cvars, pkts>>

shutdown_layers ==
    /\ Fetch({"SHUTDOWN"}) /\ tpc' = "down"
    /\ UNCHANGED <<ifs, after, nvars, ivars, cvars, sem, pkts>>

tcpip_set_down_interfaces_slip ==
    /\ tpc = "down"
    /\ ifs' = list /\ tpc' = "cleanup"
    /\ UNCHANGED <<queue, after, nvars, ivars, cvars, sem, pkts>>

tcpip_set_down_interfaces ==
    /\ tpc = "down"
    /\ up' = {} /\ ifs' = list /\ tpc' = "cleanup"
    /\ UNCHANGED <<queue, after, nvars, pipe, wopen, list, open, late, cvars, sem, pkts>>

(* netif_cleanup: an interface that is up notifies, and tcpip_notify would *)
(* wait for an answer of this very thread (unless there is no message for  *)
(* it); otherwise the driver closes its descriptor.  Then the pipe is      *)
(* closed.                                                                 *)
netif_cleanup ==
    /\ tpc = "cleanup"
    /\ \/ \E i \in ifs :
            \/ /\ i \in up
               /\ sys_mbox_post(Msg("NOTIFY_DOWN", "tcpip", i)) /\ tpc' = "notify"
               /\ UNCHANGED <<ifs, open, wopen, up>>
            \/ i \in up /\ up' = up \ {i} /\ UNCHANGED <<queue, tpc, ifs, open, wopen>>
            \/ /\ i \notin up
               /\ open' = open \ {i} /\ ifs' = ifs \ {i}
               /\ UNCHANGED <<queue, tpc, wopen, up>>
       \/ /\ ifs = {} /\ wopen' = FALSE /\ tpc' = "join"
          /\ UNCHANGED <<queue, ifs, open, up>>
    /\ UNCHANGED <<after, nvars, pipe, list, late, cvars, sem, pkts>>

netif_shutdown_slip ==
    /\ tpc = "join" /\ tpc' = "signal"
    /\ UNCHANGED <<queue, ifs, after, nvars, ivars, cvars, sem, pkts>>

(* It waits for netif_cleanup_mutex. *)
netif_shutdown ==
    /\ tpc = "join" /\ sys_sem_wait("join") /\ tpc' = "signal"
    /\ UNCHANGED <<queue, ifs, after, nvars, ivars, cvars, pkts>>

tcpip_shutdown_done ==
    /\ tpc = "signal" /\ sys_sem_signal(Main) /\ tpc' = "exit"
    /\ UNCHANGED <<queue, ifs, after, nvars, ivars, cvars, pkts>>

tcpip_thread ==
    \/ init_layers \/ tcpip_init_done \/ ip_input \/ loopif_output \/ sync_callback \/ netif_add
    \/ shutdown_layers \/ tcpip_set_down_interfaces \/ netif_cleanup \/ netif_shutdown
    \/ tcpip_shutdown_done
-----------------------------------------------------------------------------
(* netif_thread.  One poll: the pipe comes first, and when there is        *)
(* something in it the interfaces wait for the next poll.                  *)
poll ==
    /\ npc = "poll"
    /\ \/ /\ ~wopen
          /\ npc' = "exit" /\ sys_sem_signal("join") /\ UNCHANGED <<todo, pfd, pipe>>
       \/ /\ wopen /\ pipe # <<>>
          /\ pfd' = pfd \cup {Head(pipe)} /\ pipe' = Tail(pipe)
          /\ UNCHANGED <<npc, todo, sem>>
       \/ /\ wopen /\ pipe = <<>>
          /\ \E R \in SUBSET pfd :
               /\ R # {} /\ pfd \ open \subseteq R
               /\ todo' = {[nif |-> i, nval |-> i \notin open] : i \in R}
          /\ npc' = "call" /\ UNCHANGED <<pfd, pipe, sem>>
    /\ UNCHANGED <<queue, tvars, out, wopen, list, up, open, late, cvars, pkts>>

(* The function of one interface: a closed descriptor is dropped; a packet *)
(* is passed to tcpip_input, or to callbacks in the tcpip thread, or used  *)
(* up by the driver.                                                       *)
call ==
    /\ npc = "call"
    /\ \/ todo = {} /\ npc' = "poll" /\ UNCHANGED <<todo, pfd, out, pkts>>
       \/ \E e \in todo :
            /\ todo' = todo \ {e}
            /\ \/ e.nval /\ pfd' = pfd \ {e.nif} /\ UNCHANGED <<npc, out, pkts>>
               \/ ~e.nval /\ UNCHANGED <<npc, pfd, out, pkts>>
               \/ /\ ~e.nval /\ pkts < MaxPkt
                  /\ pkts' = pkts + 1 /\ npc' = "post" /\ pfd' = pfd
                  /\ \/ out' = Msg("INPUT", "netif", e.nif)
                     \/ /\ e.nif \in Slirp
                        /\ \E type \in {"CALLBACK", "SYNC_CALLBACK"} :
                             out' = Msg(type, "netif", e.nif)
    /\ UNCHANGED <<queue, tvars, ivars, cvars, sem>>

tcpip_input ==
    /\ npc = "post" /\ sys_mbox_post(out)
    /\ npc' = IF out.type \in Sync THEN "wait" ELSE "call"
    /\ UNCHANGED <<tvars, out, todo, pfd, ivars, cvars, sem, pkts>>

called_back ==
    /\ npc = "wait" /\ sys_sem_wait("netif") /\ npc' = "call"
    /\ UNCHANGED <<queue, tvars, out, todo, pfd, ivars, cvars, pkts>>

netif_thread == poll \/ call \/ tcpip_input \/ called_back
-----------------------------------------------------------------------------
Next ==
    \/ tcpip_start \/ tcpip_started \/ tcpip_shutdown
    \/ \E c \in Client : \/ tcpip_callback(c) \/ tcpip_netif_add(c) \/ netif_set_up(c)
                         \/ netif_set_down(c) \/ Post(c) \/ NoMessage(c) \/ Return(c)
    \/ tcpip_thread \/ netif_thread

Spec == Init /\ [][Next]_vars

(* The threads of the stack go on, and so does a call that was answered. *)
FairSpec ==
    /\ Spec /\ WF_vars(tcpip_thread) /\ WF_vars(netif_thread)
    /\ \A c \in Client : WF_vars(Return(c))
-----------------------------------------------------------------------------
(* When tcpip_shutdown frees the stack, neither thread uses it any more    *)
(* ("Stack no more active for sure"), whatever they were at when it came.  *)
QuietWhenFreed ==
    cpc[Main] = "freed" => tpc = "exit" /\ npc = "exit" /\ ~wopen

(* The tcpip thread writes to its own full queue. *)
SelfFull == tpc \in {"loop", "cleanup"} /\ Len(queue) = QLen

(* tcpip_thread waits in netif_shutdown for the netif thread, which waits  *)
(* for an answer or for room in the queue; or an interface was set up      *)
(* behind its back while it shuts down, and it waits for itself.  The      *)
(* second also holds for a moment when the answer is on its way.           *)
Stuck ==
    \/ SelfFull
    \/ tpc = "join" /\ (npc = "wait" \/ (npc = "post" /\ Len(queue) = QLen))
    \/ tpc = "notify" /\ ifs \cap late # {}

Ahead(c) ==
    tpc \in {"fetch", "loop"} /\ \E k \in 1 .. Len(queue) :
      queue[k] = msg[c] /\ \A j \in 1 .. k : queue[j].type # "SHUTDOWN"

(* A call that is in the queue before the SHUTDOWN message returns, unless *)
(* the thread fills its own queue (tcpip_callback, tcpip_notify,           *)
(* tcpip_netif_add wait without a timeout).                                *)
Served ==
    \A c \in Client : (cpc[c] = "wait" /\ Ahead(c)) ~> (cpc[c] # "wait" \/ SelfFull)

(* tcpip_shutdown returns, unless the threads come to one of the states of *)
(* Stuck (which they may leave again).                                     *)
ShutdownEnds ==
    (cpc[Main] = "wait" /\ msg[Main].type = "SHUTDOWN") ~> (cpc[Main] = "freed" \/ Stuck)
=============================================================================
