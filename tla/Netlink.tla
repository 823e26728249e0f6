------------------------------ MODULE Netlink ------------------------------
(***************************************************************************)
(* The event path of the monks kernel module (monks_kmodule/netlink.c):    *)
(* post-hooks append a buffer to nl_queue and wake a kernel thread, which  *)
(* drains the queue and sends each buffer to the registered viewer.  The   *)
(* loader (hook_init and hook_exit, main.c) creates and stops the thread   *)
(* and the socket; the sysctl files and the viewers change monks_state and *)
(* client_pid at any time.                                                 *)
(*                                                                         *)
(* A step is one access to state another context can see, so every race    *)
(* the code has is a behaviour of the model.  An event is the number of    *)
(* its place in the order of the skb_queue_tail calls.                     *)
(***************************************************************************)
EXTENDS Integers, Sequences

CONSTANTS
  Senders,    (* contexts that run post-hooks                              *)
  Viewers,    (* pids of viewer processes                                  *)
  NoClient,   (* client_pid = -1: nobody listens                           *)
  MaxLinks,   (* MAX_LINKS: how many netlink protocols the kernel has      *)
  MaxEvents   (* bound: how many events are queued in a behaviour          *)

ASSUME NetlinkAssumption ==
  /\ NoClient \notin Viewers
  /\ MaxLinks \in Nat \ {0}
  /\ MaxEvents \in Nat

VARIABLES
  loader,       (* where hook_init, and later hook_exit, is                *)
  link,         (* nl_init: netlink_id, also its result (-1, -2: failed)   *)
  hooked,       (* the stubs in the syscall table call the hooks           *)
  controls,     (* the files under /proc/sys/monks exist                   *)
  monks_state,
  client_pid,
  thread,       (* where nl_kernel_thread is                               *)
  task,         (* its current->state                                      *)
  waiting,      (* it is on the wait queue nl_wait                         *)
  should_stop,  (* kthread_stop has been called on it                      *)
  skb,          (* the buffer it has dequeued, NoSkb if none               *)
  dest,         (* the client_pid it saw when it decided to send skb       *)
  nl_sk,        (* the kernel's netlink socket                             *)
  queue,        (* nl_queue                                                *)
  sender,       (* where each sender is                                    *)
  posted,       (* how many buffers have been queued                       *)
  viewer,       (* where each viewer is                                    *)
  delivered     (* buffers that have reached a viewer's socket, in order   *)

loaderVars == <<loader, link, hooked, controls>>
sysctlVars == <<monks_state, client_pid>>
threadVars == <<thread, skb, dest>>
wakeVars   == <<task, waiting, should_stop>>
senderVars == <<sender, posted>>
viewerVars == <<viewer, delivered>>

(* What no step of the loader or the thread changes, and what no step of a *)
(* viewer does.                                                            *)
hostVars   == <<sysctlVars, senderVars, viewerVars>>
kernelVars == <<loaderVars, threadVars, wakeVars, nl_sk, queue, senderVars>>

vars == <<loaderVars, sysctlVars, threadVars, wakeVars, nl_sk, queue,
          senderVars, viewerVars>>

NoSkb == 0

(* Module memory is gone: rmmod is through, or insmod has failed.          *)
Gone == loader \in {"gone", "failed"}

Init ==
  /\ loader = "insmod"
  /\ link = -1
  /\ hooked = FALSE
  /\ controls = FALSE
  /\ monks_state = 0
  /\ client_pid = NoClient
  /\ thread = "none"
  /\ task = "running"
  /\ waiting = FALSE
  /\ should_stop = FALSE
  /\ skb = NoSkb
  /\ dest = NoClient
  /\ nl_sk = "none"
  /\ queue = <<>>
  /\ sender = [s \in Senders |-> "idle"]
  /\ posted = 0
  /\ viewer = [v \in Viewers |-> "off"]
  /\ delivered = <<>>

-----------------------------------------------------------------------------
(* hook_init: nl_init, then hook_calls, then register_monks_controls       *)

KthreadRun ==
  /\ loader = "insmod"
  /\ \/ /\ thread' = "start"
        /\ loader' = "bind"
        /\ link' = MaxLinks - 1
     \/ /\ loader' = "hook"        \* IS_ERR_OR_NULL(nl_thread)
        /\ link' = -2
        /\ UNCHANGED thread
  /\ UNCHANGED <<hooked, controls, skb, dest, wakeVars, nl_sk, queue,
                 hostVars>>

(* A slip: the loop does not end at protocol 0. *)
TryLinkUnbounded ==
  /\ loader = "bind"
  /\ link > -4
  /\ \/ /\ nl_sk' = "open"
        /\ loader' = "hook"
        /\ UNCHANGED link
     \/ /\ link' = link - 1
        /\ UNCHANGED <<loader, nl_sk>>
  /\ UNCHANGED <<hooked, controls, threadVars, wakeVars, queue, hostVars>>

(* One round of the loop over netlink_id: the protocol may be taken.       *)
TryLink ==
  /\ loader = "bind"
  /\ link >= 0
  /\ \/ /\ nl_sk' = "open"
        /\ loader' = "hook"
        /\ UNCHANGED link
     \/ /\ link' = link - 1
        /\ UNCHANGED <<loader, nl_sk>>
  /\ UNCHANGED <<hooked, controls, threadVars, wakeVars, queue, hostVars>>

(* A slip: nl_init gives up without stopping the thread. *)
NoLinkLeftUnstopped ==
  /\ loader = "bind"
  /\ link < 0
  /\ loader' = "hook"
  /\ UNCHANGED <<link, hooked, controls, threadVars, wakeVars, nl_sk, queue,
                 hostVars>>

NoLinkLeft ==
  /\ loader = "bind"
  /\ link < 0
  /\ loader' = "stop"
  /\ UNCHANGED <<link, hooked, controls, threadVars, wakeVars, nl_sk, queue,
                 hostVars>>

(* hook_calls returns silently when a table cannot be found or mapped.     *)
HookCalls ==
  /\ loader = "hook"
  /\ hooked' \in BOOLEAN
  /\ loader' = "register"
  /\ UNCHANGED <<link, controls, threadVars, wakeVars, nl_sk, queue,
                 hostVars>>

(* On failure hook_init returns -ENOMEM and undoes nothing.                *)
RegisterControls ==
  /\ loader = "register"
  /\ \/ /\ controls' = TRUE
        /\ loader' = "live"
     \/ /\ loader' = "failed"
        /\ UNCHANGED controls
  /\ UNCHANGED <<link, hooked, threadVars, wakeVars, nl_sk, queue, hostVars>>

-----------------------------------------------------------------------------
(* hook_exit: monks_state = 0, unregister, unhook, nl_halt                 *)

(* A slip: the socket does not pin the module. *)
HookExitInUse ==
  /\ loader = "live"
  /\ monks_state' = 0
  /\ loader' = "unregister"
  /\ UNCHANGED <<link, hooked, controls, client_pid, threadVars, wakeVars,
                 nl_sk, queue, senderVars, viewerVars>>

(* An open socket of the protocol holds a reference to the module: rmmod   *)
(* is refused while a viewer has one.                                      *)
HookExit ==
  /\ loader = "live"
  /\ \A v \in Viewers : viewer[v] \notin {"bound", "on"}
  /\ monks_state' = 0
  /\ loader' = "unregister"
  /\ UNCHANGED <<link, hooked, controls, client_pid, threadVars, wakeVars,
                 nl_sk, queue, senderVars, viewerVars>>

UnregisterControls ==
  /\ loader = "unregister"
  /\ controls' = FALSE
  /\ loader' = "unhook"
  /\ UNCHANGED <<link, hooked, threadVars, wakeVars, nl_sk, queue, hostVars>>

UnhookCalls ==
  /\ loader = "unhook"
  /\ hooked' \in {FALSE, hooked}
  /\ loader' = "release"
  /\ UNCHANGED <<link, controls, threadVars, wakeVars, nl_sk, queue,
                 hostVars>>

(* nl_halt, first statement.  Without a socket it dereferences NULL.       *)
ReleaseSocket ==
  /\ loader = "release"
  /\ IF nl_sk = "open"
     THEN /\ nl_sk' = "released"
          /\ loader' = "stop"
     ELSE /\ loader' = "oops"
          /\ UNCHANGED nl_sk
  /\ UNCHANGED <<link, hooked, controls, threadVars, wakeVars, queue,
                 hostVars>>

(* kthread_stop, called by nl_halt and by nl_init when no link is left: it *)
(* raises the flag, wakes the thread and waits until it has exited.        *)
RaiseStop ==
  /\ loader = "stop"
  /\ should_stop' = TRUE
  /\ loader' = "kick"
  /\ UNCHANGED <<link, hooked, controls, threadVars, task, waiting, nl_sk,
                 queue, hostVars>>

(* A slip: the flag is raised but nobody wakes the thread. *)
KickThreadUnwoken ==
  /\ loader = "kick"
  /\ loader' = "join"
  /\ UNCHANGED <<link, hooked, controls, threadVars, task, waiting,
                 should_stop, nl_sk, queue, hostVars>>

KickThread ==
  /\ loader = "kick"
  /\ task' = "running"
  /\ loader' = "join"
  /\ UNCHANGED <<link, hooked, controls, threadVars, waiting, should_stop,
                 nl_sk, queue, hostVars>>

(* A slip: the thread is told to stop but not waited for. *)
JoinThreadAtOnce ==
  /\ loader = "join"
  /\ loader' = IF link < 0 THEN "hook" ELSE "gone"
  /\ UNCHANGED <<link, hooked, controls, threadVars, wakeVars, nl_sk, queue,
                 hostVars>>

JoinThread ==
  /\ loader = "join"
  /\ thread \in {"exited", "oops"}
  /\ loader' = IF link < 0 THEN "hook" ELSE "gone"
  /\ UNCHANGED <<link, hooked, controls, threadVars, wakeVars, nl_sk, queue,
                 hostVars>>

Loading ==
  \/ KthreadRun \/ TryLink \/ NoLinkLeft \/ HookCalls \/ RegisterControls

Unloading ==
  \/ UnregisterControls \/ UnhookCalls \/ ReleaseSocket
  \/ RaiseStop \/ KickThread \/ JoinThread

-----------------------------------------------------------------------------
(* nl_kernel_thread                                                        *)

(* A slip: add_wait_queue is missing. *)
ThreadStartUnwaited ==
  /\ thread = "start"
  /\ thread' = IF should_stop THEN "exited" ELSE "test"
  /\ UNCHANGED <<loaderVars, skb, dest, wakeVars, nl_sk, queue, hostVars>>

(* kthread() leaves nl_kernel_thread out if it is stopped before it runs.  *)
ThreadStart ==
  /\ thread = "start"
  /\ IF should_stop
     THEN /\ thread' = "exited"
          /\ UNCHANGED waiting
     ELSE /\ thread' = "test"
          /\ waiting' = TRUE
  /\ UNCHANGED <<loaderVars, skb, dest, task, should_stop, nl_sk, queue,
                 hostVars>>

(* while(!kthread_should_stop()) ... current->state = TASK_RUNNING         *)
TestStop ==
  /\ thread = "test"
  /\ IF should_stop
     THEN /\ thread' = "unwait"
          /\ UNCHANGED task
     ELSE /\ thread' = "dequeue"
          /\ task' = "running"
  /\ UNCHANGED <<loaderVars, skb, dest, waiting, should_stop, nl_sk, queue,
                 hostVars>>

(* A slip: skb_peek where skb_dequeue is meant. *)
DequeuePeek ==
  /\ thread = "dequeue"
  /\ IF queue = <<>>
     THEN /\ thread' = "idle"
          /\ UNCHANGED skb
     ELSE /\ thread' = "check_state"
          /\ skb' = Head(queue)
  /\ UNCHANGED <<loaderVars, dest, wakeVars, nl_sk, queue, hostVars>>

Dequeue ==
  /\ thread = "dequeue"
  /\ IF queue = <<>>
     THEN /\ thread' = "idle"
          /\ UNCHANGED <<skb, queue>>
     ELSE /\ thread' = "check_state"
          /\ skb' = Head(queue)
          /\ queue' = Tail(queue)
  /\ UNCHANGED <<loaderVars, dest, wakeVars, nl_sk, hostVars>>

(* nl_send_skb reads monks_state, then client_pid, and only then sends.    *)
CheckState ==
  /\ thread = "check_state"
  /\ IF monks_state = 1
     THEN /\ thread' = "check_client"
          /\ UNCHANGED skb
     ELSE /\ thread' = "dequeue"
          /\ skb' = NoSkb
  /\ UNCHANGED <<loaderVars, dest, wakeVars, nl_sk, queue, hostVars>>

CheckClient ==
  /\ thread = "check_client"
  /\ IF client_pid # NoClient
     THEN /\ thread' = "unicast"
          /\ dest' = client_pid
          /\ UNCHANGED skb
     ELSE /\ thread' = "dequeue"
          /\ skb' = NoSkb
          /\ UNCHANGED dest
  /\ UNCHANGED <<loaderVars, wakeVars, nl_sk, queue, hostVars>>

(* nlmsg_unicast.  client_pid is a plain int: the call may use the value   *)
(* that was tested or read it again.  No socket of that pid, or a full     *)
(* one: the buffer is dropped.  nl_sk is dereferenced in any case: NULL    *)
(* kills the thread, a released socket may.                                *)
Unicast ==
  /\ thread = "unicast"
  /\ \/ \E v \in {dest, client_pid} \cap Viewers :
          /\ viewer[v] \in {"bound", "on"}
          /\ nl_sk # "none"
          /\ delivered' = Append(delivered, skb)
          /\ thread' = "dequeue"
     \/ /\ nl_sk # "none"
        /\ thread' = "dequeue"
        /\ UNCHANGED delivered
     \/ /\ nl_sk # "open"
        /\ thread' = "oops"
        /\ UNCHANGED delivered
  /\ skb' = NoSkb
  /\ dest' = NoClient
  /\ UNCHANGED <<loaderVars, sysctlVars, wakeVars, nl_sk, queue, senderVars,
                 viewer>>

SetInterruptible ==
  /\ thread = "idle"
  /\ task' = "interruptible"
  /\ thread' = "schedule"
  /\ UNCHANGED <<loaderVars, skb, dest, waiting, should_stop, nl_sk, queue,
                 hostVars>>

(* schedule() comes back when somebody has made the thread runnable.       *)
Schedule ==
  /\ thread = "schedule"
  /\ task = "running"
  /\ thread' = "test"
  /\ UNCHANGED <<loaderVars, skb, dest, wakeVars, nl_sk, queue, hostVars>>

RemoveWait ==
  /\ thread = "unwait"
  /\ waiting' = FALSE
  /\ thread' = "purge"
  /\ UNCHANGED <<loaderVars, skb, dest, task, should_stop, nl_sk, queue,
                 hostVars>>

Purge ==
  /\ thread = "purge"
  /\ queue' = <<>>
  /\ thread' = "exited"
  /\ UNCHANGED <<loaderVars, skb, dest, wakeVars, nl_sk, hostVars>>

(* The code the thread runs was freed by a failed insmod.                  *)
ThreadLost ==
  /\ Gone
  /\ thread \notin {"none", "exited", "oops"}
  /\ thread = "schedule" => task = "running"
  /\ thread' = "oops"
  /\ skb' = NoSkb
  /\ UNCHANGED <<loaderVars, dest, wakeVars, nl_sk, queue, hostVars>>

ThreadStep ==
  \/ /\ ~Gone
     /\ \/ ThreadStart \/ TestStop \/ Dequeue \/ CheckState \/ CheckClient
        \/ Unicast \/ SetInterruptible \/ Schedule \/ RemoveWait \/ Purge
  \/ ThreadLost

-----------------------------------------------------------------------------
(* nl_send, called by a post-hook that has found monks_state = 1           *)

EnterHook(s) ==
  /\ sender[s] = "idle"
  /\ hooked
  /\ monks_state = 1
  /\ sender' = [sender EXCEPT ![s] = "hook"]
  /\ UNCHANGED <<loaderVars, sysctlVars, threadVars, wakeVars, nl_sk, queue,
                 posted, viewerVars>>

(* A slip: skb_queue_head where skb_queue_tail is meant. *)
QueueTailAtHead(s) ==
  /\ sender[s] = "hook"
  /\ posted < MaxEvents
  /\ queue' = <<posted + 1>> \o queue
  /\ posted' = posted + 1
  /\ sender' = [sender EXCEPT ![s] = "wake"]
  /\ UNCHANGED <<loaderVars, sysctlVars, threadVars, wakeVars, nl_sk,
                 viewerVars>>

(* Serializing or nlmsg_new may find no memory: the event is dropped.      *)
QueueTail(s) ==
  /\ sender[s] = "hook"
  /\ \/ /\ posted < MaxEvents
        /\ queue' = Append(queue, posted + 1)
        /\ posted' = posted + 1
        /\ sender' = [sender EXCEPT ![s] = "wake"]
     \/ /\ sender' = [sender EXCEPT ![s] = "idle"]
        /\ UNCHANGED <<queue, posted>>
  /\ UNCHANGED <<loaderVars, sysctlVars, threadVars, wakeVars, nl_sk,
                 viewerVars>>

(* wake_up_interruptible: only a waiter that sleeps is made runnable.      *)
WakeUp(s) ==
  /\ sender[s] = "wake"
  /\ task' = IF waiting THEN "running" ELSE task
  /\ sender' = [sender EXCEPT ![s] = "idle"]
  /\ UNCHANGED <<loaderVars, sysctlVars, threadVars, waiting, should_stop,
                 nl_sk, queue, posted, viewerVars>>

(* A hook that is called, or goes on, after the module memory was freed.   *)
SenderLost(s) ==
  /\ Gone
  /\ sender[s] # "oops"
  /\ sender[s] # "idle" \/ hooked
  /\ sender' = [sender EXCEPT ![s] = "oops"]
  /\ UNCHANGED <<loaderVars, sysctlVars, threadVars, wakeVars, nl_sk, queue,
                 posted, viewerVars>>

NlSend(s) == ~Gone /\ (QueueTail(s) \/ WakeUp(s))

SenderStep(s) == (~Gone /\ EnterHook(s)) \/ NlSend(s) \/ SenderLost(s)

-----------------------------------------------------------------------------
(* The users of /proc/sys/monks                                            *)

SetState(v) ==
  /\ controls
  /\ v # monks_state
  /\ monks_state' = v
  /\ UNCHANGED <<kernelVars, client_pid, viewerVars>>

(* The file has mode 0666: any user may write it, not only viewers.        *)
WriteClient(p) ==
  /\ controls
  /\ client_pid' = p
  /\ UNCHANGED <<kernelVars, monks_state, viewerVars>>

(* net_init: socket() takes the reference, unless the module is on its way *)
(* out.                                                                    *)
NetInit(v) ==
  /\ viewer[v] = "off"
  /\ controls
  /\ loader = "live"
  /\ nl_sk = "open"
  /\ viewer' = [viewer EXCEPT ![v] = "bound"]
  /\ UNCHANGED <<kernelVars, sysctlVars, delivered>>

SetClient(v) ==
  /\ viewer[v] = "bound"
  /\ client_pid' = IF controls THEN v ELSE client_pid
  /\ viewer' = [viewer EXCEPT ![v] = "on"]
  /\ UNCHANGED <<kernelVars, monks_state, delivered>>

CloseSocket(v) ==
  /\ viewer[v] = "on"
  /\ viewer' = [viewer EXCEPT ![v] = "closed"]
  /\ UNCHANGED <<kernelVars, sysctlVars, delivered>>

ClearClient(v) ==
  /\ viewer[v] = "closed"
  /\ client_pid' = IF controls THEN NoClient ELSE client_pid
  /\ viewer' = [viewer EXCEPT ![v] = "off"]
  /\ UNCHANGED <<kernelVars, monks_state, delivered>>

(* Killed, or one of the early returns of main: client_pid stays.          *)
Quit(v) ==
  /\ viewer[v] # "off"
  /\ viewer' = [viewer EXCEPT ![v] = "off"]
  /\ UNCHANGED <<kernelVars, sysctlVars, delivered>>

Viewer(v) ==
  \/ NetInit(v) \/ SetClient(v) \/ CloseSocket(v) \/ ClearClient(v)
  \/ Quit(v)

-----------------------------------------------------------------------------
Next ==
  \/ Loading
  \/ HookExit
  \/ Unloading
  \/ ThreadStep
  \/ \E s \in Senders : SenderStep(s)
  \/ \E v \in {0, 1} : SetState(v)
  \/ \E p \in Viewers \cup {NoClient} : WriteClient(p)
  \/ \E v \in Viewers : Viewer(v)

Spec == Init /\ [][Next]_vars

(* insmod and rmmod, once called, the kernel thread and a hook that is     *)
(* running get the processor.  Nobody has to start anything.               *)
Fairness ==
  /\ WF_vars(Loading)
  /\ WF_vars(Unloading)
  /\ WF_vars(ThreadStep)
  /\ \A s \in Senders : WF_vars(NlSend(s))

FairSpec == Spec /\ Fairness

-----------------------------------------------------------------------------
TypeOK ==
  /\ loader \in {"insmod", "bind", "hook", "register", "live", "unregister",
                 "unhook", "release", "stop", "kick", "join", "gone", "failed",
                 "oops"}
  /\ link \in -2 .. MaxLinks - 1
  /\ hooked \in BOOLEAN
  /\ controls \in BOOLEAN
  /\ monks_state \in {0, 1}
  /\ client_pid \in Viewers \cup {NoClient}
  /\ thread \in {"none", "start", "test", "dequeue", "check_state",
                 "check_client", "unicast", "idle", "schedule", "unwait",
                 "purge", "exited", "oops"}
  /\ task \in {"running", "interruptible"}
  /\ waiting \in BOOLEAN
  /\ should_stop \in BOOLEAN
  /\ posted \in 0 .. MaxEvents
  /\ skb \in 0 .. posted
  /\ dest \in Viewers \cup {NoClient}
  /\ nl_sk \in {"none", "open", "released"}
  /\ queue \in Seq(1 .. posted)
  /\ sender \in [Senders -> {"idle", "hook", "wake", "oops"}]
  /\ viewer \in [Viewers -> {"off", "bound", "on", "closed"}]
  /\ delivered \in Seq(1 .. posted)

(* nl_send_skb never sees a NULL nl_sk, although the thread runs before    *)
(* the socket exists and after nl_init has given up: and it can see a      *)
(* released one only between the two statements of nl_halt.                *)
SendSocket ==
  thread = "unicast" =>
    \/ nl_sk = "open"
    \/ nl_sk = "released" /\ loader \in {"stop", "kick", "join"}

(* The number in /proc/sys/monks/netlink tells how nl_init fared, until    *)
(* nl_halt: it brings up the socket and the thread, or leaves neither,     *)
(* though the thread runs while nl_init is still looking for a protocol.   *)
(* Nothing but nl_halt ends a thread that has its socket.                  *)
NlInitWhole ==
  loader \in {"hook", "register", "live", "unregister", "unhook", "release", "oops"} =>
    /\ nl_sk = "open" <=> link >= 0
    /\ thread \in {"none", "exited", "oops"} <=> link < 0

(* Once hook_exit has started nothing reaches a viewer any more, whatever  *)
(* the sysctl files say: a viewer that could receive holds the module.     *)
NoDeliveryAfterExit == [][delivered' # delivered => loader = "live"]_vars

(* Events reach viewers in the order nl_send queued them, none of them     *)
(* twice, although hooks, thread and rmmod interleave freely.              *)
Channel == INSTANCE EventChannel
             WITH pending <- IF skb = NoSkb THEN queue ELSE <<skb>> \o queue,
                  out <- delivered

InOrder == Channel!InOrder

(* The path from post-hook to viewer is a lossy FIFO channel: no event is  *)
(* invented, duplicated or overtaken between skb_queue_tail and unicast.   *)
Implements == Channel!Spec

Asleep == thread = "schedule" /\ task = "interruptible"

Queued(e) == \E i \in DOMAIN queue : queue[i] = e

(* A buffer that is queued, and whose wake_up finds the thread asleep,     *)
(* leaves the queue, unless the thread crashes over a released socket or   *)
(* insmod has failed.                                                      *)
WakeDelivers ==
  \A e \in 1 .. MaxEvents :
    (Queued(e) /\ Asleep /\ \E s \in Senders : sender[s] = "wake")
      ~> (~Queued(e) \/ thread = "oops" \/ Gone)

(* kthread_stop ends a thread that is asleep when it raises the flag, and  *)
(* so rmmod ends.                                                          *)
StopWhileAsleep == (loader = "kick" /\ Asleep) ~> (loader # "kick" /\ loader # "join")

-----------------------------------------------------------------------------
(* What the documentation promises and the code does not keep              *)

(* README.md:38: rmmod unloads the module.  rmmod ends, then, whenever the *)
(* module had come up with its thread and socket.                          *)
UnloadEnds ==
  (loader = "unregister" /\ link >= 0) ~> (loader = "gone" \/ thread = "oops")

(* monks-viewer.c:206: a viewer that quits tells the module that "we're    *)
(* not listening anymore", we: it takes nobody else's registration away.   *)
QuitsOnlyItself ==
  [][\A v \in Viewers :
       ClearClient(v) /\ client_pid \in Viewers \ {v}
         => client_pid' = client_pid \/ viewer[client_pid] # "on"]_vars

=============================================================================
