--------------------------- MODULE NetlinkProofs ---------------------------
(* Proofs about Netlink, for every set of hooks and viewers. *)
EXTENDS Netlink, TLAPS

USE NetlinkAssumption
USE DEF loaderVars, sysctlVars, threadVars, wakeVars, senderVars, viewerVars,
        hostVars, kernelVars, NoSkb

(* The thread holds a buffer just while it decides what to do with it.     *)
SkbHeld ==
  (skb # NoSkb) <=> (thread \in {"check_state", "check_client", "unicast"})

Unborn == loader = "insmod" => thread = "none"

TypeInv == TypeOK /\ SkbHeld /\ Unborn

LEMMA SeqMono ==
  ASSUME NEW S, NEW T, S \subseteq T, NEW s \in Seq(S)
  PROVE  s \in Seq(T)
<1>1. \A i \in 1 .. Len(s) : s[i] \in T
  OBVIOUS
<1> QED  BY <1>1

LEMMA TypeInit == Init => TypeInv
<1> SUFFICES ASSUME Init PROVE TypeInv
  OBVIOUS
<1>1. hooked \in BOOLEAN /\ controls \in BOOLEAN /\ waiting \in BOOLEAN /\ should_stop \in BOOLEAN
  BY DEF Init
<1>2. queue \in Seq(1 .. posted) /\ delivered \in Seq(1 .. posted)
  BY DEF Init
<1>3. link \in -2 .. MaxLinks - 1 /\ posted \in 0 .. MaxEvents /\ skb \in 0 .. posted
  BY DEF Init
<1> QED  BY <1>1, <1>2, <1>3 DEF Init, TypeInv, TypeOK, SkbHeld, Unborn

LEMMA TypeStep == TypeInv /\ [Next]_vars => TypeInv'
<1> SUFFICES ASSUME TypeInv, [Next]_vars
             PROVE  TypeInv'
  OBVIOUS
<1>1. CASE KthreadRun
  <2>1. link' \in -2 .. MaxLinks - 1
    BY <1>1 DEF KthreadRun
  <2>2. /\ loader' \in {"bind", "hook"}
        /\ thread' = thread \/ thread' = "start"
        /\ UNCHANGED <<hooked, controls, sysctlVars, skb, dest, wakeVars, nl_sk,
                       queue, senderVars, viewerVars>>
    BY <1>1 DEF KthreadRun
  <2>3. SkbHeld'
    BY <1>1, <2>2 DEF TypeInv, TypeOK, SkbHeld, Unborn, KthreadRun
  <2> QED  BY <2>1, <2>2, <2>3 DEF TypeInv, TypeOK, Unborn
<1>2. CASE TryLink
  BY <1>2 DEF TryLink, TypeInv, TypeOK, SkbHeld, Unborn
<1>3. CASE NoLinkLeft
  BY <1>3 DEF NoLinkLeft, TypeInv, TypeOK, SkbHeld, Unborn
<1>4. CASE HookCalls
  BY <1>4 DEF HookCalls, TypeInv, TypeOK, SkbHeld, Unborn
<1>5. CASE RegisterControls
  <2>1. controls' \in BOOLEAN
    BY <1>5 DEF RegisterControls, TypeInv, TypeOK, SkbHeld, Unborn
  <2> QED  BY <1>5, <2>1 DEF RegisterControls, TypeInv, TypeOK, SkbHeld, Unborn
<1>6. CASE HookExit
  BY <1>6 DEF HookExit, TypeInv, TypeOK, SkbHeld, Unborn
<1>7. CASE UnregisterControls
  <2>1. controls' \in BOOLEAN
    BY <1>7 DEF UnregisterControls, TypeInv, TypeOK, SkbHeld, Unborn
  <2> QED  BY <1>7, <2>1 DEF UnregisterControls, TypeInv, TypeOK, SkbHeld, Unborn
<1>8. CASE UnhookCalls
  <2>1. hooked' \in BOOLEAN
    BY <1>8 DEF UnhookCalls, TypeInv, TypeOK, SkbHeld, Unborn
  <2> QED  BY <1>8, <2>1 DEF UnhookCalls, TypeInv, TypeOK, SkbHeld, Unborn
<1>9. CASE ReleaseSocket
  BY <1>9 DEF ReleaseSocket, TypeInv, TypeOK, SkbHeld, Unborn
<1>10. CASE RaiseStop
  BY <1>10 DEF RaiseStop, TypeInv, TypeOK, SkbHeld, Unborn
<1>11. CASE KickThread
  BY <1>11 DEF KickThread, TypeInv, TypeOK, SkbHeld, Unborn
<1>12. CASE JoinThread
  BY <1>12 DEF JoinThread, TypeInv, TypeOK, SkbHeld, Unborn
<1>13. CASE ~Gone /\ ThreadStart
  <2>1. waiting' \in BOOLEAN
    BY <1>13 DEF ThreadStart, TypeInv, TypeOK, SkbHeld, Unborn
  <2> QED  BY <1>13, <2>1 DEF ThreadStart, TypeInv, TypeOK, SkbHeld, Unborn
<1>14. CASE ~Gone /\ TestStop
  BY <1>14 DEF TestStop, TypeInv, TypeOK, SkbHeld, Unborn
<1>15. CASE ~Gone /\ Dequeue
  <2>1. CASE queue = <<>>
    BY <1>15, <2>1 DEF Dequeue, TypeInv, TypeOK, SkbHeld, Unborn
  <2>2. CASE queue # <<>>
    <3>1. Head(queue) \in 1 .. posted /\ Tail(queue) \in Seq(1 .. posted)
      BY <2>2 DEF TypeInv, TypeOK, Unborn
    <3>2. skb' \in 1 .. posted' /\ queue' \in Seq(1 .. posted') /\ thread' = "check_state"
      BY <1>15, <2>2, <3>1 DEF Dequeue
    <3>3. skb' \in 0 .. posted' /\ SkbHeld'
      BY <1>15, <2>2, <3>2 DEF Dequeue, TypeInv, TypeOK, SkbHeld, Unborn
    <3> QED  BY <1>15, <2>2, <3>2, <3>3 DEF Dequeue, TypeInv, TypeOK, Unborn
  <2> QED  BY <2>1, <2>2
<1>16. CASE ~Gone /\ CheckState
  BY <1>16 DEF CheckState, TypeInv, TypeOK, SkbHeld, Unborn
<1>17. CASE ~Gone /\ CheckClient
  BY <1>17 DEF CheckClient, TypeInv, TypeOK, SkbHeld, Unborn
<1>18. CASE ~Gone /\ Unicast
  <2>0. skb \in 1 .. posted
    BY <1>18 DEF Unicast, TypeInv, TypeOK, SkbHeld, Unborn
  <2>1. delivered' \in Seq(1 .. posted)
    <3>1. CASE delivered' = delivered
      BY <3>1 DEF TypeInv, TypeOK, Unborn
    <3>2. CASE delivered' = Append(delivered, skb)
      BY <1>18, <3>2, <2>0 DEF Unicast, TypeInv, TypeOK, SkbHeld, Unborn
    <3> QED  BY <1>18, <3>1, <3>2 DEF Unicast
  <2> QED  BY <1>18, <2>1 DEF Unicast, TypeInv, TypeOK, SkbHeld, Unborn
<1>19. CASE ~Gone /\ SetInterruptible
  BY <1>19 DEF SetInterruptible, TypeInv, TypeOK, SkbHeld, Unborn
<1>20. CASE ~Gone /\ Schedule
  BY <1>20 DEF Schedule, TypeInv, TypeOK, SkbHeld, Unborn
<1>21. CASE ~Gone /\ RemoveWait
  <2>1. waiting' \in BOOLEAN
    BY <1>21 DEF RemoveWait, TypeInv, TypeOK, SkbHeld, Unborn
  <2> QED  BY <1>21, <2>1 DEF RemoveWait, TypeInv, TypeOK, SkbHeld, Unborn
<1>22. CASE ~Gone /\ Purge
  BY <1>22 DEF Purge, TypeInv, TypeOK, SkbHeld, Unborn
<1>23. CASE ThreadLost
  BY <1>23 DEF ThreadLost, TypeInv, TypeOK, SkbHeld, Unborn
<1>24. ASSUME NEW s \in Senders, ~Gone, EnterHook(s) PROVE TypeInv'
  BY <1>24 DEF EnterHook, TypeInv, TypeOK, SkbHeld, Unborn
<1>25. ASSUME NEW s \in Senders, ~Gone, QueueTail(s) PROVE TypeInv'
  <2>1. posted' \in 0 .. MaxEvents /\ posted <= posted' /\ posted \in Nat
    BY <1>25 DEF QueueTail, TypeInv, TypeOK, SkbHeld, Unborn
  <2>2. 1 .. posted \subseteq 1 .. posted' /\ 0 .. posted \subseteq 0 .. posted'
    BY <2>1
  <2>3. queue' \in Seq(1 .. posted')
    <3>1. queue \in Seq(1 .. posted')
      BY <2>2, SeqMono DEF TypeInv, TypeOK, Unborn
    <3>2. CASE UNCHANGED <<queue, posted>>
      BY <3>2 DEF TypeInv, TypeOK, Unborn
    <3>3. CASE queue' = Append(queue, posted + 1) /\ posted' = posted + 1
      <4>1. posted + 1 \in 1 .. posted'
        BY <3>3, <2>1
      <4> QED  BY <3>1, <3>3, <4>1
    <3> QED  BY <1>25, <3>2, <3>3 DEF QueueTail
  <2>4. delivered' \in Seq(1 .. posted') /\ skb' \in 0 .. posted'
    BY <1>25, <2>2, SeqMono DEF QueueTail, TypeInv, TypeOK, SkbHeld, Unborn
  <2>5. sender' \in [Senders -> {"idle", "hook", "wake", "oops"}]
    BY <1>25 DEF QueueTail, TypeInv, TypeOK
  <2>6. SkbHeld'
    BY <1>25 DEF QueueTail, TypeInv, SkbHeld
  <2>7. /\ UNCHANGED <<loaderVars, sysctlVars, threadVars, wakeVars, nl_sk, viewer>>
        /\ posted' \in 0 .. MaxEvents
    BY <1>25, <2>1 DEF QueueTail
  <2> QED  BY <2>3, <2>4, <2>5, <2>6, <2>7 DEF TypeInv, TypeOK, Unborn
<1>26. ASSUME NEW s \in Senders, ~Gone, WakeUp(s) PROVE TypeInv'
  BY <1>26 DEF WakeUp, TypeInv, TypeOK, SkbHeld, Unborn
<1>27. ASSUME NEW s \in Senders, SenderLost(s) PROVE TypeInv'
  BY <1>27 DEF SenderLost, TypeInv, TypeOK, SkbHeld, Unborn
<1>28. ASSUME NEW v \in {0, 1}, SetState(v) PROVE TypeInv'
  BY <1>28 DEF SetState, TypeInv, TypeOK, SkbHeld, Unborn
<1>29. ASSUME NEW p \in Viewers \cup {NoClient}, WriteClient(p) PROVE TypeInv'
  BY <1>29 DEF WriteClient, TypeInv, TypeOK, SkbHeld, Unborn
<1>30. ASSUME NEW v \in Viewers, NetInit(v) PROVE TypeInv'
  BY <1>30 DEF NetInit, TypeInv, TypeOK, SkbHeld, Unborn
<1>31. ASSUME NEW v \in Viewers, SetClient(v) PROVE TypeInv'
  BY <1>31 DEF SetClient, TypeInv, TypeOK, SkbHeld, Unborn
<1>32. ASSUME NEW v \in Viewers, CloseSocket(v) PROVE TypeInv'
  BY <1>32 DEF CloseSocket, TypeInv, TypeOK, SkbHeld, Unborn
<1>33. ASSUME NEW v \in Viewers, ClearClient(v) PROVE TypeInv'
  BY <1>33 DEF ClearClient, TypeInv, TypeOK, SkbHeld, Unborn
<1>34. ASSUME NEW v \in Viewers, Quit(v) PROVE TypeInv'
  BY <1>34 DEF Quit, TypeInv, TypeOK, SkbHeld, Unborn
<1>35. CASE UNCHANGED vars
  BY <1>35 DEF vars, TypeInv, TypeOK, SkbHeld, Unborn
<1> QED
  BY <1>1, <1>2, <1>3, <1>4, <1>5, <1>6, <1>7, <1>8, <1>9, <1>10, <1>11, <1>12, <1>13, <1>14, <1>15, <1>16, <1>17, <1>18, <1>19, <1>20, <1>21, <1>22, <1>23, <1>24, <1>25, <1>26, <1>27, <1>28, <1>29, <1>30, <1>31, <1>32, <1>33, <1>34, <1>35
     DEF Next, Loading, Unloading, ThreadStep, SenderStep, NlSend, Viewer

(* The variables of Netlink keep their types.                              *)
THEOREM TypeCorrect == Spec => []TypeOK
<1>1. TypeInv => TypeOK
  BY DEF TypeInv
<1> QED  BY TypeInit, TypeStep, <1>1, PTL DEF Spec


-----------------------------------------------------------------------------
(* The socket: until nl_init is through nothing can be sent; from then on  *)
(* either there is a socket or there is no thread.  The thread goes on     *)
(* until it is told to stop, and with a socket only nl_halt tells it.      *)
Stopping == {"stop", "kick", "join"}

InNlInit == loader \in {"insmod", "bind"} \/ (loader \in Stopping /\ link < 0)

Quiet ==
  /\ ~hooked
  /\ queue = <<>>
  /\ skb = NoSkb
  /\ nl_sk = "none"
  /\ \A s \in Senders : sender[s] = "idle"

SocketInv ==
  /\ InNlInit => Quiet
  /\ nl_sk = "none" => (InNlInit \/ thread \in {"none", "exited", "oops"})
  /\ nl_sk # "none" => link >= 0
  /\ nl_sk = "released" => loader \in Stopping \cup {"gone"}
  /\ loader = "gone" => thread \in {"exited", "oops"}
  /\ \A v \in Viewers : viewer[v] \in {"bound", "on"} => loader = "live"

StopInv ==
  /\ should_stop => \/ loader \in {"kick", "join", "gone"}
                    \/ link < 0 /\ loader \notin {"insmod", "bind"}
  /\ thread \in {"unwait", "purge", "exited"} => should_stop
  /\ loader = "bind" => thread \notin {"none", "exited", "oops"}

LEMMA SocketInit == Init => SocketInv
  BY DEF Init, SocketInv, InNlInit, Stopping, Quiet

LEMMA SocketStep == TypeInv /\ SocketInv /\ [Next]_vars => SocketInv'
<1> SUFFICES ASSUME TypeInv, SocketInv, [Next]_vars
             PROVE  SocketInv'
  OBVIOUS
<1> USE DEF SocketInv, InNlInit, Stopping, Quiet, Gone
<1>1. CASE KthreadRun
  BY <1>1 DEF KthreadRun, TypeInv, TypeOK, SkbHeld, Unborn
<1>2. CASE TryLink
  BY <1>2 DEF TryLink, TypeInv, TypeOK, SkbHeld, Unborn
<1>3. CASE NoLinkLeft
  BY <1>3 DEF NoLinkLeft, TypeInv, TypeOK, SkbHeld, Unborn
<1>4. CASE HookCalls
  BY <1>4 DEF HookCalls, TypeInv, TypeOK, SkbHeld, Unborn
<1>5. CASE RegisterControls
  BY <1>5 DEF RegisterControls, TypeInv, TypeOK, SkbHeld, Unborn
<1>6. CASE HookExit
  BY <1>6 DEF HookExit, TypeInv, TypeOK, SkbHeld, Unborn
<1>7. CASE UnregisterControls
  BY <1>7 DEF UnregisterControls, TypeInv, TypeOK, SkbHeld, Unborn
<1>8. CASE UnhookCalls
  BY <1>8 DEF UnhookCalls, TypeInv, TypeOK, SkbHeld, Unborn
<1>9. CASE ReleaseSocket
  BY <1>9 DEF ReleaseSocket, TypeInv, TypeOK, SkbHeld, Unborn
<1>10. CASE RaiseStop
  BY <1>10 DEF RaiseStop, TypeInv, TypeOK, SkbHeld, Unborn
<1>11. CASE KickThread
  BY <1>11 DEF KickThread, TypeInv, TypeOK, SkbHeld, Unborn
<1>12. CASE JoinThread
  BY <1>12 DEF JoinThread, TypeInv, TypeOK, SkbHeld, Unborn
<1>13. CASE ~Gone /\ ThreadStart
  BY <1>13 DEF ThreadStart, TypeInv, TypeOK, SkbHeld, Unborn
<1>14. CASE ~Gone /\ TestStop
  BY <1>14 DEF TestStop, TypeInv, TypeOK, SkbHeld, Unborn
<1>15. CASE ~Gone /\ Dequeue
  BY <1>15 DEF Dequeue, TypeInv, TypeOK, SkbHeld, Unborn
<1>16. CASE ~Gone /\ CheckState
  BY <1>16 DEF CheckState, TypeInv, TypeOK, SkbHeld, Unborn
<1>17. CASE ~Gone /\ CheckClient
  BY <1>17 DEF CheckClient, TypeInv, TypeOK, SkbHeld, Unborn
<1>18. CASE ~Gone /\ Unicast
  BY <1>18 DEF Unicast, TypeInv, TypeOK, SkbHeld, Unborn
<1>19. CASE ~Gone /\ SetInterruptible
  BY <1>19 DEF SetInterruptible, TypeInv, TypeOK, SkbHeld, Unborn
<1>20. CASE ~Gone /\ Schedule
  BY <1>20 DEF Schedule, TypeInv, TypeOK, SkbHeld, Unborn
<1>21. CASE ~Gone /\ RemoveWait
  BY <1>21 DEF RemoveWait, TypeInv, TypeOK, SkbHeld, Unborn
<1>22. CASE ~Gone /\ Purge
  BY <1>22 DEF Purge, TypeInv, TypeOK, SkbHeld, Unborn
<1>23. CASE ThreadLost
  BY <1>23 DEF ThreadLost, TypeInv, TypeOK, SkbHeld, Unborn
<1>24. ASSUME NEW s \in Senders, ~Gone, EnterHook(s) PROVE SocketInv'
  BY <1>24 DEF EnterHook, TypeInv, TypeOK, SkbHeld, Unborn
<1>25. ASSUME NEW s \in Senders, ~Gone, QueueTail(s) PROVE SocketInv'
  BY <1>25 DEF QueueTail, TypeInv, TypeOK, SkbHeld, Unborn
<1>26. ASSUME NEW s \in Senders, ~Gone, WakeUp(s) PROVE SocketInv'
  BY <1>26 DEF WakeUp, TypeInv, TypeOK, SkbHeld, Unborn
<1>27. ASSUME NEW s \in Senders, SenderLost(s) PROVE SocketInv'
  BY <1>27 DEF SenderLost, TypeInv, TypeOK, SkbHeld, Unborn
<1>28. ASSUME NEW v \in {0, 1}, SetState(v) PROVE SocketInv'
  BY <1>28 DEF SetState, TypeInv, TypeOK, SkbHeld, Unborn
<1>29. ASSUME NEW p \in Viewers \cup {NoClient}, WriteClient(p) PROVE SocketInv'
  BY <1>29 DEF WriteClient, TypeInv, TypeOK, SkbHeld, Unborn
<1>30. ASSUME NEW v \in Viewers, NetInit(v) PROVE SocketInv'
  BY <1>30 DEF NetInit, TypeInv, TypeOK, SkbHeld, Unborn
<1>31. ASSUME NEW v \in Viewers, SetClient(v) PROVE SocketInv'
  BY <1>31 DEF SetClient, TypeInv, TypeOK, SkbHeld, Unborn
<1>32. ASSUME NEW v \in Viewers, CloseSocket(v) PROVE SocketInv'
  BY <1>32 DEF CloseSocket, TypeInv, TypeOK, SkbHeld, Unborn
<1>33. ASSUME NEW v \in Viewers, ClearClient(v) PROVE SocketInv'
  BY <1>33 DEF ClearClient, TypeInv, TypeOK, SkbHeld, Unborn
<1>34. ASSUME NEW v \in Viewers, Quit(v) PROVE SocketInv'
  BY <1>34 DEF Quit, TypeInv, TypeOK, SkbHeld, Unborn
<1>35. CASE UNCHANGED vars
  BY <1>35 DEF vars, TypeInv, TypeOK, SkbHeld, Unborn
<1> QED
  BY <1>1, <1>2, <1>3, <1>4, <1>5, <1>6, <1>7, <1>8, <1>9, <1>10, <1>11, <1>12, <1>13, <1>14, <1>15, <1>16, <1>17, <1>18, <1>19, <1>20, <1>21, <1>22, <1>23, <1>24, <1>25, <1>26, <1>27, <1>28, <1>29, <1>30, <1>31, <1>32, <1>33, <1>34, <1>35
     DEF Next, Loading, Unloading, ThreadStep, SenderStep, NlSend, Viewer

LEMMA Invariants == Spec => [](TypeInv /\ SocketInv)
  BY TypeInit, TypeStep, SocketInit, SocketStep, PTL DEF Spec

(* The kernel thread never sends on a NULL socket, however nl_init fares,  *)
(* and on a released one only while nl_halt is stopping it.                *)
THEOREM SendSocketCorrect == Spec => []SendSocket
<1>1. TypeInv /\ SocketInv => SendSocket
  BY DEF TypeInv, TypeOK, SkbHeld, SocketInv, InNlInit, Stopping, Quiet, SendSocket
<1> QED  BY Invariants, <1>1, PTL

LEMMA InvInit == Init => StopInv /\ NlInitWhole
  BY DEF Init, StopInv, NlInitWhole

LEMMA InvStep ==
  TypeInv /\ SocketInv /\ StopInv /\ NlInitWhole /\ [Next]_vars => StopInv' /\ NlInitWhole'
<1> SUFFICES ASSUME TypeInv, SocketInv, StopInv, NlInitWhole, [Next]_vars
             PROVE  StopInv' /\ NlInitWhole'
  OBVIOUS
<1> USE DEF StopInv, NlInitWhole, SocketInv, InNlInit, Stopping, Quiet, Gone
(* Only the loader and the thread have to do with any of this.             *)
<1>0. ASSUME UNCHANGED <<loader, link, nl_sk, thread, should_stop>>
      PROVE  StopInv' /\ NlInitWhole'
  BY <1>0
<1>1. CASE KthreadRun
  BY <1>1 DEF KthreadRun, TypeInv, TypeOK, SkbHeld, Unborn
<1>2. CASE TryLink
  BY <1>2 DEF TryLink, TypeInv, TypeOK, SkbHeld, Unborn
<1>3. CASE NoLinkLeft
  BY <1>3 DEF NoLinkLeft, TypeInv, TypeOK, SkbHeld, Unborn
<1>4. CASE HookCalls
  BY <1>4 DEF HookCalls, TypeInv, TypeOK, SkbHeld, Unborn
<1>5. CASE RegisterControls
  BY <1>5 DEF RegisterControls, TypeInv, TypeOK, SkbHeld, Unborn
<1>6. CASE HookExit
  BY <1>6 DEF HookExit, TypeInv, TypeOK, SkbHeld, Unborn
<1>7. CASE UnregisterControls
  BY <1>7 DEF UnregisterControls, TypeInv, TypeOK, SkbHeld, Unborn
<1>8. CASE UnhookCalls
  BY <1>8 DEF UnhookCalls, TypeInv, TypeOK, SkbHeld, Unborn
<1>9. CASE ReleaseSocket
  BY <1>9 DEF ReleaseSocket, TypeInv, TypeOK, SkbHeld, Unborn
<1>10. CASE RaiseStop
  BY <1>10 DEF RaiseStop, TypeInv, TypeOK, SkbHeld, Unborn
<1>11. CASE KickThread
  BY <1>11 DEF KickThread, TypeInv, TypeOK, SkbHeld, Unborn
<1>12. CASE JoinThread
  BY <1>12 DEF JoinThread, TypeInv, TypeOK, SkbHeld, Unborn
<1>13. CASE ~Gone /\ ThreadStart
  BY <1>13 DEF ThreadStart, TypeInv, TypeOK, SkbHeld, Unborn
<1>14. CASE ~Gone /\ TestStop
  BY <1>14 DEF TestStop, TypeInv, TypeOK, SkbHeld, Unborn
<1>15. CASE ~Gone /\ Dequeue
  BY <1>15 DEF Dequeue, TypeInv, TypeOK, SkbHeld, Unborn
<1>16. CASE ~Gone /\ CheckState
  BY <1>16 DEF CheckState, TypeInv, TypeOK, SkbHeld, Unborn
<1>17. CASE ~Gone /\ CheckClient
  BY <1>17 DEF CheckClient, TypeInv, TypeOK, SkbHeld, Unborn
<1>18. CASE ~Gone /\ Unicast
  BY <1>18 DEF Unicast, TypeInv, TypeOK, SkbHeld, Unborn
<1>19. CASE ~Gone /\ SetInterruptible
  BY <1>19 DEF SetInterruptible, TypeInv, TypeOK, SkbHeld, Unborn
<1>20. CASE ~Gone /\ Schedule
  BY <1>20 DEF Schedule, TypeInv, TypeOK, SkbHeld, Unborn
<1>21. CASE ~Gone /\ RemoveWait
  BY <1>21 DEF RemoveWait, TypeInv, TypeOK, SkbHeld, Unborn
<1>22. CASE ~Gone /\ Purge
  BY <1>22 DEF Purge, TypeInv, TypeOK, SkbHeld, Unborn
<1>23. CASE ThreadLost
  BY <1>23 DEF ThreadLost, TypeInv, TypeOK, SkbHeld, Unborn
<1>24. CASE \/ \E s \in Senders : SenderStep(s)
            \/ \E v \in {0, 1} : SetState(v)
            \/ \E p \in Viewers \cup {NoClient} : WriteClient(p)
            \/ \E v \in Viewers : Viewer(v)
            \/ UNCHANGED vars
  <2>1. UNCHANGED <<loader, link, nl_sk, thread, should_stop>>
    BY <1>24 DEF SenderStep, NlSend, EnterHook, QueueTail, WakeUp, SenderLost, SetState,
                WriteClient, Viewer, NetInit, SetClient, CloseSocket, ClearClient, Quit, vars
  <2> QED  BY <1>0, <2>1
<1> QED
  BY <1>1, <1>2, <1>3, <1>4, <1>5, <1>6, <1>7, <1>8, <1>9, <1>10, <1>11, <1>12,
     <1>13, <1>14, <1>15, <1>16, <1>17, <1>18, <1>19, <1>20, <1>21, <1>22, <1>23, <1>24
  DEF Next, Loading, Unloading, ThreadStep

(* When nl_init is through there is a socket and a thread to serve it, or  *)
(* neither, as the number it returned says, and so it stays until nl_halt. *)
THEOREM NlInitWholeCorrect == Spec => []NlInitWhole
  BY TypeInit, TypeStep, SocketInit, SocketStep, InvInit, InvStep, PTL DEF Spec

(* Nothing is delivered once hook_exit has begun.                          *)
THEOREM NoDeliveryAfterExitCorrect == Spec => NoDeliveryAfterExit
<1>1. TypeInv /\ SocketInv /\ [Next]_vars
        => [delivered' # delivered => loader = "live"]_vars
  <2> SUFFICES ASSUME SocketInv, Next, delivered' # delivered
               PROVE  loader = "live"
    OBVIOUS
  <2>1. Unicast
    BY DEF Next, Loading, Unloading, ThreadStep, SenderStep, NlSend, Viewer,
           KthreadRun, TryLink, NoLinkLeft, HookCalls, RegisterControls,
           HookExit, UnregisterControls, UnhookCalls, ReleaseSocket, RaiseStop,
           KickThread, JoinThread, ThreadStart, TestStop, Dequeue, CheckState,
           CheckClient, SetInterruptible, Schedule, RemoveWait, Purge,
           ThreadLost, EnterHook, QueueTail, WakeUp, SenderLost, SetState,
           WriteClient, NetInit, SetClient, CloseSocket, ClearClient, Quit
  <2> QED  BY <2>1 DEF Unicast, SocketInv
<1> QED  BY Invariants, <1>1, PTL DEF Spec, NoDeliveryAfterExit

-----------------------------------------------------------------------------
(* The refinement: every step of Netlink is a step of the lossy channel,   *)
(* or none of its business.                                                *)
Pending == IF skb = NoSkb THEN queue ELSE <<skb>> \o queue

LEMMA ConsAppend ==
  ASSUME NEW S, NEW e \in S, NEW s \in Seq(S), NEW f \in S
  PROVE  <<e>> \o Append(s, f) = Append(<<e>> \o s, f)
  OBVIOUS

LEMMA ConsHeadTail ==
  ASSUME NEW S, NEW s \in Seq(S), s # <<>>
  PROVE  <<Head(s)>> \o Tail(s) = s
  OBVIOUS

LEMMA HeadCons ==
  ASSUME NEW S, NEW e \in S, NEW s \in Seq(S)
  PROVE  <<e>> \o s # <<>> /\ Head(<<e>> \o s) = e /\ Tail(<<e>> \o s) = s
  OBVIOUS

LEMMA RefineStep == TypeInv /\ [Next]_vars => [Channel!Next]_(Channel!vars)
<1> SUFFICES ASSUME TypeInv, [Next]_vars
             PROVE  \/ /\ posted' = posted + 1
                       /\ Pending' = Append(Pending, posted + 1)
                       /\ UNCHANGED delivered
                    \/ /\ Pending # <<>>
                       /\ delivered' = Append(delivered, Head(Pending))
                       /\ Pending' = Tail(Pending)
                       /\ UNCHANGED posted
                    \/ /\ Pending # <<>>
                       /\ Pending' = Tail(Pending)
                       /\ UNCHANGED <<posted, delivered>>
                    \/ /\ Pending' = <<>>
                       /\ UNCHANGED <<posted, delivered>>
                    \/ UNCHANGED <<posted, Pending, delivered>>
  BY DEF Channel!Next, Channel!vars, Channel!Post, Channel!Deliver,
         Channel!Lose, Channel!LoseAll, Pending
<1>0. /\ queue \in Seq(Nat) /\ skb \in Nat /\ posted \in Nat
      /\ (skb # NoSkb) <=> (thread \in {"check_state", "check_client", "unicast"})
  BY DEF TypeInv, TypeOK, SkbHeld
<1>1. CASE UNCHANGED <<posted, skb, queue, delivered>>
  BY <1>1 DEF Pending
<1>2. ASSUME NEW s \in Senders, QueueTail(s), queue' # queue
      PROVE  /\ posted' = posted + 1
             /\ Pending' = Append(Pending, posted + 1)
             /\ UNCHANGED delivered
  <2>1. /\ posted' = posted + 1 /\ queue' = Append(queue, posted + 1)
        /\ UNCHANGED <<skb, delivered>>
    BY <1>2 DEF QueueTail
  <2> QED  BY <2>1, <1>0, ConsAppend DEF Pending
<1>3. CASE Dequeue /\ queue # <<>>
  <2>1. /\ skb = NoSkb /\ skb' = Head(queue) /\ queue' = Tail(queue)
        /\ UNCHANGED <<posted, delivered>>
    BY <1>0, <1>3 DEF Dequeue
  <2>2. Head(queue) # NoSkb
    BY <1>3 DEF TypeInv, TypeOK
  <2> QED  BY <2>1, <2>2, <1>0, <1>3, ConsHeadTail DEF Pending
<1>4. ASSUME skb # NoSkb, skb' = NoSkb, UNCHANGED <<posted, queue>>
      PROVE  Pending # <<>> /\ Head(Pending) = skb /\ Pending' = Tail(Pending)
  BY <1>4, <1>0, HeadCons DEF Pending
<1>5. CASE (CheckState \/ CheckClient \/ Unicast) /\ skb' # skb
  <2>1. /\ skb # NoSkb /\ skb' = NoSkb /\ UNCHANGED <<posted, queue>>
        /\ delivered' = delivered \/ delivered' = Append(delivered, skb)
    BY <1>0, <1>5 DEF CheckState, CheckClient, Unicast
  <2> QED  BY <2>1, <1>4
<1>6. CASE Purge
  <2>1. skb = NoSkb /\ queue' = <<>> /\ UNCHANGED <<skb, posted, delivered>>
    BY <1>0, <1>6 DEF Purge
  <2> QED  BY <2>1 DEF Pending
<1>7. CASE ThreadLost
  <2>1. skb' = NoSkb /\ UNCHANGED <<queue, posted, delivered>>
    BY <1>7 DEF ThreadLost
  <2>2. CASE skb = NoSkb
    BY <2>1, <2>2 DEF Pending
  <2>3. CASE skb # NoSkb
    BY <2>1, <2>3, <1>4
  <2> QED  BY <2>2, <2>3
<1>8. ASSUME ~ UNCHANGED <<posted, skb, queue, delivered>>
      PROVE  \/ \E s \in Senders : QueueTail(s) /\ queue' # queue
             \/ Dequeue /\ queue # <<>>
             \/ (CheckState \/ CheckClient \/ Unicast) /\ skb' # skb
             \/ Purge \/ ThreadLost
  <2>1. \/ \E s \in Senders : QueueTail(s)
        \/ Dequeue \/ CheckState \/ CheckClient \/ Unicast \/ Purge
        \/ ThreadLost
    BY <1>8
       DEF vars, Next, Loading, Unloading, ThreadStep, SenderStep, NlSend,
           Viewer, KthreadRun, TryLink, NoLinkLeft, HookCalls,
           RegisterControls, HookExit, UnregisterControls, UnhookCalls,
           ReleaseSocket, RaiseStop, KickThread, JoinThread, ThreadStart,
           TestStop, SetInterruptible, Schedule, RemoveWait, EnterHook, WakeUp,
           SenderLost, SetState, WriteClient, NetInit, SetClient, CloseSocket,
           ClearClient, Quit
  <2>2. ASSUME NEW s \in Senders, QueueTail(s) PROVE queue' # queue
    BY <1>0, <1>8, <2>2 DEF QueueTail
  <2>3. Dequeue => queue # <<>>
    BY <1>8 DEF Dequeue
  <2>4. CheckState \/ CheckClient \/ Unicast => skb' # skb
    BY <1>0, <1>8 DEF CheckState, CheckClient, Unicast
  <2> QED  BY <2>1, <2>2, <2>3, <2>4
<1> QED  BY <1>1, <1>2, <1>3, <1>5, <1>6, <1>7, <1>8

(* Netlink implements the lossy FIFO channel.                              *)
THEOREM ImplementsCorrect == Spec => Implements
<1>1. Init => Channel!Init
  BY DEF Init, Channel!Init
<1>2. Spec => []TypeInv /\ [][Next]_vars
  BY TypeInit, TypeStep, PTL DEF Spec
<1> QED  BY <1>1, <1>2, RefineStep, PTL DEF Spec, Implements, Channel!Spec

Order == INSTANCE EventChannelProofs WITH pending <- Pending, out <- delivered

(* Viewers get events in the order nl_send queued them, none twice.        *)
THEOREM InOrderCorrect == Spec => []InOrder
<1>1. Channel!Init => Order!Init
  BY DEF Channel!Init, Order!Init, Pending
<1>2. [Channel!Next]_(Channel!vars) => [Order!Next]_(Order!vars)
  BY DEF Channel!Next, Channel!vars, Channel!Post, Channel!Deliver,
         Channel!Lose, Channel!LoseAll, Order!Next, Order!vars, Order!Post,
         Order!Deliver, Order!Lose, Order!LoseAll, Pending
<1>3. Order!InOrder => InOrder
  BY DEF Order!InOrder, InOrder, Channel!InOrder, Order!Increasing,
         Channel!Increasing
<1>4. Implements => Order!Spec
  BY <1>1, <1>2, PTL DEF Implements, Channel!Spec, Order!Spec
<1> QED  BY <1>3, <1>4, ImplementsCorrect, Order!ChannelInOrder, PTL

=============================================================================
