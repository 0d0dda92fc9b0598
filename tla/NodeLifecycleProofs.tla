-------------------------- MODULE NodeLifecycleProofs --------------------------
(***************************************************************************)
(* For any number of application threads: one thread at most runs the      *)
(* loop; once topics and sockets are released, or shutdown() has returned, *)
(* none does; and no notice of a session that shutdown() closed is lost.   *)
(***************************************************************************)
EXTENDS NodeLifecycle, TLAPS

AfterStop == {"stopping", "joining", "waiting", "done"}

\* The background thread is created once, and it makes no calls but the loop.
BackgroundOnce ==
    /\ pc[Background] \in InLoop \cup {"none", "entering", "exited"}
    /\ pc[Background] = "none" \/ joinable \/ stop
    /\ \A t \in Apps : pc[t] \notin {"none", "exited"}

\* The loop is left only by the way that begins with stop, and shutdown() has set it.
StopFirst ==
    /\ \A t \in Threads : pc[t] \in AfterStop \cup {"draining", "last_callbacks", "finishing"} => stop
    /\ closed => stop

\* is_running() says whether some thread is in the loop.
RunningMeansLoop == running <=> loop_thread_id # NoThread

PCs == InLoop \cup {"none", "out", "entering", "starting", "stopping", "joining", "waiting",
                    "done", "exited"}

Typed ==
    /\ running \in BOOLEAN /\ stop \in BOOLEAN /\ joinable \in BOOLEAN
    /\ closed \in BOOLEAN /\ returned \in BOOLEAN
    /\ pc \in [Threads -> PCs]
    /\ loop_thread_id \in Threads \cup {NoThread}

IInv ==
    /\ Typed
    /\ BackgroundOnce /\ StopFirst /\ RunningMeansLoop /\ OneLoop /\ ShutdownIsFinal

USE LifecycleConstants

\* No thread is in the loop and nothing is stopped.
LEMMA InitEstablishes == Init => IInv
<1> SUFFICES ASSUME Init PROVE IInv
  OBVIOUS
<1> USE DEF Init, Threads, InLoop
<1>1. Typed
  BY Zenon DEF Typed, PCs
<1>2. \A t \in Threads : pc[t] \in {"none", "out"}
  BY DEF Typed
<1>3. pc[Background] = "none" /\ \A t \in Apps : pc[t] = "out"
  BY DEF Typed
<1>4. BackgroundOnce
  BY <1>3, Zenon DEF BackgroundOnce
<1>5. StopFirst
  BY <1>2, Zenon DEF StopFirst, AfterStop
<1>6. RunningMeansLoop
  BY Zenon DEF RunningMeansLoop
<1>7. OneLoop
  BY Zenon, <1>2 DEF OneLoop
<1>8. ShutdownIsFinal
  BY Zenon DEF ShutdownIsFinal
<1> QED BY <1>1, <1>4, <1>5, <1>6, <1>7, <1>8 DEF IInv

\* Every call, callback and step of the loop preserves the invariant.
LEMMA NextPreserves == IInv /\ [Next]_vars => IInv'
<1> SUFFICES ASSUME IInv, [Next]_vars PROVE IInv'
  OBVIOUS
<1> USE DEF IInv, Typed, PCs, BackgroundOnce, StopFirst, RunningMeansLoop, OneLoop, ShutdownIsFinal,
            Threads, InLoop, AfterStop, Goto, AfterLoop
<1>1. CASE UNCHANGED vars
  BY <1>1 DEF vars
<1>2. ASSUME NEW t \in Threads, Run(t) PROVE IInv'
  BY <1>2 DEF Run
<1>3. ASSUME NEW t \in Threads, RunInBackground(t) PROVE IInv'
  BY <1>3 DEF RunInBackground
<1>4. ASSUME NEW t \in Threads, WakeStarting(t) PROVE IInv'
  BY <1>4 DEF WakeStarting
<1>5. ASSUME NEW t \in Threads, EnterLoop(t) PROVE IInv'
  <2>1. CASE running \/ stop
    BY <1>5, <2>1 DEF EnterLoop, EnterUnless
  <2>2. CASE ~running /\ ~stop
    <3>1. \A u \in Threads : pc[u] \notin InLoop
      BY <2>2
    <3>2. /\ pc' = [pc EXCEPT ![t] = "looping"] /\ running' = TRUE /\ loop_thread_id' = t
          /\ UNCHANGED <<stop, joinable, closed, returned>>
      BY <1>5, <2>2 DEF EnterLoop, EnterUnless
    <3>3. ~closed /\ ~returned
      BY <2>2
    <3>4. pc[t] = "entering"
      BY <1>5 DEF EnterLoop, EnterUnless
    <3> QED BY <2>2, <3>1, <3>2, <3>3, <3>4
  <2> QED BY <2>1, <2>2
<1>6. ASSUME NEW t \in Threads, TestStop(t) PROVE IInv'
  <2>1. CASE stop
    BY <1>6, <2>1 DEF TestStop
  <2>2. CASE ~stop
    BY <1>6, <2>2 DEF TestStop
  <2> QED BY <2>1, <2>2
<1>7. ASSUME NEW t \in Threads, LoopTick(t) PROVE IInv'
  BY <1>7 DEF LoopTick
<1>8. ASSUME NEW t \in Threads, Callback(t) PROVE IInv'
  <2>1. stop' = TRUE \/ stop' = stop
    BY <1>8 DEF Callback, RequestStop, EndSession
  <2>2. UNCHANGED <<running, loop_thread_id, joinable, closed, returned, pc>>
    BY <1>8 DEF Callback
  <2> QED BY Zenon, <2>1, <2>2
<1>9. ASSUME NEW t \in Threads, CallbacksDone(t) PROVE IInv'
  BY <1>9 DEF CallbacksDone
<1>10. ASSUME NEW t \in Threads, Drain(t) PROVE IInv'
  BY <1>10 DEF Drain
<1>11. ASSUME NEW t \in Threads, LeaveLoop(t) PROVE IInv'
  BY Zenon, <1>11 DEF LeaveLoop, LeaveWaking, FinishShutdown
<1>12. ASSUME NEW t \in Threads, Disconnect(t) PROVE IInv'
  BY <1>12 DEF Disconnect, EndSession
<1>13. ASSUME NEW t \in Threads, Shutdown(t) PROVE IInv'
  BY <1>13 DEF Shutdown, RequestStop
<1>14. ASSUME NEW t \in Threads, LockJoin(t) PROVE IInv'
  BY <1>14 DEF LockJoin
<1>15. ASSUME NEW t \in Threads, Join(t) PROVE IInv'
  BY Zenon, <1>15 DEF Join
<1>16. ASSUME NEW t \in Threads, AwaitLoop(t) PROVE IInv'
  <2>1. UNCHANGED <<running, stop, loop_thread_id, joinable>> /\ pc[t] = "waiting"
    BY Zenon, <1>16 DEF AwaitLoop
  <2>2. CASE running
    <3>1. UNCHANGED <<closed, returned, pc>>
      BY Zenon, <1>16, <2>2 DEF AwaitLoop
    <3> QED BY Zenon, <2>1, <3>1
  <2>3. CASE ~running
    <3>1. closed' = TRUE /\ returned' = TRUE /\ pc' = [pc EXCEPT ![t] = "done"]
      BY Zenon, <1>16, <2>3 DEF AwaitLoop, FinishShutdown
    <3>2. stop /\ \A u \in Threads : pc[u] \notin InLoop
      BY <2>1, <2>3
    <3> QED BY <2>1, <2>3, <3>1, <3>2
  <2> QED BY Zenon, <2>2, <2>3
<1> HIDE DEF IInv
<1> QED BY <1>1, <1>2, <1>3, <1>4, <1>5, <1>6, <1>7, <1>8, <1>9, <1>10, <1>11, <1>12, <1>13,
           <1>14, <1>15, <1>16 DEF Next, Proceed

\* The inductive invariant holds throughout.
THEOREM Invariant == Spec => []IInv
  BY InitEstablishes, NextPreserves, PTL DEF Spec

\* run() and run_in_background(), called by any threads in any order, never get two loops
\* going, and loop_thread_id names the one there is.
THEOREM LoopIsAlone == Spec => []OneLoop
<1>1. IInv => OneLoop
  BY DEF IInv
<1> QED BY <1>1, Invariant, PTL

\* After shutdown() has returned to a thread other than the loop's, or topics and sockets
\* have been released, no thread is in the loop.
THEOREM NoLoopAfterShutdown == Spec => []ShutdownIsFinal
<1>1. IInv => ShutdownIsFinal
  BY DEF IInv
<1> QED BY <1>1, Invariant, PTL

-----------------------------------------------------------------------------
(* Notices.                                                                *)

\* A session, and a notice of one that shutdown() closed, is there only while a thread is
\* in the loop, the notice only until the last swap.
NoticesInTime ==
    /\ deferred \in Seq(Callbacks) /\ batch \in Seq(Callbacks)
    /\ session \in BOOLEAN
    /\ session => loop_thread_id # NoThread
    /\ HasNotice(deferred) =>
          /\ stop
          /\ loop_thread_id # NoThread
          /\ pc[loop_thread_id] \notin {"last_callbacks", "finishing"}

\* Queueing a callback keeps the notices that are queued and adds one only if it is one.
LEMMA AppendKeepsNotices ==
  ASSUME NEW q \in Seq(Callbacks), NEW x \in Callbacks
  PROVE  /\ Append(q, x) \in Seq(Callbacks)
         /\ Append(q, x) # <<>>
         /\ HasNotice(Append(q, x)) <=> HasNotice(q) \/ x = "notice"
  BY DEF HasNotice

\* An empty queue holds no notice.
LEMMA EmptyHasNoNotice == <<>> \in Seq(Callbacks) /\ ~HasNotice(<<>>)
  BY DEF HasNotice

\* What a step does to the queues, seen from the notices in them.
NoticesKept == HasNotice(deferred) /\ deferred' = <<>> => HasNotice(batch')

\* shutdown()'s critical section queues a notice only while a thread is in the loop and
\* has not seen stop yet.
LEMMA RequestStopKeeps ==
  ASSUME IInv, NoticesInTime, RequestStop, UNCHANGED loop_thread_id, batch' \in Seq(Callbacks),
         loop_thread_id # NoThread =>
            pc'[loop_thread_id] = pc[loop_thread_id]
  PROVE  NoticesInTime' /\ NoticesKept
<1> USE DEF NoticesInTime, NoticesKept, RequestStop
<1>1. CASE session /\ ~stop
  <2>1. loop_thread_id \in Threads /\ pc[loop_thread_id] \notin {"last_callbacks", "finishing"}
    BY <1>1 DEF IInv, Typed, StopFirst
  <2>2. deferred' = Append(deferred, "notice") /\ session' = FALSE /\ stop' = TRUE
    BY <1>1
  <2> QED BY <2>1, <2>2, AppendKeepsNotices DEF Callbacks
<1>2. CASE ~(session /\ ~stop)
  <2>1. UNCHANGED deferred /\ stop' = TRUE /\ session' = session
    BY <1>2 DEF IInv, Typed
  <2> QED BY <2>1, EmptyHasNoNotice
<1> QED BY <1>1, <1>2

\* Topic::disconnect()'s critical section queues no notice.
LEMMA EndSessionKeeps ==
  ASSUME IInv, NoticesInTime, EndSession, UNCHANGED loop_thread_id, batch' \in Seq(Callbacks),
         loop_thread_id # NoThread =>
            pc'[loop_thread_id] = pc[loop_thread_id]
  PROVE  NoticesInTime' /\ NoticesKept
  BY Zenon, AppendKeepsNotices DEF NoticesInTime, NoticesKept, EndSession, Callbacks

\* A step that leaves the queues alone, and the loop's thread where it was or short of
\* the last callbacks.
LEMMA QuietStepKeeps ==
  ASSUME NoticesInTime, UNCHANGED <<stop, deferred, session>>, batch' \in Seq(Callbacks),
         loop_thread_id # NoThread =>
            /\ UNCHANGED loop_thread_id
            /\ \/ pc'[loop_thread_id] = pc[loop_thread_id]
               \/ pc'[loop_thread_id] \notin {"last_callbacks", "finishing"}
               \/ pc[loop_thread_id] \in {"last_callbacks", "finishing"}
  PROVE  NoticesInTime' /\ NoticesKept
  BY EmptyHasNoNotice DEF NoticesInTime, NoticesKept

\* No step throws a queued notice away.
LEMMA NextKeepsNotices == IInv /\ NoticesInTime /\ [Next]_vars => NoticesInTime' /\ NoticesKept
<1> SUFFICES ASSUME IInv, NoticesInTime, [Next]_vars PROVE NoticesInTime' /\ NoticesKept
  OBVIOUS
<1> USE DEF Goto, Threads
<1>a. /\ pc \in [Threads -> PCs] /\ loop_thread_id \in Threads \cup {NoThread}
      /\ stop \in BOOLEAN /\ running \in BOOLEAN
      /\ \A t \in Threads : pc[t] \in InLoop <=> loop_thread_id = t
      /\ running <=> loop_thread_id # NoThread
      /\ batch \in Seq(Callbacks)
  BY DEF IInv, Typed, OneLoop, RunningMeansLoop, NoticesInTime
<1>1. CASE UNCHANGED vars
  BY <1>1, <1>a, QuietStepKeeps DEF vars
<1>2. ASSUME NEW t \in Threads, Run(t) PROVE NoticesInTime' /\ NoticesKept
  BY <1>2, <1>a, QuietStepKeeps DEF Run
<1>3. ASSUME NEW t \in Threads, RunInBackground(t) PROVE NoticesInTime' /\ NoticesKept
  BY <1>3, <1>a, QuietStepKeeps DEF RunInBackground
<1>4. ASSUME NEW t \in Threads, WakeStarting(t) PROVE NoticesInTime' /\ NoticesKept
  BY <1>4, <1>a, QuietStepKeeps DEF WakeStarting
<1>5. ASSUME NEW t \in Threads, EnterLoop(t) PROVE NoticesInTime' /\ NoticesKept
  BY <1>5, <1>a, QuietStepKeeps DEF EnterLoop, EnterUnless, InLoop
<1>6. ASSUME NEW t \in Threads, TestStop(t) PROVE NoticesInTime' /\ NoticesKept
  BY <1>6, <1>a, QuietStepKeeps DEF TestStop
<1>7. ASSUME NEW t \in Threads, LoopTick(t) PROVE NoticesInTime' /\ NoticesKept
  <2>1. loop_thread_id = t /\ t # NoThread
    BY <1>7, <1>a DEF LoopTick, InLoop
  <2>2. /\ deferred' = <<>> /\ UNCHANGED <<stop, loop_thread_id>>
        /\ batch' = deferred \/ batch' = Append(deferred, "event")
    BY <1>7 DEF LoopTick
  <2>3. session' \in BOOLEAN
    BY Zenon, <1>7 DEF LoopTick, NoticesInTime
  <2>4. deferred \in Seq(Callbacks) /\ "event" \in Callbacks
    BY DEF NoticesInTime, Callbacks
  <2>5. batch' \in Seq(Callbacks) /\ (HasNotice(deferred) => HasNotice(batch'))
    <3>1. /\ Append(deferred, "event") \in Seq(Callbacks)
          /\ HasNotice(deferred) => HasNotice(Append(deferred, "event"))
      BY <2>4, AppendKeepsNotices, Zenon
    <3> QED BY <2>2, <2>4, <3>1, Zenon
  <2> QED BY <2>1, <2>2, <2>3, <2>5, EmptyHasNoNotice DEF NoticesInTime, NoticesKept
<1>8. ASSUME NEW t \in Threads, Callback(t) PROVE NoticesInTime' /\ NoticesKept
  <2>1. /\ UNCHANGED <<loop_thread_id, pc>> /\ batch' \in Seq(Callbacks)
    BY <1>8 DEF Callback, NoticesInTime
  <2>2. CASE RequestStop
    BY <2>1, <2>2, RequestStopKeeps
  <2>3. CASE EndSession
    BY <2>1, <2>3, EndSessionKeeps
  <2>4. CASE UNCHANGED <<stop, session, deferred>>
    BY <2>1, <2>4, QuietStepKeeps
  <2> QED BY <1>8, <2>2, <2>3, <2>4 DEF Callback
<1>9. ASSUME NEW t \in Threads, CallbacksDone(t) PROVE NoticesInTime' /\ NoticesKept
  BY <1>9, <1>a, QuietStepKeeps DEF CallbacksDone
<1>10. ASSUME NEW t \in Threads, Drain(t) PROVE NoticesInTime' /\ NoticesKept
  <2>1. loop_thread_id = t /\ t # NoThread
    BY <1>10, <1>a DEF Drain, InLoop
  <2> QED BY <1>10, <2>1, EmptyHasNoNotice DEF Drain, NoticesInTime, NoticesKept
<1>11. ASSUME NEW t \in Threads, LeaveLoop(t) PROVE NoticesInTime' /\ NoticesKept
  <2>1. loop_thread_id = t /\ pc[t] = "finishing"
    BY <1>11, <1>a DEF LeaveLoop, LeaveWaking, InLoop
  <2> QED BY Zenon, <1>11, <2>1, EmptyHasNoNotice DEF LeaveLoop, LeaveWaking, FinishShutdown, NoticesInTime, NoticesKept
<1>12. ASSUME NEW t \in Threads, Disconnect(t) PROVE NoticesInTime' /\ NoticesKept
  BY <1>12, <1>a, EndSessionKeeps DEF Disconnect
<1>13. ASSUME NEW t \in Threads, Shutdown(t) PROVE NoticesInTime' /\ NoticesKept
  <2>1. loop_thread_id # t
    BY <1>13, <1>a DEF Shutdown, InLoop
  <2> QED BY <1>13, <1>a, <2>1, RequestStopKeeps DEF Shutdown
<1>14. ASSUME NEW t \in Threads, LockJoin(t) PROVE NoticesInTime' /\ NoticesKept
  BY <1>14, <1>a, QuietStepKeeps DEF LockJoin
<1>15. ASSUME NEW t \in Threads, Join(t) PROVE NoticesInTime' /\ NoticesKept
  BY <1>15, <1>a, QuietStepKeeps DEF Join
<1>16. ASSUME NEW t \in Threads, AwaitLoop(t) PROVE NoticesInTime' /\ NoticesKept
  <2>1. CASE running
    BY <1>16, <2>1, <1>a, QuietStepKeeps DEF AwaitLoop
  <2>2. CASE ~running
    BY Zenon, <1>16, <2>2, <1>a, EmptyHasNoNotice DEF AwaitLoop, FinishShutdown, NoticesInTime, NoticesKept
  <2> QED BY <2>1, <2>2
<1> QED BY <1>1, <1>2, <1>3, <1>4, <1>5, <1>6, <1>7, <1>8, <1>9, <1>10, <1>11, <1>12, <1>13,
           <1>14, <1>15, <1>16 DEF Next, Proceed

\* A notice that shutdown() queued for a session it closed is run by the loop before
\* finish_shutdown() empties the queue.
THEOREM NoticesRunFirst == Spec => NoticesAreRun
<1>1. Init => NoticesInTime
  BY Zenon, EmptyHasNoNotice DEF Init, NoticesInTime
<1>2. IInv /\ NoticesInTime /\ [Next]_vars => NoticesInTime'
  BY NextKeepsNotices
<1>3. IInv /\ NoticesInTime /\ [Next]_vars => [NoticesKept]_vars
  BY NextKeepsNotices
<1>4. Spec => [](IInv /\ NoticesInTime)
  BY <1>1, <1>2, InitEstablishes, NextPreserves, PTL DEF Spec
<1> QED BY <1>3, <1>4, PTL DEF Spec, NoticesAreRun, NoticesKept
=============================================================================
