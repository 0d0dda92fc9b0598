----------------------------- MODULE NodeLifecycle -----------------------------
(***************************************************************************)
(* Starting and stopping a Node (src/src/api/node.cpp): run(),             *)
(* run_in_background(), shutdown() from the application's threads and from *)
(* callbacks, and the loop that runs callbacks with the lock released.     *)
(*                                                                         *)
(* A critical section of `mu` is one step (LoopFirstMutex shows that it    *)
(* excludes).  `cv` is the set of threads blocked in it; a thread that     *)
(* notify_all took out of it evaluates its predicate again in a step of    *)
(* its own.  A callback is a "notice" when it tells of a session that      *)
(* shutdown() closed, an "event" otherwise.                                *)
(***************************************************************************)
EXTENDS Integers, Sequences

CONSTANTS
    Apps,         \* the application's threads
    Background,   \* the thread run_in_background() creates
    NoThread,
    MaxDeferred   \* bound: events queued at once

ASSUME LifecycleConstants ==
    /\ Background \notin Apps /\ NoThread \notin Apps \cup {Background}
    /\ MaxDeferred \in Nat

Threads == Apps \cup {Background}

VARIABLES
    running, stop,    \* running, stop
    loop_thread_id,   \* loop_thread_id
    joinable,         \* thread.joinable()
    join_mu,          \* who holds join_mu
    cv,               \* the threads blocked in cv
    deferred,         \* deferred
    batch,            \* the callbacks the loop has swapped out and not run yet
    session,          \* a peer session is up
    closed,           \* finish_shutdown() has released the topics and sockets
    returned,         \* shutdown() has returned to a thread other than the loop's
    pc

vars == <<running, stop, loop_thread_id, joinable, join_mu, cv, deferred, batch, session,
          closed, returned, pc>>

InLoop == {"looping", "polling", "callbacks", "draining", "last_callbacks", "finishing"}

Goto(t, to) == pc' = [pc EXCEPT ![t] = to]

\* Where a thread is when loop() returns.
AfterLoop(t) == IF t = Background THEN "exited" ELSE "out"

-----------------------------------------------------------------------------
(* run() and run_in_background().                                          *)

Run(t) ==
    /\ pc[t] = "out"
    /\ Goto(t, "entering")
    /\ UNCHANGED <<running, stop, loop_thread_id, joinable, join_mu, cv, deferred, batch,
                   session, closed, returned>>

\* The predicate of cv.wait is false as the thread is created: the caller blocks.
RunInBackground(t) ==
    /\ pc[t] = "out"
    /\ ~running /\ ~stop /\ ~joinable
    /\ joinable' = TRUE
    /\ cv' = cv \cup {t}
    /\ pc' = [pc EXCEPT ![t] = "starting", ![Background] = "entering"]
    /\ UNCHANGED <<running, stop, loop_thread_id, join_mu, deferred, batch, session, closed,
                   returned>>

\* Notified: the predicate of run_in_background() again.
WakeStarting(t) ==
    /\ pc[t] = "starting" /\ t \notin cv
    /\ IF running \/ stop THEN Goto(t, "out") /\ UNCHANGED cv
       ELSE cv' = cv \cup {t} /\ UNCHANGED pc
    /\ UNCHANGED <<running, stop, loop_thread_id, joinable, join_mu, deferred, batch, session,
                   closed, returned>>

-----------------------------------------------------------------------------
(* loop().                                                                 *)

EnterUnless(t, refused) ==
    /\ pc[t] = "entering"
    /\ IF refused
       THEN Goto(t, AfterLoop(t)) /\ UNCHANGED <<running, loop_thread_id, cv>>
       ELSE running' = TRUE /\ loop_thread_id' = t /\ cv' = {} /\ Goto(t, "looping")
    /\ UNCHANGED <<stop, joinable, join_mu, deferred, batch, session, closed, returned>>

\* A mutation of EnterLoop: a second loop is let in.
EnterLoopTwice(t) == EnterUnless(t, stop)

EnterLoop(t) == EnterUnless(t, running \/ stop)

\* while (!stop): reads stop without the lock, then waits for the sockets.
TestStop(t) ==
    /\ pc[t] = "looping"
    /\ Goto(t, IF stop THEN "draining" ELSE "polling")
    /\ UNCHANGED <<running, stop, loop_thread_id, joinable, join_mu, cv, deferred, batch,
                   session, closed, returned>>

\* tick() and the swap.  A session comes up or ends and is reported; with stop set no
\* session comes up, since shutdown() took every topic's own id.
LoopTick(t) ==
    /\ pc[t] = "polling"
    /\ \/ UNCHANGED session /\ batch' = deferred
       \/ /\ session \/ ~stop
          /\ Len(deferred) < MaxDeferred
          /\ session' = ~session
          /\ batch' = Append(deferred, "event")
    /\ deferred' = <<>>
    /\ Goto(t, "callbacks")
    /\ UNCHANGED <<running, stop, loop_thread_id, joinable, join_mu, cv, closed, returned>>

\* A mutation of RequestStop: every call tells of the sessions again.
RequestStopEachTime ==
    /\ stop' = TRUE
    /\ session' = FALSE
    /\ deferred' = Append(deferred, "notice")

\* shutdown()'s critical section: the first one closes every session.
RequestStop ==
    /\ stop' = TRUE
    /\ session' = (session /\ stop)
    /\ deferred' = IF session /\ ~stop THEN Append(deferred, "notice") ELSE deferred

\* Topic::disconnect()'s critical section.
EndSession ==
    /\ session
    /\ Len(deferred) < MaxDeferred
    /\ session' = FALSE
    /\ deferred' = Append(deferred, "event")
    /\ UNCHANGED stop

\* A callback runs, without the lock; it may disconnect a peer or call shutdown(), which
\* returns at once on the loop's own thread.
Callback(t) ==
    /\ pc[t] \in {"callbacks", "last_callbacks"}
    /\ batch # <<>>
    /\ batch' = Tail(batch)
    /\ RequestStop \/ EndSession \/ UNCHANGED <<stop, session, deferred>>
    /\ UNCHANGED <<running, loop_thread_id, joinable, join_mu, cv, closed, returned, pc>>

CallbacksDone(t) ==
    /\ batch = <<>>
    /\ \/ pc[t] = "callbacks" /\ Goto(t, "looping")
       \/ pc[t] = "last_callbacks" /\ Goto(t, "finishing")
    /\ UNCHANGED <<running, stop, loop_thread_id, joinable, join_mu, cv, deferred, batch,
                   session, closed, returned>>

\* A mutation of Drain: the loop goes straight on to finish_shutdown().
DrainNothing(t) ==
    /\ pc[t] = "draining"
    /\ Goto(t, "last_callbacks")
    /\ UNCHANGED <<running, stop, loop_thread_id, joinable, join_mu, cv, deferred, batch,
                   session, closed, returned>>

\* The swap after the while loop.
Drain(t) ==
    /\ pc[t] = "draining"
    /\ batch' = deferred
    /\ deferred' = <<>>
    /\ Goto(t, "last_callbacks")
    /\ UNCHANGED <<running, stop, loop_thread_id, joinable, join_mu, cv, session, closed,
                   returned>>

FinishShutdown ==
    /\ closed' = TRUE
    /\ deferred' = <<>>
    /\ session' = FALSE

LeaveWaking(t, woken) ==
    /\ pc[t] = "finishing"
    /\ FinishShutdown
    /\ loop_thread_id' = NoThread
    /\ running' = FALSE
    /\ cv' = cv \ woken
    /\ Goto(t, AfterLoop(t))
    /\ UNCHANGED <<stop, joinable, join_mu, batch, returned>>

\* A mutation of LeaveLoop: nobody is told that the loop has ended.
LeaveLoopQuietly(t) == LeaveWaking(t, {})

LeaveLoop(t) == LeaveWaking(t, cv)

-----------------------------------------------------------------------------
(* Calls from a thread that is not the loop's.                             *)

Disconnect(t) ==
    /\ pc[t] = "out"
    /\ EndSession
    /\ UNCHANGED <<running, loop_thread_id, joinable, join_mu, cv, batch, closed, returned, pc>>

Shutdown(t) ==
    /\ pc[t] = "out"
    /\ RequestStop
    /\ Goto(t, "stopping")
    /\ UNCHANGED <<running, loop_thread_id, joinable, join_mu, cv, batch, closed, returned>>

LockJoin(t) ==
    /\ pc[t] = "stopping"
    /\ join_mu = NoThread
    /\ join_mu' = t
    /\ Goto(t, "joining")
    /\ UNCHANGED <<running, stop, loop_thread_id, joinable, cv, deferred, batch, session,
                   closed, returned>>

\* if (thread.joinable()) thread.join()
Join(t) ==
    /\ pc[t] = "joining"
    /\ joinable => pc[Background] = "exited"
    /\ joinable' = FALSE
    /\ Goto(t, "waiting")
    /\ UNCHANGED <<running, stop, loop_thread_id, join_mu, cv, deferred, batch, session,
                   closed, returned>>

\* A mutation of AwaitLoop: a loop that another thread runs is not waited for.
AwaitLoopNot(t) ==
    /\ pc[t] = "waiting" /\ t \notin cv
    /\ FinishShutdown
    /\ join_mu' = NoThread
    /\ returned' = TRUE
    /\ Goto(t, "done")
    /\ UNCHANGED <<running, stop, loop_thread_id, joinable, cv, batch>>

\* cv.wait until the loop is not running, then finish_shutdown() and return.
AwaitLoop(t) ==
    /\ pc[t] = "waiting" /\ t \notin cv
    /\ IF running
       THEN /\ cv' = cv \cup {t}
            /\ UNCHANGED <<join_mu, deferred, session, closed, returned, pc>>
       ELSE /\ FinishShutdown
            /\ join_mu' = NoThread
            /\ returned' = TRUE
            /\ Goto(t, "done")
            /\ UNCHANGED cv
    /\ UNCHANGED <<running, stop, loop_thread_id, joinable, batch>>

-----------------------------------------------------------------------------
Init ==
    /\ running = FALSE /\ stop = FALSE
    /\ loop_thread_id = NoThread
    /\ joinable = FALSE
    /\ join_mu = NoThread
    /\ cv = {}
    /\ deferred = <<>> /\ batch = <<>>
    /\ session = FALSE /\ closed = FALSE /\ returned = FALSE
    /\ pc = [t \in Threads |-> IF t = Background THEN "none" ELSE "out"]

\* What a thread does inside a call, and the loop's own steps.
Proceed(t) ==
    \/ WakeStarting(t) \/ EnterLoop(t) \/ TestStop(t) \/ LoopTick(t) \/ Callback(t)
    \/ CallbacksDone(t) \/ Drain(t) \/ LeaveLoop(t)
    \/ LockJoin(t) \/ Join(t) \/ AwaitLoop(t)

\* A thread whose shutdown() has returned lets the node go.
Next ==
    \E t \in Threads : Run(t) \/ RunInBackground(t) \/ Disconnect(t) \/ Shutdown(t) \/ Proceed(t)

Spec == Init /\ [][Next]_vars

\* Every thread inside a call is scheduled, and callbacks return.  Nothing is assumed
\* about when the application makes a call, nor of spurious wake-ups of cv.
FairSpec == Spec /\ \A t \in Threads : WF_vars(Proceed(t))

-----------------------------------------------------------------------------
(* Properties.                                                             *)

Callbacks == {"event", "notice"}
HasNotice(queue) == \E i \in DOMAIN queue : queue[i] = "notice"

\* Every variable has its type, and at most one notice is ever queued.
TypeOK ==
    /\ running \in BOOLEAN /\ stop \in BOOLEAN /\ joinable \in BOOLEAN
    /\ session \in BOOLEAN /\ closed \in BOOLEAN /\ returned \in BOOLEAN
    /\ loop_thread_id \in Threads \cup {NoThread} /\ join_mu \in Apps \cup {NoThread}
    /\ cv \subseteq Apps
    /\ deferred \in Seq(Callbacks) /\ batch \in Seq(Callbacks)
    /\ Len(deferred) <= MaxDeferred + 1 /\ Len(batch) <= MaxDeferred + 1
    /\ pc \in [Threads -> InLoop \cup {"none", "out", "entering", "starting", "stopping",
                                       "joining", "waiting", "done", "exited"}]

\* At most one thread runs the loop, whoever started it and however often, and the id by
\* which shutdown() and the blocking queries know a callback of theirs is that thread's.
OneLoop == \A t \in Threads : pc[t] \in InLoop <=> loop_thread_id = t

\* "the loop can call it right up until an external call to shutdown() returns"
\* (README.md:245), and not after: once it has returned, or topics and sockets have been
\* released by anyone, no thread is in the loop.
ShutdownIsFinal ==
    returned \/ closed => closed /\ \A t \in Threads : pc[t] \notin InLoop

\* "Finish their queued notices on this same thread before releasing topics and sockets"
\* (node.cpp:748): a notice that shutdown() queued is not thrown away with the queue.
NoticesAreRun == [][HasNotice(deferred) /\ deferred' = <<>> => HasNotice(batch')]_vars

\* "From another thread it waits for the loop to finish" (uconnect.hpp:407): shutdown()
\* returns, with any number of threads calling it and whoever runs the loop.
ShutdownReturns == \A t \in Apps : pc[t] = "stopping" ~> pc[t] = "done"

\* "The public API is safe to call from any thread" (README.md:368):
\* run_in_background() returns once the loop runs or the node is stopped.
StartReturns == \A t \in Apps : pc[t] = "starting" ~> pc[t] # "starting"
=============================================================================
