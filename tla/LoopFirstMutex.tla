---------------------------- MODULE LoopFirstMutex ----------------------------
(***************************************************************************)
(* The node's one lock (LoopFirstMutex and LoopLock in                     *)
(* src/src/api/node.cpp), which the loop thread takes ahead of everyone.   *)
(*                                                                         *)
(* Each step is one access to loop_waiting_ or m_.  The loop thread uses   *)
(* lock() too, when a callback calls back into the library.  The accesses  *)
(* are sequentially consistent: the loop's store of loop_waiting_ is       *)
(* ordered before the read-modify-write of m_.lock() that follows it.      *)
(***************************************************************************)
EXTENDS Integers

CONSTANTS
    Callers,   \* the application's threads
    Loop,      \* the loop thread
    Nobody     \* m_ is free

ASSUME Distinct == Loop \notin Callers /\ Nobody \notin Callers \cup {Loop}

Threads == Callers \cup {Loop}

VARIABLES
    m,              \* m_: the thread that holds it
    loop_waiting,   \* loop_waiting_
    pc,             \* where each thread is
    overtook        \* how often each caller took m_ since the loop announced itself;
                    \* bound: the count stops at two

vars == <<m, loop_waiting, pc, overtook>>

Goto(t, to) == pc' = [pc EXCEPT ![t] = to]

\* A mutation of Acquire: a lock that does not exclude.
AcquireShared(t) ==
    /\ m' = t
    /\ UNCHANGED overtook

\* Taking m_, which overtakes the loop if that has announced itself.
Acquire(t) ==
    /\ m = Nobody
    /\ m' = t
    /\ overtook' = IF t \in Callers /\ pc[Loop] = "announced"
                   THEN [overtook EXCEPT ![t] = IF @ < 2 THEN @ + 1 ELSE 2] ELSE overtook

\* A mutation of Look: lock() does not yield to a waiting loop.
LookNoYield(t) ==
    /\ pc[t] = "out"
    /\ Goto(t, "passed")
    /\ UNCHANGED <<m, loop_waiting, overtook>>

\* lock(): the last look at loop_waiting_, which finds it false.
Look(t) ==
    /\ pc[t] = "out"
    /\ ~loop_waiting
    /\ Goto(t, "passed")
    /\ UNCHANGED <<m, loop_waiting, overtook>>

\* lock(): m_.lock().
Lock(t) ==
    /\ pc[t] = "passed"
    /\ Acquire(t)
    /\ Goto(t, "in")
    /\ UNCHANGED loop_waiting

\* try_lock(): the look at loop_waiting_ that lets it try.
TryLook(t) ==
    /\ pc[t] = "out"
    /\ ~loop_waiting
    /\ Goto(t, "trying")
    /\ UNCHANGED <<m, loop_waiting, overtook>>

\* try_lock(): m_.try_lock(), which takes m_ if it is free.
Try(t) ==
    /\ pc[t] = "trying"
    /\ \/ Acquire(t) /\ Goto(t, "in")
       \/ m # Nobody /\ Goto(t, "out") /\ UNCHANGED <<m, overtook>>
    /\ UNCHANGED loop_waiting

Unlock(t) ==
    /\ pc[t] = "in"
    /\ m' = Nobody
    /\ Goto(t, "out")
    /\ UNCHANGED <<loop_waiting, overtook>>

\* lock_for_loop(): loop_waiting_.store(true).
Announce ==
    /\ pc[Loop] = "out"
    /\ loop_waiting' = TRUE
    /\ Goto(Loop, "announced")
    /\ overtook' = [c \in Callers |-> 0]
    /\ UNCHANGED m

\* lock_for_loop(): m_.lock().
LoopLock ==
    /\ pc[Loop] = "announced"
    /\ Acquire(Loop)
    /\ Goto(Loop, "locked")
    /\ UNCHANGED loop_waiting

\* A mutation of Withdraw: loop_waiting_ is left set.
WithdrawNothing ==
    /\ pc[Loop] = "locked"
    /\ Goto(Loop, "in")
    /\ UNCHANGED <<m, loop_waiting, overtook>>

\* lock_for_loop(): loop_waiting_.store(false).
Withdraw ==
    /\ pc[Loop] = "locked"
    /\ loop_waiting' = FALSE
    /\ Goto(Loop, "in")
    /\ UNCHANGED <<m, overtook>>

Init ==
    /\ m = Nobody
    /\ loop_waiting = FALSE
    /\ pc = [t \in Threads |-> "out"]
    /\ overtook = [c \in Callers |-> 0]

ThreadStep(t) == Look(t) \/ Lock(t) \/ TryLook(t) \/ Try(t) \/ Unlock(t)

LoopStep == Announce \/ LoopLock \/ Withdraw

Next == LoopStep \/ \E t \in Threads : ThreadStep(t)

Spec == Init /\ [][Next]_vars

\* Whoever holds the lock lets it go, and the loop gets on with lock_for_loop() and
\* comes back for the lock.  Nothing is assumed of the callers' way to the lock, nor of
\* m_: it may be given to any of the threads that ask for it.
FairSpec ==
    /\ Spec
    /\ WF_vars(LoopStep)
    /\ \A t \in Threads : WF_vars(Unlock(t))
    /\ WF_vars(Lock(Loop))
    /\ WF_vars(Try(Loop))

-----------------------------------------------------------------------------
(* Properties.                                                             *)

\* Every variable has its type.
TypeOK ==
    /\ m \in Threads \cup {Nobody}
    /\ loop_waiting \in BOOLEAN
    /\ pc \in [Threads -> {"out", "passed", "trying", "in", "announced", "locked"}]
    /\ overtook \in [Callers -> 0 .. 2]

\* The lock excludes: the thread between lock and unlock is the one that holds m_, the
\* loop's LoopLock and a caller's lock alike.
HolderIsInside ==
    TypeOK /\ \A t \in Threads : pc[t] \in {"in", "locked"} <=> m = t

\* "which its loop thread takes ahead of everyone else" (node.cpp:86): however the
\* callers are scheduled, none of them gets the lock twice while the loop waits for it.
NobodyOvertakesTwice == \A c \in Callers : overtook[c] <= 1

\* Callers yield only to a loop that is on its way to the lock: the flag is never left
\* up, which would lock every caller out for good.
FlagMeansLoopIsComing == loop_waiting <=> pc[Loop] \in {"announced", "locked"}

\* The loop gets the lock, although m_ itself is fair to nobody and callers ask for it
\* over and over.
LoopGetsTheLock == pc[Loop] = "announced" ~> pc[Loop] = "in"

\* "one caller may slip in as it announces itself, but nobody else gets ahead of it"
\* (node.cpp:96).
OneCallerSlipsIn == \A c, d \in Callers : overtook[c] > 0 /\ overtook[d] > 0 => c = d
=============================================================================
