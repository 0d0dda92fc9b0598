------------------------- MODULE LoopFirstMutexProofs -------------------------
(***************************************************************************)
(* For any number of callers: the lock excludes, the flag is up exactly    *)
(* while the loop is on its way to the lock, and no caller gets ahead of   *)
(* the waiting loop twice.                                                 *)
(***************************************************************************)
EXTENDS LoopFirstMutex, TLAPS

\* A caller that overtook the waiting loop is either still inside or has to look at the
\* flag again; it is not past the look.
OvertakersAreBack ==
    /\ overtook \in [Callers -> 0 .. 1]
    /\ \A c \in Callers :
          pc[Loop] = "announced" /\ overtook[c] = 1 => pc[c] \in {"in", "out"}

\* Only the loop is ever in lock_for_loop().
OnlyLoopAnnounces == \A c \in Callers : pc[c] \notin {"announced", "locked"}

IInv == HolderIsInside /\ FlagMeansLoopIsComing /\ OnlyLoopAnnounces /\ OvertakersAreBack

\* Nothing has happened yet: no thread is inside and nobody overtook anybody.
LEMMA InitEstablishes == Init => IInv
<1> SUFFICES ASSUME Init PROVE IInv
  OBVIOUS
<1> USE Distinct DEF Init, Threads
<1>1. TypeOK
  <2>1. overtook \in [Callers -> 0 .. 2]
    BY SMT
  <2>2. m \in Threads \cup {Nobody} /\ loop_waiting \in BOOLEAN
    BY Zenon
  <2>3. pc \in [Threads -> {"out", "passed", "trying", "in", "announced", "locked"}]
    BY Zenon
  <2> QED BY <2>1, <2>2, <2>3 DEF TypeOK
<1>2. \A t \in Threads : pc[t] \in {"in", "locked"} <=> m = t
  BY Zenon
<1>3. FlagMeansLoopIsComing
  BY DEF FlagMeansLoopIsComing
<1>4. OnlyLoopAnnounces
  BY DEF OnlyLoopAnnounces
<1>5. OvertakersAreBack
  BY DEF OvertakersAreBack
<1> QED BY <1>1, <1>2, <1>3, <1>4, <1>5 DEF IInv, HolderIsInside

\* Taking m_ keeps the counts of the callers within two.
LEMMA AcquireTyped ==
  ASSUME TypeOK, NEW t \in Threads, Acquire(t)
  PROVE  m' = t /\ overtook' \in [Callers -> 0 .. 2]
  BY DEF TypeOK, Acquire

\* A step of lock(), try_lock() or unlock(), by a caller or by the loop thread.
LEMMA ThreadStepPreserves ==
  ASSUME IInv, NEW t \in Threads, ThreadStep(t)
  PROVE  IInv'
<1> USE Distinct DEF IInv, HolderIsInside, TypeOK, FlagMeansLoopIsComing,
          OnlyLoopAnnounces, OvertakersAreBack, Threads, Goto
<1>1. CASE Look(t)
  BY <1>1 DEF Look
<1>2. CASE TryLook(t)
  BY <1>2 DEF TryLook
<1>3. CASE Unlock(t)
  BY <1>3 DEF Unlock
<1>4. ASSUME Acquire(t), Goto(t, "in"), pc[t] \in {"passed", "trying"}, UNCHANGED loop_waiting
      PROVE  IInv'
  BY <1>4, AcquireTyped DEF Acquire
<1>5. CASE Lock(t)
  BY <1>4, <1>5 DEF Lock
<1>6. CASE Try(t)
  <2>1. CASE Acquire(t) /\ Goto(t, "in")
    BY <1>4, <1>6, <2>1 DEF Try
  <2>2. CASE m # Nobody /\ Goto(t, "out") /\ UNCHANGED <<m, overtook>>
    BY <1>6, <2>2 DEF Try
  <2> QED BY <1>6, <2>1, <2>2 DEF Try
<1> QED BY <1>1, <1>2, <1>3, <1>5, <1>6 DEF ThreadStep

\* A step of lock_for_loop().
LEMMA LoopStepPreserves ==
  ASSUME IInv, LoopStep
  PROVE  IInv'
<1> USE Distinct DEF IInv, HolderIsInside, TypeOK, FlagMeansLoopIsComing,
          OnlyLoopAnnounces, OvertakersAreBack, Threads, Goto
<1>1. CASE Announce
  BY <1>1 DEF Announce
<1>2. CASE LoopLock
  BY <1>2 DEF LoopLock, Acquire
<1>3. CASE Withdraw
  BY <1>3 DEF Withdraw
<1> QED BY <1>1, <1>2, <1>3 DEF LoopStep

\* The inductive invariant holds throughout, for any set of callers.
THEOREM Invariant == Spec => []IInv
<1>1. IInv /\ UNCHANGED vars => IInv'
  BY DEF IInv, HolderIsInside, TypeOK, FlagMeansLoopIsComing, OnlyLoopAnnounces,
         OvertakersAreBack, vars
<1>2. IInv /\ [Next]_vars => IInv'
  BY <1>1, ThreadStepPreserves, LoopStepPreserves DEF Next
<1> QED BY InitEstablishes, <1>2, PTL DEF Spec

\* The thread between lock() or lock_for_loop() and unlock() holds m_ alone.
THEOREM Excludes == Spec => []HolderIsInside
<1>1. IInv => HolderIsInside
  BY DEF IInv
<1> QED BY <1>1, Invariant, PTL

\* loop_waiting_ is up exactly while lock_for_loop() is on its way.
THEOREM FlagIsHonest == Spec => []FlagMeansLoopIsComing
<1>1. IInv => FlagMeansLoopIsComing
  BY DEF IInv
<1> QED BY <1>1, Invariant, PTL

\* While the loop waits in lock_for_loop(), each caller gets the lock at most once.
THEOREM OvertakingIsBounded == Spec => []NobodyOvertakesTwice
<1>1. IInv => NobodyOvertakesTwice
  <2>1. IInv => overtook \in [Callers -> 0 .. 1]
    BY DEF IInv, OvertakersAreBack
  <2> QED BY <2>1 DEF NobodyOvertakesTwice
<1> QED BY <1>1, Invariant, PTL
=============================================================================
