---------------------------- MODULE WorkerProofs ----------------------------
(***************************************************************************)
(* Proofs about Worker, for every set of jobs and any number of spurious    *)
(* wake-ups.  The inductive invariant says who holds the mutex where, who   *)
(* can be blocked where, and what status_ may be at each place; the four    *)
(* safety properties and the refinement of WorkerInterface (its safety      *)
(* part) follow from it.                                                    *)
(***************************************************************************)
EXTENDS Worker, TLAPS

\* a thread holds the mutex exactly between a lock and the next unlock or wait
MutexInv ==
  /\ mutex = "main" <=> mpc \in {"create", "check", "unlock"}
  /\ mutex = "thread" <=> tpc \in {"check", "hook", "signal", "quit"}

\* who is blocked on the condition, and what for
WaitersInv ==
  /\ "main" \in waiters => mpc = "asleep" /\ (status = "WORK" \/ tpc = "signal")
  /\ "thread" \in waiters => tpc = "asleep" /\ status = "OK"

\* the thread, the mutex and the condition exist together
LifeInv ==
  /\ impl <=> tpc # "none"
  /\ ~impl => mpc = "idle" /\ status = "NOT_OK"
  /\ mpc = "create" => status = "NOT_OK" /\ tpc = "lock" /\ waiters = {}
  /\ tpc \in {"quit", "done"} => mpc = "join"

\* what status_ may be at each place of the two threads
StatusInv ==
  /\ impl /\ status = "NOT_OK" =>
       mpc \in {"create", "join"} \/ (mpc = "unlock" /\ want = "NOT_OK")
  /\ mpc = "join" => status = "NOT_OK"
  /\ mpc = "unlock" => status = want
  /\ tpc = "hook" => status = "WORK"
  /\ tpc = "signal" => status = "OK"
  /\ status = "WORK" \/ (mpc \notin {"idle", "create"} /\ want = "WORK")
       => outstanding

\* a job that is launched has arguments, and they stay until it has run
JobInv ==
  /\ status = "WORK" \/ (mpc \notin {"idle", "create"} /\ want = "WORK")
       => data # NoJob
  /\ tpc = "hook" => running = data

IInv == TypeOK /\ MutexInv /\ WaitersInv /\ LifeInv /\ StatusInv /\ JobInv

LEMMA InitIInv == Init => IInv
<1> SUFFICES ASSUME Init PROVE IInv
  OBVIOUS
<1>1. TypeOK
  <2>1. 0 \in 0..MaxSpurious
    BY MaxSpuriousAssumption
  <2>2. {} \subseteq Threads
    OBVIOUS
  <2> QED
    BY <2>1, <2>2, Zenon DEF Init, TypeOK, Status, Threads, MainPC, ThreadPC
<1>2. MutexInv /\ WaitersInv /\ LifeInv
  BY DEF Init, MutexInv, WaitersInv, LifeInv
<1>3. StatusInv /\ JobInv
  BY DEF Init, StatusInv, JobInv
<1> QED
  BY <1>1, <1>2, <1>3 DEF IInv

\* Of at most one waiter, a signal leaves none.
LEMMA SignalFreesOne ==
  ASSUME Signal, NEW t, waiters \subseteq {t}
  PROVE  waiters' = {}
BY DEF Signal

USE DEF TypeOK, MutexInv, WaitersInv, LifeInv, StatusInv, JobInv, Status, Threads,
        MainPC, ThreadPC, workerVars, syncVars, clientVars

LEMMA ClientStep == IInv /\ Client => IInv'
<1> SUFFICES ASSUME IInv, Client PROVE IInv'
  OBVIOUS
<1> USE DEF IInv
<1>1. CASE \E j \in Jobs : SetData(j)
  BY <1>1 DEF SetData
<1>2. CASE ClearError
  BY <1>2 DEF ClearError
<1>3. CASE Execute
  BY <1>3 DEF Execute
<1>4. CASE ResetNoThread
  BY <1>4 DEF ResetNoThread
<1>5. CASE ResetCreate
  BY <1>5 DEF ResetCreate
<1>6. CASE Launch
  BY <1>6 DEF Launch, Call
<1>7. CASE Sync
  BY <1>7 DEF Sync, Call
<1>8. CASE End
  BY <1>8 DEF End, Call
<1> QED
  BY <1>1, <1>2, <1>3, <1>4, <1>5, <1>6, <1>7, <1>8 DEF Client

LEMMA MainStep == IInv /\ Main => IInv'
<1> SUFFICES ASSUME IInv, Main PROVE IInv'
  OBVIOUS
<1> USE DEF IInv
<1>1. CASE ResetPublish
  BY <1>1 DEF ResetPublish
<1>2. CASE MainLock
  BY <1>2 DEF MainLock
<1>3. CASE MainWait
  BY <1>3 DEF MainWait
<1>4. CASE MainSet
  <2>1. CASE status = "OK" /\ want # "OK"
    <3>1. status' = want /\ Signal
      BY <1>4, <2>1 DEF MainSet
    <3>2. waiters \subseteq {"thread"}
      BY <1>4 DEF MainSet
    <3>3. waiters' = {}
      BY <3>1, <3>2, SignalFreesOne
    <3> QED
      BY <1>4, <2>1, <3>1, <3>3 DEF MainSet
  <2>2. CASE ~(status = "OK" /\ want # "OK")
    <3>1. status = "OK" /\ want = "OK"
      BY <1>4, <2>2 DEF MainSet
    <3>2. UNCHANGED <<status, waiters>>
      BY <1>4, <2>2 DEF MainSet
    <3> QED
      BY <1>4, <3>1, <3>2 DEF MainSet
  <2> QED
    BY <2>1, <2>2
<1>5. CASE MainUnlock
  BY <1>5 DEF MainUnlock
<1>6. CASE MainJoin
  BY <1>6 DEF MainJoin
<1> QED
  BY <1>1, <1>2, <1>3, <1>4, <1>5, <1>6 DEF Main

LEMMA ThreadStep == IInv /\ Thread => IInv'
<1> SUFFICES ASSUME IInv, Thread PROVE IInv'
  OBVIOUS
<1> USE DEF IInv
<1>1. CASE ThreadLock
  BY <1>1 DEF ThreadLock
<1>2. CASE ThreadWait
  BY <1>2 DEF ThreadWait
<1>3. CASE ThreadCallHook
  BY <1>3 DEF ThreadCallHook
<1>4. CASE ThreadHookReturns
  BY <1>4 DEF ThreadHookReturns
<1>5. CASE ThreadQuit
  BY <1>5 DEF ThreadQuit
<1>6. CASE ThreadSignal
  <2>1. waiters \subseteq {"main"}
    BY <1>6 DEF ThreadSignal
  <2>2. waiters' = {}
    BY <1>6, <2>1, SignalFreesOne DEF ThreadSignal
  <2> QED
    BY <1>6, <2>2 DEF ThreadSignal
<1> QED
  BY <1>1, <1>2, <1>3, <1>4, <1>5, <1>6 DEF Thread

LEMMA SpuriousStep == IInv /\ SpuriousWakeup => IInv'
BY MaxSpuriousAssumption DEF IInv, SpuriousWakeup

LEMMA NextIInv == IInv /\ [Next]_vars => IInv'
<1> SUFFICES ASSUME IInv, [Next]_vars PROVE IInv'
  OBVIOUS
<1>1. CASE UNCHANGED vars
  BY <1>1 DEF IInv, vars
<1>2. CASE Next
  BY <1>2, ClientStep, MainStep, ThreadStep, SpuriousStep DEF Next
<1> QED
  BY <1>1, <1>2

LEMMA AlwaysIInv == Spec => []IInv
BY InitIInv, NextIInv, PTL DEF Spec

-----------------------------------------------------------------------------
\* Every variable of the worker keeps its type (AVxWorker, AVxWorkerImpl).
THEOREM TypeCorrect == Spec => []TypeOK
<1>1. IInv => TypeOK
  BY DEF IInv
<1> QED
  BY <1>1, AlwaysIInv, PTL

\* No wake-up is lost on the condition variable that thread_loop and
\* change_state share.
THEOREM WakeupsArrive == Spec => []NoLostWakeup
<1>1. IInv => NoLostWakeup
  BY DEF IInv, NoLostWakeup
<1> QED
  BY <1>1, AlwaysIInv, PTL

\* After sync() or end(), and before the next launch(), the hook does not run.
THEOREM SyncWaits == Spec => []IdleAfterSync
<1>1. IInv => IdleAfterSync
  BY DEF IInv, IdleAfterSync
<1> QED
  BY <1>1, AlwaysIInv, PTL

\* end() destroys the mutex and the condition when no thread can touch them.
THEOREM SafeDestruction == Spec => []DestroyedQuiet
<1>1. IInv => DestroyedQuiet
  <2> SUFFICES ASSUME IInv, ~impl PROVE mutex = "free" /\ waiters = {} /\ tpc = "none"
    BY DEF DestroyedQuiet
  <2>1. mpc = "idle" /\ tpc = "none"
    BY DEF IInv
  <2>2. mutex = "free"
    BY <2>1 DEF IInv
  <2>3. waiters = {}
    BY <2>1 DEF IInv
  <2> QED
    BY <2>1, <2>2, <2>3
<1> QED
  BY <1>1, AlwaysIInv, PTL

\* The thread leaves thread_loop only for an end(), never for the NOT_OK that
\* reset() is about to replace.
THEOREM NoEarlyQuit == Spec => []QuitsOnlyOnEnd
<1>1. IInv => QuitsOnlyOnEnd
  BY DEF IInv, QuitsOnlyOnEnd
<1> QED
  BY <1>1, AlwaysIInv, PTL

-----------------------------------------------------------------------------
(* The refinement of WorkerInterface, without its fairness                  *)

pending == IF status = "WORK" THEN data ELSE NoJob

LEMMA IdleClient ==
  ASSUME IInv, mpc = "idle", ~outstanding
  PROVE  pending = NoJob /\ status # "WORK"
BY DEF IInv, pending

LEMMA ClientRefines ==
  IInv /\ Client => Interface!Next \/ UNCHANGED Interface!vars
<1> SUFFICES ASSUME IInv, Client
             PROVE  Interface!Next \/ UNCHANGED Interface!vars
  OBVIOUS
<1> USE DEF IInv, Interface!vars
<1>1. CASE \E j \in Jobs : SetData(j)
  BY <1>1, IdleClient DEF SetData
<1>2. CASE ClearError
  <2>1. Interface!Clear
    BY <1>2, IdleClient DEF ClearError, Interface!Clear
  <2> QED
    BY <2>1 DEF Interface!Next
<1>3. CASE Execute
  <2>1. hadError' \in {hadError, TRUE}
    BY <1>3 DEF Execute
  <2>2. Interface!Execute
    BY <1>3, <2>1, IdleClient DEF Execute, Interface!Execute
  <2> QED
    BY <2>2 DEF Interface!Next
<1>4. CASE ResetNoThread
  <2>1. Interface!Clear
    BY <1>4, IdleClient DEF ResetNoThread, Interface!Clear
  <2> QED
    BY <2>1 DEF Interface!Next
<1>5. CASE ResetCreate
  <2>1. Interface!Clear
    BY <1>5, IdleClient DEF ResetCreate, Interface!Clear
  <2> QED
    BY <2>1 DEF Interface!Next
<1>6. CASE Launch
  BY <1>6 DEF Launch, Call
<1>7. CASE Sync
  BY <1>7 DEF Sync, Call
<1>8. CASE End
  BY <1>8 DEF End, Call
<1> QED
  BY <1>1, <1>2, <1>3, <1>4, <1>5, <1>6, <1>7, <1>8 DEF Client

LEMMA MainRefines ==
  IInv /\ Main => Interface!Next \/ UNCHANGED Interface!vars
<1> SUFFICES ASSUME IInv, Main
             PROVE  Interface!Next \/ UNCHANGED Interface!vars
  OBVIOUS
<1> USE DEF IInv, Interface!vars
<1>1. CASE ResetPublish
  <2>1. Interface!Start
    BY <1>1 DEF ResetPublish, Interface!Start
  <2> QED
    BY <2>1 DEF Interface!Next
<1>2. CASE MainLock
  BY <1>2 DEF MainLock
<1>3. CASE MainWait
  BY <1>3 DEF MainWait
<1>4. CASE MainSet
  <2>1. CASE status = "OK" /\ want = "WORK"
    <3>1. Interface!Launch
      BY <1>4, <2>1 DEF MainSet, Interface!Launch
    <3> QED
      BY <3>1 DEF Interface!Next
  <2>2. CASE status = "OK" /\ want = "NOT_OK"
    <3>1. Interface!End
      BY <1>4, <2>2 DEF MainSet, Interface!End
    <3> QED
      BY <3>1 DEF Interface!Next
  <2>3. CASE status # "OK" \/ want = "OK"
    BY <1>4, <2>3 DEF MainSet
  <2> QED
    BY <2>1, <2>2, <2>3
<1>5. CASE MainUnlock
  BY <1>5 DEF MainUnlock
<1>6. CASE MainJoin
  BY <1>6 DEF MainJoin
<1> QED
  BY <1>1, <1>2, <1>3, <1>4, <1>5, <1>6 DEF Main

LEMMA ThreadRefines ==
  IInv /\ Thread => Interface!Next \/ UNCHANGED Interface!vars
<1> SUFFICES ASSUME IInv, Thread
             PROVE  Interface!Next \/ UNCHANGED Interface!vars
  OBVIOUS
<1> USE DEF IInv, Interface!vars
<1>1. CASE ThreadHookReturns
  <2>1. hadError' \in {hadError, TRUE}
    BY <1>1 DEF ThreadHookReturns
  <2>2. Interface!Run
    BY <1>1, <2>1 DEF ThreadHookReturns, Interface!Run
  <2> QED
    BY <2>2 DEF Interface!Next
<1>2. CASE ~ThreadHookReturns
  BY <1>2 DEF Thread, ThreadLock, ThreadWait, ThreadCallHook, ThreadQuit, ThreadSignal
<1> QED
  BY <1>1, <1>2

\* Worker keeps the promise of avm_thread.h (the part about what may happen): a
\* launched job runs once, with the arguments it was launched with, before the
\* next launch(), sync() or end() returns, and errors are not lost.
THEOREM RefinesInterface == Spec => Interface!Init /\ [][Interface!Next]_Interface!vars
<1>1. Init => Interface!Init
  BY DEF Init, Interface!Init
<1>2. IInv /\ [Next]_vars => [Interface!Next]_Interface!vars
  <2> SUFFICES ASSUME IInv, [Next]_vars
               PROVE  Interface!Next \/ UNCHANGED Interface!vars
    OBVIOUS
  <2>1. CASE UNCHANGED vars
    BY <2>1 DEF vars, Interface!vars
  <2>2. CASE SpuriousWakeup
    BY <2>2 DEF SpuriousWakeup, Interface!vars
  <2>3. CASE Client \/ Main \/ Thread
    BY <2>3, ClientRefines, MainRefines, ThreadRefines
  <2> QED
    BY <2>1, <2>2, <2>3 DEF Next
<1> QED
  BY <1>1, <1>2, AlwaysIInv, PTL DEF Spec


-----------------------------------------------------------------------------
(* The safety part of CallsReturn.                                          *)

\* the controlling thread can take a step of the call it is in
MainCan ==
  \/ mpc \in {"create", "check", "unlock"}
  \/ mpc \in {"lock", "asleep"} /\ "main" \notin waiters /\ mutex = "free"
  \/ mpc = "join" /\ tpc = "done"

\* the worker's thread can take a step
ThreadCan ==
  \/ tpc \in {"check", "hook", "signal", "quit"}
  \/ tpc \in {"lock", "asleep"} /\ "thread" \notin waiters /\ mutex = "free"

NeverStuck == mpc # "idle" => MainCan \/ ThreadCan

\* launch(), sync(), end() and reset() never leave both threads waiting, for the
\* mutex, on the one condition variable, or in pthread_join: one of the two can
\* go on until the call has returned.
THEOREM NoDeadlock == Spec => []NeverStuck
<1>1. IInv => NeverStuck
  <2> SUFFICES ASSUME IInv, mpc # "idle" PROVE MainCan \/ ThreadCan
    BY DEF NeverStuck
  <2> USE DEF IInv
  <2>1. impl /\ tpc # "none" /\ tpc \in ThreadPC /\ mpc \in MainPC
    BY DEF LifeInv, TypeOK
  <2>2. CASE mutex # "free"
    BY <2>2 DEF MutexInv, TypeOK, Threads, MainCan, ThreadCan
  <2>3. CASE mutex = "free" /\ mpc \in {"lock", "asleep"}
    <3> SUFFICES ASSUME "main" \in waiters PROVE ThreadCan
      BY <2>3 DEF MainCan
    <3>1. mpc = "asleep" /\ status = "WORK"
      BY <2>3 DEF WaitersInv, MutexInv
    <3>2. "thread" \notin waiters /\ tpc \notin {"quit", "done", "none"}
      BY <2>1, <3>1 DEF WaitersInv, LifeInv
    <3> QED
      BY <2>1, <2>3, <3>2 DEF ThreadPC, ThreadCan
  <2>4. CASE mutex = "free" /\ mpc = "join"
    <3>1. "thread" \notin waiters
      BY <2>4 DEF StatusInv, WaitersInv
    <3> QED
      BY <2>1, <2>4, <3>1 DEF ThreadPC, MainCan, ThreadCan
  <2> QED
    BY <2>1, <2>2, <2>3, <2>4 DEF MainPC, MainCan
<1> QED
  BY <1>1, AlwaysIInv, PTL

-----------------------------------------------------------------------------
(* Nobody goes round for ever either.                                       *)

\* how far the call in progress is from its end: 3 until it has set the status
CallLeft == CASE mpc \in {"create", "lock", "check", "asleep"} -> 3
              [] mpc = "unlock" -> 2
              [] mpc = "join" -> 1
              [] OTHER -> 0
JobLeft == IF status = "WORK" THEN 1 ELSE 0
\* how far the thread is from its next wait, from the hook or from its end
ThreadLeft == CASE tpc = "signal" -> 4
                [] tpc = "lock" \/ (tpc = "asleep" /\ "thread" \notin waiters) -> 3
                [] tpc = "check" -> 2
                [] tpc \in {"hook", "quit"} -> 1
                [] OTHER -> 0
\* how far the client is from its next look at the status
LookLeft == CASE mpc = "lock" \/ (mpc = "asleep" /\ "main" \notin waiters) -> 2
              [] mpc = "check" -> 1
              [] OTHER -> 0

\* the lexicographic order of the four measures
Closer ==
  \/ CallLeft' < CallLeft
  \/ /\ CallLeft' = CallLeft
     /\ \/ JobLeft' < JobLeft
        \/ /\ JobLeft' = JobLeft
           /\ \/ ThreadLeft' < ThreadLeft
              \/ ThreadLeft' = ThreadLeft /\ LookLeft' < LookLeft

\* launch(), sync() and end() do not go round for ever, nor does thread_loop: each step
\* of either side brings the end of the call, of the job, or the next wait nearer.  Only
\* another call of the client and a wake-up without a signal give them more to do.  With
\* NoDeadlock this is why a call returns.
THEOREM CallTerminates == Spec => [][Main \/ Thread => Closer]_vars
<1>1. ASSUME IInv, Main PROVE Closer
  <2> USE DEF IInv, CallLeft, JobLeft, ThreadLeft, LookLeft, Closer
  <2>1. CASE ResetPublish
    BY <2>1 DEF ResetPublish
  <2>2. CASE MainLock
    BY <2>2 DEF MainLock
  <2>3. CASE MainWait
    BY <2>3 DEF MainWait
  <2>4. CASE MainSet
    BY <2>4 DEF MainSet
  <2>5. CASE MainUnlock
    BY <2>5 DEF MainUnlock
  <2>6. CASE MainJoin
    BY <2>6 DEF MainJoin
  <2> QED
    BY <1>1, <2>1, <2>2, <2>3, <2>4, <2>5, <2>6 DEF Main
<1>2. ASSUME IInv, Thread PROVE Closer
  <2> USE DEF IInv, CallLeft, JobLeft, ThreadLeft, LookLeft, Closer
  <2>1. CASE ThreadLock
    BY <2>1 DEF ThreadLock
  <2>2. CASE ThreadWait
    BY <2>2 DEF ThreadWait
  <2>3. CASE ThreadCallHook
    BY <2>3 DEF ThreadCallHook
  <2>4. CASE ThreadHookReturns
    <3>1. CallLeft' = CallLeft
      BY <2>4 DEF ThreadHookReturns
    <3>2. status = "WORK" /\ status' = "OK"
      BY <1>2, <2>4 DEF ThreadHookReturns
    <3>3. JobLeft = 1 /\ JobLeft' = 0
      BY <3>2, Zenon DEF JobLeft
    <3> QED
      BY <3>1, <3>3
  <2>5. CASE ThreadQuit
    BY <2>5 DEF ThreadQuit
  <2>6. CASE ThreadSignal
    BY <2>6 DEF ThreadSignal
  <2> QED
    BY <1>2, <2>1, <2>2, <2>3, <2>4, <2>5, <2>6 DEF Thread
<1> QED
  BY <1>1, <1>2, AlwaysIInv, PTL DEF Spec
=============================================================================
