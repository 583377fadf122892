------------------------------- MODULE Worker -------------------------------
(***************************************************************************)
(* One AVxWorker of avm_util/avm_thread.c (pthread build): the thread that  *)
(* owns it calls reset, launch, sync, execute and end; the worker's own     *)
(* thread runs thread_loop.  They share status_, one mutex and ONE          *)
(* condition variable, which both of them wait on.                          *)
(*                                                                          *)
(* The client keeps the rule of avm_thread.h: hook, data1, data2 and        *)
(* had_error are written only while no launched job is outstanding, that    *)
(* is after sync() (or end()) and before launch().                          *)
(***************************************************************************)
EXTENDS Naturals

CONSTANTS Jobs,        \* what hook, data1 and data2 can be set to
          NoJob,       \* they are not set yet
          MaxSpurious  \* bound on spurious returns of pthread_cond_wait

ASSUME JobsAssumption == NoJob \notin Jobs
ASSUME MaxSpuriousAssumption == MaxSpurious \in Nat

Threads == {"main", "thread"}
Status == {"NOT_OK", "OK", "WORK"}

VARIABLES
  status,      \* worker->status_
  impl,        \* worker->impl_ # NULL
  mutex,       \* owner of impl_->mutex_, or "free"
  waiters,     \* threads blocked on impl_->condition_
  hadError,    \* worker->had_error
  data,        \* worker->hook, data1, data2
  want,        \* the new_status argument of change_state
  mpc,         \* where the controlling thread is
  tpc,         \* where the worker thread is in thread_loop
  running,     \* the arguments the hook was called with, while it runs
  ran,         \* history: the arguments of the last call that returned
  outstanding, \* the client has launched a job and not yet waited for it
  spurious     \* spurious wake-ups so far

workerVars == <<status, hadError, data, running, ran>>
syncVars == <<mutex, waiters>>
clientVars == <<want, outstanding, impl>>
vars == <<status, impl, mutex, waiters, hadError, data, want, mpc, tpc,
          running, ran, outstanding, spurious>>

MainPC == {"idle", "create", "lock", "check", "asleep", "unlock", "join"}
ThreadPC == {"none", "lock", "check", "asleep", "hook", "signal", "quit", "done"}

TypeOK ==
  /\ status \in Status
  /\ impl \in BOOLEAN
  /\ mutex \in Threads \cup {"free"}
  /\ waiters \subseteq Threads
  /\ hadError \in BOOLEAN
  /\ data \in Jobs \cup {NoJob}
  /\ want \in Status
  /\ mpc \in MainPC
  /\ tpc \in ThreadPC
  /\ running \in Jobs \cup {NoJob}
  /\ ran \in Jobs \cup {NoJob}
  /\ outstanding \in BOOLEAN
  /\ spurious \in 0..MaxSpurious

\* init(): all zero, status_ = NOT_OK
Init ==
  /\ status = "NOT_OK"
  /\ impl = FALSE
  /\ mutex = "free"
  /\ waiters = {}
  /\ hadError = FALSE
  /\ data = NoJob
  /\ want = "OK"
  /\ mpc = "idle"
  /\ tpc = "none"
  /\ running = NoJob
  /\ ran = NoJob
  /\ outstanding = FALSE
  /\ spurious = 0

\* pthread_cond_signal: at least one waiter, if there is one, is released
Signal == IF waiters = {} THEN waiters' = {}
          ELSE \E w \in SUBSET waiters : w # waiters /\ waiters' = w

-----------------------------------------------------------------------------
(* The client, between two calls of the worker interface.                   *)

SetData(j) ==
  /\ mpc = "idle"
  /\ ~outstanding
  /\ data' = j
  /\ UNCHANGED <<status, hadError, running, ran, syncVars, clientVars, mpc, tpc, spurious>>

ClearError ==
  /\ mpc = "idle"
  /\ ~outstanding
  /\ hadError
  /\ hadError' = FALSE
  /\ UNCHANGED <<status, data, running, ran, syncVars, clientVars, mpc, tpc, spurious>>

\* execute() called by the client itself: the hook runs on its own thread
Execute ==
  /\ mpc = "idle"
  /\ ~outstanding
  /\ data # NoJob
  /\ ran' = data
  /\ \E fails \in BOOLEAN : hadError' = (hadError \/ fails)
  /\ UNCHANGED <<status, data, running, syncVars, clientVars, mpc, tpc, spurious>>

-----------------------------------------------------------------------------
(* reset(): had_error is cleared before anything else.  When the worker is  *)
(* down, an allocation or a pthread call may fail (impl_ stays NULL), else  *)
(* the thread is created while the mutex is held, so that thread_loop       *)
(* cannot read status_ before it is OK.                                     *)

ResetNoThread ==
  /\ mpc = "idle"
  /\ ~outstanding
  /\ hadError' = FALSE
  /\ status \in {"NOT_OK", "OK"}
  /\ UNCHANGED <<status, data, running, ran, syncVars, clientVars, mpc, tpc, spurious>>

\* mutant: the thread is created without the mutex
ResetCreateUnlocked ==
  /\ mpc = "idle"
  /\ ~outstanding
  /\ status = "NOT_OK"
  /\ hadError' = FALSE
  /\ impl' = TRUE
  /\ waiters' = {}
  /\ tpc' = "lock"
  /\ mpc' = "create"
  /\ UNCHANGED <<status, mutex, data, running, ran, want, outstanding, spurious>>

ResetCreate ==
  /\ mpc = "idle"
  /\ ~outstanding
  /\ status = "NOT_OK"
  /\ hadError' = FALSE
  /\ impl' = TRUE
  /\ mutex' = "main"
  /\ waiters' = {}
  /\ tpc' = "lock"
  /\ mpc' = "create"
  /\ UNCHANGED <<status, data, running, ran, want, outstanding, spurious>>

ResetPublish ==
  /\ mpc = "create"
  /\ status' = "OK"
  /\ mutex' = "free"
  /\ mpc' = "idle"
  /\ UNCHANGED <<hadError, data, running, ran, waiters, clientVars, tpc, spurious>>

-----------------------------------------------------------------------------
(* launch, sync and end: change_state(new_status), a no-op without impl_.   *)

Call(new) ==
  /\ mpc = "idle"
  /\ impl
  /\ want' = new
  /\ mpc' = "lock"
  /\ UNCHANGED <<workerVars, syncVars, impl, tpc, spurious>>

Launch == /\ data # NoJob
          /\ Call("WORK")
          /\ outstanding' = TRUE

Sync == Call("OK") /\ UNCHANGED outstanding

End == Call("NOT_OK") /\ UNCHANGED outstanding

\* mutant: if instead of while around pthread_cond_wait
MainLockOnce ==
  /\ mpc \in {"lock", "asleep"}
  /\ "main" \notin waiters
  /\ mutex = "free"
  /\ mutex' = "main"
  /\ mpc' = IF mpc = "lock" THEN "check" ELSE "unlock"
  /\ UNCHANGED <<workerVars, waiters, clientVars, tpc, spurious>>

MainLock ==
  /\ mpc \in {"lock", "asleep"}
  /\ "main" \notin waiters
  /\ mutex = "free"
  /\ mutex' = "main"
  /\ mpc' = "check"
  /\ UNCHANGED <<workerVars, waiters, clientVars, tpc, spurious>>

\* while (worker->status_ != OK) pthread_cond_wait(...)
MainWait ==
  /\ mpc = "check"
  /\ status = "WORK"
  /\ waiters' = waiters \cup {"main"}
  /\ mutex' = "free"
  /\ mpc' = "asleep"
  /\ UNCHANGED <<workerVars, clientVars, tpc, spurious>>

\* mutant: the new status is not signalled
MainSetSilently ==
  /\ mpc = "check"
  /\ status # "WORK"
  /\ status' = IF status = "OK" THEN want ELSE status
  /\ mpc' = "unlock"
  /\ UNCHANGED <<hadError, data, running, ran, syncVars, clientVars, tpc, spurious>>

MainSet ==
  /\ mpc = "check"
  /\ status # "WORK"
  /\ IF status = "OK" /\ want # "OK"
     THEN status' = want /\ Signal
     ELSE UNCHANGED <<status, waiters>>
  /\ mpc' = "unlock"
  /\ UNCHANGED <<hadError, data, running, ran, mutex, clientVars, tpc, spurious>>

MainUnlock ==
  /\ mpc = "unlock"
  /\ mutex' = "free"
  /\ mpc' = IF want = "NOT_OK" THEN "join" ELSE "idle"
  /\ outstanding' = (want = "WORK")
  /\ UNCHANGED <<workerVars, waiters, want, impl, tpc, spurious>>

\* mutant: the mutex is destroyed before the thread has left
MainDestroy ==
  /\ mpc = "join"
  /\ impl' = FALSE
  /\ tpc' = "none"
  /\ waiters' = {}
  /\ mpc' = "idle"
  /\ UNCHANGED <<workerVars, mutex, want, outstanding, spurious>>

\* pthread_join, then the mutex and the condition are destroyed
MainJoin ==
  /\ mpc = "join"
  /\ tpc = "done"
  /\ impl' = FALSE
  /\ tpc' = "none"
  /\ mpc' = "idle"
  /\ UNCHANGED <<workerVars, syncVars, want, outstanding, spurious>>

-----------------------------------------------------------------------------
(* thread_loop                                                              *)

ThreadLock ==
  /\ tpc \in {"lock", "asleep"}
  /\ "thread" \notin waiters
  /\ mutex = "free"
  /\ mutex' = "thread"
  /\ tpc' = "check"
  /\ UNCHANGED <<workerVars, waiters, clientVars, mpc, spurious>>

ThreadWait ==
  /\ tpc = "check"
  /\ status = "OK"
  /\ waiters' = waiters \cup {"thread"}
  /\ mutex' = "free"
  /\ tpc' = "asleep"
  /\ UNCHANGED <<workerVars, clientVars, mpc, spurious>>

\* execute(worker): the hook is called with the mutex held
ThreadCallHook ==
  /\ tpc = "check"
  /\ status = "WORK"
  /\ running' = data
  /\ tpc' = "hook"
  /\ UNCHANGED <<status, hadError, data, ran, syncVars, clientVars, mpc, spurious>>

\* mutant: had_error is assigned, not accumulated
ThreadHookForgets ==
  /\ tpc = "hook"
  /\ \E fails \in BOOLEAN : hadError' = fails
  /\ ran' = running
  /\ running' = NoJob
  /\ status' = "OK"
  /\ tpc' = "signal"
  /\ UNCHANGED <<data, syncVars, clientVars, mpc, spurious>>

ThreadHookReturns ==
  /\ tpc = "hook"
  /\ \E fails \in BOOLEAN : hadError' = (hadError \/ fails)
  /\ ran' = running
  /\ running' = NoJob
  /\ status' = "OK"
  /\ tpc' = "signal"
  /\ UNCHANGED <<data, syncVars, clientVars, mpc, spurious>>

ThreadQuit ==
  /\ tpc = "check"
  /\ status = "NOT_OK"
  /\ tpc' = "quit"
  /\ UNCHANGED <<workerVars, syncVars, clientVars, mpc, spurious>>

\* mutant: nobody is told that the work is done
ThreadUnlockSilently ==
  /\ tpc \in {"signal", "quit"}
  /\ mutex' = "free"
  /\ tpc' = IF tpc = "quit" THEN "done" ELSE "lock"
  /\ UNCHANGED <<workerVars, waiters, clientVars, mpc, spurious>>

ThreadSignal ==
  /\ tpc \in {"signal", "quit"}
  /\ Signal
  /\ mutex' = "free"
  /\ tpc' = IF tpc = "quit" THEN "done" ELSE "lock"
  /\ UNCHANGED <<workerVars, clientVars, mpc, spurious>>

\* pthread_cond_wait may return without a signal
SpuriousWakeup ==
  /\ waiters # {}
  /\ spurious < MaxSpurious
  /\ spurious' = spurious + 1
  /\ \E w \in waiters : waiters' = waiters \ {w}
  /\ UNCHANGED <<workerVars, mutex, clientVars, mpc, tpc>>

-----------------------------------------------------------------------------
Client ==
  \/ \E j \in Jobs : SetData(j)
  \/ ClearError
  \/ Execute
  \/ ResetNoThread
  \/ ResetCreate
  \/ Launch
  \/ Sync
  \/ End

Main == ResetPublish \/ MainLock \/ MainWait \/ MainSet \/ MainUnlock \/ MainJoin

Thread == ThreadLock \/ ThreadWait \/ ThreadCallHook \/ ThreadHookReturns
          \/ ThreadQuit \/ ThreadSignal

Next == Client \/ Main \/ Thread \/ SpuriousWakeup

\* Both threads keep running; the client may stop calling, and condition
\* variables need not wake spuriously.
Spec == Init /\ [][Next]_vars /\ WF_vars(Main) /\ WF_vars(Thread)

-----------------------------------------------------------------------------
(* Properties                                                               *)

\* No lost wake-up on the one condition variable both threads use: whenever
\* the mutex is free, the controlling thread is blocked only while a job is
\* being worked on, and the worker thread only while there is nothing to do.
\* (avm_thread.c: the two pthread_cond_wait loops and the two signals.)
NoLostWakeup ==
  mutex = "free" =>
    /\ "main" \in waiters => status = "WORK"
    /\ "thread" \in waiters => status = "OK"

\* Once sync() or end() has returned, and until the next launch(), the hook
\* is not running and nothing is queued, so the client may touch the data the
\* hook worked on (avm_thread.h: "Makes sure the previous work is finished").
IdleAfterSync ==
  mpc = "idle" /\ ~outstanding => status # "WORK" /\ tpc # "hook"

\* The mutex and the condition variable are destroyed (impl_ freed) only when
\* no thread holds, waits for or may still touch them.
DestroyedQuiet ==
  ~impl => mutex = "free" /\ waiters = {} /\ tpc = "none"

\* The thread leaves thread_loop only when it was told to: it never takes the
\* NOT_OK that reset() has not yet replaced by OK for an order to finish, for
\* then the next launch() would wait for ever (pthread_create is called with
\* the mutex held, avm_thread.c:153-156).
QuitsOnlyOnEnd ==
  tpc \in {"quit", "done"} => mpc = "join" \/ (mpc = "unlock" /\ want = "NOT_OK")

\* What the header promises: every job launched is run once, with the
\* arguments it was launched with, and errors are not lost.
Interface == INSTANCE WorkerInterface WITH
  up <- status # "NOT_OK",
  pending <- IF status = "WORK" THEN data ELSE NoJob,
  ran <- ran,
  error <- hadError

ImplementsInterface == Interface!Spec

\* launch(), sync() and end() return: the calling thread never waits for ever.
CallsReturn == (mpc # "idle") ~> (mpc = "idle")
=============================================================================
