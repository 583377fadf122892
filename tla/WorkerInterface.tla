--------------------------- MODULE WorkerInterface ---------------------------
(***************************************************************************)
(* What avm_util/avm_thread.h promises of one AVxWorker to the thread that  *)
(* controls it: a job handed over by launch() is run exactly once, with     *)
(* the arguments it was launched with, before the next launch(), sync() or  *)
(* end() returns, and a hook that fails leaves had_error set until the      *)
(* controlling thread clears it.  Mutexes, condition variables and the      *)
(* order of signals are the business of module Worker, which implements     *)
(* this specification.                                                      *)
(***************************************************************************)
CONSTANTS Jobs,   \* the values of (hook, data1, data2) the client hands over
          NoJob   \* no job

VARIABLES up,      \* a thread serves this worker
          pending, \* the job launched and not yet run, or NoJob
          ran,     \* the last job that was run, or NoJob
          error    \* worker->had_error

vars == <<up, pending, ran, error>>

Init == /\ up = FALSE
        /\ pending = NoJob
        /\ ran = NoJob
        /\ error = FALSE

\* reset(): the thread comes up
Start == /\ ~up
         /\ up' = TRUE
         /\ UNCHANGED <<pending, ran, error>>

\* reset(), or the client itself, clears had_error between two jobs
Clear == /\ pending = NoJob
         /\ error' = FALSE
         /\ UNCHANGED <<up, pending, ran>>

Launch == /\ up
          /\ pending = NoJob
          /\ pending' \in Jobs
          /\ UNCHANGED <<up, ran, error>>

\* the worker thread runs the pending job; had_error accumulates
Run == /\ pending # NoJob
       /\ ran' = pending
       /\ pending' = NoJob
       /\ error' \in {error, TRUE}
       /\ UNCHANGED up

\* execute(): the client runs a job on its own thread
Execute == /\ pending = NoJob
           /\ ran' \in Jobs
           /\ error' \in {error, TRUE}
           /\ UNCHANGED <<up, pending>>

End == /\ up
       /\ pending = NoJob
       /\ up' = FALSE
       /\ UNCHANGED <<pending, ran, error>>

Next == Start \/ Clear \/ Launch \/ Run \/ Execute \/ End

Spec == Init /\ [][Next]_vars /\ WF_vars(Run)
=============================================================================
