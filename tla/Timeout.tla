-------------------------------- MODULE Timeout --------------------------------
(*****************************************************************************)
(* external/fixpoint/timeout.ml: do_timeout runs f x in a thread of its own  *)
(* and waits for the answer or until the time is up.  The two threads share  *)
(* ret and rd; only the worker and not_done take the lock.                   *)
(*****************************************************************************)

CONSTANTS
  None,               \* no answer
  Answer              \* f x

VARIABLES
  worker,             \* where the worker is: "computing", "lock", "ret", "rd", "unlock",
                      \* "ended", or "killed"
  caller,             \* where do_timeout is: "not_done", "read", "wait", "fail", "fail_ret",
                      \* "fail_rd", "return", "returned", or "raised"
  lk,                 \* who holds the lock: "worker", "caller", or "free"
  ret, rd,
  trd,                \* what not_done read
  late,               \* the time is up
  result              \* of do_timeout

vars == <<worker, caller, lk, ret, rd, trd, late, result>>

Init ==
  /\ worker = "computing" /\ caller = "not_done" /\ lk = "free"
  /\ ret = None /\ rd = FALSE /\ trd = FALSE /\ late = FALSE /\ result = None

\* a prover may take any time, and time passes
TimeUp == ~late /\ late' = TRUE /\ UNCHANGED <<worker, caller, lk, ret, rd, trd, result>>

-----------------------------------------------------------------------------
(* The worker.                                                               *)

Compute ==
  /\ worker = "computing"
  /\ worker' = "lock"
  /\ UNCHANGED <<caller, lk, ret, rd, trd, late, result>>

TaskLock ==
  /\ worker = "lock" /\ lk = "free"
  /\ lk' = "worker" /\ worker' = "ret"
  /\ UNCHANGED <<caller, ret, rd, trd, late, result>>

TaskRet ==
  /\ worker = "ret"
  /\ ret' = Answer /\ worker' = "rd"
  /\ UNCHANGED <<caller, lk, rd, trd, late, result>>

TaskRd ==
  /\ worker = "rd"
  /\ rd' = TRUE /\ worker' = "unlock"
  /\ UNCHANGED <<caller, lk, ret, trd, late, result>>

TaskUnlock ==
  /\ worker = "unlock"
  /\ lk' = "free" /\ worker' = "ended"
  /\ UNCHANGED <<caller, ret, rd, trd, late, result>>

-----------------------------------------------------------------------------
(* The caller.                                                               *)

NotDoneLock ==
  /\ caller = "not_done" /\ lk = "free"
  /\ lk' = "caller" /\ caller' = "read"
  /\ UNCHANGED <<worker, ret, rd, trd, late, result>>

NotDoneRead ==
  /\ caller = "read"
  /\ trd' = rd /\ lk' = "free"
  /\ caller' = IF rd THEN "return" ELSE "wait"
  /\ UNCHANGED <<worker, ret, rd, late, result>>

\* T.yield: a turn of the loop within the time
Yield ==
  /\ caller = "wait" /\ ~late
  /\ caller' = "not_done"
  /\ UNCHANGED <<worker, lk, ret, rd, trd, late, result>>

GiveUp ==
  /\ caller = "wait" /\ late
  /\ caller' = "fail"
  /\ UNCHANGED <<worker, lk, ret, rd, trd, late, result>>

\* Faulty variant of Kill: the worker goes on.
KillNot ==
  /\ caller = "fail"
  /\ caller' = "fail_ret"
  /\ UNCHANGED <<worker, lk, ret, rd, trd, late, result>>

\* T.kill stops the worker wherever it is, with what it holds.  A thread that
\* has ended stays ended.
Kill ==
  /\ caller = "fail"
  /\ worker' = IF worker = "ended" THEN worker ELSE "killed"
  /\ caller' = "fail_ret"
  /\ UNCHANGED <<lk, ret, rd, trd, late, result>>

\* In thread libraries that cannot kill, T.kill raises an exception.
KillRaises ==
  /\ caller = "fail"
  /\ caller' = "raised"
  /\ UNCHANGED <<worker, lk, ret, rd, trd, late, result>>

FailRet ==
  /\ caller = "fail_ret"
  /\ ret' = None /\ caller' = "fail_rd"
  /\ UNCHANGED <<worker, lk, rd, trd, late, result>>

\* Faulty variant of FailRd: rd is left to the worker.
FailRdNot ==
  /\ caller = "fail_rd"
  /\ caller' = "not_done"
  /\ UNCHANGED <<worker, lk, ret, rd, trd, late, result>>

FailRd ==
  /\ caller = "fail_rd"
  /\ rd' = TRUE /\ caller' = "not_done"
  /\ UNCHANGED <<worker, lk, ret, trd, late, result>>

Return ==
  /\ caller = "return"
  /\ result' = ret /\ caller' = "returned"
  /\ UNCHANGED <<worker, lk, ret, rd, trd, late>>

-----------------------------------------------------------------------------
WorkerLeaves == TaskRet \/ TaskRd \/ TaskUnlock

Worker == Compute \/ TaskLock \/ WorkerLeaves

Caller == NotDoneLock \/ NotDoneRead \/ Yield \/ GiveUp \/ Kill \/ KillRaises
          \/ FailRet \/ FailRd \/ Return

Next == TimeUp \/ Worker \/ Caller

\* Time passes, the caller runs, and the worker does not stop in its critical
\* section; f x may never end, and the worker may never get the lock.
Spec == Init /\ [][Next]_vars
        /\ WF_vars(TimeUp) /\ WF_vars(Caller) /\ WF_vars(WorkerLeaves)

-----------------------------------------------------------------------------
\* What do_timeout returns is final: the answer if there is one, None only when
\* the time was up; and no thread is left that uses the prover or writes ret,
\* wherever the worker was when it was killed.
AnswersAreFinal ==
  caller = "returned" =>
    /\ worker \in {"ended", "killed"}
    /\ result = ret
    /\ result = None => late

\* do_timeout returns or raises, however long f x takes, but for one case: a
\* worker that is killed while it holds the lock keeps not_done waiting.
Ended == caller \in {"returned", "raised"} \/ (worker = "killed" /\ lk = "worker")
=============================================================================
