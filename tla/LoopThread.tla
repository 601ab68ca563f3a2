----------------------------- MODULE LoopThread -----------------------------
(***************************************************************************)
(* LoopThread: a kernel thread that is created once, and an owner that     *)
(* starts and stops it.  The owner's calls and the thread interleave: the  *)
(* flag is exchanged first, the kernel call follows.  The modules of the   *)
(* classes that own a LoopThread extend this one and add what the thread   *)
(* does between two checks of the flag.                                    *)
(*                                                                         *)
(* External (libnx): threadStart succeeds only on a thread that was never  *)
(* started; threadWaitForExit returns once the thread function returned.   *)
(***************************************************************************)
EXTENDS Integers

VARIABLES
    active,  \* _active
    kernel,  \* the kernel thread: created, running, exited
    owner,   \* where the owner is in start(), stop(), or the class around them
    body     \* where the thread function is; "off" outside it

threadVars == <<active, kernel, owner, body>>

ThreadInit == active = FALSE /\ kernel = "created" /\ body = "off"

\* start(): if (!_active.exchange(true)); false when it was active already.
StartFlag == /\ owner = "start"
             /\ active' = TRUE
             /\ owner' = IF active THEN "started" ELSE "starting"
             /\ UNCHANGED <<kernel, body>>

ThreadStarts == /\ owner = "starting" /\ kernel = "created"
                /\ kernel' = "running" /\ body' = "check"
                /\ owner' = "started"
                /\ UNCHANGED active

\* R_FAILED(threadStart()): always for a thread that already ran.
StartFails == /\ owner = "starting"
              /\ active' = FALSE
              /\ owner' = "started"
              /\ UNCHANGED <<kernel, body>>

\* Mutant: stop() leaves the flag set.
StopFlagKept == /\ owner = "stop"
                /\ owner' = IF active THEN "stopper" ELSE "stopped"
                /\ UNCHANGED <<active, kernel, body>>

\* stop(): if (_active.exchange(false)); otherwise stopper and join are skipped.
StopFlag == /\ owner = "stop"
            /\ active' = FALSE
            /\ owner' = IF active THEN "stopper" ELSE "stopped"
            /\ UNCHANGED <<kernel, body>>

\* The stopper ran, threadWaitForExit is next.
StopperDone == /\ owner = "stopper"
               /\ owner' = "join"
               /\ UNCHANGED <<active, kernel, body>>

\* Mutant: stop() does not wait for the thread.
JoinedEarly == /\ owner = "join"
               /\ owner' = "stopped"
               /\ UNCHANGED <<active, kernel, body>>

Joined == /\ owner = "join" /\ kernel = "exited"
          /\ owner' = "stopped"
          /\ UNCHANGED <<active, kernel, body>>

\* while (_active): one more round of the function, or the thread returns.
LoopCheck(first) == /\ body = "check"
                    /\ IF active
                       THEN body' = first /\ UNCHANGED kernel
                       ELSE body' = "off" /\ kernel' = "exited"
                    /\ UNCHANGED <<active, owner>>

ThreadTypeOK == /\ active \in BOOLEAN
                /\ kernel \in {"created", "running", "exited"}

=============================================================================
