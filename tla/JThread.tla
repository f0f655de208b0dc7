------------------------------ MODULE JThread ------------------------------
(***************************************************************************)
(* Starting, ending and killing a JThread (the pthread version).  The      *)
(* thread that calls Start is `app', the one it creates is `thread'; each  *)
(* is where it stands in the code.  A mutex is the thread that holds it,   *)
(* Free when none does.  runningmutex is never held across a step and so   *)
(* needs no variable.                                                      *)
(*                                                                         *)
(* The handshake has two halves: continuemutex keeps the thread back until *)
(* Start has seen `running', and continuemutex2 keeps Start back until the *)
(* thread called ThreadStarted.                                            *)
(***************************************************************************)
EXTENDS Naturals

VARIABLES app, thread, running, continuemutex, continuemutex2

threadvars == <<app, thread, running, continuemutex, continuemutex2>>

Free == "free"
App == "app"
Thread == "thread"
Owner == {Free, App, Thread}

\* Where a thread can be while it is being started: `marked' has set running
\* and holds continuemutex2, `continued' is in Thread(), before ThreadStarted.
BeforeStarted == {"born", "marked", "continued"}
\* It will run no more of the program.
Over == {"none", "ended", "cancelled"}

JThreadInit ==
  /\ app = "none" /\ thread = "none" /\ running = FALSE
  /\ continuemutex = Free /\ continuemutex2 = Free

-----------------------------------------------------------------------------
(* JThread::Start, in the thread that calls it.                            *)

StartCreates ==
  /\ app = "start" /\ continuemutex = Free /\ ~ running
  /\ continuemutex' = App
  /\ thread' = "born"
  /\ app' = "starting"
  /\ UNCHANGED <<running, continuemutex2>>

\* Polls `running' every millisecond.
StartSeesRunning ==
  /\ app = "starting" /\ running
  /\ continuemutex' = Free
  /\ app' = "starting2"
  /\ UNCHANGED <<thread, running, continuemutex2>>

\* Locks continuemutex2 and unlocks it again.
StartReturns ==
  /\ app = "starting2" /\ continuemutex2 = Free
  /\ app' = "started"
  /\ UNCHANGED <<thread, running, continuemutex, continuemutex2>>

\* The errors of Start: it is running already, or no thread can be created.
StartFails ==
  /\ app = "start" /\ continuemutex = Free
  /\ app' = "failed"
  /\ UNCHANGED <<thread, running, continuemutex, continuemutex2>>

-----------------------------------------------------------------------------
(* JThread::TheThread, in the new thread.                                  *)

\* Faulty variant: it calls itself running before it holds continuemutex2.
ThreadMarksUnheld ==
  /\ thread = "born"
  /\ running' = TRUE
  /\ thread' = "marked"
  /\ UNCHANGED <<app, continuemutex, continuemutex2>>

ThreadMarks ==
  /\ thread = "born" /\ continuemutex2 = Free
  /\ continuemutex2' = Thread
  /\ running' = TRUE
  /\ thread' = "marked"
  /\ UNCHANGED <<app, continuemutex>>

\* Locks continuemutex and unlocks it again, then calls Thread().
ThreadContinues ==
  /\ thread = "marked" /\ continuemutex = Free
  /\ thread' = "continued"
  /\ UNCHANGED <<app, running, continuemutex, continuemutex2>>

\* JThread::ThreadStarted, the first thing Thread() does.
ThreadStarted ==
  /\ thread = "continued"
  /\ continuemutex2' = Free
  /\ thread' = "check"
  /\ UNCHANGED <<app, running, continuemutex>>

\* Thread() has returned.
ThreadEnds ==
  /\ thread = "ending"
  /\ running' = FALSE
  /\ thread' = "ended"
  /\ UNCHANGED <<app, continuemutex, continuemutex2>>

-----------------------------------------------------------------------------
(* JThread::Kill: pthread_cancel takes effect where the thread is blocked  *)
(* in a system call; what the thread holds there stays held.               *)

Kill(next) ==
  /\ continuemutex = Free
  /\ thread' = IF running THEN "cancelled" ELSE thread
  /\ running' = FALSE
  /\ app' = next
  /\ UNCHANGED <<continuemutex, continuemutex2>>

StartInApp == StartCreates \/ StartSeesRunning \/ StartReturns \/ StartFails
StartInThread == ThreadMarks \/ ThreadContinues \/ ThreadStarted \/ ThreadEnds

\* When JThread::Start has returned, and as long as the thread is used, its
\* Thread() was entered and has called ThreadStarted.
StartedMeansStarted ==
  app \notin {"none", "start", "starting", "starting2", "failed"} =>
    thread \notin BeforeStarted \cup {"none"}

=============================================================================
