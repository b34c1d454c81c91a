-------------------------------- MODULE Docker --------------------------------
(***************************************************************************)
(* CDocker starts the modules of the program and their threads, runs the   *)
(* timers, and stops everything again: when a module fails to start, or in *)
(* Exit.  (src/src/xengine/docker, base, event, netio/ioproc.cpp)          *)
(*                                                                         *)
(* Modules are numbered in the order they are attached; Kind says what     *)
(* thread a module has: "event" the event thread of a CEventProc, "io" the *)
(* thread of a CIOProc, "stat" that of CDataStat, "plain" none.            *)
(***************************************************************************)
EXTENDS Integers, FiniteSets

CONSTANTS N, Kind,
          Io,              \* event module -> the io module whose thread posts its events
                           \* and completes its calls
          CanFail,         \* modules whose HandleInitialize or HandleInvoke may fail
          BadHandler,      \* HandleEvent may return false
          EarlyStop,       \* the program may be stopped before all threads run
          MaxQueue         \* bound: events that wait

Mod == 1..N
Of(k) == {m \in Mod : Kind[m] = k}

(* CMode::GetModules lists an io module before the modules it serves.      *)
DockerConstants ==
  /\ N \in Nat \ {0} /\ Kind \in [Mod -> {"plain", "io", "event", "stat"}]
  /\ CanFail \subseteq Mod
  /\ Io \in [Of("event") -> Of("io")] /\ \A m \in Of("event") : Io[m] < m

VARIABLES
  phase, at,              \* the main thread: what it does, with which module
  failed,              \* CDocker::Run returns false
  actived, shutdown,   \* fActived, fShutdown
  status,              \* IBase::status
  thr,                 \* the thread of a module
  intr,                \* boost::thread::interrupt has been called
  queue, abort,        \* CEventQueue: how many events, fAbort
  stopped,             \* ioService.stopped()
  go,                  \* fRunFlag of CDataStat
  armed, timer         \* modules with a timer, and what TimerProc does

main == <<phase, at, failed, actived, shutdown, status>>
world == <<queue, abort, stopped, go>>
dockVars == <<main, thr, intr, world, armed, timer>>

DockInit ==
  /\ phase = "initialize" /\ at = 1 /\ failed = FALSE /\ actived = FALSE /\ shutdown = FALSE
  /\ status = [m \in Mod |-> "attached"]
  /\ thr = [m \in Mod |-> "none"] /\ intr = [m \in Mod |-> FALSE]
  /\ queue = [m \in Mod |-> 0] /\ abort = [m \in Mod |-> FALSE]
  /\ stopped = [m \in Mod |-> FALSE] /\ go = [m \in Mod |-> FALSE]
  /\ armed = {} /\ timer = 0

Goto(p, m) == phase' = p /\ at' = m
Stay == UNCHANGED <<thr, intr, world, armed, timer>>
Forward(p, next) == IF at < N THEN Goto(p, at + 1) ELSE Goto(next, 1)
Back(p, next) == IF at > 1 THEN Goto(p, at - 1) ELSE Goto(next, N)

-----------------------------------------------------------------------------
(* CDocker::Run in the main thread.                                        *)
Initialize ==
  /\ phase = "initialize"
  /\ status' = [status EXCEPT ![at] = "initialized"]
  /\ Forward("initialize", "invoke")
  /\ Stay /\ UNCHANGED <<failed, actived, shutdown>>

Fail ==
  /\ phase \in {"initialize", "invoke"} /\ at \in CanFail
  /\ failed' = TRUE /\ Goto("halt", N)
  /\ Stay /\ UNCHANGED <<actived, shutdown, status>>

(* HandleInvoke of each kind: ThreadStart, or ThreadDelayStart for a       *)
(* thread that waits until everything is invoked.                          *)
Invoke ==
  /\ phase = "invoke"
  /\ status' = [status EXCEPT ![at] = "invoked"]
  /\ thr' = [thr EXCEPT ![at] = IF Kind[at] = "plain" THEN "none"
                                ELSE IF Kind[at] = "event" THEN "loop" ELSE "delay"]
  /\ go' = [go EXCEPT ![at] = TRUE]
  /\ Forward("invoke", "activate")
  /\ UNCHANGED <<failed, actived, shutdown, intr, queue, abort, stopped, armed, timer>>

Activate ==
  /\ phase = "activate" /\ actived' = TRUE /\ Goto("active", 1)
  /\ Stay /\ UNCHANGED <<failed, shutdown, status>>

(* CService::Stop or a signal ends CEntry::Run.                            *)
Started == \A m \in Mod : thr[m] \in {"none", "loop", "handle", "call"}
Stop ==
  /\ phase = "active" /\ (EarlyStop \/ Started)
  /\ Goto("exit", 1)
  /\ Stay /\ UNCHANGED <<failed, actived, shutdown, status>>

(* Mutant: fShutdown is not set.                                           *)
ExitQuietly ==
  /\ phase = "exit" /\ Goto("deactivate", 1)
  /\ Stay /\ UNCHANGED <<failed, actived, shutdown, status>>

(* CDocker::Exit: from here on nothing may keep the program from ending.   *)
Exit ==
  /\ phase = "exit" /\ shutdown' = TRUE /\ Goto("deactivate", 1)
  /\ Stay /\ UNCHANGED <<failed, actived, status>>
Deactivate ==
  /\ phase = "deactivate" /\ actived' = FALSE /\ Goto("halt", N)
  /\ Stay /\ UNCHANGED <<failed, shutdown, status>>

-----------------------------------------------------------------------------
(* Halt(vWorkQueue): in reverse order, HandleHalt of every module that     *)
(* runs, then HandleDeinitialize of every module, then their timers.       *)
Halt ==
  /\ phase = "halt"
  /\ \/ /\ status[at] = "invoked" /\ phase' = "join" /\ UNCHANGED at
        /\ abort' = [abort EXCEPT ![at] = TRUE] /\ queue' = [queue EXCEPT ![at] = 0]
        /\ stopped' = [stopped EXCEPT ![at] = TRUE] /\ go' = [go EXCEPT ![at] = FALSE]
        /\ intr' = [intr EXCEPT ![at] = Kind[at] = "io" \/ (Kind[at] = "stat" /\ thr[at] = "loop")]
     \/ /\ status[at] # "invoked" /\ Back("halt", "deinitialize")
        /\ UNCHANGED <<abort, queue, stopped, go, intr>>
  /\ UNCHANGED <<failed, actived, shutdown, status, thr, armed, timer>>

(* Mutant: the thread is told to stop, and not waited for.                 *)
JoinNoWait ==
  /\ phase = "join"
  /\ status' = [status EXCEPT ![at] = "initialized"]
  /\ Back("halt", "deinitialize")
  /\ Stay /\ UNCHANGED <<failed, actived, shutdown>>

(* CThread::Exit                                                           *)
Join ==
  /\ phase = "join" /\ thr[at] \in {"none", "end"}
  /\ status' = [status EXCEPT ![at] = "initialized"]
  /\ Back("halt", "deinitialize")
  /\ Stay /\ UNCHANGED <<failed, actived, shutdown>>

Deinitialize ==
  /\ phase = "deinitialize"
  /\ status' = [status EXCEPT ![at] = IF @ = "initialized" THEN "attached" ELSE @]
  /\ Back("deinitialize", "cancel")
  /\ Stay /\ UNCHANGED <<failed, actived, shutdown>>

CancelTimers ==
  /\ phase = "cancel"
  /\ armed' = armed \ {at}
  /\ IF shutdown THEN Back("cancel", "wait timer")      \* the modules are deleted as well
     ELSE IF at > 1 THEN Goto("cancel", at - 1) ELSE Goto("exit", 1)
  /\ UNCHANGED <<failed, actived, shutdown, status, thr, intr, world, timer>>

JoinTimer ==
  /\ phase = "wait timer" /\ timer = -1
  /\ Goto("done", 1)
  /\ Stay /\ UNCHANGED <<failed, actived, shutdown, status>>

Main == Initialize \/ Fail \/ Invoke \/ Activate \/ Exit \/ Deactivate
        \/ Halt \/ Join \/ Deinitialize \/ CancelTimers \/ JoinTimer

-----------------------------------------------------------------------------
(* ThreadDelayRun: waits for fActived or fShutdown; waiting can be         *)
(* interrupted.  fShutdown is looked at again before the thread runs.      *)
Delay(m) ==
  /\ thr[m] = "delay" /\ (actived \/ shutdown \/ intr[m])
  /\ thr' = [thr EXCEPT ![m] = IF intr[m] \/ shutdown THEN "end" ELSE "begin"]
  /\ UNCHANGED <<main, intr, world, armed, timer>>

(* IOThreadFunc begins with ioService.reset().                             *)
Begin(m) ==
  /\ thr[m] = "begin"
  /\ thr' = [thr EXCEPT ![m] = "loop"]
  /\ stopped' = [stopped EXCEPT ![m] = FALSE]
  /\ UNCHANGED <<main, intr, queue, abort, go, armed, timer>>

(* The loop ends: ioService.run returns, Fetch returns null, fRunFlag is   *)
(* seen in StatTimerProc.                                                  *)
End(m) ==
  /\ thr[m] = "loop"
  /\ \/ Kind[m] = "io" /\ stopped[m]
     \/ Kind[m] = "event" /\ abort[m]
     \/ Kind[m] = "stat" /\ (~go[m] \/ intr[m])
  /\ thr' = [thr EXCEPT ![m] = "end"]
  /\ UNCHANGED <<main, intr, world, armed, timer>>

(* The thread of an io module gets something and posts an event.           *)
PostEvent(m) ==
  /\ m \in Of("event") /\ queue[m] < MaxQueue
  /\ thr[Io[m]] = "loop"
  /\ queue' = [queue EXCEPT ![m] = @ + 1]
  /\ UNCHANGED <<main, thr, intr, abort, stopped, go, armed, timer>>

Fetch(m) ==
  /\ thr[m] = "loop" /\ Kind[m] = "event" /\ ~abort[m] /\ queue[m] > 0
  /\ thr' = [thr EXCEPT ![m] = "handle"] /\ queue' = [queue EXCEPT ![m] = @ - 1]
  /\ UNCHANGED <<main, intr, abort, stopped, go, armed, timer>>

(* A handler may set a timer, and wait for CIOProc::DispatchEvent, which   *)
(* the io thread completes.                                                *)
SetTimer(m) ==
  /\ thr[m] = "handle" /\ armed' = armed \cup {m}
  /\ UNCHANGED <<main, thr, intr, world, timer>>
DispatchEvent(m) ==
  /\ thr[m] = "handle"
  /\ thr' = [thr EXCEPT ![m] = "call"]
  /\ UNCHANGED <<main, intr, world, armed, timer>>
Completed(m) ==
  /\ thr[m] = "call" /\ thr[Io[m]] = "loop" /\ ~stopped[Io[m]]
  /\ thr' = [thr EXCEPT ![m] = "handle"]
  /\ UNCHANGED <<main, intr, world, armed, timer>>

(* A handler that returns false empties the queue: CEventQueue::Reset.     *)
Handled(m) ==
  /\ thr[m] = "handle"
  /\ thr' = [thr EXCEPT ![m] = "loop"]
  /\ \/ UNCHANGED <<queue, abort>>
     \/ BadHandler /\ queue' = [queue EXCEPT ![m] = 0] /\ abort' = [abort EXCEPT ![m] = FALSE]
  /\ UNCHANGED <<main, intr, stopped, go, armed, timer>>

(* TimerProc: timer is the module called back, 0 for none, -1 at the end.  *)
Expire ==
  /\ timer = 0 /\ ~shutdown
  /\ \E m \in armed : timer' = m /\ armed' = armed \ {m}
  /\ UNCHANGED <<main, thr, intr, world>>
CalledBack ==
  /\ timer > 0 /\ timer' = 0
  /\ UNCHANGED <<main, thr, intr, world, armed>>
EndTimer ==
  /\ timer = 0 /\ shutdown /\ timer' = -1
  /\ UNCHANGED <<main, thr, intr, world, armed>>

ThreadStep(m) == Delay(m) \/ Begin(m) \/ End(m) \/ Fetch(m) \/ Completed(m)
DockNext == \/ Main \/ Stop \/ Expire \/ CalledBack \/ EndTimer
        \/ \E m \in Mod : ThreadStep(m) \/ Handled(m) \/ PostEvent(m) \/ SetTimer(m) \/ DispatchEvent(m)
DockSpec == DockInit /\ [][DockNext]_dockVars

-----------------------------------------------------------------------------
Running(m) == thr[m] \in {"begin", "loop", "handle", "call"}

(* A module's thread never runs when a module has been deinitialized, so   *)
(* the pointers it took from other modules in HandleInitialize hold: not   *)
(* while starting, not when a start fails half way, not while stopping.    *)
PointersValid == \A m \in Mod : Running(m) => \A i \in Mod : status[i] # "attached"

(* Who waits for the io thread in DispatchEvent is answered: its module is *)
(* halted, and its thread joined, before the io module.                    *)
IOOutlives ==
  \A m \in Mod : thr[m] = "call" =>
    /\ thr[Io[m]] = "loop" /\ status[Io[m]] = "invoked" /\ ~stopped[Io[m]]
    /\ ~(phase = "join" /\ at = Io[m])

(* No thread uses a module that is gone: both of the above.                *)
ThreadsSafe == PointersValid /\ IOOutlives

(* Somebody stops the program, or its start has failed.                    *)
Ending == phase \notin {"initialize", "invoke", "activate", "active"}
=============================================================================
