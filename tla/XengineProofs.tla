--------------------------- MODULE XengineProofs ----------------------------
(* Proofs about two parts of xengine: CDocker and the threads of its       *)
(* modules, and circularbuf.                                               *)
EXTENDS Docker, Circular, SequenceTheorems, TLAPS

-----------------------------------------------------------------------------
(* CDocker                                                                 *)
Pcs == {"initialize", "invoke", "activate", "active", "exit", "deactivate", "halt", "join",
        "deinitialize", "cancel", "wait timer", "done"}
Statuses == {"attached", "initialized", "invoked"}
Threads == {"none", "end", "delay", "begin", "loop", "handle", "call"}
Alive == {"delay", "begin", "loop", "handle", "call"}

TypeInv ==
  /\ phase \in Pcs /\ at \in Mod
  /\ status \in [Mod -> Statuses]
  /\ thr \in [Mod -> Threads]
  /\ queue \in [Mod -> Nat] /\ DOMAIN stopped = Mod

(* How far the main thread is: modules are initialized and invoked in      *)
(* order, halted in reverse order, and deinitialized when none runs.       *)
PhaseInv ==
  /\ phase = "initialize" => \A i \in Mod : status[i] = IF i < at THEN "initialized" ELSE "attached"
  /\ phase = "invoke" => \A i \in Mod : status[i] = IF i < at THEN "invoked" ELSE "initialized"
  /\ phase \in {"halt", "join"} => \A i \in Mod : i > at => status[i] # "invoked"
  /\ phase \in {"deinitialize", "cancel", "wait timer", "done"} => \A i \in Mod : status[i] # "invoked"
AllOrNone == \A m, i \in Mod : status[m] = "invoked" => status[i] # "attached"

(* A thread lives only while its module is invoked.                        *)
ThreadInv == \A m \in Mod : /\ thr[m] \in Alive => status[m] = "invoked"
                            /\ thr[m] \in {"handle", "call"} => Kind[m] = "event"
                            /\ thr[m] \in {"delay", "begin"} => Kind[m] # "event"

(* Before fActived is set no io thread runs, so nothing posts events.      *)
Starting == phase \in {"initialize", "invoke", "activate"}
EarlyInv ==
  Starting => /\ actived = FALSE /\ shutdown = FALSE
              /\ \A m \in Mod : /\ queue[m] = 0 /\ stopped[m] = FALSE /\ intr[m] = FALSE
                                /\ thr[m] # "begin" /\ (Kind[m] = "io" => thr[m] \in {"none", "delay"})

(* An io service is stopped only by the halt of its module.                *)
StopInv == \A i \in Mod : stopped[i] # FALSE => status[i] # "invoked" \/ (phase = "join" /\ at = i)

(* Who handles an event, or will, has an io thread that runs.              *)
Busy(m) == thr[m] \in {"handle", "call"} \/ (thr[m] = "loop" /\ queue[m] > 0)
ServedInv == \A m \in Of("event") : Busy(m) => thr[Io[m]] = "loop" /\ stopped[Io[m]] = FALSE

DockerInv == TypeInv /\ PhaseInv /\ AllOrNone /\ ThreadInv /\ EarlyInv /\ StopInv /\ ServedInv

-----------------------------------------------------------------------------
(* What the numbering gives.                                               *)
Numbering ==
  /\ N \in Nat /\ N \in Mod /\ 1 \in Mod /\ \A i \in Mod : i \in Nat /\ 1 <= i /\ i <= N
  /\ \A i \in Mod : (i < N => i + 1 \in Mod) /\ (i > 1 => i - 1 \in Mod)
  /\ \A m \in Of("event") : m \in Mod /\ Io[m] \in Mod /\ Io[m] < m /\ Kind[m] = "event" /\ Kind[Io[m]] = "io"
  /\ \A m \in Mod : Kind[m] = "event" => m \in Of("event")
LEMMA Numbered ==
  ASSUME DockerConstants
  PROVE  Numbering
BY DEF DockerConstants, Numbering, Mod, Of

LEMMA DockInits ==
  ASSUME Numbering, DockInit
  PROVE  DockerInv
<1> USE DEF Numbering
<1>1. TypeInv
  BY Zenon DEF DockInit, TypeInv, Pcs, Statuses, Threads
<1>2. PhaseInv
  BY DEF DockInit, PhaseInv
<1>3. AllOrNone /\ ThreadInv /\ StopInv
  BY Zenon DEF DockInit, AllOrNone, ThreadInv, StopInv, Alive
<1>4. EarlyInv
  BY Zenon DEF DockInit, EarlyInv
<1>5. ServedInv
  BY Zenon DEF DockInit, ServedInv, Busy
<1> QED  BY Zenon, <1>1, <1>2, <1>3, <1>4, <1>5 DEF DockerInv

(* Modules are initialized and invoked in order.                           *)
LEMMA InitializeInv ==
  ASSUME Numbering, DockerInv, Initialize
  PROVE  DockerInv'
<1> USE DEF Numbering, DockerInv, Initialize, Forward, Goto, Stay, world
<1>1. TypeInv'
  <2>1. phase' \in Pcs /\ at' \in Mod
    BY Zenon DEF TypeInv, Pcs
  <2>2. status' \in [Mod -> Statuses]
    BY Zenon DEF TypeInv, Statuses
  <2> QED  BY Zenon, <2>1, <2>2 DEF TypeInv
<1>2. PhaseInv'
  <2>1. \A i \in Mod : status'[i] = IF i < at + 1 THEN "initialized" ELSE "attached"
    BY DEF PhaseInv, TypeInv
  <2>2. CASE at < N
    BY <2>1, <2>2 DEF PhaseInv
  <2>3. CASE ~(at < N)
    BY <2>1, <2>3 DEF PhaseInv, TypeInv
  <2> QED  BY Zenon, <2>2, <2>3
<1>3. AllOrNone' /\ ThreadInv' /\ StopInv'
  BY Zenon DEF PhaseInv, TypeInv, AllOrNone, ThreadInv, StopInv, Alive
<1>4. EarlyInv'
  BY Zenon DEF EarlyInv, Starting
<1>5. ServedInv'
  BY Zenon DEF ServedInv, Busy
<1> QED  BY Zenon, <1>1, <1>2, <1>3, <1>4, <1>5

LEMMA InvokeInv ==
  ASSUME Numbering, DockerInv, Invoke
  PROVE  DockerInv'
<1> USE DEF Numbering, DockerInv, Invoke, Forward, Goto
<1>1. TypeInv'
  <2>1. phase' \in Pcs /\ at' \in Mod
    BY Zenon DEF TypeInv, Pcs
  <2>2. status' \in [Mod -> Statuses]
    BY Zenon DEF TypeInv, Statuses
  <2>3. thr' \in [Mod -> Threads]
    BY Zenon DEF TypeInv, Threads
  <2> QED  BY Zenon, <2>1, <2>2, <2>3 DEF TypeInv
<1>2. PhaseInv'
  <2>1. \A i \in Mod : status'[i] = IF i < at + 1 THEN "invoked" ELSE "initialized"
    BY DEF PhaseInv, TypeInv
  <2>2. CASE at < N
    BY <2>1, <2>2 DEF PhaseInv
  <2>3. CASE ~(at < N)
    BY Zenon, <2>3 DEF PhaseInv, TypeInv
  <2> QED  BY Zenon, <2>2, <2>3
<1>3. AllOrNone'
  BY DEF PhaseInv, TypeInv, AllOrNone
<1>4. ThreadInv'
  BY DEF PhaseInv, TypeInv, ThreadInv, Alive
<1>5. StopInv'
  BY Zenon DEF EarlyInv, Starting, StopInv
<1>6. EarlyInv'
  BY Zenon DEF EarlyInv, Starting, TypeInv
<1>7. ServedInv'
  BY DEF EarlyInv, Starting, ServedInv, Busy, TypeInv
<1> QED  BY Zenon, <1>1, <1>2, <1>3, <1>4, <1>5, <1>6, <1>7

(* Steps of the main thread that touch no module.                          *)
LEMMA MainSteps ==
  ASSUME Numbering, DockerInv,
         Activate \/ Fail \/ Stop \/ ExitQuietly \/ Exit \/ Deactivate \/ CancelTimers \/ JoinTimer
  PROVE  DockerInv'
<1> USE DEF Numbering, DockerInv
<1>1. /\ UNCHANGED <<status, thr, intr, queue, stopped>>
      /\ phase' \in {"active", "exit", "deactivate", "halt", "cancel", "wait timer", "done"}
      /\ phase' = "halt" => at' = N
      /\ phase' \in {"cancel", "wait timer", "done"} => phase \in {"cancel", "wait timer"}
      /\ phase # "join"
      /\ at' \in Mod
  BY Zenon DEF TypeInv, Activate, Fail, Stop, ExitQuietly, Exit, Deactivate, CancelTimers, JoinTimer,
         Back, Goto, Stay, world
<1>2. TypeInv'
  <2>1. phase' \in Pcs
    BY Zenon, <1>1 DEF Pcs
  <2> QED  BY Zenon, <1>1, <2>1 DEF TypeInv
<1>3. PhaseInv'
  <2> HIDE DEF Numbering
  <2>1. \A i \in Mod : ~(i > N)
    BY DEF Numbering
  <2> QED  BY Zenon, <1>1, <2>1 DEF PhaseInv, TypeInv
<1>4. AllOrNone' /\ ThreadInv'
  <2>1. AllOrNone'
    BY Zenon, <1>1 DEF AllOrNone
  <2>2. ThreadInv'
    BY Zenon, <1>1 DEF ThreadInv
  <2> QED  BY Zenon, <2>1, <2>2
<1>5. EarlyInv'
  BY Zenon, <1>1 DEF EarlyInv, Starting
<1>6. StopInv'
  BY Zenon, <1>1 DEF StopInv
<1>7. ServedInv'
  BY Zenon, <1>1 DEF ServedInv, Busy
<1> QED  BY Zenon, <1>2, <1>3, <1>4, <1>5, <1>6, <1>7

(* A module is halted when those attached after it are not invoked.        *)
LEMMA HaltInv ==
  ASSUME Numbering, DockerInv, Halt
  PROVE  DockerInv'
<1> USE DEF Numbering, DockerInv, Back, Goto
<1>1. TypeInv'
  <2>1. phase' \in Pcs /\ at' \in Mod
    BY ZenonT(40) DEF TypeInv, Pcs, Halt
  <2>2. queue' \in [Mod -> Nat] /\ DOMAIN stopped' = Mod /\ status' = status /\ thr' = thr
    BY DEF TypeInv, Halt
  <2> QED  BY Zenon, <2>1, <2>2 DEF TypeInv
<1>2. PhaseInv'
  <2>1. CASE status[at] = "invoked"
    BY <2>1 DEF PhaseInv, TypeInv, Halt
  <2>2. CASE status[at] # "invoked"
    <3>1. \A i \in Mod : i >= at => status[i] # "invoked"
      BY <2>2 DEF PhaseInv, Halt, TypeInv
    <3>2. status' = status /\ IF at > 1 THEN phase' = "halt" /\ at' = at - 1 ELSE phase' = "deinitialize"
      BY Zenon, <2>2 DEF Halt
    <3>3. CASE at > 1
      <4>1. phase' = "halt" /\ at' = at - 1 /\ status' = status
        BY Zenon, <3>2, <3>3
      <4>2. \A i \in Mod : i > at - 1 => i >= at
        BY DEF TypeInv
      <4> QED  BY Zenon, <3>1, <4>1, <4>2 DEF PhaseInv
    <3>4. CASE ~(at > 1)
      <4>1. \A i \in Mod : status'[i] # "invoked"
        BY <3>1, <3>2, <3>4 DEF TypeInv
      <4> QED  BY Zenon, <3>2, <3>4, <4>1 DEF PhaseInv
    <3> QED  BY Zenon, <3>3, <3>4
  <2> QED  BY Zenon, <2>1, <2>2
<1>3. AllOrNone' /\ ThreadInv'
  BY DEF AllOrNone, ThreadInv, Halt
<1>4. EarlyInv'
  BY Zenon DEF EarlyInv, Starting, Halt
<1>5. StopInv'
  BY ZenonT(40) DEF StopInv, TypeInv, Halt
<1>6. ServedInv'
  <2> SUFFICES ASSUME NEW m \in Of("event"), Busy(m)'
               PROVE  thr[Io[m]] = "loop" /\ stopped'[Io[m]] = FALSE
    BY Zenon DEF ServedInv, Halt
  <2>1. Busy(m)
    <3>1. thr' = thr /\ (queue' = queue \/ queue' = [queue EXCEPT ![at] = 0])
      BY Zenon DEF Halt
    <3>0. m \in Mod /\ queue \in [Mod -> Nat]
      BY Zenon DEF TypeInv
    <3>2. queue'[m] > 0 => queue[m] > 0
      <4> HIDE DEF Numbering, DockerInv
      <4>1. CASE queue' = queue
        BY Zenon, <4>1
      <4>2. CASE queue' = [queue EXCEPT ![at] = 0]
        BY <3>0, <4>2
      <4> QED  BY Zenon, <3>1, <4>1, <4>2
    <3> QED  BY Zenon, <3>1, <3>2 DEF Busy
  <2>2. thr[m] \in Alive /\ status[m] = "invoked"
    BY Zenon, <2>1 DEF Busy, ThreadInv, Alive
  <2>3. ~(m > at)
    BY Zenon, <2>2 DEF PhaseInv, Halt
  <2>4. Io[m] # at
    BY Zenon, <2>3 DEF TypeInv
  <2>5. thr[Io[m]] = "loop" /\ stopped[Io[m]] = FALSE
    BY Zenon, <2>1 DEF ServedInv
  <2>6. stopped'[Io[m]] = stopped[Io[m]]
    BY Zenon, <2>4 DEF Halt, TypeInv
  <2> QED  BY Zenon, <2>5, <2>6
<1> QED  BY Zenon, <1>1, <1>2, <1>3, <1>4, <1>5, <1>6

LEMMA JoinInv ==
  ASSUME Numbering, DockerInv, Join
  PROVE  DockerInv'
<1> USE DEF Numbering, DockerInv, Join, Back, Goto, Stay, world
<1>1. TypeInv'
  <2>1. phase' \in Pcs /\ at' \in Mod
    BY ZenonT(40) DEF TypeInv, Pcs
  <2>2. status' \in [Mod -> Statuses]
    BY Zenon DEF TypeInv, Statuses
  <2> QED  BY Zenon, <2>1, <2>2 DEF TypeInv
<1>2. \A i \in Mod : status'[i] = IF i = at THEN "initialized" ELSE status[i]
  BY Zenon DEF TypeInv
<1>3. PhaseInv'
  <2>1. \A i \in Mod : i >= at => status'[i] # "invoked"
    BY <1>2 DEF PhaseInv, TypeInv
  <2>2. CASE at > 1
    BY <2>1, <2>2 DEF PhaseInv, TypeInv
  <2>3. CASE ~(at > 1)
    BY <2>1, <2>3 DEF PhaseInv, TypeInv
  <2> QED  BY Zenon, <2>2, <2>3
<1>4. AllOrNone'
  BY <1>2 DEF AllOrNone, TypeInv
<1>5. ThreadInv'
  BY Zenon, <1>2 DEF ThreadInv, TypeInv, Alive
<1>6. EarlyInv'
  BY Zenon DEF EarlyInv, Starting
<1>7. StopInv'
  BY Zenon, <1>2 DEF StopInv, TypeInv
<1>8. ServedInv'
  BY Zenon DEF ServedInv, Busy
<1> QED  BY Zenon, <1>1, <1>3, <1>4, <1>5, <1>6, <1>7, <1>8

LEMMA DeinitializeInv ==
  ASSUME Numbering, DockerInv, Deinitialize
  PROVE  DockerInv'
<1> USE DEF Numbering, DockerInv, Deinitialize, Back, Goto, Stay, world
<1>1. TypeInv'
  <2>1. phase' \in Pcs /\ at' \in Mod
    BY Zenon DEF TypeInv, Pcs
  <2>2. status' \in [Mod -> Statuses]
    BY Zenon DEF TypeInv, Statuses
  <2> QED  BY Zenon, <2>1, <2>2 DEF TypeInv
<1>2. \A i \in Mod : status[i] # "invoked" /\ status'[i] # "invoked"
  BY Zenon DEF PhaseInv, TypeInv
<1>3. PhaseInv' /\ AllOrNone'
  BY Zenon, <1>2 DEF PhaseInv, AllOrNone
<1>4. ThreadInv'
  BY Zenon, <1>2 DEF ThreadInv
<1>5. EarlyInv'
  BY Zenon DEF EarlyInv, Starting
<1>6. StopInv'
  BY Zenon, <1>2 DEF StopInv
<1>7. ServedInv'
  BY Zenon DEF ServedInv, Busy
<1> QED  BY Zenon, <1>1, <1>3, <1>4, <1>5, <1>6, <1>7

(* What a thread does changes neither the main thread nor another thread,  *)
(* and leaves an io thread that runs running.                              *)
Local(n) ==
  /\ UNCHANGED <<phase, at, status, actived, shutdown, intr>>
  /\ \A i \in Mod \ {n} : thr'[i] = thr[i] /\ queue'[i] = queue[i] /\ stopped'[i] = stopped[i]
  /\ thr'[n] \in Alive => thr[n] \in Alive
  /\ thr'[n] \in {"handle", "call"} => Kind[n] = "event"
  /\ thr'[n] \in {"delay", "begin"} => Kind[n] # "event"
  /\ stopped'[n] = stopped[n] \/ stopped'[n] = FALSE
  /\ Starting => /\ queue'[n] = 0 /\ stopped'[n] = FALSE
                 /\ thr'[n] # "begin" /\ (Kind[n] = "io" => thr'[n] \in {"none", "delay"})
  /\ (Kind[n] = "io" /\ thr[n] = "loop" /\ stopped[n] = FALSE)
       => (thr'[n] = "loop" /\ stopped'[n] = FALSE)
  /\ Kind[n] = "event" => (Busy(n)' => Busy(n) \/ thr[Io[n]] = "loop")

LEMMA LocalSteps ==
  ASSUME Numbering, DockerInv, NEW n \in Mod,
         Delay(n) \/ Begin(n) \/ End(n) \/ Fetch(n) \/ Completed(n) \/ Handled(n)
           \/ PostEvent(n) \/ SetTimer(n) \/ DispatchEvent(n)
  PROVE  TypeInv' /\ Local(n)
<1> USE DEF DockerInv, main, world, Threads, Alive, TypeInv, Local, Busy, ThreadInv
<1>1. CASE Delay(n)
  <2>1. ~Starting
    BY Zenon, <1>1 DEF Delay, EarlyInv
  <2> QED  BY Zenon, <1>1, <2>1 DEF Delay
<1>2. CASE Begin(n)
  <2>1. ~Starting
    BY ZenonT(40), <1>2 DEF Begin, EarlyInv
  <2> QED  BY ZenonT(40), <1>2, <2>1 DEF Begin
<1>3. CASE End(n)
  <2> HIDE DEF Local, Busy
  <2>1. /\ UNCHANGED <<phase, at, status, actived, shutdown, intr, stopped, queue>>
        /\ thr[n] = "loop" /\ thr' = [thr EXCEPT ![n] = "end"]
    BY ZenonT(40), <1>3 DEF End
  <2>2. /\ thr'[n] = "end" /\ thr' \in [Mod -> Threads]
        /\ \A i \in Mod \ {n} : thr'[i] = thr[i]
    BY Zenon, <2>1
  <2>3. TypeInv'
    BY Zenon, <2>1, <2>2
  <2>4. Starting => Kind[n] # "io" /\ queue[n] = 0 /\ stopped[n] = FALSE
    BY Zenon, <2>1 DEF EarlyInv
  <2>5. ~Busy(n)'
    BY Zenon, <2>2 DEF Busy
  <2>6. ~(Kind[n] = "io" /\ stopped[n] = FALSE)
    BY ZenonT(40), <1>3 DEF End
  <2> QED  BY Zenon, <2>1, <2>2, <2>3, <2>4, <2>5, <2>6 DEF Local
<1>4. CASE Fetch(n)
  BY SMTT(30), <1>4 DEF Fetch, EarlyInv
<1>5. CASE Completed(n)
  BY ZenonT(40), <1>5 DEF Completed, EarlyInv
<1>6. CASE Handled(n)
  <2> HIDE DEF Local, Busy
  <2>1. /\ UNCHANGED <<phase, at, status, actived, shutdown, intr, stopped>>
        /\ thr[n] = "handle" /\ thr' = [thr EXCEPT ![n] = "loop"]
        /\ queue' = queue \/ queue' = [queue EXCEPT ![n] = 0]
    BY ZenonT(40), <1>6 DEF Handled
  <2>2. /\ thr'[n] = "loop" /\ thr' \in [Mod -> Threads]
        /\ \A i \in Mod \ {n} : thr'[i] = thr[i]
    BY Zenon, <2>1
  <2>3. /\ queue' \in [Mod -> Nat] /\ queue'[n] \in {0, queue[n]}
        /\ \A i \in Mod \ {n} : queue'[i] = queue[i]
    BY <2>1
  <2>4. TypeInv'
    BY Zenon, <2>1, <2>2, <2>3
  <2>5. Kind[n] = "event" /\ (Starting => queue[n] = 0 /\ stopped[n] = FALSE)
    BY Zenon, <2>1 DEF EarlyInv
  <2>6. Busy(n)
    BY Zenon, <2>1 DEF Busy
  <2> QED  BY Zenon, <2>1, <2>2, <2>3, <2>4, <2>5, <2>6 DEF Local
<1>7. CASE PostEvent(n)
  <2>1. ~Starting
    BY Zenon, <1>7 DEF PostEvent, EarlyInv, Numbering
  <2> QED  BY <1>7, <2>1 DEF PostEvent, Numbering
<1>8. CASE SetTimer(n)
  BY ZenonT(40), <1>8 DEF SetTimer, EarlyInv
<1>9. CASE DispatchEvent(n)
  BY Zenon, <1>9 DEF DispatchEvent, EarlyInv
<1> QED  BY ZenonT(40), <1>1, <1>2, <1>3, <1>4, <1>5, <1>6, <1>7, <1>8, <1>9

LEMMA LocalInv ==
  ASSUME Numbering, DockerInv, NEW n \in Mod, TypeInv', Local(n)
  PROVE  DockerInv'
<1> USE DEF DockerInv
<1>1. PhaseInv' /\ AllOrNone'
  BY ZenonT(40) DEF PhaseInv, AllOrNone, Local
<1>2. ThreadInv'
  BY Zenon DEF ThreadInv, Local
<1>3. StopInv'
  BY Zenon DEF StopInv, Local
<1>4. EarlyInv'
  BY Zenon DEF EarlyInv, Starting, Local
<1>5. ServedInv'
  <2> SUFFICES ASSUME NEW m \in Of("event"), Busy(m)'
               PROVE  thr'[Io[m]] = "loop" /\ stopped'[Io[m]] = FALSE
    BY Zenon DEF ServedInv
  <2>0. m \in Mod /\ Io[m] \in Mod /\ m > Io[m] /\ Kind[m] = "event" /\ Kind[Io[m]] = "io"
    BY Zenon DEF Numbering
  <2>1. Busy(m) \/ thr[Io[m]] = "loop"
    BY Zenon, <2>0 DEF Busy, Local
  <2>2. thr[Io[m]] = "loop"
    BY Zenon, <2>1 DEF ServedInv
  <2>3. stopped[Io[m]] = FALSE
    <3> SUFFICES ASSUME stopped[Io[m]] # FALSE PROVE FALSE
      BY Zenon
    <3>1. phase = "join" /\ at = Io[m]
      BY Zenon, <2>0, <2>2 DEF StopInv, ThreadInv, Alive
    <3>2. status[m] # "invoked"
      BY Zenon, <2>0, <3>1 DEF PhaseInv
    <3>3. thr'[m] \in Alive
      BY Zenon, <2>0 DEF Busy, Alive
    <3>4. thr[m] \in Alive
      BY Zenon, <2>0, <3>3 DEF Local
    <3> QED  BY Zenon, <2>0, <3>2, <3>4 DEF ThreadInv
  <2> QED  BY Zenon, <2>0, <2>2, <2>3 DEF Local
<1> QED  BY Zenon, <1>1, <1>2, <1>3, <1>4, <1>5

LEMMA DockNextInv ==
  ASSUME Numbering, DockerInv, [DockNext]_dockVars
  PROVE  DockerInv'
<1>1. ASSUME Main PROVE DockerInv'
  BY Zenon, <1>1, InitializeInv, InvokeInv, MainSteps, HaltInv, JoinInv, DeinitializeInv DEF Main
<1>2. ASSUME Stop PROVE DockerInv'
  BY Zenon, <1>2, MainSteps
<1>3. ASSUME NEW n \in Mod,
             ThreadStep(n) \/ Handled(n) \/ PostEvent(n) \/ SetTimer(n) \/ DispatchEvent(n)
      PROVE  DockerInv'
  <2>1. TypeInv' /\ Local(n)
    BY Zenon, <1>3, LocalSteps DEF ThreadStep
  <2> QED  BY Zenon, <2>1, LocalInv
<1>4. ASSUME Expire \/ CalledBack \/ EndTimer \/ UNCHANGED dockVars
      PROVE  DockerInv'
  <2>1. UNCHANGED <<phase, at, status, thr, queue, stopped, actived, shutdown, intr>>
    BY Zenon, <1>4 DEF Expire, CalledBack, EndTimer, dockVars, main, world
  <2>2. TypeInv' /\ PhaseInv' /\ AllOrNone' /\ ThreadInv'
    BY ZenonT(40), <2>1 DEF DockerInv, TypeInv, PhaseInv, AllOrNone, ThreadInv
  <2>3. EarlyInv' /\ StopInv' /\ ServedInv'
    BY Zenon, <2>1, Zenon DEF DockerInv, EarlyInv, Starting, StopInv, ServedInv, Busy
  <2> QED  BY Zenon, <2>2, <2>3 DEF DockerInv
<1> QED  BY Zenon, <1>1, <1>2, <1>3, <1>4 DEF DockNext

(* DockerInv holds in every state, for any modules in CMode's order.       *)
THEOREM DockInvariance ==
  ASSUME DockerConstants
  PROVE  DockSpec => []DockerInv
<1>1. Numbering
  BY Zenon, Numbered
<1>2. DockInit => DockerInv
  BY Zenon, <1>1, DockInits
<1>3. DockerInv /\ [DockNext]_dockVars => DockerInv'
  BY Zenon, <1>1, DockNextInv
<1> QED  BY <1>2, <1>3, PTL DEF DockSpec

(* No thread uses what a deinitialized module has let go, and who waits    *)
(* for the io thread is answered: while starting, when a start fails half  *)
(* way, and while stopping.                                                *)
THEOREM ThreadsAreSafe ==
  ASSUME DockerConstants
  PROVE  DockSpec => []ThreadsSafe
<1>1. Numbering
  BY Zenon, Numbered
<1>2. DockerInv => ThreadsSafe
  <2> SUFFICES ASSUME DockerInv PROVE ThreadsSafe
    BY Zenon
  <2>1. PointersValid
    BY Zenon DEF DockerInv, PointersValid, Running, ThreadInv, AllOrNone, Alive
  <2>2. IOOutlives
    <3> SUFFICES ASSUME NEW m \in Mod, thr[m] = "call"
                 PROVE  /\ thr[Io[m]] = "loop" /\ status[Io[m]] = "invoked" /\ ~stopped[Io[m]]
                        /\ ~(phase = "join" /\ at = Io[m])
      BY Zenon DEF IOOutlives
    <3>1. /\ m \in Of("event") /\ status[m] = "invoked" /\ Io[m] \in Mod /\ m > Io[m]
      BY Zenon, <1>1 DEF DockerInv, ThreadInv, Alive, Numbering
    <3>2. thr[Io[m]] = "loop" /\ stopped[Io[m]] = FALSE
      BY Zenon, <3>1 DEF DockerInv, ServedInv, Busy
    <3>3. status[Io[m]] = "invoked"
      BY Zenon, <3>1, <3>2 DEF DockerInv, ThreadInv, Alive
    <3>4. ~(phase = "join" /\ at = Io[m])
      BY Zenon, <3>1, <1>1 DEF DockerInv, PhaseInv, Numbering
    <3> QED  BY Zenon, <3>2, <3>3, <3>4
  <2> QED  BY Zenon, <2>1, <2>2 DEF ThreadsSafe
<1> QED  BY <1>2, DockInvariance, PTL

-----------------------------------------------------------------------------
(* circularbuf                                                             *)
Places == 0..BufSize - 1
Content == Byte \cup {Eof}

(* The bytes of s places from b on; d(b, i) is how far place i lies from b. *)
LiveOf(f, b, s) == [i \in 1..s |-> f[Mask(b + i - 1)]]
Wrap(p) == IF p = BufSize THEN 0 ELSE p
Dist(b, i) == IF i >= b THEN i - b ELSE i - b + BufSize

LEMMA MaskIs ==
  ASSUME SizeAssumption, NEW x \in Int
  PROVE  /\ Mask(x) \in Places
         /\ -BufSize <= x /\ x < 0 => Mask(x) = x + BufSize
         /\ 0 <= x /\ x < BufSize => Mask(x) = x
         /\ BufSize <= x /\ x < 2 * BufSize => Mask(x) = x - BufSize
<1>0. BufSize \in Nat \ {0}
  BY Zenon DEF SizeAssumption
<1>1. Mask(x) \in Places
  BY <1>0 DEF Mask, Places
<1>2. ASSUME -BufSize <= x, x < 0 PROVE Mask(x) = x + BufSize
  BY <1>0, <1>2 DEF Mask
<1>3. ASSUME 0 <= x, x < BufSize PROVE Mask(x) = x
  BY <1>0, <1>3 DEF Mask
<1>4. ASSUME BufSize <= x, x < 2 * BufSize PROVE Mask(x) = x - BufSize
  BY <1>0, <1>4 DEF Mask
<1> QED  BY Zenon, <1>1, <1>2, <1>3, <1>4

LEMMA Linear ==
  ASSUME SizeAssumption, NEW b \in Places
  PROVE  /\ \A p \in 0..BufSize : /\ Mask(p) = Wrap(p) /\ Wrap(p) \in Places
                                  /\ Mask(p - b) = Dist(b, Wrap(p))
                                  /\ Mask(Mask(p) - b) = Dist(b, Wrap(p))
         /\ \A i \in Places : Dist(b, i) \in Places /\ Mask(b + Dist(b, i)) = i
         /\ \A k \in Places : Mask(b + k) \in Places /\ Dist(b, Mask(b + k)) = k
         /\ Mask(b - 1) = IF b = 0 THEN BufSize - 1 ELSE b - 1
<1>0. BufSize \in Nat \ {0, 1}
  BY Zenon DEF SizeAssumption
<1>1. ASSUME NEW p \in 0..BufSize
      PROVE  /\ Mask(p) = Wrap(p) /\ Wrap(p) \in Places
             /\ Mask(p - b) = Dist(b, Wrap(p)) /\ Mask(Mask(p) - b) = Dist(b, Wrap(p))
  <2>1. Mask(p) = Wrap(p) /\ Wrap(p) \in Places
    BY <1>0, MaskIs DEF Wrap, Places
  <2>2. Mask(p - b) = Dist(b, Wrap(p))
    BY <1>0, MaskIs DEF Wrap, Places, Dist
  <2>3. Mask(Wrap(p) - b) = Dist(b, Wrap(p))
    BY <1>0, <2>1, MaskIs DEF Places, Dist
  <2> QED  BY Zenon, <2>1, <2>2, <2>3
<1>2. ASSUME NEW i \in Places PROVE Dist(b, i) \in Places /\ Mask(b + Dist(b, i)) = i
  BY <1>0, MaskIs DEF Places, Dist
<1>3. ASSUME NEW k \in Places PROVE Mask(b + k) \in Places /\ Dist(b, Mask(b + k)) = k
  BY <1>0, MaskIs DEF Places, Dist
<1>4. Mask(b - 1) = IF b = 0 THEN BufSize - 1 ELSE b - 1
  BY <1>0, MaskIs DEF Places
<1> QED  BY Zenon, <1>1, <1>2, <1>3, <1>4

-----------------------------------------------------------------------------
(* What puts and consumes do to the live bytes.                            *)
LEMMA LiveSeq ==
  ASSUME SizeAssumption, NEW f \in [Places -> Content], NEW b \in Places, NEW s \in Places
  PROVE  /\ LiveOf(f, b, s) \in Seq(Content) /\ Len(LiveOf(f, b, s)) = s
         /\ \A i \in 1..s : LiveOf(f, b, s)[i] = f[Mask(b + i - 1)]
<1>0. BufSize \in Nat \ {0, 1} /\ s \in Nat /\ b \in Nat
  BY DEF SizeAssumption, Places
<1>1. ASSUME NEW i \in 1..s PROVE f[Mask(b + i - 1)] \in Content
  <2>1. Mask(b + i - 1) \in Places
    BY <1>0, MaskIs
  <2> QED  BY Zenon, <2>1
<1>2. LiveOf(f, b, s) \in [1..s -> Content]
  BY Zenon, <1>1 DEF LiveOf
<1> QED  BY <1>0, <1>2 DEF LiveOf

LEMMA LivePut ==
  ASSUME SizeAssumption, NEW f \in [Places -> Content], NEW b \in Places,
         NEW s \in Places, s < BufSize - 1, NEW c \in Content
  PROVE  LiveOf([f EXCEPT ![Mask(b + s)] = c], b, s + 1) = Append(LiveOf(f, b, s), c)
<1> DEFINE g == [f EXCEPT ![Mask(b + s)] = c]
           l == LiveOf(f, b, s)
           r == LiveOf(g, b, s + 1)
<1>0. BufSize \in Nat \ {0, 1} /\ s \in Nat /\ b \in Nat /\ s + 1 \in Places
  BY DEF SizeAssumption, Places
<1>1. Mask(b + s) \in Places /\ g \in [Places -> Content]
  BY Zenon, Linear
<1>2. /\ l \in Seq(Content) /\ Len(l) = s /\ \A i \in 1..s : l[i] = f[Mask(b + i - 1)]
      /\ r \in Seq(Content) /\ Len(r) = s + 1 /\ \A i \in 1..s + 1 : r[i] = g[Mask(b + i - 1)]
  <2> HIDE DEF g
  <2> QED  BY ZenonT(40), <1>0, <1>1, LiveSeq
<1>3. ASSUME NEW i \in 1..s PROVE r[i] = l[i]
  <2>1. i - 1 \in Places /\ i - 1 # s /\ b + (i - 1) = b + i - 1
    BY <1>0 DEF Places
  <2>2. Mask(b + i - 1) # Mask(b + s) /\ Mask(b + i - 1) \in Places
    BY <2>1, Linear
  <2>3. g[Mask(b + i - 1)] = f[Mask(b + i - 1)]
    BY Zenon, <2>2
  <2>4. i \in 1..s + 1
    BY <1>0
  <2> HIDE DEF g, l, r
  <2> QED  BY Zenon, <1>2, <2>3, <2>4
<1>4. r[s + 1] = c
  <2>1. g[Mask(b + s)] = c /\ s + 1 \in 1..s + 1 /\ b + (s + 1) - 1 = b + s
    BY <1>0, <1>1
  <2> HIDE DEF g, l, r
  <2> QED  BY Zenon, <1>2, <2>1
<1>5. /\ Append(l, c) \in Seq(Content) /\ Len(Append(l, c)) = s + 1
      /\ \A i \in 1..s : Append(l, c)[i] = l[i]
      /\ Append(l, c)[s + 1] = c
  <2> HIDE DEF l
  <2> QED  BY <1>2, AppendProperties
<1> HIDE DEF g, l, r
<1>6. ASSUME NEW i \in 1..Len(r) PROVE r[i] = Append(l, c)[i]
  BY <1>0, <1>2, <1>3, <1>4, <1>5
<1>7. r = Append(l, c)
  BY Zenon, <1>2, <1>5, <1>6, SeqEqual
<1> QED  BY Zenon, <1>7 DEF r, l, g

LEMMA LiveConsume ==
  ASSUME SizeAssumption, NEW f \in [Places -> Content], NEW b \in Places,
         NEW s \in Places, NEW k \in 0..s
  PROVE  LiveOf(f, Mask(b + k), s - k) = SubSeq(LiveOf(f, b, s), k + 1, s)
<1> DEFINE l == LiveOf(f, b, s)
           r == LiveOf(f, Mask(b + k), s - k)
<1>0. BufSize \in Nat \ {0, 1} /\ s \in Nat /\ b \in Nat /\ k \in Nat /\ s - k \in Places /\ k \in Places
  BY DEF SizeAssumption, Places
<1>1. Mask(b + k) \in Places
  BY Zenon, <1>0, Linear
<1>2. /\ l \in Seq(Content) /\ Len(l) = s /\ \A i \in 1..s : l[i] = f[Mask(b + i - 1)]
      /\ r \in Seq(Content) /\ Len(r) = s - k
      /\ \A i \in 1..s - k : r[i] = f[Mask(Mask(b + k) + i - 1)]
  BY ZenonT(40), <1>0, <1>1, LiveSeq
<1>3. ASSUME NEW i \in 1..s - k PROVE r[i] = l[i + k]
  <2>1. i + k \in 1..s
    BY <1>0
  <2>2. Mask(Mask(b + k) + i - 1) = Mask(b + (i + k) - 1)
    BY <1>0, <2>1, MaskIs DEF Places
  <2> HIDE DEF l, r
  <2> QED  BY Zenon, <1>2, <2>1, <2>2
<1> HIDE DEF l, r
<1>4. /\ SubSeq(l, k + 1, s) \in Seq(Content) /\ Len(SubSeq(l, k + 1, s)) = s - k
      /\ \A i \in 1..s - k : SubSeq(l, k + 1, s)[i] = l[i + k]
  <2>1. k + 1 \in Int /\ s \in Int /\ \A i \in k + 1..s : l[i] \in Content
    BY <1>0, <1>2
  <2>2. /\ SubSeq(l, k + 1, s) \in Seq(Content)
        /\ Len(SubSeq(l, k + 1, s)) = IF k + 1 <= s THEN s - (k + 1) + 1 ELSE 0
        /\ \A i \in 1..s - (k + 1) + 1 : SubSeq(l, k + 1, s)[i] = l[k + 1 + i - 1]
    BY <2>1, SubSeqProperties
  <2>3. \A i \in 1..s - k : i \in 1..s - (k + 1) + 1 /\ k + 1 + i - 1 = i + k
    BY <1>0
  <2> QED  BY <1>0, <2>2, <2>3
<1>5. ASSUME NEW i \in 1..Len(r) PROVE r[i] = SubSeq(l, k + 1, s)[i]
  BY Zenon, <1>2, <1>3, <1>4
<1>6. r = SubSeq(l, k + 1, s)
  BY Zenon, <1>2, <1>4, <1>5, SeqEqual
<1> QED  BY Zenon, <1>6 DEF l, r
-----------------------------------------------------------------------------
(* The areas hold live bytes to read, and free places to write; the place  *)
(* of the next read is live or the end.                                    *)
Size == Dist(begin, Wrap(pptr))
Read == Dist(begin, Wrap(gptr))
Pointers ==
  /\ begin \in Places /\ gptr \in 0..BufSize /\ pptr \in 0..BufSize
  /\ egptr \in 0..BufSize /\ epptr \in 0..BufSize /\ gptr <= egptr /\ pptr <= epptr
GetArea == \A i \in gptr..egptr - 1 : Dist(begin, i) < Size
PutArea == \A i \in pptr..epptr - 1 : Dist(begin, i) >= Size /\ Dist(begin, i) < BufSize - 1
BufInv ==
  /\ buf \in [Places -> Content] /\ Pointers
  /\ GetArea /\ PutArea /\ Read <= Size

LEMMA BufKept ==
  ASSUME BufInv, UNCHANGED <<buf, begin, gptr, egptr, pptr, epptr>>
  PROVE  BufInv'
<1>1. Size' = Size /\ Read' = Read
  BY Zenon DEF Size, Read
<1>2. Pointers'
  BY Zenon DEF BufInv, Pointers
<1>3. GetArea' /\ PutArea'
  BY Zenon, <1>1 DEF BufInv, GetArea, PutArea
<1> QED  BY Zenon, <1>1, <1>2, <1>3 DEF BufInv

(* The state in terms of Size and Read.                                    *)
Abs == /\ ppos = Wrap(pptr) /\ gpos = Wrap(gptr) /\ Wrap(pptr) \in Places /\ Wrap(gptr) \in Places
       /\ size = Size /\ Mask(gpos - begin) = Read /\ Size \in Places /\ Read \in Places
       /\ Live = LiveOf(buf, begin, Size)

LEMMA AbsNow ==
  ASSUME SizeAssumption, Pointers
  PROVE  Abs
<1>1. /\ Mask(pptr) = Wrap(pptr) /\ Wrap(pptr) \in Places /\ Mask(pptr - begin) = Dist(begin, Wrap(pptr))
      /\ Mask(gptr) = Wrap(gptr) /\ Wrap(gptr) \in Places
      /\ Mask(Mask(gptr) - begin) = Dist(begin, Wrap(gptr))
  BY Zenon, Linear DEF Pointers
<1>2. Dist(begin, Wrap(pptr)) \in Places /\ Dist(begin, Wrap(gptr)) \in Places
  BY Zenon, <1>1, Linear DEF Pointers
<1> QED  BY Zenon, <1>1, <1>2 DEF Abs, ppos, gpos, size, Size, Read, Live, LiveOf

LEMMA AbsNext ==
  ASSUME SizeAssumption, Pointers'
  PROVE  Abs'
<1>1. /\ Mask(pptr') = Wrap(pptr') /\ Wrap(pptr') \in Places
      /\ Mask(pptr' - begin') = Dist(begin', Wrap(pptr'))
      /\ Mask(gptr') = Wrap(gptr') /\ Wrap(gptr') \in Places
      /\ Mask(Mask(gptr') - begin') = Dist(begin', Wrap(gptr'))
  BY Zenon, Linear DEF Pointers
<1>2. Dist(begin', Wrap(pptr')) \in Places /\ Dist(begin', Wrap(gptr')) \in Places
  BY Zenon, <1>1, Linear DEF Pointers
<1> QED  BY Zenon, <1>1, <1>2 DEF Abs, ppos, gpos, size, Size, Read, Live, LiveOf

(* A byte is written behind the live ones: directly or through overflow.   *)
LEMMA PutStep ==
  ASSUME SizeAssumption, BufInv, NEW c \in Byte, PutInside(c) \/ overflow(c)
  PROVE  BufInv' /\ Q!QPut(c)
<1>0. BufSize \in Nat \ {0, 1} /\ Abs
  BY Zenon, AbsNow DEF SizeAssumption, BufInv
<1>1. ASSUME pptr = epptr, Wrap(pptr) = Mask(begin - 1), overflow(c)
      PROVE  BufInv' /\ Q!QPut(c)
  <2>1. UNCHANGED <<buf, begin, gptr, egptr, pptr, epptr>> /\ out' = Eof
    BY Zenon, <1>0, <1>1 DEF overflow, Abs
  <2>2. BufInv'
    BY Zenon, <2>1, BufKept
  <2>3. Size = BufSize - 1
    <3>1. Wrap(pptr) = IF begin = 0 THEN BufSize - 1 ELSE begin - 1
      BY Zenon, <1>1, Linear DEF BufInv, Pointers
    <3> QED  BY <1>0, <3>1 DEF Size, Dist, BufInv, Pointers, Places
  <2>4. Len(Live) = BufSize - 1
    BY <1>0, <2>3, LiveSeq DEF BufInv, Abs, Pointers
  <2>5. Live' = Live /\ Mask(gpos - begin)' = Mask(gpos - begin)
    BY Zenon, <2>1 DEF Live, size, gpos
  <2> QED  BY SMTT(30), <1>0, <2>1, <2>2, <2>4, <2>5 DEF Q!QPut
<1>2. ASSUME Size < BufSize - 1, buf' = [buf EXCEPT ![Wrap(pptr)] = c], pptr' = Wrap(pptr) + 1,
             epptr' \in 0..BufSize, pptr' <= epptr',
             \A i \in pptr'..epptr' - 1 : Dist(begin, i) > Size /\ Dist(begin, i) < BufSize - 1,
             out' = c, UNCHANGED <<begin, gptr, egptr>>
      PROVE  BufInv' /\ Q!QPut(c)
  <2>1. Pointers'
    BY <1>0, <1>2 DEF BufInv, Pointers, Abs, Places
  <2>2. Size' = Size + 1 /\ Read' = Read
    BY <1>0, <1>2 DEF Size, Read, Dist, Wrap, BufInv, Pointers, Places
  <2>3. buf' \in [Places -> Content]
    BY Zenon, <1>2 DEF BufInv, Content
  <2>4. GetArea' /\ PutArea'
    <3>0. Size \in Nat /\ \A i \in Int : Dist(begin, i) \in Int
      BY <1>0 DEF Abs, BufInv, Pointers, Places, Dist
    <3>1. \A i \in gptr..egptr - 1 : Dist(begin, i) < Size + 1
      BY <3>0 DEF BufInv, GetArea
    <3>2. \A i \in pptr'..epptr' - 1 : Dist(begin, i) >= Size + 1 /\ Dist(begin, i) < BufSize - 1
      <4> SUFFICES ASSUME NEW i \in pptr'..epptr' - 1
                   PROVE  Dist(begin, i) >= Size + 1 /\ Dist(begin, i) < BufSize - 1
        BY Zenon
      <4>1. i \in Int
        OBVIOUS
      <4>2. Dist(begin, i) > Size /\ Dist(begin, i) < BufSize - 1
        BY Zenon, <1>2
      <4> QED  BY <3>0, <4>1, <4>2
    <3> QED  BY Zenon, <1>2, <2>2, <3>1, <3>2 DEF GetArea, PutArea
  <2>5. BufInv'
    BY <1>0, <2>1, <2>2, <2>3, <2>4 DEF BufInv, Abs, Places
  <2>6. Abs'
    BY Zenon, <2>1, AbsNext
  <2>7. Mask(begin + Size) = Wrap(pptr)
    BY Zenon, <1>0, Linear DEF Size, Abs, BufInv, Pointers
  <2>8. LiveOf(buf', begin, Size + 1) = Append(LiveOf(buf, begin, Size), c)
    <3>1. buf \in [Places -> Content] /\ begin \in Places /\ Size \in Places /\ c \in Content
      BY Zenon, <1>0 DEF BufInv, Pointers, Abs, Content
    <3>2. buf' = [buf EXCEPT ![Mask(begin + Size)] = c]
      BY Zenon, <1>2, <2>7
    <3> HIDE DEF Size
    <3>3. LiveOf([buf EXCEPT ![Mask(begin + Size)] = c], begin, Size + 1)
            = Append(LiveOf(buf, begin, Size), c)
      BY Zenon, <1>2, <3>1, LivePut
    <3> QED  BY Zenon, <3>2, <3>3
  <2>9. Live' = Append(Live, c)
    BY ZenonT(40), <1>0, <1>2, <2>2, <2>6, <2>8 DEF Abs
  <2>10. Len(Live) = Size
    BY Zenon, <1>0, LiveSeq DEF BufInv, Abs, Pointers
  <2>11. Mask(gpos - begin)' = Mask(gpos - begin)
    BY Zenon, <1>0, <2>2, <2>6 DEF Abs
  <2> QED  BY Zenon, <1>0, <1>2, <2>5, <2>9, <2>10, <2>11 DEF Q!QPut
<1>3. CASE PutInside(c)
  <2>1. pptr < epptr /\ pptr \in pptr..epptr - 1 /\ Wrap(pptr) = pptr
    BY <1>0, <1>3 DEF PutInside, BufInv, Pointers, Wrap
  <2>2. Size < BufSize - 1
    BY Zenon, <2>1 DEF BufInv, PutArea, Size
  <2>3. \A i \in pptr + 1..epptr - 1 : Dist(begin, i) > Size /\ Dist(begin, i) < BufSize - 1
    <3> SUFFICES ASSUME NEW i \in pptr + 1..epptr - 1
                 PROVE  Dist(begin, i) > Size /\ Dist(begin, i) < BufSize - 1
      BY Zenon
    <3>1. i \in pptr..epptr - 1 /\ i # pptr
      BY <1>0 DEF BufInv, Pointers
    <3>2. Dist(begin, i) >= Size /\ Dist(begin, i) < BufSize - 1
      BY Zenon, <3>1 DEF BufInv, PutArea
    <3> QED
      BY <1>0, <2>1, <3>1, <3>2 DEF Size, Dist, BufInv, Pointers, Places
  <2> QED
    BY <1>0, <1>2, <1>3, <2>1, <2>2, <2>3 DEF PutInside, BufInv, Pointers
<1>4. CASE overflow(c) /\ Wrap(pptr) # Mask(begin - 1)
  <2>1. /\ buf' = [buf EXCEPT ![Wrap(pptr)] = c] /\ pptr' = Wrap(pptr) + 1 /\ out' = c
        /\ epptr' = IF Wrap(pptr) > Mask(begin - 1) THEN BufSize ELSE Mask(begin - 1)
        /\ UNCHANGED <<begin, gptr, egptr>>
    BY Zenon, <1>0, <1>4 DEF overflow, Abs
  <2>2. Mask(begin - 1) = IF begin = 0 THEN BufSize - 1 ELSE begin - 1
    BY Zenon, Linear DEF BufInv, Pointers
  <2>3. Size < BufSize - 1
    BY <1>0, <1>4, <2>2 DEF Size, Dist, Abs, BufInv, Pointers, Places
  <2>4. epptr' \in 0..BufSize /\ pptr' <= epptr'
    BY SMTT(30), <1>0, <1>4, <2>1, <2>2 DEF Abs, BufInv, Pointers, Places
  <2>5. ASSUME NEW i \in pptr'..epptr' - 1
        PROVE  Dist(begin, i) > Size /\ Dist(begin, i) < BufSize - 1
    <3>1. PICK w \in Places : w = Wrap(pptr)
      BY Zenon, <1>0 DEF Abs
    <3>2. begin \in 0..BufSize - 1 /\ BufSize \in Nat \ {0, 1} /\ Size = Dist(begin, w)
      BY Zenon, <1>0, <3>1 DEF Size, BufInv, Pointers, Places
    <3>3. i \in Int /\ i > w
      BY <2>1, <2>4, <3>1 DEF Places
    <3>4. IF begin = 0 THEN w < BufSize - 1 /\ i < BufSize - 1
          ELSE IF w > begin - 1 THEN i < BufSize ELSE w < begin - 1 /\ i < begin - 1
      BY <1>4, <2>1, <2>2, <2>4, <3>1, <3>2 DEF Places
    <3> QED  BY <3>1, <3>2, <3>3, <3>4 DEF Dist, Places
  <2> QED  BY Zenon, <1>2, <2>1, <2>3, <2>4, <2>5
<1> QED  BY Zenon, <1>0, <1>1, <1>3, <1>4 DEF overflow

(* From a live place up to the end or the end of the buffer, all is live.  *)
LEMMA AreaLive ==
  ASSUME SizeAssumption, NEW b \in Places, NEW g \in Places, NEW w \in Places,
         Dist(b, g) <= Dist(b, w), NEW i \in Int, g <= i, i < IF g <= w THEN w ELSE BufSize
  PROVE  Dist(b, i) < Dist(b, w)
<1>0. BufSize \in Nat \ {0, 1}
  BY Zenon DEF SizeAssumption
<1>1. CASE g <= w
  BY <1>0, <1>1 DEF Dist, Places
<1>2. CASE ~(g <= w)
  BY <1>0, <1>2 DEF Dist, Places
<1> QED  BY Zenon, <1>1, <1>2

(* Different places lie at different distances.                            *)
LEMMA DistDiffers ==
  ASSUME SizeAssumption, NEW b \in Places, NEW g \in Places, NEW w \in Places, g # w
  PROVE  Dist(b, g) # Dist(b, w)
BY SMTT(30) DEF SizeAssumption, Dist, Places

(* A byte is read: directly or through underflow.                          *)
LEMMA GetStep ==
  ASSUME SizeAssumption, BufInv, GetInside \/ underflow
  PROVE  BufInv' /\ Q!QGet
<1>0. BufSize \in Nat \ {0, 1} /\ Abs
  BY Zenon, AbsNow DEF SizeAssumption, BufInv
<1>1. Len(Live) = Size /\ \A i \in 1..Size : Live[i] = buf[Mask(begin + i - 1)]
  <2>1. Live = LiveOf(buf, begin, Size) /\ Size \in Places /\ begin \in Places
        /\ buf \in [Places -> Content]
    BY Zenon, <1>0 DEF BufInv, Abs, Pointers
  <2> QED  BY Zenon, <2>1, LiveSeq
<1>2. ASSUME underflow, Wrap(gptr) = Wrap(pptr)
      PROVE  BufInv' /\ Q!QGet
  <2>1. UNCHANGED <<buf, begin, gptr, egptr, pptr, epptr>> /\ out' = Eof
    BY Zenon, <1>0, <1>2 DEF underflow, Abs
  <2>2. BufInv'
    BY Zenon, <2>1, BufKept
  <2>3. Live' = Live /\ Mask(gpos - begin)' = Mask(gpos - begin)
    BY Zenon, <2>1 DEF Live, size, gpos
  <2>4. ~(Mask(gpos - begin) < Len(Live))
    BY SMTT(30), <1>0, <1>1, <1>2 DEF Abs, Size, Read, Places
  <2> QED  BY Zenon, <2>1, <2>2, <2>3, <2>4 DEF Q!QGet
<1>3. ASSUME Read < Size, out' = buf[Wrap(gptr)], gptr' = Wrap(gptr) + 1,
             egptr' \in 0..BufSize, gptr' <= egptr',
             \A i \in gptr'..egptr' - 1 : Dist(begin, i) < Size,
             UNCHANGED <<buf, begin, pptr, epptr>>
      PROVE  BufInv' /\ Q!QGet
  <2>1. Pointers'
    BY SMTT(30), <1>0, <1>3 DEF BufInv, Pointers, Abs, Places
  <2>2. Size' = Size /\ Read' = Read + 1
    BY <1>0, <1>3 DEF Size, Read, Dist, Wrap, BufInv, Pointers, Places
  <2>3. GetArea' /\ PutArea'
    BY Zenon, <1>3, <2>2 DEF GetArea, PutArea, BufInv
  <2>4. BufInv'
    BY <1>0, <1>3, <2>1, <2>2, <2>3 DEF BufInv, Abs, Places
  <2>5. Abs'
    BY Zenon, <2>1, AbsNext
  <2>6. Live' = Live
    BY Zenon, <1>0, <1>3, <2>2, <2>5 DEF Abs
  <2>7. Mask(begin + Read) = Wrap(gptr)
    BY Zenon, <1>0, Linear DEF Read, Abs, BufInv, Pointers
  <2>8. Read + 1 \in 1..Size /\ begin + (Read + 1) - 1 = begin + Read
    BY SMTT(30), <1>0, <1>3 DEF Abs, Places, BufInv, Pointers
  <2>9. Live[Read + 1] = out'
    BY ZenonT(40), <1>1, <1>3, <2>7, <2>8
  <2> QED  BY Zenon, <1>0, <1>1, <1>3, <2>2, <2>4, <2>5, <2>6, <2>9 DEF Q!QGet, Abs
<1>4. CASE GetInside
  <2>1. gptr < egptr /\ gptr \in gptr..egptr - 1 /\ Wrap(gptr) = gptr
    BY <1>0, <1>4 DEF GetInside, BufInv, Pointers, Wrap
  <2>2. Read < Size
    BY Zenon, <2>1 DEF BufInv, GetArea, Read
  <2>3. \A i \in gptr + 1..egptr - 1 : Dist(begin, i) < Size
    BY <1>0 DEF BufInv, GetArea, Pointers
  <2> QED
    BY <1>0, <1>3, <1>4, <2>1, <2>2, <2>3 DEF GetInside, BufInv, Pointers
<1>5. CASE underflow /\ Wrap(gptr) # Wrap(pptr)
  <2>1. /\ gptr' = Wrap(gptr) + 1 /\ out' = buf[Wrap(gptr)]
        /\ egptr' = IF Wrap(gptr) < Wrap(pptr) THEN Wrap(pptr) ELSE BufSize
        /\ UNCHANGED <<buf, begin, pptr, epptr>>
    BY Zenon, <1>0, <1>5 DEF underflow, Abs, setg
  <2>2. Read < Size
    <3>1. Wrap(gptr) \in Places /\ Wrap(pptr) \in Places /\ begin \in Places /\ Read <= Size
      BY Zenon, <1>0 DEF Abs, BufInv, Pointers
    <3>2. Read # Size
      BY Zenon, <1>5, <3>1, DistDiffers DEF Read, Size
    <3>3. Read \in Int /\ Size \in Int
      BY <1>0 DEF Abs, Places
    <3> QED  BY <3>1, <3>2, <3>3
  <2>3. egptr' \in 0..BufSize /\ gptr' <= egptr'
    BY <1>0, <1>5, <2>1 DEF Abs, BufInv, Pointers, Places
  <2>4. \A i \in gptr'..egptr' - 1 : Dist(begin, i) < Size
    <3> SUFFICES ASSUME NEW i \in gptr'..egptr' - 1 PROVE Dist(begin, i) < Size
      BY Zenon
    <3>1. /\ Wrap(gptr) \in Places /\ Wrap(pptr) \in Places /\ begin \in Places
          /\ Dist(begin, Wrap(gptr)) <= Dist(begin, Wrap(pptr))
      BY Zenon, <1>0 DEF Abs, BufInv, Pointers, Size, Read
    <3>2. i \in Int /\ Wrap(gptr) <= i
      BY <1>0, <2>1, <3>1 DEF Places
    <3>3. i < IF Wrap(gptr) <= Wrap(pptr) THEN Wrap(pptr) ELSE BufSize
      BY SMTT(30), <1>0, <1>5, <2>1, <2>3, <3>1 DEF Places
    <3> QED  BY Zenon, <3>1, <3>2, <3>3, AreaLive DEF Size
  <2> QED  BY Zenon, <1>3, <2>1, <2>2, <2>3, <2>4
<1> QED  BY Zenon, <1>2, <1>4, <1>5

(* A place is live, or the end, when it is no further than the end.        *)
LEMMA InLiveIs ==
  ASSUME SizeAssumption, Pointers, NEW b \in Places, NEW g \in Places
  PROVE  InLive(b, g) <=> Dist(b, g) <= Dist(b, Wrap(pptr))
<1>0. BufSize \in Nat \ {0, 1} /\ Abs
  BY Zenon, AbsNow DEF SizeAssumption
<1> QED  BY <1>0 DEF InLive, Abs, Dist, Places

LEMMA SeekStep ==
  ASSUME SizeAssumption, BufInv, NEW g \in Places, Dist(begin, g) <= Size,
         setg(g, IF g <= Wrap(pptr) THEN Wrap(pptr) ELSE BufSize),
         UNCHANGED <<buf, begin, pptr, epptr, out>>
  PROVE  BufInv' /\ Q!QSeek(Dist(begin, g)) /\ Dist(begin, g) \in 0..BufSize - 1
<1>0. BufSize \in Nat \ {0, 1} /\ Abs
  BY Zenon, AbsNow DEF SizeAssumption, BufInv
<1>1. Len(Live) = Size
  BY Zenon, <1>0, LiveSeq DEF BufInv, Abs, Pointers
<1>2. Pointers'
  BY <1>0 DEF setg, BufInv, Pointers, Abs, Places
<1>3. Size' = Size /\ Read' = Dist(begin, g)
  BY <1>0 DEF Size, Read, Dist, Wrap, setg, Places
<1>4. GetArea'
  <2> SUFFICES ASSUME NEW i \in gptr'..egptr' - 1 PROVE Dist(begin, i) < Size
    BY Zenon, <1>3 DEF GetArea
  <2>1. Wrap(pptr) \in Places /\ begin \in Places /\ BufSize \in Nat
    BY Zenon, <1>0 DEF Abs, BufInv, Pointers
  <2>2. i \in Int /\ g <= i /\ i < IF g <= Wrap(pptr) THEN Wrap(pptr) ELSE BufSize
    BY <2>1 DEF setg, Places
  <2> QED  BY Zenon, <2>1, <2>2, AreaLive DEF Size
<1>5. BufInv'
  BY Zenon, <1>2, <1>3, <1>4 DEF BufInv, PutArea
<1>6. Abs'
  BY Zenon, <1>2, AbsNext
<1>7. Live' = Live /\ Mask(gpos - begin)' = Dist(begin, g)
  BY Zenon, <1>0, <1>3, <1>6 DEF Abs
<1>8. Dist(begin, g) \in 0..BufSize - 1 /\ Dist(begin, g) \in 0..Size
  BY <1>0, Linear DEF BufInv, Pointers, Places, Abs
<1> QED  BY Zenon, <1>1, <1>5, <1>7, <1>8 DEF Q!QSeek

(* Consuming k bytes moves the begin and shortens every distance by k; the *)
(* place of the next read stays, or is put at the new begin.               *)
LEMMA Shift ==
  ASSUME SizeAssumption, NEW b \in Places, NEW k \in Places, NEW i \in Places
  PROVE  /\ Mask(b + k) \in Places
         /\ Dist(b, i) >= k => Dist(Mask(b + k), i) = Dist(b, i) - k
         /\ Dist(b, i) < k => Dist(Mask(b + k), i) = Dist(b, i) - k + BufSize
<1>0. BufSize \in Nat \ {0, 1}
  BY Zenon DEF SizeAssumption
<1>1. Mask(b + k) = IF b + k < BufSize THEN b + k ELSE b + k - BufSize
  BY SMTT(30), <1>0, MaskIs DEF Places
<1> QED  BY <1>0, <1>1 DEF Dist, Places

LEMMA ConsumeStep ==
  ASSUME SizeAssumption, BufInv, NEW n \in 0..BufSize, consume(n)
  PROVE  BufInv' /\ \E k \in 0..BufSize - 1 : Q!QConsume(k)
<1>0. BufSize \in Nat \ {0, 1} /\ Abs
  BY Zenon, AbsNow DEF SizeAssumption, BufInv
<1>1. PICK k \in 0..Size : begin' = Mask(begin + k)
  <2>1. CASE n >= Size
    <3>1. begin' = Wrap(pptr)
      BY Zenon, <1>0, <2>1 DEF consume, Abs
    <3>2. Mask(begin + Size) = Wrap(pptr)
      BY Zenon, <1>0, Linear DEF Size, Abs, BufInv, Pointers
    <3>3. Size \in 0..Size
      BY <1>0 DEF Abs, Places
    <3> QED  BY Zenon, <3>1, <3>2, <3>3
  <2>2. CASE ~(n >= Size)
    <3>1. begin' = Mask(begin + n)
      BY Zenon, <1>0, <2>2 DEF consume, Abs
    <3>2. n \in 0..Size
      BY <1>0, <2>2 DEF Abs, Places
    <3> QED  BY Zenon, <3>1, <3>2
  <2> QED  BY Zenon, <2>1, <2>2
<1>2. /\ k \in Places /\ k \in Nat /\ k <= Size /\ begin \in Places /\ begin' \in Places
      /\ Wrap(gptr) \in Places /\ Wrap(pptr) \in Places /\ Size \in Nat /\ Read \in Nat /\ Read <= Size
      /\ Size < BufSize
  <2>1. /\ begin \in Places /\ Wrap(gptr) \in Places /\ Wrap(pptr) \in Places /\ Read <= Size
        /\ Size \in Places /\ Read \in Places
    BY Zenon, <1>0 DEF Abs, BufInv, Pointers
  <2>2. k \in Places /\ k \in Nat /\ k <= Size /\ Size \in Nat /\ Read \in Nat /\ Size < BufSize
    BY <1>0, <2>1 DEF Places
  <2>3. begin' \in Places
    BY Zenon, <1>1, <2>1, <2>2, Shift
  <2> QED  BY Zenon, <2>1, <2>2, <2>3
<1>3. /\ UNCHANGED <<buf, pptr, epptr, out>>
      /\ IF InLive(begin', Wrap(gptr)) THEN UNCHANGED <<gptr, egptr>>
         ELSE setg(begin', IF begin' <= Wrap(pptr) THEN Wrap(pptr) ELSE BufSize)
  BY Zenon, <1>0 DEF consume, Abs
<1>4. Size' = Size - k /\ Size' = Dist(begin', Wrap(pptr))
  <2>1. Dist(Mask(begin + k), Wrap(pptr)) = Size - k
    BY Zenon, <1>2, Shift DEF Size
  <2> QED  BY Zenon, <1>1, <1>3, <2>1 DEF Size
<1>5. ASSUME NEW i \in Places
      PROVE  /\ Dist(begin, i) >= k => Dist(begin', i) = Dist(begin, i) - k
             /\ Dist(begin, i) < k => Dist(begin', i) = Dist(begin, i) - k + BufSize
             /\ Dist(begin, i) \in Nat /\ Dist(begin, i) < BufSize
  <2>1. Dist(begin, i) \in Places
    BY Zenon, <1>2, Linear
  <2> QED  BY <1>0, <1>1, <1>2, <2>1, Shift DEF Places
<1>6. InLive(begin', Wrap(gptr)) <=> Read >= k
  <2>1. InLive(begin', Wrap(gptr)) <=> Dist(begin', Wrap(gptr)) <= Dist(begin', Wrap(pptr))
    BY Zenon, <1>2, InLiveIs DEF BufInv
  <2>2. Dist(begin', Wrap(pptr)) = Size - k
    BY Zenon, <1>4
  <2>3. /\ Read >= k => Dist(begin', Wrap(gptr)) = Read - k
        /\ Read < k => Dist(begin', Wrap(gptr)) = Read - k + BufSize
    BY ZenonT(40), <1>2, <1>5 DEF Read
  <2> QED  BY <1>0, <1>2, <2>1, <2>2, <2>3
<1>7. Pointers'
  <2>1. pptr' \in 0..BufSize /\ epptr' \in 0..BufSize /\ pptr' <= epptr'
    BY Zenon, <1>3 DEF BufInv, Pointers
  <2>2. gptr' \in 0..BufSize /\ egptr' \in 0..BufSize /\ gptr' <= egptr'
    BY SMTT(30), <1>0, <1>2, <1>3 DEF BufInv, Pointers, setg, Places
  <2> QED  BY Zenon, <1>2, <2>1, <2>2 DEF Pointers
<1>8. PutArea'
  <2> SUFFICES ASSUME NEW i \in pptr..epptr - 1
               PROVE  Dist(begin', i) >= Size - k /\ Dist(begin', i) < BufSize - 1
    BY Zenon, <1>3, <1>4 DEF PutArea
  <2>1. i \in Places /\ Dist(begin, i) >= Size /\ Dist(begin, i) < BufSize - 1
    BY <1>0 DEF BufInv, Pointers, PutArea, Places
  <2> QED  BY <1>0, <1>2, <1>5, <2>1
<1>9. Read' = (IF Read >= k THEN Read - k ELSE 0) /\ GetArea'
  <2>1. CASE Read >= k
    <3>1. UNCHANGED <<gptr, egptr>>
      BY Zenon, <1>3, <1>6, <2>1
    <3>2. Read' = Read - k
      BY Zenon, <1>2, <1>5, <2>1, <3>1 DEF Read
    <3>3. GetArea'
      <4> SUFFICES ASSUME NEW i \in gptr..egptr - 1 PROVE Dist(begin', i) < Size - k
        BY Zenon, <1>4, <3>1 DEF GetArea
      <4>1. i \in Places /\ Dist(begin, i) < Size
        BY SMTT(30), <1>0 DEF BufInv, Pointers, GetArea, Places
      <4>2. Dist(begin, i) >= Read
        BY <1>0, <1>2, <4>1 DEF Read, Dist, Wrap, BufInv, Pointers, GetArea, Places
      <4> QED  BY <1>0, <1>2, <1>5, <2>1, <4>1, <4>2
    <3> QED  BY Zenon, <2>1, <3>2, <3>3
  <2>2. CASE ~(Read >= k)
    <3>1. gptr' = begin' /\ egptr' = IF begin' <= Wrap(pptr) THEN Wrap(pptr) ELSE BufSize
      BY Zenon, <1>3, <1>6, <2>2 DEF setg
    <3>2. Read' = 0 /\ Dist(begin', begin') = 0
      <4>1. \A b \in Places : Wrap(b) = b /\ Dist(b, b) = 0
        BY <1>0 DEF Dist, Wrap, Places
      <4> QED  BY Zenon, <1>2, <3>1, <4>1 DEF Read
    <3>3. GetArea'
      <4> SUFFICES ASSUME NEW i \in gptr'..egptr' - 1 PROVE Dist(begin', i) < Size'
        BY Zenon DEF GetArea
      <4>1. i \in Int /\ begin' <= i /\ i < IF begin' <= Wrap(pptr) THEN Wrap(pptr) ELSE BufSize
        BY <1>0, <1>2, <3>1 DEF Places
      <4>2. Dist(begin', begin') <= Dist(begin', Wrap(pptr))
        BY <1>2, <1>4, <3>2
      <4> QED  BY Zenon, <1>2, <1>4, <4>1, <4>2, AreaLive
    <3> QED  BY Zenon, <2>2, <3>2, <3>3
  <2> QED  BY Zenon, <2>1, <2>2
<1>10. BufInv'
  BY <1>2, <1>3, <1>4, <1>7, <1>8, <1>9 DEF BufInv
<1>11. Abs'
  BY Zenon, <1>7, AbsNext
<1>12. LiveOf(buf, begin', Size - k) = SubSeq(LiveOf(buf, begin, Size), k + 1, Size)
  <2> HIDE DEF Size
  <2>1. buf \in [Places -> Content] /\ Size \in Places
    BY Zenon, <1>0 DEF BufInv, Abs
  <2> QED  BY Zenon, <1>1, <1>2, <2>1, LiveConsume
<1>13. Len(Live) = Size
  BY Zenon, <1>0, LiveSeq DEF BufInv, Abs, Pointers
<1>14. Live' = SubSeq(Live, k + 1, Len(Live))
  BY Zenon, <1>0, <1>3, <1>4, <1>11, <1>12, <1>13 DEF Abs
<1>15. Mask(gpos - begin)' = IF Mask(gpos - begin) > k THEN Mask(gpos - begin) - k ELSE 0
  BY <1>0, <1>2, <1>9, <1>11 DEF Abs
<1> QED  BY Zenon, <1>2, <1>3, <1>10, <1>14, <1>15 DEF Q!QConsume, Places

-----------------------------------------------------------------------------
LEMMA BufInits ==
  ASSUME SizeAssumption, BufInit
  PROVE  BufInv /\ Q!QInit
<1>0. BufSize \in Nat \ {0, 1}
  BY Zenon DEF SizeAssumption
<1>1. Pointers /\ Size = 0 /\ Read = 0
  BY <1>0 DEF BufInit, Pointers, Size, Read, Dist, Wrap, Places
<1>2. buf \in [Places -> Content]
  BY Zenon DEF BufInit, Places, Content
<1>3. GetArea /\ PutArea
  BY <1>0, <1>1 DEF BufInit, GetArea, PutArea, Dist
<1>4. Abs
  BY Zenon, <1>1, AbsNow
<1>5. Live = <<>>
  <2>1. LiveOf(buf, begin, 0) \in Seq(Content) /\ Len(LiveOf(buf, begin, 0)) = 0
    BY <1>0, <1>2, LiveSeq DEF BufInit, Places
  <2> QED  BY Zenon, <1>1, <1>4, <2>1, EmptySeq DEF Abs
<1> QED  BY <1>1, <1>2, <1>3, <1>4, <1>5 DEF BufInv, Q!QInit, BufInit, Abs

LEMMA BufSteps ==
  ASSUME SizeAssumption, BufInv, BufNext
  PROVE  BufInv' /\ Q!QNext
<1>0. BufSize \in Nat \ {0, 1} /\ Abs
  BY Zenon, AbsNow DEF SizeAssumption, BufInv
<1>1. ASSUME NEW c \in Byte, PutInside(c) \/ overflow(c) PROVE BufInv' /\ Q!QNext
  BY Zenon, <1>1, PutStep DEF Q!QNext
<1>2. ASSUME GetInside \/ underflow PROVE BufInv' /\ Q!QNext
  BY Zenon, <1>2, GetStep DEF Q!QNext
<1>3. ASSUME NEW g \in 0..BufSize - 1, seekpos(g) PROVE BufInv' /\ Q!QNext
  <2>1. g \in Places /\ begin \in Places
    BY Zenon DEF Places, BufInv, Pointers
  <2>2. CASE InLive(begin, g)
    <3>1. Dist(begin, g) <= Size
      BY Zenon, <2>1, <2>2, InLiveIs DEF BufInv, Size
    <3>2. /\ setg(g, IF g <= Wrap(pptr) THEN Wrap(pptr) ELSE BufSize)
          /\ UNCHANGED <<buf, begin, pptr, epptr, out>>
      BY Zenon, <1>0, <1>3, <2>2 DEF seekpos, Abs
    <3>3. BufInv' /\ Q!QSeek(Dist(begin, g)) /\ Dist(begin, g) \in 0..BufSize - 1
      BY Zenon, <2>1, <3>1, <3>2, SeekStep
    <3> QED  BY Zenon, <3>3 DEF Q!QNext
  <2>3. CASE ~InLive(begin, g)
    <3>1. UNCHANGED <<buf, begin, gptr, egptr, pptr, epptr>> /\ out' = SeekFailed
      BY Zenon, <1>3, <2>3 DEF seekpos
    <3>2. BufInv'
      BY Zenon, <3>1, BufKept
    <3>3. Live' = Live /\ Mask(gpos - begin)' = Mask(gpos - begin)
      BY Zenon, <3>1 DEF Live, size, gpos
    <3> QED  BY Zenon, <3>1, <3>2, <3>3 DEF Q!QNext, Q!QSeekFails
  <2> QED  BY Zenon, <2>2, <2>3
<1>4. ASSUME NEW n \in 0..BufSize, consume(n) PROVE BufInv' /\ Q!QNext
  BY Zenon, <1>4, ConsumeStep DEF Q!QNext
<1>5. ASSUME Rewind PROVE BufInv' /\ Q!QNext
  <2>1. begin \in Places /\ Dist(begin, begin) = 0 /\ 0 <= Size
    BY <1>0 DEF BufInv, Pointers, Dist, Places, Abs
  <2>2. /\ setg(begin, IF begin <= Wrap(pptr) THEN Wrap(pptr) ELSE BufSize)
        /\ UNCHANGED <<buf, begin, pptr, epptr, out>>
    BY Zenon, <1>0, <1>5 DEF Rewind, Abs
  <2>3. BufInv' /\ Q!QSeek(Dist(begin, begin)) /\ Dist(begin, begin) \in 0..BufSize - 1
    BY Zenon, <2>1, <2>2, SeekStep
  <2> QED  BY Zenon, <2>3 DEF Q!QNext
<1> QED  BY Zenon, <1>1, <1>2, <1>3, <1>4, <1>5 DEF BufNext

(* circularbuf, for every size, is a queue of bytes: however the two areas *)
(* wrap around and however stale their ends are, a read gives the byte     *)
(* written there and nothing live is overwritten.                          *)
THEOREM BufferIsQueue ==
  ASSUME SizeAssumption
  PROVE  BufSpec => IsQueue
<1>1. BufInit => BufInv /\ Q!QInit
  BY Zenon, BufInits
<1>2. BufInv /\ [BufNext]_bufVars => BufInv' /\ [Q!QNext]_<<Live, Mask(gpos - begin), out>>
  <2>1. ASSUME BufInv, BufNext PROVE BufInv' /\ Q!QNext
    BY Zenon, <2>1, BufSteps
  <2>2. ASSUME BufInv, UNCHANGED bufVars
        PROVE  BufInv' /\ UNCHANGED <<Live, Mask(gpos - begin), out>>
    <3>1. BufInv'
      BY Zenon, <2>2 DEF bufVars, BufInv, Pointers, GetArea, PutArea, Size, Read
    <3>2. UNCHANGED <<Live, Mask(gpos - begin), out>>
      BY Zenon, <2>2 DEF bufVars, Live, size, gpos
    <3> QED  BY Zenon, <3>1, <3>2
  <2> QED  BY Zenon, <2>1, <2>2
<1> QED  BY <1>1, <1>2, PTL DEF BufSpec, IsQueue, Q!QSpec
=============================================================================
