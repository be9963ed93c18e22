--------------------------- MODULE SchedInvariant ---------------------------
(***************************************************************************)
(* The inductive invariant of Sched, facts about its constants, and the    *)
(* steps that leave the run queues alone: those of the idle loop and the   *)
(* boot path, the exception path, process_resched and run_process.         *)
(***************************************************************************)
EXTENDS Sched, TLAPS

\* The two environment assumptions of the theorems.
QuietBoot == ~TickInBootWindow /\ StoresInOrder

-----------------------------------------------------------------------------
(* The inductive invariant                                                 *)

\* Interrupts and preemption at each program point.
CpuInv ==
    \A c \in Cpu :
      /\ pc[c] # "wild"
      /\ needResched[c] = TRUE
      /\ pc[c] \in {"register", "start_timer"} => c = 0 /\ timer[c] = "off"
      /\ InBootWindow(c) => timer[c] # "fired"
      /\ pc[c] \in {"irq_enable", "check", "sched"} => preemptCount[c] = 1
      /\ pc[c] \notin {"irq_enable", "check", "sched"} => preemptCount[c] = 0
      /\ pc[c] \in {"pick", "scan", "run", "back"} => irqOn[c] = FALSE

\* The context a CPU is in.
CtxInv ==
    \A c \in Cpu :
      /\ pc[c] # "user" => current[c] \in IdleTask /\ stack[c] = Idle[c]
      /\ pc[c] = "user" =>
           /\ entryTask[c] = proc[c]
           /\ stack[c] = proc[c]
           /\ ttbr0[c] = proc[c]
           /\ sp[proc[c]] = IdleFrame(c)
           /\ state[proc[c]] = "RUNNING"
      /\ pc[c] \in {"user", "back"} => cachedCurrent[c] \in IdleTask
      /\ pc[c] \in {"run", "user"} => proc[c] \in Proc /\ Home(proc[c]) = c
      /\ pc[c] = "run" => state[proc[c]] \in {"READY", "RUNNING"}
      /\ entryTask[c] # NoTask => Home(entryTask[c]) = c

\* A process that is not executing has its user registers saved.
SpInv ==
    \A p \in Proc : pc[Home(p)] # "user" \/ proc[Home(p)] # p => sp[p] = Regs(p)

\* The run-queue arrays: slots below the count are stored, and a slot only
\* ever holds processes of its CPU.
RqInv ==
    /\ \A c \in Cpu :
         /\ rqNum[c] <= regIdx
         /\ \A i \in 0 .. Len(Processes) - 1 :
              /\ i < rqNum[c] => rqSlot[c][i] # NoTask
              /\ rqSlot[c][i] # NoTask => Home(rqSlot[c][i]) = c
    /\ landed \in {{}, {"slot"}}
    /\ landed = {"slot"} =>
         /\ regIdx < Len(Processes)
         /\ rqSlot[CpuOf(regIdx)][rqNum[CpuOf(regIdx)]] # NoTask

\* g_next_process stays below the count, and a scan below the count it goes by,
\* which is not ahead of the count stored.
ScanInv ==
    \A c \in Cpu :
      /\ rqNext[c] < rqNum[c] \/ (rqNext[c] = 0 /\ rqNum[c] = 0)
      /\ pc[c] = "scan" =>
           /\ scan[c].i < rqSeen[c]
           /\ rqSeen[c] <= scan[c].n
           /\ scan[c].n <= rqNum[c]

\* A process whose slot has not been stored is untouched.
NewInv ==
    \A i \in DOMAIN Processes :
      i > regIdx + 1 \/ (i = regIdx + 1 /\ landed = {}) =>
        state[Processes[i]] = "NEW"

IInv == TypeOK /\ CpuInv /\ CtxInv /\ SpInv /\ RqInv /\ ScanInv /\ NewInv
          /\ RunningIsEntryTask

-----------------------------------------------------------------------------
(* Facts about the constants                                               *)

\* A remainder is below its divisor.
LEMMA ModRange ==
  ASSUME NEW a \in Nat, NEW b \in Nat, b > 0
  PROVE  a % b \in 0 .. b - 1
OBVIOUS

\* One step around a ring of n places.
LEMMA ModStep ==
  ASSUME NEW i \in Nat, NEW n \in Nat, i < n
  PROVE  (i + 1) % n = IF i + 1 < n THEN i + 1 ELSE 0
<1>1. PICK m \in Nat : m = i + 1 /\ m > 0 /\ m <= n
  OBVIOUS
<1>2. CASE m < n
  BY <1>1, <1>2
<1>3. CASE m = n
  BY <1>1, <1>3
<1> QED
  BY <1>1, <1>2, <1>3

\* Every process is one of the loaded ones.
LEMMA ProcIndex ==
  /\ Len(Processes) \in Nat
  /\ DOMAIN Processes = 1 .. Len(Processes)
  /\ \A i \in 1 .. Len(Processes) : Processes[i] \in Proc
  /\ \A p \in Proc : \E i \in 1 .. Len(Processes) : Processes[i] = p
BY SchedAssumption DEF Proc, Range

\* No process is loaded twice.
LEMMA ProcDistinct ==
  \A i, j \in DOMAIN Processes : Processes[i] = Processes[j] => i = j
BY SchedAssumption

\* CPU 0 exists and process i of the load order lives on CPU i mod MaxCpus.
LEMMA HomeOf ==
  /\ 0 \in Cpu
  /\ \A i \in Nat : CpuOf(i) \in Cpu
  /\ \A i \in DOMAIN Processes : Home(Processes[i]) = CpuOf(i - 1)
  /\ \A p \in Proc : Home(p) \in Cpu
<1>1. \A i \in Nat : CpuOf(i) \in Cpu
  BY ModRange, SchedAssumption DEF CpuOf, Cpu
<1>2. \A i \in DOMAIN Processes : Home(Processes[i]) = CpuOf(i - 1)
  BY ProcIndex, SchedAssumption DEF Home
<1>3. \A p \in Proc : Home(p) \in Cpu
  BY <1>1, <1>2, ProcIndex
<1>4. 0 \in Cpu
  BY SchedAssumption DEF Cpu
<1> QED
  BY <1>1, <1>2, <1>3, <1>4

-----------------------------------------------------------------------------
(* Init and the steps                                                      *)

LEMMA InitInv == Init => IInv
<1> SUFFICES ASSUME Init PROVE IInv
  OBVIOUS
<1>1. TypeOK
  <2>1. sp \in [Task -> Frame]
    <3>1. \A t \in Task : sp[t] \in Frame
      <4> SUFFICES ASSUME NEW t \in Task PROVE sp[t] \in Frame
        OBVIOUS
      <4>1. CASE t \in Proc
        BY <4>1 DEF Init, Frame, Task
      <4>2. CASE t \notin Proc
        <5>1. PICK d \in Cpu : Idle[d] = t
          BY <4>2, SchedAssumption DEF Task, IdleTask, Range
        <5>2. sp[t] = BootSp(CHOOSE c \in Cpu : Idle[c] = t)
          BY <4>2 DEF Init
        <5>3. (CHOOSE c \in Cpu : Idle[c] = t) \in Cpu
          BY <5>1
        <5> QED
          BY <5>2, <5>3 DEF Frame
      <4> QED
        BY <4>1, <4>2
    <3> QED
      BY <3>1 DEF Init
  <2>2. /\ stack \in [Cpu -> Task]
        /\ current \in [Cpu -> IdleTask \cup {NoTask}]
    BY SchedAssumption DEF Init, Task
  <2>3. /\ rqNum \in [Cpu -> 0 .. Len(Processes)]
        /\ rqSlot \in [Cpu -> [0 .. Len(Processes) - 1 -> Proc \cup {NoTask}]]
        /\ rqNext \in [Cpu -> Nat]
        /\ scan \in [Cpu -> [i : Nat, j : Nat, n : Nat]]
        /\ rqSeen \in [Cpu -> Nat] /\ rqHad \in [Cpu -> Nat]
        /\ regIdx \in 0 .. Len(Processes)
        /\ landed \in SUBSET {"slot", "num"}
    BY ProcIndex DEF Init, NoScan
  <2>4. /\ pc \in [Cpu -> PC]
        /\ timer \in [Cpu -> {"off", "armed", "fired"}]
        /\ state \in [Task -> State]
    BY DEF Init, PC, State, ArchTimerInit, CpuhpArchTimerSetup
  <2>5. /\ irqOn \in [Cpu -> BOOLEAN]
        /\ preemptCount \in [Cpu -> 0 .. 1]
        /\ needResched \in [Cpu -> BOOLEAN]
    BY DEF Init, SetResched
  <2> QED
    BY <2>1, <2>2, <2>3, <2>4, <2>5 DEF Init, TypeOK
<1>2. CpuInv
  BY DEF Init, CpuInv, SetResched, InBootWindow, ArchTimerInit,
         CpuhpArchTimerSetup
<1>3. CtxInv
  BY SchedAssumption DEF Init, CtxInv
<1>4. SpInv
  BY DEF Init, SpInv, Task
<1>5. RqInv /\ ScanInv
  BY ProcIndex DEF Init, RqInv, ScanInv
<1>6. NewInv /\ RunningIsEntryTask
  BY ProcIndex DEF Init, NewInv, RunningIsEntryTask, Task
<1> QED
  BY <1>1, <1>2, <1>3, <1>4, <1>5, <1>6 DEF IInv

\* A step of kernel code that neither enters nor leaves a process keeps the
\* invariant once it keeps the types, CpuInv and ScanInv.
LEMMA LoopStepInv ==
  ASSUME IInv, TypeOK', CpuInv', ScanInv',
         UNCHANGED <<ctxVars, state, rqNum, rqSlot, regVars>>,
         \A c \in Cpu : pc'[c] = pc[c] \/
                        (pc[c] # "user" /\ pc'[c] \notin {"run", "user", "back"})
  PROVE  IInv'
<1> USE DEF IInv, ctxVars, regVars
<1>1. CtxInv'
  BY DEF CtxInv
<1>2. SpInv'
  BY HomeOf DEF SpInv
<1>3. RqInv' /\ NewInv'
  BY DEF RqInv, NewInv
<1>4. RunningIsEntryTask'
  BY DEF RunningIsEntryTask
<1> QED
  BY <1>1, <1>2, <1>3, <1>4 DEF IInv

\* ScanInv holds of a CPU's scan until that CPU takes another step in it.
LEMMA ScanKept ==
  ASSUME ScanInv, UNCHANGED rqVars,
         \A c \in Cpu : pc'[c] = "scan" => pc[c] = "scan"
  PROVE  ScanInv'
BY DEF ScanInv, rqVars

LEMMA KernelStepInv ==
  ASSUME IInv, TypeOK', CpuInv', UNCHANGED <<ctxVars, state, rqVars, regVars>>,
         \A c \in Cpu : \/ pc'[c] = pc[c]
                        \/ /\ pc[c] # "user"
                           /\ pc'[c] \notin {"scan", "run", "user", "back"}
  PROVE  IInv'
<1>1. ScanInv'
  BY ScanKept DEF IInv
<1>2. UNCHANGED <<ctxVars, state, rqNum, rqSlot, regVars>>
  BY DEF rqVars
<1> QED
  BY <1>1, <1>2, LoopStepInv

LEMMA RegisterDoneInv ==
  ASSUME QuietBoot, IInv, RegisterDone
  PROVE  IInv'
<1> USE DEF IInv
<1>1. /\ pc \in [Cpu -> PC]
      /\ irqOn \in [Cpu -> BOOLEAN]
      /\ preemptCount \in [Cpu -> 0 .. 1]
      /\ timer \in [Cpu -> {"off", "armed", "fired"}]
  BY DEF TypeOK
<1>2. TypeOK'
  <2>1. (pc \in [Cpu -> PC])'
    BY <1>1, HomeOf DEF RegisterDone, PC
  <2> QED
    BY <2>1 DEF RegisterDone, TypeOK, ctxVars, rqVars, regVars
<1>3. CpuInv'
  BY <1>1, HomeOf DEF RegisterDone, CpuInv, InBootWindow
<1> QED
  BY <1>1, <1>2, <1>3, KernelStepInv DEF RegisterDone

LEMMA LocalSchedTimerStartInv ==
  ASSUME QuietBoot, IInv, LocalSchedTimerStart
  PROVE  IInv'
<1> USE DEF IInv
<1>1. /\ pc \in [Cpu -> PC]
      /\ irqOn \in [Cpu -> BOOLEAN]
      /\ preemptCount \in [Cpu -> 0 .. 1]
      /\ timer \in [Cpu -> {"off", "armed", "fired"}]
  BY DEF TypeOK
<1>2. TypeOK'
  <2>1. (pc \in [Cpu -> PC])'
    BY <1>1, HomeOf DEF LocalSchedTimerStart, PC
  <2>2. (timer \in [Cpu -> {"off", "armed", "fired"}])'
    BY <1>1, HomeOf DEF LocalSchedTimerStart, ArchTimerStart
  <2> QED
    BY <2>1, <2>2 DEF LocalSchedTimerStart, TypeOK, ctxVars, rqVars, regVars
<1>3. CpuInv'
  BY <1>1, HomeOf DEF LocalSchedTimerStart, CpuInv, InBootWindow, ArchTimerStart
<1> QED
  BY <1>1, <1>2, <1>3, KernelStepInv DEF LocalSchedTimerStart

LEMMA PreemptDisableInv ==
  ASSUME QuietBoot, IInv, NEW c \in Cpu, PreemptDisable(c)
  PROVE  IInv'
<1> USE DEF IInv
<1>1. /\ pc \in [Cpu -> PC]
      /\ irqOn \in [Cpu -> BOOLEAN]
      /\ preemptCount \in [Cpu -> 0 .. 1]
      /\ timer \in [Cpu -> {"off", "armed", "fired"}]
  BY DEF TypeOK
<1>2. TypeOK'
  <2>1. (pc \in [Cpu -> PC])'
    BY <1>1 DEF PreemptDisable, PC
  <2>2. (preemptCount \in [Cpu -> 0 .. 1])'
    BY <1>1 DEF PreemptDisable, CpuInv
  <2> QED
    BY <2>1, <2>2 DEF PreemptDisable, TypeOK, ctxVars, rqVars, regVars
<1>3. CpuInv'
  BY <1>1 DEF PreemptDisable, CpuInv, InBootWindow
<1> QED
  BY <1>1, <1>2, <1>3, KernelStepInv DEF PreemptDisable

LEMMA LocalIrqEnableInv ==
  ASSUME QuietBoot, IInv, NEW c \in Cpu, LocalIrqEnable(c)
  PROVE  IInv'
<1> USE DEF IInv
<1>1. /\ pc \in [Cpu -> PC]
      /\ irqOn \in [Cpu -> BOOLEAN]
      /\ preemptCount \in [Cpu -> 0 .. 1]
      /\ timer \in [Cpu -> {"off", "armed", "fired"}]
  BY DEF TypeOK
<1>2. TypeOK'
  <2>1. (pc \in [Cpu -> PC])'
    BY <1>1 DEF LocalIrqEnable, PC
  <2>2. (irqOn \in [Cpu -> BOOLEAN])'
    BY <1>1 DEF LocalIrqEnable
  <2> QED
    BY <2>1, <2>2 DEF LocalIrqEnable, TypeOK, ctxVars, rqVars, regVars
<1>3. CpuInv'
  BY <1>1 DEF LocalIrqEnable, CpuInv, InBootWindow
<1> QED
  BY <1>1, <1>2, <1>3, KernelStepInv DEF LocalIrqEnable

LEMMA NeedReschedInv ==
  ASSUME QuietBoot, IInv, NEW c \in Cpu, NeedResched(c)
  PROVE  IInv'
<1> USE DEF IInv
<1>1. /\ pc \in [Cpu -> PC]
      /\ irqOn \in [Cpu -> BOOLEAN]
      /\ preemptCount \in [Cpu -> 0 .. 1]
      /\ timer \in [Cpu -> {"off", "armed", "fired"}]
  BY DEF TypeOK
<1>2. TypeOK'
  <2>1. (pc \in [Cpu -> PC])'
    BY <1>1 DEF NeedResched, PC
  <2> QED
    BY <2>1 DEF NeedResched, TypeOK, ctxVars, rqVars, regVars
<1>3. CpuInv'
  BY <1>1 DEF NeedResched, CpuInv, InBootWindow
<1> QED
  BY <1>1, <1>2, <1>3, KernelStepInv DEF NeedResched

LEMMA SchduleInv ==
  ASSUME QuietBoot, IInv, NEW c \in Cpu, Schdule(c)
  PROVE  IInv'
<1> USE DEF IInv
<1>1. /\ pc \in [Cpu -> PC]
      /\ irqOn \in [Cpu -> BOOLEAN]
      /\ preemptCount \in [Cpu -> 0 .. 1]
      /\ timer \in [Cpu -> {"off", "armed", "fired"}]
  BY DEF TypeOK
<1>2. TypeOK'
  <2>1. (pc \in [Cpu -> PC])'
    BY <1>1 DEF Schdule, PC
  <2>2. (irqOn \in [Cpu -> BOOLEAN])'
    BY <1>1 DEF Schdule
  <2>3. (preemptCount \in [Cpu -> 0 .. 1])'
    BY <1>1 DEF Schdule, CpuInv
  <2> QED
    BY <2>1, <2>2, <2>3 DEF Schdule, TypeOK, ctxVars, rqVars, regVars
<1>3. CpuInv'
  BY <1>1 DEF Schdule, CpuInv, InBootWindow
<1> QED
  BY <1>1, <1>2, <1>3, KernelStepInv DEF Schdule

LEMMA TimerExpiresInv ==
  ASSUME QuietBoot, IInv, NEW c \in Cpu, TimerExpires(c)
  PROVE  IInv'
<1> USE DEF IInv
<1>1. /\ pc \in [Cpu -> PC]
      /\ irqOn \in [Cpu -> BOOLEAN]
      /\ preemptCount \in [Cpu -> 0 .. 1]
      /\ timer \in [Cpu -> {"off", "armed", "fired"}]
  BY DEF TypeOK
<1>2. TypeOK'
  <2>1. (timer \in [Cpu -> {"off", "armed", "fired"}])'
    BY <1>1 DEF TimerExpires
  <2> QED
    BY <2>1 DEF TimerExpires, TypeOK, ctxVars, rqVars, regVars
<1>3. CpuInv'
  BY <1>1 DEF TimerExpires, CpuInv, InBootWindow, QuietBoot
<1> QED
  BY <1>1, <1>2, <1>3, KernelStepInv DEF TimerExpires

-----------------------------------------------------------------------------
(* The exception path, process_resched and run_process                     *)

\* The timer handler rearms the timer and leaves the reschedule flag set.
LEMMA TimerIrqEffect ==
  ASSUME IInv, NEW c \in Cpu, TimerIrqHandler(c)
  PROVE  /\ needResched' = needResched
         /\ timer' = [timer EXCEPT ![c] = "armed"]
         /\ (timer \in [Cpu -> {"off", "armed", "fired"}])'
<1>1. /\ needResched \in [Cpu -> BOOLEAN]
      /\ timer \in [Cpu -> {"off", "armed", "fired"}]
  BY DEF IInv, TypeOK
<1>2. needResched[c] = TRUE
  BY DEF IInv, CpuInv
<1>3. PICK expired \in BOOLEAN :
        needResched' = [needResched EXCEPT
                          ![c] = IF expired THEN TRUE ELSE needResched[c]]
  BY DEF TimerIrqHandler, SetResched
<1>4. needResched' = [needResched EXCEPT ![c] = TRUE]
  BY <1>2, <1>3
<1>5. needResched' = needResched
  BY <1>1, <1>2, <1>4
<1> QED
  BY <1>1, <1>5 DEF TimerIrqHandler, ArchTimerStart

\* An interrupt taken in the kernel returns to the interrupted code: where
\* IRQs are enabled and the timer can have fired, preempt_count is 1.
LEMMA El1IrqInv ==
  ASSUME QuietBoot, IInv, NEW c \in Cpu, El1Irq(c)
  PROVE  IInv'
<1> USE DEF IInv
<1>1. /\ pc \in [Cpu -> PC]
      /\ needResched \in [Cpu -> BOOLEAN]
      /\ preemptCount \in [Cpu -> 0 .. 1]
      /\ timer \in [Cpu -> {"off", "armed", "fired"}]
  BY DEF TypeOK
<1>2. preemptCount[c] = 1
  BY <1>1 DEF El1Irq, TimerIrqHandler, CpuInv, InBootWindow, PC
<1>3. UNCHANGED <<sp, ttbr0, current, pc, stack, irqOn>>
  BY <1>2 DEF El1Irq, CheckResched
<1>4. /\ needResched' = needResched
      /\ timer' = [timer EXCEPT ![c] = "armed"]
      /\ (timer \in [Cpu -> {"off", "armed", "fired"}])'
  BY TimerIrqEffect DEF El1Irq
<1>5. TypeOK'
  BY <1>3, <1>4 DEF El1Irq, TypeOK, rqVars, regVars
<1>6. CpuInv'
  BY <1>1, <1>2, <1>3, <1>4 DEF El1Irq, CpuInv, InBootWindow
<1> QED
  BY <1>3, <1>5, <1>6, KernelStepInv DEF El1Irq, ctxVars

\* process_resched, entered from a process, pops the idle frame that
\* process_cpu_context_switch pushed on this CPU.
LEMMA ReschedInv ==
  ASSUME IInv, NEW c \in Cpu, pc[c] = "user",
         ProcessResched(c, entryTask[c], Regs(stack[c])),
         UNCHANGED <<preemptCount, needResched, entryTask, cachedCurrent, proc,
                     rqVars, regVars>>,
         (timer \in [Cpu -> {"off", "armed", "fired"}])',
         \A d \in Cpu : d # c => timer'[d] = timer[d],
         state' \in {state, [state EXCEPT ![entryTask[c]] = "ZOMBIE"]}
  PROVE  IInv'
<1> USE DEF IInv
<1> DEFINE p == entryTask[c]
<1>1. /\ pc \in [Cpu -> PC]
      /\ irqOn \in [Cpu -> BOOLEAN]
      /\ current \in [Cpu -> IdleTask \cup {NoTask}]
      /\ stack \in [Cpu -> Task]
      /\ ttbr0 \in [Cpu -> Proc \cup {"boot", "reserved"}]
      /\ sp \in [Task -> Frame]
      /\ state \in [Task -> State]
  BY DEF TypeOK
<1>2. /\ p \in Proc /\ p \in Task
      /\ p = proc[c] /\ stack[c] = p /\ Home(p) = c
      /\ sp[p] = IdleFrame(c)
      /\ cachedCurrent[c] \in IdleTask
      /\ state[p] = "RUNNING"
  BY DEF CtxInv, Task
<1>3. /\ sp' = [sp EXCEPT ![p] = Regs(p)]
      /\ ttbr0' = [ttbr0 EXCEPT ![c] = "reserved"]
      /\ current' = [current EXCEPT ![c] = Idle[0]]
      /\ pc' = [pc EXCEPT ![c] = "back"]
      /\ stack' = [stack EXCEPT ![c] = Idle[c]]
      /\ irqOn' = [irqOn EXCEPT ![c] = FALSE]
  BY <1>2 DEF ProcessResched
<1>4. Idle[0] \in IdleTask /\ Idle[c] \in IdleTask /\ Idle[c] \in Task
  BY SchedAssumption, HomeOf DEF Task
<1>5. TypeOK'
  <2>1. (pc \in [Cpu -> PC])' /\ (irqOn \in [Cpu -> BOOLEAN])'
    BY <1>1, <1>3 DEF PC
  <2>2. /\ (current \in [Cpu -> IdleTask \cup {NoTask}])'
        /\ (stack \in [Cpu -> Task])'
        /\ (ttbr0 \in [Cpu -> Proc \cup {"boot", "reserved"}])'
    BY <1>1, <1>3, <1>4
  <2>3. (sp \in [Task -> Frame])'
    <3>1. Regs(p) \in Frame
      BY <1>2 DEF Frame
    <3> QED
      BY <1>1, <1>2, <1>3, <3>1
  <2>4. (state \in [Task -> State])'
    BY <1>1, <1>2 DEF State
  <2> QED
    BY <2>1, <2>2, <2>3, <2>4 DEF TypeOK, rqVars, regVars
<1>6. CpuInv'
  BY <1>1, <1>3 DEF CpuInv, InBootWindow
<1>7. \A q \in Task : q # p => state'[q] = state[q]
  BY <1>1
<1>8. \A d \in Cpu : pc[d] \in {"run", "user"} /\ d # c => proc[d] \in Task /\ proc[d] # p
  BY SMTT(30), <1>2 DEF CtxInv, Task
<1>9. CtxInv'
  <2> SUFFICES ASSUME NEW d \in Cpu PROVE CtxInv!(d)'
    BY DEF CtxInv
  <2>1. CASE d = c
    BY <2>1, <1>1, <1>2, <1>3, <1>4 DEF CtxInv
  <2>2. CASE d # c
    BY <2>2, <1>1, <1>2, <1>3, <1>7, <1>8 DEF CtxInv
  <2> QED
    BY <2>1, <2>2
<1>10. SpInv'
  <2> SUFFICES ASSUME NEW q \in Proc,
                      (pc[Home(q)] # "user" \/ proc[Home(q)] # q)'
               PROVE  sp'[q] = Regs(q)
    BY DEF SpInv
  <2>1. CASE q = p
    BY <2>1, <1>1, <1>2, <1>3
  <2>2. CASE q # p
    BY <2>2, <1>1, <1>2, <1>3, HomeOf DEF SpInv, Task
  <2> QED
    BY <2>1, <2>2
<1>11. RqInv' /\ ScanInv'
  <2>1. ScanInv'
    BY <1>1, <1>3, ScanKept
  <2> QED
    BY <2>1 DEF RqInv, rqVars, regVars
<1>12. NewInv'
  BY <1>2, <1>7, ProcIndex DEF NewInv, regVars, Task
<1>13. RunningIsEntryTask'
  BY <1>2, <1>7 DEF RunningIsEntryTask, Task
<1> QED
  BY <1>5, <1>6, <1>9, <1>10, <1>11, <1>12, <1>13

LEMMA El0IrqInv ==
  ASSUME IInv, NEW c \in Cpu, El0Irq(c)
  PROVE  IInv'
<1>1. /\ needResched' = needResched
      /\ timer' = [timer EXCEPT ![c] = "armed"]
      /\ (timer \in [Cpu -> {"off", "armed", "fired"}])'
  BY TimerIrqEffect DEF El0Irq
<1>2. pc[c] = "user" /\ preemptCount[c] = 0 /\ needResched[c] = TRUE
  BY DEF El0Irq, IInv, CpuInv
<1>3. ProcessResched(c, entryTask[c], Regs(stack[c]))
  BY <1>1, <1>2 DEF El0Irq, CheckResched
<1>4. \A d \in Cpu : d # c => timer'[d] = timer[d]
  BY <1>1 DEF IInv, TypeOK
<1> QED
  BY <1>1, <1>2, <1>3, <1>4, ReschedInv DEF El0Irq

LEMMA El0SyncInv ==
  ASSUME IInv, NEW c \in Cpu, NEW kind \in {"write", "exit", "fault"},
         El0Sync(c, kind)
  PROVE  IInv'
<1>1. pc[c] = "user" /\ preemptCount[c] = 0 /\ needResched[c] = TRUE
  BY DEF El0Sync, IInv, CpuInv
<1>2. needResched' = needResched
  <2>1. needResched \in [Cpu -> BOOLEAN]
    BY DEF IInv, TypeOK
  <2>2. needResched' = [needResched EXCEPT ![c] = TRUE]
    BY <1>1 DEF El0Sync, SetResched
  <2> QED
    BY <1>1, <2>1, <2>2
<1>3. ProcessResched(c, entryTask[c], Regs(stack[c]))
  <2>1. CheckResched(c, entryTask[c], needResched'[c])
    BY DEF El0Sync
  <2> QED
    BY SMTT(30), <1>1, <1>2, <2>1 DEF CheckResched
<1>4. /\ (timer \in [Cpu -> {"off", "armed", "fired"}])'
      /\ timer' = timer
  BY DEF IInv, TypeOK, El0Sync
<1>5. state' \in {state, [state EXCEPT ![entryTask[c]] = "ZOMBIE"]}
  BY DEF El0Sync
<1> QED
  BY <1>1, <1>2, <1>3, <1>4, <1>5, ReschedInv DEF El0Sync

\* run_process switches to a process whose registers are saved at its sp.
LEMMA RunProcessInv ==
  ASSUME IInv, NEW c \in Cpu, RunProcess(c)
  PROVE  IInv'
<1> USE DEF IInv
<1> DEFINE p == proc[c]
<1>1. /\ pc \in [Cpu -> PC]
      /\ irqOn \in [Cpu -> BOOLEAN]
      /\ entryTask \in [Cpu -> Proc \cup {NoTask}]
      /\ current \in [Cpu -> IdleTask \cup {NoTask}]
      /\ cachedCurrent \in [Cpu -> IdleTask \cup {NoTask}]
      /\ stack \in [Cpu -> Task]
      /\ ttbr0 \in [Cpu -> Proc \cup {"boot", "reserved"}]
      /\ sp \in [Task -> Frame]
      /\ state \in [Task -> State]
  BY DEF TypeOK
<1>2. /\ pc[c] = "run" /\ p \in Proc /\ p \in Task /\ Home(p) = c
      /\ current[c] \in IdleTask /\ current[c] \in Task /\ current[c] \notin Proc
      /\ state[p] \in {"READY", "RUNNING"}
      /\ preemptCount[c] = 0
  BY SchedAssumption DEF RunProcess, CtxInv, CpuInv, Task
<1>3. sp[p] = Regs(p)
  BY <1>2 DEF SpInv
<1>4. /\ sp' = [sp EXCEPT ![p] = IdleFrame(c)]
      /\ stack' = [stack EXCEPT ![c] = p]
      /\ ttbr0' = [ttbr0 EXCEPT ![c] = p]
      /\ current' = [current EXCEPT ![c] = NoTask]
      /\ irqOn' = [irqOn EXCEPT ![c] = TRUE]
      /\ pc' = [pc EXCEPT ![c] = "user"]
      /\ entryTask' = [entryTask EXCEPT ![c] = p]
      /\ cachedCurrent' = [cachedCurrent EXCEPT ![c] = current[c]]
      /\ UNCHANGED <<preemptCount, needResched, timer, proc, rqVars, regVars>>
  BY <1>3 DEF RunProcess, ContextSwitch
<1>5. /\ state' \in [Task -> State]
      /\ state'[p] = "RUNNING"
      /\ \A q \in Proc : q # p /\ q # entryTask[c] => state'[q] = state[q]
      /\ \A q \in Proc : q # p /\ q = entryTask[c] =>
           \/ state'[q] = state[q] /\ state[q] # "RUNNING"
           \/ state'[q] = "READY" /\ state[q] = "RUNNING"
  <2> DEFINE s1 == [state EXCEPT ![current[c]] = "READY"]
             s2 == IF entryTask[c] # NoTask /\ s1[entryTask[c]] = "RUNNING"
                     THEN [s1 EXCEPT ![entryTask[c]] = "READY"] ELSE s1
  <2>1. state' = [s2 EXCEPT ![p] = "RUNNING"]
    BY DEF RunProcess, Dispatched
  <2>2. s1 \in [Task -> State] /\ \A q \in Proc : s1[q] = state[q]
    BY <1>1, <1>2 DEF State, Task
  <2> HIDE DEF s1
  <2>3. /\ s2 \in [Task -> State]
        /\ \A q \in Proc : q # entryTask[c] => s2[q] = s1[q]
        /\ \A q \in Proc : q = entryTask[c] =>
             \/ s2[q] = s1[q] /\ s1[q] # "RUNNING"
             \/ s2[q] = "READY" /\ s1[q] = "RUNNING"
    BY SMTT(90), <1>1, <2>2, SchedAssumption DEF State, Task
  <2> HIDE DEF s2
  <2> QED
    BY <1>2, <2>1, <2>2, <2>3 DEF State, Task
<1>6. TypeOK'
  <2>1. (pc \in [Cpu -> PC])' /\ (irqOn \in [Cpu -> BOOLEAN])'
    BY <1>1, <1>4 DEF PC
  <2>2. /\ (entryTask \in [Cpu -> Proc \cup {NoTask}])'
        /\ (current \in [Cpu -> IdleTask \cup {NoTask}])'
        /\ (cachedCurrent \in [Cpu -> IdleTask \cup {NoTask}])'
        /\ (stack \in [Cpu -> Task])'
        /\ (ttbr0 \in [Cpu -> Proc \cup {"boot", "reserved"}])'
    BY <1>1, <1>2, <1>4
  <2>3. (sp \in [Task -> Frame])'
    <3>1. IdleFrame(c) \in Frame
      BY DEF Frame
    <3> QED
      BY <1>1, <1>2, <1>4, <3>1
  <2> QED
    BY <1>4, <1>5, <2>1, <2>2, <2>3 DEF TypeOK, rqVars, regVars
<1>7. CpuInv'
  BY <1>1, <1>2, <1>4 DEF CpuInv, InBootWindow
<1>8. \A d \in Cpu : d # c /\ pc[d] \in {"run", "user"} =>
        proc[d] \in Proc /\ proc[d] # p /\ state'[proc[d]] = state[proc[d]]
  <2> SUFFICES ASSUME NEW d \in Cpu, d # c, pc[d] \in {"run", "user"}
               PROVE  /\ proc[d] \in Proc /\ proc[d] # p
                      /\ state'[proc[d]] = state[proc[d]]
    OBVIOUS
  <2>1. proc[d] \in Proc /\ Home(proc[d]) = d
    BY DEF CtxInv
  <2>2. proc[d] # entryTask[c]
    BY <2>1, SchedAssumption DEF CtxInv, Task
  <2> QED
    BY <1>2, <1>5, <2>1, <2>2
<1>9. CtxInv'
  <2> SUFFICES ASSUME NEW d \in Cpu PROVE CtxInv!(d)'
    BY DEF CtxInv
  <2>1. CASE d = c
    BY SMTT(30), <2>1, <1>1, <1>2, <1>4, <1>5 DEF CtxInv
  <2>2. CASE d # c
    BY <2>2, <1>1, <1>2, <1>4, <1>8 DEF CtxInv, Task
  <2> QED
    BY <2>1, <2>2
<1>10. SpInv'
  BY <1>1, <1>2, <1>4, HomeOf DEF SpInv, Task
<1>11. RqInv' /\ ScanInv'
  <2>1. ScanInv'
    BY <1>1, <1>4, ScanKept
  <2> QED
    BY <1>4, <2>1 DEF RqInv, rqVars, regVars
<1>12. NewInv'
  <2>1. ASSUME NEW i \in DOMAIN Processes, state[Processes[i]] = "NEW"
        PROVE  state'[Processes[i]] = "NEW"
    <3>1. Processes[i] \in Proc /\ Processes[i] # p
      BY <1>2, <2>1, ProcIndex
    <3> QED
      BY <1>5, <2>1, <3>1
  <2> QED
    BY <1>4, <2>1 DEF NewInv, regVars
<1>13. RunningIsEntryTask'
  <2> SUFFICES ASSUME NEW q \in Proc, state'[q] = "RUNNING"
               PROVE  entryTask'[Home(q)] = q
    BY DEF RunningIsEntryTask
  <2>1. CASE q = p
    BY <1>1, <1>2, <1>4, <2>1
  <2>2. CASE q # p
    <3>1. q # entryTask[c] /\ state[q] = "RUNNING"
      BY <1>5, <2>2
    <3>2. entryTask[Home(q)] = q /\ Home(q) # c
      BY <3>1 DEF RunningIsEntryTask
    <3> QED
      BY <1>1, <1>4, <3>2, HomeOf
  <2> QED
    BY <2>1, <2>2
<1> QED
  BY <1>6, <1>7, <1>9, <1>10, <1>11, <1>12, <1>13

\* The end of run_process only touches idle processes.
LEMMA RunProcessReturnInv ==
  ASSUME IInv, NEW c \in Cpu, RunProcessReturn(c)
  PROVE  IInv'
<1> USE DEF IInv
<1>1. pc \in [Cpu -> PC] /\ state \in [Task -> State]
  BY DEF TypeOK
<1>2. pc[c] = "back" /\ pc' = [pc EXCEPT ![c] = "pre"]
  BY DEF RunProcessReturn
<1>3. PICK cur \in IdleTask : state' = [state EXCEPT ![cur] = "RUNNING"]
  BY DEF RunProcessReturn, CtxInv
<1>4. \A p \in Proc : p \in Task /\ state'[p] = state[p]
  BY <1>1, <1>3, SchedAssumption DEF Task
<1>5. TypeOK'
  <2>1. (pc \in [Cpu -> PC])'
    BY <1>1, <1>2 DEF PC
  <2>2. (state \in [Task -> State])'
    BY <1>1, <1>3 DEF State
  <2> QED
    BY <2>1, <2>2 DEF RunProcessReturn, TypeOK, ctxVars, rqVars, regVars
<1>6. CpuInv'
  BY <1>1, <1>2 DEF RunProcessReturn, CpuInv, InBootWindow
<1>7. CtxInv'
  <2>1. UNCHANGED ctxVars
    BY DEF RunProcessReturn
  <2> SUFFICES ASSUME NEW d \in Cpu PROVE CtxInv!(d)'
    BY DEF CtxInv
  <2>2. CASE d = c
    BY <1>1, <1>2, <2>1, <2>2 DEF CtxInv, ctxVars
  <2>3. CASE d # c
    BY <1>1, <1>2, <1>4, <2>1, <2>3 DEF CtxInv, ctxVars
  <2> QED
    BY <2>2, <2>3
<1>8. SpInv'
  BY <1>1, <1>2, HomeOf DEF RunProcessReturn, SpInv, ctxVars
<1>9. RqInv' /\ ScanInv'
  <2>1. ScanInv'
    BY <1>1, <1>2, ScanKept DEF RunProcessReturn
  <2> QED
    BY <2>1 DEF RunProcessReturn, RqInv, rqVars, regVars
<1>10. NewInv'
  BY <1>4, ProcIndex DEF RunProcessReturn, NewInv, regVars
<1>11. RunningIsEntryTask'
  BY <1>4 DEF RunProcessReturn, RunningIsEntryTask, ctxVars
<1> QED
  BY <1>5, <1>6, <1>7, <1>8, <1>9, <1>10, <1>11

=============================================================================
