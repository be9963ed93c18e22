------------------------------- MODULE Sched -------------------------------
(***************************************************************************)
(* The scheduler core: the boot CPU registering user processes into the    *)
(* per-CPU round-robin arrays, every CPU's idle loop, the switch between   *)
(* the idle context and a user process, and the exception path that brings *)
(* a CPU back from a process to idle.                                      *)
(*                                                                         *)
(* Each CPU walks through the program points below; an action is one step  *)
(* of one CPU.  Code that runs with IRQs masked and touches only that      *)
(* CPU's data is one step; wherever an IRQ can be taken, or another CPU    *)
(* can observe a store, the code is split.                                 *)
(*                                                                         *)
(*   register     boot CPU in user_processes_register                      *)
(*   start_timer  boot CPU before local_sched_timer_start                  *)
(*   pre          run_idle, before preempt_disable                         *)
(*   irq_enable   run_idle, before local_irq_enable                        *)
(*   check        run_idle, before need_resched                            *)
(*   sched        schdule, before local_irq_disable                        *)
(*   pick         schdule, before pick_next                                *)
(*   scan         round_robin_pick_next, at the head of its loop           *)
(*   run          schdule, before run_process                              *)
(*   user         executing the process at EL0                             *)
(*   back         process_resched has returned into run_process            *)
(*   wild         resumed on a stack that does not hold a saved context    *)
(***************************************************************************)
EXTENDS Integers, Sequences, Functions

CONSTANTS
    MaxCpus,            \* MAX_CPUS: CPUs 0 .. MaxCpus-1, 0 boots
    Processes,          \* g_processes: the loaded processes, in load order
    Idle,               \* the idle process of each CPU
    NoTask,             \* the NULL process pointer
    TickInBootWindow,   \* may the boot CPU's first tick arrive before its
                        \* idle loop has called preempt_disable?
    StoresInOrder       \* do other CPUs see the boot CPU's registration
                        \* stores in program order?

Cpu == 0 .. MaxCpus - 1
Proc == Range(Processes)
IdleTask == Range(Idle)
Task == Proc \cup IdleTask

ASSUME SchedAssumption ==
    /\ MaxCpus \in Nat \ {0}
    /\ Processes \in Seq(Proc)
    /\ \A i, j \in DOMAIN Processes : Processes[i] = Processes[j] => i = j
    /\ Idle \in [Cpu -> IdleTask]
    /\ \A c, d \in Cpu : Idle[c] = Idle[d] => c = d
    /\ Proc \cap IdleTask = {}
    /\ NoTask \notin Task
    /\ TickInBootWindow \in BOOLEAN
    /\ StoresInOrder \in BOOLEAN

\* The values a saved kernel stack pointer can have: a user register frame on
\* a task's kernel stack, run_process's frame on a CPU's idle stack, or the
\* stack top that load_init_task stored before anything was saved there.
Regs(t) == <<"regs", t>>
IdleFrame(c) == <<"idle", c>>
BootSp(c) == <<"boot", c>>
Frame == {Regs(t) : t \in Task} \cup {IdleFrame(c) : c \in Cpu}
            \cup {BootSp(c) : c \in Cpu}

State == {"NEW", "READY", "RUNNING", "ZOMBIE"}

PC == {"register", "start_timer", "pre", "irq_enable", "check", "sched",
       "pick", "scan", "run", "user", "back", "wild"}

VARIABLES
    pc,             \* program point of each CPU
    irqOn,          \* PSTATE.I clear
    preemptCount,   \* preempt_count
    needResched,    \* __need_resched
    timer,          \* CNTP timer: off, armed or fired (interrupt pending)
    entryTask,      \* entry_task
    current,        \* sp_el0 in the kernel; NoTask while it holds a user sp
    cachedCurrent,  \* the current that run_process read when it began
    proc,           \* the process schdule passed to run_process
    stack,          \* whose kernel stack SP_EL1 points into
    sp,             \* process_struct.sp of each task
    ttbr0,          \* address space: a process, "reserved" or "boot"
    state,          \* process_struct.state of each task
    rqNum, rqSlot, rqNext,  \* g_num_processes, g_processes, g_next_process
    scan,           \* the loop of round_robin_pick_next: i, j and the value
                    \* of *num_processes it goes by
    rqSeen,         \* auxiliary: how many of its processes a CPU has in turn
    rqHad,          \* auxiliary: how many there were when its scan began, or 0
    regIdx,         \* loop index of user_processes_register
    landed          \* stores of the current registration visible so far

cpuVars == <<pc, irqOn, preemptCount, needResched, timer>>
ctxVars == <<entryTask, current, cachedCurrent, proc, stack, sp, ttbr0>>
rqVars == <<rqNum, rqSlot, rqNext, scan, rqSeen, rqHad>>
regVars == <<regIdx, landed>>
vars == <<cpuVars, ctxVars, state, rqVars, regVars>>

-----------------------------------------------------------------------------
(* Registration on the boot CPU                                            *)

\* The CPU that process number i (from 0) is registered on.
CpuOf(i) == i % MaxCpus
Home(p) == CpuOf((CHOOSE i \in DOMAIN Processes : Processes[i] = p) - 1)

\* One of the two stores of round_robin_load_process that publish a process,
\* the array slot (with the state and cpu fields stored before it) or the
\* count, becomes visible.  When both have, the loop advances.
StoreLands(s) ==
    LET cpu == CpuOf(regIdx)
        p == Processes[regIdx + 1]
        n == IF "num" \in landed THEN rqNum[cpu] - 1 ELSE rqNum[cpu]
    IN  /\ pc[0] = "register"
        /\ regIdx < Len(Processes)
        /\ s \notin landed
        /\ StoresInOrder /\ s = "num" => "slot" \in landed
        /\ IF s = "slot"
             THEN /\ state' = [state EXCEPT ![p] = "READY"]
                  /\ rqSlot' = [rqSlot EXCEPT ![cpu][n] = p]
                  /\ UNCHANGED rqNum
             ELSE /\ rqNum' = [rqNum EXCEPT ![cpu] = @ + 1]
                  /\ UNCHANGED <<state, rqSlot>>
        /\ IF landed = {}
             THEN landed' = {s} /\ UNCHANGED regIdx
             ELSE landed' = {} /\ regIdx' = regIdx + 1
        /\ UNCHANGED <<cpuVars, ctxVars, rqNext, scan, rqSeen, rqHad>>

RegisterDone ==
    /\ pc[0] = "register"
    /\ regIdx = Len(Processes)
    /\ pc' = [pc EXCEPT ![0] = "start_timer"]
    /\ UNCHANGED <<irqOn, preemptCount, needResched, timer, ctxVars, state,
                   rqVars, regVars>>

\* What the timer calls leave in CNTP_CTL.  A secondary CPU's callback
\* cpuhp_arch_timer_setup starts the timer, then initialises it.
ArchTimerStart(t) == "armed"
ArchTimerInit(t) == "off"
CpuhpArchTimerSetup(t) == ArchTimerInit(ArchTimerStart(t))

LocalSchedTimerStart ==
    /\ pc[0] = "start_timer"
    /\ pc' = [pc EXCEPT ![0] = "pre"]
    /\ timer' = [timer EXCEPT ![0] = ArchTimerStart(@)]
    /\ UNCHANGED <<irqOn, preemptCount, needResched, ctxVars, state, rqVars,
                   regVars>>

-----------------------------------------------------------------------------
(* The exception exit path                                                 *)

\* set_resched stores 1 whatever its argument is.
SetResched(flag) == TRUE

\* Mutant: the user frame's address is not stored to cur->sp.
ReschedWithoutSave(c, cur, saved) ==
    LET onIdle == sp[cur] = IdleFrame(c)
    IN  /\ ttbr0' = [ttbr0 EXCEPT ![c] = "reserved"]
        /\ current' = [current EXCEPT ![c] = Idle[0]]
        /\ pc' = [pc EXCEPT ![c] = IF onIdle THEN "back" ELSE "wild"]
        /\ stack' = [stack EXCEPT ![c] = IF onIdle THEN Idle[c] ELSE @]
        /\ irqOn' = [irqOn EXCEPT ![c] = FALSE]
        /\ UNCHANGED sp

\* process_resched: swap the kernel stack pointer with cur->sp, leave the
\* user address space, make g_kernel_init_process current, pop run_process's
\* callee-saved registers from the stack just loaded and return into it.
ProcessResched(c, cur, saved) ==
    LET onIdle == sp[cur] = IdleFrame(c)
    IN  /\ sp' = [sp EXCEPT ![cur] = saved]
        /\ ttbr0' = [ttbr0 EXCEPT ![c] = "reserved"]
        /\ current' = [current EXCEPT ![c] = Idle[0]]
        /\ pc' = [pc EXCEPT ![c] = IF onIdle THEN "back" ELSE "wild"]
        /\ stack' = [stack EXCEPT ![c] = IF onIdle THEN Idle[c] ELSE @]
        /\ irqOn' = [irqOn EXCEPT ![c] = FALSE]

\* check_resched, then ret_to_user or ret_to_kernel, after a handler that
\* leaves __need_resched at resched.  cur is the task sp_el0 holds.
CheckResched(c, cur, resched) ==
    IF preemptCount[c] <= 0 /\ resched
      THEN ProcessResched(c, cur, Regs(stack[c]))
      ELSE UNCHANGED <<sp, ttbr0, current, pc, stack, irqOn>>

\* Mutant: the handler does not restart the timer.
OneShotTimerIrqHandler(c) ==
    /\ timer[c] = "fired"
    /\ timer' = [timer EXCEPT ![c] = "off"]
    /\ \E expired \in BOOLEAN :
         needResched' = [needResched EXCEPT ![c] = expired \/ @]

\* timer_irq_handler: preempt_check_resched may find the time slice used up.
TimerIrqHandler(c) ==
    /\ timer[c] = "fired"
    /\ timer' = [timer EXCEPT ![c] = ArchTimerStart(@)]
    /\ \E expired \in BOOLEAN :
         needResched' = [needResched EXCEPT
                           ![c] = IF expired THEN SetResched(TRUE) ELSE @]

\* An IRQ taken while the kernel runs with interrupts enabled.
El1Irq(c) ==
    /\ pc[c] \notin {"user", "wild"}
    /\ irqOn[c]
    /\ TimerIrqHandler(c)
    /\ CheckResched(c, current[c], needResched'[c])
    /\ UNCHANGED <<preemptCount, entryTask, cachedCurrent, proc, state,
                   rqVars, regVars>>

\* An IRQ taken while a process runs: kernel_entry makes entry_task current.
El0Irq(c) ==
    /\ pc[c] = "user"
    /\ TimerIrqHandler(c)
    /\ CheckResched(c, entryTask[c], needResched'[c])
    /\ UNCHANGED <<preemptCount, entryTask, cachedCurrent, proc, state,
                   rqVars, regVars>>

\* A system call or a fault of the running process.  exit makes it a zombie;
\* el0t_64_handle_svc then calls set_resched.  A write leaves the state as it
\* was, and so does a fault, whose handler only logs.
El0Sync(c, kind) ==
    /\ pc[c] = "user"
    /\ state' = IF kind = "exit"
                  THEN [state EXCEPT ![entryTask[c]] = "ZOMBIE"] ELSE state
    /\ needResched' = [needResched EXCEPT
                         ![c] = IF kind # "fault"
                                     /\ state'[entryTask[c]] # "RUNNING"
                                  THEN SetResched(TRUE) ELSE @]
    /\ CheckResched(c, entryTask[c], needResched'[c])
    /\ UNCHANGED <<preemptCount, timer, entryTask, cachedCurrent, proc,
                   rqVars, regVars>>

-----------------------------------------------------------------------------
(* The idle loop                                                           *)

PreemptDisable(c) ==
    /\ pc[c] = "pre"
    /\ preemptCount' = [preemptCount EXCEPT ![c] = @ + 1]
    /\ pc' = [pc EXCEPT ![c] = "irq_enable"]
    /\ UNCHANGED <<irqOn, needResched, timer, ctxVars, state, rqVars, regVars>>

LocalIrqEnable(c) ==
    /\ pc[c] = "irq_enable"
    /\ irqOn' = [irqOn EXCEPT ![c] = TRUE]
    /\ pc' = [pc EXCEPT ![c] = "check"]
    /\ UNCHANGED <<preemptCount, needResched, timer, ctxVars, state, rqVars,
                   regVars>>

\* need_resched decides between schdule and wfi; wfi falls through to the
\* next iteration.
NeedResched(c) ==
    /\ pc[c] = "check"
    /\ pc' = [pc EXCEPT ![c] = IF needResched[c] THEN "sched" ELSE "pre"]
    /\ UNCHANGED <<irqOn, preemptCount, needResched, timer, ctxVars, state,
                   rqVars, regVars>>

\* Mutants: schdule forgets preempt_enable, or local_irq_disable.
SchduleKeepsPreemptOff(c) ==
    /\ pc[c] = "sched"
    /\ irqOn' = [irqOn EXCEPT ![c] = FALSE]
    /\ pc' = [pc EXCEPT ![c] = "pick"]
    /\ UNCHANGED <<preemptCount, needResched, timer, ctxVars, state, rqVars,
                   regVars>>

SchduleKeepsIrqOn(c) ==
    /\ pc[c] = "sched"
    /\ preemptCount' = [preemptCount EXCEPT ![c] = @ - 1]
    /\ pc' = [pc EXCEPT ![c] = "pick"]
    /\ UNCHANGED <<irqOn, needResched, timer, ctxVars, state, rqVars, regVars>>

\* schdule: local_irq_disable, then preempt_enable.
Schdule(c) ==
    /\ pc[c] = "sched"
    /\ irqOn' = [irqOn EXCEPT ![c] = FALSE]
    /\ preemptCount' = [preemptCount EXCEPT ![c] = @ - 1]
    /\ pc' = [pc EXCEPT ![c] = "pick"]
    /\ UNCHANGED <<needResched, timer, ctxVars, state, rqVars, regVars>>

Runnable(p) == state[p] \in {"READY", "RUNNING"}

NoScan == [i |-> 0, j |-> 0, n |-> 0]

\* round_robin_pick_next up to its loop.  What it has read of the count is in
\* scan[c].n; the CPU's order is now that of every process published so far.
PickBegin(c) ==
    /\ pc[c] = "pick"
    /\ rqNum[c] # 0
    /\ scan' = [scan EXCEPT ![c] = [i |-> rqNext[c], j |-> 0, n |-> rqNum[c]]]
    /\ rqSeen' = [rqSeen EXCEPT ![c] = rqNum[c]]
    /\ rqHad' = [rqHad EXCEPT ![c] = rqNum[c]]
    /\ pc' = [pc EXCEPT ![c] = "scan"]
    /\ UNCHANGED <<irqOn, preemptCount, needResched, timer, ctxVars, state,
                   rqNum, rqSlot, rqNext, regVars>>

\* *num_processes is a plain int: for the loop test, the step and the store of
\* *next_process the compiler may load it again or go by the value it has.
ReloadCount(c) ==
    /\ pc[c] = "scan"
    /\ scan[c].n # rqNum[c]
    /\ scan' = [scan EXCEPT ![c].n = rqNum[c]]
    /\ UNCHANGED <<cpuVars, ctxVars, state, rqNum, rqSlot, rqNext, rqSeen,
                   rqHad, regVars>>

\* round_robin_pick_next finds nothing to run and schdule returns.
PickNone(c) ==
    /\ \/ pc[c] = "pick" /\ rqNum[c] = 0
       \/ pc[c] = "scan" /\ scan[c].j >= scan[c].n
    /\ pc' = [pc EXCEPT ![c] = "pre"]
    /\ scan' = [scan EXCEPT ![c] = NoScan]
    /\ rqHad' = [rqHad EXCEPT ![c] = 0]
    /\ UNCHANGED <<irqOn, preemptCount, needResched, timer, ctxVars, state,
                   rqNum, rqSlot, rqNext, rqSeen, regVars>>

\* The slot the loop is at; a slot whose store has not become visible is NULL.
Candidate(c) == rqSlot[c][scan[c].i]

\* The index of the slot behind the one the loop is at.
NextSlot(c) == (scan[c].i + 1) % scan[c].n

\* An iteration that goes on to the next slot.  Past the last process it has
\* in turn the loop either starts over or runs into newly published ones, and
\* these take their turn from here on.
ScanSkip(c) ==
    /\ pc[c] = "scan"
    /\ scan[c].j < scan[c].n
    /\ Candidate(c) # NoTask /\ ~Runnable(Candidate(c))
    /\ scan' = [scan EXCEPT ![c].i = NextSlot(c), ![c].j = @ + 1]
    /\ rqSeen' = [rqSeen EXCEPT
                    ![c] = IF scan[c].i + 1 < @ THEN @ ELSE scan[c].n]
    /\ UNCHANGED <<cpuVars, ctxVars, state, rqNum, rqSlot, rqNext, rqHad,
                   regVars>>

\* Mutant: the next scan starts at the process that was picked.
PickNextStays(c) ==
    /\ pc[c] = "scan"
    /\ scan[c].j < scan[c].n
    /\ Runnable(Candidate(c))
    /\ rqNext' = [rqNext EXCEPT ![c] = scan[c].i]
    /\ proc' = [proc EXCEPT ![c] = Candidate(c)]
    /\ needResched' = [needResched EXCEPT ![c] = SetResched(FALSE)]
    /\ pc' = [pc EXCEPT ![c] = "run"]
    /\ scan' = [scan EXCEPT ![c] = NoScan]
    /\ rqHad' = [rqHad EXCEPT ![c] = 0]
    /\ UNCHANGED <<irqOn, current, stack, sp, ttbr0, preemptCount, timer,
                   entryTask, cachedCurrent, state, rqNum, rqSlot, rqSeen,
                   regVars>>

\* The iteration that returns a process, and the rest of schdule up to
\* run_process.  A NULL slot is dereferenced; that enters el1h_64_sync, whose
\* handler logs and returns through check_resched.
PickNext(c) ==
    /\ pc[c] = "scan"
    /\ scan[c].j < scan[c].n
    /\ IF Candidate(c) = NoTask
         THEN /\ CheckResched(c, current[c], needResched[c])
              /\ UNCHANGED <<needResched, rqNext, proc, scan, rqHad>>
         ELSE /\ Runnable(Candidate(c))
              /\ rqNext' = [rqNext EXCEPT ![c] = NextSlot(c)]
              /\ proc' = [proc EXCEPT ![c] = Candidate(c)]
              /\ needResched' = [needResched EXCEPT ![c] = SetResched(FALSE)]
              /\ pc' = [pc EXCEPT ![c] = "run"]
              /\ scan' = [scan EXCEPT ![c] = NoScan]
              /\ rqHad' = [rqHad EXCEPT ![c] = 0]
              /\ UNCHANGED <<irqOn, current, stack, sp, ttbr0>>
    /\ UNCHANGED <<preemptCount, timer, entryTask, cachedCurrent, state,
                   rqNum, rqSlot, rqSeen, regVars>>

\* Mutants: the last process stays RUNNING, or becomes READY even if it exited.
DispatchedLastRunning(c) ==
    [state EXCEPT ![current[c]] = "READY", ![proc[c]] = "RUNNING"]

DispatchedLastReady(c) ==
    [t \in Task |-> CASE t = proc[c] -> "RUNNING"
                      [] t \in {current[c], entryTask[c]} \ {proc[c]} -> "READY"
                      [] OTHER -> state[t]]

\* The three state assignments of run_process, in order.
Dispatched(c) ==
    LET idleReady == [state EXCEPT ![current[c]] = "READY"]
        last == entryTask[c]
        lastReady == IF last # NoTask /\ idleReady[last] = "RUNNING"
                       THEN [idleReady EXCEPT ![last] = "READY"]
                       ELSE idleReady
    IN  [lastReady EXCEPT ![proc[c]] = "RUNNING"]

\* Mutant: the address space is not switched.
SwitchWithoutTtbr0(c, p) ==
    /\ sp' = [sp EXCEPT ![p] = IdleFrame(c)]
    /\ stack' = [stack EXCEPT ![c] = p]
    /\ current' = [current EXCEPT ![c] = NoTask]
    /\ irqOn' = [irqOn EXCEPT ![c] = TRUE]
    /\ pc' = [pc EXCEPT ![c] = IF sp[p] = Regs(p) THEN "user" ELSE "wild"]
    /\ UNCHANGED ttbr0

\* process_cpu_context_switch: push run_process's registers on the idle
\* stack, swap the stack pointer with p->sp, install p's address space,
\* restore its registers from the frame found there and eret to it.
ContextSwitch(c, p) ==
    /\ sp' = [sp EXCEPT ![p] = IdleFrame(c)]
    /\ stack' = [stack EXCEPT ![c] = p]
    /\ ttbr0' = [ttbr0 EXCEPT ![c] = p]
    /\ current' = [current EXCEPT ![c] = NoTask]
    /\ irqOn' = [irqOn EXCEPT ![c] = TRUE]
    /\ pc' = [pc EXCEPT ![c] = IF sp[p] = Regs(p) THEN "user" ELSE "wild"]

RunProcess(c) ==
    /\ pc[c] = "run"
    /\ state' = Dispatched(c)
    /\ entryTask' = [entryTask EXCEPT ![c] = proc[c]]
    /\ cachedCurrent' = [cachedCurrent EXCEPT ![c] = current[c]]
    /\ ContextSwitch(c, proc[c])
    /\ UNCHANGED <<preemptCount, needResched, timer, proc, rqVars, regVars>>

\* The end of run_process.  get_current is an asm the compiler may evaluate
\* once, so current is either sp_el0 or the value read before the switch.
RunProcessReturn(c) ==
    /\ pc[c] = "back"
    /\ \E cur \in {current[c], cachedCurrent[c]} :
         state' = [state EXCEPT ![cur] = "RUNNING"]
    /\ pc' = [pc EXCEPT ![c] = "pre"]
    /\ UNCHANGED <<irqOn, preemptCount, needResched, timer, ctxVars, rqVars,
                   regVars>>

-----------------------------------------------------------------------------
(* Hardware                                                                *)

\* The boot CPU between local_sched_timer_start and its first preempt_disable.
InBootWindow(c) == pc[c] = "pre" /\ irqOn[c]

TimerExpires(c) ==
    /\ timer[c] = "armed"
    /\ TickInBootWindow \/ ~InBootWindow(c)
    /\ timer' = [timer EXCEPT ![c] = "fired"]
    /\ UNCHANGED <<pc, irqOn, preemptCount, needResched, ctxVars, state,
                   rqVars, regVars>>

-----------------------------------------------------------------------------
\* The system as the boot CPU reaches user_processes_register: every CPU is
\* online with its own idle process current, and __need_resched set by
\* cpu_init or cpuhp_online_cpu.
Init ==
    /\ pc = [c \in Cpu |-> IF c = 0 THEN "register" ELSE "pre"]
    /\ irqOn = [c \in Cpu |-> TRUE]
    /\ preemptCount = [c \in Cpu |-> 0]
    /\ needResched = [c \in Cpu |-> SetResched(TRUE)]
    /\ timer = [c \in Cpu |-> IF c = 0 THEN ArchTimerInit("off")
                              ELSE CpuhpArchTimerSetup("off")]
    /\ entryTask = [c \in Cpu |-> NoTask]
    /\ current = [c \in Cpu |-> Idle[c]]
    /\ cachedCurrent = [c \in Cpu |-> NoTask]
    /\ proc = [c \in Cpu |-> NoTask]
    /\ stack = [c \in Cpu |-> Idle[c]]
    /\ sp = [t \in Task |-> IF t \in Proc THEN Regs(t)
                            ELSE BootSp(CHOOSE c \in Cpu : Idle[c] = t)]
    /\ ttbr0 = [c \in Cpu |-> "boot"]
    /\ state = [t \in Task |-> "NEW"]
    /\ rqNum = [c \in Cpu |-> 0]
    /\ rqSlot = [c \in Cpu |-> [i \in 0 .. Len(Processes) - 1 |-> NoTask]]
    /\ rqNext = [c \in Cpu |-> 0]
    /\ scan = [c \in Cpu |-> NoScan]
    /\ rqSeen = [c \in Cpu |-> 0]
    /\ rqHad = [c \in Cpu |-> 0]
    /\ regIdx = 0
    /\ landed = {}

BootStep ==
    \/ \E s \in {"slot", "num"} : StoreLands(s)
    \/ RegisterDone
    \/ LocalSchedTimerStart

IdleStep(c) ==
    \/ PreemptDisable(c)
    \/ LocalIrqEnable(c)
    \/ NeedResched(c)
    \/ Schdule(c)
    \/ PickBegin(c)
    \/ ScanSkip(c)
    \/ PickNone(c)
    \/ PickNext(c)
    \/ RunProcess(c)
    \/ RunProcessReturn(c)

Next ==
    \/ BootStep
    \/ \E c \in Cpu :
         \/ IdleStep(c)
         \/ ReloadCount(c)
         \/ El1Irq(c)
         \/ El0Irq(c)
         \/ \E kind \in {"write", "exit", "fault"} : El0Sync(c, kind)
         \/ TimerExpires(c)

\* A CPU keeps executing kernel code, a running timer expires and its
\* interrupt is taken.  Nothing is assumed of the processes: one may compute
\* forever without a system call or a fault.
Fairness ==
    /\ WF_vars(BootStep)
    /\ \A c \in Cpu : WF_vars(IdleStep(c))
    /\ \A c \in Cpu : WF_vars(TimerExpires(c)) /\ WF_vars(El0Irq(c))

Spec == Init /\ [][Next]_vars

FairSpec == Spec /\ Fairness

-----------------------------------------------------------------------------
(* Properties                                                              *)

\* The values the per-CPU variables and process fields take; preempt_count never
\* leaves 0 .. 1, since run_idle and schdule balance each other.
TypeOK ==
    /\ pc \in [Cpu -> PC]
    /\ irqOn \in [Cpu -> BOOLEAN]
    /\ preemptCount \in [Cpu -> 0 .. 1]
    /\ needResched \in [Cpu -> BOOLEAN]
    /\ timer \in [Cpu -> {"off", "armed", "fired"}]
    /\ entryTask \in [Cpu -> Proc \cup {NoTask}]
    /\ current \in [Cpu -> IdleTask \cup {NoTask}]
    /\ cachedCurrent \in [Cpu -> IdleTask \cup {NoTask}]
    /\ proc \in [Cpu -> Proc \cup {NoTask}]
    /\ stack \in [Cpu -> Task]
    /\ sp \in [Task -> Frame]
    /\ ttbr0 \in [Cpu -> Proc \cup {"boot", "reserved"}]
    /\ state \in [Task -> State]
    /\ rqNum \in [Cpu -> 0 .. Len(Processes)]
    /\ rqSlot \in [Cpu -> [0 .. Len(Processes) - 1 -> Proc \cup {NoTask}]]
    /\ rqNext \in [Cpu -> Nat]
    /\ scan \in [Cpu -> [i : Nat, j : Nat, n : Nat]]
    /\ rqSeen \in [Cpu -> Nat]
    /\ rqHad \in [Cpu -> Nat]
    /\ regIdx \in 0 .. Len(Processes)
    /\ landed \in SUBSET {"slot", "num"}

\* process_resched and process_cpu_context_switch always load a stack pointer
\* at which the context they are about to pop has really been saved: no CPU
\* ever returns through a frame that is not there (exception_entry.S:160,
\* system_reg_helper.S:8).
NeverWild == \A c \in Cpu : pc[c] # "wild"

\* While a CPU executes a process, its exception stack is that process's
\* kernel stack, the process's sp field holds this CPU's idle frame, TTBR0 is
\* its address space and kernel_entry will find it in entry_task; no other
\* CPU executes it.  Every other process's sp points at its own saved user
\* registers, so it can be switched to.
ContextOwned ==
    /\ \A c \in Cpu : pc[c] = "user" =>
         /\ entryTask[c] = proc[c]
         /\ stack[c] = proc[c]
         /\ ttbr0[c] = proc[c]
         /\ sp[proc[c]] = IdleFrame(c)
         /\ state[proc[c]] = "RUNNING"
    /\ \A c, d \in Cpu : pc[c] = "user" /\ pc[d] = "user" /\ c # d =>
         proc[c] # proc[d]
    /\ \A p \in Proc : (\A c \in Cpu : pc[c] = "user" => proc[c] # p) =>
         sp[p] = Regs(p)

\* In the idle loop, an enabled interrupt can never take the CPU away from
\* the idle context: check_resched finds preempt_count above zero, because
\* run_idle disables preemption before it enables IRQs and schdule masks IRQs
\* before it enables preemption.  Once a process runs the count is back at
\* zero, so the next exception from EL0 can return to the scheduler.
IdleNotPreempted ==
    \A c \in Cpu :
      /\ pc[c] \in {"irq_enable", "check", "sched"} => preemptCount[c] = 1
      /\ pc[c] \in {"pick", "scan", "run", "back"} => ~irqOn[c]
      /\ pc[c] = "user" => preemptCount[c] = 0 /\ needResched[c]

\* A process that exited stays a zombie: neither the READY/RUNNING writes of
\* run_process through entry_task and current, nor a late registration store,
\* bring it back (sched.c:66, syscall_implement.c:16).
ZombieIsFinal ==
    [][\A p \in Proc : state[p] = "ZOMBIE" => state'[p] = "ZOMBIE"]_vars

\* A process marked RUNNING is the entry_task of the CPU it was registered
\* on: no process migrates, and no CPU leaves two behind.
RunningIsEntryTask ==
    \A p \in Proc : state[p] = "RUNNING" => entryTask[Home(p)] = p

\* The slots a CPU has in turn, from g_next_process on and around.
Turn == [c \in Cpu |-> [k \in 1 .. rqSeen[c] |->
                          rqSlot[c][(rqNext[c] + (k - 1)) % rqSeen[c]]]]

Arrived == [c \in Cpu |-> [k \in 1 .. rqNum[c] |-> rqSlot[c][k - 1]]]

Executing == [c \in Cpu |-> IF pc[c] \in {"run", "user"}
                              THEN proc[c] ELSE NoTask]

Exited == {p \in Proc : state[p] = "ZOMBIE"}

RR == INSTANCE RoundRobin WITH
        NoProc <- NoTask, arrived <- Arrived, turn <- Turn, had <- rqHad,
        running <- Executing, exited <- Exited

\* The scheduler implements the round-robin promise: on every CPU the live
\* processes run strictly in turn, and every process whose count was stored
\* before a scan began has its place in that turn; a scan that picks nothing
\* leaves none of these runnable.  This holds although the boot CPU stores
\* slots and counts in the middle of the scan, whose loop test, wrap-around
\* and store of g_next_process may each see another count
\* (sched_round_robin.c:22-31).
ImplementsRoundRobin == RR!Spec

\* Every process registered on CPU c that is ready eventually runs.
ReadyRuns(c) ==
    \A p \in {q \in Proc : Home(q) = c} :
      state[p] = "READY" ~> state[p] = "RUNNING"

\* No process of the boot CPU starves, whatever the other processes do: the
\* tick that timer_irq_handler keeps restarting takes the CPU away from a
\* process that never enters the kernel by itself.
BootCpuReadyRuns == ReadyRuns(0)

\* The same for every CPU: the documentation says the secondary CPUs' local
\* scheduling timers are started while they are brought up.
EveryCpuReadyRuns == \A c \in Cpu : ReadyRuns(c)

\* When every process has exited a CPU's idle loop comes to rest: the
\* reschedule request is eventually withdrawn and the loop waits in wfi.
IdleComesToRest ==
    \A c \in Cpu :
      (\A p \in Proc : state[p] = "ZOMBIE") ~> ~needResched[c]
=============================================================================
