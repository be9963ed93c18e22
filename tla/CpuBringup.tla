----------------------------- MODULE CpuBringup -----------------------------
(***************************************************************************)
(* From quest_os_main to the point where the boot CPU hands processes to   *)
(* the scheduler: the initialisation order, the cpuhp callback table, and  *)
(* the bring-up of the secondary CPUs through PSCI CPU_ON, each of which   *)
(* enters on the one early_init_stack, moves to its idle process's stack   *)
(* and runs the remaining callbacks until it is online.                    *)
(***************************************************************************)
EXTENDS Naturals, FiniteSets

CONSTANTS
    MaxCpus,    \* MAX_CPUS
    Faults      \* the failures the environment may cause, see Fault

\* percpu: no memory for the per-CPU areas; gic: the distributor version check
\* fails; rdist: a CPU finds no redistributor of its own; idle: no memory for
\* an idle thread; method: the configured PSCI method is unknown; cpu_on: PSCI
\* refuses to start a CPU; mpidr: a started CPU is not in the logical map.
Fault == {"percpu", "gic", "rdist", "idle", "method", "cpu_on", "mpidr"}

ASSUME BringupAssumption == MaxCpus \in Nat \ {0} /\ Faults \subseteq Fault

Cpu == 0 .. MaxCpus - 1
Secondary == Cpu \ {0}

\* The results, success or failure, of an operation that fault f can make fail.
Result(f) == IF f \in Faults THEN {TRUE, FALSE} ELSE {TRUE}

\* enum cpuhp_state
CREATE_IDLE == 1
START_CPU == 2
PERCPU_INIT == 3
INIT_GIC == 4
INIT_TIMER == 5
ONLINE == 6

BootPC == {"per_cpu_init", "cpu_init", "gic_v3_init", "arch_timer_init",
           "irq_enable", "kthread_init", "psci_init", "smp_init", "bringup",
           "wait_online", "user_process_init", "uart_recv",
           "register", "halt"}

\* off: not started; entry: released by the firmware; early: running on
\* early_init_stack; init: in cpuhp_init_to_online on the idle stack;
\* onlined: online bit set, idle loop not entered; idle: in run_idle;
\* hang: in an endless loop.
SecPC == {"off", "entry", "early", "init", "onlined", "idle", "hang"}

VARIABLES
    bpc,        \* where the boot CPU is
    cpu,        \* the CPU being brought up
    step,       \* for each CPU, the next cpuhp state to run for it
    err,        \* err of bringup_nonboot_cpus
    callbacks,  \* states with a callback in g_cpuhp_callbacks
    spc,        \* where each secondary CPU is
    idle,       \* CPUs with an idle process
    tpidr,      \* CPUs whose tpidr_el1 holds their per-CPU base
    gic,        \* CPUs whose redistributor and CPU interface are set up
    timerIrq,   \* CPUs with the timer interrupt requested
    online,     \* cpu_online_mask
    resched,    \* CPUs with __need_resched set
    irqOn       \* CPUs with interrupts enabled

hwVars == <<idle, tpidr, gic, timerIrq, online, resched, irqOn>>
vars == <<bpc, cpu, step, err, callbacks, spc, hwVars>>

Init ==
    /\ bpc = "per_cpu_init"
    /\ cpu = 1
    /\ step = [c \in Cpu |-> 0]
    /\ err = FALSE
    /\ callbacks = {}
    /\ spc = [c \in Secondary |-> "off"]
    /\ idle = {}
    /\ tpidr = {}
    /\ gic = {}
    /\ timerIrq = {}
    /\ online = {}
    /\ resched = {}
    /\ irqOn = {}

-----------------------------------------------------------------------------
(* quest_os_main up to smp_init                                            *)

\* quest_os_main goes on whatever per_cpu_init returns.
PerCpuInit ==
    /\ bpc = "per_cpu_init"
    /\ bpc' = "cpu_init"
    /\ \E ok \in Result("percpu") :
         /\ tpidr' = IF ok THEN tpidr \cup {0} ELSE tpidr
         /\ callbacks' = IF ok THEN callbacks \cup {PERCPU_INIT} ELSE callbacks
    /\ UNCHANGED <<cpu, step, err, spc, idle, gic, timerIrq, online, resched,
                   irqOn>>

CpuInit ==
    /\ bpc = "cpu_init"
    /\ bpc' = "gic_v3_init"
    /\ online' = online \cup {0}
    /\ resched' = resched \cup {0}
    /\ UNCHANGED <<cpu, step, err, callbacks, spc, idle, tpidr, gic, timerIrq,
                   irqOn>>

\* gic_cpu_init: a CPU without a redistributor returns early, and neither
\* gic_init_bases nor gic_starting_cpu reports it.
GicCpuInit(c) ==
    \E found \in Result("rdist") : gic' = IF found THEN gic \cup {c} ELSE gic

GicV3Init ==
    /\ bpc = "gic_v3_init"
    /\ \/ /\ "gic" \in Faults
          /\ bpc' = "halt"
          /\ UNCHANGED <<gic, callbacks>>
       \/ /\ bpc' = "arch_timer_init"
          /\ GicCpuInit(0)
          /\ callbacks' = callbacks \cup {INIT_GIC}
    /\ UNCHANGED <<cpu, step, err, spc, idle, tpidr, timerIrq, online, resched,
                   irqOn>>

ArchTimerInit ==
    /\ bpc = "arch_timer_init"
    /\ bpc' = "irq_enable"
    /\ timerIrq' = timerIrq \cup {0}
    /\ callbacks' = callbacks \cup {INIT_TIMER}
    /\ UNCHANGED <<cpu, step, err, spc, idle, tpidr, gic, online, resched,
                   irqOn>>

\* local_interrupt_enable; the scheduler class is registered and selected next.
LocalInterruptEnable ==
    /\ bpc = "irq_enable"
    /\ bpc' = "kthread_init"
    /\ irqOn' = irqOn \cup {0}
    /\ UNCHANGED <<cpu, step, err, callbacks, spc, idle, tpidr, gic, timerIrq,
                   online, resched>>

\* The boot CPU's idle process is the statically allocated one.
KthreadInit ==
    /\ bpc = "kthread_init"
    /\ bpc' = "psci_init"
    /\ idle' = idle \cup {0}
    /\ callbacks' = callbacks \cup {CREATE_IDLE}
    /\ UNCHANGED <<cpu, step, err, spc, tpidr, gic, timerIrq, online, resched,
                   irqOn>>

PsciInit ==
    /\ bpc = "psci_init"
    /\ \E ok \in Result("method") : bpc' = IF ok THEN "smp_init" ELSE "halt"
    /\ UNCHANGED <<cpu, step, err, callbacks, spc, hwVars>>

SmpInit ==
    /\ bpc = "smp_init"
    /\ bpc' = "bringup"
    /\ callbacks' = callbacks \cup {START_CPU, ONLINE}
    /\ UNCHANGED <<cpu, step, err, spc, hwVars>>

-----------------------------------------------------------------------------
(* bringup_nonboot_cpus on the boot CPU                                    *)

\* Mutants of BringupFailed: the next CPU's result overwrites err, or the
\* callback loop goes on after a failure.
BringupErrorLost ==
    /\ err' = FALSE
    /\ cpu' = cpu + 1
    /\ UNCHANGED <<bpc, step, spc, idle>>

BringupErrorIgnored ==
    /\ err' = TRUE
    /\ step' = [step EXCEPT ![cpu] = @ + 1]
    /\ UNCHANGED <<bpc, cpu, spc, idle>>

\* A callback of cpuhp_bringup_cpu failed: the error is or-ed in and the loop
\* goes on with the next CPU.
BringupFailed ==
    /\ err' = TRUE
    /\ cpu' = cpu + 1
    /\ UNCHANGED <<bpc, step, spc, idle>>

\* One iteration of the callback loop of cpuhp_bringup_cpu.
BringupCallback ==
    /\ bpc = "bringup"
    /\ cpu < MaxCpus
    /\ LET s == step[cpu] IN
         \/ /\ s \notin callbacks
            /\ step' = [step EXCEPT ![cpu] = s + 1]
            /\ UNCHANGED <<bpc, err, cpu, spc, idle>>
         \/ /\ s = CREATE_IDLE /\ s \in callbacks
            /\ \/ /\ idle' = idle \cup {cpu}
                  /\ step' = [step EXCEPT ![cpu] = s + 1]
                  /\ UNCHANGED <<bpc, err, cpu, spc>>
               \/ "idle" \in Faults /\ BringupFailed
         \/ /\ s = START_CPU /\ s \in callbacks
            /\ \/ /\ spc' = [spc EXCEPT ![cpu] = "entry"]
                  /\ step' = [step EXCEPT ![cpu] = s + 1]
                  /\ bpc' = "wait_online"
                  /\ UNCHANGED <<err, cpu, idle>>
               \/ "cpu_on" \in Faults /\ BringupFailed
    /\ UNCHANGED <<callbacks, tpidr, gic, timerIrq, online, resched, irqOn>>

\* Mutant: the boot CPU does not wait.
NoWaitOnline ==
    /\ bpc = "wait_online"
    /\ bpc' = "bringup"
    /\ cpu' = cpu + 1
    /\ UNCHANGED <<step, err, callbacks, spc, hwVars>>

\* cpu_wait_online returns once the CPU has set its bit.
CpuWaitOnline ==
    /\ bpc = "wait_online"
    /\ cpu \in online
    /\ bpc' = "bringup"
    /\ cpu' = cpu + 1
    /\ UNCHANGED <<step, err, callbacks, spc, hwVars>>

\* bringup_nonboot_cpus returns; an error stops the boot.
BringupDone ==
    /\ bpc = "bringup"
    /\ cpu = MaxCpus
    /\ bpc' = IF err THEN "halt" ELSE "user_process_init"
    /\ UNCHANGED <<cpu, step, err, callbacks, spc, hwVars>>

UserProcessInit ==
    /\ bpc = "user_process_init"
    /\ bpc' = "uart_recv"
    /\ UNCHANGED <<cpu, step, err, callbacks, spc, hwVars>>

\* uart_recv returns when a key arrives.
UartRecv ==
    /\ bpc = "uart_recv"
    /\ bpc' = "register"
    /\ UNCHANGED <<cpu, step, err, callbacks, spc, hwVars>>

-----------------------------------------------------------------------------
(* A secondary CPU                                                         *)

\* secondary_entry: MMU on, then onto early_init_stack.
SecondaryEntry(c) ==
    /\ spc[c] = "entry"
    /\ spc' = [spc EXCEPT ![c] = "early"]
    /\ UNCHANGED <<bpc, cpu, step, err, callbacks, hwVars>>

\* __secondary_switched and load_init_task: find the logical CPU number, load
\* its idle process and move to that process's kernel stack.
SecondarySwitched(c) ==
    /\ spc[c] = "early"
    /\ \E known \in Result("mpidr") :
         spc' = [spc EXCEPT ![c] = IF known /\ c \in idle THEN "init"
                                                          ELSE "hang"]
    /\ UNCHANGED <<bpc, cpu, step, err, callbacks, hwVars>>

\* Mutant: the callback loop runs past CPUHP_ONLINE.
InitCallbackOverrun(c) ==
    /\ spc[c] = "init"
    /\ step[c] <= ONLINE
    /\ step' = [step EXCEPT ![c] = @ + 1]
    /\ UNCHANGED <<bpc, cpu, err, callbacks, spc, hwVars>>

\* One iteration of cpuhp_init_to_online before the online state.
InitCallback(c) ==
    /\ spc[c] = "init"
    /\ step[c] < ONLINE
    /\ step' = [step EXCEPT ![c] = @ + 1]
    /\ LET runs(s) == step[c] = s /\ s \in callbacks IN
         /\ tpidr' = IF runs(PERCPU_INIT) THEN tpidr \cup {c} ELSE tpidr
         /\ IF runs(INIT_GIC) THEN GicCpuInit(c) ELSE UNCHANGED gic
         /\ timerIrq' = IF runs(INIT_TIMER) THEN timerIrq \cup {c} ELSE timerIrq
    /\ UNCHANGED <<bpc, cpu, err, callbacks, spc, idle, online, resched, irqOn>>

\* Mutants of SetOnline: the CPU is put online one state early, or it forgets
\* its bit.
SetOnlineEarly(c) ==
    /\ spc[c] = "init"
    /\ step[c] = INIT_TIMER
    /\ spc' = [spc EXCEPT ![c] = "onlined"]
    /\ online' = online \cup {c}
    /\ UNCHANGED <<bpc, cpu, step, err, callbacks, idle, tpidr, gic, timerIrq,
                   resched, irqOn>>

SetOnlineForgotten(c) ==
    /\ spc[c] = "init"
    /\ step[c] = ONLINE
    /\ spc' = [spc EXCEPT ![c] = "onlined"]
    /\ UNCHANGED <<bpc, cpu, step, err, callbacks, hwVars>>

\* cpuhp_online_cpu sets the online bit, which releases the boot CPU ...
SetOnline(c) ==
    /\ spc[c] = "init"
    /\ step[c] = ONLINE
    /\ spc' = [spc EXCEPT ![c] = IF ONLINE \in callbacks THEN "onlined"
                                                         ELSE "hang"]
    /\ online' = IF ONLINE \in callbacks THEN online \cup {c} ELSE online
    /\ UNCHANGED <<bpc, cpu, step, err, callbacks, idle, tpidr, gic, timerIrq,
                   resched, irqOn>>

\* ... then sets __need_resched, enables interrupts and enters run_idle.
EnterIdle(c) ==
    /\ spc[c] = "onlined"
    /\ spc' = [spc EXCEPT ![c] = "idle"]
    /\ resched' = resched \cup {c}
    /\ irqOn' = irqOn \cup {c}
    /\ UNCHANGED <<bpc, cpu, step, err, callbacks, idle, tpidr, gic, timerIrq,
                   online>>

-----------------------------------------------------------------------------
BootStep ==
    \/ PerCpuInit \/ CpuInit \/ GicV3Init \/ ArchTimerInit
    \/ LocalInterruptEnable \/ KthreadInit \/ PsciInit \/ SmpInit
    \/ BringupCallback \/ CpuWaitOnline \/ BringupDone
    \/ UserProcessInit

SecondaryStep(c) ==
    \/ SecondaryEntry(c) \/ SecondarySwitched(c) \/ InitCallback(c)
    \/ SetOnline(c) \/ EnterIdle(c)

Next == BootStep \/ UartRecv \/ \E c \in Secondary : SecondaryStep(c)

Spec == Init /\ [][Next]_vars

\* Every CPU that has been released keeps executing.
FairSpec ==
    /\ Spec
    /\ WF_vars(BootStep)
    /\ \A c \in Secondary : WF_vars(SecondaryStep(c))

-----------------------------------------------------------------------------
(* Properties                                                              *)

\* The values of the bring-up state; no CPU runs past CPUHP_ONLINE.
TypeOK ==
    /\ bpc \in BootPC
    /\ cpu \in 1 .. MaxCpus
    /\ step \in [Cpu -> 0 .. ONLINE]
    /\ err \in BOOLEAN
    /\ callbacks \subseteq CREATE_IDLE .. ONLINE
    /\ spc \in [Secondary -> SecPC]
    /\ \A v \in {idle, tpidr, gic, timerIrq, online, resched, irqOn} :
         v \subseteq Cpu

\* early_init_stack is one stack for all CPUs: at most one CPU is on its way
\* through it, because the boot CPU waits for each CPU to be online before it
\* starts the next (quest_os_boot.S:353, cpuhp.c:51).
EarlyStackExclusive ==
    Cardinality({c \in Secondary : spc[c] \in {"entry", "early"}}) <= 1

\* A CPU takes no interrupt before it can: exception entry reaches entry_task
\* and preempt_count through tpidr_el1, and the IRQ path needs the GIC and the
\* timer handler. A CPU with interrupts enabled, or reported online, has all
\* of them, whichever other CPU failed to start (smp.c:60, main.c:58).
InterruptsNeedSetup ==
    \A c \in irqOn \cup (online \cap Secondary) :
      c \in tpidr /\ c \in gic /\ c \in timerIrq /\ (c # 0 => c \in idle)

\* user_processes_register distributes processes over MAX_CPUS CPUs without
\* looking at the online mask; when it runs, every CPU is online and past
\* its initialisation, with its own idle process (process.c:952).
HandoffReady ==
    bpc = "register" =>
      /\ online = Cpu
      /\ idle = Cpu
      /\ \A c \in Secondary : spc[c] \in {"onlined", "idle"}

\* A CPU that failed to start is never mistaken for a started one: the boot
\* CPU can only wait for a CPU that the firmware has released, and no CPU
\* executes before its idle process exists.
NoLostCpu ==
    /\ bpc = "wait_online" => spc[cpu] # "off"
    /\ \A c \in Secondary : spc[c] # "off" => c \in idle

\* Whatever refuses to start, the boot CPU either stops with an error or goes
\* on to load the processes; only a CPU that was started and then hung can
\* keep it waiting in cpu_wait_online (smp.h:51).
BootDecides ==
    <>(\/ bpc \in {"uart_recv", "halt"}
       \/ bpc = "wait_online" /\ spc[cpu] = "hang")
=============================================================================
