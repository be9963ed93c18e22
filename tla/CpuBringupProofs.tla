-------------------------- MODULE CpuBringupProofs --------------------------
(***************************************************************************)
(* The bring-up of the CPUs, proved for any number of CPUs and whichever   *)
(* of the environment's failures occur; what interrupts need is proved for *)
(* an environment in which the two failures the code ignores do not occur. *)
(***************************************************************************)
EXTENDS CpuBringup, FiniteSetTheorems, TLAPS

\* The boot CPU before smp_init has returned, and after bringup_nonboot_cpus.
Early == {"per_cpu_init", "cpu_init", "gic_v3_init", "arch_timer_init",
          "irq_enable", "kthread_init", "psci_init", "smp_init"}
Handoff == {"user_process_init", "uart_recv", "register"}
Bringing == {"bringup", "wait_online"}

\* What quest_os_main has done for the boot CPU when it gets there.
BootInv ==
    /\ bpc \notin {"per_cpu_init", "cpu_init"} => 0 \in online
    /\ bpc \in {"psci_init", "smp_init"} \cup Bringing \cup Handoff =>
         0 \in idle /\ CREATE_IDLE \in callbacks
    /\ bpc \in Bringing \cup Handoff => START_CPU \in callbacks /\ ONLINE \in callbacks
    /\ bpc \in Early => cpu = 1
    /\ bpc = "wait_online" => cpu < MaxCpus /\ spc[cpu] # "off"
    /\ bpc \in Handoff => cpu = MaxCpus /\ ~err

\* The secondary CPUs: those below cpu are through or were never started, which
\* err remembers; those above it have not been touched.
ChainInv ==
    \A c \in Secondary :
      /\ c < cpu => \/ spc[c] \in {"onlined", "idle"}
                    \/ spc[c] = "off" /\ err
      /\ c > cpu => step[c] = 0
      /\ c > cpu \/ (c = cpu /\ bpc # "wait_online") => spc[c] = "off"
      /\ c = cpu /\ bpc # "wait_online" => /\ step[c] <= START_CPU
                                           /\ step[c] = START_CPU => c \in idle
      /\ spc[c] # "off" => step[c] >= PERCPU_INIT /\ c \in idle
      /\ spc[c] \in {"onlined", "idle"} <=> c \in online

IInv == TypeOK /\ BootInv /\ ChainInv

\* Nobody is without memory for the per-CPU areas or without a redistributor:
\* the code goes on in either case.
ReportedFaults == "percpu" \notin Faults /\ "rdist" \notin Faults

\* A CPU's set-up, state by state.
SetupInv ==
    /\ bpc \notin {"per_cpu_init", "halt"} => 0 \in tpidr /\ PERCPU_INIT \in callbacks
    /\ bpc \notin {"per_cpu_init", "cpu_init", "gic_v3_init", "halt"} =>
         0 \in gic /\ INIT_GIC \in callbacks
    /\ bpc \notin {"per_cpu_init", "cpu_init", "gic_v3_init", "arch_timer_init", "halt"} =>
         0 \in timerIrq /\ INIT_TIMER \in callbacks
    /\ 0 \in irqOn => 0 \in tpidr /\ 0 \in gic /\ 0 \in timerIrq
    /\ \A c \in Secondary :
         /\ c \in irqOn => spc[c] = "idle"
         /\ spc[c] \in {"entry", "early"} => step[c] = PERCPU_INIT
         /\ spc[c] = "init" =>
              /\ step[c] > PERCPU_INIT => c \in tpidr
              /\ step[c] > INIT_GIC => c \in gic
              /\ step[c] > INIT_TIMER => c \in timerIrq
         /\ spc[c] \in {"onlined", "idle"} => c \in tpidr /\ c \in gic /\ c \in timerIrq

-----------------------------------------------------------------------------
(* Facts about the constants                                               *)

\* The CPU numbers; the first secondary CPU, if any, is 1.
LEMMA CpuFacts ==
  /\ MaxCpus \in Nat \ {0}
  /\ Cpu = 0 .. MaxCpus - 1
  /\ \A c : c \in Secondary <=> c \in 1 .. MaxCpus - 1
  /\ 0 \in Cpu
BY BringupAssumption DEF Cpu, Secondary

-----------------------------------------------------------------------------
(* The invariant that needs no assumption on the environment               *)

LEMMA InitInv == Init => IInv
<1> SUFFICES ASSUME Init PROVE IInv
  OBVIOUS
<1>1. TypeOK
  <2>1. /\ step \in [Cpu -> 0 .. ONLINE]
        /\ spc \in [Secondary -> SecPC]
        /\ cpu \in 1 .. MaxCpus
    BY CpuFacts DEF Init, SecPC, ONLINE
  <2>2. bpc \in BootPC /\ err \in BOOLEAN
    BY Zenon DEF Init, BootPC
  <2>3. /\ callbacks \subseteq CREATE_IDLE .. ONLINE
        /\ \A v \in {idle, tpidr, gic, timerIrq, online, resched, irqOn} :
             v \subseteq Cpu
    BY DEF Init
  <2> QED
    BY <2>1, <2>2, <2>3 DEF TypeOK
<1>2. BootInv
  BY DEF Init, BootInv, Bringing, Handoff
<1>3. ChainInv
  BY CpuFacts DEF Init, ChainInv, START_CPU
<1> QED
  BY <1>1, <1>2, <1>3 DEF IInv

\* The steps of quest_os_main up to smp_init leave the secondary CPUs alone.
LEMMA EarlyStepInv ==
  ASSUME IInv,
         PerCpuInit \/ CpuInit \/ GicV3Init \/ ArchTimerInit
           \/ LocalInterruptEnable \/ KthreadInit \/ PsciInit \/ SmpInit
  PROVE  IInv'
<1> USE CpuFacts DEF IInv, TypeOK, BootInv, Early, Bringing, Handoff, BootPC,
                     CREATE_IDLE, START_CPU, PERCPU_INIT, INIT_GIC, INIT_TIMER,
                     ONLINE
<1>1. CASE PerCpuInit
  BY <1>1 DEF PerCpuInit, Result, ChainInv
<1>2. CASE CpuInit
  BY <1>2 DEF CpuInit, ChainInv
<1>3. CASE GicV3Init
  <2>1. gic' \subseteq Cpu
    BY <1>3 DEF GicV3Init, GicCpuInit
  <2>2. callbacks' \in {callbacks, callbacks \cup {INIT_GIC}}
    BY <1>3 DEF GicV3Init
  <2>3. TypeOK'
    BY <1>3, <2>1, <2>2 DEF GicV3Init
  <2>4. BootInv'
    BY <1>3 DEF GicV3Init
  <2>5. ChainInv'
    BY <1>3 DEF GicV3Init, ChainInv
  <2> QED
    BY <2>3, <2>4, <2>5
<1>4. CASE ArchTimerInit
  BY <1>4 DEF ArchTimerInit, ChainInv
<1>5. CASE LocalInterruptEnable
  BY <1>5 DEF LocalInterruptEnable, ChainInv
<1>6. CASE KthreadInit
  BY <1>6 DEF KthreadInit, ChainInv
<1>7. CASE PsciInit
  BY <1>7 DEF PsciInit, hwVars, Result, ChainInv
<1>8. CASE SmpInit
  BY <1>8 DEF SmpInit, hwVars, ChainInv
<1> QED
  BY <1>1, <1>2, <1>3, <1>4, <1>5, <1>6, <1>7, <1>8

\* One iteration of the boot CPU's callback loop.
LEMMA BringupCallbackInv ==
  ASSUME IInv, BringupCallback
  PROVE  IInv'
<1> USE CpuFacts DEF IInv, TypeOK, BootInv, Early, Bringing, Handoff, BootPC,
                     CREATE_IDLE, START_CPU, PERCPU_INIT, INIT_GIC, INIT_TIMER,
                     ONLINE
<1>0. /\ bpc = "bringup" /\ cpu \in Secondary /\ cpu \in Cpu /\ cpu + 1 \in 1 .. MaxCpus
      /\ CREATE_IDLE \in callbacks /\ START_CPU \in callbacks /\ spc[cpu] = "off"
      /\ step[cpu] \in 0 .. START_CPU /\ (step[cpu] = START_CPU => cpu \in idle)
      /\ UNCHANGED <<callbacks, tpidr, gic, timerIrq, online, resched, irqOn>>
  BY SMTT(30) DEF BringupCallback, ChainInv
<1>1. CASE BringupFailed
  <2>1. TypeOK'
    BY <1>0, <1>1 DEF BringupFailed
  <2>2. BootInv'
    BY <1>0, <1>1 DEF BringupFailed
  <2>3. ChainInv'
    BY <1>0, <1>1 DEF BringupFailed, ChainInv
  <2> QED
    BY <2>1, <2>2, <2>3
<1>2. CASE /\ step[cpu] # START_CPU
           /\ step' = [step EXCEPT ![cpu] = step[cpu] + 1]
           /\ idle' = idle \/ idle' = idle \cup {cpu}
           /\ step[cpu] = CREATE_IDLE => cpu \in idle'
           /\ UNCHANGED <<bpc, err, cpu, spc>>
  <2>1. TypeOK'
    BY <1>0, <1>2
  <2>2. BootInv'
    BY <1>0, <1>2
  <2>3. ChainInv'
    BY <1>0, <1>2 DEF ChainInv
  <2> QED
    BY <2>1, <2>2, <2>3
<1>3. CASE /\ step[cpu] = START_CPU
           /\ spc' = [spc EXCEPT ![cpu] = "entry"]
           /\ step' = [step EXCEPT ![cpu] = step[cpu] + 1]
           /\ bpc' = "wait_online"
           /\ UNCHANGED <<err, cpu, idle>>
  <2>1. TypeOK'
    BY <1>0, <1>3 DEF SecPC
  <2>2. BootInv'
    BY <1>0, <1>3
  <2>3. ChainInv'
    BY <1>0, <1>3 DEF ChainInv
  <2> QED
    BY <2>1, <2>2, <2>3
<1> HIDE DEF IInv, TypeOK, BootInv
<1> QED
  BY <1>0, <1>1, <1>2, <1>3 DEF BringupCallback

\* The end of the wait for a CPU, and the way to user_processes_register.
LEMMA HandoffStepInv ==
  ASSUME IInv, CpuWaitOnline \/ BringupDone \/ UserProcessInit \/ UartRecv
  PROVE  IInv'
<1> USE CpuFacts DEF IInv, TypeOK, BootInv, Early, Bringing, Handoff, BootPC,
                     CREATE_IDLE, START_CPU, PERCPU_INIT, INIT_GIC, INIT_TIMER,
                     ONLINE, hwVars
<1>1. CASE CpuWaitOnline
  <2>1. TypeOK' /\ BootInv'
    BY <1>1 DEF CpuWaitOnline
  <2>2. ChainInv'
    BY <1>1 DEF CpuWaitOnline, ChainInv
  <2> QED
    BY <2>1, <2>2
<1>2. CASE BringupDone
  <2>1. TypeOK' /\ BootInv'
    BY <1>2 DEF BringupDone
  <2>2. ChainInv'
    BY <1>2 DEF BringupDone, ChainInv
  <2> QED
    BY <2>1, <2>2
<1>3. CASE UserProcessInit
  BY <1>3 DEF UserProcessInit, ChainInv
<1>4. CASE UartRecv
  BY <1>4 DEF UartRecv, ChainInv
<1> QED
  BY <1>1, <1>2, <1>3, <1>4

\* A secondary CPU's step: it is the one the boot CPU waits for, or it is
\* already online.
LEMMA SecondaryStepInv ==
  ASSUME IInv, NEW c \in Secondary, SecondaryStep(c)
  PROVE  IInv'
<1> USE CpuFacts DEF IInv, TypeOK, BootInv, Early, Bringing, Handoff, BootPC, SecPC,
                     CREATE_IDLE, START_CPU, PERCPU_INIT, INIT_GIC, INIT_TIMER,
                     ONLINE, hwVars
<1>0. /\ c \in Cpu /\ c # 0
      /\ spc[c] \in {"entry", "early", "init"} => c = cpu /\ bpc = "wait_online"
  BY DEF ChainInv
<1>1. CASE SecondaryEntry(c)
  <2>1. TypeOK' /\ BootInv'
    BY <1>0, <1>1 DEF SecondaryEntry
  <2>2. ChainInv'
    BY <1>0, <1>1 DEF SecondaryEntry, ChainInv
  <2> QED
    BY <2>1, <2>2
<1>2. CASE SecondarySwitched(c)
  <2>e. /\ spc[c] = "early" /\ c = cpu /\ bpc = "wait_online"
        /\ spc' = [spc EXCEPT ![c] = "init"] \/ spc' = [spc EXCEPT ![c] = "hang"]
        /\ UNCHANGED <<bpc, cpu, step, err, callbacks, hwVars>>
    BY <1>0, <1>2 DEF SecondarySwitched
  <2>1. TypeOK' /\ BootInv'
    BY <1>0, <2>e
  <2>2. ChainInv'
    BY <1>0, <2>e DEF ChainInv
  <2> QED
    BY <2>1, <2>2
<1>3. CASE InitCallback(c)
  <2>e. /\ spc[c] = "init" /\ c = cpu /\ bpc = "wait_online" /\ step[c] < ONLINE
        /\ step' = [step EXCEPT ![c] = step[c] + 1]
        /\ tpidr' \subseteq Cpu /\ gic' \subseteq Cpu /\ timerIrq' \subseteq Cpu
        /\ UNCHANGED <<bpc, cpu, err, callbacks, spc, idle, online, resched, irqOn>>
    BY <1>0, <1>3 DEF InitCallback, GicCpuInit
  <2>1. TypeOK' /\ BootInv'
    BY <1>0, <2>e
  <2>2. ChainInv'
    BY <1>0, <2>e DEF ChainInv
  <2> QED
    BY <2>1, <2>2
<1>4. CASE SetOnline(c)
  <2>e. /\ spc[c] = "init" /\ c = cpu /\ bpc = "wait_online"
        /\ spc' = [spc EXCEPT ![c] = "onlined"]
        /\ online' = online \cup {c}
        /\ UNCHANGED <<bpc, cpu, step, err, callbacks, idle, tpidr, gic, timerIrq,
                       resched, irqOn>>
    BY <1>0, <1>4 DEF SetOnline
  <2>1. TypeOK' /\ BootInv'
    BY <1>0, <2>e
  <2>2. ChainInv'
    BY <1>0, <2>e DEF ChainInv
  <2> QED
    BY <2>1, <2>2
<1>5. CASE EnterIdle(c)
  <2>1. TypeOK' /\ BootInv'
    BY <1>0, <1>5 DEF EnterIdle
  <2>2. ChainInv'
    BY <1>0, <1>5 DEF EnterIdle, ChainInv
  <2> QED
    BY <2>1, <2>2
<1> QED
  BY <1>1, <1>2, <1>3, <1>4, <1>5 DEF SecondaryStep

\* The invariant holds in every reachable state, whatever fails.
THEOREM BringupInvariant == Spec => []IInv
<1>1. IInv /\ [Next]_vars => IInv'
  <2> SUFFICES ASSUME IInv, [Next]_vars PROVE IInv'
    OBVIOUS
  <2>1. CASE UNCHANGED vars
    BY <2>1 DEF vars, hwVars, IInv, TypeOK, BootInv, ChainInv
  <2>2. CASE BootStep \/ UartRecv
    BY <2>2, EarlyStepInv, BringupCallbackInv, HandoffStepInv DEF BootStep
  <2>3. CASE \E c \in Secondary : SecondaryStep(c)
    BY <2>3, SecondaryStepInv
  <2> QED
    BY <2>1, <2>2, <2>3 DEF Next
<1> QED
  BY <1>1, InitInv, PTL DEF Spec

-----------------------------------------------------------------------------
(* What it means for the system                                            *)

\* The values of the bring-up state; no CPU's callback loop runs past
\* CPUHP_ONLINE (cpuhp.c:51).
THEOREM TypeCorrect == Spec => []TypeOK
BY BringupInvariant, PTL DEF IInv

\* At most one CPU is between its release by the firmware and its own idle
\* stack, so the one early_init_stack is never shared.
THEOREM EarlyStackSafe == Spec => []EarlyStackExclusive
<1>1. IInv => EarlyStackExclusive
  <2> SUFFICES ASSUME IInv PROVE EarlyStackExclusive
    OBVIOUS
  <2> DEFINE S == {c \in Secondary : spc[c] \in {"entry", "early"}}
  <2>1. S \subseteq {cpu}
    BY CpuFacts DEF IInv, TypeOK, ChainInv
  <2>2. IsFiniteSet({cpu}) /\ Cardinality({cpu}) = 1
    BY FS_Singleton
  <2>3. Cardinality(S) <= Cardinality({cpu})
    BY <2>1, <2>2, FS_Subset
  <2> QED
    BY <2>2, <2>3 DEF EarlyStackExclusive
<1> QED
  BY <1>1, BringupInvariant, PTL

\* user_processes_register runs only when every CPU is online with an idle
\* process of its own, although it never looks at the online mask.
THEOREM HandoffSafe == Spec => []HandoffReady
<1>1. IInv => HandoffReady
  <2> SUFFICES ASSUME IInv, bpc = "register" PROVE HandoffReady
    BY DEF HandoffReady
  <2>1. cpu = MaxCpus /\ ~err /\ 0 \in online /\ 0 \in idle
    BY DEF IInv, BootInv, Handoff
  <2>2. \A c \in Secondary : /\ spc[c] \in {"onlined", "idle"}
                             /\ c \in online /\ c \in idle
    BY <2>1, CpuFacts DEF IInv, ChainInv
  <2>3. online = Cpu /\ idle = Cpu
    BY <2>1, <2>2 DEF IInv, TypeOK, Secondary
  <2> QED
    BY <2>2, <2>3 DEF HandoffReady
<1> QED
  BY <1>1, BringupInvariant, PTL

\* The boot CPU waits only for a CPU that the firmware has released, and no
\* CPU runs before its idle process exists.
THEOREM NoCpuLost == Spec => []NoLostCpu
<1>1. IInv => NoLostCpu
  BY DEF IInv, BootInv, ChainInv, NoLostCpu
<1> QED
  BY <1>1, BringupInvariant, PTL

-----------------------------------------------------------------------------
(* What interrupts need                                                    *)

LEMMA BootStepSetup ==
  ASSUME ReportedFaults, IInv, SetupInv, BootStep \/ UartRecv
  PROVE  SetupInv'
<1> USE DEF SetupInv, CREATE_IDLE, START_CPU, PERCPU_INIT, INIT_GIC, INIT_TIMER, ONLINE
<1>1. CASE PerCpuInit
  BY <1>1 DEF PerCpuInit, Result, ReportedFaults
<1>2. CASE CpuInit
  BY <1>2 DEF CpuInit
<1>3. CASE GicV3Init
  BY <1>3 DEF GicV3Init, GicCpuInit, Result, ReportedFaults
<1>4. CASE ArchTimerInit
  BY <1>4 DEF ArchTimerInit
<1>5. CASE LocalInterruptEnable
  BY <1>5, CpuFacts DEF LocalInterruptEnable
<1>6. CASE KthreadInit
  BY <1>6 DEF KthreadInit
<1>7. CASE PsciInit
  BY <1>7 DEF PsciInit, hwVars
<1>8. CASE SmpInit
  BY <1>8 DEF SmpInit, hwVars
<1>9. CASE BringupCallback
  <2>1. /\ bpc = "bringup" /\ bpc' \in {"bringup", "wait_online"}
        /\ spc' = spc \/ spc' = [spc EXCEPT ![cpu] = "entry"]
        /\ step' = step \/ step' = [step EXCEPT ![cpu] = step[cpu] + 1]
        /\ UNCHANGED <<callbacks, tpidr, gic, timerIrq, online, resched, irqOn>>
    BY <1>9 DEF BringupCallback, BringupFailed
  <2>2. cpu \in Secondary /\ spc[cpu] = "off"
    BY <1>9, CpuFacts DEF BringupCallback, IInv, TypeOK, ChainInv
  <2>3. /\ spc'[cpu] \in {"off", "entry"}
        /\ \A c \in Secondary \ {cpu} : spc'[c] = spc[c] /\ step'[c] = step[c]
    BY <2>1, <2>2, CpuFacts DEF IInv, TypeOK
  <2>4. cpu \notin irqOn
    BY <2>2
  <2>5. spc'[cpu] = "entry" => step'[cpu] = PERCPU_INIT
    BY <1>9, <2>2, CpuFacts DEF BringupCallback, BringupFailed, IInv, TypeOK
  <2> QED
    BY <2>1, <2>2, <2>3, <2>4, <2>5
<1>10. CASE CpuWaitOnline
  BY <1>10 DEF CpuWaitOnline, hwVars
<1>11. CASE BringupDone
  BY <1>11 DEF BringupDone, hwVars
<1>12. CASE UserProcessInit
  BY <1>12 DEF UserProcessInit, hwVars
<1>13. CASE UartRecv
  BY <1>13 DEF UartRecv, hwVars
<1> QED
  BY <1>1, <1>2, <1>3, <1>4, <1>5, <1>6, <1>7, <1>8, <1>9, <1>10, <1>11, <1>12,
     <1>13 DEF BootStep

LEMMA SecondaryStepSetup ==
  ASSUME ReportedFaults, IInv, SetupInv, NEW c \in Secondary, SecondaryStep(c)
  PROVE  SetupInv'
<1> USE DEF SetupInv, CREATE_IDLE, START_CPU, PERCPU_INIT, INIT_GIC, INIT_TIMER, ONLINE
<1>0. /\ c # 0 /\ c \in Cpu /\ spc \in [Secondary -> SecPC] /\ step \in [Cpu -> 0 .. ONLINE]
      /\ spc[c] # "off" => step[c] >= PERCPU_INIT
      /\ spc[c] \in {"entry", "early", "init"} => c = cpu /\ bpc = "wait_online"
      /\ Secondary \subseteq Cpu
  BY CpuFacts DEF IInv, TypeOK, ChainInv
<1>1. CASE SecondaryEntry(c)
  BY <1>0, <1>1 DEF SecondaryEntry, hwVars
<1>2. CASE SecondarySwitched(c)
  <2>1. /\ bpc = "wait_online" /\ spc[c] = "early" /\ step[c] = PERCPU_INIT
        /\ spc' = [spc EXCEPT ![c] = "init"] \/ spc' = [spc EXCEPT ![c] = "hang"]
        /\ UNCHANGED <<bpc, cpu, step, err, callbacks, hwVars>>
    BY <1>0, <1>2 DEF SecondarySwitched
  <2> QED
    BY <1>0, <2>1 DEF hwVars
<1>3. CASE InitCallback(c)
  <2>1. /\ spc[c] = "init" /\ bpc = "wait_online"
        /\ step' = [step EXCEPT ![c] = step[c] + 1]
        /\ tpidr' = IF step[c] = PERCPU_INIT THEN tpidr \cup {c} ELSE tpidr
        /\ gic' = IF step[c] = INIT_GIC THEN gic \cup {c} ELSE gic
        /\ timerIrq' = IF step[c] = INIT_TIMER THEN timerIrq \cup {c} ELSE timerIrq
        /\ UNCHANGED <<bpc, cpu, err, callbacks, spc, idle, online, resched, irqOn>>
    BY <1>0, <1>3 DEF InitCallback, GicCpuInit, Result, ReportedFaults
  <2> QED
    BY <1>0, <2>1
<1>4. CASE SetOnline(c)
  BY <1>0, <1>4 DEF SetOnline
<1>5. CASE EnterIdle(c)
  BY <1>0, <1>5 DEF EnterIdle
<1> QED
  BY <1>1, <1>2, <1>3, <1>4, <1>5 DEF SecondaryStep

\* In an environment without the two failures that the code ignores, a CPU
\* that takes interrupts or is reported online has its per-CPU base, its GIC
\* interface, its timer handler and its idle process, whichever other CPU
\* failed to start.
THEOREM InterruptsSafe == ReportedFaults /\ Spec => []InterruptsNeedSetup
<1> SUFFICES ASSUME ReportedFaults PROVE Spec => []InterruptsNeedSetup
  OBVIOUS
<1>1. Init => SetupInv
  BY CpuFacts DEF Init, SetupInv
<1>2. IInv /\ SetupInv /\ [Next]_vars => SetupInv'
  <2> SUFFICES ASSUME IInv, SetupInv, [Next]_vars PROVE SetupInv'
    OBVIOUS
  <2>1. CASE UNCHANGED vars
    BY <2>1 DEF vars, hwVars, SetupInv
  <2>2. CASE BootStep \/ UartRecv
    BY <2>2, BootStepSetup
  <2>3. CASE \E c \in Secondary : SecondaryStep(c)
    BY <2>3, SecondaryStepSetup
  <2> QED
    BY <2>1, <2>2, <2>3 DEF Next
<1>3. IInv /\ SetupInv => InterruptsNeedSetup
  BY CpuFacts DEF IInv, TypeOK, ChainInv, SetupInv, InterruptsNeedSetup, Secondary
<1> QED
  BY <1>1, <1>2, <1>3, BringupInvariant, PTL DEF Spec

=============================================================================
